------------------------------- MODULE MCPreview -------------------------------
(***************************************************************************)
(* The previews on texts of up to 6 code units.  The limits are small      *)
(* stand-ins for the code's 80, 200 and 50: each is below the longest      *)
(* text, so every renderer both keeps a text and cuts one, and the cut of  *)
(* each falls at every position of a surrogate pair.                       *)
(***************************************************************************)
EXTENDS Preview

MCPromptLimit == 5
MCResultLimit == 4
MCOutputLimit == 3
MCMaxLen == 6
=============================================================================
