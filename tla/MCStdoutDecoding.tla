------------------------- MODULE MCStdoutDecoding -------------------------
EXTENDS StdoutDecoding

\* Writes: a 2-byte character at the start of a line, a 3-byte one in the
\* middle, one in an unterminated last line, and one next to a newline.
MCWrites ==
  { <<"e2", NL, "a", "z3", NL>>,
    <<"a", NL, "z3", "e2">>,
    <<"z3", NL, NL, "a">> }
=============================================================================
