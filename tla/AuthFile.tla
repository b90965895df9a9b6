------------------------------ MODULE AuthFile ------------------------------
(***************************************************************************)
(* What the credential refresher promises about the auth file and the     *)
(* token endpoint (spec 4.6, 5), whoever refreshes and however many do:   *)
(* the endpoint issues a new access token only against a refresh token it *)
(* accepts; a refresher's exchange leaves the file as it is, whether it   *)
(* succeeds, fails or loses its answer; and the file is only ever         *)
(* replaced as a whole, by a credential the endpoint issued as a pair:   *)
(* an access token with the refresh token that goes with it (the new one  *)
(* when the endpoint rotates, else the one it was exchanged against).     *)
(* Refreshers are not coordinated, so a replacement may put back an older *)
(* pair (last writer wins).  The Codex CLI exchanges the file's own       *)
(* refresh token and replaces the file in one step.                       *)
(***************************************************************************)
EXTENDS Integers

CONSTANT MaxIssued   \* the number of tokens the endpoint may issue

VARIABLES
  file,      \* the credential in the auth file: access and refresh token
  valid,     \* the refresh tokens the endpoint accepts
  issued,    \* tokens issued so far
  rotates,   \* the endpoint revokes a refresh token when it issues a new one
  grants     \* the credentials the endpoint issued, each as a pair

vars == <<file, valid, issued, rotates, grants>>
server == <<valid, issued, rotates, grants>>

\* A token number, 0 for none.
NoCredential == [at |-> 0, rt |-> 0]

Init ==
  /\ \E r \in {0, 1} :
       /\ file \in {NoCredential, [at |-> 1, rt |-> r]}
       /\ valid = IF r = 1 THEN {1} ELSE {}
  /\ issued = 1
  /\ rotates \in BOOLEAN
  /\ grants = {}

\* The endpoint's side of a refresh with refresh token rt: a new access
\* token, paired with a new refresh token or with rt.
Grant(rt) == [at |-> issued + 1, rt |-> IF rotates THEN issued + 1 ELSE rt]

Exchange(rt) ==
  /\ rt \in valid
  /\ issued < MaxIssued
  /\ issued' = issued + 1
  /\ valid' = IF rotates THEN (valid \ {rt}) \cup {issued + 1} ELSE valid
  /\ grants' = grants \cup {Grant(rt)}
  /\ UNCHANGED rotates

\* A refresher's POST: the file is not touched.
Refresh ==
  /\ \E rt \in 0..MaxIssued : Exchange(rt)
  /\ UNCHANGED file

\* A refresher's write-back: the whole file becomes an issued pair.
Replace ==
  /\ \E cred \in grants : file' = cred
  /\ UNCHANGED server

\* The Codex CLI refreshes with the file's token and replaces the file.
CliReplace ==
  /\ file.at # 0
  /\ Exchange(file.rt)
  /\ file' = Grant(file.rt)

Next == Refresh \/ Replace \/ CliReplace

Spec == Init /\ [][Next]_vars
=============================================================================
