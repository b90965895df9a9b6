------------------------ MODULE CodexAuthLiveProofs ------------------------
(***************************************************************************)
(* Proof that the credential chain is never broken (RefreshTokenLive)     *)
(* when no caller crashes or loses an answer and write-back is on, for    *)
(* any set of callers, any bounds and leeway, and whether or not the      *)
(* endpoint rotates refresh tokens.  With faults the property fails (run  *)
(* auth_lost_rotation), and without write-back the caller that refreshed  *)
(* owns the new token by design.  The inductive invariant is              *)
(* TypeOK /\ LiveInv (CodexAuth): a rotating endpoint accepts only the    *)
(* newest token, and that token is either the file's or the one answered  *)
(* caller's, which nobody else has read.                                  *)
(***************************************************************************)
EXTENDS CodexAuthProofs

\* The configuration the theorem is about: no crash, no lost answer, and
\* writeJsonFile after a refresh.
Reliable == Faults = {} /\ WriteBack = TRUE

\* Answered and Held of one caller depend only on that caller's variables.
LEMMA OwnVarsKept ==
  ASSUME NEW d, pc'[d] = pc[d], resp'[d] = resp[d], snap'[d] = snap[d]
  PROVE  Answered(d)' = Answered(d) /\ Held(d)' = Held(d)
BY DEF Answered, Held

\* The initial states satisfy LiveInv.
LEMMA InitLive == Init => LiveInv
<1> SUFFICES ASSUME Init PROVE LiveInv
  OBVIOUS
<1>1. PICK e \in {Unknown} \cup (0..MaxTime), r \in {0, 1} :
        /\ disk \in {NoDoc, [at |-> 1, rt |-> r, stamped |-> FALSE]}
        /\ valid = IF r = 1 THEN {1} ELSE {}
  BY DEF Init
<1>2. disk.rt \in {0} \cup valid /\ disk.rt <= 1
  BY <1>1 DEF NoDoc
<1>3. \A c \in Callers : ~Answered(c)
  BY DEF Init, Answered, NoResp
<1>4. TokensHeld
  BY <1>2 DEF Init, TokensHeld, NoDoc, NoResp
<1>5. KeptTokens
  BY <1>2 DEF Init, KeptTokens, NoDoc, NoResp
<1>6. OwnedToken
  BY <1>1, <1>2, <1>3 DEF Init, OwnedToken
<1>7. QED BY <1>4, <1>5, <1>6 DEF LiveInv

\* LiveInv gives RefreshTokenLive.
LEMMA LiveInvSafe == TypeOK /\ LiveInv => RefreshTokenLive
<1> SUFFICES ASSUME TypeOK, LiveInv PROVE RefreshTokenLive
  OBVIOUS
<1>1. CASE ~rotates
  BY <1>1 DEF LiveInv, KeptTokens, RefreshTokenLive
<1>2. CASE rotates /\ \E c \in Callers : Answered(c)
  <2>1. PICK c \in Callers : Answered(c)
    BY <1>2
  <2>2. resp[c].rt = issued /\ issued \in valid /\ issued # 0
    BY <1>2, <2>1 DEF LiveInv, OwnedToken, TypeOK
  <2>3. QED BY <2>1, <2>2 DEF Answered, RefreshTokenLive
<1>3. CASE rotates /\ \A c \in Callers : ~Answered(c)
  BY <1>3 DEF LiveInv, OwnedToken, RefreshTokenLive
<1>4. QED BY <1>1, <1>2, <1>3

\* getCodexCliAuth's read copies the file's refresh token, which no
\* answered caller's token can be.
LEMMA ReadLive ==
  ASSUME TypeOK, LiveInv, NEW c \in Callers, Read(c) PROVE LiveInv'
<1>1. /\ pc[c] = "idle" /\ snap' = [snap EXCEPT ![c] = disk]
      /\ pc'[c] \in {"done", "fetching"}
      /\ UNCHANGED <<disk, valid, issued, rotates, resp, next>>
  BY DEF Read, serverVars, TypeOK
<1>2. \A d \in Callers \ {c} : pc'[d] = pc[d] /\ snap'[d] = snap[d]
  BY <1>1, ZenonT(30) DEF Read, TypeOK
<1>3. \A d \in Callers \ {c} : Answered(d)' = Answered(d) /\ Held(d)' = Held(d)
  BY <1>1, <1>2, OwnVarsKept
<1>4. ~Answered(c) /\ ~Answered(c)' /\ snap'[c] = disk
  BY <1>1 DEF Answered, TypeOK
<1>5. TokensHeld'
  BY <1>1, <1>2, <1>3, <1>4 DEF LiveInv, TokensHeld
<1>6. KeptTokens'
  BY <1>1, <1>2, <1>4 DEF LiveInv, KeptTokens
<1>7. OwnedToken'
  <2> SUFFICES ASSUME rotates PROVE OwnedToken'
    BY <1>1 DEF OwnedToken
  <2>1. \A d \in Callers : Answered(d)' => d # c /\ Answered(d)
    BY <1>3, <1>4
  <2>2. (\A d \in Callers : ~Answered(d)') => \A d \in Callers : ~Answered(d)
    BY <1>3, <1>4
  <2>3. QED BY <1>1, <1>2, <2>1, <2>2, <1>4 DEF LiveInv, OwnedToken
<1>8. QED BY <1>5, <1>6, <1>7 DEF LiveInv


\* The POST to the token endpoint.  It succeeds only with the accepted
\* token; with rotation that token is the newest, so no caller held an
\* answer, and the new token is the caller's alone.
LEMMA FetchLive ==
  ASSUME TypeOK, LiveInv, NEW c \in Callers, Fetch(c) PROVE LiveInv'
<1>1. /\ pc[c] = "fetching" /\ pc' = [pc EXCEPT ![c] = "responded"]
      /\ UNCHANGED <<disk, snap, next>>
  BY DEF Fetch
<1>2. \A d \in Callers \ {c} : pc'[d] = pc[d] /\ snap'[d] = snap[d] /\ resp'[d] = resp[d]
  BY <1>1, ZenonT(30) DEF Fetch, TypeOK
<1>3. \A d \in Callers \ {c} : Answered(d)' = Answered(d) /\ Held(d)' = Held(d)
  BY <1>2, OwnVarsKept
<1>4. ~Answered(c) /\ pc'[c] = "responded"
  BY <1>1 DEF Answered, TypeOK
<1>5. CASE Issue(snap[c].rt) /\ resp' = [resp EXCEPT ![c] = Answer]
  <2>1. /\ snap[c].rt \in valid /\ issued < MaxIssued /\ issued' = issued + 1
        /\ valid' = IF rotates THEN (valid \ {snap[c].rt}) \cup {issued + 1} ELSE valid
        /\ rotates' = rotates /\ resp'[c] = Answer
    BY <1>5 DEF Issue, TypeOK
  <2>2. issued \in Nat /\ disk.rt \in Nat /\ \A d \in Callers : snap[d].rt \in Nat
    BY DEF TypeOK, Docs
  <2>3. TokensHeld'
    <3>1. disk'.rt <= issued'
      BY <1>1, <2>1, <2>2 DEF LiveInv, TokensHeld
    <3>2. \A d \in Callers : snap'[d].rt <= issued' /\ resp'[d].rt <= issued' /\ next'[d].rt <= issued'
      <4> SUFFICES ASSUME NEW d \in Callers
                   PROVE  snap'[d].rt <= issued' /\ resp'[d].rt <= issued' /\ next'[d].rt <= issued'
        OBVIOUS
      <4>1. snap'[d].rt <= issued' /\ next'[d].rt <= issued'
        <5>1. snap[d].rt <= issued /\ next[d].rt <= issued
          BY DEF LiveInv, TokensHeld
        <5>2. snap[d].rt \in Nat /\ next[d].rt \in Nat
          <6>1. snap[d] \in Docs /\ next[d] \in Docs
            BY DEF TypeOK
          <6>2. QED BY <6>1 DEF Docs
        <5>3. snap'[d] = snap[d] /\ next'[d] = next[d]
          BY <1>1
        <5>4. QED BY <5>1, <5>2, <5>3, <2>1, <2>2
      <4>2. CASE d = c
        <5>1. resp'[d].rt \in {issued + 1, 0}
          BY <2>1, <4>2 DEF Answer
        <5>2. QED BY <5>1, <4>1, <2>1, <2>2
      <4>3. CASE d # c
        <5>1. resp[d].rt \in Nat /\ resp[d].rt <= issued
          BY DEF LiveInv, TokensHeld, TypeOK
        <5>2. QED BY <5>1, <4>1, <4>3, <1>2, <2>1, <2>2
      <4>4. QED BY <4>1, <4>2, <4>3
    <3>3. \A d \in Callers : pc'[d] \in {"writing", "renaming"} => resp'[d].ok /\ next'[d].rt = Held(d)'
      BY <1>1, <1>2, <1>3, <1>4 DEF LiveInv, TokensHeld
    <3>4. QED BY <3>1, <3>2, <3>3 DEF TokensHeld
  <2>4. KeptTokens'
    BY <1>1, <1>2, <2>1 DEF LiveInv, KeptTokens, Answer
  <2>5. OwnedToken'
    <3> SUFFICES ASSUME rotates PROVE OwnedToken'
      BY <2>1 DEF OwnedToken
    <3>1. snap[c].rt = issued /\ valid' = {issued + 1}
      BY <2>1 DEF LiveInv, OwnedToken
    <3>2. \A d \in Callers : ~Answered(d)
      BY <1>4, <3>1 DEF LiveInv, OwnedToken
    <3>3. \A d \in Callers : Answered(d)' <=> d = c
      BY <1>3, <1>4, <2>1, <3>2 DEF Answered, Answer
    <3>4. disk.rt # issued' /\ \A d \in Callers \ {c} : snap[d].rt # issued'
      BY <2>1, <2>2 DEF LiveInv, TokensHeld
    <3>5. resp'[c].rt = issued'
      BY <2>1 DEF Answer
    <3>6. QED BY <1>1, <1>2, <2>1, <3>1, <3>3, <3>4, <3>5 DEF OwnedToken
  <2>6. QED BY <2>3, <2>4, <2>5 DEF LiveInv
<1>6. CASE snap[c].rt \notin valid /\ resp' = [resp EXCEPT ![c] = NoResp] /\ UNCHANGED serverVars
  <2>1. resp'[c] = NoResp /\ UNCHANGED <<valid, issued, rotates>>
    BY <1>6 DEF serverVars, TypeOK
  <2>2. ~Answered(c)'
    BY <2>1 DEF Answered, NoResp
  <2>3. TokensHeld'
    BY <1>1, <1>2, <1>3, <1>4, <2>1 DEF LiveInv, TokensHeld, NoResp, TypeOK
  <2>4. KeptTokens'
    BY <1>1, <1>2, <2>1 DEF LiveInv, KeptTokens, NoResp
  <2>5. OwnedToken'
    <3> SUFFICES ASSUME rotates PROVE OwnedToken'
      BY <2>1 DEF OwnedToken
    <3>1. \A d \in Callers : Answered(d)' => d # c /\ Answered(d)
      BY <1>3, <2>2
    <3>2. (\A d \in Callers : ~Answered(d)') => \A d \in Callers : ~Answered(d)
      BY <1>3, <1>4
    <3>3. QED BY <1>1, <1>2, <2>1, <3>1, <3>2 DEF LiveInv, OwnedToken
  <2>6. QED BY <2>3, <2>4, <2>5 DEF LiveInv
<1>7. QED BY <1>5, <1>6 DEF Fetch


\* A step that touches none of the variables LiveInv reads keeps it.
LEMMA UntouchedLive ==
  ASSUME LiveInv, UNCHANGED <<disk, valid, issued, rotates, pc, snap, resp, next>>
  PROVE  LiveInv'
BY DEF LiveInv, TokensHeld, KeptTokens, OwnedToken, Answered, Held

\* A caller's step that moves only its own pc and next, keeps whether it
\* holds an answer, and writes back only the token it holds.
LEMMA LocalLive ==
  ASSUME TypeOK, LiveInv, NEW c \in Callers,
         UNCHANGED <<disk, valid, issued, rotates, snap, resp>>,
         \A d \in Callers \ {c} : pc'[d] = pc[d] /\ next'[d] = next[d],
         Answered(c)' = Answered(c), next'[c].rt <= issued,
         pc'[c] \in {"writing", "renaming"} => resp[c].ok /\ next'[c].rt = Held(c)
  PROVE  LiveInv'
<1>1. \A d \in Callers : Answered(d)' = Answered(d) /\ Held(d)' = Held(d)
  <2> SUFFICES ASSUME NEW d \in Callers PROVE Answered(d)' = Answered(d) /\ Held(d)' = Held(d)
    OBVIOUS
  <2>1. CASE d = c
    BY <2>1 DEF Held
  <2>2. CASE d # c
    BY <2>2, OwnVarsKept
  <2>3. QED BY <2>1, <2>2
<1>2. TokensHeld'
  <2> SUFFICES ASSUME NEW d \in Callers
               PROVE  /\ next'[d].rt <= issued
                      /\ pc'[d] \in {"writing", "renaming"} => resp[d].ok /\ next'[d].rt = Held(d)
    BY <1>1 DEF LiveInv, TokensHeld
  <2>1. CASE d = c
    BY <2>1
  <2>2. CASE d # c
    BY <2>2 DEF LiveInv, TokensHeld
  <2>3. QED BY <2>1, <2>2
<1>3. KeptTokens'
  BY DEF LiveInv, KeptTokens
<1>4. OwnedToken'
  BY <1>1 DEF LiveInv, OwnedToken
<1>5. QED BY <1>2, <1>3, <1>4 DEF LiveInv

\* refreshTokens' answer taken: a failure throws, a success keeps the
\* refresh token the caller holds and goes on to write it back.
LEMMA ReceiveLive ==
  ASSUME TypeOK, LiveInv, Reliable, NEW c \in Callers, Receive(c) PROVE LiveInv'
<1>1. /\ pc[c] = "responded"
      /\ UNCHANGED <<disk, valid, issued, rotates, snap, resp>>
      /\ \A d \in Callers \ {c} : pc'[d] = pc[d] /\ next'[d] = next[d]
  BY ZenonT(30) DEF Receive, serverVars, TypeOK
<1>2. CASE ~resp[c].ok
  <2>1. pc'[c] = "failed" /\ next' = next
    BY <1>2 DEF Receive, TypeOK
  <2>2. Answered(c)' = Answered(c) /\ next'[c].rt <= issued
    BY <1>1, <1>2, <2>1 DEF Answered, LiveInv, TokensHeld
  <2>3. QED BY <1>1, <2>1, <2>2, LocalLive
<1>3. CASE resp[c].ok
  <2>1. /\ pc'[c] = "writing"
        /\ next'[c] = [at |-> resp[c].at, rt |-> Held(c), stamped |-> TRUE]
    BY <1>3 DEF Receive, Reliable, Held, TypeOK
  <2>2. Answered(c)' = Answered(c)
    BY <1>1, <2>1 DEF Answered
  <2>3. next'[c].rt <= issued
    BY <2>1 DEF Held, LiveInv, TokensHeld
  <2>4. QED BY <1>1, <1>3, <2>1, <2>2, <2>3, LocalLive
<1>4. QED BY <1>2, <1>3

\* writeJsonFile's temporary file: only the caller's pc moves.
LEMMA WriteTmpLive ==
  ASSUME TypeOK, LiveInv, NEW c \in Callers, WriteTmp(c) PROVE LiveInv'
<1>1. /\ pc[c] = "writing" /\ pc'[c] = "renaming"
      /\ UNCHANGED <<disk, valid, issued, rotates, snap, resp, next>>
      /\ \A d \in Callers \ {c} : pc'[d] = pc[d]
  BY ZenonT(30) DEF WriteTmp, serverVars, TypeOK
<1>2. Answered(c)' = Answered(c)
  BY <1>1 DEF Answered
<1>3. next'[c].rt <= issued /\ resp[c].ok /\ next'[c].rt = Held(c)
  BY <1>1 DEF LiveInv, TokensHeld
<1>4. QED BY <1>1, <1>2, <1>3, LocalLive


\* rename(tmpPath, path): the file gets the token the caller holds, which
\* under rotation is the accepted one.
LEMMA RenameLive ==
  ASSUME TypeOK, LiveInv, NEW c \in Callers, Rename(c) PROVE LiveInv'
<1>1. /\ pc[c] = "renaming" /\ pc'[c] = "done" /\ disk' = next[c]
      /\ UNCHANGED <<valid, issued, rotates, snap, resp, next>>
      /\ \A d \in Callers \ {c} : pc'[d] = pc[d]
  BY ZenonT(30) DEF Rename, serverVars, TypeOK
<1>2. \A d \in Callers \ {c} : Answered(d)' = Answered(d) /\ Held(d)' = Held(d)
  BY <1>1, OwnVarsKept
<1>3. Answered(c) /\ ~Answered(c)' /\ disk'.rt = Held(c)
  BY <1>1 DEF Answered, LiveInv, TokensHeld
<1>4. TokensHeld'
  BY <1>1, <1>2 DEF LiveInv, TokensHeld
<1>5. KeptTokens'
  <2> SUFFICES ASSUME ~rotates PROVE disk'.rt \in {0} \cup valid
    BY <1>1 DEF LiveInv, KeptTokens
  <2>1. resp[c].rt = 0 /\ snap[c].rt \in {0} \cup valid
    BY DEF LiveInv, KeptTokens
  <2>2. QED BY <1>1, <1>3, <2>1 DEF Held
<1>6. OwnedToken'
  <2> SUFFICES ASSUME rotates PROVE OwnedToken'
    BY <1>1 DEF OwnedToken
  <2>1. \A d \in Callers : ~Answered(d)'
    <3>1. \A d \in Callers \ {c} : ~Answered(d)
      BY <1>3 DEF LiveInv, OwnedToken
    <3>2. QED BY <1>2, <1>3, <3>1
  <2>2. resp[c].rt = issued /\ issued \in valid /\ issued # 0
    BY <1>3 DEF LiveInv, OwnedToken, TypeOK
  <2>3. disk'.rt \in valid
    BY <1>3, <2>2 DEF Held
  <2>4. QED BY <1>1, <2>1, <2>3 DEF LiveInv, OwnedToken
<1>7. QED BY <1>4, <1>5, <1>6 DEF LiveInv

\* The Codex CLI's own refresh uses the file's token, which under rotation
\* is accepted only while no caller holds an answer.
LEMMA CliRefreshLive ==
  ASSUME TypeOK, LiveInv, CliRefresh PROVE LiveInv'
<1>1. /\ Issue(disk.rt) /\ UNCHANGED <<pc, snap, resp, next>>
      /\ disk'.rt = IF rotates THEN issued + 1 ELSE disk.rt
  BY DEF CliRefresh, callerVars
<1>2. /\ disk.rt \in valid /\ issued' = issued + 1 /\ rotates' = rotates
      /\ valid' = IF rotates THEN (valid \ {disk.rt}) \cup {issued + 1} ELSE valid
  BY <1>1 DEF Issue
<1>3. \A d \in Callers : Answered(d)' = Answered(d) /\ Held(d)' = Held(d)
  BY <1>1 DEF Answered, Held
<1>4. TokensHeld'
  <2>1. issued \in Nat /\ disk.rt \in Nat
    BY DEF TypeOK, Docs
  <2>2. disk'.rt <= issued'
    BY <1>1, <1>2, <2>1 DEF LiveInv, TokensHeld
  <2>3. \A d \in Callers : snap[d].rt <= issued' /\ resp[d].rt <= issued' /\ next[d].rt <= issued'
    <3> SUFFICES ASSUME NEW d \in Callers
                 PROVE  snap[d].rt <= issued' /\ resp[d].rt <= issued' /\ next[d].rt <= issued'
      OBVIOUS
    <3>1. snap[d].rt <= issued /\ resp[d].rt <= issued /\ next[d].rt <= issued
      BY DEF LiveInv, TokensHeld
    <3>2. snap[d] \in Docs /\ next[d] \in Docs /\ resp[d].rt \in 0..MaxIssued
      BY DEF TypeOK
    <3>3. snap[d].rt \in Nat /\ next[d].rt \in Nat /\ resp[d].rt \in Nat
      BY <3>2 DEF Docs
    <3>4. QED BY <1>2, <2>1, <3>1, <3>3
  <2>4. QED BY <1>1, <1>3, <2>2, <2>3 DEF LiveInv, TokensHeld
<1>5. KeptTokens'
  BY <1>1, <1>2 DEF LiveInv, KeptTokens
<1>6. OwnedToken'
  <2> SUFFICES ASSUME rotates PROVE OwnedToken'
    BY <1>2 DEF OwnedToken
  <2>1. disk.rt = issued /\ valid' = {issued + 1} /\ disk'.rt = issued + 1
    BY <1>1, <1>2 DEF LiveInv, OwnedToken
  <2>2. \A d \in Callers : ~Answered(d)'
    BY <1>3, <2>1 DEF LiveInv, OwnedToken
  <2>3. QED BY <1>2, <2>1, <2>2 DEF OwnedToken
<1>7. QED BY <1>4, <1>5, <1>6 DEF LiveInv


\* With no faults and write-back on, each step of Next keeps LiveInv: the
\* crash and the lost answer are disabled.
LEMMA NextLive ==
  ASSUME Reliable, IInv, LiveInv, [Next]_vars PROVE LiveInv'
<1>1. TypeOK
  BY DEF IInv
<1>2. ASSUME NEW c \in Callers, FetchLost(c) \/ Crash(c) PROVE FALSE
  BY <1>2 DEF Reliable, FetchLost, Crash
<1>3. CASE \E c \in Callers :
             \/ Read(c) \/ Fetch(c) \/ FetchLost(c) \/ Receive(c)
             \/ WriteTmp(c) \/ Rename(c) \/ Crash(c)
  BY <1>1, <1>2, <1>3, ReadLive, FetchLive, ReceiveLive, WriteTmpLive, RenameLive
<1>4. CASE CliRefresh
  BY <1>1, <1>4, CliRefreshLive
<1>5. CASE Tick \/ ReadOnlyRead \/ UNCHANGED vars
  <2>1. UNCHANGED <<disk, valid, issued, rotates, pc, snap, resp, next>>
    BY <1>5 DEF Tick, ReadOnlyRead, vars, serverVars, callerVars
  <2>2. QED BY <2>1, UntouchedLive
<1>6. QED BY <1>3, <1>4, <1>5 DEF Next

\* When no getCodexCliAuth call crashes or loses the endpoint's answer and
\* refreshed tokens are written back, the credential chain is never broken,
\* for any number of callers, any bounds and leeway, and a rotating or a
\* non-rotating endpoint: the file's refresh token is accepted, or the one
\* caller holding the rotated token is about to rename it into place.
THEOREM RefreshTokenLiveHolds == Reliable => (Spec => []RefreshTokenLive)
<1> SUFFICES ASSUME Reliable PROVE Spec => []RefreshTokenLive
  OBVIOUS
<1>1. Init => IInv /\ LiveInv
  BY InitIInv, InitLive
<1>2. IInv /\ LiveInv /\ [Next]_vars => IInv' /\ LiveInv'
  BY NextIInv, NextLive
<1>3. IInv /\ LiveInv => RefreshTokenLive
  BY LiveInvSafe DEF IInv
<1>4. QED BY <1>1, <1>2, <1>3, PTL DEF Spec

=============================================================================
