------------------------ MODULE CodexAuthRefinement ------------------------
(***************************************************************************)
(* Proof that the credential refresher implements AuthFile for any set of *)
(* callers, any bounds, leeway, write-back setting and faults.  The       *)
(* refinement mapping keeps the endpoint's state and shows of the auth    *)
(* file only its access and refresh token; every caller's local state,    *)
(* the clock, the expiries, the temporary files and the read-only reader  *)
(* are hidden.  A successful or lost POST is AuthFile's Refresh, rename   *)
(* is Replace, the CLI's refresh is CliReplace, and every other step is a *)
(* stutter.  Replace needs a pair the endpoint issued together, which    *)
(* the inductive invariant Paired gives; TokensHeld, proved first, bounds *)
(* every refresh token anyone holds by the tokens issued.                 *)
(***************************************************************************)
EXTENDS CodexAuthProofs

\* TokensHeld for one caller.
TokHeld(c) ==
  /\ snap[c].rt <= issued /\ resp[c].rt <= issued /\ next[c].rt <= issued
  /\ pc[c] \in {"writing", "renaming"} => resp[c].ok /\ next[c].rt = Held(c)

LEMMA TokHeldAll == TokensHeld <=> disk.rt <= issued /\ \A c \in Callers : TokHeld(c)
BY DEF TokensHeld, TokHeld

\* The refresh-token fields are natural numbers.
LEMMA RtNat ==
  ASSUME TypeOK, NEW d \in Callers
  PROVE  /\ snap[d].rt \in Nat /\ next[d].rt \in Nat /\ resp[d].rt \in Nat
         /\ disk.rt \in Nat /\ issued \in Nat
<1>1. snap[d] \in Docs /\ next[d] \in Docs /\ disk \in Docs /\ resp[d].rt \in 0..MaxIssued
  BY DEF TypeOK
<1>2. QED BY <1>1 DEF Docs, TypeOK

\* A step that leaves a caller's variables alone and issues no token, or
\* one more, keeps TokHeld of that caller.
LEMMA TokHeldKept ==
  ASSUME TypeOK, NEW d \in Callers, TokHeld(d), issued' \in {issued, issued + 1},
         pc'[d] = pc[d], snap'[d] = snap[d], resp'[d] = resp[d], next'[d] = next[d]
  PROVE  TokHeld(d)'
<1>1. snap[d].rt \in Nat /\ next[d].rt \in Nat /\ resp[d].rt \in Nat /\ issued \in Nat
  BY RtNat
<1>2. snap'[d].rt <= issued' /\ resp'[d].rt <= issued' /\ next'[d].rt <= issued'
  BY <1>1 DEF TokHeld
<1>3. Held(d)' = Held(d)
  BY DEF Held
<1>4. QED BY <1>2, <1>3 DEF TokHeld

\* Every caller but c keeps TokHeld.
LEMMA OthersTokHeld ==
  ASSUME TypeOK, TokensHeld, NEW c \in Callers, issued' \in {issued, issued + 1},
         \A d \in Callers \ {c} :
           pc'[d] = pc[d] /\ snap'[d] = snap[d] /\ resp'[d] = resp[d] /\ next'[d] = next[d]
  PROVE  \A d \in Callers \ {c} : TokHeld(d)'
BY TokHeldKept, TokHeldAll

\* The initial states hold no token beyond the first.
LEMMA InitTokens == Init => TokensHeld
BY DEF Init, TokensHeld, NoDoc, NoResp

\* A caller's step that keeps the file, issues at most one token, and
\* leaves TokHeld of the caller itself keeps TokensHeld.
LEMMA CallerStepTokens ==
  ASSUME TypeOK, TokensHeld, NEW c \in Callers, issued' \in {issued, issued + 1},
         disk' = disk,
         \A d \in Callers \ {c} :
           pc'[d] = pc[d] /\ snap'[d] = snap[d] /\ resp'[d] = resp[d] /\ next'[d] = next[d],
         TokHeld(c)'
  PROVE  TokensHeld'
<1>1. disk'.rt <= issued'
  BY RtNat, TokHeldAll
<1>2. \A d \in Callers : TokHeld(d)'
  BY OthersTokHeld
<1>3. QED BY <1>1, <1>2 DEF TokensHeld, TokHeld

\* Each step of Next keeps TokensHeld, whatever the faults and write-back.
LEMMA NextTokens ==
  ASSUME TypeOK, TokensHeld, [Next]_vars PROVE TokensHeld'
<1>1. ASSUME NEW c \in Callers, Read(c) PROVE TokensHeld'
  <2>1. /\ snap' = [snap EXCEPT ![c] = disk] /\ pc'[c] \in {"done", "fetching"}
        /\ UNCHANGED <<disk, issued, resp, next>>
    BY <1>1 DEF Read, serverVars, TypeOK
  <2>2. \A d \in Callers \ {c} :
          pc'[d] = pc[d] /\ snap'[d] = snap[d] /\ resp'[d] = resp[d] /\ next'[d] = next[d]
    BY <1>1, <2>1, ZenonT(30) DEF Read, TypeOK
  <2>3. TokHeld(c)'
    BY <2>1, TokHeldAll DEF TokHeld, TypeOK
  <2>4. QED BY <2>1, <2>2, <2>3, CallerStepTokens
<1>2. ASSUME NEW c \in Callers, Fetch(c) \/ FetchLost(c) PROVE TokensHeld'
  <2>1. /\ pc[c] = "fetching" /\ UNCHANGED <<disk, snap, next>>
        /\ pc'[c] \in {"responded", "failed"}
        /\ \/ Issue(snap[c].rt) /\ resp'[c] \in {resp[c], Answer}
           \/ UNCHANGED <<issued>> /\ resp'[c] = NoResp
    BY <1>2 DEF Fetch, FetchLost, serverVars, TypeOK
  <2>2. \A d \in Callers \ {c} :
          pc'[d] = pc[d] /\ snap'[d] = snap[d] /\ resp'[d] = resp[d] /\ next'[d] = next[d]
    BY <1>2, <2>1, ZenonT(30) DEF Fetch, FetchLost, TypeOK
  <2>3. issued' \in {issued, issued + 1} /\ issued <= issued' /\ issued \in Nat
    BY <2>1 DEF Issue, TypeOK
  <2>4. resp'[c].rt <= issued'
    <3>1. resp[c].rt <= issued /\ resp[c].rt \in Nat
      BY RtNat, TokHeldAll DEF TokHeld
    <3>2. CASE Issue(snap[c].rt) /\ resp'[c] \in {resp[c], Answer}
      BY <3>1, <3>2, <2>3 DEF Issue, Answer
    <3>3. CASE UNCHANGED <<issued>> /\ resp'[c] = NoResp
      BY <3>3, <2>3 DEF NoResp
    <3>4. QED BY <2>1, <3>2, <3>3
  <2>5. TokHeld(c)'
    <3>1. snap[c].rt <= issued /\ next[c].rt <= issued /\ snap[c].rt \in Nat /\ next[c].rt \in Nat
      BY RtNat, TokHeldAll DEF TokHeld
    <3>2. QED BY <2>1, <2>3, <2>4, <3>1 DEF TokHeld
  <2>6. QED BY <2>1, <2>2, <2>3, <2>5, CallerStepTokens
<1>3. ASSUME NEW c \in Callers, Receive(c) PROVE TokensHeld'
  <2>1. /\ pc[c] = "responded" /\ UNCHANGED <<disk, issued, snap, resp>>
    BY <1>3 DEF Receive, serverVars
  <2>2. \A d \in Callers \ {c} :
          pc'[d] = pc[d] /\ snap'[d] = snap[d] /\ resp'[d] = resp[d] /\ next'[d] = next[d]
    BY <1>3, <2>1, ZenonT(30) DEF Receive, TypeOK
  <2>3. snap[c].rt <= issued /\ resp[c].rt <= issued /\ next[c].rt <= issued
    BY TokHeldAll DEF TokHeld
  <2>4. CASE ~resp[c].ok
    <3>1. pc'[c] = "failed" /\ next' = next
      BY <1>3, <2>4 DEF Receive, TypeOK
    <3>2. TokHeld(c)'
      BY <2>1, <2>3, <3>1 DEF TokHeld
    <3>3. QED BY <2>1, <2>2, <3>2, CallerStepTokens
  <2>5. CASE resp[c].ok
    <3>1. /\ next'[c] = [at |-> resp[c].at, rt |-> Held(c), stamped |-> TRUE]
          /\ pc'[c] \in {"writing", "done"}
      BY <1>3, <2>5 DEF Receive, Held, TypeOK
    <3>2. Held(c)' = Held(c) /\ Held(c) <= issued
      BY <2>1, <2>3 DEF Held
    <3>3. TokHeld(c)'
      BY <2>1, <2>3, <2>5, <3>1, <3>2 DEF TokHeld
    <3>4. QED BY <2>1, <2>2, <3>3, CallerStepTokens
  <2>6. QED BY <2>4, <2>5
<1>4. ASSUME NEW c \in Callers, WriteTmp(c) \/ Crash(c) PROVE TokensHeld'
  <2>1. /\ pc[c] \in {"fetching", "responded", "writing", "renaming"}
        /\ pc'[c] \in {"renaming", "crashed"}
        /\ pc[c] \notin {"writing", "renaming"} => pc'[c] = "crashed"
        /\ UNCHANGED <<disk, issued, snap, resp, next>>
    BY <1>4 DEF WriteTmp, Crash, serverVars, TypeOK
  <2>2. \A d \in Callers \ {c} :
          pc'[d] = pc[d] /\ snap'[d] = snap[d] /\ resp'[d] = resp[d] /\ next'[d] = next[d]
    BY <1>4, <2>1, ZenonT(30) DEF WriteTmp, Crash, TypeOK
  <2>3. TokHeld(c)'
    BY <2>1, TokHeldAll DEF TokHeld, Held
  <2>4. QED BY <2>1, <2>2, <2>3, CallerStepTokens
<1>5. ASSUME NEW c \in Callers, Rename(c) PROVE TokensHeld'
  <2>1. /\ pc'[c] = "done" /\ disk' = next[c]
        /\ UNCHANGED <<issued, snap, resp, next>>
    BY <1>5 DEF Rename, serverVars, TypeOK
  <2>2. \A d \in Callers : d # c => pc'[d] = pc[d]
    BY <1>5, <2>1, ZenonT(30) DEF Rename, TypeOK
  <2>3. \A d \in Callers : TokHeld(d)'
    BY <2>1, <2>2, TokHeldAll DEF TokHeld, Held
  <2>4. disk'.rt <= issued'
    BY <2>1, TokHeldAll DEF TokHeld
  <2>5. QED BY <2>3, <2>4 DEF TokensHeld, TokHeld
<1>6. ASSUME CliRefresh PROVE TokensHeld'
  <2>1. /\ Issue(disk.rt) /\ UNCHANGED <<pc, snap, resp, next>>
        /\ disk'.rt \in {issued + 1, disk.rt}
    BY <1>6 DEF CliRefresh, callerVars
  <2>2. issued' = issued + 1
    BY <2>1 DEF Issue
  <2>3. \A d \in Callers : TokHeld(d)'
    BY <2>1, <2>2, TokHeldKept, TokHeldAll
  <2>4. disk'.rt <= issued'
    <3>1. disk \in Docs /\ issued \in Nat
      BY DEF TypeOK
    <3>2. disk.rt \in Nat /\ disk.rt <= issued
      BY <3>1, TokHeldAll DEF Docs
    <3>3. QED BY <2>1, <2>2, <3>1, <3>2
  <2>5. QED BY <2>3, <2>4 DEF TokensHeld, TokHeld
<1>7. ASSUME Tick \/ ReadOnlyRead \/ UNCHANGED vars PROVE TokensHeld'
  <2>1. UNCHANGED <<disk, issued, pc, snap, resp, next>>
    BY <1>7 DEF Tick, ReadOnlyRead, vars, serverVars, callerVars
  <2>2. QED BY <2>1 DEF TokensHeld, Held
<1>8. QED BY <1>1, <1>2, <1>3, <1>4, <1>5, <1>6, <1>7 DEF Next


\* Every state reachable keeps TokensHeld: no file, snapshot, answer or
\* write-back names a refresh token the endpoint has not issued.
THEOREM TokensHeldHolds == Spec => []TokensHeld
<1>1. IInv /\ TokensHeld /\ [Next]_vars => TokensHeld'
  BY NextTokens DEF IInv
<1>2. QED BY IInvHolds, InitTokens, <1>1, PTL DEF Spec

\* Paired for one caller.
PairedCaller(d) ==
  /\ pc[d] = "responded" /\ resp[d].ok => [at |-> resp[d].at, rt |-> Held(d)] \in Grants
  /\ pc[d] \in {"writing", "renaming"} => [at |-> next[d].at, rt |-> next[d].rt] \in Grants

LEMMA PairedAll ==
  Paired <=> (~rotates => valid \subseteq {1}) /\ \A c \in Callers : PairedCaller(c)
BY DEF Paired, PairedCaller

\* Issuing a token adds a pair and removes none.
LEMMA GrantsMono ==
  ASSUME issued \in Nat, issued' \in {issued, issued + 1}, rotates' = rotates
  PROVE  Grants \subseteq Grants'
BY DEF Grants

\* The pair a token adds: the new access token with the new refresh token,
\* or with token 1 when the endpoint does not rotate.
LEMMA GrantsGrow ==
  ASSUME issued \in Nat \ {0}, issued' = issued + 1, rotates' = rotates,
         NEW rt, ~rotates => rt = 1
  PROVE  Grants' = Grants \cup {[at |-> issued + 1, rt |-> IF rotates THEN issued + 1 ELSE rt]}
<1>1. 2..issued' = (2..issued) \cup {issued + 1}
  OBVIOUS
<1>2. CASE rotates
  BY <1>1, <1>2 DEF Grants
<1>3. CASE ~rotates
  BY <1>1, <1>3 DEF Grants
<1>4. QED BY <1>2, <1>3

\* A step that keeps a caller's variables and adds pairs keeps PairedCaller.
LEMMA PairedKept ==
  ASSUME NEW d, PairedCaller(d), Grants \subseteq Grants',
         pc'[d] = pc[d], snap'[d] = snap[d], resp'[d] = resp[d], next'[d] = next[d]
  PROVE  PairedCaller(d)'
BY DEF PairedCaller, Held

\* A caller's step that issues at most one token, revokes none of a
\* non-rotating endpoint and keeps PairedCaller of the caller itself keeps
\* Paired.
LEMMA CallerStepPaired ==
  ASSUME TypeOK, Paired, NEW c \in Callers, issued' \in {issued, issued + 1},
         rotates' = rotates, ~rotates => valid' = valid,
         \A d \in Callers \ {c} :
           pc'[d] = pc[d] /\ snap'[d] = snap[d] /\ resp'[d] = resp[d] /\ next'[d] = next[d],
         PairedCaller(c)'
  PROVE  Paired'
<1>1. Grants \subseteq Grants'
  <2>1. issued \in Nat
    BY DEF TypeOK
  <2>2. QED BY <2>1, GrantsMono
<1>2. \A d \in Callers \ {c} : PairedCaller(d)'
  BY <1>1, PairedKept, PairedAll
<1>3. ~rotates' => valid' \subseteq {1}
  BY PairedAll
<1>4. \A d \in Callers : PairedCaller(d)'
  BY <1>2
<1>5. QED BY <1>3, <1>4 DEF Paired, PairedCaller

LEMMA InitPaired == Init => Paired
BY DEF Init, Paired

\* Every step keeps Paired, whatever the faults and write-back.
LEMMA NextPaired ==
  ASSUME TypeOK, Paired, [Next]_vars PROVE Paired'
<1>1. ASSUME NEW c \in Callers, Read(c) PROVE Paired'
  <2>1. pc'[c] \in {"done", "fetching"} /\ UNCHANGED <<valid, issued, rotates>>
    BY <1>1 DEF Read, serverVars, TypeOK
  <2>2. \A d \in Callers \ {c} :
          pc'[d] = pc[d] /\ snap'[d] = snap[d] /\ resp'[d] = resp[d] /\ next'[d] = next[d]
    BY <1>1, ZenonT(30) DEF Read, TypeOK
  <2>3. PairedCaller(c)'
    BY <2>1 DEF PairedCaller
  <2>4. QED BY <2>1, <2>2, <2>3, CallerStepPaired
<1>2. ASSUME NEW c \in Callers, FetchLost(c) PROVE Paired'
  <2>1. /\ pc'[c] = "failed" /\ Issue(snap[c].rt)
    BY <1>2 DEF FetchLost, TypeOK
  <2>2. issued' = issued + 1 /\ rotates' = rotates /\ (~rotates => valid' = valid)
    BY <2>1 DEF Issue
  <2>3. \A d \in Callers \ {c} :
          pc'[d] = pc[d] /\ snap'[d] = snap[d] /\ resp'[d] = resp[d] /\ next'[d] = next[d]
    BY <1>2, ZenonT(30) DEF FetchLost, TypeOK
  <2>4. PairedCaller(c)'
    BY <2>1 DEF PairedCaller
  <2>5. QED BY <2>2, <2>3, <2>4, CallerStepPaired
<1>3. ASSUME NEW c \in Callers, Fetch(c) PROVE Paired'
  <2>1. /\ pc[c] = "fetching" /\ pc'[c] = "responded" /\ snap' = snap
        /\ \/ Issue(snap[c].rt) /\ resp'[c] = Answer
           \/ UNCHANGED <<valid, issued, rotates>> /\ resp'[c] = NoResp
    BY <1>3 DEF Fetch, serverVars, TypeOK
  <2>2. \A d \in Callers \ {c} :
          pc'[d] = pc[d] /\ snap'[d] = snap[d] /\ resp'[d] = resp[d] /\ next'[d] = next[d]
    BY <1>3, ZenonT(30) DEF Fetch, TypeOK
  <2>3. CASE Issue(snap[c].rt) /\ resp'[c] = Answer
    <3>1. issued \in 1..MaxIssued /\ issued' = issued + 1 /\ rotates' = rotates
          /\ (~rotates => valid' = valid)
      BY <2>3 DEF Issue, TypeOK
    <3>2. ~rotates => snap[c].rt = 1
      BY <2>3, PairedAll DEF Issue
    <3>3. Held(c)' = IF rotates THEN issued + 1 ELSE 1
      BY <2>1, <2>3, <3>1, <3>2 DEF Held, Answer
    <3>4. [at |-> resp'[c].at, rt |-> Held(c)'] \in Grants'
      <4>1. resp'[c].at = issued + 1 /\ issued + 1 \in 2..issued'
        BY <2>3, <3>1 DEF Answer
      <4>2. [at |-> issued + 1, rt |-> IF rotates' THEN issued + 1 ELSE 1] \in Grants'
        BY <4>1 DEF Grants
      <4>3. QED BY <3>1, <3>3, <4>1, <4>2
    <3>5. PairedCaller(c)'
      BY <2>1, <3>4 DEF PairedCaller
    <3>6. QED BY <2>2, <3>1, <3>5, CallerStepPaired
  <2>4. CASE UNCHANGED <<valid, issued, rotates>> /\ resp'[c] = NoResp
    <3>1. PairedCaller(c)'
      BY <2>1, <2>4 DEF PairedCaller, NoResp
    <3>2. QED BY <2>2, <2>4, <3>1, CallerStepPaired
  <2>5. QED BY <2>1, <2>3, <2>4
<1>4. ASSUME NEW c \in Callers, Receive(c) PROVE Paired'
  <2>1. /\ pc[c] = "responded" /\ UNCHANGED <<valid, issued, rotates, snap, resp>>
    BY <1>4 DEF Receive, serverVars
  <2>2. \A d \in Callers \ {c} :
          pc'[d] = pc[d] /\ snap'[d] = snap[d] /\ resp'[d] = resp[d] /\ next'[d] = next[d]
    BY <1>4, ZenonT(30) DEF Receive, TypeOK
  <2>3. CASE ~resp[c].ok
    <3>1. pc'[c] = "failed"
      BY <1>4, <2>3 DEF Receive, TypeOK
    <3>2. PairedCaller(c)'
      BY <3>1 DEF PairedCaller
    <3>3. QED BY <2>1, <2>2, <3>2, CallerStepPaired
  <2>4. CASE resp[c].ok
    <3>1. /\ next'[c] = [at |-> resp[c].at, rt |-> Held(c), stamped |-> TRUE]
          /\ pc'[c] \in {"writing", "done"}
      BY <1>4, <2>4 DEF Receive, Held, TypeOK
    <3>2. [at |-> resp[c].at, rt |-> Held(c)] \in Grants
      BY <2>1, <2>4, PairedAll DEF PairedCaller
    <3>3. Grants' = Grants
      BY <2>1 DEF Grants
    <3>4. PairedCaller(c)'
      BY <3>1, <3>2, <3>3 DEF PairedCaller
    <3>5. QED BY <2>1, <2>2, <3>4, CallerStepPaired
  <2>5. QED BY <2>3, <2>4
<1>5. ASSUME NEW c \in Callers, WriteTmp(c) \/ Crash(c) \/ Rename(c) PROVE Paired'
  <2>1. /\ pc'[c] \in {"renaming", "crashed", "done"}
        /\ pc'[c] = "renaming" => pc[c] = "writing"
        /\ UNCHANGED <<valid, issued, rotates, next>>
    BY <1>5 DEF WriteTmp, Crash, Rename, serverVars, TypeOK
  <2>2. \A d \in Callers \ {c} :
          pc'[d] = pc[d] /\ snap'[d] = snap[d] /\ resp'[d] = resp[d] /\ next'[d] = next[d]
    BY <1>5, ZenonT(30) DEF WriteTmp, Crash, Rename, TypeOK
  <2>3. PairedCaller(c)'
    <3>1. Grants' = Grants
      BY <2>1 DEF Grants
    <3>2. QED BY <2>1, <3>1, PairedAll DEF PairedCaller
  <2>4. QED BY <2>1, <2>2, <2>3, CallerStepPaired
<1>6. ASSUME CliRefresh PROVE Paired'
  <2>1. /\ Issue(disk.rt) /\ UNCHANGED <<pc, snap, resp, next>>
    BY <1>6 DEF CliRefresh, callerVars
  <2>2. issued \in Nat /\ issued' = issued + 1 /\ rotates' = rotates
        /\ (~rotates => valid' = valid)
    BY <2>1 DEF Issue, TypeOK
  <2>3. Grants \subseteq Grants'
    BY <2>2, GrantsMono
  <2>4. \A d \in Callers : PairedCaller(d)'
    BY <2>1, <2>3, PairedKept, PairedAll
  <2>5. QED BY <2>2, <2>4, PairedAll DEF Paired, PairedCaller
<1>7. ASSUME Tick \/ ReadOnlyRead \/ UNCHANGED vars PROVE Paired'
  <2>1. UNCHANGED <<valid, issued, rotates, pc, snap, resp, next>>
    BY <1>7 DEF Tick, ReadOnlyRead, vars, serverVars, callerVars
  <2>2. QED BY <2>1 DEF Paired, Grants, Held
<1>8. QED BY <1>1, <1>2, <1>3, <1>4, <1>5, <1>6, <1>7 DEF Next

\* In every configuration, an answered or writing caller holds a pair the
\* endpoint issued together, and a non-rotating endpoint accepts only the
\* first refresh token.
LEMMA PairedHolds == Spec => []Paired
<1>1. IInv /\ Paired /\ [Next]_vars => Paired'
  BY NextPaired DEF IInv
<1>2. QED BY IInvHolds, InitPaired, <1>1, PTL DEF Spec

\* What AuthFile sees of the auth file.
Cred == [at |-> disk.at, rt |-> disk.rt]

\* The initial states are AuthFile's: nothing is issued yet.
LEMMA InitRefines == Init => File!Init
<1> SUFFICES ASSUME Init PROVE File!Init
  OBVIOUS
<1>1. PICK e \in {Unknown} \cup (0..MaxTime), r \in {0, 1} :
        /\ disk \in {NoDoc, [at |-> 1, rt |-> r, stamped |-> FALSE]}
        /\ valid = IF r = 1 THEN {1} ELSE {}
  BY DEF Init
<1>2. Cred \in {File!NoCredential, [at |-> 1, rt |-> r]}
  BY <1>1 DEF Cred, NoDoc, File!NoCredential
<1>3. Grants = {}
  BY DEF Init, Grants
<1>4. QED BY <1>1, <1>2, <1>3 DEF Init, File!Init, Cred

\* The endpoint's side of a concrete refresh is AuthFile's exchange.
LEMMA IssueIsExchange ==
  ASSUME TypeOK, Paired, NEW rt, Issue(rt) PROVE File!Exchange(rt)
<1>1. issued \in Nat \ {0} /\ issued' = issued + 1 /\ rotates' = rotates
  BY DEF Issue, TypeOK
<1>2. ~rotates => rt = 1
  BY PairedAll DEF Issue
<1>3. Grants' = Grants \cup {File!Grant(rt)}
  BY <1>1, <1>2, GrantsGrow DEF File!Grant
<1>4. QED BY <1>3 DEF Issue, File!Exchange

\* A step that changes neither the file's tokens nor the endpoint is a
\* stutter of AuthFile.
LEMMA Stutter ==
  ASSUME disk'.at = disk.at, disk'.rt = disk.rt, UNCHANGED <<valid, issued, rotates>>
  PROVE  UNCHANGED File!vars
BY DEF File!vars, Grants

\* Each step of Next is a step of AuthFile or leaves what it sees alone.
LEMMA NextRefines ==
  ASSUME TypeOK, Paired, [Next]_vars PROVE [File!Next]_File!vars
<1>1. ASSUME NEW c \in Callers, Fetch(c) \/ FetchLost(c) PROVE [File!Next]_File!vars
  <2>1. UNCHANGED disk
    BY <1>1 DEF Fetch, FetchLost
  <2>2. CASE Issue(snap[c].rt)
    <3>1. snap[c].rt \in 0..MaxIssued
      BY DEF TypeOK, Docs
    <3>2. File!Exchange(snap[c].rt)
      BY <2>2, IssueIsExchange
    <3>3. File!Refresh
      BY <2>1, <3>1, <3>2 DEF File!Refresh
    <3>4. QED BY <3>3 DEF File!Next
  <2>3. CASE ~Issue(snap[c].rt)
    <3>1. UNCHANGED <<valid, issued, rotates>>
      BY <1>1, <2>3 DEF Fetch, FetchLost, serverVars
    <3>2. QED BY <2>1, <3>1, Stutter
  <2>4. QED BY <2>2, <2>3
<1>2. ASSUME NEW c \in Callers, Rename(c) PROVE [File!Next]_File!vars
  <2>1. /\ pc[c] = "renaming" /\ disk' = next[c]
        /\ UNCHANGED <<valid, issued, rotates>>
    BY <1>2 DEF Rename, serverVars
  <2>2. [at |-> next[c].at, rt |-> next[c].rt] \in Grants
    BY <2>1, PairedAll DEF PairedCaller
  <2>3. Grants' = Grants
    BY <2>1 DEF Grants
  <2>4. File!Replace
    BY <2>1, <2>2, <2>3 DEF File!Replace, File!server
  <2>5. QED BY <2>4 DEF File!Next
<1>3. ASSUME CliRefresh PROVE [File!Next]_File!vars
  <2>1. /\ disk.at # 0 /\ Issue(disk.rt)
        /\ disk' = [at |-> issued + 1, rt |-> IF rotates THEN issued + 1 ELSE disk.rt,
                    stamped |-> disk.stamped]
    BY <1>3 DEF CliRefresh
  <2>2. File!Exchange(disk.rt)
    BY <2>1, IssueIsExchange
  <2>3. File!CliReplace
    BY <2>1, <2>2 DEF File!CliReplace, File!Grant
  <2>4. QED BY <2>3 DEF File!Next
<1>4. ASSUME NEW c \in Callers, Read(c) \/ Receive(c) \/ WriteTmp(c) \/ Crash(c)
      PROVE  [File!Next]_File!vars
  <2>1. UNCHANGED <<disk, valid, issued, rotates>>
    BY <1>4 DEF Read, Receive, WriteTmp, Crash, serverVars
  <2>2. QED BY <2>1, Stutter
<1>5. ASSUME Tick \/ ReadOnlyRead \/ UNCHANGED vars PROVE [File!Next]_File!vars
  <2>1. UNCHANGED <<disk, valid, issued, rotates>>
    BY <1>5 DEF Tick, ReadOnlyRead, vars, serverVars
  <2>2. QED BY <2>1, Stutter
<1>6. QED BY <1>1, <1>2, <1>3, <1>4, <1>5 DEF Next

\* The refresher implements AuthFile for any callers, bounds, write-back
\* setting and faults: the endpoint issues only against an accepted refresh
\* token, a refresher's POST never touches the auth file, and the file is
\* replaced only whole, by writeJsonFile's rename or the CLI, with an access
\* token and the refresh token the endpoint issued with it (the
\* `refresh_token ?? refreshToken` fallback keeps a non-rotating endpoint's
\* token, never another exchange's).
THEOREM ImplementsAuthFileHolds == Spec => ImplementsAuthFile
<1>1. IInv /\ Paired /\ [Next]_vars => [File!Next]_File!vars
  BY NextRefines DEF IInv
<1>2. QED BY InitRefines, IInvHolds, PairedHolds, <1>1, PTL
      DEF Spec, ImplementsAuthFile, File!Spec

=============================================================================
