-------------------------- MODULE CodexAuthProofs --------------------------
(***************************************************************************)
(* Proofs about CodexAuth for any set of callers, any bounds, leeway and  *)
(* write-back setting and any faults: the state keeps its type, and no    *)
(* caller returns the stale credential after a failed refresh.  Both      *)
(* follow from IInv.                                                      *)
(***************************************************************************)
EXTENDS CodexAuth, TLAPS

\* NoStaleCredential for one caller.
Fresh(c) ==
  (pc[c] = "done" /\ result[c] # Undefined /\ result[c].at = snap[c].at) =>
    ~(IsExpiringSoon(expOf[snap[c].at], readNow[c]) /\ snap[c].rt # 0)

LEMMA FreshAll == NoStaleCredential <=> \A c \in Callers : Fresh(c)
BY DEF NoStaleCredential, Fresh

\* Every initial state satisfies the inductive invariant.
LEMMA InitIInv == Init => IInv
<1> SUFFICES ASSUME Init PROVE IInv
  OBVIOUS
<1>1. TypeOK
  <2>1. PICK e \in {Unknown} \cup (0..MaxTime), r \in {0, 1} :
          /\ disk \in {NoDoc, [at |-> 1, rt |-> r, stamped |-> FALSE]}
          /\ expOf = [i \in 1..MaxIssued |-> IF i = 1 THEN e ELSE Unknown]
          /\ valid = IF r = 1 THEN {1} ELSE {}
    BY DEF Init
  <2>2. disk \in Docs
    <3>1. NoDoc \in Docs
      BY AuthAssumption DEF NoDoc, Docs
    <3>2. [at |-> 1, rt |-> r, stamped |-> FALSE] \in Docs
      BY <2>1, AuthAssumption DEF Docs
    <3>3. QED BY <2>1, <3>1, <3>2
  <2>3. expOf \in [1..MaxIssued -> {Unknown} \cup Nat] /\ valid \subseteq 1..MaxIssued
    BY <2>1, AuthAssumption
  <2>4. /\ pc \in [Callers -> {"idle", "fetching", "responded", "writing", "renaming",
                               "done", "failed", "crashed"}]
        /\ snap \in [Callers -> Docs] /\ next \in [Callers -> Docs]
        /\ readNow \in [Callers -> 0..MaxTime]
        /\ resp \in [Callers -> [ok : BOOLEAN, at : 0..MaxIssued, rt : 0..MaxIssued]]
        /\ result \in [Callers -> Results]
    BY AuthAssumption DEF Init, NoDoc, NoResp, Undefined, Docs, Results
  <2>5. /\ now \in 0..MaxTime /\ tmps \subseteq Callers /\ issued \in 1..MaxIssued
        /\ rotates \in BOOLEAN /\ ro \in [res : Results, at : 0..MaxTime]
    BY AuthAssumption DEF Init, Undefined, Results
  <2>6. QED BY <2>2, <2>3, <2>4, <2>5 DEF TypeOK
<1>2. disk.at <= issued
  BY DEF Init, NoDoc
<1>3. \A c \in Callers : CallerInv(c)
  BY DEF Init, NoDoc, CallerInv
<1>4. NoStaleCredential
  BY DEF Init, NoStaleCredential
<1>5. QED BY <1>1, <1>2, <1>3, <1>4 DEF IInv

\* The endpoint's side of a refresh issues the next token, gives it an
\* expiry in Nat and leaves the expiry of every earlier token alone.
LEMMA IssueFacts ==
  ASSUME TypeOK, NEW rt, Issue(rt)
  PROVE  /\ issued' = issued + 1 /\ issued' \in 1..MaxIssued
         /\ expOf' \in [1..MaxIssued -> {Unknown} \cup Nat]
         /\ valid' \subseteq 1..MaxIssued /\ rotates' = rotates
         /\ \A i \in 1..issued : expOf'[i] = expOf[i]
BY AuthAssumption DEF Issue, TypeOK

\* A step that leaves a caller's own variables alone, issues no token it
\* holds and changes no expiry of an issued token keeps that caller's
\* part of the invariant.
LEMMA CallerFrame ==
  ASSUME TypeOK, NEW d \in Callers, CallerInv(d), Fresh(d),
         issued' \in Nat, issued <= issued',
         \A i \in 1..issued : expOf'[i] = expOf[i],
         pc'[d] = pc[d], snap'[d] = snap[d], next'[d] = next[d],
         resp'[d] = resp[d], result'[d] = result[d], readNow'[d] = readNow[d]
  PROVE  CallerInv(d)' /\ Fresh(d)'
<1>1. CallerInv(d)'
  <2>1. snap[d].at \in Int /\ next[d].at \in Int /\ resp[d].at \in Int /\ issued \in Int
    BY DEF TypeOK, Docs
  <2>2. snap'[d].at <= issued' /\ next'[d].at <= issued'
    BY <2>1 DEF CallerInv
  <2>3. result'[d] # Undefined => result'[d].at \in 1..issued'
    BY <2>1 DEF CallerInv
  <2>4. pc'[d] = "responded" /\ resp'[d].ok =>
          snap'[d].at < resp'[d].at /\ resp'[d].at <= issued'
    BY <2>1 DEF CallerInv
  <2>5. pc'[d] \in {"writing", "renaming"} => snap'[d].at < next'[d].at
    BY <2>1 DEF CallerInv
  <2>6. pc'[d] # "done" => result'[d] = Undefined
    BY DEF CallerInv
  <2>7. QED BY <2>2, <2>3, <2>4, <2>5, <2>6 DEF CallerInv
<1>2. Fresh(d)'
  <2> SUFFICES ASSUME pc[d] = "done", result[d] # Undefined, result[d].at = snap[d].at
               PROVE  ~(IsExpiringSoon(expOf'[snap[d].at], readNow[d]) /\ snap[d].rt # 0)
    BY DEF Fresh
  <2>1. snap[d].at \in 1..issued
    BY DEF CallerInv
  <2>2. QED BY <2>1 DEF Fresh
<1>3. QED BY <1>1, <1>2

\* The count of issued tokens stays a natural number and never decreases.
LEMMA IssuedStep ==
  ASSUME issued \in 1..MaxIssued, issued' \in {issued, issued + 1}
  PROVE  issued' \in Nat /\ issued <= issued'
BY AuthAssumption

\* A step that issues no token keeps the count and the expiries.
LEMMA ServerKept ==
  ASSUME TypeOK, issued' = issued, expOf' = expOf
  PROVE  issued' \in Nat /\ issued <= issued' /\ \A i \in 1..issued : expOf'[i] = expOf[i]
BY DEF TypeOK

\* IInv with NoStaleCredential taken caller by caller.
Strong == TypeOK /\ disk.at <= issued /\ \A c \in Callers : CallerInv(c) /\ Fresh(c)

\* A caller's step leaves every other caller's part of the invariant.
LEMMA OthersFrame ==
  ASSUME Strong, NEW c \in Callers,
         issued' \in Nat, issued <= issued', \A i \in 1..issued : expOf'[i] = expOf[i],
         \A d \in Callers \ {c} :
           pc'[d] = pc[d] /\ snap'[d] = snap[d] /\ next'[d] = next[d] /\
           resp'[d] = resp[d] /\ result'[d] = result[d] /\ readNow'[d] = readNow[d]
  PROVE  \A d \in Callers \ {c} : CallerInv(d)' /\ Fresh(d)'
BY CallerFrame DEF Strong

\* getCodexCliAuth's read: the caller's snapshot is the file, and it either
\* returns undefined, goes on to refresh, or returns what it read.
LEMMA ReadStrong ==
  ASSUME Strong, NEW c \in Callers, Read(c) PROVE Strong'
<1> USE DEF Strong, TypeOK, Docs, Results
<1>1. /\ pc[c] = "idle"
      /\ snap' = [snap EXCEPT ![c] = disk] /\ readNow' = [readNow EXCEPT ![c] = now]
      /\ UNCHANGED <<now, disk, tmps, expOf, valid, issued, rotates, resp, next, ro>>
  BY DEF Read, serverVars
<1>2. snap' \in [Callers -> Docs] /\ readNow' \in [Callers -> 0..MaxTime]
  BY <1>1
<1>3. \A d \in Callers \ {c} : CallerInv(d)' /\ Fresh(d)'
  <2>1. \A d \in Callers \ {c} :
          pc'[d] = pc[d] /\ snap'[d] = snap[d] /\ next'[d] = next[d] /\
          resp'[d] = resp[d] /\ result'[d] = result[d] /\ readNow'[d] = readNow[d]
    BY <1>1, ZenonT(30) DEF Read
  <2>2. issued' \in Nat /\ issued <= issued' /\ \A i \in 1..issued : expOf'[i] = expOf[i]
    BY <1>1
  <2>3. QED BY <2>1, <2>2, OthersFrame
<1>4. CASE disk.at = 0
  <2>1. pc' = [pc EXCEPT ![c] = "done"] /\ result' = result
    BY <1>4 DEF Read
  <2>2. CallerInv(c)' /\ Fresh(c)'
    BY <1>1, <1>4, <2>1, SMTT(20) DEF CallerInv, Fresh, Undefined
  <2>3. QED BY <1>1, <1>2, <1>3, <2>1, <2>2
<1>5. CASE disk.at # 0 /\ IsExpiringSoon(expOf[disk.at], now) /\ disk.rt # 0
  <2>1. pc' = [pc EXCEPT ![c] = "fetching"] /\ result' = result
    BY <1>5 DEF Read
  <2>2. CallerInv(c)' /\ Fresh(c)'
    BY <1>1, <2>1 DEF CallerInv, Fresh, Undefined
  <2>3. QED BY <1>1, <1>2, <1>3, <2>1, <2>2
<1>6. CASE disk.at # 0 /\ ~(IsExpiringSoon(expOf[disk.at], now) /\ disk.rt # 0)
  <2>1. pc' = [pc EXCEPT ![c] = "done"]
        /\ result' = [result EXCEPT ![c] = [at |-> disk.at, rt |-> disk.rt]]
    BY <1>6 DEF Read
  <2>0. /\ snap'[c] = disk /\ readNow'[c] = now /\ pc'[c] = "done"
        /\ result'[c] = [at |-> disk.at, rt |-> disk.rt]
    BY <1>1, <2>1
  <2>2. CallerInv(c)'
    <3>1. result'[c].at \in 1..issued' /\ snap'[c].at <= issued'
      BY <1>1, <1>6, <2>0, SMTT(20)
    <3>2. next'[c].at <= issued'
      BY <1>1 DEF CallerInv
    <3>3. QED BY <2>0, <3>1, <3>2 DEF CallerInv
  <2>3. Fresh(c)'
    BY <1>1, <1>6, <2>0 DEF Fresh
  <2>4. result' \in [Callers -> Results]
    BY <2>1 DEF Results
  <2>5. QED BY <1>1, <1>2, <1>3, <2>1, <2>2, <2>3, <2>4
<1>7. QED BY <1>4, <1>5, <1>6


\* The POST to the token endpoint: a fresh token, or a refusal.
LEMMA FetchStrong ==
  ASSUME Strong, NEW c \in Callers, Fetch(c) PROVE Strong'
<1>0. TypeOK
  BY DEF Strong
<1>z. disk.at <= issued /\ \A d \in Callers : CallerInv(d) /\ Fresh(d)
  BY DEF Strong
<1> USE <1>0
<1> USE DEF TypeOK, Docs, Results
<1>1. /\ pc[c] = "fetching" /\ pc' = [pc EXCEPT ![c] = "responded"]
      /\ UNCHANGED <<now, disk, tmps, snap, readNow, next, result, ro>>
  BY DEF Fetch
<1>2. result[c] = Undefined
  BY <1>z, <1>1 DEF CallerInv
<1>3. CASE Issue(snap[c].rt) /\ resp' = [resp EXCEPT ![c] = Answer]
  <2>1. /\ issued' = issued + 1 /\ issued' \in 1..MaxIssued
        /\ expOf' \in [1..MaxIssued -> {Unknown} \cup Nat]
        /\ valid' \subseteq 1..MaxIssued /\ rotates' = rotates
        /\ \A i \in 1..issued : expOf'[i] = expOf[i]
    BY <1>3, IssueFacts
  <2>2. issued' \in Nat /\ issued <= issued'
    BY <2>1
  <2>3. Answer \in [ok : BOOLEAN, at : 0..MaxIssued, rt : 0..MaxIssued]
        /\ Answer.ok /\ Answer.at = issued'
    <3>1. Answer = [ok |-> TRUE, at |-> issued', rt |-> IF rotates THEN issued' ELSE 0]
      BY <2>1 DEF Answer
    <3>2. (IF rotates THEN issued' ELSE 0) \in 0..MaxIssued
      BY <2>1, AuthAssumption
    <3>3. QED BY <2>1, <3>1, <3>2
  <2>4. resp' \in [Callers -> [ok : BOOLEAN, at : 0..MaxIssued, rt : 0..MaxIssued]]
        /\ resp'[c] = Answer
    BY <1>3, <2>3
  <2>5. /\ pc'[c] = "responded" /\ snap'[c] = snap[c] /\ next'[c] = next[c]
        /\ result'[c] = Undefined
    BY <1>1, <1>2
  <2>6. CallerInv(c)'
    <3>1. snap[c].at <= issued /\ next[c].at <= issued
      BY <1>z DEF CallerInv
    <3>2. snap[c].at \in Int /\ next[c].at \in Int
      BY ONLY <1>0, SMTT(20) DEF TypeOK, Docs
    <3>3. resp'[c].at = issued' /\ resp'[c].ok
      BY <2>3, <2>4
    <3>4. snap[c].at < issued' /\ next[c].at <= issued'
      <4>1. issued \in Int /\ issued' = issued + 1
        BY <2>1
      <4>2. QED BY ONLY <4>1, <3>1, <3>2
    <3>5. /\ snap'[c].at < resp'[c].at /\ resp'[c].at <= issued'
          /\ snap'[c].at <= issued' /\ next'[c].at <= issued'
      BY ONLY <2>2, <2>5, <3>2, <3>3, <3>4
    <3>6. /\ pc'[c] # "done" => result'[c] = Undefined
          /\ result'[c] # Undefined => result'[c].at \in 1..issued'
          /\ pc'[c] \in {"writing", "renaming"} => snap'[c].at < next'[c].at
      BY ONLY <2>5
    <3>7. QED BY ONLY <3>3, <3>5, <3>6 DEF CallerInv
  <2>7. Fresh(c)'
    BY <1>z, <2>5 DEF Fresh
  <2>8. \A d \in Callers \ {c} : CallerInv(d)' /\ Fresh(d)'
    <3>1. \A d \in Callers \ {c} :
            pc'[d] = pc[d] /\ snap'[d] = snap[d] /\ next'[d] = next[d] /\
            resp'[d] = resp[d] /\ result'[d] = result[d] /\ readNow'[d] = readNow[d]
      BY <1>1, <1>3
    <3>2. QED BY <2>1, <2>2, <3>1, OthersFrame
  <2>9. TypeOK'
    BY <1>1, <2>1, <2>4
  <2>10. \A d \in Callers : CallerInv(d)' /\ Fresh(d)'
    BY <2>6, <2>7, <2>8
  <2>11. disk'.at <= issued'
    BY <1>z, <1>1, <2>1
  <2>12. QED BY <2>9, <2>10, <2>11 DEF Strong
<1>4. CASE snap[c].rt \notin valid /\ resp' = [resp EXCEPT ![c] = NoResp]
           /\ UNCHANGED serverVars
  <2>1. issued' = issued /\ expOf' = expOf /\ valid' = valid /\ rotates' = rotates
    BY <1>4 DEF serverVars
  <2>2. NoResp \in [ok : BOOLEAN, at : 0..MaxIssued, rt : 0..MaxIssued] /\ ~NoResp.ok
    BY AuthAssumption DEF NoResp
  <2>3. resp' \in [Callers -> [ok : BOOLEAN, at : 0..MaxIssued, rt : 0..MaxIssued]]
        /\ resp'[c] = NoResp
    BY <1>4, <2>2
  <2>4. /\ pc'[c] = "responded" /\ snap'[c] = snap[c] /\ next'[c] = next[c]
        /\ result'[c] = Undefined
    BY <1>1, <1>2
  <2>5. CallerInv(c)' /\ Fresh(c)'
    <3>1. snap[c].at <= issued /\ next[c].at <= issued
      BY <1>z DEF CallerInv
    <3>2. QED BY <2>1, <2>2, <2>3, <2>4, <3>1 DEF CallerInv, Fresh
  <2>6. \A d \in Callers \ {c} : CallerInv(d)' /\ Fresh(d)'
    <3>1. \A d \in Callers \ {c} :
            pc'[d] = pc[d] /\ snap'[d] = snap[d] /\ next'[d] = next[d] /\
            resp'[d] = resp[d] /\ result'[d] = result[d] /\ readNow'[d] = readNow[d]
      BY <1>1, <1>4
    <3>2. issued' \in Nat /\ issued <= issued' /\ \A i \in 1..issued : expOf'[i] = expOf[i]
      BY <2>1
    <3>3. QED BY <3>1, <3>2, OthersFrame
  <2>7. QED BY <1>1, <2>1, <2>3, <2>5, <2>6 DEF Strong
<1>5. QED BY <1>3, <1>4 DEF Fetch, Strong

\* A refresh the endpoint handled but whose answer is lost.
LEMMA FetchLostStrong ==
  ASSUME Strong, NEW c \in Callers, FetchLost(c) PROVE Strong'
<1>0. TypeOK
  BY DEF Strong
<1>z. disk.at <= issued /\ \A d \in Callers : CallerInv(d) /\ Fresh(d)
  BY DEF Strong
<1> USE <1>0
<1> USE DEF TypeOK, Docs, Results
<1>1. /\ pc[c] = "fetching" /\ pc' = [pc EXCEPT ![c] = "failed"] /\ Issue(snap[c].rt)
      /\ UNCHANGED <<now, disk, tmps, snap, readNow, resp, next, result, ro>>
  BY DEF FetchLost
<1>2. /\ issued' = issued + 1 /\ issued' \in 1..MaxIssued
      /\ expOf' \in [1..MaxIssued -> {Unknown} \cup Nat]
      /\ valid' \subseteq 1..MaxIssued /\ rotates' = rotates
      /\ \A i \in 1..issued : expOf'[i] = expOf[i]
  BY <1>1, IssueFacts
<1>g. issued' \in Nat /\ issued <= issued'
  BY <1>2, IssuedStep
<1>3. CallerInv(c)' /\ Fresh(c)'
  <2>1. snap[c].at <= issued /\ next[c].at <= issued /\ result[c] = Undefined
    BY <1>z, <1>1 DEF CallerInv
  <2>2. snap[c].at \in Int /\ next[c].at \in Int /\ issued \in Int
    OBVIOUS
  <2>3. snap' = snap /\ next' = next /\ result' = result /\ pc'[c] = "failed"
    BY <1>1
  <2>4. snap'[c].at <= issued' /\ next'[c].at <= issued' /\ result'[c] = Undefined
    BY ONLY <1>g, <2>1, <2>2, <2>3
  <2>5. QED BY <2>3, <2>4 DEF CallerInv, Fresh
<1>4. \A d \in Callers \ {c} : CallerInv(d)' /\ Fresh(d)'
  <2>1. \A d \in Callers \ {c} :
          pc'[d] = pc[d] /\ snap'[d] = snap[d] /\ next'[d] = next[d] /\
          resp'[d] = resp[d] /\ result'[d] = result[d] /\ readNow'[d] = readNow[d]
    BY <1>1
  <2>2. QED BY <1>2, <1>g, <2>1, OthersFrame
<1>5. TypeOK'
  BY <1>1, <1>2
<1>6. disk'.at <= issued'
  BY <1>z, <1>1, <1>g
<1>7. \A d \in Callers : CallerInv(d)' /\ Fresh(d)'
  BY <1>3, <1>4
<1>8. QED BY <1>5, <1>6, <1>7 DEF Strong


\* The answer handled: throw on a refusal, else the updated document is
\* written back or returned.
LEMMA ReceiveStrong ==
  ASSUME Strong, NEW c \in Callers, Receive(c) PROVE Strong'
<1>0. TypeOK
  BY DEF Strong
<1>z. disk.at <= issued /\ \A d \in Callers : CallerInv(d) /\ Fresh(d)
  BY DEF Strong
<1> USE <1>0
<1> USE DEF TypeOK, Docs, Results
<1> DEFINE doc == [at |-> resp[c].at,
                   rt |-> IF resp[c].rt = 0 THEN snap[c].rt ELSE resp[c].rt,
                   stamped |-> TRUE]
<1>1. /\ pc[c] = "responded"
      /\ UNCHANGED <<now, disk, tmps, expOf, valid, issued, rotates, snap, readNow, resp, ro>>
  BY DEF Receive, serverVars
<1>g. issued' \in Nat /\ issued <= issued' /\ \A i \in 1..issued : expOf'[i] = expOf[i]
  BY <1>1, ServerKept
<1>2. result[c] = Undefined
  BY <1>z, <1>1 DEF CallerInv
<1>3. \A d \in Callers \ {c} : CallerInv(d)' /\ Fresh(d)'
  <2>1. \A d \in Callers \ {c} :
          pc'[d] = pc[d] /\ snap'[d] = snap[d] /\ next'[d] = next[d] /\
          resp'[d] = resp[d] /\ result'[d] = result[d] /\ readNow'[d] = readNow[d]
    BY <1>1 DEF Receive
  <2>2. QED BY <1>g, <2>1, OthersFrame
<1>4. CASE ~resp[c].ok
  <2>1. pc' = [pc EXCEPT ![c] = "failed"] /\ next' = next /\ result' = result
    BY <1>4 DEF Receive
  <2>2. CallerInv(c)' /\ Fresh(c)'
    BY <1>z, <1>1, <1>2, <2>1 DEF CallerInv, Fresh
  <2>3. QED BY <1>1, <1>3, <2>1, <2>2 DEF Strong
<1>5. CASE resp[c].ok
  <2>1. snap[c].at < doc.at /\ doc.at <= issued /\ doc \in Docs
    BY <1>z, <1>1, <1>5, SMTT(20) DEF CallerInv
  <2>2. CASE WriteBack
    <3>1. pc' = [pc EXCEPT ![c] = "writing"] /\ next' = [next EXCEPT ![c] = doc]
          /\ result' = result
      BY <1>5, <2>2 DEF Receive
    <3>2. CallerInv(c)' /\ Fresh(c)'
      BY <1>z, <1>1, <1>2, <2>1, <3>1 DEF CallerInv, Fresh
    <3>3. QED BY <1>1, <1>3, <2>1, <3>1, <3>2 DEF Strong
  <2>3. CASE ~WriteBack
    <3>1. pc' = [pc EXCEPT ![c] = "done"] /\ next' = [next EXCEPT ![c] = doc]
          /\ result' = [result EXCEPT ![c] = [at |-> doc.at, rt |-> doc.rt]]
      BY <1>5, <2>3, SMTT(20) DEF Receive
    <3>2. CallerInv(c)'
      BY <1>z, <1>1, <2>1, <3>1 DEF CallerInv
    <3>3. Fresh(c)'
      BY <1>z, <1>1, <2>1, <3>1, SMTT(20) DEF Fresh
    <3>4. QED BY <1>1, <1>3, <2>1, <3>1, <3>2, <3>3 DEF Strong
  <2>4. QED BY <2>2, <2>3 DEF Strong
<1>6. QED BY <1>4, <1>5 DEF Strong

\* writeJsonFile's temporary file is written.
LEMMA WriteTmpStrong ==
  ASSUME Strong, NEW c \in Callers, WriteTmp(c) PROVE Strong'
<1>0. TypeOK
  BY DEF Strong
<1>z. disk.at <= issued /\ \A d \in Callers : CallerInv(d) /\ Fresh(d)
  BY DEF Strong
<1> USE <1>0
<1> USE DEF TypeOK, Docs, Results
<1>1. /\ pc[c] = "writing" /\ pc' = [pc EXCEPT ![c] = "renaming"] /\ tmps' = tmps \cup {c}
      /\ UNCHANGED <<now, disk, expOf, valid, issued, rotates, snap, readNow, resp, next, result, ro>>
  BY DEF WriteTmp, serverVars
<1>g. issued' \in Nat /\ issued <= issued' /\ \A i \in 1..issued : expOf'[i] = expOf[i]
  BY <1>1, ServerKept
<1>2. CallerInv(c)' /\ Fresh(c)'
  BY <1>z, <1>1 DEF CallerInv, Fresh
<1>3. \A d \in Callers \ {c} : CallerInv(d)' /\ Fresh(d)'
  <2>1. \A d \in Callers \ {c} :
          pc'[d] = pc[d] /\ snap'[d] = snap[d] /\ next'[d] = next[d] /\
          resp'[d] = resp[d] /\ result'[d] = result[d] /\ readNow'[d] = readNow[d]
    BY <1>1
  <2>2. QED BY <1>g, <2>1, OthersFrame
<1>4. QED BY <1>1, <1>2, <1>3 DEF Strong

\* The rename puts the updated document in place and the caller returns it.
LEMMA RenameStrong ==
  ASSUME Strong, NEW c \in Callers, Rename(c) PROVE Strong'
<1>0. TypeOK
  BY DEF Strong
<1>z. disk.at <= issued /\ \A d \in Callers : CallerInv(d) /\ Fresh(d)
  BY DEF Strong
<1> USE <1>0
<1> USE DEF TypeOK, Docs, Results
<1>1. /\ pc[c] = "renaming" /\ pc' = [pc EXCEPT ![c] = "done"]
      /\ disk' = next[c] /\ tmps' = tmps \ {c}
      /\ result' = [result EXCEPT ![c] = [at |-> next[c].at, rt |-> next[c].rt]]
      /\ UNCHANGED <<now, expOf, valid, issued, rotates, snap, readNow, resp, next, ro>>
  BY DEF Rename, serverVars
<1>g. issued' \in Nat /\ issued <= issued' /\ \A i \in 1..issued : expOf'[i] = expOf[i]
  BY <1>1, ServerKept
<1>2. snap[c].at < next[c].at /\ next[c].at <= issued
  BY <1>z, <1>1 DEF CallerInv
<1>3. CallerInv(c)'
  BY <1>z, <1>1, <1>2, SMTT(20) DEF CallerInv
<1>4. Fresh(c)'
  BY <1>z, <1>1, <1>2 DEF Fresh
<1>5. \A d \in Callers \ {c} : CallerInv(d)' /\ Fresh(d)'
  <2>1. \A d \in Callers \ {c} :
          pc'[d] = pc[d] /\ snap'[d] = snap[d] /\ next'[d] = next[d] /\
          resp'[d] = resp[d] /\ result'[d] = result[d] /\ readNow'[d] = readNow[d]
    BY <1>1
  <2>2. QED BY <1>g, <2>1, OthersFrame
<1>6. QED BY <1>1, <1>2, <1>3, <1>4, <1>5 DEF Strong

\* The process dies at an await.
LEMMA CrashStrong ==
  ASSUME Strong, NEW c \in Callers, Crash(c) PROVE Strong'
<1>0. TypeOK
  BY DEF Strong
<1>z. disk.at <= issued /\ \A d \in Callers : CallerInv(d) /\ Fresh(d)
  BY DEF Strong
<1> USE <1>0
<1> USE DEF TypeOK, Docs, Results
<1>1. /\ pc[c] \in {"fetching", "responded", "writing", "renaming"}
      /\ pc' = [pc EXCEPT ![c] = "crashed"]
      /\ UNCHANGED <<now, disk, tmps, expOf, valid, issued, rotates, snap, readNow, resp, next, result, ro>>
  BY DEF Crash, serverVars
<1>g. issued' \in Nat /\ issued <= issued' /\ \A i \in 1..issued : expOf'[i] = expOf[i]
  BY <1>1, ServerKept
<1>2. CallerInv(c)' /\ Fresh(c)'
  BY <1>z, <1>1, SMTT(20) DEF CallerInv, Fresh
<1>3. \A d \in Callers \ {c} : CallerInv(d)' /\ Fresh(d)'
  <2>1. \A d \in Callers \ {c} :
          pc'[d] = pc[d] /\ snap'[d] = snap[d] /\ next'[d] = next[d] /\
          resp'[d] = resp[d] /\ result'[d] = result[d] /\ readNow'[d] = readNow[d]
    BY <1>1
  <2>2. QED BY <1>g, <2>1, OthersFrame
<1>4. QED BY <1>1, <1>2, <1>3 DEF Strong


\* A step that leaves every caller's variables alone keeps every caller's
\* part of the invariant.
LEMMA AllCallersFrame ==
  ASSUME Strong,
         issued' \in Nat, issued <= issued', \A i \in 1..issued : expOf'[i] = expOf[i],
         pc' = pc, snap' = snap, next' = next, resp' = resp, result' = result,
         readNow' = readNow
  PROVE  \A d \in Callers : CallerInv(d)' /\ Fresh(d)'
<1> SUFFICES ASSUME NEW d \in Callers PROVE CallerInv(d)' /\ Fresh(d)'
  OBVIOUS
<1>1. TypeOK /\ CallerInv(d) /\ Fresh(d)
  BY DEF Strong
<1>2. /\ pc'[d] = pc[d] /\ snap'[d] = snap[d] /\ next'[d] = next[d]
      /\ resp'[d] = resp[d] /\ result'[d] = result[d] /\ readNow'[d] = readNow[d]
  OBVIOUS
<1>3. QED BY <1>1, <1>2, CallerFrame

\* The other actors leave every caller's variables alone.
LEMMA EnvStrong ==
  ASSUME Strong, Tick \/ CliRefresh \/ ReadOnlyRead \/ UNCHANGED vars PROVE Strong'
<1>0. TypeOK
  BY DEF Strong
<1>z. disk.at <= issued
  BY DEF Strong
<1>1. CASE Tick
  <2>1. now' = now + 1 /\ now < MaxTime
        /\ UNCHANGED <<disk, tmps, expOf, valid, issued, rotates, pc, snap, readNow,
                       resp, next, result, ro>>
    BY <1>1 DEF Tick, serverVars, callerVars
  <2>2. issued' \in Nat /\ issued <= issued' /\ \A i \in 1..issued : expOf'[i] = expOf[i]
    BY <1>0, <2>1, ServerKept
  <2>3. \A d \in Callers : CallerInv(d)' /\ Fresh(d)'
    BY <2>1, <2>2, AllCallersFrame
  <2>4. now' \in 0..MaxTime
    BY <1>0, <2>1, AuthAssumption DEF TypeOK
  <2>5. TypeOK'
    BY <1>0, <2>1, <2>4 DEF TypeOK
  <2>6. QED BY <1>z, <2>1, <2>3, <2>5 DEF Strong
<1>2. CASE CliRefresh
  <2>1. /\ disk.at # 0 /\ Issue(disk.rt)
        /\ disk' = [at |-> issued + 1, rt |-> IF rotates THEN issued + 1 ELSE disk.rt,
                    stamped |-> disk.stamped]
        /\ UNCHANGED <<now, tmps, pc, snap, readNow, resp, next, result, ro>>
    BY <1>2 DEF CliRefresh, callerVars
  <2>2. /\ issued' = issued + 1 /\ issued' \in 1..MaxIssued
        /\ expOf' \in [1..MaxIssued -> {Unknown} \cup Nat]
        /\ valid' \subseteq 1..MaxIssued /\ rotates' = rotates
        /\ \A i \in 1..issued : expOf'[i] = expOf[i]
    BY <1>0, <2>1, IssueFacts
  <2>3. issued' \in Nat /\ issued <= issued'
    BY <1>0, <2>2, IssuedStep DEF TypeOK
  <2>4. disk' \in Docs /\ disk'.at <= issued'
    BY <1>0, <2>1, <2>2 DEF TypeOK, Docs
  <2>5. \A d \in Callers : CallerInv(d)' /\ Fresh(d)'
    BY <2>1, <2>2, <2>3, AllCallersFrame
  <2>6. TypeOK'
    BY <1>0, <2>1, <2>2, <2>4 DEF TypeOK
  <2>7. QED BY <2>4, <2>5, <2>6 DEF Strong
<1>3. CASE ReadOnlyRead
  <2>1. /\ ro' = [res |-> ReadOnlyAuth(disk, now), at |-> now]
        /\ UNCHANGED <<now, disk, tmps, expOf, valid, issued, rotates, pc, snap, readNow,
                       resp, next, result>>
    BY <1>3 DEF ReadOnlyRead, serverVars, callerVars
  <2>2. ReadOnlyAuth(disk, now) \in Results
    BY <1>0, AuthAssumption DEF ReadOnlyAuth, Undefined, Results, TypeOK, Docs
  <2>3. issued' \in Nat /\ issued <= issued' /\ \A i \in 1..issued : expOf'[i] = expOf[i]
    BY <1>0, <2>1, ServerKept
  <2>4. \A d \in Callers : CallerInv(d)' /\ Fresh(d)'
    BY <2>1, <2>3, AllCallersFrame
  <2>5. TypeOK'
    BY <1>0, <2>1, <2>2 DEF TypeOK
  <2>6. QED BY <1>z, <2>1, <2>4, <2>5 DEF Strong
<1>4. CASE UNCHANGED vars
  <2>1. UNCHANGED <<now, disk, tmps, expOf, valid, issued, rotates, pc, snap, readNow,
                    resp, next, result, ro>>
    BY <1>4 DEF vars
  <2>2. issued' \in Nat /\ issued <= issued' /\ \A i \in 1..issued : expOf'[i] = expOf[i]
    BY <1>0, <2>1, ServerKept
  <2>3. \A d \in Callers : CallerInv(d)' /\ Fresh(d)'
    BY <2>1, <2>2, AllCallersFrame
  <2>4. TypeOK'
    BY <1>0, <2>1 DEF TypeOK
  <2>5. QED BY <1>z, <2>1, <2>3, <2>4 DEF Strong
<1>5. QED BY <1>1, <1>2, <1>3, <1>4

\* Each step of Next preserves the inductive invariant.
LEMMA NextIInv == IInv /\ [Next]_vars => IInv'
<1> SUFFICES ASSUME Strong, [Next]_vars PROVE Strong'
  BY DEF Strong, IInv, NoStaleCredential, Fresh
<1>1. CASE \E c \in Callers :
             \/ Read(c) \/ Fetch(c) \/ FetchLost(c) \/ Receive(c)
             \/ WriteTmp(c) \/ Rename(c) \/ Crash(c)
  BY <1>1, ReadStrong, FetchStrong, FetchLostStrong, ReceiveStrong, WriteTmpStrong,
     RenameStrong, CrashStrong
<1>2. CASE Tick \/ CliRefresh \/ ReadOnlyRead \/ UNCHANGED vars
  BY <1>2, EnvStrong
<1>3. QED BY <1>1, <1>2 DEF Next

\* IInv holds in every reachable state.
THEOREM IInvHolds == Spec => []IInv
BY InitIInv, NextIInv, PTL DEF Spec

\* Every variable of the refresher keeps its type, whatever the callers,
\* the CLI and the faults do.
THEOREM AuthTypeCorrect == Spec => []TypeOK
BY IInvHolds, PTL DEF IInv

\* getCodexCliAuth never returns the credential it read when that
\* credential was expiring and refreshable: a failed refresh throws, and a
\* successful one returns the new access token, for any number of
\* concurrent callers, any leeway and any faults.
THEOREM NoStaleCredentialHolds == Spec => []NoStaleCredential
BY IInvHolds, PTL DEF IInv

\* No step takes the access token out of the auth file: only Rename and
\* CliRefresh write it, and both write a token (a caller that renames holds
\* a newer access token than the one it read).
LEMMA NoTornStep ==
  ASSUME IInv, [Next]_vars PROVE disk.at # 0 => disk'.at # 0
<1>1. CASE \E c \in Callers : Rename(c)
  <2>1. PICK c \in Callers : Rename(c)
    BY <1>1
  <2>2. pc[c] = "renaming" /\ disk' = next[c]
    BY <2>1 DEF Rename
  <2>3. snap[c].at < next[c].at /\ snap[c].at \in Nat /\ next[c].at \in Nat
    <3>1. snap[c] \in Docs /\ next[c] \in Docs
      BY DEF IInv, TypeOK
    <3>2. snap[c].at \in Nat /\ next[c].at \in Nat
      BY <3>1 DEF Docs
    <3>3. QED BY <2>2, <3>2 DEF IInv, CallerInv
  <2>4. QED BY <2>2, <2>3
<1>2. CASE CliRefresh
  <2>1. issued \in Nat /\ disk'.at = issued + 1
    BY <1>2 DEF CliRefresh, IInv, TypeOK
  <2>2. QED BY <2>1
<1>3. CASE ~(\E c \in Callers : Rename(c)) /\ ~CliRefresh
  <2>1. ASSUME NEW c \in Callers,
               Read(c) \/ Fetch(c) \/ FetchLost(c) \/ Receive(c) \/ WriteTmp(c) \/ Crash(c)
        PROVE  disk' = disk
    BY <2>1 DEF Read, Fetch, FetchLost, Receive, WriteTmp, Crash
  <2>2. Tick \/ ReadOnlyRead \/ UNCHANGED vars => disk' = disk
    BY DEF Tick, ReadOnlyRead, vars
  <2>3. QED BY <1>3, <2>1, <2>2 DEF Next
<1>4. QED BY <1>1, <1>2, <1>3

\* Readers of the auth file never find it without an access token once it
\* had one, whatever the callers, the CLI and the faults do: writeJsonFile
\* replaces the file by renaming a complete temporary file.
THEOREM NoTornAuthFileHolds == Spec => NoTornAuthFile
<1>1. IInv /\ [Next]_vars => [disk.at # 0 => disk'.at # 0]_vars
  BY NoTornStep
<1>2. QED BY IInvHolds, <1>1, PTL DEF Spec, NoTornAuthFile

=============================================================================
