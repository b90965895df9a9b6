------------------------- MODULE CodexOriginalProofs -------------------------
(***************************************************************************)
(* Proofs about the original codex tool (CodexOriginal): even without the *)
(* `settled` guard, its Promise settles once and for good and its child   *)
(* writes nothing after settlement.  The reason is the order of the       *)
(* handlers: resolve and reject run only before the spawn (pc "init") or  *)
(* once the child is gone (dead or failed to spawn), and the child runs   *)
(* only while the Promise is pending.                                     *)
(***************************************************************************)
EXTENDS CodexOriginal, TLAPS

\* The inductive invariant: before the executor runs there is no child and
\* the Promise is pending, and a running child means a pending Promise.
OrigInv ==
  /\ pc = "init" => child = "none" /\ promise = Pending
  /\ child = "running" => promise.status = "pending"

LEMMA PendingStatus == Pending.status = "pending"
BY DEF Pending

LEMMA InitOrig == Init => OrigInv
BY PendingStatus DEF Init, OrigInv

\* resolve/reject on a settled Promise leaves it as it is.
LEMMA SettleKeepsSettled ==
  ASSUME promise.status # "pending", NEW v, Settle(v) PROVE promise' = promise
BY DEF Settle

LEMMA NextOrig == OrigInv /\ [OrigNext]_vars => OrigInv'
<1> SUFFICES ASSUME OrigInv, [OrigNext]_vars PROVE OrigInv'
  OBVIOUS
<1>1. CASE OrigStart
  <2>1. CASE aborted
    BY <1>1, <2>1 DEF OrigStart, OrigInv
  <2>2. CASE ~aborted
    BY <1>1, <2>2, PendingStatus DEF OrigStart, OrigInv
  <2>3. QED BY <2>1, <2>2
<1>2. CASE OrigClose \/ OrigCloseAfterError \/ OrigError
  BY <1>2 DEF OrigClose, OrigCloseAfterError, OrigError, OrigInv
<1>3. CASE Abort \/ TimerFire \/ DataStep \/ StderrData
  BY <1>3 DEF Abort, TimerFire, DataStep, Data, StderrData, OrigInv, streamVars,
             settleVars
<1>4. CASE ChildWrite \/ ChildExit \/ ExternalKill \/ DeliverSignal \/ Reap
  BY <1>4 DEF ChildWrite, ChildExit, ExternalKill, DeliverSignal, ChildDies, Reap,
             envFrozen, streamVars, settleVars, OrigInv
<1>5. CASE UNCHANGED vars
  BY <1>5 DEF vars, streamVars, settleVars, OrigInv
<1>6. QED BY <1>1, <1>2, <1>3, <1>4, <1>5 DEF OrigNext

THEOREM OrigInvHolds == OrigSpec => []OrigInv
BY InitOrig, NextOrig, PTL DEF OrigSpec

\* No step of the original tool changes a settled Promise or lets the child
\* write: a second resolve/reject is ignored by the Promise, and no child is
\* running once it has settled.
LEMMA OrigSettledFinalStep ==
  ASSUME OrigInv, [OrigNext]_vars
  PROVE  promise.status # "pending" => promise' = promise /\ written' = written
<1> SUFFICES ASSUME promise.status # "pending" PROVE promise' = promise /\ written' = written
  OBVIOUS
<1>1. child # "running" /\ pc # "init"
  BY PendingStatus DEF OrigInv
<1>2. CASE OrigStart
  BY <1>1, <1>2 DEF OrigStart
<1>3. CASE OrigClose \/ OrigCloseAfterError \/ OrigError
  <2>1. \E v : Settle(v)
    BY <1>3 DEF OrigClose, OrigCloseAfterError, OrigError, OrigOnClose
  <2>2. promise' = promise
    BY <2>1, SettleKeepsSettled
  <2>3. QED BY <1>3, <2>2 DEF OrigClose, OrigCloseAfterError, OrigError, streamVars
<1>4. CASE ChildWrite
  BY <1>1, <1>4 DEF ChildWrite
<1>5. CASE Abort \/ TimerFire \/ DataStep \/ StderrData
  BY <1>5 DEF Abort, TimerFire, DataStep, Data, StderrData, streamVars, settleVars
<1>6. CASE ChildExit \/ ExternalKill \/ DeliverSignal \/ Reap \/ UNCHANGED vars
  BY <1>6 DEF ChildExit, ExternalKill, DeliverSignal, Reap, envFrozen, streamVars,
             settleVars, vars
<1>7. QED BY <1>2, <1>3, <1>4, <1>5, <1>6 DEF OrigNext

\* The original codex tool, which calls resolve/reject without the
\* `settled` guard, still settles once and for good: after its Promise has
\* settled, no later 'close', 'error' or abort changes it, and the child
\* writes nothing more.
THEOREM OrigSettledIsFinal == OrigSpec => SettledIsFinal
<1>1. OrigInv /\ [OrigNext]_vars => [promise.status # "pending" => promise' = promise /\ written' = written]_vars
  BY OrigSettledFinalStep
<1>2. QED BY <1>1, OrigInvHolds, PTL DEF SettledIsFinal, OrigSpec
=============================================================================
