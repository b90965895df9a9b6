------------------------- MODULE CodexExecuteProofs -------------------------
(***************************************************************************)
(* Proofs about CodexExecute for every set of stdout streams Outputs:      *)
(* the control state keeps its type, resolve/reject is called at most      *)
(* once, and a result built by the 'close' handler only exists once the   *)
(* child is gone and its stdout drained.  All three follow from IInv.      *)
(***************************************************************************)
EXTENDS CodexExecute, TLAPS

\* Every initial state satisfies the inductive invariant.
LEMMA InitIInv == Init => IInv
<1> SUFFICES ASSUME Init PROVE IInv
  OBVIOUS
<1>1. out \in Seq(Atoms)
  BY OutputsAssumption DEF Init
<1>2. ControlTypeOK
  <2>1. written \in 0..Len(out) /\ delivered \in 0..written
    BY <1>1 DEF Init
  <2>2. pendingSig \subseteq {"TERM", "KILL"}
    BY DEF Init
  <2>3. promise.status \in {"pending", "resolved", "rejected"}
    BY DEF Init, Pending
  <2>4. QED BY <2>1, <2>2, <2>3 DEF Init, ControlTypeOK, SpawnErrors, ExitCodes
<1>3. SettleAccounting /\ NoProcessNoOutput
  BY DEF Init, SettleAccounting, NoProcessNoOutput, Pending
<1>4. SettledOnlyWhenDrained
  BY DEF Init, SettledOnlyWhenDrained, SettledByClose, Pending
<1>5. QED BY <1>2, <1>3, <1>4 DEF IInv

\* child.kill(sig) leaves the signal bookkeeping in its type.
LEMMA KillTyped ==
  ASSUME killed \in BOOLEAN, pendingSig \subseteq {"TERM", "KILL"},
         NEW sig \in {"TERM", "KILL"}, Kill(sig)
  PROVE  killed' \in BOOLEAN /\ pendingSig' \subseteq {"TERM", "KILL"}
BY DEF Kill

\* safeResolve/safeReject leave the guard, the call count and the
\* Promise's status in their types.
LEMMA SafeSettleTyped ==
  ASSUME settled \in BOOLEAN, calls \in Nat, promise.status \in {"pending", "resolved", "rejected"},
         NEW v, v.status \in {"pending", "resolved", "rejected"}, SafeSettle(v)
  PROVE  settled' \in BOOLEAN /\ calls' \in Nat /\ promise'.status \in {"pending", "resolved", "rejected"}
<1>1. CASE settled
  BY <1>1 DEF SafeSettle, settleVars
<1>2. CASE ~settled /\ promise.status = "pending"
  BY <1>2 DEF SafeSettle, Settle
<1>3. CASE ~settled /\ promise.status # "pending"
  BY <1>3 DEF SafeSettle, Settle
<1>4. QED BY <1>1, <1>2, <1>3

\* Each action preserves the inductive invariant: one case per action,
\* and under it one step per conjunct of IInv.
LEMMA NextIInv == IInv /\ [Next]_vars => IInv'
<1> SUFFICES ASSUME IInv, [Next]_vars PROVE IInv'
  OBVIOUS
<1>0. out \in Seq(Atoms)
  BY OutputsAssumption DEF IInv, ControlTypeOK
<1> USE DEF IInv, ControlTypeOK, SpawnErrors, ExitCodes, SettleAccounting,
            NoProcessNoOutput, SettledOnlyWhenDrained, SettledByClose
<1>1. CASE Start /\ aborted
  <2>1. ControlTypeOK'
    BY <1>1 DEF Start, SafeSettle, Settle, Resolved, settleVars, streamVars
  <2>2. SettleAccounting'
    BY <1>1 DEF Start, SafeSettle, Settle, Resolved, settleVars, streamVars
  <2>3. NoProcessNoOutput'
    BY <1>1 DEF Start, SafeSettle, Settle, Resolved, settleVars, streamVars
  <2>4. SettledOnlyWhenDrained'
    BY <1>1 DEF Start, SafeSettle, Settle, Resolved, settleVars, streamVars
  <2>5. QED BY <2>1, <2>2, <2>3, <2>4
<1>2. CASE Start /\ ~aborted
  <2>1. ControlTypeOK'
    BY <1>2, ZenonT(30) DEF Start, settleVars, streamVars
  <2>2. SettleAccounting'
    BY <1>2 DEF Start, settleVars, streamVars
  <2>3. NoProcessNoOutput'
    BY <1>2 DEF Start, settleVars, streamVars
  <2>4. SettledOnlyWhenDrained'
    BY <1>2 DEF Start, settleVars, streamVars
  <2>5. QED BY <2>1, <2>2, <2>3, <2>4
<1>3. CASE Abort
  <2>1. ControlTypeOK'
    <3>1. /\ listener' \in BOOLEAN /\ timer' \in {"none", "armed", "fired"}
          /\ killed' \in BOOLEAN /\ pendingSig' \subseteq {"TERM", "KILL"}
      <4>1. CASE listener /\ child # "none" /\ ~killed
        BY <1>3, <4>1, KillTyped DEF Abort, OnAbort
      <4>2. CASE ~(listener /\ child # "none" /\ ~killed)
        BY <1>3, <4>2 DEF Abort, OnAbort
      <4>3. QED BY <4>1, <4>2
    <3>2. QED BY <1>3, <3>1 DEF Abort, streamVars, settleVars
  <2>2. SettleAccounting'
    BY <1>3 DEF Abort, OnAbort, Kill, streamVars, settleVars
  <2>3. NoProcessNoOutput'
    BY <1>3 DEF Abort, OnAbort, Kill, streamVars, settleVars
  <2>4. SettledOnlyWhenDrained'
    BY <1>3 DEF Abort, OnAbort, Kill, streamVars, settleVars
  <2>5. QED BY <2>1, <2>2, <2>3, <2>4
<1>4. CASE TimerFire
  <2>1. ControlTypeOK'
    <3>1. killed' \in BOOLEAN /\ pendingSig' \subseteq {"TERM", "KILL"}
      <4>1. CASE child # "none" /\ ~killed
        BY <1>4, <4>1, KillTyped DEF TimerFire
      <4>2. CASE ~(child # "none" /\ ~killed)
        BY <1>4, <4>2 DEF TimerFire
      <4>3. QED BY <4>1, <4>2
    <3>2. QED BY <1>4, <3>1 DEF TimerFire, streamVars, settleVars
  <2>2. SettleAccounting'
    BY <1>4 DEF TimerFire, Kill, streamVars, settleVars
  <2>3. NoProcessNoOutput'
    BY <1>4 DEF TimerFire, Kill, streamVars, settleVars
  <2>4. SettledOnlyWhenDrained'
    BY <1>4 DEF TimerFire, Kill, streamVars, settleVars
  <2>5. QED BY <2>1, <2>2, <2>3, <2>4
<1>5. CASE DataStep
  <2>1. PICK k \in 1..(written - delivered) : Data(k)
    BY <1>5 DEF DataStep
  <2>2. /\ delivered' = delivered + k
        /\ UNCHANGED <<pc, aborted, listener, child, spawnErr, exitCode, killed,
                       pendingSig, timer, reaped, errorDone, closed, out, written,
                       settled, calls, promise>>
    BY <2>1 DEF Data, settleVars
  <2>3. ControlTypeOK'
    BY <2>1, <2>2
  <2>4. SettleAccounting'
    BY <2>1, <2>2
  <2>5. NoProcessNoOutput'
    BY <2>1, <2>2
  <2>6. SettledOnlyWhenDrained'
    BY <2>1, <2>2
  <2>7. QED BY <2>3, <2>4, <2>5, <2>6
<1>6. CASE StderrData
  <2>1. ControlTypeOK'
    BY <1>6 DEF StderrData, settleVars
  <2>2. SettleAccounting'
    BY <1>6 DEF StderrData, settleVars
  <2>3. NoProcessNoOutput'
    BY <1>6 DEF StderrData, settleVars
  <2>4. SettledOnlyWhenDrained'
    BY <1>6 DEF StderrData, settleVars
  <2>5. QED BY <2>1, <2>2, <2>3, <2>4
<1>7. CASE Close
  <2>1. ControlTypeOK'
    <3>1. settled' \in BOOLEAN /\ calls' \in Nat /\ promise'.status \in {"pending", "resolved", "rejected"}
      BY <1>7, SafeSettleTyped DEF Close, OnClose, Resolved
    <3>2. QED BY <1>7, <3>1 DEF Close, OnClose
  <2>2. SettleAccounting'
    BY <1>7 DEF Close, OnClose, SafeSettle, Settle, Resolved, settleVars
  <2>3. NoProcessNoOutput'
    BY <1>7 DEF Close, OnClose, SafeSettle, Settle, Resolved, settleVars
  <2>4. SettledOnlyWhenDrained'
    BY <1>7 DEF Close, OnClose, SafeSettle, Settle, Resolved, settleVars
  <2>5. QED BY <2>1, <2>2, <2>3, <2>4
<1>8. CASE CloseAfterError
  <2>1. ControlTypeOK'
    <3>1. settled' \in BOOLEAN /\ calls' \in Nat /\ promise'.status \in {"pending", "resolved", "rejected"}
      BY <1>8, SafeSettleTyped DEF CloseAfterError, OnClose, Resolved
    <3>2. QED BY <1>8, <3>1, ZenonT(30) DEF CloseAfterError, OnClose
  <2>2. SettleAccounting'
    BY <1>8 DEF CloseAfterError, OnClose, SafeSettle, Settle, Resolved, settleVars
  <2>3. NoProcessNoOutput'
    BY <1>8 DEF CloseAfterError, OnClose, SafeSettle, Settle, Resolved, settleVars
  <2>4. SettledOnlyWhenDrained'
    BY <1>8 DEF CloseAfterError, OnClose, SafeSettle, Settle, Resolved, settleVars
  <2>5. QED BY <2>1, <2>2, <2>3, <2>4
<1>9. CASE Error
  <2>1. ControlTypeOK'
    <3>1. settled' \in BOOLEAN /\ calls' \in Nat /\ promise'.status \in {"pending", "resolved", "rejected"}
      BY <1>9, SafeSettleTyped DEF Error, Rejected
    <3>2. /\ errorDone' = TRUE /\ listener' = FALSE
          /\ UNCHANGED <<pc, aborted, child, spawnErr, exitCode, killed, pendingSig,
                         timer, reaped, closed, out, written, delivered>>
      BY <1>9 DEF Error, streamVars
    <3>3. ControlTypeOK
      OBVIOUS
    <3>4. /\ pc' \in {"init", "spawned", "returned"}
          /\ aborted' \in BOOLEAN /\ listener' \in BOOLEAN
          /\ child' \in {"none", "failed", "running", "dead"}
          /\ spawnErr' \in SpawnErrors \cup {"none"}
          /\ exitCode' \in ExitCodes \cup {"none"}
      BY ONLY <3>2, <3>3 DEF ControlTypeOK
    <3>5. /\ killed' \in BOOLEAN /\ pendingSig' \subseteq {"TERM", "KILL"}
          /\ timer' \in {"none", "armed", "fired"}
          /\ reaped' \in BOOLEAN /\ errorDone' \in BOOLEAN /\ closed' \in BOOLEAN
      BY ONLY <3>2, <3>3 DEF ControlTypeOK
    <3>6. out' \in Outputs /\ written' \in 0..Len(out') /\ delivered' \in 0..written'
      BY ONLY <3>2, <3>3 DEF ControlTypeOK
    <3>7. QED BY ONLY <3>1, <3>4, <3>5, <3>6 DEF ControlTypeOK
  <2>2. SettleAccounting'
    BY <1>9 DEF Error, SafeSettle, Settle, Rejected, streamVars, settleVars
  <2>3. NoProcessNoOutput'
    BY <1>9 DEF Error, SafeSettle, Settle, Rejected, streamVars, settleVars
  <2>4. SettledOnlyWhenDrained'
    BY <1>9 DEF Error, SafeSettle, Settle, Rejected, streamVars, settleVars
  <2>5. QED BY <2>1, <2>2, <2>3, <2>4
<1>10. CASE ChildWrite
  <2>1. ControlTypeOK'
    BY <1>10 DEF ChildWrite, envFrozen, settleVars
  <2>2. SettleAccounting'
    BY <1>10 DEF ChildWrite, envFrozen, settleVars
  <2>3. NoProcessNoOutput'
    BY <1>10 DEF ChildWrite, envFrozen, settleVars
  <2>4. SettledOnlyWhenDrained'
    BY <1>10 DEF ChildWrite, envFrozen, settleVars
  <2>5. QED BY <2>1, <2>2, <2>3, <2>4
<1>11. CASE ChildExit
  <2>1. ControlTypeOK'
    BY <1>11 DEF ChildExit, ChildDies, envFrozen, streamVars, settleVars
  <2>2. SettleAccounting'
    BY <1>11 DEF ChildExit, ChildDies, envFrozen, streamVars, settleVars
  <2>3. NoProcessNoOutput'
    BY <1>11 DEF ChildExit, ChildDies, envFrozen, streamVars, settleVars
  <2>4. SettledOnlyWhenDrained'
    BY <1>11 DEF ChildExit, ChildDies, envFrozen, streamVars, settleVars
  <2>5. QED BY <2>1, <2>2, <2>3, <2>4
<1>12. CASE ExternalKill
  <2>1. ControlTypeOK'
    BY <1>12 DEF ExternalKill, ChildDies, envFrozen, streamVars, settleVars
  <2>2. SettleAccounting'
    BY <1>12 DEF ExternalKill, ChildDies, envFrozen, streamVars, settleVars
  <2>3. NoProcessNoOutput'
    BY <1>12 DEF ExternalKill, ChildDies, envFrozen, streamVars, settleVars
  <2>4. SettledOnlyWhenDrained'
    BY <1>12 DEF ExternalKill, ChildDies, envFrozen, streamVars, settleVars
  <2>5. QED BY <2>1, <2>2, <2>3, <2>4
<1>13. CASE DeliverSignal
  <2>1. ControlTypeOK'
    <3>1. PICK s \in pendingSig :
            IF s = "KILL" THEN ChildDies("null")
            ELSE \/ ChildDies("null")
                 \/ \E c \in {"0", "1"} : ChildDies(c)
                 \/ /\ pendingSig' = pendingSig \ {s}
                    /\ UNCHANGED <<child, exitCode>>
      BY <1>13 DEF DeliverSignal
    <3>2. /\ child' \in {"none", "failed", "running", "dead"}
          /\ exitCode' \in ExitCodes \cup {"none"}
          /\ pendingSig' \subseteq {"TERM", "KILL"}
      BY <3>1 DEF ChildDies
    <3>3. QED BY <1>13, <3>2 DEF DeliverSignal, envFrozen, streamVars, settleVars
  <2>2. SettleAccounting'
    BY <1>13 DEF DeliverSignal, ChildDies, envFrozen, streamVars, settleVars
  <2>3. NoProcessNoOutput'
    BY <1>13 DEF DeliverSignal, ChildDies, envFrozen, streamVars, settleVars
  <2>4. SettledOnlyWhenDrained'
    BY <1>13 DEF DeliverSignal, ChildDies, envFrozen, streamVars, settleVars
  <2>5. QED BY <2>1, <2>2, <2>3, <2>4
<1>14. CASE Reap
  <2>1. ControlTypeOK'
    BY <1>14 DEF Reap, streamVars, settleVars
  <2>2. SettleAccounting'
    BY <1>14 DEF Reap, streamVars, settleVars
  <2>3. NoProcessNoOutput'
    BY <1>14 DEF Reap, streamVars, settleVars
  <2>4. SettledOnlyWhenDrained'
    BY <1>14 DEF Reap, streamVars, settleVars
  <2>5. QED BY <2>1, <2>2, <2>3, <2>4
<1>15. CASE UNCHANGED vars
  <2>1. ControlTypeOK'
    BY <1>15 DEF vars
  <2>2. SettleAccounting'
    BY <1>15 DEF vars
  <2>3. NoProcessNoOutput'
    BY <1>15 DEF vars
  <2>4. SettledOnlyWhenDrained'
    BY <1>15 DEF vars
  <2>5. QED BY <2>1, <2>2, <2>3, <2>4
<1>16. QED
  BY <1>1, <1>2, <1>3, <1>4, <1>5, <1>6, <1>7, <1>8, <1>9, <1>10, <1>11, <1>12, <1>13, <1>14, <1>15 DEF Next

\* The inductive invariant holds in every reachable state.
THEOREM IInvHolds == Spec => []IInv
BY InitIInv, NextIInv, PTL DEF Spec

\* The lifecycle's control state keeps its type (the ControlTypeOK part of
\* TypeOK) whatever the child writes and however the events interleave.
THEOREM ControlTypeCorrect == Spec => []ControlTypeOK
BY IInvHolds, PTL DEF IInv

\* safeResolve/safeReject make at most one call reach resolve/reject,
\* whichever of the pre-start check, 'error' and 'close' handlers run.
THEOREM SettleCalledAtMostOnce == Spec => []AtMostOneSettleCall
<1>1. IInv => AtMostOneSettleCall
  BY DEF IInv, SettleAccounting, AtMostOneSettleCall
<1>2. QED BY <1>1, IInvHolds, PTL

\* A settled call's safeResolve/safeReject is a no-op.
LEMMA SettledNoOp ==
  ASSUME settled, NEW v, SafeSettle(v) PROVE promise' = promise
BY DEF SafeSettle, settleVars

\* No step of a settled call changes the Promise or writes to stdout: the
\* handlers that settle find `settled` set, and a settled call has no
\* running child left to write.
LEMMA SettledFinalStep ==
  ASSUME IInv, [Next]_vars
  PROVE  promise.status # "pending" => promise' = promise /\ written' = written
<1> SUFFICES ASSUME promise.status # "pending" PROVE promise' = promise /\ written' = written
  OBVIOUS
<1>1. settled /\ child # "running"
  BY DEF IInv, SettleAccounting, NoProcessNoOutput
<1>2. CASE Start
  <2>1. CASE aborted
    BY <1>1, <1>2, <2>1, SettledNoOp DEF Start, streamVars
  <2>2. CASE ~aborted
    BY <1>2, <2>2 DEF Start, streamVars, settleVars
  <2>3. QED BY <2>1, <2>2
<1>3. CASE Close \/ CloseAfterError
  <2>1. OnClose(exitCode) \/ OnClose("-2")
    BY <1>3 DEF Close, CloseAfterError
  <2>2. promise' = promise
    BY <1>1, <2>1, SettledNoOp DEF OnClose
  <2>3. QED BY <1>3, <2>2 DEF Close, CloseAfterError
<1>4. CASE Error
  BY <1>1, <1>4, SettledNoOp DEF Error, streamVars
<1>5. CASE ChildWrite
  BY <1>1, <1>5 DEF ChildWrite
<1>6. CASE Abort \/ TimerFire \/ DataStep \/ StderrData
  BY <1>6 DEF Abort, TimerFire, DataStep, Data, StderrData, streamVars, settleVars
<1>7. CASE ChildExit \/ ExternalKill \/ DeliverSignal \/ Reap \/ UNCHANGED vars
  BY <1>7 DEF ChildExit, ExternalKill, DeliverSignal, Reap, envFrozen, streamVars,
             settleVars, vars
<1>8. QED BY <1>2, <1>3, <1>4, <1>5, <1>6, <1>7 DEF Next

\* Once codex-experimental's tool call has settled, the Promise keeps its
\* value and the child writes nothing more, whatever the order of abort,
\* 'error', 'close' and the force-kill timer, for every set of streams.
THEOREM SettledIsFinalHolds == Spec => SettledIsFinal
<1>1. IInv /\ [Next]_vars => [promise.status # "pending" => promise' = promise /\ written' = written]_vars
  BY SettledFinalStep
<1>2. QED BY <1>1, IInvHolds, PTL DEF SettledIsFinal, Spec

=============================================================================
