------------------------------ MODULE ToolCall ------------------------------
(***************************************************************************)
(* What one call of the codex tool promises its caller, whichever variant *)
(* of execute() runs: while the call is pending the child may write more  *)
(* of its stdout; the call then settles exactly once, and never changes   *)
(* again.  A resolved result carries the events of exactly the lines the  *)
(* child wrote (the stream parsed as a whole) and the last non-empty      *)
(* agent message among them; a rejection happens only when nothing was    *)
(* written; nothing is written once the call has settled.  The stream's   *)
(* atoms are whole characters: what a cut inside a multi-byte character   *)
(* does to the events is StdoutDecoding's subject, not this promise's.    *)
(***************************************************************************)
EXTENDS CodexEvents

CONSTANT Outputs

VARIABLES
  out,      \* the stream the child writes in this call
  written,  \* how much of it has been written
  promise   \* the value the call's Promise holds

vars == <<out, written, promise>>

\* The events of everything written so far, the stream taken as a whole.
StreamEvents == ParsedEvents(ReferenceLines(SubSeq(out, 1, written)))

\* The error detail a resolved result may carry.
ErrorDetails == {"aborted", "undefined", EmptyText, "text"}

\* The messages a rejection may carry.
SpawnMessages == {"notInstalled", "permissionDenied", "spawnFailed"}

Init ==
  /\ out \in Outputs
  /\ written = 0
  /\ promise = Pending

Write ==
  /\ promise = Pending
  /\ written < Len(out)
  /\ written' = written + 1
  /\ UNCHANGED <<out, promise>>

AbortBeforeStart ==
  /\ promise = Pending
  /\ written = 0
  /\ promise' = Resolved("abortedBeforeStart", << >>, EmptyText, "null", "aborted")
  /\ UNCHANGED <<out, written>>

Finish ==
  /\ promise = Pending
  /\ \E kind \in ResultKinds \ {"abortedBeforeStart"}, code \in ExitCodes,
        err \in ErrorDetails :
       promise' = Resolved(kind, StreamEvents, LastAgentText(StreamEvents, EmptyText),
                           code, err)
  /\ UNCHANGED <<out, written>>

Fail ==
  /\ promise = Pending
  /\ written = 0
  /\ \E msg \in SpawnMessages : promise' = Rejected(msg)
  /\ UNCHANGED <<out, written>>

Next == Write \/ AbortBeforeStart \/ Finish \/ Fail

Spec == Init /\ [][Next]_vars
=============================================================================
