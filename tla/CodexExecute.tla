---------------------------- MODULE CodexExecute ----------------------------
(***************************************************************************)
(* The codex tool's execute() (codex-experimental/index.ts): one tool call *)
(* spawns `codex exec --json`, reassembles its stdout into lines, parses   *)
(* each line as a JSON event, and settles one Promise from whichever of    *)
(* the pre-start abort check, the child's 'close' event and its 'error'    *)
(* event comes first.  The host's AbortSignal, the child process, the OS   *)
(* pipe and the 2 s force-kill timer are the other actors.                 *)
(*                                                                         *)
(* Data is abstract: stdout is a sequence of atoms, each either NL or a    *)
(* piece of JSON text named by a string (PieceEvent says which pieces, or  *)
(* pairs of pieces, parse to which event).  stderr is "" or "text".        *)
(***************************************************************************)
EXTENDS CodexEvents

CONSTANT Outputs   \* the stdout streams the child may write, one per run

ASSUME OutputsAssumption == Outputs \subseteq Seq(Atoms) /\ Outputs # {}

-----------------------------------------------------------------------------
VARIABLES
  pc,          \* execute(): "init" before the Promise executor runs, "spawned", "returned"
  aborted,     \* signal.aborted
  listener,    \* the "abort" listener onAbort is registered on the signal
  child,       \* the child process: "none", "failed" (spawn error), "running", "dead"
  spawnErr,    \* the errno of a failed spawn
  exitCode,    \* the child's exit code as 'close' reports it ("null": killed by a signal)
  killed,      \* child.killed: a kill() call succeeded in sending a signal
  pendingSig,  \* signals sent to the child and not yet delivered
  timer,       \* the 2 s force-kill timer: "none", "armed", "fired"
  reaped,      \* Node handled the child's exit: child._handle is null
  errorDone,   \* the 'error' event has been emitted
  closed,      \* the 'close' event has been emitted
  out,         \* the whole stdout the child writes in this run
  written,     \* how many atoms of `out` the child has written to the pipe
  delivered,   \* how many of them 'data' events have handed to the tool
  buffer,      \* the incomplete last line kept between 'data' events
  events,      \* the events array
  lastMessage, \* the lastMessage variable
  updates,     \* the number of onUpdate progress calls made
  stderr,      \* the stderr text collected
  settled,     \* the `settled` guard of safeResolve/safeReject
  calls,       \* how many times resolve/reject has been invoked
  promise      \* the Promise execute() returned

vars == <<pc, aborted, listener, child, spawnErr, exitCode, killed, pendingSig,
          timer, reaped, errorDone, closed, out, written, delivered, buffer,
          events, lastMessage, updates, stderr, settled, calls, promise>>

streamVars == <<out, written, delivered, buffer, events, lastMessage, updates, stderr>>
settleVars == <<settled, calls, promise>>

SpawnErrors == {"ENOENT", "EACCES", "EOTHER"}

\* The Promise itself: resolve/reject after settlement are no-ops.
Settle(v) ==
  /\ calls' = calls + 1
  /\ promise' = IF promise.status = "pending" THEN v ELSE promise

\* Variant without the `if (!settled)` test.
SafeSettleUnguarded(v) ==
  /\ settled' = TRUE
  /\ Settle(v)

\* safeResolve / safeReject: only the first call reaches the Promise.
SafeSettle(v) ==
  IF settled THEN UNCHANGED settleVars
  ELSE /\ settled' = TRUE
       /\ Settle(v)

\* child.kill(sig): sends the signal and sets child.killed only while the
\* child still has a process handle; a zombie ignores the signal.
Kill(sig) ==
  IF child \in {"running", "dead"} /\ ~reaped
  THEN /\ killed' = TRUE
       /\ pendingSig' = IF child = "running" THEN pendingSig \cup {sig} ELSE pendingSig
  ELSE UNCHANGED <<killed, pendingSig>>

SpawnErrorMessage(err) ==
  CASE err = "ENOENT" -> "notInstalled"
    [] err = "EACCES" -> "permissionDenied"
    [] OTHER          -> "spawnFailed"

Init ==
  /\ pc = "init"
  /\ aborted \in BOOLEAN
  /\ listener = FALSE
  /\ child = "none"
  /\ spawnErr = "none"
  /\ exitCode = "none"
  /\ killed = FALSE
  /\ pendingSig = {}
  /\ timer = "none"
  /\ reaped = FALSE
  /\ errorDone = FALSE
  /\ closed = FALSE
  /\ out \in Outputs
  /\ written = 0
  /\ delivered = 0
  /\ buffer = << >>
  /\ events = << >>
  /\ lastMessage = EmptyText
  /\ updates = 0
  /\ stderr = EmptyText
  /\ settled = FALSE
  /\ calls = 0
  /\ promise = Pending
-----------------------------------------------------------------------------
\* Variant without the `return` after the pre-start safeResolve: the
\* executor goes on to spawn the child.
StartNoReturn ==
  /\ pc = "init"
  /\ \/ /\ aborted
        /\ SafeSettle(Resolved("abortedBeforeStart", << >>, EmptyText, "null", "aborted"))
     \/ /\ ~aborted
        /\ UNCHANGED settleVars
  /\ pc' = "spawned"
  /\ listener' = TRUE
  /\ \/ child' = "running" /\ spawnErr' = "none"
     \/ \E e \in SpawnErrors : child' = "failed" /\ spawnErr' = e
  /\ UNCHANGED <<aborted, exitCode, killed, pendingSig, timer, reaped, errorDone,
                 closed, streamVars>>

(* The Promise executor up to its return: the pre-start abort check, then  *)
(* spawn and the registration of onAbort.  A spawn that fails is reported  *)
(* later by the 'error' event; the call itself returns a child object.     *)
Start ==
  /\ pc = "init"
  /\ \/ /\ aborted
        /\ SafeSettle(Resolved("abortedBeforeStart", << >>, EmptyText, "null", "aborted"))
        /\ pc' = "returned"
        /\ UNCHANGED <<listener, child, spawnErr>>
     \/ /\ ~aborted
        /\ pc' = "spawned"
        /\ listener' = TRUE
        /\ \/ child' = "running" /\ spawnErr' = "none"
           \/ \E e \in SpawnErrors : child' = "failed" /\ spawnErr' = e
        /\ UNCHANGED settleVars
  /\ UNCHANGED <<aborted, exitCode, killed, pendingSig, timer, reaped, errorDone,
                 closed, streamVars>>

\* onAbort: SIGTERM now and a timer that sends SIGKILL 2 s later, both only
\* `if (child && !child.killed)`.
OnAbort ==
  IF child # "none" /\ ~killed
  THEN Kill("TERM") /\ timer' = "armed"
  ELSE UNCHANGED <<killed, pendingSig, timer>>

\* The host aborts the signal; a registered {once: true} listener runs and
\* is removed.
Abort ==
  /\ ~aborted
  /\ aborted' = TRUE
  /\ IF listener THEN listener' = FALSE /\ OnAbort
     ELSE UNCHANGED <<listener, killed, pendingSig, timer>>
  /\ UNCHANGED <<pc, child, spawnErr, exitCode, reaped, errorDone, closed,
                 streamVars, settleVars>>

\* The setTimeout callback; the timer is never cleared, so it also runs
\* after the Promise has settled.
TimerFire ==
  /\ timer = "armed"
  /\ timer' = "fired"
  /\ IF child # "none" /\ ~killed THEN Kill("KILL")
     ELSE UNCHANGED <<killed, pendingSig>>
  /\ UNCHANGED <<pc, aborted, listener, child, spawnErr, exitCode, reaped,
                 errorDone, closed, streamVars, settleVars>>

\* Variant with onUpdate called for every line, outside the try block.
DataUpdatesEveryLine(k) ==
  /\ ~closed
  /\ k \in 1..(written - delivered)
  /\ LET split == SplitLines(buffer \o SubSeq(out, delivered + 1, delivered + k))
         evs   == ParsedEvents(split.lines)
     IN  /\ delivered' = delivered + k
         /\ buffer' = split.rest
         /\ events' = events \o evs
         /\ lastMessage' = LastAgentText(evs, lastMessage)
         /\ updates' = updates + Len(split.lines)
  /\ UNCHANGED <<pc, aborted, listener, child, spawnErr, exitCode, killed,
                 pendingSig, timer, reaped, errorDone, closed, out, written,
                 stderr, settleVars>>

\* A stdout 'data' event carrying the next k atoms the child wrote: split
\* buffer + chunk into lines, keep the tail, and for each line push its
\* event, track lastMessage and call onUpdate (which formatEventForDisplay
\* can make throw; the catch then swallows the update).
Data(k) ==
  /\ ~closed
  /\ k \in 1..(written - delivered)
  /\ LET split == SplitLines(buffer \o SubSeq(out, delivered + 1, delivered + k))
         evs   == ParsedEvents(split.lines)
     IN  /\ delivered' = delivered + k
         /\ buffer' = split.rest
         /\ events' = events \o evs
         /\ lastMessage' = LastAgentText(evs, lastMessage)
         /\ updates' = updates + Cardinality({i \in DOMAIN evs : Renders(evs[i])})
  /\ UNCHANGED <<pc, aborted, listener, child, spawnErr, exitCode, killed,
                 pendingSig, timer, reaped, errorDone, closed, out, written,
                 stderr, settleVars>>

DataStep == \E k \in 1..(written - delivered) : Data(k)

\* A stderr 'data' event: `stderr += data.toString()`.
StderrData ==
  /\ child = "running"
  /\ stderr = EmptyText
  /\ stderr' = "text"
  /\ UNCHANGED <<pc, aborted, listener, child, spawnErr, exitCode, killed,
                 pendingSig, timer, reaped, errorDone, closed, out, written,
                 delivered, buffer, events, lastMessage, updates, settleVars>>

\* Variant that forgets the bytes left in the buffer.
OnCloseNoFlush(code) ==
  LET hasError == code \notin {"0", "null"}
      kind     == IF aborted THEN "aborted" ELSE IF hasError THEN "failed" ELSE "succeeded"
      err      == IF aborted THEN "aborted" ELSE IF hasError THEN stderr ELSE "undefined"
  IN  /\ closed' = TRUE
      /\ listener' = FALSE
      /\ UNCHANGED <<events, lastMessage>>
      /\ SafeSettle(Resolved(kind, events, lastMessage, code, err))

\* The 'close' handler: remove onAbort, parse what is left in the buffer,
\* and resolve with aborted / failed / succeeded, in that precedence.
OnClose(code) ==
  LET tail     == ParsedEvents(<<buffer>>)
      evs      == events \o tail
      msg      == LastAgentText(tail, lastMessage)
      hasError == code \notin {"0", "null"}
      kind     == IF aborted THEN "aborted" ELSE IF hasError THEN "failed" ELSE "succeeded"
      err      == IF aborted THEN "aborted" ELSE IF hasError THEN stderr ELSE "undefined"
  IN  /\ closed' = TRUE
      /\ listener' = FALSE
      /\ events' = evs
      /\ lastMessage' = msg
      /\ SafeSettle(Resolved(kind, evs, msg, code, err))

\* 'close' follows the child's exit once stdout and stderr have ended.
Close ==
  /\ child = "dead"
  /\ reaped
  /\ delivered = written
  /\ ~closed
  /\ OnClose(exitCode)
  /\ UNCHANGED <<pc, aborted, child, spawnErr, exitCode, killed, pendingSig,
                 timer, reaped, errorDone, out, written, delivered, buffer,
                 updates, stderr>>

\* Node may also emit 'close' (code -2) after the 'error' of a failed spawn.
CloseAfterError ==
  /\ child = "failed"
  /\ errorDone
  /\ ~closed
  /\ OnClose("-2")
  /\ UNCHANGED <<pc, aborted, child, spawnErr, exitCode, killed, pendingSig,
                 timer, reaped, errorDone, out, written, delivered, buffer,
                 updates, stderr>>

\* Variant that removes the listener but never rejects.
ErrorNoReject ==
  /\ child = "failed"
  /\ ~errorDone
  /\ errorDone' = TRUE
  /\ listener' = FALSE
  /\ UNCHANGED <<pc, aborted, child, spawnErr, exitCode, killed, pendingSig,
                 timer, reaped, closed, streamVars, settleVars>>

\* The 'error' handler: remove onAbort and reject with a message chosen by
\* the errno.
Error ==
  /\ child = "failed"
  /\ ~errorDone
  /\ errorDone' = TRUE
  /\ listener' = FALSE
  /\ SafeSettle(Rejected(SpawnErrorMessage(spawnErr)))
  /\ UNCHANGED <<pc, aborted, child, spawnErr, exitCode, killed, pendingSig,
                 timer, reaped, closed, streamVars>>

-----------------------------------------------------------------------------
(* The child process and the OS: not code of this repository.              *)

ChildDies(code) ==
  /\ child' = "dead"
  /\ exitCode' = code
  /\ pendingSig' = {}

envFrozen == <<pc, aborted, listener, spawnErr, killed, timer, reaped, errorDone,
               closed, settleVars>>

ChildWrite ==
  /\ child = "running"
  /\ written < Len(out)
  /\ written' = written + 1
  /\ UNCHANGED <<envFrozen, child, exitCode, pendingSig, out, delivered, buffer,
                 events, lastMessage, updates, stderr>>

\* Exit 0 after writing everything, or exit 1 at any point.
ChildExit ==
  /\ child = "running"
  /\ \E c \in {"0", "1"} : (c = "0" => written = Len(out)) /\ ChildDies(c)
  /\ UNCHANGED <<envFrozen, streamVars>>

\* A signal nobody in the tool sent (OOM killer, a user's kill).
ExternalKill ==
  /\ child = "running"
  /\ ChildDies("null")
  /\ UNCHANGED <<envFrozen, streamVars>>

\* SIGKILL ends the child.  SIGTERM ends it by default, or a handler in the
\* child exits with a code of its own, or ignores it.
DeliverSignal ==
  /\ child = "running"
  /\ \E s \in pendingSig :
       IF s = "KILL" THEN ChildDies("null")
       ELSE \/ ChildDies("null")
            \/ \E c \in {"0", "1"} : ChildDies(c)
            \/ /\ pendingSig' = pendingSig \ {s}
               /\ UNCHANGED <<child, exitCode>>
  /\ UNCHANGED <<envFrozen, streamVars>>

\* Node handles the exit: child._handle becomes null.
Reap ==
  /\ child = "dead"
  /\ ~reaped
  /\ reaped' = TRUE
  /\ UNCHANGED <<pc, aborted, listener, child, spawnErr, exitCode, killed,
                 pendingSig, timer, errorDone, closed, streamVars, settleVars>>

Next ==
  \/ Start \/ Abort \/ TimerFire \/ DataStep \/ StderrData
  \/ Close \/ CloseAfterError \/ Error
  \/ ChildWrite \/ ChildExit \/ ExternalKill \/ DeliverSignal \/ Reap

Spec == Init /\ [][Next]_vars

\* The event loop runs every callback that is due, the kernel delivers
\* signals and Node reaps a dead child.  The child's own progress and the
\* host's abort are not assumed.
FairSpec ==
  /\ Spec
  /\ WF_vars(Start) /\ WF_vars(DataStep) /\ WF_vars(Close) /\ WF_vars(Error)
  /\ WF_vars(TimerFire) /\ WF_vars(DeliverSignal) /\ WF_vars(Reap)
-----------------------------------------------------------------------------
(* Reference definitions for the properties.                               *)

SettledByClose == promise.status = "resolved" /\ promise.kind \in {"aborted", "failed", "succeeded"}

-----------------------------------------------------------------------------
\* The type invariant, in two parts: the lifecycle's control state and
\* counters, and the data the stream handlers build.
ControlTypeOK ==
  /\ pc \in {"init", "spawned", "returned"}
  /\ aborted \in BOOLEAN /\ listener \in BOOLEAN
  /\ child \in {"none", "failed", "running", "dead"}
  /\ spawnErr \in SpawnErrors \cup {"none"}
  /\ exitCode \in ExitCodes \cup {"none"}
  /\ killed \in BOOLEAN /\ pendingSig \subseteq {"TERM", "KILL"}
  /\ timer \in {"none", "armed", "fired"}
  /\ reaped \in BOOLEAN /\ errorDone \in BOOLEAN /\ closed \in BOOLEAN
  /\ out \in Outputs
  /\ written \in 0..Len(out) /\ delivered \in 0..written
  /\ settled \in BOOLEAN /\ calls \in Nat
  /\ promise.status \in {"pending", "resolved", "rejected"}

StreamTypeOK ==
  /\ buffer \in Seq(Pieces)
  /\ events \in Seq(Events)
  /\ lastMessage \in Texts
  /\ updates \in 0..Len(events)
  /\ stderr \in {EmptyText, "text"}
  /\ promise \in {Pending}
                 \cup [status : {"resolved"}, kind : ResultKinds, events : Seq(Events),
                      lastMessage : Texts, exitCode : ExitCodes,
                      error : {"aborted", "undefined", EmptyText, "text"}]
                 \cup [status : {"rejected"},
                      reason : {"notInstalled", "permissionDenied", "spawnFailed"}]

TypeOK == ControlTypeOK /\ StreamTypeOK

\* resolve/reject is invoked at most once, however many of the pre-start
\* check, 'error' and 'close' fire (safeResolve/safeReject and `settled`).
AtMostOneSettleCall == calls <= 1

\* Whatever the chunk boundaries between whole characters, the result
\* carries exactly the events of the lines the child wrote, parsed as one
\* whole stream (partial last line included), and the last non-empty
\* agent_message text among them.  The atoms of `out` are characters and
\* Data takes `data.toString()` to return a chunk's characters, so this is
\* about the line reassembly of the 'data' and 'close' handlers; a chunk
\* cut inside a multi-byte character is StdoutDecoding's subject, and there
\* the text of the event does change (DamageConfined, ChunkingInvisible).
EventsMatchOutput ==
  SettledByClose =>
    /\ promise.events = ParsedEvents(ReferenceLines(SubSeq(out, 1, written)))
    /\ promise.lastMessage = LastAgentText(promise.events, EmptyText)

\* Once the child has exited or failed to spawn, the tool call settles.
SettlesOnceChildGone == (child \in {"dead", "failed"}) ~> (promise.status # "pending")

\* The tool call, seen through the Promise and the child's stream, is a
\* ToolCall: it settles once and for good, a result carries the events of
\* exactly what the child wrote, and nothing is written after settlement.
Abstract == INSTANCE ToolCall
ImplementsToolCall == Abstract!Spec

\* Once the tool call has settled, its Promise keeps its value and the
\* child writes nothing more to stdout: a later resolve, reject or 'close'
\* changes nothing, and no process is left running after settlement.
SettledIsFinal == [][promise.status # "pending" => promise' = promise /\ written' = written]_vars

\* spec 4.3: an abort during the run settles the call, SIGKILL following
\* SIGTERM after the 2 s grace period if the child has not exited.
AbortSettles == (aborted /\ pc = "spawned") ~> (promise.status # "pending")

\* spec 4.3 and 7: success requires exit code 0, and a non-zero exit is
\* surfaced as a failure.  So renderResult shows a resolved result as a
\* success (the "ok" view) only when the child exited with code 0.  The
\* 'close' handler counts exit code null as success, and a failure with
\* empty stderr carries error "", which renderResult takes for no error.
OkOnlyOnExitZero ==
  (promise.status = "resolved" /\ RenderResult(promise) = "ok") => promise.exitCode = "0"

\* spec 4.2 / 4.4: every event appended while running is rendered and
\* surfaced by a progress update carrying the events so far.
EveryEventRendered == (pc = "spawned" /\ ~closed) => updates = Len(events)
-----------------------------------------------------------------------------
(* The inductive invariant behind AtMostOneSettleCall and SettledIsFinal  *)
(* (proved in CodexExecuteProofs).                                         *)

\* `settled` is set exactly when resolve/reject has been called, and that
\* first call is the one that settled the Promise.
SettleAccounting ==
  /\ calls = IF settled THEN 1 ELSE 0
  /\ settled <=> promise.status # "pending"

\* Before the executor has run there is no process and nothing settled;
\* without a process there is no output, and a settled call never has a
\* process still running.
NoProcessNoOutput ==
  /\ pc = "init" => child = "none" /\ ~settled
  /\ child \in {"none", "failed"} => written = 0
  /\ child = "running" => ~settled

\* A result built by the 'close' handler exists only once the process is
\* gone (exited and reaped, or never started) and stdout fully delivered.
SettledOnlyWhenDrained ==
  SettledByClose =>
    /\ (child = "dead" /\ reaped) \/ child = "failed"
    /\ delivered = written

IInv ==
  /\ ControlTypeOK
  /\ SettleAccounting
  /\ NoProcessNoOutput
  /\ SettledOnlyWhenDrained
=============================================================================
