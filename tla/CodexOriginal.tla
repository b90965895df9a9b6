----------------------------- MODULE CodexOriginal -----------------------------
(***************************************************************************)
(* The original codex tool (codex/index.ts).  Its execute() has the same  *)
(* onAbort, timer, stdout and stderr handlers and the same 'close' result *)
(* as codex-experimental, which CodexExecute models; it differs in three  *)
(* places: there is no `settled` guard (the pre-start check, 'close' and  *)
(* 'error' call resolve/reject directly), the 'error' handler has a      *)
(* single message, and the sandbox flags.  The variable `settled` of      *)
(* CodexExecute has no counterpart here and stays FALSE.                  *)
(***************************************************************************)
EXTENDS CodexExecute

\* Variant without the `return` after the pre-start resolve: the executor
\* goes on to spawn the child.
OrigStartNoReturn ==
  /\ pc = "init"
  /\ \/ /\ aborted
        /\ Settle(Resolved("abortedBeforeStart", << >>, EmptyText, "null", "aborted"))
     \/ /\ ~aborted
        /\ UNCHANGED <<calls, promise>>
  /\ pc' = "spawned"
  /\ listener' = TRUE
  /\ \/ child' = "running" /\ spawnErr' = "none"
     \/ \E e \in SpawnErrors : child' = "failed" /\ spawnErr' = e
  /\ UNCHANGED <<settled, aborted, exitCode, killed, pendingSig, timer, reaped,
                 errorDone, closed, streamVars>>

\* The Promise executor up to its return: `resolve` if the signal is
\* already aborted, else spawn and register onAbort.
OrigStart ==
  /\ pc = "init"
  /\ \/ /\ aborted
        /\ Settle(Resolved("abortedBeforeStart", << >>, EmptyText, "null", "aborted"))
        /\ pc' = "returned"
        /\ UNCHANGED <<listener, child, spawnErr>>
     \/ /\ ~aborted
        /\ pc' = "spawned"
        /\ listener' = TRUE
        /\ \/ child' = "running" /\ spawnErr' = "none"
           \/ \E e \in SpawnErrors : child' = "failed" /\ spawnErr' = e
        /\ UNCHANGED <<calls, promise>>
  /\ UNCHANGED <<settled, aborted, exitCode, killed, pendingSig, timer, reaped,
                 errorDone, closed, streamVars>>

\* The 'close' handler: as in codex-experimental, but it calls `resolve`.
OrigOnClose(code) ==
  LET tail     == ParsedEvents(<<buffer>>)
      evs      == events \o tail
      msg      == LastAgentText(tail, lastMessage)
      hasError == code \notin {"0", "null"}
      kind     == IF aborted THEN "aborted" ELSE IF hasError THEN "failed" ELSE "succeeded"
      err      == IF aborted THEN "aborted" ELSE IF hasError THEN stderr ELSE "undefined"
  IN  /\ closed' = TRUE
      /\ listener' = FALSE
      /\ events' = evs
      /\ lastMessage' = msg
      /\ Settle(Resolved(kind, evs, msg, code, err))

OrigClose ==
  /\ child = "dead"
  /\ reaped
  /\ delivered = written
  /\ ~closed
  /\ OrigOnClose(exitCode)
  /\ UNCHANGED <<pc, aborted, child, spawnErr, exitCode, killed, pendingSig,
                 timer, reaped, errorDone, out, written, delivered, buffer,
                 updates, stderr, settled>>

OrigCloseAfterError ==
  /\ child = "failed"
  /\ errorDone
  /\ ~closed
  /\ OrigOnClose("-2")
  /\ UNCHANGED <<pc, aborted, child, spawnErr, exitCode, killed, pendingSig,
                 timer, reaped, errorDone, out, written, delivered, buffer,
                 updates, stderr, settled>>

\* The 'error' handler: remove onAbort and `reject` with one message for
\* every errno.
OrigError ==
  /\ child = "failed"
  /\ ~errorDone
  /\ errorDone' = TRUE
  /\ listener' = FALSE
  /\ Settle(Rejected("spawnFailed"))
  /\ UNCHANGED <<pc, aborted, child, spawnErr, exitCode, killed, pendingSig,
                 timer, reaped, closed, streamVars, settled>>

OrigNext ==
  \/ OrigStart \/ Abort \/ TimerFire \/ DataStep \/ StderrData
  \/ OrigClose \/ OrigCloseAfterError \/ OrigError
  \/ ChildWrite \/ ChildExit \/ ExternalKill \/ DeliverSignal \/ Reap

OrigSpec == Init /\ [][OrigNext]_vars
=============================================================================
