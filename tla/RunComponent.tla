---------------------------- MODULE RunComponent ----------------------------
(***************************************************************************)
(* The run component: starting the first queued run and ending the active  *)
(* one.  Every end goes through FinishRun.                                 *)
(***************************************************************************)
EXTENDS Planner

StartRun ==
  /\ RunTurn /\ PlansRunStart
  /\ run' = NewRun(Head(queue), "Running")
  /\ queue' = Tail(queue)
  /\ UNCHANGED <<status, lastRun, fate, promise, lastPromise, ctx, claim, ghost>>

EndRun ==
  /\ RunTurn /\ PlansRunEnd
  /\ FinishRun(TerminalRunProposal, run.written)
  /\ UNCHANGED <<status, queue, lastRun, lastPromise, ctx, claim>>

FailAtEntryGuard ==
  /\ RunTurn /\ PlansGuardFailure
  /\ FinishRun("Failed", run.written)
  /\ UNCHANGED <<status, queue, lastRun, lastPromise, ctx, claim>>

EndCancelledRun ==
  /\ RunTurn /\ PlansRunCancelled
  /\ FinishRun("Cancelled", run.written)
  /\ UNCHANGED <<status, queue, lastRun, lastPromise, ctx, claim>>

=============================================================================
