-------------------------- MODULE ContextComponent --------------------------
(***************************************************************************)
(* The context component: run input and steering enter context between     *)
(* turns, and compaction rewrites the settled prefix at a safe boundary,   *)
(* frozen at the revision it was requested at.                             *)
(***************************************************************************)
EXTENDS Planner

WriteRunInput ==
  /\ ContextTurn /\ PlansRunInput
  /\ run' = [run EXCEPT !.input = "written"]
  /\ ctx' \in Appended(ctx)
  /\ UNCHANGED <<status, queue, lastRun, fate, promise, lastPromise, claim, ghost>>

WriteSteering ==
  /\ ContextTurn /\ PlansSteering
  /\ run' = ContextMovedUnder([run EXCEPT !.written = run.steered])
  /\ ctx' \in Appended(ctx)
  /\ UNCHANGED <<status, queue, lastRun, fate, promise, lastPromise, claim, ghost>>

-----------------------------------------------------------------------------
(* Compaction.                                                             *)

\* The plan names the run it is for.  Any compaction of an overflowed turn
\* counts as that turn's recovery, whoever asked for it.  Attempts are only
\* ever compared with their limit, so the count stops there.
CompactionRequested(trigger, phase) ==
  /\ ctx' = [ctx EXCEPT !.phase = phase, !.trigger = trigger, !.run = run.id,
               !.moved = FALSE, !.fresh = FALSE]
  /\ run' = [run EXCEPT
               !.attempts = IF run.turn = "ContextLimit" /\ @ < MaxRecoveryAttempts
                            THEN @ + 1 ELSE @,
               !.tried = @ \/ run.turn = "ContextLimit",
               !.guardTried = @ \/ (Active /\ trigger = "HighWatermark" /\ ctx.full)]

Finished(c) == [c EXCEPT !.phase = "Idle", !.trigger = "none", !.run = 0,
                         !.moved = FALSE, !.fresh = TRUE]

\* Mutant: a queued request with nothing left to compact waits.
AbandonPlanOnly ==
  /\ ContextTurn
  /\ PlansAbandonment
  /\ ctx' = Finished(ctx)
  /\ UNCHANGED <<status, queue, lastRun, run, fate, promise, lastPromise, claim, ghost>>

AbandonCompaction ==
  /\ ContextTurn
  /\ PlansAbandonment \/ (PlansQueuedCompaction /\ ~ctx.settled)
  /\ ctx' = Finished(ctx)
  /\ UNCHANGED <<status, queue, lastRun, run, fate, promise, lastPromise, claim, ghost>>

StartQueuedCompaction ==
  /\ ContextTurn /\ PlansQueuedCompaction /\ ctx.settled
  /\ CompactionRequested("Manual", "Pending")
  /\ UNCHANGED <<status, queue, lastRun, fate, promise, lastPromise, claim, ghost>>

RecoverFromOverflow ==
  /\ ContextTurn /\ PlansRecovery
  /\ CompactionRequested("ContextLimit", "Pending")
  /\ UNCHANGED <<status, queue, lastRun, fate, promise, lastPromise, claim, ghost>>

CompactAtWatermark ==
  /\ ContextTurn /\ (PlansGuardCompaction \/ MayPlanWatermark)
  /\ CompactionRequested("HighWatermark", "Pending")
  /\ UNCHANGED <<status, queue, lastRun, fate, promise, lastPromise, claim, ghost>>

-----------------------------------------------------------------------------
(* The compaction activity.  Its request is built from the state at its    *)
(* start; its result counts while the plan is pending, its run, if it has  *)
(* one, is still running, and the revision is the request's.               *)

SendCompaction ==
  /\ PlannerIdle /\ Open /\ CompactionPending /\ ctx.phase # "Sent"
  /\ ctx' = [ctx EXCEPT !.phase = "Sent"]
  /\ UNCHANGED <<status, queue, lastRun, run, fate, promise, lastPromise, claim, ghost>>

CompactionWanted == PlannerIdle /\ Open /\ ctx.phase = "Sent" /\ ~ctx.moved

\* A summary took the prefix's place.  Back under the guard limit, the run
\* may need the guard again later.
CompactionSucceeds ==
  /\ CompactionWanted
  /\ \E full \in {ctx.full, FALSE} :
       /\ ctx' = [Finished(ctx) EXCEPT !.settled = TRUE, !.full = full]
       /\ run' = IF full THEN run ELSE [run EXCEPT !.guardTried = FALSE]
  /\ UNCHANGED <<status, queue, lastRun, fate, promise, lastPromise, claim, ghost>>

\* Mutant: a failed recovery ends the run without writing its steering.
RecoveryFailsDroppingSteering ==
  /\ CompactionWanted /\ ctx.trigger = "ContextLimit" /\ Active
  /\ ctx' = Finished(ctx)
  /\ FinishRun("Failed", run.written)
  /\ UNCHANGED <<status, queue, lastRun, lastPromise, claim>>

\* A failed overflow recovery ends the run: this skips the run planner, so it
\* writes accepted steering itself.
RecoveryFails ==
  /\ CompactionWanted /\ ctx.trigger = "ContextLimit" /\ Active
  /\ ctx' \in IF HasUnmaterializedSteering /\ Running
              THEN Appended(Finished(ctx)) ELSE {Finished(ctx)}
  /\ FinishRun("Failed", IF Running THEN run.steered ELSE run.written)
  /\ UNCHANGED <<status, queue, lastRun, lastPromise, claim>>

CompactionFails ==
  /\ CompactionWanted /\ ~(ctx.trigger = "ContextLimit" /\ Active)
  /\ ctx' = Finished(ctx)
  /\ UNCHANGED <<status, queue, lastRun, run, fate, promise, lastPromise, claim, ghost>>

=============================================================================
