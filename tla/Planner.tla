------------------------------ MODULE Planner -------------------------------
(***************************************************************************)
(* What the deterministic planner proposes in a state.  `plan_next` asks   *)
(* the components in a fixed order (approval, run, tooling, context, turn) *)
(* and the first one with a proposal wins, so each guard below has the     *)
(* component's own conditions and the group's guard says that no earlier   *)
(* component has anything to propose.                                      *)
(***************************************************************************)
EXTENDS SessionState

-----------------------------------------------------------------------------
(* 1. Approvals: a run whose last turn left decisions open parks.          *)

PlansApprovalPark ==
  /\ Open /\ Running /\ ~TurnInFlight /\ ~BatchActive
  /\ ~HasUnstartedToolCallTurn
  /\ PendingApprovals # {}

-----------------------------------------------------------------------------
(* 2. Runs.                                                                *)

TurnLimitFailure ==
  IF TurnLimitReached /\ ~HasUnstartedToolCallTurn THEN "Failed" ELSE "none"

RecoveryExhausted ==
  ~CompactionEnabled \/ run.attempts >= MaxRecoveryAttempts \/ ~ctx.settled

\* Mutant: a final answer ends the run whatever steering is waiting.
OutcomeIgnoringSteering ==
  CASE run.turn = "FinalOutput" -> "Completed"
    [] run.turn \in {"Failed", "Cancelled"} -> "Failed"
    [] run.turn = "ContextLimit" ->
         IF ~CompactionPending /\ ~run.tried /\ RecoveryExhausted
         THEN "Failed" ELSE TurnLimitFailure
    [] run.turn \in {"ToolCallsQueued", "ApprovalsRequested"} -> TurnLimitFailure
    [] OTHER -> "none"

\* Mutant: a generation the provider cancelled ends the run as cancelled.
OutcomeCancelled ==
  IF run.turn = "Cancelled" THEN "Cancelled" ELSE OutcomeIgnoringSteering

\* The end the latest turn calls for, before steering is looked at.
OutcomeOfLatestTurn ==
  CASE run.turn = "FinalOutput" ->
         IF HasUnconsumedSteering THEN TurnLimitFailure ELSE "Completed"
    [] run.turn \in {"Failed", "Cancelled"} -> "Failed"
    [] run.turn = "ContextLimit" ->
         IF ~CompactionPending /\ ~run.tried /\ RecoveryExhausted
         THEN "Failed" ELSE TurnLimitFailure
    [] run.turn \in {"ToolCallsQueued", "ApprovalsRequested"} -> TurnLimitFailure
    [] OTHER -> "none"

\* terminal_run_proposal: a failing run writes its steering down first.
TerminalRunProposal ==
  IF OutcomeOfLatestTurn = "Failed" /\ HasUnmaterializedSteering
  THEN "none" ELSE OutcomeOfLatestTurn

\* Mutant: the guard compacts again however often that did not help.
EntryGuardForever ==
  IF ~ctx.full \/ ~SafeBoundary THEN "Clear"
  ELSE IF CompactionEnabled /\ ctx.settled THEN "Compact"
  ELSE "FailRun"

EntryGuard ==
  IF ~ctx.full \/ ~SafeBoundary THEN "Clear"
  ELSE IF ~run.guardTried /\ CompactionEnabled /\ ctx.settled THEN "Compact"
  ELSE "FailRun"

RunsMayPlan ==
  /\ Open
  /\ ~CompactionPending
  /\ ~(ctx.phase = "QueuedManual" /\ SafeBoundary)

\* Mutant: a cancelled run ends with its queued calls unanswered.
PlansRunCancelledEarly == RunsMayPlan /\ Drained /\ Cancelling

PlansRunCancelled ==
  RunsMayPlan /\ Drained /\ Cancelling /\ ~HasUnstartedToolCallTurn
PlansRunEnd ==
  RunsMayPlan /\ Drained /\ Running /\ TerminalRunProposal # "none"
PlansGuardFailure ==
  /\ RunsMayPlan /\ Drained
  /\ TerminalRunProposal = "none"
  /\ EntryGuard = "FailRun" /\ ~HasUnmaterializedSteering
PlansRunStart == RunsMayPlan /\ ~Active /\ queue # <<>>

RunPlans == PlansRunCancelled \/ PlansRunEnd \/ PlansGuardFailure \/ PlansRunStart
RunTurn == ~PlansApprovalPark

-----------------------------------------------------------------------------
(* 3. Tools.                                                               *)

PlansBatchStart ==
  /\ Open /\ Active /\ run.status \in {"Running", "Cancelling"}
  /\ HasUnstartedToolCallTurn

\* The calls of an open batch that is not parked.
BatchUnderWay == Open /\ Active /\ BatchActive /\ ~BatchParked

PlansInvocations == BatchUnderWay /\ Running /\ CallsIn({"Accepted"}) # {}
PlansCallCancellations ==
  BatchUnderWay /\ Cancelling /\ CallsIn({"Accepted", "Pending"}) # {}
PlansBatchCompletion ==
  /\ BatchUnderWay /\ run.status \in {"Running", "Cancelling"}
  /\ CallsIn({"Accepted", "Pending"}) = {}

ToolPlans == \/ PlansBatchStart \/ PlansInvocations
             \/ PlansCallCancellations \/ PlansBatchCompletion
ToolTurn == RunTurn /\ ~RunPlans

-----------------------------------------------------------------------------
(* 4. Context: compaction first, then run input, then steering.            *)

\* The run a pending plan belongs to is gone or no longer running.
PlansAbandonment ==
  Open /\ CompactionPending /\ ctx.run # 0 /\ (run.id # ctx.run \/ ~Running)

PlansQueuedCompaction == Open /\ ctx.phase = "QueuedManual" /\ SafeBoundary

\* The planner compacts on its own only when a run will use the room.
PlannerMayCompact ==
  /\ Open /\ SafeBoundary /\ ctx.phase = "Idle" /\ Active
  /\ run.turn \notin {"Failed", "Cancelled"} /\ ~TurnLimitReached
  /\ CompactionEnabled /\ ctx.settled

Overflowed == run.turn = "ContextLimit" /\ ~run.tried

PlansRecovery ==
  PlannerMayCompact /\ Overflowed /\ run.attempts < MaxRecoveryAttempts
PlansGuardCompaction == PlannerMayCompact /\ ~Overflowed /\ EntryGuard = "Compact"

\* Token and entry thresholds are data, so above `fresh` this is a choice.
MayPlanWatermark ==
  /\ "watermark" \in Features
  /\ PlannerMayCompact /\ ~Overflowed /\ EntryGuard = "Clear" /\ ~ctx.fresh

CompactionPlans ==
  \/ PlansAbandonment \/ PlansQueuedCompaction
  \/ PlansRecovery \/ PlansGuardCompaction

ContextMayWrite == Open /\ ~CompactionPending /\ ~CompactionPlans /\ Running
PlansRunInput == ContextMayWrite /\ run.input = "missing"

PlansSteering ==
  /\ ContextMayWrite /\ run.input # "missing" /\ ~TurnInFlight /\ ~BatchActive
  /\ HasUnmaterializedSteering

ContextPlans == CompactionPlans \/ PlansRunInput \/ PlansSteering
ContextTurn == ToolTurn /\ ~ToolPlans

-----------------------------------------------------------------------------
(* 5. Turns.                                                               *)

TurnMayPlan == Open /\ ~CompactionPending /\ Active /\ ~BatchActive

PlansTurnCancelled == TurnMayPlan /\ Cancelling /\ TurnInFlight
PlansTurnPlanned == TurnMayPlan /\ Running /\ run.turn = "Started"
PlansGeneration == TurnMayPlan /\ Running /\ run.turn = "Planned"
PlansTurnStart ==
  TurnMayPlan /\ Running /\ ~TurnInFlight /\ TerminalRunProposal = "none"

TurnPlans == PlansTurnCancelled \/ PlansTurnPlanned \/ PlansGeneration \/ PlansTurnStart
TurnTurn == ContextTurn /\ ~ContextPlans

\* Nothing to propose: the host may execute an activity or wait.
PlannerIdle == TurnTurn /\ ~TurnPlans

=============================================================================
