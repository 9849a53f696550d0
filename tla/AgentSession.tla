---------------------------- MODULE AgentSession ----------------------------
(***************************************************************************)
(* One agent session: the deterministic harness, the activities it asks    *)
(* for, and the commands clients send while either is under way.           *)
(*                                                                         *)
(* The host is one workflow.  Between two of its steps any command may     *)
(* land, so the steps interleave freely; what a result or a claim was      *)
(* prepared against may be gone when it arrives.                           *)
(***************************************************************************)
EXTENDS Admission

\* Appends the planner proposes.
PlannerStep ==
  \/ ParkOnApprovals
  \/ StartRun \/ EndRun \/ FailAtEntryGuard \/ EndCancelledRun
  \/ StartBatch \/ StartCalls \/ CancelCalls \/ CompleteBatch
  \/ AbandonCompaction \/ StartQueuedCompaction
  \/ RecoverFromOverflow \/ CompactAtWatermark
  \/ WriteRunInput \/ WriteSteering
  \/ StartTurn \/ PlanTurn \/ RequestGeneration \/ CancelTurn

\* Appends of an activity's result.
GenerationResult ==
  AnswerFinally \/ CallTools \/ AskApprovals \/ FailGeneration \/ Overflow

ToolResult ==
  \/ \E c \in Calls : FinishCall(c) \/ CallMintsPromise(c)
  \/ \E c \in Calls, p \in Promises : CallCancelsPromise(c, p) \/ CallDetachesPromise(c, p)
  \/ FinishUnit \/ ParkOnAwait \/ ParkOnJoinedCalls \/ ParkOnGatedCalls

CompactionResult ==
  SendCompaction \/ CompactionSucceeds \/ RecoveryFails \/ CompactionFails

UnparkStep == PrepareUnpark \/ UnparkBatch \/ DropClaim

Command ==
  \/ OpenSession \/ RequestRun \/ SteerRun \/ CancelActiveRun \/ CancelQueuedRun
  \/ \E a \in Approvals : DecideApproval(a)
  \/ \E p \in Promises : ResolvePromise(p)
  \/ CompactContext \/ EditContext \/ EditTools
  \/ CloseSession \/ ForceCloseSession

\* The host ends a run that does not drain, or a step of which was refused.
ForcedEnd == ForceCancelRun \/ FailStoredStep \/ FailRefusedPark

Next ==
  \/ PlannerStep \/ GenerationResult \/ ToolResult \/ CompactionResult
  \/ UnparkStep \/ Command \/ ForcedEnd

Spec == Init /\ [][Next]_vars

\* The drive loop plans until nothing is left to plan, every activity has a
\* timeout and a bounded retry policy whose exhaustion is itself a result, and
\* the wait loop claims a satisfied wait.  Nothing makes a client act, a
\* promise settle or the watchdog fire.
Fairness ==
  /\ WF_vars(PlannerStep)
  /\ WF_vars(GenerationResult)
  /\ WF_vars(ToolResult)
  /\ WF_vars(CompactionResult)
  /\ WF_vars(PrepareUnpark)
  /\ WF_vars(UnparkBatch \/ DropClaim)
  /\ WF_vars(FailRefusedPark)

FairSpec == Spec /\ Fairness

-----------------------------------------------------------------------------
(* Requests built from state stay valid until their result.                *)

\* A turn's request is re-derived from state whenever it is sent, so nothing
\* may move the revisions it was planned against, and no toolset change may
\* come between a turn's calls and their batch (build_planned_llm_request
\* and BatchStarted refuse otherwise, and the run would fail).
PlannedRequestHolds ==
  /\ run.turn \in {"Planned", "GenerationPending"} => run.drift = {}
  /\ TurnInFlight \/ HasUnstartedToolCallTurn => "tools" \notin run.drift

\* A compaction whose plan is still wanted finds the prefix it covers as it
\* planned it, and the revision it was sent (context_compaction_result_proposals
\* refuses the result otherwise).
CompactionFrozen == CompactionPending /\ ~PlansAbandonment => ~ctx.moved

\* A compaction never runs beside a turn or a batch, and never summarises a
\* tool call away from the result that is still to come.
CompactionAtBoundary ==
  CompactionPending => ~TurnInFlight /\ ~BatchActive /\ ctx.owed = {}

\* A request never carries a tool call without its result, and no run, ended
\* how it may, leaves one behind for the next run of the open session
\* (open_tool_group_closing_entries).
OpenCallsAreAnswered == Open /\ (~Active \/ TurnInFlight) => ctx.owed = {}

-----------------------------------------------------------------------------
(* Runs and their steering.                                                *)

Queued == {queue[i] : i \in 1..Len(queue)}
Ended == {r \in RunIds : fate[r] # "none"}

\* Every accepted run is in exactly one place: queued once, active, or ended.
RunsAccountedFor ==
  /\ Cardinality(Queued) = Len(queue)
  /\ Queued \cup ({run.id} \ {0}) \cup Ended = 1..lastRun
  /\ Queued \cap Ended = {} /\ run.id \notin Queued \cup Ended

\* An ended run keeps its end: no late result, watchdog or close rewrites it.
FatesFinal == [][\A r \in Ended : fate'[r] = fate[r]]_vars

\* A run is reported cancelled only if it, or the session, was told to stop.
CancelledOnRequest == \A r \in RunIds : fate[r] = "Cancelled" => r \in ghost.asked

\* Steering a run accepted is in context when the run ends, whichever of the
\* ends it takes, unless it was cancelled.
SteeringKept == ghost.lost \subseteq ghost.asked

\* A completed run answered all the steering it had accepted: none came in
\* after the last request and was ignored.
CompletedRunSawSteering == \A r \in ghost.unseen : fate[r] # "Completed"

-----------------------------------------------------------------------------
(* Promises and parks.                                                     *)

\* A pending promise has someone to end it: its run, or the open session.
NoOrphanPromise ==
  \A p \in Promises : promise[p].st = "Pending" =>
    Open /\ (promise[p].scope # 0 => promise[p].scope = run.id)

SettledStays ==
  \A p \in Promises :
    /\ promise[p].st \in {"Settled", "Pruned"} =>
         /\ promise'[p].st \in {"Settled", "Pruned"}
         /\ promise'[p].scope = promise[p].scope /\ promise'[p].owner = promise[p].owner
    /\ promise[p].st = "Pending" /\ promise[p].scope = 0 => promise'[p].scope = 0

\* First writer wins: a settled promise is never pending again and keeps its
\* scope and owner, and a detached one never falls back under a run.
PromisesSettleOnce == [][SettledStays]_vars

\* A batch resumes only on a wait that is over at that moment, and a run that
\* is being cancelled never resumes with anything but the cancelled outcome,
\* however the claim raced the cancel.
UnparksHonestly ==
  [][BatchParked /\ run'.id = run.id /\ run'.park.kind = "none" =>
       IF Cancelling THEN claim.wake = "Cancelled"
       ELSE WaitSatisfied \/ run.park.deadline]_vars

\* When the planner has nothing to propose, an active run waits for something
\* that can still happen: an activity, a decision, a promise or a deadline.
NoSilentStall ==
  Open /\ Active /\ PlannerIdle =>
    \/ GenerationWanted \/ CompactionWanted \/ (CompactionPending /\ ctx.phase # "Sent")
    \/ UnitDispatch \/ (\E c \in Calls : MayExecute(c)) \/ (Dispatching /\ GatedNow # {})
    \/ BatchParked /\ (AwaitWakes # {} \/ \E p \in run.park.waits : promise[p].st = "Pending")
    \/ Parked /\ ~BatchParked /\ PendingApprovals # {}

\* A gated call parks the run for its decision and never fails it
\* (tools-and-controller-workflows: "the run then parks once for every call
\* waiting on a decision").
GatedCallsCanPark == Dispatching /\ GatedNow # {} => RuntimeBatchApproval

-----------------------------------------------------------------------------
(* Liveness.                                                               *)

\* A cancel always lands: the run drains without the watchdog's help.
CancelledRunEnds == \A r \in RunIds : (Cancelling /\ run.id = r) ~> (fate[r] # "none")

\* An active run ends or comes to wait for someone outside the session, as
\* long as clients do not ask for one manual compaction after another.
RunMakesProgress ==
  <>[](ctx.trigger # "Manual") =>
    \A r \in RunIds : run.id = r ~> (fate[r] # "none" \/ Parked)

\* A satisfied wait is claimed, and its batch resumes, whatever raced it.
SatisfiedWaitResumes == (BatchParked /\ WaitSatisfied) ~> ~BatchParked

\* A manual compaction is answered unless its run parks first.
CompactionAnswered == (ctx.phase # "Idle") ~> (ctx.phase = "Idle" \/ Parked)

=============================================================================
