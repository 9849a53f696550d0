-------------------------- MODULE SessionRunProofs --------------------------
(***************************************************************************)
(* Proofs about the boundaries and the runs of AgentSession.               *)
(*                                                                         *)
(* Boundaries: where a compaction may stand, and which calls may be        *)
(* without a result.  A compaction is requested only at a safe boundary,   *)
(* and everything that could leave the boundary (a turn, a batch, a run)   *)
(* is held back by it.  What moves the context under a compaction that was *)
(* sent is the end of its own run, and then the plan is abandoned.         *)
(*                                                                         *)
(* Runs: every accepted run is queued, active or ended and ends once, a    *)
(* cancelled one was told to stop, and the steering a run accepted is      *)
(* written and, if it completes, answered.  And waits: whatever a run      *)
(* waits for can still happen.                                             *)
(***************************************************************************)
EXTENDS AgentSessionProofs

-----------------------------------------------------------------------------
(* Where there is no run there is no turn, no batch and no park.           *)

Vacant ==
  ~Active => run.turn = "none" /\ run.batch = "none" /\ run.park.kind = "none"

LEMMA VacantInit == Init => Vacant
BY DEF Init, Vacant, NoRun, NewRun, NoPark, Active

LEMMA VacantIfActive ==
  ASSUME TypeOK, Active, run'.id = run.id PROVE Vacant'
BY DEF Vacant, Active

LEMMA VacantQuiet ==
  ASSUME Vacant, run'.id = run.id, run'.turn = run.turn, run'.batch = run.batch,
         run'.park = run.park
  PROVE  Vacant'
BY DEF Vacant, Active

LEMMA VacantNoRun ==
  ASSUME run' = NoRun PROVE Vacant'
BY DEF Vacant, NoRun, NewRun, NoPark

LEMMA VacantStep ==
  ASSUME TypeOK, Vacant, [Next]_vars
  PROVE  Vacant'
<1>1. CASE StartRun
  BY <1>1 DEF StartRun, NewRun, NoPark, Vacant
<1>2. CASE EndRun \/ FailAtEntryGuard \/ EndCancelledRun \/ RecoveryFails \/ ForceCloseSession
           \/ ForcedEnd
  BY <1>2, VacantNoRun DEF EndRun, FailAtEntryGuard, EndCancelledRun, RecoveryFails,
     ForceCloseSession, ForcedEnd, ForceCancelRun, FailStoredStep, FailRefusedPark, FailRun, FinishRun
<1>3. CASE ParkOnApprovals \/ WriteRunInput \/ WriteSteering
  <2>1. CASE ParkOnApprovals \/ WriteRunInput
    BY <2>1, VacantQuiet DEF ParkOnApprovals, WriteRunInput, TypeOK, Runs
  <2>2. CASE WriteSteering
    BY <2>2, VacantQuiet DEF WriteSteering, ContextMovedUnder, TypeOK, Runs
  <2>3. QED
    BY <1>3, <2>1, <2>2
<1>4. CASE StartBatch \/ StartCalls \/ CancelCalls \/ CompleteBatch
  <2>1. Active
    BY <1>4 DEF StartBatch, StartCalls, CancelCalls, CompleteBatch, PlansBatchStart,
       PlansInvocations, PlansCallCancellations, PlansBatchCompletion, BatchUnderWay
  <2>2. run'.id = run.id
    <3>1. CASE StartBatch
      BY <3>1 DEF StartBatch, TypeOK, Runs
    <3>2. CASE StartCalls \/ CancelCalls
      BY <3>2 DEF StartCalls, CancelCalls, TypeOK, Runs
    <3>3. CASE CompleteBatch
      BY <3>3 DEF CompleteBatch, TypeOK, Runs
    <3>4. QED
      BY <1>4, <3>1, <3>2, <3>3
  <2>3. QED
    BY <2>1, <2>2, VacantIfActive
<1>5. CASE StartTurn \/ PlanTurn \/ RequestGeneration \/ CancelTurn
  <2>1. Active
    BY <1>5 DEF StartTurn, PlanTurn, RequestGeneration, CancelTurn, PlansTurnStart, PlansTurnPlanned,
       PlansGeneration, PlansTurnCancelled, TurnMayPlan
  <2>2. run'.id = run.id
    BY <1>5, TurnKeepsRun
  <2>3. QED
    BY <2>1, <2>2, VacantIfActive
<1>6. CASE StartQueuedCompaction \/ RecoverFromOverflow \/ CompactAtWatermark \/ CompactContext
  <2>1. CASE UNCHANGED run
    BY <2>1, VacantQuiet
  <2>2. ASSUME NEW trigger, NEW phase, CompactionRequested(trigger, phase) PROVE Vacant'
    BY <2>2, VacantQuiet, CompactionKeepsRun
  <2>3. QED
    BY <1>6, <2>1, <2>2 DEF StartQueuedCompaction, RecoverFromOverflow, CompactAtWatermark,
       CompactContext
<1>7. CASE GenerationResult
  <2>1. Active
    BY <1>7 DEF GenerationResult, AnswerFinally, CallTools, AskApprovals, FailGeneration, Overflow,
       GenerationWanted, Running
  <2>2. run'.id = run.id
    BY <1>7, GenerationKeepsRun
  <2>3. QED
    BY <2>1, <2>2, VacantIfActive
<1>8. CASE ToolResult
  <2>1. Active
    BY <1>8 DEF ToolResult, FinishCall, CallMintsPromise, CallCancelsPromise, CallDetachesPromise,
       MayExecute, FinishUnit, ParkOnAwait, ParkOnJoinedCalls, UnitDispatch, ParkOnGatedCalls,
       Dispatching, BatchUnderWay
  <2>2. run'.id = run.id
    BY <1>8, ToolKeepsRun
  <2>3. QED
    BY <2>1, <2>2, VacantIfActive
<1>9. CASE SendCompaction \/ CompactionSucceeds \/ CompactionFails \/ AbandonCompaction
  BY <1>9, VacantQuiet DEF SendCompaction, CompactionSucceeds, CompactionFails, AbandonCompaction,
     TypeOK, Runs
<1>10. CASE UnparkBatch
  BY <1>10, VacantIfActive DEF UnparkBatch, ClaimHolds, TypeOK, Runs
<1>11. CASE PrepareUnpark \/ DropClaim \/ OpenSession \/ RequestRun \/ CancelQueuedRun \/ CloseSession
            \/ UNCHANGED vars
  BY <1>11, VacantQuiet DEF PrepareUnpark, DropClaim, OpenSession, RequestRun, CancelQueuedRun,
     CloseSession, vars
<1>12. CASE SteerRun \/ CancelActiveRun \/ EditContext \/ EditTools
  <2>1. CASE SteerRun
    BY <2>1, VacantQuiet DEF SteerRun, TypeOK, Runs
  <2>2. CASE CancelActiveRun
    BY <2>2, VacantQuiet DEF CancelActiveRun, TypeOK, Runs
  <2>3. QED
    BY <1>12, <2>1, <2>2, VacantQuiet, EditKeepsRun
<1>13. ASSUME NEW a \in Approvals, DecideApproval(a) PROVE Vacant'
  BY <1>13, VacantIfActive, DecisionKeepsRun
<1>14. ASSUME NEW p \in Promises, ResolvePromise(p) PROVE Vacant'
  BY <1>14, VacantQuiet DEF ResolvePromise
<1>15. QED
  BY <1>1, <1>2, <1>3, <1>4, <1>5, <1>6, <1>7, <1>8, <1>9, <1>10, <1>11, <1>12, <1>13, <1>14
  DEF Next, PlannerStep, CompactionResult, UnparkStep, Command

LEMMA VacantInvariant == Spec => []Vacant
BY VacantInit, VacantStep, TypeCorrect, PTL DEF Spec

-----------------------------------------------------------------------------
(* Boundaries.                                                             *)

\* A pending compaction stands at a boundary, for the active run if there is
\* one, and once its revision moved it has outlived its run.
CompactionStands ==
  CompactionPending =>
    /\ Open /\ ~TurnInFlight /\ ~BatchActive /\ ~HasUnstartedToolCallTurn
    /\ Active => ctx.run = run.id
    /\ ctx.moved => ~Active /\ ctx.run # 0

\* A call without a result has a batch, open or about to be.
OwedHasBatch ==
  status # "Closed" /\ ctx.owed # {} => Active /\ (HasUnstartedToolCallTurn \/ BatchActive)

BoundaryInv == CompactionStands /\ OwedHasBatch

LEMMA BoundaryInit == Init => BoundaryInv
BY DEF Init, BoundaryInv, CompactionStands, OwedHasBatch, CompactionPending, PendingPhases, Open

\* Appending keeps the phase, the plan and the calls without results.
LEMMA AppendedEffect ==
  ASSUME NEW c \in Contexts, NEW d \in Appended(c)
  PROVE  /\ d.phase = c.phase /\ d.run = c.run /\ d.owed = c.owed
         /\ d.trigger = c.trigger
         /\ c.phase # "Sent" => d.moved = c.moved
BY DEF Appended, Contexts

LEMMA FinishedEffect ==
  ASSUME NEW c \in Contexts
  PROVE  /\ Finished(c).phase = "Idle" /\ Finished(c).moved = FALSE
         /\ Finished(c).owed = c.owed
BY DEF Finished, Contexts

\* A step that leaves the context alone, and of the run what is read here.
LEMMA BoundaryQuiet ==
  ASSUME BoundaryInv, ctx' = ctx, status' = status, run'.id = run.id,
         run'.turn = run.turn, run'.batch = run.batch
  PROVE  BoundaryInv'
BY DEF BoundaryInv, CompactionStands, OwedHasBatch, CompactionPending, Open, TurnInFlight,
   BatchActive, HasUnstartedToolCallTurn, Active

\* A step that leaves no compaction pending and no call unanswered.
LEMMA BoundaryClear ==
  ASSUME ctx'.phase \notin PendingPhases, ctx'.owed = {} \/ status' = "Closed"
  PROVE  BoundaryInv'
BY DEF BoundaryInv, CompactionStands, OwedHasBatch, CompactionPending, Open

\* A step of the run while no compaction is pending.
LEMMA BoundaryNoCompaction ==
  ASSUME BoundaryInv, ctx'.phase \notin PendingPhases, ctx'.owed = ctx.owed, status' = status,
         run'.id = run.id, run'.turn = run.turn, run'.batch = run.batch
  PROVE  BoundaryInv'
BY DEF BoundaryInv, CompactionStands, OwedHasBatch, CompactionPending, Open,
   BatchActive, HasUnstartedToolCallTurn, Active

\* The end of a run that owes nothing, with the compaction as it was.
LEMMA BoundaryFinish ==
  ASSUME BoundaryInv, NEW how, NEW kept, FinishRun(how, kept), Active, status' = status,
         ctx'.owed = {}, ctx'.phase = ctx.phase, ctx'.run = ctx.run
  PROVE  BoundaryInv'
<1>1. run'.id = 0 /\ run'.turn = "none" /\ run'.batch = "none"
  BY DEF FinishRun, NoRun, NewRun
<1>2. CASE CompactionPending
  <2>1. ctx.run = run.id /\ ctx'.run # 0
    BY <1>2 DEF BoundaryInv, CompactionStands, Active
  <2>2. QED
    BY <1>1, <1>2, <2>1 DEF BoundaryInv, CompactionStands, OwedHasBatch, CompactionPending, Open,
       TurnInFlight, TurnsInFlight, BatchActive, HasUnstartedToolCallTurn, Active
<1>3. CASE ~CompactionPending
  BY <1>3, BoundaryClear DEF CompactionPending
<1>4. QED
  BY <1>2, <1>3

\* A compaction is requested where one may stand.
LEMMA BoundaryRequested ==
  ASSUME TypeOK, Vacant, BoundaryInv, SafeBoundary, Open, status' = status,
         NEW trigger, NEW phase \in PendingPhases, CompactionRequested(trigger, phase)
  PROVE  BoundaryInv'
<1>1. /\ ctx'.phase = phase /\ ctx'.run = run.id /\ ctx'.moved = FALSE /\ ctx'.owed = ctx.owed
      /\ run'.id = run.id /\ run'.turn = run.turn /\ run'.batch = run.batch
  BY DEF CompactionRequested, TypeOK, Contexts, Runs
<1>2. ~TurnInFlight /\ ~BatchActive /\ ~HasUnstartedToolCallTurn
  <2>1. CASE Active
    BY <2>1 DEF SafeBoundary
  <2>2. CASE ~Active
    BY <2>2 DEF Vacant, TurnInFlight, TurnsInFlight, BatchActive, HasUnstartedToolCallTurn
  <2>3. QED
    BY <2>1, <2>2
<1>3. QED
  BY <1>1, <1>2 DEF BoundaryInv, CompactionStands, OwedHasBatch, CompactionPending, Open,
     TurnInFlight, BatchActive, HasUnstartedToolCallTurn, Active

LEMMA BoundaryPlannerStep ==
  ASSUME TypeOK, Vacant, RequestInv, BoundaryInv, PlannerStep
  PROVE  BoundaryInv'
<1> USE DEF BoundaryInv
<1>1. CASE ParkOnApprovals
  <2>1. /\ ctx'.owed = ctx.owed /\ ctx'.run = ctx.run /\ ctx'.moved = ctx.moved
        /\ ctx'.phase = ctx.phase \/ (CompactionPending /\ ctx'.phase = "Pending")
    BY <1>1 DEF ParkOnApprovals, CompactionPending, PendingPhases, TypeOK, Contexts
  <2>2. /\ run'.id = run.id /\ run'.turn = run.turn /\ run'.batch = run.batch
        /\ status' = status
    BY <1>1 DEF ParkOnApprovals, TypeOK, Runs
  <2>3. QED
    BY <2>1, <2>2 DEF CompactionStands, OwedHasBatch, CompactionPending, Open, TurnInFlight,
       BatchActive, HasUnstartedToolCallTurn, Active
<1>2. CASE StartRun
  BY <1>2 DEF StartRun, PlansRunStart, RunsMayPlan, CompactionStands, OwedHasBatch,
     CompactionPending, Open
<1>3. CASE EndRun \/ FailAtEntryGuard \/ EndCancelledRun
  <2>1. Drained /\ UNCHANGED <<status, ctx>> /\ Open
    BY <1>3 DEF EndRun, FailAtEntryGuard, EndCancelledRun, PlansRunEnd, PlansGuardFailure,
       PlansRunCancelled, RunsMayPlan
  <2>2. ~HasUnstartedToolCallTurn
    <3>1. CASE EndRun
      BY <3>1 DEF EndRun, PlansRunEnd, TerminalRunProposal, OutcomeOfLatestTurn, TurnLimitFailure,
         HasUnstartedToolCallTurn
    <3>2. CASE FailAtEntryGuard
      BY <2>1, <3>2 DEF FailAtEntryGuard, PlansGuardFailure, EntryGuard, SafeBoundary, Drained
    <3>3. CASE EndCancelledRun
      BY <3>3 DEF EndCancelledRun, PlansRunCancelled
    <3>4. QED
      BY <1>3, <3>1, <3>2, <3>3
  <2>3. ctx.owed = {}
    BY <2>1, <2>2 DEF OwedHasBatch, Drained, Open
  <2>4. QED
    BY <1>3, <2>1, <2>3, BoundaryFinish DEF EndRun, FailAtEntryGuard, EndCancelledRun, Drained
<1>4. CASE StartBatch
  <2>1. ~CompactionPending /\ Active
    BY <1>4 DEF StartBatch, PlansBatchStart, CompactionStands
  <2>2. /\ UNCHANGED <<status, ctx>>
        /\ run'.id = run.id /\ run'.batch = "active"
    BY <1>4 DEF StartBatch, TypeOK, Runs
  <2>3. QED
    BY <2>1, <2>2 DEF CompactionStands, OwedHasBatch, CompactionPending, BatchActive, Active
<1>5. CASE StartCalls \/ CancelCalls
  BY <1>5, BoundaryQuiet DEF StartCalls, CancelCalls, TypeOK, Runs
<1>6. CASE CompleteBatch
  <2>1. ~CompactionPending
    BY <1>6 DEF CompleteBatch, PlansBatchCompletion, BatchUnderWay, CompactionStands
  <2>2. PICK c \in Contexts : c = [ctx EXCEPT !.owed = {}, !.settled = TRUE]
    BY DEF TypeOK, Contexts
  <2>3. c.phase = ctx.phase /\ c.owed = {}
    BY <2>2 DEF TypeOK, Contexts
  <2>4. ctx'.phase = ctx.phase /\ ctx'.owed = {}
    BY <1>6, <2>2, <2>3, AppendedEffect DEF CompleteBatch
  <2>5. QED
    BY <2>1, <2>4, BoundaryClear DEF CompactionPending
<1>7. CASE AbandonCompaction
  <2>1. ctx'.phase = "Idle" /\ ctx'.owed = ctx.owed /\ UNCHANGED <<status, run>>
    BY <1>7, FinishedEffect DEF AbandonCompaction, TypeOK
  <2>2. QED
    BY <2>1, BoundaryNoCompaction DEF PendingPhases
<1>8. CASE StartQueuedCompaction \/ RecoverFromOverflow \/ CompactAtWatermark
  <2>1. SafeBoundary /\ Open /\ status' = status
    BY <1>8 DEF StartQueuedCompaction, RecoverFromOverflow, CompactAtWatermark,
       PlansQueuedCompaction, PlansRecovery, PlansGuardCompaction, MayPlanWatermark, PlannerMayCompact
  <2>2. PICK trigger : CompactionRequested(trigger, "Pending")
    BY <1>8 DEF StartQueuedCompaction, RecoverFromOverflow, CompactAtWatermark
  <2>3. QED
    BY <2>1, <2>2, BoundaryRequested DEF PendingPhases
<1>9. CASE WriteRunInput \/ WriteSteering
  <2>1. ~CompactionPending /\ status' = status
    BY <1>9 DEF WriteRunInput, WriteSteering, PlansRunInput, PlansSteering, ContextMayWrite
  <2>2. run'.id = run.id /\ run'.turn = run.turn /\ run'.batch = run.batch
    <3>1. CASE WriteRunInput
      BY <3>1 DEF WriteRunInput, TypeOK, Runs
    <3>2. CASE WriteSteering
      BY <3>2 DEF WriteSteering, ContextMovedUnder, TypeOK, Runs
    <3>3. QED
      BY <1>9, <3>1, <3>2
  <2>3. ctx'.phase = ctx.phase /\ ctx'.owed = ctx.owed
    BY <1>9, AppendedEffect DEF WriteRunInput, WriteSteering, TypeOK
  <2>4. QED
    BY <2>1, <2>2, <2>3, BoundaryNoCompaction DEF CompactionPending
<1>10. CASE StartTurn
  <2>1. ~CompactionPending /\ Open /\ Active /\ ~BatchActive /\ UNCHANGED <<status, ctx>>
    BY <1>10 DEF StartTurn, PlansTurnStart, TurnMayPlan
  <2>2. ~HasUnstartedToolCallTurn
    BY <1>10 DEF StartTurn, PlansTurnStart, TurnMayPlan, TurnTurn, ContextTurn, ToolPlans,
       PlansBatchStart, Running
  <2>3. QED
    BY <2>1, <2>2, BoundaryClear DEF OwedHasBatch, CompactionPending, Open
<1>11. CASE PlanTurn
  <2>1. ~CompactionPending /\ Open /\ ~BatchActive /\ run.turn = "Started" /\ status' = status
    BY <1>11 DEF PlanTurn, PlansTurnPlanned, TurnMayPlan
  <2>2. ctx.owed = {}
    BY <2>1 DEF OwedHasBatch, HasUnstartedToolCallTurn, Open
  <2>3. ctx'.phase = ctx.phase /\ ctx'.owed = ctx.owed
    BY <1>11 DEF PlanTurn, TypeOK, Contexts
  <2>4. QED
    BY <2>1, <2>2, <2>3, BoundaryClear DEF CompactionPending
<1>12. CASE RequestGeneration \/ CancelTurn
  <2>1. ~CompactionPending /\ Open /\ ~BatchActive /\ TurnInFlight /\ UNCHANGED ctx
    BY <1>12 DEF RequestGeneration, CancelTurn, PlansGeneration, PlansTurnCancelled, TurnMayPlan,
       TurnInFlight, TurnsInFlight
  <2>2. ctx.owed = {}
    BY <2>1 DEF OwedHasBatch, HasUnstartedToolCallTurn, TurnInFlight, TurnsInFlight, Open
  <2>3. QED
    BY <2>1, <2>2, BoundaryClear DEF CompactionPending
<1>13. QED
  BY <1>1, <1>2, <1>3, <1>4, <1>5, <1>6, <1>7, <1>8, <1>9, <1>10, <1>11, <1>12 DEF PlannerStep

LEMMA BoundaryGeneration ==
  ASSUME TypeOK, RequestInv, BoundaryInv, GenerationResult
  PROVE  BoundaryInv'
<1>1. GenerationWanted /\ status' = status
  BY DEF GenerationResult, AnswerFinally, CallTools, AskApprovals, FailGeneration, Overflow
<1>2. /\ TurnInFlight /\ ~CompactionPending /\ Active
      /\ run.turn = "GenerationPending" /\ run.batch = "none"
  BY <1>1 DEF GenerationWanted, Running, TurnInFlight, TurnsInFlight, BoundaryInv, CompactionStands,
     RequestInv
<1>3. status # "Closed" => ctx.owed = {}
  BY <1>2 DEF BoundaryInv, OwedHasBatch, HasUnstartedToolCallTurn, RequestInv, BatchActive
<1>4. CASE CallTools
  <2>1. PICK calls \in SUBSET Calls, hosted \in SUBSET HostedApprovals :
          /\ run' = [TurnDone("ToolCallsQueued", calls, hosted) EXCEPT !.attempts = 0]
          /\ ctx' \in Appended([ctx EXCEPT !.settled = TRUE, !.owed = calls])
    BY <1>4 DEF CallTools
  <2>2. run'.turn = "ToolCallsQueued" /\ run'.id = run.id /\ run'.batch = run.batch
    BY <2>1 DEF TurnDone, TypeOK, Runs
  <2>3. PICK c \in Contexts : c = [ctx EXCEPT !.settled = TRUE, !.owed = calls]
    BY DEF TypeOK, Contexts
  <2>4. c.phase = ctx.phase
    BY <2>3 DEF TypeOK, Contexts
  <2>5. ctx'.phase = ctx.phase
    BY <2>1, <2>3, <2>4, AppendedEffect
  <2>6. QED
    BY <1>2, <2>2, <2>5 DEF BoundaryInv, CompactionStands, OwedHasBatch, CompactionPending,
       HasUnstartedToolCallTurn, Active
<1>5. CASE AnswerFinally \/ AskApprovals \/ FailGeneration \/ Overflow
  <2>1. PICK c \in Contexts : c = [ctx EXCEPT !.settled = TRUE]
    BY DEF TypeOK, Contexts
  <2>2. c.phase = ctx.phase /\ c.owed = ctx.owed
    BY <2>1 DEF TypeOK, Contexts
  <2>3. ctx'.phase = ctx.phase /\ ctx'.owed = ctx.owed
    BY <1>5, <2>1, <2>2, AppendedEffect DEF AnswerFinally, AskApprovals, FailGeneration, Overflow,
       TypeOK
  <2>4. QED
    BY <1>1, <1>2, <1>3, <2>3, BoundaryClear DEF CompactionPending
<1>6. QED
  BY <1>4, <1>5 DEF GenerationResult

LEMMA BoundaryResult ==
  ASSUME TypeOK, RequestInv, BoundaryInv, ToolResult \/ CompactionResult \/ UnparkStep
  PROVE  BoundaryInv'
<1>1. CASE ToolResult
  <2>1. /\ UNCHANGED <<status, ctx>>
        /\ run'.id = run.id /\ run'.turn = run.turn /\ run'.batch = run.batch
    BY <1>1, ToolKeepsRun
  <2>2. QED
    BY <2>1, BoundaryQuiet
<1>2. CASE SendCompaction
  <2>1. /\ ctx'.phase = "Sent" /\ ctx'.owed = ctx.owed /\ ctx'.run = ctx.run
        /\ ctx'.moved = ctx.moved /\ CompactionPending /\ UNCHANGED <<status, run>>
    BY <1>2 DEF SendCompaction, TypeOK, Contexts
  <2>2. QED
    BY <2>1 DEF BoundaryInv, CompactionStands, OwedHasBatch, CompactionPending, Open, TurnInFlight,
       BatchActive, HasUnstartedToolCallTurn, Active
<1>3. CASE CompactionSucceeds
  <2>1. PICK full \in {ctx.full, FALSE} :
          /\ ctx' = [Finished(ctx) EXCEPT !.settled = TRUE, !.full = full]
          /\ run' = IF full THEN run ELSE [run EXCEPT !.guardTried = FALSE]
    BY <1>3 DEF CompactionSucceeds
  <2>2. ctx'.phase = "Idle" /\ ctx'.owed = ctx.owed
    BY <2>1 DEF Finished, TypeOK, Contexts
  <2>3. /\ run'.id = run.id /\ run'.turn = run.turn /\ run'.batch = run.batch
        /\ status' = status
    BY <1>3, <2>1 DEF CompactionSucceeds, TypeOK, Runs
  <2>4. QED
    BY <2>2, <2>3, BoundaryNoCompaction DEF PendingPhases
<1>4. CASE RecoveryFails
  <2>1. CompactionPending
    BY <1>4 DEF RecoveryFails, CompactionWanted, CompactionPending, PendingPhases
  <2>2. ctx.owed = {}
    BY <2>1 DEF BoundaryInv, CompactionStands, OwedHasBatch, Open
  <2>3. ctx'.phase = "Idle" /\ ctx'.owed = {}
    <3>1. Finished(ctx) \in Contexts
      BY FinishedType DEF TypeOK
    <3>2. Finished(ctx).phase = "Idle" /\ Finished(ctx).owed = {}
      BY <2>2, FinishedEffect DEF TypeOK
    <3>3. ctx' \in Appended(Finished(ctx)) \/ ctx' = Finished(ctx)
      BY <1>4 DEF RecoveryFails
    <3>4. QED
      BY <3>1, <3>2, <3>3, AppendedEffect
  <2>4. QED
    BY <2>3, BoundaryClear DEF PendingPhases
<1>5. CASE CompactionFails
  <2>1. ctx'.phase = "Idle" /\ ctx'.owed = ctx.owed /\ UNCHANGED <<status, run>>
    BY <1>5, FinishedEffect DEF CompactionFails, TypeOK
  <2>2. QED
    BY <2>1, BoundaryNoCompaction DEF PendingPhases
<1>6. CASE UnparkStep
  BY <1>6, BoundaryQuiet DEF UnparkStep, PrepareUnpark, UnparkBatch, DropClaim, TypeOK, Runs
<1>7. QED
  BY <1>1, <1>2, <1>3, <1>4, <1>5, <1>6 DEF CompactionResult

LEMMA AnsweredEffect ==
  ASSUME TypeOK, NEW c \in Answered(ctx)
  PROVE  /\ c \in Contexts /\ c.phase = ctx.phase /\ c.run = ctx.run /\ c.owed = {}
<1>1. CASE ctx.owed = {}
  BY <1>1 DEF Answered, TypeOK
<1>2. CASE ctx.owed # {}
  <2>1. PICK d \in Contexts : d = [ctx EXCEPT !.owed = {}]
    BY DEF TypeOK, Contexts
  <2>2. d.phase = ctx.phase /\ d.run = ctx.run /\ d.owed = {}
    BY <2>1 DEF TypeOK, Contexts
  <2>3. c \in Appended(d)
    BY <1>2, <2>1 DEF Answered
  <2>4. QED
    BY <2>2, <2>3, AppendedEffect, AppendedType
<1>3. QED
  BY <1>1, <1>2

LEMMA BoundaryForcedEnd ==
  ASSUME TypeOK, BoundaryInv, ForcedEnd
  PROVE  BoundaryInv'
<1>1. CASE ForceCancelRun
  <2>1. ctx'.owed = {} /\ ctx'.phase = ctx.phase /\ ctx'.run = ctx.run
    BY <1>1, AnsweredEffect DEF ForceCancelRun
  <2>2. QED
    BY <1>1, <2>1, BoundaryFinish DEF ForceCancelRun, Cancelling
<1>2. CASE FailRun
  <2>1. PICK c \in Answered(ctx) : ctx' \in Appended(c) \/ ctx' = c
    BY <1>2 DEF FailRun
  <2>2. ctx'.owed = {} /\ ctx'.phase = ctx.phase /\ ctx'.run = ctx.run
    BY <2>1, AnsweredEffect, AppendedEffect
  <2>3. QED
    BY <1>2, <2>2, BoundaryFinish DEF FailRun
<1>3. QED
  BY <1>1, <1>2 DEF ForcedEnd, FailStoredStep, FailRefusedPark

LEMMA BoundaryCommand ==
  ASSUME TypeOK, Vacant, RequestInv, BoundaryInv, Command
  PROVE  BoundaryInv'
<1>1. CASE OpenSession
  <2>1. ctx.phase \notin PendingPhases
    BY <1>1 DEF OpenSession, BoundaryInv, CompactionStands, CompactionPending, Open
  <2>2. QED
    BY <1>1, <2>1 DEF OpenSession, BoundaryInv, CompactionStands, OwedHasBatch, CompactionPending,
       BatchActive, HasUnstartedToolCallTurn, Active
<1>2. CASE RequestRun \/ CancelQueuedRun
  BY <1>2, BoundaryQuiet DEF RequestRun, CancelQueuedRun
<1>3. CASE SteerRun \/ CancelActiveRun
  BY <1>3, BoundaryQuiet DEF SteerRun, CancelActiveRun, TypeOK, Runs
<1>4. ASSUME NEW a \in Approvals, DecideApproval(a) PROVE BoundaryInv'
  <2>1. ctx.phase # "Sent" /\ status' = status
    BY <1>4 DEF DecideApproval, Admitted
  <2>2. run'.id = run.id /\ run'.turn = run.turn /\ run'.batch = run.batch
    BY <1>4, DecisionKeepsRun
  <2>3. /\ ctx'.phase = ctx.phase /\ ctx'.run = ctx.run /\ ctx'.owed = ctx.owed
        /\ ctx'.moved = ctx.moved
    BY <1>4, <2>1, AppendedEffect DEF DecideApproval, TypeOK
  <2>4. QED
    BY <2>1, <2>2, <2>3 DEF BoundaryInv, CompactionStands, OwedHasBatch, CompactionPending, Open,
       TurnInFlight, BatchActive, HasUnstartedToolCallTurn, Active
<1>5. ASSUME NEW p \in Promises, ResolvePromise(p) PROVE BoundaryInv'
  BY <1>5, BoundaryQuiet DEF ResolvePromise
<1>6. CASE CompactContext
  <2>1. Open /\ status' = status /\ ctx.phase = "Idle"
    BY <1>6 DEF CompactContext, Admitted
  <2>2. CASE SafeBoundary
    BY <1>6, <2>1, <2>2, BoundaryRequested DEF CompactContext, PendingPhases
  <2>3. CASE ~SafeBoundary
    <3>1. ctx'.phase = "QueuedManual" /\ ctx'.owed = ctx.owed /\ UNCHANGED run
      BY <1>6, <2>3 DEF CompactContext, TypeOK, Contexts
    <3>2. QED
      BY <2>1, <3>1, BoundaryNoCompaction DEF PendingPhases
  <2>4. QED
    BY <2>2, <2>3
<1>7. CASE EditContext
  <2>1. ~CompactionPending /\ status' = status
    BY <1>7 DEF EditContext, ContextMayChange
  <2>2. run'.id = run.id /\ run'.turn = run.turn /\ run'.batch = run.batch
    BY <1>7 DEF EditContext, ContextMovedUnder, TypeOK, Runs
  <2>3. PICK settled \in BOOLEAN, full \in {ctx.full, FALSE} :
          \E c \in Appended([ctx EXCEPT !.settled = settled, !.moved = CompactionPending]) :
            ctx' = [c EXCEPT !.full = full]
    BY <1>7 DEF EditContext
  <2>4. PICK d \in Contexts : d = [ctx EXCEPT !.settled = settled, !.moved = CompactionPending]
    <3>1. CompactionPending \in BOOLEAN
      BY SMT DEF CompactionPending
    <3>2. ASSUME NEW b \in BOOLEAN
          PROVE  [ctx EXCEPT !.settled = settled, !.moved = b] \in Contexts
      BY DEF TypeOK, Contexts
    <3>3. QED
      BY <3>1, <3>2, Zenon
  <2>5. d.phase = ctx.phase /\ d.owed = ctx.owed
    BY <2>4 DEF TypeOK, Contexts
  <2>6. PICK c \in Appended(d) : ctx' = [c EXCEPT !.full = full]
    BY <2>3, <2>4
  <2>7. ctx'.phase = ctx.phase /\ ctx'.owed = ctx.owed
    BY <2>5, <2>6, AppendedEffect, AppendedType DEF Contexts
  <2>8. QED
    BY <2>1, <2>2, <2>7, BoundaryNoCompaction DEF CompactionPending
<1>8. CASE EditTools
  BY <1>8, BoundaryQuiet DEF EditTools, TypeOK, Runs
<1>9. CASE CloseSession
  BY <1>9, BoundaryClear DEF CloseSession, PendingPhases
<1>10. CASE ForceCloseSession
  <2>1. status' = "Closed" /\ ctx'.phase = "Idle"
    BY <1>10, FinishedEffect DEF ForceCloseSession, TypeOK
  <2>2. QED
    BY <2>1, BoundaryClear DEF PendingPhases
<1>11. QED
  BY <1>1, <1>2, <1>3, <1>4, <1>5, <1>6, <1>7, <1>8, <1>9, <1>10 DEF Command

LEMMA BoundaryInvariant == Spec => []BoundaryInv
<1>1. TypeOK /\ Vacant /\ RequestInv /\ BoundaryInv /\ [Next]_vars => BoundaryInv'
  <2> SUFFICES ASSUME TypeOK, Vacant, RequestInv, BoundaryInv, [Next]_vars PROVE BoundaryInv'
    OBVIOUS
  <2>1. CASE Next
    BY <2>1, BoundaryPlannerStep, BoundaryGeneration, BoundaryResult, BoundaryCommand,
       BoundaryForcedEnd DEF Next
  <2>2. CASE UNCHANGED vars
    BY <2>2, BoundaryQuiet DEF vars
  <2>3. QED
    BY <2>1, <2>2
<1>2. QED
  BY <1>1, BoundaryInit, TypeCorrect, VacantInvariant, RequestInvariant, PTL DEF Spec

\* A compaction never runs beside a turn or a batch and never takes a call
\* away from the result that is still to come, whoever asked for it.
THEOREM CompactionsAtBoundaries == Spec => []CompactionAtBoundary
<1>1. BoundaryInv => CompactionAtBoundary
  BY DEF BoundaryInv, CompactionStands, OwedHasBatch, CompactionAtBoundary, Open
<1>2. QED
  BY <1>1, BoundaryInvariant, PTL

\* A compaction whose plan is still wanted finds the prefix and the revision it
\* was planned against: its result is never refused for having been overtaken.
THEOREM CompactionsStayFrozen == Spec => []CompactionFrozen
<1>1. BoundaryInv => CompactionFrozen
  BY DEF BoundaryInv, CompactionStands, CompactionFrozen, PlansAbandonment, Active
<1>2. QED
  BY <1>1, BoundaryInvariant, PTL

\* No request carries a call without its result, and no run of an open session
\* leaves one behind, whichever of its ends it takes.
THEOREM CallsAreAnswered == Spec => []OpenCallsAreAnswered
<1>1. BoundaryInv /\ RequestInv => OpenCallsAreAnswered
  BY DEF BoundaryInv, OwedHasBatch, OpenCallsAreAnswered, RequestInv, TurnInFlight, TurnsInFlight,
     HasUnstartedToolCallTurn, BatchActive, Open
<1>2. QED
  BY <1>1, BoundaryInvariant, RequestInvariant, PTL

-----------------------------------------------------------------------------
(* Runs.                                                                   *)

InQueue(r) == \E i \in 1..Len(queue) : queue[i] = r

QueueDistinct == \A i, j \in 1..Len(queue) : queue[i] = queue[j] => i = j

\* Run by run: what is queued or active has no fate, an id beyond the cursor
\* is nowhere, and an id up to it is somewhere.
RunsPlaced ==
  \A r \in RunIds :
    /\ InQueue(r) => r <= lastRun /\ fate[r] = "none" /\ r # run.id
    /\ r = run.id => r <= lastRun /\ fate[r] = "none"
    /\ fate[r] # "none" => r <= lastRun
    /\ r <= lastRun => InQueue(r) \/ r = run.id \/ fate[r] # "none"

\* Steering is written before it is seen, and accepted before it is written.
SteeringOrder == run.seen <= run.written /\ run.written <= run.steered

CancelAsked == Cancelling => run.id \in ghost.asked

\* Only ended runs have left steering unseen, and none that completed.
UnseenEnded == \A r \in ghost.unseen : fate[r] \notin {"none", "Completed"}

RunInv ==
  /\ QueueDistinct /\ RunsPlaced /\ SteeringOrder /\ CancelAsked
  /\ CancelledOnRequest /\ SteeringKept /\ UnseenEnded

FatesStay == \A r \in RunIds : fate[r] # "none" => fate'[r] = fate[r]

RunsKept == RunInv' /\ FatesStay

LEMMA RunInit == Init => RunInv
BY DEF Init, RunInv, QueueDistinct, RunsPlaced, InQueue, SteeringOrder, CancelAsked,
   CancelledOnRequest, SteeringKept, UnseenEnded, NoRun, NewRun, Cancelling, Active, RunIds

\* A step of a run that goes on, with nothing else of its record touched.
LEMMA RunQuiet ==
  ASSUME RunInv, UNCHANGED <<queue, lastRun, fate, ghost>>, run'.id = run.id,
         SteeringOrder', Cancelling' => Cancelling
  PROVE  RunsKept
BY DEF RunsKept, FatesStay, RunInv, QueueDistinct, RunsPlaced, InQueue, CancelAsked,
   CancelledOnRequest, SteeringKept, UnseenEnded

\* The same where the step does not touch steering either.
Still ==
  /\ UNCHANGED <<queue, lastRun, fate, ghost>>
  /\ run'.id = run.id
  /\ run'.seen = run.seen /\ run'.written = run.written /\ run'.steered = run.steered
  /\ run'.status # "Cancelling" \/ run'.status = run.status

\* r is the active run, as far as its identity, status and steering go.
SameRun(r) ==
  /\ r.id = run.id /\ r.status = run.status
  /\ r.seen = run.seen /\ r.written = run.written /\ r.steered = run.steered

LEMMA RunStill ==
  ASSUME RunInv, Still
  PROVE  RunsKept
<1>1. SteeringOrder' /\ UNCHANGED <<queue, lastRun, fate, ghost>> /\ run'.id = run.id
  BY DEF RunInv, SteeringOrder, Still
<1>2. Cancelling' => Cancelling
  BY DEF Cancelling, Active, Still
<1>3. QED
  BY <1>1, <1>2, RunQuiet

\* The end of the active run, and what each way of ending it must show.
LEMMA RunFinish ==
  ASSUME TypeOK, RunInv, Active, UNCHANGED <<queue, lastRun>>,
         NEW how \in {"Completed", "Failed", "Cancelled"}, NEW kept, FinishRun(how, kept),
         how = "Cancelled" => run.id \in ghost.asked,
         how = "Completed" => ~(run.seen < run.steered),
         kept < run.steered => run.id \in ghost.asked
  PROVE  RunsKept
<1>1. run.id \in RunIds /\ fate[run.id] = "none"
  BY DEF TypeOK, Runs, Active, RunIds, RunInv, RunsPlaced
<1>2. fate' = [fate EXCEPT ![run.id] = how] /\ fate \in [RunIds -> Fates]
  BY DEF FinishRun, TypeOK
<1>3. /\ run'.id = 0 /\ run'.status = "None"
      /\ run'.seen = 0 /\ run'.written = 0 /\ run'.steered = 0
  BY DEF FinishRun, NoRun, NewRun
<1>4. /\ ghost'.asked = ghost.asked
      /\ ghost'.lost = ghost.lost \cup (IF kept < run.steered THEN {run.id} ELSE {})
      /\ ghost'.unseen = ghost.unseen \cup (IF run.seen < run.steered THEN {run.id} ELSE {})
  BY DEF FinishRun, TypeOK
<1>5. FatesStay
  BY <1>1, <1>2 DEF FatesStay
<1>6. QueueDistinct'
  BY DEF RunInv, QueueDistinct
<1>7. RunsPlaced'
  <2>1. \A r \in RunIds : r # 0
    BY DEF RunIds
  <2>2. QED
    BY <1>1, <1>2, <1>3, <2>1 DEF RunInv, RunsPlaced, InQueue
<1>8. SteeringOrder' /\ CancelAsked'
  BY <1>3 DEF SteeringOrder, CancelAsked, Cancelling
<1>9. CancelledOnRequest'
  BY <1>1, <1>2, <1>4 DEF RunInv, CancelledOnRequest
<1>10. SteeringKept'
  BY <1>4 DEF RunInv, SteeringKept
<1>11. UnseenEnded'
  <2>1. ghost.unseen \subseteq RunIds
    BY DEF TypeOK
  <2>2. QED
    BY <1>1, <1>2, <1>4, <2>1 DEF RunInv, UnseenEnded
<1>12. QED
  BY <1>5, <1>6, <1>7, <1>8, <1>9, <1>10, <1>11 DEF RunsKept, RunInv

\* What taking one element out of a queue leaves.
LEMMA WithoutEffect ==
  ASSUME NEW q \in Seq(RunIds), NEW i \in 1..Len(q)
  PROVE  /\ Len(Without(q, i)) = Len(q) - 1
         /\ \A k \in 1..Len(q) - 1 :
              Without(q, i)[k] = IF k < i THEN q[k] ELSE q[k + 1]
<1>1. /\ SubSeq(q, 1, i - 1) \in Seq(RunIds) /\ Len(SubSeq(q, 1, i - 1)) = i - 1
      /\ \A k \in 1..i - 1 : SubSeq(q, 1, i - 1)[k] = q[k]
  BY SubSeqProperties
<1>2. /\ SubSeq(q, i + 1, Len(q)) \in Seq(RunIds) /\ Len(SubSeq(q, i + 1, Len(q))) = Len(q) - i
      /\ \A k \in 1..Len(q) - i : SubSeq(q, i + 1, Len(q))[k] = q[i + k]
  BY SubSeqProperties
<1>3. PICK a \in Seq(RunIds), b \in Seq(RunIds) :
        a = SubSeq(q, 1, i - 1) /\ b = SubSeq(q, i + 1, Len(q)) /\ Without(q, i) = a \o b
  BY <1>1, <1>2 DEF Without
<1>4. Len(a \o b) = Len(a) + Len(b) /\ Len(a) = i - 1 /\ Len(b) = Len(q) - i /\ Len(q) \in Nat
  BY <1>1, <1>2, <1>3, ConcatProperties
<1>5. ASSUME NEW k \in 1..Len(q) - 1
      PROVE  (a \o b)[k] = IF k < i THEN q[k] ELSE q[k + 1]
  <2>1. k \in 1..(Len(a) + Len(b)) /\ i \in 1..Len(q)
    BY <1>4
  <2>2. (a \o b)[k] = IF k <= Len(a) THEN a[k] ELSE b[k - Len(a)]
    BY <2>1, ConcatProperties
  <2>3. CASE k < i
    <3>1. k \in 1..i - 1 /\ k <= Len(a)
      BY <1>4, <2>1, <2>3
    <3>2. a[k] = q[k]
      BY <1>1, <1>3, <3>1
    <3>3. QED
      BY <2>2, <2>3, <3>1, <3>2
  <2>4. CASE ~(k < i)
    <3>1. k - (i - 1) \in 1..Len(q) - i /\ i + (k - (i - 1)) = k + 1
      BY <1>4, <2>4
    <3>2. b[k - (i - 1)] = q[k + 1]
      BY <1>2, <1>3, <3>1
    <3>3. QED
      BY <1>4, <2>2, <2>4, <3>2
  <2>5. QED
    BY <2>3, <2>4
<1>6. Len(a \o b) = Len(q) - 1
  BY <1>4
<1>7. QED
  BY <1>3, <1>5, <1>6

LEMMA RunStarts ==
  ASSUME TypeOK, RunInv, StartRun
  PROVE  RunsKept
<1>1. /\ run.id = 0 /\ queue # <<>> /\ queue \in Seq(RunIds)
      /\ queue' = Tail(queue) /\ run' = NewRun(Head(queue), "Running")
      /\ UNCHANGED <<lastRun, fate, ghost>>
  BY DEF StartRun, PlansRunStart, Active, TypeOK
<1>2. /\ Len(queue') = Len(queue) - 1 /\ Head(queue) = queue[1] /\ 1 \in 1..Len(queue)
      /\ \A i \in 1..Len(queue') : queue'[i] = queue[i + 1]
  BY <1>1, HeadTailProperties
<1>3. /\ run'.id = queue[1] /\ run'.status = "Running"
      /\ run'.seen = 0 /\ run'.written = 0 /\ run'.steered = 0
  BY <1>1, <1>2 DEF NewRun
<1>4. QueueDistinct'
  BY <1>2 DEF RunInv, QueueDistinct
<1>5. ASSUME NEW r \in RunIds
      PROVE  /\ InQueue(r)' => InQueue(r) /\ r # queue[1]
             /\ InQueue(r) => InQueue(r)' \/ r = queue[1]
  <2>1. InQueue(r)' => InQueue(r) /\ r # queue[1]
    BY <1>2 DEF InQueue, RunInv, QueueDistinct
  <2>2. ASSUME NEW i \in 1..Len(queue), queue[i] = r, r # queue[1] PROVE InQueue(r)'
    <3>1. i - 1 \in 1..Len(queue') /\ queue'[i - 1] = r
      BY <1>2, <2>2
    <3>2. QED
      BY <3>1 DEF InQueue
  <2>3. QED
    BY <2>1, <2>2 DEF InQueue
<1>6. RunsPlaced'
  <2>1. \A r \in RunIds : r # 0
    BY DEF RunIds
  <2>2. InQueue(queue[1])
    BY <1>2 DEF InQueue
  <2>3. QED
    BY <1>1, <1>3, <1>5, <2>1, <2>2 DEF RunInv, RunsPlaced
<1>7. SteeringOrder' /\ CancelAsked'
  BY <1>3 DEF SteeringOrder, CancelAsked, Cancelling
<1>8. QED
  BY <1>1, <1>4, <1>6, <1>7 DEF RunsKept, FatesStay, RunInv, CancelledOnRequest, SteeringKept,
     UnseenEnded

LEMMA RunAccepted ==
  ASSUME TypeOK, RunInv, RequestRun
  PROVE  RunsKept
<1>1. /\ lastRun \in 0..MaxRuns /\ lastRun < MaxRuns /\ lastRun' = lastRun + 1
      /\ queue' = Append(queue, lastRun + 1) /\ queue \in Seq(RunIds)
      /\ UNCHANGED <<run, fate, ghost>>
  BY DEF RequestRun, TypeOK
<1>2. PICK n \in RunIds : n = lastRun + 1
  BY <1>1, BoundsAssumption DEF RunIds, BoundsAssumption
<1>3. /\ Len(queue') = Len(queue) + 1 /\ Len(queue) \in Nat
      /\ \A i \in 1..Len(queue) : queue'[i] = queue[i]
      /\ queue'[Len(queue) + 1] = n
  BY <1>1, <1>2, AppendProperties
<1>4. /\ ~InQueue(n) /\ n # run.id
      /\ fate[n] = "none"
  BY <1>1, <1>2 DEF RunInv, RunsPlaced, RunIds
<1>5. \A r \in RunIds : InQueue(r)' <=> (InQueue(r) \/ r = n)
  <2>1. ASSUME NEW r \in RunIds, InQueue(r)' PROVE InQueue(r) \/ r = n
    BY <1>3, <2>1 DEF InQueue
  <2>2. ASSUME NEW r \in RunIds, InQueue(r) PROVE InQueue(r)'
    <3>1. PICK i \in 1..Len(queue) : queue[i] = r
      BY <2>2 DEF InQueue
    <3>2. i \in 1..Len(queue') /\ queue'[i] = r
      BY <1>3, <3>1
    <3>3. QED
      BY <3>2 DEF InQueue
  <2>3. InQueue(n)'
    <3>1. Len(queue) + 1 \in 1..Len(queue')
      BY <1>3
    <3>2. \E i \in 1..Len(queue') : queue'[i] = n
      BY <1>3, <3>1
    <3>3. QED
      BY <3>2 DEF InQueue
  <2>4. QED
    BY <2>1, <2>2, <2>3
<1>6. QueueDistinct'
  <2>1. \A i \in 1..Len(queue) : queue[i] # n
    BY <1>4 DEF InQueue
  <2>2. QED
    BY <1>3, <2>1 DEF RunInv, QueueDistinct
<1>7. RunsPlaced'
  <2>1. \A r \in RunIds : r \in Nat
    BY DEF RunIds
  <2>2. QED
    BY <1>1, <1>2, <1>4, <1>5, <2>1 DEF RunInv, RunsPlaced
<1>8. QED
  BY <1>1, <1>6, <1>7 DEF RunsKept, FatesStay, RunInv, SteeringOrder, CancelAsked, Cancelling, Active,
     CancelledOnRequest, SteeringKept, UnseenEnded

LEMMA RunUnqueued ==
  ASSUME TypeOK, RunInv, CancelQueuedRun
  PROVE  RunsKept
<1>1. PICK i \in 1..Len(queue) :
        /\ queue' = Without(queue, i)
        /\ fate' = [fate EXCEPT ![queue[i]] = "Cancelled"]
        /\ ghost' = [ghost EXCEPT !.asked = @ \cup {queue[i]}]
        /\ UNCHANGED <<lastRun, run>>
  BY DEF CancelQueuedRun
<1>2. /\ queue \in Seq(RunIds) /\ Len(queue) \in Nat /\ queue[i] \in RunIds
      /\ fate \in [RunIds -> Fates] /\ InQueue(queue[i])
  BY DEF TypeOK, InQueue
<1>3. PICK x \in RunIds : x = queue[i]
  BY <1>2
<1>4. /\ Len(queue') = Len(queue) - 1
      /\ \A k \in 1..Len(queue) - 1 : queue'[k] = IF k < i THEN queue[k] ELSE queue[k + 1]
  BY <1>1, <1>2, WithoutEffect
<1>5. /\ ghost'.asked = ghost.asked \cup {x}
      /\ ghost'.lost = ghost.lost /\ ghost'.unseen = ghost.unseen
  BY <1>1, <1>3 DEF TypeOK
<1>6. fate' = [fate EXCEPT ![x] = "Cancelled"] /\ fate[x] = "none" /\ x # run.id
  BY <1>1, <1>2, <1>3 DEF RunInv, RunsPlaced
<1>7. QueueDistinct'
  BY <1>2, <1>4 DEF RunInv, QueueDistinct
<1>8. ASSUME NEW r \in RunIds
      PROVE  InQueue(r)' <=> InQueue(r) /\ r # x
  <2>1. ASSUME NEW k \in 1..Len(queue'), queue'[k] = r PROVE InQueue(r) /\ r # x
    <3>1. k \in 1..Len(queue) /\ k + 1 \in 1..Len(queue)
      BY <1>2, <1>4
    <3>2. PICK j \in 1..Len(queue) : queue[j] = r /\ j # i
      BY <1>4, <2>1, <3>1
    <3>3. QED
      BY <1>3, <3>2 DEF RunInv, QueueDistinct, InQueue
  <2>2. ASSUME NEW j \in 1..Len(queue), queue[j] = r, r # x PROVE InQueue(r)'
    <3>1. CASE j < i
      <4>1. j \in 1..Len(queue') /\ queue'[j] = r
        BY <1>2, <1>4, <2>2, <3>1
      <4>2. QED
        BY <4>1 DEF InQueue
    <3>2. CASE j > i
      <4>1. j - 1 \in 1..Len(queue') /\ queue'[j - 1] = r
        BY <1>2, <1>4, <2>2, <3>2
      <4>2. QED
        BY <4>1 DEF InQueue
    <3>3. QED
      BY <1>2, <1>3, <2>2, <3>1, <3>2
  <2>3. QED
    BY <2>1, <2>2 DEF InQueue
<1>9. RunsPlaced'
  <2>1. x <= lastRun
    BY <1>2, <1>3 DEF RunInv, RunsPlaced
  <2>2. QED
    BY <1>1, <1>2, <1>6, <1>8, <2>1 DEF RunInv, RunsPlaced
<1>10. CancelledOnRequest'
  BY <1>2, <1>5, <1>6 DEF RunInv, CancelledOnRequest
<1>11. UnseenEnded' /\ SteeringKept'
  <2>1. ghost.unseen \subseteq RunIds
    BY DEF TypeOK
  <2>2. QED
    BY <1>2, <1>5, <1>6, <2>1 DEF RunInv, UnseenEnded, SteeringKept
<1>12. FatesStay
  BY <1>2, <1>6 DEF FatesStay
<1>13. SteeringOrder' /\ CancelAsked'
  BY <1>1, <1>5 DEF RunInv, SteeringOrder, CancelAsked, Cancelling, Active
<1>14. QED
  BY <1>7, <1>9, <1>10, <1>11, <1>12, <1>13 DEF RunsKept, RunInv

LEMMA RunsClosed ==
  ASSUME TypeOK, RunInv, ForceCloseSession
  PROVE  RunsKept
<1>1. queue' = <<>> /\ lastRun' = lastRun /\ run' = NoRun
  BY DEF ForceCloseSession
<1>2. ASSUME NEW r \in RunIds
      PROVE  fate'[r] = IF r = run.id \/ InQueue(r) THEN "Cancelled" ELSE fate[r]
  BY DEF ForceCloseSession, InQueue
<1>3. /\ \A r \in RunIds : r = run.id \/ InQueue(r) => r \in ghost'.asked
      /\ ghost.asked \subseteq ghost'.asked
      /\ ghost'.lost = ghost.lost /\ ghost'.unseen = ghost.unseen
  <2>1. \A r \in RunIds : r # 0
    BY DEF RunIds
  <2>2. ghost' = [ghost EXCEPT !.asked =
                    @ \cup ({run.id} \ {0}) \cup {queue[i] : i \in 1..Len(queue)}]
    BY DEF ForceCloseSession
  <2>3. QED
    BY <2>1, <2>2 DEF TypeOK, InQueue
<1>4. /\ run'.id = 0 /\ run'.status = "None"
      /\ run'.seen = 0 /\ run'.written = 0 /\ run'.steered = 0
  BY <1>1 DEF NoRun, NewRun
<1>5. QueueDistinct' /\ \A r \in RunIds : ~InQueue(r)'
  <2>1. Len(queue') = 0
    BY <1>1
  <2>2. QED
    BY <2>1 DEF QueueDistinct, InQueue
<1>6. RunsPlaced'
  <2>1. \A r \in RunIds : r # 0
    BY DEF RunIds
  <2>2. QED
    BY <1>1, <1>2, <1>4, <1>5, <2>1 DEF RunInv, RunsPlaced
<1>7. CancelledOnRequest'
  BY <1>2, <1>3 DEF RunInv, CancelledOnRequest
<1>8. UnseenEnded' /\ SteeringKept'
  <2>1. ghost.unseen \subseteq RunIds
    BY DEF TypeOK
  <2>2. QED
    BY <1>2, <1>3, <2>1 DEF RunInv, UnseenEnded, SteeringKept
<1>9. FatesStay
  BY <1>2 DEF FatesStay, RunInv, RunsPlaced
<1>10. SteeringOrder' /\ CancelAsked'
  BY <1>4 DEF SteeringOrder, CancelAsked, Cancelling
<1>11. QED
  BY <1>5, <1>6, <1>7, <1>8, <1>9, <1>10 DEF RunsKept, RunInv

LEMMA RunPlannerStep ==
  ASSUME TypeOK, RunInv, PlannerStep
  PROVE  RunsKept
<1>1. CASE StartRun
  BY <1>1, RunStarts
<1>2. CASE EndRun
  <2>1. Active /\ FinishRun(TerminalRunProposal, run.written) /\ UNCHANGED <<queue, lastRun>>
    BY <1>2 DEF EndRun, PlansRunEnd, Drained
  <2>2. TerminalRunProposal \in {"Completed", "Failed"}
    BY <1>2 DEF EndRun, PlansRunEnd, TerminalRunProposal, OutcomeOfLatestTurn, TurnLimitFailure
  <2>3. TerminalRunProposal = "Completed" => ~(run.seen < run.steered)
    BY DEF TerminalRunProposal, OutcomeOfLatestTurn, TurnLimitFailure, HasUnconsumedSteering
  <2>4. TerminalRunProposal = "Failed" => ~(run.written < run.steered)
    BY DEF TerminalRunProposal, HasUnmaterializedSteering
  <2>5. ~(run.written < run.steered)
    BY <2>2, <2>3, <2>4 DEF RunInv, SteeringOrder, TypeOK, Runs
  <2>6. QED
    BY <2>1, <2>2, <2>3, <2>5, RunFinish
<1>3. CASE FailAtEntryGuard
  BY <1>3, RunFinish DEF FailAtEntryGuard, PlansGuardFailure, Drained, HasUnmaterializedSteering
<1>4. CASE EndCancelledRun
  BY <1>4, RunFinish DEF EndCancelledRun, PlansRunCancelled, Drained, RunInv, CancelAsked
<1>5. CASE ParkOnApprovals
  BY <1>5, RunStill DEF Still, ParkOnApprovals, TypeOK, Runs
<1>6. CASE StartBatch \/ StartCalls \/ CancelCalls \/ CompleteBatch
  <2>1. CASE StartBatch
    BY <2>1, RunStill DEF Still, StartBatch, TypeOK, Runs
  <2>2. CASE StartCalls
    BY <2>2, RunStill DEF Still, StartCalls, TypeOK, Runs
  <2>3. CASE CancelCalls
    BY <2>3, RunStill DEF Still, CancelCalls, TypeOK, Runs
  <2>4. CASE CompleteBatch
    BY <2>4, RunStill DEF Still, CompleteBatch, TypeOK, Runs
  <2>5. QED
    BY <1>6, <2>1, <2>2, <2>3, <2>4
<1>7. CASE AbandonCompaction
  BY <1>7, RunStill DEF Still, AbandonCompaction
<1>8. CASE StartQueuedCompaction \/ RecoverFromOverflow \/ CompactAtWatermark
  <2>1. /\ UNCHANGED <<queue, lastRun, fate, ghost>>
        /\ \E trigger : CompactionRequested(trigger, "Pending")
    BY <1>8 DEF StartQueuedCompaction, RecoverFromOverflow, CompactAtWatermark
  <2>2. Still
    BY <2>1 DEF Still, CompactionRequested, TypeOK, Runs
  <2>3. QED
    BY <2>2, RunStill
<1>9. CASE WriteRunInput
  BY <1>9, RunStill DEF Still, WriteRunInput, TypeOK, Runs
<1>10. CASE WriteSteering
  <2>1. /\ run'.id = run.id /\ run'.status = run.status /\ run'.seen = run.seen
        /\ run'.written = run.steered /\ run'.steered = run.steered
    BY <1>10 DEF WriteSteering, ContextMovedUnder, TypeOK, Runs
  <2>2. SteeringOrder'
    BY <2>1 DEF RunInv, SteeringOrder, TypeOK, Runs
  <2>3. QED
    BY <1>10, <2>1, <2>2, RunQuiet DEF WriteSteering, Cancelling, Active
<1>11. CASE PlanTurn
  <2>1. /\ run'.id = run.id /\ run'.status = run.status /\ run'.seen = run.written
        /\ run'.written = run.written /\ run'.steered = run.steered
    BY <1>11 DEF PlanTurn, TypeOK, Runs
  <2>2. SteeringOrder'
    BY <2>1 DEF RunInv, SteeringOrder, TypeOK, Runs
  <2>3. QED
    BY <1>11, <2>1, <2>2, RunQuiet DEF PlanTurn, Cancelling, Active
<1>12. CASE StartTurn \/ RequestGeneration \/ CancelTurn
  <2>1. Still
    <3>1. CASE StartTurn
      BY <3>1 DEF Still, StartTurn, TypeOK, Runs
    <3>2. CASE RequestGeneration
      BY <3>2 DEF Still, RequestGeneration, TypeOK, Runs
    <3>3. CASE CancelTurn
      BY <3>3 DEF Still, CancelTurn, TypeOK, Runs
    <3>4. QED
      BY <1>12, <3>1, <3>2, <3>3
  <2>2. QED
    BY <2>1, RunStill
<1>13. QED
  BY <1>1, <1>2, <1>3, <1>4, <1>5, <1>6, <1>7, <1>8, <1>9, <1>10, <1>11, <1>12 DEF PlannerStep

LEMMA RunResult ==
  ASSUME TypeOK, BoundaryInv, RunInv,
         GenerationResult \/ ToolResult \/ CompactionResult \/ UnparkStep
  PROVE  RunsKept
<1>1. CASE GenerationResult
  <2>1. UNCHANGED <<queue, lastRun, fate, ghost>>
    BY <1>1 DEF GenerationResult, AnswerFinally, CallTools, AskApprovals, FailGeneration,
       Overflow, TurnDone
  <2>2. PICK o \in TurnOutcomes, calls \in SUBSET Calls, hosted \in SUBSET HostedApprovals :
          \/ run' = TurnDone(o, calls, hosted)
          \/ run' = [TurnDone(o, calls, hosted) EXCEPT !.attempts = 0]
    BY <1>1, GenerationEffect
  <2>3. SameRun(run')
    <3>1. SameRun(TurnDone(o, calls, hosted))
      BY DEF SameRun, TurnDone, TypeOK, Runs
    <3>2. SameRun([TurnDone(o, calls, hosted) EXCEPT !.attempts = 0])
      BY DEF SameRun, TurnDone, TypeOK, Runs
    <3>3. QED
      BY <2>2, <3>1, <3>2
  <2>4. QED
    BY <2>1, <2>3, RunStill DEF Still, SameRun
<1>2. CASE ToolResult
  <2>1. UNCHANGED <<queue, lastRun, fate, ghost>>
    BY <1>2 DEF ToolResult, FinishCall, CallMintsPromise, CallCancelsPromise,
       CallDetachesPromise, CallDone, FinishUnit, ParkOnAwait, ParkOnJoinedCalls, ParkOnGatedCalls
  <2>2. ASSUME NEW c \in Calls, run' = CallDone(c) PROVE SameRun(run')
    BY <2>2 DEF SameRun, CallDone, TypeOK, Runs
  <2>3. CASE FinishUnit
    BY <2>1, <2>3, RunStill DEF Still, FinishUnit, TypeOK, Runs
  <2>4. CASE ParkOnAwait
    BY <2>1, <2>4, RunStill DEF Still, ParkOnAwait, TypeOK, Runs
  <2>5. CASE ParkOnJoinedCalls
    BY <2>1, <2>5, RunStill DEF Still, ParkOnJoinedCalls, TypeOK, Runs
  <2>6. CASE ParkOnGatedCalls
    BY <2>1, <2>6, RunStill DEF Still, ParkOnGatedCalls, TypeOK, Runs
  <2>7. ASSUME NEW c \in Calls, run' = CallDone(c) PROVE RunsKept
    BY <2>1, <2>2, <2>7, RunStill DEF Still, SameRun
  <2>8. QED
    BY <1>2, <2>3, <2>4, <2>5, <2>6, <2>7 DEF ToolResult, FinishCall, CallMintsPromise,
       CallCancelsPromise, CallDetachesPromise
<1>3. CASE RecoveryFails
  <2>1. Active /\ CompactionPending /\ Open /\ ~PlansAbandonment
    BY <1>3 DEF RecoveryFails, CompactionWanted, CompactionPending, PendingPhases, PlannerIdle,
       TurnTurn, ContextPlans, CompactionPlans
  <2>2. ctx.run = run.id /\ ctx.run # 0
    BY <2>1 DEF BoundaryInv, CompactionStands, Active
  <2>3. Running
    BY <2>1, <2>2 DEF PlansAbandonment
  <2>4. FinishRun("Failed", run.steered) /\ UNCHANGED <<queue, lastRun>>
    BY <1>3, <2>3 DEF RecoveryFails
  <2>5. ~(run.steered < run.steered)
    BY DEF TypeOK, Runs
  <2>6. QED
    BY <2>1, <2>4, <2>5, RunFinish
<1>4. CASE SendCompaction \/ CompactionFails
  BY <1>4, RunStill DEF Still, SendCompaction, CompactionFails
<1>5. CASE CompactionSucceeds
  BY <1>5, RunStill DEF Still, CompactionSucceeds, TypeOK, Runs
<1>6. CASE UnparkStep
  BY <1>6, RunStill DEF Still, UnparkStep, PrepareUnpark, UnparkBatch, DropClaim, TypeOK, Runs
<1>7. QED
  BY <1>1, <1>2, <1>3, <1>4, <1>5, <1>6 DEF CompactionResult

LEMMA RunCommand ==
  ASSUME TypeOK, RunInv, Command
  PROVE  RunsKept
<1>1. CASE OpenSession \/ CloseSession
  BY <1>1, RunStill DEF Still, OpenSession, CloseSession
<1>2. CASE RequestRun
  BY <1>2, RunAccepted
<1>3. CASE SteerRun
  <2>1. /\ run'.id = run.id /\ run'.status = run.status /\ run'.seen = run.seen
        /\ run'.written = run.written /\ run'.steered = run.steered + 1
    BY <1>3 DEF SteerRun, TypeOK, Runs
  <2>2. SteeringOrder'
    BY <2>1 DEF RunInv, SteeringOrder, TypeOK, Runs
  <2>3. QED
    BY <1>3, <2>1, <2>2, RunQuiet DEF SteerRun, Cancelling, Active
<1>4. CASE CancelActiveRun
  <2>1. /\ run'.id = run.id /\ run'.seen = run.seen
        /\ run'.written = run.written /\ run'.steered = run.steered
    BY <1>4 DEF CancelActiveRun, TypeOK, Runs
  <2>2. /\ ghost'.asked = ghost.asked \cup {run.id}
        /\ ghost'.lost = ghost.lost /\ ghost'.unseen = ghost.unseen
    BY <1>4 DEF CancelActiveRun, TypeOK
  <2>3. UNCHANGED <<queue, lastRun, fate>>
    BY <1>4 DEF CancelActiveRun
  <2>4. QED
    BY <2>1, <2>2, <2>3 DEF RunsKept, FatesStay, RunInv, QueueDistinct, RunsPlaced, InQueue,
       SteeringOrder, CancelAsked, CancelledOnRequest, SteeringKept, UnseenEnded
<1>5. CASE CancelQueuedRun
  BY <1>5, RunUnqueued
<1>6. ASSUME NEW a \in Approvals, DecideApproval(a) PROVE RunsKept
  <2>1. UNCHANGED <<queue, lastRun, fate, ghost>>
    BY <1>6 DEF DecideApproval, ContextMovedUnder
  <2>2. PICK st \in RunStatuses, decided \in Runs :
          /\ st = run.status \/ st = "Running"
          /\ decided = [run EXCEPT !.approval[a] = "Decided", !.status = st]
          /\ run' = decided \/ run' = ContextMovedUnder(decided)
    <3>1. PICK st \in RunStatuses : st = IF DecisionUnparks(a) THEN "Running" ELSE run.status
      BY DEF TypeOK, Runs, RunStatuses
    <3>2. PICK decided \in Runs : decided = [run EXCEPT !.approval[a] = "Decided", !.status = st]
      BY DEF TypeOK, Runs
    <3>3. decided = [run EXCEPT !.approval[a] = "Decided",
                       !.status = IF DecisionUnparks(a) THEN "Running" ELSE @]
      BY <3>1, <3>2
    <3>4. QED
      BY <1>6, <3>1, <3>2, <3>3 DEF DecideApproval
  <2>3. decided.id = run.id /\ decided.seen = run.seen /\ decided.written = run.written
        /\ decided.steered = run.steered /\ decided.status = st
    BY <2>2 DEF TypeOK, Runs
  <2>4. ContextMovedUnder(decided).id = decided.id
        /\ ContextMovedUnder(decided).seen = decided.seen
        /\ ContextMovedUnder(decided).written = decided.written
        /\ ContextMovedUnder(decided).steered = decided.steered
        /\ ContextMovedUnder(decided).status = decided.status
    BY DEF ContextMovedUnder, Runs
  <2>5. /\ run'.id = run.id /\ run'.seen = run.seen /\ run'.written = run.written
        /\ run'.steered = run.steered /\ run'.status = st
    BY <2>2, <2>3, <2>4
  <2>6. QED
    BY <2>1, <2>2, <2>5, RunStill DEF Still
<1>7. ASSUME NEW p \in Promises, ResolvePromise(p) PROVE RunsKept
  BY <1>7, RunStill DEF Still, ResolvePromise
<1>8. CASE CompactContext
  <2>1. CASE UNCHANGED run
    BY <1>8, <2>1, RunStill DEF Still, CompactContext
  <2>2. CASE CompactionRequested("Manual", "Draining")
    BY <1>8, <2>2, RunStill, CompactionKeepsRun DEF Still, CompactContext
  <2>3. QED
    BY <1>8, <2>1, <2>2 DEF CompactContext
<1>9. CASE EditContext \/ EditTools
  BY <1>9, RunStill, EditKeepsRun DEF Still, EditContext, EditTools
<1>10. CASE ForceCloseSession
  BY <1>10, RunsClosed
<1>11. QED
  BY <1>1, <1>2, <1>3, <1>4, <1>5, <1>6, <1>7, <1>8, <1>9, <1>10 DEF Command

LEMMA RunForcedEnd ==
  ASSUME TypeOK, RunInv, ForcedEnd
  PROVE  RunsKept
<1>1. CASE ForceCancelRun
  BY <1>1, RunFinish DEF ForceCancelRun, Cancelling, RunInv, CancelAsked
<1>2. CASE FailRun
  <2>1. PICK kept \in Nat : /\ kept = IF Cancelling THEN run.written ELSE run.steered
                           /\ FinishRun("Failed", kept)
    BY <1>2 DEF FailRun, TypeOK, Runs
  <2>2. kept < run.steered => run.id \in ghost.asked
    BY <2>1 DEF RunInv, CancelAsked, TypeOK, Runs
  <2>3. QED
    BY <1>2, <2>1, <2>2, RunFinish DEF FailRun
<1>3. QED
  BY <1>1, <1>2 DEF ForcedEnd, FailStoredStep, FailRefusedPark

LEMMA RunStep ==
  ASSUME TypeOK, BoundaryInv, RunInv, [Next]_vars
  PROVE  RunsKept
<1>1. CASE Next
  BY <1>1, RunPlannerStep, RunResult, RunCommand, RunForcedEnd DEF Next
<1>2. CASE UNCHANGED vars
  BY <1>2, RunStill DEF Still, vars
<1>3. QED
  BY <1>1, <1>2

LEMMA RunInvariant == Spec => []RunInv
<1>1. TypeOK /\ BoundaryInv /\ RunInv /\ [Next]_vars => RunInv'
  BY RunStep DEF RunsKept
<1>2. QED
  BY <1>1, RunInit, TypeCorrect, BoundaryInvariant, PTL DEF Spec

\* An ended run keeps its end, whatever result, watchdog, cancel or close
\* comes after it.
THEOREM FatesAreFinal == Spec => FatesFinal
<1>1. TypeOK /\ BoundaryInv /\ RunInv /\ [Next]_vars => [\A r \in Ended : fate'[r] = fate[r]]_vars
  BY RunStep DEF RunsKept, FatesStay, Ended
<1>2. QED
  BY <1>1, TypeCorrect, BoundaryInvariant, RunInvariant, PTL DEF Spec, FatesFinal

\* No run is reported cancelled that nobody asked to stop: failures, refused
\* steps and generations a provider cancelled never pass for one.
THEOREM CancelsAreAskedFor == Spec => []CancelledOnRequest
<1>1. RunInv => CancelledOnRequest
  BY DEF RunInv
<1>2. QED
  BY <1>1, RunInvariant, PTL

\* Whichever way a run ends that was not told to stop, the steering it had
\* accepted is in context.
THEOREM SteeringIsKept == Spec => []SteeringKept
<1>1. RunInv => SteeringKept
  BY DEF RunInv
<1>2. QED
  BY <1>1, RunInvariant, PTL

\* A run that completed had seen all the steering it accepted in a request.
THEOREM SteeringIsAnswered == Spec => []CompletedRunSawSteering
<1>1. RunInv => CompletedRunSawSteering
  BY DEF RunInv, UnseenEnded, CompletedRunSawSteering
<1>2. QED
  BY <1>1, RunInvariant, PTL

\* Every accepted run is in exactly one place: queued once, active, or ended.
THEOREM RunsAreAccountedFor == Spec => []RunsAccountedFor
<1>1. TypeOK /\ RunInv => RunsAccountedFor
  <2> SUFFICES ASSUME TypeOK, RunInv PROVE RunsAccountedFor
    OBVIOUS
  <2>1. queue \in [1..Len(queue) -> Queued] /\ Len(queue) \in Nat
    BY DEF TypeOK, Queued
  <2>2. queue \in Bijection(1..Len(queue), Queued)
    BY <2>1 DEF Bijection, Injection, Surjection, IsInjective, RunInv, QueueDistinct, Queued
  <2>3. Cardinality(Queued) = Len(queue)
    BY <2>1, <2>2, FS_CountingElements DEF ExistsBijection
  <2>4. /\ Queued \subseteq RunIds /\ Ended \subseteq RunIds /\ run.id \in {0} \cup RunIds
        /\ lastRun \in 0..MaxRuns
    <3>1. Queued \subseteq RunIds
      BY DEF TypeOK, Queued
    <3>2. run.id \in {0} \cup RunIds /\ lastRun \in 0..MaxRuns
      BY DEF TypeOK, Runs, RunIds
    <3>3. QED
      BY <3>1, <3>2 DEF Ended
  <2>5. \A r \in RunIds : r \in Queued <=> InQueue(r)
    BY DEF Queued, InQueue
  <2>6. 1..lastRun = {r \in RunIds : r <= lastRun} /\ 0 \notin RunIds
    BY <2>4, BoundsAssumption DEF RunIds, BoundsAssumption
  <2>7. Queued \cup ({run.id} \ {0}) \cup Ended = 1..lastRun
    BY <2>4, <2>5, <2>6 DEF RunInv, RunsPlaced, Ended
  <2>8. Queued \cap Ended = {} /\ run.id \notin Queued \cup Ended
    BY <2>4, <2>5, <2>6 DEF RunInv, RunsPlaced, Ended
  <2>9. QED
    BY <2>3, <2>7, <2>8 DEF RunsAccountedFor
<1>2. QED
  BY <1>1, TypeCorrect, RunInvariant, PTL
-----------------------------------------------------------------------------
(* Waits.  A parked batch waits for promises that were not pruned, and a   *)
(* run parked without one waits for a decision.  A gated call's decision   *)
(* is only ever open while its run is parked for it.                       *)

WaitInv ==
  /\ Active => run.status # "None"
  /\ BatchParked => /\ Active /\ BatchActive /\ run.status \in {"Parked", "Cancelling"}
                    /\ run.park.waits # {}
                    /\ \A p \in run.park.waits : promise[p].st \in {"Pending", "Settled"}
  /\ Parked /\ ~BatchParked => PendingApprovals # {}
  /\ \A c \in GatedCalls : run.approval[c] = "Pending" => Parked /\ ~BatchParked

\* A batch that resumes in this step may: its wait is over.
ResumesHonestly ==
  BatchParked /\ run'.id = run.id /\ run'.park.kind = "none" =>
    IF Cancelling THEN claim.wake = "Cancelled" ELSE WaitSatisfied \/ run.park.deadline

WaitsKept == WaitInv' /\ ResumesHonestly

\* Promises that are pending or settled are so after the step.
WaitsStand ==
  \A p \in Promises : promise[p].st \in {"Pending", "Settled"} =>
                        promise'[p].st \in {"Pending", "Settled"}

LEMMA WaitInit == Init => WaitInv
BY DEF Init, WaitInv, NoRun, NewRun, NoPark, Active, Parked, BatchParked, Approvals

\* A step that leaves alone what the run waits for.
LEMMA WaitQuiet ==
  ASSUME TypeOK, WaitInv, WaitsStand, run'.id = run.id, run'.status = run.status,
         run'.park = run.park, run'.batch = run.batch, run'.approval = run.approval
  PROVE  WaitsKept
<1>1. run.park.waits \subseteq Promises
  BY DEF TypeOK, Runs, Parks
<1>2. WaitInv'
  BY <1>1 DEF WaitInv, WaitsStand, Active, BatchParked, BatchActive, Parked, PendingApprovals
<1>3. ResumesHonestly
  BY DEF ResumesHonestly, BatchParked
<1>4. QED
  BY <1>2, <1>3 DEF WaitsKept

\* A step after which the run waits for nothing, and no batch of it did.
LEMMA WaitNone ==
  ASSUME ~BatchParked, run'.status \in {"Running", "Cancelling"}, run'.park.kind = "none",
         \A c \in GatedCalls : run'.approval[c] # "Pending"
  PROVE  WaitsKept
BY DEF WaitsKept, WaitInv, ResumesHonestly, Active, BatchParked, Parked

\* A run that is under way waits for nothing.
LEMMA WaitNotWaiting ==
  ASSUME TypeOK, WaitInv, Running
  PROVE  /\ ~BatchParked /\ run.park.kind = "none"
         /\ \A c \in GatedCalls : run.approval[c] # "Pending"
BY DEF WaitInv, Running, Parked, BatchParked

LEMMA WaitEnds ==
  ASSUME WaitInv, run' = NoRun
  PROVE  WaitsKept
<1>1. run'.id = 0 /\ run'.park.kind = "none" /\ \A c \in GatedCalls : run'.approval[c] = "none"
  BY DEF NoRun, NewRun, NoPark, Approvals
<1>2. QED
  BY <1>1 DEF WaitsKept, WaitInv, ResumesHonestly, Active, BatchParked, Parked

LEMMA WaitPlannerStep ==
  ASSUME TypeOK, WaitInv, PlannerStep
  PROVE  WaitsKept
<1>1. CASE StartRun
  <2>1. run' = NewRun(Head(queue), "Running") /\ ~Active
    BY <1>1 DEF StartRun, PlansRunStart
  <2>2. /\ run'.status = "Running" /\ run'.park.kind = "none"
        /\ \A c \in GatedCalls : run'.approval[c] # "Pending"
    BY <2>1 DEF NewRun, NoPark, Approvals
  <2>3. QED
    BY <2>1, <2>2, WaitNone DEF WaitInv
<1>2. CASE EndRun \/ FailAtEntryGuard \/ EndCancelledRun
  BY <1>2, WaitEnds DEF EndRun, FailAtEntryGuard, EndCancelledRun, FinishRun
<1>3. CASE ParkOnApprovals
  <2>1. Running /\ PendingApprovals # {} /\ run' = [run EXCEPT !.status = "Parked"]
    BY <1>3 DEF ParkOnApprovals, PlansApprovalPark
  <2>2. /\ run'.status = "Parked" /\ run'.park = run.park /\ run'.approval = run.approval
        /\ run'.id = run.id
    BY <2>1 DEF TypeOK, Runs
  <2>3. ~BatchParked /\ \A c \in GatedCalls : run.approval[c] # "Pending"
    BY <2>1, WaitNotWaiting
  <2>4. QED
    BY <2>1, <2>2, <2>3 DEF WaitsKept, WaitInv, ResumesHonestly, BatchParked, Parked,
       PendingApprovals
<1>4. CASE StartBatch \/ StartCalls \/ CancelCalls
  <2>1. /\ Active /\ run.status \in {"Running", "Cancelling"} /\ ~BatchParked
        /\ run'.status = run.status /\ run'.park = run.park /\ run'.approval = run.approval
    <3>1. CASE StartBatch
      BY <3>1 DEF StartBatch, PlansBatchStart, HasUnstartedToolCallTurn, WaitInv, BatchActive,
         TypeOK, Runs
    <3>2. CASE StartCalls \/ CancelCalls
      BY <3>2 DEF StartCalls, CancelCalls, PlansInvocations, PlansCallCancellations,
         BatchUnderWay, Running, Cancelling, TypeOK, Runs
    <3>3. QED
      BY <1>4, <3>1, <3>2
  <2>2. \A c \in GatedCalls : run.approval[c] # "Pending"
    BY <2>1 DEF WaitInv, Parked
  <2>3. QED
    BY <2>1, <2>2, WaitNone DEF BatchParked
<1>5. CASE CompleteBatch
  <2>1. /\ Active /\ run.status \in {"Running", "Cancelling"} /\ ~BatchParked
        /\ run'.status = run.status /\ run'.park = run.park
        /\ run'.approval = [a \in Approvals |-> IF run.approval[a] = "Decided" THEN "none"
                                                ELSE run.approval[a]]
    BY <1>5 DEF CompleteBatch, PlansBatchCompletion, BatchUnderWay, TypeOK, Runs
  <2>2. \A c \in GatedCalls : run.approval[c] # "Pending" /\ c \in Approvals
    BY <2>1 DEF WaitInv, Parked, Approvals
  <2>3. \A c \in GatedCalls : run'.approval[c] # "Pending"
    BY <2>1, <2>2
  <2>4. QED
    BY <2>1, <2>3, WaitNone DEF BatchParked
<1>6. CASE AbandonCompaction
  BY <1>6, WaitQuiet DEF AbandonCompaction, WaitsStand
<1>7. CASE StartQueuedCompaction \/ RecoverFromOverflow \/ CompactAtWatermark
  <2>1. /\ UNCHANGED promise
        /\ \E trigger : CompactionRequested(trigger, "Pending")
    BY <1>7 DEF StartQueuedCompaction, RecoverFromOverflow, CompactAtWatermark
  <2>2. /\ run'.id = run.id /\ run'.status = run.status /\ run'.park = run.park
        /\ run'.batch = run.batch /\ run'.approval = run.approval
    BY <2>1 DEF CompactionRequested, TypeOK, Runs
  <2>3. QED
    BY <2>1, <2>2, WaitQuiet DEF WaitsStand
<1>8. CASE WriteRunInput \/ PlanTurn \/ RequestGeneration \/ CancelTurn
  <2>1. /\ run'.id = run.id /\ run'.status = run.status /\ run'.park = run.park
        /\ run'.batch = run.batch /\ run'.approval = run.approval
    <3>1. CASE WriteRunInput \/ RequestGeneration \/ CancelTurn
      BY <3>1 DEF WriteRunInput, RequestGeneration, CancelTurn, TypeOK, Runs
    <3>2. CASE PlanTurn
      BY <3>2 DEF PlanTurn, TypeOK, Runs
    <3>3. QED
      BY <1>8, <3>1, <3>2
  <2>2. WaitsStand
    BY <1>8 DEF WaitsStand, WriteRunInput, PlanTurn, RequestGeneration, CancelTurn
  <2>3. QED
    BY <2>1, <2>2, WaitQuiet
<1>9. CASE WriteSteering
  <2>1. /\ run'.id = run.id /\ run'.status = run.status /\ run'.park = run.park
        /\ run'.batch = run.batch /\ run'.approval = run.approval
    BY <1>9 DEF WriteSteering, ContextMovedUnder, TypeOK, Runs
  <2>2. QED
    BY <1>9, <2>1, WaitQuiet DEF WaitsStand, WriteSteering
<1>10. CASE StartTurn
  <2>1. Running /\ run'.status = run.status /\ run'.park = run.park /\ run'.approval = run.approval
    BY <1>10 DEF StartTurn, PlansTurnStart, TypeOK, Runs
  <2>2. QED
    BY <2>1, WaitNotWaiting, WaitNone DEF Running
<1>11. QED
  BY <1>1, <1>2, <1>3, <1>4, <1>5, <1>6, <1>7, <1>8, <1>9, <1>10 DEF PlannerStep

LEMMA WaitGenerationResult ==
  ASSUME TypeOK, WaitInv, GenerationResult
  PROVE  WaitsKept
<1>1. Running
  BY DEF GenerationResult, AnswerFinally, CallTools, AskApprovals, FailGeneration, Overflow,
     GenerationWanted
<1>2. PICK o \in TurnOutcomes, calls \in SUBSET Calls, hosted \in SUBSET HostedApprovals :
        \/ run' = TurnDone(o, calls, hosted)
        \/ run' = [TurnDone(o, calls, hosted) EXCEPT !.attempts = 0]
  BY GenerationEffect
<1>3. /\ run'.status = run.status /\ run'.park = run.park
      /\ run'.approval = [a \in Approvals |-> IF a \in hosted THEN "Pending"
                                              ELSE IF run.approval[a] = "Decided" THEN "none"
                                              ELSE run.approval[a]]
  BY <1>2 DEF TurnDone, TypeOK, Runs
<1>4. \A c \in GatedCalls : c \in Approvals /\ c \notin hosted
  BY CallsAssumption DEF CallsAssumption, Approvals, Calls
<1>5. \A c \in GatedCalls : run'.approval[c] # "Pending"
  BY <1>1, <1>3, <1>4, WaitNotWaiting
<1>6. QED
  BY <1>1, <1>3, <1>5, WaitNotWaiting, WaitNone DEF Running

LEMMA WaitToolResult ==
  ASSUME TypeOK, WaitInv, ToolResult
  PROVE  WaitsKept
<1>1. Running /\ BatchActive /\ Active
  BY DEF ToolResult, FinishCall, CallMintsPromise, CallCancelsPromise, CallDetachesPromise,
     FinishUnit, ParkOnAwait, ParkOnJoinedCalls, ParkOnGatedCalls, MayExecute, UnitDispatch,
     Dispatching, BatchUnderWay
<1>2. ~BatchParked /\ run.park.kind = "none" /\ run.status = "Running"
      /\ \A c \in GatedCalls : run.approval[c] # "Pending"
  BY <1>1, WaitNotWaiting DEF Running
<1>3. ASSUME NEW c \in Calls, run' = CallDone(c) PROVE WaitsKept
  BY <1>2, <1>3, WaitNone DEF CallDone, TypeOK, Runs
<1>4. CASE FinishUnit
  BY <1>2, <1>4, WaitNone DEF FinishUnit, TypeOK, Runs
<1>5. CASE ParkOnAwait
  <2>1. PICK a \in Calls, waits \in (SUBSET {p \in Promises : Awaitable(p)}) \ {{}},
             mode \in {"All", "Any"}, deadline \in BOOLEAN :
          run' = [run EXCEPT
                    !.status = "Parked",
                    !.park = [kind |-> "await", waits |-> waits, mode |-> mode,
                              deadline |-> deadline],
                    !.call = [c \in Calls |-> IF c # a /\ run.call[c] = "Pending"
                                              THEN "Done" ELSE run.call[c]]]
    BY <1>5 DEF ParkOnAwait
  <2>2. /\ run'.status = "Parked" /\ run'.park.kind = "await" /\ run'.park.waits = waits
        /\ run'.id = run.id /\ run'.batch = run.batch /\ run'.approval = run.approval
    BY <2>1 DEF TypeOK, Runs
  <2>3. waits # {} /\ \A p \in waits : promise'[p].st \in {"Pending", "Settled"}
    <3>1. waits # {}
      BY Zenon
    <3>2. waits \subseteq {p \in Promises : Awaitable(p)}
      BY Zenon
    <3>3. QED
      BY <1>5, <3>1, <3>2 DEF ParkOnAwait, Awaitable
  <2>4. QED
    BY <1>1, <1>2, <2>2, <2>3 DEF WaitsKept, WaitInv, ResumesHonestly, BatchParked, BatchActive,
       Active, Parked
<1>6. CASE ParkOnJoinedCalls
  <2>1. PICK joined \in (SUBSET PendingOf(JoinedCalls)) \ {{}} :
          /\ lastPromise + Cardinality(joined) <= MaxPromises
          /\ run' = [run EXCEPT
                       !.status = "Parked",
                       !.park = [kind |-> "joined",
                                 waits |-> Fresh..(lastPromise + Cardinality(joined)),
                                 mode |-> "All", deadline |-> FALSE],
                       !.call = [c \in Calls |-> IF c \notin joined /\ run.call[c] = "Pending"
                                                 THEN "Done" ELSE run.call[c]]]
          /\ promise' = [p \in Promises |->
                           IF p \in Fresh..(lastPromise + Cardinality(joined))
                           THEN [st |-> "Pending", scope |-> run.id, owner |-> "Runtime"]
                           ELSE promise[p]]
    BY <1>6 DEF ParkOnJoinedCalls
  <2>2. PICK minted : minted = Fresh..(lastPromise + Cardinality(joined))
    OBVIOUS
  <2>3. minted # {} /\ minted \subseteq Promises
    <3>1. IsFiniteSet(joined) /\ joined # {}
      <4>1. joined # {}
        BY Zenon
      <4>2. joined \subseteq Calls
        BY DEF PendingOf, CallsIn
      <4>3. QED
        BY <4>1, <4>2, FS_Subset, CallsAssumption DEF CallsAssumption
    <3>2. Cardinality(joined) \in Nat /\ Cardinality(joined) # 0
      BY <3>1, FS_CardinalityType, FS_EmptySet
    <3>3. lastPromise \in Nat /\ MaxPromises \in Nat
      BY BoundsAssumption DEF BoundsAssumption, TypeOK
    <3>4. lastPromise + 1 \in minted
      BY <2>2, <3>2, <3>3 DEF Fresh
    <3>5. QED
      BY <2>1, <2>2, <3>2, <3>3, <3>4 DEF Fresh, Promises
  <2>4. /\ run'.status = "Parked" /\ run'.park.kind = "joined" /\ run'.park.waits = minted
        /\ run'.id = run.id /\ run'.batch = run.batch /\ run'.approval = run.approval
    BY <2>1, <2>2 DEF TypeOK, Runs
  <2>5. \A p \in minted : promise'[p].st = "Pending"
    BY <2>1, <2>2, <2>3
  <2>6. QED
    BY <1>1, <1>2, <2>3, <2>4, <2>5 DEF WaitsKept, WaitInv, ResumesHonestly, BatchParked,
       BatchActive, Active, Parked
<1>7. CASE ParkOnGatedCalls
  <2>1. PICK gated \in (SUBSET GatedNow) \ {{}} :
          run' = [run EXCEPT
                    !.status = "Parked",
                    !.approval = [a \in Approvals |-> IF a \in gated THEN "Pending"
                                                      ELSE run.approval[a]]]
    BY <1>7 DEF ParkOnGatedCalls
  <2>2. gated \subseteq Approvals /\ gated # {}
    <3>1. gated # {}
      BY Zenon
    <3>2. gated \subseteq GatedNow
      BY Zenon
    <3>3. QED
      BY <3>1, <3>2 DEF GatedNow, PendingOf, Approvals
  <2>3. /\ run'.status = "Parked" /\ run'.park = run.park /\ run'.id = run.id
        /\ run'.approval = [a \in Approvals |-> IF a \in gated THEN "Pending"
                                                ELSE run.approval[a]]
    BY <2>1 DEF TypeOK, Runs
  <2>4. PendingApprovals' # {}
    BY <2>2, <2>3 DEF PendingApprovals
  <2>5. QED
    BY <1>1, <1>2, <2>3, <2>4 DEF WaitsKept, WaitInv, ResumesHonestly, BatchParked, Active, Parked
<1>8. QED
  BY <1>3, <1>4, <1>5, <1>6, <1>7 DEF ToolResult, FinishCall, CallMintsPromise,
     CallCancelsPromise, CallDetachesPromise

LEMMA WaitUnparkStep ==
  ASSUME TypeOK, WaitInv, UnparkStep
  PROVE  WaitsKept
<1>1. CASE PrepareUnpark \/ DropClaim
  BY <1>1, WaitQuiet DEF PrepareUnpark, DropClaim, WaitsStand
<1>2. CASE UnparkBatch
  <2>1. /\ Active /\ BatchParked /\ claim.wake \in AwaitWakes
        /\ run' = [run EXCEPT
                     !.park = NoPark,
                     !.status = IF @ = "Parked" THEN "Running" ELSE @,
                     !.call = WithCalls({"Pending"}, "Done")]
    BY <1>2 DEF UnparkBatch, ClaimHolds
  <2>2. /\ run.status \in {"Parked", "Cancelling"}
        /\ \A c \in GatedCalls : run.approval[c] # "Pending"
    BY <2>1 DEF WaitInv
  <2>3. /\ run'.status \in {"Running", "Cancelling"} /\ run'.park.kind = "none"
        /\ run'.approval = run.approval
    BY <2>1, <2>2 DEF TypeOK, Runs, NoPark
  <2>4. ResumesHonestly
    <3>1. CASE Cancelling
      BY <2>1, <3>1 DEF AwaitWakes, Cancelling, ResumesHonestly
    <3>2. CASE ~Cancelling
      BY <2>1, <3>2 DEF AwaitWakes, Cancelling, ResumesHonestly
    <3>3. QED
      BY <3>1, <3>2
  <2>5. WaitInv'
    BY <2>2, <2>3 DEF WaitInv, BatchParked, Parked
  <2>6. QED
    BY <2>4, <2>5 DEF WaitsKept
<1>3. QED
  BY <1>1, <1>2 DEF UnparkStep

LEMMA WaitCompactionResult ==
  ASSUME TypeOK, WaitInv, CompactionResult
  PROVE  WaitsKept
<1>1. CASE RecoveryFails
  BY <1>1, WaitEnds DEF RecoveryFails, FinishRun
<1>2. CASE SendCompaction \/ CompactionFails
  BY <1>2, WaitQuiet DEF SendCompaction, CompactionFails, WaitsStand
<1>3. CASE CompactionSucceeds
  <2>1. /\ run'.id = run.id /\ run'.status = run.status /\ run'.park = run.park
        /\ run'.batch = run.batch /\ run'.approval = run.approval
    BY <1>3 DEF CompactionSucceeds, TypeOK, Runs
  <2>2. QED
    BY <1>3, <2>1, WaitQuiet DEF CompactionSucceeds, WaitsStand
<1>4. QED
  BY <1>1, <1>2, <1>3 DEF CompactionResult

LEMMA WaitCommand ==
  ASSUME TypeOK, WaitInv, Command
  PROVE  WaitsKept
<1>1. CASE OpenSession \/ CloseSession \/ RequestRun \/ CancelQueuedRun
  BY <1>1, WaitQuiet DEF OpenSession, CloseSession, RequestRun, CancelQueuedRun, WaitsStand
<1>2. CASE SteerRun
  <2>1. /\ run'.id = run.id /\ run'.status = run.status /\ run'.park = run.park
        /\ run'.batch = run.batch /\ run'.approval = run.approval
    BY <1>2 DEF SteerRun, TypeOK, Runs
  <2>2. QED
    BY <1>2, <2>1, WaitQuiet DEF SteerRun, WaitsStand
<1>3. CASE CancelActiveRun
  <2>1. /\ run'.id = run.id /\ run'.status = "Cancelling" /\ run'.park = run.park
        /\ run'.batch = run.batch
        /\ run'.approval = [a \in Approvals |-> IF run.approval[a] = "Pending" THEN "Decided"
                                                ELSE run.approval[a]]
    BY <1>3 DEF CancelActiveRun, TypeOK, Runs
  <2>2. \A c \in GatedCalls : run'.approval[c] # "Pending"
    BY <2>1 DEF Approvals
  <2>3. UNCHANGED promise
    BY <1>3 DEF CancelActiveRun
  <2>4. QED
    BY <2>1, <2>2, <2>3 DEF WaitsKept, WaitInv, ResumesHonestly, Active, BatchParked, BatchActive,
       Parked
<1>4. ASSUME NEW a \in Approvals, DecideApproval(a) PROVE WaitsKept
  <2>1. PICK st \in RunStatuses : st = IF DecisionUnparks(a) THEN "Running" ELSE run.status
    BY DEF TypeOK, Runs, RunStatuses
  <2>2. PICK decided \in Runs : decided = [run EXCEPT !.approval[a] = "Decided", !.status = st]
    BY DEF TypeOK, Runs
  <2>3. decided = [run EXCEPT !.approval[a] = "Decided",
                     !.status = IF DecisionUnparks(a) THEN "Running" ELSE @]
    BY <2>1, <2>2
  <2>4. run' = decided \/ run' = ContextMovedUnder(decided)
    BY <1>4, <2>3 DEF DecideApproval
  <2>5. /\ decided.id = run.id /\ decided.status = st /\ decided.park = run.park
        /\ decided.batch = run.batch /\ decided.approval = [run.approval EXCEPT ![a] = "Decided"]
    BY <2>2 DEF TypeOK, Runs
  <2>6. /\ ContextMovedUnder(decided).id = decided.id
        /\ ContextMovedUnder(decided).status = decided.status
        /\ ContextMovedUnder(decided).park = decided.park
        /\ ContextMovedUnder(decided).batch = decided.batch
        /\ ContextMovedUnder(decided).approval = decided.approval
    BY DEF ContextMovedUnder, Runs
  <2>7. /\ run'.id = run.id /\ run'.status = st /\ run'.park = run.park /\ run'.batch = run.batch
        /\ run'.approval = [run.approval EXCEPT ![a] = "Decided"]
    BY <2>4, <2>5, <2>6
  <2>8. /\ PendingApprovals' = PendingApprovals \ {a} /\ a \in PendingApprovals
        /\ Active /\ run.status \in {"Running", "Parked"} /\ UNCHANGED promise
    <3>1. a \in PendingApprovals /\ Active /\ run.status \in {"Running", "Parked"}
          /\ UNCHANGED promise
      BY <1>4 DEF DecideApproval
    <3>2. run.approval \in [Approvals -> {"none", "Pending", "Decided"}]
      BY DEF TypeOK, Runs
    <3>3. QED
      BY <2>7, <3>1, <3>2 DEF PendingApprovals
  <2>9. \A c \in GatedCalls : run'.approval[c] = "Pending" => run.approval[c] = "Pending" /\ c # a
    BY <2>7 DEF TypeOK, Runs, Approvals
  <2>10. CASE DecisionUnparks(a)
    <3>1. ~BatchParked /\ PendingApprovals = {a} /\ st = "Running"
      BY <2>1, <2>10 DEF DecisionUnparks
    <3>2. \A c \in GatedCalls : run'.approval[c] # "Pending"
      BY <2>9, <3>1 DEF PendingApprovals, Approvals
    <3>3. QED
      BY <2>7, <3>1, <3>2, WaitNone DEF BatchParked
  <2>11. CASE ~DecisionUnparks(a)
    <3>1. st = run.status
      BY <2>1, <2>11
    <3>2. Parked /\ ~BatchParked => PendingApprovals # {a}
      BY <2>11 DEF DecisionUnparks, Parked
    <3>3. Parked' /\ ~BatchParked' => PendingApprovals' # {}
      BY <2>7, <2>8, <3>1, <3>2 DEF Parked, BatchParked, Active
    <3>4. WaitInv'
      BY <2>7, <2>8, <2>9, <3>1, <3>3 DEF WaitInv, Parked, BatchParked, BatchActive, Active
    <3>5. QED
      BY <2>7, <3>4 DEF WaitsKept, ResumesHonestly, BatchParked
  <2>12. QED
    BY <2>10, <2>11
<1>5. ASSUME NEW p \in Promises, ResolvePromise(p) PROVE WaitsKept
  <2>1. WaitsStand
    BY <1>5, SettleEffect DEF ResolvePromise, WaitsStand, TypeOK
  <2>2. QED
    BY <1>5, <2>1, WaitQuiet DEF ResolvePromise
<1>6. CASE CompactContext
  <2>1. /\ run'.id = run.id /\ run'.status = run.status /\ run'.park = run.park
        /\ run'.batch = run.batch /\ run'.approval = run.approval
    BY <1>6, CompactionKeepsRun DEF CompactContext
  <2>2. QED
    BY <1>6, <2>1, WaitQuiet DEF CompactContext, WaitsStand
<1>7. CASE EditContext \/ EditTools
  <2>1. /\ run'.id = run.id /\ run'.status = run.status /\ run'.park = run.park
        /\ run'.batch = run.batch /\ run'.approval = run.approval
    BY <1>7, EditKeepsRun
  <2>2. WaitsStand
    BY <1>7 DEF EditContext, EditTools, WaitsStand
  <2>3. QED
    BY <2>1, <2>2, WaitQuiet
<1>8. CASE ForceCloseSession
  BY <1>8, WaitEnds DEF ForceCloseSession
<1>9. QED
  BY <1>1, <1>2, <1>3, <1>4, <1>5, <1>6, <1>7, <1>8 DEF Command

LEMMA WaitStep ==
  ASSUME TypeOK, WaitInv, [Next]_vars
  PROVE  WaitsKept
<1>1. CASE ForcedEnd
  BY <1>1, WaitEnds DEF ForcedEnd, ForceCancelRun, FailStoredStep, FailRefusedPark, FailRun, FinishRun
<1>2. CASE UNCHANGED vars
  BY <1>2, WaitQuiet DEF vars, WaitsStand
<1>3. QED
  BY <1>1, <1>2, WaitPlannerStep, WaitGenerationResult, WaitToolResult, WaitCompactionResult,
     WaitUnparkStep, WaitCommand DEF Next

LEMMA WaitInvariant == Spec => []WaitInv
<1>1. TypeOK /\ WaitInv /\ [Next]_vars => WaitInv'
  BY WaitStep DEF WaitsKept
<1>2. QED
  BY <1>1, WaitInit, TypeCorrect, PTL DEF Spec

\* A batch resumes only on a wait that is over at that moment, and a run being
\* cancelled only with the cancelled outcome, whichever of the cancel, the
\* deadline and the claim prepared earlier comes first.
THEOREM BatchesResumeHonestly == Spec => UnparksHonestly
<1>1. TypeOK /\ WaitInv /\ [Next]_vars => [ResumesHonestly]_vars
  BY WaitStep DEF WaitsKept
<1>2. QED
  BY <1>1, TypeCorrect, WaitInvariant, PTL
  DEF Spec, UnparksHonestly, ResumesHonestly

\* When the planner has nothing to propose, the active run waits for something
\* that can still happen: this is the argument that no order of cancels,
\* decisions, prunings and compactions leaves a session asleep with a run.
THEOREM NeverStallsSilently == Spec => []NoSilentStall
<1>1. TypeOK /\ RequestInv /\ BoundaryInv /\ WaitInv => NoSilentStall
  <2>1. SUFFICES ASSUME TypeOK, RequestInv, BoundaryInv, WaitInv, Open, Active, PlannerIdle
                 PROVE  NoSilentStall
    BY DEF NoSilentStall
  <2>2. /\ ~PlansApprovalPark /\ ~RunPlans /\ ~ToolPlans /\ ~ContextPlans /\ ~TurnPlans
    BY <2>1 DEF PlannerIdle, TurnTurn, ContextTurn, ToolTurn, RunTurn
  <2>3. run.status \in {"Running", "Parked", "Cancelling"}
    BY <2>1 DEF WaitInv, TypeOK, Runs, RunStatuses
  <2>4. CASE BatchParked
    <3>1. /\ run.park.waits # {} /\ run.park.mode \in {"All", "Any"}
          /\ \A p \in run.park.waits : promise[p].st \in {"Pending", "Settled"}
      BY <2>1, <2>4 DEF WaitInv, TypeOK, Runs, Parks
    <3>2. CASE \E p \in run.park.waits : promise[p].st = "Pending"
      BY <2>4, <3>2 DEF NoSilentStall
    <3>3. CASE \A p \in run.park.waits : promise[p].st = "Settled"
      <4>1. WaitSatisfied
        BY <3>1, <3>3 DEF WaitSatisfied
      <4>2. "Terminal" \in AwaitWakes \/ "Cancelled" \in AwaitWakes
        BY <2>1, <2>4, <3>1, <4>1 DEF AwaitWakes
      <4>3. QED
        BY <2>4, <4>2 DEF NoSilentStall
    <3>4. QED
      BY <3>1, <3>2, <3>3
  <2>5. CASE ~BatchParked /\ run.status = "Parked"
    BY <2>1, <2>5 DEF WaitInv, Parked, NoSilentStall
  <2>6. CASE CompactionPending
    <3>1. ~PlansAbandonment /\ (ctx.phase = "Sent" => ~ctx.moved)
      BY <2>1, <2>2, <2>6 DEF ContextPlans, CompactionPlans, BoundaryInv, CompactionStands,
         PlansAbandonment, Active
    <3>2. QED
      BY <2>1, <2>6, <3>1 DEF NoSilentStall, CompactionWanted
  <2>7. CASE ~BatchParked /\ ~CompactionPending /\ run.status = "Cancelling"
    <3>1. ~BatchActive
      BY <2>1, <2>2, <2>7 DEF ToolPlans, PlansCallCancellations, PlansBatchCompletion,
         BatchUnderWay, Cancelling
    <3>2. ~HasUnstartedToolCallTurn
      BY <2>1, <2>2, <2>7 DEF ToolPlans, PlansBatchStart
    <3>3. ~TurnInFlight
      BY <2>1, <2>2, <2>7, <3>1 DEF TurnPlans, PlansTurnCancelled, TurnMayPlan, Cancelling
    <3>4. PlansRunCancelled
      BY <2>1, <2>7, <3>1, <3>2, <3>3 DEF PlansRunCancelled, RunsMayPlan, Drained, Cancelling,
         SafeBoundary, Active
    <3>5. QED
      BY <2>2, <3>4 DEF RunPlans
  <2>8. CASE ~BatchParked /\ ~CompactionPending /\ run.status = "Running"
    <3>1. Running
      BY <2>1, <2>8 DEF Running
    <3>2. CASE BatchActive
      <4>1. Dispatching
        BY <2>1, <2>8, <3>1, <3>2 DEF Dispatching, BatchUnderWay
      <4>2. CallsIn({"Accepted"}) = {}
        BY <2>2, <3>1, <4>1 DEF ToolPlans, PlansInvocations, Dispatching
      <4>3. CallsIn({"Pending"}) # {}
        <5>1. CallsIn({"Accepted", "Pending"}) # {}
          BY <2>2, <2>8, <4>1 DEF ToolPlans, PlansBatchCompletion, Dispatching
        <5>2. QED
          BY <4>2, <5>1 DEF CallsIn
      <4>4. CASE PendingOf(OrdinaryCalls) = {}
        BY <4>1, <4>3, <4>4 DEF NoSilentStall, UnitDispatch
      <4>5. CASE PendingOf(OrdinaryCalls) # {}
        <5>1. PICK c \in PendingOf(OrdinaryCalls) : TRUE
          BY <4>5
        <5>2. c \in Calls
          BY DEF PendingOf, CallsIn
        <5>3. CASE c \in GatedCalls /\ run.approval[c] # "Decided"
          <6>1. run.approval[c] = "none"
            BY <2>1, <3>1, <5>3, WaitNotWaiting DEF TypeOK, Runs, Approvals
          <6>2. c \in GatedNow
            BY <5>3, <6>1 DEF GatedNow, PendingOf
          <6>3. QED
            BY <4>1, <6>2 DEF NoSilentStall
        <5>4. CASE ~(c \in GatedCalls /\ run.approval[c] # "Decided")
          BY <4>1, <5>2, <5>4 DEF NoSilentStall, MayExecute
        <5>5. QED
          BY <5>3, <5>4
      <4>6. QED
        BY <4>4, <4>5
    <3>3. CASE ~BatchActive /\ TurnInFlight
      <4>1. run.turn = "GenerationPending"
        BY <2>1, <2>2, <2>8, <3>1, <3>3 DEF TurnPlans, PlansTurnPlanned, PlansGeneration,
           TurnMayPlan, TurnInFlight, TurnsInFlight
      <4>2. QED
        BY <2>1, <3>1, <4>1 DEF NoSilentStall, GenerationWanted, RequestInv
    <3>4. CASE ~BatchActive /\ ~TurnInFlight
      <4>1. TerminalRunProposal # "none"
        BY <2>1, <2>2, <2>8, <3>1, <3>4 DEF TurnPlans, PlansTurnStart, TurnMayPlan
      <4>2. ~HasUnstartedToolCallTurn
        BY <2>1, <2>2, <2>8 DEF ToolPlans, PlansBatchStart
      <4>3. ~(ctx.phase = "QueuedManual" /\ SafeBoundary)
        BY <2>1, <2>2 DEF ContextPlans, CompactionPlans, PlansQueuedCompaction
      <4>4. PlansRunEnd
        BY <2>1, <2>8, <3>1, <3>4, <4>1, <4>3 DEF PlansRunEnd, RunsMayPlan, Drained
      <4>5. QED
        BY <2>2, <4>4 DEF RunPlans
    <3>5. QED
      BY <3>2, <3>3, <3>4
  <2>9. QED
    BY <2>3, <2>4, <2>5, <2>6, <2>7, <2>8
<1>2. QED
  BY <1>1, TypeCorrect, RequestInvariant, BoundaryInvariant, WaitInvariant, PTL

=============================================================================
