------------------------- MODULE AgentSessionProofs -------------------------
(***************************************************************************)
(* Proofs about AgentSession for every value of its constants.             *)
(***************************************************************************)
EXTENDS AgentSession, FiniteSetTheorems, SequenceTheorems, TLAPS

-----------------------------------------------------------------------------
(* What the operators return.                                              *)

LEMMA NewRunType ==
  ASSUME NEW id \in 0..MaxRuns, NEW st \in RunStatuses
  PROVE  NewRun(id, st) \in Runs
BY DEF NewRun, Runs, RunStatuses, NoPark, Parks

LEMMA NoRunType == NoRun \in Runs
BY NewRunType, BoundsAssumption DEF BoundsAssumption, NoRun, RunStatuses

LEMMA AppendedType ==
  ASSUME NEW c \in Contexts, NEW d \in Appended(c)
  PROVE  d \in Contexts
BY DEF Appended, Contexts

LEMMA FinishedType ==
  ASSUME NEW c \in Contexts
  PROVE  Finished(c) \in Contexts
<1>1. 0 \in 0..MaxRuns
  BY BoundsAssumption DEF BoundsAssumption
<1>2. QED
  BY <1>1 DEF Finished, Contexts

LEMMA SettleType ==
  ASSUME NEW f \in [Promises -> PromiseRecords], NEW ps
  PROVE  Settle(f, ps) \in [Promises -> PromiseRecords]
BY DEF Settle, PromiseRecords

LEMMA PruningsType ==
  ASSUME NEW f \in [Promises -> PromiseRecords], NEW g \in Prunings(f)
  PROVE  g \in [Promises -> PromiseRecords]
BY DEF Prunings, PromiseRecords

\* Ending the active run keeps the types of what it touches.
LEMMA FinishRunType ==
  ASSUME TypeOK, NEW how \in Fates, NEW kept, FinishRun(how, kept), Active
  PROVE  /\ run' \in Runs
         /\ fate' \in [RunIds -> Fates]
         /\ promise' \in [Promises -> PromiseRecords]
         /\ ghost' \in [asked: SUBSET RunIds, lost: SUBSET RunIds, unseen: SUBSET RunIds]
<1>1. run.id \in RunIds
  BY DEF TypeOK, Runs, Active, RunIds
<1>2. run' \in Runs
  BY NoRunType DEF FinishRun
<1>3. fate' \in [RunIds -> Fates]
  BY <1>1 DEF FinishRun, TypeOK
<1>4. promise' \in [Promises -> PromiseRecords]
  BY PruningsType, SettleType DEF FinishRun, TypeOK
<1>5. ghost' \in [asked: SUBSET RunIds, lost: SUBSET RunIds, unseen: SUBSET RunIds]
  BY <1>1 DEF FinishRun, TypeOK
<1>6. QED
  BY <1>2, <1>3, <1>4, <1>5

-----------------------------------------------------------------------------
(* Types.                                                                  *)

LEMMA InitType == Init => TypeOK
BY NoRunType, BoundsAssumption DEF BoundsAssumption, Init, TypeOK, NoRun, NoPromise, PromiseRecords, Contexts,
   PendingPhases, NoClaim, Claims, Fates, RunIds

LEMMA RunStepType ==
  ASSUME TypeOK, StartRun \/ EndRun \/ FailAtEntryGuard \/ EndCancelledRun
  PROVE  TypeOK'
<1>1. CASE StartRun
  <2>1. Head(queue) \in RunIds /\ Tail(queue) \in Seq(RunIds)
    BY <1>1 DEF StartRun, PlansRunStart, TypeOK
  <2>2. run' \in Runs
    BY <1>1, <2>1, NewRunType DEF StartRun, RunIds, RunStatuses
  <2>3. QED
    BY <1>1, <2>1, <2>2 DEF StartRun, TypeOK
<1>2. CASE EndRun
  BY <1>2, FinishRunType DEF EndRun, PlansRunEnd, Drained, TypeOK, TerminalRunProposal, OutcomeOfLatestTurn, TurnLimitFailure, Fates
<1>3. CASE FailAtEntryGuard
  BY <1>3, FinishRunType DEF FailAtEntryGuard, PlansGuardFailure, Drained, TypeOK, Fates
<1>4. CASE EndCancelledRun
  BY <1>4, FinishRunType DEF EndCancelledRun, PlansRunCancelled, Drained, TypeOK, Fates
<1>5. QED
  BY <1>1, <1>2, <1>3, <1>4

LEMMA TurnStepType ==
  ASSUME TypeOK, StartTurn \/ PlanTurn \/ RequestGeneration \/ CancelTurn
  PROVE  TypeOK'
<1>1. CASE StartTurn
  <2>1. run.turnCount + 1 \in Nat
    BY DEF TypeOK, Runs
  <2>2. run' \in Runs
    BY <1>1, <2>1 DEF StartTurn, TypeOK, Runs, TurnsInFlight
  <2>3. QED
    BY <1>1, <2>2 DEF StartTurn, TypeOK
<1>2. CASE PlanTurn
  BY <1>2 DEF PlanTurn, TypeOK, Runs, Contexts, TurnsInFlight
<1>3. CASE RequestGeneration
  BY <1>3 DEF RequestGeneration, TypeOK, Runs, TurnsInFlight
<1>4. CASE CancelTurn
  BY <1>4 DEF CancelTurn, TypeOK, Runs, TurnOutcomes
<1>5. QED
  BY <1>1, <1>2, <1>3, <1>4

LEMMA TurnDoneType ==
  ASSUME TypeOK, NEW o \in TurnOutcomes, NEW calls, NEW hosted
  PROVE  TurnDone(o, calls, hosted) \in Runs
BY DEF TypeOK, TurnDone, Runs

LEMMA GenerationResultType ==
  ASSUME TypeOK, GenerationResult
  PROVE  TypeOK'
<1>1. CASE AnswerFinally
  <2>1. ctx' \in Contexts
    BY <1>1, AppendedType DEF AnswerFinally, TypeOK, Contexts
  <2>2. run' \in Runs
    BY <1>1, TurnDoneType DEF AnswerFinally, Runs, TurnOutcomes
  <2>3. QED
    BY <1>1, <2>1, <2>2 DEF AnswerFinally, TypeOK
<1>2. CASE CallTools
  <2>1. PICK calls \in (SUBSET Calls) \ {{}}, hosted \in SUBSET HostedApprovals :
          /\ run' = [TurnDone("ToolCallsQueued", calls, hosted) EXCEPT !.attempts = 0]
          /\ ctx' \in Appended([ctx EXCEPT !.settled = TRUE, !.owed = calls])
    BY <1>2 DEF CallTools
  <2>2. ctx' \in Contexts
    <3>1. [ctx EXCEPT !.settled = TRUE, !.owed = calls] \in Contexts
      BY DEF TypeOK, Contexts
    <3>2. QED
      BY <2>1, <3>1, AppendedType
  <2>3. run' \in Runs
    BY <2>1, TurnDoneType DEF Runs, TurnOutcomes
  <2>4. QED
    BY <1>2, <2>2, <2>3 DEF CallTools, TypeOK
<1>3. CASE AskApprovals
  <2>1. ctx' \in Contexts
    BY <1>3, AppendedType DEF AskApprovals, TypeOK, Contexts
  <2>2. run' \in Runs
    BY <1>3, TurnDoneType DEF AskApprovals, Runs, TurnOutcomes
  <2>3. QED
    BY <1>3, <2>1, <2>2 DEF AskApprovals, TypeOK
<1>4. CASE FailGeneration
  <2>1. ctx' \in Contexts
    BY <1>4, AppendedType DEF FailGeneration, TypeOK
  <2>2. run' \in Runs
    BY <1>4, TurnDoneType DEF FailGeneration, TurnOutcomes
  <2>3. QED
    BY <1>4, <2>1, <2>2 DEF FailGeneration, TypeOK
<1>5. CASE Overflow
  BY <1>5, TurnDoneType DEF Overflow, TypeOK, TurnOutcomes
<1>6. QED
  BY <1>1, <1>2, <1>3, <1>4, <1>5 DEF GenerationResult

LEMMA BatchStepType ==
  ASSUME TypeOK, StartBatch \/ StartCalls \/ CancelCalls \/ CompleteBatch
  PROVE  TypeOK'
<1>1. CASE StartBatch
  <2>1. PICK unavailable \in SUBSET (PlainCalls \cap CallsIn({"Observed"})) :
          run' = [run EXCEPT !.batch = "active",
                    !.call = [c \in Calls |-> IF c \in unavailable THEN "Done"
                                              ELSE WithCalls({"Observed"}, "Accepted")[c]]]
    BY <1>1 DEF StartBatch
  <2>2. WithCalls({"Observed"}, "Accepted") \in
          [Calls -> {"absent", "Observed", "Accepted", "Pending", "Done"}]
    BY DEF WithCalls, TypeOK, Runs
  <2>3. run' \in Runs
    BY <2>1, <2>2 DEF TypeOK, Runs
  <2>4. QED
    BY <1>1, <2>3 DEF StartBatch, TypeOK
<1>2. CASE StartCalls
  BY <1>2 DEF StartCalls, WithCalls, TypeOK, Runs
<1>3. CASE CancelCalls
  BY <1>3 DEF CancelCalls, WithCalls, TypeOK, Runs
<1>4. CASE CompleteBatch
  <2>1. ctx' \in Contexts
    <3>1. [ctx EXCEPT !.owed = {}, !.settled = TRUE] \in Contexts
      BY DEF TypeOK, Contexts
    <3>2. QED
      BY <1>4, <3>1, AppendedType DEF CompleteBatch
  <2>2. run' \in Runs
    BY <1>4 DEF CompleteBatch, TypeOK, Runs
  <2>3. promise' \in [Promises -> PromiseRecords]
    BY <1>4, PruningsType DEF CompleteBatch, TypeOK
  <2>4. QED
    BY <1>4, <2>1, <2>2, <2>3 DEF CompleteBatch, TypeOK
<1>5. QED
  BY <1>1, <1>2, <1>3, <1>4

LEMMA CallDoneType == ASSUME TypeOK, NEW c \in Calls PROVE CallDone(c) \in Runs
BY DEF CallDone, TypeOK, Runs

LEMMA ToolResultType ==
  ASSUME TypeOK, ToolResult
  PROVE  TypeOK'
<1>1. ASSUME NEW c \in Calls, FinishCall(c) PROVE TypeOK'
  BY <1>1, CallDoneType DEF FinishCall, TypeOK
<1>2. ASSUME NEW c \in Calls, CallMintsPromise(c) PROVE TypeOK'
  <2>1. run.id \in 0..MaxRuns /\ Fresh \in Promises
    BY <1>2, BoundsAssumption DEF BoundsAssumption, CallMintsPromise, Fresh, TypeOK, Runs, Promises
  <2>2. promise' \in [Promises -> PromiseRecords]
    BY <1>2, <2>1 DEF CallMintsPromise, TypeOK, PromiseRecords
  <2>3. lastPromise' \in 0..MaxPromises
    BY <1>2, <2>1, BoundsAssumption DEF BoundsAssumption, CallMintsPromise, Promises
  <2>4. QED
    BY <1>2, <2>2, <2>3, CallDoneType DEF CallMintsPromise, TypeOK
<1>3. ASSUME NEW c \in Calls, NEW p \in Promises, CallCancelsPromise(c, p) PROVE TypeOK'
  BY <1>3, CallDoneType, SettleType DEF CallCancelsPromise, TypeOK
<1>4. ASSUME NEW c \in Calls, NEW p \in Promises, CallDetachesPromise(c, p) PROVE TypeOK'
  <2>1. 0 \in 0..MaxRuns
    BY BoundsAssumption DEF BoundsAssumption
  <2>2. promise' \in [Promises -> PromiseRecords]
    BY <1>4, <2>1 DEF CallDetachesPromise, TypeOK, PromiseRecords
  <2>3. QED
    BY <1>4, <2>2, CallDoneType DEF CallDetachesPromise, TypeOK
<1>5. CASE FinishUnit
  BY <1>5 DEF FinishUnit, WithCalls, TypeOK, Runs
<1>6. CASE ParkOnAwait
  <2>1. PICK a \in Calls, waits \in (SUBSET {p \in Promises : Awaitable(p)}) \ {{}},
             mode \in {"All", "Any"}, deadline \in BOOLEAN :
          run' = [run EXCEPT
                    !.status = "Parked",
                    !.park = [kind |-> "await", waits |-> waits, mode |-> mode,
                              deadline |-> deadline],
                    !.call = [c \in Calls |-> IF c # a /\ run.call[c] = "Pending"
                                              THEN "Done" ELSE run.call[c]]]
    BY <1>6 DEF ParkOnAwait
  <2>2. run' \in Runs
    BY <2>1 DEF TypeOK, Runs, Parks, RunStatuses
  <2>3. QED
    BY <1>6, <2>2 DEF ParkOnAwait, TypeOK
<1>7. CASE ParkOnJoinedCalls
  <2> DEFINE minted(j) == Fresh..(lastPromise + Cardinality(j))
  <2>1. PICK joined \in (SUBSET PendingOf(JoinedCalls)) \ {{}} :
       /\ lastPromise + Cardinality(joined) <= MaxPromises
       /\ run' = [run EXCEPT
                    !.status = "Parked",
                    !.park = [kind |-> "joined", waits |-> minted(joined), mode |-> "All",
                              deadline |-> FALSE],
                    !.call = [c \in Calls |-> IF c \notin joined /\ run.call[c] = "Pending"
                                              THEN "Done" ELSE run.call[c]]]
       /\ promise' = [p \in Promises |->
                        IF p \in minted(joined)
                        THEN [st |-> "Pending", scope |-> run.id, owner |-> "Runtime"]
                        ELSE promise[p]]
       /\ lastPromise' = lastPromise + Cardinality(joined)
    BY <1>7 DEF ParkOnJoinedCalls
  <2>2. Cardinality(joined) \in Nat
    <3>1. joined \subseteq Calls
      BY DEF PendingOf, CallsIn
    <3>2. IsFiniteSet(joined)
      BY <3>1, CallsAssumption, FS_Subset DEF CallsAssumption
    <3>3. QED
      BY <3>2, FS_CardinalityType
  <2>3. lastPromise' \in 0..MaxPromises
    BY <2>1, <2>2, BoundsAssumption DEF BoundsAssumption, TypeOK
  <2>4. minted(joined) \subseteq Promises
    BY <2>1, <2>2, BoundsAssumption DEF BoundsAssumption, TypeOK, Promises, Fresh
  <2>5. run' \in Runs
    <3> HIDE DEF minted
    <3>1. QED
      BY <2>1, <2>4 DEF TypeOK, Runs, Parks, RunStatuses
  <2>6. promise' \in [Promises -> PromiseRecords]
    <3> HIDE DEF minted
    <3>1. QED
      BY <2>1 DEF TypeOK, PromiseRecords, Runs
  <2>7. QED
    BY <1>7, <2>3, <2>5, <2>6 DEF ParkOnJoinedCalls, TypeOK
<1>8. CASE ParkOnGatedCalls
  <2>1. PICK gated \in (SUBSET GatedNow) \ {{}} :
          run' = [run EXCEPT
                    !.status = "Parked",
                    !.approval = [a \in Approvals |-> IF a \in gated THEN "Pending"
                                                      ELSE run.approval[a]]]
    BY <1>8 DEF ParkOnGatedCalls
  <2>2. run' \in Runs
    BY <2>1 DEF TypeOK, Runs, RunStatuses
  <2>3. QED
    BY <1>8, <2>2 DEF ParkOnGatedCalls, TypeOK
<1>9. QED
  BY <1>1, <1>2, <1>3, <1>4, <1>5, <1>6, <1>7, <1>8 DEF ToolResult

LEMMA UnparkStepType ==
  ASSUME TypeOK, UnparkStep
  PROVE  TypeOK'
<1>1. CASE PrepareUnpark
  <2>1. PICK w \in AwaitWakes : claim' = [run |-> run.id, turn |-> run.turnCount, wake |-> w]
    BY <1>1 DEF PrepareUnpark
  <2>2. w \in Wakes
    BY DEF AwaitWakes, Wakes
  <2>3. claim' \in Claims
    BY <2>1, <2>2 DEF TypeOK, Runs, Claims
  <2>4. QED
    BY <1>1, <2>3 DEF PrepareUnpark, TypeOK
<1>2. NoClaim \in Claims
  BY BoundsAssumption DEF BoundsAssumption, NoClaim, Claims
<1>3. CASE UnparkBatch
  <2>1. run' \in Runs
    BY <1>3, ZenonT(30) DEF UnparkBatch, WithCalls, TypeOK, Runs, RunStatuses, NoPark, Parks
  <2>2. promise' \in [Promises -> PromiseRecords]
    BY <1>3, SettleType DEF UnparkBatch, TypeOK
  <2>3. QED
    BY <1>2, <1>3, <2>1, <2>2 DEF UnparkBatch, TypeOK
<1>4. CASE DropClaim
  BY <1>2, <1>4 DEF DropClaim, TypeOK
<1>5. QED
  BY <1>1, <1>3, <1>4 DEF UnparkStep

LEMMA CompactionRequestedType ==
  ASSUME TypeOK, NEW trigger \in {"Manual", "ContextLimit", "HighWatermark"},
         NEW phase \in PendingPhases, CompactionRequested(trigger, phase)
  PROVE  run' \in Runs /\ ctx' \in Contexts
<1>1. ctx' \in Contexts
  BY DEF CompactionRequested, TypeOK, Contexts, Runs
<1>2. run.attempts + 1 \in Nat
  BY DEF TypeOK, Runs
<1>3. run' \in Runs
  <2>1. (run.tried \/ run.turn = "ContextLimit") \in BOOLEAN
    OBVIOUS
  <2>2. (run.guardTried \/ (Active /\ trigger = "HighWatermark" /\ ctx.full)) \in BOOLEAN
    OBVIOUS
  <2>3. QED
    BY <1>2, <2>1, <2>2, ZenonT(30) DEF CompactionRequested, TypeOK, Runs
<1>4. QED
  BY <1>1, <1>3

LEMMA ContextStepType ==
  ASSUME TypeOK,
         \/ AbandonCompaction \/ StartQueuedCompaction
         \/ RecoverFromOverflow \/ CompactAtWatermark
         \/ WriteRunInput \/ WriteSteering
  PROVE  TypeOK'
<1>1. CASE AbandonCompaction
  BY <1>1, FinishedType DEF AbandonCompaction, TypeOK
<1>2. CASE StartQueuedCompaction
  BY <1>2, CompactionRequestedType DEF StartQueuedCompaction, TypeOK, PendingPhases
<1>3. CASE RecoverFromOverflow
  BY <1>3, CompactionRequestedType DEF RecoverFromOverflow, TypeOK, PendingPhases
<1>4. CASE CompactAtWatermark
  BY <1>4, CompactionRequestedType DEF CompactAtWatermark, TypeOK, PendingPhases
<1>5. CASE WriteRunInput
  <2>1. run' \in Runs
    BY <1>5 DEF WriteRunInput, TypeOK, Runs
  <2>2. QED
    BY <1>5, <2>1, AppendedType DEF WriteRunInput, TypeOK
<1>6. CASE WriteSteering
  <2>1. run' \in Runs
    BY <1>6 DEF WriteSteering, ContextMovedUnder, TypeOK, Runs
  <2>2. QED
    BY <1>6, <2>1, AppendedType DEF WriteSteering, TypeOK
<1>7. QED
  BY <1>1, <1>2, <1>3, <1>4, <1>5, <1>6

LEMMA CompactionResultType ==
  ASSUME TypeOK, CompactionResult
  PROVE  TypeOK'
<1>1. CASE SendCompaction
  BY <1>1 DEF SendCompaction, TypeOK, Contexts, PendingPhases
<1>2. CASE CompactionSucceeds
  <2>1. PICK full \in {ctx.full, FALSE} :
          /\ ctx' = [Finished(ctx) EXCEPT !.settled = TRUE, !.full = full]
          /\ run' = IF full THEN run ELSE [run EXCEPT !.guardTried = FALSE]
    BY <1>2 DEF CompactionSucceeds
  <2>2. full \in BOOLEAN
    BY DEF TypeOK, Contexts
  <2>3. ctx' \in Contexts
    BY <2>1, <2>2, FinishedType DEF TypeOK, Contexts
  <2>4. run' \in Runs
    BY <2>1 DEF TypeOK, Runs
  <2>5. QED
    BY <1>2, <2>3, <2>4 DEF CompactionSucceeds, TypeOK
<1>3. CASE RecoveryFails
  <2>1. ctx' \in Contexts
    BY <1>3, FinishedType, AppendedType DEF RecoveryFails, TypeOK
  <2>2. QED
    BY <1>3, <2>1, FinishRunType DEF RecoveryFails, TypeOK, Fates
<1>4. CASE CompactionFails
  BY <1>4, FinishedType DEF CompactionFails, TypeOK
<1>5. QED
  BY <1>1, <1>2, <1>3, <1>4 DEF CompactionResult

LEMMA PlannerStepType ==
  ASSUME TypeOK, PlannerStep
  PROVE  TypeOK'
<1>1. CASE ParkOnApprovals
  BY <1>1 DEF ParkOnApprovals, TypeOK, Runs, RunStatuses, Contexts, PendingPhases
<1>2. QED
  BY <1>1, RunStepType, TurnStepType, BatchStepType, ContextStepType DEF PlannerStep

LEMMA WithoutType ==
  ASSUME NEW S, NEW q \in Seq(S), NEW i \in 1..Len(q)
  PROVE  Without(q, i) \in Seq(S)
<1>1. SubSeq(q, 1, i - 1) \in Seq(S)
  BY SubSeqProperties
<1>2. SubSeq(q, i + 1, Len(q)) \in Seq(S)
  BY SubSeqProperties
<1>3. QED
  BY <1>1, <1>2, ConcatProperties DEF Without

LEMMA CommandType ==
  ASSUME TypeOK, Command
  PROVE  TypeOK'
<1>1. CASE OpenSession
  BY <1>1 DEF OpenSession, TypeOK
<1>2. CASE RequestRun
  <2>1. lastRun + 1 \in RunIds /\ lastRun + 1 \in 0..MaxRuns
    BY <1>2, BoundsAssumption DEF BoundsAssumption, RequestRun, TypeOK, RunIds
  <2>2. queue' \in Seq(RunIds)
    BY <1>2, <2>1, AppendProperties DEF RequestRun, TypeOK
  <2>3. QED
    BY <1>2, <2>1, <2>2 DEF RequestRun, TypeOK
<1>3. CASE SteerRun
  <2>1. run.steered + 1 \in Nat
    BY DEF TypeOK, Runs
  <2>2. run' \in Runs
    BY <1>3, <2>1 DEF SteerRun, TypeOK, Runs
  <2>3. QED
    BY <1>3, <2>2 DEF SteerRun, TypeOK
<1>4. CASE CancelActiveRun
  <2>1. run' \in Runs
    BY <1>4 DEF CancelActiveRun, TypeOK, Runs, RunStatuses
  <2>2. run.id \in RunIds
    BY <1>4 DEF CancelActiveRun, Active, TypeOK, Runs, RunIds
  <2>3. ghost' \in [asked: SUBSET RunIds, lost: SUBSET RunIds, unseen: SUBSET RunIds]
    BY <1>4, <2>2 DEF CancelActiveRun, TypeOK
  <2>4. QED
    BY <1>4, <2>1, <2>3 DEF CancelActiveRun, TypeOK
<1>5. CASE CancelQueuedRun
  <2>1. PICK i \in 1..Len(queue) :
       /\ queue' = Without(queue, i)
       /\ fate' = [fate EXCEPT ![queue[i]] = "Cancelled"]
       /\ ghost' = [ghost EXCEPT !.asked = @ \cup {queue[i]}]
    BY <1>5 DEF CancelQueuedRun
  <2>2. queue[i] \in RunIds
    BY ElementOfSeq DEF TypeOK
  <2>3. queue' \in Seq(RunIds)
    BY <2>1, WithoutType DEF TypeOK
  <2>4. fate' \in [RunIds -> Fates]
    BY <2>1, <2>2 DEF TypeOK, Fates
  <2>5. ghost' \in [asked: SUBSET RunIds, lost: SUBSET RunIds, unseen: SUBSET RunIds]
    BY <2>1, <2>2 DEF TypeOK
  <2>6. QED
    BY <1>5, <2>3, <2>4, <2>5 DEF CancelQueuedRun, TypeOK
<1>6. ASSUME NEW a \in Approvals, DecideApproval(a) PROVE TypeOK'
  <2> DEFINE decided == [run EXCEPT !.approval[a] = "Decided",
                           !.status = IF DecisionUnparks(a) THEN "Running" ELSE @]
  <2>1. decided \in Runs
    BY DEF TypeOK, Runs, RunStatuses
  <2>2. ContextMovedUnder(decided) \in Runs
    <3> HIDE DEF decided
    <3>1. QED
      BY <2>1 DEF ContextMovedUnder, Runs
  <2>3. run' \in {decided, ContextMovedUnder(decided)} /\ ctx' \in Appended(ctx) \cup {ctx}
    BY <1>6 DEF DecideApproval
  <2>4. QED
    <3> HIDE DEF decided
    <3>1. QED
      BY <1>6, <2>1, <2>2, <2>3, AppendedType DEF DecideApproval, TypeOK
<1>7. ASSUME NEW p \in Promises, ResolvePromise(p) PROVE TypeOK'
  BY <1>7, SettleType DEF ResolvePromise, TypeOK
<1>8. CASE CompactContext
  <2>1. run' \in Runs /\ ctx' \in Contexts
    <3>1. CASE SafeBoundary
      BY <1>8, <3>1, CompactionRequestedType DEF CompactContext, PendingPhases
    <3>2. CASE ~SafeBoundary
      BY <1>8, <3>2 DEF CompactContext, TypeOK, Contexts
    <3>3. QED
      BY <3>1, <3>2
  <2>2. QED
    BY <1>8, <2>1 DEF CompactContext, TypeOK
<1>9. CASE EditContext
  <2>1. run' \in Runs
    BY <1>9 DEF EditContext, ContextMovedUnder, TypeOK, Runs
  <2>2. PICK settled \in BOOLEAN, full \in {ctx.full, FALSE} :
       ctx' \in {[c EXCEPT !.full = full] :
                   c \in Appended([ctx EXCEPT !.settled = settled, !.moved = CompactionPending])}
    BY <1>9 DEF EditContext
  <2>3. full \in BOOLEAN /\ CompactionPending \in BOOLEAN
    <3>1. full \in BOOLEAN
      BY DEF TypeOK, Contexts
    <3>2. CompactionPending \in BOOLEAN
      BY DEF CompactionPending
    <3>3. QED
      BY <3>1, <3>2
  <2>4. [ctx EXCEPT !.settled = settled, !.moved = CompactionPending] \in Contexts
    BY <2>3 DEF TypeOK, Contexts
  <2>5. ctx' \in Contexts
    <3>1. PICK c \in Appended([ctx EXCEPT !.settled = settled, !.moved = CompactionPending]) :
            ctx' = [c EXCEPT !.full = full]
      BY <2>2
    <3>2. c \in Contexts
      BY <2>4, AppendedType
    <3>3. QED
      BY <2>3, <3>1, <3>2 DEF Contexts
  <2>6. QED
    BY <1>9, <2>1, <2>5 DEF EditContext, TypeOK
<1>10. CASE EditTools
  <2>1. run' \in Runs
    BY <1>10 DEF EditTools, TypeOK, Runs
  <2>2. QED
    BY <1>10, <2>1 DEF EditTools, TypeOK
<1>11. CASE CloseSession
  BY <1>11 DEF CloseSession, TypeOK
<1>12. CASE ForceCloseSession
  <2>1. queue' \in Seq(RunIds)
    BY <1>12 DEF ForceCloseSession
  <2>2. fate' \in [RunIds -> Fates]
    BY <1>12 DEF ForceCloseSession, TypeOK, Fates
  <2>3. promise' \in [Promises -> PromiseRecords]
    BY <1>12, PruningsType, SettleType DEF ForceCloseSession, TypeOK
  <2>4. ctx' \in Contexts
    BY <1>12, FinishedType DEF ForceCloseSession, TypeOK
  <2>5. ghost' \in [asked: SUBSET RunIds, lost: SUBSET RunIds, unseen: SUBSET RunIds]
    <3>1. \A i \in 1..Len(queue) : queue[i] \in RunIds
      BY ElementOfSeq DEF TypeOK
    <3>2. {run.id} \ {0} \subseteq RunIds
      BY DEF TypeOK, Runs, RunIds
    <3>3. QED
      BY <1>12, <3>1, <3>2 DEF ForceCloseSession, TypeOK
  <2>6. QED
    BY <1>12, <2>1, <2>2, <2>3, <2>4, <2>5, NoRunType DEF ForceCloseSession, TypeOK
<1>13. QED
  BY <1>1, <1>2, <1>3, <1>4, <1>5, <1>6, <1>7, <1>8, <1>9, <1>10, <1>11, <1>12 DEF Command

LEMMA ForcedEndType ==
  ASSUME TypeOK, ForcedEnd
  PROVE  TypeOK'
<1>1. \A c \in Answered(ctx) : c \in Contexts
  <2>1. [ctx EXCEPT !.owed = {}] \in Contexts
    BY DEF TypeOK, Contexts
  <2>2. QED
    BY <2>1, AppendedType DEF Answered, TypeOK
<1>2. CASE ForceCancelRun
  BY <1>1, <1>2, FinishRunType DEF ForceCancelRun, Cancelling, TypeOK, Fates
<1>3. CASE FailRun
  <2>1. ctx' \in Contexts
    BY <1>1, <1>3, AppendedType DEF FailRun
  <2>2. QED
    BY <1>3, <2>1, FinishRunType DEF FailRun, TypeOK, Fates
<1>4. QED
  BY <1>2, <1>3 DEF ForcedEnd, FailStoredStep, FailRefusedPark

\* Every reachable state of a session has the shape TypeOK gives it, for any
\* sets of calls and approvals and any bounds.
THEOREM TypeCorrect == Spec => []TypeOK
<1>1. Init => TypeOK
  BY InitType
<1>2. TypeOK /\ [Next]_vars => TypeOK'
  <2> SUFFICES ASSUME TypeOK, [Next]_vars PROVE TypeOK'
    OBVIOUS
  <2>1. CASE Next
    BY <2>1, PlannerStepType, GenerationResultType, ToolResultType, CompactionResultType,
       UnparkStepType, CommandType, ForcedEndType DEF Next
  <2>2. CASE UNCHANGED vars
    BY <2>2 DEF vars, TypeOK
  <2>3. QED
    BY <2>1, <2>2
<1>3. QED
  BY <1>1, <1>2, PTL DEF Spec

-----------------------------------------------------------------------------
(* Promises.                                                               *)

\* Ids are handed out in order, so what lies beyond the cursor is unused.
UnmintedAbsent == \A p \in Promises : p > lastPromise => promise[p].st = "absent"

PromiseInv == NoOrphanPromise /\ UnmintedAbsent

\* What one step must do for promises.
PromisesKept == PromiseInv' /\ SettledStays

LEMMA SettleEffect ==
  ASSUME NEW f \in [Promises -> PromiseRecords], NEW ps, NEW p \in Promises
  PROVE  /\ Settle(f, ps)[p].scope = f[p].scope
         /\ Settle(f, ps)[p].owner = f[p].owner
         /\ p \in ps => Settle(f, ps)[p].st = "Settled"
         /\ p \notin ps => Settle(f, ps)[p] = f[p]
BY DEF Settle, PromiseRecords

LEMMA PruningsEffect ==
  ASSUME NEW f \in [Promises -> PromiseRecords], NEW g \in Prunings(f), NEW p \in Promises
  PROVE  /\ g[p].scope = f[p].scope
         /\ g[p].owner = f[p].owner
         /\ g[p].st = f[p].st \/ (f[p].st = "Settled" /\ g[p].st = "Pruned")
<1>1. PICK gone \in SUBSET {q \in Promises : f[q].st = "Settled"} :
        g = [q \in Promises |-> IF q \in gone THEN [f[q] EXCEPT !.st = "Pruned"] ELSE f[q]]
  BY DEF Prunings
<1>2. QED
  BY <1>1 DEF PromiseRecords

-----------------------------------------------------------------------------
(* What a step leaves of the active run.                                   *)

LEMMA DecisionKeepsRun ==
  ASSUME TypeOK, NEW a \in Approvals, DecideApproval(a)
  PROVE  Active /\ run'.id = run.id /\ run'.turn = run.turn /\ run'.batch = run.batch
<1> DEFINE r == [run EXCEPT !.approval[a] = "Decided",
                            !.status = IF DecisionUnparks(a) THEN "Running" ELSE @]
<1>1. Active /\ run \in Runs
  BY DEF DecideApproval, TypeOK
<1>2. r.id = run.id /\ r.turn = run.turn /\ r.batch = run.batch
  BY <1>1 DEF Runs
<1>3. LET m == [r EXCEPT !.drift = @ \cup {"context"}]
      IN m.id = run.id /\ m.turn = run.turn /\ m.batch = run.batch
  BY <1>1, <1>2 DEF Runs
<1>4. run' = ContextMovedUnder(r) \/ run' = r
  BY DEF DecideApproval
<1>5. QED
  BY <1>1, <1>2, <1>3, <1>4 DEF ContextMovedUnder

\* An edit changes nothing of a run but what its turn has drifted from.
LEMMA EditKeepsRun ==
  ASSUME TypeOK, EditContext \/ EditTools
  PROVE  /\ run'.id = run.id /\ run'.status = run.status /\ run'.turn = run.turn
         /\ run'.batch = run.batch /\ run'.park = run.park /\ run'.approval = run.approval
         /\ run'.seen = run.seen /\ run'.written = run.written /\ run'.steered = run.steered
<1>1. ASSUME NEW d, run' = [run EXCEPT !.drift = d]
      PROVE  /\ run'.id = run.id /\ run'.status = run.status /\ run'.turn = run.turn
             /\ run'.batch = run.batch /\ run'.park = run.park /\ run'.approval = run.approval
             /\ run'.seen = run.seen /\ run'.written = run.written /\ run'.steered = run.steered
  BY <1>1 DEF TypeOK, Runs
<1>2. run' = run \/ \E d : run' = [run EXCEPT !.drift = d]
  BY DEF EditContext, EditTools, ContextMovedUnder
<1>3. QED
  BY <1>1, <1>2

\* The result of a generation completes the turn and may reset the attempts.
LEMMA GenerationEffect ==
  ASSUME GenerationResult
  PROVE  \E o \in TurnOutcomes, calls \in SUBSET Calls, hosted \in SUBSET HostedApprovals :
           \/ run' = TurnDone(o, calls, hosted)
           \/ run' = [TurnDone(o, calls, hosted) EXCEPT !.attempts = 0]
<1>1. /\ {} \in SUBSET HostedApprovals /\ {} \in SUBSET Calls
      /\ "FinalOutput" \in TurnOutcomes /\ "ToolCallsQueued" \in TurnOutcomes
      /\ "ContextLimit" \in TurnOutcomes /\ "ApprovalsRequested" \in TurnOutcomes
      /\ "Failed" \in TurnOutcomes /\ "Cancelled" \in TurnOutcomes
  BY DEF TurnOutcomes
<1>2. CASE AnswerFinally \/ Overflow
  BY <1>1, <1>2, Zenon DEF AnswerFinally, Overflow
<1>3. CASE CallTools
  BY <1>1, <1>3, Zenon DEF CallTools
<1>4. CASE AskApprovals
  BY <1>1, <1>4, Zenon DEF AskApprovals
<1>5. CASE FailGeneration
  <2>1. PICK o \in {"Failed", "Cancelled"}, hosted \in SUBSET HostedApprovals :
          run' = TurnDone(o, {}, hosted)
    BY <1>5, Zenon DEF FailGeneration
  <2>2. o \in TurnOutcomes
    BY DEF TurnOutcomes
  <2>3. QED
    BY <1>1, <2>1, <2>2, Zenon
<1>6. QED
  BY <1>2, <1>3, <1>4, <1>5 DEF GenerationResult

\* A step of a turn is a step of the same run.
LEMMA TurnKeepsRun ==
  ASSUME TypeOK, StartTurn \/ PlanTurn \/ RequestGeneration \/ CancelTurn
  PROVE  run'.id = run.id
<1>1. CASE StartTurn
  BY <1>1 DEF StartTurn, TypeOK, Runs
<1>2. CASE PlanTurn
  BY <1>2 DEF PlanTurn, TypeOK, Runs
<1>3. CASE RequestGeneration \/ CancelTurn
  BY <1>3 DEF RequestGeneration, CancelTurn, TypeOK, Runs
<1>4. QED
  BY <1>1, <1>2, <1>3

LEMMA GenerationKeepsRun ==
  ASSUME TypeOK, GenerationResult
  PROVE  run'.id = run.id
<1>1. PICK o \in TurnOutcomes, calls \in SUBSET Calls, hosted \in SUBSET HostedApprovals :
        \/ run' = TurnDone(o, calls, hosted)
        \/ run' = [TurnDone(o, calls, hosted) EXCEPT !.attempts = 0]
  BY GenerationEffect
<1>2. CASE run' = TurnDone(o, calls, hosted)
  BY <1>2 DEF TurnDone, TypeOK, Runs
<1>3. CASE run' = [TurnDone(o, calls, hosted) EXCEPT !.attempts = 0]
  BY <1>3 DEF TurnDone, TypeOK, Runs
<1>4. QED
  BY <1>1, <1>2, <1>3

\* A tool's result, and a park, leave the turn and the batch as they are.
LEMMA ToolKeepsRun ==
  ASSUME TypeOK, ToolResult
  PROVE  /\ UNCHANGED <<status, ctx>>
         /\ run'.id = run.id /\ run'.turn = run.turn /\ run'.batch = run.batch
         /\ run'.drift = run.drift
<1>1. CASE \E c \in Calls :
             FinishCall(c) \/ CallMintsPromise(c)
             \/ \E p \in Promises : CallCancelsPromise(c, p) \/ CallDetachesPromise(c, p)
  <2>1. UNCHANGED <<status, ctx>> /\ \E c \in Calls : run' = CallDone(c)
    BY <1>1 DEF FinishCall, CallMintsPromise, CallCancelsPromise, CallDetachesPromise
  <2>2. QED
    BY <2>1 DEF CallDone, TypeOK, Runs
<1>2. CASE FinishUnit \/ ParkOnGatedCalls
  BY <1>2 DEF FinishUnit, ParkOnGatedCalls, TypeOK, Runs
<1>3. CASE ParkOnAwait
  BY <1>3 DEF ParkOnAwait, TypeOK, Runs
<1>4. CASE ParkOnJoinedCalls
  BY <1>4 DEF ParkOnJoinedCalls, TypeOK, Runs
<1>5. QED
  BY <1>1, <1>2, <1>3, <1>4 DEF ToolResult

\* Requesting a compaction counts its attempts and nothing else in the run.
LEMMA CompactionKeepsRun ==
  ASSUME TypeOK, NEW trigger, NEW phase, CompactionRequested(trigger, phase)
  PROVE  /\ run'.id = run.id /\ run'.status = run.status /\ run'.turn = run.turn
         /\ run'.batch = run.batch /\ run'.park = run.park /\ run'.approval = run.approval
         /\ run'.seen = run.seen /\ run'.written = run.written /\ run'.steered = run.steered
         /\ run'.drift = run.drift
BY DEF CompactionRequested, TypeOK, Runs

-----------------------------------------------------------------------------
(* Promises, step by step.                                                 *)

\* A step that leaves promises, the lifecycle and the active run's id alone.
LEMMA QuietStep ==
  ASSUME PromiseInv, promise' = promise, lastPromise' = lastPromise,
         status' = status, run'.id = run.id
  PROVE  PromisesKept
BY DEF PromisesKept, PromiseInv, NoOrphanPromise, UnmintedAbsent, SettledStays, Open

\* Settling pending promises, whatever the reason.
LEMMA SettlingStep ==
  ASSUME TypeOK, PromiseInv, NEW ps \in SUBSET Promises, \A p \in ps : promise[p].st = "Pending",
         promise' = Settle(promise, ps), lastPromise' = lastPromise,
         status' = status, run'.id = run.id
  PROVE  PromisesKept
<1>1. promise \in [Promises -> PromiseRecords]
  BY DEF TypeOK
<1>2. \A p \in Promises : /\ promise'[p].scope = promise[p].scope
                          /\ promise'[p].owner = promise[p].owner
                          /\ promise'[p] = promise[p] \/
                               (promise'[p].st = "Settled" /\ promise[p].st = "Pending")
  BY <1>1, SettleEffect
<1>3. QED
  BY <1>2 DEF PromisesKept, PromiseInv, NoOrphanPromise, UnmintedAbsent, SettledStays, Open

LEMMA PruningStep ==
  ASSUME TypeOK, PromiseInv, promise' \in Prunings(promise), lastPromise' = lastPromise,
         status' = status, run'.id = run.id
  PROVE  PromisesKept
<1>1. promise \in [Promises -> PromiseRecords]
  BY DEF TypeOK
<1>2. \A p \in Promises : /\ promise'[p].scope = promise[p].scope
                          /\ promise'[p].owner = promise[p].owner
                          /\ promise'[p].st = promise[p].st \/
                               (promise[p].st = "Settled" /\ promise'[p].st = "Pruned")
  BY <1>1, PruningsEffect
<1>3. QED
  BY <1>2 DEF PromisesKept, PromiseInv, NoOrphanPromise, UnmintedAbsent, SettledStays, Open

\* Ending a run settles what is pending under it, so nothing is left behind.
LEMMA FinishRunStep ==
  ASSUME TypeOK, PromiseInv, Open, NEW how, NEW kept, FinishRun(how, kept),
         lastPromise' = lastPromise, status' = status
  PROVE  PromisesKept
<1>1. promise \in [Promises -> PromiseRecords]
  BY DEF TypeOK
<1>2. PICK f \in Prunings(promise) : promise' = Settle(f, PendingFor(run.id))
  BY DEF FinishRun
<1>3. f \in [Promises -> PromiseRecords]
  BY <1>1, PruningsType
<1>4. ASSUME NEW p \in Promises
      PROVE  /\ promise'[p].scope = promise[p].scope
             /\ promise'[p].owner = promise[p].owner
             /\ promise[p].st = "Settled" => promise'[p].st \in {"Settled", "Pruned"}
             /\ promise[p].st \in {"absent", "Pruned"} => promise'[p].st = promise[p].st
             /\ promise'[p].st = "Pending" =>
                  promise[p].st = "Pending" /\ promise[p].scope # run.id
  <2>1. /\ f[p].scope = promise[p].scope
        /\ f[p].owner = promise[p].owner
        /\ f[p].st = promise[p].st \/ (promise[p].st = "Settled" /\ f[p].st = "Pruned")
    BY <1>1, PruningsEffect
  <2>2. /\ promise'[p].scope = f[p].scope
        /\ promise'[p].owner = f[p].owner
        /\ p \in PendingFor(run.id) => promise'[p].st = "Settled"
        /\ p \notin PendingFor(run.id) => promise'[p] = f[p]
    BY <1>2, <1>3, SettleEffect
  <2>3. p \in PendingFor(run.id) <=> promise[p].st = "Pending" /\ promise[p].scope = run.id
    BY DEF PendingFor
  <2>4. QED
    BY <2>1, <2>2, <2>3
<1>5. run'.id = 0
  BY DEF FinishRun, NoRun, NewRun
<1>6. NoOrphanPromise'
  BY <1>4, <1>5 DEF PromiseInv, NoOrphanPromise, Open
<1>7. UnmintedAbsent' /\ SettledStays
  BY <1>4 DEF PromiseInv, UnmintedAbsent, SettledStays
<1>8. QED
  BY <1>6, <1>7 DEF PromisesKept, PromiseInv

LEMMA PlannerStepKeepsPromises ==
  ASSUME TypeOK, PromiseInv, PlannerStep
  PROVE  PromisesKept
<1>1. CASE StartRun
  <2>1. Open /\ run.id = 0 /\ UNCHANGED <<status, promise, lastPromise>>
    BY <1>1 DEF StartRun, PlansRunStart, RunsMayPlan, Active
  <2>2. QED
    BY <2>1 DEF PromisesKept, PromiseInv, NoOrphanPromise, UnmintedAbsent, SettledStays, Open
<1>2. CASE EndRun
  BY <1>2, FinishRunStep DEF EndRun, PlansRunEnd, RunsMayPlan
<1>3. CASE FailAtEntryGuard
  BY <1>3, FinishRunStep DEF FailAtEntryGuard, PlansGuardFailure, RunsMayPlan
<1>4. CASE EndCancelledRun
  BY <1>4, FinishRunStep DEF EndCancelledRun, PlansRunCancelled, RunsMayPlan
<1>5. CASE CompleteBatch
  <2>1. run'.id = run.id
    BY <1>5 DEF CompleteBatch, TypeOK, Runs
  <2>2. QED
    BY <1>5, <2>1, PruningStep DEF CompleteBatch
<1>6. CASE ParkOnApprovals
  BY <1>6, QuietStep DEF ParkOnApprovals, TypeOK, Runs
<1>7. CASE StartBatch \/ StartCalls \/ CancelCalls
  BY <1>7, QuietStep DEF StartBatch, StartCalls, CancelCalls, TypeOK, Runs
<1>8. CASE AbandonCompaction
  BY <1>8, QuietStep DEF AbandonCompaction
<1>9. CASE StartQueuedCompaction \/ RecoverFromOverflow \/ CompactAtWatermark
  BY <1>9, QuietStep, CompactionKeepsRun
  DEF StartQueuedCompaction, RecoverFromOverflow, CompactAtWatermark
<1>10. CASE WriteRunInput \/ WriteSteering
  BY <1>10, QuietStep DEF WriteRunInput, WriteSteering, ContextMovedUnder, TypeOK, Runs
<1>11. CASE StartTurn \/ PlanTurn \/ RequestGeneration \/ CancelTurn
  <2>1. UNCHANGED <<status, promise, lastPromise>>
    BY <1>11 DEF StartTurn, PlanTurn, RequestGeneration, CancelTurn
  <2>2. QED
    BY <1>11, <2>1, QuietStep, TurnKeepsRun
<1>12. QED
  BY <1>1, <1>2, <1>3, <1>4, <1>5, <1>6, <1>7, <1>8, <1>9, <1>10, <1>11 DEF PlannerStep

LEMMA GenerationKeepsPromises ==
  ASSUME TypeOK, PromiseInv, GenerationResult
  PROVE  PromisesKept
<1>1. UNCHANGED <<status, promise, lastPromise>>
  BY DEF GenerationResult, AnswerFinally, CallTools, AskApprovals, FailGeneration, Overflow
<1>2. QED
  BY <1>1, QuietStep, GenerationKeepsRun

LEMMA ToolResultKeepsPromises ==
  ASSUME TypeOK, PromiseInv, ToolResult
  PROVE  PromisesKept
<1>1. \A c \in Calls : CallDone(c).id = run.id
  BY DEF CallDone, TypeOK, Runs
<1>2. ASSUME NEW c \in Calls, FinishCall(c) PROVE PromisesKept
  BY <1>1, <1>2, QuietStep DEF FinishCall
<1>3. ASSUME NEW c \in Calls, CallMintsPromise(c) PROVE PromisesKept
  <2>1. Open /\ run'.id = run.id /\ UNCHANGED status
    BY <1>1, <1>3 DEF CallMintsPromise, MayExecute, Dispatching, BatchUnderWay
  <2>2. Fresh \in Promises /\ lastPromise' = Fresh
    BY <1>3, BoundsAssumption DEF BoundsAssumption, CallMintsPromise, Fresh, TypeOK, Promises
  <2>3. promise[Fresh].st = "absent"
    BY <2>2, BoundsAssumption DEF BoundsAssumption, Fresh, PromiseInv, UnmintedAbsent, TypeOK, Promises
  <2>4. /\ promise'[Fresh] = [st |-> "Pending", scope |-> run.id, owner |-> "Model"]
        /\ \A p \in Promises : p # Fresh => promise'[p] = promise[p]
    BY <1>3, <2>2 DEF CallMintsPromise, TypeOK
  <2>5. NoOrphanPromise'
    BY <2>1, <2>4 DEF PromiseInv, NoOrphanPromise, Open
  <2>6. UnmintedAbsent'
    BY <2>2, <2>4 DEF PromiseInv, UnmintedAbsent, Fresh, TypeOK, Promises
  <2>7. SettledStays
    BY <2>3, <2>4 DEF SettledStays
  <2>8. QED
    BY <2>5, <2>6, <2>7 DEF PromisesKept, PromiseInv
<1>4. ASSUME NEW c \in Calls, NEW p \in Promises, CallCancelsPromise(c, p) PROVE PromisesKept
  BY <1>1, <1>4, SettlingStep DEF CallCancelsPromise, ModelHolds
<1>5. ASSUME NEW c \in Calls, NEW p \in Promises, CallDetachesPromise(c, p) PROVE PromisesKept
  <2>1. Open /\ run'.id = run.id /\ UNCHANGED <<status, lastPromise>>
    BY <1>1, <1>5 DEF CallDetachesPromise, MayExecute, Dispatching, BatchUnderWay
  <2>2. /\ promise'[p].scope = 0 /\ promise'[p].st = promise[p].st
        /\ promise[p].st = "Pending"
        /\ \A q \in Promises : q # p => promise'[q] = promise[q]
    BY <1>5 DEF CallDetachesPromise, ModelHolds, TypeOK, PromiseRecords
  <2>3. QED
    BY <2>1, <2>2 DEF PromisesKept, PromiseInv, NoOrphanPromise, UnmintedAbsent, SettledStays, Open
<1>6. CASE FinishUnit \/ ParkOnAwait \/ ParkOnGatedCalls
  BY <1>6, QuietStep, ToolKeepsRun DEF FinishUnit, ParkOnAwait, ParkOnGatedCalls, ToolResult
<1>7. CASE ParkOnJoinedCalls
  <2>1. Open /\ run'.id = run.id /\ UNCHANGED status
    BY <1>7 DEF ParkOnJoinedCalls, UnitDispatch, Dispatching, BatchUnderWay, TypeOK, Runs
  <2>2. PICK joined \in (SUBSET PendingOf(JoinedCalls)) \ {{}} :
       /\ promise' = [p \in Promises |->
                        IF p \in Fresh..(lastPromise + Cardinality(joined))
                        THEN [st |-> "Pending", scope |-> run.id, owner |-> "Runtime"]
                        ELSE promise[p]]
       /\ lastPromise' = lastPromise + Cardinality(joined)
    BY <1>7 DEF ParkOnJoinedCalls
  <2>3. lastPromise \in Nat /\ lastPromise' \in Nat /\ lastPromise' >= lastPromise
    <3>1. joined \subseteq Calls
      BY DEF PendingOf, CallsIn
    <3>2. Cardinality(joined) \in Nat
      BY <3>1, CallsAssumption, FS_Subset, FS_CardinalityType DEF CallsAssumption
    <3>3. QED
      BY <2>2, <3>2, BoundsAssumption DEF BoundsAssumption, TypeOK
  <2>4. ASSUME NEW p \in Promises
        PROVE  IF p > lastPromise /\ p <= lastPromise'
               THEN /\ promise'[p] = [st |-> "Pending", scope |-> run.id, owner |-> "Runtime"]
                    /\ promise[p].st = "absent"
               ELSE promise'[p] = promise[p]
    <3>1. p \in Nat
      BY DEF Promises
    <3>2. p \in Fresh..(lastPromise + Cardinality(joined)) <=> p > lastPromise /\ p <= lastPromise'
      BY <2>2, <2>3, <3>1 DEF Fresh
    <3>3. QED
      BY <2>2, <3>2 DEF PromiseInv, UnmintedAbsent
  <2>5. NoOrphanPromise'
    BY <2>1, <2>4 DEF PromiseInv, NoOrphanPromise, Open
  <2>6. UnmintedAbsent'
    BY <2>3, <2>4 DEF PromiseInv, UnmintedAbsent, Promises
  <2>7. SettledStays
    BY <2>4 DEF SettledStays
  <2>8. QED
    BY <2>5, <2>6, <2>7 DEF PromisesKept, PromiseInv
<1>8. QED
  BY <1>2, <1>3, <1>4, <1>5, <1>6, <1>7 DEF ToolResult

LEMMA CompactionKeepsPromises ==
  ASSUME TypeOK, PromiseInv, CompactionResult
  PROVE  PromisesKept
<1>1. CASE RecoveryFails
  BY <1>1, FinishRunStep DEF RecoveryFails, CompactionWanted
<1>2. CASE CompactionSucceeds
  BY <1>2, QuietStep DEF CompactionSucceeds, TypeOK, Runs
<1>3. CASE SendCompaction \/ CompactionFails
  BY <1>3, QuietStep DEF SendCompaction, CompactionFails
<1>4. QED
  BY <1>1, <1>2, <1>3 DEF CompactionResult

LEMMA UnparkKeepsPromises ==
  ASSUME TypeOK, PromiseInv, UnparkStep
  PROVE  PromisesKept
<1>1. CASE PrepareUnpark \/ DropClaim
  BY <1>1, QuietStep DEF PrepareUnpark, DropClaim
<1>2. CASE UnparkBatch
  <2>1. run'.id = run.id /\ UNCHANGED <<status, lastPromise>>
    BY <1>2 DEF UnparkBatch, TypeOK, Runs
  <2> DEFINE waiting == {p \in run.park.waits : promise[p].st = "Pending"}
  <2>2. waiting \in SUBSET Promises
    BY DEF TypeOK, Runs, Parks
  <2>3. promise' = promise \/ promise' = Settle(promise, waiting)
    BY <1>2 DEF UnparkBatch
  <2>4. QED
    BY <2>1, <2>2, <2>3, QuietStep, SettlingStep
<1>3. QED
  BY <1>1, <1>2 DEF UnparkStep

LEMMA CommandKeepsPromises ==
  ASSUME TypeOK, PromiseInv, Command
  PROVE  PromisesKept
<1>1. CASE OpenSession
  BY <1>1 DEF OpenSession, PromisesKept, PromiseInv, NoOrphanPromise, UnmintedAbsent,
     SettledStays, Open
<1>2. CASE RequestRun \/ CancelQueuedRun
  BY <1>2, QuietStep DEF RequestRun, CancelQueuedRun
<1>3. CASE SteerRun \/ CancelActiveRun
  <2>1. CASE SteerRun
    BY <2>1, QuietStep DEF SteerRun, TypeOK, Runs
  <2>2. CASE CancelActiveRun
    BY <2>2, QuietStep DEF CancelActiveRun, TypeOK, Runs
  <2>3. QED
    BY <1>3, <2>1, <2>2
<1>4. ASSUME NEW a \in Approvals, DecideApproval(a) PROVE PromisesKept
  BY <1>4, QuietStep, DecisionKeepsRun DEF DecideApproval
<1>5. ASSUME NEW p \in Promises, ResolvePromise(p) PROVE PromisesKept
  BY <1>5, SettlingStep DEF ResolvePromise
<1>6. CASE CompactContext
  BY <1>6, QuietStep, CompactionKeepsRun DEF CompactContext
<1>7. CASE EditContext \/ EditTools
  BY <1>7, QuietStep, EditKeepsRun DEF EditContext, EditTools
<1>8. CASE CloseSession
  <2>1. \A p \in Promises : promise[p].st # "Pending"
    <3>1. run.id = 0 /\ PendingFor(0) = {}
      BY <1>8 DEF CloseSession, Active
    <3>2. QED
      BY <3>1 DEF PendingFor, PromiseInv, NoOrphanPromise
  <2>2. QED
    BY <1>8, <2>1 DEF CloseSession, PromisesKept, PromiseInv, NoOrphanPromise, UnmintedAbsent,
       SettledStays
<1>9. CASE ForceCloseSession
  <2> DEFINE ended == PendingFor(0) \cup PendingFor(run.id)
  <2>1. promise \in [Promises -> PromiseRecords]
    BY DEF TypeOK
  <2>2. PICK f \in Prunings(promise) \cup {promise} : promise' = Settle(f, ended)
    BY <1>9 DEF ForceCloseSession
  <2>3. f \in [Promises -> PromiseRecords]
    BY <2>1, PruningsType
  <2>4. ASSUME NEW p \in Promises
        PROVE  /\ promise'[p].scope = promise[p].scope
               /\ promise'[p].owner = promise[p].owner
               /\ promise[p].st = "Settled" => promise'[p].st \in {"Settled", "Pruned"}
               /\ promise[p].st \in {"absent", "Pruned"} => promise'[p].st = promise[p].st
               /\ promise'[p].st # "Pending"
    <3>1. /\ f[p].scope = promise[p].scope
          /\ f[p].owner = promise[p].owner
          /\ f[p].st = promise[p].st \/ (promise[p].st = "Settled" /\ f[p].st = "Pruned")
      BY <2>1, PruningsEffect
    <3>2. /\ promise'[p].scope = f[p].scope
          /\ promise'[p].owner = f[p].owner
          /\ p \in ended => promise'[p].st = "Settled"
          /\ p \notin ended => promise'[p] = f[p]
      BY <2>2, <2>3, SettleEffect
    <3>3. p \in ended <=> promise[p].st = "Pending"
      BY DEF PendingFor, PromiseInv, NoOrphanPromise
    <3>4. QED
      BY <3>1, <3>2, <3>3
  <2>5. lastPromise' = lastPromise
    BY <1>9 DEF ForceCloseSession
  <2>6. QED
    BY <2>4, <2>5 DEF PromisesKept, PromiseInv, NoOrphanPromise, UnmintedAbsent, SettledStays
<1>10. QED
  BY <1>1, <1>2, <1>3, <1>4, <1>5, <1>6, <1>7, <1>8, <1>9 DEF Command

LEMMA ForcedEndKeepsPromises ==
  ASSUME TypeOK, PromiseInv, ForcedEnd
  PROVE  PromisesKept
<1>1. CASE ForceCancelRun
  BY <1>1, FinishRunStep DEF ForceCancelRun
<1>2. CASE FailRun
  BY <1>2, FinishRunStep DEF FailRun
<1>3. QED
  BY <1>1, <1>2 DEF ForcedEnd, FailStoredStep, FailRefusedPark

LEMMA PromiseStep ==
  ASSUME TypeOK, PromiseInv, [Next]_vars
  PROVE  PromisesKept
<1>1. CASE Next
  BY <1>1, PlannerStepKeepsPromises, GenerationKeepsPromises, ToolResultKeepsPromises,
     CompactionKeepsPromises, UnparkKeepsPromises, CommandKeepsPromises,
     ForcedEndKeepsPromises DEF Next
<1>2. CASE UNCHANGED vars
  BY <1>2, QuietStep DEF vars
<1>3. QED
  BY <1>1, <1>2

LEMMA PromiseInit == Init => PromiseInv
BY DEF Init, PromiseInv, NoOrphanPromise, UnmintedAbsent, NoPromise

LEMMA PromiseInvariant == Spec => []PromiseInv
<1>1. TypeOK /\ PromiseInv /\ [Next]_vars => PromiseInv'
  BY PromiseStep DEF PromisesKept
<1>2. QED
  BY <1>1, PromiseInit, TypeCorrect, PTL DEF Spec

\* However a run or the session ends (planned end, cancel, watchdog, refusal,
\* failed recovery, force close), no pending promise is left under it.
THEOREM PromisesNeverOrphaned == Spec => []NoOrphanPromise
<1>1. PromiseInv => NoOrphanPromise
  BY DEF PromiseInv
<1>2. QED
  BY <1>1, PromiseInvariant, PTL

\* No step of the session reopens, rescopes or reuses a settled promise.
THEOREM PromisesAreFirstWriterWins == Spec => PromisesSettleOnce
<1>1. TypeOK /\ PromiseInv /\ [Next]_vars => [SettledStays]_vars
  BY PromiseStep DEF PromisesKept
<1>2. QED
  BY <1>1, TypeCorrect, PromiseInvariant, PTL DEF Spec, PromisesSettleOnce

-----------------------------------------------------------------------------
(* Requests.  Nothing drifts because whatever would move a revision is     *)
(* held back while a turn is in flight; the one command that is not, a     *)
(* decision on a provider's approval, finds no approval open then, because *)
(* the planner parks the run before it starts another turn.                *)

RequestInv ==
  /\ run.drift = {}
  /\ TurnInFlight => PendingApprovals = {} /\ run.batch = "none"

LEMMA RequestInit == Init => RequestInv
BY DEF Init, RequestInv, NoRun, NewRun, TurnInFlight, TurnsInFlight

\* A step that leaves the parts of the run alone that RequestInv reads.
LEMMA RequestQuiet ==
  ASSUME RequestInv, run'.drift = run.drift, run'.turn = run.turn,
         run'.batch = run.batch, run'.approval = run.approval
  PROVE  RequestInv'
BY DEF RequestInv, TurnInFlight, PendingApprovals, BatchActive

\* A step that leaves no turn in flight.
LEMMA RequestNoTurn ==
  ASSUME run'.drift = {}, run'.turn \notin TurnsInFlight
  PROVE  RequestInv'
BY DEF RequestInv, TurnInFlight

LEMMA RequestFinish ==
  ASSUME NEW how, NEW kept, FinishRun(how, kept)
  PROVE  RequestInv'
BY RequestNoTurn DEF FinishRun, NoRun, NewRun, TurnsInFlight

LEMMA RequestPlannerStep ==
  ASSUME TypeOK, RequestInv, PlannerStep
  PROVE  RequestInv'
<1>1. CASE ParkOnApprovals \/ StartCalls \/ CancelCalls
  BY <1>1, RequestQuiet DEF ParkOnApprovals, StartCalls, CancelCalls, TypeOK, Runs
<1>2. CASE StartRun
  BY <1>2, RequestNoTurn DEF StartRun, NewRun, TurnsInFlight
<1>3. CASE EndRun \/ FailAtEntryGuard \/ EndCancelledRun
  BY <1>3, RequestFinish DEF EndRun, FailAtEntryGuard, EndCancelledRun
<1>4. CASE StartBatch
  <2>1. run'.drift = {} /\ run'.turn = "ToolCallsQueued"
    BY <1>4 DEF StartBatch, PlansBatchStart, HasUnstartedToolCallTurn, RequestInv, TypeOK, Runs
  <2>2. QED
    BY <2>1, RequestNoTurn DEF TurnsInFlight
<1>5. CASE CompleteBatch
  <2>1. BatchActive
    BY <1>5 DEF CompleteBatch, PlansBatchCompletion, BatchUnderWay
  <2>2. run'.drift = {} /\ run'.turn = run.turn
    BY <1>5 DEF CompleteBatch, RequestInv, TypeOK, Runs
  <2>3. QED
    BY <2>1, <2>2, RequestNoTurn DEF RequestInv, TurnInFlight, BatchActive
<1>6. CASE AbandonCompaction
  BY <1>6, RequestQuiet DEF AbandonCompaction
<1>7. CASE StartQueuedCompaction \/ RecoverFromOverflow \/ CompactAtWatermark
  BY <1>7, RequestQuiet, CompactionKeepsRun
  DEF StartQueuedCompaction, RecoverFromOverflow, CompactAtWatermark
<1>8. CASE WriteRunInput
  BY <1>8, RequestQuiet DEF WriteRunInput, TypeOK, Runs
<1>9. CASE WriteSteering
  BY <1>9, RequestQuiet DEF WriteSteering, PlansSteering, ContextMovedUnder, TurnInFlight,
     TurnsInFlight, TypeOK, Runs
<1>10. CASE StartTurn
  <2>1. /\ run'.drift = run.drift /\ run'.batch = "none"
        /\ run'.approval = run.approval
    BY <1>10 DEF StartTurn, TypeOK, Runs
  <2>2. PendingApprovals = {}
    BY <1>10 DEF StartTurn, TurnTurn, ContextTurn, ToolTurn, RunTurn, ToolPlans, PlansTurnStart,
       TurnMayPlan, PlansApprovalPark, PlansBatchStart, Running
  <2>3. QED
    BY <2>1, <2>2 DEF RequestInv, PendingApprovals, BatchActive
<1>11. CASE PlanTurn
  <2>1. /\ run.turn = "Started"
        /\ run'.drift = {} /\ run'.batch = run.batch /\ run'.approval = run.approval
    BY <1>11 DEF PlanTurn, PlansTurnPlanned, TypeOK, Runs
  <2>2. QED
    BY <2>1 DEF RequestInv, TurnInFlight, TurnsInFlight, PendingApprovals, BatchActive
<1>12. CASE RequestGeneration
  <2>1. /\ run.turn = "Planned"
        /\ run'.drift = run.drift /\ run'.batch = run.batch /\ run'.approval = run.approval
    BY <1>12 DEF RequestGeneration, PlansGeneration, TypeOK, Runs
  <2>2. QED
    BY <2>1 DEF RequestInv, TurnInFlight, TurnsInFlight, PendingApprovals, BatchActive
<1>13. CASE CancelTurn
  BY <1>13, RequestNoTurn DEF CancelTurn, RequestInv, TurnsInFlight, TypeOK, Runs
<1>14. QED
  BY <1>1, <1>2, <1>3, <1>4, <1>5, <1>6, <1>7, <1>8, <1>9, <1>10, <1>11, <1>12, <1>13
  DEF PlannerStep

LEMMA RequestResult ==
  ASSUME TypeOK, RequestInv, GenerationResult \/ ToolResult \/ CompactionResult \/ UnparkStep
  PROVE  RequestInv'
<1>1. CASE GenerationResult
  <2>1. run'.drift = {} /\ run'.turn \in TurnOutcomes
    <3>1. PICK o \in TurnOutcomes, calls \in SUBSET Calls, hosted \in SUBSET HostedApprovals :
            \/ run' = TurnDone(o, calls, hosted)
            \/ run' = [TurnDone(o, calls, hosted) EXCEPT !.attempts = 0]
      BY <1>1, GenerationEffect
    <3>2. run'.drift = run.drift /\ run'.turn = o
      BY <3>1 DEF TurnDone, TypeOK, Runs
    <3>3. QED
      BY <3>2 DEF RequestInv
  <2>2. QED
    BY <2>1, RequestNoTurn DEF TurnOutcomes, TurnsInFlight
<1>2. CASE ToolResult
  <2>1. Dispatching
    BY <1>2 DEF ToolResult, FinishCall, CallMintsPromise, CallCancelsPromise, CallDetachesPromise,
       MayExecute, FinishUnit, ParkOnAwait, ParkOnJoinedCalls, UnitDispatch, ParkOnGatedCalls
  <2>2. run'.drift = run.drift /\ run'.turn = run.turn
    BY <1>2, ToolKeepsRun
  <2>3. QED
    BY <2>1, <2>2, RequestNoTurn DEF Dispatching, BatchUnderWay, RequestInv, TurnInFlight, BatchActive
<1>3. CASE CompactionResult
  <2>1. CASE RecoveryFails
    BY <2>1, RequestFinish DEF RecoveryFails
  <2>2. CASE SendCompaction \/ CompactionSucceeds \/ CompactionFails
    BY <2>2, RequestQuiet DEF SendCompaction, CompactionSucceeds, CompactionFails, TypeOK, Runs
  <2>3. QED
    BY <1>3, <2>1, <2>2 DEF CompactionResult
<1>4. CASE UnparkStep
  BY <1>4, RequestQuiet DEF UnparkStep, PrepareUnpark, UnparkBatch, DropClaim, TypeOK, Runs
<1>5. QED
  BY <1>1, <1>2, <1>3, <1>4

LEMMA RequestCommand ==
  ASSUME TypeOK, RequestInv, Command \/ ForcedEnd
  PROVE  RequestInv'
<1>1. CASE OpenSession \/ RequestRun \/ CancelQueuedRun \/ CloseSession
  BY <1>1, RequestQuiet DEF OpenSession, RequestRun, CancelQueuedRun, CloseSession
<1>2. ASSUME NEW p \in Promises, ResolvePromise(p) PROVE RequestInv'
  BY <1>2, RequestQuiet DEF ResolvePromise
<1>3. CASE SteerRun
  BY <1>3, RequestQuiet DEF SteerRun, TypeOK, Runs
<1>4. CASE CancelActiveRun
  <2>1. /\ run'.drift = run.drift /\ run'.turn = run.turn /\ run'.batch = run.batch
        /\ \A a \in Approvals : run'.approval[a] # "Pending"
    BY <1>4 DEF CancelActiveRun, TypeOK, Runs
  <2>2. QED
    BY <2>1 DEF RequestInv, TurnInFlight, PendingApprovals, BatchActive
<1>5. ASSUME NEW a \in Approvals, DecideApproval(a) PROVE RequestInv'
  <2>1. ~TurnInFlight
    BY <1>5 DEF DecideApproval, RequestInv
  <2>2. run'.drift = run.drift /\ run'.turn = run.turn
    <3> DEFINE r == [run EXCEPT !.approval[a] = "Decided",
                                !.status = IF DecisionUnparks(a) THEN "Running" ELSE @]
    <3>1. run' = r \/ run' = ContextMovedUnder(r)
      BY <1>5 DEF DecideApproval
    <3>2. r.drift = run.drift /\ r.turn = run.turn
      BY DEF TypeOK, Runs
    <3>3. ~(r.turn \in {"Planned", "GenerationPending"})
      BY <1>5, <2>1, <3>2 DEF DecideApproval, TurnInFlight, TurnsInFlight
    <3> HIDE DEF r
    <3>4. QED
      BY <3>1, <3>2, <3>3 DEF ContextMovedUnder
  <2>3. QED
    BY <2>1, <2>2, RequestNoTurn DEF RequestInv, TurnInFlight
<1>6. CASE CompactContext
  BY <1>6, RequestQuiet, CompactionKeepsRun DEF CompactContext
<1>7. CASE EditContext
  <2>1. ~TurnInFlight
    BY <1>7 DEF EditContext, Admitted, RunControl
  <2>2. QED
    BY <1>7, <2>1, RequestQuiet DEF EditContext, ContextMovedUnder, TurnInFlight, TurnsInFlight
<1>8. CASE EditTools
  BY <1>8, RequestQuiet DEF EditTools, ToolsMayChange, ToolsFrozen
<1>9. CASE ForceCloseSession
  BY <1>9, RequestNoTurn DEF ForceCloseSession, NoRun, NewRun, TurnsInFlight
<1>10. CASE ForcedEnd
  BY <1>10, RequestFinish DEF ForcedEnd, ForceCancelRun, FailStoredStep, FailRefusedPark, FailRun
<1>11. QED
  BY <1>1, <1>2, <1>3, <1>4, <1>5, <1>6, <1>7, <1>8, <1>9, <1>10 DEF Command

LEMMA RequestInvariant == Spec => []RequestInv
<1>1. TypeOK /\ RequestInv /\ [Next]_vars => RequestInv'
  <2> SUFFICES ASSUME TypeOK, RequestInv, [Next]_vars PROVE RequestInv'
    OBVIOUS
  <2>1. CASE Next
    BY <2>1, RequestPlannerStep, RequestResult, RequestCommand DEF Next
  <2>2. CASE UNCHANGED vars
    BY <2>2, RequestQuiet DEF vars
  <2>3. QED
    BY <2>1, <2>2
<1>2. QED
  BY <1>1, RequestInit, TypeCorrect, PTL DEF Spec

\* The revisions a turn was planned against never move under it, whatever
\* commands, decisions and results interleave with it, so the host can always
\* rebuild its request.
THEOREM PlannedRequestsHold == Spec => []PlannedRequestHolds
<1>1. RequestInv => PlannedRequestHolds
  BY DEF RequestInv, PlannedRequestHolds
<1>2. QED
  BY <1>1, RequestInvariant, PTL

=============================================================================
