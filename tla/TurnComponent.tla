--------------------------- MODULE TurnComponent ----------------------------
(***************************************************************************)
(* The turn component: one model request per turn.  A turn is started,     *)
(* planned against the current revisions, sent, and completed by the       *)
(* result of the generation activity.                                      *)
(***************************************************************************)
EXTENDS Planner

StartTurn ==
  /\ TurnTurn /\ PlansTurnStart
  /\ run' = [run EXCEPT !.turn = "Started", !.turnCount = @ + 1, !.tried = FALSE,
               !.batch = "none", !.call = [c \in Calls |-> "absent"]]
  /\ UNCHANGED <<status, queue, lastRun, fate, promise, lastPromise, ctx, claim, ghost>>

\* The request carries everything in context, so input and the steering
\* written so far are consumed and nothing at the front is unsettled.
PlanTurn ==
  /\ TurnTurn /\ PlansTurnPlanned
  /\ run' = [run EXCEPT !.turn = "Planned", !.drift = {}, !.input = "consumed",
               !.seen = run.written]
  /\ ctx' = [ctx EXCEPT !.settled = TRUE]
  /\ UNCHANGED <<status, queue, lastRun, fate, promise, lastPromise, claim, ghost>>

RequestGeneration ==
  /\ TurnTurn /\ PlansGeneration
  /\ run' = [run EXCEPT !.turn = "GenerationPending"]
  /\ UNCHANGED <<status, queue, lastRun, fate, promise, lastPromise, ctx, claim, ghost>>

CancelTurn ==
  /\ TurnTurn /\ PlansTurnCancelled
  /\ run' = [run EXCEPT !.turn = "Cancelled"]
  /\ UNCHANGED <<status, queue, lastRun, fate, promise, lastPromise, ctx, claim, ghost>>

-----------------------------------------------------------------------------
(* The generation activity.  Its result counts only while the run is       *)
(* running on that turn, and its request can only be built while the       *)
(* planned revisions are the current ones.                                 *)

GenerationWanted ==
  PlannerIdle /\ Running /\ run.turn = "GenerationPending" /\ run.drift = {}

\* Turn completion drops decided approvals and records the new ones.
TurnDone(outcome, calls, hosted) ==
  [run EXCEPT
     !.turn = outcome,
     !.call = [c \in Calls |-> IF c \in calls THEN "Observed" ELSE "absent"],
     !.approval = [a \in Approvals |-> IF a \in hosted THEN "Pending"
                                       ELSE IF run.approval[a] = "Decided" THEN "none"
                                       ELSE run.approval[a]]]

AnswerFinally ==
  /\ GenerationWanted
  /\ run' = [TurnDone("FinalOutput", {}, {}) EXCEPT !.attempts = 0]
  /\ ctx' \in Appended([ctx EXCEPT !.settled = TRUE])
  /\ UNCHANGED <<status, queue, lastRun, fate, promise, lastPromise, claim, ghost>>

\* Calls decide over approvals: a turn with both queues its calls, and its
\* approvals stay open beside the batch.
CallTools ==
  /\ GenerationWanted
  /\ \E calls \in (SUBSET Calls) \ {{}}, hosted \in SUBSET HostedApprovals :
       /\ run' = [TurnDone("ToolCallsQueued", calls, hosted) EXCEPT !.attempts = 0]
       /\ ctx' \in Appended([ctx EXCEPT !.settled = TRUE, !.owed = calls])
  /\ UNCHANGED <<status, queue, lastRun, fate, promise, lastPromise, claim, ghost>>

AskApprovals ==
  /\ GenerationWanted
  /\ \E hosted \in (SUBSET HostedApprovals) \ {{}} :
       run' = [TurnDone("ApprovalsRequested", {}, hosted) EXCEPT !.attempts = 0]
  /\ ctx' \in Appended([ctx EXCEPT !.settled = TRUE])
  /\ UNCHANGED <<status, queue, lastRun, fate, promise, lastPromise, claim, ghost>>

\* A refused, truncated or provider-cancelled generation.  The approvals it
\* carries are recorded all the same; its calls are not.
FailGeneration ==
  /\ "generationFails" \in Features
  /\ GenerationWanted
  /\ \E outcome \in {"Failed", "Cancelled"}, hosted \in SUBSET HostedApprovals :
       run' = TurnDone(outcome, {}, hosted)
  /\ ctx' \in Appended(ctx)
  /\ UNCHANGED <<status, queue, lastRun, fate, promise, lastPromise, claim, ghost>>

\* The request did not fit: nothing of the result is kept.
Overflow ==
  /\ "overflow" \in Features
  /\ GenerationWanted
  /\ run' = TurnDone("ContextLimit", {}, {})
  /\ UNCHANGED <<status, queue, lastRun, fate, promise, lastPromise, ctx, claim, ghost>>

=============================================================================
