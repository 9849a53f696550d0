--------------------------- MODULE ToolComponent ----------------------------
(***************************************************************************)
(* The tooling component: the batch a tool-call turn queued.  Calls are    *)
(* started together, complete one by one, and their results enter context  *)
(* together when the last one is terminal.  A batch may park on promises:  *)
(* for an `await` call, or for workflow calls it joins.                    *)
(***************************************************************************)
EXTENDS Planner

WithCalls(from, to) ==
  [c \in Calls |-> IF run.call[c] \in from THEN to ELSE run.call[c]]

\* A call of a tool the toolset lacks is terminal from the start.
StartBatch ==
  /\ ToolTurn /\ PlansBatchStart
  /\ \E unavailable \in SUBSET (PlainCalls \cap CallsIn({"Observed"})) :
       run' = [run EXCEPT !.batch = "active",
                 !.call = [c \in Calls |-> IF c \in unavailable THEN "Done"
                                           ELSE WithCalls({"Observed"}, "Accepted")[c]]]
  /\ UNCHANGED <<status, queue, lastRun, fate, promise, lastPromise, ctx, claim, ghost>>

StartCalls ==
  /\ ToolTurn /\ PlansInvocations
  /\ run' = [run EXCEPT !.call = WithCalls({"Accepted"}, "Pending")]
  /\ UNCHANGED <<status, queue, lastRun, fate, promise, lastPromise, ctx, claim, ghost>>

CancelCalls ==
  /\ ToolTurn /\ PlansCallCancellations
  /\ run' = [run EXCEPT !.call = WithCalls({"Accepted", "Pending"}, "Done")]
  /\ UNCHANGED <<status, queue, lastRun, fate, promise, lastPromise, ctx, claim, ghost>>

\* Results enter context and the batch closes in one append; settled
\* bookkeeping (decided approvals, old promises) is pruned with it.
CompleteBatch ==
  /\ ToolTurn /\ PlansBatchCompletion
  /\ run' = [run EXCEPT !.batch = "done", !.call = [c \in Calls |-> "absent"],
               !.approval = [a \in Approvals |-> IF run.approval[a] = "Decided" THEN "none"
                                                 ELSE run.approval[a]]]
  /\ ctx' \in Appended([ctx EXCEPT !.owed = {}, !.settled = TRUE])
  /\ promise' \in Prunings(promise)
  /\ UNCHANGED <<status, queue, lastRun, fate, lastPromise, claim, ghost>>

-----------------------------------------------------------------------------
(* The tool activities.  A dispatch runs ordinary calls one activity each  *)
(* and, once none of those is left, the await and workflow calls as one.   *)

Dispatching == PlannerIdle /\ BatchUnderWay /\ Running
OrdinaryCalls == PlainCalls \cup GatedCalls
PendingOf(kind) == kind \cap CallsIn({"Pending"})

\* Mutant: off by one.
FreshOffByOne == lastPromise

\* Mutant: an id is used twice.
FreshReused == IF lastPromise = 0 THEN 1 ELSE lastPromise

\* next_tool_batch_request: ids go on from the last one minted.
Fresh == lastPromise + 1


MayExecute(c) ==
  /\ Dispatching
  /\ c \in PendingOf(OrdinaryCalls)
  /\ c \in GatedCalls => run.approval[c] = "Decided"

CallDone(c) == [run EXCEPT !.call[c] = "Done"]

\* What a result does to promises: nothing, or mint, cancel or detach one the
\* model owns.  A minted promise ends with its run unless it is detached.
FinishCall(c) ==
  /\ MayExecute(c)
  /\ run' = CallDone(c)
  /\ UNCHANGED <<status, queue, lastRun, fate, promise, lastPromise, ctx, claim, ghost>>

\* The promise gets the next id.  The base a dispatch numbers from, and the
\* check that refuses an id below it or held already, are left out.
CallMintsPromise(c) ==
  /\ MayExecute(c)
  /\ Fresh <= MaxPromises
  /\ run' = CallDone(c)
  /\ promise' = [promise EXCEPT
                   ![Fresh] = [st |-> "Pending", scope |-> run.id, owner |-> "Model"]]
  /\ lastPromise' = Fresh
  /\ UNCHANGED <<status, queue, lastRun, fate, ctx, claim, ghost>>

ModelHolds(p) == promise[p].st = "Pending" /\ promise[p].owner = "Model"

CallCancelsPromise(c, p) ==
  /\ MayExecute(c)
  /\ ModelHolds(p)
  /\ run' = CallDone(c)
  /\ promise' = Settle(promise, {p})
  /\ UNCHANGED <<status, queue, lastRun, fate, lastPromise, ctx, claim, ghost>>

CallDetachesPromise(c, p) ==
  /\ MayExecute(c)
  /\ ModelHolds(p) /\ promise[p].scope = run.id
  /\ run' = CallDone(c)
  /\ promise' = [promise EXCEPT ![p].scope = 0]
  /\ UNCHANGED <<status, queue, lastRun, fate, lastPromise, ctx, claim, ghost>>

\* The batch activity runs when only await and workflow calls are pending.
UnitDispatch ==
  /\ Dispatching
  /\ PendingOf(OrdinaryCalls) = {}
  /\ CallsIn({"Pending"}) # {}

\* All its calls end at once: the activity failed, more than one call wants
\* to suspend the batch, or the await names a promise it may not.
FinishUnit ==
  /\ UnitDispatch
  /\ run' = [run EXCEPT !.call = WithCalls({"Pending"}, "Done")]
  /\ UNCHANGED <<status, queue, lastRun, fate, promise, lastPromise, ctx, claim, ghost>>

\* Mutant: an await may name any promise it has heard of.
AwaitableByAnyone(p) == promise[p].st \in {"Pending", "Settled", "Pruned"}

\* validate_await_spec_for_active_run
Awaitable(p) ==
  /\ promise[p].st \in {"Pending", "Settled"}
  /\ promise[p].owner = "Model"
  /\ promise[p].scope \in {0, run.id}

ParkOnAwait ==
  /\ UnitDispatch
  /\ \E a \in Calls : PendingOf(AwaitCalls) = {a} /\
     \E waits \in (SUBSET {p \in Promises : Awaitable(p)}) \ {{}},
        mode \in {"All", "Any"}, deadline \in BOOLEAN :
       run' = [run EXCEPT
                 !.status = "Parked",
                 !.park = [kind |-> "await", waits |-> waits, mode |-> mode,
                           deadline |-> deadline],
                 !.call = [c \in Calls |-> IF c # a /\ run.call[c] = "Pending"
                                           THEN "Done" ELSE run.call[c]]]
  /\ UNCHANGED <<status, queue, lastRun, fate, promise, lastPromise, ctx, claim, ghost>>

\* The workflow calls that were admitted mint one runtime-owned promise each
\* and the batch waits for all of them; the others have failed.
ParkOnJoinedCalls ==
  /\ UnitDispatch
  /\ PendingOf(AwaitCalls) = {}
  /\ \E joined \in (SUBSET PendingOf(JoinedCalls)) \ {{}} :
       LET minted == Fresh..(lastPromise + Cardinality(joined)) IN
       /\ lastPromise + Cardinality(joined) <= MaxPromises
       /\ run' = [run EXCEPT
                    !.status = "Parked",
                    !.park = [kind |-> "joined", waits |-> minted, mode |-> "All",
                              deadline |-> FALSE],
                    !.call = [c \in Calls |-> IF c \notin joined /\ run.call[c] = "Pending"
                                              THEN "Done" ELSE run.call[c]]]
       /\ promise' = [p \in Promises |->
                        IF p \in minted
                        THEN [st |-> "Pending", scope |-> run.id, owner |-> "Runtime"]
                        ELSE promise[p]]
       /\ lastPromise' = lastPromise + Cardinality(joined)
  /\ UNCHANGED <<status, queue, lastRun, fate, ctx, claim, ghost>>

-----------------------------------------------------------------------------
(* Unparking.  The host sees a wait that is over, prepares the output in   *)
(* an activity and only then claims the unpark: in between, commands land. *)

WaitSatisfied ==
  LET terminal == {p \in run.park.waits : promise[p].st = "Settled"} IN
  CASE run.park.mode = "All" -> terminal = run.park.waits
    [] run.park.mode = "Any" -> terminal # {}

\* Mutant: a cancel does not wake a parked batch.
AwaitWakesIgnoringCancel ==
  IF ~Active \/ ~BatchParked THEN {}
  ELSE (IF run.park.deadline THEN {"Timeout"} ELSE {})
       \cup (IF run.park.waits # {} /\ WaitSatisfied THEN {"Terminal"} ELSE {})

\* await_wake, for some clock reading: a deadline may or may not have passed.
AwaitWakes ==
  IF ~Active \/ ~BatchParked THEN {}
  ELSE IF run.status = "Cancelling" THEN {"Cancelled"}
  ELSE (IF run.park.deadline THEN {"Timeout"} ELSE {})
       \cup (IF run.park.waits # {} /\ WaitSatisfied THEN {"Terminal"} ELSE {})

ClaimsThisBatch == claim.run = run.id /\ claim.turn = run.turnCount

PrepareUnpark ==
  /\ Open
  /\ claim.wake = "none"
  /\ \E w \in AwaitWakes :
       claim' = [run |-> run.id, turn |-> run.turnCount, wake |-> w]
  /\ UNCHANGED <<status, queue, lastRun, run, fate, promise, lastPromise, ctx, ghost>>

\* Mutant: a claim is taken at its word.
ClaimTrusted == Active /\ BatchParked /\ ClaimsThisBatch

\* overtaken_unpark_claim finds nothing against it
ClaimHolds == Active /\ BatchParked /\ ClaimsThisBatch /\ claim.wake \in AwaitWakes

\* Cancelling the wait of joined calls cancels the promises they wait for.
UnparkBatch ==
  /\ Open
  /\ claim.wake # "none" /\ ClaimHolds
  /\ run' = [run EXCEPT
               !.park = NoPark,
               !.status = IF @ = "Parked" THEN "Running" ELSE @,
               !.call = WithCalls({"Pending"}, "Done")]
  /\ promise' = IF claim.wake = "Cancelled" /\ run.park.kind = "joined"
                THEN Settle(promise, {p \in run.park.waits : promise[p].st = "Pending"})
                ELSE promise
  /\ claim' = NoClaim
  /\ UNCHANGED <<status, queue, lastRun, fate, lastPromise, ctx, ghost>>

\* Mutant: an overtaken claim on the parked batch is kept for later.
DropClaimIfGone ==
  /\ claim.wake # "none" /\ ~(Active /\ BatchParked /\ ClaimsThisBatch)
  /\ claim' = NoClaim
  /\ UNCHANGED <<status, queue, lastRun, run, fate, promise, lastPromise, ctx, ghost>>

\* Overtaken, or the batch it names is not parked any more.
DropClaim ==
  /\ claim.wake # "none" /\ ~(Open /\ ClaimHolds)
  /\ claim' = NoClaim
  /\ UNCHANGED <<status, queue, lastRun, run, fate, promise, lastPromise, ctx, ghost>>

=============================================================================
