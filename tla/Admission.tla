----------------------------- MODULE Admission ------------------------------
(***************************************************************************)
(* Commands.  The session workflow admits client commands at every action  *)
(* boundary and while an activity runs, except the ones a frozen request   *)
(* cannot stand; the harness then accepts or rejects each one against the  *)
(* live state.  A rejected command changes nothing and is not a step.      *)
(***************************************************************************)
EXTENDS RunComponent, TurnComponent, ApprovalComponent, ContextComponent

RunControl == {"RequestRun", "SteerRun", "CancelRun", "DecideApproval",
               "ResolvePromise", "CompactContext", "ForceClose", "Close"}
Edits == {"EditContext", "EditTools"}

\* Mutant: an edit passes while a turn is in flight.
AdmittedDuringTurn(command) ==
  /\ Open
  /\ ctx.phase \in {"Pending", "Sent"} => command \in {"CancelRun", "ForceClose"}

\* drain_pending_admissions: a pending compaction lets only cancels and force
\* close pass, a turn in flight only what moves no planned revision.  The rest
\* waits.  Both are read when a drain starts, so the commands behind a
\* compaction request in one drain still pass.  Every command below needs an
\* open session.
Admitted(command) ==
  /\ Open
  /\ ctx.phase \in {"Pending", "Sent"} => command \in {"CancelRun", "ForceClose"}
  /\ TurnInFlight => command \in RunControl

OpenSession ==
  /\ status = "New"
  /\ status' = "Open"
  /\ UNCHANGED <<queue, lastRun, run, fate, promise, lastPromise, ctx, claim, ghost>>

RequestRun ==
  /\ Admitted("RequestRun") /\ ~CompactionPending
  /\ lastRun < MaxRuns
  /\ lastRun' = lastRun + 1
  /\ queue' = Append(queue, lastRun')
  /\ UNCHANGED <<status, run, fate, promise, lastPromise, ctx, claim, ghost>>

\* A parked run takes steering without waking.
SteerRun ==
  /\ Admitted("SteerRun")
  /\ Active /\ run.status \in {"Running", "Parked"}
  /\ run.steered < MaxSteers
  /\ run' = [run EXCEPT !.steered = @ + 1]
  /\ UNCHANGED <<status, queue, lastRun, fate, promise, lastPromise, ctx, claim, ghost>>

\* Open approvals are cancelled with the request.
CancelActiveRun ==
  /\ Admitted("CancelRun")
  /\ Active /\ run.status \in {"Running", "Parked"}
  /\ run' = [run EXCEPT
               !.status = "Cancelling",
               !.approval = [a \in Approvals |-> IF run.approval[a] = "Pending" THEN "Decided"
                                                 ELSE run.approval[a]]]
  /\ ghost' = [ghost EXCEPT !.asked = @ \cup {run.id}]
  /\ UNCHANGED <<status, queue, lastRun, fate, promise, lastPromise, ctx, claim>>

Without(q, i) == SubSeq(q, 1, i - 1) \o SubSeq(q, i + 1, Len(q))

\* Mutant: a cancelled queued run stays queued.
CancelKeepingQueued ==
  /\ Admitted("CancelRun")
  /\ \E i \in 1..Len(queue) :
       /\ fate' = [fate EXCEPT ![queue[i]] = "Cancelled"]
       /\ ghost' = [ghost EXCEPT !.asked = @ \cup {queue[i]}]
  /\ UNCHANGED <<status, queue, lastRun, run, promise, lastPromise, ctx, claim>>

CancelQueuedRun ==
  /\ Admitted("CancelRun")
  /\ \E i \in 1..Len(queue) :
       /\ queue' = Without(queue, i)
       /\ fate' = [fate EXCEPT ![queue[i]] = "Cancelled"]
       /\ ghost' = [ghost EXCEPT !.asked = @ \cup {queue[i]}]
  /\ UNCHANGED <<status, lastRun, run, promise, lastPromise, ctx, claim>>

\* Mutant: the first decision resumes the run.
LastDecision(a) == run.status = "Parked"

\* The decision being admitted is the last one the run waits on, and no batch
\* of it waits on promises.
DecisionUnparks(a) ==
  run.status = "Parked" /\ ~BatchParked /\ PendingApprovals = {a}

\* A provider's approval is answered by an entry in context.
DecideApproval(a) ==
  /\ Admitted("DecideApproval")
  /\ Active /\ run.status \in {"Running", "Parked"}
  /\ a \in PendingApprovals
  /\ LET decided == [run EXCEPT !.approval[a] = "Decided",
                       !.status = IF DecisionUnparks(a) THEN "Running" ELSE @]
     IN IF a \in HostedApprovals
        THEN run' = ContextMovedUnder(decided) /\ ctx' \in Appended(ctx)
        ELSE run' = decided /\ UNCHANGED ctx
  /\ UNCHANGED <<status, queue, lastRun, fate, promise, lastPromise, claim, ghost>>

\* Every transport (push, poll, timer, delivery failure) settles a promise
\* through this one funnel.  A settled or pruned one stays as it is.
ResolvePromise(p) ==
  /\ Admitted("ResolvePromise")
  /\ promise[p].st = "Pending"
  /\ promise' = Settle(promise, {p})
  /\ UNCHANGED <<status, queue, lastRun, run, fate, lastPromise, ctx, claim, ghost>>

\* Away from a safe boundary the request waits in the queue.
CompactContext ==
  /\ "manualCompaction" \in Features
  /\ Admitted("CompactContext")
  /\ ctx.phase = "Idle" /\ ctx.settled
  /\ IF SafeBoundary
     THEN CompactionRequested("Manual", "Draining")
     ELSE ctx' = [ctx EXCEPT !.phase = "QueuedManual"] /\ UNCHANGED run
  /\ UNCHANGED <<status, queue, lastRun, fate, promise, lastPromise, claim, ghost>>

\* require_no_pending_compaction, and its mutant: nothing is asked of it.
ContextMayChangeAnytime == TRUE
ContextMayChange == ~CompactionPending

\* Entries of a client or of a runtime catalog are put, replaced or removed.
EditContext ==
  /\ "edits" \in Features
  /\ Admitted("EditContext")
  /\ ContextMayChange
  /\ \E settled \in BOOLEAN, full \in {ctx.full, FALSE} :
       ctx' \in {[c EXCEPT !.full = full] :
                   c \in Appended([ctx EXCEPT !.settled = settled, !.moved = CompactionPending])}
  /\ run' = ContextMovedUnder(run)
  /\ UNCHANGED <<status, queue, lastRun, fate, promise, lastPromise, claim, ghost>>

\* Mutant: tools change whenever the session is open.
ToolsMayChangeAnytime == TRUE

ToolsMayChange == ~ToolsFrozen

\* Replacing or patching the toolset.
EditTools ==
  /\ "edits" \in Features
  /\ Admitted("EditTools")
  /\ ToolsMayChange
  /\ run' = IF TurnInFlight \/ HasUnstartedToolCallTurn
            THEN [run EXCEPT !.drift = @ \cup {"tools"}] ELSE run
  /\ UNCHANGED <<status, queue, lastRun, fate, promise, lastPromise, ctx, claim, ghost>>

-----------------------------------------------------------------------------
(* Ends that do not wait for the run planner.                              *)

\* Entries that leave no call of the run unanswered.
Answered(c) == IF c.owed = {} THEN {c}
               ELSE Appended([c EXCEPT !.owed = {}])

\* The cancelling watchdog: a run that does not drain in time.
ForceCancelRun ==
  /\ Open /\ Cancelling
  /\ ctx' \in Answered(ctx)
  /\ FinishRun("Cancelled", run.written)
  /\ UNCHANGED <<status, queue, lastRun, lastPromise, claim>>

\* Mutant: failing a run drops the steering it accepted.
FailRunDroppingSteering ==
  /\ Open /\ Active
  /\ ctx' \in Answered(ctx)
  /\ FinishRun("Failed", run.written)
  /\ UNCHANGED <<status, queue, lastRun, lastPromise, claim>>

\* Mutant: failing a run leaves its open calls without results.
FailRunUnanswered ==
  /\ Open /\ Active
  /\ ctx' \in IF HasUnmaterializedSteering /\ ~Cancelling THEN Appended(ctx) ELSE {ctx}
  /\ FinishRun("Failed", IF Cancelling THEN run.written ELSE run.steered)
  /\ UNCHANGED <<status, queue, lastRun, lastPromise, claim>>

\* A step that the harness or the store refused fails its run: open calls
\* answered, approvals ended, steering written, then the failure.
FailRun ==
  /\ Open /\ Active
  /\ \E c \in Answered(ctx) :
       ctx' \in IF HasUnmaterializedSteering /\ ~Cancelling THEN Appended(c) ELSE {c}
  /\ FinishRun("Failed", IF Cancelling THEN run.written ELSE run.steered)
  /\ UNCHANGED <<status, queue, lastRun, lastPromise, claim>>

\* The store may refuse what any step of the drive proposes.
FailStoredStep == "storeRejects" \in Features /\ FailRun

\* The harness refuses the park of a gated call beside a provider's approval.
FailRefusedPark == Dispatching /\ GatedNow # {} /\ ~RuntimeBatchApproval /\ FailRun

CloseSession ==
  /\ Admitted("Close")
  /\ ~Active /\ queue = <<>> /\ ctx.phase = "Idle" /\ PendingFor(0) = {}
  /\ status' = "Closed"
  /\ UNCHANGED <<queue, lastRun, run, fate, promise, lastPromise, ctx, claim, ghost>>

\* Mutant: closing by force leaves queued runs without an end.
ForceCloseKeepingQueue ==
  /\ "forceClose" \in Features
  /\ Admitted("ForceClose")
  /\ status' = "Closed" /\ queue' = <<>> /\ run' = NoRun
  /\ fate' = [r \in RunIds |-> IF r = run.id THEN "Cancelled" ELSE fate[r]]
  /\ promise' = Settle(promise, PendingFor(0) \cup PendingFor(run.id))
  /\ ctx' = Finished(ctx)
  /\ UNCHANGED <<lastRun, lastPromise, claim, ghost>>

\* One append ends the compaction, the active run, every queued run and every
\* pending promise, then closes.
ForceCloseSession ==
  /\ "forceClose" \in Features
  /\ Admitted("ForceClose")
  /\ status' = "Closed"
  /\ queue' = <<>>
  /\ run' = NoRun
  /\ fate' = [r \in RunIds |-> IF r = run.id \/ \E i \in 1..Len(queue) : queue[i] = r
                               THEN "Cancelled" ELSE fate[r]]
  /\ promise' \in {Settle(f, PendingFor(0) \cup PendingFor(run.id)) :
                     f \in IF Active THEN Prunings(promise) ELSE {promise}}
  /\ ctx' = IF ctx.phase = "Idle" THEN ctx ELSE Finished(ctx)
  /\ ghost' = [ghost EXCEPT !.asked = @ \cup ({run.id} \ {0}) \cup {queue[i] : i \in 1..Len(queue)}]
  /\ UNCHANGED <<lastRun, lastPromise, claim>>

=============================================================================
