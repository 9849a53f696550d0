------------------------- MODULE ApprovalComponent --------------------------
(***************************************************************************)
(* The approval component: a run parks on decisions a provider or a gated  *)
(* runtime MCP call asked for.  Decisions themselves are commands, see     *)
(* Admission.                                                              *)
(***************************************************************************)
EXTENDS ToolComponent

ParkOnApprovals ==
  /\ PlansApprovalPark
  /\ run' = [run EXCEPT !.status = "Parked"]
  /\ ctx' = IF ctx.phase = "Draining" THEN [ctx EXCEPT !.phase = "Pending"] ELSE ctx
  /\ UNCHANGED <<status, queue, lastRun, fate, promise, lastPromise, claim, ghost>>

\* Calls of the dispatch that report a gate: pending, nothing decided yet.
GatedNow == {c \in PendingOf(GatedCalls) : run.approval[c] = "none"}

\* RunParked with a batch open: every open approval belongs to a call of it.
RuntimeBatchApproval == PendingApprovals \subseteq GatedCalls

\* The window drained: one append requests every decision and parks once.
ParkOnGatedCalls ==
  /\ Dispatching /\ RuntimeBatchApproval
  /\ \E gated \in (SUBSET GatedNow) \ {{}} :
       run' = [run EXCEPT
                 !.status = "Parked",
                 !.approval = [a \in Approvals |-> IF a \in gated THEN "Pending"
                                                   ELSE run.approval[a]]]
  /\ UNCHANGED <<status, queue, lastRun, fate, promise, lastPromise, ctx, claim, ghost>>

=============================================================================
