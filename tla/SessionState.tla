---------------------------- MODULE SessionState ----------------------------
(***************************************************************************)
(* The reduced state of one agent session (`CoreAgentState`) and the       *)
(* predicates every component of the harness reads from it.                *)
(*                                                                         *)
(* The state is a fold over an append-only event log, and every step of    *)
(* the system is ONE append: a client command that was admitted, a         *)
(* proposal of the planner, or the result of an activity.  The modules     *)
(* that extend this one hold the steps of one component each; AgentSession *)
(* composes them.                                                          *)
(***************************************************************************)
EXTENDS Naturals, Sequences, FiniteSets

CONSTANTS
  PlainCalls,         \* tool calls executed one activity each
  GatedCalls,         \* runtime MCP calls that need a decision first
  AwaitCalls,         \* calls of the built-in `await` tool
  JoinedCalls,        \* workflow-tool calls the batch joins on
  HostedApprovals,    \* approvals a provider asks for itself
  MaxPromises,        \* bound: promises minted in a behaviour
  MaxRuns,            \* bound: runs accepted in a behaviour
  MaxTurns,           \* the configured turn limit of a run
  MaxSteers,          \* bound: steering batches accepted by one run
  CompactionEnabled,  \* the session has a compaction policy
  Features            \* which environment behaviours occur, see below

AllFeatures == {"edits", "manualCompaction", "watermark", "overflow", "fill",
                "storeRejects", "generationFails", "forceClose"}

Calls == PlainCalls \cup GatedCalls \cup AwaitCalls \cup JoinedCalls
Approvals == HostedApprovals \cup GatedCalls
Promises == 1..MaxPromises
RunIds == 1..MaxRuns

ASSUME CallsAssumption ==
  /\ IsFiniteSet(Calls)
  /\ PlainCalls \cap (GatedCalls \cup AwaitCalls \cup JoinedCalls) = {}
  /\ GatedCalls \cap (AwaitCalls \cup JoinedCalls) = {}
  /\ AwaitCalls \cap JoinedCalls = {}
  /\ HostedApprovals \cap Calls = {}

ASSUME BoundsAssumption ==
  /\ MaxPromises \in Nat
  /\ MaxRuns \in Nat \ {0}
  /\ MaxTurns \in Nat \ {0}
  /\ MaxSteers \in Nat
  /\ CompactionEnabled \in BOOLEAN
  /\ Features \subseteq AllFeatures

\* MAX_CONTEXT_RECOVERY_ATTEMPTS
MaxRecoveryAttempts == 2

VARIABLES
  status,      \* lifecycle.status
  queue,       \* runs.queued, ids in order
  lastRun,     \* id_cursors.last_run_id
  run,         \* runs.active, NoRun when there is none
  fate,        \* terminal status by run id (runs.finished)
  promise,     \* promises by id
  lastPromise, \* id_cursors.last_promise_id
  ctx,         \* context and compaction state
  claim,       \* the host's prepared unpark claim
  ghost        \* history: what ended runs left behind

vars == <<status, queue, lastRun, run, fate, promise, lastPromise, ctx, claim, ghost>>

-----------------------------------------------------------------------------
(* Types.                                                                  *)

RunStatuses == {"None", "Running", "Parked", "Cancelling"}
TurnsInFlight == {"Started", "Planned", "GenerationPending"}
TurnOutcomes == {"FinalOutput", "ToolCallsQueued", "ContextLimit",
                 "ApprovalsRequested", "Failed", "Cancelled"}
Fates == {"none", "Completed", "Failed", "Cancelled"}
Wakes == {"Terminal", "Timeout", "Cancelled"}

Parks == [kind: {"none", "await", "joined"}, waits: SUBSET Promises,
          mode: {"All", "Any"}, deadline: BOOLEAN]
NoPark == [kind |-> "none", waits |-> {}, mode |-> "All", deadline |-> FALSE]

\* ActiveRun.  Of `turns` only the latest is ever read, and of the batches
\* only that turn's: `turn` is its phase or, once over, its outcome.
Runs ==
  [id: 0..MaxRuns, status: RunStatuses,
   input: {"missing", "written", "consumed"},
   steered: Nat, written: Nat, seen: Nat,
   turn: {"none"} \cup TurnsInFlight \cup TurnOutcomes, turnCount: Nat,
   drift: SUBSET {"context", "tools"},
   batch: {"none", "active", "done"},
   call: [Calls -> {"absent", "Observed", "Accepted", "Pending", "Done"}],
   park: Parks,
   approval: [Approvals -> {"none", "Pending", "Decided"}],
   attempts: Nat, tried: BOOLEAN, guardTried: BOOLEAN]

NewRun(id, st) ==
  [id |-> id, status |-> st, input |-> "missing",
   steered |-> 0, written |-> 0, seen |-> 0,
   turn |-> "none", turnCount |-> 0, drift |-> {},
   batch |-> "none", call |-> [c \in Calls |-> "absent"], park |-> NoPark,
   approval |-> [a \in Approvals |-> "none"],
   attempts |-> 0, tried |-> FALSE, guardTried |-> FALSE]

NoRun == NewRun(0, "None")

\* scope 0 is PromiseScope::Session
PromiseRecords == [st: {"absent", "Pending", "Settled", "Pruned"},
                   scope: 0..MaxRuns, owner: {"Model", "Runtime"}]
NoPromise == [st |-> "absent", scope |-> 0, owner |-> "Model"]

\* A requested compaction is "Draining" while the drain that admitted the
\* request still admits commands, "Pending" after it, "Sent" once the activity
\* has its request.
PendingPhases == {"Draining", "Pending", "Sent"}

\* `run`: the plan's run, 0 for none.  `moved`: the pending plan or its sent
\* request is out of date.  `settled`: the compactable prefix is not empty.
\* `full`: the entry count is at ENTRY_GUARD_LIMIT.  `fresh`: nothing moved
\* since the last compaction.  `owed`: calls in context with no result there.
Contexts ==
  [phase: {"Idle", "QueuedManual"} \cup PendingPhases,
   trigger: {"none", "Manual", "ContextLimit", "HighWatermark"},
   run: 0..MaxRuns, moved: BOOLEAN,
   settled: BOOLEAN, full: BOOLEAN, fresh: BOOLEAN, owed: SUBSET Calls]

Claims == [run: 0..MaxRuns, turn: Nat, wake: {"none"} \cup Wakes]
NoClaim == [run |-> 0, turn |-> 0, wake |-> "none"]

TypeOK ==
  /\ status \in {"New", "Open", "Closed"}
  /\ queue \in Seq(RunIds)
  /\ lastRun \in 0..MaxRuns
  /\ run \in Runs
  /\ fate \in [RunIds -> Fates]
  /\ promise \in [Promises -> PromiseRecords]
  /\ lastPromise \in 0..MaxPromises
  /\ ctx \in Contexts
  /\ claim \in Claims
  /\ ghost \in [asked: SUBSET RunIds, lost: SUBSET RunIds, unseen: SUBSET RunIds]

Init ==
  /\ status = "New"
  /\ queue = <<>>
  /\ lastRun = 0
  /\ run = NoRun
  /\ fate = [r \in RunIds |-> "none"]
  /\ promise = [p \in Promises |-> NoPromise]
  /\ lastPromise = 0
  /\ ctx = [phase |-> "Idle", trigger |-> "none", run |-> 0, moved |-> FALSE,
            settled |-> FALSE, full |-> FALSE, fresh |-> FALSE, owed |-> {}]
  /\ claim = NoClaim
  /\ ghost = [asked |-> {}, lost |-> {}, unseen |-> {}]

-----------------------------------------------------------------------------
(* Predicates shared by the planners and the reducers.                     *)

Open == status = "Open"
Active == run.id # 0
Running == Active /\ run.status = "Running"
Parked == Active /\ run.status = "Parked"
Cancelling == Active /\ run.status = "Cancelling"
TurnInFlight == run.turn \in TurnsInFlight
BatchActive == run.batch = "active"
BatchParked == run.park.kind # "none"

\* No turn and no batch is under way.
Drained == Active /\ ~TurnInFlight /\ ~BatchActive

\* A completed tool-call turn whose batch has not started yet.
HasUnstartedToolCallTurn == run.turn = "ToolCallsQueued" /\ run.batch = "none"

CompactionPending == ctx.phase \in PendingPhases

\* Mutant: the boundary forgets the turn whose calls have no batch yet.
SafeBoundaryIgnoringCalls ==
  /\ ~CompactionPending
  /\ ~Active \/ (run.status = "Running" /\ ~TurnInFlight /\ ~BatchActive)

\* compaction_safe_boundary
SafeBoundary ==
  /\ ~CompactionPending
  /\ \/ ~Active
     \/ /\ run.status = "Running"
        /\ ~TurnInFlight /\ ~BatchActive /\ ~HasUnstartedToolCallTurn

ToolsFrozen == TurnInFlight \/ BatchActive \/ HasUnstartedToolCallTurn

PendingApprovals == {a \in Approvals : run.approval[a] = "Pending"}
CallsIn(st) == {c \in Calls : run.call[c] \in st}

TurnLimitReached == Active /\ run.turnCount >= MaxTurns
HasUnconsumedSteering == run.seen < run.steered
HasUnmaterializedSteering == run.written < run.steered

-----------------------------------------------------------------------------
(* Promises: a promise settles once, and its scope names who ends it.      *)

PendingFor(scope) ==
  {p \in Promises : promise[p].st = "Pending" /\ promise[p].scope = scope}

\* Settling keeps scope and owner.
Settle(f, ps) == [p \in Promises |-> IF p \in ps THEN [f[p] EXCEPT !.st = "Settled"] ELSE f[p]]

\* prune_terminal_promises: which settled promises are beyond the retained
\* ones is data, so any of them may go.  Pending ones always stay.
Prunings(f) ==
  {[p \in Promises |-> IF p \in gone THEN [f[p] EXCEPT !.st = "Pruned"] ELSE f[p]] :
     gone \in SUBSET {p \in Promises : f[p].st = "Settled"}}

-----------------------------------------------------------------------------
(* Context effects.                                                        *)

\* Entries were appended: the revision moved, and the count may have reached
\* the guard limit.
Appended(c) ==
  {[c EXCEPT !.fresh = FALSE, !.moved = @ \/ c.phase = "Sent", !.full = f] :
     f \in IF "fill" \in Features THEN {c.full, TRUE} ELSE {c.full}}

\* A turn planned earlier reads the revision of its plan.
ContextMovedUnder(r) ==
  IF r.turn \in {"Planned", "GenerationPending"}
  THEN [r EXCEPT !.drift = @ \cup {"context"}] ELSE r

-----------------------------------------------------------------------------
(* finish_active_run, with the promise cancellations that                  *)
(* with_run_terminal_side_effects puts in the same append.  `kept` is how  *)
(* many steering batches are in context when the run ends.                 *)

\* Mutant: the promises of a run outlive it.
FinishRunLeavingPromises(how, kept) ==
  /\ run' = NoRun
  /\ fate' = [fate EXCEPT ![run.id] = how]
  /\ promise' \in Prunings(promise)
  /\ ghost' = [ghost EXCEPT
       !.lost = @ \cup (IF kept < run.steered THEN {run.id} ELSE {}),
       !.unseen = @ \cup (IF run.seen < run.steered THEN {run.id} ELSE {})]

FinishRun(how, kept) ==
  /\ run' = NoRun
  /\ fate' = [fate EXCEPT ![run.id] = how]
  /\ promise' \in {Settle(f, PendingFor(run.id)) : f \in Prunings(promise)}
  /\ ghost' = [ghost EXCEPT
       !.lost = @ \cup (IF kept < run.steered THEN {run.id} ELSE {}),
       !.unseen = @ \cup (IF run.seen < run.steered THEN {run.id} ELSE {})]

=============================================================================
