# Lightspeed: a TLA+ model of its sessions, stores, bots and chats

Lightspeed runs agents as durable workflows. The part everything else depends on
is the *session*: a deterministic, event-sourced harness (`crates/harness`) that
decides what an agent does next, hosted by one Temporal workflow per session
(`crates/temporal-workflow/src/workflows/session`) that executes what the harness
asks for and admits what clients send. Around it stand the stores (session log,
session catalog, content-addressed blobs) and the workflows that drive sessions
from outside (bots, and the chats bots talk in). This project models these parts,
checks them with TLC and proves the safety properties of the session, its log, the
catalog and the blob store with TLAPS.

Contents: the system's parts (1), the modules and how they correspond to the code
(2), the runs and what they show (3), fairness (4), the proofs (5), what is only
model-checked (6), what is not modelled (7) and the state of the project (8).

## 1. The system

### Parts, state, operations

| part | state it keeps | operations | what makes it correct |
|---|---|---|---|
| planner (`core/planning.rs`) | none | asks approval, run, tooling, context and turn planners in that order; first proposal wins | something is always planned, executed or waited for |
| runs (`components/run.rs`) | queue, active run, ended runs, steering, recovery attempts | accept, start, steer, cancel, complete, fail, force-cancel | each accepted run ends once, with its steering in the record |
| turns (`turn.rs`, `llm.rs`) | the active turn, its planned revisions | start, plan, request, complete, cancel | the request that is sent is the one that was planned |
| tools (`tooling.rs`) | the active batch, its calls, its park | start, invoke, complete, cancel, park, unpark; toolset changes | every call the model made gets a result before the next request |
| approvals (`approval.rs`) | approvals of the active run | request, park, decide, unpark, cancel | a parked run resumes exactly when its last decision lands |
| promises (`promise.rs`) | promises by id, with scope and owner | create, resolve, fail, cancel, detach, prune | settle once; never outlive who can end them |
| context (`context.rs`) | entries, revision, compaction phase and plan | append, edit, request, queue, abandon and finish a compaction | a compaction rewrites only what nothing in flight refers to |
| admission (`core/admit.rs`) | none | accepts or rejects a command against the live state | a rejected command changes nothing |
| drive (`core/drive.rs`) | none | plan → append, or request → activity → resume | results are applied to the state they were asked in, or dropped |
| session workflow (`session/*.rs`) | pending admissions, unpark claims, watchdog | drains commands at boundaries and during activities, preempts, dispatches, claims, forces | commands cannot overtake a frozen request; a cancel always lands |
| session log (`storage/session.rs`, `store-pg/session.rs`, `activities/storage.rs`) | the events and the head | conditional append, confirmation of an earlier attempt | an append takes effect once and is acknowledged only if it did |
| executions of a session (`bootstrap`, `restart`, `wait_loop`, gateway lifecycle) | the log as applied, what is under way, emissions to send | start, load, recover, append, stop, roll over, complete, restart, direct close | one legal history, no work twice, every holder notified |
| session catalog (`store-pg/session.rs`, reaper) | a row per session: parent, fork source, retention root, status | create, delegate, fork, clone, retain, delete, purge | no row loses a row it depends on; caps and deadlines hold |
| blobs and collector (`store-pg/blob.rs`, `cas_sweep.rs`, `reaper.rs`) | rows, objects, roots, edges, cursor, leader | put, stream, retain, attach, release; scan, delete rows, delete objects | what is held can be read; garbage goes |
| bot controller (`workflows/bots`) | queues, lanes, sidecars, generations, budget | accept, dispatch, start, wait, settle, sweep, rotate, reconcile, continue as new, close | an event is settled once, within budget, whatever dies |
| conversation (`workflows/channels`, `crates/channels`) | three inboxes, what became of messages, calls and deliveries, bounded memories of ids | take, dedupe, respond, send, archive, answer, fall back, continue as new | nothing is sent twice or against a cancel; everyone is answered truthfully |
| environments, auth, gateway, model clients, tools, API, platform | their own | see `PROJECT.json`, "components" | outside a model's reach, or presentation |

### Interaction

A step of the session is **one append** to its event log. It comes from one of
three places: a proposal of the planner, the result of an activity (generation,
tool call or batch, compaction, unpark preparation), or an admitted command. The
host is a single workflow, so appends do not overlap. Between any two of them
other appends may land, and what a result or a claim was prepared against may be
gone when it arrives. That is where the difficulty lies:

* commands land while an activity runs, and are filtered by what it froze;
* a turn's request is re-derived from state when it is sent, so a moved revision
  is an error, and so is a toolset change between a turn's calls and their batch;
* a run can park on decisions, on promises or on both, and be cancelled,
  steered, failed, forced or closed while it is parked;
* an unpark is prepared in an activity and claimed later;
* several paths end a run and each has to settle its promises, answer its calls
  and write its steering down;
* compaction, recovery, the entry guard and turns compete for one boundary.

Below the session, "one append" is itself a protocol: the activity that appends is
retried, its answer can be lost, and an attempt of an execution that has stopped can
still reach the store while the next execution recovers. Beside it, catalog and blob
operations read without a lock what they then act on in a transaction, and a collector
deletes in several steps. Above it, bots and chats start runs and send messages by calls
whose outcome they may never learn, while their own workflows drop every future they poll
when they continue as new.

`PROJECT.json` lists these as hazards, each at its line, with the properties
aimed at it.

## 2. Modules

```
SessionState            state, types, shared predicates, the end of a run
  Planner               what each component planner proposes, in order
    RunComponent        StartRun EndRun FailAtEntryGuard EndCancelledRun
    TurnComponent       StartTurn PlanTurn RequestGeneration CancelTurn + generation results
    ToolComponent       batches, calls, promises of calls, parks, unpark claims
      ApprovalComponent parks for decisions
    ContextComponent    input, steering, compaction and its activity
      Admission         commands, watchdog, refused steps, closing
        AgentSession    Next, fairness, the properties
          MCAgentSession         TLC instance (symmetry)
          AgentSessionProofs     types, promises, planned requests
            SessionRunProofs       compaction and open calls, runs, steering, waits

Journal                 what a log promises (abstract)
SessionLog              conditional append, confirmation, strays
  SessionHost           the executions over the log; implements Journal
    MCSessionHost
    SessionHostProofs     the view is the log; the refinement
      SessionHistoryProofs  legal history, work once, ends notified

SessionTree             catalog, retention, deletion     MCSessionTree
  SessionTreeProofs       cap, what deletion takes, nothing orphaned or dangling

BlobStore               writers against the collector    MCBlobStore, BlobStoreProofs
BotController           the bot's loop, lanes, sidecars  MCBotController
  BotControllerProofs     events, ends, teardown, budget
ChannelConversation     the chat's loop and lanes        MCChannelConversation
  ChannelConversationProofs  what is sent and what is answered
```

### The session (`AgentSession` and the modules it extends)

**State.** `status`, `queue`, `lastRun`, `run`, `fate`, `promise`, `lastPromise`
and `ctx` are `CoreAgentState`. `run` is the `ActiveRun` record. Only the latest
turn of a run is ever read by a decision, and only that turn's batch, so the run
holds one of each. `claim` is the host's prepared unpark (`pending_tool_batch_unparks`).
`ghost` is history for three properties: who was asked to stop, and which ended
runs left steering unwritten or unseen.

**Data.** Calls are model values in four classes the code treats differently:
ordinary, gated by a runtime approval, `await`, and joined workflow calls. Context
entries are abstracted to what decisions read: whether there is a compactable
prefix (`settled`), whether the count is at the guard limit (`full`), whether
anything changed since the last compaction (`fresh`), which calls have no result
(`owed`). Revisions appear as `drift` and `moved`: whether the revision a turn or
a compaction was planned against is still the current one. Token and entry
thresholds above `fresh`, retention limits and clocks are nondeterministic choices.

**Planner.** `plan_next` is a fixed sequence. Each `Plans…` predicate is one
component's own condition, and `RunTurn`, `ToolTurn`, `ContextTurn` and `TurnTurn`
say that no earlier component proposes anything. `PlannerIdle` is the state in which
the drive looks for an activity to execute.

**Admission.** `Admitted` is the host's filter: a pending compaction lets cancels
and force close through, a turn in flight lets run control through. Both are read
when a drain starts, so commands behind a compaction request in the same drain still
pass; the phase `Draining` is that window. The command's own conditions follow in
its action. A command that is rejected, or repeats what is already so, changes
nothing and is not a step.

**Ends of a run.** All go through `FinishRun`, which cancels the run's pending
promises in the same append, as `with_run_terminal_side_effects` does. The
planner ends runs by `EndRun`, `FailAtEntryGuard` and `EndCancelledRun`; the others
are `RecoveryFails`, `ForceCancelRun`, `FailRun` and `ForceCloseSession`, which
must each do by themselves what the planner would have done first.

### The log and its executions (`Journal`, `SessionLog`, `SessionHost`)

`log` is the stored log, `abroad` the appends an attempt of which may still land
(`LandUnheard`, `LandHeard`, `StrayAttempt`), at any later time and any number of times.
`Commit` is the transaction that compares the head under the row's lock; `Confirms` is
`confirm_existing_append`, which takes a head that moved for success when the events
behind it are the request's own. An execution has a `phase`, the `view` it has applied,
the append it awaits (`pending`) and the emissions it still has to send (`outbox`).
`Load`, `FailInterrupted` and `FinishRecovery` are the restart; `RollOver` and `Complete`
the ends it chooses; `Stop` the one it does not. The
`ForceClose…` actions are the gateway closing a session no execution serves: the close is
prepared from one load and appended later, the closed state is loaded again, and the
holders of the runs it still has a record of (`Retained`) are signalled one by one. The gateway
may fail or stop between any two of these, and a signal that fails is only logged
(`missed`). A session found closed already has its holders told again. A run is reduced to what recovery tells apart:
accepted, started, worked, parked, resumed, ended.

`Journal` is the abstract specification: an append takes effect at most once, whole, at
the end, and is acknowledged only if it did. `SessionHost` implements it with `log`,
`applied` and `acked` mapped to themselves.

### The catalog (`SessionTree`)

`row` is the catalog, `request` the multi-row operations under way with what each read
before it locked. Reading and committing are separate actions (`ReadParent` and
`CreateChild`, `ReadSource` and `CreateFork`, `ReadTarget` and `DeleteClosedSessions`), so
everything may happen in between. `Reachable` is the recursive query of a deletion,
stated as the least set closed under dependence. Ids of removed sessions are not used
again (`used`). Clients may choose an id and those of bots and subagents are derived, so this
leaves out an id that is used again after its purge.

### Blobs (`BlobStore`)

`rows`, `objects`, `roots`, `edges` and `cursor` are the tables and the bucket, `writer` the
put each writer is in, `sweeper` the pass each collector is in, `leader` the advisory lock.
An action is one statement, one object-store call or one read of the clock. A writer may
die between any two; a sweeper may lose its lead and go on; a pass may fail. `granted` is
history: the time from which a reference that was handed out has its grace.

### Bots (`BotController`)

Between two awaits the loop or one lane runs undisturbed; an action is that stretch.
`pending`, `buffer`, `futures`, `sidecar` and `settling` are where a delivery can be; `loop`
is what the loop awaits. The sessions a bot drives are external (`world`): they are opened,
die, take foreign work and report ends. A start whose answer was an outage stays `abroad`
and may still land.

`futures` are the lanes themselves and `active` is what the books (`active_by_session`) have
under each session; the loop only looks at the books. The two differ while a routed session
that existed before refuses its tools: the lane already ensures the next generation
(`LaneMismatch`), and its entry is moved only when that is done (`RekeyLane`).

A reconcile of the main session is several awaits (`ReconcileBegins`, `ReconcileReads`,
`ReconcileRolls`, and the answers of an ensure). An ensure that fails may have opened the session.
A failure streak has one rotation: a session that refuses its profile or turns out dead in the
ensure spends it (`refused`, the code's `reconcile_rotated`), and after that the controller only
degrades (`Degraded`). `seen` is the capped tail of event ids (`SeenCap`, `Remember`); an event whose id
was forgotten is accepted again. `PerEvent` are the bases that stand for one event: closing
their session forgets the generation (`IdleClosed`), so a late event starts at the first
again, finds it closed and moves on.

### Chats (`ChannelConversation`)

Signals only fill the inboxes (`inbound`, `emissions`, `receipts`). The loop handles provider
messages inline (`loop`), and gives every pushed call and every finished delivery a lane
(`lane`). Lanes are polled while the loop awaits (`LanesPolled`). A call's lane goes
through prepare, deliver (one command per chunk), archive, receipt, answer; `StartCommand`
and `StepCancelled` are the two halves of the cancellable `step`. The connector is
external: a command that was asked for may reach the provider at any later time, also
after the workflow gave it up (`Lands`). `ContinueAsNew` cuts the memories of ids to their
newest, as `compact_state` does; `heardIn` and `heardEm` are the uncut history. Of the
finished deliveries it keeps the newest `CarryDeliveries` in the order of their records
(`behind`, `Dropped`); active ones stay. `since` is history: the deliveries recorded since one was.

### Bounds

`MaxRuns`, `MaxPromises` and `MaxSteers` bound what clients do; `MaxTurns` is the session's
configured turn limit; `MaxExecutions`, `MaxTime`, `MaxRows`, `MaxGen`, `MaxFailures`,
`MaxRepeats`, `MaxContinues`, `MaxSignals` and `MaxTroubles` bound faults, time and signals.
`ResentRunTerminals`, `RetainedRuns`, `SeenCap`, `CarrySeen`, `CarryCancels` and `CarryDeliveries` are the
code's own limits (from 8 to 2048 there), made small. `Features` selects
which behaviours of the environment occur, so that each run spends its states on the
interplay it is about; across the runs every behaviour occurs.

Definitions whose comment starts with "Mutant" are plausible mistakes in the
definition after them. They are in no specification: each is substituted for that
definition once, to see that the property about it is able to fail.

## 3. Runs

Deadlock checking is off in all runs: an idle session, bot or chat waits for clients, a
closed one rests, and bounds end everything else. `NoSilentStall` and the liveness
properties say the part of it that matters.

| run | instance | checks |
|---|---|---|
| `edits` | 2 runs, 3 turns, 1 steer; 1 ordinary and 2 gated calls, 2 provider approvals; edits, manual and watermark compaction, failed generations, refused steps, force close | `PlannedRequestHolds`, `CompactionFrozen`, `OpenCallsAreAnswered`, `RunsAccountedFor`, `CompletedRunSawSteering`, `CancelledOnRequest`, `NoSilentStall` |
| `promises` | 1 run, 2 turns, 2 promises; ordinary, gated, await and joined call; force close | `TypeOK`, `NoOrphanPromise`, `NoSilentStall`, `PromisesSettleOnce`, `UnparksHonestly`, `CancelledRunEnds`, `SatisfiedWaitResumes` |
| `compaction` | 1 run, 4 turns, 1 steer; a provider approval; overflow, full context, edits, manual compaction, refused steps | `CompactionAtBoundary`, `SteeringKept`, `RunMakesProgress`, `CompactionAnswered` |
| `mixed_approvals` | 1 run; a gated call and a provider approval | `GatedCallsCanPark`, **violated** |
| `takeover` | 1 run, 3 executions; stops, restarts, rollovers, parks, closes and direct closes | `ViewIsLog`, `HistoryIsLegal`, `WorkDoneOnce`, `TerminalsKept`, `ClosedTellsEveryone`, `RecoveryEnds`, `ImplementsJournal` |
| `tree` | 3 sessions, 2 operations at once, cap 1, depth 2 | `NothingOrphaned`, `NothingDangling`, `DelegationCapHolds`, `ReaperRespectsRetention` |
| `blobs` | a large blob that an inline one embeds, 1 writer, 1 sweeper, clock up to 2, 2 incarnations, 1 failure | `HeldIsReadable`, `GarbageIsCollected` |
| `sweepers` | one large blob, 2 writers, 2 sweepers, otherwise the same | `FreshRefIsGood` |
| `bot` | 3 events (queue, steer, append) for the main session, 2 generations, 2 troubles | `EventsAccounted`, `TerminalIsOwn`, `ClosedSettlesAll` |
| `live_bot` | 2 events, main and routed per event, one coalesced; 1 remembered id; budget 1, 2 generations, 1 trouble; starts with the rotation of a reconcile spent or not | `BudgetHolds`, `EventIsSettled` |
| `bot_moved` | 2 events, 3 troubles | `RunsOnce`, **violated** |
| `chat` | a message, a send of two commands with its cancellation, 2 deliveries (1 with a run to look at), of these any 4 signals; 1 failure, 1 repeat, 1 continue-as-new, memories of one id and one delivery | `AnsweredHonestly`, `NoUnwantedSend`, `EverythingSettles` |

What they show, in the code's terms:

* **Nothing stalls silently** (`NoSilentStall`). Whenever the planner has nothing to
  propose, an active run waits for an activity that will answer, a pending decision,
  a pending promise or a deadline. A batch that parked on a pruned promise, or a run
  resumed by the first of two decisions, would break it.
* **Requests are what was planned** (`PlannedRequestHolds`, `CompactionFrozen`). The
  admission filter and the rejection rules are enough between them: neither a turn's
  request nor a compaction's plan is ever overtaken.
* **Calls and results stay together** (`OpenCallsAreAnswered`,
  `CompactionAtBoundary`). However a run ends in an open session, its calls are
  answered, and no compaction starts between a call and its result.
* **Acknowledged steering is not lost** (`SteeringKept`, `CompletedRunSawSteering`).
  A failed run has it in the record; a completed run has answered it.
* **Ends are honest** (`RunsAccountedFor`, `CancelledOnRequest`).
* **Waits and promises** (`UnparksHonestly`, `PromisesSettleOnce`, `NoOrphanPromise`).
* **The log is one history** (`ViewIsLog`, `HistoryIsLegal`, `ImplementsJournal`),
  although requests are confirmed by comparing content, strays land late and the gateway
  closes from a stale load. **Work is done once** (`WorkDoneOnce`), and **ends are
  notified** (`TerminalsKept`, `ClosedTellsEveryone`): by whoever completes a session, and by a
  direct close that reports success, but for signals that failed.
* **The catalog keeps together** (`NothingOrphaned`, `NothingDangling`): the unlocked read
  decides only which rows to lock, and everything is looked at again under the locks.
* **Collection is safe and complete** (`HeldIsReadable`, `FreshRefIsGood`,
  `GarbageIsCollected`): the touch by every put, the recheck under the lock and the
  fresh key of every upload are each needed.
* **A bot's events are neither lost nor doubled in its own books** (`EventsAccounted`), and
  a lane only takes the end of its own run (`TerminalIsOwn`). A bot that is torn down gives
  every event it held an outcome (`ClosedSettlesAll`; not what a sidecar held), and it starts no more runs in a day than
  it may (`BudgetHolds`).
* **A chat answers once and truthfully** (`AnsweredHonestly`, `NoUnwantedSend`).
* **Progress** (section 4).

### Disagreements between text and code

`mixed_approvals`. A turn may carry a provider's approval request and a gated runtime MCP
call. The batch starts first, the gated call asks to park the run, and the reducer refuses:
with a batch open it parks only when every pending approval is a runtime one
(`approval.rs:257`). The host then fails the run. The documentation says the run
parks once for every call waiting on a decision
(`docs/documentation/how-it-works/tools-and-controller-workflows.md:86`). The action
`FailRefusedPark` keeps this path in every other run.

`bot_moved`. A run start that was answered by an outage may have landed. The retry can find
the session dead, and `retry_on_successor` then moves the delivery to the next generation,
where it runs again. The comment on it says that no run started (`lanes.rs:305`).

### Why the bounds are enough

*Session.* Two runs make a first and a second run's leftovers meet and let one be queued,
cancelled and started while the other is active. Three turns are a turn with calls, one
that overflows or answers, and the turn limit; four let recovery reach its limit of two
attempts and a further turn. Two gated calls and two provider approvals are the smallest
case of a decision that is not the last. Two promises distinguish `All` from `Any`, model-
from runtime-owned, run- from session-scoped. One steering batch is enough for it to fall
before, during or after each step.

*Log.* Three executions let a stray of the first land while the third recovers, over a
second that rolled over or stopped. One run is enough for each to start it, do its work,
park it, end it or fail it; the proofs cover any number.

*Catalog.* Three sessions are a root, a child or fork, and a second one that depends on
either; two operations are one between its read and its transaction and one that overtakes it.

*Blobs.* Two digests are what holds and what is held; two incarnations let content be
collected and written again; one page holds one row, so that every walk is cut. Two writers
let an upload find another's row and become superfluous; two sweepers are one that lost
its lead in the middle of a page and its successor. The proofs cover any number of both.

*Bots.* Two generations are a session and its successor; two attempts a start and its retry.
In `live_bot` `MaxGen` must exceed `MaxTroubles`: otherwise the last generation could die
with nothing to move to, an end the code, whose generations are not bounded, does not have.
`Init` lets the controller be the successor of one whose rotation is spent, so that one more
trouble reaches the state in which it only degrades. `EventIsSettled` also passes for one event with
three troubles and four generations (126,925 states, not kept as a run).

*Chat.* With a memory of one id, the call and its cancellation already overflow it at
continue-as-new. Two commands are the smallest long send. Two deliveries with room for one
are the smallest case of a record that is dropped. Four signals, any of those the chat can get,
keep the run within minutes; one delivery with all of its signals (940,992 states) and three
deliveries over two rollovers without messages and calls (1,597,862 states) pass as well.

### Observed while modelling

Faithful to the code, and worth knowing:

* A failed turn that carried provider approvals still parks for them before its run fails.
* A manual compaction requested where approvals are pending is abandoned at once, because
  the approval planner comes first. A client that repeats manual compactions can hold a run
  back.
* `ForceCancelRun` records no approval cancellations (the approvals go with the run), and a
  force close leaves open calls unanswered in a context no run will read again.
* An append that lands two executions after its sender is notified by nobody (`Owed`), and a
  restart sends only the newest eight terminals again (`NewestEnds`). `Owed` is what is left
  of the promise; `TerminalsKept` is proved for any number of runs and any
  `ResentRunTerminals`.
* A direct close that stops between its append and its signals, or cannot load the log again,
  leaves a closed session whose holders were not told. The caller gets an error, and a second
  close tells them (`ForceCloseLoads`), unless nobody asks for one. `ClosedTellsEveryone` speaks
  of a close that reported success.
* An event that a sidecar holds when its bot closes is not archived, and teardown drops the
  sidecar, so it gets no outcome; `ClosedSettlesAll` exempts it.
* A main session that dies when the rotation of a failure streak is spent leaves the controller
  degraded: every retry finds the session dead and may not move on, until a config signal or a
  requested rotation (`Stranded`). Its events wait that long. `EventIsSettled` exempts exactly
  this; without the exemption TLC finds it. The comment at `controller.rs:595-600` says that
  the controller tries again with a backoff, which it does, to no effect.
* A late event for a per-event session that was closed starts at generation 1 again, finds it
  closed and moves to generation 2; if that one is closed too, the delivery has had its one
  move and fails.
* An event that comes again after 2000 others (`SeenIds`) is accepted a second time. The events
  of `bot` stay within the tail; `live_bot` has them forgotten; the theorems have the
  hypothesis `Remembered` (section 5).
* While a lane ensures the next generation of a refused routed session, a second delivery of
  the same key finds the new generation free and gets a lane there. `rekey_lane` then
  overwrites its entry, two lanes share one, and the terminal of the other finds none. The
  runs have at most one event per routed key. The theorems about bots have the hypothesis that no
  delivery overtakes a moving lane (`InTurn`, section 5).
* A long send is several commands, each its own cancellable step. A cancellation that is
  taken while the first is acknowledged ends the lane before the second: the provider has
  a part of the message and the chat log no row for it. The holder is told "cancelled". A
  send acknowledged in full is never reported as cancelled (`AnsweredHonestly`).
* A repeat that comes after its id has left the carried memory (2048 ids, 256 cancellations, 128
  finished deliveries) would be taken for new, and a receipt would ask for a second fallback;
  repeats in `chat` come before that (`Recent`, `RecentDelivery`). Sends reach the
  provider at least once: the workflow asks for a command once, and the activity under it may
  be attempted again. A call that is not valid for this chat is recorded, and its
  promise is not answered by the conversation.

## 4. Fairness

*Session.* `FairSpec` assumes weak fairness of the planner, of each kind of activity result,
of preparing and applying or dropping an unpark claim, and of failing a refused step.
The drive loop plans until nothing is left to plan; every activity has a timeout and a
bounded retry policy whose exhaustion is itself recorded as a result; the wait loop
claims a satisfied wait. Nothing is assumed of clients, of whoever settles promises,
of deadlines or of the watchdog, so `CancelledRunEnds` holds *without* the watchdog: it
is a second line of defence and not what makes a cancel land. `RunMakesProgress` has one
premise: from some point on no manual compaction is under way.

*Log.* Weak fairness of loading, recovering, the answer of an append, flushing, completing,
working and logging: each is the next step of a single workflow whose activities are retried
until they are answered. Nothing is assumed of strays, restarts or closes.

*Blobs.* Weak fairness of the clock and of each step of a sweeper: the reaper runs in every
worker for ever. Nothing is assumed of writers.

*Bots.* Weak fairness of lanes, sidecars, settlements, timers, the day and the ends of runs
and starts outside; strong fairness of the stages of a pass, because other stages run in
between while the loop comes round to each of them in every pass. A stage that has begun, a
reconcile included (`ReconcileStep`), goes on by weak fairness: each step is the answer of an
activity with bounded attempts. Nothing is assumed of config signals and requested rotations,
hence the exemption of a stranded bot.

*Chats.* One weak fairness of all that the worker and the connector owe (`Progress`): the
loop, the lanes, and a command whose activity is still awaited. It is enough that *something*
goes on, because nothing in the workflow can be repeated without end. Nothing is
assumed of signals or of commands given up.

## 5. Proofs

For all constants that satisfy the modules' named assumptions: `CallsAssumption` (the
classes of calls are disjoint and finite, provider approvals are not calls),
`BoundsAssumption` and `HostAssumption` (bounds are natural numbers), `TreeAssumption`
(finitely many ids, none of them `NoSession`), `BlobAssumption` (digests are positive,
nothing embeds itself, the grace is a natural number), `ConversationAssumption` (messages,
calls and deliveries are disjoint, a text takes at least one command, an edit or a reaction
takes one, the memories hold at least one id), `BotAssumption` (finitely many events, each
with a busy mode; at least one attempt and one generation).

The `TypeOK` of `SessionHost`, `SessionTree`, `BlobStore` and `ChannelConversation` documents
their state; what the proofs need of it is part of their inductive invariants.

**`AgentSessionProofs`.** `TypeCorrect`, one lemma per group of actions. `PromisesNeverOrphaned`:
not inductive alone, since minting overwrites a slot; `PromiseInv` adds that ids above the
cursor are absent. `PromisesAreFirstWriterWins` from the same step lemmas. `PlannedRequestsHold`:
the strengthening says that a turn in flight has no open approval and no active batch. The
only command that appends to context during a turn is a decision on a provider's approval, and
it is harmless because a run with open approvals parks before it can start a turn.

**`SessionRunProofs`.** `CompactionsAtBoundaries`, `CompactionsStayFrozen` and
`CallsAreAnswered` from `BoundaryInv`: a pending compaction stands at a safe boundary, one whose
context moved has outlived its run and is abandoned, and calls that are owed a result belong
to a turn whose batch is still to come or is active.

`RunInv` places every run pointwise (queued at one position, active, or
ended), orders steering (seen ≤ written ≤ accepted) and says that a cancelling run was told
to stop. From it `RunsAreAccountedFor`, `FatesAreFinal`, `CancelsAreAskedFor`, `SteeringIsKept`
and `SteeringIsAnswered`. `WaitInv` says that the promises of a parked batch are not pruned, that
a run parked without a batch has an open decision, and that a gated decision is open only
while its run is parked. From it `BatchesResumeHonestly` and `NeverStallsSilently`. With these,
every safety property of `AgentSession` that a run checks and finds true is proved.

**`SessionHostProofs`.** `ViewIsTheLog` and `LogImplementsJournal`. The difficulty is that an
append is confirmed by content. `LogInv` (`Typed`, `Placed`, `Covered`, `Sent`, `Caught`, `Awaited`,
`ViewIsLog`) says that every other append of an execution lies within what it has already
applied, so events behind its head that carry its mark and look like its request are its
request, and it took effect.

**`SessionHistoryProofs`.** `HistoryAlwaysLegal` and `WorkIsDoneOnce`. `HistoryInv`: whatever is
abroad was prepared against a prefix of the log and continues that prefix legally; the
head comparison makes that the place where it lands. `WorkInv` ties the count of a run's work to
what the log says of it: worked at most once before its end, and never after a takeover.

`TerminalsAlwaysKept` and `ClosingAlwaysTells`, from `TerminalInv`: an execution holds or has sent
what it owes already while it recovers (`Kept`). While it loads, the ends of its predecessor
that it will find are notified, and an append of the predecessor that is still abroad was
prepared for an older head and adds none (`LoadsClear`; the append that opens the log ends no run,
`FirstOpens`). A closed log stays as it is, so what a completed execution has told is all there is
to tell (`Told`). A direct close that tells has, of the runs the closed log has a record of,
told, missed or still to tell each one, whatever landed since its load (`ToldByGateway`).

**`SessionTreeProofs`.** `CapAlwaysHolds`, `ReaperAlwaysRespects`, `OnlyClosedGo`, from `TreeInv` and
`Vacant` (an id that never had a row is named by none). The count of open descendants under
the root's lock is compared as the cardinality of a finite set.

`NeverOrphaned` and `NeverDangling`: the rows that exist and the rows
that are shown are two forests, each row reached from the retention root it names. A deletion
takes a set shut under dependence, so it cannot take the root of a row it leaves behind.
`Reachable` is a least closed set, so no induction over paths is needed.

**`BlobStoreProofs`.** `HeldAlwaysReadable` and `FreshRefAlwaysGood`, for any number of writers and
sweepers. `BlobInv`: every row has its bytes and its own incarnation, an upload's key belongs to
no row and to no sweeper, an object doomed by a sweeper belongs to no row, and the cutoff of
a pass lies a grace in the past.

**`ChannelConversationProofs`.** `NeverUnwanted` and `AlwaysHonest`, for any sizes of the carried
memories, that of finished deliveries included. `ChatInv` says that a memory is the end of everything that was heard and holds at least
as many ids as its bound; that what waits in an inbox, or runs in a lane, is still remembered
(only an idle workflow with empty inboxes cuts its memories); and, per call and per
delivery, which of its commands its lane has asked for, seen landed and seen acknowledged.
A message, a call or a finished delivery that is new to the memory is therefore new
altogether and nothing was asked for it, and the lane of a call can trust what `cancellations`
does not hold. `ShelfInv` is about the records of deliveries: what lies behind a record and is
finished was recorded since, so a record is only dropped once more than `CarryDeliveries`
deliveries, itself included, were recorded since its own, and no receipt in the inbox is of a
forgotten delivery. `Recent` and `RecentDelivery`, the assumptions on how late repeats come, are used
in one place: where a signal enters an inbox.

**`BotControllerProofs`.** `EventsAlwaysAccounted`, `TerminalAlwaysOwn`, `TeardownSettlesAll` and
`BudgetAlwaysHolds`, for any events, routes, generations, budgets and troubles, each of `Spec /\
InTurn /\ Remembered`. `InTurn` says that no delivery is dispatched to a base while a lane of that
base moves to its next generation (`state.rs:1093`), and that no lane moves to a generation that
another still has in the books, which a per-event base back at its first can do. Without it two
lanes could share an entry of the books and the invariant is false, as section 3 describes.
`Remembered` says that no event comes again after its id was forgotten (`SeenIds`, `state.rs:206`);
without it an event can be in two places. Both are hypotheses about what the world does to a bot.
`MainBotSafe` shows that a bot with the main session only needs no `InTurn`, and
`TailRemembers` that `Remembered` follows where no more events are accepted than the tail holds.
For routed bots `InTurn` is a real restriction.

The inductive invariant `BotInv` has four parts besides types. `LaneInv`: the books and the lanes
describe each other (`Books`), what a lane does fits its delivery and the generations there are
(`Fits`), a routed base has one lane that has not started its run (`Alone`), and the tracked
sessions are the current ones (`Current`). `EventInv`: the queue, the coalesce buffer, the lanes,
the sidecars and the settlements hold disjoint sets of events, and together with the events that
have an outcome they are all events that were accepted; at teardown, what is to be archived is
known. `EndInv`: a reported end is the end of a run, and a lane moves away only from a session on
which it has no run and no start is abroad; this is what makes an end that arrives late belong to
its lane. `BudgetHolds` is inductive with these: the lanes that may still start a run are counted
as a finite set, and a lane is counted until its start is.

## 6. Only model-checked

* Everything about liveness: fairness and `ENABLED` are beyond the prover.
* The bot's properties where a delivery overtakes a moving lane or an event comes again past the
  tail: they are not claimed there (section 3), `BudgetHolds` and `EventIsSettled` excepted, which
  `live_bot` checks with forgotten ids.

Every invariant and every action property that a run checks and finds true is also proved, the
bot's under the hypotheses of section 5.

## 7. Not modelled

In the modelled components: submission deduplication; the retention of run records, but for
what a direct close tells (`Retained`); the base from which a dispatch counts its promise ids and
the validation of minted ids (a promise has a fresh id);
pruning behind a provider's own compaction; the failure floor and token arithmetic of
the watermark (a free choice instead); supersession of catalog entries; configuration
changes and environment selection; code-tool scopes, which can also hold back an unpark;
workflow-tool bindings, deliveries and receivers, of which only the promises appear.
A refusal by the store is a choice at any step of an active run. The executions of
`SessionHost` do not fail pending code-tool calls or repeat unanswered invocations on
a restart, and load whole logs, never from a checkpoint or through an inherited prefix.
An id of a session that is used again after its purge is left out of `SessionTree`.
`BotController` has no pushed tools, renames or cap on routed sessions
(`enforce_extra_session_cap`, `lanes.rs:505`), and its budget counts the bot's own runs and not those
of descendants. Which id is forgotten at the cap is a free choice, where the code forgets the
oldest. `LaneStarted` merges the awaits between the start of a run and the wait for its end
(`lanes.rs:230-244`). `ChannelConversation` has no handle cache and no media: the
preparation of attachments and the transcription loop, which come before a message is emitted, are
not there. A cancelled workflow drops its lanes and is not
modelled for chats.

Session and host are separate models: `SessionHost` reduces a run to what recovery tells
apart, `AgentSession` takes one append as one step, and the refinement of `Journal` is what
justifies that step.

Other parts, with reasons, are listed in `PROJECT.json`. Provider clients, tools, the daemon's
processes, connectors, API translation, the platform and generated clients are I/O and
presentation, and they are by far the larger part of the repository's lines; the share of the
repository that a model of its control logic can cover is small for that reason.

## 8. State of the project

Modelled and checked: the session core, the log and its executions, the catalog, blobs,
the bot controller, the conversation. Proved: all their safety, the bot's under the hypotheses of
section 5. The next candidates, in order of what they would show: code-tool
scopes in `ToolComponent`; submission deduplication under retention; an abstract bot (each event
settled once) that `BotController` implements; an abstract chat (each call answered once, each message sent at most once) that
`ChannelConversation` implements.
