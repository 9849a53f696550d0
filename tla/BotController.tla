--------------------------- MODULE BotController ---------------------------
(***************************************************************************)
(* The bot controller workflow (temporal-workflow/workflows/bots): events  *)
(* become deliveries, deliveries run on lanes, one lane per session, while *)
(* the loop attaches run terminals, sweeps dead sessions, rotates and      *)
(* closes sessions, reconciles the main session, hands its state to the    *)
(* next execution, and tears the bot down.                                 *)
(*                                                                         *)
(* The workflow is single threaded: between two awaits a lane or the loop  *)
(* runs undisturbed, and every await lets the others in.  An action here   *)
(* is the code from one await to the next, but where a comment says that   *)
(* awaits are merged.  The sessions the bot drives are external: they are  *)
(* opened, die, take foreign work and report the end of a run.  Clocks are *)
(* abstracted: a pause ends at any time.                                   *)
(***************************************************************************)
EXTENDS Naturals, Sequences, FiniteSets, SequencesExt, TLC

CONSTANTS
    Events,            \* the events admitted for the bot
    WhenBusy,          \* event -> "queue", "steer" or "append"
    Base,              \* event -> Main or a routed base
    Coalesced,         \* events that share one coalesce key
    Main,              \* the base of the main session
    PerEvent,          \* the bases that stand for one event (BotSessionKind::PerEvent)
    SeenCap,           \* BOT_SEEN_ID_CAP
    RunsPerDay,        \* the daily budget
    MaxAttempts,       \* BOT_START_MAX_ATTEMPTS
    MaxGen,            \* bound on the generations of a base
    MaxTroubles        \* bound on deaths, failures and operator requests

Bases == {Main} \cup {Base[e] : e \in Events}

ASSUME BotAssumption ==
    /\ IsFiniteSet(Events)
    /\ WhenBusy \in [Events -> {"queue", "steer", "append"}]
    /\ Coalesced \subseteq Events
    /\ PerEvent \subseteq Bases \ {Main} /\ SeenCap \in Nat \ {0}
    /\ RunsPerDay \in Nat /\ MaxAttempts \in Nat \ {0}
    /\ MaxGen \in Nat \ {0} /\ MaxTroubles \in Nat

Sessions == Bases \X (1..MaxGen)

VARIABLES
    world,      \* sessions: [st, foreign, runs], runs a function delivery -> state
    abroad,     \* run starts that may still land: <<session, event set>>
    pending,    \* pending_deliveries
    buffer,     \* events in the coalesce buffer
    active,     \* active_by_session
    futures,    \* the lanes themselves: [d, st, at, next]
    sidecar,    \* sidecar_by_session, with the delivery its future holds
    settling,   \* outcomes being recorded by futures of finished deliveries
    outcome,    \* the outcome on each event row
    inbox,      \* emission_inbox: terminals <<session, event set>>
    accepted,   \* the events accepted so far (history)
    seen,       \* seen_event_ids
    heard,      \* seen_emission_ids
    read,       \* <<session, event set>> before the session's log cursor
    gen,        \* current generation of each base
    tracked,    \* extra_sessions
    ready,      \* session_ready
    dirty,      \* config_dirty
    refused,    \* reconcile_rotated
    rotate,     \* rotation_requests
    runsToday,  \* runs_today
    closed,     \* config.closed
    loop,       \* what the loop is awaiting
    troubles    \* budget of troubles spent

sessionVars == <<world, abroad>>
queueVars == <<pending, buffer>>
laneVars == <<active, futures, sidecar, settling, outcome>>
mailVars == <<inbox, accepted, seen, heard, read>>
configVars == <<gen, tracked, ready, dirty, refused, rotate>>
restVars == <<runsToday, closed, loop, troubles>>
vars == <<sessionVars, queueVars, laneVars, mailVars, configVars, restVars>>

(* What the books say of a lane: whether its run started, how it ended,    *)
(* whether the run resolved its events, and whether the lane only waits.   *)
FreshLane(d) ==
    [d |-> d, run |-> FALSE, terminal |-> "none", resolved |-> FALSE, parked |-> FALSE]
NoLane == FreshLane([ev |-> {}])

(* A lane works for the session at; while it ensures a routed session,     *)
(* next is the one it is about to work for.                                *)
Lane(d, st, s) == [d |-> d, st |-> st, at |-> s, next |-> s]
NoSidecar == [st |-> "none", d |-> [ev |-> {}]]
Parked == [op |-> "park"]

Delivery(evs) == [ev |-> evs, attempts |-> 0, rolled |-> FALSE, waits |-> FALSE]
BusyMode(d) == WhenBusy[CHOOSE e \in d.ev : TRUE]
BaseOf(d) == Base[CHOOSE e \in d.ev : TRUE]

(* target_of: the session of the base's current generation. *)
TargetOf(d) == <<BaseOf(d), gen[BaseOf(d)]>>
MainSession == <<Main, gen[Main]>>

Trouble == troubles < MaxTroubles /\ troubles' = troubles + 1

(* A routed session may exist from before, unknown to the controller.  The *)
(* execution may be the successor of one whose main session was rotated    *)
(* for a reconcile and could not be ensured, opened or not.                *)
Init ==
    /\ refused \in BOOLEAN
    /\ \E old \in SUBSET {s \in Sessions : s[2] = 1 /\ (s[1] # Main \/ refused)} :
         world = [s \in Sessions |-> [st |-> IF s \in old THEN "open" ELSE "none",
                                     foreign |-> FALSE, runs |-> <<>>]]
    /\ abroad = {} /\ pending = <<>> /\ buffer = {}
    /\ active = [s \in Sessions |-> NoLane] /\ futures = {}
    /\ sidecar = [s \in Sessions |-> NoSidecar]
    /\ settling = {} /\ outcome = [e \in Events |-> "none"]
    /\ inbox = {} /\ accepted = {} /\ seen = {} /\ heard = {} /\ read = {}
    /\ gen = [b \in Bases |-> 1] /\ tracked = {}
    /\ ready = FALSE /\ dirty = TRUE /\ rotate = {}
    /\ runsToday = 0 /\ closed = FALSE /\ loop = Parked /\ troubles = 0

Running == loop.op # "done"

-----------------------------------------------------------------------------
\* Sessions (external)

Open(s) == world[s].st = "open"
Dead(s) == world[s].st # "open"     \* failed, closed or missing
RunsOf(s) == DOMAIN world[s].runs
Going(s) == {k \in RunsOf(s) : world[s].runs[k] = "going"}
Busy(s) == Open(s) /\ (world[s].foreign \/ Going(s) # {})

WithRun(s, k, st) ==
    [world EXCEPT ![s].runs = [j \in DOMAIN @ \cup {k} |-> IF j = k THEN st ELSE @[j]]]

(* A start that was sent is admitted; a second one of the same submission  *)
(* finds the first.                                                        *)
StartLands(s, k) ==
    /\ <<s, k>> \in abroad /\ Open(s)
    /\ world' = IF k \in RunsOf(s) THEN world ELSE WithRun(s, k, "going")
    /\ abroad' = abroad \ {<<s, k>>}
    /\ UNCHANGED <<queueVars, laneVars, mailVars, configVars, restVars>>

(* The run ends and its terminal is signalled to the controller. *)
RunEnds(s, k) ==
    /\ Open(s) /\ k \in Going(s)
    /\ world' = WithRun(s, k, "ended")
    /\ inbox' = inbox \cup {<<s, k>>}
    /\ UNCHANGED <<abroad, queueVars, laneVars, accepted, seen, heard, read, configVars, restVars>>

ForeignWork(s) ==
    /\ Open(s)
    /\ world' = [world EXCEPT ![s].foreign = ~@]
    /\ IF world[s].foreign THEN UNCHANGED troubles ELSE Trouble
    /\ UNCHANGED <<abroad, queueVars, laneVars, mailVars, configVars, runsToday, closed, loop>>

SessionDies(s) ==
    /\ Open(s) /\ Trouble
    /\ world' = [world EXCEPT ![s].st = "failed", ![s].foreign = FALSE]
    /\ UNCHANGED <<abroad, queueVars, laneVars, mailVars, configVars, runsToday, closed, loop>>

(* close_session: without force a busy session refuses.  The close of a    *)
(* session reports the end of every run it still had.                      *)
MayClose(s, force) == ~Busy(s) \/ force
ClosedSession(s) ==
    IF world[s].st = "none" THEN world[s]
    ELSE [st |-> "closed", foreign |-> FALSE,
          runs |-> [k \in RunsOf(s) |->
                      IF k \in Going(s) THEN "cancelled" ELSE world[s].runs[k]]]
CloseWorld(s) ==
    /\ world' = [world EXCEPT ![s] = ClosedSession(s)]
    /\ inbox' = inbox \cup {<<s, k>> : k \in Going(s)}

-----------------------------------------------------------------------------
\* Signals

(* SeenIds::insert: at the cap another id is forgotten.  The order of the  *)
(* ids is left out, so it may be any of them.                              *)
Remember(ids, x) ==
    IF x \in ids THEN {ids}
    ELSE IF Cardinality(ids) < SeenCap THEN {ids \cup {x}}
    ELSE {(ids \ {y}) \cup {x} : y \in ids}

(* accept_event: a duplicate is counted and dropped.  An event that comes  *)
(* again when its id is forgotten is accepted as a new one.                *)
AcceptEvent(e) ==
    /\ Running /\ e \notin seen
    /\ seen' \in Remember(seen, e) /\ accepted' = accepted \cup {e}
    /\ IF e \in accepted THEN Trouble ELSE UNCHANGED troubles
    /\ IF e \in Coalesced
       THEN buffer' = buffer \cup {e} /\ UNCHANGED pending
       ELSE pending' = Append(pending, Delivery({e})) /\ UNCHANGED buffer
    /\ UNCHANGED <<sessionVars, laneVars, inbox, heard, read, configVars, runsToday, closed, loop>>

FlushBuffer ==
    /\ loop.op = "park" /\ buffer # {}
    /\ pending' = Append(pending, Delivery(buffer)) /\ buffer' = {}
    /\ UNCHANGED <<sessionVars, laneVars, mailVars, configVars, restVars>>

AcceptConfig ==
    /\ Running /\ ~dirty /\ Trouble
    /\ dirty' = TRUE /\ refused' = FALSE
    /\ UNCHANGED <<sessionVars, queueVars, laneVars, mailVars, gen, tracked, ready, rotate,
                   runsToday, closed, loop>>

RequestRotation(s) ==
    /\ Running /\ s \notin rotate /\ s \in tracked \cup {MainSession} /\ Trouble
    /\ rotate' = rotate \cup {s}
    /\ UNCHANGED <<sessionVars, queueVars, laneVars, mailVars, gen, tracked, ready, dirty, refused,
                   runsToday, closed, loop>>

CloseBot ==
    /\ Running /\ Trouble
    /\ closed' = TRUE
    /\ UNCHANGED <<sessionVars, queueVars, laneVars, mailVars, configVars, runsToday, loop>>

(* The session workflow signals a terminal again, after a restart. *)
RepeatTerminal(s, k) ==
    /\ k \in RunsOf(s) /\ world[s].runs[k] # "going" /\ <<s, k>> \notin inbox /\ Trouble
    /\ inbox' = inbox \cup {<<s, k>>}
    /\ UNCHANGED <<sessionVars, queueVars, laneVars, accepted, seen, heard, read, configVars,
                   runsToday, closed, loop>>

PauseEnds(i) ==
    /\ i \in DOMAIN pending /\ pending[i].waits
    /\ pending' = [pending EXCEPT ![i].waits = FALSE]
    /\ UNCHANGED <<sessionVars, buffer, laneVars, mailVars, configVars, restVars>>

NewDay ==
    /\ runsToday > 0
    /\ runsToday' = 0
    /\ UNCHANGED <<sessionVars, queueVars, laneVars, mailVars, configVars, closed, loop, troubles>>

-----------------------------------------------------------------------------
\* Lanes

HasLane(s) == active[s].d.ev # {}
SessionBusy(s) == HasLane(s) \/ sidecar[s].st # "none"

(* Mutant: the lanes about to start a run are not counted. *)
ReservedStarted == runsToday

(* reserved_runs *)
Reserved ==
    runsToday + Cardinality({s \in Sessions : /\ HasLane(s) /\ ~active[s].run
                                              /\ BusyMode(active[s].d) # "append"})

(* target_held *)
Held(s) == s \in rotate \/ (s = MainSession /\ (~ready \/ dirty))

Runnable(i) ==
    LET s == TargetOf(pending[i]) IN
    /\ ~pending[i].waits
    /\ ~\E j \in 1..(i-1) : pending[j].waits /\ TargetOf(pending[j]) = s
    /\ ~Held(s)

FirstStep(d) ==
    IF BaseOf(d) # Main THEN "ensure" ELSE IF BusyMode(d) = "append" THEN "append" ELSE "status"

(* dispatch: the first delivery its target can take, on a lane of its own. *)
DispatchLane(i) ==
    LET d == pending[i]
        s == TargetOf(d)
    IN
    /\ loop.op = "park" /\ Reserved < RunsPerDay
    /\ i \in DOMAIN pending /\ Runnable(i) /\ ~HasLane(s)
    /\ \A j \in 1..(i-1) : ~(Runnable(j) /\ ~HasLane(TargetOf(pending[j])))
    /\ pending' = RemoveAt(pending, i)
    /\ active' = [active EXCEPT ![s] = FreshLane(d)]
    /\ futures' = futures \cup {Lane(d, FirstStep(d), s)}
    /\ UNCHANGED <<sessionVars, buffer, sidecar, settling, outcome, mailVars, configVars, restVars>>

(* dispatch: beside a lane with a started run. *)
DispatchSidecar(i) ==
    LET d == pending[i]
        s == TargetOf(d)
    IN
    /\ loop.op = "park" /\ Reserved < RunsPerDay
    /\ i \in DOMAIN pending /\ Runnable(i) /\ HasLane(s) /\ active[s].run
    /\ BusyMode(d) # "queue" /\ sidecar[s].st = "none"
    /\ pending' = RemoveAt(pending, i)
    /\ sidecar' = [sidecar EXCEPT ![s] = [st |-> "go", d |-> d]]
    /\ UNCHANGED <<sessionVars, buffer, active, futures, settling, outcome, mailVars, configVars, restVars>>

(* finish_delivery: the session is free at once, the outcome is recorded   *)
(* next.                                                                   *)
Finish(f, out) ==
    /\ active' = [active EXCEPT ![f.at] = NoLane]
    /\ futures' = futures \ {f}
    /\ settling' = settling \cup {[ev |-> f.d.ev, out |-> out]}

(* requeue_lane: at the front of the queue, after a pause or not. *)
Requeue(f, d) ==
    /\ active' = [active EXCEPT ![f.at] = NoLane]
    /\ futures' = futures \ {f}
    /\ pending' = <<d>> \o pending

Becomes(f, g) == futures' = (futures \ {f}) \cup {g}
Goes(f, st) == Becomes(f, Lane(f.d, st, f.at)) /\ UNCHANGED active
AfterEnsure(d) == IF BusyMode(d) = "append" THEN "append" ELSE "status"

(* rekey_lane: the entry moves to the session the lane was moved to. *)
RekeyLane(from, to) ==
    active' = IF from # to /\ HasLane(from)
              THEN [active EXCEPT ![from] = NoLane, ![to] = active[from]]
              ELSE active

(* ensure_routed_session: a tracked session is taken as it is. *)
LaneEnsures(f) ==
    LET s == f.next
        Taken(st) == Becomes(f, Lane(f.d, st, s)) /\ RekeyLane(f.at, s)
    IN
    /\ f.st = "ensure"
    /\ \/ /\ s \in tracked
          /\ Taken(AfterEnsure(f.d)) /\ UNCHANGED <<world, tracked>>
       \/ /\ s \notin tracked /\ world[s].st \in {"none", "open"}
          /\ world' = [world EXCEPT ![s].st = "open"]
          /\ tracked' = tracked \cup {s}
          /\ Taken(AfterEnsure(f.d))
       \/ /\ s \notin tracked /\ world[s].st \in {"failed", "closed"}
          /\ Taken("leave") /\ UNCHANGED <<world, tracked>>
    /\ UNCHANGED <<abroad, queueVars, sidecar, settling, outcome, mailVars,
                   gen, ready, dirty, refused, rotate, restVars>>

(* The session refuses the tools or the profile: the base gets its next    *)
(* generation, and the lane ensures that one instead, once.  The books     *)
(* move only when that is done.                                            *)
LaneMismatch(f) ==
    LET b == f.at[1] IN
    /\ f.st = "ensure" /\ f.next = f.at /\ f.at \notin tracked /\ Open(f.at)
    /\ gen[b] < MaxGen /\ Trouble
    /\ gen' = [gen EXCEPT ![b] = @ + 1]
    /\ Becomes(f, [f EXCEPT !.next = <<b, gen[b] + 1>>])
    /\ UNCHANGED <<sessionVars, queueVars, active, sidecar, settling, outcome, mailVars,
                   tracked, ready, dirty, refused, rotate, runsToday, closed, loop>>

(* An activity of the lane spent its attempts, or the second session       *)
(* refuses too; a session may have been opened all the same.               *)
LaneFails(f) ==
    /\ f.st \in {"ensure", "append", "status"} /\ Trouble
    /\ \/ UNCHANGED world
       \/ /\ f.st = "ensure" /\ world[f.next].st = "none"
          /\ world' = [world EXCEPT ![f.next].st = "open"]
    /\ Finish(f, "runFailed")
    /\ UNCHANGED <<abroad, queueVars, sidecar, outcome, mailVars, configVars,
                   runsToday, closed, loop>>

LaneAppends(f) ==
    /\ f.st = "append"
    /\ IF Open(f.at) THEN Finish(f, "appended") ELSE Goes(f, "leave") /\ UNCHANGED settling
    /\ UNCHANGED <<sessionVars, queueVars, sidecar, outcome, mailVars, configVars, restVars>>

(* read_session_status, and the steering of a busy session *)
LaneReadsStatus(f) ==
    LET d == f.d
        s == f.at
    IN
    /\ f.st = "status"
    /\ \/ /\ Dead(s) /\ Goes(f, "leave") /\ UNCHANGED <<pending, settling, abroad>>
       \/ /\ Busy(s) /\ Requeue(f, [d EXCEPT !.waits = TRUE])
          /\ UNCHANGED <<settling, abroad>>
       \/ /\ Busy(s) /\ BusyMode(d) = "steer" /\ Finish(f, "steered")
          /\ UNCHANGED <<pending, abroad>>
       \/ /\ Open(s) /\ ~Busy(s) /\ Goes(f, "start")
          /\ abroad' = abroad \cup {<<s, d.ev>>}
          /\ UNCHANGED <<pending, settling>>
    /\ UNCHANGED <<world, buffer, sidecar, outcome, mailVars, configVars, restVars>>

(* mark_lane_started and park_lane, on whatever the books have under the   *)
(* session; a run that has ended already is reconciled at once, and its    *)
(* end attached by the token of the delivery.                              *)
(* The receipts asked for and the log read in between (lanes.rs:230-244)   *)
(* are awaits too, left out: neither decides anything for another lane.    *)
LaneStarted(f) ==
    LET s == f.at
        k == f.d.ev
        st == world[s].runs[k]
        over == st # "going"
    IN
    /\ f.st = "start" /\ k \in RunsOf(s)
    /\ Becomes(f, Lane(f.d, "wait", s))
    /\ active' = [t \in Sessions |->
         IF ~HasLane(t) THEN active[t]
         ELSE [active[t] EXCEPT
            !.run = @ \/ t = s, !.parked = @ \/ t = s,
            !.terminal = IF over /\ active[t].d.ev = k THEN st ELSE @,
            !.resolved = @ \/ (t = s /\ st = "ended" /\ <<s, k>> \notin read)]]
    /\ read' = IF over THEN read \cup {<<s, k>>} ELSE read
    /\ runsToday' = runsToday + 1
    /\ UNCHANGED <<sessionVars, queueVars, sidecar, settling, outcome, inbox, accepted, seen, heard,
                   configVars, closed, loop, troubles>>

(* BotStartRunResult::Retry, or an outage: the answer says nothing about   *)
(* whether the start lands.  After MaxAttempts the delivery fails.         *)
LaneStartUnclear(f) ==
    /\ f.st = "start" /\ Trouble
    /\ IF f.d.attempts + 1 >= MaxAttempts
       THEN Finish(f, "runFailed") /\ UNCHANGED pending
       ELSE /\ Requeue(f, [f.d EXCEPT !.attempts = @ + 1, !.waits = TRUE])
            /\ UNCHANGED settling
    /\ UNCHANGED <<sessionVars, buffer, sidecar, outcome, mailVars, configVars,
                   runsToday, closed, loop>>

(* BotStartRunResult::Refused: the start did not land and never will. *)
LaneStartRefused(f) ==
    LET k == f.d.ev IN
    /\ f.st = "start" /\ <<f.at, k>> \in abroad /\ k \notin RunsOf(f.at) /\ Trouble
    /\ abroad' = abroad \ {<<f.at, k>>}
    /\ Finish(f, "runFailed")
    /\ UNCHANGED <<world, queueVars, sidecar, outcome, mailVars, configVars, runsToday, closed, loop>>

(* BotStartRunResult::SessionDead *)
LaneStartDead(f) ==
    /\ f.st = "start" /\ Dead(f.at)
    /\ Goes(f, "leave")
    /\ UNCHANGED <<sessionVars, queueVars, sidecar, settling, outcome, mailVars, configVars, restVars>>

(* roll_session_forward, but for the retries it starts anew *)
Advance(s) ==
    /\ gen[s[1]] < MaxGen
    /\ gen' = [gen EXCEPT ![s[1]] = IF s[1] = Main /\ s # MainSession THEN @ ELSE @ + 1]
    /\ tracked' = tracked \ {s}
    /\ ready' = IF s = MainSession THEN FALSE ELSE ready
    /\ dirty' = IF s = MainSession THEN TRUE ELSE dirty
    /\ UNCHANGED rotate

RollForward(s) == Advance(s) /\ refused' = (refused /\ s # MainSession)

(* Only a delivery that has not moved yet is sent to the successor. *)
MayMove(d) == ~d.rolled

(* retry_on_successor: the dead session is closed for good, then the       *)
(* delivery goes to the next generation; a failed close ends it.           *)
LaneLeaves(f) ==
    LET d == f.d IN
    /\ f.st = "leave"
    /\ \/ /\ MayMove(d) /\ CloseWorld(f.at) /\ RollForward(f.at)
          /\ Requeue(f, [d EXCEPT !.rolled = TRUE, !.attempts = 0, !.waits = FALSE])
          /\ UNCHANGED <<settling, troubles>>
       \/ /\ ~MayMove(d) /\ Finish(f, "runFailed")
          /\ UNCHANGED <<world, inbox, pending, configVars, troubles>>
       \/ /\ MayMove(d) /\ Trouble /\ Finish(f, "runFailed")
          /\ UNCHANGED <<world, inbox, pending, configVars>>
    /\ UNCHANGED <<abroad, buffer, sidecar, outcome, accepted, seen, heard, read, runsToday, closed, loop>>

(* delivery_outcome *)
OutcomeOf(lane) ==
    IF lane.terminal # "ended" THEN "runFailed"
    ELSE IF lane.resolved THEN "handled" ELSE "unresolved"

(* wait_for_run_end: the end the books have under the session. *)
LaneEnds(f) ==
    /\ f.st = "wait" /\ active[f.at].terminal # "none"
    /\ Finish(f, OutcomeOf(active[f.at]))
    /\ UNCHANGED <<sessionVars, queueVars, sidecar, outcome, mailVars, configVars, restVars>>

(* run_busy_sidecar: the events go to the run, or back to the queue. *)
SidecarEnds(s) ==
    LET d == sidecar[s].d IN
    /\ sidecar[s].st = "go"
    /\ \/ /\ IF BusyMode(d) = "append" THEN Open(s) ELSE Busy(s)
          /\ settling' = settling \cup {[ev |-> d.ev,
                            out |-> IF BusyMode(d) = "append" THEN "appended" ELSE "steered"]}
          /\ UNCHANGED <<pending, troubles>>
       \/ /\ BusyMode(d) = "steer" /\ world[s].st \in {"open", "closed"}
          /\ pending' = <<[d EXCEPT !.waits = TRUE]>> \o pending
          /\ UNCHANGED <<settling, troubles>>
       \/ /\ IF world[s].st = "failed" \/ (BusyMode(d) = "append" /\ ~Open(s))
             THEN UNCHANGED troubles ELSE Trouble
          /\ settling' = settling \cup {[ev |-> d.ev, out |-> "runFailed"]}
          /\ UNCHANGED pending
    /\ sidecar' = [sidecar EXCEPT ![s] = NoSidecar]
    /\ UNCHANGED <<sessionVars, buffer, active, futures, outcome, mailVars, configVars,
                   runsToday, closed, loop>>

(* The write-once outcome of every event; a failed write leaves a badge. *)
Record(evs, out) ==
    [e \in Events |-> IF e \in evs /\ outcome[e] = "none" THEN out ELSE outcome[e]]

Settle(x) ==
    /\ x \in settling
    /\ settling' = settling \ {x}
    /\ \/ outcome' = Record(x.ev, x.out) /\ UNCHANGED troubles
       \/ outcome' = Record(x.ev, "unrecorded") /\ Trouble
    /\ UNCHANGED <<sessionVars, queueVars, active, futures, sidecar, mailVars, configVars,
                   runsToday, closed, loop>>

-----------------------------------------------------------------------------
\* The loop.  close_requested is looked at once per pass: what is left of a
\* pass goes on when the bot is closed during it.

(* Mutant: the token alone decides which lane a terminal is for. *)
AwaitsToken(s, k) == \E t \in Sessions : HasLane(t) /\ active[t].d.ev = k

(* lane_awaits_terminal_from *)
Awaits(s, k) == HasLane(s) /\ active[s].d.ev = k

(* process_emissions: a duplicate is dropped; a terminal no lane waits for *)
(* leaves the log unread.                                                  *)
TakeTerminal(m) ==
    /\ loop.op = "park" /\ m \in inbox
    /\ inbox' = inbox \ {m}
    /\ heard' \in Remember(heard, m)
    /\ loop' = IF m \notin heard /\ Awaits(m[1], m[2]) THEN [op |-> "terminal", m |-> m] ELSE loop
    /\ UNCHANGED <<sessionVars, queueVars, laneVars, accepted, seen, read, configVars, runsToday, closed, troubles>>

(* reconcile_run has the log up to its end: the lane on the session takes  *)
(* the run's resolution, every lane of the delivery takes the terminal.    *)
AttachTerminal ==
    LET s == loop.m[1]
        k == loop.m[2]
        st == world[s].runs[k]
        resolves == st = "ended" /\ <<s, k>> \notin read
    IN
    /\ loop.op = "terminal"
    /\ read' = read \cup {<<s, k>>}
    /\ active' = [t \in Sessions |->
         [active[t] EXCEPT
            !.resolved = @ \/ (t = s /\ HasLane(t) /\ resolves),
            !.terminal = IF HasLane(t) /\ active[t].d.ev = k THEN st ELSE @]]
    /\ loop' = Parked
    /\ UNCHANGED <<sessionVars, queueVars, futures, sidecar, settling, outcome, inbox, accepted, seen, heard,
                   configVars, runsToday, closed, troubles>>

(* Mutant: a session that failed without being closed is not dead. *)
DeadLanesClosed ==
    {s \in Sessions : /\ HasLane(s) /\ active[s].run /\ active[s].terminal = "none"
                      /\ world[s].st = "closed"}

(* take_dead_session_sweep, read_dead_sessions *)
DeadLanes ==
    {s \in Sessions : HasLane(s) /\ active[s].run /\ active[s].terminal = "none" /\ Dead(s)}

(* sweep_dead_sessions reads the sessions of the waiting lanes ... *)
SweepReads ==
    /\ loop.op = "park" /\ DeadLanes # {}
    /\ loop' = [op |-> "sweep", dead |-> DeadLanes]
    /\ UNCHANGED <<sessionVars, queueVars, laneVars, mailVars, configVars, runsToday, closed, troubles>>

(* ... then each lane that still waits is failed, its session closed ...  *)
SweepFailsLane(s) ==
    /\ loop.op = "sweep" /\ s \in loop.dead
    /\ IF HasLane(s) /\ active[s].run /\ active[s].terminal = "none"
       THEN /\ active' = [active EXCEPT ![s].terminal = "dead"]
            /\ loop' = [op |-> "sweepClose", s |-> s, dead |-> loop.dead \ {s}]
       ELSE /\ loop' = IF loop.dead = {s} THEN Parked ELSE [op |-> "sweep", dead |-> loop.dead \ {s}]
            /\ UNCHANGED active
    /\ UNCHANGED <<sessionVars, queueVars, futures, sidecar, settling, outcome, mailVars,
                   configVars, runsToday, closed, troubles>>

(* ... and left behind, unless the close fails. *)
SweepCloses ==
    /\ loop.op = "sweepClose"
    /\ \/ CloseWorld(loop.s) /\ RollForward(loop.s) /\ UNCHANGED troubles
       \/ Trouble /\ UNCHANGED <<world, inbox, configVars>>
    /\ loop' = IF loop.dead = {} THEN Parked ELSE [op |-> "sweep", dead |-> loop.dead]
    /\ UNCHANGED <<abroad, queueVars, laneVars, accepted, seen, heard, read, runsToday, closed>>

(* rotate_requested_sessions and sweep_routed_sessions pick an idle        *)
(* session; a stale rotation request is dropped.                           *)
CloseIdle(s, why) ==
    /\ loop.op = "park" /\ ~SessionBusy(s)
    /\ IF why = "rotate" THEN s \in rotate /\ s \in tracked \cup {MainSession}
       ELSE s \in tracked /\ troubles < MaxTroubles
    /\ loop' = [op |-> "close", s |-> s, why |-> why]
    /\ troubles' = IF why = "rotate" THEN troubles ELSE troubles + 1
    /\ UNCHANGED <<sessionVars, queueVars, laneVars, mailVars, configVars, runsToday, closed>>

DropRotation(s) ==
    /\ loop.op = "park" /\ s \in rotate \ (tracked \cup {MainSession})
    /\ rotate' = rotate \ {s}
    /\ UNCHANGED <<sessionVars, queueVars, laneVars, mailVars, gen, tracked, ready, dirty, refused, restVars>>

(* rotate_main_session(true), forget_routed_session: a base of one event   *)
(* keeps no entry, so it is back at its first generation.  A session that  *)
(* would not close is left for later.                                      *)
IdleClosed ==
    LET s == loop.s IN
    /\ loop.op = "close"
    /\ \/ /\ MayClose(s, FALSE) /\ (s[1] \in PerEvent \/ gen[s[1]] < MaxGen)
          /\ CloseWorld(s)
          /\ gen' = [gen EXCEPT ![s[1]] = IF s[1] \in PerEvent THEN 1 ELSE @ + 1]
          /\ tracked' = tracked \ {s}
          /\ rotate' = rotate \ {s}
          /\ ready' = (ready /\ s[1] # Main) /\ dirty' = (dirty \/ s[1] = Main)
          /\ refused' = (refused /\ s[1] # Main)
          /\ UNCHANGED troubles
       \/ /\ IF Busy(s) THEN UNCHANGED troubles ELSE Trouble
          /\ UNCHANGED <<world, inbox, configVars>>
    /\ loop' = Parked
    /\ UNCHANGED <<abroad, queueVars, laneVars, accepted, seen, heard, read, runsToday, closed>>

Ensuring(try) == [op |-> "ensure", try |-> try]
Rolling(try) == [op |-> "roll", try |-> try]

(* reconcile_due.  Only a session that is ready is looked at first. *)
ReconcileBegins ==
    /\ loop.op = "park" /\ dirty /\ ~SessionBusy(MainSession)
    /\ loop' = IF ready THEN [op |-> "status"] ELSE Ensuring(1)
    /\ UNCHANGED <<sessionVars, queueVars, laneVars, mailVars, configVars, runsToday, closed, troubles>>

(* reconcile_unless_busy: a busy session is left for later, a dead one is  *)
(* left behind; a read that fails says nothing.                            *)
ReconcileReads ==
    LET s == MainSession IN
    /\ loop.op = "status"
    /\ \/ Busy(s) /\ loop' = Parked /\ UNCHANGED troubles
       \/ Dead(s) /\ loop' = Rolling(1) /\ UNCHANGED troubles
       \/ Open(s) /\ ~Busy(s) /\ loop' = Ensuring(1) /\ UNCHANGED troubles
       \/ Trouble /\ loop' = Ensuring(1)
    /\ UNCHANGED <<sessionVars, queueVars, laneVars, mailVars, configVars, runsToday, closed>>

(* mark_session_degraded *)
Degraded ==
    /\ ready' = FALSE /\ dirty' = TRUE /\ loop' = Parked
    /\ UNCHANGED <<inbox, gen, tracked, refused>>

(* roll_forward: the dead main session is closed, then left.  Only a roll  *)
(* that the ensure asked for spends the rotation of the streak.            *)
ReconcileRolls ==
    /\ loop.op = "roll"
    /\ \/ /\ CloseWorld(MainSession) /\ Advance(MainSession)
          /\ refused' = (loop.try = 2) /\ loop' = Ensuring(loop.try)
          /\ UNCHANGED troubles
       \/ Trouble /\ Degraded /\ UNCHANGED <<world, rotate>>
    /\ UNCHANGED <<abroad, queueVars, laneVars, accepted, seen, heard, read, runsToday, closed>>

(* ensure_session starts the main session unless it is there, then applies *)
(* the profile.                                                            *)
Startable == world[MainSession].st \in {"none", "open"}
Opened == [world EXCEPT ![MainSession].st = "open"]

(* BotEnsureSessionResult::Ready, mark_session_ready *)
ReconcileReady ==
    /\ loop.op = "ensure" /\ Startable
    /\ world' = Opened
    /\ ready' = TRUE /\ dirty' = FALSE /\ refused' = FALSE /\ loop' = Parked
    /\ UNCHANGED <<abroad, queueVars, laneVars, mailVars, gen, tracked, rotate,
                   runsToday, closed, troubles>>

(* The first try may move to the next generation, once in a streak of      *)
(* failures.                                                               *)
MayRotate == loop.try = 1 /\ ~refused

(* DeclarationMismatch, ProfileUnapplicable: rotate_main_for_reconcile *)
ReconcileRefused ==
    /\ loop.op = "ensure" /\ Startable /\ MayRotate /\ gen[Main] < MaxGen /\ Trouble
    /\ world' = Opened
    /\ gen' = [gen EXCEPT ![Main] = @ + 1] /\ refused' = TRUE /\ loop' = Ensuring(2)
    /\ UNCHANGED <<abroad, queueVars, laneVars, mailVars, tracked, ready, dirty, rotate,
                   runsToday, closed>>

(* SessionDead: the session is left behind, or nothing is left to try. *)
ReconcileDead ==
    /\ loop.op = "ensure" /\ ~Startable
    /\ IF MayRotate THEN loop' = Rolling(2) /\ UNCHANGED <<inbox, gen, tracked, ready, dirty, refused>>
       ELSE Degraded
    /\ UNCHANGED <<sessionVars, queueVars, laneVars, accepted, seen, heard, read, rotate,
                   runsToday, closed, troubles>>

(* The activity fails, as it does while the session is busy, or the        *)
(* session refuses again; it may have been started all the same.           *)
ReconcileFails ==
    /\ loop.op = "ensure" /\ Degraded
    /\ IF Busy(MainSession) THEN UNCHANGED troubles ELSE Trouble
    /\ world' = world \/ (Startable /\ world' = Opened)
    /\ UNCHANGED <<abroad, queueVars, laneVars, accepted, seen, heard, read, rotate,
                   runsToday, closed>>

ReconcileStep ==
    \/ ReconcileReads \/ ReconcileRolls \/ ReconcileReady
    \/ ReconcileRefused \/ ReconcileDead \/ ReconcileFails

OnBooks == {s \in Sessions : HasLane(s)}

(* Mutant: the work in flight beside the delivery lanes is not waited for. *)
QuietLanesOnly ==
    inbox = {} /\ \A s \in OnBooks : active[s].parked /\ active[s].terminal = "none"

(* can_continue_as_new: every lane waits for its run, and nothing else is  *)
(* polled.                                                                 *)
Quiet ==
    /\ inbox = {}
    /\ \A s \in OnBooks : active[s].parked /\ active[s].terminal = "none"
    /\ \A s \in Sessions : sidecar[s].st = "none"
    /\ Cardinality(futures) + Cardinality(settling) = Cardinality(OnBooks)

(* carry and ControllerState::new: the futures of the old execution are    *)
(* dropped; what is on the books goes on waiting, without what it had read. *)
ContinueAsNew ==
    /\ loop.op = "park" /\ ~closed /\ Quiet /\ Trouble
    /\ active' = [s \in Sessions |-> [active[s] EXCEPT !.resolved = FALSE]]
    /\ futures' = {Lane(active[s].d, "wait", s) : s \in OnBooks}
    /\ sidecar' = [s \in Sessions |-> NoSidecar]
    /\ settling' = {}
    /\ dirty' = (dirty \/ ~HasLane(MainSession))
    /\ UNCHANGED <<sessionVars, queueVars, outcome, mailVars, gen, tracked, ready, refused, rotate,
                   runsToday, closed, loop>>

(* Mutant: teardown leaves the events on a lane to the lane. *)
TeardownIdsQueued == (UNION {pending[i].ev : i \in DOMAIN pending}) \cup buffer

(* teardown_event_ids *)
TeardownIds ==
    (UNION {pending[i].ev : i \in DOMAIN pending}) \cup buffer
    \cup (UNION {active[s].d.ev : s \in Sessions})

(* teardown lists what is not yet delivered; with nothing to archive it    *)
(* goes straight on ...                                                    *)
TeardownBegins ==
    LET known == accepted \ UNION {sidecar[s].d.ev : s \in Sessions} IN
    /\ loop.op = "park" /\ closed
    /\ loop' = IF TeardownIds = {} THEN [op |-> "closeAll", known |-> known]
               ELSE [op |-> "archive", ids |-> TeardownIds, known |-> known]
    /\ UNCHANGED <<sessionVars, queueVars, laneVars, mailVars, configVars, runsToday, closed, troubles>>

(* ... archives it, and forgets the queue ... *)
TeardownArchives ==
    /\ loop.op = "archive"
    /\ \/ outcome' = Record(loop.ids, "archived") /\ UNCHANGED troubles
       \/ outcome' = Record(loop.ids, "unrecorded") /\ Trouble
    /\ pending' = <<>> /\ buffer' = {}
    /\ loop' = [op |-> "closeAll", known |-> loop.known]
    /\ UNCHANGED <<sessionVars, active, futures, sidecar, settling, mailVars, configVars,
                   runsToday, closed>>

(* ... and completes once the sessions are closed; lanes still in flight   *)
(* are dropped with the run, an outcome write that was sent is not.        *)
TeardownEnds ==
    /\ loop.op = "closeAll"
    /\ loop' = [op |-> "done", known |-> loop.known]
    /\ active' = [s \in Sessions |-> NoLane] /\ futures' = {}
    /\ sidecar' = [s \in Sessions |-> NoSidecar]
    /\ world' = [s \in Sessions |-> ClosedSession(s)]
    /\ UNCHANGED <<abroad, queueVars, settling, outcome, mailVars, configVars, runsToday, closed, troubles>>

-----------------------------------------------------------------------------
SessionStep ==
    \E s \in Sessions :
        \/ ForeignWork(s) \/ SessionDies(s)
        \/ \E k \in SUBSET Events : StartLands(s, k) \/ RunEnds(s, k) \/ RepeatTerminal(s, k)

SignalStep ==
    \/ \E e \in Events : AcceptEvent(e)
    \/ AcceptConfig \/ CloseBot \/ NewDay
    \/ \E s \in Sessions : RequestRotation(s)
    \/ \E i \in DOMAIN pending : PauseEnds(i)

LaneStep(f) ==
    \/ LaneEnsures(f) \/ LaneMismatch(f) \/ LaneFails(f) \/ LaneAppends(f)
    \/ LaneReadsStatus(f) \/ LaneStarted(f) \/ LaneStartUnclear(f) \/ LaneStartRefused(f)
    \/ LaneStartDead(f) \/ LaneLeaves(f) \/ LaneEnds(f)

LoopStep ==
    \/ FlushBuffer \/ \E i \in DOMAIN pending : DispatchLane(i) \/ DispatchSidecar(i)
    \/ \E m \in inbox : TakeTerminal(m)
    \/ AttachTerminal \/ SweepReads \/ SweepCloses
    \/ \E s \in Sessions : SweepFailsLane(s) \/ DropRotation(s)
    \/ \E s \in Sessions, why \in {"rotate", "idle"} : CloseIdle(s, why)
    \/ IdleClosed \/ ReconcileBegins \/ ReconcileStep
    \/ ContinueAsNew \/ TeardownBegins \/ TeardownArchives \/ TeardownEnds

Next ==
    \/ SessionStep
    \/ Running /\ SignalStep
    \/ Running /\ \E f \in futures : LaneStep(f)
    \/ Running /\ \E s \in Sessions : SidecarEnds(s)
    \/ \E x \in settling : Settle(x)
    \/ Running /\ LoopStep

Spec == Init /\ [][Next]_vars

(* Fairness: activities are answered, timers fire, days pass, runs and     *)
(* foreign work end, and a pass of the loop goes through its stages in     *)
(* turn.                                                                   *)
Fairness ==
    /\ \A e \in Events : WF_vars(Running /\ \E f \in futures : e \in f.d.ev /\ LaneStep(f))
    /\ \A s \in Sessions :
         /\ WF_vars(Running /\ SidecarEnds(s))
         /\ WF_vars(world[s].foreign /\ ForeignWork(s))
         /\ WF_vars(\E k \in SUBSET Events : StartLands(s, k) \/ RunEnds(s, k))
    /\ WF_vars(\E x \in settling : Settle(x))
    /\ WF_vars(Running /\ NewDay)
    /\ WF_vars(\E i \in DOMAIN pending : PauseEnds(i))
    /\ WF_vars(AttachTerminal \/ SweepCloses \/ IdleClosed \/ ReconcileStep
               \/ \E s \in Sessions : SweepFailsLane(s))
    /\ SF_vars(FlushBuffer)
    /\ SF_vars(\E i \in DOMAIN pending : DispatchLane(i) \/ DispatchSidecar(i))
    /\ SF_vars(\E m \in inbox : TakeTerminal(m))
    /\ SF_vars(SweepReads)
    /\ SF_vars(\E s \in Sessions : DropRotation(s) \/ CloseIdle(s, "rotate"))
    /\ SF_vars(ReconcileBegins)

FairSpec == Spec /\ Fairness

-----------------------------------------------------------------------------
\* Properties

Places(e) ==
    Cardinality({i \in DOMAIN pending : e \in pending[i].ev})
    + (IF e \in buffer THEN 1 ELSE 0)
    + Cardinality({f \in futures : e \in f.d.ev})
    + Cardinality({s \in Sessions : e \in sidecar[s].d.ev})
    + Cardinality({x \in settling : e \in x.ev})
    + (IF outcome[e] # "none" THEN 1 ELSE 0)

(* Until the bot closes, an accepted event is in exactly one place: queued, *)
(* buffered, on a lane, with a sidecar, being recorded, or settled.  No     *)
(* retry, move, rotation or continue-as-new loses or doubles it.            *)
EventsAccounted ==
    loop.op \notin {"archive", "closeAll", "done"} =>
        \A e \in Events : Places(e) = IF e \in accepted THEN 1 ELSE 0

(* The runs started today and the lanes about to start one stay within the *)
(* budget, whatever runs at once (reserved_runs, state.rs:901-925).        *)
BudgetHolds ==
    runsToday + Cardinality({f \in futures : /\ f.st \in {"ensure", "status", "start"}
                                             /\ BusyMode(f.d) # "append"})
        <= RunsPerDay

(* The end a lane was given is the end of its own run on its own session,  *)
(* or its session is dead (state.rs:1112-1121).                            *)
TerminalIsOwn ==
    \A s \in Sessions :
        active[s].terminal \in {"ended", "cancelled"} =>
            /\ active[s].d.ev \in RunsOf(s)
            /\ world[s].runs[active[s].d.ev] = active[s].terminal

(* The main session is dead and the rotation of the streak is spent: each  *)
(* try ends degraded, until an operator changes the configuration or asks  *)
(* for a rotation (controller.rs:630-641).                                 *)
Stranded == refused /\ ~ready /\ world[MainSession].st \in {"failed", "closed"}

(* An accepted event is settled in the end, whatever dies, is retried, is  *)
(* rotated or rolled over on the way, unless the bot closes or, for an     *)
(* event of the main session, the bot is stranded for good: no lane waits  *)
(* forever for a run that cannot report its end (lanes.rs:260-292), and    *)
(* the main session is ensured again after any other failure.              *)
EventIsSettled ==
    \A e \in Events :
        \/ e \in accepted ~> (outcome[e] # "none" \/ closed)
        \/ Base[e] = Main /\ <>[]Stranded

(* An event runs on one session only: a delivery is moved to a successor   *)
(* when "no run started" on the dead session (lanes.rs:305-306).           *)
RunsOnce ==
    \A k \in SUBSET Events : Cardinality({s \in Sessions : k \in RunsOf(s)}) <= 1

(* When the bot has closed, every event it held when the teardown began    *)
(* has an outcome or one is being written, whatever lanes settle, fail or   *)
(* requeue meanwhile: teardown archives "everything not yet delivered"      *)
(* (controller.rs:866).  An event with a sidecar is the exception: nothing  *)
(* archives it when the sidecar is dropped.                                 *)
ClosedSettlesAll ==
    loop.op = "done" => \A e \in loop.known :
        outcome[e] # "none" \/ \E x \in settling : e \in x.ev

=============================================================================
