------------------------ MODULE BotControllerProofs ------------------------
(***************************************************************************)
(* Proofs about BotController for any events, routes, budgets and numbers  *)
(* of troubles: where an event is, whose end a lane is given, and what the *)
(* day's budget admits.                                                    *)
(*                                                                         *)
(* The books (active) and the lanes (futures) describe each other, except  *)
(* while a lane moves: a routed session refused its tools, the lane works  *)
(* for the next generation, and the books still have it under the old one  *)
(* (state.rs:1093).  A delivery dispatched to that generation meanwhile    *)
(* would share its session with the moving lane.  What is proved here is   *)
(* proved of the behaviours in which no delivery overtakes a moving lane   *)
(* and no event comes again after its id was forgotten (SeenIds); a bot    *)
(* with the main session only has no overtaking, and one that accepts no   *)
(* more events than it has ids forgets none.                               *)
(***************************************************************************)
EXTENDS BotController, FiniteSetTheorems, SequenceTheorems, TLAPS

Moving(f) == f.next # f.at

\* A delivery is dispatched to a base while a lane of that base moves.
Overtakes(i) == \E f \in futures : Moving(f) /\ f.at[1] = BaseOf(pending[i])
\* A lane of a base of one event, which may be at its first generation again,
\* moves to a session whose last lane has not left the books.
Collides(f) == f.at[1] \in PerEvent /\ HasLane(<<f.at[1], gen[f.at[1]] + 1>>)
NoneOvertakes ==
    /\ \A i \in DOMAIN pending : DispatchLane(i) => ~Overtakes(i)
    /\ \A f \in futures : LaneMismatch(f) => ~Collides(f)
InTurn == [][NoneOvertakes]_vars

\* An event comes again only while its id is among the last SeenCap.
NoneForgotten == \A e \in Events : AcceptEvent(e) => e \notin accepted
Remembered == [][NoneForgotten]_vars

-----------------------------------------------------------------------------
(* The inductive invariant.                                                *)

Deliveries ==
    [ev : (SUBSET Events) \ {{}}, attempts : Nat, rolled : BOOLEAN, waits : BOOLEAN]
Nothing == [ev |-> {}]
LaneStates == {"ensure", "append", "status", "start", "leave", "wait"}
RunStates == {"going", "ended", "cancelled"}
RunBooks == UNION {[K -> RunStates] : K \in SUBSET SUBSET Events}
Terminals == {"none", "dead", "ended", "cancelled"}
Outcomes ==
    {"none", "handled", "unresolved", "appended", "steered", "runFailed", "archived", "unrecorded"}
LaneFutures == [d : Deliveries, st : LaneStates, at : Sessions, next : Sessions]
LaneRecords ==
    [d : Deliveries \cup {Nothing}, run : BOOLEAN, terminal : Terminals,
     resolved : BOOLEAN, parked : BOOLEAN]

LoopTyped ==
    /\ loop.op \in {"park", "terminal", "sweep", "sweepClose", "close", "status", "ensure", "roll",
                    "archive", "closeAll", "done"}
    /\ loop.op \in {"ensure", "roll"} => loop.try \in {1, 2}
    /\ loop.op = "terminal" => loop.m \in Sessions \X SUBSET Events
    /\ loop.op \in {"sweepClose", "close"} => loop.s \in Sessions
    /\ loop.op \in {"sweep", "sweepClose"} => loop.dead \subseteq Sessions
    /\ loop.op = "archive" => loop.ids \subseteq Events
    /\ loop.op \in {"archive", "closeAll", "done"} => loop.known \subseteq Events

WorldTyped ==
    /\ world \in [Sessions -> [st : {"none", "open", "failed", "closed"},
                               foreign : BOOLEAN, runs : RunBooks]]
    /\ abroad \subseteq Sessions \X SUBSET Events
    /\ inbox \subseteq Sessions \X SUBSET Events

QueueTyped == pending \in Seq(Deliveries) /\ buffer \subseteq Events /\ accepted \subseteq Events

LanesTyped ==
    /\ active \in [Sessions -> LaneRecords]
    /\ futures \subseteq LaneFutures

SidesTyped ==
    /\ sidecar \in [Sessions -> [st : {"none", "go"}, d : Deliveries \cup {Nothing}]]
    /\ \A s \in Sessions : sidecar[s].st = "none" <=> sidecar[s].d = Nothing

SettledTyped ==
    /\ settling \subseteq [ev : SUBSET Events, out : Outcomes \ {"none"}] /\ IsFiniteSet(settling)
    /\ outcome \in [Events -> Outcomes]

ConfigTyped ==
    /\ gen \in [Bases -> 1..MaxGen] /\ tracked \subseteq Sessions /\ rotate \subseteq Sessions
    /\ runsToday \in Nat

Typed ==
    /\ WorldTyped /\ QueueTyped /\ LanesTyped /\ SidesTyped /\ SettledTyped
    /\ ConfigTyped /\ LoopTyped

\* What a lane does fits its delivery, its base and the generations there are.
Fits(f) ==
    /\ f.at[1] = BaseOf(f.d) /\ f.next[1] = BaseOf(f.d)
    /\ Moving(f) => f.st = "ensure" /\ f.next \notin tracked /\ ~HasLane(f.next)
    /\ f.st = "ensure" => BaseOf(f.d) # Main
    /\ f.st \in {"status", "start"} => BusyMode(f.d) # "append"
    /\ f.at[1] \notin PerEvent => f.at[2] <= gen[f.at[1]] /\ f.next[2] <= gen[f.at[1]]
    /\ f.at[1] # Main =>
         /\ f.st # "wait" => f.next[2] = gen[f.at[1]]
         /\ f.st \in {"append", "status", "start"} => f.at \in tracked
         /\ f.st = "wait" /\ active[f.at].terminal = "none" => f.at \in tracked

\* The books have each lane under its session, and no others.
Books ==
    /\ \A f \in futures :
         /\ active[f.at].d = f.d
         /\ active[f.at].run = (f.st = "wait") /\ active[f.at].parked = (f.st = "wait")
    /\ \A s \in Sessions : HasLane(s) => \E f \in futures : f.at = s
    /\ \A s \in Sessions : ~HasLane(s) => active[s].terminal = "none" /\ ~active[s].run
    /\ \A f, g \in futures : f.at = g.at => f = g

\* The tracked sessions are the current ones; what the loop is closing is
\* one of them, or a session of the main base.
Current ==
    /\ \A s \in tracked : s[1] # Main /\ s[2] = gen[s[1]]
    /\ loop.op \in {"close", "sweepClose"} => loop.s[1] = Main \/ loop.s \in tracked
    /\ loop.op = "close" => ~HasLane(loop.s)
    /\ loop.op = "sweepClose" /\ HasLane(loop.s) =>
         active[loop.s].run /\ active[loop.s].terminal # "none"

\* A routed base has one lane that has not started its run, at most.
Alone ==
    \A f, g \in futures :
        f.at[1] = g.at[1] /\ f.at[1] # Main /\ f.st # "wait" /\ g.st # "wait" => f = g

LaneInv == (\A f \in futures : Fits(f)) /\ Books /\ Alone /\ Current

\* The events in each place.
Queued == UNION {pending[i].ev : i \in DOMAIN pending}
OnLanes == UNION {f.d.ev : f \in futures}
Beside == UNION {sidecar[s].d.ev : s \in Sessions}
Settling == UNION {x.ev : x \in settling}
Settled == {e \in Events : outcome[e] # "none"}

\* No event is in two places, nor twice in one.
QueueOnce == \A i, j \in DOMAIN pending : i # j => pending[i].ev \cap pending[j].ev = {}
LanesOnce == \A f, g \in futures : f # g => f.d.ev \cap g.d.ev = {}
SidesOnce == \A s, t \in Sessions : s # t => sidecar[s].d.ev \cap sidecar[t].d.ev = {}
SettlingOnce == \A x, y \in settling : x # y => x.ev \cap y.ev = {}
Once == QueueOnce /\ LanesOnce /\ SidesOnce /\ SettlingOnce

Apart ==
    /\ Queued \cap (buffer \cup OnLanes \cup Beside \cup Settling) = {}
    /\ buffer \cap (OnLanes \cup Beside \cup Settling) = {}
    /\ OnLanes \cap (Beside \cup Settling) = {}
    /\ Beside \cap Settling = {}

Live == Queued \cup buffer \cup OnLanes \cup Beside \cup Settling
Closing == loop.op \in {"archive", "closeAll", "done"}

EventInv ==
    /\ Once /\ Apart /\ Live \subseteq accepted
    /\ ~Closing => Live \cap Settled = {} /\ accepted = Live \cup Settled
    /\ loop.op = "archive" => loop.known \subseteq loop.ids \cup Settled \cup Settling
    /\ loop.op \in {"closeAll", "done"} => loop.known \subseteq Settled \cup Settling

\* A run that was reported is over, and a lane never leaves a session it has
\* or may have a run on.
Over(m) == m[2] \in RunsOf(m[1]) /\ world[m[1]].runs[m[2]] # "going"
Gone(s) == world[s].st \in {"failed", "closed"}
Touched(s) == RunsOf(s) # {} \/ \E m \in abroad : m[1] = s

EndInv ==
    /\ \A s \in Sessions : world[s].st = "none" => RunsOf(s) = {}
    /\ \A m \in inbox : Over(m)
    /\ loop.op = "terminal" =>
         /\ Over(loop.m)
         /\ \A f \in futures : f.d.ev = loop.m[2] => f.at = loop.m[1]
    /\ \A s \in Sessions : s[1] # Main /\ Touched(s) => s \in tracked \/ Gone(s)
    /\ \A s \in tracked : world[s].st # "none"
    /\ \A f \in futures : Moving(f) => ~Touched(f.at)
    /\ TerminalIsOwn

\* The lanes that may still start a run.
Starting == {f \in futures : f.st \in {"ensure", "status", "start"} /\ BusyMode(f.d) # "append"}

BotInv == Typed /\ LaneInv /\ EventInv /\ EndInv /\ BudgetHolds

-----------------------------------------------------------------------------
(* Types.                                                                  *)

LEMMA RunBook ==
  ASSUME NEW r
  PROVE  r \in RunBooks <=> /\ r = [k \in DOMAIN r |-> r[k]]
                            /\ DOMAIN r \subseteq SUBSET Events
                            /\ \A k \in DOMAIN r : r[k] \in RunStates
<1>1. ASSUME r \in RunBooks
      PROVE  /\ r = [k \in DOMAIN r |-> r[k]]
             /\ DOMAIN r \subseteq SUBSET Events
             /\ \A k \in DOMAIN r : r[k] \in RunStates
  <2>1. PICK K \in SUBSET SUBSET Events : r \in [K -> RunStates]
    BY <1>1 DEF RunBooks
  <2>2. QED
    BY <2>1
<1>2. ASSUME r = [k \in DOMAIN r |-> r[k]], DOMAIN r \subseteq SUBSET Events,
             \A k \in DOMAIN r : r[k] \in RunStates
      PROVE  r \in RunBooks
  <2>1. r \in [DOMAIN r -> RunStates]
    BY <1>2
  <2>2. QED
    BY <1>2, <2>1 DEF RunBooks
<1>3. QED
  BY <1>1, <1>2

LEMMA SessionParts ==
  ASSUME NEW s \in Sessions
  PROVE  s[1] \in Bases /\ s[2] \in 1..MaxGen /\ s = <<s[1], s[2]>>
BY DEF Sessions

LEMMA RunOneMore ==
  ASSUME NEW r \in RunBooks, NEW k \in SUBSET Events, NEW st \in RunStates
  PROVE  [j \in DOMAIN r \cup {k} |-> IF j = k THEN st ELSE r[j]] \in RunBooks
<1> DEFINE q == [j \in DOMAIN r \cup {k} |-> IF j = k THEN st ELSE r[j]]
<1>1. DOMAIN r \subseteq SUBSET Events /\ \A j \in DOMAIN r : r[j] \in RunStates
  BY RunBook
<1>2. DOMAIN q = DOMAIN r \cup {k} /\ q = [j \in DOMAIN q |-> q[j]]
  OBVIOUS
<1>3. \A j \in DOMAIN q : q[j] \in RunStates
  BY <1>1
<1> HIDE DEF q
<1>4. q \in RunBooks
  BY <1>1, <1>2, <1>3, RunBook
<1>5. QED
  BY <1>4 DEF q

LEMMA ClosedSessionTyped ==
  ASSUME WorldTyped, NEW s \in Sessions
  PROVE  ClosedSession(s) \in [st : {"none", "open", "failed", "closed"},
                               foreign : BOOLEAN, runs : RunBooks]
<1> DEFINE r == world[s].runs
           q == [k \in RunsOf(s) |-> IF k \in Going(s) THEN "cancelled" ELSE r[k]]
<1>1. world[s] \in [st : {"none", "open", "failed", "closed"}, foreign : BOOLEAN, runs : RunBooks]
  BY DEF WorldTyped
<1>2. RunsOf(s) = DOMAIN r /\ DOMAIN r \subseteq SUBSET Events /\ \A j \in DOMAIN r : r[j] \in RunStates
  BY <1>1, RunBook DEF RunsOf
<1>3. q \in RunBooks
  <2>1. DOMAIN q = DOMAIN r /\ q = [j \in DOMAIN q |-> q[j]]
    BY <1>2
  <2>2. \A j \in DOMAIN q : q[j] \in RunStates
    BY <1>2 DEF RunStates
  <2> HIDE DEF q
  <2>3. QED
    BY <1>2, <2>1, <2>2, RunBook
<1>4. ClosedSession(s) = IF world[s].st = "none" THEN world[s]
                         ELSE [st |-> "closed", foreign |-> FALSE, runs |-> q]
  BY DEF ClosedSession
<1> HIDE DEF q
<1>5. QED
  BY <1>1, <1>3, <1>4

LEMMA CloseWorldTyped ==
  ASSUME WorldTyped, NEW s \in Sessions, CloseWorld(s), UNCHANGED abroad
  PROVE  WorldTyped'
<1>1. inbox' \subseteq Sessions \X SUBSET Events
  <2>1. world[s].runs \in RunBooks
    BY DEF WorldTyped
  <2>2. QED
    BY <2>1, RunBook DEF CloseWorld, WorldTyped, Going, RunsOf
<1>2. QED
  BY <1>1, ClosedSessionTyped DEF CloseWorld, WorldTyped

\* What a step of the reconcile does, whichever it is.
LEMMA ReconcileDoes ==
  ASSUME ReconcileStep
  PROVE  /\ UNCHANGED <<abroad, pending, buffer, active, futures, sidecar, settling, outcome,
                        accepted, rotate, runsToday>>
         /\ loop.op \in {"status", "ensure", "roll"}
         /\ loop' \in {Parked, Ensuring(1), Ensuring(2), Ensuring(loop.try), Rolling(1), Rolling(2)}
         /\ \/ UNCHANGED <<world, inbox, gen, tracked>>
            \/ CloseWorld(MainSession) /\ Advance(MainSession)
            \/ /\ Startable /\ world' = Opened /\ inbox' = inbox /\ UNCHANGED <<gen, tracked>>
            \/ /\ Startable /\ world' = Opened /\ inbox' = inbox /\ UNCHANGED tracked
               /\ gen[Main] < MaxGen /\ gen' = [gen EXCEPT ![Main] = @ + 1]
<1> USE DEF sessionVars, queueVars, laneVars, mailVars, configVars
<1>1. CASE ReconcileReads
  BY <1>1 DEF ReconcileReads
<1>2. CASE ReconcileRolls
  BY <1>2 DEF ReconcileRolls, Degraded, Advance
<1>3. CASE ReconcileReady \/ ReconcileRefused
  BY <1>3 DEF ReconcileReady, ReconcileRefused
<1>4. CASE ReconcileDead
  BY <1>4 DEF ReconcileDead, Degraded
<1>5. CASE ReconcileFails
  BY <1>5 DEF ReconcileFails, Degraded
<1>6. QED
  BY <1>1, <1>2, <1>3, <1>4, <1>5 DEF ReconcileStep

LEMMA WorldTypedKept ==
  ASSUME Typed, [Next]_vars
  PROVE  WorldTyped'
<1> USE DEF Typed
<1> DEFINE Other(s) == [world EXCEPT ![s].st = "open"]
<1>1. ASSUME NEW s \in Sessions, world' = Other(s), UNCHANGED abroad,
             inbox' \subseteq inbox
      PROVE  WorldTyped'
  BY <1>1 DEF WorldTyped
<1>2. ASSUME UNCHANGED world, abroad' \subseteq Sessions \X SUBSET Events, inbox' \subseteq inbox
      PROVE  WorldTyped'
  BY <1>2 DEF WorldTyped
<1>3. CASE SessionStep
  <2>1. ASSUME NEW s \in Sessions, ForeignWork(s) \/ SessionDies(s) PROVE WorldTyped'
    <3>1. CASE ForeignWork(s)
      <4>1. \/ world' = [world EXCEPT ![s].foreign = TRUE]
            \/ world' = [world EXCEPT ![s].foreign = FALSE]
        BY <3>1 DEF ForeignWork
      <4>2. QED
        BY <3>1, <4>1 DEF ForeignWork, WorldTyped, mailVars
    <3>2. CASE SessionDies(s)
      <4>1. world' = [world EXCEPT ![s] = [@ EXCEPT !.st = "failed", !.foreign = FALSE]]
        BY <3>2 DEF SessionDies
      <4>2. QED
        BY <3>2, <4>1 DEF SessionDies, WorldTyped, mailVars
    <3>3. QED
      BY <2>1, <3>1, <3>2
  <2>2. ASSUME NEW s \in Sessions, NEW k \in SUBSET Events, NEW st \in RunStates,
               world' = WithRun(s, k, st), abroad' \subseteq abroad,
               inbox' \subseteq Sessions \X SUBSET Events
        PROVE  WorldTyped'
    <3> DEFINE q == [j \in DOMAIN world[s].runs \cup {k} |->
                       IF j = k THEN st ELSE world[s].runs[j]]
    <3>0. world[s].runs \in RunBooks
      BY DEF WorldTyped
    <3>1. q \in RunBooks
      BY <3>0, RunOneMore
    <3>2. world' = [world EXCEPT ![s].runs = q]
      BY <2>2 DEF WithRun
    <3> HIDE DEF q
    <3>3. QED
      BY <2>2, <3>1, <3>2 DEF WorldTyped
  <2>3. ASSUME NEW s \in Sessions, NEW k \in SUBSET Events, StartLands(s, k) \/ RunEnds(s, k)
        PROVE  WorldTyped'
    <3>1. CASE StartLands(s, k) /\ k \in RunsOf(s)
      BY <1>2, <3>1 DEF StartLands, WorldTyped, mailVars
    <3>2. CASE StartLands(s, k) /\ k \notin RunsOf(s)
      BY <2>2, <3>2 DEF StartLands, WorldTyped, mailVars, RunStates
    <3>3. CASE RunEnds(s, k)
      BY <2>2, <3>3 DEF RunEnds, WorldTyped, RunStates
    <3>4. QED
      BY <2>3, <3>1, <3>2, <3>3
  <2>4. ASSUME NEW s \in Sessions, NEW k \in SUBSET Events, RepeatTerminal(s, k) PROVE WorldTyped'
    BY <2>4 DEF RepeatTerminal, WorldTyped, sessionVars
  <2>5. QED
    BY <1>3, <2>1, <2>2, <2>3, <2>4 DEF SessionStep
<1>4. CASE SignalStep
  BY <1>2, <1>4
  DEF SignalStep, AcceptEvent, AcceptConfig, CloseBot, NewDay, RequestRotation, PauseEnds,
      sessionVars, mailVars, WorldTyped
<1>5. ASSUME NEW f \in futures, LaneStep(f) PROVE WorldTyped'
  <2>1. f.at \in Sessions /\ f.next \in Sessions /\ f.d.ev \in SUBSET Events
    BY DEF LanesTyped, LaneFutures, Deliveries
  <2>2. CASE LaneEnsures(f)
    BY <1>1, <1>2, <2>1, <2>2 DEF LaneEnsures, mailVars, WorldTyped
  <2>3. CASE LaneMismatch(f) \/ LaneAppends(f) \/ LaneStarted(f) \/ LaneStartUnclear(f)
             \/ LaneStartDead(f) \/ LaneEnds(f)
    BY <1>2, <2>3
    DEF LaneMismatch, LaneAppends, LaneStarted, LaneStartUnclear, LaneStartDead, LaneEnds,
        sessionVars, mailVars, WorldTyped
  <2>4. CASE LaneFails(f)
    BY <1>1, <1>2, <2>1, <2>4 DEF LaneFails, mailVars, WorldTyped
  <2>5. CASE LaneReadsStatus(f)
    BY <1>2, <2>1, <2>5 DEF LaneReadsStatus, mailVars, WorldTyped
  <2>6. CASE LaneStartRefused(f)
    BY <1>2, <2>6 DEF LaneStartRefused, mailVars, WorldTyped
  <2>7. CASE LaneLeaves(f)
    BY <1>2, <2>1, <2>7, CloseWorldTyped DEF LaneLeaves, WorldTyped
  <2>8. QED
    BY <1>5, <2>2, <2>3, <2>4, <2>5, <2>6, <2>7 DEF LaneStep
<1>6. CASE LoopStep
  <2>1. CASE SweepCloses
    BY <1>2, <2>1, CloseWorldTyped DEF SweepCloses, WorldTyped, LoopTyped
  <2>2. CASE IdleClosed
    BY <1>2, <2>2, CloseWorldTyped DEF IdleClosed, WorldTyped, LoopTyped
  <2>3. CASE ReconcileStep
    <3>1. MainSession \in Sessions
      BY DEF MainSession, Sessions, Bases, ConfigTyped
    <3>2. \/ UNCHANGED <<world, inbox>> \/ CloseWorld(MainSession)
          \/ world' = Other(MainSession) /\ inbox' = inbox
      BY <2>3, ReconcileDoes DEF Opened
    <3>3. UNCHANGED abroad
      BY <2>3, ReconcileDoes
    <3>4. QED
      BY <1>1, <1>2, <3>1, <3>2, <3>3, CloseWorldTyped DEF WorldTyped
  <2>4. CASE TeardownEnds
    BY <2>4, ClosedSessionTyped DEF TeardownEnds, WorldTyped, mailVars
  <2>5. CASE FlushBuffer \/ (\E i \in DOMAIN pending : DispatchLane(i) \/ DispatchSidecar(i))
             \/ (\E m \in inbox : TakeTerminal(m)) \/ AttachTerminal
    BY <1>2, <2>5
    DEF FlushBuffer, DispatchLane, DispatchSidecar, TakeTerminal, AttachTerminal,
        sessionVars, mailVars, WorldTyped
  <2>6. CASE SweepReads \/ (\E s \in Sessions : SweepFailsLane(s) \/ DropRotation(s))
             \/ (\E s \in Sessions, why \in {"rotate", "idle"} : CloseIdle(s, why))
             \/ ReconcileBegins \/ ContinueAsNew \/ TeardownBegins \/ TeardownArchives
    BY <1>2, <2>6
    DEF SweepReads, SweepFailsLane, DropRotation, CloseIdle, ReconcileBegins, ContinueAsNew,
        TeardownBegins, TeardownArchives, sessionVars, mailVars, WorldTyped
  <2>7. QED
    BY <1>6, <2>1, <2>2, <2>3, <2>4, <2>5, <2>6 DEF LoopStep
<1>7. CASE \E s \in Sessions : SidecarEnds(s)
  BY <1>2, <1>7 DEF SidecarEnds, sessionVars, mailVars, WorldTyped
<1>8. CASE \E x \in settling : Settle(x)
  BY <1>2, <1>8 DEF Settle, sessionVars, mailVars, WorldTyped
<1>9. CASE UNCHANGED vars
  BY <1>2, <1>9 DEF vars, sessionVars, mailVars, WorldTyped
<1>10. QED
  BY <1>3, <1>4, <1>5, <1>6, <1>7, <1>8, <1>9 DEF Next

LEMMA Removed ==
  ASSUME NEW D, NEW p \in Seq(D), NEW i \in DOMAIN p
  PROVE  /\ RemoveAt(p, i) \in Seq(D) /\ Len(RemoveAt(p, i)) = Len(p) - 1
         /\ \A j \in DOMAIN RemoveAt(p, i) :
              RemoveAt(p, i)[j] = IF j < i THEN p[j] ELSE p[j + 1]
<1>1. Len(p) \in Nat /\ DOMAIN p = 1..Len(p) /\ i \in 1..Len(p)
  BY LenProperties
<1>2. /\ SubSeq(p, 1, i - 1) \in Seq(D) /\ Len(SubSeq(p, 1, i - 1)) = i - 1
      /\ \A j \in 1..(i - 1) : SubSeq(p, 1, i - 1)[j] = p[j]
  BY <1>1, SubSeqProperties
<1>3. /\ SubSeq(p, i + 1, Len(p)) \in Seq(D) /\ Len(SubSeq(p, i + 1, Len(p))) = Len(p) - i
      /\ \A j \in 1..(Len(p) - i) : SubSeq(p, i + 1, Len(p))[j] = p[i + j]
  BY <1>1, SubSeqProperties
<1> DEFINE a == SubSeq(p, 1, i - 1)
           b == SubSeq(p, i + 1, Len(p))
<1>4. RemoveAt(p, i) = a \o b
  BY DEF RemoveAt
<1> HIDE DEF a, b
<1>5. /\ a \o b \in Seq(D) /\ Len(a \o b) = (i - 1) + (Len(p) - i)
      /\ \A j \in 1..((i - 1) + (Len(p) - i)) :
           (a \o b)[j] = IF j <= i - 1 THEN a[j] ELSE b[j - (i - 1)]
  <2>1. a \in Seq(D) /\ b \in Seq(D) /\ Len(a) = i - 1 /\ Len(b) = Len(p) - i
    BY <1>2, <1>3 DEF a, b
  <2>2. /\ a \o b \in Seq(D) /\ Len(a \o b) = Len(a) + Len(b)
        /\ \A j \in 1..(Len(a) + Len(b)) :
             (a \o b)[j] = IF j <= Len(a) THEN a[j] ELSE b[j - Len(a)]
    BY <2>1, ConcatProperties
  <2>3. QED
    BY <2>1, <2>2
<1>6. ASSUME NEW j \in 1..(Len(p) - 1) PROVE (a \o b)[j] = IF j < i THEN p[j] ELSE p[j + 1]
  <2>1. CASE j < i
    <3>1. j <= i - 1 /\ j \in 1..(i - 1) /\ j \in 1..((i - 1) + (Len(p) - i))
      BY <1>1, <2>1
    <3>2. QED
      BY <1>2, <1>5, <2>1, <3>1 DEF a
  <2>2. CASE ~(j < i)
    <3>1. /\ ~(j <= i - 1) /\ j - (i - 1) \in 1..(Len(p) - i) /\ i + (j - (i - 1)) = j + 1
          /\ j \in 1..((i - 1) + (Len(p) - i))
      BY <1>1, <2>2
    <3>2. QED
      BY <1>3, <1>5, <2>2, <3>1 DEF b
  <2>3. QED
    BY <2>1, <2>2
<1>7. (i - 1) + (Len(p) - i) = Len(p) - 1
  BY <1>1
<1>8. DOMAIN (a \o b) = 1..(Len(p) - 1)
  BY <1>5, <1>7, LenProperties
<1>9. QED
  BY <1>4, <1>5, <1>6, <1>7, <1>8

LEMMA Prepended ==
  ASSUME NEW D, NEW p \in Seq(D), NEW d \in D
  PROVE  /\ <<d>> \o p \in Seq(D) /\ Len(<<d>> \o p) = Len(p) + 1
         /\ (<<d>> \o p)[1] = d
         /\ \A j \in DOMAIN p : (<<d>> \o p)[j + 1] = p[j]
BY ConcatProperties, LenProperties

LEMMA BaseTyped ==
  ASSUME NEW d \in Deliveries
  PROVE  BaseOf(d) \in Bases
<1>1. (CHOOSE e \in d.ev : TRUE) \in d.ev /\ d.ev \subseteq Events
  BY DEF Deliveries
<1>2. QED
  BY <1>1 DEF BaseOf, Bases

LEMMA TakenTyped ==
  ASSUME Typed, NEW i \in DOMAIN pending
  PROVE  /\ pending[i] \in Deliveries /\ pending[i].ev \in SUBSET Events /\ pending[i].ev # {}
         /\ BaseOf(pending[i]) \in Bases /\ TargetOf(pending[i]) \in Sessions
<1>1. pending[i] \in Deliveries
  BY ElementOfSeq, LenProperties DEF Typed, QueueTyped
<1>2. BaseOf(pending[i]) \in Bases
  BY <1>1, BaseTyped
<1>3. QED
  BY <1>1, <1>2 DEF Deliveries, TargetOf, Typed, ConfigTyped, Sessions

LEMMA Readmitted ==
  ASSUME NEW d \in Deliveries, NEW n \in Nat
  PROVE  /\ [d EXCEPT !.waits = TRUE] \in Deliveries
         /\ [d EXCEPT !.attempts = n, !.waits = TRUE] \in Deliveries
         /\ [d EXCEPT !.rolled = TRUE, !.attempts = 0, !.waits = FALSE] \in Deliveries
BY DEF Deliveries

LEMMA QueueTypedKept ==
  ASSUME Typed, [Next]_vars
  PROVE  QueueTyped'
<1> USE DEF Typed
<1>1. ASSUME NEW i \in DOMAIN pending, pending' = RemoveAt(pending, i), UNCHANGED <<buffer, accepted>>
      PROVE  QueueTyped'
  BY <1>1, Removed DEF QueueTyped
<1>2. ASSUME NEW d \in Deliveries, pending' = <<d>> \o pending, UNCHANGED <<buffer, accepted>>
      PROVE  QueueTyped'
  BY <1>2, Prepended DEF QueueTyped
<1>3. ASSUME UNCHANGED <<queueVars, accepted>> PROVE QueueTyped'
  BY <1>3 DEF queueVars, QueueTyped
<1>4. CASE SessionStep
  BY <1>3, <1>4 DEF mailVars, SessionStep, ForeignWork, SessionDies, StartLands, RunEnds, RepeatTerminal
<1>5. CASE SignalStep
  <2>1. ASSUME NEW e \in Events, AcceptEvent(e) PROVE QueueTyped'
    <3>1. Delivery({e}) \in Deliveries
      BY DEF Delivery, Deliveries
    <3>2. QED
      BY <2>1, <3>1, AppendProperties DEF AcceptEvent, QueueTyped
  <2>2. ASSUME NEW i \in DOMAIN pending, PauseEnds(i) PROVE QueueTyped'
    <3>1. [pending[i] EXCEPT !.waits = FALSE] \in Deliveries
      BY TakenTyped DEF Deliveries
    <3>2. pending' = [pending EXCEPT ![i] = [pending[i] EXCEPT !.waits = FALSE]]
      BY <2>2 DEF PauseEnds
    <3>3. QED
      BY <2>2, <3>1, <3>2, ExceptSeq DEF mailVars, PauseEnds, QueueTyped
  <2>3. QED
    BY <1>3, <1>5, <2>1, <2>2
    DEF mailVars, SignalStep, AcceptConfig, CloseBot, NewDay, RequestRotation
<1>6. ASSUME NEW f \in futures, LaneStep(f) PROVE QueueTyped'
  <2>1. f.d \in Deliveries
    BY DEF LanesTyped, LaneFutures
  <2>2. CASE LaneReadsStatus(f)
    BY <1>2, <1>3, <2>1, <2>2, Readmitted DEF LaneReadsStatus, Requeue, queueVars, mailVars
  <2>3. CASE LaneStartUnclear(f)
    <3>1. f.d.attempts + 1 \in Nat
      BY <2>1 DEF Deliveries
    <3>2. [f.d EXCEPT !.attempts = @ + 1, !.waits = TRUE] \in Deliveries
      BY <2>1, <3>1, Readmitted
    <3>3. QED
      BY <1>2, <1>3, <2>3, <3>2 DEF LaneStartUnclear, Requeue, queueVars, mailVars
  <2>4. CASE LaneLeaves(f)
    BY <1>2, <1>3, <2>1, <2>4, Readmitted DEF LaneLeaves, Requeue, queueVars, mailVars
  <2>5. QED
    BY <1>3, <1>6, <2>2, <2>3, <2>4
    DEF mailVars, LaneStep, LaneEnsures, LaneMismatch, LaneFails, LaneAppends, LaneStarted,
        LaneStartRefused, LaneStartDead, LaneEnds
<1>7. ASSUME NEW s \in Sessions, SidecarEnds(s) PROVE QueueTyped'
  <2>1. sidecar[s].d \in Deliveries
    BY <1>7, Zenon DEF SidecarEnds, SidesTyped
  <2>2. QED
    BY <1>2, <1>3, <1>7, <2>1, Readmitted DEF SidecarEnds, queueVars, mailVars
<1>8. CASE LoopStep
  <2>1. CASE FlushBuffer
    <3>1. Delivery(buffer) \in Deliveries
      BY <2>1 DEF Delivery, Deliveries, FlushBuffer, QueueTyped
    <3>2. QED
      BY <2>1, <3>1, AppendProperties DEF mailVars, FlushBuffer, QueueTyped
  <2>2. CASE \E i \in DOMAIN pending : DispatchLane(i) \/ DispatchSidecar(i)
    <3>1. PICK i \in DOMAIN pending : DispatchLane(i) \/ DispatchSidecar(i)
      BY <2>2
    <3>2. pending' = RemoveAt(pending, i) /\ UNCHANGED <<buffer, accepted>>
      BY <3>1 DEF mailVars, DispatchLane, DispatchSidecar
    <3>3. QED
      BY <1>1, <3>2
  <2>3. CASE TeardownArchives
    <3>1. pending' = <<>> /\ buffer' = {} /\ UNCHANGED accepted
      BY <2>3 DEF TeardownArchives, mailVars
    <3>2. QED
      BY <3>1, EmptySeq DEF QueueTyped
  <2>4. QED
    <3>1. ASSUME ReconcileStep PROVE QueueTyped'
      BY <1>3, <3>1, ReconcileDoes DEF queueVars
    <3>2. QED
      BY <1>3, <1>8, <2>1, <2>2, <2>3, <3>1
      DEF mailVars, LoopStep, TakeTerminal, AttachTerminal, SweepReads, SweepCloses,
          SweepFailsLane, DropRotation, CloseIdle, IdleClosed, ReconcileBegins, ContinueAsNew,
          TeardownBegins, TeardownEnds
<1>9. QED
  BY <1>3, <1>4, <1>5, <1>6, <1>7, <1>8 DEF mailVars, Next, Settle, vars

LEMMA LaneTyped ==
  ASSUME NEW d \in Deliveries, NEW st \in LaneStates, NEW s \in Sessions
  PROVE  Lane(d, st, s) \in LaneFutures
BY DEF Lane, LaneFutures

LEMMA NoLaneTyped ==
  /\ NoLane \in LaneRecords /\ NoLane.d = Nothing
  /\ \A d \in Deliveries : FreshLane(d) \in LaneRecords
BY DEF NoLane, FreshLane, LaneRecords, Nothing, Terminals

\* A lane that is dropped, or goes on, leaves the rest typed.
LEMMA LaneMoves ==
  ASSUME Typed, NEW f \in futures
  PROVE  /\ f.d \in Deliveries /\ f.d.ev # {} /\ f.d.ev \subseteq Events
         /\ f.at \in Sessions /\ f.next \in Sessions /\ f.st \in LaneStates
         /\ f = [d |-> f.d, st |-> f.st, at |-> f.at, next |-> f.next]
         /\ active' = [active EXCEPT ![f.at] = NoLane] /\ futures' = futures \ {f} => LanesTyped'
         /\ \A st \in LaneStates : Goes(f, st) => LanesTyped'
<1>1. f \in LaneFutures
  BY DEF Typed, LanesTyped, LaneFutures
<1>2. /\ f.d \in Deliveries /\ f.d.ev # {} /\ f.d.ev \subseteq Events
      /\ f.at \in Sessions /\ f.next \in Sessions /\ f.st \in LaneStates
      /\ f = [d |-> f.d, st |-> f.st, at |-> f.at, next |-> f.next]
  BY <1>1 DEF Deliveries, LaneFutures
<1>3. ASSUME active' = [active EXCEPT ![f.at] = NoLane], futures' = futures \ {f} PROVE LanesTyped'
  BY <1>2, <1>3, NoLaneTyped DEF Typed, LanesTyped
<1>4. ASSUME NEW st \in LaneStates, Goes(f, st) PROVE LanesTyped'
  BY <1>2, <1>4, LaneTyped DEF Typed, LanesTyped, Goes, Becomes
<1>5. QED
  BY <1>2, <1>3, <1>4

\* What a lane's record becomes when marks are made on it.
LEMMA Started ==
  ASSUME NEW a \in LaneRecords, NEW r \in BOOLEAN, NEW q \in BOOLEAN,
         NEW y \in BOOLEAN, NEW x, y => x \in Terminals
  PROVE  [a EXCEPT !.run = @ \/ r, !.parked = @ \/ r, !.terminal = IF y THEN x ELSE @,
                   !.resolved = @ \/ q] \in LaneRecords
<1>1. (a.run \/ r) \in BOOLEAN /\ (a.parked \/ r) \in BOOLEAN /\ (a.resolved \/ q) \in BOOLEAN
  OBVIOUS
<1>2. (IF y THEN x ELSE a.terminal) \in Terminals
  BY DEF LaneRecords
<1>3. QED
  BY <1>1, <1>2 DEF LaneRecords

LEMMA Marked ==
  ASSUME NEW a \in LaneRecords, NEW q \in BOOLEAN,
         NEW y \in BOOLEAN, NEW x, y => x \in Terminals
  PROVE  /\ [a EXCEPT !.resolved = @ \/ q, !.terminal = IF y THEN x ELSE @] \in LaneRecords
         /\ [a EXCEPT !.resolved = FALSE] \in LaneRecords
<1>1. (a.resolved \/ q) \in BOOLEAN
  OBVIOUS
<1>2. (IF y THEN x ELSE a.terminal) \in Terminals
  BY DEF LaneRecords
<1>3. QED
  BY <1>1, <1>2 DEF LaneRecords

LEMMA LanesTypedKept ==
  ASSUME Typed, EndInv, [Next]_vars
  PROVE  LanesTyped'
<1> USE DEF Typed
<1>1. ASSUME UNCHANGED <<active, futures>> PROVE LanesTyped'
  BY <1>1 DEF LanesTyped
<1>2. CASE SessionStep \/ SignalStep
  BY <1>1, <1>2
  DEF SessionStep, ForeignWork, SessionDies, StartLands, RunEnds, RepeatTerminal, SignalStep,
      AcceptEvent, PauseEnds, AcceptConfig, CloseBot, NewDay, RequestRotation, laneVars
<1>3. ASSUME NEW f \in futures, LaneStep(f) PROVE LanesTyped'
  <2>1. /\ f.d \in Deliveries /\ f.at \in Sessions /\ f.next \in Sessions /\ f.st \in LaneStates
        /\ f = [d |-> f.d, st |-> f.st, at |-> f.at, next |-> f.next]
    BY LaneMoves
  <2>2. CASE LaneEnsures(f)
    <3>1. PICK st \in LaneStates : Becomes(f, Lane(f.d, st, f.next)) /\ RekeyLane(f.at, f.next)
      BY <2>2 DEF LaneEnsures, AfterEnsure, LaneStates
    <3>2. active' \in [Sessions -> LaneRecords]
      BY <2>1, <3>1, NoLaneTyped DEF RekeyLane, LanesTyped
    <3>3. QED
      BY <2>1, <3>1, <3>2, LaneTyped DEF Becomes, LanesTyped
  <2>3. CASE LaneMismatch(f)
    <3>1. <<f.at[1], gen[f.at[1]] + 1>> \in Sessions
      BY <2>1, <2>3, SessionParts, BotAssumption
      DEF LaneMismatch, Sessions, ConfigTyped, BotAssumption
    <3>2. [f EXCEPT !.next = <<f.at[1], gen[f.at[1]] + 1>>]
             \in LaneFutures
      BY <2>1, <3>1 DEF LaneFutures
    <3>3. QED
      BY <2>3, <3>2 DEF LaneMismatch, Becomes, LanesTyped
  <2>4. CASE LaneStarted(f)
    <3> DEFINE st == world[f.at].runs[f.d.ev]
    <3>1. st \in RunStates
      <4>1. world[f.at].runs \in RunBooks
        BY <2>1 DEF WorldTyped
      <4>2. QED
        BY <2>4, <4>1, RunBook DEF LaneStarted, RunsOf
    <3>2. st # "going" => st \in Terminals
      BY <3>1 DEF RunStates, Terminals
    <3> HIDE DEF st
    <3>3. ASSUME NEW t \in Sessions PROVE active'[t] \in LaneRecords
      <4>1. active[t] \in LaneRecords
        BY SMTT(30) DEF LanesTyped
      <4> DEFINE r == t = f.at
                 q == t = f.at /\ st = "ended" /\ <<f.at, f.d.ev>> \notin read
                 y == st # "going" /\ active[t].d.ev = f.d.ev
      <4>2. active'[t] = IF HasLane(t)
              THEN [active[t] EXCEPT !.run = @ \/ r, !.parked = @ \/ r,
                                     !.terminal = IF y THEN st ELSE @, !.resolved = @ \/ q]
              ELSE active[t]
        BY <2>4 DEF LaneStarted, st
      <4>3. r \in BOOLEAN /\ q \in BOOLEAN /\ y \in BOOLEAN /\ (y => st \in Terminals)
        BY <3>2
      <4> HIDE DEF r, q, y
      <4>4. [active[t] EXCEPT !.run = @ \/ r, !.parked = @ \/ r,
                              !.terminal = IF y THEN st ELSE @, !.resolved = @ \/ q] \in LaneRecords
        BY <4>1, <4>3, Started, ZenonT(30)
      <4>5. QED
        BY <4>1, <4>2, <4>4
    <3>4. active' = [t \in Sessions |-> active'[t]]
      BY <2>4 DEF LaneStarted
    <3>5. futures' = (futures \ {f}) \cup {Lane(f.d, "wait", f.at)}
      BY <2>4 DEF LaneStarted, Becomes
    <3>6. QED
      BY <2>1, <3>3, <3>4, <3>5, LaneTyped, Zenon DEF LanesTyped, LaneStates
  <2>5. CASE LaneAppends(f) \/ LaneFails(f) \/ LaneStartUnclear(f) \/ LaneStartRefused(f)
             \/ LaneStartDead(f) \/ LaneLeaves(f) \/ LaneEnds(f)
    BY <2>5, LaneMoves
    DEF LaneAppends, LaneFails, LaneStartUnclear, LaneStartRefused, LaneStartDead, LaneLeaves,
        LaneEnds, Finish, Requeue, LaneStates
  <2>6. CASE LaneReadsStatus(f)
    BY <2>6, LaneMoves DEF LaneReadsStatus, Finish, Requeue, LaneStates
  <2>7. QED
    BY <1>3, <2>2, <2>3, <2>4, <2>5, <2>6 DEF LaneStep
<1>4. CASE LoopStep
  <2>1. CASE \E i \in DOMAIN pending : DispatchLane(i)
    <3>1. PICK i \in DOMAIN pending : DispatchLane(i)
      BY <2>1
    <3>2. pending[i] \in Deliveries /\ TargetOf(pending[i]) \in Sessions
      BY TakenTyped
    <3>3. FirstStep(pending[i]) \in LaneStates
      BY DEF FirstStep, LaneStates
    <3>4. QED
      BY <3>1, <3>2, <3>3, LaneTyped, NoLaneTyped DEF DispatchLane, LanesTyped
  <2>2. CASE AttachTerminal
    <3> DEFINE s == loop.m[1]
               k == loop.m[2]
               st == world[s].runs[k]
    <3>1. st \in Terminals
      <4>1. s \in Sessions /\ world[s].runs \in RunBooks
        BY <2>2, Zenon DEF AttachTerminal, WorldTyped, LoopTyped
      <4>2. k \in DOMAIN world[s].runs /\ st # "going"
        BY <2>2 DEF AttachTerminal, EndInv, Over, RunsOf
      <4>3. QED
        BY <4>1, <4>2, RunBook DEF RunStates, Terminals
    <3> HIDE DEF st
    <3>2. ASSUME NEW t \in Sessions PROVE active'[t] \in LaneRecords
      <4>1. active[t] \in LaneRecords
        BY DEF LanesTyped
      <4> DEFINE q == t = s /\ HasLane(t) /\ st = "ended" /\ <<s, k>> \notin read
                 y == HasLane(t) /\ active[t].d.ev = k
      <4>2. active'[t] = [active[t] EXCEPT !.resolved = @ \/ q,
                                           !.terminal = IF y THEN st ELSE @]
        BY <2>2 DEF AttachTerminal, st
      <4>3. q \in BOOLEAN /\ y \in BOOLEAN
        OBVIOUS
      <4> HIDE DEF q, y
      <4>4. [active[t] EXCEPT !.resolved = @ \/ q, !.terminal = IF y THEN st ELSE @] \in LaneRecords
        BY <3>1, <4>1, <4>3, Marked, Zenon
      <4>5. QED
        BY <4>2, <4>4
    <3>3. active' = [t \in Sessions |-> active'[t]] /\ UNCHANGED futures
      BY <2>2 DEF AttachTerminal
    <3>4. QED
      BY <3>2, <3>3 DEF LanesTyped
  <2>3. CASE \E s \in Sessions : SweepFailsLane(s)
    BY <1>1, <2>3 DEF SweepFailsLane, LanesTyped, LaneRecords, Terminals
  <2>4. CASE ContinueAsNew
    <3>1. \A s \in Sessions : [active[s] EXCEPT !.resolved = FALSE] \in LaneRecords
      BY Marked DEF LanesTyped
    <3>2. \A s \in OnBooks : s \in Sessions /\ active[s].d \in Deliveries
      BY DEF OnBooks, HasLane, LanesTyped, LaneRecords, Nothing
    <3>3. futures' \subseteq LaneFutures
      BY <2>4, <3>2, LaneTyped DEF ContinueAsNew, LaneStates
    <3>4. QED
      BY <2>4, <3>1, <3>3 DEF ContinueAsNew, LanesTyped
  <2>5. CASE TeardownEnds
    BY <2>5, NoLaneTyped DEF TeardownEnds, LanesTyped
  <2>6. QED
    <3>1. ASSUME ReconcileStep PROVE LanesTyped'
      BY <1>1, <3>1, ReconcileDoes
    <3>2. QED
      BY <1>1, <1>4, <2>1, <2>2, <2>3, <2>4, <2>5, <3>1
      DEF LoopStep, FlushBuffer, DispatchSidecar, TakeTerminal, SweepReads, SweepCloses,
          DropRotation, CloseIdle, IdleClosed, ReconcileBegins,
          TeardownBegins, TeardownArchives, laneVars
<1>5. QED
  BY <1>1, <1>2, <1>3, <1>4 DEF Next, SidecarEnds, Settle, vars, laneVars

LEMMA SidesTypedKept ==
  ASSUME Typed, [Next]_vars
  PROVE  SidesTyped'
<1> USE DEF Typed
<1>1. ASSUME UNCHANGED sidecar PROVE SidesTyped'
  BY <1>1 DEF SidesTyped
<1>2. CASE SessionStep \/ SignalStep
  BY <1>1, <1>2, Zenon
  DEF SessionStep, ForeignWork, SessionDies, StartLands, RunEnds, RepeatTerminal, SignalStep,
      AcceptEvent, PauseEnds, AcceptConfig, CloseBot, NewDay, RequestRotation, laneVars
<1>3. ASSUME NEW f \in futures, LaneStep(f) PROVE SidesTyped'
  BY <1>1, <1>3, Zenon
  DEF LaneStep, LaneEnsures, LaneMismatch, LaneFails, LaneAppends, LaneReadsStatus, LaneStarted,
      LaneStartUnclear, LaneStartRefused, LaneStartDead, LaneLeaves, LaneEnds
<1>4. CASE LoopStep
  <2>1. CASE \E i \in DOMAIN pending : DispatchSidecar(i)
    <3>1. PICK i \in DOMAIN pending : DispatchSidecar(i)
      BY <2>1
    <3>2. /\ pending[i] \in Deliveries /\ TargetOf(pending[i]) \in Sessions
          /\ pending[i] # Nothing
      BY TakenTyped DEF Nothing
    <3>3. QED
      BY <3>1, <3>2 DEF DispatchSidecar, SidesTyped
  <2>2. CASE ContinueAsNew \/ TeardownEnds
    <3>1. sidecar' = [s \in Sessions |-> NoSidecar]
      BY <2>2 DEF ContinueAsNew, TeardownEnds
    <3>2. QED
      BY <3>1 DEF SidesTyped, NoSidecar, Nothing
  <2>3. QED
    BY <1>1, <1>4, <2>1, <2>2, ReconcileDoes
    DEF LoopStep, FlushBuffer, DispatchLane, TakeTerminal, AttachTerminal, SweepReads, SweepCloses,
        SweepFailsLane, DropRotation, CloseIdle, IdleClosed, ReconcileBegins,
        TeardownBegins, TeardownArchives, laneVars
<1>5. CASE \E s \in Sessions : SidecarEnds(s)
  BY <1>5 DEF SidecarEnds, SidesTyped, NoSidecar, Nothing
<1>6. QED
  BY <1>1, <1>2, <1>3, <1>4, <1>5 DEF Next, Settle, vars, laneVars

LEMMA SettledTypedKept ==
  ASSUME Typed, [Next]_vars
  PROVE  SettledTyped'
<1> USE DEF Typed
<1>1. ASSUME UNCHANGED <<settling, outcome>> PROVE SettledTyped'
  BY <1>1 DEF SettledTyped
<1>2. ASSUME NEW evs \in SUBSET Events, NEW out \in Outcomes \ {"none"}, UNCHANGED outcome,
             settling' = settling \cup {[ev |-> evs, out |-> out]}
      PROVE  SettledTyped'
  <2>1. IsFiniteSet(settling')
    BY <1>2, FS_AddElement DEF SettledTyped
  <2>2. QED
    BY <1>2, <2>1 DEF SettledTyped
<1>3. CASE SessionStep \/ SignalStep
  BY <1>1, <1>3
  DEF SessionStep, ForeignWork, SessionDies, StartLands, RunEnds, RepeatTerminal, SignalStep,
      AcceptEvent, PauseEnds, AcceptConfig, CloseBot, NewDay, RequestRotation, laneVars
<1>4. ASSUME NEW f \in futures, LaneStep(f) PROVE SettledTyped'
  <2>1. f.d.ev \in SUBSET Events
    BY LaneMoves
  <2>2. OutcomeOf(active[f.at]) \in Outcomes \ {"none"}
    BY DEF OutcomeOf, Outcomes
  <2>3. QED
    BY <1>1, <1>2, <1>4, <2>1, <2>2
    DEF LaneStep, LaneEnsures, LaneMismatch, LaneFails, LaneAppends, LaneReadsStatus, LaneStarted,
      LaneStartUnclear, LaneStartRefused, LaneStartDead, LaneLeaves, LaneEnds, Finish, Outcomes
<1>5. ASSUME NEW s \in Sessions, SidecarEnds(s) PROVE SettledTyped'
  <2>1. sidecar[s].d.ev \in SUBSET Events
    BY DEF SidesTyped, Deliveries, Nothing
  <2>2. (IF BusyMode(sidecar[s].d) = "append" THEN "appended" ELSE "steered") \in Outcomes \ {"none"}
    BY DEF Outcomes
  <2>3. QED
    BY <1>1, <1>2, <1>5, <2>1, <2>2 DEF SidecarEnds, Outcomes
<1>6. ASSUME NEW evs \in SUBSET Events, NEW out \in Outcomes \ {"none"}
      PROVE  Record(evs, out) \in [Events -> Outcomes]
  BY DEF Record, SettledTyped
<1>7. ASSUME NEW x \in settling, Settle(x) PROVE SettledTyped'
  <2>1. x.ev \in SUBSET Events /\ x.out \in Outcomes \ {"none"}
    BY DEF SettledTyped
  <2>2. outcome' \in [Events -> Outcomes]
    <3>1. outcome' = Record(x.ev, x.out) \/ outcome' = Record(x.ev, "unrecorded")
      BY <1>7 DEF Settle
    <3>2. "unrecorded" \in Outcomes \ {"none"}
      BY Zenon DEF Outcomes
    <3>3. QED
      BY <1>6, <2>1, <3>1, <3>2
  <2>3. QED
    BY <1>7, <2>2, FS_RemoveElement DEF Settle, SettledTyped
<1>8. CASE LoopStep
  <2>1. CASE TeardownArchives
    <3>1. loop.ids \in SUBSET Events
      BY <2>1 DEF TeardownArchives, LoopTyped
    <3>2. outcome' \in [Events -> Outcomes]
      <4>1. PICK out \in {"archived", "unrecorded"} : outcome' = Record(loop.ids, out)
        BY <2>1 DEF TeardownArchives
      <4>2. out \in Outcomes \ {"none"}
        BY <4>1 DEF Outcomes
      <4>3. QED
        BY <1>6, <3>1, <4>1, <4>2
    <3>3. QED
      BY <2>1, <3>2 DEF TeardownArchives, SettledTyped
  <2>2. CASE ContinueAsNew
    BY <2>2, FS_EmptySet DEF ContinueAsNew, SettledTyped
  <2>3. QED
    BY <1>1, <1>8, <2>1, <2>2, ReconcileDoes
    DEF LoopStep, FlushBuffer, DispatchLane, DispatchSidecar, TakeTerminal, AttachTerminal,
        SweepReads, SweepCloses, SweepFailsLane, DropRotation, CloseIdle, IdleClosed,
        ReconcileBegins, TeardownBegins, TeardownEnds, laneVars
<1>9. QED
  BY <1>1, <1>3, <1>4, <1>5, <1>7, <1>8 DEF Next, vars, laneVars

LEMMA MainTyped ==
  ASSUME Typed
  PROVE  MainSession \in Sessions /\ Main \in Bases /\ gen[Main] \in 1..MaxGen
BY DEF MainSession, Sessions, Bases, Typed, ConfigTyped

LEMMA AdvanceTyped ==
  ASSUME Typed, NEW s \in Sessions, Advance(s)
  PROVE  gen' \in [Bases -> 1..MaxGen] /\ tracked' \subseteq Sessions /\ rotate' \subseteq Sessions
<1>1. s[1] \in Bases /\ gen[s[1]] \in 1..MaxGen
  BY SessionParts DEF Typed, ConfigTyped
<1>2. gen[s[1]] + 1 \in 1..MaxGen
  BY <1>1, BotAssumption DEF BotAssumption, Advance
<1>3. QED
  BY <1>1, <1>2 DEF Advance, Typed, ConfigTyped

LEMMA ConfigTypedKept ==
  ASSUME Typed, [Next]_vars
  PROVE  ConfigTyped'
<1> USE DEF Typed
<1>1. ASSUME UNCHANGED <<gen, tracked, rotate, runsToday>> PROVE ConfigTyped'
  BY <1>1 DEF ConfigTyped
<1>2. ASSUME NEW s \in Sessions, Advance(s), UNCHANGED runsToday PROVE ConfigTyped'
  BY <1>2, AdvanceTyped DEF ConfigTyped
<1>3. ASSUME NEW b \in Bases, gen[b] < MaxGen PROVE [gen EXCEPT ![b] = @ + 1] \in [Bases -> 1..MaxGen]
  <2>1. gen[b] + 1 \in 1..MaxGen
    BY <1>3, BotAssumption DEF BotAssumption, ConfigTyped
  <2>2. QED
    BY <2>1 DEF ConfigTyped
<1>4. CASE SessionStep
  BY <1>1, <1>4
  DEF SessionStep, ForeignWork, SessionDies, StartLands, RunEnds, RepeatTerminal, configVars, restVars
<1>5. CASE SignalStep
  <2>1. CASE NewDay \/ \E s \in Sessions : RequestRotation(s)
    BY <2>1 DEF NewDay, RequestRotation, configVars, ConfigTyped
  <2>2. QED
    BY <1>1, <1>5, <2>1
    DEF SignalStep, AcceptEvent, PauseEnds, AcceptConfig, CloseBot, configVars, restVars
<1>6. ASSUME NEW f \in futures, LaneStep(f) PROVE ConfigTyped'
  <2>1. f.at \in Sessions /\ f.next \in Sessions /\ f.at[1] \in Bases
    BY LaneMoves, SessionParts
  <2>2. CASE LaneEnsures(f)
    BY <2>1, <2>2 DEF LaneEnsures, restVars, ConfigTyped
  <2>3. CASE LaneMismatch(f)
    BY <1>3, <2>1, <2>3 DEF LaneMismatch, ConfigTyped
  <2>4. CASE LaneStarted(f)
    <3>1. runsToday' = runsToday + 1 /\ UNCHANGED <<gen, tracked, rotate>>
      BY <2>4 DEF LaneStarted, configVars
    <3>2. QED
      BY <3>1, SMTT(30) DEF ConfigTyped
  <2>5. CASE LaneLeaves(f)
    BY <1>1, <1>2, <2>1, <2>5, Zenon DEF LaneLeaves, RollForward, configVars
  <2>6. QED
    BY <1>1, <1>6, <2>2, <2>3, <2>4, <2>5
    DEF LaneStep, LaneFails, LaneAppends, LaneReadsStatus,
      LaneStartUnclear, LaneStartRefused, LaneStartDead, LaneEnds, configVars, restVars
<1>7. CASE LoopStep
  <2>1. CASE SweepCloses
    BY <1>1, <1>2, <2>1 DEF SweepCloses, RollForward, configVars, LoopTyped
  <2>2. CASE IdleClosed
    <3>1. loop.s \in Sessions /\ loop.s[1] \in Bases
      BY <2>2, SessionParts DEF IdleClosed, LoopTyped
    <3>2. CASE UNCHANGED configVars
      BY <1>1, <2>2, <3>2 DEF IdleClosed, configVars
    <3>3. CASE \/ gen' = [gen EXCEPT ![loop.s[1]] = @ + 1] /\ gen[loop.s[1]] < MaxGen
               \/ gen' = [gen EXCEPT ![loop.s[1]] = 1]
      <4>1. gen' \in [Bases -> 1..MaxGen]
        BY <1>3, <3>1, <3>3, BotAssumption DEF BotAssumption, ConfigTyped
      <4>2. tracked' \subseteq tracked /\ rotate' \subseteq rotate /\ UNCHANGED runsToday
        BY <2>2 DEF IdleClosed, configVars
      <4>3. QED
        BY <4>1, <4>2 DEF ConfigTyped
    <3>4. QED
      BY <2>2, <3>2, <3>3 DEF IdleClosed
  <2>3. CASE ReconcileStep
    <3>1. UNCHANGED <<rotate, runsToday>>
      BY <2>3, ReconcileDoes
    <3>2. CASE Advance(MainSession)
      BY <1>2, <3>1, <3>2, MainTyped
    <3>3. CASE UNCHANGED tracked /\ gen[Main] < MaxGen /\ gen' = [gen EXCEPT ![Main] = @ + 1]
      BY <1>3, <3>1, <3>3, MainTyped DEF ConfigTyped
    <3>4. QED
      BY <1>1, <2>3, <3>1, <3>2, <3>3, ReconcileDoes
  <2>4. CASE \E s \in Sessions : DropRotation(s)
    BY <2>4 DEF DropRotation, restVars, ConfigTyped
  <2>5. QED
    BY <1>1, <1>7, <2>1, <2>2, <2>3, <2>4
    DEF LoopStep, FlushBuffer, DispatchLane, DispatchSidecar, TakeTerminal, AttachTerminal,
        SweepReads, SweepFailsLane, CloseIdle, ContinueAsNew,
        ReconcileBegins, TeardownBegins, TeardownArchives, TeardownEnds, configVars, restVars
<1>8. QED
  BY <1>1, <1>4, <1>5, <1>6, <1>7 DEF Next, SidecarEnds, Settle, vars, configVars, restVars

LEMMA ReconcileLoop ==
  ASSUME ReconcileBegins \/ ReconcileStep
  PROVE  loop'.op \in {"park", "status", "ensure", "roll"}
<1>1. CASE ReconcileBegins
  BY <1>1 DEF ReconcileBegins, Ensuring
<1>2. CASE ReconcileStep
  BY <1>2, ReconcileDoes DEF Parked, Ensuring, Rolling
<1>3. QED
  BY <1>1, <1>2

LEMMA LoopStays ==
  ASSUME [Next]_vars, ~(Running /\ LoopStep)
  PROVE  UNCHANGED loop
<1>1. CASE SessionStep
  BY <1>1
  DEF SessionStep, ForeignWork, SessionDies, StartLands, RunEnds, RepeatTerminal, restVars
<1>2. CASE SignalStep
  BY <1>2
  DEF SignalStep, AcceptEvent, PauseEnds, AcceptConfig, CloseBot, NewDay, RequestRotation, restVars
<1>3. ASSUME NEW f \in futures, LaneStep(f) PROVE UNCHANGED loop
  BY <1>3
  DEF LaneStep, LaneEnsures, LaneMismatch, LaneFails, LaneAppends, LaneReadsStatus, LaneStarted,
      LaneStartUnclear, LaneStartRefused, LaneStartDead, LaneLeaves, LaneEnds, restVars
<1>4. QED
  BY <1>1, <1>2, <1>3 DEF Next, SidecarEnds, Settle, vars, restVars

LEMMA LoopTypedKept ==
  ASSUME Typed, [Next]_vars
  PROVE  LoopTyped'
<1> USE DEF Typed
<1>1. ASSUME UNCHANGED loop PROVE LoopTyped'
  BY <1>1 DEF LoopTyped
<1>2. ASSUME loop' = Parked PROVE LoopTyped'
  BY <1>2, Zenon DEF LoopTyped, Parked
<1>3. CASE LoopStep
  <2>1. ASSUME NEW m \in inbox, TakeTerminal(m) PROVE LoopTyped'
    <3>1. m \in Sessions \X SUBSET Events
      BY DEF WorldTyped
    <3>2. QED
      BY <1>1, <2>1, <3>1 DEF TakeTerminal, LoopTyped
  <2>2. CASE SweepReads
    BY <2>2 DEF SweepReads, LoopTyped, DeadLanes
  <2>3. ASSUME NEW s \in Sessions, SweepFailsLane(s) PROVE LoopTyped'
    <3>1. loop.dead \subseteq Sessions
      BY <2>3 DEF SweepFailsLane, LoopTyped
    <3>2. \/ loop' = Parked \/ loop' = [op |-> "sweep", dead |-> loop.dead \ {s}]
          \/ loop' = [op |-> "sweepClose", s |-> s, dead |-> loop.dead \ {s}]
      BY <2>3 DEF SweepFailsLane
    <3>3. QED
      BY <1>2, <3>1, <3>2 DEF LoopTyped
  <2>4. CASE SweepCloses
    <3>1. loop.dead \subseteq Sessions
      BY <2>4 DEF SweepCloses, LoopTyped
    <3>2. loop' = Parked \/ loop' = [op |-> "sweep", dead |-> loop.dead]
      BY <2>4 DEF SweepCloses
    <3>3. QED
      BY <1>2, <3>1, <3>2 DEF LoopTyped
  <2>5. ASSUME NEW s \in Sessions, NEW why \in {"rotate", "idle"}, CloseIdle(s, why)
        PROVE  LoopTyped'
    BY <2>5 DEF CloseIdle, LoopTyped
  <2>6. CASE ReconcileBegins \/ ReconcileStep
    <3>1. \A n \in {1, 2} : (loop' = Ensuring(n) \/ loop' = Rolling(n)) => LoopTyped'
      BY DEF Ensuring, Rolling, LoopTyped
    <3>2. CASE ReconcileBegins
      <4>1. loop' = [op |-> "status"] \/ loop' = Ensuring(1)
        BY <3>2 DEF ReconcileBegins
      <4>2. QED
        BY <3>1, <4>1 DEF LoopTyped
    <3>3. CASE ReconcileReads
      <4>1. loop' = Parked \/ loop' = Rolling(1) \/ loop' = Ensuring(1)
        BY <3>3 DEF ReconcileReads
      <4>2. QED
        BY <1>2, <3>1, <4>1
    <3>4. CASE ReconcileRolls
      <4>1. loop.try \in {1, 2}
        BY <3>4 DEF ReconcileRolls, LoopTyped
      <4>2. loop' = Parked \/ loop' = Ensuring(loop.try)
        BY <3>4 DEF ReconcileRolls, Degraded
      <4>3. QED
        BY <1>2, <3>1, <4>1, <4>2
    <3>5. CASE ReconcileReady \/ ReconcileRefused \/ ReconcileDead \/ ReconcileFails
      <4>1. loop' = Parked \/ loop' = Ensuring(2) \/ loop' = Rolling(2)
        BY <3>5 DEF ReconcileReady, ReconcileRefused, ReconcileDead, ReconcileFails, Degraded
      <4>2. QED
        BY <1>2, <3>1, <4>1
    <3>6. QED
      BY <2>6, <3>2, <3>3, <3>4, <3>5 DEF ReconcileStep
  <2>7. CASE TeardownBegins
    <3>1. TeardownIds \subseteq Events
      <4>1. \A i \in DOMAIN pending : pending[i].ev \subseteq Events
        BY TakenTyped
      <4>2. \A s \in Sessions : active[s].d.ev \subseteq Events
        BY DEF LanesTyped, LaneRecords, Deliveries, Nothing
      <4>3. buffer \subseteq Events
        BY DEF QueueTyped
      <4>4. QED
        BY <4>1, <4>2, <4>3 DEF TeardownIds
    <3>2. QED
      BY <2>7, <3>1 DEF TeardownBegins, LoopTyped, QueueTyped
  <2>8. CASE TeardownArchives
    BY <2>8 DEF TeardownArchives, LoopTyped
  <2>9. CASE TeardownEnds
    BY <2>9 DEF TeardownEnds, LoopTyped
  <2>10. QED
    BY <1>1, <1>2, <1>3, <2>1, <2>2, <2>3, <2>4, <2>5, <2>6, <2>7, <2>8, <2>9
    DEF LoopStep, FlushBuffer, DispatchLane, DispatchSidecar, AttachTerminal, DropRotation,
        IdleClosed, ContinueAsNew, restVars
<1>4. QED
  BY <1>1, <1>3, LoopStays

LEMMA TypedKept ==
  ASSUME Typed, EndInv, [Next]_vars
  PROVE  Typed'
BY WorldTypedKept, QueueTypedKept, LanesTypedKept, SidesTypedKept, SettledTypedKept,
   ConfigTypedKept, LoopTypedKept
DEF Typed

LEMMA InitTyped ==
  ASSUME Init
  PROVE  Typed
<1>1. <<>> \in RunBooks
  <2>1. DOMAIN <<>> = {} /\ <<>> = [k \in {} |-> <<>>[k]]
    OBVIOUS
  <2>2. QED
    BY <2>1, RunBook
<1>2. WorldTyped
  <2>1. PICK old : world = [s \in Sessions |-> [st |-> IF s \in old THEN "open" ELSE "none",
                                     foreign |-> FALSE, runs |-> <<>>]]
    BY DEF Init
  <2>2. abroad = {} /\ inbox = {}
    BY DEF Init
  <2> DEFINE r == <<>>
  <2>3. r \in RunBooks /\ world = [s \in Sessions |-> [st |-> IF s \in old THEN "open" ELSE "none",
                                     foreign |-> FALSE, runs |-> r]]
    BY <1>1, <2>1
  <2> HIDE DEF r
  <2>4. QED
    BY <2>2, <2>3 DEF WorldTyped
<1>3. QueueTyped
  BY EmptySeq DEF Init, QueueTyped
<1>4. LanesTyped
  BY NoLaneTyped DEF Init, LanesTyped
<1>5. SidesTyped
  BY DEF Init, SidesTyped, NoSidecar, Nothing
<1>6. SettledTyped
  BY FS_EmptySet DEF Init, SettledTyped, Outcomes
<1>7. ConfigTyped
  <2>1. 1 \in 1..MaxGen
    BY BotAssumption DEF BotAssumption
  <2>2. QED
    BY <2>1 DEF Init, ConfigTyped
<1>8. LoopTyped
  BY DEF Init, LoopTyped, Parked
<1>9. QED
  BY <1>2, <1>3, <1>4, <1>5, <1>6, <1>7, <1>8 DEF Typed

-----------------------------------------------------------------------------
(* Where the events are.                                                   *)

LEMMA QueueRemoves ==
  ASSUME Typed, QueueOnce, NEW i \in DOMAIN pending, pending' = RemoveAt(pending, i)
  PROVE  /\ pending[i].ev \subseteq Queued
         /\ Queued' = Queued \ pending[i].ev /\ QueueOnce'
<1> DEFINE n == Len(pending)
<1>1. /\ pending \in Seq(Deliveries) /\ n \in Nat /\ DOMAIN pending = 1..n /\ i \in 1..n
  BY LenProperties, Zenon DEF Typed, QueueTyped
<1>2. /\ pending' \in Seq(Deliveries) /\ Len(pending') = n - 1
      /\ \A j \in DOMAIN pending' : pending'[j] = IF j < i THEN pending[j] ELSE pending[j + 1]
  BY <1>1, Removed
<1>3. DOMAIN pending' = 1..(n - 1)
  BY <1>2, LenProperties
<1> DEFINE old(j) == IF j < i THEN j ELSE j + 1
<1>4. \A j \in 1..(n - 1) : old(j) \in 1..n /\ old(j) # i /\ pending'[j] = pending[old(j)]
  BY <1>1, <1>2, <1>3
<1>5. \A j, k \in 1..(n - 1) : j # k => old(j) # old(k)
  BY <1>1
<1>6. \A j \in 1..n : j # i => \E k \in 1..(n - 1) : old(k) = j
  <2>1. ASSUME NEW j \in 1..n, j # i PROVE \E k \in 1..(n - 1) : old(k) = j
    <3>1. CASE j < i
      BY <1>1, <2>1, <3>1
    <3>2. CASE j > i
      <4>1. j - 1 \in 1..(n - 1) /\ old(j - 1) = j
        BY <1>1, <2>1, <3>2
      <4>2. QED
        BY <4>1
    <3>3. QED
      BY <1>1, <2>1, <3>1, <3>2
  <2>2. QED
    BY <2>1
<1> HIDE DEF old, n
<1>7. QueueOnce'
  BY <1>1, <1>3, <1>4, <1>5 DEF QueueOnce
<1>8. \A e \in Queued' : e \in Queued /\ e \notin pending[i].ev
  BY <1>1, <1>3, <1>4 DEF Queued, QueueOnce
<1>9. \A e \in Queued \ pending[i].ev : e \in Queued'
  <2>1. ASSUME NEW e \in Queued, e \notin pending[i].ev PROVE e \in Queued'
    <3>1. PICK j \in 1..n : e \in pending[j].ev
      BY <1>1 DEF Queued
    <3>2. PICK k \in 1..(n - 1) : old(k) = j
      BY <1>6, <2>1, <3>1
    <3>3. QED
      BY <1>3, <1>4, <3>1, <3>2 DEF Queued
  <2>2. QED
    BY <2>1
<1>10. QED
  BY <1>1, <1>7, <1>8, <1>9 DEF Queued

LEMMA QueueGrows ==
  ASSUME Typed, QueueOnce, NEW d \in Deliveries, d.ev \cap Queued = {},
         pending' = <<d>> \o pending \/ pending' = Append(pending, d)
  PROVE  Queued' = Queued \cup d.ev /\ QueueOnce'
<1> DEFINE n == Len(pending)
<1>1. /\ pending \in Seq(Deliveries) /\ n \in Nat /\ DOMAIN pending = 1..n
  BY LenProperties DEF Typed, QueueTyped
<1>2. PICK at \in 1..(n + 1), old \in [1..n -> 1..(n + 1)] :
        /\ DOMAIN pending' = 1..(n + 1) /\ pending'[at] = d
        /\ \A j \in 1..n : old[j] # at /\ pending'[old[j]] = pending[j]
        /\ \A k \in 1..(n + 1) : k = at \/ \E j \in 1..n : old[j] = k
        /\ \A j, k \in 1..n : j # k => old[j] # old[k]
  <2>1. CASE pending' = <<d>> \o pending
    <3>1. /\ pending' \in Seq(Deliveries) /\ Len(pending') = n + 1 /\ pending'[1] = d
          /\ \A j \in 1..n : pending'[j + 1] = pending[j]
      BY <1>1, <2>1, Prepended
    <3>2. DOMAIN pending' = 1..(n + 1)
      BY <3>1, LenProperties
    <3> DEFINE old == [j \in 1..n |-> j + 1]
    <3>3. 1 \in 1..(n + 1) /\ old \in [1..n -> 1..(n + 1)]
      BY <1>1
    <3>4. \A k \in 1..(n + 1) : k = 1 \/ \E j \in 1..n : old[j] = k
      <4>1. ASSUME NEW k \in 1..(n + 1), k # 1 PROVE \E j \in 1..n : old[j] = k
        <5>1. k - 1 \in 1..n /\ old[k - 1] = k
          BY <1>1, <4>1
        <5>2. QED
          BY <5>1
      <4>2. QED
        BY <4>1
    <3>5. /\ \A j \in 1..n : old[j] # 1 /\ pending'[old[j]] = pending[j]
          /\ \A j, k \in 1..n : j # k => old[j] # old[k]
      BY <1>1, <3>1
    <3> HIDE DEF old, n
    <3>6. QED
      BY <3>1, <3>2, <3>3, <3>4, <3>5
  <2>2. CASE pending' = Append(pending, d)
    <3>1. /\ pending' \in Seq(Deliveries) /\ Len(pending') = n + 1 /\ pending'[n + 1] = d
          /\ \A j \in 1..n : pending'[j] = pending[j]
      BY <1>1, <2>2, AppendProperties
    <3>2. DOMAIN pending' = 1..(n + 1)
      BY <3>1, LenProperties
    <3> DEFINE old == [j \in 1..n |-> j]
    <3>3. n + 1 \in 1..(n + 1) /\ old \in [1..n -> 1..(n + 1)]
      BY <1>1
    <3>4. \A k \in 1..(n + 1) : k = n + 1 \/ \E j \in 1..n : old[j] = k
      BY <1>1
    <3>5. /\ \A j \in 1..n : old[j] # n + 1 /\ pending'[old[j]] = pending[j]
          /\ \A j, k \in 1..n : j # k => old[j] # old[k]
      BY <1>1, <3>1
    <3> HIDE DEF old, n
    <3>6. QED
      BY <3>1, <3>2, <3>3, <3>4, <3>5
  <2>3. QED
    BY <2>1, <2>2
<1> HIDE DEF n
<1>3. \A j \in 1..n : d.ev \cap pending[j].ev = {}
  BY <1>1 DEF Queued
<1>4. QueueOnce'
  <2>1. \A k \in 1..(n + 1) : k # at => \E j \in 1..n : old[j] = k /\ pending'[k] = pending[j]
    BY <1>2
  <2>2. ASSUME NEW k \in 1..(n + 1), NEW l \in 1..(n + 1), k # l, k # at, l # at
        PROVE  pending'[k].ev \cap pending'[l].ev = {}
    <3>1. PICK a \in 1..n : old[a] = k /\ pending'[k] = pending[a]
      BY <2>1, <2>2
    <3>2. PICK b \in 1..n : old[b] = l /\ pending'[l] = pending[b]
      BY <2>1, <2>2
    <3>3. QED
      BY <1>1, <2>2, <3>1, <3>2 DEF QueueOnce
  <2>3. \A k \in 1..(n + 1) : k # at => d.ev \cap pending'[k].ev = {}
    BY <1>3, <2>1
  <2>4. QED
    BY <1>2, <2>2, <2>3 DEF QueueOnce
<1>5. \A e \in Queued' : e \in Queued \cup d.ev
  BY <1>1, <1>2 DEF Queued
<1>6. \A e \in Queued : e \in Queued'
  <2>1. ASSUME NEW e \in Queued PROVE e \in Queued'
    <3>1. PICK j \in 1..n : e \in pending[j].ev
      BY <1>1 DEF Queued
    <3>2. old[j] \in DOMAIN pending' /\ e \in pending'[old[j]].ev
      BY <1>2, <3>1
    <3>3. QED
      BY <3>2 DEF Queued
  <2>2. QED
    BY <2>1
<1>7. \A e \in d.ev : e \in Queued'
  BY <1>2 DEF Queued
<1>8. QED
  BY <1>4, <1>5, <1>6, <1>7

LEMMA QueueRetimes ==
  ASSUME Typed, QueueOnce, NEW i \in DOMAIN pending, PauseEnds(i)
  PROVE  Queued' = Queued /\ QueueOnce'
<1>1. DOMAIN pending' = DOMAIN pending
  BY DEF PauseEnds
<1>2. \A j \in DOMAIN pending : pending'[j].ev = pending[j].ev
  <2>1. \A j \in DOMAIN pending : pending[j] \in Deliveries
    BY TakenTyped
  <2>2. QED
    BY <2>1 DEF PauseEnds, Deliveries
<1>3. QED
  BY <1>1, <1>2 DEF Queued, QueueOnce

LEMMA QueueStays ==
  ASSUME UNCHANGED pending
  PROVE  Queued' = Queued /\ (QueueOnce => QueueOnce')
BY DEF Queued, QueueOnce

LEMMA LaneDropped ==
  ASSUME LanesOnce, NEW f \in futures, futures' = futures \ {f}
  PROVE  f.d.ev \subseteq OnLanes /\ OnLanes' = OnLanes \ f.d.ev /\ LanesOnce'
<1>1. f.d.ev \subseteq OnLanes /\ LanesOnce'
  BY DEF LanesOnce, OnLanes
<1>2. \A e \in OnLanes' : e \in OnLanes /\ e \notin f.d.ev
  BY DEF LanesOnce, OnLanes
<1>3. \A e \in OnLanes : e \notin f.d.ev => e \in OnLanes'
  BY DEF OnLanes
<1>4. QED
  BY <1>1, <1>2, <1>3

LEMMA LaneGoesOn ==
  ASSUME LanesOnce, NEW f \in futures, NEW g, g.d = f.d, Becomes(f, g)
  PROVE  OnLanes' = OnLanes /\ LanesOnce'
<1>1. LanesOnce'
  BY DEF LanesOnce, Becomes
<1>2. \A e : e \in OnLanes' <=> e \in OnLanes
  BY DEF OnLanes, Becomes
<1>3. QED
  BY <1>1, <1>2

LEMMA LaneAdded ==
  ASSUME LanesOnce, NEW g, g.d.ev \cap OnLanes = {}, futures' = futures \cup {g}
  PROVE  OnLanes' = OnLanes \cup g.d.ev /\ LanesOnce'
<1>1. \A f \in futures : f.d.ev \cap g.d.ev = {}
  BY DEF OnLanes
<1>2. LanesOnce'
  BY <1>1 DEF LanesOnce
<1>3. \A e : e \in OnLanes' <=> e \in OnLanes \cup g.d.ev
  BY DEF OnLanes
<1>4. QED
  BY <1>2, <1>3

LEMMA LanesStay ==
  ASSUME UNCHANGED futures
  PROVE  OnLanes' = OnLanes /\ (LanesOnce => LanesOnce')
BY DEF OnLanes, LanesOnce

LEMMA SideSet ==
  ASSUME Typed, SidesOnce, NEW s \in Sessions, NEW x, sidecar[s].d.ev = {},
         x.d.ev \cap Beside = {}, sidecar' = [sidecar EXCEPT ![s] = x]
  PROVE  Beside' = Beside \cup x.d.ev /\ SidesOnce'
<1>1. /\ sidecar'[s] = x /\ \A t \in Sessions : t # s => sidecar'[t] = sidecar[t]
  BY DEF Typed, SidesTyped
<1>2. \A t \in Sessions : sidecar[t].d.ev \cap x.d.ev = {}
  BY DEF Beside
<1>3. SidesOnce'
  BY <1>1, <1>2 DEF SidesOnce
<1>4. \A e : e \in Beside' <=> e \in Beside \cup x.d.ev
  BY <1>1 DEF Beside
<1>5. QED
  BY <1>3, <1>4

LEMMA SideCleared ==
  ASSUME Typed, SidesOnce, NEW s \in Sessions, sidecar' = [sidecar EXCEPT ![s] = NoSidecar]
  PROVE  /\ sidecar[s].d.ev \subseteq Beside /\ Beside' = Beside \ sidecar[s].d.ev /\ SidesOnce'
<1>1. /\ sidecar'[s].d.ev = {} /\ \A t \in Sessions : t # s => sidecar'[t] = sidecar[t]
  BY DEF Typed, SidesTyped, NoSidecar
<1>2. SidesOnce'
  BY <1>1 DEF SidesOnce
<1>3. \A e : e \in Beside' <=> e \in Beside /\ e \notin sidecar[s].d.ev
  BY <1>1 DEF Beside, SidesOnce
<1>4. QED
  BY <1>2, <1>3 DEF Beside

LEMMA SidesStay ==
  ASSUME UNCHANGED sidecar
  PROVE  Beside' = Beside /\ (SidesOnce => SidesOnce')
BY DEF Beside, SidesOnce

LEMMA NoSides ==
  ASSUME sidecar' = [s \in Sessions |-> NoSidecar]
  PROVE  Beside' = {} /\ SidesOnce'
BY DEF Beside, SidesOnce, NoSidecar

LEMMA SettlingAdded ==
  ASSUME SettlingOnce, NEW x, x.ev \cap Settling = {}, settling' = settling \cup {x}
  PROVE  Settling' = Settling \cup x.ev /\ SettlingOnce'
<1>1. \A y \in settling : y.ev \cap x.ev = {}
  BY DEF Settling
<1>2. SettlingOnce'
  BY <1>1 DEF SettlingOnce
<1>3. \A e : e \in Settling' <=> e \in Settling \cup x.ev
  BY DEF Settling
<1>4. QED
  BY <1>2, <1>3

LEMMA SettlingDone ==
  ASSUME SettlingOnce, NEW x \in settling, settling' = settling \ {x}
  PROVE  x.ev \subseteq Settling /\ Settling' = Settling \ x.ev /\ SettlingOnce'
<1>1. SettlingOnce' /\ x.ev \subseteq Settling
  BY DEF SettlingOnce, Settling
<1>2. \A e : e \in Settling' <=> e \in Settling /\ e \notin x.ev
  BY DEF Settling, SettlingOnce
<1>3. QED
  BY <1>1, <1>2

LEMMA SettlingStays ==
  ASSUME UNCHANGED settling
  PROVE  Settling' = Settling /\ (SettlingOnce => SettlingOnce')
BY DEF Settling, SettlingOnce

LEMMA SettledStays ==
  ASSUME UNCHANGED outcome
  PROVE  Settled' = Settled
BY DEF Settled

LEMMA Recorded ==
  ASSUME Typed, NEW evs \in SUBSET Events, NEW out \in Outcomes \ {"none"}, outcome' = Record(evs, out)
  PROVE  Settled' = Settled \cup evs
<1>1. \A e \in Events : outcome'[e] # "none" <=> outcome[e] # "none" \/ e \in evs
  BY DEF Record
<1>2. QED
  BY <1>1 DEF Settled

LEMMA SessionsFinite == IsFiniteSet(Sessions)
<1> DEFINE T == {Base[e] : e \in Events}
           F == [e \in Events |-> Base[e]]
<1>1. IsFiniteSet(Events) /\ F \in Surjection(Events, T)
  BY BotAssumption DEF BotAssumption, Surjection
<1>2. IsFiniteSet(T)
  BY <1>1, FS_Surjection
<1>3. IsFiniteSet({Main} \cup T)
  BY <1>2, FS_Singleton, FS_Union
<1>4. IsFiniteSet(1..MaxGen)
  BY BotAssumption, FS_Interval DEF BotAssumption
<1>5. QED
  BY <1>3, <1>4, FS_Product DEF Sessions, Bases

LEMMA OnBooksAreLanes ==
  ASSUME Typed, LaneInv
  PROVE  OnBooks = {f.at : f \in futures} /\ UNION {active[s].d.ev : s \in Sessions} = OnLanes
<1>1. \A f \in futures : f.at \in Sessions /\ f.d.ev # {} /\ active[f.at].d = f.d
  BY LaneMoves DEF LaneInv, Books
<1>2. \A f \in futures : f.at \in OnBooks
  BY <1>1 DEF OnBooks, HasLane
<1>3. \A s \in OnBooks : \E f \in futures : f.at = s
  BY DEF OnBooks, LaneInv, Books
<1>4. OnBooks = {f.at : f \in futures}
  BY <1>2, <1>3
<1>5. ASSUME NEW s \in Sessions, NEW e \in active[s].d.ev PROVE e \in OnLanes
  <2>1. s \in OnBooks
    BY <1>5 DEF OnBooks, HasLane
  <2>2. PICK f \in futures : f.at = s
    BY <1>3, <2>1
  <2>3. QED
    BY <1>1, <1>5, <2>2 DEF OnLanes
<1>6. ASSUME NEW e \in OnLanes PROVE \E s \in Sessions : e \in active[s].d.ev
  BY <1>1 DEF OnLanes
<1>7. QED
  BY <1>4, <1>5, <1>6

LEMMA LanesCounted ==
  ASSUME Typed, LaneInv
  PROVE  /\ IsFiniteSet(OnBooks) /\ IsFiniteSet(futures)
         /\ Cardinality(futures) = Cardinality(OnBooks) /\ Cardinality(futures) \in Nat
<1> DEFINE F == [f \in futures |-> f.at]
<1>1. IsFiniteSet(OnBooks)
  BY SessionsFinite, FS_Subset DEF OnBooks
<1>2. OnBooks = {f.at : f \in futures}
  BY OnBooksAreLanes
<1>3. F \in Injection(futures, OnBooks) /\ F \in Surjection(futures, OnBooks)
  BY <1>2 DEF Injection, Surjection, IsInjective, LaneInv, Books
<1> HIDE DEF F
<1>4. QED
  BY <1>1, <1>3, FS_Injection, FS_CardinalityType

\* When the controller is quiet, the lanes are what the books say, all of
\* them waiting, and no outcome is on its way.
LEMMA QuietLanes ==
  ASSUME Typed, LaneInv, Quiet
  PROVE  /\ futures = {Lane(active[s].d, "wait", s) : s \in OnBooks}
         /\ settling = {} /\ sidecar = [s \in Sessions |-> NoSidecar]
<1>1. ASSUME NEW f \in futures PROVE f.at \in OnBooks /\ f = Lane(active[f.at].d, "wait", f.at)
  <2>1. f.at \in OnBooks
    BY OnBooksAreLanes
  <2>2. f.st = "wait" /\ active[f.at].d = f.d
    BY <2>1 DEF Quiet, LaneInv, Books
  <2>3. f.next = f.at
    BY <2>2 DEF LaneInv, Fits, Moving
  <2>4. f = [d |-> f.d, st |-> f.st, at |-> f.at, next |-> f.next]
    BY LaneMoves
  <2>5. QED
    BY <2>1, <2>2, <2>3, <2>4 DEF Lane
<1>2. ASSUME NEW s \in OnBooks PROVE Lane(active[s].d, "wait", s) \in futures
  <2>1. PICK f \in futures : f.at = s
    BY OnBooksAreLanes
  <2>2. QED
    BY <1>1, <2>1
<1>3. settling = {}
  <2>1. IsFiniteSet(settling) /\ Cardinality(settling) \in Nat
    BY FS_CardinalityType DEF Typed, SettledTyped
  <2>2. Cardinality(settling) = 0
    BY <2>1, LanesCounted DEF Quiet
  <2>3. QED
    BY <2>1, <2>2, FS_EmptySet
<1>4. sidecar = [s \in Sessions |-> NoSidecar]
  <2>1. \A s \in Sessions : sidecar[s].st = "none" /\ sidecar[s].d = Nothing
    BY DEF Quiet, Typed, SidesTyped
  <2>2. \A s \in Sessions : sidecar[s] = [st |-> sidecar[s].st, d |-> sidecar[s].d]
    BY DEF Typed, SidesTyped
  <2>3. \A s \in Sessions : sidecar[s] = NoSidecar
    BY <2>1, <2>2 DEF NoSidecar, Nothing
  <2>4. QED
    BY <2>3 DEF Typed, SidesTyped
<1>5. QED
  BY <1>1, <1>2, <1>3, <1>4

LEMMA EventsStay ==
  ASSUME EventInv, UNCHANGED <<pending, buffer, futures, sidecar, settling, outcome, accepted>>,
         UNCHANGED loop \/ (~Closing /\ ~Closing')
  PROVE  EventInv'
<1>1. /\ Queued' = Queued /\ OnLanes' = OnLanes /\ Beside' = Beside /\ Settling' = Settling
      /\ Settled' = Settled /\ Once'
  BY QueueStays, LanesStay, SidesStay, SettlingStays, SettledStays DEF EventInv, Once
<1>2. CASE UNCHANGED loop
  BY <1>1, <1>2 DEF EventInv, Apart, Live, Closing
<1>3. CASE ~Closing /\ ~Closing'
  BY <1>1, <1>3 DEF EventInv, Apart, Live, Closing
<1>4. QED
  BY <1>2, <1>3

LEMMA EventsMove ==
  ASSUME EventInv, Once', Apart', Live' = Live, Settled' = Settled, Settling \subseteq Settling',
         UNCHANGED <<accepted, loop>>
  PROVE  EventInv'
BY DEF EventInv, Closing

LEMMA LaneFinishes ==
  ASSUME Typed, EventInv, NEW f \in futures, NEW out, Finish(f, out),
         UNCHANGED <<pending, buffer, sidecar, outcome, accepted, loop>>
  PROVE  EventInv'
<1> DEFINE x == [ev |-> f.d.ev, out |-> out]
<1>1. /\ Queued' = Queued /\ Beside' = Beside /\ Settled' = Settled /\ QueueOnce' /\ SidesOnce'
  BY QueueStays, SidesStay, SettledStays DEF EventInv, Once
<1>2. f.d.ev \subseteq OnLanes /\ OnLanes' = OnLanes \ f.d.ev /\ LanesOnce'
  BY LaneDropped DEF EventInv, Once, Finish
<1>3. Settling' = Settling \cup f.d.ev /\ SettlingOnce'
  <2>1. x.ev = f.d.ev /\ settling' = settling \cup {x}
    BY DEF Finish
  <2>2. x.ev \cap Settling = {}
    BY <1>2, <2>1 DEF EventInv, Apart
  <2> HIDE DEF x
  <2>3. QED
    BY <2>1, <2>2, SettlingAdded DEF EventInv, Once
<1>4. Once' /\ Apart'
  BY <1>1, <1>2, <1>3 DEF EventInv, Apart, Once
<1>5. Live' = Live
  BY <1>1, <1>2, <1>3 DEF Live
<1>6. QED
  BY <1>1, <1>3, <1>4, <1>5, EventsMove

LEMMA LaneRequeues ==
  ASSUME Typed, EventInv, NEW f \in futures, NEW d \in Deliveries, d.ev = f.d.ev, Requeue(f, d),
         UNCHANGED <<buffer, sidecar, settling, outcome, accepted, loop>>
  PROVE  EventInv'
<1>1. /\ Beside' = Beside /\ Settling' = Settling /\ Settled' = Settled
      /\ SidesOnce' /\ SettlingOnce'
  BY SidesStay, SettlingStays, SettledStays DEF EventInv, Once
<1>2. f.d.ev \subseteq OnLanes /\ OnLanes' = OnLanes \ f.d.ev /\ LanesOnce'
  BY LaneDropped DEF EventInv, Once, Requeue
<1>3. Queued' = Queued \cup f.d.ev /\ QueueOnce'
  <2>1. d.ev \cap Queued = {}
    BY <1>2 DEF EventInv, Apart
  <2>2. QED
    BY <2>1, QueueGrows DEF EventInv, Once, Requeue
<1>4. Once' /\ Apart'
  BY <1>1, <1>2, <1>3 DEF EventInv, Apart, Once
<1>5. Live' = Live
  BY <1>1, <1>2, <1>3 DEF Live
<1>6. QED
  BY <1>1, <1>4, <1>5, EventsMove

LEMMA LaneContinues ==
  ASSUME EventInv, NEW f \in futures, NEW g, g.d = f.d, Becomes(f, g),
         UNCHANGED <<pending, buffer, sidecar, settling, outcome, accepted, loop>>
  PROVE  EventInv'
<1>1. /\ Queued' = Queued /\ Beside' = Beside /\ Settling' = Settling /\ Settled' = Settled
      /\ QueueOnce' /\ SidesOnce' /\ SettlingOnce'
  BY QueueStays, SidesStay, SettlingStays, SettledStays DEF EventInv, Once
<1>2. OnLanes' = OnLanes /\ LanesOnce'
  BY LaneGoesOn DEF EventInv, Once
<1>3. Once' /\ Apart' /\ Live' = Live
  BY <1>1, <1>2 DEF EventInv, Apart, Once, Live
<1>4. QED
  BY <1>1, <1>3, EventsMove

LEMMA EventsKeptByLanes ==
  ASSUME Typed, EventInv, NEW f \in futures, LaneStep(f)
  PROVE  EventInv'
<1>1. /\ f.d \in Deliveries /\ \A st, s : Lane(f.d, st, s).d = f.d
      /\ f = [d |-> f.d, st |-> f.st, at |-> f.at, next |-> f.next]
  BY LaneMoves DEF Lane
<1>2. CASE LaneEnsures(f)
  BY <1>1, <1>2, LaneContinues DEF LaneEnsures, queueVars, mailVars, restVars
<1>3. CASE LaneMismatch(f)
  <2>1. [f EXCEPT !.next = <<f.at[1], gen[f.at[1]] + 1>>].d = f.d
    BY <1>1
  <2>2. QED
    BY <1>3, <2>1, LaneContinues DEF LaneMismatch, queueVars, mailVars
<1>4. CASE LaneFails(f)
  BY <1>4, LaneFinishes DEF LaneFails, queueVars, mailVars
<1>5. CASE LaneAppends(f)
  BY <1>1, <1>5, LaneFinishes, LaneContinues DEF LaneAppends, Goes, queueVars, mailVars, restVars
<1>6. CASE LaneReadsStatus(f)
  <2>1. [f.d EXCEPT !.waits = TRUE] \in Deliveries /\ [f.d EXCEPT !.waits = TRUE].ev = f.d.ev
    BY <1>1, Readmitted DEF Deliveries
  <2>2. /\ UNCHANGED <<buffer, sidecar, outcome, accepted, loop>>
        /\ \/ Goes(f, "leave") /\ UNCHANGED <<pending, settling>>
           \/ Requeue(f, [f.d EXCEPT !.waits = TRUE]) /\ UNCHANGED settling
           \/ Finish(f, "steered") /\ UNCHANGED pending
           \/ Goes(f, "start") /\ UNCHANGED <<pending, settling>>
    BY <1>6 DEF LaneReadsStatus, mailVars, restVars
  <2>3. QED
    BY <1>1, <2>1, <2>2, LaneFinishes, LaneContinues, LaneRequeues DEF Goes
<1>7. CASE LaneStarted(f)
  BY <1>1, <1>7, LaneContinues DEF LaneStarted, queueVars
<1>8. CASE LaneStartUnclear(f)
  <2>1. f.d.attempts + 1 \in Nat
    BY <1>1 DEF Deliveries
  <2>2. /\ [f.d EXCEPT !.attempts = @ + 1, !.waits = TRUE] \in Deliveries
        /\ [f.d EXCEPT !.attempts = @ + 1, !.waits = TRUE].ev = f.d.ev
    BY <1>1, <2>1, Readmitted DEF Deliveries
  <2>3. QED
    BY <1>8, <2>2, LaneFinishes, LaneRequeues DEF LaneStartUnclear, mailVars
<1>9. CASE LaneStartRefused(f)
  BY <1>9, LaneFinishes DEF LaneStartRefused, queueVars, mailVars
<1>10. CASE LaneStartDead(f)
  BY <1>1, <1>10, LaneContinues DEF LaneStartDead, Goes, queueVars, mailVars, restVars
<1>11. CASE LaneLeaves(f)
  <2> DEFINE d == [f.d EXCEPT !.rolled = TRUE, !.attempts = 0, !.waits = FALSE]
  <2>1. d \in Deliveries /\ d.ev = f.d.ev
    BY <1>1, Readmitted DEF Deliveries
  <2>2. /\ UNCHANGED <<buffer, sidecar, outcome, accepted, loop>>
        /\ \/ Requeue(f, d) /\ UNCHANGED settling
           \/ Finish(f, "runFailed") /\ UNCHANGED pending
    BY <1>11 DEF LaneLeaves
  <2> HIDE DEF d
  <2>3. QED
    BY <2>1, <2>2, LaneFinishes, LaneRequeues
<1>12. CASE LaneEnds(f)
  BY <1>12, LaneFinishes DEF LaneEnds, queueVars, mailVars, restVars
<1>13. QED
  BY <1>2, <1>3, <1>4, <1>5, <1>6, <1>7, <1>8, <1>9, <1>10, <1>11, <1>12 DEF LaneStep

LEMMA EventsKeptBySidecars ==
  ASSUME Typed, EventInv, NEW s \in Sessions, SidecarEnds(s)
  PROVE  EventInv'
<1> DEFINE d == sidecar[s].d
<1>1. d \in Deliveries /\ UNCHANGED <<buffer, futures, outcome, accepted, loop>>
  BY DEF SidecarEnds, Typed, SidesTyped, mailVars
<1>2. /\ OnLanes' = OnLanes /\ Settled' = Settled /\ LanesOnce'
  BY <1>1, LanesStay, SettledStays DEF EventInv, Once
<1>3. d.ev \subseteq Beside /\ Beside' = Beside \ d.ev /\ SidesOnce'
  BY SideCleared DEF EventInv, Once, SidecarEnds
<1>4. CASE UNCHANGED pending /\ \E out : settling' = settling \cup {[ev |-> d.ev, out |-> out]}
  <2>1. PICK out : settling' = settling \cup {[ev |-> d.ev, out |-> out]}
    BY <1>4
  <2> DEFINE x == [ev |-> d.ev, out |-> out]
  <2>2. x.ev = d.ev /\ settling' = settling \cup {x}
    BY <2>1
  <2> HIDE DEF x, d
  <2>3. x.ev \cap Settling = {}
    BY <1>3, <2>2 DEF EventInv, Apart
  <2>4. Settling' = Settling \cup d.ev /\ SettlingOnce'
    BY <2>2, <2>3, SettlingAdded DEF EventInv, Once
  <2>5. Queued' = Queued /\ QueueOnce'
    BY <1>4, QueueStays DEF EventInv, Once
  <2>6. Once' /\ Apart'
    BY <1>1, <1>2, <1>3, <2>4, <2>5 DEF EventInv, Apart, Once
  <2>7. Live' = Live
    BY <1>1, <1>2, <1>3, <2>4, <2>5 DEF Live
  <2>8. QED
    BY <1>1, <1>2, <2>4, <2>6, <2>7, EventsMove
<1>5. CASE UNCHANGED settling /\ pending' = <<[d EXCEPT !.waits = TRUE]>> \o pending
  <2> DEFINE g == [d EXCEPT !.waits = TRUE]
  <2>1. g \in Deliveries /\ g.ev = d.ev
    BY <1>1, Readmitted DEF Deliveries
  <2>2. pending' = <<g>> \o pending
    BY <1>5
  <2> HIDE DEF g, d
  <2>3. g.ev \cap Queued = {}
    BY <1>3, <2>1 DEF EventInv, Apart
  <2>4. Queued' = Queued \cup d.ev /\ QueueOnce'
    BY <2>1, <2>2, <2>3, QueueGrows DEF EventInv, Once
  <2>5. Settling' = Settling /\ SettlingOnce'
    BY <1>5, SettlingStays DEF EventInv, Once
  <2>6. Once' /\ Apart'
    BY <1>1, <1>2, <1>3, <2>4, <2>5 DEF EventInv, Apart, Once
  <2>7. Live' = Live
    BY <1>1, <1>2, <1>3, <2>4, <2>5 DEF Live
  <2>8. QED
    BY <1>1, <1>2, <2>5, <2>6, <2>7, EventsMove
<1>6. QED
  BY <1>4, <1>5 DEF SidecarEnds

LEMMA EventsKeptBySettling ==
  ASSUME Typed, EventInv, NEW x \in settling, Settle(x)
  PROVE  EventInv'
<1>1. x.ev \in SUBSET Events /\ x.out \in Outcomes \ {"none"} /\ "unrecorded" \in Outcomes \ {"none"}
  BY DEF Typed, SettledTyped, Outcomes
<1>2. UNCHANGED <<pending, buffer, futures, sidecar, accepted, loop>>
  BY DEF Settle, queueVars, mailVars
<1>3. x.ev \subseteq Settling /\ Settling' = Settling \ x.ev /\ SettlingOnce'
  BY SettlingDone DEF EventInv, Once, Settle
<1>4. Settled' = Settled \cup x.ev
  BY <1>1, Recorded DEF Settle
<1>5. /\ Queued' = Queued /\ OnLanes' = OnLanes /\ Beside' = Beside
      /\ QueueOnce' /\ LanesOnce' /\ SidesOnce'
  BY <1>2, QueueStays, LanesStay, SidesStay DEF EventInv, Once
<1>6. Once' /\ Apart'
  BY <1>2, <1>3, <1>5 DEF EventInv, Apart, Once
<1>7. Live' = Live \ x.ev
  BY <1>2, <1>3, <1>5 DEF EventInv, Apart, Live
<1>8. x.ev \subseteq Live
  BY <1>3 DEF Live
<1>9. QED
  BY <1>2, <1>3, <1>4, <1>6, <1>7, <1>8 DEF EventInv, Closing

LEMMA EventsKeptBySignals ==
  ASSUME Typed, EventInv, SignalStep, NoneForgotten
  PROVE  EventInv'
<1>1. ASSUME NEW e \in Events, AcceptEvent(e) PROVE EventInv'
  <2>1. /\ e \notin accepted /\ accepted' = accepted \cup {e} /\ loop.op # "done"
        /\ UNCHANGED <<futures, sidecar, settling, outcome, loop>>
    BY <1>1 DEF NoneForgotten, AcceptEvent, laneVars, Running
  <2>2. /\ OnLanes' = OnLanes /\ Beside' = Beside /\ Settling' = Settling /\ Settled' = Settled
        /\ LanesOnce' /\ SidesOnce' /\ SettlingOnce'
    BY <2>1, LanesStay, SidesStay, SettlingStays, SettledStays DEF EventInv, Once
  <2>3. e \notin Live
    BY <2>1 DEF EventInv
  <2>4. \/ Queued' = Queued /\ QueueOnce' /\ buffer' = buffer \cup {e}
        \/ Queued' = Queued \cup {e} /\ QueueOnce' /\ UNCHANGED buffer
    <3>1. CASE e \in Coalesced
      BY <1>1, <3>1, QueueStays DEF AcceptEvent, EventInv, Once
    <3>2. CASE e \notin Coalesced
      <4>1. Delivery({e}) \in Deliveries /\ Delivery({e}).ev = {e}
        BY DEF Delivery, Deliveries
      <4>2. Delivery({e}).ev \cap Queued = {}
        BY <2>3, <4>1 DEF Live
      <4>3. QED
        BY <1>1, <3>2, <4>1, <4>2, QueueGrows DEF AcceptEvent, EventInv, Once
    <3>3. QED
      BY <3>1, <3>2
  <2>5. Once' /\ Apart'
    BY <2>2, <2>3, <2>4 DEF EventInv, Apart, Once, Live
  <2>6. Live' = Live \cup {e}
    BY <2>2, <2>4 DEF Live
  <2>7. Settled \subseteq accepted \/ Closing
    BY DEF EventInv
  <2>8. QED
    BY <2>1, <2>2, <2>3, <2>5, <2>6, <2>7 DEF EventInv, Closing
<1>2. ASSUME NEW i \in DOMAIN pending, PauseEnds(i) PROVE EventInv'
  <2>1. UNCHANGED <<buffer, futures, sidecar, settling, outcome, accepted, loop>>
    BY <1>2 DEF PauseEnds, laneVars, mailVars, restVars
  <2>2. /\ OnLanes' = OnLanes /\ Beside' = Beside /\ Settling' = Settling /\ Settled' = Settled
        /\ LanesOnce' /\ SidesOnce' /\ SettlingOnce'
    BY <2>1, LanesStay, SidesStay, SettlingStays, SettledStays DEF EventInv, Once
  <2>3. Queued' = Queued /\ QueueOnce'
    BY <1>2, QueueRetimes DEF EventInv, Once
  <2>4. Once' /\ Apart' /\ Live' = Live
    BY <2>1, <2>2, <2>3 DEF EventInv, Apart, Once, Live
  <2>5. QED
    BY <2>1, <2>2, <2>4, EventsMove
<1>3. QED
  BY <1>1, <1>2, EventsStay
  DEF SignalStep, AcceptConfig, CloseBot, NewDay, RequestRotation, queueVars, laneVars, mailVars,
      restVars

LEMMA EventsKeptByDispatch ==
  ASSUME Typed, EventInv, NEW i \in DOMAIN pending, DispatchLane(i) \/ DispatchSidecar(i)
  PROVE  EventInv'
<1> DEFINE d == pending[i]
           s == TargetOf(d)
<1>1. d \in Deliveries /\ s \in Sessions
  BY TakenTyped
<1>2. UNCHANGED <<buffer, settling, outcome, accepted, loop>> /\ pending' = RemoveAt(pending, i)
  BY DEF DispatchLane, DispatchSidecar, mailVars, restVars
<1>3. d.ev \subseteq Queued /\ Queued' = Queued \ d.ev /\ QueueOnce'
  BY <1>2, QueueRemoves DEF EventInv, Once
<1>4. Settling' = Settling /\ Settled' = Settled /\ SettlingOnce'
  BY <1>2, SettlingStays, SettledStays DEF EventInv, Once
<1>5. CASE DispatchLane(i)
  <2>1. futures' = futures \cup {Lane(d, FirstStep(d), s)} /\ UNCHANGED sidecar
    BY <1>5 DEF DispatchLane
  <2>2. Lane(d, FirstStep(d), s).d = d
    BY DEF Lane
  <2> HIDE DEF d, s
  <2>3. OnLanes' = OnLanes \cup d.ev /\ LanesOnce'
    BY <1>3, <2>1, <2>2, LaneAdded DEF EventInv, Once, Apart
  <2>4. Beside' = Beside /\ SidesOnce'
    BY <2>1, SidesStay DEF EventInv, Once
  <2>5. Once' /\ Apart'
    BY <1>2, <1>3, <1>4, <2>3, <2>4 DEF EventInv, Apart, Once
  <2>6. Live' = Live
    BY <1>2, <1>3, <1>4, <2>3, <2>4 DEF Live
  <2>7. QED
    BY <1>2, <1>4, <2>5, <2>6, EventsMove
<1>6. CASE DispatchSidecar(i)
  <2> DEFINE x == [st |-> "go", d |-> d]
  <2>1. x.d = d /\ sidecar' = [sidecar EXCEPT ![s] = x] /\ UNCHANGED futures /\ sidecar[s].d.ev = {}
    BY <1>1, <1>6 DEF DispatchSidecar, Typed, SidesTyped, Nothing
  <2> HIDE DEF d, s, x
  <2>2. x.d.ev \cap Beside = {}
    BY <1>3, <2>1 DEF EventInv, Apart
  <2>3. Beside' = Beside \cup d.ev /\ SidesOnce'
    BY <1>1, <2>1, <2>2, SideSet DEF EventInv, Once
  <2>4. OnLanes' = OnLanes /\ LanesOnce'
    BY <2>1, LanesStay DEF EventInv, Once
  <2>5. Once' /\ Apart'
    BY <1>2, <1>3, <1>4, <2>3, <2>4 DEF EventInv, Apart, Once
  <2>6. Live' = Live
    BY <1>2, <1>3, <1>4, <2>3, <2>4 DEF Live
  <2>7. QED
    BY <1>2, <1>4, <2>5, <2>6, EventsMove
<1>7. QED
  BY <1>5, <1>6

LEMMA EventsKeptByLoop ==
  ASSUME Typed, LaneInv, EventInv, LoopStep
  PROVE  EventInv'
<1>1. CASE FlushBuffer
  <2>1. /\ UNCHANGED <<futures, sidecar, settling, outcome, accepted, loop>> /\ buffer' = {}
        /\ pending' = Append(pending, Delivery(buffer))
        /\ Delivery(buffer) \in Deliveries /\ Delivery(buffer).ev = buffer
    BY <1>1 DEF FlushBuffer, laneVars, mailVars, restVars, Delivery, Deliveries, Typed, QueueTyped
  <2>2. /\ OnLanes' = OnLanes /\ Beside' = Beside /\ Settling' = Settling /\ Settled' = Settled
        /\ LanesOnce' /\ SidesOnce' /\ SettlingOnce'
    BY <2>1, LanesStay, SidesStay, SettlingStays, SettledStays DEF EventInv, Once
  <2>3. Delivery(buffer).ev \cap Queued = {}
    BY <2>1 DEF EventInv, Apart
  <2>4. Queued' = Queued \cup buffer /\ QueueOnce'
    BY <2>1, <2>3, QueueGrows DEF EventInv, Once
  <2>5. Once' /\ Apart'
    BY <2>1, <2>2, <2>4 DEF EventInv, Apart, Once
  <2>6. Live' = Live
    BY <2>1, <2>2, <2>4 DEF Live
  <2>7. QED
    BY <2>1, <2>2, <2>5, <2>6, EventsMove
<1>2. CASE ContinueAsNew
  <2>1. UNCHANGED <<pending, buffer, outcome, accepted, loop>> /\ Quiet
    BY <1>2 DEF ContinueAsNew, queueVars, mailVars
  <2>2. UNCHANGED <<futures, settling, sidecar>>
    BY <1>2, <2>1, QuietLanes DEF ContinueAsNew
  <2>3. QED
    BY <2>1, <2>2, EventsStay
<1>3. CASE TeardownBegins
  <2>1. ~Closing /\ UNCHANGED <<pending, buffer, futures, sidecar, settling, outcome, accepted>>
    BY <1>3 DEF TeardownBegins, queueVars, laneVars, mailVars, Closing
  <2>2. /\ Queued' = Queued /\ OnLanes' = OnLanes /\ Beside' = Beside /\ Settling' = Settling
        /\ Settled' = Settled /\ Once' /\ UNCHANGED <<buffer, accepted>>
    BY <2>1, QueueStays, LanesStay, SidesStay, SettlingStays, SettledStays DEF EventInv, Once
  <2>3. TeardownIds = Queued \cup buffer \cup OnLanes
    BY OnBooksAreLanes DEF TeardownIds, Queued
  <2>4. accepted \ Beside \subseteq TeardownIds \cup Settled \cup Settling
    BY <2>1, <2>3 DEF EventInv, Live
  <2>5. \/ TeardownIds = {} /\ loop' = [op |-> "closeAll", known |-> accepted \ Beside]
        \/ loop' = [op |-> "archive", ids |-> TeardownIds, known |-> accepted \ Beside]
    BY <1>3 DEF TeardownBegins, Beside
  <2>6. Apart' /\ Live' = Live /\ Live \subseteq accepted
    BY <2>2 DEF EventInv, Apart, Live
  <2>7. CASE TeardownIds = {} /\ loop' = [op |-> "closeAll", known |-> accepted \ Beside]
    <3>1. loop'.op = "closeAll" /\ loop'.known \subseteq Settled \cup Settling
      BY <2>4, <2>7
    <3>2. QED
      BY <2>2, <2>6, <3>1 DEF EventInv, Closing
  <2>8. CASE loop' = [op |-> "archive", ids |-> TeardownIds, known |-> accepted \ Beside]
    <3>1. loop'.op = "archive" /\ loop'.known \subseteq loop'.ids \cup Settled \cup Settling
      BY <2>4, <2>8
    <3>2. QED
      BY <2>2, <2>6, <3>1 DEF EventInv, Closing
  <2>9. QED
    BY <2>5, <2>7, <2>8
<1>4. CASE TeardownArchives
  <2>1. /\ loop.op = "archive" /\ loop'.op = "closeAll" /\ loop'.known = loop.known
        /\ pending' = <<>> /\ buffer' = {} /\ UNCHANGED <<futures, sidecar, settling, accepted>>
    BY <1>4 DEF TeardownArchives, mailVars
  <2>2. /\ OnLanes' = OnLanes /\ Beside' = Beside /\ Settling' = Settling
        /\ LanesOnce' /\ SidesOnce' /\ SettlingOnce'
    BY <2>1, LanesStay, SidesStay, SettlingStays DEF EventInv, Once
  <2>3. Queued' = {} /\ QueueOnce'
    <3>1. DOMAIN pending' = {}
      BY <2>1
    <3>2. QED
      BY <3>1 DEF Queued, QueueOnce
  <2>4. loop.ids \in SUBSET Events /\ {"archived", "unrecorded"} \subseteq Outcomes \ {"none"}
    BY <2>1 DEF Typed, LoopTyped, Outcomes
  <2>5. Settled' = Settled \cup loop.ids
    BY <1>4, <2>4, Recorded DEF TeardownArchives
  <2>6. Once' /\ Apart' /\ Live' \subseteq Live
    BY <2>1, <2>2, <2>3 DEF EventInv, Apart, Once, Live
  <2>7. QED
    BY <2>1, <2>2, <2>5, <2>6 DEF EventInv, Closing
<1>5. CASE TeardownEnds
  <2>1. /\ loop.op = "closeAll" /\ loop'.op = "done" /\ loop'.known = loop.known
        /\ futures' = {} /\ sidecar' = [s \in Sessions |-> NoSidecar]
        /\ UNCHANGED <<pending, buffer, settling, outcome, accepted>>
    BY <1>5 DEF TeardownEnds, queueVars, mailVars
  <2>2. /\ Queued' = Queued /\ Settling' = Settling /\ Settled' = Settled
        /\ QueueOnce' /\ SettlingOnce'
    BY <2>1, QueueStays, SettlingStays, SettledStays DEF EventInv, Once
  <2>3. OnLanes' = {} /\ LanesOnce' /\ Beside' = {} /\ SidesOnce'
    BY <2>1, NoSides DEF OnLanes, LanesOnce
  <2>4. Once' /\ Apart' /\ Live' \subseteq Live
    BY <2>1, <2>2, <2>3 DEF EventInv, Apart, Once, Live
  <2>5. QED
    BY <2>1, <2>2, <2>4 DEF EventInv, Closing
<1>6. CASE (\E m \in inbox : TakeTerminal(m)) \/ AttachTerminal \/ SweepReads \/ SweepCloses
           \/ ReconcileBegins \/ ReconcileStep \/ IdleClosed
           \/ (\E s \in Sessions : SweepFailsLane(s) \/ DropRotation(s))
           \/ (\E s \in Sessions, why \in {"rotate", "idle"} : CloseIdle(s, why))
  <2>1. /\ UNCHANGED <<pending, buffer, futures, sidecar, settling, outcome, accepted>>
    BY <1>6, ReconcileDoes, Zenon
    DEF TakeTerminal, AttachTerminal, SweepReads, SweepCloses, ReconcileBegins,
        IdleClosed, SweepFailsLane, DropRotation, CloseIdle, queueVars, laneVars, mailVars
  <2>2. ~Closing
    BY <1>6, ReconcileDoes
    DEF Closing, TakeTerminal, AttachTerminal, SweepReads, SweepCloses, ReconcileBegins,
        IdleClosed, SweepFailsLane, DropRotation, CloseIdle
  <2>3. loop'.op \notin {"archive", "closeAll", "done"}
    <3>1. CASE \E m \in inbox : TakeTerminal(m)
      <4>1. PICK m \in inbox : TakeTerminal(m)
        BY <3>1
      <4>2. loop' \in {[op |-> "terminal", m |-> m], loop}
        BY <4>1 DEF TakeTerminal
      <4>3. QED
        BY <2>2, <4>2 DEF Closing
    <3>2. CASE AttachTerminal \/ SweepReads \/ SweepCloses \/ IdleClosed
      <4>1. loop' \in {[op |-> "park"], [op |-> "sweep", dead |-> DeadLanes],
                       [op |-> "sweep", dead |-> loop.dead]}
        BY <3>2
        DEF AttachTerminal, SweepReads, SweepCloses, IdleClosed, Parked
      <4>2. QED
        BY <4>1, SMTT(30)
    <3>a. CASE ReconcileBegins \/ ReconcileStep
      BY <3>a, ReconcileLoop
    <3>3. CASE \E s \in Sessions : SweepFailsLane(s) \/ DropRotation(s)
      BY <3>3 DEF SweepFailsLane, DropRotation, Parked, restVars
    <3>4. CASE \E s \in Sessions, why \in {"rotate", "idle"} : CloseIdle(s, why)
      BY <3>4 DEF CloseIdle
    <3>5. QED
      BY <1>6, <3>1, <3>2, <3>a, <3>3, <3>4
  <2>4. QED
    BY <2>1, <2>2, <2>3, EventsStay, Zenon DEF Closing
<1>7. QED
  BY <1>1, <1>2, <1>3, <1>4, <1>5, <1>6, EventsKeptByDispatch DEF LoopStep

LEMMA EventsKept ==
  ASSUME Typed, LaneInv, EventInv, [Next]_vars, [NoneForgotten]_vars
  PROVE  EventInv'
<1>1. CASE SessionStep
  BY <1>1, EventsStay
  DEF SessionStep, ForeignWork, SessionDies, StartLands, RunEnds, RepeatTerminal,
      queueVars, laneVars, mailVars, restVars
<1>2. CASE UNCHANGED vars
  BY <1>2, EventsStay DEF vars, queueVars, laneVars, mailVars, restVars
<1>3. QED
  BY <1>1, <1>2, EventsKeptBySignals, EventsKeptByLanes, EventsKeptBySidecars,
     EventsKeptBySettling, EventsKeptByLoop
  DEF Next

-----------------------------------------------------------------------------
(* The books and the lanes.                                                *)

LEMMA FitsKept ==
  ASSUME NEW f, Fits(f),
         f.at[1] \notin PerEvent => f.at[2] <= gen'[f.at[1]] /\ f.next[2] <= gen'[f.at[1]],
         Moving(f) => f.next \notin tracked' /\ ~HasLane(f.next)',
         f.at[1] # Main /\ f.st # "wait" =>
            gen'[f.at[1]] = gen[f.at[1]] /\ (f.at \in tracked => f.at \in tracked'),
         f.at[1] # Main /\ f.st = "wait" /\ active'[f.at].terminal = "none" =>
            active[f.at].terminal = "none" /\ (f.at \in tracked => f.at \in tracked')
  PROVE  Fits(f)'
BY DEF Fits, Moving

LEMMA LanesUndisturbed ==
  ASSUME LaneInv, UNCHANGED <<active, futures, gen, tracked>>,
         UNCHANGED loop \/ loop'.op \notin {"close", "sweepClose"}
  PROVE  LaneInv'
<1>1. (\A f \in futures : Fits(f))'
  BY DEF LaneInv, Fits, Moving, HasLane
<1>2. Books' /\ Alone'
  BY DEF LaneInv, Books, Alone, HasLane
<1>3. Current'
  <2>1. \A s \in tracked' : s[1] # Main /\ s[2] = gen'[s[1]]
    BY DEF LaneInv, Current
  <2>2. CASE UNCHANGED loop
    BY <2>1, <2>2 DEF LaneInv, Current, HasLane
  <2>3. CASE loop'.op \notin {"close", "sweepClose"}
    BY <2>1, <2>3 DEF Current
  <2>4. QED
    BY <2>2, <2>3
<1>4. QED
  BY <1>1, <1>2, <1>3 DEF LaneInv

\* A lane of a tracked session's base that still has something to do there
\* works for that session.
LEMMA LaneOfTracked ==
  ASSUME Typed, LaneInv, NEW f \in futures, NEW s \in tracked, f.at[1] = s[1],
         f.st # "wait" \/ active[f.at].terminal = "none"
  PROVE  f.at = s
<1>1. /\ f.at \in Sessions /\ f.next \in Sessions /\ s \in Sessions
      /\ s[1] # Main /\ s[2] = gen[s[1]]
  BY LaneMoves DEF Typed, ConfigTyped, LaneInv, Current
<1>2. Fits(f)
  BY DEF LaneInv
<1>3. CASE f.st # "wait"
  <2>1. f.next[1] = s[1] /\ f.next[2] = s[2]
    BY <1>1, <1>2, <1>3 DEF Fits
  <2>2. f.next = s
    BY <1>1, <2>1, SessionParts
  <2>3. QED
    BY <1>2, <2>2 DEF Fits, Moving
<1>4. CASE f.st = "wait"
  <2>1. f.at \in tracked
    BY <1>1, <1>2, <1>4 DEF Fits
  <2>2. f.at[1] = s[1] /\ f.at[2] = s[2]
    BY <1>1, <2>1 DEF LaneInv, Current
  <2>3. QED
    BY <1>1, <2>2, SessionParts
<1>5. QED
  BY <1>3, <1>4

\* The base of s gets its next generation, stays where it is, or starts over
\* when it stands for one event.
Rolls(s) ==
    /\ gen' \in [Bases -> 1..MaxGen]
    /\ \A b \in Bases : b # s[1] => gen'[b] = gen[b]
    /\ s[1] \notin PerEvent => gen[s[1]] <= gen'[s[1]]
    /\ tracked' = tracked \ {s}

LEMMA MovesOn ==
  ASSUME Typed, LaneInv, NEW s \in Sessions, Rolls(s),
         s[1] # Main => s[2] = gen[s[1]],
         futures' \subseteq futures,
         \A f \in futures' : /\ active'[f.at] = active[f.at]
                             /\ f.at[1] = s[1] /\ s[1] # Main =>
                                  f.st = "wait" /\ active[f.at].terminal # "none",
         \A t \in Sessions : HasLane(t)' => HasLane(t)
  PROVE  /\ (\A f \in futures : Fits(f))'
         /\ \A t \in tracked' : t[1] # Main /\ t[2] = gen'[t[1]]
<1>1. s[1] \in Bases /\ s = <<s[1], s[2]>> /\ gen \in [Bases -> 1..MaxGen]
      /\ tracked \subseteq Sessions
  BY SessionParts DEF Typed, ConfigTyped
<1>2. ASSUME NEW f \in futures' PROVE Fits(f)'
  <2>1. /\ f \in futures /\ Fits(f) /\ f.at \in Sessions /\ f.next \in Sessions
    BY <1>2, LaneMoves DEF LaneInv
  <2>2. /\ f.at[1] \in Bases /\ f.at[2] \in 1..MaxGen /\ f.next[2] \in 1..MaxGen
        /\ f.at[1] \notin PerEvent => f.at[2] <= gen[f.at[1]] /\ f.next[2] <= gen[f.at[1]]
    BY <2>1, SessionParts DEF Fits
  <2>3. ASSUME f.at[1] \notin PerEvent
        PROVE  f.at[2] <= gen'[f.at[1]] /\ f.next[2] <= gen'[f.at[1]]
    <3>1. gen[f.at[1]] \in Nat /\ gen'[f.at[1]] \in Nat
      BY <1>1, <2>2 DEF Rolls
    <3>2. gen[f.at[1]] <= gen'[f.at[1]]
      BY <1>1, <2>2, <2>3, <3>1 DEF Rolls
    <3>3. QED
      BY <2>2, <2>3, <3>1, <3>2
  <2>4. Moving(f) => f.next \notin tracked' /\ ~HasLane(f.next)'
    BY <2>1 DEF Fits, Rolls
  <2>5. f.at[1] # Main /\ f.st # "wait" =>
            gen'[f.at[1]] = gen[f.at[1]] /\ (f.at \in tracked => f.at \in tracked')
    BY <1>2, <2>2 DEF Rolls
  <2>6. f.at[1] # Main /\ f.st = "wait" /\ active'[f.at].terminal = "none" =>
            active[f.at].terminal = "none" /\ (f.at \in tracked => f.at \in tracked')
    BY <1>2, <2>2 DEF Rolls
  <2>7. QED
    BY <2>1, <2>3, <2>4, <2>5, <2>6, FitsKept
<1>3. ASSUME NEW t \in tracked' PROVE t[1] # Main /\ t[2] = gen'[t[1]]
  <2>1. t \in tracked /\ t # s /\ t[1] # Main /\ t[2] = gen[t[1]] /\ t \in Sessions
    BY <1>1, <1>3 DEF Rolls, LaneInv, Current
  <2>2. t[1] # s[1]
    BY <1>1, <2>1, SessionParts
  <2>3. QED
    BY <2>1, <2>2, SessionParts DEF Rolls
<1>4. QED
  BY <1>2, <1>3

LEMMA LaneOff ==
  ASSUME Typed, LaneInv, NEW f \in futures,
         active' = [active EXCEPT ![f.at] = NoLane], futures' = futures \ {f}
  PROVE  /\ Books' /\ Alone'
         /\ \A g \in futures' : g \in futures /\ active'[g.at] = active[g.at] /\ g.at # f.at
         /\ \A t \in Sessions : HasLane(t)' => HasLane(t) /\ active'[t] = active[t]
         /\ HasLane(f.at)
<1>1. f.at \in Sessions /\ f.d.ev # {} /\ active \in [Sessions -> LaneRecords]
  BY LaneMoves DEF Typed, LanesTyped
<1>2. \A g \in futures : g.at \in Sessions /\ (g.at = f.at => g = f)
  BY LaneMoves DEF LaneInv, Books
<1>3. NoLane.d.ev = {} /\ NoLane.terminal = "none" /\ ~NoLane.run
  BY DEF NoLane, FreshLane
<1>4. \A t \in Sessions : active'[t] = IF t = f.at THEN NoLane ELSE active[t]
  BY <1>1
<1>5. \A g \in futures' : g \in futures /\ active'[g.at] = active[g.at] /\ g.at # f.at
  BY <1>2, <1>4
<1>6. \A t \in Sessions : HasLane(t)' => HasLane(t) /\ active'[t] = active[t] /\ t # f.at
  BY <1>3, <1>4 DEF HasLane
<1>7. Books'
  <2>1. \A g \in futures' :
         /\ active'[g.at].d = g.d
         /\ active'[g.at].run = (g.st = "wait") /\ active'[g.at].parked = (g.st = "wait")
    BY <1>5 DEF LaneInv, Books
  <2>2. \A s \in Sessions : HasLane(s)' => \E g \in futures' : g.at = s
    BY <1>6 DEF LaneInv, Books
  <2>3. \A s \in Sessions : ~HasLane(s)' => active'[s].terminal = "none" /\ ~active'[s].run
    BY <1>3, <1>4 DEF HasLane, LaneInv, Books
  <2>4. \A g, h \in futures' : g.at = h.at => g = h
    BY <1>5 DEF LaneInv, Books
  <2>5. QED
    BY <2>1, <2>2, <2>3, <2>4 DEF Books
<1>8. Alone'
  BY <1>5 DEF LaneInv, Alone
<1>9. HasLane(f.at)
  BY <1>1 DEF LaneInv, Books, HasLane
<1>10. QED
  BY <1>5, <1>6, <1>7, <1>8, <1>9

LEMMA FitsStay ==
  ASSUME Typed, LaneInv, UNCHANGED <<gen, tracked>>, NEW f \in futures,
         active'[f.at].terminal = "none" => active[f.at].terminal = "none",
         \A t \in Sessions : HasLane(t)' => HasLane(t)
  PROVE  Fits(f)'
<1>1. Fits(f) /\ f.next \in Sessions
  BY LaneMoves DEF LaneInv
<1>2. f.at[1] \notin PerEvent => f.at[2] <= gen'[f.at[1]] /\ f.next[2] <= gen'[f.at[1]]
  BY <1>1 DEF Fits
<1>3. Moving(f) => f.next \notin tracked' /\ ~HasLane(f.next)'
  BY <1>1 DEF Fits
<1>4. QED
  BY <1>1, <1>2, <1>3, FitsKept

LEMMA CurrentStays ==
  ASSUME LaneInv, UNCHANGED <<gen, tracked, loop>>,
         loop.op = "close" => ~HasLane(loop.s)',
         loop.op = "sweepClose" /\ HasLane(loop.s)' =>
             active'[loop.s].run /\ active'[loop.s].terminal # "none"
  PROVE  Current'
BY DEF LaneInv, Current

\* A lane is taken off the books, its base staying where it is ...
LEMMA LaneOffBooks ==
  ASSUME Typed, LaneInv, NEW f \in futures,
         active' = [active EXCEPT ![f.at] = NoLane], futures' = futures \ {f},
         UNCHANGED <<gen, tracked, loop>>
  PROVE  LaneInv'
<1>1. (\A g \in futures : Fits(g))'
  BY LaneOff, FitsStay
<1>2. Current'
  <2>1. loop.op \in {"close", "sweepClose"} => loop.s \in Sessions
    BY DEF Typed, LoopTyped
  <2>2. loop.op = "close" => ~HasLane(loop.s)'
    BY <2>1, LaneOff DEF LaneInv, Current
  <2>3. loop.op = "sweepClose" /\ HasLane(loop.s)' =>
             active'[loop.s].run /\ active'[loop.s].terminal # "none"
    BY <2>1, LaneOff DEF LaneInv, Current
  <2>4. QED
    BY <2>2, <2>3, CurrentStays
<1>3. QED
  BY <1>1, <1>2, LaneOff DEF LaneInv

LEMMA AdvanceRolls ==
  ASSUME Typed, NEW s \in Sessions, Advance(s)
  PROVE  Rolls(s)
<1>1. gen' \in [Bases -> 1..MaxGen] /\ tracked' = tracked \ {s} /\ s[1] \in Bases
  BY AdvanceTyped, SessionParts DEF Advance
<1>2. gen \in [Bases -> 1..MaxGen]
  BY DEF Typed, ConfigTyped
<1>3. gen' = [gen EXCEPT ![s[1]] = gen[s[1]]] \/ gen' = [gen EXCEPT ![s[1]] = gen[s[1]] + 1]
  BY DEF Advance
<1>4. \A b \in Bases : b # s[1] => gen'[b] = gen[b]
  BY <1>2, <1>3
<1>5. gen[s[1]] <= gen'[s[1]]
  <2>1. gen[s[1]] \in Nat
    BY <1>1, <1>2
  <2>2. gen'[s[1]] \in {gen[s[1]], gen[s[1]] + 1}
    BY <1>1, <1>2, <1>3
  <2>3. QED
    BY <2>1, <2>2
<1>6. QED
  BY <1>1, <1>4, <1>5 DEF Rolls

\* ... or going to its next generation.
LEMMA LaneOffRolls ==
  ASSUME Typed, LaneInv, NEW f \in futures, f.st = "leave", RollForward(f.at),
         active' = [active EXCEPT ![f.at] = NoLane], futures' = futures \ {f},
         UNCHANGED loop
  PROVE  LaneInv'
<1>1. /\ f.at \in Sessions /\ Fits(f) /\ f.next = f.at
      /\ ~active[f.at].run /\ Rolls(f.at)
  BY LaneMoves, AdvanceRolls DEF RollForward, LaneInv, Books, Fits, Moving
<1>2. f.at[1] # Main => f.at[2] = gen[f.at[1]]
  BY <1>1 DEF Fits
<1>3. ASSUME NEW g \in futures', g.at[1] = f.at[1], f.at[1] # Main
      PROVE  g.st = "wait" /\ active[g.at].terminal # "none"
  <2>1. g \in futures /\ g # f /\ g.at # f.at /\ g.at \in Sessions
    BY <1>3, LaneOff, LaneMoves
  <2>2. g.st = "wait"
    BY <1>3, <2>1 DEF LaneInv, Alone
  <2>3. g.at \notin tracked
    <3>1. SUFFICES ASSUME g.at \in tracked PROVE FALSE
      OBVIOUS
    <3>2. g.at[2] = f.at[2]
      BY <1>2, <1>3, <3>1 DEF LaneInv, Current
    <3>3. QED
      BY <1>1, <1>3, <2>1, <3>2, SessionParts
  <2>4. QED
    BY <1>3, <2>1, <2>2, <2>3 DEF LaneInv, Fits
<1>4. /\ (\A g \in futures : Fits(g))'
      /\ \A t \in tracked' : t[1] # Main /\ t[2] = gen'[t[1]]
  <2>1. \A t \in Sessions : HasLane(t)' => HasLane(t)
    BY LaneOff
  <2>2. futures' \subseteq futures
    OBVIOUS
  <2>3. \A g \in futures' : active'[g.at] = active[g.at]
    BY LaneOff
  <2>4. QED
    BY <1>1, <1>2, <1>3, <2>1, <2>2, <2>3, MovesOn
<1>5. Current'
  <2>1. loop.op \in {"close", "sweepClose"} => loop.s \in Sessions
    BY DEF Typed, LoopTyped
  <2>2. loop.op = "close" => loop.s # f.at /\ ~HasLane(loop.s)'
    BY <2>1, LaneOff DEF LaneInv, Current
  <2>3. loop.op = "sweepClose" => /\ loop.s # f.at
                                  /\ HasLane(loop.s)' =>
                                       active'[loop.s].run /\ active'[loop.s].terminal # "none"
    BY <1>1, <2>1, LaneOff DEF LaneInv, Current
  <2>4. loop.op \in {"close", "sweepClose"} => loop.s[1] = Main \/ loop.s \in tracked'
    BY <1>1, <2>2, <2>3 DEF LaneInv, Current, Rolls
  <2>5. QED
    BY <1>4, <2>2, <2>3, <2>4 DEF Current
<1>6. QED
  BY <1>4, <1>5, LaneOff DEF LaneInv

LEMMA LaneTakesStep ==
  ASSUME Typed, LaneInv, NEW f \in futures, NEW g, g.d = f.d, g.at = f.at,
         f.st # "wait", g.st # "wait", Becomes(f, g), UNCHANGED active
  PROVE  Books' /\ Alone'
<1>1. \A h \in futures' : h = g \/ (h \in futures /\ h # f)
  BY DEF Becomes
<1>2. Books'
  <2>1. \A h \in futures' :
         /\ active'[h.at].d = h.d
         /\ active'[h.at].run = (h.st = "wait") /\ active'[h.at].parked = (h.st = "wait")
    <3>1. ASSUME NEW h \in futures, h # f
          PROVE  /\ active'[h.at].d = h.d
                 /\ active'[h.at].run = (h.st = "wait") /\ active'[h.at].parked = (h.st = "wait")
      BY <3>1 DEF LaneInv, Books
    <3>2. /\ active'[g.at].d = g.d
          /\ active'[g.at].run = (g.st = "wait") /\ active'[g.at].parked = (g.st = "wait")
      BY DEF LaneInv, Books
    <3>3. QED
      BY <1>1, <3>1, <3>2
  <2>2. \A s \in Sessions : HasLane(s)' => \E h \in futures' : h.at = s
    BY DEF LaneInv, Books, HasLane, Becomes
  <2>3. \A s \in Sessions : ~HasLane(s)' => active'[s].terminal = "none" /\ ~active'[s].run
    BY DEF LaneInv, Books, HasLane
  <2>4. \A h, k \in futures' : h.at = k.at => h = k
    BY <1>1 DEF LaneInv, Books
  <2>5. QED
    BY <2>1, <2>2, <2>3, <2>4 DEF Books
<1>3. Alone'
  <2>1. SUFFICES ASSUME NEW h \in futures', NEW k \in futures', h.at[1] = k.at[1],
                        h.at[1] # Main, h.st # "wait", k.st # "wait"
                 PROVE  h = k
    BY DEF Alone
  <2>2. CASE h = g \/ k = g
    BY <1>1, <2>1, <2>2 DEF LaneInv, Alone
  <2>3. CASE h # g /\ k # g
    BY <1>1, <2>1, <2>3 DEF LaneInv, Alone
  <2>4. QED
    BY <2>2, <2>3
<1>4. QED
  BY <1>2, <1>3

LEMMA LaneGoes ==
  ASSUME Typed, LaneInv, NEW f \in futures, NEW st \in {"leave", "start"}, Goes(f, st),
         f.st \in {"append", "status", "start"}, st = "start" => f.st = "status",
         UNCHANGED <<gen, tracked, loop>>
  PROVE  LaneInv'
<1> DEFINE g == Lane(f.d, st, f.at)
<1>1. g.d = f.d /\ g.at = f.at /\ g.next = f.at /\ g.st = st /\ g.st # "wait" /\ f.st # "wait"
  BY DEF Lane
<1>2. Becomes(f, g) /\ UNCHANGED active
  BY DEF Goes
<1>3. Fits(f) /\ f.next = f.at
  BY DEF LaneInv, Fits, Moving
<1> HIDE DEF g
<1>4. Books' /\ Alone'
  BY <1>1, <1>2, LaneTakesStep
<1>5. Fits(g)'
  BY <1>1, <1>3 DEF Fits, Moving
<1>6. \A t \in Sessions : HasLane(t)' => HasLane(t)
  BY <1>2 DEF HasLane
<1>7. (\A h \in futures : Fits(h))'
  <2>1. ASSUME NEW h \in futures', h # g PROVE Fits(h)'
    BY <1>2, <1>6, <2>1, FitsStay DEF Becomes
  <2>2. QED
    BY <1>5, <2>1
<1>8. Current'
  BY <1>2 DEF LaneInv, Current, HasLane
<1>9. QED
  BY <1>4, <1>7, <1>8 DEF LaneInv

LEMMA LaneKeptByMismatch ==
  ASSUME Typed, LaneInv, NEW f \in futures, LaneMismatch(f), ~Collides(f)
  PROVE  LaneInv'
<1> DEFINE b == f.at[1]
<1>a. PICK g : g = [f EXCEPT !.next = <<b, gen[b] + 1>>]
  OBVIOUS
<1>0. /\ f \in LaneFutures /\ f.at \in Sessions /\ b \in Bases /\ f.at[2] \in 1..MaxGen
      /\ f.at = <<f.at[1], f.at[2]>>
  BY LaneMoves, SessionParts DEF Typed, LanesTyped
<1>1. g.d = f.d /\ g.at = f.at /\ g.next = <<b, gen[b] + 1>> /\ g.st = f.st /\ f.st = "ensure"
  BY <1>a, <1>0 DEF LaneFutures, LaneMismatch
<1>2. /\ Becomes(f, g) /\ UNCHANGED <<active, tracked, loop>> /\ f.next = f.at /\ f.at \notin tracked
      /\ gen[b] < MaxGen /\ gen' = [gen EXCEPT ![b] = gen[b] + 1]
  BY <1>a DEF LaneMismatch
<1>3. Fits(f) /\ b # Main /\ f.at[2] = gen[b] /\ b = BaseOf(f.d)
  BY <1>1, <1>2 DEF LaneInv, Fits
<1>4. /\ gen \in [Bases -> 1..MaxGen] /\ gen[b] \in Nat /\ gen'[b] = gen[b] + 1
      /\ \A c \in Bases : c # b => gen'[c] = gen[c]
  <2>1. gen \in [Bases -> 1..MaxGen]
    BY DEF Typed, ConfigTyped
  <2>2. QED
    BY <1>0, <1>2, <2>1
<1>5. ~\E t \in tracked : t[1] = b
  <2>1. SUFFICES ASSUME NEW t \in tracked, t[1] = b PROVE FALSE
    OBVIOUS
  <2>2. t \in Sessions /\ t[2] = gen[b]
    BY <2>1 DEF LaneInv, Current, Typed, ConfigTyped
  <2>3. QED
    BY <1>0, <1>2, <1>3, <2>1, <2>2, SessionParts
<1>6. ~HasLane(g.next) /\ g.next \in Sessions
  <2>1. g.next \in Sessions
    BY <1>0, <1>1, <1>2, <1>4, BotAssumption DEF Sessions
  <2>2. ASSUME NEW h \in futures, b \notin PerEvent PROVE h.at # g.next
    <3>1. Fits(h) /\ (h.at[1] \notin PerEvent => h.at[2] <= gen[h.at[1]])
      BY DEF LaneInv, Fits
    <3>2. g.next[1] = b /\ g.next[2] = gen[b] + 1
      BY <1>1
    <3>3. QED
      BY <1>4, <2>2, <3>1, <3>2
  <2>3. CASE b \in PerEvent
    BY <1>1, <2>1, <2>3 DEF Collides
  <2>4. QED
    BY <2>1, <2>2, <2>3 DEF LaneInv, Books
<1>7. Books' /\ Alone'
  BY <1>1, <1>2, LaneTakesStep
<1>8. Fits(g)'
  <2>1. Moving(g) => g.st = "ensure" /\ g.next \notin tracked' /\ ~HasLane(g.next)'
    BY <1>1, <1>2, <1>5, <1>6 DEF HasLane
  <2>2. g.at[2] <= gen'[g.at[1]] /\ g.next[2] <= gen'[g.at[1]] /\ g.next[2] = gen'[g.at[1]]
    BY <1>1, <1>3, <1>4
  <2>3. QED
    BY <1>1, <1>3, <2>1, <2>2 DEF Fits, Moving
<1>9. ASSUME NEW h \in futures', h # g PROVE Fits(h)'
  <2>1. h \in futures /\ h # f /\ Fits(h) /\ h.at \in Sessions
    BY <1>2, <1>9, LaneMoves DEF Becomes, LaneInv
  <2>2. h.at[1] \in Bases /\ h.at[2] \in Nat /\ h.next[2] \in Nat
    BY <2>1, LaneMoves, SessionParts
  <2>3. h.at[1] = b => h.st = "wait"
    BY <1>1, <1>3, <2>1 DEF LaneInv, Alone
  <2>4. h.at[1] = b => active[h.at].terminal # "none"
    BY <1>3, <1>5, <2>1, <2>3 DEF Fits
  <2>5. ASSUME h.at[1] \notin PerEvent
        PROVE  h.at[2] <= gen'[h.at[1]] /\ h.next[2] <= gen'[h.at[1]]
    <3>1. h.at[2] <= gen[h.at[1]] /\ h.next[2] <= gen[h.at[1]]
      BY <2>1, <2>5 DEF Fits
    <3>2. QED
      BY <1>4, <2>2, <3>1
  <2>6. Moving(h) => h.next \notin tracked' /\ ~HasLane(h.next)'
    BY <1>2, <2>1 DEF Fits, HasLane
  <2>7. QED
    BY <1>2, <1>4, <2>1, <2>2, <2>3, <2>4, <2>5, <2>6, FitsKept
<1>10. Current'
  <2>1. \A t \in tracked' : t[1] # Main /\ t[2] = gen'[t[1]]
    <3>1. \A t \in tracked : t[1] \in Bases
      BY SessionParts DEF Typed, ConfigTyped
    <3>2. QED
      BY <1>2, <1>4, <1>5, <3>1 DEF LaneInv, Current
  <2>2. QED
    BY <1>2, <2>1 DEF LaneInv, Current, HasLane
<1>11. QED
  BY <1>7, <1>8, <1>9, <1>10 DEF LaneInv

\* The entry of a moving lane follows it to the session it was moved to.
LEMMA LaneRekeyed ==
  ASSUME Typed, LaneInv, NEW f \in futures, NEW g, g.d = f.d, g.at = f.next, Moving(f),
         f.st # "wait", g.st # "wait", Becomes(f, g), RekeyLane(f.at, f.next)
  PROVE  /\ Books' /\ Alone'
         /\ \A h \in futures : h # f => active'[h.at] = active[h.at]
         /\ \A t \in Sessions : HasLane(t)' => HasLane(t) \/ t = f.next
         /\ \A t \in Sessions : t # f.next /\ HasLane(t)' => active'[t] = active[t]
<1>1. /\ f.at \in Sessions /\ f.next \in Sessions /\ f.d.ev # {}
      /\ active \in [Sessions -> LaneRecords] /\ f.at # f.next /\ ~HasLane(f.next)
      /\ f.at[1] = f.next[1]
  BY LaneMoves DEF Typed, LanesTyped, LaneInv, Fits, Moving
<1>2. HasLane(f.at)
  BY <1>1 DEF LaneInv, Books, HasLane
<1>3. \A t \in Sessions : active'[t] = IF t = f.next THEN active[f.at]
                                      ELSE IF t = f.at THEN NoLane ELSE active[t]
  BY <1>1, <1>2 DEF RekeyLane
<1>4. NoLane.d.ev = {} /\ NoLane.terminal = "none" /\ ~NoLane.run
  BY DEF NoLane, FreshLane
<1>5. \A h \in futures' : h = g \/ (h \in futures /\ h # f)
  BY DEF Becomes
<1>6. ASSUME NEW h \in futures, h # f
      PROVE  h.at \in Sessions /\ h.at # f.at /\ h.at # f.next /\ active'[h.at] = active[h.at]
  <2>1. h.at \in Sessions /\ h.d.ev # {} /\ h.at # f.at
    BY <1>6, LaneMoves DEF LaneInv, Books
  <2>2. HasLane(h.at)
    BY <2>1 DEF LaneInv, Books, HasLane
  <2>3. QED
    BY <1>1, <1>3, <2>1, <2>2
<1>7. Books'
  <2>1. \A h \in futures' :
         /\ active'[h.at].d = h.d
         /\ active'[h.at].run = (h.st = "wait") /\ active'[h.at].parked = (h.st = "wait")
    <3>1. ASSUME NEW h \in futures, h # f
          PROVE  /\ active'[h.at].d = h.d
                 /\ active'[h.at].run = (h.st = "wait") /\ active'[h.at].parked = (h.st = "wait")
      BY <1>6, <3>1 DEF LaneInv, Books
    <3>2. active'[g.at] = active[f.at]
      BY <1>1, <1>3
    <3>3. /\ active'[g.at].d = g.d
          /\ active'[g.at].run = (g.st = "wait") /\ active'[g.at].parked = (g.st = "wait")
      BY <3>2 DEF LaneInv, Books
    <3>4. QED
      BY <1>5, <3>1, <3>3
  <2>2. ASSUME NEW s \in Sessions, HasLane(s)' PROVE \E h \in futures' : h.at = s
    <3>1. CASE s = f.next
      BY <3>1 DEF Becomes
    <3>2. CASE s # f.next
      <4>1. HasLane(s) /\ s # f.at
        BY <1>1, <1>3, <1>4, <2>2, <3>2 DEF HasLane
      <4>2. QED
        BY <4>1 DEF LaneInv, Books, Becomes
    <3>3. QED
      BY <3>1, <3>2
  <2>3. \A s \in Sessions : ~HasLane(s)' => active'[s].terminal = "none" /\ ~active'[s].run
    BY <1>2, <1>3, <1>4 DEF LaneInv, Books, HasLane
  <2>4. \A h, k \in futures' : h.at = k.at => h = k
    BY <1>5, <1>6 DEF LaneInv, Books
  <2>5. QED
    BY <2>1, <2>2, <2>3, <2>4 DEF Books
<1>8. Alone'
  <2>1. SUFFICES ASSUME NEW h \in futures', NEW k \in futures', h.at[1] = k.at[1],
                        h.at[1] # Main, h.st # "wait", k.st # "wait"
                 PROVE  h = k
    BY DEF Alone
  <2>2. CASE h = g \/ k = g
    BY <1>1, <1>5, <2>1, <2>2 DEF LaneInv, Alone
  <2>3. CASE h # g /\ k # g
    BY <1>5, <2>1, <2>3 DEF LaneInv, Alone
  <2>4. QED
    BY <2>2, <2>3
<1>9. /\ \A t \in Sessions : HasLane(t)' => HasLane(t) \/ t = f.next
      /\ \A t \in Sessions : t # f.next /\ HasLane(t)' => active'[t] = active[t]
  BY <1>3, <1>4 DEF HasLane
<1>10. QED
  BY <1>6, <1>7, <1>8, <1>9

LEMMA LaneKeptByEnsure ==
  ASSUME Typed, LaneInv, NEW f \in futures, LaneEnsures(f)
  PROVE  LaneInv'
<1>1. PICK st \in {"append", "status", "leave"} :
        /\ Becomes(f, Lane(f.d, st, f.next)) /\ RekeyLane(f.at, f.next)
        /\ st = "status" => BusyMode(f.d) # "append"
        /\ st # "leave" => f.next \in tracked'
  BY DEF LaneEnsures, AfterEnsure
<1>2. /\ f.st = "ensure" /\ UNCHANGED <<gen, loop>>
      /\ tracked' = tracked \/ tracked' = tracked \cup {f.next}
  BY DEF LaneEnsures, restVars
<1> DEFINE g == Lane(f.d, st, f.next)
<1>3. g.d = f.d /\ g.at = f.next /\ g.next = f.next /\ g.st = st /\ g.st # "wait" /\ f.st # "wait"
  BY <1>2 DEF Lane
<1>4. /\ Fits(f) /\ f.next \in Sessions /\ f.at \in Sessions /\ f.next[1] = f.at[1]
      /\ f.next[1] # Main /\ f.next[2] = gen[f.next[1]] /\ f.next[1] = BaseOf(f.d)
      /\ Moving(f) => f.next \notin tracked
  BY <1>2, LaneMoves DEF LaneInv, Fits
<1> HIDE DEF g
<1>5. Becomes(f, g) /\ RekeyLane(f.at, f.next)
  BY <1>1 DEF g
<1>6. /\ Books' /\ Alone'
      /\ \A h \in futures : h # f => active'[h.at] = active[h.at]
      /\ \A t \in Sessions : HasLane(t)' => HasLane(t) \/ (t = f.next /\ Moving(f))
      /\ \A t \in Sessions : (t = f.next => ~Moving(f)) /\ HasLane(t)' => active'[t] = active[t]
  <2>1. CASE Moving(f)
    BY <1>3, <1>5, <2>1, LaneRekeyed
  <2>2. CASE ~Moving(f)
    <3>1. UNCHANGED active
      BY <1>5, <2>2 DEF RekeyLane, Moving
    <3>2. Books' /\ Alone'
      BY <1>3, <1>5, <2>2, <3>1, LaneTakesStep DEF Moving
    <3>3. QED
      BY <3>1, <3>2 DEF HasLane
  <2>3. QED
    BY <2>1, <2>2
<1>7. Fits(g)'
  BY <1>1, <1>2, <1>3, <1>4 DEF Fits, Moving
<1>8. ASSUME NEW h \in futures', h # g PROVE Fits(h)'
  <2>1. h \in futures /\ h # f /\ Fits(h) /\ h.next \in Sessions /\ active'[h.at] = active[h.at]
    BY <1>5, <1>6, <1>8, LaneMoves DEF Becomes, LaneInv
  <2>2. Moving(h) => h.next[1] # f.next[1]
    BY <1>2, <1>4, <2>1 DEF LaneInv, Alone, Fits
  <2>3. Moving(h) => h.next \notin tracked' /\ ~HasLane(h.next)'
    BY <1>2, <1>6, <2>1, <2>2 DEF Fits
  <2>4. h.at[1] \notin PerEvent => h.at[2] <= gen'[h.at[1]] /\ h.next[2] <= gen'[h.at[1]]
    BY <1>2, <2>1 DEF Fits
  <2>5. QED
    BY <1>2, <2>1, <2>3, <2>4, FitsKept
<1>9. Current'
  <2>1. \A t \in tracked' : t[1] # Main /\ t[2] = gen'[t[1]]
    BY <1>2, <1>4 DEF LaneInv, Current
  <2>2. loop.op \in {"close", "sweepClose"} =>
          /\ loop.s \in Sessions /\ (loop.s[1] = Main \/ loop.s \in tracked)
          /\ loop.s = f.next => ~Moving(f)
    BY <1>4 DEF Typed, LoopTyped, LaneInv, Current
  <2>3. loop.op = "close" => ~HasLane(loop.s)'
    BY <1>2, <1>6, <2>2 DEF LaneInv, Current
  <2>4. loop.op = "sweepClose" /\ HasLane(loop.s)' =>
             active'[loop.s].run /\ active'[loop.s].terminal # "none"
    BY <1>2, <1>6, <2>2 DEF LaneInv, Current
  <2>5. QED
    BY <1>2, <2>1, <2>2, <2>3, <2>4 DEF Current
<1>10. QED
  BY <1>6, <1>7, <1>8, <1>9 DEF LaneInv

\* Ends are written on the books; a lane that waits is on them as such.
LEMMA LanesMarked ==
  ASSUME Typed, LaneInv, UNCHANGED <<gen, tracked>>, NEW s \in Sessions,
         \A t \in Sessions : active'[t].d = active[t].d,
         \A t \in Sessions : ~HasLane(t) =>
             active'[t].terminal = active[t].terminal /\ active'[t].run = active[t].run,
         \A t \in Sessions : active'[t].terminal = "none" => active[t].terminal = "none",
         \A t \in Sessions : t # s => active'[t].run = active[t].run /\ active'[t].parked = active[t].parked,
         \/ /\ UNCHANGED futures
            /\ active'[s].run = active[s].run /\ active'[s].parked = active[s].parked
         \/ /\ active'[s].run = TRUE /\ active'[s].parked = TRUE
            /\ \E f \in futures : f.st = "start" /\ f.at = s /\ Becomes(f, Lane(f.d, "wait", s)),
         UNCHANGED loop \/ loop'.op \notin {"close", "sweepClose"}
  PROVE  LaneInv'
<1>1. \A t \in Sessions : HasLane(t)' = HasLane(t)
  BY DEF HasLane
<1>2. ASSUME NEW f \in futures
      PROVE  f.at \in Sessions /\ (active'[f.at].terminal = "none" => active[f.at].terminal = "none")
  BY LaneMoves
<1>3. ASSUME NEW f \in futures PROVE Fits(f)'
  BY <1>1, <1>2, FitsStay
<1>4. Current'
  <2>1. \A t \in tracked' : t[1] # Main /\ t[2] = gen'[t[1]]
    BY DEF LaneInv, Current
  <2>2. CASE loop'.op \notin {"close", "sweepClose"}
    BY <2>1, <2>2 DEF Current
  <2>3. CASE UNCHANGED loop
    <3>1. loop.op \in {"close", "sweepClose"} => loop.s \in Sessions
      BY DEF Typed, LoopTyped
    <3>2. \A t \in Sessions : active[t].run /\ active[t].run \in BOOLEAN => active'[t].run
      OBVIOUS
    <3>3. \A t \in Sessions : active[t].run \in BOOLEAN
      BY DEF Typed, LanesTyped, LaneRecords
    <3>4. loop.op = "close" => ~HasLane(loop.s)'
      BY <1>1, <2>3, <3>1 DEF LaneInv, Current
    <3>5. loop.op = "sweepClose" /\ HasLane(loop.s)' =>
              active'[loop.s].run /\ active'[loop.s].terminal # "none"
      BY <1>1, <2>3, <3>1, <3>2, <3>3 DEF LaneInv, Current
    <3>6. QED
      BY <2>1, <2>3, <3>4, <3>5 DEF LaneInv, Current
  <2>4. QED
    BY <2>2, <2>3
<1>5. \A t \in Sessions : ~HasLane(t)' => active'[t].terminal = "none" /\ ~active'[t].run
  BY <1>1 DEF LaneInv, Books
<1>6. CASE /\ UNCHANGED futures
           /\ active'[s].run = active[s].run /\ active'[s].parked = active[s].parked
  <2>1. \A t \in Sessions : active'[t].run = active[t].run /\ active'[t].parked = active[t].parked
    BY <1>6
  <2>2. \A f \in futures' :
         /\ active'[f.at].d = f.d
         /\ active'[f.at].run = (f.st = "wait") /\ active'[f.at].parked = (f.st = "wait")
    BY <1>2, <1>6, <2>1 DEF LaneInv, Books
  <2>3. Books'
    BY <1>1, <1>5, <1>6, <2>2 DEF LaneInv, Books
  <2>4. QED
    BY <1>3, <1>4, <1>6, <2>3 DEF LaneInv, Alone
<1>7. CASE /\ active'[s].run = TRUE /\ active'[s].parked = TRUE
           /\ \E f \in futures : f.st = "start" /\ f.at = s /\ Becomes(f, Lane(f.d, "wait", s))
  <2>1. PICK f \in futures : f.st = "start" /\ f.at = s /\ Becomes(f, Lane(f.d, "wait", s))
    BY <1>7
  <2> DEFINE g == Lane(f.d, "wait", s)
  <2>2. g.d = f.d /\ g.at = s /\ g.next = s /\ g.st = "wait"
    BY DEF Lane
  <2> HIDE DEF g
  <2>3. \A h \in futures' : h = g \/ (h \in futures /\ h # f /\ h.at # s)
    BY <2>1 DEF g, Becomes, LaneInv, Books
  <2>4. g \in futures' /\ \A h \in futures : h = f \/ h \in futures'
    BY <2>1 DEF g, Becomes
  <2>5. Fits(g)'
    <3>1. Fits(f) /\ f.next = s
      BY <2>1 DEF LaneInv, Fits, Moving
    <3>2. QED
      BY <2>1, <2>2, <3>1 DEF Fits, Moving
  <2>6. Books'
    <3>1. ASSUME NEW h \in futures, h.at # s
          PROVE  /\ active'[h.at].d = h.d
                 /\ active'[h.at].run = (h.st = "wait") /\ active'[h.at].parked = (h.st = "wait")
      BY <1>2, <3>1 DEF LaneInv, Books
    <3>2. /\ active'[g.at].d = g.d
          /\ active'[g.at].run = (g.st = "wait") /\ active'[g.at].parked = (g.st = "wait")
      <4>1. active[f.at].d = f.d
        BY DEF LaneInv, Books
      <4>2. active'[s].d = f.d /\ active'[s].run = TRUE /\ active'[s].parked = TRUE
        BY <1>7, <2>1, <4>1
      <4>3. QED
        BY <2>2, <4>2
    <3>3. \A t \in Sessions : HasLane(t)' => \E h \in futures' : h.at = t
      BY <1>1, <2>1, <2>2, <2>4 DEF LaneInv, Books
    <3>4. \A h, k \in futures' : h.at = k.at => h = k
      BY <2>2, <2>3 DEF LaneInv, Books
    <3>5. QED
      BY <1>5, <2>3, <3>1, <3>2, <3>3, <3>4 DEF Books
  <2>7. Alone'
    BY <2>2, <2>3 DEF LaneInv, Alone
  <2>8. \A h \in futures' : Fits(h)'
    BY <1>3, <2>3, <2>5
  <2>9. QED
    BY <1>4, <2>6, <2>7, <2>8 DEF LaneInv
<1>8. QED
  BY <1>6, <1>7

LEMMA LaneKeptByStart ==
  ASSUME Typed, LaneInv, NEW f \in futures, LaneStarted(f)
  PROVE  LaneInv'
<1> DEFINE s == f.at
           k == f.d.ev
           st == world[s].runs[k]
           a(t) == [active[t] EXCEPT
                      !.run = @ \/ t = s, !.parked = @ \/ t = s,
                      !.terminal = IF st # "going" /\ active[t].d.ev = k THEN st ELSE @,
                      !.resolved = @ \/ (t = s /\ st = "ended" /\ <<s, k>> \notin read)]
<1>1. /\ s \in Sessions /\ f.st = "start" /\ Becomes(f, Lane(f.d, "wait", s))
      /\ UNCHANGED <<gen, tracked, loop>>
      /\ active' = [t \in Sessions |-> IF ~HasLane(t) THEN active[t] ELSE a(t)]
  BY LaneMoves DEF LaneStarted, configVars
<1>2. \A t \in Sessions : active[t] \in LaneRecords
  BY DEF Typed, LanesTyped
<1>3. \A t \in Sessions :
        /\ a(t).d = active[t].d
        /\ a(t).run = (active[t].run \/ t = s) /\ a(t).parked = (active[t].parked \/ t = s)
        /\ a(t).terminal = IF st # "going" /\ active[t].d.ev = k THEN st ELSE active[t].terminal
  BY <1>2 DEF LaneRecords
<1>4. HasLane(s)
  BY LaneMoves DEF LaneInv, Books, HasLane
<1>5. st # "none"
  <2>1. world[s].runs \in RunBooks /\ k \in DOMAIN world[s].runs
    BY <1>1 DEF LaneStarted, RunsOf, Typed, WorldTyped
  <2>2. st \in RunStates
    BY <2>1, RunBook, Zenon
  <2>3. QED
    BY <2>2, Zenon DEF RunStates
<1>6. \A t \in Sessions : active'[t] = IF ~HasLane(t) THEN active[t] ELSE a(t)
  BY <1>1
<1> HIDE DEF a, st, k
<1>7. /\ \A t \in Sessions : active'[t].d = active[t].d
      /\ \A t \in Sessions : ~HasLane(t) => active'[t] = active[t]
      /\ \A t \in Sessions : active'[t].terminal = "none" => active[t].terminal = "none"
  BY <1>3, <1>5, <1>6
<1>8. \A t \in Sessions : t # s => active'[t].run = active[t].run /\ active'[t].parked = active[t].parked
  <2>1. \A t \in Sessions : active[t].run \in BOOLEAN /\ active[t].parked \in BOOLEAN
    BY <1>2 DEF LaneRecords
  <2>2. \A t \in Sessions : t # s => a(t).run = active[t].run /\ a(t).parked = active[t].parked
    BY <1>3, <2>1
  <2>3. QED
    BY <1>6, <2>2
<1>9. active'[s].run = TRUE /\ active'[s].parked = TRUE
  BY <1>1, <1>3, <1>4, <1>6
<1>10. \E g \in futures : g.st = "start" /\ g.at = s /\ Becomes(g, Lane(g.d, "wait", s))
  BY <1>1
<1>11. \A t \in Sessions : ~HasLane(t) =>
             active'[t].terminal = active[t].terminal /\ active'[t].run = active[t].run
  BY <1>7
<1>12. UNCHANGED <<gen, tracked>> /\ UNCHANGED loop
  BY <1>1
<1> HIDE DEF s
<1>13. QED
  BY <1>1, <1>7, <1>8, <1>9, <1>10, <1>11, <1>12, LanesMarked

LEMMA LaneKeptByAttach ==
  ASSUME Typed, LaneInv, EndInv, AttachTerminal
  PROVE  LaneInv'
<1> DEFINE s == loop.m[1]
           k == loop.m[2]
           st == world[s].runs[k]
           a(t) == [active[t] EXCEPT
                      !.resolved = @ \/ (t = s /\ HasLane(t) /\ st = "ended" /\ <<s, k>> \notin read),
                      !.terminal = IF HasLane(t) /\ active[t].d.ev = k THEN st ELSE @]
<1>1. /\ loop.op = "terminal" /\ loop' = Parked /\ UNCHANGED <<gen, tracked, futures>>
      /\ active' = [t \in Sessions |-> a(t)]
  BY DEF AttachTerminal, configVars
<1>2. \A t \in Sessions : active[t] \in LaneRecords
  BY DEF Typed, LanesTyped
<1>3. \A t \in Sessions :
        /\ a(t).d = active[t].d /\ a(t).run = active[t].run /\ a(t).parked = active[t].parked
        /\ a(t).terminal = IF HasLane(t) /\ active[t].d.ev = k THEN st ELSE active[t].terminal
  BY <1>2 DEF LaneRecords
<1>4. s \in Sessions
  BY <1>1 DEF Typed, LoopTyped
<1>5. st # "none"
  <2>1. world[s].runs \in RunBooks /\ k \in DOMAIN world[s].runs
    BY <1>1, <1>4 DEF EndInv, Over, RunsOf, Typed, WorldTyped
  <2>2. st \in RunStates
    BY <2>1, RunBook
  <2>3. QED
    BY <2>2 DEF RunStates
<1>6. \A t \in Sessions : active'[t] = a(t)
  BY <1>1
<1> HIDE DEF a, st, k
<1>7. /\ \A t \in Sessions : active'[t].d = active[t].d
      /\ \A t \in Sessions : ~HasLane(t) =>
             active'[t].terminal = active[t].terminal /\ active'[t].run = active[t].run
      /\ \A t \in Sessions : active'[t].terminal = "none" => active[t].terminal = "none"
      /\ \A t \in Sessions : active'[t].run = active[t].run /\ active'[t].parked = active[t].parked
  BY <1>3, <1>5, <1>6
<1>8. loop'.op \notin {"close", "sweepClose"}
  BY <1>1 DEF Parked
<1> HIDE DEF s
<1>9. QED
  BY <1>1, <1>4, <1>7, <1>8, LanesMarked

LEMMA LaneKeptByContinue ==
  ASSUME Typed, LaneInv, ContinueAsNew
  PROVE  LaneInv'
<1>1. /\ Quiet /\ UNCHANGED <<gen, tracked, loop>>
      /\ active' = [s \in Sessions |-> [active[s] EXCEPT !.resolved = FALSE]]
      /\ futures' = {Lane(active[s].d, "wait", s) : s \in OnBooks}
  BY DEF ContinueAsNew
<1>2. UNCHANGED futures
  BY <1>1, QuietLanes
<1>3. \A t \in Sessions : active[t] \in LaneRecords
  BY DEF Typed, LanesTyped
<1>4. \A t \in Sessions :
        /\ active'[t].d = active[t].d /\ active'[t].terminal = active[t].terminal
        /\ active'[t].run = active[t].run /\ active'[t].parked = active[t].parked
  BY <1>1, <1>3 DEF LaneRecords
<1>5. MainSession \in Sessions
  BY MainTyped
<1>6. QED
  BY <1>1, <1>2, <1>4, <1>5, LanesMarked

LEMMA LaneKeptBySweep ==
  ASSUME Typed, LaneInv, NEW s \in Sessions, SweepFailsLane(s)
  PROVE  LaneInv'
<1>1. UNCHANGED <<gen, tracked, futures>> /\ loop.op = "sweep"
  BY DEF SweepFailsLane, configVars
<1>2. CASE HasLane(s) /\ active[s].run /\ active[s].terminal = "none"
  <2>1. /\ active' = [active EXCEPT ![s].terminal = "dead"]
        /\ loop' = [op |-> "sweepClose", s |-> s, dead |-> loop.dead \ {s}]
    BY <1>2 DEF SweepFailsLane
  <2>2. \A t \in Sessions : active[t] \in LaneRecords /\ active \in [Sessions -> LaneRecords]
    BY DEF Typed, LanesTyped
  <2>3. /\ \A t \in Sessions :
             /\ active'[t].d = active[t].d
             /\ active'[t].run = active[t].run /\ active'[t].parked = active[t].parked
             /\ t # s => active'[t].terminal = active[t].terminal
        /\ active'[s].terminal = "dead"
    BY <2>1, <2>2 DEF LaneRecords
  <2>4. /\ \A t \in Sessions : HasLane(t)' = HasLane(t)
        /\ \A t \in Sessions : active'[t].terminal = "none" => active[t].terminal = "none"
    BY <2>3 DEF HasLane
  <2>5. (\A f \in futures : Fits(f))'
    <3>1. \A f \in futures : f.at \in Sessions
      BY LaneMoves
    <3>2. QED
      BY <1>1, <2>4, <3>1, FitsStay
  <2>6. Books'
    <3>1. \A f \in futures : f.at \in Sessions
      BY LaneMoves
    <3>2. \A f \in futures' :
         /\ active'[f.at].d = f.d
         /\ active'[f.at].run = (f.st = "wait") /\ active'[f.at].parked = (f.st = "wait")
      BY <1>1, <2>3, <3>1 DEF LaneInv, Books
    <3>3. \A t \in Sessions : ~HasLane(t)' => active'[t].terminal = "none" /\ ~active'[t].run
      BY <1>2, <2>3, <2>4 DEF LaneInv, Books
    <3>4. QED
      BY <1>1, <2>4, <3>2, <3>3 DEF LaneInv, Books
  <2>7. s[1] = Main \/ s \in tracked
    <3>1. PICK f \in futures : f.at = s
      BY <1>2 DEF LaneInv, Books
    <3>2. active[s].run = (f.st = "wait") /\ Fits(f)
      BY <3>1 DEF LaneInv, Books
    <3>3. f.st = "wait"
      BY <1>2, <3>2
    <3>4. QED
      BY <1>2, <3>1, <3>2, <3>3 DEF Fits
  <2>8. Current'
    <3>1. loop'.op = "sweepClose" /\ loop'.s = s
      BY <2>1
    <3>2. active'[s].run /\ active'[s].terminal # "none"
      BY <1>2, <2>3
    <3>3. QED
      BY <1>1, <2>7, <3>1, <3>2 DEF LaneInv, Current
  <2>9. QED
    BY <1>1, <2>5, <2>6, <2>8 DEF LaneInv, Alone
<1>3. CASE ~(HasLane(s) /\ active[s].run /\ active[s].terminal = "none")
  <2>1. UNCHANGED active /\ loop' \in {[op |-> "park"], [op |-> "sweep", dead |-> loop.dead \ {s}]}
    BY <1>3 DEF SweepFailsLane, Parked
  <2>2. loop'.op \notin {"close", "sweepClose"}
    BY <2>1
  <2>3. QED
    BY <1>1, <2>1, <2>2, LanesUndisturbed
<1>4. QED
  BY <1>2, <1>3

LEMMA LaneKeptByDispatch ==
  ASSUME Typed, LaneInv, NEW i \in DOMAIN pending, DispatchLane(i), ~Overtakes(i)
  PROVE  LaneInv'
<1>1. PICK d : d = pending[i]
  OBVIOUS
<1>2. PICK s : s = TargetOf(d)
  OBVIOUS
<1> DEFINE g == Lane(d, FirstStep(d), s)
<1>3. /\ loop.op = "park" /\ ~HasLane(s) /\ UNCHANGED <<gen, tracked, loop>>
      /\ active' = [active EXCEPT ![s] = FreshLane(d)] /\ futures' = futures \cup {g}
  BY <1>1, <1>2 DEF DispatchLane, configVars, restVars
<1>4. /\ d \in Deliveries /\ d.ev # {} /\ s \in Sessions /\ BaseOf(d) \in Bases
      /\ s = <<BaseOf(d), gen[BaseOf(d)]>> /\ s[1] = BaseOf(d) /\ s[2] = gen[BaseOf(d)]
      /\ gen[BaseOf(d)] \in Nat
  BY <1>1, <1>2, TakenTyped DEF TargetOf, Typed, ConfigTyped
<1>5. /\ g.d = d /\ g.at = s /\ g.next = s
      /\ g.st = FirstStep(d) /\ g.st \in {"ensure", "append", "status"}
      /\ g.st = "ensure" <=> BaseOf(d) # Main
      /\ g.st = "status" => BusyMode(d) # "append"
  BY DEF Lane, FirstStep
<1> HIDE DEF g
<1>6. active \in [Sessions -> LaneRecords]
  BY DEF Typed, LanesTyped
<1>7. \A t \in Sessions : active'[t] = IF t = s THEN FreshLane(d) ELSE active[t]
  BY <1>3, <1>6
<1>8. /\ FreshLane(d).d = d /\ FreshLane(d).terminal = "none"
      /\ FreshLane(d).run = FALSE /\ FreshLane(d).parked = FALSE
  BY DEF FreshLane
<1>9. ASSUME NEW h \in futures
      PROVE  /\ h.at \in Sessions /\ h.next \in Sessions /\ Fits(h) /\ h.at # s
             /\ active'[h.at] = active[h.at] /\ (Moving(h) => h.at[1] # s[1])
             /\ h.next[1] = h.at[1]
  <2>1. h.at \in Sessions /\ h.next \in Sessions /\ Fits(h) /\ h.d.ev # {}
    BY LaneMoves DEF LaneInv
  <2>2. HasLane(h.at)
    BY <2>1 DEF LaneInv, Books, HasLane
  <2>3. Moving(h) => h.at[1] # s[1]
    BY <1>1, <1>4 DEF Overtakes
  <2>4. QED
    BY <1>3, <1>7, <2>1, <2>2, <2>3 DEF Fits
<1>10. Fits(g)'
  BY <1>3, <1>4, <1>5 DEF Fits, Moving
<1>11. ASSUME NEW h \in futures PROVE Fits(h)'
  <2>1. Moving(h) => h.next # s
    BY <1>9
  <2>2. Moving(h) => h.next \notin tracked' /\ ~HasLane(h.next)'
    BY <1>3, <1>7, <1>9, <2>1 DEF Fits, HasLane
  <2>3. h.at[1] \notin PerEvent => h.at[2] <= gen'[h.at[1]] /\ h.next[2] <= gen'[h.at[1]]
    BY <1>3, <1>9 DEF Fits
  <2>4. QED
    BY <1>3, <1>9, <2>2, <2>3, FitsKept
<1>12. Books'
  <2>1. ASSUME NEW h \in futures
        PROVE  /\ active'[h.at].d = h.d
               /\ active'[h.at].run = (h.st = "wait") /\ active'[h.at].parked = (h.st = "wait")
    BY <1>9 DEF LaneInv, Books
  <2>2. /\ active'[g.at].d = g.d
        /\ active'[g.at].run = (g.st = "wait") /\ active'[g.at].parked = (g.st = "wait")
    <3>1. active'[s] = FreshLane(d) /\ g.st # "wait"
      BY <1>4, <1>5, <1>7
    <3>2. QED
      BY <1>5, <1>8, <3>1
  <2>3. \A t \in Sessions : HasLane(t)' => \E h \in futures' : h.at = t
    BY <1>3, <1>5, <1>7 DEF LaneInv, Books, HasLane
  <2>4. \A t \in Sessions : ~HasLane(t)' => active'[t].terminal = "none" /\ ~active'[t].run
    BY <1>7, <1>8 DEF LaneInv, Books, HasLane
  <2>5. \A h, k \in futures' : h.at = k.at => h = k
    BY <1>3, <1>5, <1>9 DEF LaneInv, Books
  <2>6. QED
    BY <1>3, <2>1, <2>2, <2>3, <2>4, <2>5 DEF Books
<1>13. Alone'
  <2>1. ASSUME NEW h \in futures, h.at[1] = s[1], s[1] # Main, h.st # "wait" PROVE FALSE
    <3>1. ~Moving(h) /\ h.next[2] = gen[s[1]] /\ h.at = h.next
      BY <1>9, <2>1 DEF Fits, Moving
    <3>2. h.at = s
      BY <1>4, <1>9, <2>1, <3>1, SessionParts
    <3>3. QED
      BY <1>9, <3>2
  <2>2. QED
    BY <1>3, <1>5, <2>1 DEF LaneInv, Alone
<1>14. Current'
  BY <1>3 DEF LaneInv, Current
<1>15. QED
  BY <1>3, <1>10, <1>11, <1>12, <1>13, <1>14 DEF LaneInv

\* The loop leaves a session behind: the one it closed, or the main one.
LEMMA LoopRolls ==
  ASSUME Typed, LaneInv, NEW s \in Sessions, Rolls(s), UNCHANGED <<active, futures>>,
         s[1] = Main \/ s \in tracked,
         HasLane(s) /\ s[1] # Main => active[s].run /\ active[s].terminal # "none",
         loop'.op \notin {"close", "sweepClose"}
  PROVE  LaneInv'
<1>1. s[1] # Main => s[2] = gen[s[1]]
  BY DEF LaneInv, Current
<1>2. ASSUME NEW f \in futures, f.at[1] = s[1], s[1] # Main
      PROVE  f.st = "wait" /\ active[f.at].terminal # "none"
  <2>1. SUFFICES ASSUME ~(f.st = "wait" /\ active[f.at].terminal # "none") PROVE FALSE
    OBVIOUS
  <2>2. f.at = s
    BY <1>2, <2>1, LaneOfTracked
  <2>3. HasLane(s) /\ active[s].run = (f.st = "wait")
    BY <2>2, LaneMoves DEF LaneInv, Books, HasLane
  <2>4. QED
    BY <1>2, <2>1, <2>2, <2>3
<1>3. \A t \in Sessions : HasLane(t)' => HasLane(t)
  BY DEF HasLane
<1>4. /\ (\A f \in futures : Fits(f))'
      /\ \A t \in tracked' : t[1] # Main /\ t[2] = gen'[t[1]]
  BY <1>1, <1>2, <1>3, MovesOn
<1>5. Current'
  BY <1>4 DEF Current
<1>6. Books' /\ Alone'
  BY DEF LaneInv, Books, Alone, HasLane
<1>7. QED
  BY <1>4, <1>5, <1>6 DEF LaneInv

LEMMA LaneKeptByCloses ==
  ASSUME Typed, LaneInv, SweepCloses \/ IdleClosed \/ ReconcileStep
  PROVE  LaneInv'
<1>1. loop'.op \notin {"close", "sweepClose"} /\ UNCHANGED <<active, futures>>
  <2>1. CASE SweepCloses \/ IdleClosed
    <3>1. loop' \in {[op |-> "park"], [op |-> "sweep", dead |-> loop.dead]}
      BY <2>1 DEF SweepCloses, IdleClosed, Parked
    <3>2. UNCHANGED <<active, futures>>
      BY <2>1 DEF SweepCloses, IdleClosed, laneVars
    <3>3. QED
      BY <3>1, <3>2
  <2>2. CASE ReconcileStep
    BY <2>2, ReconcileDoes, ReconcileLoop
  <2>3. QED
    BY <2>1, <2>2
<1>2. CASE UNCHANGED <<gen, tracked>>
  BY <1>1, <1>2, LanesUndisturbed
<1>3. CASE SweepCloses /\ ~UNCHANGED <<gen, tracked>>
  <2>1. loop.op = "sweepClose" /\ RollForward(loop.s)
    BY <1>3 DEF SweepCloses, configVars
  <2>a. Advance(loop.s)
    BY <2>1 DEF RollForward
  <2>2. /\ loop.s \in Sessions /\ (loop.s[1] = Main \/ loop.s \in tracked)
        /\ HasLane(loop.s) => active[loop.s].run /\ active[loop.s].terminal # "none"
    BY <2>1 DEF Typed, LoopTyped, LaneInv, Current
  <2>3. Rolls(loop.s)
    BY <2>a, <2>2, AdvanceRolls
  <2>4. QED
    BY <1>1, <2>2, <2>3, LoopRolls
<1>4. CASE IdleClosed /\ ~UNCHANGED <<gen, tracked>>
  <2>1. /\ loop.op = "close"
        /\ \/ /\ gen[loop.s[1]] < MaxGen
              /\ gen' = [gen EXCEPT ![loop.s[1]] = gen[loop.s[1]] + 1]
           \/ loop.s[1] \in PerEvent /\ gen' = [gen EXCEPT ![loop.s[1]] = 1]
        /\ tracked' = tracked \ {loop.s}
    BY <1>4 DEF IdleClosed, configVars
  <2>2. /\ loop.s \in Sessions /\ (loop.s[1] = Main \/ loop.s \in tracked) /\ ~HasLane(loop.s)
    BY <2>1 DEF Typed, LoopTyped, LaneInv, Current
  <2>3. gen \in [Bases -> 1..MaxGen] /\ loop.s[1] \in Bases /\ MaxGen \in Nat
    BY <2>2, SessionParts, BotAssumption DEF Typed, ConfigTyped
  <2>4. Rolls(loop.s)
    BY <2>1, <2>3, BotAssumption DEF Rolls, BotAssumption
  <2>5. QED
    BY <1>1, <2>2, <2>4, LoopRolls
<1>5. CASE ReconcileStep /\ ~UNCHANGED <<gen, tracked>>
  <2>1. MainSession \in Sessions /\ MainSession[1] = Main
    BY MainTyped DEF MainSession
  <2>2. Rolls(MainSession)
    <3>1. CASE Advance(MainSession)
      BY <2>1, <3>1, AdvanceRolls
    <3>2. CASE gen[Main] < MaxGen /\ gen' = [gen EXCEPT ![Main] = gen[Main] + 1] /\ tracked' = tracked
      <4>1. MainSession \notin tracked
        BY <2>1 DEF LaneInv, Current
      <4>2. gen \in [Bases -> 1..MaxGen] /\ Main \in Bases /\ MaxGen \in Nat
        BY MainTyped, BotAssumption DEF Typed, ConfigTyped
      <4>3. QED
        BY <2>1, <3>2, <4>1, <4>2 DEF Rolls
    <3>3. QED
      BY <1>5, <3>1, <3>2, ReconcileDoes
  <2>3. QED
    BY <1>1, <2>1, <2>2, LoopRolls
<1>6. QED
  BY <1>2, <1>3, <1>4, <1>5

LEMMA LaneKeptByIdle ==
  ASSUME Typed, LaneInv, NEW s \in Sessions, NEW why, CloseIdle(s, why)
  PROVE  LaneInv'
<1>1. /\ UNCHANGED <<active, futures, gen, tracked>> /\ ~HasLane(s)
      /\ s \in tracked \cup {MainSession}
      /\ loop' = [op |-> "close", s |-> s, why |-> why]
  BY DEF CloseIdle, laneVars, configVars, SessionBusy
<1>2. s[1] = Main \/ s \in tracked
  BY <1>1 DEF MainSession
<1>3. loop'.op = "close" /\ loop'.s = s
  BY <1>1
<1>4. Current'
  BY <1>1, <1>2, <1>3 DEF LaneInv, Current, HasLane
<1>5. (\A f \in futures : Fits(f))'
  BY <1>1 DEF LaneInv, Fits, Moving, HasLane
<1>6. QED
  BY <1>1, <1>4, <1>5 DEF LaneInv, Books, Alone, HasLane

LEMMA LanesKeptByLanes ==
  ASSUME Typed, LaneInv, NEW f \in futures, LaneStep(f), NoneOvertakes
  PROVE  LaneInv'
<1>1. CASE LaneFails(f)
  BY <1>1, LaneOffBooks DEF LaneFails, Finish, configVars
<1>2. CASE LaneAppends(f)
  <2>1. UNCHANGED <<gen, tracked, loop>> /\ f.st = "append"
    BY <1>2 DEF LaneAppends, configVars, restVars
  <2>2. CASE Finish(f, "appended")
    BY <2>1, <2>2, LaneOffBooks DEF Finish
  <2>3. CASE Goes(f, "leave")
    BY <2>1, <2>3, LaneGoes
  <2>4. QED
    BY <1>2, <2>2, <2>3 DEF LaneAppends
<1>3. CASE LaneReadsStatus(f)
  <2>1. UNCHANGED <<gen, tracked, loop>> /\ f.st = "status"
    BY <1>3 DEF LaneReadsStatus, configVars, restVars
  <2>2. CASE Goes(f, "leave") \/ Goes(f, "start")
    BY <2>1, <2>2, LaneGoes
  <2>3. CASE active' = [active EXCEPT ![f.at] = NoLane] /\ futures' = futures \ {f}
    BY <2>1, <2>3, LaneOffBooks
  <2>4. QED
    BY <1>3, <2>2, <2>3 DEF LaneReadsStatus, Requeue, Finish
<1>4. CASE LaneStartUnclear(f)
  BY <1>4, LaneOffBooks DEF LaneStartUnclear, Finish, Requeue, configVars
<1>5. CASE LaneStartRefused(f)
  BY <1>5, LaneOffBooks DEF LaneStartRefused, Finish, configVars
<1>6. CASE LaneStartDead(f)
  BY <1>6, LaneGoes DEF LaneStartDead, configVars, restVars
<1>7. CASE LaneLeaves(f)
  <2>1. UNCHANGED loop /\ f.st = "leave"
        /\ active' = [active EXCEPT ![f.at] = NoLane] /\ futures' = futures \ {f}
    BY <1>7 DEF LaneLeaves, Requeue, Finish
  <2>2. CASE RollForward(f.at)
    BY <2>1, <2>2, LaneOffRolls
  <2>3. CASE UNCHANGED <<gen, tracked>>
    BY <2>1, <2>3, LaneOffBooks
  <2>4. QED
    BY <1>7, <2>2, <2>3 DEF LaneLeaves, configVars
<1>8. CASE LaneEnds(f)
  BY <1>8, LaneOffBooks DEF LaneEnds, Finish, configVars, restVars
<1>9. QED
  BY <1>1, <1>2, <1>3, <1>4, <1>5, <1>6, <1>7, <1>8,
     LaneKeptByEnsure, LaneKeptByMismatch, LaneKeptByStart
  DEF LaneStep, NoneOvertakes

LEMMA LanesKeptByLoop ==
  ASSUME Typed, LaneInv, EndInv, LoopStep, NoneOvertakes
  PROVE  LaneInv'
<1>1. CASE \E i \in DOMAIN pending : DispatchLane(i) \/ DispatchSidecar(i)
  <2>1. PICK i \in DOMAIN pending : DispatchLane(i) \/ DispatchSidecar(i)
    BY <1>1
  <2>2. CASE DispatchLane(i)
    BY <2>2, LaneKeptByDispatch DEF NoneOvertakes
  <2>3. CASE DispatchSidecar(i)
    BY <2>3, LanesUndisturbed DEF DispatchSidecar, configVars, restVars
  <2>4. QED
    BY <2>1, <2>2, <2>3
<1>2. CASE \E m \in inbox : TakeTerminal(m)
  <2>1. PICK m \in inbox : TakeTerminal(m)
    BY <1>2
  <2>2. UNCHANGED <<active, futures, gen, tracked>> /\ loop' \in {[op |-> "terminal", m |-> m], loop}
    BY <2>1 DEF TakeTerminal, laneVars, configVars
  <2>3. UNCHANGED loop \/ loop'.op \notin {"close", "sweepClose"}
    BY <2>2
  <2>4. QED
    BY <2>2, <2>3, LanesUndisturbed
<1>3. CASE FlushBuffer \/ \E s \in Sessions : DropRotation(s)
  BY <1>3, LanesUndisturbed DEF FlushBuffer, DropRotation, laneVars, configVars, restVars
<1>4. CASE SweepReads \/ ReconcileBegins \/ TeardownBegins \/ TeardownArchives
  <2>1. UNCHANGED <<active, futures, gen, tracked>>
    BY <1>4
    DEF SweepReads, ReconcileBegins, TeardownBegins, TeardownArchives, laneVars, configVars
  <2>2. loop'.op \in {"sweep", "park", "status", "ensure", "roll", "archive", "closeAll"}
    <3>1. CASE SweepReads \/ ReconcileBegins \/ TeardownArchives
      BY <3>1, ReconcileLoop DEF SweepReads, TeardownArchives
    <3>2. CASE TeardownBegins
      <4>1. \/ loop' = [op |-> "closeAll", known |-> accepted \ UNION {sidecar[s].d.ev : s \in Sessions}]
            \/ loop' = [op |-> "archive", ids |-> TeardownIds,
                        known |-> accepted \ UNION {sidecar[s].d.ev : s \in Sessions}]
        BY <3>2 DEF TeardownBegins
      <4>2. QED
        BY <4>1
    <3>3. QED
      BY <1>4, <3>1, <3>2
  <2>3. QED
    BY <2>1, <2>2, LanesUndisturbed
<1>5. CASE TeardownEnds
  <2>1. /\ active' = [s \in Sessions |-> NoLane] /\ futures' = {} /\ UNCHANGED <<gen, tracked>>
        /\ loop' = [op |-> "done", known |-> loop.known]
    BY <1>5 DEF TeardownEnds, configVars
  <2>2. NoLane.d.ev = {} /\ NoLane.terminal = "none" /\ ~NoLane.run
    BY DEF NoLane, FreshLane
  <2>3. Books' /\ Alone'
    BY <2>1, <2>2 DEF Books, Alone, HasLane
  <2>4. Current'
    <3>1. loop'.op = "done"
      BY <2>1
    <3>2. QED
      BY <2>1, <3>1 DEF LaneInv, Current
  <2>5. QED
    BY <2>1, <2>3, <2>4 DEF LaneInv
<1>6. CASE \E s \in Sessions, why \in {"rotate", "idle"} : CloseIdle(s, why)
  BY <1>6, LaneKeptByIdle
<1>7. CASE \E s \in Sessions : SweepFailsLane(s)
  BY <1>7, LaneKeptBySweep
<1>8. QED
  BY <1>1, <1>2, <1>3, <1>4, <1>5, <1>6, <1>7, LaneKeptByAttach, LaneKeptByContinue,
     LaneKeptByCloses
  DEF LoopStep

LEMMA LanesKept ==
  ASSUME Typed, LaneInv, EndInv, [Next]_vars, [NoneOvertakes]_vars
  PROVE  LaneInv'
<1>1. CASE UNCHANGED vars
  BY <1>1, LanesUndisturbed DEF vars, laneVars, configVars, restVars
<1>2. CASE SessionStep
  BY <1>2, LanesUndisturbed
  DEF SessionStep, ForeignWork, SessionDies, StartLands, RunEnds, RepeatTerminal,
      laneVars, configVars, restVars
<1>3. CASE SignalStep
  BY <1>3, LanesUndisturbed
  DEF SignalStep, AcceptEvent, AcceptConfig, CloseBot, NewDay, RequestRotation, PauseEnds,
      laneVars, configVars, restVars
<1>4. CASE (\E s \in Sessions : SidecarEnds(s)) \/ (\E x \in settling : Settle(x))
  BY <1>4, LanesUndisturbed DEF SidecarEnds, Settle, configVars
<1>5. CASE (LoopStep \/ \E f \in futures : LaneStep(f)) /\ ~UNCHANGED vars
  <2>1. NoneOvertakes
    BY <1>5
  <2>2. QED
    BY <1>5, <2>1, LanesKeptByLoop, LanesKeptByLanes
<1>6. QED
  BY <1>1, <1>2, <1>3, <1>4, <1>5 DEF Next

-----------------------------------------------------------------------------
(* Whose end a lane is given.                                              *)

\* A run that is over stays as it is, and a new one was sent before.
RunsGoOn ==
    \A s \in Sessions :
        /\ \A k \in RunsOf(s) : k \in RunsOf(s)'
        /\ \A k \in RunsOf(s) : world[s].runs[k] # "going" => world'[s].runs[k] = world[s].runs[k]
        /\ \A k \in RunsOf(s)' : k \in RunsOf(s) \/ <<s, k>> \in abroad
        /\ world'[s].st = "none" => world[s].st = "none" /\ RunsOf(s)' = RunsOf(s)
        /\ Gone(s) => Gone(s)'

LEMMA RunsAsBefore ==
  ASSUME \A s \in Sessions : /\ world'[s].runs = world[s].runs
                             /\ world'[s].st = "none" => world[s].st = "none"
                             /\ Gone(s) => Gone(s)'
  PROVE  RunsGoOn
BY DEF RunsGoOn, RunsOf

LEMMA RunsClosed ==
  ASSUME Typed, NEW s \in Sessions
  PROVE  /\ DOMAIN ClosedSession(s).runs = RunsOf(s)
         /\ \A k \in RunsOf(s) : world[s].runs[k] # "going" =>
               ClosedSession(s).runs[k] = world[s].runs[k]
         /\ ClosedSession(s).st = IF world[s].st = "none" THEN "none" ELSE "closed"
         /\ world[s].st # "none" => \A k \in Going(s) : ClosedSession(s).runs[k] = "cancelled"
<1>1. CASE world[s].st = "none"
  BY <1>1 DEF ClosedSession, RunsOf
<1>2. CASE world[s].st # "none"
  <2>1. ClosedSession(s).runs = [k \in RunsOf(s) |->
                      IF k \in Going(s) THEN "cancelled" ELSE world[s].runs[k]]
        /\ ClosedSession(s).st = "closed"
    BY <1>2 DEF ClosedSession
  <2>2. QED
    BY <1>2, <2>1 DEF Going
<1>3. QED
  BY <1>1, <1>2

LEMMA ClosedGoesOn ==
  ASSUME Typed, \A s \in Sessions : world'[s] = world[s] \/ world'[s] = ClosedSession(s)
  PROVE  RunsGoOn
<1>1. SUFFICES ASSUME NEW s \in Sessions
               PROVE  /\ \A k \in RunsOf(s) : k \in RunsOf(s)'
                      /\ \A k \in RunsOf(s) : world[s].runs[k] # "going" =>
                            world'[s].runs[k] = world[s].runs[k]
                      /\ \A k \in RunsOf(s)' : k \in RunsOf(s) \/ <<s, k>> \in abroad
                      /\ world'[s].st = "none" => world[s].st = "none" /\ RunsOf(s)' = RunsOf(s)
                      /\ Gone(s) => Gone(s)'
  BY DEF RunsGoOn
<1>2. CASE world'[s] = world[s]
  BY <1>2 DEF RunsOf, Gone
<1>3. CASE world'[s] = ClosedSession(s)
  BY <1>3, RunsClosed DEF RunsOf, Gone
<1>4. QED
  BY <1>2, <1>3

\* A close leaves every run of the session over, and says so.
LEMMA CloseTells ==
  ASSUME Typed, EndInv, NEW s \in Sessions, CloseWorld(s)
  PROVE  RunsGoOn /\ \A m \in inbox' : m \in inbox \/ Over(m)'
<1>1. world \in [Sessions -> [st : {"none", "open", "failed", "closed"}, foreign : BOOLEAN, runs : RunBooks]]
  BY DEF Typed, WorldTyped
<1>2. \A t \in Sessions : world'[t] = IF t = s THEN ClosedSession(s) ELSE world[t]
  BY <1>1 DEF CloseWorld
<1>3. RunsGoOn
  BY <1>2, ClosedGoesOn
<1>4. ASSUME NEW k \in Going(s) PROVE Over(<<s, k>>)'
  <2>1. k \in RunsOf(s) /\ world[s].st # "none"
    BY <1>4 DEF Going, EndInv
  <2>2. world'[s].runs[k] = "cancelled" /\ k \in DOMAIN world'[s].runs
    BY <1>2, <2>1, RunsClosed
  <2>3. QED
    BY <2>2 DEF Over, RunsOf
<1>5. \A m \in inbox' : m \in inbox \/ \E k \in Going(s) : m = <<s, k>>
  BY DEF CloseWorld
<1>6. QED
  BY <1>3, <1>4, <1>5

LEMMA RunAdded ==
  ASSUME Typed, NEW s \in Sessions, NEW k, NEW st, Open(s), world' = WithRun(s, k, st),
         k \in Going(s) \/ (k \notin RunsOf(s) /\ <<s, k>> \in abroad)
  PROVE  RunsGoOn /\ k \in RunsOf(s)' /\ world'[s].runs[k] = st
<1> DEFINE q == [j \in DOMAIN world[s].runs \cup {k} |-> IF j = k THEN st ELSE world[s].runs[j]]
<1>1. world' = [world EXCEPT ![s].runs = q]
  BY DEF WithRun
<1>2. world \in [Sessions -> [st : {"none", "open", "failed", "closed"}, foreign : BOOLEAN, runs : RunBooks]]
  BY DEF Typed, WorldTyped
<1>3. /\ DOMAIN q = RunsOf(s) \cup {k} /\ q[k] = st
      /\ \A j \in RunsOf(s) : j # k => q[j] = world[s].runs[j]
  BY DEF RunsOf
<1> HIDE DEF q
<1>4. /\ world'[s].runs = q /\ world'[s].st = world[s].st
      /\ \A t \in Sessions : t # s => world'[t] = world[t]
  BY <1>1, <1>2
<1>5. ASSUME NEW t \in Sessions
      PROVE  /\ \A j \in RunsOf(t) : j \in RunsOf(t)'
             /\ \A j \in RunsOf(t) : world[t].runs[j] # "going" =>
                   world'[t].runs[j] = world[t].runs[j]
             /\ \A j \in RunsOf(t)' : j \in RunsOf(t) \/ <<t, j>> \in abroad
             /\ world'[t].st = "none" => world[t].st = "none" /\ RunsOf(t)' = RunsOf(t)
             /\ Gone(t) => Gone(t)'
  <2>1. CASE t # s
    BY <1>4, <2>1 DEF RunsOf, Gone
  <2>2. CASE t = s
    <3>1. RunsOf(s)' = RunsOf(s) \cup {k}
      BY <1>3, <1>4 DEF RunsOf
    <3>2. world'[s].st # "none"
      BY <1>4 DEF Open
    <3>3. \A j \in RunsOf(s) : world[s].runs[j] # "going" => world'[s].runs[j] = world[s].runs[j]
      BY <1>3, <1>4 DEF Going
    <3>4. \A j \in RunsOf(s)' : j \in RunsOf(s) \/ <<s, j>> \in abroad
      BY <3>1 DEF Going
    <3>a. Gone(s) => Gone(s)'
      BY <1>4 DEF Gone
    <3>5. QED
      BY <2>2, <3>1, <3>2, <3>3, <3>4, <3>a
  <2>3. QED
    BY <2>1, <2>2
<1>6. k \in RunsOf(s)' /\ world'[s].runs[k] = st
  BY <1>3, <1>4 DEF RunsOf
<1>7. QED
  BY <1>5, <1>6 DEF RunsGoOn

LEMMA SessionOpened ==
  ASSUME Typed, NEW s \in Sessions, world' = [world EXCEPT ![s].st = "open"], ~Gone(s)
  PROVE  RunsGoOn
<1>1. world \in [Sessions -> [st : {"none", "open", "failed", "closed"}, foreign : BOOLEAN, runs : RunBooks]]
  BY DEF Typed, WorldTyped
<1>2. \A t \in Sessions : world'[t].runs = world[t].runs
                          /\ (world'[t].st = "none" => world[t].st = "none")
                          /\ (Gone(t) => Gone(t)')
  BY <1>1 DEF Gone
<1>3. QED
  BY <1>2, RunsAsBefore

LEMMA RunsKeptBySessions ==
  ASSUME Typed, EndInv, SessionStep
  PROVE  RunsGoOn /\ \A m \in inbox' : m \in inbox \/ Over(m)'
<1>0. world \in [Sessions -> [st : {"none", "open", "failed", "closed"}, foreign : BOOLEAN, runs : RunBooks]]
  BY DEF Typed, WorldTyped
<1>1. ASSUME NEW s \in Sessions, ForeignWork(s) \/ SessionDies(s)
      PROVE  RunsGoOn /\ inbox' = inbox
  <2>1. CASE ForeignWork(s)
    <3>1. world' = [world EXCEPT ![s].foreign = ~world[s].foreign] /\ inbox' = inbox
      BY <2>1 DEF ForeignWork, mailVars
    <3>2. \A t \in Sessions : world'[t].runs = world[t].runs /\ world'[t].st = world[t].st
      BY <1>0, <3>1
    <3>3. QED
      BY <3>1, <3>2, RunsAsBefore DEF Gone
  <2>2. CASE SessionDies(s)
    <3>1. world' = [world EXCEPT ![s] = [world[s] EXCEPT !.st = "failed", !.foreign = FALSE]]
          /\ inbox' = inbox
      BY <2>2 DEF SessionDies, mailVars
    <3>2. \A t \in Sessions : world'[t].runs = world[t].runs
                              /\ (world'[t].st = "none" => world[t].st = "none")
                              /\ (Gone(t) => Gone(t)')
      BY <1>0, <3>1 DEF Gone
    <3>3. QED
      BY <3>1, <3>2, RunsAsBefore
  <2>3. QED
    BY <1>1, <2>1, <2>2
<1>2. ASSUME NEW s \in Sessions, NEW k \in SUBSET Events, StartLands(s, k)
      PROVE  RunsGoOn /\ inbox' = inbox
  <2>1. CASE k \in RunsOf(s)
    BY <1>2, <2>1, RunsAsBefore DEF StartLands, mailVars, Gone
  <2>2. CASE k \notin RunsOf(s)
    BY <1>2, <2>2, RunAdded DEF StartLands, mailVars
  <2>3. QED
    BY <2>1, <2>2
<1>3. ASSUME NEW s \in Sessions, NEW k \in SUBSET Events, RunEnds(s, k)
      PROVE  RunsGoOn /\ \A m \in inbox' : m \in inbox \/ Over(m)'
  <2>1. /\ Open(s) /\ k \in Going(s) /\ world' = WithRun(s, k, "ended")
        /\ inbox' = inbox \cup {<<s, k>>}
    BY <1>3 DEF RunEnds
  <2>2. RunsGoOn /\ k \in RunsOf(s)' /\ world'[s].runs[k] = "ended"
    BY <2>1, RunAdded
  <2>3. Over(<<s, k>>)'
    BY <2>2 DEF Over, RunsOf
  <2>4. QED
    BY <2>1, <2>2, <2>3
<1>4. ASSUME NEW s \in Sessions, NEW k \in SUBSET Events, RepeatTerminal(s, k)
      PROVE  RunsGoOn /\ \A m \in inbox' : m \in inbox \/ Over(m)'
  <2>1. /\ k \in RunsOf(s) /\ world[s].runs[k] # "going" /\ world' = world
        /\ inbox' = inbox \cup {<<s, k>>}
    BY <1>4 DEF RepeatTerminal, sessionVars
  <2>2. Over(<<s, k>>)'
    BY <2>1 DEF Over, RunsOf
  <2>3. QED
    BY <2>1, <2>2, RunsAsBefore DEF Gone
<1>5. QED
  BY <1>1, <1>2, <1>3, <1>4 DEF SessionStep

LEMMA RunsKept ==
  ASSUME Typed, EndInv, [Next]_vars
  PROVE  RunsGoOn /\ \A m \in inbox' : m \in inbox \/ Over(m)'
<1>1. ASSUME UNCHANGED world, inbox' \subseteq inbox
      PROVE  RunsGoOn /\ \A m \in inbox' : m \in inbox \/ Over(m)'
  BY <1>1, RunsAsBefore DEF Gone
<1>2. CASE UNCHANGED vars
  BY <1>1, <1>2 DEF vars, sessionVars, mailVars
<1>3. CASE SignalStep
  BY <1>1, <1>3
  DEF SignalStep, AcceptEvent, AcceptConfig, CloseBot, NewDay, RequestRotation, PauseEnds,
      sessionVars, mailVars
<1>4. CASE (\E s \in Sessions : SidecarEnds(s)) \/ (\E x \in settling : Settle(x))
  BY <1>1, <1>4 DEF SidecarEnds, Settle, sessionVars, mailVars
<1>5. ASSUME NEW f \in futures, LaneStep(f)
      PROVE  RunsGoOn /\ \A m \in inbox' : m \in inbox \/ Over(m)'
  <2>1. f.at \in Sessions /\ f.next \in Sessions
    BY LaneMoves
  <2>2. CASE LaneEnsures(f) \/ LaneFails(f)
    <3>1. inbox' = inbox
      BY <2>2 DEF LaneEnsures, LaneFails, mailVars
    <3>2. UNCHANGED world \/ (world' = [world EXCEPT ![f.next].st = "open"] /\ ~Gone(f.next))
      BY <2>2 DEF LaneEnsures, LaneFails, Gone
    <3>3. QED
      BY <1>1, <2>1, <3>1, <3>2, SessionOpened
  <2>3. CASE LaneMismatch(f) \/ LaneAppends(f) \/ LaneStarted(f) \/ LaneStartUnclear(f)
             \/ LaneStartDead(f) \/ LaneEnds(f) \/ LaneReadsStatus(f) \/ LaneStartRefused(f)
    <3>1. UNCHANGED <<world, inbox>>
      BY <2>3
      DEF LaneMismatch, LaneAppends, LaneStarted, LaneStartUnclear, LaneStartDead, LaneEnds,
          LaneReadsStatus, LaneStartRefused, sessionVars, mailVars
    <3>2. QED
      BY <1>1, <3>1, Zenon
  <2>4. CASE LaneLeaves(f)
    BY <1>1, <2>1, <2>4, CloseTells DEF LaneLeaves
  <2>5. QED
    BY <1>5, <2>2, <2>3, <2>4 DEF LaneStep
<1>6. CASE LoopStep
  <2>1. CASE SweepCloses
    BY <1>1, <2>1, CloseTells DEF SweepCloses, Typed, LoopTyped
  <2>2. CASE IdleClosed
    BY <1>1, <2>2, CloseTells DEF IdleClosed, Typed, LoopTyped
  <2>3. CASE ReconcileStep
    <3>1. MainSession \in Sessions
      BY MainTyped
    <3>2. \/ UNCHANGED <<world, inbox>> \/ CloseWorld(MainSession)
          \/ /\ world' = [world EXCEPT ![MainSession].st = "open"] /\ inbox' = inbox
             /\ ~Gone(MainSession)
      BY <2>3, ReconcileDoes DEF Startable, Opened, Gone
    <3>3. QED
      BY <1>1, <3>1, <3>2, CloseTells, SessionOpened
  <2>4. CASE TeardownEnds
    <3>1. world' = [s \in Sessions |-> ClosedSession(s)] /\ inbox' = inbox
      BY <2>4 DEF TeardownEnds, mailVars
    <3>2. QED
      BY <3>1, ClosedGoesOn
  <2>5. CASE \E m \in inbox : TakeTerminal(m)
    BY <1>1, <2>5 DEF TakeTerminal, sessionVars
  <2>6. CASE FlushBuffer \/ \E i \in DOMAIN pending : DispatchLane(i) \/ DispatchSidecar(i)
    BY <1>1, <2>6 DEF FlushBuffer, DispatchLane, DispatchSidecar, sessionVars, mailVars
  <2>7. CASE AttachTerminal \/ SweepReads \/ ReconcileBegins \/ ContinueAsNew \/ TeardownBegins
             \/ TeardownArchives
    <3>1. UNCHANGED <<world, inbox>>
      BY <2>7
      DEF AttachTerminal, SweepReads, ReconcileBegins, ContinueAsNew, TeardownBegins,
          TeardownArchives, sessionVars, mailVars
    <3>2. QED
      BY <1>1, <3>1, Zenon
  <2>8. CASE \/ \E s \in Sessions : SweepFailsLane(s) \/ DropRotation(s)
             \/ \E s \in Sessions, why \in {"rotate", "idle"} : CloseIdle(s, why)
    BY <1>1, <2>8 DEF SweepFailsLane, DropRotation, CloseIdle, sessionVars, mailVars
  <2>9. QED
    BY <1>6, <2>1, <2>2, <2>3, <2>4, <2>5, <2>6, <2>7, <2>8 DEF LoopStep
<1>7. QED
  BY <1>2, <1>3, <1>4, <1>5, <1>6, RunsKeptBySessions DEF Next

\* A session is tracked once it is there, and forgotten when it is closed.
TracksGoOn ==
    /\ \A s \in tracked : s \in tracked' \/ world'[s].st = "closed"
    /\ \A s \in tracked' : s \in tracked \/ world'[s].st # "none"

LEMMA TracksAsBefore ==
  ASSUME UNCHANGED tracked
  PROVE  TracksGoOn
BY DEF TracksGoOn

LEMMA TrackClosed ==
  ASSUME Typed, EndInv, NEW s \in Sessions, CloseWorld(s), tracked' = tracked \ {s}
  PROVE  TracksGoOn
<1>1. world \in [Sessions -> [st : {"none", "open", "failed", "closed"}, foreign : BOOLEAN, runs : RunBooks]]
  BY DEF Typed, WorldTyped
<1>2. world'[s] = ClosedSession(s)
  BY <1>1 DEF CloseWorld
<1>3. s \in tracked => world'[s].st = "closed"
  BY <1>2, RunsClosed DEF EndInv
<1>4. QED
  BY <1>3 DEF TracksGoOn

LEMMA TracksKept ==
  ASSUME Typed, LaneInv, EndInv, [Next]_vars
  PROVE  TracksGoOn
<1>1. CASE UNCHANGED vars \/ SessionStep \/ SignalStep
  BY <1>1, TracksAsBefore
  DEF vars, SessionStep, ForeignWork, SessionDies, StartLands, RunEnds, RepeatTerminal,
      SignalStep, AcceptEvent, AcceptConfig, CloseBot, NewDay, RequestRotation, PauseEnds,
      configVars
<1>2. CASE (\E s \in Sessions : SidecarEnds(s)) \/ (\E x \in settling : Settle(x))
  BY <1>2, TracksAsBefore DEF SidecarEnds, Settle, configVars
<1>3. ASSUME NEW f \in futures, LaneStep(f) PROVE TracksGoOn
  <2>1. f.at \in Sessions /\ f.next \in Sessions
    BY LaneMoves
  <2>2. CASE LaneEnsures(f)
    <3>1. \/ UNCHANGED tracked
          \/ world' = [world EXCEPT ![f.next].st = "open"] /\ tracked' = tracked \cup {f.next}
      BY <2>2 DEF LaneEnsures
    <3>2. world' = [world EXCEPT ![f.next].st = "open"] => world'[f.next].st = "open"
      BY <2>1 DEF Typed, WorldTyped
    <3>3. QED
      BY <3>1, <3>2 DEF TracksGoOn
  <2>3. CASE LaneMismatch(f)
    BY <2>3, TracksAsBefore DEF LaneMismatch
  <2>4. CASE LaneFails(f) \/ LaneAppends(f) \/ LaneReadsStatus(f) \/ LaneStarted(f)
             \/ LaneStartUnclear(f) \/ LaneStartRefused(f) \/ LaneStartDead(f) \/ LaneEnds(f)
    <3>1. UNCHANGED tracked
      BY <2>4
      DEF LaneFails, LaneAppends, LaneReadsStatus, LaneStarted, LaneStartUnclear,
          LaneStartRefused, LaneStartDead, LaneEnds, configVars
    <3>2. QED
      BY <3>1, TracksAsBefore
  <2>5. CASE LaneLeaves(f)
    <3>1. (CloseWorld(f.at) /\ tracked' = tracked \ {f.at}) \/ UNCHANGED tracked
      BY <2>5 DEF LaneLeaves, RollForward, Advance, configVars
    <3>2. QED
      BY <2>1, <3>1, TrackClosed, TracksAsBefore
  <2>6. QED
    BY <1>3, <2>2, <2>3, <2>4, <2>5 DEF LaneStep
<1>4. CASE LoopStep
  <2>1. CASE SweepCloses
    <3>1. loop.s \in Sessions
      BY <2>1 DEF SweepCloses, Typed, LoopTyped
    <3>2. (CloseWorld(loop.s) /\ tracked' = tracked \ {loop.s}) \/ UNCHANGED tracked
      BY <2>1 DEF SweepCloses, RollForward, Advance, configVars
    <3>3. QED
      BY <3>1, <3>2, TrackClosed, TracksAsBefore
  <2>2. CASE IdleClosed
    <3>1. loop.s \in Sessions
      BY <2>2 DEF IdleClosed, Typed, LoopTyped
    <3>2. UNCHANGED tracked \/ (CloseWorld(loop.s) /\ tracked' = tracked \ {loop.s})
      BY <2>2 DEF IdleClosed, configVars
    <3>3. QED
      BY <3>1, <3>2, TracksAsBefore, TrackClosed
  <2>3. CASE ReconcileStep
    <3>1. UNCHANGED tracked \/ (CloseWorld(MainSession) /\ tracked' = tracked \ {MainSession})
      BY <2>3, ReconcileDoes DEF Advance
    <3>2. QED
      BY <3>1, MainTyped, TrackClosed, TracksAsBefore
  <2>4. CASE FlushBuffer \/ (\E i \in DOMAIN pending : DispatchLane(i) \/ DispatchSidecar(i))
             \/ (\E m \in inbox : TakeTerminal(m))
    BY <2>4, TracksAsBefore DEF FlushBuffer, DispatchLane, DispatchSidecar, TakeTerminal, configVars
  <2>5. CASE AttachTerminal \/ SweepReads \/ ReconcileBegins \/ ContinueAsNew \/ TeardownBegins
             \/ TeardownArchives \/ TeardownEnds
    <3>1. UNCHANGED tracked
      BY <2>5
      DEF AttachTerminal, SweepReads, ReconcileBegins, ContinueAsNew, TeardownBegins,
          TeardownArchives, TeardownEnds, configVars
    <3>2. QED
      BY <3>1, TracksAsBefore, Zenon
  <2>6. CASE \/ \E s \in Sessions : SweepFailsLane(s) \/ DropRotation(s)
             \/ \E s \in Sessions, why \in {"rotate", "idle"} : CloseIdle(s, why)
    BY <2>6, TracksAsBefore DEF SweepFailsLane, DropRotation, CloseIdle, configVars
  <2>7. QED
    BY <1>4, <2>1, <2>2, <2>3, <2>4, <2>5, <2>6 DEF LoopStep
<1>5. QED
  BY <1>1, <1>2, <1>3, <1>4 DEF Next

\* A start is sent by a lane with its session's status, a lane moves off a
\* session that is not tracked, and lanes keep their deliveries while an end
\* is looked up.
LanesGoOn ==
    /\ \A m \in abroad' : m \in abroad \/ \E f \in futures : f.st = "status" /\ m[1] = f.at
    /\ \A g \in futures' : Moving(g) =>
         \/ g \in futures
         \/ /\ g.at \in Sessions \ tracked /\ g.at[1] # Main /\ Open(g.at)
            /\ UNCHANGED abroad
    /\ loop.op = "terminal" =>
         \A g \in futures' : \E f \in futures : g.d = f.d /\ (g.at = f.at \/ Moving(f))

LEMMA LanesAsBefore ==
  ASSUME futures' \subseteq futures, abroad' \subseteq abroad
  PROVE  LanesGoOn
BY DEF LanesGoOn

LEMMA LaneGoesStep ==
  ASSUME NEW f \in futures, NEW st, NEW s, Becomes(f, Lane(f.d, st, s)), s = f.at \/ Moving(f),
         \A m \in abroad' : m \in abroad \/ (f.st = "status" /\ m[1] = f.at)
  PROVE  LanesGoOn
<1> DEFINE g == Lane(f.d, st, s)
<1>1. g.d = f.d /\ g.at = s /\ ~Moving(g)
  BY DEF Lane, Moving
<1> HIDE DEF g
<1>2. \A h \in futures' : h = g \/ h \in futures
  BY DEF Becomes, g
<1>3. QED
  BY <1>1, <1>2 DEF LanesGoOn

LEMMA LaneRefuses ==
  ASSUME Typed, LaneInv, NEW f \in futures, LaneMismatch(f)
  PROVE  LanesGoOn
<1>a. PICK g : g = [f EXCEPT !.next = <<f.at[1], gen[f.at[1]] + 1>>]
  OBVIOUS
<1>0. f \in LaneFutures
  BY DEF Typed, LanesTyped
<1>1. g.d = f.d /\ g.at = f.at
  BY <1>a, <1>0 DEF LaneFutures
<1>2. /\ Becomes(f, g) /\ f.st = "ensure" /\ f.next = f.at /\ f.at \notin tracked
      /\ UNCHANGED abroad /\ Open(f.at)
  BY <1>a DEF LaneMismatch, sessionVars
<1>3. f.at[1] # Main /\ f.at \in Sessions
  BY <1>2, LaneMoves DEF LaneInv, Fits
<1>4. \A h \in futures' : h = g \/ h \in futures
  BY <1>2 DEF Becomes
<1>5. QED
  BY <1>1, <1>2, <1>3, <1>4 DEF LanesGoOn

LEMMA LanesGoOnByLanes ==
  ASSUME Typed, LaneInv, NEW f \in futures, LaneStep(f)
  PROVE  LanesGoOn
<1>1. CASE LaneEnsures(f)
  <2>1. PICK st : Becomes(f, Lane(f.d, st, f.next))
    BY <1>1 DEF LaneEnsures
  <2>2. UNCHANGED abroad
    BY <1>1 DEF LaneEnsures
  <2>3. QED
    BY <2>1, <2>2, LaneGoesStep DEF Moving
<1>2. CASE LaneFails(f) \/ LaneStartUnclear(f) \/ LaneStartRefused(f) \/ LaneLeaves(f) \/ LaneEnds(f)
  <2>1. futures' = futures \ {f} /\ abroad' \subseteq abroad
    BY <1>2
    DEF LaneFails, LaneStartUnclear, LaneStartRefused, LaneLeaves, LaneEnds, Finish, Requeue,
        sessionVars
  <2>2. QED
    BY <2>1, LanesAsBefore
<1>3. CASE LaneAppends(f) \/ LaneStartDead(f)
  <2>1. UNCHANGED abroad /\ (futures' = futures \ {f} \/ Goes(f, "leave"))
    BY <1>3 DEF LaneAppends, LaneStartDead, Finish, sessionVars
  <2>2. QED
    BY <2>1, LanesAsBefore, LaneGoesStep DEF Goes
<1>4. CASE LaneReadsStatus(f)
  <2>1. \/ UNCHANGED abroad /\ (futures' = futures \ {f} \/ Goes(f, "leave"))
        \/ /\ f.st = "status" /\ Goes(f, "start") /\ abroad' = abroad \cup {<<f.at, f.d.ev>>}
    BY <1>4, Zenon DEF LaneReadsStatus, Finish, Requeue
  <2>2. QED
    BY <2>1, LanesAsBefore, LaneGoesStep DEF Goes
<1>5. CASE LaneStarted(f)
  BY <1>5, LaneGoesStep DEF LaneStarted, sessionVars
<1>6. QED
  BY <1>1, <1>2, <1>3, <1>4, <1>5, LaneRefuses DEF LaneStep

LEMMA LanesGoOnKept ==
  ASSUME Typed, LaneInv, [Next]_vars
  PROVE  LanesGoOn
<1>1. CASE UNCHANGED vars \/ SessionStep \/ SignalStep
  BY <1>1, LanesAsBefore
  DEF vars, SessionStep, ForeignWork, SessionDies, StartLands, RunEnds, RepeatTerminal,
      SignalStep, AcceptEvent, AcceptConfig, CloseBot, NewDay, RequestRotation, PauseEnds,
      sessionVars, laneVars
<1>2. CASE (\E s \in Sessions : SidecarEnds(s)) \/ (\E x \in settling : Settle(x))
  BY <1>2, LanesAsBefore DEF SidecarEnds, Settle, sessionVars
<1>3. CASE LoopStep
  <2>1. CASE \E i \in DOMAIN pending : DispatchLane(i)
    <3>1. PICK i \in DOMAIN pending : DispatchLane(i)
      BY <2>1
    <3>2. PICK g : g = Lane(pending[i], FirstStep(pending[i]), TargetOf(pending[i]))
      OBVIOUS
    <3>3. /\ loop.op = "park" /\ UNCHANGED abroad /\ futures' = futures \cup {g}
      BY <3>1, <3>2 DEF DispatchLane, sessionVars
    <3>4. ~Moving(g)
      BY <3>2 DEF Lane, Moving
    <3>5. QED
      BY <3>3, <3>4 DEF LanesGoOn
  <2>2. CASE ContinueAsNew
    <3>1. UNCHANGED abroad /\ futures' = futures
      BY <2>2, QuietLanes DEF ContinueAsNew, sessionVars
    <3>2. QED
      BY <3>1, LanesAsBefore
  <2>3. CASE SweepCloses \/ IdleClosed \/ ReconcileStep \/ TeardownEnds
    BY <2>3, LanesAsBefore, ReconcileDoes DEF SweepCloses, IdleClosed, TeardownEnds, laneVars
  <2>4. CASE FlushBuffer \/ (\E i \in DOMAIN pending : DispatchSidecar(i))
             \/ (\E m \in inbox : TakeTerminal(m))
    BY <2>4, LanesAsBefore DEF FlushBuffer, DispatchSidecar, TakeTerminal, sessionVars, laneVars
  <2>5. CASE AttachTerminal \/ SweepReads \/ ReconcileBegins \/ TeardownBegins \/ TeardownArchives
    <3>1. UNCHANGED <<futures, abroad>>
      BY <2>5
      DEF AttachTerminal, SweepReads, ReconcileBegins, TeardownBegins,
          TeardownArchives, laneVars, sessionVars
    <3>2. QED
      BY <3>1, LanesAsBefore
  <2>6. CASE \/ \E s \in Sessions : SweepFailsLane(s) \/ DropRotation(s)
             \/ \E s \in Sessions, why \in {"rotate", "idle"} : CloseIdle(s, why)
    BY <2>6, LanesAsBefore DEF SweepFailsLane, DropRotation, CloseIdle, sessionVars, laneVars
  <2>7. QED
    BY <1>3, <2>1, <2>2, <2>3, <2>4, <2>5, <2>6 DEF LoopStep
<1>4. QED
  BY <1>1, <1>2, <1>3, LanesGoOnByLanes DEF Next

LEMMA OneLane ==
  ASSUME Typed, LaneInv, EventInv, NEW f \in futures, NEW t \in Sessions, HasLane(t),
         active[t].d.ev = f.d.ev
  PROVE  t = f.at
<1>1. PICK g \in futures : g.at = t
  BY DEF LaneInv, Books
<1>2. active[t].d = g.d
  BY <1>1 DEF LaneInv, Books
<1>3. g.d.ev = f.d.ev /\ f.d.ev # {}
  BY <1>2, LaneMoves
<1>4. g = f
  BY <1>3 DEF EventInv, Once, LanesOnce
<1>5. QED
  BY <1>1, <1>4

\* What the books have of a session is kept, is no end of a run, or is the
\* end of its own run.
EndsGiven ==
    \A s \in Sessions :
        \/ active'[s].terminal = active[s].terminal /\ active'[s].d = active[s].d
        \/ active'[s].terminal \in {"none", "dead"}
        \/ active'[s].d.ev \in RunsOf(s)' /\ world'[s].runs[active'[s].d.ev] = active'[s].terminal

LEMMA NoEndGiven ==
  ASSUME Typed, NEW s \in Sessions, NEW a, a.terminal \in {"none", "dead"},
         active' = [active EXCEPT ![s] = a]
  PROVE  EndsGiven
<1>1. active \in [Sessions -> LaneRecords]
  BY DEF Typed, LanesTyped
<1>2. \A t \in Sessions : active'[t] = IF t = s THEN a ELSE active[t]
  BY <1>1
<1>3. QED
  BY <1>2 DEF EndsGiven

LEMMA EndGivenByStart ==
  ASSUME Typed, LaneInv, EventInv, NEW f \in futures, LaneStarted(f)
  PROVE  EndsGiven
<1> DEFINE s == f.at
           k == f.d.ev
           st == world[s].runs[k]
           a(t) == [active[t] EXCEPT
                      !.run = @ \/ t = s, !.parked = @ \/ t = s,
                      !.terminal = IF st # "going" /\ active[t].d.ev = k THEN st ELSE @,
                      !.resolved = @ \/ (t = s /\ st = "ended" /\ <<s, k>> \notin read)]
<1>1. /\ k \in RunsOf(s) /\ UNCHANGED world
      /\ active' = [t \in Sessions |-> IF ~HasLane(t) THEN active[t] ELSE a(t)]
  BY DEF LaneStarted, sessionVars
<1>2. \A t \in Sessions : active[t] \in LaneRecords
  BY DEF Typed, LanesTyped
<1>3. \A t \in Sessions :
        /\ a(t).d = active[t].d
        /\ a(t).terminal = IF st # "going" /\ active[t].d.ev = k THEN st ELSE active[t].terminal
  BY <1>2 DEF LaneRecords
<1>4. \A t \in Sessions : active'[t] = IF ~HasLane(t) THEN active[t] ELSE a(t)
  BY <1>1
<1> HIDE DEF a
<1>5. ASSUME NEW t \in Sessions
      PROVE  \/ active'[t].terminal = active[t].terminal /\ active'[t].d = active[t].d
             \/ /\ active'[t].d.ev \in RunsOf(t)'
                /\ world'[t].runs[active'[t].d.ev] = active'[t].terminal
  <2>1. CASE HasLane(t) /\ active[t].d.ev = k /\ st # "going"
    <3>1. t = s
      BY <2>1, OneLane
    <3>2. active'[t].d.ev = k /\ active'[t].terminal = st
      BY <1>3, <1>4, <2>1
    <3>3. QED
      BY <1>1, <3>1, <3>2 DEF RunsOf
  <2>2. CASE ~(HasLane(t) /\ active[t].d.ev = k /\ st # "going")
    BY <1>3, <1>4, <2>2
  <2>3. QED
    BY <2>1, <2>2
<1>6. QED
  BY <1>5, Zenon DEF EndsGiven

LEMMA EndGivenByAttach ==
  ASSUME Typed, LaneInv, EndInv, AttachTerminal
  PROVE  EndsGiven
<1> DEFINE s == loop.m[1]
           k == loop.m[2]
           st == world[s].runs[k]
           a(t) == [active[t] EXCEPT
                      !.resolved = @ \/ (t = s /\ HasLane(t) /\ st = "ended" /\ <<s, k>> \notin read),
                      !.terminal = IF HasLane(t) /\ active[t].d.ev = k THEN st ELSE @]
<1>1. loop.op = "terminal" /\ active' = [t \in Sessions |-> a(t)] /\ UNCHANGED world
  BY DEF AttachTerminal, sessionVars
<1>2. \A t \in Sessions : active[t] \in LaneRecords
  BY DEF Typed, LanesTyped
<1>3. \A t \in Sessions :
        /\ a(t).d = active[t].d
        /\ a(t).terminal = IF HasLane(t) /\ active[t].d.ev = k THEN st ELSE active[t].terminal
  BY <1>2 DEF LaneRecords
<1>4. k \in RunsOf(s) /\ \A f \in futures : f.d.ev = k => f.at = s
  BY <1>1 DEF EndInv, Over
<1>5. \A t \in Sessions : active'[t] = a(t)
  BY <1>1
<1> HIDE DEF a
<1>6. ASSUME NEW t \in Sessions
      PROVE  \/ active'[t].terminal = active[t].terminal /\ active'[t].d = active[t].d
             \/ /\ active'[t].d.ev \in RunsOf(t)'
                /\ world'[t].runs[active'[t].d.ev] = active'[t].terminal
  <2>1. CASE HasLane(t) /\ active[t].d.ev = k
    <3>1. PICK f \in futures : f.at = t
      BY <2>1 DEF LaneInv, Books
    <3>2. active[t].d = f.d
      BY <3>1 DEF LaneInv, Books
    <3>3. t = s
      BY <1>4, <2>1, <3>1, <3>2
    <3>4. active'[t].d.ev = k /\ active'[t].terminal = st
      BY <1>3, <1>5, <2>1
    <3>5. QED
      BY <1>1, <1>4, <3>3, <3>4 DEF RunsOf
  <2>2. CASE ~(HasLane(t) /\ active[t].d.ev = k)
    BY <1>3, <1>5, <2>2
  <2>3. QED
    BY <2>1, <2>2
<1>7. QED
  BY <1>6 DEF EndsGiven

LEMMA EndGivenByEnsure ==
  ASSUME Typed, LaneInv, EndInv, NEW f \in futures, LaneEnsures(f)
  PROVE  EndsGiven
<1>1. RekeyLane(f.at, f.next) /\ f.at \in Sessions /\ f.next \in Sessions
  BY LaneMoves DEF LaneEnsures
<1>2. CASE active' = active
  BY <1>2 DEF EndsGiven
<1>3. CASE /\ f.at # f.next
           /\ active' = [active EXCEPT ![f.at] = NoLane, ![f.next] = active[f.at]]
  <2>1. active \in [Sessions -> LaneRecords]
    BY DEF Typed, LanesTyped
  <2>2. \A t \in Sessions : active'[t] = IF t = f.next THEN active[f.at]
                                        ELSE IF t = f.at THEN NoLane ELSE active[t]
    BY <1>1, <1>3, <2>1
  <2>3. active[f.at].terminal \in {"none", "dead"}
    <3>1. RunsOf(f.at) = {}
      BY <1>3 DEF EndInv, Moving, Touched
    <3>2. active[f.at].terminal \in Terminals /\ active[f.at].terminal \notin {"ended", "cancelled"}
      BY <1>1, <2>1, <3>1 DEF EndInv, TerminalIsOwn, LaneRecords
    <3>3. QED
      BY <3>2 DEF Terminals
  <2>4. NoLane.terminal = "none"
    BY DEF NoLane, FreshLane
  <2>5. QED
    BY <2>2, <2>3, <2>4 DEF EndsGiven
<1>4. QED
  BY <1>1, <1>2, <1>3 DEF RekeyLane

LEMMA EndsGivenKept ==
  ASSUME Typed, LaneInv, EventInv, EndInv, [Next]_vars
  PROVE  EndsGiven
<1>0. NoLane.terminal = "none" /\ \A d : FreshLane(d).terminal = "none"
  BY DEF NoLane, FreshLane
<1>1. ASSUME UNCHANGED active PROVE EndsGiven
  BY <1>1 DEF EndsGiven
<1>2. CASE UNCHANGED vars \/ SessionStep \/ SignalStep
  BY <1>1, <1>2
  DEF vars, SessionStep, ForeignWork, SessionDies, StartLands, RunEnds, RepeatTerminal,
      SignalStep, AcceptEvent, AcceptConfig, CloseBot, NewDay, RequestRotation, PauseEnds, laneVars
<1>3. CASE (\E s \in Sessions : SidecarEnds(s)) \/ (\E x \in settling : Settle(x))
  BY <1>1, <1>3 DEF SidecarEnds, Settle
<1>4. ASSUME NEW f \in futures, LaneStep(f) PROVE EndsGiven
  <2>1. CASE LaneEnsures(f) \/ LaneStarted(f)
    BY <2>1, EndGivenByEnsure, EndGivenByStart
  <2>2. CASE ~(LaneEnsures(f) \/ LaneStarted(f))
    <3>1. active' = active \/ active' = [active EXCEPT ![f.at] = NoLane]
      <4>1. CASE LaneMismatch(f) \/ LaneFails(f) \/ LaneAppends(f) \/ LaneReadsStatus(f)
        BY <4>1 DEF LaneMismatch, LaneFails, LaneAppends, LaneReadsStatus, Finish, Requeue, Goes
      <4>2. CASE LaneStartUnclear(f) \/ LaneStartRefused(f) \/ LaneStartDead(f) \/ LaneLeaves(f)
                 \/ LaneEnds(f)
        BY <4>2
        DEF LaneStartUnclear, LaneStartRefused, LaneStartDead, LaneLeaves, LaneEnds,
            Finish, Requeue, Goes
      <4>3. QED
        BY <1>4, <2>2, <4>1, <4>2 DEF LaneStep
    <3>2. QED
      BY <1>0, <1>1, <3>1, NoEndGiven, LaneMoves
  <2>3. QED
    BY <2>1, <2>2
<1>5. CASE LoopStep
  <2>1. CASE \E i \in DOMAIN pending : DispatchLane(i)
    <3>1. PICK i \in DOMAIN pending : DispatchLane(i)
      BY <2>1
    <3>2. PICK a : a = FreshLane(pending[i])
      OBVIOUS
    <3>a. PICK s : s = TargetOf(pending[i])
      OBVIOUS
    <3>3. active' = [active EXCEPT ![s] = a] /\ s \in Sessions /\ a.terminal = "none"
      BY <1>0, <3>1, <3>2, <3>a, TakenTyped DEF DispatchLane
    <3>4. QED
      <4>1. active \in [Sessions -> LaneRecords]
        BY DEF Typed, LanesTyped
      <4>2. \A t \in Sessions : active'[t] = IF t = s THEN a ELSE active[t]
        BY <3>3, <4>1
      <4>3. QED
        BY <3>3, <4>2 DEF EndsGiven
  <2>2. CASE \E s \in Sessions : SweepFailsLane(s)
    <3>1. PICK s \in Sessions : SweepFailsLane(s)
      BY <2>2
    <3>a. PICK a : a = [active[s] EXCEPT !.terminal = "dead"]
      OBVIOUS
    <3>2. active' = active \/ active' = [active EXCEPT ![s] = a]
      BY <3>1, <3>a DEF SweepFailsLane
    <3>3. a.terminal = "dead"
      BY <3>a DEF Typed, LanesTyped, LaneRecords
    <3>4. QED
      BY <1>1, <3>2, <3>3, NoEndGiven
  <2>3. CASE ContinueAsNew \/ TeardownEnds
    <3>1. \A s \in Sessions : active[s] \in LaneRecords
      BY DEF Typed, LanesTyped
    <3>2. CASE ContinueAsNew
      <4>1. \A s \in Sessions : active'[s] = [active[s] EXCEPT !.resolved = FALSE]
        BY <3>2 DEF ContinueAsNew
      <4>2. \A s \in Sessions : active'[s].terminal = active[s].terminal /\ active'[s].d = active[s].d
        BY <3>1, <4>1 DEF LaneRecords
      <4>3. QED
        BY <4>2 DEF EndsGiven
    <3>3. CASE TeardownEnds
      BY <1>0, <3>3 DEF TeardownEnds, EndsGiven
    <3>4. QED
      BY <2>3, <3>2, <3>3
  <2>4. CASE SweepCloses \/ IdleClosed \/ ReconcileStep
    BY <1>1, <2>4, ReconcileDoes DEF SweepCloses, IdleClosed, laneVars
  <2>5. CASE FlushBuffer \/ (\E i \in DOMAIN pending : DispatchSidecar(i))
             \/ (\E m \in inbox : TakeTerminal(m))
    BY <1>1, <2>5 DEF FlushBuffer, DispatchSidecar, TakeTerminal, laneVars
  <2>6. CASE SweepReads \/ ReconcileBegins \/ TeardownBegins \/ TeardownArchives
    BY <1>1, <2>6 DEF SweepReads, ReconcileBegins, TeardownBegins, TeardownArchives, laneVars
  <2>7. CASE \/ \E s \in Sessions : DropRotation(s)
             \/ \E s \in Sessions, why \in {"rotate", "idle"} : CloseIdle(s, why)
    BY <1>1, <2>7 DEF DropRotation, CloseIdle, laneVars
  <2>8. QED
    BY <1>5, <2>1, <2>2, <2>3, <2>4, <2>5, <2>6, <2>7, EndGivenByAttach DEF LoopStep
<1>6. QED
  BY <1>2, <1>3, <1>4, <1>5 DEF Next

\* An end is looked up for the lane that awaits it, and for no other.
LEMMA TerminalTaken ==
  ASSUME Typed, [Next]_vars, loop'.op = "terminal"
  PROVE  \/ UNCHANGED loop
         \/ loop'.m \in inbox /\ Awaits(loop'.m[1], loop'.m[2]) /\ UNCHANGED futures
<1>1. CASE ~(Running /\ LoopStep)
  BY <1>1, LoopStays
<1>2. CASE \E m \in inbox : TakeTerminal(m)
  <2>1. PICK m \in inbox : TakeTerminal(m)
    BY <1>2
  <2>2. UNCHANGED futures /\ (UNCHANGED loop \/ (loop' = [op |-> "terminal", m |-> m] /\ Awaits(m[1], m[2])))
    BY <2>1 DEF TakeTerminal, laneVars
  <2>3. QED
    BY <2>2
<1>3. CASE LoopStep /\ ~\E m \in inbox : TakeTerminal(m)
  <2>1. CASE FlushBuffer \/ (\E i \in DOMAIN pending : DispatchLane(i) \/ DispatchSidecar(i))
             \/ (\E s \in Sessions : DropRotation(s)) \/ ContinueAsNew
    BY <2>1 DEF FlushBuffer, DispatchLane, DispatchSidecar, DropRotation, ContinueAsNew, restVars
  <2>2. CASE AttachTerminal \/ SweepReads \/ SweepCloses \/ IdleClosed
    <3>1. loop' \in {[op |-> "park"], [op |-> "sweep", dead |-> DeadLanes],
                     [op |-> "sweep", dead |-> loop.dead]}
      BY <2>2
      DEF AttachTerminal, SweepReads, SweepCloses, IdleClosed, Parked
    <3>2. QED
      BY <3>1, SMTT(30)
  <2>a. CASE ReconcileBegins \/ ReconcileStep
    BY <2>a, ReconcileLoop
  <2>3. CASE \E s \in Sessions : SweepFailsLane(s)
    <3>1. PICK s \in Sessions : SweepFailsLane(s)
      BY <2>3
    <3>2. loop' \in {[op |-> "park"], [op |-> "sweep", dead |-> loop.dead \ {s}],
                     [op |-> "sweepClose", s |-> s, dead |-> loop.dead \ {s}]}
      BY <3>1 DEF SweepFailsLane, Parked
    <3>3. QED
      BY <3>2
  <2>4. CASE \E s \in Sessions, why \in {"rotate", "idle"} : CloseIdle(s, why)
    BY <2>4 DEF CloseIdle
  <2>5. CASE TeardownBegins
    <3>1. \/ loop' = [op |-> "closeAll", known |-> accepted \ UNION {sidecar[s].d.ev : s \in Sessions}]
          \/ loop' = [op |-> "archive", ids |-> TeardownIds,
                      known |-> accepted \ UNION {sidecar[s].d.ev : s \in Sessions}]
      BY <2>5 DEF TeardownBegins
    <3>2. QED
      BY <3>1
  <2>6. CASE TeardownArchives \/ TeardownEnds
    BY <2>6 DEF TeardownArchives, TeardownEnds
  <2>7. QED
    BY <1>3, <2>1, <2>2, <2>a, <2>3, <2>4, <2>5, <2>6 DEF LoopStep
<1>4. QED
  BY <1>1, <1>2, <1>3

LEMMA EndsKept ==
  ASSUME Typed, LaneInv, EventInv, EndInv, [Next]_vars
  PROVE  EndInv'
<1>1. RunsGoOn /\ \A m \in inbox' : m \in inbox \/ Over(m)'
  BY RunsKept
<1>2. TracksGoOn /\ LanesGoOn /\ EndsGiven
  BY TracksKept, LanesGoOnKept, EndsGivenKept
<1>3. ASSUME NEW m \in Sessions \X SUBSET Events, Over(m)
      PROVE  Over(m)' /\ Touched(m[1])
  BY <1>1, <1>3 DEF Over, RunsGoOn, Touched
<1>4. inbox \subseteq Sessions \X SUBSET Events
  BY DEF Typed, WorldTyped
<1>5. \A s \in Sessions : world'[s].st = "none" => RunsOf(s)' = {}
  BY <1>1 DEF EndInv, RunsGoOn
<1>6. \A m \in inbox' : Over(m)'
  BY <1>1, <1>3, <1>4 DEF EndInv
<1>7. ASSUME loop'.op = "terminal"
      PROVE  Over(loop.m)' /\ \A g \in futures' : g.d.ev = loop'.m[2] => g.at = loop'.m[1]
  <2>1. CASE UNCHANGED loop
    <3>1. loop.m \in Sessions \X SUBSET Events /\ Over(loop.m) /\ loop.op = "terminal"
      BY <1>7, <2>1 DEF EndInv, Typed, LoopTyped
    <3>2. PICK m \in Sessions \X SUBSET Events : m = loop.m
      BY <3>1
    <3>3. Over(m)' /\ Touched(m[1]) /\ loop'.m = m
      BY <1>3, <2>1, <3>1, <3>2
    <3>4. ASSUME NEW g \in futures', g.d.ev = m[2] PROVE g.at = m[1]
      <4>1. PICK f \in futures : g.d = f.d /\ (g.at = f.at \/ Moving(f))
        BY <1>2, <3>1 DEF LanesGoOn
      <4>2. f.at = m[1]
        BY <3>1, <3>2, <3>4, <4>1 DEF EndInv
      <4>3. ~Moving(f)
        BY <3>3, <4>2 DEF EndInv
      <4>4. QED
        BY <4>1, <4>2, <4>3
    <3>5. QED
      BY <3>3, <3>4 DEF Over
  <2>2. CASE loop'.m \in inbox /\ Awaits(loop'.m[1], loop'.m[2]) /\ UNCHANGED futures
    <3>1. PICK m \in Sessions \X SUBSET Events : m = loop'.m
      BY <1>4, <2>2
    <3>2. Over(m)'
      BY <1>3, <2>2, <3>1 DEF EndInv
    <3>3. ASSUME NEW g \in futures, g.d.ev = m[2] PROVE g.at = m[1]
      BY <2>2, <3>1, <3>3, OneLane DEF Awaits
    <3>4. QED
      BY <2>2, <3>1, <3>2, <3>3 DEF Over
  <2>3. QED
    BY <1>7, <2>1, <2>2, TerminalTaken
<1>8. ASSUME NEW s \in Sessions, Touched(s)'
      PROVE  Touched(s) \/ \E f \in futures : f.st = "status" /\ f.at = s
  BY <1>1, <1>2, <1>8, ZenonT(30) DEF Touched, RunsGoOn, LanesGoOn
<1>9. ASSUME NEW s \in Sessions, s[1] # Main, Touched(s)'
      PROVE  s \in tracked' \/ Gone(s)'
  <2>1. s \in tracked \/ Gone(s)
    BY <1>8, <1>9 DEF EndInv, LaneInv, Fits
  <2>2. QED
    BY <1>1, <1>2, <2>1 DEF TracksGoOn, RunsGoOn, Gone
<1>a. \A s \in tracked' : world'[s].st # "none"
  <2>1. tracked \subseteq Sessions
    BY DEF Typed, ConfigTyped
  <2>2. QED
    BY <1>1, <1>2, <2>1 DEF TracksGoOn, RunsGoOn, EndInv
<1>10. ASSUME NEW g \in futures', Moving(g) PROVE ~Touched(g.at)'
  <2>1. SUFFICES ASSUME Touched(g.at)' PROVE FALSE
    OBVIOUS
  <2>2. CASE g \in futures
    <3>1. g.at \in Sessions /\ ~Touched(g.at) /\ g.st = "ensure"
      BY <1>10, <2>2, LaneMoves DEF EndInv, LaneInv, Fits
    <3>2. PICK f \in futures : f.st = "status" /\ f.at = g.at
      BY <1>8, <2>1, <3>1
    <3>3. f = g
      BY <2>2, <3>2 DEF LaneInv, Books
    <3>4. QED
      BY <3>1, <3>2, <3>3
  <2>3. CASE /\ g.at \in Sessions \ tracked /\ g.at[1] # Main /\ Open(g.at)
             /\ UNCHANGED abroad
    <3>1. Touched(g.at)
      BY <1>1, <2>1, <2>3 DEF Touched, RunsGoOn
    <3>2. Gone(g.at)
      BY <2>3, <3>1 DEF EndInv
    <3>3. QED
      BY <2>3, <3>2 DEF Gone, Open
  <2>4. QED
    BY <1>2, <1>10, <2>2, <2>3 DEF LanesGoOn
<1>11. TerminalIsOwn'
  <2>1. SUFFICES ASSUME NEW s \in Sessions, active'[s].terminal \in {"ended", "cancelled"}
                 PROVE  /\ active'[s].d.ev \in RunsOf(s)'
                        /\ world'[s].runs[active'[s].d.ev] = active'[s].terminal
    BY DEF TerminalIsOwn
  <2>2. CASE active'[s].terminal = active[s].terminal /\ active'[s].d = active[s].d
    <3>1. active[s].d.ev \in RunsOf(s) /\ world[s].runs[active[s].d.ev] = active[s].terminal
      BY <2>1, <2>2 DEF EndInv, TerminalIsOwn
    <3>2. world[s].runs[active[s].d.ev] # "going"
      BY <2>1, <2>2, <3>1
    <3>3. QED
      BY <1>1, <2>2, <3>1, <3>2 DEF RunsGoOn
  <2>3. QED
    BY <1>2, <2>1, <2>2 DEF EndsGiven
<1>12. QED
  BY <1>5, <1>6, <1>7, <1>9, <1>a, <1>10, <1>11 DEF EndInv

-----------------------------------------------------------------------------
(* The budget.                                                             *)

LEMMA StartingCounted ==
  ASSUME Typed, LaneInv
  PROVE  /\ IsFiniteSet(Starting) /\ Cardinality(Starting) \in Nat
         /\ runsToday + Cardinality(Starting) <= Reserved /\ Reserved \in Nat
<1> DEFINE R == {s \in Sessions : HasLane(s) /\ ~active[s].run /\ BusyMode(active[s].d) # "append"}
           F == [f \in Starting |-> f.at]
<1>1. IsFiniteSet(R)
  BY SessionsFinite, FS_Subset
<1>2. ASSUME NEW f \in Starting PROVE f \in futures /\ f.at \in R
  <2>1. f \in futures /\ f.st # "wait" /\ BusyMode(f.d) # "append"
    BY <1>2 DEF Starting
  <2>2. f.at \in Sessions /\ f.d.ev # {}
    BY <2>1, LaneMoves
  <2>3. active[f.at].d = f.d /\ active[f.at].run = (f.st = "wait")
    BY <2>1 DEF LaneInv, Books
  <2>4. HasLane(f.at) /\ ~active[f.at].run
    BY <2>1, <2>2, <2>3 DEF HasLane
  <2>5. QED
    BY <2>1, <2>2, <2>3, <2>4
<1>3. Reserved = runsToday + Cardinality(R)
  BY DEF Reserved
<1> HIDE DEF R
<1>4. F \in Injection(Starting, R)
  BY <1>2 DEF Injection, IsInjective, LaneInv, Books
<1> HIDE DEF F
<1>5. IsFiniteSet(Starting) /\ Cardinality(Starting) <= Cardinality(R)
  BY <1>1, <1>4, FS_Injection
<1>6. Cardinality(Starting) \in Nat /\ Cardinality(R) \in Nat /\ runsToday \in Nat
  BY <1>1, <1>5, FS_CardinalityType DEF Typed, ConfigTyped
<1>7. QED
  BY <1>3, <1>5, <1>6

LEMMA BudgetStays ==
  ASSUME Typed, LaneInv, BudgetHolds, runsToday' \in Nat, runsToday' <= runsToday, Starting' \subseteq Starting
  PROVE  BudgetHolds'
<1>1. runsToday + Cardinality(Starting) <= RunsPerDay
  BY DEF BudgetHolds, Starting
<1>2. Cardinality(Starting) \in Nat /\ IsFiniteSet(Starting)
  BY StartingCounted
<1>3. Cardinality(Starting') <= Cardinality(Starting) /\ IsFiniteSet(Starting')
  BY <1>2, FS_Subset
<1>4. Cardinality(Starting') \in Nat
  BY <1>3, FS_CardinalityType
<1>5. runsToday' + Cardinality(Starting') <= RunsPerDay
  BY <1>1, <1>2, <1>3, <1>4, BotAssumption DEF Typed, ConfigTyped
<1>6. QED
  BY <1>5 DEF BudgetHolds, Starting

\* A lane in one of the steps before its run takes one place in the budget.
LEMMA BudgetPassed ==
  ASSUME Typed, LaneInv, BudgetHolds, NEW f \in futures, NEW g, Becomes(f, g), UNCHANGED runsToday,
         g.d = f.d, g.st \in {"ensure", "status", "start"} => f.st \in {"ensure", "status", "start"}
  PROVE  BudgetHolds'
<1>1. runsToday + Cardinality(Starting) <= RunsPerDay /\ runsToday \in Nat
  BY DEF BudgetHolds, Starting, Typed, ConfigTyped
<1>2. Cardinality(Starting) \in Nat /\ IsFiniteSet(Starting)
  BY StartingCounted
<1>3. CASE f \in Starting
  <2>1. Starting' \subseteq (Starting \ {f}) \cup {g}
    BY DEF Starting, Becomes
  <2>2. IsFiniteSet(Starting \ {f}) /\ Cardinality(Starting \ {f}) = Cardinality(Starting) - 1
    BY <1>2, <1>3, FS_RemoveElement
  <2>3. /\ IsFiniteSet((Starting \ {f}) \cup {g})
        /\ Cardinality((Starting \ {f}) \cup {g}) <= Cardinality(Starting)
    <3>1. /\ IsFiniteSet((Starting \ {f}) \cup {g})
          /\ \/ Cardinality((Starting \ {f}) \cup {g}) = Cardinality(Starting \ {f})
             \/ Cardinality((Starting \ {f}) \cup {g}) = Cardinality(Starting \ {f}) + 1
      BY <2>2, FS_AddElement
    <3>2. QED
      BY <1>2, <2>2, <3>1
  <2>4. IsFiniteSet(Starting') /\ Cardinality(Starting') <= Cardinality((Starting \ {f}) \cup {g})
    BY <2>1, <2>3, FS_Subset
  <2>5. Cardinality(Starting') \in Nat /\ Cardinality((Starting \ {f}) \cup {g}) \in Nat
    BY <2>3, <2>4, FS_CardinalityType
  <2>6. runsToday' + Cardinality(Starting') <= RunsPerDay
    BY <1>1, <1>2, <2>3, <2>4, <2>5, BotAssumption
  <2>7. QED
    BY <2>6 DEF BudgetHolds, Starting
<1>4. CASE f \notin Starting
  <2>1. Starting' \subseteq Starting
    BY <1>4 DEF Starting, Becomes
  <2>2. QED
    BY <1>1, <2>1, BudgetStays
<1>5. QED
  BY <1>3, <1>4

LEMMA BudgetSpent ==
  ASSUME Typed, LaneInv, BudgetHolds, NEW f \in futures, LaneStarted(f)
  PROVE  BudgetHolds'
<1> DEFINE g == Lane(f.d, "wait", f.at)
<1>1. f.st = "start" /\ Becomes(f, g) /\ runsToday' = runsToday + 1
  BY DEF LaneStarted
<1>2. g.st = "wait"
  BY DEF Lane
<1> HIDE DEF g
<1>3. f \in Starting
  BY <1>1 DEF Starting, LaneInv, Fits
<1>4. Starting' \subseteq Starting \ {f}
  BY <1>1, <1>2 DEF Starting, Becomes
<1>5. runsToday + Cardinality(Starting) <= RunsPerDay /\ runsToday \in Nat
  BY DEF BudgetHolds, Starting, Typed, ConfigTyped
<1>6. Cardinality(Starting) \in Nat /\ IsFiniteSet(Starting)
  BY StartingCounted
<1>7. IsFiniteSet(Starting \ {f}) /\ Cardinality(Starting \ {f}) = Cardinality(Starting) - 1
  BY <1>3, <1>6, FS_RemoveElement
<1>8. IsFiniteSet(Starting') /\ Cardinality(Starting') <= Cardinality(Starting \ {f})
  BY <1>4, <1>7, FS_Subset
<1>9. Cardinality(Starting') \in Nat
  BY <1>8, FS_CardinalityType
<1>10. runsToday' + Cardinality(Starting') <= RunsPerDay
  BY <1>1, <1>5, <1>6, <1>7, <1>8, <1>9, BotAssumption
<1>11. QED
  BY <1>10, Zenon DEF BudgetHolds, Starting

LEMMA BudgetReserved ==
  ASSUME Typed, LaneInv, BudgetHolds, NEW i \in DOMAIN pending, DispatchLane(i)
  PROVE  BudgetHolds'
<1>1. PICK g : g = Lane(pending[i], FirstStep(pending[i]), TargetOf(pending[i]))
  OBVIOUS
<1>2. Reserved < RunsPerDay /\ futures' = futures \cup {g} /\ UNCHANGED runsToday
  BY <1>1 DEF DispatchLane, restVars
<1>3. /\ Cardinality(Starting) \in Nat /\ IsFiniteSet(Starting)
      /\ runsToday + Cardinality(Starting) <= Reserved /\ Reserved \in Nat /\ runsToday \in Nat
  BY StartingCounted DEF Typed, ConfigTyped
<1>4. Starting' \subseteq Starting \cup {g}
  BY <1>2 DEF Starting
<1>5. /\ IsFiniteSet(Starting \cup {g})
      /\ Cardinality(Starting \cup {g}) <= Cardinality(Starting) + 1
  <2>1. /\ IsFiniteSet(Starting \cup {g})
        /\ \/ Cardinality(Starting \cup {g}) = Cardinality(Starting)
           \/ Cardinality(Starting \cup {g}) = Cardinality(Starting) + 1
    BY <1>3, FS_AddElement
  <2>2. QED
    BY <1>3, <2>1
<1>6. IsFiniteSet(Starting') /\ Cardinality(Starting') <= Cardinality(Starting \cup {g})
  BY <1>4, <1>5, FS_Subset
<1>7. Cardinality(Starting') \in Nat /\ Cardinality(Starting \cup {g}) \in Nat
  BY <1>5, <1>6, FS_CardinalityType
<1>8. runsToday' + Cardinality(Starting') <= RunsPerDay
  BY <1>2, <1>3, <1>5, <1>6, <1>7, BotAssumption
<1>9. QED
  BY <1>8 DEF BudgetHolds, Starting

LEMMA BudgetKept ==
  ASSUME Typed, LaneInv, BudgetHolds, [Next]_vars
  PROVE  BudgetHolds'
<1>0. runsToday \in Nat
  BY DEF Typed, ConfigTyped
<1>1. ASSUME futures' \subseteq futures, UNCHANGED runsToday PROVE BudgetHolds'
  BY <1>0, <1>1, BudgetStays DEF Starting
<1>2. CASE UNCHANGED vars \/ SessionStep
  BY <1>1, <1>2
  DEF vars, SessionStep, ForeignWork, SessionDies, StartLands, RunEnds, RepeatTerminal, laneVars,
      restVars
<1>3. CASE SignalStep
  <2>1. CASE NewDay
    <3>1. UNCHANGED futures /\ runsToday' = 0
      BY <2>1 DEF NewDay, laneVars
    <3>2. QED
      BY <1>0, <3>1, BudgetStays DEF Starting
  <2>2. CASE ~NewDay
    BY <1>1, <1>3, <2>2
    DEF SignalStep, AcceptEvent, AcceptConfig, CloseBot, RequestRotation, PauseEnds, laneVars,
        restVars
  <2>3. QED
    BY <2>1, <2>2
<1>4. CASE (\E s \in Sessions : SidecarEnds(s)) \/ (\E x \in settling : Settle(x))
  BY <1>1, <1>4 DEF SidecarEnds, Settle
<1>5. ASSUME NEW f \in futures, LaneStep(f) PROVE BudgetHolds'
  <2>1. ASSUME NEW st, NEW s, Becomes(f, Lane(f.d, st, s)), UNCHANGED runsToday,
               st \in {"ensure", "status", "start"} => f.st \in {"ensure", "status", "start"}
        PROVE  BudgetHolds'
    <3> DEFINE g == Lane(f.d, st, s)
    <3>1. g.d = f.d /\ g.st = st
      BY DEF Lane
    <3>2. Becomes(f, g)
      BY <2>1
    <3> HIDE DEF g
    <3>3. QED
      BY <2>1, <3>1, <3>2, BudgetPassed
  <2>2. CASE LaneEnsures(f)
    <3>1. f.st = "ensure" /\ UNCHANGED runsToday
      BY <2>2 DEF LaneEnsures, restVars
    <3>2. PICK st : Becomes(f, Lane(f.d, st, f.next))
      BY <2>2 DEF LaneEnsures
    <3>3. QED
      BY <2>1, <3>1, <3>2
  <2>3. CASE LaneMismatch(f)
    <3>1. PICK g : g = [f EXCEPT !.next = <<f.at[1], gen[f.at[1]] + 1>>]
      OBVIOUS
    <3>2. f \in LaneFutures
      BY DEF Typed, LanesTyped
    <3>3. g.d = f.d /\ g.st = f.st
      BY <3>1, <3>2 DEF LaneFutures
    <3>4. Becomes(f, g) /\ UNCHANGED runsToday
      BY <2>3, <3>1 DEF LaneMismatch
    <3>5. QED
      BY <3>3, <3>4, BudgetPassed
  <2>4. CASE LaneFails(f) \/ LaneStartUnclear(f) \/ LaneStartRefused(f) \/ LaneLeaves(f) \/ LaneEnds(f)
    <3>1. futures' = futures \ {f} /\ UNCHANGED runsToday
      BY <2>4
      DEF LaneFails, LaneStartUnclear, LaneStartRefused, LaneLeaves, LaneEnds, Finish, Requeue,
          restVars
    <3>2. QED
      BY <1>1, <3>1
  <2>5. CASE LaneAppends(f) \/ LaneStartDead(f)
    <3>1. UNCHANGED runsToday /\ (futures' = futures \ {f} \/ Goes(f, "leave"))
      BY <2>5 DEF LaneAppends, LaneStartDead, Finish, restVars
    <3>2. QED
      BY <1>1, <2>1, <3>1 DEF Goes
  <2>6. CASE LaneReadsStatus(f)
    <3>1. /\ UNCHANGED runsToday /\ f.st = "status"
          /\ futures' = futures \ {f} \/ Goes(f, "leave") \/ Goes(f, "start")
      BY <2>6 DEF LaneReadsStatus, Finish, Requeue, restVars
    <3>2. QED
      BY <1>1, <2>1, <3>1 DEF Goes
  <2>7. QED
    BY <1>5, <2>2, <2>3, <2>4, <2>5, <2>6, BudgetSpent DEF LaneStep
<1>6. CASE LoopStep
  <2>1. CASE \E i \in DOMAIN pending : DispatchLane(i)
    BY <2>1, BudgetReserved
  <2>2. CASE ContinueAsNew
    BY <1>1, <2>2, QuietLanes DEF ContinueAsNew
  <2>3. CASE SweepCloses \/ IdleClosed \/ ReconcileStep \/ TeardownEnds
    BY <1>1, <2>3, ReconcileDoes DEF SweepCloses, IdleClosed, TeardownEnds, laneVars
  <2>4. CASE FlushBuffer \/ (\E i \in DOMAIN pending : DispatchSidecar(i))
             \/ (\E m \in inbox : TakeTerminal(m))
    BY <1>1, <2>4 DEF FlushBuffer, DispatchSidecar, TakeTerminal, laneVars, restVars
  <2>5. CASE AttachTerminal \/ SweepReads \/ ReconcileBegins \/ TeardownBegins \/ TeardownArchives
    <3>1. UNCHANGED <<futures, runsToday>>
      BY <2>5
      DEF AttachTerminal, SweepReads, ReconcileBegins, TeardownBegins, TeardownArchives, laneVars
    <3>2. QED
      BY <1>1, <3>1
  <2>6. CASE \/ \E s \in Sessions : SweepFailsLane(s) \/ DropRotation(s)
             \/ \E s \in Sessions, why \in {"rotate", "idle"} : CloseIdle(s, why)
    BY <1>1, <2>6 DEF SweepFailsLane, DropRotation, CloseIdle, laneVars, restVars
  <2>7. QED
    BY <1>6, <2>1, <2>2, <2>3, <2>4, <2>5, <2>6 DEF LoopStep
<1>7. QED
  BY <1>2, <1>3, <1>4, <1>5, <1>6 DEF Next

-----------------------------------------------------------------------------
(* The theorems.                                                           *)

LEMMA InitBot ==
  ASSUME Init
  PROVE  BotInv
<1>1. Typed
  BY InitTyped
<1>2. /\ futures = {} /\ pending = <<>> /\ buffer = {} /\ settling = {} /\ accepted = {}
      /\ active = [s \in Sessions |-> NoLane] /\ sidecar = [s \in Sessions |-> NoSidecar]
      /\ outcome = [e \in Events |-> "none"] /\ inbox = {} /\ abroad = {} /\ tracked = {}
      /\ runsToday = 0 /\ loop = [op |-> "park"]
  BY DEF Init, Parked
<1>3. NoLane.d.ev = {} /\ NoLane.terminal = "none" /\ ~NoLane.run /\ NoSidecar.d.ev = {}
  BY DEF NoLane, FreshLane, NoSidecar
<1>4. loop.op = "park"
  BY <1>2
<1>5. LaneInv
  BY <1>2, <1>3, <1>4 DEF LaneInv, Books, Alone, Current, HasLane
<1>6. EventInv
  <2>1. DOMAIN pending = {}
    BY <1>2
  <2>2. /\ Queued = {} /\ OnLanes = {} /\ Beside = {} /\ Settling = {} /\ Settled = {}
    BY <1>2, <1>3, <2>1 DEF Queued, OnLanes, Beside, Settling, Settled
  <2>3. Once
    BY <1>2, <1>3, <2>1 DEF Once, QueueOnce, LanesOnce, SidesOnce, SettlingOnce
  <2>4. Live = {} /\ Apart
    BY <1>2, <2>2 DEF Live, Apart
  <2>5. QED
    BY <1>2, <1>4, <2>2, <2>3, <2>4 DEF EventInv, Closing
<1>7. EndInv
  <2>1. \A s \in Sessions : RunsOf(s) = {}
    BY EmptySeq DEF Init, RunsOf
  <2>2. \A s \in Sessions : ~Touched(s)
    BY <1>2, <2>1 DEF Touched
  <2>3. TerminalIsOwn
    BY <1>2, <1>3 DEF TerminalIsOwn
  <2>4. QED
    BY <1>2, <1>4, <2>1, <2>2, <2>3 DEF EndInv
<1>8. BudgetHolds
  <2>1. Starting = {}
    BY <1>2 DEF Starting
  <2>2. runsToday + Cardinality(Starting) <= RunsPerDay
    BY <1>2, <2>1, FS_EmptySet, BotAssumption
  <2>3. QED
    BY <2>2 DEF BudgetHolds, Starting
<1>9. QED
  BY <1>1, <1>5, <1>6, <1>7, <1>8 DEF BotInv

LEMMA BotInvKept ==
  ASSUME BotInv, [Next]_vars, [NoneOvertakes]_vars, [NoneForgotten]_vars
  PROVE  BotInv'
BY TypedKept, LanesKept, EventsKept, EndsKept, BudgetKept DEF BotInv

(* Where every event is, what the books say of every lane and whose end a  *)
(* lane is given, in every behaviour in which no delivery overtakes a lane *)
(* that is being moved (rekey_lane, state.rs:1093) and no event comes      *)
(* again past the tail of remembered ids (SeenIds, state.rs:206).          *)
THEOREM BotInvariant == Spec /\ InTurn /\ Remembered => []BotInv
<1>1. Init => BotInv
  BY InitBot
<1>2. BotInv /\ [Next]_vars /\ [NoneOvertakes]_vars /\ [NoneForgotten]_vars => BotInv'
  BY BotInvKept
<1>3. QED
  BY <1>1, <1>2, PTL DEF Spec, InTurn, Remembered

LEMMA CountOne ==
  ASSUME NEW S, \A x, y \in S : x = y
  PROVE  Cardinality(S) = IF S = {} THEN 0 ELSE 1
<1>1. CASE S = {}
  BY <1>1, FS_EmptySet
<1>2. CASE S # {}
  <2>1. PICK x \in S : TRUE
    BY <1>2
  <2>2. S = {x}
    BY <2>1
  <2>3. QED
    BY <2>2, FS_Singleton
<1>3. QED
  BY <1>1, <1>2

LEMMA OnePlace ==
  ASSUME Typed, EventInv, NEW e \in Events
  PROVE  Places(e) = (IF e \in Queued THEN 1 ELSE 0) + (IF e \in buffer THEN 1 ELSE 0)
                     + (IF e \in OnLanes THEN 1 ELSE 0) + (IF e \in Beside THEN 1 ELSE 0)
                     + (IF e \in Settling THEN 1 ELSE 0) + (IF e \in Settled THEN 1 ELSE 0)
<1> DEFINE Q == {i \in DOMAIN pending : e \in pending[i].ev}
           L == {f \in futures : e \in f.d.ev}
           B == {s \in Sessions : e \in sidecar[s].d.ev}
           S == {x \in settling : e \in x.ev}
<1>1. Cardinality(Q) = IF e \in Queued THEN 1 ELSE 0
  <2>1. \A i, j \in Q : i = j
    BY DEF EventInv, Once, QueueOnce
  <2>2. Q = {} <=> e \notin Queued
    BY DEF Queued
  <2>3. QED
    BY <2>1, <2>2, CountOne
<1>2. Cardinality(L) = IF e \in OnLanes THEN 1 ELSE 0
  <2>1. \A f, g \in L : f = g
    BY DEF EventInv, Once, LanesOnce
  <2>2. L = {} <=> e \notin OnLanes
    BY DEF OnLanes
  <2>3. QED
    BY <2>1, <2>2, CountOne
<1>3. Cardinality(B) = IF e \in Beside THEN 1 ELSE 0
  <2>1. \A s, t \in B : s = t
    BY DEF EventInv, Once, SidesOnce
  <2>2. B = {} <=> e \notin Beside
    BY DEF Beside
  <2>3. QED
    BY <2>1, <2>2, CountOne
<1>4. Cardinality(S) = IF e \in Settling THEN 1 ELSE 0
  <2>1. \A x, y \in S : x = y
    BY DEF EventInv, Once, SettlingOnce
  <2>2. S = {} <=> e \notin Settling
    BY DEF Settling
  <2>3. QED
    BY <2>1, <2>2, CountOne
<1>5. outcome[e] # "none" <=> e \in Settled
  BY DEF Settled
<1>6. Places(e) = Cardinality(Q) + (IF e \in buffer THEN 1 ELSE 0) + Cardinality(L)
                  + Cardinality(B) + Cardinality(S) + (IF outcome[e] # "none" THEN 1 ELSE 0)
  BY DEF Places
<1> HIDE DEF Q, L, B, S
<1>7. QED
  BY <1>1, <1>2, <1>3, <1>4, <1>5, <1>6

(* No retry, move, rotation, requeue or continue-as-new loses or doubles   *)
(* an event: until the bot closes, each accepted event is in exactly one   *)
(* of the queue, the buffer, a lane, a sidecar, an outcome on its way and  *)
(* an outcome recorded (controller/state.rs, controller/lanes.rs).         *)
THEOREM EventsAlwaysAccounted == Spec /\ InTurn /\ Remembered => []EventsAccounted
<1>1. BotInv => EventsAccounted
  <2>1. SUFFICES ASSUME BotInv, ~Closing, NEW e \in Events
                 PROVE  Places(e) = IF e \in accepted THEN 1 ELSE 0
    BY DEF EventsAccounted, Closing
  <2>2. Typed /\ EventInv
    BY <2>1 DEF BotInv
  <2>3. accepted = Live \cup Settled /\ Live \cap Settled = {} /\ Apart
    BY <2>1, <2>2 DEF EventInv
  <2>4. CASE e \in accepted
    BY <2>2, <2>3, <2>4, OnePlace DEF Live, Apart
  <2>5. CASE e \notin accepted
    BY <2>2, <2>3, <2>5, OnePlace DEF Live
  <2>6. QED
    BY <2>4, <2>5
<1>2. QED
  BY <1>1, BotInvariant, PTL

(* The end a lane is given, attached when it is signalled or when the run  *)
(* has ended before the lane waits, is the end of its own run on its own   *)
(* session (lane_awaits_terminal_from and attach_terminal, state.rs:1112). *)
THEOREM TerminalAlwaysOwn == Spec /\ InTurn /\ Remembered => []TerminalIsOwn
BY BotInvariant, PTL DEF BotInv, EndInv

(* A bot that has been torn down leaves no event it held without an        *)
(* outcome, recorded or on its way, whatever lanes do while it archives    *)
(* and closes (controller.rs:866); only what a sidecar had when the        *)
(* teardown began is dropped with the sidecar.                             *)
THEOREM TeardownSettlesAll == Spec /\ InTurn /\ Remembered => []ClosedSettlesAll
<1>1. BotInv => ClosedSettlesAll
  <2>1. SUFFICES ASSUME BotInv, loop.op = "done", NEW e \in loop.known
                 PROVE  outcome[e] # "none" \/ \E x \in settling : e \in x.ev
    BY DEF ClosedSettlesAll
  <2>2. e \in Settled \cup Settling
    BY <2>1 DEF BotInv, EventInv
  <2>3. QED
    BY <2>2 DEF Settled, Settling
<1>2. QED
  BY <1>1, BotInvariant, PTL

(* The runs of the day and the lanes that may still start one are within   *)
(* the budget, however many sessions run at once and whatever is retried   *)
(* (reserved_runs, state.rs:901).                                          *)
THEOREM BudgetAlwaysHolds == Spec /\ InTurn /\ Remembered => []BudgetHolds
BY BotInvariant, PTL DEF BotInv

LEMMA NothingOvertakes ==
  ASSUME \A e \in Events : Base[e] = Main, BotInv
  PROVE  NoneOvertakes
<1>1. \A f \in futures : f.st # "ensure"
  <2>1. SUFFICES ASSUME NEW f \in futures PROVE BaseOf(f.d) = Main
    BY DEF BotInv, LaneInv, Fits
  <2>2. f.d.ev # {} /\ f.d.ev \subseteq Events
    BY LaneMoves DEF BotInv
  <2>3. PICK e \in f.d.ev : BaseOf(f.d) = Base[e]
    BY <2>2 DEF BaseOf
  <2>4. QED
    BY <2>2, <2>3
<1>2. \A f \in futures : ~Moving(f) /\ ~LaneMismatch(f)
  BY <1>1 DEF BotInv, LaneInv, Fits, LaneMismatch
<1>3. QED
  BY <1>2 DEF NoneOvertakes, Overtakes

(* A bot that sends every event to its main session (the route             *)
(* BotTriggerRoute::Main) is safe whatever fails, is retried, rotated or   *)
(* rolled over, as long as no event comes again past the tail of ids: it   *)
(* accounts for its events, gives each lane its own end, settles what it   *)
(* held when it is torn down, and keeps its budget.                        *)
THEOREM MainBotSafe ==
  ASSUME \A e \in Events : Base[e] = Main
  PROVE  Spec /\ Remembered => [](EventsAccounted /\ TerminalIsOwn /\ ClosedSettlesAll /\ BudgetHolds)
<1>1. Init => BotInv
  BY InitBot
<1>2. BotInv => NoneOvertakes
  BY NothingOvertakes
<1>3. BotInv /\ [Next]_vars /\ [NoneForgotten]_vars => BotInv'
  BY <1>2, BotInvKept
<1>4. Spec /\ Remembered => InTurn
  BY <1>1, <1>2, <1>3, PTL DEF Spec, InTurn, Remembered
<1>5. QED
  BY <1>4, EventsAlwaysAccounted, TerminalAlwaysOwn, TeardownSettlesAll, BudgetAlwaysHolds, PTL

-----------------------------------------------------------------------------
(* The tail of remembered ids.                                             *)

WithinTail == Cardinality(accepted) <= SeenCap
TailInv == accepted \subseteq Events /\ (WithinTail => seen = accepted)

LEMMA OthersAcceptNothing ==
  ASSUME [Next]_vars
  PROVE  (\E e \in Events : AcceptEvent(e)) \/ UNCHANGED <<accepted, seen>>
<1> USE DEF mailVars
<1>1. CASE SessionStep
  BY <1>1 DEF SessionStep, ForeignWork, SessionDies, StartLands, RunEnds, RepeatTerminal
<1>2. CASE SignalStep
  BY <1>2 DEF SignalStep, AcceptConfig, CloseBot, NewDay, RequestRotation, PauseEnds
<1>3. ASSUME NEW f \in futures, LaneStep(f) PROVE UNCHANGED <<accepted, seen>>
  BY <1>3
  DEF LaneStep, LaneEnsures, LaneMismatch, LaneFails, LaneAppends, LaneReadsStatus, LaneStarted,
      LaneStartUnclear, LaneStartRefused, LaneStartDead, LaneLeaves, LaneEnds
<1>4. ASSUME ReconcileStep PROVE UNCHANGED <<accepted, seen>>
  BY <1>4
  DEF ReconcileStep, ReconcileReads, ReconcileRolls, ReconcileReady, ReconcileRefused,
      ReconcileDead, ReconcileFails
<1>5. CASE LoopStep
  BY <1>4, <1>5
  DEF LoopStep, FlushBuffer, DispatchLane, DispatchSidecar, TakeTerminal, AttachTerminal,
      SweepReads, SweepCloses, SweepFailsLane, DropRotation, CloseIdle, IdleClosed,
      ReconcileBegins, ContinueAsNew, TeardownBegins, TeardownArchives, TeardownEnds
<1>6. QED
  BY <1>1, <1>2, <1>3, <1>5 DEF Next, SidecarEnds, Settle, vars

LEMMA TailKept ==
  ASSUME TailInv, [Next]_vars
  PROVE  TailInv'
<1>1. CASE UNCHANGED <<accepted, seen>>
  BY <1>1 DEF TailInv, WithinTail
<1>2. ASSUME NEW e \in Events, AcceptEvent(e) PROVE TailInv'
  <2>1. accepted' = accepted \cup {e} /\ e \notin seen /\ seen' \in Remember(seen, e)
    BY <1>2 DEF AcceptEvent
  <2>2. accepted' \subseteq Events
    BY <2>1 DEF TailInv
  <2>3. ASSUME WithinTail' PROVE seen' = accepted'
    <3>1. IsFiniteSet(accepted) /\ IsFiniteSet(accepted')
      BY <2>2, FS_Subset, BotAssumption DEF TailInv, BotAssumption
    <3>2. Cardinality(accepted) \in Nat /\ Cardinality(accepted') \in Nat /\ SeenCap \in Nat
      BY <3>1, FS_CardinalityType, BotAssumption DEF BotAssumption
    <3>3. Cardinality(accepted) <= Cardinality(accepted')
      BY <2>1, <3>1, FS_Subset
    <3>4. seen = accepted
      BY <2>3, <3>2, <3>3 DEF TailInv, WithinTail
    <3>5. Cardinality(accepted') = Cardinality(accepted) + 1
      BY <2>1, <3>1, <3>4, FS_AddElement
    <3>6. Cardinality(seen) < SeenCap
      BY <2>3, <3>2, <3>4, <3>5 DEF WithinTail
    <3>7. QED
      BY <2>1, <3>4, <3>6 DEF Remember
  <2>4. QED
    BY <2>2, <2>3 DEF TailInv
<1>3. QED
  BY <1>1, <1>2, OthersAcceptNothing

(* The tail of ids (SeenIds, state.rs:206) does its work up to its length: *)
(* in a behaviour that accepts no more than BOT_SEEN_ID_CAP events, no     *)
(* event is accepted twice, however often it is delivered.                 *)
THEOREM TailRemembers == Spec /\ []WithinTail => Remembered
<1>1. Init => TailInv
  BY DEF Init, TailInv
<1>2. TailInv /\ [Next]_vars => TailInv'
  BY TailKept
<1>3. TailInv /\ WithinTail => NoneForgotten
  BY DEF TailInv, NoneForgotten, AcceptEvent
<1>4. QED
  BY <1>1, <1>2, <1>3, PTL DEF Spec, Remembered

=============================================================================
