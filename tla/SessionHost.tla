---------------------------- MODULE SessionHost ----------------------------
(***************************************************************************)
(* The executions of one session's workflow, one after the other, over the *)
(* session's log: bootstrap, the drive's appends, stopping anywhere,       *)
(* restart, rollover, and the gateway closing a session without them.      *)
(*                                                                         *)
(* Temporal keeps at most one execution open per session, but what an      *)
(* execution sent before it stopped can still reach the log afterwards.    *)
(* A run is reduced to what recovery tells apart: accepted, started, its   *)
(* work done outside, parked, resumed, ended.                              *)
(***************************************************************************)
EXTENDS SessionLog, SequencesExt

CONSTANTS
  MaxRuns,       \* bound: runs accepted
  MaxExecutions, \* bound: executions started
  ResentRunTerminals, \* how many ended runs a restart notifies again
  RetainedRuns,  \* MAX_RETAINED_TERMINAL_RUNS
  Features       \* which faults and commands an instance includes

ASSUME HostAssumption ==
  /\ MaxRuns \in Nat /\ MaxExecutions \in Nat /\ ResentRunTerminals \in Nat
  /\ RetainedRuns \in Nat
  /\ Features \subseteq {"stop", "restart", "rollover", "park", "close", "forceClose"}

Runs == 1..MaxRuns
None == [head |-> 0, events |-> <<>>, by |-> 0]

VARIABLES
  phase,     \* of the current execution
  id,        \* which execution that is
  restarted, \* it took over from one that stopped
  view,      \* the log as it has applied it
  pending,   \* the append it awaits
  result,    \* the run whose work it has done but not yet logged, or 0
  outbox,    \* ended runs whose holders it has yet to signal
  asked,     \* the gateway found the session open and will start an execution
  closer,    \* the log a direct close was prepared against, or <<>>
  closing,   \* what the direct close does next, or how the last one ended
  telling,   \* the runs whose holders it has yet to signal
  missed,    \* history: the runs whose signal failed
  worked,    \* history: how often each run's work was done
  notified   \* history: runs whose holders were signalled

execVars == <<phase, id, restarted, view, pending, result, outbox>>
tellVars == <<closing, telling, missed>>
hostVars == <<execVars, asked, closer, tellVars, worked, notified>>
vars == <<logVars, hostVars>>

-----------------------------------------------------------------------------
(* What a log says.                                                        *)

Says(l, kind, r) == \E i \in DOMAIN l : l[i].kind = kind /\ l[i].run = r
WithEvent(l, kind) == {r \in Runs : Says(l, kind, r)}

EndedIn(l) == WithEvent(l, "Ended")
QueuedIn(l) == WithEvent(l, "Accepted") \ (WithEvent(l, "Started") \cup EndedIn(l))
ActiveIn(l) == WithEvent(l, "Started") \ EndedIn(l)
ParkedIn(l) == (WithEvent(l, "Parked") \ WithEvent(l, "Unparked")) \cap ActiveIn(l)
ClosedIn(l) == Says(l, "Closed", 0)

\* Where a log says that a run ended, and the last of these places.
Ends(l) == {i \in DOMAIN l : l[i].kind = "Ended"}
LastEnds(l, n) == {i \in Ends(l) : Cardinality({j \in Ends(l) : j > i}) < n}
NewestEnds(l) == LastEnds(l, ResentRunTerminals)

\* The ended runs whose records the state replayed from a log still has.
Retained(l) == {l[i].run : i \in LastEnds(l, RetainedRuns)}

Event(kind, r, by) == [kind |-> kind, run |-> r, by |-> by]

\* CloseSession with force: the active run and the queued ones end, in an
\* order nothing here depends on, and the session closes, in one append.
CloseEvents(l, by) ==
  LET ending == ActiveIn(l) \cup QueuedIn(l)
      order == CHOOSE f \in Bijection(1..Cardinality(ending), ending) : TRUE
  IN Append([i \in 1..Cardinality(ending) |-> Event("Ended", order[i], by)],
            Event("Closed", 0, by))

-----------------------------------------------------------------------------
Init ==
  /\ LogInit
  /\ phase = "none" /\ id = 0 /\ restarted = FALSE
  /\ view = <<>> /\ pending = None /\ result = 0 /\ outbox = {}
  /\ asked = FALSE /\ closer = <<>>
  /\ closing = "none" /\ telling = {} /\ missed = {}
  /\ worked = [r \in Runs |-> 0] /\ notified = {}

Running == phase \in {"loading", "recovering", "ready"}

\* The execution sends an append prepared against what it has applied.
Issue(events) ==
  LET q == [head |-> Len(view), events |-> events, by |-> id] IN
  /\ pending = None
  /\ pending' = q
  /\ Send(q)

NextExecution(isRestart) ==
  /\ id < MaxExecutions
  /\ id' = id + 1 /\ phase' = "loading" /\ restarted' = isRestart
  /\ view' = <<>> /\ pending' = None /\ result' = 0 /\ outbox' = {}

-----------------------------------------------------------------------------
(* Bootstrap.                                                              *)

\* A client starts the session, or starts it again when nothing was written.
StartSession ==
  /\ phase \in {"none", "stopped"} /\ log = <<>>
  /\ NextExecution(FALSE)
  /\ UNCHANGED <<logVars, asked, closer, tellVars, worked, notified>>

\* create_or_load_session, then: open a fresh session, or go on with the
\* loaded one.  A restart has no log to take over when none was written.
LoadFresh ==
  /\ phase = "loading" /\ log = <<>> /\ pending = None
  /\ IF restarted
     THEN phase' = "stopped" /\ UNCHANGED <<logVars, pending>>
     ELSE Issue(<<Event("Opened", 0, id)>>) /\ UNCHANGED phase
  /\ UNCHANGED <<id, restarted, view, result, outbox, asked, closer, tellVars, worked, notified>>

\* Mutant: nothing is queued again for runs that had already ended.
RecentTerminalsDropped == {}

\* The runs that ended last, whose notifications may have died with the
\* execution that was to send them.
RecentTerminals == {log[i].run : i \in NewestEnds(log)}

Load ==
  /\ phase = "loading" /\ log # <<>> /\ pending = None
  /\ view' = log
  /\ phase' = IF restarted THEN "recovering" ELSE "ready"
  /\ outbox' = IF restarted THEN RecentTerminals ELSE {}
  /\ UNCHANGED <<logVars, id, restarted, pending, result, asked, closer, tellVars, worked, notified>>

\* Mutant: a restart goes on with the run it finds.
InterruptedNone == {}

\* The active run, unless it is parked.
InterruptedRun == ActiveIn(view) \ ParkedIn(view)

\* recover_interrupted_work: fail the interrupted run, then open for work.
FailInterrupted ==
  /\ phase = "recovering"
  /\ \E r \in InterruptedRun : Issue(<<Event("Ended", r, id)>>)
  /\ UNCHANGED <<phase, id, restarted, view, result, outbox, asked, closer, tellVars, worked, notified>>

FinishRecovery ==
  /\ phase = "recovering" /\ InterruptedRun = {} /\ pending = None
  /\ phase' = "ready"
  /\ UNCHANGED <<logVars, id, restarted, view, pending, result, outbox, asked, closer, tellVars, worked, notified>>

-----------------------------------------------------------------------------
(* The session loop.                                                       *)

\* The loop is between appends, with nothing of its own in flight.
AtLoop == phase = "ready" /\ pending = None /\ result = 0

\* Commands and planned steps, each one append.  Commands land while work is
\* under way; a close ends the run and with it the wait for its result.
LoopAppend(events) ==
  /\ phase = "ready" /\ ~ClosedIn(view)
  /\ Issue(events)
  /\ result' = IF Last(events).kind = "Closed" THEN 0 ELSE result
  /\ UNCHANGED <<phase, id, restarted, view, outbox, asked, closer, tellVars, worked, notified>>

AcceptRun ==
  LET r == 1 + Cardinality(WithEvent(view, "Accepted")) IN
  r \in Runs /\ LoopAppend(<<Event("Accepted", r, id)>>)

StartRun ==
  /\ ActiveIn(view) = {}
  /\ \E r \in QueuedIn(view) :
       /\ \A q \in QueuedIn(view) : r <= q
       /\ LoopAppend(<<Event("Started", r, id)>>)

CancelQueuedRun ==
  \E r \in QueuedIn(view) : LoopAppend(<<Event("Ended", r, id)>>)

UnparkRun ==
  \E r \in ParkedIn(view) : LoopAppend(<<Event("Unparked", r, id)>>)

CloseSession ==
  "close" \in Features /\ LoopAppend(CloseEvents(view, id))

\* The active run's generation or tool call runs outside: it takes effect
\* when the activity does, and the log only hears of it with the next append.
DoWork ==
  /\ AtLoop
  /\ \E r \in ActiveIn(view) \ ParkedIn(view) :
       /\ ~Says(view, "Unparked", r)
       /\ result' = r
       /\ worked' = [worked EXCEPT ![r] = @ + 1]
  /\ UNCHANGED <<logVars, phase, id, restarted, view, pending, outbox, asked, closer, tellVars, notified>>

\* A run resumed from a park ends without work of the kind above.
LogResult ==
  /\ phase = "ready" /\ pending = None
  /\ \E r \in ActiveIn(view) \ ParkedIn(view) :
       /\ result = r \/ Says(view, "Unparked", r)
       /\ \/ Issue(<<Event("Ended", r, id)>>)
          \/ "park" \in Features /\ result = r /\ Issue(<<Event("Parked", r, id)>>)
  /\ result' = 0
  /\ UNCHANGED <<phase, id, restarted, view, outbox, asked, closer, tellVars, worked, notified>>

\* Mutant: notifications are queued when an append is sent.
AppliedOutboxEarly(events) == outbox

\* What applying an append adds to the notifications to send.
AppliedOutbox(events) ==
  outbox \cup {events[i].run : i \in {j \in DOMAIN events : events[j].kind = "Ended"}}

\* The append activity answers: its entries are applied.
AppendSucceeds ==
  /\ Running /\ pending # None
  /\ LandHeard(pending)
  /\ view' = view \o pending.events
  /\ outbox' = AppliedOutbox(pending.events)
  /\ pending' = None
  /\ phase' = IF phase = "loading" THEN "ready" ELSE phase
  /\ UNCHANGED <<id, restarted, result, asked, closer, tellVars, worked, notified>>

\* The append activity fails for good, which ends the execution.
AppendFails ==
  /\ Running /\ pending # None /\ pending \in abroad
  /\ Refused(pending)
  /\ phase' = "stopped" /\ view' = <<>> /\ pending' = None /\ result' = 0 /\ outbox' = {}
  /\ UNCHANGED <<id, restarted, asked, closer, tellVars, worked, notified>>

FlushEmissions ==
  /\ AtLoop /\ outbox # {}
  /\ notified' = notified \cup outbox /\ outbox' = {}
  /\ UNCHANGED <<logVars, phase, id, restarted, view, pending, result, asked, closer, tellVars, worked>>

\* The session is closed and nothing is left to do.
Complete ==
  /\ AtLoop /\ ClosedIn(view) /\ outbox = {}
  /\ phase' = "completed"
  /\ UNCHANGED <<logVars, id, restarted, view, pending, result, outbox, asked, closer, tellVars, worked, notified>>

\* Mutant: an execution rolls over with notifications still queued.
MayRollOverAnytime == AtLoop /\ ~ClosedIn(view)

\* Nothing in memory would be lost: the drive is between appends and every
\* queue is empty.
MayRollOver == AtLoop /\ outbox = {} /\ ~ClosedIn(view)

\* Continue-as-new: the next execution carries that this one was ready.
RollOver ==
  /\ "rollover" \in Features
  /\ MayRollOver
  /\ NextExecution(FALSE)
  /\ UNCHANGED <<logVars, asked, closer, tellVars, worked, notified>>

-----------------------------------------------------------------------------
(* Stopping, restarting, and closing without an execution.                 *)

\* An execution fails, or an operator terminates it.
Stop ==
  /\ "stop" \in Features /\ Running
  /\ phase' = "stopped" /\ view' = <<>> /\ pending' = None /\ result' = 0 /\ outbox' = {}
  /\ UNCHANGED <<logVars, id, restarted, asked, closer, tellVars, worked, notified>>

\* An attempt of a request nobody waits for any more, or whose answer is lost.
StrayAttempt ==
  /\ \E q \in abroad : LandUnheard(q)
  /\ UNCHANGED hostVars

\* session/restart and a retried session/start: only an open session with run
\* history whose execution has stopped.
AskRestart ==
  /\ "restart" \in Features /\ ~asked
  /\ phase = "stopped"
  /\ log # <<>> /\ ~ClosedIn(log) /\ WithEvent(log, "Accepted") # {}
  /\ asked' = TRUE
  /\ UNCHANGED <<logVars, execVars, closer, tellVars, worked, notified>>

\* Temporal refuses a second execution; losing that race is success.
StartRestart ==
  /\ asked /\ asked' = FALSE
  /\ IF Running
     THEN UNCHANGED execVars
     ELSE NextExecution(TRUE)
  /\ UNCHANGED <<logVars, closer, tellVars, worked, notified>>

\* Mutant: only the runs that this close ended are told.
SignalledByCloseNarrow == Retained(log) \ EndedIn(closer)

\* notify_run_terminals: the holders of every run the closed state still has,
\* whenever it ended.
SignalledByClose == Retained(log)

\* force_close_session_in_store loads the log.  An execution that runs is asked
\* and terminated first, but terminating may fail and another may start.  A
\* session that is closed already has its holders told again.
ForceCloseLoads ==
  /\ "forceClose" \in Features /\ closing \in {"none", "done"} /\ log # <<>>
  /\ IF ClosedIn(log)
     THEN closing' = "tell" /\ telling' = SignalledByClose /\ UNCHANGED closer
     ELSE closing' = "append" /\ closer' = log /\ UNCHANGED telling
  /\ missed' = {}
  /\ UNCHANGED <<logVars, execVars, asked, worked, notified>>

\* The close is appended against the head that was loaded.  Another head fails
\* the request, and so does an answer that is lost.
ForceCloseAppends ==
  LET q == [head |-> Len(closer), events |-> CloseEvents(closer, 0), by |-> 0] IN
  /\ closing = "append" /\ closer # <<>>
  /\ \/ /\ Commit(q) /\ UNCHANGED abroad
        /\ \/ acked' = acked \cup {q} /\ closing' = "reload" /\ UNCHANGED closer
           \/ acked' = acked /\ closing' = "none" /\ closer' = <<>>
     \/ ~HeadMatches(q) /\ closing' = "none" /\ closer' = <<>> /\ UNCHANGED logVars
  /\ UNCHANGED <<execVars, asked, telling, missed, worked, notified>>

\* The closed state is loaded again ...
ForceCloseReads ==
  /\ closing = "reload"
  /\ closing' = "tell" /\ telling' = SignalledByClose /\ closer' = <<>>
  /\ UNCHANGED <<logVars, execVars, asked, missed, worked, notified>>

\* ... and its holders are signalled one by one.  A signal that fails is only
\* logged.
ForceCloseTells(r) ==
  /\ closing = "tell" /\ r \in telling
  /\ telling' = telling \ {r}
  /\ \/ notified' = notified \cup {r} /\ UNCHANGED missed
     \/ missed' = missed \cup {r} /\ UNCHANGED notified
  /\ UNCHANGED <<logVars, execVars, asked, closer, closing, worked>>

ForceCloseEnds ==
  /\ closing = "tell" /\ telling = {}
  /\ closing' = "done"
  /\ UNCHANGED <<logVars, execVars, asked, closer, telling, missed, worked, notified>>

\* Loading fails, or the gateway stops: the close is in the log, or not, and
\* nobody is told by this request.
ForceCloseFails ==
  /\ closing \in {"append", "reload", "tell"}
  /\ closing' = "none" /\ closer' = <<>> /\ telling' = {}
  /\ UNCHANGED <<logVars, execVars, asked, missed, worked, notified>>

ForceClose ==
  \/ ForceCloseLoads \/ ForceCloseAppends \/ ForceCloseReads
  \/ ForceCloseEnds \/ ForceCloseFails \/ \E r \in Runs : ForceCloseTells(r)

-----------------------------------------------------------------------------
Loop ==
  \/ AcceptRun \/ StartRun \/ CancelQueuedRun \/ UnparkRun \/ CloseSession
  \/ DoWork \/ LogResult \/ FlushEmissions \/ Complete \/ RollOver

Bootstrap == StartSession \/ LoadFresh \/ Load \/ FailInterrupted \/ FinishRecovery

Next ==
  \/ Bootstrap \/ Loop \/ AppendSucceeds \/ AppendFails
  \/ Stop \/ StrayAttempt
  \/ AskRestart \/ StartRestart \/ ForceClose

Spec == Init /\ [][Next]_vars

\* The append activity is retried until it is answered, loading too, and the
\* loop does not stop on its own.  Nothing makes a client or an operator act.
Fairness ==
  /\ WF_vars(LoadFresh \/ Load) /\ WF_vars(FailInterrupted \/ FinishRecovery)
  /\ WF_vars(AppendSucceeds \/ AppendFails)
  /\ WF_vars(FlushEmissions) /\ WF_vars(Complete)
  /\ WF_vars(DoWork) /\ WF_vars(LogResult)

FairSpec == Spec /\ Fairness

-----------------------------------------------------------------------------
Events == [kind : {"Opened", "Accepted", "Started", "Parked", "Unparked", "Ended", "Closed"},
           run : 0..MaxRuns, by : 0..MaxExecutions]

TypeOK ==
  /\ log \in Seq(Events) /\ view \in Seq(Events) /\ closer \in Seq(Events)
  /\ phase \in {"none", "loading", "recovering", "ready", "stopped", "completed"}
  /\ id \in 0..MaxExecutions /\ restarted \in BOOLEAN /\ asked \in BOOLEAN
  /\ result \in 0..MaxRuns /\ outbox \subseteq Runs /\ notified \subseteq Runs
  /\ closing \in {"none", "append", "reload", "tell", "done"}
  /\ telling \subseteq Runs /\ missed \subseteq Runs
  /\ \A q \in abroad \cup {pending} \cup applied :
       q.head \in Nat /\ q.events \in Seq(Events) /\ q.by \in 0..MaxExecutions
  /\ worked \in [Runs -> Nat]

\* An execution never goes on from something the log does not say.  Strays of
\* earlier executions and direct closes may put it behind, never beside.
ViewIsLog == IsPrefix(view, log)

\* Every event is one its prefix allows: runs start alone and end once, and a
\* closed session takes no more events, whoever wrote and in whatever order
\* the attempts landed.
LegalAfter(l, e) ==
  /\ ~ClosedIn(l)
  /\ (e.kind = "Opened") <=> (l = <<>>)
  /\ e.kind = "Accepted" => ~Says(l, "Accepted", e.run)
  /\ e.kind = "Started" => e.run \in QueuedIn(l) /\ ActiveIn(l) = {}
  /\ e.kind = "Parked" => e.run \in ActiveIn(l) \ ParkedIn(l)
  /\ e.kind = "Unparked" => e.run \in ParkedIn(l)
  /\ e.kind = "Ended" => e.run \in ActiveIn(l) \cup QueuedIn(l)
  /\ e.kind = "Closed" => ActiveIn(l) \cup QueuedIn(l) = {}

HistoryIsLegal == \A i \in DOMAIN log : LegalAfter(SubSeq(log, 1, i - 1), log[i])

\* A call that is unsafe to repeat is never made twice, by one execution or by
\* two: what was in flight when an execution stopped fails instead.
WorkDoneOnce == \A r \in Runs : worked[r] <= 1

\* The ended runs whose holders this execution answers for: the ones it
\* ended itself and, after a rollover, the ones its predecessor ended, after a
\* restart, the last ones anybody ended.  Nobody answers for an append that
\* lands two executions after its sender, and the gateway (0) for its own.
Owed(l) ==
  {l[i].run : i \in {j \in Ends(l) :
     \/ l[j].by = id
     \/ IF restarted THEN j \in NewestEnds(l) ELSE l[j].by = id - 1 /\ l[j].by # 0}}

\* An execution that is open for work has sent, or still holds, the
\* notification of every ended run it answers for, however often sessions
\* stopped and rolled over before it.
TerminalsKept == phase = "ready" => Owed(view) \subseteq notified \cup outbox

\* An execution that completed has told the holder of every run it answers
\* for.  A direct close that reports success has told the holder of every run
\* the closed session still has a record of, whenever that run ended and
\* whatever landed between its steps, but for the signals that failed.
ClosedTellsEveryone ==
  /\ phase = "completed" => Owed(log) \subseteq notified
  /\ closing = "done" => ClosedIn(log) /\ Retained(log) \subseteq notified \cup missed

\* Seen by its callers, the log applies every append once and acknowledges
\* only what it applied.
Promise == INSTANCE Journal WITH log <- log, applied <- applied, acked <- acked
ImplementsJournal == Promise!Spec

\* An execution that starts comes up or stops, whatever lands meanwhile.
RecoveryEnds ==
  phase \in {"loading", "recovering"} ~> phase \in {"ready", "stopped", "completed"}

=============================================================================
