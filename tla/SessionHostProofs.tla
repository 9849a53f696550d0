------------------------- MODULE SessionHostProofs -------------------------
(***************************************************************************)
(* Proofs about SessionHost for any number of runs and executions: the log *)
(* implements Journal, and what an execution works from is the log.        *)
(***************************************************************************)
EXTENDS SessionHost, FiniteSetTheorems, SequenceTheorems, TLAPS

-----------------------------------------------------------------------------
(* The inductive invariant.                                                *)

End(q) == q.head + Len(q.events)

Request(q) ==
  /\ q.head \in Nat /\ q.by \in Nat
  /\ q.events \in Seq(Events) /\ q.events # <<>>
  /\ \A k \in 1..Len(q.events) : q.events[k].by = q.by

Typed ==
  /\ log \in Seq(Events) /\ view \in Seq(Events) /\ closer \in Seq(Events)
  /\ id \in 0..MaxExecutions
  /\ phase \in {"none", "loading", "recovering", "ready", "stopped", "completed"}
  /\ \A q \in abroad \cup applied : Request(q)

\* An append that took effect lies within the log, and every event of the log
\* is there because its sender's append took effect.
Placed == \A q \in applied : End(q) <= Len(log)
Covered ==
  \A i \in 1..Len(log) :
    \E q \in applied : q.by = log[i].by /\ q.head < i /\ i <= End(q)

\* Appends other than a direct close were sent by an execution.
Sent ==
  /\ \A q \in applied : q.by # 0 => q \in abroad
  /\ \A q \in abroad : q.by \in 1..id

\* Of its own appends an execution awaits one, and has applied the others.
Caught ==
  Running => \A q \in abroad : q.by = id => q = pending \/ End(q) <= Len(view)

Awaited ==
  /\ pending # None =>
       Running /\ pending \in abroad /\ pending.head = Len(view) /\ pending.by = id
  /\ phase = "loading" => view = <<>>
  /\ Running => id >= 1

LogInv == Typed /\ Placed /\ Covered /\ Sent /\ Caught /\ Awaited /\ ViewIsLog

-----------------------------------------------------------------------------
(* Sequences.                                                              *)

LEMMA PrefixElements ==
  ASSUME NEW S, NEW s \in Seq(S), NEW t \in Seq(S)
  PROVE  IsPrefix(s, t) <=> Len(s) <= Len(t) /\ \A i \in 1..Len(s) : s[i] = t[i]
<1>1. ASSUME Len(s) <= Len(t)
      PROVE  /\ SubSeq(s, 1, Len(s)) = s
             /\ SubSeq(t, 1, Len(s)) \in Seq(S)
             /\ Len(SubSeq(t, 1, Len(s))) = Len(s)
             /\ \A i \in 1..Len(s) : SubSeq(t, 1, Len(s))[i] = t[i]
  <2>1. SubSeq(s, 1, Len(s)) = s
    BY SubSeqFull
  <2>2. Len(s) \in Nat /\ Len(t) \in Nat /\ \A i \in 1..Len(s) : t[i] \in S
    BY <1>1, LenProperties, ElementOfSeq
  <2>3. QED
    BY <2>1, <2>2, SubSeqProperties
<1>2. QED
  BY <1>1, SeqEqual DEF IsPrefix

LEMMA EmptyPrefix ==
  ASSUME NEW S, NEW t \in Seq(S)
  PROVE  IsPrefix(<<>>, t)
<1>1. <<>> \in Seq(S) /\ Len(<<>>) = 0 /\ Len(t) \in Nat
  BY EmptySeq, LenProperties
<1>2. \A e : e = <<>> => IsPrefix(e, t)
  <2>1. SUFFICES ASSUME NEW e, e = <<>> PROVE IsPrefix(e, t)
    OBVIOUS
  <2>2. e \in Seq(S) /\ Len(e) = 0
    BY <1>1, <2>1
  <2>3. Len(e) <= Len(t) /\ \A i \in 1..Len(e) : e[i] = t[i]
    BY <1>1, <2>2
  <2>4. QED
    BY <2>2, <2>3, PrefixElements
<1>3. QED
  BY <1>2

LEMMA PrefixOfConcat ==
  ASSUME NEW S, NEW s \in Seq(S), NEW t \in Seq(S), NEW e \in Seq(S), IsPrefix(s, t)
  PROVE  IsPrefix(s, t \o e)
<1> DEFINE u == t \o e
<1>1. Len(s) \in Nat /\ Len(t) \in Nat /\ Len(e) \in Nat
  BY LenProperties
<1>2. Len(s) <= Len(t) /\ \A i \in 1..Len(s) : s[i] = t[i]
  BY PrefixElements
<1>3. /\ u \in Seq(S) /\ Len(u) = Len(t) + Len(e)
      /\ \A i \in 1 .. Len(t) + Len(e) : u[i] = IF i <= Len(t) THEN t[i] ELSE e[i - Len(t)]
  BY ConcatProperties
<1> HIDE DEF u
<1>4. Len(s) <= Len(u) /\ \A i \in 1..Len(s) : s[i] = u[i]
  BY <1>1, <1>2, <1>3
<1>5. IsPrefix(s, u)
  BY <1>3, <1>4, PrefixElements
<1>6. QED
  BY <1>5 DEF u

\* A view whose successors in the log are the events it applies stays a prefix.
LEMMA PrefixExtended ==
  ASSUME NEW S, NEW s \in Seq(S), NEW t \in Seq(S), NEW e \in Seq(S),
         IsPrefix(s, t), Len(t) >= Len(s) + Len(e),
         SubSeq(t, Len(s) + 1, Len(s) + Len(e)) = e
  PROVE  IsPrefix(s \o e, t)
<1>1. Len(s) \in Nat /\ Len(t) \in Nat /\ Len(e) \in Nat
  BY LenProperties
<1>2. \A i \in (Len(s) + 1)..(Len(s) + Len(e)) : t[i] \in S
  BY <1>1, ElementOfSeq
<1>3. \A i \in 1..Len(e) : e[i] = t[Len(s) + i]
  BY <1>1, <1>2, SubSeqProperties
<1>4. s \o e \in Seq(S) /\ Len(s \o e) = Len(s) + Len(e)
  BY ConcatProperties
<1>5. ASSUME NEW i \in 1..Len(s) + Len(e) PROVE (s \o e)[i] = t[i]
  <2>1. CASE i <= Len(s)
    BY <1>1, <2>1, ConcatProperties, PrefixElements
  <2>2. CASE i > Len(s)
    <3>1. (s \o e)[i] = e[i - Len(s)] /\ i - Len(s) \in 1..Len(e)
      BY <1>1, <2>2, ConcatProperties
    <3>2. QED
      BY <1>1, <1>3, <3>1
  <2>3. QED
    BY <1>1, <2>1, <2>2
<1>6. QED
  BY <1>1, <1>4, <1>5, PrefixElements

-----------------------------------------------------------------------------
(* What is sent.                                                           *)

LEMMA EventType ==
  ASSUME NEW kind \in {"Opened", "Accepted", "Started", "Parked", "Unparked", "Ended", "Closed"},
         NEW r \in 0..MaxRuns, NEW by \in 0..MaxExecutions
  PROVE  /\ Event(kind, r, by) \in Events
         /\ Event(kind, r, by).by = by
         /\ Event(kind, r, by).run = r
         /\ Event(kind, r, by).kind = kind
BY DEF Event, Events

LEMMA SingleEvent ==
  ASSUME NEW kind \in {"Opened", "Accepted", "Started", "Parked", "Unparked", "Ended", "Closed"},
         NEW r \in 0..MaxRuns, NEW by \in 0..MaxExecutions
  PROVE  /\ <<Event(kind, r, by)>> \in Seq(Events) /\ <<Event(kind, r, by)>> # <<>>
         /\ \A k \in 1..Len(<<Event(kind, r, by)>>) : <<Event(kind, r, by)>>[k].by = by
<1>1. Event(kind, r, by) \in Events /\ Event(kind, r, by).by = by
  BY EventType
<1>2. QED
  BY <1>1

LEMMA EndingRuns ==
  ASSUME NEW l
  PROVE  LET ending == ActiveIn(l) \cup QueuedIn(l) IN
         /\ ending \subseteq Runs
         /\ Cardinality(ending) \in Nat
         /\ Bijection(1..Cardinality(ending), ending) # {}
<1> DEFINE ending == ActiveIn(l) \cup QueuedIn(l)
<1>1. ending \subseteq Runs
  BY DEF ActiveIn, QueuedIn, WithEvent
<1>2. IsFiniteSet(Runs)
  BY FS_Interval, HostAssumption DEF Runs, HostAssumption
<1>3. IsFiniteSet(ending)
  BY <1>1, <1>2, FS_Subset
<1>4. Cardinality(ending) \in Nat /\ ExistsBijection(1..Cardinality(ending), ending)
  BY <1>3, FS_CardinalityType
<1>5. QED
  BY <1>1, <1>4 DEF ExistsBijection

LEMMA CloseEventsType ==
  ASSUME NEW l, NEW by \in 0..MaxExecutions
  PROVE  /\ CloseEvents(l, by) \in Seq(Events) /\ CloseEvents(l, by) # <<>>
         /\ \A k \in 1..Len(CloseEvents(l, by)) : CloseEvents(l, by)[k].by = by
<1> DEFINE ending == ActiveIn(l) \cup QueuedIn(l)
           n == Cardinality(ending)
           order == CHOOSE f \in Bijection(1..n, ending) : TRUE
           body == [i \in 1..n |-> Event("Ended", order[i], by)]
           last == Event("Closed", 0, by)
<1>1. ending \subseteq Runs /\ n \in Nat /\ order \in Bijection(1..n, ending)
  BY EndingRuns
<1>2. CloseEvents(l, by) = Append(body, last)
  BY DEF CloseEvents
<1>3. body = [i \in 1..n |-> Event("Ended", order[i], by)] /\ last = Event("Closed", 0, by)
  OBVIOUS
<1> HIDE DEF ending, n, order, body, last
<1>4. \A i \in 1..n : order[i] \in 0..MaxRuns
  <2>1. order \in [1..n -> ending]
    BY <1>1 DEF Bijection, Injection
  <2>2. \A i \in 1..n : order[i] \in Runs
    BY <1>1, <2>1
  <2>3. QED
    BY <2>2, HostAssumption DEF Runs, HostAssumption
<1>5. \A i \in 1..n : body[i] \in Events /\ body[i].by = by
  BY <1>3, <1>4, EventType
<1>6. body \in Seq(Events) /\ Len(body) = n
  <2>1. body \in [1..n -> Events]
    BY <1>3, <1>5
  <2>2. body \in Seq(Events)
    BY <1>1, <2>1, SeqDef
  <2>3. QED
    BY <1>1, <2>1, <2>2, LenProperties
<1>7. last \in Events /\ last.by = by
  BY <1>3, EventType, HostAssumption DEF HostAssumption
<1>8. /\ Append(body, last) \in Seq(Events) /\ Append(body, last) # <<>>
      /\ Len(Append(body, last)) = n + 1
      /\ \A i \in 1..n : Append(body, last)[i] = body[i]
      /\ Append(body, last)[n + 1] = last
  BY <1>6, <1>7, AppendProperties
<1>9. QED
  BY <1>1, <1>2, <1>5, <1>7, <1>8

-----------------------------------------------------------------------------
(* The store.                                                              *)

\* An append that takes effect is within the log and covers what it adds.
LEMMA CommitKeeps ==
  ASSUME Typed, Placed, Covered, NEW q, Request(q), Commit(q)
  PROVE  /\ log' \in Seq(Events) /\ Placed' /\ Covered'
         /\ \A p \in applied' : Request(p)
         /\ q \notin applied
<1>1. /\ log \in Seq(Events) /\ q.events \in Seq(Events) /\ q.events # <<>>
      /\ q.head = Len(log) /\ log' = log \o q.events /\ applied' = applied \cup {q}
  BY DEF Commit, HeadMatches, Request, Typed
<1>2. Len(log) \in Nat /\ Len(q.events) \in Nat \ {0}
  BY <1>1, LenProperties, EmptySeq
<1>3. /\ log' \in Seq(Events) /\ Len(log') = Len(log) + Len(q.events)
      /\ \A i \in 1 .. Len(log) + Len(q.events) :
           log'[i] = IF i <= Len(log) THEN log[i] ELSE q.events[i - Len(log)]
  BY <1>1, ConcatProperties
<1>4. \A p \in applied : p.head \in Nat /\ Len(p.events) \in Nat
  BY LenProperties DEF Typed, Request
<1>5. Placed'
  BY <1>1, <1>2, <1>3, <1>4 DEF Placed, End
<1>6. ASSUME NEW i \in 1..Len(log')
      PROVE  \E p \in applied' : p.by = log'[i].by /\ p.head < i /\ i <= End(p)
  <2>1. CASE i <= Len(log)
    <3>1. PICK p \in applied : p.by = log[i].by /\ p.head < i /\ i <= End(p)
      BY <1>2, <1>3, <2>1 DEF Covered
    <3>2. QED
      BY <1>1, <1>2, <1>3, <2>1, <3>1
  <2>2. CASE i > Len(log)
    <3>1. log'[i].by = q.by
      <4>1. i - Len(log) \in 1..Len(q.events) /\ log'[i] = q.events[i - Len(log)]
        BY <1>2, <1>3, <2>2
      <4>2. QED
        BY <4>1 DEF Request
    <3>2. q.head < i /\ i <= End(q)
      BY <1>1, <1>2, <1>3, <2>2 DEF End
    <3>3. QED
      BY <1>1, <3>1, <3>2
  <2>3. QED
    BY <1>2, <1>3, <2>1, <2>2
<1>7. Covered'
  BY <1>6 DEF Covered, End
<1>8. q \notin applied
  BY <1>1, <1>2 DEF Placed, End
<1>9. QED
  BY <1>1, <1>3, <1>5, <1>7, <1>8 DEF Typed

\* A retry that finds its own events behind its head did take effect: another
\* append of the same execution would lie before that head.
LEMMA ConfirmedIsApplied ==
  ASSUME LogInv, pending # None, Confirms(pending)
  PROVE  pending \in applied
<1>1. /\ Running /\ pending \in abroad /\ pending.head = Len(view) /\ pending.by = id
      /\ Request(pending)
  BY DEF LogInv, Awaited, Typed
<1>2. /\ log \in Seq(Events) /\ view \in Seq(Events) /\ id \in 1..MaxExecutions
      /\ pending.head \in Nat /\ pending.events \in Seq(Events)
  BY <1>1, HostAssumption DEF LogInv, Typed, Sent, Request, HostAssumption
<1>3. Len(log) \in Nat /\ Len(view) \in Nat /\ Len(pending.events) \in Nat \ {0}
  BY <1>1, <1>2, LenProperties, EmptySeq DEF Request
<1> DEFINE i == pending.head + 1
<1>4. i \in 1..Len(log)
  BY <1>2, <1>3 DEF Confirms
<1>5. log[i].by = id
  <2>1. \A k \in (pending.head + 1)..(pending.head + Len(pending.events)) : log[k] \in Events
    BY <1>2, <1>3, ElementOfSeq DEF Confirms
  <2>2. pending.events[1] = log[i]
    <3> DEFINE m == pending.head + 1
               n == pending.head + Len(pending.events)
    <3>1. m \in Int /\ n \in Int /\ n - m + 1 = Len(pending.events) /\ m + 1 - 1 = i
      BY <1>2, <1>3
    <3>2. \A k \in 1 .. n - m + 1 : SubSeq(log, m, n)[k] = log[m + k - 1]
      BY <2>1, <3>1, SubSeqProperties
    <3>3. SubSeq(log, m, n) = pending.events
      BY DEF Confirms
    <3>4. 1 \in 1 .. n - m + 1
      BY <1>3, <3>1
    <3> HIDE DEF m, n, i
    <3>5. QED
      BY <3>1, <3>2, <3>3, <3>4
  <2>3. QED
    BY <1>1, <1>3, <2>2 DEF Request
<1>6. PICK p \in applied : p.by = log[i].by /\ p.head < i /\ i <= End(p)
  BY <1>4 DEF LogInv, Covered
<1>7. p \in abroad
  BY <1>2, <1>5, <1>6, HostAssumption DEF LogInv, Sent, HostAssumption
<1>8. p = pending \/ End(p) <= Len(view)
  BY <1>1, <1>5, <1>6, <1>7 DEF LogInv, Caught
<1>9. p.head \in Nat /\ Len(p.events) \in Nat
  BY <1>7, LenProperties DEF LogInv, Typed, Request
<1>10. QED
  BY <1>1, <1>3, <1>6, <1>8, <1>9 DEF End

-----------------------------------------------------------------------------
(* The steps.                                                              *)

\* Steps that neither write nor touch what the invariant speaks of.
LEMMA FrameKeeps ==
  ASSUME LogInv, UNCHANGED <<log, abroad, applied, phase, id, view, pending, closer>>
  PROVE  LogInv'
BY DEF LogInv, Typed, Placed, Covered, Sent, Caught, Awaited, ViewIsLog, Running, Request, End

\* An execution changes its phase between appends.
LEMMA PhaseKeeps ==
  ASSUME LogInv, pending = None, UNCHANGED <<log, abroad, applied, id, view, pending, closer>>,
         phase' \in {"recovering", "ready", "stopped", "completed"}, Running' => Running
  PROVE  LogInv'
<1>1. Typed' /\ Placed' /\ Covered' /\ Sent' /\ ViewIsLog'
  BY DEF LogInv, Typed, Placed, Covered, Sent, ViewIsLog, Request, End
<1>2. Caught' /\ Awaited'
  BY DEF LogInv, Caught, Awaited, Running, End
<1>3. QED
  BY <1>1, <1>2 DEF LogInv

\* An execution ends, and what it had in memory with it.
LEMMA StopKeeps ==
  ASSUME LogInv, UNCHANGED <<log, abroad, applied, id, closer>>,
         phase' = "stopped", view' = <<>>, pending' = None
  PROVE  LogInv'
<1>1. Typed' /\ Placed' /\ Covered' /\ Sent'
  BY EmptySeq DEF LogInv, Typed, Placed, Covered, Sent, Request, End
<1>2. Caught' /\ Awaited'
  BY DEF Caught, Awaited, Running
<1>3. ViewIsLog'
  BY EmptyPrefix DEF LogInv, Typed, ViewIsLog
<1>4. QED
  BY <1>1, <1>2, <1>3 DEF LogInv

\* A new execution has sent nothing yet.
LEMMA StartKeeps ==
  ASSUME LogInv, UNCHANGED <<log, abroad, applied, closer>>, NEW fresh, NextExecution(fresh)
  PROVE  LogInv'
<1>1. /\ id \in 0..MaxExecutions /\ id' = id + 1 /\ id < MaxExecutions
      /\ view' = <<>> /\ pending' = None /\ phase' = "loading" /\ MaxExecutions \in Nat
  BY HostAssumption DEF LogInv, Typed, NextExecution, HostAssumption
<1>2. Typed' /\ Placed' /\ Covered'
  <2>1. Typed'
    BY <1>1, EmptySeq DEF LogInv, Typed, Request
  <2>2. Placed' /\ Covered'
    BY DEF LogInv, Placed, Covered, End
  <2>3. QED
    BY <2>1, <2>2
<1>3. Sent'
  BY <1>1 DEF LogInv, Sent
<1>4. Caught' /\ Awaited'
  <2>1. \A q \in abroad' : q.by # id'
    BY <1>1 DEF LogInv, Sent
  <2>2. QED
    BY <1>1, <2>1 DEF Caught, Awaited
<1>5. ViewIsLog'
  BY <1>1, EmptyPrefix DEF LogInv, Typed, ViewIsLog
<1>6. QED
  BY <1>2, <1>3, <1>4, <1>5 DEF LogInv

LEMMA IssueKeeps ==
  ASSUME LogInv, Running, UNCHANGED <<phase, id, view, closer>>,
         NEW events \in Seq(Events), events # <<>>,
         \A k \in 1..Len(events) : events[k].by = id,
         Issue(events)
  PROVE  LogInv'
<1> DEFINE q == [head |-> Len(view), events |-> events, by |-> id]
<1>1. /\ pending = None /\ pending' = q /\ abroad' = abroad \cup {q}
      /\ UNCHANGED <<log, applied, acked>>
  BY DEF Issue, Send
<1>2. Len(view) \in Nat /\ id \in 0..MaxExecutions /\ id >= 1 /\ MaxExecutions \in Nat
  BY LenProperties, HostAssumption DEF LogInv, Typed, Awaited, HostAssumption
<1>3. q.head = Len(view) /\ q.events = events /\ q.by = id
  OBVIOUS
<1> HIDE DEF q
<1>4. Request(q)
  BY <1>2, <1>3 DEF Request
<1>5. Typed' /\ Placed' /\ Covered' /\ ViewIsLog'
  BY <1>1, <1>4 DEF LogInv, Typed, Placed, Covered, ViewIsLog, Request, End
<1>6. Sent'
  BY <1>1, <1>2, <1>3 DEF LogInv, Sent
<1>7. Caught'
  <2>1. \A p \in abroad : p # None
    BY DEF LogInv, Typed, Request, None
  <2>2. QED
    BY <1>1, <2>1 DEF LogInv, Caught, Running, End
<1>8. Awaited'
  BY <1>1, <1>3 DEF LogInv, Awaited, Running
<1>9. QED
  BY <1>5, <1>6, <1>7, <1>8 DEF LogInv

\* An attempt that lands, heard or not, adds at most its own append.
LEMMA SucceedsKeeps ==
  ASSUME LogInv, NEW q \in abroad, Succeeds(q), UNCHANGED <<abroad, id>>
  PROVE  /\ log' \in Seq(Events) /\ Placed' /\ Covered' /\ Sent'
         /\ \A p \in abroad' \cup applied' : Request(p)
         /\ IsPrefix(view, log')
<1>1. Request(q) /\ log \in Seq(Events) /\ view \in Seq(Events)
  BY DEF LogInv, Typed
<1>2. CASE Commit(q)
  <2>1. log' \in Seq(Events) /\ Placed' /\ Covered' /\ \A p \in applied' : Request(p)
    BY <1>1, <1>2, CommitKeeps DEF LogInv
  <2>2. Sent'
    BY <1>2 DEF LogInv, Sent, Commit
  <2>3. IsPrefix(view, log')
    BY <1>1, <1>2, PrefixOfConcat DEF LogInv, ViewIsLog, Commit, Request
  <2>4. QED
    BY <2>1, <2>2, <2>3 DEF LogInv, Typed
<1>3. CASE UNCHANGED <<log, applied>>
  BY <1>3 DEF LogInv, Typed, Placed, Covered, Sent, ViewIsLog, End
<1>4. QED
  BY <1>2, <1>3 DEF Succeeds

LEMMA AppendSucceedsKeeps ==
  ASSUME LogInv, AppendSucceeds
  PROVE  LogInv'
<1>1. /\ Running /\ pending # None /\ pending \in abroad /\ Succeeds(pending)
      /\ UNCHANGED <<abroad, id, closer>> /\ view' = view \o pending.events /\ pending' = None
      /\ phase' = IF phase = "loading" THEN "ready" ELSE phase
  BY DEF AppendSucceeds, LandHeard
<1>2. /\ Request(pending) /\ log \in Seq(Events) /\ view \in Seq(Events)
      /\ pending.head = Len(view) /\ pending.events \in Seq(Events)
      /\ Len(view) \in Nat /\ Len(log) \in Nat /\ Len(pending.events) \in Nat
  BY <1>1, LenProperties DEF LogInv, Typed, Awaited, Request
<1>3. /\ log' \in Seq(Events) /\ Placed' /\ Covered' /\ Sent'
      /\ \A p \in abroad' \cup applied' : Request(p)
  BY <1>1, SucceedsKeeps
<1>4. view' \in Seq(Events) /\ Len(view') = Len(view) + Len(pending.events)
  BY <1>1, <1>2, ConcatProperties
<1>5. phase' \in {"recovering", "ready"} /\ Running'
  BY <1>1 DEF Running
<1>6. Typed'
  BY <1>1, <1>3, <1>4, <1>5 DEF LogInv, Typed
<1>7. Caught'
  <2>1. ASSUME NEW p \in abroad, p.by = id PROVE End(p) <= Len(view')
    <3>1. p = pending \/ End(p) <= Len(view)
      BY <1>1, <2>1 DEF LogInv, Caught
    <3>2. End(p) \in Nat
      BY LenProperties DEF LogInv, Typed, Request, End
    <3>3. QED
      BY <1>2, <1>4, <3>1, <3>2 DEF End
  <2>2. QED
    BY <1>1, <2>1 DEF Caught, End
<1>8. Awaited'
  BY <1>1, <1>5 DEF LogInv, Awaited
<1>9. ViewIsLog'
  <2>1. CASE Commit(pending)
    <3>1. Len(view) = Len(log) /\ log' = log \o pending.events
      BY <1>2, <2>1 DEF Commit, HeadMatches
    <3>2. view = log
      BY <1>2, <3>1, PrefixElements, SeqEqual DEF LogInv, ViewIsLog
    <3>3. view' = log'
      BY <1>1, <3>1, <3>2
    <3>4. QED
      BY <1>3, <3>3, PrefixElements, LenProperties DEF ViewIsLog
  <2>2. CASE Confirms(pending) /\ UNCHANGED <<log, applied>>
    BY <1>1, <1>2, <2>2, PrefixExtended DEF LogInv, ViewIsLog, Confirms
  <2>3. QED
    BY <1>1, <2>1, <2>2 DEF Succeeds
<1>10. QED
  BY <1>3, <1>6, <1>7, <1>8, <1>9 DEF LogInv

LEMMA StrayAttemptKeeps ==
  ASSUME LogInv, StrayAttempt
  PROVE  LogInv'
<1>1. PICK q \in abroad : Succeeds(q) /\ UNCHANGED <<abroad, acked>>
  BY DEF StrayAttempt, LandUnheard
<1>2. UNCHANGED <<phase, id, view, pending, closer>>
  BY DEF StrayAttempt, hostVars, execVars
<1>3. /\ log' \in Seq(Events) /\ Placed' /\ Covered' /\ Sent'
      /\ \A p \in abroad' \cup applied' : Request(p)
      /\ IsPrefix(view, log')
  BY <1>1, <1>2, SucceedsKeeps
<1>4. Typed' /\ ViewIsLog'
  BY <1>2, <1>3 DEF LogInv, Typed, ViewIsLog
<1>5. Caught' /\ Awaited'
  BY <1>1, <1>2 DEF LogInv, Caught, Awaited, Running, End
<1>6. QED
  BY <1>3, <1>4, <1>5 DEF LogInv

LEMMA ForceCloseAppendsKeeps ==
  ASSUME LogInv, ForceCloseAppends
  PROVE  LogInv'
<1> DEFINE q == [head |-> Len(closer), events |-> CloseEvents(closer, 0), by |-> 0]
<1>1. UNCHANGED <<phase, id, view, pending>> /\ closer' \in {closer, <<>>}
  BY DEF ForceCloseAppends, execVars
<1>2. CASE Commit(q) /\ UNCHANGED abroad
  <2>1. q.head = Len(closer) /\ q.events = CloseEvents(closer, 0) /\ q.by = 0
    OBVIOUS
  <2>2. Request(q)
    <3>1. 0 \in 0..MaxExecutions /\ Len(closer) \in Nat
      BY HostAssumption, LenProperties DEF HostAssumption, LogInv, Typed
    <3> HIDE DEF q
    <3>2. QED
      BY <2>1, <3>1, CloseEventsType DEF Request
  <2> HIDE DEF q
  <2>3. log' \in Seq(Events) /\ Placed' /\ Covered' /\ \A p \in applied' : Request(p)
    BY <1>2, <2>2, CommitKeeps DEF LogInv
  <2>4. Typed'
    BY <1>1, <1>2, <2>3, EmptySeq DEF LogInv, Typed
  <2>5. Sent'
    BY <1>1, <1>2, <2>1 DEF LogInv, Sent, Commit
  <2>6. Caught' /\ Awaited'
    BY <1>1, <1>2 DEF LogInv, Caught, Awaited, Running, End
  <2>7. ViewIsLog'
    BY <1>1, <1>2, <2>2, PrefixOfConcat DEF LogInv, Typed, ViewIsLog, Commit, Request
  <2>8. QED
    BY <2>3, <2>4, <2>5, <2>6, <2>7 DEF LogInv
<1>3. CASE UNCHANGED logVars
  BY <1>1, <1>3, EmptySeq
  DEF LogInv, Typed, Placed, Covered, Sent, Caught, Awaited, ViewIsLog, Running, Request, End, logVars
<1>4. QED
  BY <1>2, <1>3 DEF ForceCloseAppends

\* The other steps of a direct close write nothing.
LEMMA ForceCloseQuiet ==
  ASSUME ForceClose, ~ForceCloseAppends
  PROVE  UNCHANGED <<logVars, execVars>> /\ closer' \in {closer, <<>>, log}
BY DEF ForceClose, ForceCloseLoads, ForceCloseReads, ForceCloseTells, ForceCloseEnds, ForceCloseFails

LEMMA LoadKeeps ==
  ASSUME LogInv, Load
  PROVE  LogInv'
<1>1. /\ phase = "loading" /\ pending = None /\ view' = log /\ view = <<>>
      /\ phase' \in {"recovering", "ready"}
      /\ UNCHANGED <<log, abroad, applied, id, pending, closer>>
  BY DEF LogInv, Awaited, Load, logVars
<1>2. Typed' /\ Placed' /\ Covered' /\ Sent'
  BY <1>1 DEF LogInv, Typed, Placed, Covered, Sent, Request, End
<1>3. Caught'
  <2>1. ASSUME NEW q \in abroad PROVE q # None /\ End(q) > 0
    <3>0. q.head \in Nat /\ q.events \in Seq(Events) /\ q.events # <<>>
      BY DEF LogInv, Typed, Request
    <3>1. q.head \in Nat /\ Len(q.events) \in Nat \ {0} /\ q.events # <<>>
      BY <3>0, EmptySeq, LenProperties
    <3>2. QED
      BY <3>1 DEF End, None
  <2>2. Len(view) = 0
    BY <1>1, EmptySeq
  <2>3. \A q \in abroad : q.by # id
    <3>1. Running
      BY <1>1 DEF Running
    <3>2. SUFFICES ASSUME NEW q \in abroad, q.by = id PROVE FALSE
      OBVIOUS
    <3>3. q = pending \/ End(q) <= Len(view)
      BY <3>1, <3>2 DEF LogInv, Caught
    <3>4. End(q) \in Nat
      BY LenProperties DEF LogInv, Typed, Request, End
    <3>5. QED
      BY <1>1, <2>1, <2>2, <3>3, <3>4
  <2>4. QED
    BY <1>1, <2>3 DEF Caught
<1>4. Awaited'
  BY <1>1 DEF LogInv, Awaited, Running
<1>5. ViewIsLog'
  <2>1. log \in Seq(Events) /\ Len(log) \in Nat
    BY LenProperties DEF LogInv, Typed
  <2>2. IsPrefix(log, log)
    BY <2>1, PrefixElements
  <2>3. QED
    BY <1>1, <2>2 DEF ViewIsLog
<1>6. QED
  BY <1>2, <1>3, <1>4, <1>5 DEF LogInv

LEMMA OneEventKeeps ==
  ASSUME LogInv, Running, UNCHANGED <<phase, id, view, closer>>,
         NEW kind \in {"Opened", "Accepted", "Started", "Parked", "Unparked", "Ended", "Closed"},
         NEW r \in 0..MaxRuns, Issue(<<Event(kind, r, id)>>)
  PROVE  LogInv'
<1> DEFINE events == <<Event(kind, r, id)>>
<1>1. id \in 0..MaxExecutions
  BY DEF LogInv, Typed
<1>2. events \in Seq(Events) /\ events # <<>> /\ \A k \in 1..Len(events) : events[k].by = id
  BY <1>1, SingleEvent
<1>3. Issue(events)
  OBVIOUS
<1> HIDE DEF events
<1>4. QED
  BY <1>2, <1>3, IssueKeeps

\* A command or a planned step of one event.
LEMMA OneLoopEventKeeps ==
  ASSUME LogInv,
         NEW kind \in {"Opened", "Accepted", "Started", "Parked", "Unparked", "Ended", "Closed"},
         NEW r \in 0..MaxRuns, LoopAppend(<<Event(kind, r, id)>>)
  PROVE  LogInv'
<1>1. Running /\ Issue(<<Event(kind, r, id)>>) /\ UNCHANGED <<phase, id, view, closer>>
  BY DEF LoopAppend, Running
<1>2. QED
  BY <1>1, OneEventKeeps

\* Each event the drive appends is one of those the log may hold.
LEMMA LoopAppendKeeps ==
  ASSUME LogInv, NEW events \in Seq(Events), events # <<>>,
         \A k \in 1..Len(events) : events[k].by = id, LoopAppend(events)
  PROVE  LogInv'
<1>1. Running /\ Issue(events) /\ UNCHANGED <<phase, id, view, closer>>
  BY DEF LoopAppend, Running
<1>2. QED
  BY <1>1, IssueKeeps

LEMMA LoopKeeps ==
  ASSUME LogInv, Loop
  PROVE  LogInv'
<1>1. id \in 0..MaxExecutions /\ 0 \in 0..MaxRuns /\ \A r \in Runs : r \in 0..MaxRuns
  BY HostAssumption DEF LogInv, Typed, Runs, HostAssumption
<1>2. \A l : QueuedIn(l) \subseteq Runs /\ ActiveIn(l) \subseteq Runs /\ ParkedIn(l) \subseteq Runs
  BY DEF QueuedIn, ActiveIn, ParkedIn, WithEvent
<1>3. CASE AcceptRun
  <2>1. PICK r \in Runs : LoopAppend(<<Event("Accepted", r, id)>>)
    BY <1>3 DEF AcceptRun
  <2>2. QED
    BY <1>1, <2>1, OneLoopEventKeeps
<1>4. CASE StartRun
  <2>1. PICK r \in QueuedIn(view) : LoopAppend(<<Event("Started", r, id)>>)
    BY <1>4 DEF StartRun
  <2>2. QED
    BY <1>1, <1>2, <2>1, OneLoopEventKeeps
<1>5. CASE CancelQueuedRun
  <2>1. PICK r \in QueuedIn(view) : LoopAppend(<<Event("Ended", r, id)>>)
    BY <1>5 DEF CancelQueuedRun
  <2>2. QED
    BY <1>1, <1>2, <2>1, OneLoopEventKeeps
<1>6. CASE UnparkRun
  <2>1. PICK r \in ParkedIn(view) : LoopAppend(<<Event("Unparked", r, id)>>)
    BY <1>6 DEF UnparkRun
  <2>2. QED
    BY <1>1, <1>2, <2>1, OneLoopEventKeeps
<1>7. CASE CloseSession
  BY <1>1, <1>7, CloseEventsType, LoopAppendKeeps DEF CloseSession
<1>8. CASE DoWork
  BY <1>8, FrameKeeps DEF DoWork, logVars
<1>9. CASE LogResult
  <2>1. PICK r \in ActiveIn(view) \ ParkedIn(view) :
          \/ Issue(<<Event("Ended", r, id)>>)
          \/ Issue(<<Event("Parked", r, id)>>)
    BY <1>9 DEF LogResult
  <2>2. Running /\ UNCHANGED <<phase, id, view, closer>> /\ r \in 0..MaxRuns
    BY <1>1, <1>2, <1>9 DEF LogResult, Running
  <2>3. QED
    BY <2>1, <2>2, OneEventKeeps
<1>10. CASE FlushEmissions
  BY <1>10, FrameKeeps DEF FlushEmissions, logVars
<1>11. CASE Complete
  BY <1>11, PhaseKeeps DEF Complete, AtLoop, Running, logVars
<1>12. CASE RollOver
  BY <1>12, StartKeeps DEF RollOver, logVars
<1>13. QED
  BY <1>3, <1>4, <1>5, <1>6, <1>7, <1>8, <1>9, <1>10, <1>11, <1>12, Loop DEF Loop

LEMMA BootstrapKeeps ==
  ASSUME LogInv, Bootstrap
  PROVE  LogInv'
<1>1. id \in 0..MaxExecutions /\ 0 \in 0..MaxRuns /\ \A r \in Runs : r \in 0..MaxRuns
  BY HostAssumption DEF LogInv, Typed, Runs, HostAssumption
<1>2. CASE StartSession
  BY <1>2, StartKeeps DEF StartSession, logVars
<1>3. CASE LoadFresh
  <2>1. CASE restarted
    BY <1>3, <2>1, PhaseKeeps DEF LoadFresh, Running, logVars
  <2>2. CASE ~restarted
    <3>1. Running /\ Issue(<<Event("Opened", 0, id)>>) /\ UNCHANGED <<phase, id, view, closer>>
      BY <1>3, <2>2 DEF LoadFresh, Running
    <3>2. QED
      BY <1>1, <3>1, OneEventKeeps
  <2>3. QED
    BY <2>1, <2>2
<1>4. CASE Load
  BY <1>4, LoadKeeps
<1>5. CASE FailInterrupted
  <2>1. PICK r \in InterruptedRun : Issue(<<Event("Ended", r, id)>>)
    BY <1>5 DEF FailInterrupted
  <2>2. Running /\ UNCHANGED <<phase, id, view, closer>> /\ r \in 0..MaxRuns
    BY <1>1, <1>5 DEF FailInterrupted, Running, InterruptedRun, ActiveIn, WithEvent
  <2>3. QED
    BY <2>1, <2>2, OneEventKeeps
<1>6. CASE FinishRecovery
  BY <1>6, PhaseKeeps DEF FinishRecovery, Running, logVars
<1>7. QED
  BY <1>2, <1>3, <1>4, <1>5, <1>6, Bootstrap DEF Bootstrap

\* Every step of executions, gateway and network keeps the invariant.
LEMMA NextKeeps ==
  ASSUME LogInv, [Next]_vars
  PROVE  LogInv'
<1>1. CASE Bootstrap
  BY <1>1, BootstrapKeeps
<1>2. CASE Loop
  BY <1>2, LoopKeeps
<1>3. CASE AppendSucceeds
  BY <1>3, AppendSucceedsKeeps
<1>4. CASE AppendFails
  BY <1>4, StopKeeps DEF AppendFails, Refused, logVars
<1>5. CASE Stop
  BY <1>5, StopKeeps DEF Stop, logVars
<1>6. CASE StrayAttempt
  BY <1>6, StrayAttemptKeeps
<1>7. CASE AskRestart
  BY <1>7, FrameKeeps DEF AskRestart, logVars, execVars
<1>8. CASE StartRestart
  <2>1. CASE Running
    BY <1>8, <2>1, FrameKeeps DEF StartRestart, logVars, execVars
  <2>2. CASE ~Running
    BY <1>8, <2>2, StartKeeps DEF StartRestart, logVars
  <2>3. QED
    BY <2>1, <2>2
<1>9. CASE ForceClose /\ ~ForceCloseAppends
  BY <1>9, ForceCloseQuiet, EmptySeq
  DEF LogInv, Typed, Placed, Covered, Sent, Caught, Awaited, ViewIsLog,
      Running, Request, End, logVars, execVars
<1>10. CASE ForceCloseAppends
  BY <1>10, ForceCloseAppendsKeeps
<1>11. CASE UNCHANGED vars
  BY <1>11, FrameKeeps DEF vars, logVars, hostVars, execVars
<1>12. QED
  BY <1>1, <1>2, <1>3, <1>4, <1>5, <1>6, <1>7, <1>8, <1>9, <1>10, <1>11 DEF Next

LEMMA InitKeeps == Init => LogInv
<1> SUFFICES ASSUME Init PROVE LogInv
  OBVIOUS
<1>1. /\ log = <<>> /\ view = <<>> /\ closer = <<>> /\ id = 0 /\ phase = "none"
      /\ pending = None /\ abroad = {} /\ applied = {}
  BY DEF Init, LogInit
<1>2. /\ <<>> \in Seq(Events) /\ Len(<<>>) = 0
  BY EmptySeq
<1>3. Typed /\ Placed /\ Covered /\ Sent /\ Caught /\ Awaited
  BY <1>1, <1>2, HostAssumption
  DEF Typed, Placed, Covered, Sent, Caught, Awaited, Running, HostAssumption
<1>4. ViewIsLog
  BY <1>1, <1>2, EmptyPrefix DEF ViewIsLog
<1>5. QED
  BY <1>3, <1>4 DEF LogInv

\* In every reachable state the log is made of whole appends, and of its own
\* appends an execution awaits one and has applied the others.
THEOREM LogInvariant == Spec => []LogInv
<1>1. Init => LogInv
  BY InitKeeps
<1>2. LogInv /\ [Next]_vars => LogInv'
  BY NextKeeps
<1>3. QED
  BY <1>1, <1>2, PTL DEF Spec

\* ViewIsLog holds in every behaviour: whatever strays and direct closes do to
\* the log, the running execution's view is a prefix of it.
THEOREM ViewIsTheLog == Spec => []ViewIsLog
<1>1. LogInv => ViewIsLog
  BY DEF LogInv
<1>2. QED
  BY <1>1, LogInvariant, PTL

-----------------------------------------------------------------------------
(* The log implements Journal.                                             *)

\* What commits was not applied before, so the step is a Journal step.
LEMMA CommitImplements ==
  ASSUME LogInv, NEW q, Request(q), Commit(q), acked' \in {acked, acked \cup {q}}
  PROVE  Promise!Next
<1>1. q \notin applied
  BY CommitKeeps DEF LogInv
<1>2. q \in applied' \ applied
  BY <1>1 DEF Commit
<1>3. Promise!Apply(q)
  BY <1>1 DEF Commit, Promise!Apply
<1>4. QED
  BY <1>2, <1>3 DEF Promise!Next

\* A step that sends at most leaves what Journal sees as it is.
LEMMA QuietImplements ==
  ASSUME UNCHANGED <<log, applied, acked>>
  PROVE  [Promise!Next]_(Promise!vars)
BY DEF Promise!vars

LEMMA AppendSucceedsImplements ==
  ASSUME LogInv, AppendSucceeds
  PROVE  [Promise!Next]_(Promise!vars)
<1>1. pending \in abroad /\ Succeeds(pending) /\ acked' = acked \cup {pending}
  BY DEF AppendSucceeds, LandHeard
<1>2. Request(pending)
  BY <1>1 DEF LogInv, Typed
<1>3. CASE Commit(pending)
  BY <1>1, <1>2, <1>3, CommitImplements
<1>4. CASE Confirms(pending) /\ UNCHANGED <<log, applied>>
  <2>1. pending \in applied
    BY <1>1, <1>2, <1>4, ConfirmedIsApplied DEF AppendSucceeds
  <2>2. Promise!Next
    BY <1>1, <1>4, <2>1 DEF Promise!Next
  <2>3. QED
    BY <2>2
<1>5. QED
  BY <1>1, <1>3, <1>4 DEF Succeeds

LEMMA StrayAttemptImplements ==
  ASSUME LogInv, StrayAttempt
  PROVE  [Promise!Next]_(Promise!vars)
<1>1. PICK q \in abroad : Succeeds(q) /\ UNCHANGED acked
  BY DEF StrayAttempt, LandUnheard
<1>2. Request(q)
  BY DEF LogInv, Typed
<1>3. CASE Commit(q)
  BY <1>1, <1>2, <1>3, CommitImplements
<1>4. CASE UNCHANGED <<log, applied>>
  BY <1>1, <1>4, QuietImplements
<1>5. QED
  BY <1>1, <1>3, <1>4 DEF Succeeds

LEMMA ForceCloseImplements ==
  ASSUME LogInv, ForceCloseAppends
  PROVE  [Promise!Next]_(Promise!vars)
<1> DEFINE q == [head |-> Len(closer), events |-> CloseEvents(closer, 0), by |-> 0]
<1>1. CASE Commit(q) /\ acked' \in {acked, acked \cup {q}}
  <2>1. q.head = Len(closer) /\ q.events = CloseEvents(closer, 0) /\ q.by = 0
    OBVIOUS
  <2>2. 0 \in 0..MaxExecutions /\ Len(closer) \in Nat
    BY HostAssumption, LenProperties DEF HostAssumption, LogInv, Typed
  <2> HIDE DEF q
  <2>3. Request(q)
    BY <2>1, <2>2, CloseEventsType DEF Request
  <2>4. QED
    BY <1>1, <2>3, CommitImplements
<1>2. CASE UNCHANGED logVars
  BY <1>2, QuietImplements DEF logVars
<1>3. QED
  BY <1>1, <1>2 DEF ForceCloseAppends

LEMMA StepImplements ==
  ASSUME LogInv, [Next]_vars
  PROVE  [Promise!Next]_(Promise!vars)
<1>1. CASE Bootstrap
  BY <1>1, QuietImplements
  DEF Bootstrap, StartSession, LoadFresh, Load, FailInterrupted, FinishRecovery, Issue, Send, logVars
<1>2. CASE Loop
  <2>1. CASE AcceptRun \/ StartRun \/ CancelQueuedRun \/ UnparkRun \/ CloseSession
    BY <2>1, QuietImplements
    DEF AcceptRun, StartRun, CancelQueuedRun, UnparkRun, CloseSession, LoopAppend, Issue, Send
  <2>2. CASE DoWork \/ LogResult \/ FlushEmissions \/ Complete \/ RollOver
    BY <2>2, QuietImplements
    DEF DoWork, LogResult, FlushEmissions, Complete, RollOver, Issue, Send, logVars
  <2>3. QED
    BY <1>2, <2>1, <2>2 DEF Loop
<1>3. CASE AppendSucceeds
  BY <1>3, AppendSucceedsImplements
<1>4. CASE StrayAttempt
  BY <1>4, StrayAttemptImplements
<1>5. CASE ForceCloseAppends
  BY <1>5, ForceCloseImplements
<1>6. CASE AppendFails \/ Stop \/ AskRestart \/ StartRestart \/ (ForceClose /\ ~ForceCloseAppends)
  BY <1>6, QuietImplements, ForceCloseQuiet
  DEF AppendFails, Refused, Stop, AskRestart, StartRestart, logVars
<1>7. CASE UNCHANGED vars
  BY <1>7, QuietImplements DEF vars, logVars
<1>8. QED
  BY <1>1, <1>2, <1>3, <1>4, <1>5, <1>6, <1>7 DEF Next

\* ImplementsJournal holds in every behaviour: however the attempts of an
\* append are lost, repeated or delayed, it takes effect at most once, whole,
\* and is acknowledged only when it did.
THEOREM LogImplementsJournal == Spec => ImplementsJournal
<1>1. Init => Promise!Init
  BY DEF Init, LogInit, Promise!Init
<1>2. LogInv /\ [Next]_vars => [Promise!Next]_(Promise!vars)
  BY StepImplements
<1>3. QED
  BY <1>1, <1>2, LogInvariant, PTL DEF Spec, ImplementsJournal, Promise!Spec

=============================================================================
