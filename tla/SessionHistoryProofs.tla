------------------------ MODULE SessionHistoryProofs ------------------------
(***************************************************************************)
(* Proofs about SessionHost for any number of runs and executions: the log *)
(* is one legal history whoever writes it, no run's work is done twice, and*)
(* the end of every run is told to those who wait for it.                  *)
(***************************************************************************)
EXTENDS SessionHostProofs

-----------------------------------------------------------------------------
(* The inductive invariant.                                                *)

\* A history in which runs are numbered as they are accepted, run one at a
\* time, and are over when the session is.
Sound(l) ==
  /\ \A i \in 1..Len(l) : LegalAfter(SubSeq(l, 1, i - 1), l[i])
  /\ \E n \in 0..MaxRuns : WithEvent(l, "Accepted") = 1..n
  /\ \A r, s \in ActiveIn(l) : r = s
  /\ ClosedIn(l) => ActiveIn(l) \cup QueuedIn(l) = {}

OpenSound(l) == Sound(l) /\ ~ClosedIn(l)

\* Whatever was sent goes on soundly from the log it was prepared against,
\* and that log is still the beginning of the one there is.
Prepared(q) ==
  q.head <= Len(log) /\ Sound(SubSeq(log, 1, q.head) \o q.events)

HistoryInv ==
  /\ Sound(log) /\ Sound(view)
  /\ OpenSound(closer) /\ IsPrefix(closer, log)
  /\ \A q \in abroad : Prepared(q)
  /\ phase \in {"recovering", "ready"} => view # <<>>

\* What work a run's end or park stands for.
Settled(l, r) == Says(l, "Ended", r) \/ Says(l, "Parked", r)

\* Work that was done is settled in what the execution has applied or awaits,
\* or it is still in its hands; or the execution is one that will fail it.
Accounted(r) ==
  /\ Says(log, "Started", r)
  /\ phase = "ready" =>
       \/ Settled(view, r) \/ result = r
       \/ pending # None /\ Settled(pending.events, r)
  /\ phase = "loading" => pending = None /\ (restarted \/ Settled(log, r))
  /\ phase = "recovering" => Says(view, "Started", r)

WorkInv ==
  /\ worked \in [Runs -> 0..1]
  /\ result # 0 =>
       /\ phase = "ready" /\ result \in ActiveIn(view)
       /\ pending # None => ~Says(pending.events, "Ended", result)
  /\ \A r \in Runs : worked[r] = 1 => Accounted(r)

-----------------------------------------------------------------------------
(* Sequences of events.                                                    *)

LEMMA PrefixIsSubSeq ==
  ASSUME NEW s \in Seq(Events), NEW t \in Seq(Events), IsPrefix(s, t)
  PROVE  Len(s) <= Len(t) /\ SubSeq(t, 1, Len(s)) = s
BY SubSeqFull, PrefixElements DEF IsPrefix

LEMMA SubSeqOfConcat ==
  ASSUME NEW t \in Seq(Events), NEW e \in Seq(Events), NEW n \in 0..Len(t)
  PROVE  SubSeq(t \o e, 1, n) = SubSeq(t, 1, n)
<1> DEFINE u == t \o e
<1>1. Len(t) \in Nat /\ Len(e) \in Nat /\ n \in Nat /\ n <= Len(t)
  BY LenProperties
<1>2. /\ u \in Seq(Events) /\ Len(u) = Len(t) + Len(e)
      /\ \A i \in 1 .. Len(t) + Len(e) : u[i] = IF i <= Len(t) THEN t[i] ELSE e[i - Len(t)]
  BY ConcatProperties
<1> HIDE DEF u
<1>3. \A i \in 1..n : t[i] \in Events /\ u[i] = t[i]
  BY <1>1, <1>2, ElementOfSeq
<1>4. /\ SubSeq(t, 1, n) \in Seq(Events) /\ Len(SubSeq(t, 1, n)) = n
      /\ \A i \in 1..n : SubSeq(t, 1, n)[i] = t[i]
  BY <1>1, <1>3, SubSeqProperties
<1>5. /\ SubSeq(u, 1, n) \in Seq(Events) /\ Len(SubSeq(u, 1, n)) = n
      /\ \A i \in 1..n : SubSeq(u, 1, n)[i] = u[i]
  BY <1>1, <1>3, SubSeqProperties
<1>6. SubSeq(u, 1, n) = SubSeq(t, 1, n)
  BY <1>3, <1>4, <1>5, SeqEqual
<1>7. QED
  BY <1>6 DEF u

LEMMA SaysConcat ==
  ASSUME NEW s \in Seq(Events), NEW t \in Seq(Events), NEW kind, NEW r
  PROVE  Says(s \o t, kind, r) <=> Says(s, kind, r) \/ Says(t, kind, r)
<1> DEFINE u == s \o t
<1>1. /\ Len(s) \in Nat /\ DOMAIN s = 1..Len(s) /\ Len(t) \in Nat /\ DOMAIN t = 1..Len(t)
  BY LenProperties
<1>2. /\ u \in Seq(Events) /\ Len(u) = Len(s) + Len(t)
      /\ \A i \in 1 .. Len(s) + Len(t) : u[i] = IF i <= Len(s) THEN s[i] ELSE t[i - Len(s)]
  BY ConcatProperties
<1>3. DOMAIN u = 1 .. Len(s) + Len(t)
  BY <1>2, LenProperties
<1> HIDE DEF u
<1>4. ASSUME Says(u, kind, r) PROVE Says(s, kind, r) \/ Says(t, kind, r)
  <2>1. PICK i \in 1 .. Len(s) + Len(t) : u[i].kind = kind /\ u[i].run = r
    BY <1>3, <1>4 DEF Says
  <2>2. CASE i <= Len(s)
    BY <1>1, <1>2, <2>1, <2>2 DEF Says
  <2>3. CASE ~(i <= Len(s))
    <3>1. i - Len(s) \in DOMAIN t /\ u[i] = t[i - Len(s)]
      BY <1>1, <1>2, <2>3
    <3>2. QED
      BY <2>1, <3>1 DEF Says
  <2>4. QED
    BY <2>2, <2>3
<1>5. ASSUME Says(s, kind, r) PROVE Says(u, kind, r)
  <2>1. PICK i \in 1..Len(s) : s[i].kind = kind /\ s[i].run = r
    BY <1>1, <1>5 DEF Says
  <2>2. i \in DOMAIN u /\ u[i] = s[i]
    BY <1>1, <1>2, <1>3
  <2>3. QED
    BY <2>1, <2>2 DEF Says
<1>6. ASSUME Says(t, kind, r) PROVE Says(u, kind, r)
  <2>1. PICK i \in 1..Len(t) : t[i].kind = kind /\ t[i].run = r
    BY <1>1, <1>6 DEF Says
  <2>2. i + Len(s) \in DOMAIN u /\ u[i + Len(s)] = t[i]
    BY <1>1, <1>2, <1>3
  <2>3. QED
    BY <2>1, <2>2 DEF Says
<1>7. QED
  BY <1>4, <1>5, <1>6 DEF u

\* What a view says, the log says.
LEMMA SaysPrefix ==
  ASSUME NEW s \in Seq(Events), NEW t \in Seq(Events), IsPrefix(s, t),
         NEW kind, NEW r, Says(s, kind, r)
  PROVE  Says(t, kind, r)
<1>1. /\ Len(s) \in Nat /\ DOMAIN s = 1..Len(s) /\ Len(t) \in Nat /\ DOMAIN t = 1..Len(t)
  BY LenProperties
<1>2. Len(s) <= Len(t) /\ \A i \in 1..Len(s) : s[i] = t[i]
  BY PrefixElements
<1>3. QED
  BY <1>1, <1>2 DEF Says

LEMMA SaysOne ==
  ASSUME NEW e \in Events, NEW kind, NEW r
  PROVE  Says(<<e>>, kind, r) <=> e.kind = kind /\ e.run = r
<1>1. DOMAIN <<e>> = {1} /\ <<e>>[1] = e
  OBVIOUS
<1>2. QED
  BY <1>1 DEF Says

LEMMA SaysNothing == \A kind, r : ~Says(<<>>, kind, r)
<1>1. DOMAIN <<>> = {}
  OBVIOUS
<1>2. QED
  BY <1>1 DEF Says

-----------------------------------------------------------------------------
(* Sound histories.                                                        *)

\* A legal event leaves the events before it as legal as they were.
LEMMA LegalExtended ==
  ASSUME NEW l \in Seq(Events), NEW e \in Events, LegalAfter(l, e),
         \A i \in 1..Len(l) : LegalAfter(SubSeq(l, 1, i - 1), l[i])
  PROVE  \A i \in 1..Len(l \o <<e>>) :
           LegalAfter(SubSeq(l \o <<e>>, 1, i - 1), (l \o <<e>>)[i])
<1> DEFINE u == l \o <<e>>
<1>1. <<e>> \in Seq(Events) /\ Len(<<e>>) = 1 /\ <<e>>[1] = e /\ Len(l) \in Nat
  BY LenProperties
<1>2. /\ Len(u) = Len(l) + 1
      /\ \A i \in 1 .. Len(l) + 1 : u[i] = IF i <= Len(l) THEN l[i] ELSE <<e>>[i - Len(l)]
  BY <1>1, ConcatProperties
<1>3. ASSUME NEW i \in 1..Len(u) PROVE LegalAfter(SubSeq(u, 1, i - 1), u[i])
  <2>1. i - 1 \in 0..Len(l)
    BY <1>1, <1>2
  <2>2. SubSeq(u, 1, i - 1) = SubSeq(l, 1, i - 1)
    BY <1>1, <2>1, SubSeqOfConcat
  <2>3. CASE i <= Len(l)
    <3>1. u[i] = l[i] /\ i \in 1..Len(l)
      BY <1>1, <1>2, <2>3
    <3>2. QED
      BY <2>2, <3>1
  <2>4. CASE i = Len(l) + 1
    <3>1. u[i] = e
      <4>1. i \in 1 .. Len(l) + 1 /\ ~(i <= Len(l)) /\ i - Len(l) = 1
        BY <1>1, <2>4
      <4>2. u[i] = <<e>>[i - Len(l)]
        BY <1>2, <4>1
      <4>3. QED
        BY <1>1, <4>1, <4>2
    <3>2. SubSeq(l, 1, i - 1) = l
      BY <1>1, <2>4, SubSeqFull
    <3>3. QED
      BY <2>2, <3>1, <3>2
  <2>5. QED
    BY <1>1, <1>2, <2>3, <2>4
<1>4. QED
  BY <1>3

\* A legal event, a run accepted under the next number, keeps a history sound.
LEMMA AppendSound ==
  ASSUME NEW l \in Seq(Events), Sound(l), NEW e \in Events, LegalAfter(l, e),
         e.kind = "Accepted" =>
           e.run \in Runs /\ e.run = 1 + Cardinality(WithEvent(l, "Accepted"))
  PROVE  Sound(l \o <<e>>)
<1> DEFINE u == l \o <<e>>
<1>1. <<e>> \in Seq(Events)
  OBVIOUS
<1>2. \A kind, r : Says(u, kind, r) <=> Says(l, kind, r) \/ (e.kind = kind /\ e.run = r)
  BY <1>1, SaysConcat, SaysOne
<1>3. \A i \in 1..Len(u) : LegalAfter(SubSeq(u, 1, i - 1), u[i])
  BY LegalExtended DEF Sound
<1> HIDE DEF u
<1>4. \E n \in 0..MaxRuns : WithEvent(u, "Accepted") = 1..n
  <2>1. PICK n \in 0..MaxRuns : WithEvent(l, "Accepted") = 1..n
    BY DEF Sound
  <2>2. n \in Nat /\ MaxRuns \in Nat
    BY HostAssumption DEF HostAssumption
  <2>3. CASE e.kind = "Accepted"
    <3>1. Cardinality(1..n) = n
      BY <2>2, FS_Interval
    <3>2. e.run = n + 1 /\ n + 1 \in 0..MaxRuns
      BY <2>1, <2>2, <2>3, <3>1 DEF Runs
    <3>3. WithEvent(u, "Accepted") = 1..n \cup {n + 1}
      BY <1>2, <2>1, <2>2, <2>3, <3>2 DEF WithEvent, Runs
    <3>4. 1..n \cup {n + 1} = 1..(n + 1)
      BY <2>2
    <3>5. QED
      BY <3>2, <3>3, <3>4
  <2>4. CASE e.kind # "Accepted"
    <3>1. WithEvent(u, "Accepted") = WithEvent(l, "Accepted")
      BY <1>2, <2>4 DEF WithEvent
    <3>2. QED
      BY <2>1, <3>1
  <2>5. QED
    BY <2>3, <2>4
<1>5. \A r, s \in ActiveIn(u) : r = s
  BY <1>2 DEF Sound, ActiveIn, QueuedIn, EndedIn, WithEvent, LegalAfter
<1>6. ClosedIn(u) => ActiveIn(u) \cup QueuedIn(u) = {}
  <2>1. SUFFICES ASSUME ClosedIn(u) PROVE ActiveIn(u) \cup QueuedIn(u) = {}
    OBVIOUS
  <2>2. ~ClosedIn(l)
    BY DEF LegalAfter
  <2>3. e.kind = "Closed"
    BY <1>2, <2>1, <2>2 DEF ClosedIn
  <2>4. ActiveIn(l) \cup QueuedIn(l) = {}
    BY <2>3 DEF LegalAfter
  <2>5. ActiveIn(u) = ActiveIn(l) /\ QueuedIn(u) = QueuedIn(l)
    BY <1>2, <2>3 DEF ActiveIn, QueuedIn, EndedIn, WithEvent
  <2>6. QED
    BY <2>4, <2>5
<1>7. Sound(u)
  BY <1>3, <1>4, <1>5, <1>6 DEF Sound
<1>8. QED
  BY <1>7 DEF u

\* The same for a direct close and for one by the execution: first the ends,
\* in some order, then the close.
LEMMA CloseEventsShape ==
  ASSUME NEW l, NEW by \in 0..MaxExecutions
  PROVE  \E n \in Nat, body \in Seq(Events) :
           \E order \in Bijection(1..n, ActiveIn(l) \cup QueuedIn(l)) :
             /\ Len(body) = n
             /\ \A k \in 1..n : body[k] = Event("Ended", order[k], by) /\ order[k] \in 0..MaxRuns
             /\ CloseEvents(l, by) = body \o <<Event("Closed", 0, by)>>
<1> DEFINE ending == ActiveIn(l) \cup QueuedIn(l)
           n == Cardinality(ending)
           order == CHOOSE f \in Bijection(1..n, ending) : TRUE
           body == [i \in 1..n |-> Event("Ended", order[i], by)]
           last == Event("Closed", 0, by)
<1>1. ending \subseteq Runs /\ n \in Nat /\ order \in Bijection(1..n, ending)
  BY EndingRuns
<1>2. CloseEvents(l, by) = Append(body, last)
  BY DEF CloseEvents
<1>3. body = [i \in 1..n |-> Event("Ended", order[i], by)] /\ last = Event("Closed", 0, by)
      /\ ending = ActiveIn(l) \cup QueuedIn(l)
  OBVIOUS
<1> HIDE DEF ending, n, order, body, last
<1>4. \A i \in 1..n : order[i] \in 0..MaxRuns
  <2>1. order \in [1..n -> ending]
    BY <1>1 DEF Bijection, Injection
  <2>2. \A i \in 1..n : order[i] \in Runs
    BY <1>1, <2>1
  <2>3. QED
    BY <2>2, HostAssumption DEF Runs, HostAssumption
<1>5. body \in Seq(Events) /\ Len(body) = n
  <2>1. body \in [1..n -> Events]
    BY <1>3, <1>4, EventType
  <2>2. body \in Seq(Events)
    BY <1>1, <2>1, SeqDef
  <2>3. QED
    BY <1>1, <2>1, <2>2, LenProperties
<1>6. last \in Events
  BY <1>3, EventType, HostAssumption DEF HostAssumption
<1>7. Append(body, last) = body \o <<last>>
  BY <1>5, <1>6, AppendIsConcat
<1>8. /\ Len(body) = n
      /\ \A k \in 1..n : body[k] = Event("Ended", order[k], by) /\ order[k] \in 0..MaxRuns
      /\ CloseEvents(l, by) = body \o <<Event("Closed", 0, by)>>
  <2>1. \A k \in 1..n : body[k] = Event("Ended", order[k], by)
    BY <1>3
  <2>2. QED
    BY <1>2, <1>3, <1>4, <1>5, <1>7, <2>1
<1>9. n \in Nat /\ body \in Seq(Events) /\ order \in Bijection(1..n, ActiveIn(l) \cup QueuedIn(l))
  BY <1>1, <1>3, <1>5
<1>10. QED
  BY <1>8, <1>9

LEMMA SubSeqBeyond ==
  ASSUME NEW s \in Seq(Events), NEW t \in Seq(Events), NEW j \in 0..Len(t)
  PROVE  SubSeq(s \o t, 1, Len(s) + j) = s \o SubSeq(t, 1, j)
<1> DEFINE u == s \o t
           m == Len(s) + j
           f == SubSeq(t, 1, j)
<1>1. Len(s) \in Nat /\ Len(t) \in Nat /\ j \in Nat /\ j <= Len(t)
  BY LenProperties
<1>2. /\ u \in Seq(Events) /\ Len(u) = Len(s) + Len(t)
      /\ \A i \in 1 .. Len(s) + Len(t) : u[i] = IF i <= Len(s) THEN s[i] ELSE t[i - Len(s)]
  BY ConcatProperties
<1>3. f \in Seq(Events) /\ Len(f) = j /\ \A i \in 1..j : f[i] = t[i]
  <2>1. \A i \in 1..j : t[i] \in Events
    BY <1>1, ElementOfSeq
  <2>2. QED
    BY <1>1, <2>1, SubSeqProperties
<1>4. m \in Nat /\ m <= Len(u)
  BY <1>1, <1>2
<1> HIDE DEF u
<1>5. SubSeq(u, 1, m) \in Seq(Events) /\ Len(SubSeq(u, 1, m)) = m
      /\ \A i \in 1..m : SubSeq(u, 1, m)[i] = u[i]
  <2>1. \A i \in 1..m : u[i] \in Events
    BY <1>2, <1>4, ElementOfSeq
  <2> HIDE DEF m
  <2>2. QED
    BY <1>4, <2>1, SubSeqProperties
<1> HIDE DEF f
<1>6. /\ s \o f \in Seq(Events) /\ Len(s \o f) = m
      /\ \A i \in 1..m : (s \o f)[i] = IF i <= Len(s) THEN s[i] ELSE f[i - Len(s)]
  BY <1>3, ConcatProperties
<1>7. ASSUME NEW i \in 1..m PROVE u[i] = (s \o f)[i]
  <2>1. i \in 1 .. Len(s) + Len(t)
    BY <1>1
  <2>2. CASE i <= Len(s)
    BY <1>2, <1>6, <2>1, <2>2
  <2>3. CASE ~(i <= Len(s))
    <3>1. i - Len(s) \in 1..j
      BY <1>1, <2>3
    <3>2. u[i] = t[i - Len(s)] /\ (s \o f)[i] = f[i - Len(s)]
      BY <1>2, <1>6, <2>1, <2>3
    <3>3. QED
      BY <1>3, <3>1, <3>2
  <2>4. QED
    BY <2>2, <2>3
<1> HIDE DEF m
<1>8. SubSeq(u, 1, m) = s \o f
  BY <1>4, <1>5, <1>6, <1>7, SeqEqual
<1>9. QED
  BY <1>8 DEF u, m, f

\* Ending what is active or queued, each run once, and closing is sound.
LEMMA CloseSound ==
  ASSUME NEW l \in Seq(Events), Sound(l), l # <<>>, ~ClosedIn(l), NEW by \in 0..MaxExecutions
  PROVE  Sound(l \o CloseEvents(l, by))
<1> DEFINE ending == ActiveIn(l) \cup QueuedIn(l)
<1>1. PICK n \in Nat, body \in Seq(Events) :
        \E order \in Bijection(1..n, ending) :
          /\ Len(body) = n
          /\ \A k \in 1..n : body[k] = Event("Ended", order[k], by) /\ order[k] \in 0..MaxRuns
          /\ CloseEvents(l, by) = body \o <<Event("Closed", 0, by)>>
  BY CloseEventsShape
<1>2. PICK order \in Bijection(1..n, ending) :
        /\ Len(body) = n
        /\ \A k \in 1..n : body[k] = Event("Ended", order[k], by) /\ order[k] \in 0..MaxRuns
        /\ CloseEvents(l, by) = body \o <<Event("Closed", 0, by)>>
  BY <1>1
<1>3. /\ \A k \in 1..n : order[k] \in ending
      /\ \A j, k \in 1..n : order[j] = order[k] => j = k
      /\ \A r \in ending : \E k \in 1..n : order[k] = r
  <2>1. order \in Injection(1..n, ending) /\ order \in Surjection(1..n, ending)
    BY <1>2 DEF Bijection
  <2>2. \A k \in 1..n : order[k] \in ending
    BY <2>1 DEF Surjection
  <2>3. \A j, k \in 1..n : order[j] = order[k] => j = k
    BY <2>1, Zenon DEF Injection, IsInjective
  <2>4. \A r \in ending : \E k \in 1..n : order[k] = r
    BY <2>1 DEF Surjection
  <2>5. QED
    BY <2>2, <2>3, <2>4
<1>4. \A k \in 1..n : body[k].kind = "Ended" /\ body[k].run = order[k]
  BY <1>2, EventType
<1> DEFINE pre(j) == l \o SubSeq(body, 1, j)
<1>5. ASSUME NEW j \in 0..n
      PROVE  /\ pre(j) \in Seq(Events) /\ pre(j) # <<>>
             /\ \A kind, r : Says(pre(j), kind, r) <=>
                  Says(l, kind, r) \/ (kind = "Ended" /\ \E k \in 1..j : order[k] = r)
  <2> DEFINE f == SubSeq(body, 1, j)
  <2>1. f \in Seq(Events) /\ Len(f) = j /\ \A k \in 1..j : f[k] = body[k]
    <3>1. \A k \in 1..j : body[k] \in Events
      BY <1>2, ElementOfSeq
    <3>2. j \in Nat /\ (1 <= j => j - 1 + 1 = j) /\ j - 1 + 1 = j
      BY <1>2
    <3>3. QED
      BY <3>1, <3>2, SubSeqProperties
  <2> HIDE DEF f
  <2>2. \A kind, r : Says(f, kind, r) <=> kind = "Ended" /\ \E k \in 1..j : order[k] = r
    <3>1. DOMAIN f = 1..j
      BY <2>1, LenProperties
    <3>2. \A k \in 1..j : k \in 1..n
      BY <1>2
    <3>3. \A k \in 1..j : f[k].kind = "Ended" /\ f[k].run = order[k]
      BY <1>4, <2>1, <3>2
    <3>4. QED
      BY <3>1, <3>3, Zenon DEF Says
  <2>3. l \o f \in Seq(Events) /\ l \o f # <<>>
    BY <2>1, ConcatProperties, ConcatEqualIffEmpty
  <2>4. \A kind, r : Says(l \o f, kind, r) <=> Says(l, kind, r) \/ Says(f, kind, r)
    BY <2>1, SaysConcat
  <2>5. QED
    BY <2>2, <2>3, <2>4 DEF f
<1>6. SubSeq(body, 1, n) = body
  BY <1>2, SubSeqFull
<1> DEFINE u == l \o body
<1>7. u = pre(n) /\ Len(u) = Len(l) + n /\ Len(l) \in Nat \ {0}
  BY <1>2, <1>6, ConcatProperties, EmptySeq
<1>8. ASSUME NEW i \in 1..Len(u) PROVE LegalAfter(SubSeq(u, 1, i - 1), u[i])
  <2>1. CASE i <= Len(l)
    <3>1. SubSeq(u, 1, i - 1) = SubSeq(l, 1, i - 1)
      BY <1>7, <2>1, SubSeqOfConcat
    <3>2. u[i] = l[i] /\ i \in 1..Len(l)
      BY <1>2, <1>7, <2>1, ConcatProperties
    <3>3. QED
      BY <3>1, <3>2 DEF Sound
  <2>2. CASE i > Len(l)
    <3> DEFINE k == i - Len(l)
    <3>1. k \in 1..n /\ k - 1 \in 0..n /\ i - 1 = Len(l) + (k - 1)
      BY <1>7, <2>2
    <3>2. SubSeq(u, 1, i - 1) = pre(k - 1)
      BY <1>2, <3>1, SubSeqBeyond
    <3>3. u[i] = body[k]
      BY <1>2, <1>7, <2>2, ConcatProperties
    <3> HIDE DEF k, u
    <3>4. u[i].kind = "Ended" /\ u[i].run = order[k]
      BY <1>4, <3>1, <3>3
    <3>5. \A kind, r : Says(pre(k - 1), kind, r) <=>
            Says(l, kind, r) \/ (kind = "Ended" /\ \E j \in 1..(k - 1) : order[j] = r)
      BY <1>5, <3>1
    <3>6. pre(k - 1) # <<>> /\ ~ClosedIn(pre(k - 1))
      BY <1>5, <3>1, <3>5 DEF ClosedIn
    <3> HIDE DEF pre
    <3>7. ~\E j \in 1..(k - 1) : order[j] = order[k]
      BY <1>3, <3>1
    <3>8. order[k] \in ActiveIn(pre(k - 1)) \cup QueuedIn(pre(k - 1))
      BY <1>3, <3>1, <3>5, <3>7 DEF ActiveIn, QueuedIn, EndedIn, WithEvent
    <3>9. QED
      BY <3>2, <3>4, <3>6, <3>8 DEF LegalAfter
  <2>3. QED
    BY <1>7, <2>1, <2>2
<1>9. /\ u \in Seq(Events) /\ u # <<>>
      /\ \A kind, r : Says(u, kind, r) <=>
           Says(l, kind, r) \/ (kind = "Ended" /\ \E k \in 1..n : order[k] = r)
  BY <1>5, <1>7
<1> HIDE DEF u
<1>10. ActiveIn(u) \cup QueuedIn(u) = {} /\ ~ClosedIn(u)
  BY <1>3, <1>9 DEF ActiveIn, QueuedIn, EndedIn, WithEvent, ClosedIn
<1>11. Sound(u)
  <2>1. WithEvent(u, "Accepted") = WithEvent(l, "Accepted")
    BY <1>9 DEF WithEvent
  <2>2. QED
    BY <1>8, <1>10, <2>1 DEF Sound
<1>12. Event("Closed", 0, by) \in Events /\ Event("Closed", 0, by).kind = "Closed"
  BY EventType, HostAssumption DEF HostAssumption
<1>13. LegalAfter(u, Event("Closed", 0, by))
  BY <1>9, <1>10, <1>12 DEF LegalAfter
<1>14. Sound(u \o <<Event("Closed", 0, by)>>)
  BY <1>9, <1>11, <1>12, <1>13, AppendSound
<1>15. u \o <<Event("Closed", 0, by)>> = l \o CloseEvents(l, by)
  <2>1. <<Event("Closed", 0, by)>> \in Seq(Events)
    BY <1>12
  <2>2. QED
    BY <1>2, <2>1, ConcatAssociative DEF u
<1>16. QED
  BY <1>14, <1>15

LEMMA EmptySound == Sound(<<>>) /\ OpenSound(<<>>)
<1>1. \A kind : WithEvent(<<>>, kind) = {}
  BY SaysNothing DEF WithEvent
<1>2. WithEvent(<<>>, "Accepted") = 1..0 /\ 0 \in 0..MaxRuns
  BY <1>1, HostAssumption DEF HostAssumption
<1>3. ActiveIn(<<>>) = {} /\ QueuedIn(<<>>) = {}
  BY <1>1 DEF ActiveIn, QueuedIn
<1>4. \A i \in 1..Len(<<>>) : LegalAfter(SubSeq(<<>>, 1, i - 1), <<>>[i])
  BY EmptySeq
<1>5. ~ClosedIn(<<>>)
  BY SaysNothing DEF ClosedIn
<1>6. QED
  BY <1>2, <1>3, <1>4, <1>5 DEF Sound, OpenSound

-----------------------------------------------------------------------------
(* The log is a legal history.                                             *)

\* Growing the log leaves the beginning that appends were prepared against.
LEMMA GrowthKeepsPrepared ==
  ASSUME NEW e \in Seq(Events), log \in Seq(Events), log' = log \o e,
         NEW q, Request(q), Prepared(q)
  PROVE  Prepared(q)'
<1>1. Len(log) \in Nat /\ Len(e) \in Nat /\ q.head \in 0..Len(log)
  BY LenProperties DEF Request, Prepared
<1>2. Len(log') = Len(log) + Len(e)
  BY ConcatProperties
<1>3. SubSeq(log', 1, q.head) = SubSeq(log, 1, q.head)
  BY <1>1, SubSeqOfConcat
<1>4. q.head <= Len(log')
  BY <1>1, <1>2
<1>5. QED
  BY <1>3, <1>4 DEF Prepared, Sound

\* An attempt that succeeds adds what was prepared against this very log.
LEMMA SucceedsSound ==
  ASSUME LogInv, HistoryInv, NEW q \in abroad, Succeeds(q), UNCHANGED abroad
  PROVE  Sound(log') /\ (\A p \in abroad' : Prepared(p)') /\ IsPrefix(closer, log')
<1>1. /\ log \in Seq(Events) /\ closer \in Seq(Events) /\ q.events \in Seq(Events)
      /\ \A p \in abroad : Request(p) /\ Prepared(p)
  BY DEF LogInv, Typed, HistoryInv, Request
<1>2. CASE Commit(q)
  <2>1. q.head = Len(log) /\ log' = log \o q.events
    BY <1>2 DEF Commit, HeadMatches
  <2>2. SubSeq(log, 1, q.head) = log
    BY <1>1, <2>1, SubSeqFull
  <2>3. Sound(log')
    BY <1>1, <2>1, <2>2 DEF Prepared
  <2>4. \A p \in abroad : Prepared(p)'
    BY <1>1, <2>1, GrowthKeepsPrepared
  <2>5. IsPrefix(closer, log')
    BY <1>1, <2>1, PrefixOfConcat DEF HistoryInv
  <2>6. QED
    BY <2>3, <2>4, <2>5
<1>3. CASE UNCHANGED log
  BY <1>1, <1>3 DEF HistoryInv, Prepared
<1>4. QED
  BY <1>2, <1>3 DEF Succeeds

\* Steps that write nothing and send nothing.
LEMMA QuietSound ==
  ASSUME HistoryInv, UNCHANGED <<log, abroad>>,
         Sound(view'), OpenSound(closer'), IsPrefix(closer', log),
         phase' \in {"recovering", "ready"} => view' # <<>>
  PROVE  HistoryInv'
BY DEF HistoryInv, Prepared

LEMMA IssueSound ==
  ASSUME LogInv, HistoryInv, NEW events \in Seq(Events), Sound(view \o events),
         Issue(events), UNCHANGED <<phase, view, closer>>
  PROVE  HistoryInv'
<1> DEFINE q == [head |-> Len(view), events |-> events, by |-> id]
<1>1. abroad' = abroad \cup {q} /\ log' = log
  BY DEF Issue, Send
<1>2. Len(view) <= Len(log) /\ SubSeq(log, 1, Len(view)) = view
  BY PrefixIsSubSeq DEF LogInv, Typed, ViewIsLog
<1>3. Prepared(q)
  BY <1>2 DEF Prepared
<1>4. \A p \in abroad' : Prepared(p)'
  BY <1>1, <1>3 DEF HistoryInv, Prepared
<1>5. QED
  BY <1>1, <1>4 DEF HistoryInv

LEMMA OneEventSound ==
  ASSUME LogInv, HistoryInv,
         NEW kind \in {"Opened", "Accepted", "Started", "Parked", "Unparked", "Ended", "Closed"},
         NEW r \in 0..MaxRuns, LegalAfter(view, Event(kind, r, id)),
         kind = "Accepted" => r \in Runs /\ r = 1 + Cardinality(WithEvent(view, "Accepted")),
         Issue(<<Event(kind, r, id)>>), UNCHANGED <<phase, view, closer>>
  PROVE  HistoryInv'
<1> DEFINE e == Event(kind, r, id)
<1>1. e \in Events /\ e.kind = kind /\ e.run = r
  BY EventType DEF LogInv, Typed
<1>2. view \in Seq(Events) /\ Sound(view) /\ LegalAfter(view, e) /\ Issue(<<e>>)
  BY DEF LogInv, Typed, HistoryInv
<1> HIDE DEF e
<1>3. Sound(view \o <<e>>)
  BY <1>1, <1>2, AppendSound
<1>4. <<e>> \in Seq(Events)
  BY <1>1
<1>5. QED
  BY <1>2, <1>3, <1>4, IssueSound

LEMMA LoopSound ==
  ASSUME LogInv, HistoryInv, Loop
  PROVE  HistoryInv'
<1>1. /\ view \in Seq(Events) /\ id \in 0..MaxExecutions /\ \A r \in Runs : r \in 0..MaxRuns
      /\ Sound(view) /\ OpenSound(closer) /\ IsPrefix(closer, log)
  BY HostAssumption DEF LogInv, Typed, HistoryInv, Runs, HostAssumption
<1>2. \A l : QueuedIn(l) \subseteq Runs /\ ActiveIn(l) \subseteq Runs /\ ParkedIn(l) \subseteq ActiveIn(l)
  BY DEF QueuedIn, ActiveIn, ParkedIn, WithEvent
<1>3. ASSUME NEW events, LoopAppend(events)
      PROVE  /\ view # <<>> /\ ~ClosedIn(view) /\ Issue(events)
             /\ UNCHANGED <<phase, view, closer>>
  BY <1>3 DEF LoopAppend, HistoryInv
<1>4. CASE AcceptRun
  <2> DEFINE r == 1 + Cardinality(WithEvent(view, "Accepted"))
  <2>1. r \in Runs /\ LoopAppend(<<Event("Accepted", r, id)>>)
    BY <1>4 DEF AcceptRun
  <2>2. PICK n \in 0..MaxRuns : WithEvent(view, "Accepted") = 1..n
    BY <1>1 DEF Sound
  <2>3. r = n + 1
    <3>1. n \in Nat
      BY HostAssumption DEF HostAssumption
    <3>2. Cardinality(1..n) = n
      BY <3>1, FS_Interval
    <3>3. QED
      BY <2>2, <3>1, <3>2
  <2>4. ~Says(view, "Accepted", r)
    BY <2>1, <2>2, <2>3 DEF WithEvent
  <2> HIDE DEF r
  <2>5. LegalAfter(view, Event("Accepted", r, id))
    BY <1>3, <2>1, <2>4 DEF LegalAfter, Event
  <2>6. r = 1 + Cardinality(WithEvent(view, "Accepted"))
    BY DEF r
  <2>7. QED
    BY <1>1, <1>3, <2>1, <2>5, <2>6, OneEventSound
<1>5. CASE StartRun
  <2>1. PICK r \in QueuedIn(view) : LoopAppend(<<Event("Started", r, id)>>)
    BY <1>5 DEF StartRun
  <2>2. LegalAfter(view, Event("Started", r, id))
    BY <1>3, <1>5, <2>1 DEF LegalAfter, Event, StartRun
  <2>3. QED
    BY <1>1, <1>2, <1>3, <2>1, <2>2, OneEventSound
<1>6. CASE CancelQueuedRun
  <2>1. PICK r \in QueuedIn(view) : LoopAppend(<<Event("Ended", r, id)>>)
    BY <1>6 DEF CancelQueuedRun
  <2>2. LegalAfter(view, Event("Ended", r, id))
    BY <1>3, <2>1 DEF LegalAfter, Event
  <2>3. QED
    BY <1>1, <1>2, <1>3, <2>1, <2>2, OneEventSound
<1>7. CASE UnparkRun
  <2>1. PICK r \in ParkedIn(view) : LoopAppend(<<Event("Unparked", r, id)>>)
    BY <1>7 DEF UnparkRun
  <2>2. LegalAfter(view, Event("Unparked", r, id))
    BY <1>3, <2>1 DEF LegalAfter, Event
  <2>3. QED
    BY <1>1, <1>2, <1>3, <2>1, <2>2, OneEventSound
<1>8. CASE CloseSession
  <2>1. LoopAppend(CloseEvents(view, id))
    BY <1>8 DEF CloseSession
  <2>2. Sound(view \o CloseEvents(view, id)) /\ CloseEvents(view, id) \in Seq(Events)
    BY <1>1, <1>3, <2>1, CloseSound, CloseEventsType
  <2>3. QED
    BY <1>3, <2>1, <2>2, IssueSound
<1>9. CASE LogResult
  <2>1. /\ view # <<>> /\ UNCHANGED <<phase, view, closer>>
    BY <1>9 DEF LogResult, HistoryInv
  <2>2. PICK r \in ActiveIn(view) \ ParkedIn(view) :
          \/ Issue(<<Event("Ended", r, id)>>)
          \/ Issue(<<Event("Parked", r, id)>>)
    BY <1>9 DEF LogResult
  <2>3. ~ClosedIn(view)
    BY <1>1, <2>2 DEF Sound
  <2>4. LegalAfter(view, Event("Ended", r, id)) /\ LegalAfter(view, Event("Parked", r, id))
    BY <2>1, <2>2, <2>3 DEF LegalAfter, Event
  <2>5. QED
    BY <1>1, <1>2, <2>1, <2>2, <2>4, OneEventSound
<1>10. CASE DoWork \/ FlushEmissions \/ Complete
  BY <1>1, <1>10, QuietSound DEF DoWork, FlushEmissions, Complete, logVars, HistoryInv
<1>11. CASE RollOver
  BY <1>1, <1>11, EmptySound, QuietSound DEF RollOver, NextExecution, logVars
<1>12. QED
  BY <1>4, <1>5, <1>6, <1>7, <1>8, <1>9, <1>10, <1>11, Loop DEF Loop

LEMMA BootstrapSound ==
  ASSUME LogInv, HistoryInv, Bootstrap
  PROVE  HistoryInv'
<1>1. /\ view \in Seq(Events) /\ id \in 0..MaxExecutions /\ 0 \in 0..MaxRuns
      /\ \A r \in Runs : r \in 0..MaxRuns
      /\ Sound(log) /\ Sound(view) /\ OpenSound(closer) /\ IsPrefix(closer, log)
  BY HostAssumption DEF LogInv, Typed, HistoryInv, Runs, HostAssumption
<1>2. CASE StartSession
  BY <1>1, <1>2, EmptySound, QuietSound DEF StartSession, NextExecution, logVars
<1>3. CASE LoadFresh
  <2>1. CASE restarted
    BY <1>1, <1>3, <2>1, QuietSound DEF LoadFresh, logVars
  <2>2. CASE ~restarted
    <3>1. /\ view = <<>> /\ Issue(<<Event("Opened", 0, id)>>) /\ UNCHANGED <<phase, view, closer>>
      BY <1>3, <2>2 DEF LoadFresh, LogInv, Awaited
    <3>2. ~ClosedIn(view)
      BY <3>1, SaysNothing DEF ClosedIn
    <3>3. LegalAfter(view, Event("Opened", 0, id))
      BY <3>1, <3>2 DEF LegalAfter, Event
    <3>4. QED
      BY <1>1, <3>1, <3>3, OneEventSound
  <2>3. QED
    BY <2>1, <2>2
<1>4. CASE Load
  BY <1>1, <1>4, QuietSound DEF Load, logVars
<1>5. CASE FailInterrupted
  <2>1. /\ view # <<>> /\ UNCHANGED <<phase, view, closer>>
    BY <1>5 DEF FailInterrupted, HistoryInv
  <2>2. PICK r \in ActiveIn(view) : Issue(<<Event("Ended", r, id)>>)
    BY <1>5 DEF FailInterrupted, InterruptedRun
  <2>3. ~ClosedIn(view) /\ r \in Runs
    BY <1>1, <2>2 DEF Sound, ActiveIn, WithEvent
  <2>4. LegalAfter(view, Event("Ended", r, id))
    BY <2>1, <2>2, <2>3 DEF LegalAfter, Event
  <2>5. QED
    BY <1>1, <2>1, <2>2, <2>3, <2>4, OneEventSound
<1>6. CASE FinishRecovery
  BY <1>1, <1>6, QuietSound DEF FinishRecovery, logVars, HistoryInv
<1>7. QED
  BY <1>2, <1>3, <1>4, <1>5, <1>6, Bootstrap DEF Bootstrap

LEMMA AppendSucceedsSound ==
  ASSUME LogInv, HistoryInv, AppendSucceeds
  PROVE  HistoryInv'
<1>1. /\ pending \in abroad /\ Succeeds(pending) /\ UNCHANGED <<abroad, closer>>
      /\ view' = view \o pending.events /\ pending.head = Len(view)
  BY DEF AppendSucceeds, LandHeard, LogInv, Awaited
<1>2. Sound(log') /\ (\A p \in abroad' : Prepared(p)') /\ IsPrefix(closer, log')
  BY <1>1, SucceedsSound
<1>3. /\ log \in Seq(Events) /\ view \in Seq(Events) /\ IsPrefix(view, log)
      /\ pending.events \in Seq(Events) /\ pending.events # <<>>
  BY <1>1 DEF LogInv, Typed, ViewIsLog, Request
<1>4. Sound(view')
  <2>1. SubSeq(log, 1, pending.head) = view
    BY <1>1, <1>3, PrefixIsSubSeq
  <2>2. QED
    BY <1>1, <2>1 DEF HistoryInv, Prepared
<1>5. view' # <<>>
  BY <1>1, <1>3, ConcatEqualIffEmpty
<1>6. QED
  BY <1>1, <1>2, <1>4, <1>5 DEF HistoryInv

LEMMA ForceCloseSound ==
  ASSUME LogInv, HistoryInv, ForceCloseAppends
  PROVE  HistoryInv'
<1> DEFINE q == [head |-> Len(closer), events |-> CloseEvents(closer, 0), by |-> 0]
<1>1. UNCHANGED <<phase, view, abroad>> /\ closer' \in {closer, <<>>} /\ closer # <<>>
  BY DEF ForceCloseAppends, execVars, logVars
<1>2. /\ log \in Seq(Events) /\ closer \in Seq(Events) /\ OpenSound(closer) /\ IsPrefix(closer, log)
      /\ 0 \in 0..MaxExecutions
  BY HostAssumption DEF LogInv, Typed, HistoryInv, HostAssumption
<1>3. CASE Commit(q)
  <2>1. Len(closer) = Len(log) /\ log' = log \o CloseEvents(closer, 0)
    BY <1>3 DEF Commit, HeadMatches
  <2>2. closer = log
    BY <1>2, <2>1, PrefixIsSubSeq, SubSeqFull
  <2>3. CloseEvents(closer, 0) \in Seq(Events)
    BY <1>2, CloseEventsType
  <2>4. Sound(closer) /\ ~ClosedIn(closer)
    BY <1>2 DEF OpenSound
  <2>5. Sound(log')
    BY <1>1, <1>2, <2>1, <2>2, <2>4, CloseSound
  <2>6. \A p \in abroad' : Prepared(p)'
    <3>1. \A p \in abroad : Request(p) /\ Prepared(p)
      BY DEF LogInv, Typed, HistoryInv
    <3>2. \A p \in abroad : Prepared(p)'
      BY <1>2, <2>1, <2>3, <3>1, GrowthKeepsPrepared
    <3>3. abroad' = abroad
      BY <1>1
    <3>4. QED
      BY <3>2, <3>3
  <2>7. log' \in Seq(Events)
    BY <1>2, <2>1, <2>3, ConcatProperties
  <2>8. IsPrefix(closer, log')
    BY <1>2, <2>1, <2>3, PrefixOfConcat
  <2>9. OpenSound(closer') /\ IsPrefix(closer', log')
    BY <1>1, <1>2, <2>7, <2>8, EmptySound, EmptyPrefix
  <2>10. QED
    BY <1>1, <2>5, <2>6, <2>9 DEF HistoryInv
<1>4. CASE UNCHANGED logVars
  BY <1>1, <1>2, <1>4, EmptySound, EmptyPrefix, QuietSound DEF logVars, HistoryInv
<1>5. QED
  BY <1>3, <1>4 DEF ForceCloseAppends

\* Every step of executions, gateway and network keeps the history sound.
LEMMA NextSound ==
  ASSUME LogInv, HistoryInv, [Next]_vars
  PROVE  HistoryInv'
<1>1. /\ Sound(log) /\ Sound(view) /\ OpenSound(closer) /\ IsPrefix(closer, log)
      /\ log \in Seq(Events)
  BY DEF HistoryInv, LogInv, Typed
<1>2. CASE Bootstrap
  BY <1>2, BootstrapSound
<1>3. CASE Loop
  BY <1>3, LoopSound
<1>4. CASE AppendSucceeds
  BY <1>4, AppendSucceedsSound
<1>5. CASE AppendFails \/ Stop
  BY <1>1, <1>5, EmptySound, QuietSound DEF AppendFails, Refused, Stop, logVars
<1>6. CASE StrayAttempt
  <2>1. PICK q \in abroad : Succeeds(q) /\ UNCHANGED abroad
    BY <1>6 DEF StrayAttempt, LandUnheard
  <2>2. UNCHANGED <<phase, view, closer>>
    BY <1>6 DEF StrayAttempt, hostVars, execVars
  <2>3. Sound(log') /\ (\A p \in abroad' : Prepared(p)') /\ IsPrefix(closer, log')
    BY <2>1, SucceedsSound
  <2>4. QED
    BY <2>2, <2>3 DEF HistoryInv
<1>7. CASE AskRestart
  BY <1>1, <1>7, QuietSound DEF AskRestart, logVars, execVars, HistoryInv
<1>8. CASE StartRestart
  <2>1. CASE Running
    BY <1>1, <1>8, <2>1, QuietSound DEF StartRestart, logVars, execVars, HistoryInv
  <2>2. CASE ~Running
    BY <1>1, <1>8, <2>2, EmptySound, QuietSound DEF StartRestart, NextExecution, logVars
  <2>3. QED
    BY <2>1, <2>2
<1>9. CASE ForceClose /\ ~ForceCloseAppends
  <2>1. /\ UNCHANGED <<log, abroad, view, phase>>
        /\ closer' \in {closer, <<>>} \/ (closer' = log /\ OpenSound(log))
    BY <1>1, <1>9
    DEF ForceClose, ForceCloseLoads, ForceCloseReads, ForceCloseTells, ForceCloseEnds,
        ForceCloseFails, logVars, execVars, OpenSound
  <2>2. IsPrefix(log, log)
    <3>1. Len(log) \in Nat
      BY <1>1, LenProperties
    <3>2. QED
      BY <1>1, <3>1, PrefixElements
  <2>3. OpenSound(closer') /\ IsPrefix(closer', log)
    BY <1>1, <2>1, <2>2, EmptySound, EmptyPrefix
  <2>4. QED
    BY <1>1, <2>1, <2>3, QuietSound DEF HistoryInv
<1>10. CASE ForceCloseAppends
  BY <1>10, ForceCloseSound
<1>11. CASE UNCHANGED vars
  BY <1>1, <1>11, QuietSound DEF vars, logVars, hostVars, execVars, HistoryInv
<1>12. QED
  BY <1>2, <1>3, <1>4, <1>5, <1>6, <1>7, <1>8, <1>9, <1>10, <1>11 DEF Next

LEMMA InitSound == Init => HistoryInv
<1> SUFFICES ASSUME Init PROVE HistoryInv
  OBVIOUS
<1>1. log = <<>> /\ view = <<>> /\ closer = <<>> /\ abroad = {} /\ phase = "none"
  BY DEF Init, LogInit
<1>2. IsPrefix(closer, log)
  BY <1>1, EmptySeq, EmptyPrefix
<1>3. QED
  BY <1>1, <1>2, EmptySound DEF HistoryInv

\* Whatever was sent goes on soundly from what it was prepared against, in
\* every reachable state.
THEOREM HistoryInvariant == Spec => []HistoryInv
<1>1. Init => HistoryInv
  BY InitSound
<1>2. LogInv /\ HistoryInv /\ [Next]_vars => HistoryInv'
  BY NextSound
<1>3. QED
  BY <1>1, <1>2, LogInvariant, PTL DEF Spec

\* HistoryIsLegal holds in every behaviour: executions, their strays and
\* direct closes write one history in which runs start alone, end once and
\* nothing follows the close.
THEOREM HistoryAlwaysLegal == Spec => []HistoryIsLegal
<1>1. LogInv /\ HistoryInv => HistoryIsLegal
  <2>1. SUFFICES ASSUME LogInv, HistoryInv PROVE HistoryIsLegal
    OBVIOUS
  <2>2. DOMAIN log = 1..Len(log)
    BY <2>1, LenProperties DEF LogInv, Typed
  <2>3. Sound(log)
    BY <2>1 DEF HistoryInv
  <2>4. QED
    BY <2>2, <2>3 DEF Sound, HistoryIsLegal
<1>2. QED
  BY <1>1, LogInvariant, HistoryInvariant, PTL

-----------------------------------------------------------------------------
(* Work is done once.                                                      *)

\* What the log said it goes on saying.
LEMMA LogKeepsSaying ==
  ASSUME LogInv, [Next]_vars, NEW kind, NEW r, Says(log, kind, r)
  PROVE  Says(log', kind, r)
<1>1. log \in Seq(Events)
  BY DEF LogInv, Typed
<1>2. ASSUME NEW q, Request(q), Commit(q) PROVE Says(log', kind, r)
  <2>1. q.events \in Seq(Events) /\ log' = log \o q.events
    BY <1>2 DEF Request, Commit
  <2>2. QED
    BY <1>1, <2>1, SaysConcat
<1>3. \A q \in abroad : Request(q)
  BY DEF LogInv, Typed
<1>4. CASE UNCHANGED log
  BY <1>4
<1>5. CASE AppendSucceeds
  <2>1. pending \in abroad /\ Succeeds(pending)
    BY <1>5 DEF AppendSucceeds, LandHeard
  <2>2. QED
    BY <1>2, <1>3, <2>1 DEF Succeeds
<1>6. CASE StrayAttempt
  <2>1. PICK q \in abroad : Succeeds(q)
    BY <1>6 DEF StrayAttempt, LandUnheard
  <2>2. QED
    BY <1>2, <1>3, <2>1 DEF Succeeds
<1>7. CASE ForceCloseAppends
  <2> DEFINE q == [head |-> Len(closer), events |-> CloseEvents(closer, 0), by |-> 0]
  <2>1. CASE Commit(q)
    <3>1. CloseEvents(closer, 0) \in Seq(Events)
      BY CloseEventsType, HostAssumption DEF HostAssumption
    <3>2. log' = log \o CloseEvents(closer, 0)
      BY <2>1 DEF Commit
    <3>3. QED
      BY <1>1, <3>1, <3>2, SaysConcat
  <2>2. CASE UNCHANGED log
    BY <2>2
  <2>3. QED
    BY <1>7, <2>1, <2>2 DEF ForceCloseAppends, logVars
<1>8. CASE Bootstrap
  BY <1>4, <1>8
  DEF Bootstrap, StartSession, LoadFresh, Load, FailInterrupted, FinishRecovery, Issue, Send, logVars
<1>9. CASE Loop
  BY <1>4, <1>9
  DEF Loop, AcceptRun, StartRun, CancelQueuedRun, UnparkRun, CloseSession, LoopAppend,
      DoWork, LogResult, FlushEmissions, Complete, RollOver, Issue, Send, logVars
<1>10. CASE ForceClose /\ ~ForceCloseAppends
  BY <1>4, <1>10, ForceCloseQuiet DEF logVars
<1>11. QED
  BY <1>4, <1>5, <1>6, <1>7, <1>8, <1>9, <1>10
  DEF Next, AppendFails, Refused, Stop, AskRestart, StartRestart, logVars, vars

\* A close says the end of every active run, and says the close last.
LEMMA CloseEndsActive ==
  ASSUME NEW l, NEW by \in 0..MaxExecutions
  PROVE  /\ Last(CloseEvents(l, by)).kind = "Closed"
         /\ Says(CloseEvents(l, by), "Closed", 0)
         /\ \A r \in ActiveIn(l) : Says(CloseEvents(l, by), "Ended", r)
<1> DEFINE ending == ActiveIn(l) \cup QueuedIn(l)
           e == Event("Closed", 0, by)
<1>1. PICK n \in Nat, body \in Seq(Events) :
        \E order \in Bijection(1..n, ending) :
          /\ Len(body) = n
          /\ \A k \in 1..n : body[k] = Event("Ended", order[k], by) /\ order[k] \in 0..MaxRuns
          /\ CloseEvents(l, by) = body \o <<e>>
  BY CloseEventsShape
<1>2. PICK order \in Bijection(1..n, ending) :
        /\ Len(body) = n
        /\ \A k \in 1..n : body[k] = Event("Ended", order[k], by) /\ order[k] \in 0..MaxRuns
        /\ CloseEvents(l, by) = body \o <<e>>
  BY <1>1
<1>3. e \in Events /\ e.kind = "Closed" /\ e.run = 0
  BY EventType, HostAssumption DEF HostAssumption
<1> HIDE DEF e
<1>4. <<e>> \in Seq(Events) /\ Len(<<e>>) = 1 /\ <<e>>[1] = e /\ DOMAIN <<e>> = {1}
  BY <1>3
<1>5. /\ Len(body \o <<e>>) = n + 1
      /\ \A i \in 1 .. n + 1 : (body \o <<e>>)[i] = IF i <= n THEN body[i] ELSE <<e>>[i - n]
  BY <1>2, <1>4, ConcatProperties
<1>6. (body \o <<e>>)[n + 1] = <<e>>[n + 1 - n]
  BY <1>5
<1>7. Last(CloseEvents(l, by)) = e
  BY <1>2, <1>4, <1>5, <1>6 DEF Last
<1>8. ASSUME NEW r \in ActiveIn(l) PROVE Says(CloseEvents(l, by), "Ended", r)
  <2>1. order \in Surjection(1..n, ending)
    BY <1>2 DEF Bijection
  <2>2. PICK k \in 1..n : order[k] = r
    BY <2>1 DEF Surjection
  <2>3. body[k].kind = "Ended" /\ body[k].run = r
    BY <1>2, <2>2, EventType
  <2>4. Says(body, "Ended", r)
    <3>1. DOMAIN body = 1..n
      BY <1>2, LenProperties
    <3>2. QED
      BY <2>3, <3>1 DEF Says
  <2>5. Says(body \o <<e>>, "Ended", r)
    BY <1>4, <2>4, SaysConcat
  <2>6. QED
    BY <1>2, <2>5
<1>9. Says(CloseEvents(l, by), "Closed", 0)
  <2>1. Says(<<e>>, "Closed", 0)
    <3>1. 1 \in DOMAIN <<e>> /\ <<e>>[1].kind = "Closed" /\ <<e>>[1].run = 0
      BY <1>3, <1>4
    <3>2. QED
      BY <3>1, Zenon DEF Says
  <2>2. Says(body \o <<e>>, "Closed", 0)
    BY <1>4, <2>1, SaysConcat
  <2>3. QED
    BY <1>2, <2>2
<1>10. QED
  BY <1>3, <1>7, <1>8, <1>9

\* A step after which no execution is open, or one that will fail the work.
LEMMA AbandonedWork ==
  ASSUME LogInv, WorkInv, [Next]_vars, worked' = worked, result' = 0,
         \/ phase' \in {"none", "stopped", "completed"}
         \/ phase' = "loading" /\ restarted' /\ pending' = None
  PROVE  WorkInv'
<1>1. ASSUME NEW r \in Runs, worked'[r] = 1 PROVE Accounted(r)'
  <2>1. Says(log, "Started", r)
    BY <1>1 DEF WorkInv, Accounted
  <2>2. Says(log', "Started", r)
    BY <2>1, LogKeepsSaying
  <2>3. QED
    BY <2>2 DEF Accounted, Says
<1>2. QED
  BY <1>1 DEF WorkInv

\* A step that leaves the execution where it is.
LEMMA QuietWork ==
  ASSUME LogInv, WorkInv, [Next]_vars,
         UNCHANGED <<worked, result, phase, restarted, view, pending>>
  PROVE  WorkInv'
<1>1. ASSUME NEW r \in Runs, worked'[r] = 1 PROVE Accounted(r)'
  <2>1. Accounted(r)
    BY <1>1 DEF WorkInv
  <2>2. Says(log', "Started", r) /\ (Settled(log, r) => Settled(log', r))
    BY <2>1, LogKeepsSaying DEF Accounted, Settled
  <2>3. QED
    BY <2>1, <2>2 DEF Accounted, Says, Settled
<1>2. QED
  BY <1>1 DEF WorkInv, ActiveIn, EndedIn, WithEvent, Says

\* Before anything is written no work was done.
LEMMA NoWorkYet ==
  ASSUME WorkInv, log = <<>>
  PROVE  \A r \in Runs : worked[r] # 1
BY SaysNothing DEF WorkInv, Accounted

\* A command or a planned step is sent while work is under way or not.
LEMMA LoopAppendWork ==
  ASSUME LogInv, WorkInv, [Next]_vars, NEW events, LoopAppend(events),
         Last(events).kind # "Closed", ~Says(events, "Ended", result)
  PROVE  WorkInv'
<1>1. /\ phase = "ready" /\ pending = None /\ pending'.events = events
      /\ UNCHANGED <<worked, result, phase, view, log>>
  BY DEF LoopAppend, Issue, Send
<1>2. ASSUME NEW r \in Runs, worked'[r] = 1 PROVE Accounted(r)'
  <2>1. Accounted(r)
    BY <1>1, <1>2 DEF WorkInv
  <2>2. QED
    BY <1>1, <2>1 DEF Accounted, Settled, Says
<1>3. QED
  BY <1>1, <1>2 DEF WorkInv, ActiveIn, EndedIn, WithEvent, Says

LEMMA OneLoopEventWork ==
  ASSUME LogInv, WorkInv, [Next]_vars,
         NEW kind \in {"Opened", "Accepted", "Started", "Parked", "Unparked", "Ended"},
         NEW r \in 0..MaxRuns, LoopAppend(<<Event(kind, r, id)>>),
         kind = "Ended" => r # result
  PROVE  WorkInv'
<1> DEFINE e == Event(kind, r, id)
<1>1. e \in Events /\ e.kind = kind /\ e.run = r
  BY EventType DEF LogInv, Typed
<1> HIDE DEF e
<1>2. Last(<<e>>) = e
  BY DEF Last
<1>3. ~Says(<<e>>, "Ended", result)
  BY <1>1, SaysOne
<1>4. LoopAppend(<<e>>)
  BY DEF e
<1>5. QED
  BY <1>1, <1>2, <1>3, <1>4, LoopAppendWork

\* The work of a run is done only if it was not done before: a run that was
\* worked on is settled in the view, ended or parked, and once parked it is
\* resumed before it goes on.
LEMMA DoWorkOnce ==
  ASSUME LogInv, HistoryInv, WorkInv, DoWork
  PROVE  WorkInv'
<1>1. /\ phase = "ready" /\ pending = None /\ result = 0
      /\ UNCHANGED <<log, phase, view, pending, restarted>>
  BY DEF DoWork, AtLoop, logVars
<1>2. PICK r \in ActiveIn(view) \ ParkedIn(view) :
        /\ ~Says(view, "Unparked", r)
        /\ result' = r
        /\ worked' = [worked EXCEPT ![r] = @ + 1]
  BY DEF DoWork
<1>3. r \in Runs /\ Says(view, "Started", r) /\ ~Says(view, "Ended", r)
  BY DEF ActiveIn, EndedIn, WithEvent
<1>4. ~Says(view, "Parked", r)
  BY <1>2, <1>3 DEF ParkedIn, ActiveIn, EndedIn, WithEvent
<1>5. worked[r] # 1
  BY <1>1, <1>2, <1>3, <1>4 DEF WorkInv, Accounted, Settled, Runs
<1>6. worked' \in [Runs -> 0..1]
  <2>1. worked[r] = 0
    BY <1>3, <1>5 DEF WorkInv
  <2>2. worked' = [worked EXCEPT ![r] = 1]
    BY <1>2, <2>1
  <2>3. worked \in [Runs -> 0..1] /\ 1 \in 0..1
    BY DEF WorkInv
  <2>4. QED
    BY <2>2, <2>3
<1>7. Says(log, "Started", r)
  BY <1>3, SaysPrefix DEF LogInv, Typed, ViewIsLog
<1>8. ASSUME NEW s \in Runs, worked'[s] = 1 PROVE Accounted(s)'
  <2>1. CASE s = r
    <3>1. Says(log, "Started", s)'
      BY <1>1, <1>7, <2>1 DEF Says
    <3>2. phase' = "ready" /\ result' = s
      BY <1>1, <1>2, <2>1
    <3>3. QED
      BY <3>1, <3>2 DEF Accounted
  <2>2. CASE s # r
    <3>1. worked[s] = 1
      BY <1>2, <1>8, <2>2 DEF WorkInv
    <3>2. QED
      BY <1>1, <3>1 DEF WorkInv, Accounted, Settled, Says, Runs
  <2>3. QED
    BY <2>1, <2>2
<1>9. QED
  BY <1>1, <1>2, <1>6, <1>8 DEF WorkInv, ActiveIn, EndedIn, WithEvent, Says

LEMMA LogResultWork ==
  ASSUME LogInv, HistoryInv, WorkInv, LogResult
  PROVE  WorkInv'
<1>1. /\ phase = "ready" /\ pending = None /\ result' = 0
      /\ UNCHANGED <<log, phase, view, worked>> /\ id \in 0..MaxExecutions
      /\ \A r \in Runs : r \in 0..MaxRuns
  BY HostAssumption DEF LogResult, Issue, Send, LogInv, Typed, Runs, HostAssumption
<1>2. PICK r \in ActiveIn(view) \ ParkedIn(view), kind \in {"Ended", "Parked"} :
        Issue(<<Event(kind, r, id)>>)
  BY DEF LogResult
<1>3. r \in Runs /\ r \in 0..MaxRuns
  BY <1>1 DEF ActiveIn, WithEvent
<1> DEFINE e == Event(kind, r, id)
<1>4. e \in Events /\ e.kind = kind /\ e.run = r
  BY <1>1, <1>3, EventType
<1>5. pending' # None /\ pending'.events = <<e>>
  <2>1. pending'.events = <<e>>
    BY <1>2 DEF Issue
  <2> HIDE DEF e
  <2>2. QED
    BY <2>1 DEF None
<1> HIDE DEF e
<1>6. Settled(<<e>>, r)
  BY <1>4, SaysOne DEF Settled
<1>7. ASSUME NEW s \in Runs, worked'[s] = 1 PROVE Accounted(s)'
  <2>1. Says(log, "Started", s) /\ (Settled(view, s) \/ result = s)
    BY <1>1, <1>7 DEF WorkInv, Accounted
  <2>2. result = s => s = r
    BY <1>2 DEF WorkInv, HistoryInv, Sound, Runs
  <2>3. Settled(view, s)' \/ (pending' # None /\ Settled(pending.events, s)')
    BY <1>1, <1>5, <1>6, <2>1, <2>2 DEF Settled, Says
  <2>4. QED
    BY <1>1, <2>1, <2>3 DEF Accounted, Says
<1>8. QED
  BY <1>1, <1>7 DEF WorkInv

LEMMA CloseSessionWork ==
  ASSUME LogInv, HistoryInv, WorkInv, CloseSession
  PROVE  WorkInv'
<1> DEFINE events == CloseEvents(view, id)
<1>1. id \in 0..MaxExecutions
  BY DEF LogInv, Typed
<1>2. /\ Last(events).kind = "Closed" /\ \A r \in ActiveIn(view) : Says(events, "Ended", r)
      /\ events # <<>>
  BY <1>1, CloseEndsActive, CloseEventsType
<1>3. LoopAppend(events)
  BY DEF CloseSession
<1> HIDE DEF events
<1>4. /\ phase = "ready" /\ pending = None /\ pending'.events = events /\ result' = 0
      /\ UNCHANGED <<worked, phase, view, log>>
  BY <1>2, <1>3 DEF LoopAppend, Issue, Send
<1>5. pending' # None
  BY <1>2, <1>4 DEF None
<1>6. ASSUME NEW r \in Runs, worked'[r] = 1 PROVE Accounted(r)'
  <2>1. Says(log, "Started", r) /\ (Settled(view, r) \/ result = r)
    BY <1>4, <1>6 DEF WorkInv, Accounted
  <2>2. result = r => Settled(events, r)
    BY <1>2 DEF WorkInv, Settled, Runs
  <2>3. Settled(view, r)' \/ (pending' # None /\ Settled(pending.events, r)')
    BY <1>4, <1>5, <2>1, <2>2 DEF Settled, Says
  <2>4. QED
    BY <1>4, <2>1, <2>3 DEF Accounted, Says
<1>7. QED
  BY <1>4, <1>6 DEF WorkInv

LEMMA LoopWork ==
  ASSUME LogInv, HistoryInv, WorkInv, [Next]_vars, Loop
  PROVE  WorkInv'
<1>1. \A r \in Runs : r \in 0..MaxRuns
  BY HostAssumption DEF Runs, HostAssumption
<1>2. \A l : QueuedIn(l) \subseteq Runs /\ ParkedIn(l) \subseteq Runs
  BY DEF QueuedIn, ParkedIn, ActiveIn, WithEvent
<1>3. CASE AcceptRun
  <2>1. PICK r \in Runs : LoopAppend(<<Event("Accepted", r, id)>>)
    BY <1>3 DEF AcceptRun
  <2>2. QED
    BY <1>1, <2>1, OneLoopEventWork
<1>4. CASE StartRun
  <2>1. PICK r \in QueuedIn(view) : LoopAppend(<<Event("Started", r, id)>>)
    BY <1>4 DEF StartRun
  <2>2. QED
    BY <1>1, <1>2, <2>1, OneLoopEventWork
<1>5. CASE CancelQueuedRun
  <2>1. PICK r \in QueuedIn(view) : LoopAppend(<<Event("Ended", r, id)>>)
    BY <1>5 DEF CancelQueuedRun
  <2>2. r \in Runs /\ r # result
    BY <1>2, <2>1 DEF WorkInv, QueuedIn, ActiveIn, Runs
  <2>3. QED
    BY <1>1, <2>1, <2>2, OneLoopEventWork
<1>6. CASE UnparkRun
  <2>1. PICK r \in ParkedIn(view) : LoopAppend(<<Event("Unparked", r, id)>>)
    BY <1>6 DEF UnparkRun
  <2>2. QED
    BY <1>1, <1>2, <2>1, OneLoopEventWork
<1>7. CASE CloseSession
  BY <1>7, CloseSessionWork
<1>8. CASE DoWork
  BY <1>8, DoWorkOnce
<1>9. CASE LogResult
  BY <1>9, LogResultWork
<1>10. CASE FlushEmissions
  BY <1>10, QuietWork DEF FlushEmissions
<1>11. CASE Complete
  BY <1>11, AbandonedWork DEF Complete, AtLoop
<1>12. CASE RollOver
  <2>1. /\ phase = "ready" /\ pending = None /\ result = 0 /\ UNCHANGED <<log, worked>>
        /\ phase' = "loading" /\ pending' = None /\ result' = 0
    BY <1>12 DEF RollOver, MayRollOver, AtLoop, NextExecution, logVars
  <2>2. ASSUME NEW r \in Runs, worked'[r] = 1 PROVE Accounted(r)'
    <3>1. Says(log, "Started", r) /\ Settled(view, r)
      BY <2>1, <2>2 DEF WorkInv, Accounted, Runs
    <3>2. Settled(log, r)
      BY <3>1, SaysPrefix DEF Settled, LogInv, Typed, ViewIsLog
    <3>3. QED
      BY <2>1, <3>1, <3>2 DEF Accounted, Settled, Says
  <2>3. QED
    BY <2>1, <2>2 DEF WorkInv
<1>13. QED
  BY <1>3, <1>4, <1>5, <1>6, <1>7, <1>8, <1>9, <1>10, <1>11, <1>12, Loop DEF Loop

LEMMA BootstrapWork ==
  ASSUME LogInv, HistoryInv, WorkInv, [Next]_vars, Bootstrap
  PROVE  WorkInv'
<1>1. CASE StartSession
  BY <1>1, NoWorkYet DEF StartSession, NextExecution, WorkInv
<1>2. CASE LoadFresh
  <2>1. result = 0 /\ result' = 0 /\ worked' = worked
    BY <1>2 DEF LoadFresh, WorkInv
  <2>2. \A r \in Runs : worked[r] # 1
    BY <1>2, NoWorkYet DEF LoadFresh
  <2>3. QED
    BY <2>1, <2>2 DEF WorkInv
<1>3. CASE Load
  <2>1. /\ phase = "loading" /\ result = 0 /\ UNCHANGED <<log, worked, result, pending>> /\ view' = log
        /\ phase' = IF restarted THEN "recovering" ELSE "ready"
    BY <1>3 DEF Load, logVars, WorkInv
  <2>2. ASSUME NEW r \in Runs, worked'[r] = 1 PROVE Accounted(r)'
    <3>1. Says(log, "Started", r) /\ (restarted \/ Settled(log, r))
      BY <2>1, <2>2 DEF WorkInv, Accounted
    <3>2. QED
      BY <2>1, <3>1 DEF Accounted, Settled, Says
  <2>3. QED
    BY <2>1, <2>2 DEF WorkInv
<1>4. CASE FailInterrupted
  <2>1. /\ phase = "recovering" /\ result = 0 /\ UNCHANGED <<log, worked, result, phase, view>>
    BY <1>4 DEF FailInterrupted, Issue, Send, WorkInv
  <2>2. ASSUME NEW r \in Runs, worked'[r] = 1 PROVE Accounted(r)'
    BY <2>1, <2>2 DEF WorkInv, Accounted, Says
  <2>3. QED
    BY <2>1, <2>2 DEF WorkInv
<1>5. CASE FinishRecovery
  <2>1. /\ phase = "recovering" /\ result = 0 /\ UNCHANGED <<log, worked, result, view>>
        /\ phase' = "ready" /\ ActiveIn(view) \ ParkedIn(view) = {}
    BY <1>5 DEF FinishRecovery, logVars, WorkInv, InterruptedRun
  <2>2. ASSUME NEW r \in Runs, worked'[r] = 1 PROVE Accounted(r)'
    <3>1. Says(log, "Started", r) /\ Says(view, "Started", r)
      BY <2>1, <2>2 DEF WorkInv, Accounted
    <3>2. Settled(view, r)
      BY <2>1, <3>1 DEF Settled, ParkedIn, ActiveIn, EndedIn, WithEvent
    <3>3. QED
      BY <2>1, <3>1, <3>2 DEF Accounted, Settled, Says
  <2>3. QED
    BY <2>1, <2>2 DEF WorkInv
<1>6. QED
  BY <1>1, <1>2, <1>3, <1>4, <1>5, Bootstrap DEF Bootstrap

LEMMA AppendSucceedsWork ==
  ASSUME LogInv, HistoryInv, WorkInv, [Next]_vars, AppendSucceeds
  PROVE  WorkInv'
<1>1. /\ pending # None /\ pending' = None /\ UNCHANGED <<worked, result>>
      /\ view' = view \o pending.events
      /\ phase' = IF phase = "loading" THEN "ready" ELSE phase
      /\ view \in Seq(Events) /\ pending.events \in Seq(Events)
  BY DEF AppendSucceeds, LogInv, Typed, Awaited, Request
<1>2. \A kind, r : Says(view', kind, r) <=> Says(view, kind, r) \/ Says(pending.events, kind, r)
  BY <1>1, SaysConcat
<1>3. ASSUME NEW r \in Runs, worked'[r] = 1 PROVE Accounted(r)'
  <2>1. Accounted(r) /\ phase # "loading"
    BY <1>1, <1>3 DEF WorkInv, Accounted
  <2>2. Says(log', "Started", r)
    BY <2>1, LogKeepsSaying DEF Accounted
  <2>3. phase = "ready" => Settled(view', r) \/ result = r
    BY <1>2, <2>1 DEF Accounted, Settled
  <2>4. phase = "recovering" => Says(view', "Started", r)
    BY <1>2, <2>1 DEF Accounted
  <2>5. QED
    BY <1>1, <2>1, <2>2, <2>3, <2>4 DEF Accounted, Settled, Says
<1>4. result # 0 => result \in ActiveIn(view)'
  BY <1>1, <1>2, SMTT(30) DEF WorkInv, ActiveIn, EndedIn, WithEvent, Says
<1>5. QED
  BY <1>1, <1>3, <1>4 DEF WorkInv

\* A direct close leaves the execution alone.
LEMMA ForceCloseLeaves ==
  ASSUME ForceClose
  PROVE  UNCHANGED <<execVars, asked, worked>> /\ notified \subseteq notified'
BY DEF ForceClose, ForceCloseLoads, ForceCloseAppends, ForceCloseReads, ForceCloseTells,
       ForceCloseEnds, ForceCloseFails

LEMMA NextWork ==
  ASSUME LogInv, HistoryInv, WorkInv, [Next]_vars
  PROVE  WorkInv'
<1>1. CASE Bootstrap
  BY <1>1, BootstrapWork
<1>2. CASE Loop
  BY <1>2, LoopWork
<1>3. CASE AppendSucceeds
  BY <1>3, AppendSucceedsWork
<1>4. CASE AppendFails \/ Stop
  BY <1>4, AbandonedWork DEF AppendFails, Stop
<1>5. CASE StrayAttempt \/ AskRestart \/ ForceClose
  <2>1. ForceClose => UNCHANGED <<execVars, worked>>
    BY ForceCloseLeaves
  <2>2. QED
    BY <1>5, <2>1, QuietWork DEF StrayAttempt, AskRestart, hostVars, execVars
<1>6. CASE StartRestart
  <2>1. CASE Running
    BY <1>6, <2>1, QuietWork DEF StartRestart, execVars
  <2>2. CASE ~Running
    BY <1>6, <2>2, AbandonedWork DEF StartRestart, NextExecution
  <2>3. QED
    BY <2>1, <2>2
<1>7. CASE UNCHANGED vars
  BY <1>7, QuietWork DEF vars, hostVars, execVars
<1>8. QED
  BY <1>1, <1>2, <1>3, <1>4, <1>5, <1>6, <1>7 DEF Next

\* WorkDoneOnce holds in every behaviour: whichever execution does a run's
\* work, no other one, and not it again, does it after a stop, a takeover, a
\* rollover or a park.
THEOREM WorkIsDoneOnce == Spec => []WorkDoneOnce
<1>1. Init => WorkInv
  BY DEF Init, WorkInv
<1>2. LogInv /\ HistoryInv /\ WorkInv /\ [Next]_vars => WorkInv'
  BY NextWork
<1>3. WorkInv => WorkDoneOnce
  BY DEF WorkInv, WorkDoneOnce
<1>4. QED
  BY <1>1, <1>2, <1>3, LogInvariant, HistoryInvariant, PTL DEF Spec

-----------------------------------------------------------------------------
(* Ends are notified.                                                      *)

\* The first append of all ends no run.
FirstOpens ==
  \A q \in abroad : q.head = 0 => \A k \in 1..Len(q.events) : q.events[k].kind # "Ended"

\* While an execution loads, the ends it answers for and will find in the log
\* are notified, and its predecessor's appends can add none.
LoadsClear ==
  phase = "loading" =>
    /\ \A j \in Ends(log) :
         log[j].by = id \/ (~restarted /\ log[j].by = id - 1 /\ log[j].by # 0)
           => log[j].run \in notified
    /\ ~restarted =>
         \A q \in abroad : q.by = id - 1 => q.head = 0 \/ q.head < Len(log)

Kept == phase \in {"recovering", "ready"} => Owed(view) \subseteq notified \cup outbox

Told == phase = "completed" => ClosedIn(log) /\ Owed(log) \subseteq notified

\* A direct close that went past its append has closed the session, and has
\* told, missed or yet to tell every holder.
ToldByGateway ==
  /\ closing \in {"reload", "tell", "done"} => ClosedIn(log)
  /\ closing = "tell" => Retained(log) \subseteq notified \cup missed \cup telling
  /\ closing = "done" => Retained(log) \subseteq notified \cup missed

TerminalInv == FirstOpens /\ LoadsClear /\ Kept /\ Told /\ ToldByGateway

LEMMA EndsOfConcat ==
  ASSUME NEW s \in Seq(Events), NEW t \in Seq(Events), NEW j \in Ends(s \o t)
  PROVE  \/ j \in Ends(s) /\ (s \o t)[j] = s[j]
         \/ \E k \in Ends(t) : (s \o t)[j] = t[k]
<1> DEFINE u == s \o t
<1>1. /\ Len(s) \in Nat /\ DOMAIN s = 1..Len(s) /\ Len(t) \in Nat /\ DOMAIN t = 1..Len(t)
  BY LenProperties
<1>2. /\ u \in Seq(Events) /\ Len(u) = Len(s) + Len(t)
      /\ \A i \in 1 .. Len(s) + Len(t) : u[i] = IF i <= Len(s) THEN s[i] ELSE t[i - Len(s)]
  BY ConcatProperties
<1>3. j \in 1 .. Len(s) + Len(t) /\ u[j].kind = "Ended"
  BY <1>2, LenProperties DEF Ends
<1> HIDE DEF u
<1>4. CASE j <= Len(s)
  <2>1. j \in DOMAIN s /\ u[j] = s[j]
    BY <1>1, <1>2, <1>3, <1>4
  <2>2. QED
    BY <1>3, <2>1 DEF Ends, u
<1>5. CASE ~(j <= Len(s))
  <2>1. j - Len(s) \in DOMAIN t /\ u[j] = t[j - Len(s)]
    BY <1>1, <1>2, <1>3, <1>5
  <2>2. QED
    BY <1>3, <2>1 DEF Ends, u
<1>6. QED
  BY <1>4, <1>5

LEMMA EndsOfPrefix ==
  ASSUME NEW s \in Seq(Events), NEW t \in Seq(Events)
  PROVE  Ends(s) \subseteq Ends(s \o t)
<1> DEFINE u == s \o t
<1>1. Len(s) \in Nat /\ DOMAIN s = 1..Len(s) /\ Len(t) \in Nat
  BY LenProperties
<1>2. /\ u \in Seq(Events) /\ Len(u) = Len(s) + Len(t)
      /\ \A i \in 1 .. Len(s) + Len(t) : u[i] = IF i <= Len(s) THEN s[i] ELSE t[i - Len(s)]
  BY ConcatProperties
<1>3. DOMAIN u = 1 .. Len(s) + Len(t)
  BY <1>2, LenProperties
<1> HIDE DEF u
<1>4. ASSUME NEW j \in Ends(s) PROVE j \in Ends(u)
  BY <1>1, <1>2, <1>3 DEF Ends
<1>5. QED
  BY <1>4 DEF u

\* What is among the last ends of a longer log was among them before.
LEMMA NewestShrinks ==
  ASSUME NEW s \in Seq(Events), NEW t \in Seq(Events),
         NEW j \in NewestEnds(s \o t), j \in Ends(s)
  PROVE  j \in NewestEnds(s)
<1> DEFINE A == {k \in Ends(s) : k > j}
           B == {k \in Ends(s \o t) : k > j}
<1>1. s \o t \in Seq(Events) /\ Len(s \o t) \in Nat /\ DOMAIN (s \o t) = 1..Len(s \o t)
  BY ConcatProperties, LenProperties
<1>2. IsFiniteSet(1..Len(s \o t))
  BY <1>1, FS_Interval
<1>3. B \subseteq 1..Len(s \o t)
  BY <1>1 DEF Ends
<1>4. IsFiniteSet(B)
  BY <1>2, <1>3, FS_Subset
<1>5. A \subseteq B
  BY EndsOfPrefix
<1>6. Cardinality(A) <= Cardinality(B) /\ Cardinality(A) \in Nat /\ Cardinality(B) \in Nat
  BY <1>4, <1>5, FS_Subset, FS_CardinalityType
<1>7. Cardinality(B) < ResentRunTerminals
  BY DEF NewestEnds, LastEnds
<1>8. Cardinality(A) < ResentRunTerminals
  BY <1>6, <1>7, HostAssumption DEF HostAssumption
<1>9. QED
  BY <1>8 DEF NewestEnds, LastEnds

\* Nothing follows a close.
LEMMA ClosedIsFinal ==
  ASSUME NEW s \in Seq(Events), NEW t \in Seq(Events), IsPrefix(s, t), Sound(t), ClosedIn(s)
  PROVE  t = s
<1>1. Len(s) \in Nat /\ Len(t) \in Nat /\ Len(s) <= Len(t) /\ SubSeq(t, 1, Len(s)) = s
  BY LenProperties, PrefixIsSubSeq
<1>2. ASSUME Len(s) < Len(t) PROVE FALSE
  <2>1. Len(s) + 1 \in 1..Len(t) /\ Len(s) + 1 - 1 = Len(s)
    BY <1>1, <1>2
  <2>2. LegalAfter(SubSeq(t, 1, Len(s)), t[Len(s) + 1])
    BY <2>1 DEF Sound
  <2>3. QED
    BY <1>1, <2>2 DEF LegalAfter
<1>3. Len(s) = Len(t)
  BY <1>1, <1>2
<1>4. QED
  BY <1>1, <1>3, SubSeqFull

\* The log changes by one append, of an execution or of the gateway.
Lands(q) ==
  /\ Request(q) /\ q.head = Len(log) /\ log' = log \o q.events
  /\ \/ q \in abroad /\ q.by \in 1..id
     \/ q.by = 0

LEMMA CloseIsRequest ==
  ASSUME NEW l \in Seq(Events)
  PROVE  Request([head |-> Len(l), events |-> CloseEvents(l, 0), by |-> 0])
<1>1. /\ CloseEvents(l, 0) \in Seq(Events) /\ CloseEvents(l, 0) # <<>>
      /\ \A k \in 1..Len(CloseEvents(l, 0)) : CloseEvents(l, 0)[k].by = 0
  BY CloseEventsType, HostAssumption DEF HostAssumption
<1>2. Len(l) \in Nat
  BY LenProperties
<1>3. QED
  BY <1>1, <1>2 DEF Request

LEMMA LogStep ==
  ASSUME LogInv, [Next]_vars
  PROVE  /\ notified \subseteq notified'
         /\ UNCHANGED log \/ \E q : Lands(q)
<1>1. \A q \in abroad : Request(q) /\ q.by \in 1..id
  BY DEF LogInv, Typed, Sent
<1>2. ASSUME NEW q \in abroad, Succeeds(q) PROVE UNCHANGED log \/ \E p : Lands(p)
  BY <1>1, <1>2 DEF Succeeds, Commit, HeadMatches, Lands
<1>3. CASE AppendSucceeds
  BY <1>2, <1>3 DEF AppendSucceeds, LandHeard
<1>4. CASE StrayAttempt
  BY <1>2, <1>4 DEF StrayAttempt, LandUnheard, hostVars
<1>5. CASE ForceCloseAppends
  <2> DEFINE q == [head |-> Len(closer), events |-> CloseEvents(closer, 0), by |-> 0]
  <2>1. Request(q) /\ q.by = 0
    BY CloseIsRequest DEF LogInv, Typed
  <2>2. CASE Commit(q)
    BY <1>5, <2>1, <2>2 DEF ForceCloseAppends, Commit, HeadMatches, Lands
  <2>3. QED
    BY <1>5, <2>2 DEF ForceCloseAppends, logVars
<1>6. CASE Bootstrap
  BY <1>6
  DEF Bootstrap, StartSession, LoadFresh, Load, FailInterrupted, FinishRecovery, Issue, Send, logVars
<1>7. CASE Loop
  BY <1>7
  DEF Loop, AcceptRun, StartRun, CancelQueuedRun, UnparkRun, CloseSession, LoopAppend,
      DoWork, LogResult, FlushEmissions, Complete, RollOver, Issue, Send, logVars
<1>8. CASE ForceClose /\ ~ForceCloseAppends
  BY <1>8, ForceCloseQuiet, ForceCloseLeaves DEF logVars
<1>9. QED
  BY <1>3, <1>4, <1>5, <1>6, <1>7, <1>8
  DEF Next, AppendFails, Refused, Stop, AskRestart, StartRestart, logVars, vars, hostVars

\* A closed log stays as it is.
LEMMA ClosedStays ==
  ASSUME LogInv, LogInv', HistoryInv', [Next]_vars, ClosedIn(log)
  PROVE  log' = log
<1>1. ASSUME NEW q, Lands(q) PROVE log' = log
  <2>1. log \in Seq(Events) /\ log' \in Seq(Events) /\ q.events \in Seq(Events)
        /\ log' = log \o q.events /\ Sound(log')
    BY <1>1 DEF LogInv, Typed, Lands, Request, HistoryInv
  <2>2. IsPrefix(log, log')
    <3>1. IsPrefix(log, log)
      <4>1. Len(log) \in Nat
        BY <2>1, LenProperties
      <4>2. QED
        BY <2>1, <4>1, PrefixElements
    <3>2. QED
      BY <2>1, <3>1, PrefixOfConcat
  <2>3. QED
    BY <2>1, <2>2, ClosedIsFinal
<1>2. QED
  BY <1>1, LogStep

\* Only the steps of a direct close change how far it is.
LEMMA OthersTellNothing ==
  ASSUME [Next]_vars, ~ForceClose
  PROVE  UNCHANGED tellVars
<1>1. CASE Bootstrap
  BY <1>1 DEF Bootstrap, StartSession, LoadFresh, Load, FailInterrupted, FinishRecovery
<1>2. CASE Loop
  BY <1>2
  DEF Loop, AcceptRun, StartRun, CancelQueuedRun, UnparkRun, CloseSession, LoopAppend,
      DoWork, LogResult, FlushEmissions, Complete, RollOver
<1>3. QED
  BY <1>1, <1>2
  DEF Next, AppendSucceeds, AppendFails, Stop, StrayAttempt, AskRestart, StartRestart,
      vars, hostVars

LEMMA RetainedStays ==
  ASSUME UNCHANGED log
  PROVE  Retained(log)' = Retained(log) /\ ClosedIn(log)' = ClosedIn(log)
BY DEF Retained, LastEnds, Ends, ClosedIn, Says

LEMMA ToldByGatewayKept ==
  ASSUME LogInv, LogInv', HistoryInv, HistoryInv', TerminalInv, [Next]_vars
  PROVE  ToldByGateway'
<1>1. ToldByGateway /\ notified \subseteq notified'
  BY LogStep DEF TerminalInv
<1>2. CASE ~ForceClose
  <2>1. UNCHANGED <<closing, telling, missed>>
    BY <1>2, OthersTellNothing DEF tellVars
  <2>2. closing \in {"reload", "tell", "done"} => log' = log
    BY <1>1, ClosedStays DEF ToldByGateway
  <2>3. QED
    BY <1>1, <2>1, <2>2, RetainedStays DEF ToldByGateway
<1>3. CASE ForceCloseLoads
  BY <1>1, <1>3, RetainedStays DEF ForceCloseLoads, SignalledByClose, ToldByGateway, logVars
<1>4. CASE ForceCloseAppends
  <2> DEFINE q == [head |-> Len(closer), events |-> CloseEvents(closer, 0), by |-> 0]
  <2>1. CASE Commit(q)
    <3>1. closer \in Seq(Events) /\ log \in Seq(Events) /\ 0 \in 0..MaxExecutions
      BY HostAssumption DEF LogInv, Typed, HostAssumption
    <3>2. /\ CloseEvents(closer, 0) \in Seq(Events) /\ log' = log \o CloseEvents(closer, 0)
      BY <2>1, <3>1, CloseEventsType DEF Commit
    <3>3. Says(CloseEvents(closer, 0), "Closed", 0)
      BY <3>1, CloseEndsActive
    <3>4. ClosedIn(log')
      BY <3>1, <3>2, <3>3, SaysConcat DEF ClosedIn
    <3>5. closing' \in {"reload", "none"}
      BY <1>4 DEF ForceCloseAppends
    <3>6. QED
      BY <3>4, <3>5 DEF ToldByGateway, ClosedIn, Says
  <2>2. CASE closing' = "none"
    BY <2>2 DEF ToldByGateway
  <2>3. QED
    BY <1>4, <2>1, <2>2 DEF ForceCloseAppends
<1>5. CASE ForceCloseReads
  BY <1>1, <1>5, RetainedStays DEF ForceCloseReads, SignalledByClose, ToldByGateway, logVars
<1>6. ASSUME NEW r \in Runs, ForceCloseTells(r) PROVE ToldByGateway'
  BY <1>1, <1>6, RetainedStays DEF ForceCloseTells, ToldByGateway, logVars
<1>7. CASE ForceCloseEnds
  BY <1>1, <1>7, RetainedStays DEF ForceCloseEnds, ToldByGateway, logVars
<1>8. CASE ForceCloseFails
  BY <1>8 DEF ForceCloseFails, ToldByGateway
<1>9. QED
  BY <1>2, <1>3, <1>4, <1>5, <1>6, <1>7, <1>8 DEF ForceClose

\* Only a session's first append is prepared against an empty log.
LEMMA IssueOpens ==
  ASSUME LogInv, HistoryInv, FirstOpens, phase \in {"recovering", "ready"},
         NEW events, Issue(events)
  PROVE  FirstOpens'
<1>1. Len(view) \in Nat /\ Len(view) # 0
  BY LenProperties, EmptySeq DEF LogInv, Typed, HistoryInv
<1>2. \A q \in abroad' : q \in abroad \/ q.head = Len(view)
  BY DEF Issue, Send
<1>3. QED
  BY <1>1, <1>2 DEF FirstOpens

LEMMA FirstOpensKept ==
  ASSUME LogInv, HistoryInv, TerminalInv, [Next]_vars
  PROVE  FirstOpens'
<1>1. FirstOpens
  BY DEF TerminalInv
<1>2. CASE UNCHANGED abroad
  BY <1>1, <1>2 DEF FirstOpens
<1>3. CASE LoadFresh
  <2>1. CASE UNCHANGED abroad
    BY <1>2, <2>1
  <2>2. CASE Issue(<<Event("Opened", 0, id)>>)
    <3> DEFINE q == [head |-> Len(view), events |-> <<Event("Opened", 0, id)>>, by |-> id]
    <3>1. abroad' = abroad \cup {q}
      BY <2>2 DEF Issue, Send
    <3>2. \A k \in 1..Len(q.events) : q.events[k].kind # "Ended"
      BY DEF Event
    <3>3. QED
      BY <1>1, <3>1, <3>2 DEF FirstOpens
  <2>3. QED
    BY <1>3, <2>1, <2>2 DEF LoadFresh, logVars
<1>4. CASE FailInterrupted
  BY <1>1, <1>4, IssueOpens DEF FailInterrupted
<1>5. CASE LogResult
  BY <1>1, <1>5, IssueOpens DEF LogResult
<1>6. ASSUME NEW events, LoopAppend(events) PROVE FirstOpens'
  BY <1>1, <1>6, IssueOpens DEF LoopAppend
<1>7. CASE Loop
  BY <1>2, <1>5, <1>6, <1>7
  DEF Loop, AcceptRun, StartRun, CancelQueuedRun, UnparkRun, CloseSession,
      DoWork, FlushEmissions, Complete, RollOver, logVars
<1>8. CASE Bootstrap
  BY <1>2, <1>3, <1>4, <1>8 DEF Bootstrap, StartSession, Load, FinishRecovery, logVars
<1>9. CASE AppendSucceeds \/ StrayAttempt
  BY <1>2, <1>9 DEF AppendSucceeds, LandHeard, StrayAttempt, LandUnheard
<1>10. CASE ForceCloseAppends
  BY <1>2, <1>10 DEF ForceCloseAppends, logVars
<1>11. CASE ForceClose /\ ~ForceCloseAppends
  BY <1>2, <1>11, ForceCloseQuiet DEF logVars
<1>12. QED
  BY <1>2, <1>7, <1>8, <1>9, <1>10, <1>11
  DEF Next, AppendFails, Refused, Stop, AskRestart, StartRestart, logVars, vars

\* A step that does not start an execution leaves it who it is.
LEMMA SameExecution ==
  ASSUME [Next]_vars
  PROVE  \/ UNCHANGED <<id, restarted>>
         \/ StartSession
         \/ RollOver
         \/ StartRestart /\ NextExecution(TRUE)
<1>1. CASE Bootstrap
  BY <1>1 DEF Bootstrap, LoadFresh, Load, FailInterrupted, FinishRecovery
<1>2. CASE Loop
  BY <1>2
  DEF Loop, AcceptRun, StartRun, CancelQueuedRun, UnparkRun, CloseSession, LoopAppend,
      DoWork, LogResult, FlushEmissions, Complete
<1>3. CASE StartRestart
  BY <1>3 DEF StartRestart, execVars
<1>4. QED
  BY <1>1, <1>2, <1>3, ForceCloseLeaves
  DEF Next, AppendSucceeds, AppendFails, Stop, StrayAttempt, AskRestart, vars, hostVars, execVars

\* Nobody has written in the name of the execution that is yet to come.
LEMMA MarksAreOld ==
  ASSUME LogInv, NEW j \in Ends(log)
  PROVE  log[j].by \in 0..id /\ log[j].by # id + 1
<1>1. j \in 1..Len(log) /\ id \in Nat
  BY LenProperties, HostAssumption DEF LogInv, Typed, Ends, HostAssumption
<1>2. PICK q \in applied : q.by = log[j].by
  BY <1>1 DEF LogInv, Covered
<1>3. q.by = 0 \/ q.by \in 1..id
  BY <1>2 DEF LogInv, Sent
<1>4. QED
  BY <1>1, <1>2, <1>3

\* An execution that rolls over leaves no end behind that it has not sent.
LEMMA RollOverClear ==
  ASSUME LogInv, TerminalInv, RollOver
  PROVE  LoadsClear'
<1>1. /\ phase = "ready" /\ pending = None /\ outbox = {} /\ id' = id + 1 /\ ~restarted'
      /\ UNCHANGED <<log, abroad, notified>>
  BY DEF RollOver, MayRollOver, AtLoop, NextExecution, logVars
<1>2. /\ Running /\ id \in Nat /\ id >= 1 /\ id' - 1 = id
  BY <1>1, HostAssumption DEF Running, LogInv, Typed, Awaited, HostAssumption
<1>3. ASSUME NEW q \in abroad, q.by = id PROVE End(q) <= Len(view) /\ q.head < Len(log)
  <2>1. q # None /\ q.head \in Nat /\ Len(q.events) \in Nat /\ Len(q.events) # 0
    BY LenProperties, EmptySeq DEF LogInv, Typed, Request, None
  <2>2. End(q) <= Len(view)
    BY <1>1, <1>2, <1>3, <2>1 DEF LogInv, Caught
  <2>3. Len(view) <= Len(log) /\ Len(view) \in Nat /\ Len(log) \in Nat
    BY PrefixElements, LenProperties DEF LogInv, Typed, ViewIsLog
  <2>4. QED
    BY <2>1, <2>2, <2>3 DEF End
<1>4. ASSUME NEW j \in Ends(log), log[j].by = id PROVE log[j].run \in notified
  <2>1. j \in 1..Len(log) /\ DOMAIN view = 1..Len(view) /\ Len(view) \in Nat
    BY LenProperties DEF LogInv, Typed, Ends
  <2>2. PICK q \in applied : q.by = id /\ j <= End(q)
    BY <1>4, <2>1 DEF LogInv, Covered
  <2>3. q \in abroad
    BY <1>2, <2>2 DEF LogInv, Sent
  <2>4. End(q) <= Len(view) /\ End(q) \in Nat
    BY <1>3, <2>2, <2>3, LenProperties DEF LogInv, Typed, Request, End
  <2>5. j \in DOMAIN view /\ view[j] = log[j]
    BY <2>1, <2>2, <2>4, PrefixElements DEF LogInv, Typed, ViewIsLog
  <2>6. log[j].run \in Owed(view)
    BY <1>4, <2>5 DEF Owed, Ends
  <2>7. QED
    BY <1>1, <2>6 DEF TerminalInv, Kept
<1>5. \A j \in Ends(log) : log[j].by # id'
  BY <1>1, MarksAreOld
<1>6. QED
  BY <1>1, <1>2, <1>3, <1>4, <1>5 DEF LoadsClear, Ends

LEMMA StartSessionClear ==
  ASSUME LogInv, HistoryInv, StartSession
  PROVE  LoadsClear'
<1>1. log' = <<>> /\ UNCHANGED <<log, abroad>>
  BY DEF StartSession, logVars
<1>2. Ends(log') = {}
  BY <1>1, EmptySeq DEF Ends
<1>3. \A q \in abroad : q.head = 0
  <2>1. Len(log) = 0
    BY <1>1, EmptySeq
  <2>2. QED
    BY <2>1 DEF HistoryInv, Prepared, LogInv, Typed, Request
<1>4. QED
  BY <1>1, <1>2, <1>3 DEF LoadsClear, Ends

LEMMA RestartClear ==
  ASSUME LogInv, NextExecution(TRUE), UNCHANGED <<logVars, notified>>
  PROVE  LoadsClear'
<1>1. restarted' /\ id' = id + 1 /\ log' = log
  BY DEF NextExecution, logVars
<1>2. \A j \in Ends(log) : log[j].by # id'
  BY <1>1, MarksAreOld
<1>3. QED
  BY <1>1, <1>2 DEF LoadsClear, Ends

LEMMA EndsAreRuns ==
  ASSUME NEW l \in Seq(Events), Sound(l), NEW j \in Ends(l)
  PROVE  l[j].run \in Runs
<1>1. j \in 1..Len(l) /\ l[j].kind = "Ended"
  BY LenProperties DEF Ends
<1>2. LegalAfter(SubSeq(l, 1, j - 1), l[j])
  BY <1>1 DEF Sound
<1>3. QED
  BY <1>1, <1>2 DEF LegalAfter, ActiveIn, QueuedIn, WithEvent

\* While an execution loads, nobody adds an end it would have to notify.
LEMMA LandsClear ==
  ASSUME LogInv, TerminalInv, phase = "loading", NEW q, Lands(q), Sound(log'),
         notified \subseteq notified', UNCHANGED <<id, restarted>>,
         abroad' \subseteq abroad \cup {p \in abroad' : p.by = id}
  PROVE  LoadsClear'
<1>1. /\ log \in Seq(Events) /\ q.events \in Seq(Events) /\ log' = log \o q.events
      /\ q.head = Len(log) /\ q.events # <<>>
      /\ \A k \in 1..Len(q.events) : q.events[k].by = q.by
  BY DEF Lands, Request, LogInv, Typed
<1>2. /\ Len(log) \in Nat /\ Len(q.events) \in Nat /\ Len(log') = Len(log) + Len(q.events)
      /\ DOMAIN q.events = 1..Len(q.events) /\ view = <<>> /\ Len(view) = 0 /\ Running
      /\ id \in Nat /\ id >= 1 /\ DOMAIN log' = 1..Len(log') /\ log' \in Seq(Events)
  BY <1>1, LenProperties, ConcatProperties, EmptySeq, HostAssumption
  DEF LogInv, Typed, Awaited, Running, HostAssumption
<1>3. ASSUME NEW j \in Ends(log'),
             log'[j].by = id \/ (~restarted /\ log'[j].by = id - 1 /\ log'[j].by # 0)
      PROVE  log'[j].run \in notified'
  <2>1. CASE j \in Ends(log) /\ log'[j] = log[j]
    BY <1>3, <2>1 DEF TerminalInv, LoadsClear
  <2>2. ASSUME NEW k \in Ends(q.events), log'[j] = q.events[k] PROVE log'[j].run \in notified'
    <3>1. k \in 1..Len(q.events) /\ q.events[k].kind = "Ended" /\ q.events[k].by = q.by
      BY <1>1, <1>2 DEF Ends
    <3>2. CASE q.by = 0
      BY <1>2, <1>3, <2>2, <3>1, <3>2
    <3>3. CASE q \in abroad /\ q.by \in 1..id
      <4>1. q.head # 0
        BY <3>1, <3>3 DEF TerminalInv, FirstOpens
      <4>2. CASE q.by = id
        <5>1. q = pending \/ End(q) <= 0
          BY <1>2, <3>3, <4>2 DEF LogInv, Caught
        <5>2. End(q) > 0
          BY <1>1, <1>2, <4>1 DEF End
        <5>3. q = pending /\ ~(End(q) <= 0)
          BY <1>1, <1>2, <5>1, <5>2 DEF End
        <5>4. pending # None
          BY <1>1, <5>3 DEF None
        <5>5. QED
          BY <1>2, <4>1, <5>3, <5>4 DEF LogInv, Awaited
      <4>3. CASE ~restarted /\ q.by = id - 1
        BY <1>1, <1>2, <3>3, <4>1, <4>3 DEF TerminalInv, LoadsClear
      <4>4. QED
        BY <1>3, <2>2, <3>1, <4>2, <4>3
    <3>4. QED
      BY <3>2, <3>3 DEF Lands
  <2>3. QED
    BY <1>1, <1>3, <2>1, <2>2, EndsOfConcat
<1>4. ASSUME NEW p \in abroad', ~restarted, p.by = id - 1 PROVE p.head = 0 \/ p.head < Len(log')
  <2>1. p \in abroad /\ p.head \in Nat
    BY <1>2, <1>4 DEF LogInv, Typed, Request
  <2>2. QED
    BY <1>2, <1>4, <2>1 DEF TerminalInv, LoadsClear
<1>5. QED
  BY <1>3, <1>4 DEF LoadsClear

\* What an execution will find in the log when it loads is notified.
LEMMA LoadsClearKept ==
  ASSUME LogInv, HistoryInv, HistoryInv', TerminalInv, [Next]_vars
  PROVE  LoadsClear'
<1>1. notified \subseteq notified' /\ (UNCHANGED log \/ \E q : Lands(q))
  BY LogStep
<1>2. CASE StartSession
  BY <1>2, StartSessionClear
<1>3. CASE RollOver
  BY <1>3, RollOverClear
<1>4. CASE StartRestart /\ NextExecution(TRUE)
  BY <1>4, RestartClear DEF StartRestart
<1>5. CASE UNCHANGED <<id, restarted>> /\ phase' # "loading"
  BY <1>5 DEF LoadsClear
<1>6. CASE UNCHANGED <<id, restarted>> /\ phase' = "loading"
  <2>1. phase = "loading" \/ NextExecution(FALSE) \/ NextExecution(TRUE)
    BY <1>6, ForceCloseLeaves
    DEF Next, Bootstrap, Loop, StartSession, LoadFresh, Load, FailInterrupted, FinishRecovery,
        AcceptRun, StartRun, CancelQueuedRun, UnparkRun, CloseSession, LoopAppend,
        DoWork, LogResult, FlushEmissions, Complete, RollOver, AppendSucceeds, AppendFails, Stop,
        StrayAttempt, AskRestart, StartRestart, vars, hostVars, execVars
  <2>2. phase = "loading"
    <3>1. id \in Nat
      BY HostAssumption DEF LogInv, Typed, HostAssumption
    <3>2. QED
      BY <1>6, <2>1, <3>1 DEF NextExecution
  <2>3. abroad' \subseteq abroad \cup {p \in abroad' : p.by = id}
    <3>1. CASE UNCHANGED abroad
      BY <3>1
    <3>2. ASSUME NEW events, Issue(events) PROVE abroad' \subseteq abroad \cup {p \in abroad' : p.by = id}
      BY <3>2 DEF Issue, Send
    <3>3. CASE Bootstrap
      BY <3>1, <3>2, <3>3
      DEF Bootstrap, StartSession, LoadFresh, Load, FailInterrupted, FinishRecovery, logVars
    <3>4. ~Loop
      BY <2>2
      DEF Loop, AcceptRun, StartRun, CancelQueuedRun, UnparkRun, CloseSession, LoopAppend,
          DoWork, LogResult, FlushEmissions, Complete, RollOver, MayRollOver, AtLoop
    <3>5. CASE ForceCloseAppends
      BY <3>1, <3>5 DEF ForceCloseAppends, logVars
    <3>6. QED
      BY <3>1, <3>3, <3>4, <3>5, ForceCloseQuiet
      DEF Next, AppendSucceeds, LandHeard, AppendFails, Refused, Stop, StrayAttempt, LandUnheard,
          AskRestart, StartRestart, vars, logVars
  <2>4. CASE UNCHANGED log
    <3>1. id \in Nat
      BY HostAssumption DEF LogInv, Typed, HostAssumption
    <3>2. QED
      BY <1>1, <1>6, <2>2, <2>3, <2>4, <3>1 DEF TerminalInv, LoadsClear, Ends
  <2>5. ASSUME NEW q, Lands(q) PROVE LoadsClear'
    BY <1>1, <1>6, <2>2, <2>3, <2>5, LandsClear DEF HistoryInv
  <2>6. QED
    BY <1>1, <2>4, <2>5
<1>7. QED
  BY <1>2, <1>3, <1>4, <1>5, <1>6, SameExecution

LEMMA ToldKept ==
  ASSUME LogInv, LogInv', HistoryInv, HistoryInv', TerminalInv, [Next]_vars
  PROVE  Told'
<1>1. notified \subseteq notified' /\ (UNCHANGED log \/ \E q : Lands(q))
  BY LogStep
<1>2. CASE Complete
  <2>1. /\ phase = "ready" /\ outbox = {} /\ ClosedIn(view)
        /\ UNCHANGED <<log, id, restarted, notified>>
    BY <1>2 DEF Complete, AtLoop, logVars
  <2>2. log = view
    BY <2>1, ClosedIsFinal DEF LogInv, Typed, ViewIsLog, HistoryInv
  <2>3. Owed(view) \subseteq notified
    BY <2>1 DEF TerminalInv, Kept
  <2>4. Owed(log)' = Owed(view)
    BY <2>1, <2>2 DEF Owed, Ends, NewestEnds, LastEnds
  <2>5. ClosedIn(log)'
    BY <2>1, <2>2 DEF ClosedIn, Says
  <2>6. QED
    BY <2>1, <2>3, <2>4, <2>5 DEF Told
<1>3. CASE phase = "completed" /\ UNCHANGED <<id, restarted>>
  <2>1. ClosedIn(log) /\ Owed(log) \subseteq notified
    BY <1>3 DEF TerminalInv, Told
  <2>2. log' = log
    BY <2>1, ClosedStays
  <2>3. Owed(log)' = Owed(log) /\ ClosedIn(log)'
    BY <1>3, <2>1, <2>2 DEF Owed, Ends, NewestEnds, LastEnds, ClosedIn, Says
  <2>4. QED
    BY <1>1, <2>1, <2>3 DEF Told
<1>4. CASE phase' # "completed"
  BY <1>4 DEF Told
<1>5. ASSUME phase' = "completed", ~Complete PROVE phase = "completed" /\ UNCHANGED <<id, restarted>>
  BY <1>5, ForceCloseLeaves
  DEF Next, Bootstrap, Loop, StartSession, LoadFresh, Load, FailInterrupted, FinishRecovery,
      AcceptRun, StartRun, CancelQueuedRun, UnparkRun, CloseSession, LoopAppend, NextExecution,
      DoWork, LogResult, FlushEmissions, RollOver, AppendSucceeds, AppendFails, Stop, Running,
      StrayAttempt, AskRestart, StartRestart, vars, hostVars, execVars
<1>6. QED
  BY <1>2, <1>3, <1>4, <1>5

\* A step that leaves what the execution has applied keeps what it owes.
LEMMA SameViewKept ==
  ASSUME Kept, UNCHANGED <<id, restarted, view>>,
         phase' \in {"recovering", "ready"} => phase \in {"recovering", "ready"},
         notified \cup outbox \subseteq notified' \cup outbox'
  PROVE  Kept'
<1>1. Owed(view)' = Owed(view)
  BY DEF Owed, Ends, NewestEnds, LastEnds
<1>2. QED
  BY <1>1 DEF Kept

LEMMA AppendSucceedsKept ==
  ASSUME LogInv, TerminalInv, AppendSucceeds
  PROVE  Kept'
<1> DEFINE ev == pending.events
<1>1. /\ view' = view \o ev /\ UNCHANGED <<id, restarted, notified>>
      /\ outbox' = outbox \cup {ev[i].run : i \in Ends(ev)}
      /\ view \in Seq(Events) /\ ev \in Seq(Events)
  BY DEF AppendSucceeds, AppliedOutbox, Ends, LogInv, Typed, Awaited, Request
<1> HIDE DEF ev
<1>2. CASE phase = "loading"
  <2>1. view = <<>>
    BY <1>2 DEF LogInv, Awaited
  <2>2. \A j \in Ends(view') : \E k \in Ends(ev) : view'[j] = ev[k]
    BY <1>1, <2>1, EndsOfConcat DEF Ends
  <2>3. ASSUME NEW j \in Ends(view') PROVE view'[j].run \in outbox'
    BY <1>1, <2>2
  <2>4. Owed(view)' \subseteq outbox'
    BY <2>3, Zenon DEF Owed
  <2>5. QED
    BY <2>4 DEF Kept
<1>3. CASE phase \in {"recovering", "ready"}
  <2>1. ASSUME NEW j \in Ends(view'),
               \/ view'[j].by = id
               \/ IF restarted THEN j \in NewestEnds(view')
                  ELSE view'[j].by = id - 1 /\ view'[j].by # 0
        PROVE  view'[j].run \in notified \cup outbox'
    <3>1. CASE j \in Ends(view) /\ view'[j] = view[j]
      <4>1. j \in NewestEnds(view') => j \in NewestEnds(view)
        BY <1>1, <3>1, NewestShrinks
      <4>2. view[j].run \in Owed(view)
        BY <2>1, <3>1, <4>1 DEF Owed
      <4>3. QED
        BY <1>1, <1>3, <3>1, <4>2 DEF TerminalInv, Kept
    <3>2. ASSUME NEW k \in Ends(ev), view'[j] = ev[k] PROVE view'[j].run \in notified \cup outbox'
      BY <1>1, <3>2
    <3>3. QED
      BY <1>1, <3>1, <3>2, EndsOfConcat
  <2>2. QED
    BY <1>1, <2>1, ZenonT(30) DEF Kept, Owed
<1>4. QED
  BY <1>2, <1>3 DEF AppendSucceeds, Running

LEMMA KeptKept ==
  ASSUME LogInv, TerminalInv, [Next]_vars
  PROVE  Kept'
<1>1. Kept
  BY DEF TerminalInv
<1>2. CASE phase' \notin {"recovering", "ready"}
  BY <1>2 DEF Kept
<1>3. CASE Load
  <2>1. /\ phase = "loading" /\ view' = log /\ UNCHANGED <<log, id, restarted, notified>>
        /\ restarted => outbox' = {log[i].run : i \in NewestEnds(log)}
    BY <1>3 DEF Load, RecentTerminals, logVars
  <2>2. ASSUME NEW j \in Ends(log),
               \/ log[j].by = id
               \/ IF restarted THEN j \in NewestEnds(log) ELSE log[j].by = id - 1 /\ log[j].by # 0
        PROVE  log[j].run \in notified \cup outbox'
    BY <2>1, <2>2 DEF TerminalInv, LoadsClear
  <2>3. QED
    BY <2>1, <2>2 DEF Kept, Owed
<1>4. CASE AppendSucceeds
  BY <1>4, AppendSucceedsKept
<1>5. CASE Bootstrap
  BY <1>1, <1>2, <1>3, <1>5, SameViewKept
  DEF Bootstrap, StartSession, NextExecution, LoadFresh, FailInterrupted, FinishRecovery, Issue
<1>6. CASE Loop
  BY <1>1, <1>2, <1>6, SameViewKept
  DEF Loop, AcceptRun, StartRun, CancelQueuedRun, UnparkRun, CloseSession, LoopAppend,
      DoWork, LogResult, FlushEmissions, Complete, RollOver, NextExecution
<1>7. CASE StrayAttempt \/ AskRestart \/ StartRestart \/ ForceClose
  BY <1>1, <1>2, <1>7, SameViewKept, ForceCloseLeaves
  DEF StrayAttempt, AskRestart, StartRestart, NextExecution, hostVars, execVars
<1>8. QED
  BY <1>1, <1>2, <1>4, <1>5, <1>6, <1>7, SameViewKept
  DEF Next, AppendFails, Stop, vars, hostVars, execVars

LEMMA InitTerminals == Init => TerminalInv
<1> SUFFICES ASSUME Init PROVE TerminalInv
  OBVIOUS
<1>1. log = <<>> /\ abroad = {} /\ phase = "none" /\ closing = "none"
  BY DEF Init, LogInit
<1>2. ~ClosedIn(log)
  BY <1>1, SaysNothing DEF ClosedIn
<1>3. QED
  BY <1>1, <1>2 DEF TerminalInv, FirstOpens, LoadsClear, Kept, Told, ToldByGateway

THEOREM TerminalInvariant == Spec => []TerminalInv
<1>1. Init => TerminalInv
  BY InitTerminals
<1>2. /\ LogInv /\ LogInv' /\ HistoryInv /\ HistoryInv' /\ TerminalInv /\ [Next]_vars
      => TerminalInv'
  BY FirstOpensKept, LoadsClearKept, KeptKept, ToldKept, ToldByGatewayKept DEF TerminalInv
<1>3. QED
  BY <1>1, <1>2, LogInvariant, HistoryInvariant, PTL DEF Spec

\* TerminalsKept holds in every behaviour, whatever the number of runs a
\* restart notifies again: an execution that is open for work has notified or
\* still holds every end it answers for, although a stop loses the outbox and
\* a rollover starts with an empty one.
THEOREM TerminalsAlwaysKept == Spec => []TerminalsKept
<1>1. TerminalInv => TerminalsKept
  BY DEF TerminalInv, Kept, TerminalsKept
<1>2. QED
  BY <1>1, TerminalInvariant, PTL

\* ClosedTellsEveryone holds in every behaviour and for any number of retained
\* records: an execution that completes has told the holders of the runs it
\* answers for, a direct close that reports success has signalled or tried to
\* signal the holder of every retained run, and no late append adds an end
\* behind either.
THEOREM ClosingAlwaysTells == Spec => []ClosedTellsEveryone
<1>1. TerminalInv => ClosedTellsEveryone
  BY DEF TerminalInv, Told, ToldByGateway, ClosedTellsEveryone
<1>2. QED
  BY <1>1, TerminalInvariant, PTL

=============================================================================
