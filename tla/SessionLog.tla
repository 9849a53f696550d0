----------------------------- MODULE SessionLog -----------------------------
(***************************************************************************)
(* The stored log of one session, and the activity that appends to it.     *)
(*                                                                         *)
(* An append names the head it was prepared against.  Its activity is      *)
(* retried without limit, an answer can be lost, and an attempt that was   *)
(* given up on (a timeout, a stopped execution) may still reach the store. *)
(* So a request, once sent, can land at any later time and any number of   *)
(* times.                                                                  *)
(***************************************************************************)
EXTENDS Naturals, Sequences, FiniteSets

VARIABLES
  log,      \* the committed events
  abroad,   \* appends an attempt of which may still reach the store
  applied,  \* history: the appends that took effect
  acked     \* history: the appends a caller was told had taken effect

logVars == <<log, abroad, applied, acked>>

LogInit == log = <<>> /\ abroad = {} /\ applied = {} /\ acked = {}

\* Mutant: a retry is taken for the request if as many events follow its head.
ConfirmsByCount(q) == Len(log) >= q.head + Len(q.events)

\* Mutant: only the first committed event is compared.
ConfirmsByFirst(q) ==
  /\ Len(log) >= q.head + Len(q.events)
  /\ log[q.head + 1].kind = q.events[1].kind
  /\ log[q.head + 1].run = q.events[1].run

\* The events after the expected head are the request's own, each with the
\* time and the identity it was sent with: an earlier attempt committed.
Confirms(q) ==
  /\ Len(log) >= q.head + Len(q.events)
  /\ SubSeq(log, q.head + 1, q.head + Len(q.events)) = q.events

\* Mutant: the store does not compare the head.
HeadAhead(q) == q.head <= Len(log)

\* The row is locked, and its head is the one the caller saw.
HeadMatches(q) == q.head = Len(log)

Commit(q) ==
  /\ HeadMatches(q)
  /\ log' = log \o q.events
  /\ applied' = applied \cup {q}

\* A request is handed to the activity.
Send(q) ==
  /\ abroad' = abroad \cup {q}
  /\ UNCHANGED <<log, applied, acked>>

\* An attempt succeeds: it commits, or finds that an earlier one did.
Succeeds(q) ==
  \/ Commit(q)
  \/ ~HeadMatches(q) /\ Confirms(q) /\ UNCHANGED <<log, applied>>

\* Mutant: the mismatch is reported as worth a retry, and never as final.
RefusedRetried(q) == FALSE /\ UNCHANGED logVars

\* An attempt is refused for good: another writer moved the head.
Refused(q) ==
  ~HeadMatches(q) /\ ~Confirms(q) /\ UNCHANGED logVars

\* An attempt succeeds and nobody hears of it.
LandUnheard(q) == q \in abroad /\ Succeeds(q) /\ UNCHANGED <<abroad, acked>>

\* An attempt succeeds and its caller hears of it.
LandHeard(q) ==
  /\ q \in abroad
  /\ Succeeds(q)
  /\ acked' = acked \cup {q}
  /\ UNCHANGED abroad

=============================================================================
