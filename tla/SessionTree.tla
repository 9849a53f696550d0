---------------------------- MODULE SessionTree ----------------------------
(***************************************************************************)
(* The catalog of sessions: fresh sessions, delegated children, forks and  *)
(* clones, their retention trees, and the deletion of closed trees.        *)
(*                                                                         *)
(* Every operation that touches several rows first reads without a lock to *)
(* learn which rows to lock, then locks the retention root before anything *)
(* else and does its work in one transaction.  Between the read and the    *)
(* transaction other operations commit, so the two are separate steps.     *)
(***************************************************************************)
EXTENDS FiniteSets, Naturals, FiniteSetsExt

CONSTANTS
  Sessions,      \* the session ids
  NoSession,     \* "no parent", "no source"
  Requests,      \* multi-row operations under way at once
  MaxConcurrent, \* open descendants one delegation root may have
  MaxDepth       \* how deep delegation may nest

ASSUME TreeAssumption ==
  /\ NoSession \notin Sessions /\ IsFiniteSet(Sessions)
  /\ MaxConcurrent \in Nat /\ MaxDepth \in Nat

VARIABLES
  row,     \* the catalog: a record per session id, or NoRow
  request, \* per request, the operation and what it read before locking
  used     \* history: ids that have had a row

vars == <<row, request, used>>

NoRow == [status |-> "None", hidden |-> FALSE, parent |-> NoSession, origin |-> NoSession,
          depth |-> 0, source |-> NoSession, history |-> FALSE, root |-> NoSession,
          due |-> FALSE]

Idle == [op |-> "Idle", target |-> NoSession, new |-> NoSession, root |-> NoSession,
         origin |-> NoSession, depth |-> 0,
         cascade |-> FALSE, soft |-> FALSE, reaper |-> FALSE]

Exists(s) == row[s] # NoRow
\* load_session and lock_session see only rows that are not soft-deleted.
Visible(s) == Exists(s) /\ ~row[s].hidden

\* Rows whose existence depends on s: delegated children, and forks, which
\* read their prefix from the log of their source.
Depends(child, s) ==
  /\ Exists(child)
  /\ row[child].parent = s \/ (row[child].history /\ row[child].source = s)

Closed(set, live) == \A s \in set, c \in live : Depends(c, s) => c \in set

\* The recursive query over the live rows: the least set that has s and, with
\* each of its members, what depends on it.
Reachable(s, live) ==
  {c \in Sessions : \A set \in SUBSET Sessions : s \in set /\ Closed(set, live) => c \in set}

Init ==
  /\ row = [s \in Sessions |-> NoRow]
  /\ request = [p \in Requests |-> Idle]
  /\ used = {}

Insert(s, r) == row' = [row EXCEPT ![s] = r] /\ used' = used \cup {s}

\* The id is free.  Some ids are generated; a client may choose one, and those
\* of bots and subagents are derived.  That the id of a session removed for good
\* comes back is left out.
Unused(s) == ~Exists(s) /\ s \notin used

-----------------------------------------------------------------------------
(* Single-row operations: one transaction each.                            *)

CreateSession(s) ==
  /\ Unused(s)
  /\ Insert(s, [NoRow EXCEPT !.status = "New", !.root = s])
  /\ UNCHANGED request

\* The first append of a log opens the session; the last closes it, and starts
\* the clock of the root's retention.
OpenSession(s) ==
  /\ Visible(s) /\ row[s].status = "New"
  /\ row' = [row EXCEPT ![s].status = "Open"]
  /\ UNCHANGED <<request, used>>

CloseSession(s) ==
  /\ Visible(s) /\ row[s].status = "Open"
  /\ row' = [row EXCEPT ![s].status = "Closed"]
  /\ UNCHANGED <<request, used>>

\* A reserved row nobody opened.  A fork of it keeps it (the foreign key would
\* leave a fork without its source, which the table's checks refuse).
DiscardUnopened(s) ==
  /\ Exists(s) /\ row[s].status = "New"
  /\ \A c \in Sessions : ~(row[c].history /\ row[c].source = s)
  /\ row' = [c \in Sessions |-> IF c = s THEN NoRow
                               ELSE IF row[c].source = s
                                    THEN [row[c] EXCEPT !.source = NoSession] ELSE row[c]]
  /\ UNCHANGED <<request, used>>

\* A clone copies configuration only and owns itself.
CloneSession(s, source) ==
  /\ Visible(source) /\ Unused(s)
  /\ Insert(s, [NoRow EXCEPT !.status = "Open", !.source = source, !.root = s])
  /\ UNCHANGED request

\* The deadline of a closed root passes, or its owner gives it another one.
RetentionPasses(s) ==
  /\ Visible(s) /\ row[s].root = s /\ row[s].status = "Closed" /\ ~row[s].due
  /\ row' = [row EXCEPT ![s].due = TRUE]
  /\ UNCHANGED <<request, used>>

SetRetention(s) ==
  /\ Visible(s) /\ row[s].root = s /\ row[s].due
  /\ row' = [row EXCEPT ![s].due = FALSE]
  /\ UNCHANGED <<request, used>>

-----------------------------------------------------------------------------
(* Delegation.                                                             *)

Begin(p, r) ==
  /\ request[p] = Idle
  /\ request' = [request EXCEPT ![p] = r]
  /\ UNCHANGED <<row, used>>

Finish(p) == request' = [request EXCEPT ![p] = Idle]

\* A request that finds its rows gone, taken or over a limit changes nothing.
Refuse(p) == Finish(p) /\ UNCHANGED <<row, used>>

OriginOf(parent) == IF row[parent].origin = NoSession THEN parent ELSE row[parent].origin

\* The running parent is read: which root its descendants count against, how
\* deep it is, and which retention root it belongs to.
ReadParent(p, child, parent) ==
  /\ Visible(parent) /\ row[parent].status = "Open" /\ child # parent
  /\ Begin(p, [Idle EXCEPT !.op = "Delegate", !.target = parent, !.new = child,
                           !.origin = OriginOf(parent), !.depth = row[parent].depth + 1,
                           !.root = row[parent].root])

\* The rows that count against a delegation root: not closed, so a row that is
\* only reserved counts.
OpenDescendants(origin) ==
  {c \in Sessions : row[c].origin = origin /\ row[c].status # "Closed"}

\* Mutant: only sessions that were opened take up room.
WithinLimitsOpened(r) ==
  /\ r.depth <= MaxDepth
  /\ Cardinality({c \in OpenDescendants(r.origin) : row[c].status = "Open"}) < MaxConcurrent

WithinLimits(r) ==
  /\ r.depth <= MaxDepth
  /\ Cardinality(OpenDescendants(r.origin)) < MaxConcurrent

\* Mutant: the parent itself is not locked, only the roots it belongs to.
DelegateLocksRoots(r) == Visible(r.root) /\ Visible(r.origin) /\ Exists(r.target)

DelegateLocks(r) == Visible(r.root) /\ Visible(r.origin) /\ Visible(r.target)

\* The retention root is the one read before the locks were taken.
CreateChild(p) ==
  /\ request[p].op = "Delegate"
  /\ LET r == request[p] IN
     IF DelegateLocks(r) /\ Unused(r.new) /\ WithinLimits(r)
     THEN /\ Insert(r.new, [NoRow EXCEPT !.status = "New", !.parent = r.target,
                              !.origin = r.origin, !.depth = r.depth, !.root = r.root])
          /\ Finish(p)
     ELSE Refuse(p)

-----------------------------------------------------------------------------
(* Forks.                                                                  *)

ReadSource(p, s, source) ==
  /\ Visible(source) /\ s # source
  /\ Begin(p, [Idle EXCEPT !.op = "Fork", !.target = source, !.new = s,
                           !.root = row[source].root])

ForkLocks(root, source) == Visible(root) /\ Visible(source)

\* lifecycle_at_fork: what the log says at the fork point.
StatusAtFork(source) ==
  CASE row[source].status = "New" -> {"New"}
    [] row[source].status = "Open" -> {"New", "Open"}
    [] OTHER -> {"New", "Open", "Closed"}

CreateFork(p) ==
  /\ request[p].op = "Fork"
  /\ LET r == request[p] IN
     IF ForkLocks(r.root, r.target) /\ Unused(r.new)
     THEN /\ \E status \in StatusAtFork(r.target) :
               Insert(r.new, [NoRow EXCEPT !.status = status, !.source = r.target,
                                !.history = TRUE, !.root = row[r.target].root])
          /\ Finish(p)
     ELSE Refuse(p)

-----------------------------------------------------------------------------
(* Deletion.                                                               *)

\* An owner deletes a session, softly or for good, alone or with its tree; the
\* retention reaper softly deletes a root it has listed as due, with its tree.
ReadTarget(p, s, cascade, soft, reaper) ==
  /\ Visible(s)
  /\ reaper => row[s].due /\ row[s].root = s /\ cascade /\ soft
  /\ Begin(p, [Idle EXCEPT !.op = "Delete", !.target = s, !.root = row[s].root,
                           !.cascade = cascade, !.soft = soft, !.reaper = reaper])

Tree(r) == Reachable(r.target, {c \in Sessions : r.soft => ~row[c].hidden})

AllClosed(r) == \A s \in Tree(r) : row[s].status = "Closed"

\* Mutant: what was listed as due is deleted.
DueWhenListed(r) == TRUE

\* The deadline is judged again under the lock.
StillDue(r) == r.reaper => row[r.target].root = r.target /\ row[r.target].due

\* Mutant: children do not hold a session back.
CascadeIgnored(r) == TRUE

CascadeAllowed(r) == r.cascade \/ Tree(r) = {r.target}

MayDelete(r) ==
  /\ Visible(r.root) /\ Visible(r.target)
  /\ StillDue(r) /\ CascadeAllowed(r) /\ AllClosed(r)

\* Clones of what is deleted lose their link to it.
Detached(s, gone) ==
  IF row[s].source \in gone /\ ~row[s].history
  THEN [row[s] EXCEPT !.source = NoSession] ELSE row[s]

DeleteClosedSessions(p) ==
  /\ request[p].op = "Delete"
  /\ LET r == request[p]
         gone == IF r.cascade THEN Tree(r) ELSE {r.target}
     IN IF MayDelete(r)
        THEN /\ row' = [s \in Sessions |->
                  IF s \notin gone THEN Detached(s, gone)
                  ELSE IF r.soft THEN [row[s] EXCEPT !.hidden = TRUE] ELSE NoRow]
             /\ Finish(p) /\ UNCHANGED used
        ELSE Refuse(p)

\* An operator removes a soft-deleted tree for good.
PurgeDeletedSession(s) ==
  /\ Exists(s)
  /\ LET tree == Reachable(s, Sessions) IN
     /\ \A c \in tree : row[c].hidden
     /\ row' = [c \in Sessions |-> IF c \in tree THEN NoRow ELSE row[c]]
  /\ UNCHANGED <<request, used>>

-----------------------------------------------------------------------------
Next ==
  \/ \E s \in Sessions :
       \/ CreateSession(s) \/ OpenSession(s) \/ CloseSession(s) \/ DiscardUnopened(s)
       \/ RetentionPasses(s) \/ SetRetention(s) \/ PurgeDeletedSession(s)
  \/ \E s, t \in Sessions : CloneSession(s, t)
  \/ \E p \in Requests, s, t \in Sessions : ReadParent(p, s, t) \/ ReadSource(p, s, t)
  \/ \E p \in Requests, s \in Sessions, cascade, soft, reaper \in BOOLEAN :
       ReadTarget(p, s, cascade, soft, reaper)
  \/ \E p \in Requests : CreateChild(p) \/ CreateFork(p) \/ DeleteClosedSessions(p)

Spec == Init /\ [][Next]_vars

-----------------------------------------------------------------------------
TypeOK ==
  /\ \A s \in Sessions :
       /\ row[s].status \in {"None", "New", "Open", "Closed"}
       /\ {row[s].parent, row[s].origin, row[s].source, row[s].root}
            \subseteq Sessions \cup {NoSession}
       /\ row[s].depth \in 0..MaxDepth
  /\ \A p \in Requests : request[p].op \in {"Idle", "Delegate", "Fork", "Delete"}
  /\ used \subseteq Sessions

\* No visible session has lost what it depends on: its parent, the session
\* whose log holds its prefix, or the root that has to be locked to delete it.
NothingOrphaned ==
  \A s \in Sessions : Visible(s) =>
    /\ row[s].parent # NoSession => Visible(row[s].parent)
    /\ row[s].history => Visible(row[s].source)
    /\ Visible(row[s].root)

\* Everything that has a row still has the rows it was made from: a hidden
\* session can be purged only together with what hangs on it.
NothingDangling ==
  \A s \in Sessions : Exists(s) =>
    /\ row[s].parent # NoSession => Exists(row[s].parent)
    /\ row[s].history => Exists(row[s].source)
    /\ Exists(row[s].root)

\* A delegation root never has more open descendants than it may, however many
\* spawns, retries and closes race.
DelegationCapHolds ==
  \A s \in Sessions : Cardinality(OpenDescendants(s)) <= MaxConcurrent

\* Deleting never takes a session that is still in use: what disappears or is
\* hidden was closed, or had never been opened.
OnlyClosedDisappear ==
  [][\A s \in Sessions :
       Visible(s) /\ ~(row'[s] # NoRow /\ ~row'[s].hidden)
         => row[s].status \in {"Closed", "New"}]_vars

\* A root whose owner gave it another deadline after the reaper listed it stays.
ReaperRespectsRetention ==
  [][\A p \in Requests :
       request[p].reaper /\ request'[p] = Idle /\ row' # row
         => row[request[p].target].due]_vars

=============================================================================
