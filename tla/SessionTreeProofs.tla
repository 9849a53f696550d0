------------------------- MODULE SessionTreeProofs -------------------------
(***************************************************************************)
(* Proofs about SessionTree for any set of sessions, requests and limits:  *)
(* what a deletion takes, the cap on delegation, and that no session loses *)
(* a row it depends on.                                                    *)
(***************************************************************************)
EXTENDS SessionTree, FiniteSetTheorems, TLAPS

Ids == Sessions \cup {NoSession}

Rows ==
  [status : {"None", "New", "Open", "Closed"}, hidden : BOOLEAN, parent : Ids, origin : Ids,
   depth : Nat, source : Ids, history : BOOLEAN, root : Ids, due : BOOLEAN]

Operations ==
  [op : {"Idle", "Delegate", "Fork", "Delete"}, target : Ids, new : Ids, root : Ids,
   origin : Ids, depth : Nat, cascade : BOOLEAN, soft : BOOLEAN, reaper : BOOLEAN]

\* An operation that has read its rows and not yet locked them.
Underway(r) ==
  /\ r.op # "Idle" => r.target \in Sessions
  /\ r.op \in {"Delegate", "Fork"} => r.new \in Sessions
  /\ r.op = "Delegate" => r.origin \in Sessions
  /\ r.reaper => r.op = "Delete"

TreeInv ==
  /\ row \in [Sessions -> Rows]
  /\ request \in [Requests -> Operations]
  /\ \A p \in Requests : Underway(request[p])

LEMMA NoRowType == NoRow \in Rows /\ Idle \in Operations
BY DEF NoRow, Idle, Rows, Operations, Ids

LEMMA InitTree == Init => TreeInv
BY NoRowType DEF Init, TreeInv, Underway, Idle

-----------------------------------------------------------------------------
(* One lemma per kind of step: what it does to the rows.                   *)

LEMMA FinishType ==
  ASSUME TreeInv, NEW p \in Requests, Finish(p), row' \in [Sessions -> Rows]
  PROVE  TreeInv'
BY NoRowType DEF TreeInv, Finish, Underway, Idle

LEMMA BeginType ==
  ASSUME TreeInv, NEW p \in Requests, NEW r \in Operations, Underway(r), Begin(p, r)
  PROVE  TreeInv'
BY DEF TreeInv, Begin

LEMMA SingleRowType ==
  ASSUME TreeInv, NEW s \in Sessions, UNCHANGED request,
         \/ CreateSession(s) \/ OpenSession(s) \/ CloseSession(s) \/ DiscardUnopened(s)
         \/ RetentionPasses(s) \/ SetRetention(s) \/ PurgeDeletedSession(s)
         \/ \E t \in Sessions : CloneSession(s, t)
  PROVE  TreeInv'
<1>1. row' \in [Sessions -> Rows]
  <2>1. row \in [Sessions -> Rows]
    BY DEF TreeInv
  <2>2. CASE CreateSession(s) \/ \E t \in Sessions : CloneSession(s, t)
    <3>1. ASSUME NEW r \in Rows, Insert(s, r) PROVE row' \in [Sessions -> Rows]
      BY <2>1, <3>1 DEF Insert
    <3>2. [NoRow EXCEPT !.status = "New", !.root = s] \in Rows
      BY DEF NoRow, Rows, Ids
    <3>3. \A t \in Sessions : [NoRow EXCEPT !.status = "Open", !.source = t, !.root = s] \in Rows
      BY DEF NoRow, Rows, Ids
    <3>4. QED
      BY <2>2, <3>1, <3>2, <3>3 DEF CreateSession, CloneSession
  <2>3. CASE OpenSession(s) \/ CloseSession(s) \/ RetentionPasses(s) \/ SetRetention(s)
    <3>1. \A r \in Rows :
            /\ [r EXCEPT !.status = "Open"] \in Rows /\ [r EXCEPT !.status = "Closed"] \in Rows
            /\ [r EXCEPT !.due = TRUE] \in Rows /\ [r EXCEPT !.due = FALSE] \in Rows
      BY DEF Rows
    <3>2. \/ row' = [row EXCEPT ![s] = [row[s] EXCEPT !.status = "Open"]]
          \/ row' = [row EXCEPT ![s] = [row[s] EXCEPT !.status = "Closed"]]
          \/ row' = [row EXCEPT ![s] = [row[s] EXCEPT !.due = TRUE]]
          \/ row' = [row EXCEPT ![s] = [row[s] EXCEPT !.due = FALSE]]
      BY <2>3, Zenon DEF OpenSession, CloseSession, RetentionPasses, SetRetention
    <3>3. PICK n \in Rows : row' = [row EXCEPT ![s] = n]
      BY <2>1, <3>1, <3>2
    <3>4. QED
      BY <2>1, <3>3
  <2>4. CASE DiscardUnopened(s)
    <3>1. \A r \in Rows : [r EXCEPT !.source = NoSession] \in Rows
      BY DEF Rows, Ids
    <3>2. QED
      BY <2>1, <2>4, <3>1, NoRowType DEF DiscardUnopened
  <2>5. CASE PurgeDeletedSession(s)
    BY <2>1, <2>5, NoRowType DEF PurgeDeletedSession
  <2>6. QED
    BY <2>2, <2>3, <2>4, <2>5
<1>2. QED
  BY <1>1 DEF TreeInv

LEMMA ReadsType ==
  ASSUME TreeInv, NEW p \in Requests,
         \/ \E s, t \in Sessions : ReadParent(p, s, t) \/ ReadSource(p, s, t)
         \/ \E s \in Sessions, cascade, soft, reaper \in BOOLEAN :
              ReadTarget(p, s, cascade, soft, reaper)
  PROVE  TreeInv'
<1>1. \A s \in Sessions : row[s] \in Rows
  BY DEF TreeInv
<1>2. ASSUME NEW s \in Sessions, NEW t \in Sessions, ReadParent(p, s, t) PROVE TreeInv'
  <2> DEFINE r == [Idle EXCEPT !.op = "Delegate", !.target = t, !.new = s,
                               !.origin = OriginOf(t), !.depth = row[t].depth + 1,
                               !.root = row[t].root]
  <2>1. OriginOf(t) \in Sessions
    BY <1>1 DEF OriginOf, Rows, Ids
  <2>2. r \in Operations /\ Underway(r)
    <3>1. OriginOf(t) \in Ids /\ row[t].depth + 1 \in Nat /\ row[t].root \in Ids
          /\ s \in Ids /\ t \in Ids
      BY <1>1, <2>1 DEF Rows, Ids
    <3>2. r \in Operations
      BY <3>1 DEF Idle, Operations
    <3>3. r.target = t /\ r.new = s /\ r.origin = OriginOf(t) /\ r.reaper = FALSE
      BY DEF Idle
    <3>4. Underway(r)
      BY <2>1, <3>3 DEF Underway
    <3>5. QED
      BY <3>2, <3>4
  <2>3. Begin(p, r)
    BY <1>2 DEF ReadParent
  <2> HIDE DEF r
  <2>4. QED
    BY <2>2, <2>3, BeginType
<1>3. ASSUME NEW s \in Sessions, NEW t \in Sessions, ReadSource(p, s, t) PROVE TreeInv'
  <2> DEFINE r == [Idle EXCEPT !.op = "Fork", !.target = t, !.new = s, !.root = row[t].root]
  <2>1. r \in Operations /\ Underway(r)
    BY <1>1 DEF Idle, Operations, Rows, Ids, Underway
  <2>2. Begin(p, r)
    BY <1>3 DEF ReadSource
  <2> HIDE DEF r
  <2>3. QED
    BY <2>1, <2>2, BeginType
<1>4. ASSUME NEW s \in Sessions, NEW cascade \in BOOLEAN, NEW soft \in BOOLEAN,
             NEW reaper \in BOOLEAN, ReadTarget(p, s, cascade, soft, reaper)
      PROVE  TreeInv'
  <2> DEFINE r == [Idle EXCEPT !.op = "Delete", !.target = s, !.root = row[s].root,
                               !.cascade = cascade, !.soft = soft, !.reaper = reaper]
  <2>1. r \in Operations /\ Underway(r)
    BY <1>1 DEF Idle, Operations, Rows, Ids, Underway
  <2>2. Begin(p, r)
    BY <1>4 DEF ReadTarget
  <2> HIDE DEF r
  <2>3. QED
    BY <2>1, <2>2, BeginType
<1>5. QED
  BY <1>2, <1>3, <1>4

\* What the rows of a request become: a new row where there was none, deleted
\* rows hidden or gone, or nothing.
LEMMA CreateChildRows ==
  ASSUME TreeInv, NEW p \in Requests, CreateChild(p)
  PROVE  /\ Finish(p)
         /\ \/ UNCHANGED row
            \/ LET r == request[p] IN
               /\ r.new \in Sessions /\ r.origin \in Sessions /\ row[r.new] = NoRow
               /\ Cardinality(OpenDescendants(r.origin)) < MaxConcurrent
               /\ \E n \in Rows :
                    /\ row' = [row EXCEPT ![r.new] = n]
                    /\ n.status = "New" /\ ~n.hidden /\ n.origin = r.origin
<1> DEFINE r == request[p]
           n == [NoRow EXCEPT !.status = "New", !.parent = r.target,
                              !.origin = r.origin, !.depth = r.depth, !.root = r.root]
<1>1. r \in Operations /\ r.new \in Sessions /\ r.origin \in Sessions
  BY DEF TreeInv, CreateChild, Underway
<1>2. n \in Rows /\ n.status = "New" /\ ~n.hidden /\ n.origin = r.origin
  BY <1>1 DEF NoRow, Rows, Operations, Ids
<1>3. CASE Refuse(p)
  BY <1>3 DEF Refuse
<1>4. CASE Insert(r.new, n) /\ Finish(p) /\ Unused(r.new) /\ WithinLimits(r)
  <2> HIDE DEF n
  <2>1. row[r.new] = NoRow /\ Cardinality(OpenDescendants(r.origin)) < MaxConcurrent
    BY <1>4 DEF Unused, Exists, WithinLimits
  <2>2. row' = [row EXCEPT ![r.new] = n]
    BY <1>4 DEF Insert
  <2>3. QED
    BY <1>1, <1>2, <1>4, <2>1, <2>2
<1>5. QED
  BY <1>3, <1>4 DEF CreateChild

LEMMA CreateForkRows ==
  ASSUME TreeInv, NEW p \in Requests, CreateFork(p)
  PROVE  /\ Finish(p)
         /\ \/ UNCHANGED row
            \/ LET r == request[p] IN
               /\ r.new \in Sessions /\ row[r.new] = NoRow
               /\ \E n \in Rows :
                    /\ row' = [row EXCEPT ![r.new] = n]
                    /\ n # NoRow /\ n.status # "None" /\ ~n.hidden /\ n.origin = NoSession
<1> DEFINE r == request[p]
           n(status) == [NoRow EXCEPT !.status = status, !.source = r.target,
                                      !.history = TRUE, !.root = row[r.target].root]
<1>1. r.new \in Sessions /\ r.target \in Sessions /\ row[r.target] \in Rows
  BY DEF TreeInv, CreateFork, Underway
<1>2. CASE Refuse(p)
  BY <1>2 DEF Refuse
<1>3. CASE /\ \E status \in StatusAtFork(r.target) : Insert(r.new, n(status))
           /\ Finish(p) /\ Unused(r.new)
  <2>1. PICK status \in StatusAtFork(r.target) : Insert(r.new, n(status))
    BY <1>3
  <2>2. status \in {"New", "Open", "Closed"}
    BY DEF StatusAtFork
  <2>3. n(status) \in Rows /\ n(status).status = status /\ ~n(status).hidden
        /\ n(status).origin = NoSession
    BY <1>1, <2>2 DEF NoRow, Rows, Ids
  <2>4. n(status) # NoRow
    BY <2>2, <2>3 DEF NoRow
  <2> HIDE DEF n
  <2>5. row' = [row EXCEPT ![r.new] = n(status)] /\ row[r.new] = NoRow
    BY <1>3, <2>1 DEF Insert, Unused, Exists
  <2>6. QED
    BY <1>1, <1>3, <2>2, <2>3, <2>4, <2>5
<1>4. QED
  BY <1>2, <1>3 DEF CreateFork

LEMMA DeleteRows ==
  ASSUME TreeInv, NEW p \in Requests, DeleteClosedSessions(p)
  PROVE  /\ Finish(p)
         /\ \/ UNCHANGED row
            \/ \E gone :
                 /\ request[p].target \in Sessions
                 /\ StillDue(request[p])
                 /\ \A s \in gone : row[s].status = "Closed"
                 /\ row' = [s \in Sessions |->
                      IF s \notin gone THEN Detached(s, gone)
                      ELSE IF request[p].soft THEN [row[s] EXCEPT !.hidden = TRUE] ELSE NoRow]
<1> DEFINE r == request[p]
           gone == IF r.cascade THEN Tree(r) ELSE {r.target}
<1>1. CASE Refuse(p)
  BY <1>1 DEF Refuse
<1>2. CASE /\ MayDelete(r) /\ Finish(p)
           /\ row' = [s \in Sessions |->
                IF s \notin gone THEN Detached(s, gone)
                ELSE IF r.soft THEN [row[s] EXCEPT !.hidden = TRUE] ELSE NoRow]
  <2>1. r.target \in Sessions
    BY DEF TreeInv, DeleteClosedSessions, Underway
  <2>2. StillDue(r) /\ (r.cascade \/ Tree(r) = {r.target}) /\ \A s \in Tree(r) : row[s].status = "Closed"
    BY <1>2 DEF MayDelete, CascadeAllowed, AllClosed
  <2>3. \A s \in gone : row[s].status = "Closed"
    BY <2>2
  <2>4. QED
    BY <1>2, <2>1, <2>2, <2>3
<1>3. QED
  BY <1>1, <1>2 DEF DeleteClosedSessions

\* Which steps there are.
LEMMA NextCases ==
  ASSUME [Next]_vars
  PROVE  \/ \E s \in Sessions :
              /\ UNCHANGED request
              /\ \/ CreateSession(s) \/ OpenSession(s) \/ CloseSession(s) \/ DiscardUnopened(s)
                 \/ RetentionPasses(s) \/ SetRetention(s) \/ PurgeDeletedSession(s)
                 \/ \E t \in Sessions : CloneSession(s, t)
         \/ \E p \in Requests :
              /\ \/ \E s, t \in Sessions : ReadParent(p, s, t) \/ ReadSource(p, s, t)
                 \/ \E s \in Sessions, cascade, soft, reaper \in BOOLEAN :
                      ReadTarget(p, s, cascade, soft, reaper)
              /\ UNCHANGED row
         \/ \E p \in Requests : CreateChild(p) \/ CreateFork(p) \/ DeleteClosedSessions(p)
         \/ UNCHANGED vars
<1>1. \A s \in Sessions :
        \/ CreateSession(s) \/ OpenSession(s) \/ CloseSession(s) \/ DiscardUnopened(s)
        \/ RetentionPasses(s) \/ SetRetention(s) \/ PurgeDeletedSession(s)
        \/ \E t \in Sessions : CloneSession(s, t)
        => UNCHANGED request
  BY Zenon DEF CreateSession, OpenSession, CloseSession, DiscardUnopened, RetentionPasses,
               SetRetention, PurgeDeletedSession, CloneSession
<1>2. \A p \in Requests :
        /\ \A s, t \in Sessions : ReadParent(p, s, t) \/ ReadSource(p, s, t) => UNCHANGED row
        /\ \A s \in Sessions, cascade, soft, reaper \in BOOLEAN :
             ReadTarget(p, s, cascade, soft, reaper) => UNCHANGED row
  BY DEF ReadParent, ReadSource, ReadTarget, Begin
<1>3. QED
  BY <1>1, <1>2, Zenon DEF Next

LEMMA DeletedType ==
  ASSUME TreeInv, NEW gone, NEW soft \in BOOLEAN,
         row' = [s \in Sessions |->
           IF s \notin gone THEN Detached(s, gone)
           ELSE IF soft THEN [row[s] EXCEPT !.hidden = TRUE] ELSE NoRow]
  PROVE  row' \in [Sessions -> Rows]
<1>1. \A r \in Rows : [r EXCEPT !.source = NoSession] \in Rows /\ [r EXCEPT !.hidden = TRUE] \in Rows
  BY DEF Rows, Ids
<1>2. \A s \in Sessions : Detached(s, gone) \in Rows
  BY <1>1 DEF TreeInv, Detached
<1>3. QED
  BY <1>1, <1>2, NoRowType DEF TreeInv

LEMMA NextTree ==
  ASSUME TreeInv, [Next]_vars
  PROVE  TreeInv'
<1>1. ASSUME NEW s \in Sessions, UNCHANGED request,
             \/ CreateSession(s) \/ OpenSession(s) \/ CloseSession(s) \/ DiscardUnopened(s)
             \/ RetentionPasses(s) \/ SetRetention(s) \/ PurgeDeletedSession(s)
             \/ \E t \in Sessions : CloneSession(s, t)
      PROVE  TreeInv'
  BY <1>1, SingleRowType
<1>2. ASSUME NEW p \in Requests,
             \/ \E s, t \in Sessions : ReadParent(p, s, t) \/ ReadSource(p, s, t)
             \/ \E s \in Sessions, cascade, soft, reaper \in BOOLEAN :
                  ReadTarget(p, s, cascade, soft, reaper)
      PROVE  TreeInv'
  BY <1>2, ReadsType
<1>3. ASSUME NEW p \in Requests, CreateChild(p) \/ CreateFork(p) PROVE TreeInv'
  <2>1. Finish(p) /\ (UNCHANGED row \/ \E n \in Rows : row' = [row EXCEPT ![request[p].new] = n])
    BY <1>3, CreateChildRows, CreateForkRows
  <2>2. row' \in [Sessions -> Rows]
    BY <2>1 DEF TreeInv
  <2>3. QED
    BY <2>1, <2>2, FinishType
<1>4. ASSUME NEW p \in Requests, DeleteClosedSessions(p) PROVE TreeInv'
  <2>1. Finish(p) /\ request[p].soft \in BOOLEAN
    BY <1>4, DeleteRows DEF TreeInv, Operations
  <2>2. row' \in [Sessions -> Rows]
    <3>1. CASE UNCHANGED row
      BY <3>1 DEF TreeInv
    <3>2. CASE ~UNCHANGED row
      BY <1>4, <2>1, <3>2, DeleteRows, DeletedType
    <3>3. QED
      BY <3>1, <3>2
  <2>3. QED
    BY <2>1, <2>2, FinishType
<1>5. CASE UNCHANGED vars
  BY <1>5 DEF vars, TreeInv
<1>6. QED
  BY <1>1, <1>2, <1>3, <1>4, <1>5, NextCases

\* Rows and requests are well formed in every reachable state, and only
\* deletions are requests of the reaper.
THEOREM TreeTyped == Spec => []TreeInv
<1>1. Init => TreeInv
  BY InitTree
<1>2. TreeInv /\ [Next]_vars => TreeInv'
  BY NextTree
<1>3. QED
  BY <1>1, <1>2, PTL DEF Spec

-----------------------------------------------------------------------------
(* What a step does to the rows.                                           *)

\* A row that is there has a status.
Vacant == \A s \in Sessions : row[s].status = "None" => row[s] = NoRow

\* A transaction on one row adds no open descendant to any root, and hides or
\* removes no session but one that was never opened.
LEMMA SingleRowEffect ==
  ASSUME TreeInv, Vacant, NEW s \in Sessions, NEW c \in Sessions,
         \/ CreateSession(s) \/ OpenSession(s) \/ CloseSession(s) \/ DiscardUnopened(s)
         \/ RetentionPasses(s) \/ SetRetention(s) \/ PurgeDeletedSession(s)
         \/ \E t \in Sessions : CloneSession(s, t)
  PROVE  /\ row'[c].origin \in Sessions /\ row'[c].status # "Closed" =>
              row[c].origin = row'[c].origin /\ row[c].status # "Closed"
         /\ Visible(c) /\ ~(row'[c] # NoRow /\ ~row'[c].hidden) => row[c].status = "New"
         /\ row'[c].status = "None" => row'[c] = NoRow
<1>1. row \in [Sessions -> Rows] /\ row[c] \in Rows /\ row[s] \in Rows
  BY DEF TreeInv
<1>2. /\ NoRow.origin = NoSession /\ NoSession \notin Sessions /\ NoRow.status = "None"
      /\ NoRow.source = NoSession
  BY TreeAssumption DEF NoRow, TreeAssumption
<1>3. /\ row[c].status = "None" => row[c] = NoRow
      /\ row[s].status = "None" => row[s] = NoRow
  BY DEF Vacant
<1>4. CASE CreateSession(s) \/ \E t \in Sessions : CloneSession(s, t)
  <2>1. PICK n : /\ Insert(s, n) /\ row[s] = NoRow
                 /\ n.origin = NoSession /\ n.status # "None" /\ n.hidden = FALSE
    <3>1. CASE CreateSession(s)
      <4> DEFINE n == [NoRow EXCEPT !.status = "New", !.root = s]
      <4>1. Insert(s, n) /\ row[s] = NoRow
        BY <3>1 DEF CreateSession, Unused, Exists
      <4>2. n.origin = NoSession /\ n.status # "None" /\ n.hidden = FALSE
        BY DEF NoRow
      <4>3. QED
        BY <4>1, <4>2
    <3>2. ASSUME NEW t \in Sessions, CloneSession(s, t)
          PROVE  \E n : /\ Insert(s, n) /\ row[s] = NoRow
                        /\ n.origin = NoSession /\ n.status # "None" /\ n.hidden = FALSE
      <4> DEFINE n == [NoRow EXCEPT !.status = "Open", !.source = t, !.root = s]
      <4>1. Insert(s, n) /\ row[s] = NoRow
        BY <3>2 DEF CloneSession, Unused, Exists
      <4>2. n.origin = NoSession /\ n.status # "None" /\ n.hidden = FALSE
        BY DEF NoRow
      <4>3. QED
        BY <4>1, <4>2
    <3>3. QED
      BY <1>4, <3>1, <3>2
  <2>2. row' = [row EXCEPT ![s] = n] /\ n # NoRow
    BY <1>2, <2>1 DEF Insert
  <2>3. QED
    BY <1>1, <1>2, <1>3, <2>1, <2>2 DEF Visible, Exists
<1>5. CASE OpenSession(s) \/ CloseSession(s) \/ RetentionPasses(s) \/ SetRetention(s)
  <2>1. row[s] # NoRow
    BY <1>5 DEF OpenSession, CloseSession, RetentionPasses, SetRetention, Visible, Exists
  <2>2. \/ row' = [row EXCEPT ![s] = [row[s] EXCEPT !.status = "Open"]] /\ row[s].status = "New"
        \/ row' = [row EXCEPT ![s] = [row[s] EXCEPT !.status = "Closed"]]
        \/ row' = [row EXCEPT ![s] = [row[s] EXCEPT !.due = TRUE]]
        \/ row' = [row EXCEPT ![s] = [row[s] EXCEPT !.due = FALSE]]
    BY <1>5, Zenon DEF OpenSession, CloseSession, RetentionPasses, SetRetention
  <2>3. PICK n : /\ row' = [row EXCEPT ![s] = n] /\ n.origin = row[s].origin
                 /\ n.hidden = row[s].hidden
                 /\ \/ n.status = row[s].status \/ n.status = "Closed"
                    \/ n.status = "Open" /\ row[s].status = "New"
    BY <1>1, <2>2 DEF Rows
  <2>4. n.status # "None" /\ n # NoRow
    BY <1>2, <1>3, <2>1, <2>3
  <2>5. QED
    BY <1>1, <1>3, <2>1, <2>3, <2>4 DEF Visible, Exists
<1>6. CASE DiscardUnopened(s)
  <2>1. row[s].status = "New"
    BY <1>6 DEF DiscardUnopened
  <2>2. row'[c] = IF c = s THEN NoRow
                  ELSE IF row[c].source = s THEN [row[c] EXCEPT !.source = NoSession] ELSE row[c]
    BY <1>6 DEF DiscardUnopened
  <2>3. CASE c # s /\ row[c].source = s
    <3>1. row[c] # NoRow /\ row[c].status # "None"
      BY <1>2, <1>3, <2>3
    <3>2. row'[c].status = row[c].status /\ row'[c].origin = row[c].origin
          /\ row'[c].hidden = row[c].hidden
      BY <1>1, <2>2, <2>3 DEF Rows
    <3>3. QED
      BY <1>2, <3>1, <3>2 DEF Visible
  <2>4. CASE c = s \/ row[c].source # s
    BY <1>2, <1>3, <2>1, <2>2, <2>4 DEF Visible, Exists
  <2>5. QED
    BY <2>3, <2>4
<1>7. CASE PurgeDeletedSession(s)
  <2>1. row'[c] = row[c] \/ (row'[c] = NoRow /\ row[c].hidden)
    BY <1>7 DEF PurgeDeletedSession
  <2>2. QED
    BY <1>1, <1>2, <1>3, <2>1 DEF Visible, Exists
<1>8. QED
  BY <1>4, <1>5, <1>6, <1>7

\* A deletion takes closed sessions, and clones lose only their link.
LEMMA DeleteEffect ==
  ASSUME TreeInv, Vacant, NEW c \in Sessions, NEW p \in Requests, DeleteClosedSessions(p)
  PROVE  /\ row'[c].origin \in Sessions /\ row'[c].status # "Closed" =>
              row[c].origin = row'[c].origin /\ row[c].status # "Closed"
         /\ Visible(c) /\ ~(row'[c] # NoRow /\ ~row'[c].hidden) => row[c].status = "Closed"
         /\ row'[c].status = "None" => row'[c] = NoRow
<1>1. row[c] \in Rows /\ (row[c].status = "None" => row[c] = NoRow)
  BY DEF TreeInv, Vacant
<1>2. /\ NoRow.origin = NoSession /\ NoSession \notin Sessions /\ NoRow.status = "None"
  BY TreeAssumption DEF NoRow, TreeAssumption
<1>3. CASE UNCHANGED row
  BY <1>1, <1>3 DEF Visible, Exists
<1>4. CASE ~UNCHANGED row
  <2>1. PICK gone :
          /\ \A s \in gone : row[s].status = "Closed"
          /\ row' = [s \in Sessions |->
               IF s \notin gone THEN Detached(s, gone)
               ELSE IF request[p].soft THEN [row[s] EXCEPT !.hidden = TRUE] ELSE NoRow]
    BY <1>4, DeleteRows
  <2>2. CASE c \in gone
    <3>1. row[c].status = "Closed"
      BY <2>1, <2>2
    <3>2. row'[c] = NoRow \/ row'[c] = [row[c] EXCEPT !.hidden = TRUE]
      BY <2>1, <2>2
    <3>3. QED
      BY <1>1, <1>2, <3>1, <3>2 DEF Rows
  <2>3. CASE c \notin gone
    <3>1. row'[c] = row[c] \/ (row'[c] = [row[c] EXCEPT !.source = NoSession])
      BY <2>1, <2>3 DEF Detached
    <3>2. /\ row'[c].status = row[c].status /\ row'[c].origin = row[c].origin
          /\ row'[c].hidden = row[c].hidden
      BY <1>1, <3>1 DEF Rows
    <3>3. row[c] = NoRow => row'[c] = NoRow
      <4>1. \A r \in Rows : r.source = NoSession => [r EXCEPT !.source = NoSession] = r
        BY DEF Rows
      <4>2. NoRow.source = NoSession
        BY DEF NoRow
      <4>3. QED
        BY <1>1, <3>1, <4>1, <4>2
    <3>4. QED
      BY <1>1, <1>2, <3>2, <3>3 DEF Visible, Exists
  <2>4. QED
    BY <2>2, <2>3
<1>5. QED
  BY <1>3, <1>4

\* A row that comes to be has a status of its own and hides nothing.
LEMMA InsertEffect ==
  ASSUME TreeInv, Vacant, NEW c \in Sessions, NEW s \in Sessions, NEW n \in Rows,
         row[s] = NoRow, n # NoRow, n.status # "None", ~n.hidden, row' = [row EXCEPT ![s] = n]
  PROVE  /\ c # s => row'[c] = row[c]
         /\ c = s => row'[c] = n
         /\ Visible(c) => row'[c] # NoRow /\ ~row'[c].hidden
         /\ row'[c].status = "None" => row'[c] = NoRow
BY DEF TreeInv, Vacant, Visible, Exists

LEMMA ReadKeepsRows ==
  ASSUME UNCHANGED row
  PROVE  (Vacant => Vacant') /\ (DelegationCapHolds => DelegationCapHolds')
BY DEF Vacant, DelegationCapHolds, OpenDescendants

\* The cap survives a step that gives no root a new open descendant.
LEMMA CapShrinks ==
  ASSUME DelegationCapHolds,
         \A c \in Sessions :
           row'[c].origin \in Sessions /\ row'[c].status # "Closed" =>
             row[c].origin = row'[c].origin /\ row[c].status # "Closed"
  PROVE  DelegationCapHolds'
<1>1. ASSUME NEW s \in Sessions PROVE Cardinality(OpenDescendants(s)') <= MaxConcurrent
  <2>1. OpenDescendants(s)' \subseteq OpenDescendants(s)
    BY DEF OpenDescendants
  <2>2. IsFiniteSet(OpenDescendants(s)) /\ MaxConcurrent \in Nat
    BY TreeAssumption, FS_Subset DEF TreeAssumption, OpenDescendants
  <2>3. /\ Cardinality(OpenDescendants(s)') <= Cardinality(OpenDescendants(s))
        /\ Cardinality(OpenDescendants(s)') \in Nat /\ Cardinality(OpenDescendants(s)) \in Nat
    BY <2>1, <2>2, FS_Subset, FS_CardinalityType
  <2>4. QED
    BY <2>2, <2>3 DEF DelegationCapHolds
<1>2. QED
  BY <1>1 DEF DelegationCapHolds

LEMMA CreateChildCap ==
  ASSUME TreeInv, Vacant, DelegationCapHolds, NEW p \in Requests, CreateChild(p)
  PROVE  Vacant' /\ DelegationCapHolds'
<1>1. CASE UNCHANGED row
  BY <1>1, ReadKeepsRows
<1>2. CASE ~UNCHANGED row
  <2> DEFINE new == request[p].new
             origin == request[p].origin
  <2>1. /\ new \in Sessions /\ origin \in Sessions /\ row[new] = NoRow
        /\ Cardinality(OpenDescendants(origin)) < MaxConcurrent
    BY <1>2, CreateChildRows
  <2>2. PICK n \in Rows :
          /\ row' = [row EXCEPT ![new] = n]
          /\ n.status = "New" /\ ~n.hidden /\ n.origin = origin
    BY <1>2, CreateChildRows
  <2> HIDE DEF new, origin
  <2>3. n # NoRow
    BY <2>2 DEF NoRow
  <2>4. \A c \in Sessions :
          /\ c # new => row'[c] = row[c]
          /\ c = new => row'[c] = n
          /\ row'[c].status = "None" => row'[c] = NoRow
    BY <2>1, <2>2, <2>3, InsertEffect
  <2>5. ASSUME NEW s \in Sessions PROVE Cardinality(OpenDescendants(s)') <= MaxConcurrent
    <3>1. IsFiniteSet(OpenDescendants(s)) /\ MaxConcurrent \in Nat
      BY TreeAssumption, FS_Subset DEF TreeAssumption, OpenDescendants
    <3>2. Cardinality(OpenDescendants(s)) \in Nat
      BY <3>1, FS_CardinalityType
    <3>3. CASE s = origin
      <4>1. OpenDescendants(s)' = OpenDescendants(s) \cup {new}
        BY <2>1, <2>2, <2>4, <3>3 DEF OpenDescendants
      <4>2. Cardinality(OpenDescendants(s) \cup {new}) <= Cardinality(OpenDescendants(s)) + 1
        BY <3>1, <3>2, FS_AddElement
      <4>3. Cardinality(OpenDescendants(s) \cup {new}) \in Nat
        BY <3>1, FS_AddElement, FS_CardinalityType
      <4>4. QED
        BY <2>1, <3>1, <3>2, <3>3, <4>1, <4>2, <4>3
    <3>4. CASE s # origin
      <4>1. OpenDescendants(s)' = OpenDescendants(s)
        <5>1. new \notin OpenDescendants(s)
          BY <2>1, TreeAssumption DEF OpenDescendants, NoRow, TreeAssumption
        <5>2. QED
          BY <2>1, <2>2, <2>4, <3>4, <5>1 DEF OpenDescendants
      <4>2. QED
        BY <4>1 DEF DelegationCapHolds
    <3>5. QED
      BY <3>3, <3>4
  <2>6. QED
    BY <2>4, <2>5 DEF Vacant, DelegationCapHolds
<1>3. QED
  BY <1>1, <1>2

LEMMA CreateForkCap ==
  ASSUME TreeInv, Vacant, DelegationCapHolds, NEW p \in Requests, CreateFork(p)
  PROVE  Vacant' /\ DelegationCapHolds'
<1>1. CASE UNCHANGED row
  BY <1>1, ReadKeepsRows
<1>2. CASE ~UNCHANGED row
  <2> DEFINE new == request[p].new
  <2>1. new \in Sessions /\ row[new] = NoRow
    BY <1>2, CreateForkRows
  <2>2. PICK n \in Rows :
          /\ row' = [row EXCEPT ![new] = n]
          /\ n.status # "None" /\ n # NoRow /\ ~n.hidden /\ n.origin = NoSession
    BY <1>2, CreateForkRows
  <2> HIDE DEF new
  <2>3. \A c \in Sessions :
          /\ c # new => row'[c] = row[c]
          /\ c = new => row'[c] = n
          /\ row'[c].status = "None" => row'[c] = NoRow
    BY <2>1, <2>2, InsertEffect
  <2>4. \A c \in Sessions :
          row'[c].origin \in Sessions /\ row'[c].status # "Closed" =>
            row[c].origin = row'[c].origin /\ row[c].status # "Closed"
    BY <2>2, <2>3, TreeAssumption DEF TreeAssumption
  <2>5. QED
    BY <2>3, <2>4, CapShrinks DEF Vacant
<1>3. QED
  BY <1>1, <1>2

LEMMA NextCap ==
  ASSUME TreeInv, Vacant, DelegationCapHolds, [Next]_vars
  PROVE  Vacant' /\ DelegationCapHolds'
<1>1. ASSUME NEW s \in Sessions,
             \/ CreateSession(s) \/ OpenSession(s) \/ CloseSession(s) \/ DiscardUnopened(s)
             \/ RetentionPasses(s) \/ SetRetention(s) \/ PurgeDeletedSession(s)
             \/ \E t \in Sessions : CloneSession(s, t)
      PROVE  Vacant' /\ DelegationCapHolds'
  <2>1. \A c \in Sessions :
          /\ row'[c].origin \in Sessions /\ row'[c].status # "Closed" =>
               row[c].origin = row'[c].origin /\ row[c].status # "Closed"
          /\ row'[c].status = "None" => row'[c] = NoRow
    BY <1>1, SingleRowEffect
  <2>2. QED
    BY <2>1, CapShrinks DEF Vacant
<1>2. CASE UNCHANGED row
  BY <1>2, ReadKeepsRows
<1>3. ASSUME NEW p \in Requests, DeleteClosedSessions(p) PROVE Vacant' /\ DelegationCapHolds'
  <2>1. \A c \in Sessions :
          /\ row'[c].origin \in Sessions /\ row'[c].status # "Closed" =>
               row[c].origin = row'[c].origin /\ row[c].status # "Closed"
          /\ row'[c].status = "None" => row'[c] = NoRow
    BY <1>3, DeleteEffect
  <2>2. QED
    BY <2>1, CapShrinks DEF Vacant
<1>4. QED
  BY <1>1, <1>2, <1>3, NextCases, CreateChildCap, CreateForkCap DEF vars

\* Rows that are there have a status, and the cap holds, in every reachable
\* state.
THEOREM RowsAndCap == Spec => [](Vacant /\ DelegationCapHolds)
<1>1. Init => Vacant /\ DelegationCapHolds
  <2>1. SUFFICES ASSUME Init PROVE Vacant /\ DelegationCapHolds
    OBVIOUS
  <2>2. \A s \in Sessions : row[s] = NoRow
    BY <2>1 DEF Init
  <2>3. \A s \in Sessions : OpenDescendants(s) = {}
    BY <2>2, TreeAssumption DEF OpenDescendants, NoRow, TreeAssumption
  <2>4. \A s \in Sessions : Cardinality(OpenDescendants(s)) <= MaxConcurrent
    BY <2>3, FS_EmptySet, TreeAssumption DEF TreeAssumption
  <2>5. QED
    BY <2>2, <2>4 DEF Vacant, DelegationCapHolds
<1>2. TreeInv /\ Vacant /\ DelegationCapHolds /\ [Next]_vars => Vacant' /\ DelegationCapHolds'
  BY NextCap
<1>3. QED
  BY <1>1, <1>2, TreeTyped, PTL DEF Spec

\* DelegationCapHolds holds in every behaviour: however many spawns race, a
\* root has at most MaxConcurrent descendants that are not closed, since each
\* counts them in the transaction that adds its own.
THEOREM CapAlwaysHolds == Spec => []DelegationCapHolds
BY RowsAndCap, PTL

-----------------------------------------------------------------------------
(* What disappears.                                                        *)

\* OnlyClosedDisappear holds in every behaviour: a session that a step hides
\* or removes was closed, or had never been opened, whatever became of its
\* tree between the deletion's read and its transaction.
THEOREM OnlyClosedGo == Spec => OnlyClosedDisappear
<1>1. ASSUME TreeInv, Vacant, [Next]_vars, NEW c \in Sessions, Visible(c),
             ~(row'[c] # NoRow /\ ~row'[c].hidden)
      PROVE  row[c].status \in {"Closed", "New"}
  <2>1. CASE UNCHANGED row
    BY <1>1, <2>1 DEF Visible, Exists
  <2>2. ASSUME NEW s \in Sessions,
               \/ CreateSession(s) \/ OpenSession(s) \/ CloseSession(s) \/ DiscardUnopened(s)
               \/ RetentionPasses(s) \/ SetRetention(s) \/ PurgeDeletedSession(s)
               \/ \E t \in Sessions : CloneSession(s, t)
        PROVE  row[c].status \in {"Closed", "New"}
    BY <1>1, <2>2, SingleRowEffect
  <2>3. ASSUME NEW p \in Requests, CreateChild(p) \/ CreateFork(p), ~UNCHANGED row PROVE FALSE
    <3>1. /\ request[p].new \in Sessions /\ row[request[p].new] = NoRow
      BY <1>1, <2>3, CreateChildRows, CreateForkRows
    <3>2. PICK n \in Rows :
            /\ row' = [row EXCEPT ![request[p].new] = n]
            /\ n.status # "None" /\ ~n.hidden
      BY <1>1, <2>3, CreateChildRows, CreateForkRows
    <3>3. n # NoRow
      BY <3>2 DEF NoRow
    <3>4. QED
      BY <1>1, <3>1, <3>2, <3>3, InsertEffect
  <2>4. ASSUME NEW p \in Requests, DeleteClosedSessions(p)
        PROVE  row[c].status \in {"Closed", "New"}
    BY <1>1, <2>4, DeleteEffect
  <2>5. QED
    BY <1>1, <2>1, <2>2, <2>3, <2>4, NextCases DEF vars
<1>2. TreeInv /\ Vacant /\ [Next]_vars =>
        [\A s \in Sessions :
           Visible(s) /\ ~(row'[s] # NoRow /\ ~row'[s].hidden)
             => row[s].status \in {"Closed", "New"}]_vars
  BY <1>1
<1>3. QED
  BY <1>2, TreeTyped, RowsAndCap, PTL DEF Spec, OnlyClosedDisappear

\* ReaperRespectsRetention holds in every behaviour: the deadline is judged
\* again in the transaction that deletes.
THEOREM ReaperAlwaysRespects == Spec => ReaperRespectsRetention
<1>1. ASSUME TreeInv, [Next]_vars, NEW p \in Requests,
             request[p].reaper, request'[p] = Idle, row' # row
      PROVE  row[request[p].target].due
  <2>1. request[p] # Idle /\ request[p].op = "Delete" /\ request \in [Requests -> Operations]
    BY <1>1 DEF TreeInv, Underway, Idle
  <2>2. request' # request
    BY <1>1, <2>1
  <2>3. PICK q \in Requests : CreateChild(q) \/ CreateFork(q) \/ DeleteClosedSessions(q)
    BY <1>1, <2>2, NextCases DEF vars
  <2>4. Finish(q)
    BY <1>1, <2>3, CreateChildRows, CreateForkRows, DeleteRows
  <2>5. q = p
    BY <1>1, <2>1, <2>4 DEF Finish
  <2>6. DeleteClosedSessions(p)
    BY <2>1, <2>3, <2>5 DEF CreateChild, CreateFork
  <2>7. StillDue(request[p])
    BY <1>1, <2>6, DeleteRows
  <2>8. QED
    BY <1>1, <2>7 DEF StillDue
<1>2. TreeInv /\ [Next]_vars =>
        [\A p \in Requests :
           request[p].reaper /\ request'[p] = Idle /\ row' # row
             => row[request[p].target].due]_vars
  BY <1>1
<1>3. QED
  BY <1>2, TreeTyped, PTL DEF Spec, ReaperRespectsRetention

-----------------------------------------------------------------------------
(* No session, shown or hidden, ever loses a row it depends on.            *)
(*                                                                         *)
(* The rows that are there, and the rows that are shown, are two forests:  *)
(* each session is reached from the retention root its row names.  A       *)
(* deletion takes a set that is shut under dependence, so it cannot take   *)
(* the root of a session it leaves: the session would have been reached.   *)


\* The set has, with each of its members, the sessions of T that depend on it.
Shut(T, R, set) ==
  \A s \in set, c \in T : R[c].parent = s \/ (R[c].history /\ R[c].source = s) => c \in set

Reach(T, R, s) ==
  {c \in Sessions : \A set \in SUBSET Sessions : s \in set /\ Shut(T, R, set) => c \in set}

IsForest(T, R) ==
  \A s \in T :
    /\ R[s].parent # NoSession => R[s].parent \in T
    /\ R[s].history => R[s].source \in T
    /\ R[s].root \in T
    /\ s \in Reach(T, R, R[s].root)

Present == {s \in Sessions : Exists(s)}
Shown == {s \in Sessions : Visible(s)}

Opened(s) == row[s].status \in {"Open", "Closed"}

\* What a spawn read of its parent stays true while the parent has a row.
Pending(r) ==
  r.op = "Delegate" =>
    /\ r.target \in used
    /\ Exists(r.target) => row[r.target].root = r.root /\ Opened(r.target)

Bookkeeping ==
  /\ Present \subseteq used
  /\ \A s \in Present : row[s].parent # NoSession => Opened(row[s].parent)
  /\ \A p \in Requests : Pending(request[p])

Forests == IsForest(Present, row) /\ IsForest(Shown, row)

-----------------------------------------------------------------------------
(* Forests, whatever the rows are.                                         *)

SameLinks(r, n) ==
  /\ n.parent = r.parent /\ n.history = r.history /\ n.root = r.root
  /\ r.history => n.source = r.source

\* What is reached is shut, and is part of every shut set that has its origin.
LEMMA ReachShut ==
  ASSUME NEW T \in SUBSET Sessions, NEW R, NEW t
  PROVE  Shut(T, R, Reach(T, R, t))
BY DEF Shut, Reach

\* A forest from which a shut set is taken is a forest.
LEMMA Pruned ==
  ASSUME NEW T \in SUBSET Sessions, NEW R, NEW Q, NEW gone \in SUBSET Sessions,
         IsForest(T, R), Shut(T, R, gone),
         \A s \in T \ gone : SameLinks(R[s], Q[s])
  PROVE  IsForest(T \ gone, Q)
<1> DEFINE U == T \ gone
<1>1. ASSUME NEW s \in U
      PROVE  /\ R[s].parent \notin gone
             /\ R[s].history => R[s].source \notin gone
             /\ R[s].root \notin gone
             /\ s \in Reach(U, Q, R[s].root)
  <2>1. R[s].parent \notin gone /\ (R[s].history => R[s].source \notin gone)
    BY <1>1 DEF Shut
  <2>2. s \in Reach(T, R, R[s].root)
    BY <1>1 DEF IsForest
  <2>3. R[s].root \notin gone
    BY <1>1, <2>2 DEF Reach
  <2>4. ASSUME NEW set \in SUBSET Sessions, R[s].root \in set, Shut(U, Q, set) PROVE s \in set
    <3>1. Shut(T, R, set \cup gone)
      <4>1. SUFFICES ASSUME NEW x \in set \cup gone, NEW c \in T, c \notin gone,
                            R[c].parent = x \/ (R[c].history /\ R[c].source = x)
                     PROVE  c \in set
        BY DEF Shut
      <4>2. x \in set
        BY <4>1 DEF Shut
      <4>3. c \in U /\ (Q[c].parent = x \/ (Q[c].history /\ Q[c].source = x))
        BY <4>1 DEF SameLinks
      <4>4. QED
        BY <2>4, <4>2, <4>3 DEF Shut
    <3>2. s \in set \cup gone
      BY <2>2, <2>4, <3>1 DEF Reach
    <3>3. QED
      BY <1>1, <3>2
  <2>5. s \in Reach(U, Q, R[s].root)
    BY <1>1, <2>4 DEF Reach
  <2>6. QED
    BY <2>1, <2>3, <2>5
<1>2. ASSUME NEW s \in U
      PROVE  /\ Q[s].parent # NoSession => Q[s].parent \in U
             /\ Q[s].history => Q[s].source \in U
             /\ Q[s].root \in U
             /\ s \in Reach(U, Q, Q[s].root)
  <2>1. SameLinks(R[s], Q[s]) /\ s \in T
    BY <1>2
  <2>2. /\ R[s].parent # NoSession => R[s].parent \in T
        /\ R[s].history => R[s].source \in T
        /\ R[s].root \in T
    BY <2>1 DEF IsForest
  <2>3. QED
    BY <1>1, <1>2, <2>1, <2>2 DEF SameLinks
<1> HIDE DEF U
<1>3. IsForest(U, Q)
  BY <1>2 DEF IsForest
<1>4. QED
  BY <1>3 DEF U

\* A forest to which a root is added, or a session that depends on one of its
\* members and has that member's root, is a forest.
LEMMA Planted ==
  ASSUME NEW T \in SUBSET Sessions, NEW R, NEW Q, NEW new \in Sessions, new \notin T,
         IsForest(T, R), NoSession \notin Sessions,
         \A s \in T : SameLinks(R[s], Q[s]),
         \/ Q[new].parent = NoSession /\ ~Q[new].history /\ Q[new].root = new
         \/ \E t \in T :
              /\ Q[new].root = R[t].root
              /\ \/ Q[new].parent = t /\ ~Q[new].history
                 \/ Q[new].parent = NoSession /\ Q[new].history /\ Q[new].source = t
  PROVE  IsForest(T \cup {new}, Q)
<1> DEFINE U == T \cup {new}
<1>1. ASSUME NEW set \in SUBSET Sessions, Shut(U, Q, set) PROVE Shut(T, R, set)
  <2>1. SUFFICES ASSUME NEW x \in set, NEW c \in T,
                        R[c].parent = x \/ (R[c].history /\ R[c].source = x)
                 PROVE  c \in set
    BY DEF Shut
  <2>2. c \in U /\ (Q[c].parent = x \/ (Q[c].history /\ Q[c].source = x))
    BY <2>1 DEF SameLinks
  <2>3. QED
    BY <1>1, <2>1, <2>2 DEF Shut
<1>2. \A r : Reach(T, R, r) \subseteq Reach(U, Q, r)
  BY <1>1 DEF Reach
<1>3. ASSUME NEW s \in T
      PROVE  /\ Q[s].parent # NoSession => Q[s].parent \in U
             /\ Q[s].history => Q[s].source \in U
             /\ Q[s].root \in U
             /\ s \in Reach(U, Q, Q[s].root)
  <2>1. /\ R[s].parent # NoSession => R[s].parent \in T
        /\ R[s].history => R[s].source \in T
        /\ R[s].root \in T
        /\ s \in Reach(T, R, R[s].root)
    BY DEF IsForest
  <2>2. SameLinks(R[s], Q[s])
    OBVIOUS
  <2>3. QED
    BY <1>2, <2>1, <2>2 DEF SameLinks
<1>4. /\ Q[new].parent # NoSession => Q[new].parent \in U
      /\ Q[new].history => Q[new].source \in U
      /\ Q[new].root \in U
      /\ new \in Reach(U, Q, Q[new].root)
  <2>1. CASE Q[new].parent = NoSession /\ ~Q[new].history /\ Q[new].root = new
    BY <2>1 DEF Reach
  <2>2. ASSUME NEW t \in T, Q[new].root = R[t].root,
               \/ Q[new].parent = t /\ ~Q[new].history
               \/ Q[new].parent = NoSession /\ Q[new].history /\ Q[new].source = t
        PROVE  <1>4
    <3>1. R[t].root \in T /\ t \in Reach(U, Q, R[t].root)
      BY <1>2 DEF IsForest
    <3>2. ASSUME NEW set \in SUBSET Sessions, R[t].root \in set, Shut(U, Q, set)
          PROVE  new \in set
      <4>1. t \in set
        BY <3>1, <3>2 DEF Reach
      <4>2. QED
        BY <2>2, <3>2, <4>1 DEF Shut
    <3>3. new \in Reach(U, Q, R[t].root)
      BY <3>2 DEF Reach
    <3>4. QED
      BY <2>2, <3>1, <3>3
  <2>3. QED
    BY <2>1, <2>2
<1> HIDE DEF U
<1>5. \A s \in U : s \in T \/ s = new
  BY DEF U
<1>6. IsForest(U, Q)
  BY <1>3, <1>4, <1>5 DEF IsForest
<1>7. QED
  BY <1>6 DEF U

-----------------------------------------------------------------------------
(* Steps that take rows away or leave them, and steps that add one.        *)

\* No spawn begins, and those under way read what they had read.
NoNewSpawn == \A p \in Requests : request'[p].op = "Delegate" => request'[p] = request[p]

LEMMA PruneStep ==
  ASSUME TreeInv, Forests, Bookkeeping, used' = used, NoNewSpawn,
         NEW gone \in SUBSET Sessions, NEW hid \in SUBSET Sessions,
         Shut(Present, row, gone), Shut(Shown, row, hid),
         Present' = Present \ gone, Shown' = Shown \ hid,
         \A s \in Present' : SameLinks(row[s], row'[s]) /\ (Opened(s) => Opened(s)')
  PROVE  Forests' /\ Bookkeeping'
<1>1. Present \in SUBSET Sessions /\ Shown \in SUBSET Sessions /\ Shown' \subseteq Present'
  BY DEF Present, Shown, Visible
<1>2. IsForest(Present', row')
  <2>1. IsForest(Present \ gone, row')
    BY <1>1, Pruned DEF Forests
  <2>2. QED
    BY <2>1
<1>3. IsForest(Shown', row')
  <2>1. \A s \in Shown \ hid : SameLinks(row[s], row'[s])
    BY <1>1
  <2>2. IsForest(Shown \ hid, row')
    BY <1>1, <2>1, Pruned DEF Forests
  <2>3. QED
    BY <2>2
<1>4. Forests'
  BY <1>2, <1>3 DEF Forests, IsForest, Reach, Shut
<1>5. Present' \subseteq used'
  BY DEF Bookkeeping
<1>6. ASSUME NEW s \in Present', row'[s].parent # NoSession PROVE Opened(row[s].parent)'
  <2>1. s \in Present /\ row'[s].parent = row[s].parent
    BY DEF SameLinks
  <2>2. row'[s].parent \in Present'
    BY <1>2, <1>6 DEF IsForest
  <2>3. Opened(row[s].parent)
    BY <1>6, <2>1 DEF Bookkeeping
  <2>4. QED
    BY <2>1, <2>2, <2>3 DEF Opened
<1>7. ASSUME NEW p \in Requests PROVE Pending(request[p])'
  <2>1. SUFFICES ASSUME request'[p].op = "Delegate" PROVE Pending(request[p])'
    BY DEF Pending
  <2>2. request'[p] = request[p] /\ request[p].op = "Delegate" /\ request[p].target \in Sessions
    BY <2>1 DEF NoNewSpawn, TreeInv, Underway
  <2>3. Pending(request[p])
    BY DEF Bookkeeping
  <2>4. ASSUME row'[request[p].target] # NoRow
        PROVE  row'[request[p].target].root = request[p].root /\ Opened(request[p].target)'
    <3>1. request[p].target \in Present' /\ request[p].target \in Present
      BY <2>2, <2>4 DEF Present, Exists
    <3>2. row[request[p].target].root = request[p].root /\ Opened(request[p].target)
      BY <2>2, <2>3, <3>1 DEF Pending, Present
    <3>3. QED
      BY <2>2, <3>1, <3>2 DEF SameLinks, Opened
  <2>5. QED
    BY <2>2, <2>3, <2>4 DEF Pending, Exists, Opened
<1>8. Bookkeeping'
  BY <1>5, <1>6, <1>7 DEF Bookkeeping
<1>9. QED
  BY <1>4, <1>8

LEMMA PlantStep ==
  ASSUME TreeInv, Forests, Bookkeeping, NoNewSpawn,
         NEW new \in Sessions, NEW n \in Rows, new \notin used, used' = used \cup {new},
         row' = [row EXCEPT ![new] = n], n # NoRow, ~n.hidden,
         \/ n.parent = NoSession /\ ~n.history /\ n.root = new
         \/ \E t \in Shown :
              /\ n.root = row[t].root
              /\ \/ n.parent = t /\ ~n.history /\ Opened(t)
                 \/ n.parent = NoSession /\ n.history /\ n.source = t
  PROVE  Forests' /\ Bookkeeping'
<1>1. /\ Present \in SUBSET Sessions /\ Shown \in SUBSET Sessions /\ Shown \subseteq Present
      /\ new \notin Present /\ new \notin Shown /\ NoSession \notin Sessions
  BY TreeAssumption DEF Present, Shown, Visible, Bookkeeping, TreeAssumption
<1>2. row'[new] = n /\ \A s \in Sessions \ {new} : row'[s] = row[s]
  BY DEF TreeInv
<1>3. Present' = Present \cup {new} /\ Shown' = Shown \cup {new}
  BY <1>2 DEF Present, Shown, Visible, Exists
<1>4. \A s \in Present : SameLinks(row[s], row'[s])
  BY <1>1, <1>2 DEF SameLinks
<1>5. IsForest(Present \cup {new}, row') /\ IsForest(Shown \cup {new}, row')
  <2>1. \/ row'[new].parent = NoSession /\ ~row'[new].history /\ row'[new].root = new
        \/ \E t \in Shown :
             /\ row'[new].root = row[t].root
             /\ \/ row'[new].parent = t /\ ~row'[new].history
                \/ row'[new].parent = NoSession /\ row'[new].history /\ row'[new].source = t
    BY <1>2
  <2>2. \/ row'[new].parent = NoSession /\ ~row'[new].history /\ row'[new].root = new
        \/ \E t \in Present :
             /\ row'[new].root = row[t].root
             /\ \/ row'[new].parent = t /\ ~row'[new].history
                \/ row'[new].parent = NoSession /\ row'[new].history /\ row'[new].source = t
    BY <1>1, <2>1
  <2>3. IsForest(Present, row) /\ IsForest(Shown, row) /\ \A s \in Shown : SameLinks(row[s], row'[s])
    BY <1>1, <1>4 DEF Forests
  <2>4. IsForest(Present \cup {new}, row')
    BY <1>1, <1>4, <2>2, <2>3, Planted
  <2>5. IsForest(Shown \cup {new}, row')
    BY <1>1, <2>1, <2>3, Planted
  <2>6. QED
    BY <2>4, <2>5
<1>6. Forests'
  BY <1>3, <1>5 DEF Forests, IsForest, Reach, Shut
<1>7. Present' \subseteq used'
  BY <1>3 DEF Bookkeeping
<1>8. ASSUME NEW s \in Present', row'[s].parent # NoSession PROVE Opened(row[s].parent)'
  <2>1. CASE s = new
    BY <1>1, <1>2, <1>8, <2>1 DEF Opened
  <2>2. CASE s # new
    <3>1. s \in Present /\ row'[s] = row[s]
      BY <1>1, <1>2, <1>3, <2>2
    <3>2. row[s].parent \in Present /\ Opened(row[s].parent)
      BY <1>8, <3>1 DEF Forests, IsForest, Bookkeeping
    <3>3. row'[row[s].parent] = row[row[s].parent]
      BY <1>1, <1>2, <3>2
    <3>4. QED
      BY <3>1, <3>2, <3>3 DEF Opened
  <2>3. QED
    BY <2>1, <2>2
<1>9. ASSUME NEW p \in Requests PROVE Pending(request[p])'
  <2>1. SUFFICES ASSUME request'[p].op = "Delegate" PROVE Pending(request[p])'
    BY DEF Pending
  <2>2. request'[p] = request[p] /\ request[p].op = "Delegate" /\ request[p].target \in Sessions
    BY <2>1 DEF NoNewSpawn, TreeInv, Underway
  <2>3. Pending(request[p])
    BY DEF Bookkeeping
  <2>4. row'[request[p].target] = row[request[p].target]
    BY <1>2, <2>2, <2>3 DEF Pending
  <2>5. QED
    BY <2>2, <2>3, <2>4 DEF Pending, Exists, Opened
<1>10. Bookkeeping'
  BY <1>7, <1>8, <1>9 DEF Bookkeeping
<1>11. QED
  BY <1>6, <1>10

\* Nothing goes: the rows keep their links, or are opened, closed or due.
LEMMA KeepStep ==
  ASSUME TreeInv, Forests, Bookkeeping, used' = used, NoNewSpawn,
         Present' = Present, Shown' = Shown,
         \A s \in Present : SameLinks(row[s], row'[s]) /\ (Opened(s) => Opened(s)')
  PROVE  Forests' /\ Bookkeeping'
<1>1. Shut(Present, row, {}) /\ Shut(Shown, row, {})
  BY DEF Shut
<1>2. Present' = Present \ {} /\ Shown' = Shown \ {}
  OBVIOUS
<1>3. QED
  BY <1>1, <1>2, PruneStep

-----------------------------------------------------------------------------
(* The actions.                                                            *)

LEMMA SameRowKeeps ==
  ASSUME TreeInv, Forests, Bookkeeping, NEW s \in Sessions,
         OpenSession(s) \/ CloseSession(s) \/ RetentionPasses(s) \/ SetRetention(s)
  PROVE  Forests' /\ Bookkeeping'
<1>1. row \in [Sessions -> Rows] /\ request' = request /\ used' = used
  BY DEF TreeInv, OpenSession, CloseSession, RetentionPasses, SetRetention
<1>2. Visible(s)
  BY DEF OpenSession, CloseSession, RetentionPasses, SetRetention
<1>3. \/ row' = [row EXCEPT ![s] = [row[s] EXCEPT !.status = "Open"]]
      \/ row' = [row EXCEPT ![s] = [row[s] EXCEPT !.status = "Closed"]]
      \/ row' = [row EXCEPT ![s] = [row[s] EXCEPT !.due = TRUE]] /\ row[s].status = "Closed"
      \/ row' = [row EXCEPT ![s] = [row[s] EXCEPT !.due = FALSE]] /\ row[s].due
  BY Zenon DEF OpenSession, CloseSession, RetentionPasses, SetRetention
<1>4. \A c \in Sessions \ {s} : row'[c] = row[c]
  BY <1>1, <1>3
<1>5. /\ SameLinks(row[s], row'[s])
      /\ ~row'[s].hidden
      /\ row'[s].status \in {"Open", "Closed"} \/ row'[s].status = row[s].status
  <2>1. row[s] \in Rows /\ ~row[s].hidden
    BY <1>1, <1>2 DEF Visible
  <2>2. \/ row'[s] = [row[s] EXCEPT !.status = "Open"]
        \/ row'[s] = [row[s] EXCEPT !.status = "Closed"]
        \/ row'[s] = [row[s] EXCEPT !.due = TRUE]
        \/ row'[s] = [row[s] EXCEPT !.due = FALSE]
    BY <1>1, <1>3
  <2>3. QED
    BY <2>1, <2>2 DEF SameLinks, Rows
<1>6. row'[s] # NoRow
  <2>1. row[s].root \in Present
    BY <1>2 DEF Forests, IsForest, Present, Visible
  <2>2. row'[s].root # NoSession
    BY <1>5, <2>1, TreeAssumption DEF SameLinks, Present, TreeAssumption
  <2>3. QED
    BY <2>2 DEF NoRow
<1>7. Present' = Present /\ Shown' = Shown
  BY <1>2, <1>4, <1>5, <1>6 DEF Present, Shown, Visible, Exists
<1>8. \A c \in Present : SameLinks(row[c], row'[c]) /\ (Opened(c) => Opened(c)')
  <2>1. ASSUME NEW c \in Present PROVE SameLinks(row[c], row'[c]) /\ (Opened(c) => Opened(c)')
    BY <1>4, <1>5 DEF SameLinks, Opened, Present
  <2>2. QED
    BY <2>1
<1>9. NoNewSpawn
  BY <1>1 DEF NoNewSpawn
<1>10. QED
  BY <1>1, <1>7, <1>8, <1>9, KeepStep

LEMMA NewRootPlants ==
  ASSUME TreeInv, Forests, Bookkeeping, NEW s \in Sessions,
         CreateSession(s) \/ \E t \in Sessions : CloneSession(s, t)
  PROVE  Forests' /\ Bookkeeping'
<1> DEFINE Root(n) == /\ row' = [row EXCEPT ![s] = n] /\ used' = used \cup {s}
                      /\ n.status # "None" /\ ~n.hidden
                      /\ n.parent = NoSession /\ ~n.history /\ n.root = s
<1>0. \E n \in Rows : Root(n)
  <2>1. CASE CreateSession(s)
    <3> DEFINE n == [NoRow EXCEPT !.status = "New", !.root = s]
    <3>1. n \in Rows /\ n.status = "New" /\ ~n.hidden /\ n.parent = NoSession /\ ~n.history /\ n.root = s
      BY DEF NoRow, Rows, Ids
    <3>2. row' = [row EXCEPT ![s] = n] /\ used' = used \cup {s}
      BY <2>1 DEF CreateSession, Insert
    <3> HIDE DEF n
    <3>3. QED
      BY <3>1, <3>2
  <2>2. ASSUME NEW t \in Sessions, CloneSession(s, t) PROVE \E n \in Rows : Root(n)
    <3> DEFINE n == [NoRow EXCEPT !.status = "Open", !.source = t, !.root = s]
    <3>1. n \in Rows /\ n.status = "Open" /\ ~n.hidden /\ n.parent = NoSession /\ ~n.history /\ n.root = s
      BY DEF NoRow, Rows, Ids
    <3>2. row' = [row EXCEPT ![s] = n] /\ used' = used \cup {s}
      BY <2>2 DEF CloneSession, Insert
    <3> HIDE DEF n
    <3>3. QED
      BY <3>1, <3>2
  <2>3. QED
    BY <2>1, <2>2
<1>1. PICK n \in Rows : Root(n)
  BY <1>0
<1>2. s \notin used /\ request' = request
  BY DEF CreateSession, CloneSession, Unused
<1>3. n # NoRow
  BY <1>1 DEF NoRow
<1>4. NoNewSpawn
  BY <1>2 DEF NoNewSpawn
<1>5. QED
  BY <1>1, <1>2, <1>3, <1>4, PlantStep

\* A row that is there names a root, and keeps its place when it loses the link
\* of a clone to its source.
LEMMA RootedRows ==
  ASSUME TreeInv, Forests, NEW c \in Sessions
  PROVE  /\ Exists(c) => row[c].root # NoSession
         /\ \A r : r.root # NoSession => r # NoRow
         /\ row[c].source # NoSession /\ ~row[c].history =>
              /\ [row[c] EXCEPT !.source = NoSession] # NoRow
              /\ [row[c] EXCEPT !.source = NoSession].hidden = row[c].hidden
              /\ [row[c] EXCEPT !.source = NoSession].status = row[c].status
              /\ SameLinks(row[c], [row[c] EXCEPT !.source = NoSession])
              /\ Exists(c)
<1>1. row[c] \in Rows /\ NoSession \notin Sessions
  BY TreeAssumption DEF TreeInv, TreeAssumption
<1>2. Exists(c) => row[c].root # NoSession
  BY <1>1 DEF Forests, IsForest, Present
<1>3. \A r : r.root # NoSession => r # NoRow
  BY DEF NoRow
<1>4. ASSUME row[c].source # NoSession, ~row[c].history
      PROVE  /\ [row[c] EXCEPT !.source = NoSession] # NoRow
             /\ [row[c] EXCEPT !.source = NoSession].hidden = row[c].hidden
             /\ [row[c] EXCEPT !.source = NoSession].status = row[c].status
             /\ SameLinks(row[c], [row[c] EXCEPT !.source = NoSession])
             /\ Exists(c)
  <2> DEFINE m == [row[c] EXCEPT !.source = NoSession]
  <2>1. /\ m.hidden = row[c].hidden /\ m.root = row[c].root /\ m.parent = row[c].parent
        /\ m.history = row[c].history /\ m.status = row[c].status
    BY <1>1 DEF Rows
  <2> HIDE DEF m
  <2>2. Exists(c)
    BY <1>4 DEF Exists, NoRow
  <2>3. SameLinks(row[c], m) /\ m # NoRow
    BY <1>2, <1>3, <1>4, <2>1, <2>2 DEF SameLinks
  <2>4. QED
    BY <2>1, <2>2, <2>3 DEF m
<1>5. QED
  BY <1>2, <1>3, <1>4

LEMMA DiscardPrunes ==
  ASSUME TreeInv, Forests, Bookkeeping, NEW s \in Sessions, DiscardUnopened(s)
  PROVE  Forests' /\ Bookkeeping'
<1>1. /\ row[s].status = "New" /\ request' = request /\ used' = used
      /\ \A c \in Sessions : ~(row[c].history /\ row[c].source = s)
  BY DEF DiscardUnopened
<1>2. s # NoSession
  BY TreeAssumption DEF TreeAssumption
<1>3. Shut(Present, row, {s}) /\ Shut(Shown, row, {s})
  <2>1. ASSUME NEW c \in Present, row[c].parent = s PROVE FALSE
    BY <1>1, <1>2, <2>1 DEF Bookkeeping, Opened
  <2>2. \A c \in Present : c \in Sessions
    BY DEF Present
  <2>3. \A c \in Shown : c \in Present
    BY DEF Present, Shown, Visible
  <2>4. QED
    BY <1>1, <2>1, <2>2, <2>3 DEF Shut
<1>4. ASSUME NEW c \in Sessions, c # s
      PROVE  /\ row'[c] # NoRow <=> row[c] # NoRow
             /\ row'[c].hidden = row[c].hidden
             /\ SameLinks(row[c], row'[c]) /\ row'[c].status = row[c].status
  <2>1. row'[c] = IF row[c].source = s THEN [row[c] EXCEPT !.source = NoSession] ELSE row[c]
    BY <1>4 DEF DiscardUnopened
  <2>2. CASE row[c].source = s
    <3>1. row[c].source # NoSession /\ ~row[c].history
      BY <1>1, <1>2, <2>2
    <3>2. QED
      BY <2>1, <2>2, <3>1, RootedRows DEF Exists
  <2>3. CASE row[c].source # s
    BY <2>1, <2>3 DEF SameLinks
  <2>4. QED
    BY <2>2, <2>3
<1>5. row'[s] = NoRow
  BY DEF DiscardUnopened
<1>6. Present' = Present \ {s} /\ Shown' = Shown \ {s}
  BY <1>4, <1>5 DEF Present, Shown, Visible, Exists
<1>7. ASSUME NEW c \in Present' PROVE SameLinks(row[c], row'[c]) /\ (Opened(c) => Opened(c)')
  <2>1. c \in Sessions /\ c # s
    BY <1>6 DEF Present
  <2>2. QED
    BY <1>4, <2>1 DEF Opened
<1>8. NoNewSpawn
  BY <1>1 DEF NoNewSpawn
<1>9. {s} \in SUBSET Sessions
  OBVIOUS
<1>10. QED
  BY <1>1, <1>3, <1>6, <1>7, <1>8, <1>9, PruneStep

\* The recursive query of the catalog is what the forest's definition reaches.
LEMMA ReachableShut ==
  ASSUME NEW s
  PROVE  /\ Shut(Present, row, Reachable(s, Sessions))
         /\ Shut(Shown, row, Reachable(s, {c \in Sessions : ~row[c].hidden}))
         /\ \A live : Reachable(s, live) \in SUBSET Sessions
<1>1. \A set \in SUBSET Sessions : Closed(set, Sessions) <=> Shut(Present, row, set)
  BY DEF Closed, Shut, Depends, Present
<1>2. \A set \in SUBSET Sessions :
        Closed(set, {c \in Sessions : ~row[c].hidden}) <=> Shut(Shown, row, set)
  BY DEF Closed, Shut, Depends, Shown, Visible
<1>3. /\ Reachable(s, Sessions) = Reach(Present, row, s)
      /\ Reachable(s, {c \in Sessions : ~row[c].hidden}) = Reach(Shown, row, s)
  BY <1>1, <1>2 DEF Reachable, Reach
<1>4. Present \in SUBSET Sessions /\ Shown \in SUBSET Sessions
  BY DEF Present, Shown
<1>5. \A live : Reachable(s, live) \in SUBSET Sessions
  BY DEF Reachable
<1>6. QED
  BY <1>3, <1>4, <1>5, ReachShut

LEMMA ShutShown ==
  ASSUME NEW set, Shut(Present, row, set)
  PROVE  Shut(Shown, row, set)
BY DEF Shut, Shown, Present, Visible

LEMMA PurgePrunes ==
  ASSUME TreeInv, Forests, Bookkeeping, NEW s \in Sessions, PurgeDeletedSession(s)
  PROVE  Forests' /\ Bookkeeping'
<1> DEFINE gone == Reachable(s, Sessions)
<1>1. gone \in SUBSET Sessions /\ Shut(Present, row, gone)
  BY ReachableShut
<1>2. Shut(Shown, row, gone)
  BY <1>1, ShutShown
<1>3. /\ row' = [c \in Sessions |-> IF c \in gone THEN NoRow ELSE row[c]]
      /\ request' = request /\ used' = used
  BY DEF PurgeDeletedSession
<1> HIDE DEF gone
<1>4. Present' = Present \ gone /\ Shown' = Shown \ gone
  BY <1>3 DEF Present, Shown, Visible, Exists
<1>5. ASSUME NEW c \in Present' PROVE SameLinks(row[c], row'[c]) /\ (Opened(c) => Opened(c)')
  <2>1. c \in Sessions /\ c \notin gone
    BY <1>4 DEF Present
  <2>2. row'[c] = row[c]
    BY <1>3, <2>1
  <2>3. QED
    BY <2>2 DEF SameLinks, Opened
<1>6. NoNewSpawn
  BY <1>3 DEF NoNewSpawn
<1>7. QED
  BY <1>1, <1>2, <1>3, <1>4, <1>5, <1>6, PruneStep

\* A request that ends reads nothing of a parent.
LEMMA FinishSpawns ==
  ASSUME TreeInv, NEW p \in Requests, Finish(p)
  PROVE  NoNewSpawn
<1>1. request \in [Requests -> Operations]
  BY DEF TreeInv
<1>2. \A q \in Requests : request'[q] = request[q] \/ request'[q] = Idle
  BY <1>1 DEF Finish
<1>3. Idle.op # "Delegate"
  BY DEF Idle
<1>4. QED
  BY <1>2, <1>3 DEF NoNewSpawn

LEMMA RefuseKeeps ==
  ASSUME TreeInv, Forests, Bookkeeping, NEW p \in Requests, Refuse(p)
  PROVE  Forests' /\ Bookkeeping'
<1>1. row' = row /\ used' = used /\ NoNewSpawn
  BY FinishSpawns DEF Refuse
<1>2. Present' = Present /\ Shown' = Shown
  BY <1>1 DEF Present, Shown, Visible, Exists
<1>3. \A s \in Present : SameLinks(row[s], row'[s]) /\ (Opened(s) => Opened(s)')
  BY <1>1 DEF SameLinks, Opened
<1>4. QED
  BY <1>1, <1>2, <1>3, KeepStep

LEMMA DeletePrunes ==
  ASSUME TreeInv, Forests, Bookkeeping, NEW p \in Requests, DeleteClosedSessions(p)
  PROVE  Forests' /\ Bookkeeping'
<1> DEFINE r == request[p]
           gone == Tree(r)
<1>1. CASE Refuse(p)
  BY <1>1, RefuseKeeps
<1>2. CASE MayDelete(r) /\ ~Refuse(p)
  <2>1. r.soft \in BOOLEAN
    BY DEF TreeInv, Operations
  <2>2. gone = IF r.cascade THEN Tree(r) ELSE {r.target}
    BY <1>2 DEF MayDelete, CascadeAllowed
  <2>3. /\ row' = [s \in Sessions |->
                IF s \notin gone THEN Detached(s, gone)
                ELSE IF r.soft THEN [row[s] EXCEPT !.hidden = TRUE] ELSE NoRow]
        /\ Finish(p) /\ used' = used
    BY <1>2, <2>2 DEF DeleteClosedSessions
  <2>4. gone \in SUBSET Sessions /\ \A s \in gone : row[s].status = "Closed"
    BY <1>2, ReachableShut DEF MayDelete, AllClosed, Tree
  <2>5. IF r.soft THEN Shut(Shown, row, gone) ELSE Shut(Present, row, gone)
    <3>1. CASE r.soft
      <4>1. {c \in Sessions : r.soft => ~row[c].hidden} = {c \in Sessions : ~row[c].hidden}
        BY <3>1
      <4>2. QED
        BY <3>1, <4>1, ReachableShut DEF Tree
    <3>2. CASE ~r.soft
      <4>1. {c \in Sessions : r.soft => ~row[c].hidden} = Sessions
        BY <3>2
      <4>2. QED
        BY <3>2, <4>1, ReachableShut DEF Tree
    <3>3. QED
      BY <3>1, <3>2
  <2> HIDE DEF gone
  <2>6. ASSUME NEW c \in Sessions \ gone
        PROVE  /\ row'[c] # NoRow <=> row[c] # NoRow
               /\ row'[c].hidden = row[c].hidden
               /\ SameLinks(row[c], row'[c]) /\ row'[c].status = row[c].status
    <3>1. row'[c] = Detached(c, gone)
      BY <2>3
    <3>2. CASE row[c].source \in gone /\ ~row[c].history
      <4>1. row[c].source # NoSession
        BY <2>4, <3>2, TreeAssumption DEF TreeAssumption
      <4>2. row'[c] = [row[c] EXCEPT !.source = NoSession]
        BY <3>1, <3>2 DEF Detached
      <4>3. QED
        BY <3>2, <4>1, <4>2, RootedRows DEF Exists
    <3>3. CASE ~(row[c].source \in gone /\ ~row[c].history)
      <4>1. row'[c] = row[c]
        BY <3>1, <3>3 DEF Detached
      <4>2. QED
        BY <4>1 DEF SameLinks
    <3>4. QED
      BY <3>2, <3>3
  <2>7. NoNewSpawn
    BY <2>3, FinishSpawns
  <2>8. CASE r.soft
    <3>1. ASSUME NEW c \in gone
          PROVE  /\ row'[c] # NoRow /\ row[c] # NoRow /\ row'[c].hidden
                 /\ SameLinks(row[c], row'[c]) /\ row'[c].status = row[c].status
      <4>1. row[c] \in Rows /\ row[c].status = "Closed" /\ c \in Sessions
        BY <2>4 DEF TreeInv
      <4>2. row'[c] = [row[c] EXCEPT !.hidden = TRUE]
        BY <2>3, <2>8, <4>1
      <4>3. /\ row'[c].hidden /\ row'[c].status = "Closed" /\ row'[c].parent = row[c].parent
            /\ row'[c].history = row[c].history /\ row'[c].root = row[c].root
            /\ row'[c].source = row[c].source
        BY <4>1, <4>2 DEF Rows
      <4>4. QED
        BY <4>1, <4>3 DEF SameLinks, NoRow
    <3>2. Present' = Present \ {} /\ Shown' = Shown \ gone
      BY <2>4, <2>6, <3>1 DEF Present, Shown, Visible, Exists
    <3>3. \A c \in Present' : SameLinks(row[c], row'[c]) /\ (Opened(c) => Opened(c)')
      BY <2>6, <3>1 DEF Present, Opened
    <3>4. Shut(Present, row, {}) /\ Shut(Shown, row, gone)
      BY <2>5, <2>8 DEF Shut
    <3>5. QED
      BY <2>3, <2>4, <2>7, <3>2, <3>3, <3>4, PruneStep
  <2>9. CASE ~r.soft
    <3>1. \A c \in gone : row'[c] = NoRow
      BY <2>3, <2>4, <2>9
    <3>2. Present' = Present \ gone /\ Shown' = Shown \ gone
      BY <2>4, <2>6, <3>1 DEF Present, Shown, Visible, Exists
    <3>3. ASSUME NEW c \in Present'
          PROVE  SameLinks(row[c], row'[c]) /\ (Opened(c) => Opened(c)')
      <4>1. c \in Sessions \ gone
        BY <3>2 DEF Present
      <4>2. QED
        BY <2>6, <4>1 DEF Opened
    <3>4. Shut(Present, row, gone) /\ Shut(Shown, row, gone)
      BY <2>5, <2>9, ShutShown
    <3>5. QED
      BY <2>3, <2>4, <2>7, <3>2, <3>3, <3>4, PruneStep
  <2>10. QED
    BY <2>1, <2>8, <2>9
<1>3. QED
  BY <1>1, <1>2 DEF DeleteClosedSessions

LEMMA CreateChildPlants ==
  ASSUME TreeInv, Forests, Bookkeeping, NEW p \in Requests, CreateChild(p)
  PROVE  Forests' /\ Bookkeeping'
<1> DEFINE r == request[p]
           n == [NoRow EXCEPT !.status = "New", !.parent = r.target,
                              !.origin = r.origin, !.depth = r.depth, !.root = r.root]
<1>1. CASE Refuse(p)
  BY <1>1, RefuseKeeps
<1>2. CASE ~Refuse(p)
  <2>1. r \in Operations /\ r.op = "Delegate" /\ r.new \in Sessions /\ r.target \in Sessions
    BY DEF TreeInv, CreateChild, Underway
  <2>2. n \in Rows /\ n.status = "New" /\ ~n.hidden /\ n.parent = r.target /\ n.root = r.root
        /\ ~n.history
    BY <2>1 DEF NoRow, Rows, Operations, Ids
  <2>3. Insert(r.new, n) /\ Finish(p) /\ Unused(r.new) /\ DelegateLocks(r)
    BY <1>2 DEF CreateChild
  <2> HIDE DEF n
  <2>4. n # NoRow
    BY <2>2 DEF NoRow
  <2>5. row' = [row EXCEPT ![r.new] = n] /\ used' = used \cup {r.new} /\ r.new \notin used
    BY <2>3 DEF Insert, Unused
  <2>6. r.target \in Shown /\ n.root = row[r.target].root /\ Opened(r.target)
    BY <2>1, <2>2, <2>3 DEF DelegateLocks, Shown, Visible, Bookkeeping, Pending
  <2>7. NoNewSpawn
    BY <2>3, FinishSpawns
  <2>8. QED
    BY <2>1, <2>2, <2>4, <2>5, <2>6, <2>7, PlantStep
<1>3. QED
  BY <1>1, <1>2

LEMMA CreateForkPlants ==
  ASSUME TreeInv, Forests, Bookkeeping, NEW p \in Requests, CreateFork(p)
  PROVE  Forests' /\ Bookkeeping'
<1> DEFINE r == request[p]
           n(status) == [NoRow EXCEPT !.status = status, !.source = r.target,
                                      !.history = TRUE, !.root = row[r.target].root]
<1>1. CASE Refuse(p)
  BY <1>1, RefuseKeeps
<1>2. CASE ~Refuse(p)
  <2>1. r.new \in Sessions /\ r.target \in Sessions /\ row[r.target] \in Rows
    BY DEF TreeInv, CreateFork, Underway
  <2>2. /\ \E status \in StatusAtFork(r.target) : Insert(r.new, n(status))
        /\ Finish(p) /\ Unused(r.new) /\ ForkLocks(r.root, r.target)
    BY <1>2 DEF CreateFork
  <2>3. PICK status \in StatusAtFork(r.target) : Insert(r.new, n(status))
    BY <2>2
  <2>4. status \in {"New", "Open", "Closed"}
    BY DEF StatusAtFork
  <2>5. n(status) \in Rows /\ n(status).status = status /\ ~n(status).hidden
        /\ n(status).parent = NoSession /\ n(status).history /\ n(status).source = r.target
        /\ n(status).root = row[r.target].root
    BY <2>1, <2>4 DEF NoRow, Rows, Ids
  <2>6. n(status) # NoRow
    BY <2>4, <2>5 DEF NoRow
  <2> HIDE DEF n
  <2>7. row' = [row EXCEPT ![r.new] = n(status)] /\ used' = used \cup {r.new} /\ r.new \notin used
    BY <2>2, <2>3 DEF Insert, Unused
  <2>8. r.target \in Shown
    BY <2>1, <2>2 DEF ForkLocks, Shown
  <2>9. NoNewSpawn
    BY <2>2, FinishSpawns
  <2>10. QED
    BY <2>1, <2>5, <2>6, <2>7, <2>8, <2>9, PlantStep
<1>3. QED
  BY <1>1, <1>2

\* A spawn reads an open parent, so what it read is so; no row changes.
LEMMA ReadsKeep ==
  ASSUME TreeInv, Forests, Bookkeeping, NEW p \in Requests,
         \/ \E s, t \in Sessions : ReadParent(p, s, t) \/ ReadSource(p, s, t)
         \/ \E s \in Sessions, cascade, soft, reaper \in BOOLEAN :
              ReadTarget(p, s, cascade, soft, reaper)
  PROVE  Forests' /\ Bookkeeping'
<1>1. PICK r : Begin(p, r) /\ Pending(r)
  <2>1. ASSUME NEW s \in Sessions, NEW t \in Sessions, ReadParent(p, s, t)
        PROVE  \E r : Begin(p, r) /\ Pending(r)
    <3> DEFINE r == [Idle EXCEPT !.op = "Delegate", !.target = t, !.new = s,
                                 !.origin = OriginOf(t), !.depth = row[t].depth + 1,
                                 !.root = row[t].root]
    <3>1. Begin(p, r) /\ row[t].status = "Open" /\ t \in Present
      BY <2>1 DEF ReadParent, Present, Visible
    <3>2. r.target = t /\ r.root = row[t].root
      BY DEF Idle
    <3> HIDE DEF r
    <3>3. Pending(r)
      BY <3>1, <3>2 DEF Pending, Opened, Bookkeeping
    <3>4. QED
      BY <3>1, <3>3
  <2>2. ASSUME NEW s \in Sessions, NEW t \in Sessions, ReadSource(p, s, t)
        PROVE  \E r : Begin(p, r) /\ Pending(r)
    <3> DEFINE r == [Idle EXCEPT !.op = "Fork", !.target = t, !.new = s, !.root = row[t].root]
    <3>1. Begin(p, r) /\ r.op # "Delegate"
      BY <2>2 DEF ReadSource, Idle
    <3> HIDE DEF r
    <3>2. QED
      BY <3>1 DEF Pending
  <2>3. ASSUME NEW s \in Sessions, NEW cascade \in BOOLEAN, NEW soft \in BOOLEAN,
               NEW reaper \in BOOLEAN, ReadTarget(p, s, cascade, soft, reaper)
        PROVE  \E r : Begin(p, r) /\ Pending(r)
    <3> DEFINE r == [Idle EXCEPT !.op = "Delete", !.target = s, !.root = row[s].root,
                                 !.cascade = cascade, !.soft = soft, !.reaper = reaper]
    <3>1. Begin(p, r) /\ r.op # "Delegate"
      BY <2>3 DEF ReadTarget, Idle
    <3> HIDE DEF r
    <3>2. QED
      BY <3>1 DEF Pending
  <2>4. QED
    BY <2>1, <2>2, <2>3
<1>2. row' = row /\ used' = used /\ request' = [request EXCEPT ![p] = r]
  BY <1>1 DEF Begin
<1>3. Present' = Present /\ Forests'
  BY <1>2 DEF Forests, IsForest, Reach, Shut, Present, Shown, Visible, Exists
<1>4. \A q \in Requests : Pending(request'[q])
  BY <1>1, <1>2 DEF Bookkeeping, TreeInv
<1>5. Bookkeeping'
  BY <1>2, <1>3, <1>4 DEF Bookkeeping, Pending, Opened, Exists
<1>6. QED
  BY <1>3, <1>5

LEMMA NextForests ==
  ASSUME TreeInv, Forests, Bookkeeping, [Next]_vars
  PROVE  Forests' /\ Bookkeeping'
<1>1. CASE UNCHANGED vars
  <2>1. row' = row /\ used' = used /\ request' = request
    BY <1>1 DEF vars
  <2>2. QED
    BY <2>1 DEF Forests, Bookkeeping, IsForest, Reach, Shut, Present, Shown, Visible, Exists,
                Pending, Opened
<1>2. QED
  BY <1>1, NextCases, SameRowKeeps, NewRootPlants, DiscardPrunes, PurgePrunes, DeletePrunes,
     CreateChildPlants, CreateForkPlants, ReadsKeep

\* The rows that are there and the rows that are shown form forests under the
\* retention roots they name, and what a spawn under way read of its parent
\* still holds, in every reachable state.
THEOREM ForestsAlways == Spec => [](Forests /\ Bookkeeping)
<1>1. Init => Forests /\ Bookkeeping
  <2>1. SUFFICES ASSUME Init PROVE Forests /\ Bookkeeping
    OBVIOUS
  <2>2. Present = {} /\ Shown = {}
    BY <2>1 DEF Init, Present, Shown, Visible, Exists
  <2>3. \A p \in Requests : Pending(request[p])
    BY <2>1 DEF Init, Pending, Idle
  <2>4. QED
    BY <2>2, <2>3 DEF Forests, Bookkeeping, IsForest
<1>2. TreeInv /\ (Forests /\ Bookkeeping) /\ [Next]_vars => (Forests /\ Bookkeeping)'
  BY NextForests
<1>3. QED
  BY <1>1, <1>2, TreeTyped, PTL DEF Spec

\* NothingOrphaned holds in every behaviour: whatever commits between a
\* request's read and its transaction, a visible session keeps its parent, the
\* source of its prefix and the root that has to be locked to delete it.
THEOREM NeverOrphaned == Spec => []NothingOrphaned
<1>1. Forests => NothingOrphaned
  BY DEF Forests, IsForest, Shown, NothingOrphaned
<1>2. QED
  BY <1>1, ForestsAlways, PTL

\* NothingDangling holds in every behaviour: deletion for good and the purge
\* take everything that hangs on what they remove.
THEOREM NeverDangling == Spec => []NothingDangling
<1>1. Forests => NothingDangling
  BY DEF Forests, IsForest, Present, NothingDangling
<1>2. QED
  BY <1>1, ForestsAlways, PTL

=============================================================================
