----------------------------- MODULE BlobStore -----------------------------
(***************************************************************************)
(* The content-addressed blob catalog of a universe (store-pg/blob.rs),    *)
(* the session roots and blob edges that hold its rows, and the collector  *)
(* (store-pg/cas_sweep.rs, temporal-runtime/worker/reaper.rs) that deletes *)
(* rows nothing holds once their grace is over.  Writers and collectors    *)
(* run concurrently; each action is one statement on the database, one     *)
(* call on the object store, or one read of the clock.                     *)
(*                                                                         *)
(* A digest is a number, its order the catalog's.  A row is its touch time *)
(* and its incarnation: the key of the object that holds its bytes, or a   *)
(* fresh number for a row with inline bytes.                               *)
(***************************************************************************)
EXTENDS Integers, FiniteSets, FiniteSetsExt, TLC

CONSTANTS
    Digests,      \* the digests of the contents that are written
    Large,        \* those stored as objects; the others are inline
    Contains,     \* <<p, c>>: the bytes of p embed the reference of c
    Writers,      \* clients, tools and workers that store content
    Sweepers,     \* worker processes that may lead the collection
    Grace,        \* grace of the collector, in ticks
    PageLimit,    \* CAS_SWEEP_PAGE_LIMIT
    MaxTime,      \* bound on the clock
    MaxRows,      \* bound on the incarnations ever made
    MaxFailures   \* bound on the failures of collectors

ASSUME BlobAssumption ==
    /\ Digests \subseteq Nat \ {0}
    /\ Large \subseteq Digests
    /\ Contains \subseteq {e \in Digests \X Digests : e[1] # e[2]}
    /\ Grace \in Nat /\ PageLimit \in Nat \ {0}
    /\ MaxTime \in Nat /\ MaxRows \in Nat /\ MaxFailures \in Nat

NoRow == [touched |-> -1, id |-> 0]
NoLeader == "no leader"
Start == <<-1, 0>>     \* the cursor of a walk that begins
Never == -1            \* the grant of a reference that was not given

VARIABLES
    now,        \* the clock
    rows,       \* cas_blobs: digest -> row
    objects,    \* keys that exist in the object store
    made,       \* incarnations made so far
    roots,      \* digests some session, snapshot or event row holds
    edges,      \* cas_blob_edges
    writer,     \* the put each writer is in
    granted,    \* writer -> digest -> time its reference's grace counts from
    leader,     \* holder of the advisory lock
    sweeper,    \* the pass each sweeper is in
    cursor,     \* cas_sweep_cursors
    failures    \* failures spent

vars == <<now, rows, objects, made, roots, edges, writer, granted,
          leader, sweeper, cursor, failures>>

store == <<rows, objects, made>>
holds == <<roots, edges>>
writing == <<writer, granted>>
sweeping == <<leader, sweeper, cursor, failures>>

Present(b) == rows[b] # NoRow
Readable(b) == Present(b) /\ (b \in Large => rows[b].id \in objects)

Idle == [st |-> "idle", blob |-> 0, at |-> 0, key |-> 0]
Resting == [st |-> "idle", cutoff |-> 0, at |-> Start, more |-> FALSE,
            found |-> {}, victims |-> {}, keys |-> {}]

Init ==
    /\ now = 0
    /\ rows = [b \in Digests |-> NoRow]
    /\ objects = {} /\ made = 0
    /\ roots = {} /\ edges = {}
    /\ writer = [w \in Writers |-> Idle]
    /\ granted = [w \in Writers |-> [b \in Digests |-> Never]]
    /\ leader = NoLeader
    /\ sweeper = [s \in Sweepers |-> Resting]
    /\ cursor = Start
    /\ failures = 0

Tick ==
    /\ now < MaxTime
    /\ now' = now + 1
    /\ UNCHANGED <<store, holds, writing, sweeping>>

-----------------------------------------------------------------------------
\* Writers

(* Mutant: content that exists already is not touched. *)
TouchSkipped(b, at) == rows

(* GREATEST(touched_at_ms, at): a touch never moves a row back. *)
Touch(b, at) == [rows EXCEPT ![b].touched = Max({@, at})]

(* The caller has the reference; its grace counts from `at`. *)
Grants(w, b, at) ==
    /\ granted' = [granted EXCEPT ![w][b] = at]
    /\ writer' = [writer EXCEPT ![w] = Idle]

(* put_single_blob reads the clock before anything else. *)
PutBegins(w, b) ==
    /\ writer[w].st = "idle"
    /\ writer' = [writer EXCEPT ![w] = [Idle EXCEPT !.st = "put", !.blob = b, !.at = now]]
    /\ UNCHANGED <<now, store, holds, granted, sweeping>>

(* The touch of existing content; without a row the bytes are stored. *)
PutTouches(w) ==
    LET b == writer[w].blob IN
    /\ writer[w].st = "put"
    /\ IF Present(b)
       THEN rows' = Touch(b, writer[w].at) /\ Grants(w, b, writer[w].at)
       ELSE /\ writer' = [writer EXCEPT ![w].st = IF b \in Large THEN "upload" ELSE "insert"]
            /\ UNCHANGED <<rows, granted>>
    /\ UNCHANGED <<now, objects, made, holds, sweeping>>

(* put_stream looks for the row first; a hit is retained in a second statement. *)
StreamBegins(w, b) ==
    /\ writer[w].st = "idle" /\ b \in Large
    /\ writer' = [writer EXCEPT ![w] = [Idle EXCEPT
                    !.st = IF Present(b) THEN "retain" ELSE "stream", !.blob = b]]
    /\ UNCHANGED <<now, store, holds, granted, sweeping>>

(* touch_blob_refs of a reference another request or a tool result names. *)
RetainBegins(w, b) ==
    /\ writer[w].st = "idle"
    /\ writer' = [writer EXCEPT ![w] = [Idle EXCEPT !.st = "retain", !.blob = b]]
    /\ UNCHANGED <<now, store, holds, granted, sweeping>>

(* NotFound leaves the caller without a reference. *)
Retain(w) ==
    LET b == writer[w].blob IN
    /\ writer[w].st = "retain"
    /\ IF Present(b)
       THEN rows' = Touch(b, now) /\ Grants(w, b, now)
       ELSE writer' = [writer EXCEPT ![w] = Idle] /\ UNCHANGED <<rows, granted>>
    /\ UNCHANGED <<now, objects, made, holds, sweeping>>

(* INSERT ... ON CONFLICT DO UPDATE SET touched_at_ms = GREATEST(...). *)
Upsert(b, id, at) ==
    IF Present(b) THEN Touch(b, at)
    ELSE [rows EXCEPT ![b] = [touched |-> at, id |-> id]]

PutInline(w) ==
    LET b == writer[w].blob IN
    /\ writer[w].st = "insert" /\ made < MaxRows
    /\ made' = made + 1
    /\ rows' = Upsert(b, made + 1, writer[w].at)
    /\ Grants(w, b, writer[w].at)
    /\ UNCHANGED <<now, objects, holds, sweeping>>

(* Mutant: the object key is derived from the digest alone. *)
UploadKeyShared(b) == b

(* direct_blob_key: every upload has a key of its own. *)
UploadKey(b) == made + 1

Upload(w) ==
    LET key == UploadKey(writer[w].blob) IN
    /\ writer[w].st \in {"upload", "stream"} /\ made < MaxRows
    /\ made' = made + 1
    /\ objects' = objects \cup {key}
    /\ writer' = [writer EXCEPT
         ![w].key = key,
         ![w].st = IF @ = "stream" THEN "publish now" ELSE "publish"]
    /\ UNCHANGED <<now, rows, holds, granted, sweeping>>

(* The row is inserted, or another writer's row is touched and this upload *)
(* is left over.  put_stream reads the clock here, put_single_blob when it *)
(* began.                                                                  *)
Publish(w) ==
    LET b == writer[w].blob
        at == IF writer[w].st = "publish now" THEN now ELSE writer[w].at
        stored == Upsert(b, writer[w].key, at)
    IN
    /\ writer[w].st \in {"publish", "publish now"}
    /\ rows' = stored
    /\ IF stored[b].id = writer[w].key
       THEN Grants(w, b, at)
       ELSE /\ writer' = [writer EXCEPT ![w].st = "lost", ![w].at = at]
            /\ UNCHANGED granted
    /\ UNCHANGED <<now, objects, made, holds, sweeping>>

(* Only the unused upload is removed; a failed removal is a leak. *)
RemoveUnused(w) ==
    /\ writer[w].st = "lost"
    /\ \/ objects' = objects \ {writer[w].key}
       \/ UNCHANGED objects
    /\ Grants(w, writer[w].blob, writer[w].at)
    /\ UNCHANGED <<now, rows, made, holds, sweeping>>

(* Any statement of a put may fail, and its process may die. *)
PutFails(w) ==
    /\ writer[w].st # "idle"
    /\ writer' = [writer EXCEPT ![w] = Idle]
    /\ UNCHANGED <<now, store, holds, granted, sweeping>>

(* record_blob_edges: both ends must have rows, or the statement fails and *)
(* changes nothing.                                                        *)
RecordEdge(w, e) ==
    /\ \A b \in {e[1], e[2]} : granted[w][b] # Never /\ Present(b)
    /\ edges' = edges \cup {e}
    /\ UNCHANGED <<now, store, roots, writing, sweeping>>

(* record_roots in the append transaction: a missing row refuses the append *)
(* (MissingBlobs), a present one is locked and held from then on.           *)
Attach(w, b) ==
    /\ granted[w][b] # Never
    /\ roots' = IF Present(b) THEN roots \cup {b} ELSE roots
    /\ granted' = [granted EXCEPT ![w][b] = Never]
    /\ UNCHANGED <<now, store, edges, writer, sweeping>>

(* The last holder of a digest is purged with its session. *)
Release(b) ==
    /\ b \in roots
    /\ roots' = roots \ {b}
    /\ UNCHANGED <<now, store, edges, writing, sweeping>>

-----------------------------------------------------------------------------
\* The collector

(* Mutant: only roots hold a blob, edges do not. *)
HeldByRoots(b) == b \in roots

(* A row of another table that references this one: the predicate looks for *)
(* it, and its foreign key forbids the deletion.                            *)
Held(b) == b \in roots \/ \E e \in edges : e[2] = b

(* DEAD_BLOB_PREDICATE *)
Dead(b, cutoff) == Present(b) /\ rows[b].touched < cutoff /\ ~Held(b)

Lead(s) ==
    /\ leader = NoLeader /\ sweeper[s].st = "idle"
    /\ leader' = s
    /\ UNCHANGED <<now, store, holds, writing, sweeper, cursor, failures>>

(* The lock's connection is gone; a pass that runs notices nothing. *)
LoseLead ==
    /\ leader # NoLeader /\ failures < MaxFailures
    /\ leader' = NoLeader /\ failures' = failures + 1
    /\ UNCHANGED <<now, store, holds, writing, sweeper, cursor>>

(* run_pass: leader.check, the cutoff of the pass, the stored cursor. *)
PassBegins(s) ==
    /\ leader = s /\ sweeper[s].st = "idle"
    /\ sweeper' = [sweeper EXCEPT ![s] = [Resting EXCEPT
                     !.st = "scan", !.cutoff = now - Grace, !.at = cursor]]
    /\ UNCHANGED <<now, store, holds, writing, leader, cursor, failures>>

After(t, b, at) == t > at[1] \/ (t = at[1] /\ b > at[2])

(* The next rows in the order of (touched_at_ms, digest), at most a page. *)
Page(s) ==
    LET due == {b \in Digests : /\ Present(b) /\ rows[b].touched < sweeper[s].cutoff
                                /\ After(rows[b].touched, b, sweeper[s].at)}
        before(b) == {c \in due : After(rows[b].touched, b, <<rows[c].touched, c>>)}
    IN  {b \in due : Cardinality(before(b)) < PageLimit}

(* Mutant: a walk that reached the end stays there. *)
NextCursorStays(page, at) ==
    IF page = {} THEN at
    ELSE LET b == CHOOSE x \in page : \A c \in page :
                    x = c \/ After(rows[x].touched, x, <<rows[c].touched, c>>)
         IN  <<rows[b].touched, b>>

(* The last row examined; a page that is not full ends the walk. *)
NextCursor(page, at) ==
    IF Cardinality(page) < PageLimit THEN Start
    ELSE LET b == CHOOSE x \in page : \A c \in page :
                    x = c \/ After(rows[x].touched, x, <<rows[c].touched, c>>)
         IN  <<rows[b].touched, b>>

(* The pass goes on with the next page, or saves its cursor. *)
AfterPage(more) == IF more THEN "scan" ELSE "save"

(* scan_sweep_candidates *)
Scan(s) ==
    LET page == Page(s)
        next == NextCursor(page, sweeper[s].at)
        found == {b \in page : Dead(b, sweeper[s].cutoff)}
    IN
    /\ sweeper[s].st = "scan"
    /\ sweeper' = [sweeper EXCEPT
         ![s].at = next, ![s].more = (next # Start), ![s].found = found,
         ![s].st = IF found # {} THEN "delete" ELSE AfterPage(next # Start)]
    /\ UNCHANGED <<now, store, holds, writing, leader, cursor, failures>>

(* The row allowance or the time budget of the pass is used up. *)
OutOfBudget(s) ==
    /\ sweeper[s].st = "scan" /\ sweeper[s].at # cursor
    /\ sweeper' = [sweeper EXCEPT ![s].st = "save"]
    /\ UNCHANGED <<now, store, holds, writing, leader, cursor, failures>>

(* delete_dead_blobs evaluates the predicate on the statement's snapshot. *)
Snapshot(s) ==
    /\ sweeper[s].st = "delete"
    /\ sweeper' = [sweeper EXCEPT
         ![s].st = "commit", ![s].found = {},
         ![s].victims = {<<b, rows[b].id>> :
                           b \in {c \in sweeper[s].found : Dead(c, sweeper[s].cutoff)}}]
    /\ UNCHANGED <<now, store, holds, writing, leader, cursor, failures>>

(* Mutant: a row touched since the snapshot is deleted all the same. *)
StillVictimsBlind(s) ==
    {b \in Digests : <<b, rows[b].id>> \in sweeper[s].victims}

(* The rows the statement deletes: the incarnations of the snapshot that   *)
(* were not touched since, since a touched row has its age checked again.  *)
StillVictims(s) ==
    {b \in Digests : /\ <<b, rows[b].id>> \in sweeper[s].victims
                     /\ rows[b].touched < sweeper[s].cutoff}

(* A holder that appeared since the snapshot fails the foreign key check   *)
(* and with it the statement: the page is left for the next walk.          *)
DeleteRows(s) ==
    LET gone == StillVictims(s)
        conflict == \E b \in gone : Held(b)
        keys == {rows[b].id : b \in gone \cap Large}
    IN
    /\ sweeper[s].st = "commit"
    /\ IF conflict
       THEN UNCHANGED <<rows, edges>>
       ELSE /\ rows' = [b \in Digests |-> IF b \in gone THEN NoRow ELSE rows[b]]
            /\ edges' = {e \in edges : e[1] \notin gone}
    /\ sweeper' = [sweeper EXCEPT
         ![s].victims = {}, ![s].keys = IF conflict THEN {} ELSE keys,
         ![s].st = IF conflict THEN "save" ELSE IF keys # {} THEN "objects"
                   ELSE AfterPage(sweeper[s].more)]
    /\ UNCHANGED <<now, objects, made, roots, writing, leader, cursor, failures>>

(* delete_blob_objects: what cannot be deleted leaks and ends the pass. *)
DeleteObjects(s) ==
    /\ sweeper[s].st = "objects"
    /\ \E failed \in SUBSET sweeper[s].keys :
         /\ failures + Cardinality(failed) <= MaxFailures
         /\ failures' = failures + Cardinality(failed)
         /\ objects' = objects \ (sweeper[s].keys \ failed)
         /\ sweeper' = [sweeper EXCEPT ![s].keys = {},
              ![s].st = AfterPage(failed = {} /\ sweeper[s].more)]
    /\ UNCHANGED <<now, rows, made, holds, writing, leader, cursor>>

(* save_sweep_cursor *)
Save(s) ==
    /\ sweeper[s].st = "save"
    /\ cursor' = sweeper[s].at
    /\ sweeper' = [sweeper EXCEPT ![s] = Resting]
    /\ UNCHANGED <<now, store, holds, writing, leader, failures>>

(* A statement of the pass fails, or its process dies. *)
PassFails(s) ==
    /\ sweeper[s].st # "idle" /\ failures < MaxFailures
    /\ failures' = failures + 1
    /\ \/ /\ sweeper' = [sweeper EXCEPT ![s].st = "save", ![s].found = {}, ![s].victims = {}]
          /\ sweeper[s].st \in {"scan", "delete", "commit"} /\ UNCHANGED leader
       \/ /\ sweeper' = [sweeper EXCEPT ![s] = Resting]
          /\ leader' = IF leader = s THEN NoLeader ELSE leader
    /\ UNCHANGED <<now, store, holds, writing, cursor>>

-----------------------------------------------------------------------------
WriterStep(w) ==
    \/ \E b \in Digests : PutBegins(w, b) \/ StreamBegins(w, b) \/ RetainBegins(w, b)
    \/ PutTouches(w) \/ Retain(w) \/ PutInline(w) \/ Upload(w)
    \/ Publish(w) \/ RemoveUnused(w) \/ PutFails(w)
    \/ \E e \in Contains : RecordEdge(w, e)
    \/ \E b \in Digests : Attach(w, b)

SweeperStep(s) ==
    \/ Lead(s) \/ PassBegins(s) \/ Scan(s) \/ OutOfBudget(s) \/ Snapshot(s)
    \/ DeleteRows(s) \/ DeleteObjects(s) \/ Save(s) \/ PassFails(s)

Next ==
    \/ Tick \/ LoseLead
    \/ \E w \in Writers : WriterStep(w)
    \/ \E b \in Digests : Release(b)
    \/ \E s \in Sweepers : SweeperStep(s)

Spec == Init /\ [][Next]_vars

(* The clock runs, a worker process always tries for the lock, and the     *)
(* leader's hourly loop goes on until it fails.                            *)
Fairness ==
    /\ WF_vars(Tick)
    /\ \A s \in Sweepers :
         /\ WF_vars(Lead(s)) /\ WF_vars(PassBegins(s)) /\ WF_vars(Scan(s))
         /\ WF_vars(Snapshot(s)) /\ WF_vars(DeleteRows(s))
         /\ WF_vars(DeleteObjects(s)) /\ WF_vars(Save(s))

FairSpec == Spec /\ Fairness

-----------------------------------------------------------------------------
TypeOK ==
    /\ now \in 0..MaxTime
    /\ rows \in [Digests -> [touched : -1..MaxTime, id : 0..MaxRows]]
    /\ objects \subseteq Nat /\ made \in 0..MaxRows
    /\ roots \subseteq Digests /\ edges \subseteq Contains
    /\ writer \in [Writers -> [st : {"idle", "put", "insert", "upload", "stream", "retain",
                                     "publish", "publish now", "lost"},
                               blob : Digests \cup {0}, at : 0..MaxTime, key : Nat]]
    /\ granted \in [Writers -> [Digests -> -1..MaxTime]]
    /\ leader \in Sweepers \cup {NoLeader}
    /\ cursor \in (-1..MaxTime) \X (Digests \cup {0})
    /\ failures \in 0..MaxFailures

(* Whatever a session or another blob holds can be read: its row is there  *)
(* and so are its bytes, whatever sweep, upload or late cleanup is under   *)
(* way (cas_sweep.rs:264-320, blob.rs:107-148).                            *)
HeldIsReadable ==
    \A b \in roots \cup UNION {{e[1], e[2]} : e \in edges} : Readable(b)

(* A reference handed out by a put or a retain stays good for the grace    *)
(* that counts from it: its holder can still commit (blob.rs:45-50).       *)
FreshRefIsGood ==
    \A w \in Writers, b \in Digests :
        granted[w][b] # Never /\ now - granted[w][b] <= Grace => Readable(b)

(* What stays dead is collected, however the walk is interrupted, resumed  *)
(* from the stored cursor or taken over (reaper.rs:58-64).                 *)
GarbageIsCollected ==
    \A b \in Digests : []<>~(Dead(b, MaxTime - Grace))
=============================================================================
