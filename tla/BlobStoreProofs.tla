-------------------------- MODULE BlobStoreProofs --------------------------
(***************************************************************************)
(* Proofs about BlobStore for any digests, writers, sweepers and grace:    *)
(* what is held can be read, and a fresh reference is good.                *)
(***************************************************************************)
EXTENDS BlobStore, TLAPS

Rows == [touched : Int, id : Nat]

Puts == [st : {"idle", "put", "insert", "upload", "stream", "retain",
               "publish", "publish now", "lost"},
         blob : Digests \cup {0}, at : Int, key : Nat]

\* A pass, whatever its stage, its place in the walk and its findings.
Pass(A, B, C, D, E) ==
    [st : A, cutoff : Int, at : B, more : C, found : D, victims : E, keys : SUBSET Nat]

IsPass(p) == \E A, B, C, D, E : p \in Pass(A, B, C, D, E)

Shape ==
    /\ now \in Nat /\ made \in Nat
    /\ rows \in [Digests -> Rows]
    /\ writer \in [Writers -> Puts]
    /\ \A w \in Writers :
         /\ writer[w].st # "idle" => writer[w].blob \in Digests
         /\ writer[w].st = "insert" => writer[w].blob \notin Large
    /\ granted \in [Writers -> [Digests -> Int]]
    /\ DOMAIN sweeper = Sweepers /\ sweeper = [s \in Sweepers |-> sweeper[s]]
    /\ \A s \in Sweepers : IsPass(sweeper[s])
    /\ roots \subseteq Digests /\ edges \subseteq Contains

\* Every row has an incarnation of its own, and the bytes of every row are
\* there: nobody deletes the object of a row that is still in the catalog.
RowsWhole ==
    \A b \in Digests : Present(b) =>
        /\ rows[b].id \in 1..made
        /\ b \in Large => rows[b].id \in objects
        /\ \A c \in Digests : rows[c].id = rows[b].id => c = b

Uploaded(w) == writer[w].st \in {"publish", "publish now", "lost"}

\* An upload no row names yet is its writer's alone.
UploadsOwned ==
    \A w \in Writers : Uploaded(w) =>
        /\ writer[w].key \in 1..made
        /\ writer[w].st # "lost" => writer[w].key \in objects
        /\ \A b \in Digests : rows[b].id # writer[w].key
        /\ \A v \in Writers : Uploaded(v) /\ writer[v].key = writer[w].key => v = w
        /\ \A s \in Sweepers : writer[w].key \notin sweeper[s].keys

\* The objects a sweeper is about to delete are no row's.
DoomedUnused ==
    \A s \in Sweepers :
        /\ sweeper[s].keys \subseteq 0..made
        /\ \A b \in Digests : Present(b) => rows[b].id \notin sweeper[s].keys

\* The cutoff of a pass was a grace ago when the pass began.
CutoffPast == \A s \in Sweepers : sweeper[s].st # "idle" => sweeper[s].cutoff <= now - Grace

HeldPresent ==
    /\ \A b \in roots : Present(b)
    /\ \A e \in edges : Present(e[1]) /\ Present(e[2])

\* While the grace that counts from `at` lasts, the row is there and as young.
Good(b, at) == now - at <= Grace => Present(b) /\ rows[b].touched >= at

FreshGood ==
    /\ \A w \in Writers, b \in Digests : granted[w][b] # Never => Good(b, granted[w][b])
    /\ \A w \in Writers : writer[w].st = "lost" => Good(writer[w].blob, writer[w].at)

BlobInv ==
    /\ Shape /\ RowsWhole /\ UploadsOwned /\ DoomedUnused
    /\ CutoffPast /\ HeldPresent /\ FreshGood

LEMMA RestingPass == IsPass(Resting) /\ Resting.keys = {} /\ Resting.st = "idle"
<1>1. Resting \in Pass({"idle"}, {Start}, {FALSE}, {{}}, {{}})
  BY DEF Resting, Pass
<1>2. QED
  BY <1>1 DEF IsPass, Resting

LEMMA PassCutoff ==
  ASSUME NEW p, IsPass(p)
  PROVE  p.cutoff \in Int /\ p.keys \in SUBSET Nat
BY DEF IsPass, Pass

LEMMA InitBlob == Init => BlobInv
<1>1. SUFFICES ASSUME Init PROVE BlobInv
  OBVIOUS
<1>2. \A b \in Digests : rows[b] = NoRow
  BY <1>1 DEF Init
<1>3. \A w \in Writers : writer[w] = Idle /\ \A b \in Digests : granted[w][b] = Never
  BY <1>1 DEF Init
<1>4. \A s \in Sweepers : sweeper[s] = Resting
  BY <1>1 DEF Init
<1>5. NoRow \in Rows /\ Idle \in Puts /\ IsPass(Resting)
  BY RestingPass DEF NoRow, Rows, Idle, Puts
<1>6. Shape
  <2>1. \A w \in Writers : writer[w].st = "idle"
    BY <1>3 DEF Idle
  <2>2. writer \in [Writers -> Puts] /\ rows \in [Digests -> Rows]
        /\ granted \in [Writers -> [Digests -> Int]]
    BY <1>1, <1>5 DEF Init, Never
  <2>3. QED
    BY <1>1, <1>4, <1>5, <2>1, <2>2 DEF Init, Shape
<1>7. RowsWhole /\ HeldPresent
  BY <1>1, <1>2 DEF RowsWhole, HeldPresent, Present, Init
<1>8. UploadsOwned /\ FreshGood
  <2>1. \A w \in Writers : writer[w].st = "idle"
    BY <1>3 DEF Idle
  <2>2. UploadsOwned
    BY <2>1 DEF UploadsOwned, Uploaded
  <2>3. FreshGood
    BY <1>3, <2>1 DEF FreshGood
  <2>4. QED
    BY <2>2, <2>3
<1>9. DoomedUnused /\ CutoffPast
  BY <1>4 DEF DoomedUnused, CutoffPast, Resting
<1>10. QED
  BY <1>6, <1>7, <1>8, <1>9 DEF BlobInv

-----------------------------------------------------------------------------
(* Steps of writers.                                                       *)

LEMMA MaxOfTwo ==
  ASSUME NEW a \in Int, NEW b \in Int
  PROVE  Max({a, b}) \in Int /\ Max({a, b}) >= a /\ Max({a, b}) >= b
<1>1. \E x \in {a, b} : \A y \in {a, b} : x >= y
  <2>1. CASE a >= b
    BY <2>1
  <2>2. CASE ~(a >= b)
    BY <2>2
  <2>3. QED
    BY <2>1, <2>2
<1>2. Max({a, b}) \in {a, b} /\ \A y \in {a, b} : Max({a, b}) >= y
  BY <1>1 DEF Max
<1>3. QED
  BY <1>2

\* A touch leaves a row in place and no older.
LEMMA TouchRow ==
  ASSUME Shape, RowsWhole, NEW b \in Digests, NEW at \in Int, Present(b)
  PROVE  /\ Touch(b, at) \in [Digests -> Rows]
         /\ \A c \in Digests :
              /\ Touch(b, at)[c].id = rows[c].id
              /\ Touch(b, at)[c].touched >= rows[c].touched
              /\ Touch(b, at)[c] # NoRow <=> Present(c)
         /\ Touch(b, at)[b].touched >= at
<1> DEFINE m == Max({rows[b].touched, at})
<1>1. rows \in [Digests -> Rows] /\ rows[b] \in Rows /\ made \in Nat
  BY DEF Shape
<1>2. m \in Int /\ m >= rows[b].touched /\ m >= at
  BY <1>1, MaxOfTwo DEF Rows
<1>3. Touch(b, at) = [rows EXCEPT ![b] = [rows[b] EXCEPT !.touched = m]]
  BY Zenon DEF Touch
<1> HIDE DEF m
<1> DEFINE n == [rows[b] EXCEPT !.touched = m]
<1>4. n \in Rows /\ n.touched = m /\ n.id = rows[b].id
  BY <1>1, <1>2 DEF Rows
<1>5. n # NoRow
  BY <1>1, <1>4 DEF RowsWhole, NoRow
<1> HIDE DEF n
<1>6. /\ Touch(b, at) \in [Digests -> Rows] /\ Touch(b, at)[b] = n
      /\ \A c \in Digests \ {b} : Touch(b, at)[c] = rows[c]
  BY <1>1, <1>3, <1>4 DEF n
<1>7. \A c \in Digests : rows[c].touched >= rows[c].touched
  BY <1>1 DEF Rows
<1>8. QED
  BY <1>2, <1>4, <1>5, <1>6, <1>7 DEF Present

LEMMA UpsertRow ==
  ASSUME Shape, RowsWhole, NEW b \in Digests, NEW at \in Int, NEW id \in Nat \ {0}
  PROVE  LET R == Upsert(b, id, at) IN
         /\ R \in [Digests -> Rows]
         /\ \A c \in Digests : Present(c) =>
              R[c] # NoRow /\ R[c].id = rows[c].id /\ R[c].touched >= rows[c].touched
         /\ \A c \in Digests \ {b} : ~Present(c) => R[c] = rows[c]
         /\ ~Present(b) => R[b].id = id
         /\ R[b] # NoRow /\ R[b].touched >= at
<1>1. CASE Present(b)
  <2>1. Upsert(b, id, at) = Touch(b, at)
    BY <1>1 DEF Upsert
  <2>2. \A c \in Digests \ {b} : Touch(b, at)[c] = rows[c]
    BY DEF Touch, Shape
  <2>3. QED
    BY <1>1, <2>1, <2>2, TouchRow
<1>2. CASE ~Present(b)
  <2> DEFINE n == [touched |-> at, id |-> id]
  <2>1. n \in Rows /\ n # NoRow /\ n.touched = at /\ n.id = id
    BY DEF Rows, NoRow
  <2>2. Upsert(b, id, at) = [rows EXCEPT ![b] = n]
    BY <1>2 DEF Upsert
  <2> HIDE DEF n
  <2>3. \A c \in Digests : rows[c].touched >= rows[c].touched
    BY DEF Shape, Rows
  <2>4. QED
    BY <1>2, <2>1, <2>2, <2>3 DEF Shape, Present
<1>3. QED
  BY <1>1, <1>2

\* What storing or touching content does to the catalog and to what holds it.
LEMMA UpsertKeeps ==
  ASSUME BlobInv, NEW b \in Digests, NEW at \in Int, NEW id \in Nat \ {0},
         rows' = Upsert(b, id, at), objects' = objects, made' \in Nat, made' >= made,
         UNCHANGED <<now, roots, edges, sweeper>>,
         \/ Present(b)
         \/ /\ id \in 1..made' /\ (b \in Large => id \in objects)
            /\ \A c \in Digests : rows[c].id # id
            /\ \A s \in Sweepers : id \notin sweeper[s].keys
  PROVE  /\ rows' \in [Digests -> Rows] /\ RowsWhole' /\ DoomedUnused' /\ CutoffPast' /\ HeldPresent'
         /\ \A c \in Digests, t \in Int : Good(c, t) => Good(c, t)'
         /\ Good(b, at)'
         /\ \A c \in Digests : rows'[c].id = rows[c].id \/ (c = b /\ ~Present(b) /\ rows'[c].id = id)
<1>1. /\ rows \in [Digests -> Rows] /\ made \in Nat /\ now \in Nat /\ Grace \in Nat
      /\ roots \subseteq Digests /\ \A e \in edges : e[1] \in Digests /\ e[2] \in Digests
  BY BlobAssumption DEF BlobInv, Shape, BlobAssumption
<1>2. /\ rows' \in [Digests -> Rows]
      /\ \A c \in Digests : Present(c) =>
           rows'[c] # NoRow /\ rows'[c].id = rows[c].id /\ rows'[c].touched >= rows[c].touched
      /\ \A c \in Digests \ {b} : ~Present(c) => rows'[c] = rows[c]
      /\ ~Present(b) => rows'[b].id = id
      /\ rows'[b] # NoRow /\ rows'[b].touched >= at
  BY UpsertRow DEF BlobInv
<1>3. \A c \in Digests : rows'[c].id = rows[c].id \/ (c = b /\ ~Present(b) /\ rows'[c].id = id)
  BY <1>2
<1>4. RowsWhole'
  <2>1. SUFFICES ASSUME NEW c \in Digests, rows'[c] # NoRow
                 PROVE  /\ rows'[c].id \in 1..made'
                        /\ c \in Large => rows'[c].id \in objects'
                        /\ \A d \in Digests : rows'[d].id = rows'[c].id => d = c
    BY DEF RowsWhole, Present
  <2>2. CASE Present(c)
    <3>1. /\ rows[c].id \in 1..made /\ (c \in Large => rows[c].id \in objects)
          /\ \A d \in Digests : rows[d].id = rows[c].id => d = c
      BY <2>2 DEF BlobInv, RowsWhole
    <3>2. rows'[c].id = rows[c].id
      BY <1>2, <2>2
    <3>3. QED
      BY <1>1, <1>3, <2>2, <3>1, <3>2
  <2>3. CASE ~Present(c)
    <3>1. c = b /\ rows'[c].id = id
      BY <1>2, <2>1, <2>3 DEF Present
    <3>2. QED
      BY <1>2, <1>3, <2>3, <3>1
  <2>4. QED
    BY <2>2, <2>3
<1>5. DoomedUnused'
  <2>1. ASSUME NEW s \in Sweepers
        PROVE  /\ sweeper'[s].keys \subseteq 0..made'
               /\ \A c \in Digests : rows'[c] # NoRow => rows'[c].id \notin sweeper'[s].keys
    <3>1. /\ sweeper[s].keys \subseteq 0..made
          /\ \A c \in Digests : Present(c) => rows[c].id \notin sweeper[s].keys
      BY DEF BlobInv, DoomedUnused
    <3>2. 0..made \subseteq 0..made'
      BY <1>1
    <3>3. ASSUME NEW c \in Digests, rows'[c] # NoRow PROVE rows'[c].id \notin sweeper'[s].keys
      <4>1. CASE Present(c)
        BY <1>2, <3>1, <4>1
      <4>2. CASE ~Present(c)
        BY <1>2, <3>3, <4>2 DEF Present
      <4>3. QED
        BY <4>1, <4>2
    <3>4. QED
      BY <3>1, <3>2, <3>3
  <2>2. QED
    BY <2>1 DEF DoomedUnused, Present
<1>6. CutoffPast' /\ HeldPresent'
  BY <1>1, <1>2 DEF BlobInv, CutoffPast, HeldPresent, Present
<1>7. ASSUME NEW c \in Digests, NEW t \in Int, Good(c, t) PROVE Good(c, t)'
  <2>1. Present(c) => rows[c].touched \in Int /\ rows'[c].touched \in Int
    BY <1>1, <1>2 DEF Rows
  <2>2. QED
    BY <1>1, <1>2, <1>7, <2>1 DEF Good, Present
<1>8. Good(b, at)'
  BY <1>2 DEF Good, Present
<1>9. QED
  BY <1>2, <1>3, <1>4, <1>5, <1>6, <1>7, <1>8

\* A writer moves on to a state in which it has no upload.
LEMMA WriterMoves ==
  ASSUME BlobInv, NEW w \in Writers, NEW n \in Puts,
         n.st \in {"idle", "put", "insert", "upload", "stream", "retain"},
         n.st # "idle" => n.blob \in Digests, n.st = "insert" => n.blob \notin Large,
         writer' = [writer EXCEPT ![w] = n],
         UNCHANGED <<now, store, holds, granted, sweeping>>
  PROVE  BlobInv'
<1>1. UNCHANGED <<now, rows, objects, made, roots, edges, granted, sweeper>>
  BY DEF store, holds, sweeping
<1>2. writer \in [Writers -> Puts]
  BY DEF BlobInv, Shape
<1>3. writer'[w] = n /\ \A v \in Writers \ {w} : writer'[v] = writer[v]
  BY <1>2
<1>4. Shape'
  BY <1>1, <1>2, <1>3 DEF BlobInv, Shape
<1>5. RowsWhole' /\ DoomedUnused' /\ CutoffPast' /\ HeldPresent'
  BY <1>1 DEF BlobInv, RowsWhole, DoomedUnused, CutoffPast, HeldPresent, Present
<1>6. UploadsOwned'
  <2>1. \A v \in Writers : Uploaded(v)' => v # w /\ Uploaded(v) /\ writer'[v] = writer[v]
    BY <1>3 DEF Uploaded
  <2>2. QED
    BY <1>1, <2>1 DEF BlobInv, UploadsOwned
<1>7. FreshGood'
  <2>1. \A v \in Writers : writer'[v].st = "lost" => v # w /\ writer'[v] = writer[v]
    BY <1>3
  <2>2. QED
    BY <1>1, <2>1 DEF BlobInv, FreshGood, Good, Present
<1>8. QED
  BY <1>4, <1>5, <1>6, <1>7 DEF BlobInv

\* A writer is given a reference that is good, and keeps no upload.
LEMMA GrantKeeps ==
  ASSUME BlobInv, NEW w \in Writers, NEW b \in Digests, NEW at \in Int, Grants(w, b, at),
         UNCHANGED <<now, roots, edges, sweeper>>, made' \in Nat, made' >= made,
         rows' \in [Digests -> Rows], RowsWhole', DoomedUnused', CutoffPast', HeldPresent',
         \A c \in Digests, t \in Int : Good(c, t) => Good(c, t)', Good(b, at)',
         \A v \in Writers \ {w} : Uploaded(v) =>
           /\ writer[v].st # "lost" => writer[v].key \in objects'
           /\ \A c \in Digests : rows'[c].id # writer[v].key
  PROVE  BlobInv'
<1>1. writer \in [Writers -> Puts] /\ granted \in [Writers -> [Digests -> Int]] /\ made \in Nat
  BY DEF BlobInv, Shape
<1>2. Idle \in Puts /\ Idle.st = "idle"
  BY DEF Idle, Puts
<1>3. writer'[w] = Idle /\ \A v \in Writers \ {w} : writer'[v] = writer[v]
  BY <1>1 DEF Grants
<1>4. writer' \in [Writers -> Puts]
  BY <1>1, <1>2 DEF Grants
<1>5. granted' = [granted EXCEPT ![w] = [granted[w] EXCEPT ![b] = at]]
  BY Zenon DEF Grants
<1>6. /\ granted' \in [Writers -> [Digests -> Int]]
      /\ \A v \in Writers, c \in Digests :
           granted'[v][c] = IF v = w /\ c = b THEN at ELSE granted[v][c]
  <2>1. [granted[w] EXCEPT ![b] = at] \in [Digests -> Int]
    BY <1>1
  <2>2. QED
    BY <1>1, <1>5, <2>1
<1>7. Shape'
  BY <1>2, <1>3, <1>4, <1>6 DEF BlobInv, Shape
<1>8. UploadsOwned'
  <2>1. ASSUME NEW v \in Writers, Uploaded(v)'
        PROVE  v # w /\ Uploaded(v) /\ writer'[v] = writer[v]
    BY <1>2, <1>3, <2>1 DEF Uploaded
  <2>2. 1..made \subseteq 1..made'
    BY <1>1
  <2>3. QED
    BY <2>1, <2>2 DEF BlobInv, UploadsOwned
<1>9. FreshGood'
  <2>1. ASSUME NEW v \in Writers, NEW c \in Digests, granted'[v][c] # Never
        PROVE  Good(c, granted[v][c])'
    <3>1. CASE v = w /\ c = b
      BY <1>6, <3>1 DEF Good, Present
    <3>2. CASE ~(v = w /\ c = b)
      <4>1. granted'[v][c] = granted[v][c] /\ granted[v][c] \in Int
        BY <1>1, <1>6, <3>2
      <4>2. Good(c, granted[v][c])
        BY <2>1, <4>1 DEF BlobInv, FreshGood
      <4>3. QED
        BY <4>1, <4>2 DEF Good, Present
    <3>3. QED
      BY <3>1, <3>2
  <2>2. ASSUME NEW v \in Writers, writer'[v].st = "lost" PROVE Good(writer[v].blob, writer[v].at)'
    <3>1. v # w /\ writer'[v] = writer[v]
      BY <1>2, <1>3, <2>2
    <3>2. writer[v].blob \in Digests /\ writer[v].at \in Int
      BY <1>1, <2>2, <3>1 DEF BlobInv, Shape, Puts
    <3>3. Good(writer[v].blob, writer[v].at)
      BY <2>2, <3>1 DEF BlobInv, FreshGood
    <3>4. QED
      BY <3>1, <3>2, <3>3 DEF Good, Present
  <2>3. QED
    BY <2>1, <2>2 DEF FreshGood
<1>10. QED
  BY <1>7, <1>8, <1>9 DEF BlobInv

LEMMA TouchGrants ==
  ASSUME BlobInv, NEW w \in Writers, NEW b \in Digests, NEW at \in Int, Present(b),
         rows' = Touch(b, at), Grants(w, b, at), UNCHANGED <<now, objects, made, holds, sweeping>>
  PROVE  BlobInv'
<1>1. UNCHANGED <<now, objects, made, roots, edges, sweeper>> /\ made \in Nat
  BY DEF holds, sweeping, BlobInv, Shape
<1>2. rows' = Upsert(b, 1, at) /\ made' >= made /\ 1 \in Nat \ {0}
  BY <1>1 DEF Upsert
<1>3. /\ rows' \in [Digests -> Rows] /\ RowsWhole' /\ DoomedUnused' /\ CutoffPast' /\ HeldPresent'
      /\ \A c \in Digests, t \in Int : Good(c, t) => Good(c, t)'
      /\ Good(b, at)'
      /\ \A c \in Digests : rows'[c].id = rows[c].id
  BY <1>1, <1>2, UpsertKeeps
<1>4. \A v \in Writers : Uploaded(v) =>
        /\ writer[v].st # "lost" => writer[v].key \in objects'
        /\ \A c \in Digests : rows'[c].id # writer[v].key
  BY <1>1, <1>3 DEF BlobInv, UploadsOwned
<1>5. QED
  BY <1>1, <1>2, <1>3, <1>4, GrantKeeps

LEMMA PutTouchesKeeps ==
  ASSUME BlobInv, NEW w \in Writers, PutTouches(w)
  PROVE  BlobInv'
<1> DEFINE b == writer[w].blob
<1>1. writer[w] \in Puts /\ b \in Digests /\ writer[w].at \in Int
  BY DEF BlobInv, Shape, Puts, PutTouches
<1>2. CASE Present(b)
  BY <1>1, <1>2, TouchGrants DEF PutTouches
<1>3. CASE ~Present(b)
  <2> DEFINE st == IF b \in Large THEN "upload" ELSE "insert"
             n == [writer[w] EXCEPT !.st = st]
  <2>1. n \in Puts /\ n.st \in {"upload", "insert"} /\ n.blob = b
        /\ (n.st = "insert" => n.blob \notin Large)
    BY <1>1 DEF Puts
  <2>2. writer' = [writer EXCEPT ![w] = n]
    BY <1>3, Zenon DEF PutTouches
  <2>3. UNCHANGED <<now, store, holds, granted, sweeping>>
    BY <1>3 DEF PutTouches, store
  <2> HIDE DEF n
  <2>4. QED
    BY <1>1, <2>1, <2>2, <2>3, WriterMoves
<1>4. QED
  BY <1>2, <1>3

LEMMA RetainKeeps ==
  ASSUME BlobInv, NEW w \in Writers, Retain(w)
  PROVE  BlobInv'
<1> DEFINE b == writer[w].blob
<1>1. b \in Digests /\ now \in Int
  BY DEF BlobInv, Shape, Retain
<1>2. CASE Present(b)
  BY <1>1, <1>2, TouchGrants DEF Retain
<1>3. CASE ~Present(b)
  <2>1. Idle \in Puts /\ Idle.st = "idle"
    BY DEF Idle, Puts
  <2>2. writer' = [writer EXCEPT ![w] = Idle] /\ UNCHANGED <<now, store, holds, granted, sweeping>>
    BY <1>3 DEF Retain, store
  <2>3. QED
    BY <2>1, <2>2, WriterMoves
<1>4. QED
  BY <1>2, <1>3

\* The next incarnation is nobody's.
LEMMA FreshIds ==
  ASSUME BlobInv
  PROVE  \A c \in Digests : rows[c].id # made + 1
<1>1. made \in Nat /\ NoRow.id = 0
  BY DEF BlobInv, Shape, NoRow
<1>2. \A c \in Digests : rows[c] = NoRow \/ rows[c].id \in 1..made
  BY DEF BlobInv, RowsWhole, Present
<1>3. QED
  BY <1>1, <1>2

LEMMA PutInlineKeeps ==
  ASSUME BlobInv, NEW w \in Writers, PutInline(w)
  PROVE  BlobInv'
<1>0. PICK b \in Digests, at \in Int, id \in Nat \ {0} :
        b = writer[w].blob /\ at = writer[w].at /\ id = made + 1
  <2>1. writer[w].blob \in Digests /\ writer[w].at \in Int /\ made + 1 \in Nat \ {0}
    <3>1. writer[w] \in Puts /\ made \in Nat /\ writer[w].blob \in Digests
      BY DEF BlobInv, Shape, PutInline
    <3>2. writer[w].at \in Int
      BY <3>1 DEF Puts
    <3>3. QED
      BY <3>1, <3>2
  <2>2. QED
    BY <2>1, Zenon
<1>1. made \in Nat /\ b \notin Large
  BY <1>0 DEF BlobInv, Shape, PutInline
<1>2. /\ made' = id /\ rows' = Upsert(b, id, at) /\ Grants(w, b, at)
      /\ UNCHANGED <<now, objects, roots, edges, sweeper>>
  BY <1>0 DEF PutInline, holds, sweeping
<1>3. \A c \in Digests : rows[c].id # id
  BY <1>0, FreshIds
<1>4. \A s \in Sweepers : id \notin sweeper[s].keys
  BY <1>0, <1>1 DEF BlobInv, DoomedUnused
<1>5. id \in 1..made' /\ made' \in Nat /\ made' >= made
  BY <1>0, <1>1, <1>2
<1>6. /\ rows' \in [Digests -> Rows] /\ RowsWhole' /\ DoomedUnused' /\ CutoffPast' /\ HeldPresent'
      /\ \A c \in Digests, t \in Int : Good(c, t) => Good(c, t)'
      /\ Good(b, at)'
      /\ \A c \in Digests : rows'[c].id = rows[c].id \/ rows'[c].id = id
  BY <1>1, <1>2, <1>3, <1>4, <1>5, UpsertKeeps
<1>7. \A v \in Writers : Uploaded(v) =>
        /\ writer[v].st # "lost" => writer[v].key \in objects'
        /\ \A c \in Digests : rows'[c].id # writer[v].key
  BY <1>0, <1>1, <1>2, <1>6 DEF BlobInv, UploadsOwned
<1>8. QED
  BY <1>1, <1>2, <1>5, <1>6, <1>7, GrantKeeps

LEMMA UploadKeeps ==
  ASSUME BlobInv, NEW w \in Writers, Upload(w)
  PROVE  BlobInv'
<1> DEFINE st == IF writer[w].st = "stream" THEN "publish now" ELSE "publish"
           n == [writer[w] EXCEPT !.key = made + 1, !.st = st]
<1>1. /\ writer \in [Writers -> Puts] /\ writer[w] \in Puts /\ made \in Nat
      /\ writer[w].blob \in Digests
  BY DEF BlobInv, Shape, Upload
<1>2. /\ n \in Puts /\ n.st \in {"publish", "publish now"} /\ n.key = made + 1
      /\ n.blob = writer[w].blob
  <2>1. st \in {"publish", "publish now"} /\ made + 1 \in Nat
    BY <1>1
  <2> HIDE DEF st
  <2>2. QED
    BY <1>1, <2>1 DEF Puts
<1>3. /\ writer' = [writer EXCEPT ![w] = n] /\ made' = made + 1
      /\ objects' = objects \cup {made + 1}
  BY Zenon DEF Upload, UploadKey
<1>4. UNCHANGED <<now, rows, roots, edges, granted, sweeper>>
  BY DEF Upload, holds, sweeping
<1> HIDE DEF n
<1>5. writer'[w] = n /\ (\A v \in Writers \ {w} : writer'[v] = writer[v]) /\ writer' \in [Writers -> Puts]
  BY <1>1, <1>2, <1>3
<1>6. /\ 1..made \subseteq 1..made' /\ made + 1 \in 1..made' /\ made + 1 \notin 1..made
      /\ made' \in Nat
  BY <1>1, <1>3
<1>7. Shape'
  BY <1>1, <1>2, <1>4, <1>5, <1>6 DEF BlobInv, Shape
<1>8. RowsWhole' /\ DoomedUnused' /\ CutoffPast' /\ HeldPresent'
  BY <1>3, <1>4, <1>6 DEF BlobInv, RowsWhole, DoomedUnused, CutoffPast, HeldPresent, Present
<1>9. UploadsOwned'
  <2>1. \A c \in Digests : rows[c].id # made + 1
    BY FreshIds
  <2>2. \A s \in Sweepers : made + 1 \notin sweeper[s].keys
    BY <1>6 DEF BlobInv, DoomedUnused
  <2>3. \A v \in Writers \ {w} : Uploaded(v)' => Uploaded(v) /\ writer[v].key # made + 1
    BY <1>5, <1>6 DEF BlobInv, UploadsOwned, Uploaded
  <2>4. ASSUME NEW v \in Writers, Uploaded(v)'
        PROVE  /\ writer'[v].key \in 1..made'
               /\ writer'[v].st # "lost" => writer'[v].key \in objects'
               /\ \A c \in Digests : rows'[c].id # writer'[v].key
               /\ \A x \in Writers : Uploaded(x)' /\ writer'[x].key = writer'[v].key => x = v
               /\ \A s \in Sweepers : writer'[v].key \notin sweeper'[s].keys
    <3>1. CASE v = w
      BY <1>2, <1>3, <1>4, <1>5, <1>6, <2>1, <2>2, <2>3, <3>1
    <3>2. CASE v # w
      <4>1. Uploaded(v) /\ writer'[v] = writer[v] /\ writer[v].key # made + 1
        BY <1>5, <2>3, <2>4, <3>2
      <4>2. \A x \in Writers : Uploaded(x)' /\ writer'[x].key = writer[v].key => x = v
        BY <1>2, <1>5, <2>3, <4>1 DEF BlobInv, UploadsOwned
      <4>3. QED
        BY <1>3, <1>4, <1>6, <4>1, <4>2 DEF BlobInv, UploadsOwned
    <3>3. QED
      BY <3>1, <3>2
  <2>5. QED
    BY <2>4 DEF UploadsOwned
<1>10. FreshGood'
  <2>1. \A v \in Writers : writer'[v].st = "lost" => v # w /\ writer'[v] = writer[v]
    BY <1>2, <1>5
  <2>2. QED
    BY <1>4, <2>1 DEF BlobInv, FreshGood, Good, Present
<1>11. QED
  BY <1>7, <1>8, <1>9, <1>10 DEF BlobInv

LEMMA PublishKeeps ==
  ASSUME BlobInv, NEW w \in Writers, Publish(w)
  PROVE  BlobInv'
<1>1. /\ writer \in [Writers -> Puts] /\ writer[w] \in Puts /\ made \in Nat /\ now \in Nat
      /\ writer[w].blob \in Digests
  BY DEF BlobInv, Shape, Publish
<1>0. PICK b \in Digests, at \in Int, id \in Nat :
        /\ b = writer[w].blob /\ id = writer[w].key
        /\ at = IF writer[w].st = "publish now" THEN now ELSE writer[w].at
  <2>1. writer[w].key \in Nat /\ (IF writer[w].st = "publish now" THEN now ELSE writer[w].at) \in Int
    <3>1. writer[w].key \in Nat /\ writer[w].at \in Int
      BY <1>1 DEF Puts
    <3>2. now \in Int
      BY <1>1
    <3>3. QED
      BY <3>1, <3>2, Zenon
  <2>2. QED
    BY <1>1, <2>1, Zenon
<1>2. Uploaded(w) /\ writer[w].st # "lost"
  BY DEF Publish, Uploaded
<1>3. /\ id \in 1..made /\ id \in objects
      /\ \A c \in Digests : rows[c].id # id
      /\ \A v \in Writers : Uploaded(v) /\ writer[v].key = id => v = w
      /\ \A s \in Sweepers : id \notin sweeper[s].keys
  BY <1>0, <1>2 DEF BlobInv, UploadsOwned
<1>4. /\ rows' = Upsert(b, id, at)
      /\ UNCHANGED <<now, objects, made, roots, edges, sweeper>>
      /\ IF rows'[b].id = id THEN Grants(w, b, at)
         ELSE /\ writer' = [writer EXCEPT ![w].st = "lost", ![w].at = at] /\ UNCHANGED granted
  BY <1>0 DEF Publish, holds, sweeping
<1>5. id \in Nat \ {0} /\ made' \in Nat /\ made' >= made
  BY <1>1, <1>3, <1>4
<1>6. /\ rows' \in [Digests -> Rows] /\ RowsWhole' /\ DoomedUnused' /\ CutoffPast' /\ HeldPresent'
      /\ \A c \in Digests, t \in Int : Good(c, t) => Good(c, t)'
      /\ Good(b, at)'
      /\ \A c \in Digests : rows'[c].id = rows[c].id \/ (c = b /\ rows'[c].id = id)
  BY <1>3, <1>4, <1>5, UpsertKeeps
<1>7. \A v \in Writers \ {w} : Uploaded(v) =>
        /\ writer[v].st # "lost" => writer[v].key \in objects'
        /\ \A c \in Digests : rows'[c].id # writer[v].key
  BY <1>3, <1>4, <1>6 DEF BlobInv, UploadsOwned
<1>8. CASE rows'[b].id = id
  BY <1>4, <1>5, <1>6, <1>7, <1>8, GrantKeeps
<1>9. CASE rows'[b].id # id
  <2> DEFINE n == [writer[w] EXCEPT !.st = "lost", !.at = at]
  <2>1. n \in Puts /\ n.st = "lost" /\ n.at = at /\ n.blob = b /\ n.key = id
    BY <1>0, <1>1 DEF Puts
  <2>2. writer' = [writer EXCEPT ![w] = n] /\ UNCHANGED granted
    BY <1>4, <1>9, Zenon
  <2> HIDE DEF n
  <2>3. /\ writer'[w] = n /\ (\A v \in Writers \ {w} : writer'[v] = writer[v])
        /\ writer' \in [Writers -> Puts]
    BY <1>1, <2>1, <2>2
  <2>4. Shape'
    BY <1>1, <1>4, <1>6, <2>1, <2>2, <2>3 DEF BlobInv, Shape
  <2>5. \A c \in Digests : rows'[c].id # id
    BY <1>3, <1>6, <1>9
  <2>6. UploadsOwned'
    <3>1. \A v \in Writers : Uploaded(v)' => Uploaded(v) /\ writer'[v].key = writer[v].key
      BY <1>0, <1>2, <2>1, <2>3 DEF Uploaded
    <3>2. ASSUME NEW v \in Writers, Uploaded(v)'
          PROVE  /\ writer'[v].key \in 1..made'
                 /\ writer'[v].st # "lost" => writer'[v].key \in objects'
                 /\ \A c \in Digests : rows'[c].id # writer'[v].key
                 /\ \A x \in Writers : Uploaded(x)' /\ writer'[x].key = writer'[v].key => x = v
                 /\ \A s \in Sweepers : writer'[v].key \notin sweeper'[s].keys
      <4>1. CASE v = w
        BY <1>3, <1>4, <2>1, <2>3, <2>5, <3>1, <4>1
      <4>2. CASE v # w
        BY <1>4, <1>7, <2>3, <3>1, <3>2, <4>2 DEF BlobInv, UploadsOwned
      <4>3. QED
        BY <4>1, <4>2
    <3>3. QED
      BY <3>2 DEF UploadsOwned
  <2>7. FreshGood'
    <3>1. ASSUME NEW v \in Writers, NEW c \in Digests, granted'[v][c] # Never
          PROVE  Good(c, granted[v][c])'
      <4>1. Good(c, granted[v][c]) /\ granted[v][c] \in Int /\ granted' = granted
        BY <2>2, <3>1 DEF BlobInv, FreshGood, Shape
      <4>2. QED
        BY <1>6, <4>1 DEF Good, Present
    <3>2. ASSUME NEW v \in Writers, writer'[v].st = "lost"
          PROVE  Good(writer[v].blob, writer[v].at)'
      <4>1. CASE v = w
        BY <1>6, <2>1, <2>3, <4>1 DEF Good, Present
      <4>2. CASE v # w
        <5>1. writer'[v] = writer[v] /\ writer[v].blob \in Digests /\ writer[v].at \in Int
          BY <1>1, <2>3, <3>2, <4>2 DEF BlobInv, Shape, Puts
        <5>2. Good(writer[v].blob, writer[v].at)
          BY <3>2, <5>1 DEF BlobInv, FreshGood
        <5>3. QED
          BY <1>6, <5>1, <5>2 DEF Good, Present
      <4>3. QED
        BY <4>1, <4>2
    <3>3. QED
      BY <3>1, <3>2 DEF FreshGood
  <2>8. QED
    BY <1>6, <2>4, <2>6, <2>7 DEF BlobInv
<1>10. QED
  BY <1>8, <1>9

LEMMA RemoveUnusedKeeps ==
  ASSUME BlobInv, NEW w \in Writers, RemoveUnused(w)
  PROVE  BlobInv'
<1>0. PICK b \in Digests, at \in Int : b = writer[w].blob /\ at = writer[w].at
  BY DEF BlobInv, Shape, Puts, RemoveUnused
<1>1. made \in Nat /\ rows \in [Digests -> Rows]
  BY DEF BlobInv, Shape
<1>2. /\ Uploaded(w) /\ Grants(w, b, at) /\ Good(b, at)
      /\ UNCHANGED <<now, rows, made, roots, edges, sweeper>>
      /\ objects' = objects \/ objects' = objects \ {writer[w].key}
  BY <1>0 DEF RemoveUnused, Uploaded, holds, sweeping, BlobInv, FreshGood
<1>3. /\ \A c \in Digests : rows[c].id # writer[w].key
      /\ \A v \in Writers : Uploaded(v) /\ writer[v].key = writer[w].key => v = w
  BY <1>2 DEF BlobInv, UploadsOwned
<1>4. RowsWhole'
  BY <1>2, <1>3 DEF BlobInv, RowsWhole, Present
<1>5. DoomedUnused' /\ CutoffPast' /\ HeldPresent'
  BY <1>2 DEF BlobInv, DoomedUnused, CutoffPast, HeldPresent, Present
<1>6. \A v \in Writers \ {w} : Uploaded(v) =>
        /\ writer[v].st # "lost" => writer[v].key \in objects'
        /\ \A c \in Digests : rows'[c].id # writer[v].key
  BY <1>2, <1>3 DEF BlobInv, UploadsOwned
<1>7. (\A c \in Digests, t \in Int : Good(c, t) => Good(c, t)') /\ Good(b, at)'
  BY <1>2 DEF Good, Present
<1>8. made' \in Nat /\ made' >= made /\ rows' \in [Digests -> Rows]
  BY <1>1, <1>2
<1>9. QED
  BY <1>1, <1>2, <1>4, <1>5, <1>6, <1>7, <1>8, GrantKeeps

LEMMA WriterKeeps ==
  ASSUME BlobInv, NEW w \in Writers, WriterStep(w)
  PROVE  BlobInv'
<1>1. Idle \in Puts /\ Idle.st = "idle"
  BY DEF Idle, Puts
<1>2. ASSUME NEW b \in Digests, PutBegins(w, b) \/ StreamBegins(w, b) \/ RetainBegins(w, b)
      PROVE  BlobInv'
  <2>1. PICK n \in Puts :
          /\ n.st \in {"put", "retain", "stream"} /\ n.blob = b
          /\ writer' = [writer EXCEPT ![w] = n]
          /\ UNCHANGED <<now, store, holds, granted, sweeping>>
    <3>0. PICK r \in Puts : r = Idle
      BY <1>1
    <3>1. CASE PutBegins(w, b)
      <4> DEFINE n == [r EXCEPT !.st = "put", !.blob = b, !.at = now]
      <4>1. n \in Puts /\ n.st = "put" /\ n.blob = b
        <5>1. now \in Int
          BY DEF BlobInv, Shape
        <5>2. QED
          BY <5>1 DEF Puts
      <4>2. writer' = [writer EXCEPT ![w] = n] /\ UNCHANGED <<now, store, holds, granted, sweeping>>
        BY <3>0, <3>1 DEF PutBegins
      <4> HIDE DEF n
      <4>3. QED
        BY <4>1, <4>2
    <3>2. CASE StreamBegins(w, b) /\ ~Present(b)
      <4> DEFINE n == [r EXCEPT !.st = "stream", !.blob = b]
      <4>1. n \in Puts /\ n.st = "stream" /\ n.blob = b
        BY DEF Puts
      <4>2. writer' = [writer EXCEPT ![w] = n] /\ UNCHANGED <<now, store, holds, granted, sweeping>>
        BY <3>0, <3>2 DEF StreamBegins
      <4> HIDE DEF n
      <4>3. QED
        BY <4>1, <4>2
    <3>3. CASE RetainBegins(w, b) \/ (StreamBegins(w, b) /\ Present(b))
      <4> DEFINE n == [r EXCEPT !.st = "retain", !.blob = b]
      <4>1. n \in Puts /\ n.st = "retain" /\ n.blob = b
        BY DEF Puts
      <4>2. writer' = [writer EXCEPT ![w] = n] /\ UNCHANGED <<now, store, holds, granted, sweeping>>
        BY <3>0, <3>3 DEF StreamBegins, RetainBegins
      <4> HIDE DEF n
      <4>3. QED
        BY <4>1, <4>2
    <3>4. QED
      BY <1>2, <3>1, <3>2, <3>3
  <2>2. QED
    BY <2>1, WriterMoves
<1>3. CASE PutFails(w)
  BY <1>1, <1>3, WriterMoves DEF PutFails
<1>4. ASSUME NEW e \in Contains, RecordEdge(w, e) PROVE BlobInv'
  <2>1. /\ UNCHANGED <<now, rows, objects, made, roots, writer, granted, sweeper>>
        /\ edges' = edges \cup {e} /\ Present(e[1]) /\ Present(e[2])
    BY <1>4 DEF RecordEdge, store, writing, sweeping
  <2>2. Shape' /\ HeldPresent'
    BY <2>1 DEF BlobInv, Shape, HeldPresent, Present
  <2>3. RowsWhole' /\ UploadsOwned' /\ DoomedUnused' /\ CutoffPast' /\ FreshGood'
    BY <2>1 DEF BlobInv, RowsWhole, UploadsOwned, Uploaded, DoomedUnused, CutoffPast, FreshGood,
                Good, Present
  <2>4. QED
    BY <2>2, <2>3 DEF BlobInv
<1>5. ASSUME NEW b \in Digests, Attach(w, b) PROVE BlobInv'
  <2>1. /\ UNCHANGED <<now, rows, objects, made, edges, writer, sweeper>>
        /\ roots' = IF Present(b) THEN roots \cup {b} ELSE roots
    BY <1>5 DEF Attach, store, sweeping
  <2>2. granted' = [granted EXCEPT ![w] = [granted[w] EXCEPT ![b] = Never]]
    BY <1>5, Zenon DEF Attach
  <2>3. granted \in [Writers -> [Digests -> Int]] /\ Never \in Int
    BY DEF BlobInv, Shape, Never
  <2>4. /\ granted' \in [Writers -> [Digests -> Int]]
        /\ \A v \in Writers, c \in Digests :
             granted'[v][c] = Never \/ granted'[v][c] = granted[v][c]
    <3>1. [granted[w] EXCEPT ![b] = Never] \in [Digests -> Int]
      BY <2>3
    <3>2. QED
      BY <2>2, <2>3, <3>1
  <2>5. Shape' /\ HeldPresent'
    BY <2>1, <2>4 DEF BlobInv, Shape, HeldPresent, Present
  <2>6. RowsWhole' /\ UploadsOwned' /\ DoomedUnused' /\ CutoffPast'
    BY <2>1 DEF BlobInv, RowsWhole, UploadsOwned, Uploaded, DoomedUnused, CutoffPast, Present
  <2>7. FreshGood'
    BY <2>1, <2>4 DEF BlobInv, FreshGood, Good, Present
  <2>8. QED
    BY <2>5, <2>6, <2>7 DEF BlobInv
<1>6. QED
  BY <1>2, <1>3, <1>4, <1>5, PutTouchesKeeps, RetainKeeps, PutInlineKeeps, UploadKeeps,
     PublishKeeps, RemoveUnusedKeeps DEF WriterStep

-----------------------------------------------------------------------------
(* The clock, and the steps of the collector.                              *)

LEMMA TickKeeps ==
  ASSUME BlobInv, Tick
  PROVE  BlobInv'
<1>1. /\ now' = now + 1 /\ now \in Nat /\ Grace \in Nat
      /\ UNCHANGED <<rows, objects, made, roots, edges, writer, granted, sweeper>>
  BY BlobAssumption DEF Tick, store, holds, writing, sweeping, BlobInv, Shape, BlobAssumption
<1>6. Shape'
  BY <1>1 DEF BlobInv, Shape
<1>2. RowsWhole' /\ UploadsOwned' /\ DoomedUnused' /\ HeldPresent'
  BY <1>1 DEF BlobInv, RowsWhole, UploadsOwned, Uploaded, DoomedUnused, HeldPresent, Present
<1>3. CutoffPast'
  <2>1. \A s \in Sweepers : sweeper[s].cutoff \in Int
    BY PassCutoff DEF BlobInv, Shape
  <2>2. QED
    BY <1>1, <2>1 DEF BlobInv, CutoffPast
<1>4. FreshGood'
  <2>1. \A c \in Digests, t \in Int : Good(c, t) => Good(c, t)'
    BY <1>1 DEF Good, Present
  <2>2. \A w \in Writers : writer[w].st = "lost" => writer[w].blob \in Digests /\ writer[w].at \in Int
    BY DEF BlobInv, Shape, Puts
  <2>3. \A w \in Writers, b \in Digests : granted[w][b] \in Int
    BY DEF BlobInv, Shape
  <2>4. QED
    BY <1>1, <2>1, <2>2, <2>3 DEF BlobInv, FreshGood, Good, Present
<1>5. QED
  BY <1>2, <1>3, <1>4, <1>6 DEF BlobInv

\* A sweeper moves on; it dooms nothing, and its cutoff stays in the past.
LEMMA SweeperMoves ==
  ASSUME BlobInv, NEW s \in Sweepers, NEW p, IsPass(p), p.keys \subseteq sweeper[s].keys,
         p.st # "idle" => p.cutoff <= now - Grace,
         sweeper' = [sweeper EXCEPT ![s] = p], UNCHANGED <<now, store, holds, writing>>
  PROVE  BlobInv'
<1>1. UNCHANGED <<now, rows, objects, made, roots, edges, writer, granted>>
  BY DEF store, holds, writing
<1>2. /\ sweeper'[s] = p /\ (\A q \in Sweepers \ {s} : sweeper'[q] = sweeper[q])
      /\ DOMAIN sweeper' = Sweepers /\ sweeper' = [q \in Sweepers |-> sweeper'[q]]
  BY DEF BlobInv, Shape
<1>3. Shape'
  BY <1>1, <1>2 DEF BlobInv, Shape
<1>4. RowsWhole' /\ HeldPresent' /\ FreshGood'
  BY <1>1 DEF BlobInv, RowsWhole, HeldPresent, FreshGood, Good, Present
<1>5. \A q \in Sweepers : sweeper'[q].keys \subseteq sweeper[q].keys
  BY <1>2
<1>6. UploadsOwned' /\ DoomedUnused'
  BY <1>1, <1>5 DEF BlobInv, UploadsOwned, Uploaded, DoomedUnused, Present
<1>7. CutoffPast'
  BY <1>1, <1>2 DEF BlobInv, CutoffPast
<1>8. QED
  BY <1>3, <1>4, <1>6, <1>7 DEF BlobInv

LEMMA DeleteRowsKeeps ==
  ASSUME BlobInv, NEW s \in Sweepers, DeleteRows(s)
  PROVE  BlobInv'
<1>1. /\ rows \in [Digests -> Rows] /\ made \in Nat /\ now \in Nat /\ Grace \in Nat
      /\ IsPass(sweeper[s]) /\ sweeper[s].cutoff \in Int /\ sweeper[s].cutoff <= now - Grace
  BY BlobAssumption, PassCutoff DEF BlobInv, Shape, CutoffPast, DeleteRows, BlobAssumption
<1>2. PICK gone : gone = StillVictims(s)
  OBVIOUS
<1>8. PICK q, A, B, C, D, E : q = sweeper[s] /\ q \in Pass(A, B, C, D, E)
  BY <1>1 DEF IsPass
<1>3. gone \subseteq Digests /\ \A b \in gone : rows[b].touched < sweeper[s].cutoff
  BY <1>2 DEF StillVictims
<1>4. UNCHANGED <<now, objects, made, roots, writer, granted>>
  BY DEF DeleteRows, writing
<1>5. CASE \E b \in gone : Held(b)
  <2> DEFINE p == [q EXCEPT !.victims = {}, !.keys = {}, !.st = "save"]
  <2>1. sweeper' = [sweeper EXCEPT ![s] = p] /\ UNCHANGED <<rows, edges>>
    <3>1. /\ UNCHANGED <<rows, edges>>
          /\ sweeper' = [sweeper EXCEPT ![s].victims = {}, ![s].keys = {}, ![s].st = "save"]
      BY <1>2, <1>5 DEF DeleteRows
    <3>2. QED
      BY <1>8, <3>1, Zenon
  <2>2. IsPass(p) /\ p.keys = {} /\ p.cutoff = sweeper[s].cutoff
    <3>1. p \in Pass(A \cup {"save"}, B, C, D, E \cup {{}}) /\ p.keys = {} /\ p.cutoff = q.cutoff
      BY <1>8 DEF Pass
    <3>2. QED
      BY <1>8, <3>1 DEF IsPass
  <2> HIDE DEF p
  <2>3. UNCHANGED <<now, store, holds, writing>>
    BY <1>4, <2>1 DEF store, holds, writing
  <2>4. QED
    BY <1>1, <2>1, <2>2, <2>3, SweeperMoves
<1>6. CASE \A b \in gone : ~Held(b)
  <2>1. PICK keys : keys = {rows[b].id : b \in gone \cap Large}
    OBVIOUS
  <2>2. PICK st : st = IF keys # {} THEN "objects" ELSE AfterPage(sweeper[s].more)
    OBVIOUS
  <2> DEFINE p == [q EXCEPT !.victims = {}, !.keys = keys, !.st = st]
  <2>3. /\ rows' = [b \in Digests |-> IF b \in gone THEN NoRow ELSE rows[b]]
        /\ edges' = {e \in edges : e[1] \notin gone}
        /\ sweeper' = [sweeper EXCEPT ![s] = p]
    <3>1. ~\E b \in gone : Held(b)
      BY <1>6
    <3>2. /\ rows' = [b \in Digests |-> IF b \in gone THEN NoRow ELSE rows[b]]
          /\ edges' = {e \in edges : e[1] \notin gone}
          /\ sweeper' = [sweeper EXCEPT ![s].victims = {}, ![s].keys = keys, ![s].st = st]
      BY <1>2, <2>1, <2>2, <3>1 DEF DeleteRows
    <3>3. QED
      BY <1>8, <3>2, Zenon
  <2>4. keys \subseteq 0..made
    <3>1. \A b \in Digests : rows[b] = NoRow \/ rows[b].id \in 1..made
      BY DEF BlobInv, RowsWhole, Present
    <3>2. \A b \in Digests : rows[b].id \in 0..made
      BY <1>1, <3>1 DEF NoRow
    <3>3. QED
      BY <1>3, <2>1, <3>2
  <2>5. IsPass(p) /\ p.keys = keys /\ p.cutoff = sweeper[s].cutoff
    <3>1. keys \in SUBSET Nat
      BY <1>1, <2>4
    <3>2. p \in Pass(A \cup {st}, B, C, D, E \cup {{}}) /\ p.keys = keys /\ p.cutoff = q.cutoff
      BY <1>8, <3>1 DEF Pass
    <3>3. QED
      BY <1>8, <3>2 DEF IsPass
  <2> HIDE DEF p
  <2>6. /\ sweeper'[s] = p /\ (\A z \in Sweepers \ {s} : sweeper'[z] = sweeper[z])
        /\ DOMAIN sweeper' = Sweepers /\ sweeper' = [z \in Sweepers |-> sweeper'[z]]
    BY <2>3 DEF BlobInv, Shape
  <2>7. /\ rows' \in [Digests -> Rows]
        /\ \A b \in gone : rows'[b] = NoRow
        /\ \A b \in Digests \ gone : rows'[b] = rows[b]
    BY <1>1, <1>3, <2>3 DEF NoRow, Rows
  <2>8. Shape'
    BY <1>4, <2>3, <2>5, <2>6, <2>7 DEF BlobInv, Shape
  <2>9. \A b \in Digests : rows'[b] # NoRow => b \notin gone /\ Present(b) /\ rows'[b] = rows[b]
    BY <2>7 DEF Present
  <2>10. \A b \in Digests : rows'[b].id = 0 \/ rows'[b].id = rows[b].id
    BY <2>7 DEF NoRow
  <2>11. RowsWhole'
    <3>1. SUFFICES ASSUME NEW b \in Digests, rows'[b] # NoRow
                   PROVE  /\ rows'[b].id \in 1..made'
                          /\ b \in Large => rows'[b].id \in objects'
                          /\ \A c \in Digests : rows'[c].id = rows'[b].id => c = b
      BY DEF RowsWhole, Present
    <3>2. /\ rows'[b] = rows[b] /\ rows[b].id \in 1..made
          /\ b \in Large => rows[b].id \in objects
          /\ \A c \in Digests : rows[c].id = rows[b].id => c = b
      BY <2>9, <3>1 DEF BlobInv, RowsWhole
    <3>3. QED
      BY <1>1, <1>4, <2>10, <3>2
  <2>12. UploadsOwned'
    <3>1. ASSUME NEW w \in Writers, Uploaded(w)
          PROVE  /\ writer[w].key \in 1..made /\ writer[w].key \notin keys
                 /\ \A b \in Digests : rows'[b].id # writer[w].key
                 /\ \A z \in Sweepers : writer[w].key \notin sweeper'[z].keys
      <4>1. writer[w].key \in 1..made /\ \A b \in Digests : rows[b].id # writer[w].key
        BY <3>1 DEF BlobInv, UploadsOwned
      <4>2. writer[w].key \notin keys
        BY <1>3, <2>1, <4>1
      <4>3. \A b \in Digests : rows'[b].id # writer[w].key
        BY <1>1, <2>10, <4>1
      <4>4. \A z \in Sweepers : writer[w].key \notin sweeper'[z].keys
        BY <2>5, <2>6, <3>1, <4>2 DEF BlobInv, UploadsOwned
      <4>5. QED
        BY <4>1, <4>2, <4>3, <4>4
    <3>2. QED
      BY <1>4, <3>1 DEF BlobInv, UploadsOwned, Uploaded
  <2>13. DoomedUnused'
    <3>1. ASSUME NEW b \in Digests, rows'[b] # NoRow
          PROVE  rows'[b].id \notin keys /\ \A z \in Sweepers : rows'[b].id \notin sweeper[z].keys
      <4>1. b \notin gone /\ Present(b) /\ rows'[b] = rows[b]
        BY <2>9, <3>1
      <4>2. \A c \in Digests : rows[c].id = rows[b].id => c = b
        BY <4>1 DEF BlobInv, RowsWhole
      <4>3. QED
        BY <1>3, <2>1, <4>1, <4>2 DEF BlobInv, DoomedUnused
    <3>2. \A z \in Sweepers : sweeper'[z].keys \subseteq 0..made'
      BY <1>4, <2>4, <2>5, <2>6 DEF BlobInv, DoomedUnused
    <3>3. QED
      BY <2>5, <2>6, <3>1, <3>2 DEF DoomedUnused, Present
  <2>14. CutoffPast'
    BY <1>1, <1>4, <2>5, <2>6 DEF BlobInv, CutoffPast
  <2>15. HeldPresent'
    <3>1. \A b \in roots : b \in Digests /\ b \notin gone
      BY <1>6 DEF BlobInv, Shape, Held
    <3>2. \A e \in edges : e[1] \in Digests /\ e[2] \in Digests /\ e[2] \notin gone
      BY <1>6, BlobAssumption DEF BlobInv, Shape, Held, BlobAssumption
    <3>3. QED
      BY <1>4, <2>3, <2>7, <3>1, <3>2 DEF BlobInv, HeldPresent, Present
  <2>16. FreshGood'
    <3>1. ASSUME NEW b \in Digests, NEW t \in Int, Good(b, t) PROVE Good(b, t)'
      <4>1. CASE b \in gone
        <5>1. rows[b].touched < sweeper[s].cutoff /\ rows[b].touched \in Int
          BY <1>1, <1>3, <4>1 DEF Rows
        <5>2. now - t > Grace
          BY <1>1, <3>1, <5>1 DEF Good
        <5>3. QED
          BY <1>1, <1>4, <5>2 DEF Good
      <4>2. CASE b \notin gone
        BY <1>4, <2>7, <3>1, <4>2 DEF Good, Present
      <4>3. QED
        BY <4>1, <4>2
    <3>2. \A w \in Writers : writer[w].st = "lost" => writer[w].blob \in Digests /\ writer[w].at \in Int
      BY DEF BlobInv, Shape, Puts
    <3>3. \A w \in Writers, b \in Digests : granted[w][b] \in Int
      BY DEF BlobInv, Shape
    <3>4. ASSUME NEW w \in Writers, writer'[w].st = "lost" PROVE Good(writer[w].blob, writer[w].at)'
      <4>1. PICK b \in Digests, t \in Int : b = writer[w].blob /\ t = writer[w].at
        BY <1>4, <3>2, <3>4
      <4>2. Good(b, t)
        BY <1>4, <3>4, <4>1 DEF BlobInv, FreshGood
      <4>3. Good(b, t)'
        BY <3>1, <4>2
      <4>4. QED
        BY <1>4, <4>1, <4>3 DEF Good, Present
    <3>5. ASSUME NEW w \in Writers, NEW b \in Digests, granted'[w][b] # Never
          PROVE  Good(b, granted[w][b])'
      <4>1. PICK t \in Int : t = granted[w][b]
        BY <3>3
      <4>2. Good(b, t)
        BY <1>4, <3>5, <4>1 DEF BlobInv, FreshGood
      <4>3. Good(b, t)'
        BY <3>1, <4>2
      <4>4. QED
        BY <1>4, <4>1, <4>3 DEF Good, Present
    <3>6. QED
      BY <3>4, <3>5 DEF FreshGood
  <2>17. QED
    BY <2>8, <2>11, <2>12, <2>13, <2>14, <2>15, <2>16 DEF BlobInv
<1>7. QED
  BY <1>5, <1>6

LEMMA DeleteObjectsKeeps ==
  ASSUME BlobInv, NEW s \in Sweepers, DeleteObjects(s)
  PROVE  BlobInv'
<1>1. PICK failed \in SUBSET sweeper[s].keys :
        /\ objects' = objects \ (sweeper[s].keys \ failed)
        /\ sweeper' = [sweeper EXCEPT ![s].keys = {},
             ![s].st = AfterPage(failed = {} /\ sweeper[s].more)]
  BY DEF DeleteObjects
<1>2. UNCHANGED <<now, rows, made, roots, edges, writer, granted>>
  BY DEF DeleteObjects, holds, writing
<1>3. IsPass(sweeper[s]) /\ sweeper[s].st = "objects" /\ sweeper[s].cutoff <= now - Grace
  BY DEF BlobInv, Shape, CutoffPast, DeleteObjects
<1>4. PICK q, A, B, C, D, E : q = sweeper[s] /\ q \in Pass(A, B, C, D, E)
  BY <1>3 DEF IsPass
<1>5. PICK st : st = AfterPage(failed = {} /\ sweeper[s].more)
  OBVIOUS
<1> DEFINE p == [q EXCEPT !.keys = {}, !.st = st]
<1>6. sweeper' = [sweeper EXCEPT ![s] = p]
  BY <1>1, <1>4, <1>5, Zenon
<1>7. p \in Pass(A \cup {st}, B, C, D, E) /\ p.keys = {} /\ p.cutoff = q.cutoff
  BY <1>4 DEF Pass
<1> HIDE DEF p
<1>8. IsPass(p)
  BY <1>7 DEF IsPass
<1>9. /\ sweeper'[s] = p /\ (\A x \in Sweepers \ {s} : sweeper'[x] = sweeper[x])
      /\ DOMAIN sweeper' = Sweepers /\ sweeper' = [x \in Sweepers |-> sweeper'[x]]
  BY <1>6 DEF BlobInv, Shape
<1>10. \A x \in Sweepers : sweeper'[x].keys \subseteq sweeper[x].keys
  BY <1>7, <1>9
<1>11. Shape'
  BY <1>2, <1>8, <1>9 DEF BlobInv, Shape
<1>12. RowsWhole'
  <2>1. \A b \in Digests : Present(b) => rows[b].id \notin sweeper[s].keys
    BY DEF BlobInv, DoomedUnused
  <2>2. QED
    BY <1>1, <1>2, <2>1 DEF BlobInv, RowsWhole, Present
<1>13. UploadsOwned'
  <2>1. \A w \in Writers : Uploaded(w) => writer[w].key \notin sweeper[s].keys
    BY DEF BlobInv, UploadsOwned
  <2>2. QED
    BY <1>1, <1>2, <1>10, <2>1 DEF BlobInv, UploadsOwned, Uploaded
<1>14. DoomedUnused'
  BY <1>2, <1>10 DEF BlobInv, DoomedUnused, Present
<1>15. CutoffPast'
  BY <1>2, <1>3, <1>4, <1>7, <1>9 DEF BlobInv, CutoffPast
<1>16. HeldPresent' /\ FreshGood'
  BY <1>2 DEF BlobInv, HeldPresent, FreshGood, Good, Present
<1>17. QED
  BY <1>11, <1>12, <1>13, <1>14, <1>15, <1>16 DEF BlobInv

\* Steps of a sweeper that leave the store alone.
LEMMA WalkKeeps ==
  ASSUME BlobInv, NEW s \in Sweepers,
         \/ PassBegins(s) \/ Scan(s) \/ OutOfBudget(s) \/ Snapshot(s) \/ Save(s) \/ PassFails(s)
  PROVE  BlobInv'
<1>1. UNCHANGED <<now, store, holds, writing>>
  BY DEF PassBegins, Scan, OutOfBudget, Snapshot, Save, PassFails
<1>2. /\ IsPass(sweeper[s]) /\ (sweeper[s].st # "idle" => sweeper[s].cutoff <= now - Grace)
      /\ now - Grace \in Int
  BY BlobAssumption DEF BlobInv, Shape, CutoffPast, BlobAssumption
<1>3. PICK q, A, B, C, D, E : q = sweeper[s] /\ q \in Pass(A, B, C, D, E)
  BY <1>2 DEF IsPass
<1>4. ASSUME sweeper' = [sweeper EXCEPT ![s] = Resting] PROVE BlobInv'
  BY <1>1, <1>4, RestingPass, SweeperMoves
<1>5. ASSUME sweeper[s].st # "idle",
             NEW p, NEW F, NEW G, NEW H, NEW I, NEW J, p \in Pass(F, G, H, I, J),
             p.cutoff = q.cutoff, p.keys = q.keys,
             sweeper' = [sweeper EXCEPT ![s] = p]
      PROVE  BlobInv'
  <2>1. IsPass(p)
    BY <1>5 DEF IsPass
  <2>2. p.cutoff <= now - Grace /\ p.keys \subseteq sweeper[s].keys
    BY <1>2, <1>3, <1>5
  <2>3. QED
    BY <1>1, <1>5, <2>1, <2>2, SweeperMoves
<1>6. CASE PassBegins(s)
  <2>1. PICK r : r = Resting
    OBVIOUS
  <2>2. r \in Pass({"idle"}, {Start}, {FALSE}, {{}}, {{}}) /\ r.keys = {}
    BY <2>1 DEF Resting, Pass
  <2> DEFINE p == [r EXCEPT !.st = "scan", !.cutoff = now - Grace, !.at = cursor]
  <2>3. p \in Pass({"scan"}, {cursor}, {FALSE}, {{}}, {{}}) /\ p.keys = {} /\ p.cutoff = now - Grace
    BY <1>2, <2>2 DEF Pass
  <2>4. sweeper' = [sweeper EXCEPT ![s] = p]
    BY <1>6, <2>1, Zenon DEF PassBegins
  <2> HIDE DEF p
  <2>5. IsPass(p) /\ p.keys \subseteq sweeper[s].keys /\ p.cutoff <= now - Grace
    BY <1>2, <2>3 DEF IsPass
  <2>6. QED
    BY <1>1, <2>4, <2>5, SweeperMoves
<1>7. CASE Scan(s)
  <2>1. PICK at, more, found, st :
          sweeper' = [sweeper EXCEPT ![s].at = at, ![s].more = more, ![s].found = found, ![s].st = st]
    BY <1>7, Zenon DEF Scan
  <2> DEFINE p == [q EXCEPT !.at = at, !.more = more, !.found = found, !.st = st]
  <2>2. /\ p \in Pass(A \cup {st}, B \cup {at}, C \cup {more}, D \cup {found}, E)
        /\ p.keys = q.keys /\ p.cutoff = q.cutoff
    BY <1>3 DEF Pass
  <2>3. sweeper' = [sweeper EXCEPT ![s] = p] /\ sweeper[s].st # "idle"
    BY <1>3, <1>7, <2>1, Zenon DEF Scan
  <2> HIDE DEF p
  <2>4. QED
    BY <1>5, <2>2, <2>3
<1>8. CASE OutOfBudget(s)
  <2> DEFINE p == [q EXCEPT !.st = "save"]
  <2>1. p \in Pass(A \cup {"save"}, B, C, D, E) /\ p.keys = q.keys /\ p.cutoff = q.cutoff
    BY <1>3 DEF Pass
  <2>2. sweeper' = [sweeper EXCEPT ![s] = p] /\ sweeper[s].st # "idle"
    BY <1>3, <1>8, Zenon DEF OutOfBudget
  <2> HIDE DEF p
  <2>3. QED
    BY <1>5, <2>1, <2>2
<1>9. CASE Snapshot(s)
  <2>1. PICK victims :
          sweeper' = [sweeper EXCEPT ![s].st = "commit", ![s].found = {}, ![s].victims = victims]
    BY <1>9, Zenon DEF Snapshot
  <2> DEFINE p == [q EXCEPT !.st = "commit", !.found = {}, !.victims = victims]
  <2>2. /\ p \in Pass(A \cup {"commit"}, B, C, D \cup {{}}, E \cup {victims})
        /\ p.keys = q.keys /\ p.cutoff = q.cutoff
    BY <1>3 DEF Pass
  <2>3. sweeper' = [sweeper EXCEPT ![s] = p] /\ sweeper[s].st # "idle"
    BY <1>3, <1>9, <2>1, Zenon DEF Snapshot
  <2> HIDE DEF p
  <2>4. QED
    BY <1>5, <2>2, <2>3
<1>10. CASE PassFails(s)
  <2> DEFINE p == [q EXCEPT !.st = "save", !.found = {}, !.victims = {}]
  <2>1. /\ p \in Pass(A \cup {"save"}, B, C, D \cup {{}}, E \cup {{}})
        /\ p.keys = q.keys /\ p.cutoff = q.cutoff
    BY <1>3 DEF Pass
  <2>2. /\ sweeper[s].st # "idle"
        /\ \/ sweeper' = [sweeper EXCEPT ![s] = p]
           \/ sweeper' = [sweeper EXCEPT ![s] = Resting]
    BY <1>3, <1>10, Zenon DEF PassFails
  <2> HIDE DEF p
  <2>3. QED
    BY <1>4, <1>5, <2>1, <2>2
<1>11. CASE Save(s)
  BY <1>4, <1>11 DEF Save
<1>12. QED
  BY <1>6, <1>7, <1>8, <1>9, <1>10, <1>11

\* Steps that change none of what the invariant speaks of, or only let go.
LEMMA QuietKeeps ==
  ASSUME BlobInv,
         \/ UNCHANGED <<now, store, holds, writing, sweeper>>
         \/ \E b \in Digests : Release(b)
  PROVE  BlobInv'
<1>1. /\ UNCHANGED <<now, rows, objects, made, edges, writer, granted, sweeper>>
      /\ roots' \subseteq roots
  BY DEF Release, store, holds, writing, sweeping
<1>2. Shape' /\ HeldPresent'
  BY <1>1 DEF BlobInv, Shape, HeldPresent, Present
<1>3. RowsWhole' /\ UploadsOwned' /\ DoomedUnused' /\ CutoffPast' /\ FreshGood'
  BY <1>1 DEF BlobInv, RowsWhole, UploadsOwned, Uploaded, DoomedUnused, CutoffPast, FreshGood,
              Good, Present
<1>4. QED
  BY <1>2, <1>3 DEF BlobInv

LEMMA NextBlob ==
  ASSUME BlobInv, [Next]_vars
  PROVE  BlobInv'
<1>1. CASE UNCHANGED vars
  BY <1>1, QuietKeeps DEF vars, store, holds, writing
<1>2. CASE LoseLead
  BY <1>2, QuietKeeps DEF LoseLead
<1>3. ASSUME NEW s \in Sweepers, SweeperStep(s) PROVE BlobInv'
  <2>1. CASE Lead(s)
    BY <2>1, QuietKeeps DEF Lead
  <2>2. QED
    BY <1>3, <2>1, WalkKeeps, DeleteRowsKeeps, DeleteObjectsKeeps DEF SweeperStep
<1>4. QED
  BY <1>1, <1>2, <1>3, TickKeeps, WriterKeeps, QuietKeeps DEF Next

\* In every reachable state the bytes of every row are there, an upload that no
\* row names is its writer's alone, what a sweeper is about to remove from the
\* object store belongs to no row, and references in their grace are good.
THEOREM BlobInvariant == Spec => []BlobInv
<1>1. Init => BlobInv
  BY InitBlob
<1>2. BlobInv /\ [Next]_vars => BlobInv'
  BY NextBlob
<1>3. QED
  BY <1>1, <1>2, PTL DEF Spec

\* HeldIsReadable holds in every behaviour, with any number of writers and of
\* sweepers that each take themselves for the leader: what a session or another
\* blob holds has its row and its bytes.
THEOREM HeldAlwaysReadable == Spec => []HeldIsReadable
<1>1. BlobInv => HeldIsReadable
  <2>1. SUFFICES ASSUME BlobInv PROVE HeldIsReadable
    OBVIOUS
  <2>2. roots \subseteq Digests /\ \A e \in edges : e[1] \in Digests /\ e[2] \in Digests
    BY <2>1, BlobAssumption DEF BlobInv, Shape, BlobAssumption
  <2>3. \A b \in roots \cup UNION {{e[1], e[2]} : e \in edges} : b \in Digests /\ Present(b)
    BY <2>1, <2>2 DEF BlobInv, HeldPresent
  <2>4. QED
    BY <2>1, <2>3 DEF BlobInv, RowsWhole, HeldIsReadable, Readable
<1>2. QED
  BY <1>1, BlobInvariant, PTL

\* FreshRefIsGood holds in every behaviour: until the grace that counts from a
\* put or a retain is over, no sweep takes the content its caller was given.
THEOREM FreshRefAlwaysGood == Spec => []FreshRefIsGood
<1>1. BlobInv => FreshRefIsGood
  BY DEF BlobInv, FreshGood, Good, RowsWhole, FreshRefIsGood, Readable
<1>2. QED
  BY <1>1, BlobInvariant, PTL

=============================================================================
