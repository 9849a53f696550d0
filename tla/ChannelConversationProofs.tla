--------------------- MODULE ChannelConversationProofs ---------------------
(***************************************************************************)
(* Proofs about ChannelConversation for any messages, calls, deliveries,   *)
(* chunks and memories: what is asked of the provider, and what is         *)
(* answered.                                                               *)
(*                                                                         *)
(* A bounded memory is a suffix of everything heard, at least as long as   *)
(* its bound.  What a repeat needs of it is there when the repeat arrives, *)
(* and stays until the inbox is empty and the lane it started has ended,   *)
(* because only then is the memory cut.  A record of a delivery is dropped *)
(* when as many finished ones stand behind it as a carry keeps; each was   *)
(* heard of since, so no receipt of the dropped one comes any more.        *)
(***************************************************************************)
EXTENDS ChannelConversation, FiniteSetTheorems, TLAPS

\* The type invariant in parts.
InboxTypes ==
    /\ inbound \in Seq(Messages) /\ emissions \in Seq(Emissions) /\ receipts \in Seq(Receipts)

RecordTypes ==
    /\ loop \in Loops /\ mode \in {"mention", "always"}
    /\ msg \in [Messages -> {"none", "responding", "emitting", "settled"}]
    /\ call \in [Calls -> {"none", "invalid", "delivering"} \cup Outcomes]
    /\ delivery \in [Deliveries -> {"none", "started", "norun", "reconciling", "suppressed",
                                    "delivered", "failed"}]

MemoryTypes ==
    /\ seenIn \in Seq(Messages) /\ heardIn \in Seq(Messages)
    /\ seenEm \in Seq(Emissions) /\ heardEm \in Seq(Emissions)
    /\ cancels \in Seq(Calls) /\ heardCancels \in Seq(Calls)

Lanes ==
    [pc : {"none", "prepare", "reconcile", "deliver", "archive", "receipt", "answer"},
     i : Nat, out : {""} \cup Outcomes]

LaneTypes == lane \in [Calls \cup Deliveries -> Lanes] /\ typing \subseteq Deliveries

OutsideTypes ==
    /\ asked \in [Commands -> Nat] /\ landed \subseteq Commands /\ acked \subseteq Commands
    /\ archived \subseteq Keys
    /\ answer \in [Calls -> SUBSET Outcomes] /\ unreachable \subseteq Calls

ChatTypes == InboxTypes /\ RecordTypes /\ MemoryTypes /\ LaneTypes /\ OutsideTypes

\* s is the end of h, and holds at least its n newest elements.
Kept(s, h, n) ==
    /\ Len(s) <= Len(h) /\ (Len(s) >= n \/ Len(s) = Len(h))
    /\ \A i \in 1..Len(s) : s[i] = h[Len(h) - Len(s) + i]

Memory ==
    /\ Kept(seenIn, heardIn, CarrySeen)
    /\ Kept(seenEm, heardEm, CarrySeen)
    /\ Kept(cancels, heardCancels, CarryCancels)

Remembered(s, h, x) == Contains(h, x) => Contains(s, x)

\* A repeat that waits in an inbox will be recognised.
Inboxes ==
    /\ \A i \in 1..Len(inbound) : Remembered(seenIn, heardIn, inbound[i])
    /\ \A i \in 1..Len(emissions) :
         /\ Remembered(seenEm, heardEm, emissions[i])
         /\ Remembered(cancels, heardCancels, emissions[i][2])

\* The commands of k from the i-th on were never asked for.
Untouched(k, i) == \A j \in 1..Chunks[k] : j >= i => asked[<<k, j>>] = 0
Sent(k) == \A j \in 1..Chunks[k] : <<k, j>> \in landed

Outside ==
    /\ acked \subseteq landed /\ \A x \in landed : asked[x] > 0
    /\ \A k \in archived : Sent(k)

MessageInv(m) ==
    /\ ~Contains(heardIn, m) => Untouched(m, 1)
    /\ loop.pc # "idle" /\ loop.m = m =>
         /\ Contains(heardIn, m)
         /\ loop.pc = "prepare" => Untouched(m, 1)
         /\ loop.pc = "deliver" => loop.i \in 1..Chunks[m] /\ Untouched(m, loop.i + 1)

Called(c) == Contains(heardEm, <<"call", c>>)

Honest(c, out) ==
    /\ out = "resolved" => Sent(c) /\ (c \in Sends => c \in archived)
    /\ out = "cancelled" => HeardCancel(c) /\ \E i \in 1..Chunks[c] : <<c, i>> \notin acked

CallInv(c) ==
    /\ ~Called(c) => lane[c].pc = "none" /\ answer[c] = {} /\ Untouched(c, 1)
    /\ lane[c].pc # "none" => answer[c] = {} /\ Remembered(cancels, heardCancels, c)
    /\ lane[c].pc # "reconcile"
    /\ lane[c].pc = "prepare" => Untouched(c, 1)
    /\ lane[c].pc = "deliver" =>
         /\ lane[c].i \in 1..Chunks[c] /\ Untouched(c, lane[c].i + 1)
         /\ \A j \in 1..Chunks[c] : <<c, j>> \in acked <=> j < lane[c].i
    /\ lane[c].pc \in {"archive", "receipt"} => Sent(c)
    /\ lane[c].pc = "receipt" /\ c \in Sends => c \in archived
    /\ lane[c].pc = "answer" => lane[c].out \in Outcomes /\ Honest(c, lane[c].out)
    /\ answer[c] = {} \/ \E out \in Outcomes : answer[c] = {out} /\ Honest(c, out)

\* No receipt of d said that it finished.
Fresh(d) == ~Finished(d) /\ ~Forgotten(d)

DeliveryInv(d) ==
    /\ lane[d].pc \in {"none", "reconcile", "deliver", "archive"}
    /\ lane[d].pc # "none" <=> delivery[d] = "reconciling"
    /\ Fresh(d) \/ lane[d].pc = "reconcile" => Untouched(d, 1)
    /\ lane[d].pc = "deliver" =>
         /\ lane[d].i \in 1..Chunks[d] /\ Untouched(d, lane[d].i + 1)
         /\ \A j \in 1..Chunks[d] : j < lane[d].i => <<d, j>> \in landed
    /\ lane[d].pc = "archive" => Sent(d)
    /\ delivery[d] = "delivered" => d \in archived

ChatInv ==
    /\ ChatTypes /\ Memory /\ Inboxes /\ Outside
    /\ \A m \in Messages : MessageInv(m)
    /\ \A c \in Calls : CallInv(c)
    /\ \A d \in Deliveries : DeliveryInv(d)

\* What stands behind a record was heard of since, once it is finished, so
\* whatever a carry drops is too old to be repeated.
ShelfOf(d) ==
    /\ IsFiniteSet(since[d]) /\ (since[d] # {} => d \in since[d])
    /\ delivery[d] # "none" => since[d] # {}
    /\ delivery[d] = "none" => behind[d] = {}
    /\ \A e \in behind[d] : e # d /\ (Finished(e) => e \in since[d])
    /\ Forgotten(d) => Cardinality(since[d]) > CarryDeliveries

ShelfInv ==
    /\ behind \in [Deliveries -> SUBSET Deliveries] /\ since \in [Deliveries -> SUBSET Deliveries]
    /\ \A d \in Deliveries : ShelfOf(d)
    /\ \A i \in 1..Len(receipts) : ~Forgotten(receipts[i][2])

-----------------------------------------------------------------------------
(* Sequences and memories.                                                 *)

LEMMA EmptyKept == \A n \in Nat : Kept(<<>>, <<>>, n)
BY DEF Kept

LEMMA AppendKept ==
    ASSUME NEW S, NEW s \in Seq(S), NEW h \in Seq(S), NEW x \in S, NEW n \in Nat, Kept(s, h, n)
    PROVE  Kept(Append(s, x), Append(h, x), n)
<1> DEFINE t == Append(s, x)
           g == Append(h, x)
<1>1. /\ Len(t) = Len(s) + 1 /\ Len(g) = Len(h) + 1 /\ Len(s) \in Nat /\ Len(h) \in Nat
      /\ t[Len(s) + 1] = x /\ g[Len(h) + 1] = x
      /\ \A i \in 1..Len(s) : t[i] = s[i]
      /\ \A i \in 1..Len(h) : g[i] = h[i]
  OBVIOUS
<1> HIDE DEF t, g
<1>2. ASSUME NEW i \in 1..Len(t)
      PROVE  t[i] = g[Len(g) - Len(t) + i]
  <2>1. CASE i = Len(t)
    <3>1. Len(g) - Len(t) + i = Len(h) + 1
      BY <1>1, <2>1
    <3>2. QED
      BY <1>1, <2>1, <3>1
  <2>2. CASE i # Len(t)
    <3>1. i \in 1..Len(s) /\ Len(h) - Len(s) + i \in 1..Len(h)
      BY <1>1, <2>2 DEF Kept
    <3>2. t[i] = s[i] /\ g[Len(h) - Len(s) + i] = h[Len(h) - Len(s) + i]
      BY <1>1, <3>1
    <3>3. Len(g) - Len(t) + i = Len(h) - Len(s) + i
      BY <1>1
    <3>4. s[i] = h[Len(h) - Len(s) + i]
      BY <3>1 DEF Kept
    <3>5. QED
      BY <3>2, <3>3, <3>4
  <2>3. QED
    BY <2>1, <2>2
<1>3. Len(t) <= Len(g) /\ (Len(t) >= n \/ Len(t) = Len(g))
  BY <1>1 DEF Kept
<1>4. Kept(t, g, n)
  BY <1>2, <1>3 DEF Kept
<1>5. QED
  BY <1>4 DEF t, g

LEMMA NewestKept ==
    ASSUME NEW S, NEW s \in Seq(S), NEW h \in Seq(S), NEW n \in Nat, Kept(s, h, n)
    PROVE  Newest(s, n) \in Seq(S) /\ Kept(Newest(s, n), h, n)
<1>1. CASE Len(s) <= n
  BY <1>1 DEF Newest
<1>2. CASE Len(s) > n
  <2> DEFINE t == SubSeq(s, Len(s) - n + 1, Len(s))
  <2>1. /\ t \in Seq(S) /\ Len(t) = n /\ Newest(s, n) = t
        /\ \A i \in 1..n : t[i] = s[Len(s) - n + i]
    BY <1>2 DEF Newest
  <2> HIDE DEF t
  <2>2. ASSUME NEW i \in 1..n
        PROVE  t[i] = h[Len(h) - n + i]
    <3>1. Len(s) - n + i \in 1..Len(s) /\ Len(s) \in Nat /\ Len(h) \in Nat
      BY <1>2
    <3>2. s[Len(s) - n + i] = h[Len(h) - Len(s) + (Len(s) - n + i)]
      BY <3>1 DEF Kept
    <3>3. Len(h) - Len(s) + (Len(s) - n + i) = Len(h) - n + i
      BY <3>1
    <3>4. QED
      BY <2>1, <3>2, <3>3
  <2>3. Len(t) <= Len(h) /\ Len(t) >= n
    BY <1>2, <2>1 DEF Kept
  <2>4. QED
    BY <2>1, <2>2, <2>3 DEF Kept
<1>3. QED
  BY <1>1, <1>2

LEMMA KeptRemembers ==
    ASSUME NEW S, NEW s \in Seq(S), NEW h \in Seq(S), NEW x, NEW n \in Nat,
           Kept(s, h, n), Recent(h, x, n)
    PROVE  Remembered(s, h, x)
<1>1. SUFFICES ASSUME Contains(h, x)
               PROVE  Contains(s, x)
  BY DEF Remembered
<1>2. Len(s) \in Nat /\ Len(h) \in Nat
  OBVIOUS
<1>3. CASE Len(s) = Len(h)
  BY <1>1, <1>2, <1>3 DEF Kept, Contains
<1>4. CASE Len(s) # Len(h)
  <2>1. Len(s) >= n /\ Len(h) > n
    BY <1>2, <1>4 DEF Kept
  <2>2. Newest(h, n) = SubSeq(h, Len(h) - n + 1, Len(h)) /\ Len(Newest(h, n)) = n
    BY <2>1 DEF Newest
  <2>3. PICK i \in 1..n : Newest(h, n)[i] = x
    BY <1>1, <2>2 DEF Recent, Contains
  <2>4. x = h[Len(h) - n + i]
    BY <2>1, <2>2, <2>3
  <2>5. Len(s) - n + i \in 1..Len(s) /\ s[Len(s) - n + i] = h[Len(h) - n + i]
    <3>1. Len(s) - n + i \in 1..Len(s)
      BY <1>2, <2>1
    <3>2. Len(h) - Len(s) + (Len(s) - n + i) = Len(h) - n + i
      BY <1>2
    <3>3. QED
      BY <3>1, <3>2 DEF Kept
  <2>6. QED
    BY <2>4, <2>5 DEF Contains
<1>5. QED
  BY <1>3, <1>4

LEMMA ContainsAppend ==
    ASSUME NEW S, NEW s \in Seq(S), NEW x \in S, NEW y
    PROVE  Contains(Append(s, x), y) <=> Contains(s, y) \/ y = x
BY DEF Contains

LEMMA ContainsIn ==
    ASSUME NEW S, NEW s \in Seq(S), NEW x, Contains(s, x)
    PROVE  x \in S
BY DEF Contains

LEMMA TailOf ==
    ASSUME NEW S, NEW s \in Seq(S), s # <<>>
    PROVE  /\ Head(s) \in S /\ Tail(s) \in Seq(S) /\ 1 \in 1..Len(s) /\ Head(s) = s[1]
           /\ \A i \in 1..Len(Tail(s)) : i + 1 \in 1..Len(s) /\ Tail(s)[i] = s[i + 1]
OBVIOUS

LEMMA CommandIn ==
    ASSUME NEW k \in Keys
    PROVE  \A i : <<k, i>> \in Commands <=> i \in 1..Chunks[k]
BY ConversationAssumption DEF Commands

LEMMA CommandsOf ==
    ASSUME NEW x \in Commands
    PROVE  x[1] \in Keys /\ x[2] \in 1..Chunks[x[1]] /\ x = <<x[1], x[2]>>
BY ConversationAssumption DEF Commands

LEMMA KeysApart ==
    /\ Messages \subseteq Keys /\ Calls \subseteq Keys /\ Deliveries \subseteq Keys
    /\ \A k \in Keys : Chunks[k] \in Nat /\ Chunks[k] >= 1 /\ 1 \in 1..Chunks[k]
    /\ \A m \in Messages : m \notin Calls /\ m \notin Deliveries
    /\ \A c \in Calls : c \notin Deliveries
    /\ CarrySeen \in Nat /\ CarryCancels \in Nat /\ CarryDeliveries \in Nat
BY ConversationAssumption DEF Keys, ConversationAssumption

-----------------------------------------------------------------------------
(* The parts of the type invariant.                                        *)

LEMMA TypeParts ==
    ChatTypes <=> InboxTypes /\ RecordTypes /\ MemoryTypes /\ LaneTypes /\ OutsideTypes
BY DEF ChatTypes

LEMMA TypePartsNext ==
    ChatTypes' <=> InboxTypes' /\ RecordTypes' /\ MemoryTypes' /\ LaneTypes' /\ OutsideTypes'
BY DEF ChatTypes

LEMMA LaneIn ==
    /\ Idle \in Loops /\ NoLane \in Lanes /\ NoLane.pc = "none"
    /\ \A pc \in {"prepare", "reconcile", "archive", "receipt"} : At(pc) \in Lanes /\ At(pc).pc = pc
    /\ \A i \in Nat : Delivering(i) \in Lanes /\ Delivering(i).pc = "deliver" /\ Delivering(i).i = i
    /\ \A out \in Outcomes :
         Answering(out) \in Lanes /\ Answering(out).pc = "answer" /\ Answering(out).out = out
BY DEF Idle, Loops, NoLane, Lane, At, Delivering, Answering, Lanes, Outcomes

-----------------------------------------------------------------------------
(* The initial state.                                                      *)

LEMMA InitChat == Init => ChatInv
<1> SUFFICES ASSUME Init PROVE ChatInv
  OBVIOUS
<1>1. ChatTypes
  <2>1. InboxTypes /\ MemoryTypes
    BY DEF Init, InboxTypes, MemoryTypes
  <2>2. RecordTypes
    BY ConversationAssumption, LaneIn DEF Init, RecordTypes, ConversationAssumption
  <2>3. LaneTypes
    BY LaneIn DEF Init, LaneTypes
  <2>4. OutsideTypes
    BY DEF Init, OutsideTypes
  <2>5. QED
    BY <2>1, <2>2, <2>3, <2>4, TypeParts
<1>2. Memory /\ Inboxes
  BY EmptyKept, KeysApart DEF Init, Memory, Inboxes
<1>3. \A k \in Keys : Untouched(k, 1)
  BY CommandIn DEF Init, Untouched
<1>4. Outside
  BY DEF Init, Outside
<1>5. ASSUME NEW m \in Messages PROVE MessageInv(m)
  BY <1>3, KeysApart DEF Init, MessageInv, Idle
<1>6. ASSUME NEW c \in Calls PROVE CallInv(c)
  BY <1>3, KeysApart DEF Init, CallInv, NoLane, Lane
<1>7. ASSUME NEW d \in Deliveries PROVE DeliveryInv(d)
  BY <1>3, KeysApart DEF Init, DeliveryInv, Fresh, Finished, Forgotten, NoLane, Lane
<1>8. QED
  BY <1>1, <1>2, <1>4, <1>5, <1>6, <1>7 DEF ChatInv

-----------------------------------------------------------------------------
(* What a step leaves alone.                                               *)

\* What a step asks of the provider is asked for the first time, and wanted.
Wanted ==
    \A x \in Commands : asked'[x] # asked[x] => asked[x] = 0 /\ ~HeardCancel(x[1])

AskedSame(k) == \A j \in 1..Chunks[k] : asked'[<<k, j>>] = asked[<<k, j>>]

LEMMA MessageFrame ==
    ASSUME NEW m \in Messages, MessageInv(m), AskedSame(m),
           Contains(heardIn, m)' <=> Contains(heardIn, m),
           loop' = loop \/ loop'.pc = "idle" \/ loop'.m # m
    PROVE  MessageInv(m)'
BY DEF MessageInv, Untouched, AskedSame

LEMMA CallFrame ==
    ASSUME NEW c \in Calls, CallInv(c), AskedSame(c),
           lane'[c] = lane[c], answer'[c] = answer[c],
           Called(c)' <=> Called(c), HeardCancel(c) => HeardCancel(c)',
           lane[c].pc # "none" /\ Remembered(cancels, heardCancels, c)
             => Remembered(cancels, heardCancels, c)',
           \A j \in 1..Chunks[c] : <<c, j>> \in acked' <=> <<c, j>> \in acked,
           landed \subseteq landed', archived \subseteq archived'
    PROVE  CallInv(c)'
<1>1. Sent(c) => Sent(c)'
  BY DEF Sent
<1>2. \A i : Untouched(c, i) => Untouched(c, i)'
  BY DEF Untouched, AskedSame
<1>3. \A out : Honest(c, out) => Honest(c, out)'
  BY <1>1 DEF Honest
<1>4. QED
  BY <1>1, <1>2, <1>3 DEF CallInv

LEMMA DeliveryFrame ==
    ASSUME NEW d \in Deliveries, DeliveryInv(d), AskedSame(d),
           lane'[d] = lane[d], delivery'[d] = delivery[d], since'[d] = {} <=> since[d] = {},
           landed \subseteq landed', archived \subseteq archived'
    PROVE  DeliveryInv(d)'
BY DEF DeliveryInv, Fresh, Untouched, AskedSame, Sent, Finished, Forgotten

\* Asking for the i-th command of k touches nothing else.
LEMMA AskStep ==
    ASSUME OutsideTypes, NEW k \in Keys, NEW i \in 1..Chunks[k], Ask(k, i), Untouched(k, i),
           ~HeardCancel(k)
    PROVE  /\ asked' \in [Commands -> Nat] /\ Wanted
           /\ Untouched(k, i + 1)' /\ \A q \in Keys : q # k => AskedSame(q)
           /\ \A x \in Commands : asked[x] > 0 => asked'[x] > 0
<1>1. <<k, i>> \in Commands /\ asked[<<k, i>>] = 0
  BY CommandIn, KeysApart DEF Untouched
<1>2. /\ asked' \in [Commands -> Nat] /\ asked'[<<k, i>>] = 1
      /\ \A x \in Commands : x # <<k, i>> => asked'[x] = asked[x]
  BY <1>1 DEF Ask, OutsideTypes
<1>3. Wanted
  BY <1>1, <1>2 DEF Wanted
<1>4. Untouched(k, i + 1)'
  <2>1. SUFFICES ASSUME NEW j \in 1..Chunks[k], j >= i + 1 PROVE asked'[<<k, j>>] = 0
    BY DEF Untouched
  <2>2. <<k, j>> \in Commands /\ <<k, j>> # <<k, i>> /\ j >= i
    BY <2>1, CommandIn
  <2>3. QED
    BY <1>2, <2>2 DEF Untouched
<1>5. ASSUME NEW q \in Keys, q # k PROVE AskedSame(q)
  <2>1. SUFFICES ASSUME NEW j \in 1..Chunks[q] PROVE asked'[<<q, j>>] = asked[<<q, j>>]
    BY DEF AskedSame
  <2>2. <<q, j>> \in Commands /\ <<q, j>> # <<k, i>>
    BY <1>5, CommandIn
  <2>3. QED
    BY <1>2, <2>2
<1>6. \A x \in Commands : asked[x] > 0 => asked'[x] > 0
  BY <1>1, <1>2
<1>7. QED
  BY <1>2, <1>3, <1>4, <1>5, <1>6

LEMMA AskNothing ==
    ASSUME UNCHANGED asked
    PROVE  Wanted /\ \A q \in Keys : AskedSame(q)
BY DEF Wanted, AskedSame

\* Only calls are cancelled.
LEMMA OnlyCallsCancelled ==
    ASSUME MemoryTypes, NEW k, k \notin Calls
    PROVE  ~HeardCancel(k)
BY ContainsIn DEF MemoryTypes, HeardCancel

-----------------------------------------------------------------------------
(* Steps that leave calls, messages and deliveries alone.                  *)

objectVars == <<loop, delivery, seenVars, lane, asked, landed, acked, archived, answer>>

LEMMA AsideStep ==
    ASSUME ChatInv, UNCHANGED objectVars
    PROVE  /\ Wanted /\ Memory' /\ Outside' /\ MemoryTypes'
           /\ \A m \in Messages : MessageInv(m)'
           /\ \A c \in Calls : CallInv(c)'
           /\ \A d \in Deliveries : DeliveryInv(d)'
<1> USE DEF objectVars, seenVars, idVars, shelfVars, heardVars
<1>1. Wanted
  BY DEF Wanted
<1>2. Memory' /\ MemoryTypes'
  BY TypeParts DEF ChatInv, Memory, MemoryTypes
<1>3. Outside'
  BY DEF ChatInv, Outside, Sent
<1>4. ASSUME NEW m \in Messages PROVE MessageInv(m)'
  BY DEF ChatInv, MessageInv, Untouched
<1>5. ASSUME NEW c \in Calls PROVE CallInv(c)'
  BY DEF ChatInv, CallInv, Untouched, Called, Remembered, Honest, HeardCancel, Sent
<1>6. ASSUME NEW d \in Deliveries PROVE DeliveryInv(d)'
  BY DEF ChatInv, DeliveryInv, Fresh, Untouched, Finished, Forgotten, Sent
<1>7. QED
  BY <1>1, <1>2, <1>3, <1>4, <1>5, <1>6

LEMMA StutterStep == ChatInv /\ UNCHANGED vars => ChatInv' /\ Wanted
<1> SUFFICES ASSUME ChatInv, UNCHANGED vars PROVE ChatInv' /\ Wanted
  OBVIOUS
<1> USE DEF vars, inboxVars, recordVars, seenVars, idVars, shelfVars, heardVars, outsideVars
<1>1. ChatTypes' /\ Inboxes'
  BY DEF ChatInv, ChatTypes, InboxTypes, RecordTypes, MemoryTypes, LaneTypes, OutsideTypes, Inboxes
<1>2. UNCHANGED objectVars
  BY DEF objectVars
<1>3. QED
  BY <1>1, <1>2, AsideStep DEF ChatInv

LEMMA AppendedOnly ==
    ASSUME NEW S, NEW s \in Seq(S), NEW x \in S
    PROVE  /\ Append(s, x) \in Seq(S)
           /\ \A i \in 1..Len(Append(s, x)) :
                Append(s, x)[i] = x \/ (i \in 1..Len(s) /\ Append(s, x)[i] = s[i])
OBVIOUS

LEMMA SignalStep ==
    ASSUME ChatInv,
           \/ \E m \in Messages : ChatInbound(m)
           \/ \E e \in Emissions : DeliverEmission(e)
           \/ \E r \in Receipts : BotDelivery(r)
    PROVE  ChatInv' /\ Wanted
<1> USE DEF recordVars, seenVars, idVars, shelfVars, heardVars, outsideVars
<1>1. UNCHANGED objectVars
  BY DEF ChatInbound, DeliverEmission, BotDelivery, objectVars
<1>2. RecordTypes' /\ LaneTypes' /\ OutsideTypes'
  <2>1. UNCHANGED <<loop, mode, msg, call, delivery, lane, typing, outsideVars>>
    BY DEF ChatInbound, DeliverEmission, BotDelivery
  <2>2. QED
    BY <2>1, TypeParts DEF ChatInv, RecordTypes, LaneTypes, OutsideTypes
<1>3. InboxTypes /\ MemoryTypes
  BY TypeParts DEF ChatInv
<1>4. SUFFICES InboxTypes' /\ Inboxes'
  BY <1>1, <1>2, AsideStep, TypePartsNext DEF ChatInv
<1>5. CASE \E m \in Messages : ChatInbound(m)
  <2>1. PICK m \in Messages : ChatInbound(m)
    BY <1>5
  <2>2. Remembered(seenIn, heardIn, m)
    BY <1>3, <2>1, KeptRemembers, KeysApart DEF ChatInbound, ChatInv, MemoryTypes, Memory
  <2>3. /\ inbound' \in Seq(Messages)
        /\ \A i \in 1..Len(inbound') :
             inbound'[i] = m \/ (i \in 1..Len(inbound) /\ inbound'[i] = inbound[i])
    BY <1>3, <2>1, AppendedOnly DEF ChatInbound, InboxTypes
  <2>4. UNCHANGED <<emissions, receipts, seenVars>>
    BY <2>1 DEF ChatInbound
  <2>5. QED
    BY <1>3, <2>2, <2>3, <2>4 DEF ChatInv, Inboxes, Remembered, InboxTypes
<1>6. CASE \E e \in Emissions : DeliverEmission(e)
  <2>1. PICK e \in Emissions : DeliverEmission(e)
    BY <1>6
  <2>2. Remembered(seenEm, heardEm, e) /\ Remembered(cancels, heardCancels, e[2])
    BY <1>3, <2>1, KeptRemembers, KeysApart DEF DeliverEmission, ChatInv, MemoryTypes, Memory
  <2>3. /\ emissions' \in Seq(Emissions)
        /\ \A i \in 1..Len(emissions') :
             emissions'[i] = e \/ (i \in 1..Len(emissions) /\ emissions'[i] = emissions[i])
    BY <1>3, <2>1, AppendedOnly DEF DeliverEmission, InboxTypes
  <2>4. UNCHANGED <<inbound, receipts, seenVars>>
    BY <2>1 DEF DeliverEmission
  <2>5. QED
    BY <1>3, <2>2, <2>3, <2>4 DEF ChatInv, Inboxes, Remembered, InboxTypes
<1>7. CASE \E r \in Receipts : BotDelivery(r)
  <2>1. receipts' \in Seq(Receipts) /\ UNCHANGED <<inbound, emissions, seenVars>>
    BY <1>3, <1>7, AppendedOnly DEF BotDelivery, InboxTypes
  <2>2. QED
    BY <1>3, <2>1 DEF ChatInv, Inboxes, Remembered, InboxTypes
<1>8. QED
  BY <1>5, <1>6, <1>7

LEMMA TypingStep ==
    ASSUME ChatInv, NEW d \in Deliveries, TypingStops(d) \/ TypingFails(d)
    PROVE  ChatInv' /\ Wanted
<1> USE DEF inboxVars, recordVars, seenVars, idVars, shelfVars, heardVars, outsideVars
<1>1. UNCHANGED objectVars
  BY DEF TypingStops, TypingFails, objectVars
<1>2. ChatTypes' /\ Inboxes'
  BY DEF TypingStops, TypingFails, ChatInv, ChatTypes, InboxTypes, RecordTypes, MemoryTypes, LaneTypes, OutsideTypes, Inboxes
<1>3. QED
  BY <1>1, <1>2, AsideStep DEF ChatInv

\* The provider gets a command.
LEMMA LandsStep ==
    ASSUME ChatInv, NEW x \in Commands, Lands(x)
    PROVE  ChatInv' /\ Wanted
<1> USE DEF inboxVars, recordVars, seenVars, idVars, shelfVars, heardVars
<1>1. /\ landed \subseteq landed' /\ asked[x] > 0 /\ landed' = landed \cup {x}
      /\ UNCHANGED <<inboxVars, loop, mode, recordVars, seenVars, lane, typing, asked, acked,
                     archived, answer, unreachable>>
  BY DEF Lands
<1>2. ChatTypes' /\ Inboxes' /\ Memory'
  BY <1>1 DEF ChatInv, ChatTypes, InboxTypes, RecordTypes, MemoryTypes, LaneTypes, OutsideTypes, Inboxes, Memory
<1>3. Outside'
  BY <1>1 DEF ChatInv, Outside, Sent
<1>4. Wanted /\ \A q \in Keys : AskedSame(q)
  BY <1>1, AskNothing
<1>5. ASSUME NEW m \in Messages PROVE MessageInv(m)'
  BY <1>1, <1>4, MessageFrame, KeysApart DEF ChatInv
<1>6. ASSUME NEW c \in Calls PROVE CallInv(c)'
  BY <1>1, <1>4, CallFrame, KeysApart DEF ChatInv, Called, HeardCancel, Remembered
<1>7. ASSUME NEW d \in Deliveries PROVE DeliveryInv(d)'
  BY <1>1, <1>4, DeliveryFrame, KeysApart DEF ChatInv
<1>8. QED
  BY <1>2, <1>3, <1>4, <1>5, <1>6, <1>7 DEF ChatInv

-----------------------------------------------------------------------------
(* Provider messages.                                                      *)

\* What is taken from the front leaves the others remembered.
LEMMA InboundTaken ==
    ASSUME ChatInv, inbound # <<>>, inbound' = Tail(inbound),
           UNCHANGED <<emissions, seenEm, heardEm, cancels, heardCancels>>,
           \A x : Remembered(seenIn, heardIn, x) => Remembered(seenIn, heardIn, x)'
    PROVE  Inboxes'
<1>1. /\ Tail(inbound) \in Seq(Messages)
      /\ \A i \in 1..Len(Tail(inbound)) :
           i + 1 \in 1..Len(inbound) /\ Tail(inbound)[i] = inbound[i + 1]
  BY TailOf, TypeParts DEF ChatInv, InboxTypes
<1>2. ASSUME NEW i \in 1..Len(inbound')
      PROVE  Remembered(seenIn', heardIn', inbound'[i])
  <2>1. i + 1 \in 1..Len(inbound) /\ inbound'[i] = inbound[i + 1]
    BY <1>1
  <2>2. Remembered(seenIn, heardIn, inbound[i + 1])
    BY <2>1 DEF ChatInv, Inboxes
  <2>3. QED
    BY <2>1, <2>2 DEF Remembered
<1>3. QED
  BY <1>2 DEF ChatInv, Inboxes, Remembered

LEMMA DuplicateInboundStep ==
    ASSUME ChatInv, NEW m \in Messages, DuplicateInbound(m)
    PROVE  ChatInv' /\ Wanted
<1> USE DEF DuplicateInbound, Taking, seenVars, idVars, shelfVars, heardVars, outsideVars
<1>1. UNCHANGED objectVars
  BY DEF objectVars
<1>2. Inboxes'
  BY InboundTaken DEF Remembered
<1>3. InboxTypes'
  BY TailOf, TypeParts DEF ChatInv, InboxTypes
<1>4. RecordTypes' /\ LaneTypes' /\ OutsideTypes'
  BY TypeParts DEF ChatInv, RecordTypes, LaneTypes, OutsideTypes
<1>5. QED
  BY <1>1, <1>2, <1>3, <1>4, AsideStep, TypePartsNext DEF ChatInv

NewInbound(m, kind) ==
    DropInbound(m, kind) \/ RespondToInbound(m, kind) \/ EmitInbound(m, kind)

\* A message the memory does not hold was never heard.
LEMMA NewInboundStep ==
    ASSUME ChatInv, NEW m \in Messages, NEW kind \in Kinds, NewInbound(m, kind)
    PROVE  ChatInv' /\ Wanted
<1> USE DEF NewInbound, DropInbound, RespondToInbound, EmitInbound, Taking, ApplyInbound
<1>1. /\ loop = Idle /\ inbound # <<>> /\ m = Head(inbound) /\ inbound' = Tail(inbound)
      /\ ~Contains(seenIn, m) /\ seenIn' = Append(seenIn, m) /\ heardIn' = Append(heardIn, m)
      /\ UNCHANGED <<emissions, receipts, call, delivery, seenEm, cancels, heardEm,
                     heardCancels, since, lane, typing, asked, landed, acked, archived, answer,
                     unreachable>>
      /\ \/ loop' = Idle
         \/ loop' = [pc |-> "prepare", m |-> m]
         \/ loop' = [pc |-> "emit", m |-> m]
  BY DEF outsideVars, shelfVars
<1>2. seenIn \in Seq(Messages) /\ heardIn \in Seq(Messages)
  BY TypeParts DEF ChatInv, MemoryTypes
<1>3. \A x : /\ Contains(seenIn', x) <=> Contains(seenIn, x) \/ x = m
             /\ Contains(heardIn', x) <=> Contains(heardIn, x) \/ x = m
  BY <1>1, <1>2, ContainsAppend
<1>4. Inboxes'
  BY <1>1, <1>3, InboundTaken DEF Remembered
<1>5. ChatTypes'
  <2>1. InboxTypes'
    BY <1>1, TailOf, TypeParts DEF ChatInv, InboxTypes
  <2>2. MemoryTypes'
    BY <1>1, TypeParts DEF ChatInv, MemoryTypes
  <2>3. loop' \in Loops
    BY <1>1 DEF Loops
  <2>4. RecordTypes'
    BY <1>1, <2>3, TypeParts DEF ChatInv, RecordTypes
  <2>5. LaneTypes' /\ OutsideTypes'
    BY <1>1, TypeParts DEF ChatInv, LaneTypes, OutsideTypes
  <2>6. QED
    BY <2>1, <2>2, <2>4, <2>5, TypePartsNext
<1>6. Memory'
  BY <1>1, <1>2, AppendKept, KeysApart DEF ChatInv, Memory
<1>7. Outside'
  BY <1>1 DEF ChatInv, Outside, Sent
<1>8. Wanted /\ \A q \in Keys : AskedSame(q)
  BY <1>1, AskNothing
<1>9. ~Contains(heardIn, m)
  <2>1. 1 \in 1..Len(inbound) /\ m = inbound[1]
    BY <1>1, TailOf, TypeParts DEF ChatInv, InboxTypes
  <2>2. QED
    BY <1>1, <2>1 DEF ChatInv, Inboxes, Remembered
<1>10. ASSUME NEW n \in Messages PROVE MessageInv(n)'
  <2>1. CASE n # m
    BY <1>1, <1>3, <1>8, <2>1, MessageFrame, KeysApart DEF ChatInv, Idle
  <2>2. CASE n = m
    <3>1. Untouched(m, 1)'
      BY <1>1, <1>9 DEF ChatInv, MessageInv, Untouched
    <3>2. Contains(heardIn, m)' /\ loop'.pc \in {"idle", "prepare", "emit"}
      BY <1>1, <1>3 DEF Idle
    <3>3. QED
      BY <2>2, <3>1, <3>2 DEF MessageInv
  <2>3. QED
    BY <2>1, <2>2
<1>11. ASSUME NEW c \in Calls PROVE CallInv(c)'
  BY <1>1, <1>8, CallFrame, KeysApart DEF ChatInv, Called, HeardCancel, Remembered
<1>12. ASSUME NEW d \in Deliveries PROVE DeliveryInv(d)'
  BY <1>1, <1>8, DeliveryFrame, KeysApart DEF ChatInv
<1>13. QED
  BY <1>4, <1>5, <1>6, <1>7, <1>8, <1>10, <1>11, <1>12 DEF ChatInv

LEMMA LoopIn ==
    ASSUME loop \in Loops
    PROVE  /\ loop.pc \in {"idle", "prepare", "emit", "deliver"}
           /\ loop.pc # "idle" => loop.m \in Messages
           /\ loop.pc = "deliver" => loop.i \in Nat
           /\ loop.pc = "deliver" => loop = [pc |-> "deliver", m |-> loop.m, i |-> loop.i]
BY DEF Loops, Idle

\* What is left to show of a step of the loop with a message.
LEMMA LoopWork ==
    ASSUME ChatInv, LoopStays, UNCHANGED <<landed, archived, answer, unreachable>>,
           NEW m \in Messages, loop.pc # "idle", loop.m = m,
           \/ loop' = Idle
           \/ loop'.pc = "deliver" /\ loop'.m = m,
           RecordTypes', asked' \in [Commands -> Nat], acked' \subseteq landed,
           \A x \in Commands : asked[x] > 0 => asked'[x] > 0,
           \A k \in Keys : k # m => /\ AskedSame(k)
                                    /\ \A j : <<k, j>> \in acked' <=> <<k, j>> \in acked,
           (loop.pc = "deliver" => loop.i \in 1..Chunks[m] /\ Untouched(m, loop.i + 1))'
    PROVE  ChatInv'
<1> USE DEF LoopStays, inboxVars, seenVars, idVars, shelfVars, heardVars
<1>1. ChatTypes'
  <2>1. InboxTypes' /\ MemoryTypes' /\ LaneTypes'
    BY TypeParts DEF ChatInv, InboxTypes, MemoryTypes, LaneTypes
  <2>2. OutsideTypes'
    BY TypeParts DEF ChatInv, OutsideTypes
  <2>3. QED
    BY <2>1, <2>2, TypePartsNext
<1>2. Memory' /\ Inboxes'
  BY DEF ChatInv, Memory, Inboxes, Remembered
<1>3. Outside'
  BY TypeParts DEF ChatInv, Outside, Sent, OutsideTypes
<1>4. ASSUME NEW n \in Messages PROVE MessageInv(n)'
  <2>1. CASE n # m
    BY <2>1, MessageFrame, KeysApart DEF ChatInv, Idle
  <2>2. CASE n = m
    <3>1. Contains(heardIn, m)'
      BY DEF ChatInv, MessageInv
    <3>2. QED
      BY <2>2, <3>1 DEF MessageInv, Idle
  <2>3. QED
    BY <2>1, <2>2
<1>5. ASSUME NEW c \in Calls PROVE CallInv(c)'
  BY CallFrame, KeysApart DEF ChatInv, Called, HeardCancel, Remembered
<1>6. ASSUME NEW d \in Deliveries PROVE DeliveryInv(d)'
  BY DeliveryFrame, KeysApart DEF ChatInv
<1>7. QED
  BY <1>1, <1>2, <1>3, <1>4, <1>5, <1>6 DEF ChatInv

LEMMA LoopStepInv ==
    ASSUME ChatInv, MessageEmitted \/ ResponseStarts \/ ResponseSent \/ ResponseFails
    PROVE  ChatInv' /\ Wanted
<1>1. /\ RecordTypes /\ OutsideTypes /\ MemoryTypes /\ loop \in Loops
      /\ asked \in [Commands -> Nat] /\ acked \subseteq landed
  BY TypeParts DEF ChatInv, RecordTypes, OutsideTypes, Outside
<1> DEFINE m == loop.m
<1>2. loop.pc # "idle"
  BY DEF MessageEmitted, ResponseStarts, ResponseSent, ResponseFails
<1>3. /\ m \in Messages /\ m \in Keys /\ ~HeardCancel(m) /\ MessageInv(m)
      /\ Chunks[m] \in Nat /\ 1 \in 1..Chunks[m]
  BY <1>1, <1>2, LoopIn, KeysApart, OnlyCallsCancelled DEF ChatInv
<1>4. LoopStays /\ UNCHANGED <<landed, archived, answer, unreachable>>
  BY DEF MessageEmitted, ResponseStarts, ResponseSent, ResponseFails, outsideVars
<1>5. CASE LoopEnds /\ UNCHANGED asked /\ acked' \subseteq acked \cup {<<m, loop.i>>}
           /\ acked \subseteq acked' /\ acked' \subseteq landed
  <2>1. RecordTypes' /\ loop' = Idle /\ loop'.pc = "idle"
    BY <1>1, <1>3, <1>4, <1>5, LaneIn DEF RecordTypes, LoopEnds, LoopStays, Idle
  <2>2. Wanted /\ \A q \in Keys : AskedSame(q)
    BY <1>5, AskNothing
  <2>3. \A k \in Keys : k # m => \A j : <<k, j>> \in acked' <=> <<k, j>> \in acked
    BY <1>5
  <2>4. ChatInv'
    BY <1>1, <1>2, <1>3, <1>4, <1>5, <2>1, <2>2, <2>3, LoopWork
  <2>5. QED
    BY <2>2, <2>4
<1>6. ASSUME NEW i \in 1..Chunks[m], Ask(m, i), Untouched(m, i), UNCHANGED msg,
             loop' = [pc |-> "deliver", m |-> m, i |-> i],
             acked' \subseteq acked \cup {<<m, loop.i>>},
             acked \subseteq acked', acked' \subseteq landed
      PROVE  ChatInv' /\ Wanted
  <2>1. /\ asked' \in [Commands -> Nat] /\ Wanted
        /\ Untouched(m, i + 1)' /\ \A q \in Keys : q # m => AskedSame(q)
        /\ \A x \in Commands : asked[x] > 0 => asked'[x] > 0
    BY <1>1, <1>3, <1>6, AskStep
  <2>2. RecordTypes'
    <3>1. loop' \in Loops
      BY <1>3, <1>6 DEF Loops
    <3>2. QED
      BY <1>1, <1>4, <1>6, <3>1 DEF RecordTypes, LoopStays
  <2>3. \A k \in Keys : k # m => \A j : <<k, j>> \in acked' <=> <<k, j>> \in acked
    BY <1>6
  <2>4. loop'.pc = "deliver" /\ loop'.m = m /\ loop'.i = i
    BY <1>6
  <2>5. \A j \in 1..Chunks[m] : j >= loop'.i + 1 => asked'[<<m, j>>] = 0
    BY <2>1, <2>4 DEF Untouched
  <2>6. (loop.pc = "deliver" => loop.i \in 1..Chunks[loop.m] /\ Untouched(loop.m, loop.i + 1))'
    BY <1>6, <2>4, <2>5 DEF Untouched
  <2>7. ChatInv'
    BY <1>2, <1>3, <1>4, <1>6, <2>1, <2>2, <2>3, <2>4, <2>6, LoopWork
  <2>8. QED
    BY <2>1, <2>7
<1>7. CASE MessageEmitted \/ ResponseFails
  BY <1>1, <1>5, <1>7 DEF MessageEmitted, ResponseFails, outsideVars
<1>8. CASE ResponseStarts
  <2>1. Untouched(m, 1)
    BY <1>2, <1>3, <1>8 DEF ResponseStarts, MessageInv
  <2>2. QED
    BY <1>1, <1>3, <1>6, <1>8, <2>1 DEF ResponseStarts
<1>9. CASE ResponseSent
  <2>1. /\ loop.i \in 1..Chunks[m] /\ Untouched(m, loop.i + 1)
        /\ loop = [pc |-> "deliver", m |-> loop.m, i |-> loop.i]
    BY <1>1, <1>2, <1>3, <1>9, LoopIn DEF ResponseSent, MessageInv
  <2>2. /\ acked' = acked \cup {<<m, loop.i>>} /\ acked' \subseteq landed
    BY <1>1, <1>9 DEF ResponseSent
  <2>3. CASE loop.i < Chunks[m]
    <3>1. loop.i + 1 \in 1..Chunks[m] /\ Ask(m, loop.i + 1) /\ UNCHANGED msg
      BY <1>3, <1>9, <2>1, <2>3 DEF ResponseSent
    <3>2. loop' = [pc |-> "deliver", m |-> m, i |-> loop.i + 1]
      BY <1>9, <2>1, <2>3 DEF ResponseSent
    <3>3. QED
      BY <1>6, <2>1, <2>2, <3>1, <3>2
  <2>4. CASE ~(loop.i < Chunks[m])
    BY <1>5, <1>9, <2>2, <2>4 DEF ResponseSent
  <2>5. QED
    BY <2>3, <2>4
<1>10. QED
  BY <1>7, <1>8, <1>9

-----------------------------------------------------------------------------
(* Emissions.                                                              *)

\* What is taken from the front leaves the others remembered.
LEMMA EmissionTaken ==
    ASSUME ChatInv, emissions # <<>>, emissions' = Tail(emissions),
           UNCHANGED <<inbound, seenIn, heardIn>>,
           \A x : Remembered(seenEm, heardEm, x) => Remembered(seenEm, heardEm, x)',
           \A x : Remembered(cancels, heardCancels, x) => Remembered(cancels, heardCancels, x)'
    PROVE  Inboxes'
<1>1. /\ Tail(emissions) \in Seq(Emissions)
      /\ \A i \in 1..Len(Tail(emissions)) :
           i + 1 \in 1..Len(emissions) /\ Tail(emissions)[i] = emissions[i + 1]
  BY TailOf, TypeParts DEF ChatInv, InboxTypes
<1>2. ASSUME NEW i \in 1..Len(emissions')
      PROVE  /\ Remembered(seenEm', heardEm', emissions'[i])
             /\ Remembered(cancels', heardCancels', emissions'[i][2])
  <2>1. i + 1 \in 1..Len(emissions) /\ emissions'[i] = emissions[i + 1]
    BY <1>1
  <2>2. /\ Remembered(seenEm, heardEm, emissions[i + 1])
        /\ Remembered(cancels, heardCancels, emissions[i + 1][2])
    BY <2>1 DEF ChatInv, Inboxes
  <2>3. QED
    BY <2>1, <2>2 DEF Remembered
<1>3. QED
  BY <1>2 DEF ChatInv, Inboxes, Remembered

LEMMA DuplicateEmissionStep ==
    ASSUME ChatInv, NEW e \in Emissions, DuplicateEmission(e)
    PROVE  ChatInv' /\ Wanted
<1> USE DEF DuplicateEmission, TakingEmission, seenVars, idVars, shelfVars, heardVars, outsideVars
<1>1. UNCHANGED objectVars
  BY DEF objectVars
<1>2. Inboxes'
  BY EmissionTaken DEF Remembered
<1>3. InboxTypes'
  BY TailOf, TypeParts DEF ChatInv, InboxTypes
<1>4. RecordTypes' /\ LaneTypes' /\ OutsideTypes'
  BY TypeParts DEF ChatInv, RecordTypes, LaneTypes, OutsideTypes
<1>5. QED
  BY <1>1, <1>2, <1>3, <1>4, AsideStep, TypePartsNext DEF ChatInv

\* What a new emission does to everything but the call it is about.
LEMMA NewEmission ==
    ASSUME ChatInv, NEW e \in Emissions, TakingEmission(e), ApplyEmission(e),
           \/ cancels' = cancels /\ heardCancels' = heardCancels
           \/ cancels' = Append(cancels, e[2]) /\ heardCancels' = Append(heardCancels, e[2])
    PROVE  /\ InboxTypes' /\ MemoryTypes' /\ Memory' /\ Inboxes' /\ Outside' /\ OutsideTypes'
           /\ Wanted /\ \A q \in Keys : AskedSame(q)
           /\ \A m \in Messages : MessageInv(m)'
           /\ ~Contains(heardEm, e) /\ Remembered(cancels, heardCancels, e[2])
           /\ \A x : Contains(heardEm', x) <=> Contains(heardEm, x) \/ x = e
           /\ \A x : HeardCancel(x) => HeardCancel(x)'
           /\ \A x : Remembered(cancels, heardCancels, x) => Remembered(cancels, heardCancels, x)'
<1> USE DEF TakingEmission, ApplyEmission
<1>1. InboxTypes /\ MemoryTypes /\ OutsideTypes /\ e[2] \in Calls
  BY TypeParts DEF ChatInv, Emissions
<1>2. /\ emissions # <<>> /\ e = Head(emissions) /\ emissions' = Tail(emissions)
      /\ ~Contains(seenEm, e) /\ seenEm' = Append(seenEm, e) /\ heardEm' = Append(heardEm, e)
      /\ UNCHANGED <<inbound, receipts, loop, seenIn, heardIn, asked, landed, acked, archived,
                     answer, unreachable>>
  BY DEF outsideVars
<1>3. \A x : /\ Contains(seenEm', x) <=> Contains(seenEm, x) \/ x = e
             /\ Contains(heardEm', x) <=> Contains(heardEm, x) \/ x = e
  BY <1>1, <1>2, ContainsAppend DEF MemoryTypes
<1>4. /\ \A x : HeardCancel(x) => HeardCancel(x)'
      /\ \A x : Remembered(cancels, heardCancels, x) => Remembered(cancels, heardCancels, x)'
  <2>1. CASE cancels' = cancels /\ heardCancels' = heardCancels
    BY <2>1 DEF HeardCancel, Remembered
  <2>2. CASE cancels' = Append(cancels, e[2]) /\ heardCancels' = Append(heardCancels, e[2])
    <3>1. \A x : /\ Contains(cancels', x) <=> Contains(cancels, x) \/ x = e[2]
                 /\ Contains(heardCancels', x) <=> Contains(heardCancels, x) \/ x = e[2]
      BY <1>1, <2>2, ContainsAppend DEF MemoryTypes
    <3>2. QED
      BY <3>1 DEF HeardCancel, Remembered
  <2>3. QED
    BY <2>1, <2>2
<1>5. Inboxes'
  BY <1>2, <1>3, <1>4, EmissionTaken DEF Remembered
<1>6. InboxTypes' /\ MemoryTypes' /\ OutsideTypes'
  <2>1. InboxTypes' /\ OutsideTypes'
    BY <1>1, <1>2, TailOf DEF InboxTypes, OutsideTypes
  <2>2. seenEm' \in Seq(Emissions) /\ heardEm' \in Seq(Emissions)
    BY <1>1, <1>2, AppendedOnly DEF MemoryTypes
  <2>3. cancels' \in Seq(Calls) /\ heardCancels' \in Seq(Calls)
    <3>1. cancels \in Seq(Calls) /\ heardCancels \in Seq(Calls)
      BY <1>1 DEF MemoryTypes
    <3>2. Append(cancels, e[2]) \in Seq(Calls) /\ Append(heardCancels, e[2]) \in Seq(Calls)
      BY <1>1, <3>1, AppendedOnly
    <3>3. QED
      BY <3>1, <3>2
  <2>4. QED
    BY <1>1, <1>2, <2>1, <2>2, <2>3 DEF MemoryTypes
<1>7. Memory'
  <2>1. Kept(seenIn, heardIn, CarrySeen)' /\ Kept(seenEm, heardEm, CarrySeen)'
    BY <1>1, <1>2, AppendKept, KeysApart DEF ChatInv, Memory, MemoryTypes
  <2>2. Kept(cancels, heardCancels, CarryCancels)'
    BY <1>1, AppendKept, KeysApart DEF ChatInv, Memory, MemoryTypes
  <2>3. QED
    BY <2>1, <2>2 DEF Memory
<1>8. Outside'
  BY <1>2 DEF ChatInv, Outside, Sent
<1>9. Wanted /\ \A q \in Keys : AskedSame(q)
  BY <1>2, AskNothing
<1>10. \A m \in Messages : MessageInv(m)'
  BY <1>2, <1>9, MessageFrame, KeysApart DEF ChatInv
<1>11. ~Contains(heardEm, e) /\ Remembered(cancels, heardCancels, e[2])
  <2>1. 1 \in 1..Len(emissions) /\ e = emissions[1]
    BY <1>1, <1>2, TailOf DEF InboxTypes
  <2>2. QED
    BY <1>2, <2>1 DEF ChatInv, Inboxes, Remembered
<1>12. QED
  BY <1>3, <1>4, <1>5, <1>6, <1>7, <1>8, <1>9, <1>10, <1>11

LEMMA CancelTrue ==
    ASSUME ChatInv, NEW c, IsCancelled(c)
    PROVE  HeardCancel(c)
<1>1. cancels \in Seq(Calls) /\ heardCancels \in Seq(Calls)
  BY TypeParts DEF ChatInv, MemoryTypes
<1>2. Kept(cancels, heardCancels, CarryCancels)
  BY DEF ChatInv, Memory
<1>3. PICK i \in 1..Len(cancels) : cancels[i] = c
  BY DEF IsCancelled, Contains
<1>4. Len(heardCancels) - Len(cancels) + i \in 1..Len(heardCancels)
  BY <1>1, <1>2 DEF Kept
<1>5. QED
  BY <1>2, <1>3, <1>4 DEF Kept, HeardCancel, Contains

LEMMA CancellationStep ==
    ASSUME ChatInv, NEW e \in Emissions, CancellationReceived(e)
    PROVE  ChatInv' /\ Wanted
<1> USE DEF CancellationReceived
<1>1. /\ TakingEmission(e) /\ ApplyEmission(e) /\ e[1] = "cancel"
      /\ cancels' = Append(cancels, e[2]) /\ heardCancels' = Append(heardCancels, e[2])
      /\ UNCHANGED <<loop, mode, msg, call, delivery, since, lane, typing, landed, acked, archived,
                     answer>>
  BY DEF TakingEmission, outsideVars, shelfVars
<1>2. /\ InboxTypes' /\ MemoryTypes' /\ Memory' /\ Inboxes' /\ Outside' /\ OutsideTypes'
      /\ Wanted /\ \A q \in Keys : AskedSame(q)
      /\ \A m \in Messages : MessageInv(m)'
      /\ \A x : Contains(heardEm', x) <=> Contains(heardEm, x) \/ x = e
      /\ \A x : HeardCancel(x) => HeardCancel(x)'
      /\ \A x : Remembered(cancels, heardCancels, x) => Remembered(cancels, heardCancels, x)'
  BY <1>1, NewEmission
<1>3. ChatTypes'
  BY <1>1, <1>2, TypeParts, TypePartsNext DEF ChatInv, RecordTypes, LaneTypes
<1>4. ASSUME NEW c \in Calls PROVE CallInv(c)'
  <2>1. Called(c)' <=> Called(c)
    BY <1>1, <1>2 DEF Called
  <2>2. QED
    BY <1>1, <1>2, <2>1, CallFrame, KeysApart DEF ChatInv
<1>5. ASSUME NEW d \in Deliveries PROVE DeliveryInv(d)'
  BY <1>1, <1>2, DeliveryFrame, KeysApart DEF ChatInv
<1>6. QED
  BY <1>2, <1>3, <1>4, <1>5 DEF ChatInv

LEMMA CallReceivedStep ==
    ASSUME ChatInv, NEW e \in Emissions, CallReceived(e)
    PROVE  ChatInv' /\ Wanted
<1> DEFINE c == e[2]
<1>1. c \in Calls /\ c \in Keys /\ e = <<"call", c>>
  BY KeysApart DEF CallReceived, Emissions
<1>2. /\ TakingEmission(e) /\ ApplyEmission(e) /\ UNCHANGED <<cancels, heardCancels>>
      /\ UNCHANGED <<loop, mode, msg, delivery, since, typing, asked, landed, acked, archived, answer>>
  BY DEF CallReceived, TakingEmission, outsideVars, shelfVars
<1>3. /\ InboxTypes' /\ MemoryTypes' /\ Memory' /\ Inboxes' /\ Outside' /\ OutsideTypes'
      /\ Wanted /\ \A q \in Keys : AskedSame(q)
      /\ \A m \in Messages : MessageInv(m)'
      /\ ~Contains(heardEm, e) /\ Remembered(cancels, heardCancels, c)
      /\ \A x : Contains(heardEm', x) <=> Contains(heardEm, x) \/ x = e
      /\ \A x : HeardCancel(x) => HeardCancel(x)'
      /\ \A x : Remembered(cancels, heardCancels, x) => Remembered(cancels, heardCancels, x)'
  BY <1>2, NewEmission
<1>4. ~Called(c) /\ lane[c].pc = "none" /\ answer[c] = {} /\ Untouched(c, 1) /\ CallInv(c)
  BY <1>1, <1>3 DEF ChatInv, CallInv, Called
<1>5. /\ RecordTypes /\ lane \in [Calls \cup Deliveries -> Lanes] /\ typing \subseteq Deliveries
      /\ OutsideTypes
  BY TypeParts DEF ChatInv, LaneTypes
<1> HIDE DEF c
<1>6. /\ lane' \in [Calls \cup Deliveries -> Lanes]
      /\ \A k \in Calls \cup Deliveries : k # c => lane'[k] = lane[k]
      /\ \/ lane'[c] = lane[c]
         \/ IsCancelled(c) /\ lane'[c] = Answering("cancelled")
         \/ ~IsCancelled(c) /\ lane'[c] = At("prepare")
  BY <1>1, <1>5, LaneIn DEF CallReceived, Outcomes, c
<1>7. ChatTypes'
  <2>1. call' \in [Calls -> {"none", "invalid", "delivering"} \cup Outcomes]
    BY <1>1, <1>5 DEF CallReceived, RecordTypes, Outcomes, c
  <2>2. QED
    BY <1>2, <1>3, <1>5, <1>6, <2>1, TypePartsNext DEF RecordTypes, LaneTypes
<1>8. ASSUME NEW b \in Calls PROVE CallInv(b)'
  <2>1. CASE b # c
    <3>1. Called(b)' <=> Called(b)
      BY <1>1, <1>3, <2>1 DEF Called
    <3>2. QED
      BY <1>2, <1>3, <1>6, <2>1, <3>1, CallFrame, KeysApart DEF ChatInv
  <2>2. CASE b = c
    <3>1. /\ Called(c)' /\ answer'[c] = {} /\ Untouched(c, 1)'
          /\ Remembered(cancels, heardCancels, c)'
      BY <1>1, <1>2, <1>3, <1>4 DEF Called, Untouched
    <3>2. CASE lane'[c] = lane[c]
      BY <1>4, <2>2, <3>1, <3>2 DEF CallInv
    <3>3. CASE IsCancelled(c) /\ lane'[c] = Answering("cancelled")
      <4>1. HeardCancel(c)'
        BY <1>3, <3>3, CancelTrue
      <4>2. 1 \in 1..Chunks[c] /\ <<c, 1>> \notin acked'
        <5>1. 1 \in 1..Chunks[c] /\ asked[<<c, 1>>] = 0
          BY <1>1, <1>4, KeysApart DEF Untouched
        <5>2. QED
          BY <1>2, <5>1 DEF ChatInv, Outside
      <4>3. Honest(c, "cancelled")'
        BY <4>1, <4>2 DEF Honest
      <4>4. lane'[c].pc = "answer" /\ lane'[c].out = "cancelled"
        BY <3>3, LaneIn DEF Outcomes
      <4>5. QED
        BY <2>2, <3>1, <4>3, <4>4 DEF CallInv, Outcomes
    <3>4. CASE lane'[c] = At("prepare")
      <4>1. lane'[c].pc = "prepare"
        BY <3>4, LaneIn
      <4>2. QED
        BY <2>2, <3>1, <4>1 DEF CallInv
    <3>5. QED
      BY <1>6, <3>2, <3>3, <3>4
  <2>3. QED
    BY <2>1, <2>2
<1>9. ASSUME NEW d \in Deliveries PROVE DeliveryInv(d)'
  BY <1>1, <1>2, <1>3, <1>6, DeliveryFrame, KeysApart DEF ChatInv
<1>10. QED
  BY <1>3, <1>7, <1>8, <1>9 DEF ChatInv

-----------------------------------------------------------------------------
(* The lane of a call.                                                     *)

\* What a step of the lane of k does to everything but k.
LEMMA LaneWork ==
    ASSUME ChatInv, NEW k \in Calls \cup Deliveries, LaneRuns, UNCHANGED landed,
           lane' \in [Calls \cup Deliveries -> Lanes],
           \A q \in Calls \cup Deliveries : q # k => lane'[q] = lane[q],
           \A c \in Calls : c # k => answer'[c] = answer[c],
           \A d \in Deliveries : d # k => delivery'[d] = delivery[d],
           \A q \in Keys : q # k => /\ AskedSame(q)
                                    /\ \A j : <<q, j>> \in acked' <=> <<q, j>> \in acked,
           archived \subseteq archived', RecordTypes', OutsideTypes', Outside',
           k \in Calls => CallInv(k)',
           k \in Deliveries => DeliveryInv(k)'
    PROVE  ChatInv'
<1> USE DEF LaneRuns, inboxVars, seenVars, idVars, shelfVars, heardVars
<1>1. ChatTypes'
  <2>1. InboxTypes' /\ MemoryTypes' /\ LaneTypes'
    BY TypeParts DEF ChatInv, InboxTypes, MemoryTypes, LaneTypes
  <2>2. QED
    BY <2>1, TypePartsNext
<1>2. Memory' /\ Inboxes'
  BY DEF ChatInv, Memory, Inboxes, Remembered
<1>3. ASSUME NEW m \in Messages PROVE MessageInv(m)'
  BY MessageFrame, KeysApart DEF ChatInv
<1>4. ASSUME NEW c \in Calls PROVE CallInv(c)'
  <2>1. CASE c # k
    BY <2>1, CallFrame, KeysApart DEF ChatInv, Called, HeardCancel, Remembered
  <2>2. QED
    BY <2>1
<1>5. ASSUME NEW d \in Deliveries PROVE DeliveryInv(d)'
  <2>1. CASE d # k
    BY <2>1, DeliveryFrame, KeysApart DEF ChatInv
  <2>2. QED
    BY <2>1
<1>6. QED
  BY <1>1, <1>2, <1>3, <1>4, <1>5 DEF ChatInv

LEMMA MoveLane ==
    ASSUME ChatInv, NEW k \in Calls \cup Deliveries, NEW to \in Lanes, Move(k, to)
    PROVE  /\ lane' \in [Calls \cup Deliveries -> Lanes] /\ lane'[k] = to
           /\ \A q \in Calls \cup Deliveries : q # k => lane'[q] = lane[q]
BY TypeParts DEF ChatInv, LaneTypes, Move

\* A lane with nothing to do has no command of its call acknowledged.
LEMMA NothingAcked ==
    ASSUME ChatInv, NEW k \in Keys, Untouched(k, 1)
    PROVE  \A j \in 1..Chunks[k] : <<k, j>> \notin acked
<1>1. SUFFICES ASSUME NEW j \in 1..Chunks[k] PROVE asked[<<k, j>>] = 0
  BY DEF ChatInv, Outside
<1>2. QED
  BY DEF Untouched

\* The next command of a call starts, or the call ends as cancelled.
LEMMA StartStep ==
    ASSUME ChatInv, NEW c \in Calls, LaneRuns, NEW i \in 1..Chunks[c], StartCommand(c, i),
           Untouched(c, i), lane[c].pc \in {"prepare", "deliver"},
           UNCHANGED <<call, delivery, landed, archived, answer, unreachable>>,
           acked' \subseteq landed,
           \A q \in Keys : q # c => \A j : <<q, j>> \in acked' <=> <<q, j>> \in acked,
           \A j \in 1..Chunks[c] : <<c, j>> \in acked' <=> j < i
    PROVE  ChatInv' /\ Wanted
<1>1. c \in Keys /\ CallInv(c) /\ OutsideTypes /\ RecordTypes
  BY TypeParts, KeysApart DEF ChatInv
<1>2. Called(c)' /\ answer'[c] = {} /\ Remembered(cancels, heardCancels, c)
  BY <1>1 DEF CallInv, Called, LaneRuns, seenVars, idVars, shelfVars, heardVars
<1>3. UNCHANGED <<cancels, heardCancels, loop, mode, msg>>
  BY DEF LaneRuns, seenVars, idVars, shelfVars, heardVars
<1>4. RecordTypes'
  BY <1>1, <1>3 DEF RecordTypes
<1>5. ASSUME asked' \in [Commands -> Nat],
             \A x \in Commands : asked[x] > 0 => asked'[x] > 0
      PROVE  OutsideTypes' /\ Outside'
  BY <1>1, <1>5 DEF ChatInv, Outside, OutsideTypes, Sent
<1>6. CASE IsCancelled(c)
  <2>1. Move(c, Answering("cancelled")) /\ UNCHANGED asked
    BY <1>6 DEF StartCommand
  <2>2. /\ lane' \in [Calls \cup Deliveries -> Lanes] /\ lane'[c] = Answering("cancelled")
        /\ \A q \in Calls \cup Deliveries : q # c => lane'[q] = lane[q]
    BY <2>1, MoveLane, LaneIn, SMTT(30) DEF Outcomes
  <2>3. lane'[c].pc = "answer" /\ lane'[c].out = "cancelled"
    BY <2>2, LaneIn DEF Outcomes
  <2>4. HeardCancel(c)' /\ <<c, i>> \notin acked'
    BY <1>3, <1>6, CancelTrue DEF HeardCancel
  <2>5. CallInv(c)'
    <3>1. Honest(c, "cancelled")'
      BY <2>4 DEF Honest
    <3>2. Remembered(cancels, heardCancels, c)'
      BY <1>2, <1>3 DEF Remembered
    <3>3. QED
      BY <1>2, <2>3, <3>1, <3>2 DEF CallInv, Outcomes
  <2>6. Wanted /\ \A q \in Keys : AskedSame(q)
    BY <2>1, AskNothing
  <2>7. OutsideTypes' /\ Outside'
    BY <1>1, <1>5, <2>1 DEF OutsideTypes
  <2>8. c \in Calls \cup Deliveries /\ (c \in Deliveries => DeliveryInv(c)')
    BY KeysApart
  <2>9. ChatInv'
    BY <1>4, <2>2, <2>5, <2>6, <2>7, <2>8, LaneWork
  <2>10. QED
    BY <2>6, <2>9
<1>7. CASE ~IsCancelled(c)
  <2>1. Move(c, Delivering(i)) /\ Ask(c, i)
    BY <1>7 DEF StartCommand
  <2>2. i \in Nat /\ ~HeardCancel(c) /\ Delivering(i) \in Lanes /\ c \in Calls \cup Deliveries
    BY <1>2, <1>7, LaneIn DEF Remembered, IsCancelled, HeardCancel
  <2>3. /\ lane' \in [Calls \cup Deliveries -> Lanes] /\ lane'[c] = Delivering(i)
        /\ \A q \in Calls \cup Deliveries : q # c => lane'[q] = lane[q]
    BY <2>1, <2>2, MoveLane
  <2>4. lane'[c].pc = "deliver" /\ lane'[c].i = i
    BY <2>2, <2>3, LaneIn
  <2>5. /\ asked' \in [Commands -> Nat] /\ Wanted
        /\ Untouched(c, i + 1)' /\ \A q \in Keys : q # c => AskedSame(q)
        /\ \A x \in Commands : asked[x] > 0 => asked'[x] > 0
    BY <1>1, <2>1, <2>2, AskStep
  <2>6. CallInv(c)'
    <3>1. Remembered(cancels, heardCancels, c)'
      BY <1>2, <1>3 DEF Remembered
    <3>2. \A j \in 1..Chunks[c] : j >= lane'[c].i + 1 => asked'[<<c, j>>] = 0
      BY <2>4, <2>5 DEF Untouched
    <3>3. QED
      BY <1>2, <2>4, <3>1, <3>2 DEF CallInv, Untouched
  <2>7. OutsideTypes' /\ Outside'
    BY <1>5, <2>5
  <2>8. c \in Calls \cup Deliveries /\ (c \in Deliveries => DeliveryInv(c)')
    BY KeysApart
  <2>9. ChatInv'
    BY <1>4, <2>3, <2>5, <2>6, <2>7, <2>8, LaneWork
  <2>10. QED
    BY <2>5, <2>9
<1>8. QED
  BY <1>6, <1>7

LEMMA CallPreparedStep ==
    ASSUME ChatInv, NEW c \in Calls, CallPrepared(c)
    PROVE  ChatInv' /\ Wanted
<1>1. /\ lane[c].pc = "prepare" /\ StartCommand(c, 1) /\ LaneRuns
      /\ UNCHANGED <<call, delivery, landed, acked, archived, answer, unreachable>>
  BY LaneIn DEF CallPrepared
<1>2. Untouched(c, 1) /\ c \in Keys /\ 1 \in 1..Chunks[c] /\ acked \subseteq landed
  BY <1>1, KeysApart DEF ChatInv, CallInv, Outside
<1>3. \A j \in 1..Chunks[c] : <<c, j>> \notin acked' /\ ~(j < 1)
  BY <1>1, <1>2, NothingAcked
<1>4. QED
  BY <1>1, <1>2, <1>3, StartStep

\* A step of the lane of a call that asks nothing more of the provider.
LEMMA QuietCallStep ==
    ASSUME ChatInv, NEW c \in Calls, LaneRuns, NEW to \in Lanes, Move(c, to),
           UNCHANGED <<delivery, asked, landed>>, RecordTypes', OutsideTypes',
           lane[c].pc # "none", to.pc \in {"none", "archive", "receipt", "answer"},
           acked' \subseteq landed,
           \A q \in Keys : q # c => \A j : <<q, j>> \in acked' <=> <<q, j>> \in acked,
           \A b \in Calls : b # c => answer'[b] = answer[b],
           to.pc # "none" => answer' = answer,
           archived' = archived \/ (archived' = archived \cup {c} /\ Sent(c)),
           to.pc \in {"archive", "receipt"} => Sent(c),
           to.pc = "receipt" /\ c \in Sends => c \in archived',
           to.pc = "answer" => to.out \in Outcomes /\ Honest(c, to.out)',
           answer'[c] = {} \/ \E out \in Outcomes : answer'[c] = {out} /\ Honest(c, out)'
    PROVE  ChatInv' /\ Wanted
<1>1. /\ lane' \in [Calls \cup Deliveries -> Lanes] /\ lane'[c] = to
      /\ \A q \in Calls \cup Deliveries : q # c => lane'[q] = lane[q]
  BY MoveLane
<1>2. Called(c)' /\ answer[c] = {} /\ Remembered(cancels, heardCancels, c)'
  BY DEF ChatInv, CallInv, Called, Remembered, LaneRuns, seenVars, idVars, shelfVars, heardVars
<1>3. Wanted /\ \A q \in Keys : AskedSame(q)
  BY AskNothing
<1>4. Outside'
  BY DEF ChatInv, Outside, Sent
<1>5. CallInv(c)'
  <2>1. Sent(c) => Sent(c)'
    BY DEF Sent
  <2>2. QED
    BY <1>1, <1>2, <2>1 DEF CallInv
<1>6. c \in Calls \cup Deliveries /\ (c \in Deliveries => DeliveryInv(c)')
  BY KeysApart
<1>7. archived \subseteq archived'
  OBVIOUS
<1>8. ChatInv'
  BY <1>1, <1>3, <1>4, <1>5, <1>6, <1>7, LaneWork
<1>9. QED
  BY <1>3, <1>8

LEMMA AcknowledgedStep ==
    ASSUME ChatInv, NEW c \in Calls, CommandAcknowledged(c)
    PROVE  ChatInv' /\ Wanted
<1> DEFINE i == lane[c].i
<1>1. /\ lane[c].pc = "deliver" /\ <<c, i>> \in landed /\ acked' = acked \cup {<<c, i>>} /\ LaneRuns
      /\ UNCHANGED <<call, delivery, landed, archived, answer, unreachable>>
  BY DEF CommandAcknowledged
<1>2. /\ c \in Keys /\ CallInv(c) /\ Chunks[c] \in Nat /\ acked \subseteq landed
      /\ OutsideTypes /\ RecordTypes
  BY TypeParts, KeysApart DEF ChatInv, Outside
<1>3. /\ i \in 1..Chunks[c] /\ Untouched(c, i + 1) /\ answer[c] = {}
      /\ \A j \in 1..Chunks[c] : <<c, j>> \in acked <=> j < i
  BY <1>1, <1>2 DEF CallInv
<1>4. /\ acked' \subseteq landed
      /\ \A q \in Keys : q # c => \A j : <<q, j>> \in acked' <=> <<q, j>> \in acked
      /\ \A j \in 1..Chunks[c] : <<c, j>> \in acked' <=> j < i + 1
  BY <1>1, <1>2, <1>3
<1>5. CASE i < Chunks[c]
  <2>1. i + 1 \in 1..Chunks[c] /\ StartCommand(c, i + 1)
    BY <1>2, <1>3, <1>5 DEF CommandAcknowledged
  <2>2. QED
    BY <1>1, <1>3, <1>4, <2>1, StartStep
<1>6. CASE ~(i < Chunks[c])
  <2> DEFINE to == At(IF c \in Sends THEN "archive" ELSE "receipt")
  <2>1. to \in Lanes /\ to.pc = IF c \in Sends THEN "archive" ELSE "receipt"
    BY LaneIn
  <2>2. Move(c, to) /\ UNCHANGED asked
    BY <1>6 DEF CommandAcknowledged
  <2>3. Sent(c)
    BY <1>1, <1>2, <1>3, <1>6 DEF Sent
  <2>4. RecordTypes' /\ OutsideTypes'
    BY <1>1, <1>2, <1>4, <2>2 DEF RecordTypes, OutsideTypes, LaneRuns
  <2> HIDE DEF to
  <2>5. QED
    BY <1>1, <1>3, <1>4, <2>1, <2>2, <2>3, <2>4, QuietCallStep
<1>7. QED
  BY <1>5, <1>6

LEMMA StepCancelledStep ==
    ASSUME ChatInv, NEW c \in Calls, StepCancelled(c)
    PROVE  ChatInv' /\ Wanted
<1> DEFINE to == Answering("cancelled")
<1>1. /\ lane[c].pc \in {"prepare", "deliver"} /\ IsCancelled(c) /\ Move(c, to) /\ LaneRuns
      /\ UNCHANGED <<call, delivery, asked, landed, acked, archived, answer, unreachable>>
  BY DEF StepCancelled, outsideVars
<1>2. /\ c \in Keys /\ CallInv(c) /\ 1 \in 1..Chunks[c] /\ acked \subseteq landed
      /\ OutsideTypes /\ RecordTypes
  BY TypeParts, KeysApart DEF ChatInv, Outside
<1>3. to \in Lanes /\ to.pc = "answer" /\ to.out = "cancelled"
  BY LaneIn DEF Outcomes
<1>4. RecordTypes' /\ OutsideTypes'
  BY <1>1, <1>2 DEF RecordTypes, OutsideTypes, LaneRuns
<1>5. \E i \in 1..Chunks[c] : <<c, i>> \notin acked'
  <2>1. CASE lane[c].pc = "prepare"
    BY <1>1, <1>2, <2>1, NothingAcked DEF CallInv
  <2>2. CASE lane[c].pc = "deliver"
    <3>1. lane[c].i \in 1..Chunks[c] /\ <<c, lane[c].i>> \notin acked
      BY <1>2, <2>2 DEF CallInv
    <3>2. QED
      BY <1>1, <3>1
  <2>3. QED
    BY <1>1, <2>1, <2>2
<1>6. Honest(c, "cancelled")'
  BY <1>1, <1>5, CancelTrue DEF Honest, HeardCancel, LaneRuns, seenVars, idVars, shelfVars, heardVars
<1>7. answer'[c] = {}
  BY <1>1, <1>2 DEF CallInv
<1> HIDE DEF to
<1>8. QED
  BY <1>1, <1>2, <1>3, <1>4, <1>6, <1>7, QuietCallStep DEF Outcomes

LEMMA StepFailsStep ==
    ASSUME ChatInv, NEW c \in Calls, StepFails(c)
    PROVE  ChatInv' /\ Wanted
<1> DEFINE to == Answering("failed")
<1>1. /\ lane[c].pc \in {"prepare", "deliver", "archive", "receipt"} /\ Move(c, to) /\ LaneRuns
      /\ archived' = archived \/ (archived' = archived \cup {c} /\ lane[c].pc = "archive")
      /\ UNCHANGED <<call, delivery, asked, landed, acked, answer, unreachable>>
  BY DEF StepFails
<1>2. /\ c \in Keys /\ CallInv(c) /\ acked \subseteq landed /\ OutsideTypes /\ RecordTypes
  BY TypeParts, KeysApart DEF ChatInv, Outside
<1>3. to \in Lanes /\ to.pc = "answer" /\ to.out = "failed"
  BY LaneIn DEF Outcomes
<1>4. RecordTypes' /\ OutsideTypes'
  BY <1>1, <1>2 DEF RecordTypes, OutsideTypes, LaneRuns
<1>5. archived' = archived \/ (archived' = archived \cup {c} /\ Sent(c))
  BY <1>1, <1>2 DEF CallInv
<1>6. Honest(c, "failed")' /\ answer'[c] = {}
  BY <1>1, <1>2 DEF Honest, CallInv
<1> HIDE DEF to
<1>7. QED
  BY <1>1, <1>2, <1>3, <1>4, <1>5, <1>6, QuietCallStep DEF Outcomes

LEMMA ArchivedStep ==
    ASSUME ChatInv, NEW c \in Calls, SendArchived(c)
    PROVE  ChatInv' /\ Wanted
<1> DEFINE to == At("receipt")
<1>1. /\ lane[c].pc = "archive" /\ Move(c, to) /\ LaneRuns /\ archived' = archived \cup {c}
      /\ UNCHANGED <<call, delivery, asked, landed, acked, answer, unreachable>>
  BY LaneIn DEF SendArchived
<1>2. /\ c \in Keys /\ CallInv(c) /\ acked \subseteq landed /\ OutsideTypes /\ RecordTypes
  BY TypeParts, KeysApart DEF ChatInv, Outside
<1>3. to \in Lanes /\ to.pc = "receipt"
  BY LaneIn
<1>4. RecordTypes' /\ OutsideTypes'
  BY <1>1, <1>2 DEF RecordTypes, OutsideTypes, LaneRuns
<1>5. Sent(c) /\ answer'[c] = {}
  BY <1>1, <1>2 DEF CallInv
<1> HIDE DEF to
<1>6. QED
  BY <1>1, <1>2, <1>3, <1>4, <1>5, QuietCallStep

LEMMA ReceiptStep ==
    ASSUME ChatInv, NEW c \in Calls, ReceiptWritten(c)
    PROVE  ChatInv' /\ Wanted
<1> DEFINE to == Answering("resolved")
<1>1. /\ lane[c].pc = "receipt" /\ Move(c, to) /\ LaneRuns
      /\ UNCHANGED <<call, delivery, asked, landed, acked, archived, answer, unreachable>>
  BY LaneIn DEF ReceiptWritten, outsideVars
<1>2. /\ c \in Keys /\ CallInv(c) /\ acked \subseteq landed /\ OutsideTypes /\ RecordTypes
  BY TypeParts, KeysApart DEF ChatInv, Outside
<1>3. to \in Lanes /\ to.pc = "answer" /\ to.out = "resolved"
  BY LaneIn DEF Outcomes
<1>4. RecordTypes' /\ OutsideTypes'
  BY <1>1, <1>2 DEF RecordTypes, OutsideTypes, LaneRuns
<1>5. Honest(c, "resolved")' /\ answer'[c] = {}
  BY <1>1, <1>2 DEF CallInv, Honest, Sent
<1> HIDE DEF to
<1>6. QED
  BY <1>1, <1>2, <1>3, <1>4, <1>5, QuietCallStep DEF Outcomes

LEMMA AnsweredStep ==
    ASSUME ChatInv, NEW c \in Calls, CallAnswered(c)
    PROVE  ChatInv' /\ Wanted
<1>1. /\ c \in Keys /\ CallInv(c) /\ acked \subseteq landed /\ OutsideTypes /\ RecordTypes
      /\ lane[c].pc = "answer"
  BY TypeParts, KeysApart DEF ChatInv, Outside, CallAnswered
<1>2. PICK out \in Outcomes : lane[c].out = out
  BY <1>1 DEF CallInv
<1>3. Honest(c, out) /\ answer[c] = {}
  BY <1>1, <1>2 DEF CallInv
<1>4. /\ Move(c, NoLane) /\ LaneRuns
      /\ call' = [call EXCEPT ![c] = out]
      /\ \/ answer' = [answer EXCEPT ![c] = @ \cup {out}] /\ unreachable' = unreachable
         \/ answer' = answer /\ unreachable' = unreachable \cup {c}
      /\ UNCHANGED <<delivery, asked, landed, acked, archived>>
  BY <1>2 DEF CallAnswered
<1>5. RecordTypes'
  BY <1>1, <1>4 DEF RecordTypes, LaneRuns
<1>6. /\ answer' \in [Calls -> SUBSET Outcomes] /\ \A b \in Calls : b # c => answer'[b] = answer[b]
      /\ answer'[c] = {} \/ answer'[c] = {out}
  BY <1>1, <1>3, <1>4 DEF OutsideTypes
<1>7. OutsideTypes'
  BY <1>1, <1>4, <1>6 DEF OutsideTypes
<1>8. Honest(c, out)'
  BY <1>3, <1>4 DEF Honest, Sent, HeardCancel, LaneRuns, seenVars, idVars, shelfVars, heardVars
<1>9. QED
  BY <1>1, <1>4, <1>5, <1>6, <1>7, <1>8, LaneIn, QuietCallStep

-----------------------------------------------------------------------------
(* Receipts and fallbacks.                                                 *)

LEMMA ReceiptTaken ==
    ASSUME ChatInv, NEW r \in Receipts, TakingReceipt(r), NEW d \in Deliveries, r[2] = d,
           lane' \in [Calls \cup Deliveries -> Lanes], typing' \subseteq Deliveries,
           \A q \in Calls \cup Deliveries : q # d => lane'[q] = lane[q],
           RecordTypes', \A b \in Deliveries : b # d => delivery'[b] = delivery[b],
           \A b \in Deliveries : b # d => (since'[b] = {} <=> since[b] = {}),
           DeliveryInv(d)'
    PROVE  ChatInv' /\ Wanted
<1>1. /\ receipts # <<>> /\ receipts' = Tail(receipts)
      /\ UNCHANGED <<inbound, emissions, loop, seenIn, seenEm, cancels, heardIn, heardEm,
                     heardCancels, asked, landed, acked, archived, answer, unreachable>>
  BY DEF TakingReceipt, idVars, heardVars, outsideVars
<1>2. ChatTypes'
  <2>1. InboxTypes'
    BY <1>1, TailOf, TypeParts DEF ChatInv, InboxTypes
  <2>2. MemoryTypes' /\ OutsideTypes'
    BY <1>1, TypeParts DEF ChatInv, MemoryTypes, OutsideTypes
  <2>3. QED
    BY <2>1, <2>2, TypePartsNext DEF LaneTypes
<1>3. Memory' /\ Inboxes' /\ Outside'
  BY <1>1 DEF ChatInv, Memory, Inboxes, Remembered, Outside, Sent
<1>4. Wanted /\ \A q \in Keys : AskedSame(q)
  BY <1>1, AskNothing
<1>5. ASSUME NEW m \in Messages PROVE MessageInv(m)'
  BY <1>1, <1>4, MessageFrame, KeysApart DEF ChatInv
<1>6. ASSUME NEW c \in Calls PROVE CallInv(c)'
  BY <1>1, <1>4, CallFrame, KeysApart DEF ChatInv, Called, HeardCancel, Remembered
<1>7. ASSUME NEW b \in Deliveries PROVE DeliveryInv(b)'
  <2>1. CASE b # d
    BY <1>1, <1>4, <2>1, DeliveryFrame, KeysApart DEF ChatInv
  <2>2. QED
    BY <2>1
<1>8. QED
  BY <1>2, <1>3, <1>4, <1>5, <1>6, <1>7 DEF ChatInv

\* The receipt the loop takes is not of a delivery a carry has dropped.
LEMMA ReceiptKnown ==
    ASSUME ChatInv, ShelfInv, NEW r \in Receipts, TakingReceipt(r)
    PROVE  ~Forgotten(r[2])
<1>1. 1 \in 1..Len(receipts) /\ r = receipts[1]
  BY TailOf, TypeParts DEF ChatInv, InboxTypes, TakingReceipt
<1>2. QED
  BY <1>1 DEF ShelfInv

LEMMA ReceiptsStep ==
    ASSUME ChatInv, ShelfInv, NEW r \in Receipts,
           ReceiptIgnored(r) \/ DeliveryStarted(r) \/ DeliveryFinished(r)
    PROVE  ChatInv' /\ Wanted
<1>1. PICK d \in Deliveries : r[2] = d
  BY DEF Receipts
<1>2. /\ TakingReceipt(r) /\ UNCHANGED <<loop, mode, msg, call, asked, landed, archived>>
  BY DEF ReceiptIgnored, DeliveryStarted, DeliveryFinished, TakingReceipt, outsideVars
<1>3. /\ RecordTypes /\ lane \in [Calls \cup Deliveries -> Lanes] /\ typing \subseteq Deliveries
      /\ DeliveryInv(d)
  BY TypeParts DEF ChatInv, LaneTypes
<1>4. /\ ~Forgotten(d) /\ (Untouched(d, 1) => Untouched(d, 1)')
      /\ \A b \in Deliveries : b # d => (since'[b] = {} <=> since[b] = {})
  <2>1. ~Forgotten(d)
    BY <1>1, <1>2, ReceiptKnown
  <2>2. \A b \in Deliveries : b # d => (since'[b] = {} <=> since[b] = {})
    <3>1. CASE ReceiptIgnored(r)
      BY <3>1 DEF ReceiptIgnored, shelfVars
    <3>2. CASE Record(d)
      BY <3>2 DEF Record
    <3>3. QED
      BY <1>1, <3>1, <3>2 DEF DeliveryStarted, DeliveryFinished
  <2>3. QED
    BY <1>2, <2>1, <2>2 DEF Untouched
<1>5. CASE ReceiptIgnored(r)
  <2>1. UNCHANGED <<delivery, since, lane, typing>>
    BY <1>5 DEF ReceiptIgnored, shelfVars
  <2>2. RecordTypes' /\ DeliveryInv(d)'
    BY <1>2, <1>3, <2>1 DEF RecordTypes, DeliveryInv, Fresh, Untouched, Sent, Finished, Forgotten
  <2>3. QED
    BY <1>1, <1>2, <1>3, <1>4, <2>1, <2>2, ReceiptTaken
<1>6. CASE DeliveryStarted(r)
  <2>1. /\ delivery[d] = "none" /\ delivery' = [delivery EXCEPT ![d] = "started"]
        /\ typing' = typing \cup {d} /\ UNCHANGED lane
    BY <1>1, <1>6 DEF DeliveryStarted, AlreadyKnown
  <2>2. /\ RecordTypes' /\ delivery'[d] = "started"
        /\ \A b \in Deliveries : b # d => delivery'[b] = delivery[b]
    BY <1>2, <1>3, <2>1 DEF RecordTypes
  <2>3. lane[d].pc = "none" /\ Untouched(d, 1)
    BY <1>3, <1>4, <2>1 DEF DeliveryInv, Fresh, Finished, Forgotten
  <2>4. DeliveryInv(d)'
    BY <1>4, <2>1, <2>2, <2>3 DEF DeliveryInv, Fresh
  <2>5. QED
    BY <1>1, <1>2, <1>3, <1>4, <2>1, <2>2, <2>4, ReceiptTaken
<1>7. CASE DeliveryFinished(r)
  <2>1. /\ ~Finished(d)
        /\ delivery' = [delivery EXCEPT ![d] = IF d \in Runless THEN "norun" ELSE "reconciling"]
        /\ lane' = IF d \in Runless THEN lane ELSE [lane EXCEPT ![d] = At("reconcile")]
        /\ UNCHANGED typing
    BY <1>1, <1>7 DEF DeliveryFinished, AlreadyKnown
  <2>2. /\ RecordTypes' /\ delivery'[d] = IF d \in Runless THEN "norun" ELSE "reconciling"
        /\ \A b \in Deliveries : b # d => delivery'[b] = delivery[b]
    BY <1>2, <1>3, <2>1 DEF RecordTypes
  <2>3. /\ lane' \in [Calls \cup Deliveries -> Lanes]
        /\ \A q \in Calls \cup Deliveries : q # d => lane'[q] = lane[q]
        /\ lane'[d] = IF d \in Runless THEN lane[d] ELSE At("reconcile")
    BY <1>3, <2>1, LaneIn
  <2>4. lane[d].pc = "none" /\ Untouched(d, 1)
    BY <1>3, <1>4, <2>1 DEF DeliveryInv, Fresh, Finished, Forgotten
  <2>5. DeliveryInv(d)'
    BY <1>4, <2>2, <2>3, <2>4, LaneIn DEF DeliveryInv, Fresh, Finished
  <2>6. QED
    BY <1>1, <1>2, <1>3, <1>4, <2>1, <2>2, <2>3, <2>5, ReceiptTaken
<1>8. QED
  BY <1>5, <1>6, <1>7

\* A step of a fallback, given what it does to its own delivery.
LEMMA FallbackWork ==
    ASSUME ChatInv, NEW d \in Deliveries, LaneRuns, NEW to \in Lanes, Move(d, to),
           UNCHANGED <<call, landed, answer, unreachable>>,
           delivery' = delivery
             \/ \E st \in {"suppressed", "delivered", "failed"} :
                  delivery' = [delivery EXCEPT ![d] = st],
           archived' = archived \/ (archived' = archived \cup {d} /\ Sent(d)),
           acked' = acked \/ acked' = acked \cup {<<d, lane[d].i>>},
           acked' \subseteq landed,
           asked' \in [Commands -> Nat],
           \A x \in Commands : asked[x] > 0 => asked'[x] > 0,
           \A q \in Keys : q # d => AskedSame(q),
           lane'[d] = to => DeliveryInv(d)'
    PROVE  ChatInv'
<1>1. /\ lane' \in [Calls \cup Deliveries -> Lanes] /\ lane'[d] = to
      /\ \A q \in Calls \cup Deliveries : q # d => lane'[q] = lane[q]
  BY MoveLane
<1>2. RecordTypes /\ OutsideTypes /\ d \in Keys
  BY TypeParts, KeysApart DEF ChatInv
<1>3. RecordTypes' /\ \A b \in Deliveries : b # d => delivery'[b] = delivery[b]
  BY <1>2 DEF RecordTypes, LaneRuns
<1>4. OutsideTypes'
  BY <1>2 DEF OutsideTypes
<1>5. Outside' /\ archived \subseteq archived'
  BY <1>2 DEF ChatInv, Outside, Sent, OutsideTypes
<1>6. \A q \in Keys : q # d => \A j : <<q, j>> \in acked' <=> <<q, j>> \in acked
  OBVIOUS
<1>7. d \in Calls \cup Deliveries /\ (d \in Calls => CallInv(d)')
  BY KeysApart
<1>8. QED
  BY <1>1, <1>3, <1>4, <1>5, <1>6, <1>7, LaneWork

LEMMA FallbackStepInv ==
    ASSUME ChatInv, NEW d \in Deliveries, FallbackStep(d)
    PROVE  ChatInv' /\ Wanted
<1>1. /\ d \in Keys /\ 1 \in 1..Chunks[d] /\ Chunks[d] \in Nat /\ DeliveryInv(d)
      /\ OutsideTypes /\ acked \subseteq landed /\ asked \in [Commands -> Nat] /\ ~HeardCancel(d)
  BY TypeParts, KeysApart, OnlyCallsCancelled DEF ChatInv, OutsideTypes, Outside
<1>2. /\ LaneRuns /\ UNCHANGED <<call, landed, answer, unreachable>>
      /\ delivery \in [Deliveries -> {"none", "started", "norun", "reconciling", "suppressed",
                                      "delivered", "failed"}]
  BY TypeParts DEF ChatInv, RecordTypes, FallbackStep, FallbackDecided, FallbackAcknowledged,
                   FallbackArchived, FallbackFails
<1>3. ASSUME NEW i \in 1..Chunks[d], Move(d, Delivering(i)), Ask(d, i), Untouched(d, i),
             UNCHANGED <<delivery, archived>>, delivery[d] = "reconciling",
             acked' = acked \/ acked' = acked \cup {<<d, lane[d].i>>},
             acked' \subseteq landed,
             \A j \in 1..Chunks[d] : j < i => <<d, j>> \in landed
      PROVE  ChatInv' /\ Wanted
  <2>1. Delivering(i) \in Lanes /\ Delivering(i).pc = "deliver" /\ Delivering(i).i = i
    BY <1>3, LaneIn
  <2>2. /\ asked' \in [Commands -> Nat] /\ Wanted
        /\ Untouched(d, i + 1)' /\ \A q \in Keys : q # d => AskedSame(q)
        /\ \A x \in Commands : asked[x] > 0 => asked'[x] > 0
    BY <1>1, <1>3, AskStep
  <2>3. ASSUME lane'[d] = Delivering(i) PROVE DeliveryInv(d)'
    <3>1. \A j \in 1..Chunks[d] : j >= lane'[d].i + 1 => asked'[<<d, j>>] = 0
      BY <2>1, <2>2, <2>3 DEF Untouched
    <3>2. delivery'[d] = "reconciling" /\ Finished(d)' /\ lane'[d].pc = "deliver" /\ lane'[d].i = i
      BY <1>3, <2>1, <2>3 DEF Finished
    <3>3. QED
      BY <1>2, <1>3, <3>1, <3>2 DEF DeliveryInv, Fresh, Untouched
  <2>4. ChatInv'
    BY <1>2, <1>3, <2>1, <2>2, <2>3, FallbackWork
  <2>5. QED
    BY <2>2, <2>4
<1>4. ASSUME NEW st \in {"suppressed", "delivered", "failed"}, FallbackEnds(d, st),
             UNCHANGED <<asked, acked>>,
             archived' = archived \/ (archived' = archived \cup {d} /\ Sent(d)),
             st = "delivered" => d \in archived'
      PROVE  ChatInv' /\ Wanted
  <2>1. Wanted /\ \A q \in Keys : AskedSame(q)
    BY <1>4, AskNothing
  <2>2. delivery'[d] = st /\ Move(d, NoLane) /\ delivery' = [delivery EXCEPT ![d] = st]
    BY <1>2, <1>4 DEF FallbackEnds
  <2>3. ASSUME lane'[d] = NoLane PROVE DeliveryInv(d)'
    BY <1>4, <2>2, <2>3, LaneIn DEF DeliveryInv, Fresh, Finished, Forgotten
  <2>4. ChatInv'
    BY <1>1, <1>2, <1>4, <2>1, <2>2, <2>3, LaneIn, FallbackWork
  <2>5. QED
    BY <2>1, <2>4
<1>5. CASE FallbackDecided(d)
  <2>1. lane[d].pc = "reconcile" /\ UNCHANGED <<acked, archived>>
    BY <1>5, LaneIn DEF FallbackDecided
  <2>2. Untouched(d, 1) /\ delivery[d] = "reconciling"
    BY <1>1, <2>1 DEF DeliveryInv
  <2>3. CASE FallbackEnds(d, "suppressed") /\ UNCHANGED asked
    BY <1>4, <2>1, <2>3
  <2>4. CASE Move(d, Delivering(1)) /\ Ask(d, 1) /\ UNCHANGED delivery
    <3>1. \A j \in 1..Chunks[d] : j < 1 => <<d, j>> \in landed
      BY <1>1
    <3>2. QED
      BY <1>1, <1>3, <2>1, <2>2, <2>4, <3>1
  <2>5. QED
    BY <1>5, <2>3, <2>4 DEF FallbackDecided
<1>6. CASE FallbackAcknowledged(d)
  <2> DEFINE i == lane[d].i
  <2>1. /\ lane[d].pc = "deliver" /\ <<d, i>> \in landed /\ acked' = acked \cup {<<d, i>>}
        /\ UNCHANGED <<delivery, archived>> /\ acked' \subseteq landed
    BY <1>1, <1>6 DEF FallbackAcknowledged
  <2>2. /\ i \in 1..Chunks[d] /\ Untouched(d, i + 1) /\ delivery[d] = "reconciling"
        /\ \A j \in 1..Chunks[d] : j < i + 1 => <<d, j>> \in landed
    BY <1>1, <2>1 DEF DeliveryInv
  <2>3. CASE i < Chunks[d]
    <3>1. i + 1 \in 1..Chunks[d] /\ Move(d, Delivering(i + 1)) /\ Ask(d, i + 1)
      BY <1>1, <1>6, <2>2, <2>3 DEF FallbackAcknowledged
    <3>2. QED
      BY <1>3, <2>1, <2>2, <3>1
  <2>4. CASE ~(i < Chunks[d])
    <3>1. Move(d, At("archive")) /\ UNCHANGED asked /\ At("archive") \in Lanes
          /\ At("archive").pc = "archive"
      BY <1>6, <2>4, LaneIn DEF FallbackAcknowledged
    <3>2. Sent(d)
      BY <1>1, <2>2, <2>4 DEF Sent
    <3>3. Wanted /\ \A q \in Keys : AskedSame(q)
      BY <3>1, AskNothing
    <3>4. ASSUME lane'[d] = At("archive") PROVE DeliveryInv(d)'
      <4>1. lane'[d].pc = "archive" /\ delivery'[d] = "reconciling" /\ Sent(d)'
        BY <1>2, <2>1, <2>2, <3>1, <3>2, <3>4 DEF Sent
      <4>2. QED
        BY <4>1 DEF DeliveryInv, Fresh, Finished, Forgotten
    <3>5. ChatInv'
      BY <1>1, <1>2, <2>1, <3>1, <3>3, <3>4, FallbackWork
    <3>6. QED
      BY <3>3, <3>5
  <2>5. QED
    BY <2>3, <2>4
<1>7. CASE FallbackArchived(d)
  <2>1. /\ lane[d].pc = "archive" /\ archived' = archived \cup {d} /\ FallbackEnds(d, "delivered")
        /\ UNCHANGED <<asked, acked>>
    BY <1>7, LaneIn DEF FallbackArchived
  <2>2. Sent(d)
    BY <1>1, <2>1 DEF DeliveryInv
  <2>3. QED
    BY <1>4, <2>1, <2>2
<1>8. CASE FallbackFails(d)
  <2>1. /\ FallbackEnds(d, "failed") /\ UNCHANGED <<asked, acked>>
        /\ archived' = archived \/ (archived' = archived \cup {d} /\ lane[d].pc = "archive")
    BY <1>8 DEF FallbackFails
  <2>2. lane[d].pc = "archive" => Sent(d)
    BY <1>1 DEF DeliveryInv
  <2>3. QED
    BY <1>4, <2>1, <2>2
<1>9. QED
  BY <1>5, <1>6, <1>7, <1>8 DEF FallbackStep

-----------------------------------------------------------------------------
(* Continue as new: the memories are cut when nothing depends on them.     *)

LEMMA ContinueStep ==
    ASSUME ChatInv, ShelfInv, ContinueAsNew
    PROVE  ChatInv' /\ Wanted
<1>1. /\ inbound = <<>> /\ emissions = <<>>
      /\ \A k \in Calls \cup Deliveries : lane[k] = NoLane /\ lane'[k] = NoLane
      /\ lane' \in [Calls \cup Deliveries -> Lanes] /\ typing' = {}
      /\ UNCHANGED <<inboxVars, loop, mode, msg, call, heardVars, since, outsideVars>>
  BY TypeParts, LaneIn DEF ChatInv, LaneTypes, ContinueAsNew, CanContinueAsNew, LanesIdle
<1>2. /\ UNCHANGED <<inbound, emissions, receipts, msg, call, heardIn, heardEm,
                     heardCancels, asked, landed, acked, archived, answer, unreachable>>
  BY <1>1 DEF inboxVars, heardVars, outsideVars
<1>3. MemoryTypes /\ CarrySeen \in Nat /\ CarryCancels \in Nat
  BY TypeParts, KeysApart DEF ChatInv
<1>4. Memory' /\ MemoryTypes'
  <2>1. Kept(seenIn, heardIn, CarrySeen)' /\ seenIn' \in Seq(Messages)
    BY <1>2, <1>3, NewestKept DEF ChatInv, Memory, MemoryTypes, ContinueAsNew
  <2>2. Kept(seenEm, heardEm, CarrySeen)' /\ seenEm' \in Seq(Emissions)
    BY <1>2, <1>3, NewestKept DEF ChatInv, Memory, MemoryTypes, ContinueAsNew
  <2>3. Kept(cancels, heardCancels, CarryCancels)' /\ cancels' \in Seq(Calls)
    BY <1>2, <1>3, NewestKept DEF ChatInv, Memory, MemoryTypes, ContinueAsNew
  <2>4. QED
    BY <1>2, <1>3, <2>1, <2>2, <2>3 DEF Memory, MemoryTypes
<1>5. ChatTypes'
  <2>1. InboxTypes' /\ RecordTypes' /\ OutsideTypes'
    BY <1>1, <1>2, TypeParts DEF ChatInv, InboxTypes, RecordTypes, OutsideTypes, ContinueAsNew
  <2>2. QED
    BY <1>1, <1>4, <2>1, TypePartsNext DEF LaneTypes
<1>6. Inboxes' /\ Outside'
  BY <1>1, <1>2 DEF ChatInv, Inboxes, Outside, Sent
<1>7. Wanted /\ \A q \in Keys : AskedSame(q)
  BY <1>2, AskNothing
<1>8. ASSUME NEW m \in Messages PROVE MessageInv(m)'
  BY <1>1, <1>2, <1>7, MessageFrame, KeysApart DEF ChatInv
<1>9. ASSUME NEW c \in Calls PROVE CallInv(c)'
  BY <1>1, <1>2, <1>7, LaneIn, CallFrame, KeysApart DEF ChatInv, Called, HeardCancel
<1>10. ASSUME NEW d \in Deliveries PROVE DeliveryInv(d)'
  <2>1. DeliveryInv(d) /\ ShelfOf(d) /\ AskedSame(d) /\ lane[d] = NoLane /\ lane'[d] = NoLane
    BY <1>1, <1>7, KeysApart DEF ChatInv, ShelfInv
  <2>2. CASE d \notin Dropped
    <3>1. delivery'[d] = delivery[d] /\ since'[d] = since[d]
      BY <1>1, <2>2 DEF ContinueAsNew
    <3>2. QED
      BY <1>2, <2>1, <3>1, DeliveryFrame
  <2>3. CASE d \in Dropped
    <3>1. delivery'[d] = "none" /\ since'[d] = since[d] /\ delivery[d] # "none"
      BY <1>1, <2>3 DEF ContinueAsNew, Dropped, Done, Finished
    <3>2. ~Fresh(d)'
      BY <2>1, <3>1 DEF ShelfOf, Fresh, Forgotten
    <3>3. QED
      BY <2>1, <3>1, <3>2, LaneIn DEF DeliveryInv
  <2>4. QED
    BY <2>2, <2>3
<1>11. QED
  BY <1>4, <1>5, <1>6, <1>7, <1>8, <1>9, <1>10 DEF ChatInv

-----------------------------------------------------------------------------
(* The records of deliveries.                                              *)

\* The inbox may lose its head, and a fallback may end.
LEMMA ShelfFrame ==
    ASSUME ShelfInv, receipts \in Seq(Receipts), UNCHANGED shelfVars,
           receipts' = receipts \/ (receipts # <<>> /\ receipts' = Tail(receipts)),
           \A d \in Deliveries : (delivery'[d] = "none" <=> delivery[d] = "none")
                                 /\ (Finished(d)' => Finished(d))
    PROVE  ShelfInv'
<1> USE DEF shelfVars
<1>1. ASSUME NEW d \in Deliveries
      PROVE  ShelfOf(d)' /\ (Forgotten(d)' <=> Forgotten(d))
  <2>1. ShelfOf(d) /\ behind[d] \subseteq Deliveries
    BY DEF ShelfInv
  <2>2. Forgotten(d)' <=> Forgotten(d)
    BY DEF Forgotten
  <2>3. \A e \in behind[d] : Finished(e)' => Finished(e)
    BY <2>1
  <2>4. QED
    BY <2>1, <2>2, <2>3 DEF ShelfOf
<1>2. \A i \in 1..Len(receipts') : \E j \in 1..Len(receipts) : receipts'[i] = receipts[j]
  <2>1. CASE receipts' = receipts
    BY <2>1
  <2>2. CASE receipts # <<>> /\ receipts' = Tail(receipts)
    BY <2>2, TailOf
  <2>3. QED
    BY <2>1, <2>2
<1>3. \A j \in 1..Len(receipts) : receipts[j][2] \in Deliveries
  BY DEF Receipts
<1>4. (\A i \in 1..Len(receipts) : ~Forgotten(receipts[i][2]))'
  <2>1. SUFFICES ASSUME NEW i \in 1..Len(receipts'), NEW q, q = receipts'[i][2]
                 PROVE  ~Forgotten(q)'
    BY DEF Forgotten
  <2>2. PICK j \in 1..Len(receipts) : receipts'[i] = receipts[j]
    BY <1>2
  <2>3. q \in Deliveries /\ ~Forgotten(q)
    BY <1>3, <2>1, <2>2 DEF ShelfInv
  <2>4. QED
    BY <1>1, <2>3
<1>5. /\ behind' \in [Deliveries -> SUBSET Deliveries]
      /\ since' \in [Deliveries -> SUBSET Deliveries]
  BY DEF ShelfInv
<1>6. QED
  BY <1>1, <1>4, <1>5 DEF ShelfInv

\* What a new receipt of d does to the record of b.
LEMMA RecordedOf ==
    ASSUME ShelfInv, NEW d \in Deliveries, Record(d), ~Forgotten(d), ~Finished(d),
           delivery \in [Deliveries -> {"none", "started", "norun", "reconciling", "suppressed",
                                        "delivered", "failed"}],
           NEW st \in {"started", "norun", "reconciling"},
           delivery' = [delivery EXCEPT ![d] = st], NEW b \in Deliveries
    PROVE  ShelfOf(b)' /\ (Forgotten(b)' => Forgotten(b))
<1>1. /\ ShelfOf(b) /\ ShelfOf(d) /\ behind[b] \subseteq Deliveries
      /\ behind \in [Deliveries -> SUBSET Deliveries] /\ since \in [Deliveries -> SUBSET Deliveries]
  BY DEF ShelfInv
<1>2. /\ delivery'[d] = st /\ \A e \in Deliveries : e # d => delivery'[e] = delivery[e]
      /\ behind'[b] = IF delivery[b] # "none" /\ delivery[d] = "none" /\ b # d
                      THEN behind[b] \cup {d} ELSE behind[b]
      /\ since'[b] = IF since[b] # {} \/ b = d THEN since[b] \cup {d} ELSE {}
  BY <1>1 DEF Record
<1>3. IsFiniteSet(since'[b]) /\ Cardinality(since'[b]) >= Cardinality(since[b])
  <2>1. IsFiniteSet(since[b])
    BY <1>1 DEF ShelfOf
  <2>2. IsFiniteSet(since[b] \cup {d}) /\ Cardinality(since[b] \cup {d}) >= Cardinality(since[b])
    <3>1. IsFiniteSet(since[b] \cup {d})
      BY <2>1, FS_AddElement
    <3>2. QED
      BY <2>1, <3>1, FS_Subset, FS_CardinalityType
  <2>3. CASE since[b] # {} \/ b = d
    BY <1>2, <2>2, <2>3
  <2>4. CASE ~(since[b] # {} \/ b = d)
    BY <1>2, <2>1, <2>4, FS_EmptySet
  <2>5. QED
    BY <2>3, <2>4
<1>4. Forgotten(b)' => Forgotten(b)
  BY <1>1, <1>2 DEF Forgotten, ShelfOf
<1>5. Forgotten(b)' => Cardinality(since'[b]) > CarryDeliveries
  <2>1. /\ Cardinality(since[b]) \in Nat /\ Cardinality(since'[b]) \in Nat
        /\ CarryDeliveries \in Nat
    BY <1>1, <1>3, FS_CardinalityType, KeysApart DEF ShelfOf
  <2>2. QED
    BY <1>1, <1>3, <1>4, <2>1 DEF ShelfOf
<1>6. since'[b] # {} => b \in since'[b]
  BY <1>1, <1>2 DEF ShelfOf
<1>7. delivery'[b] # "none" => since'[b] # {}
  BY <1>1, <1>2 DEF ShelfOf
<1>8. delivery'[b] = "none" => behind'[b] = {}
  BY <1>1, <1>2 DEF ShelfOf
<1>9. ASSUME NEW e \in behind'[b] PROVE e # b /\ (Finished(e)' => e \in since'[b])
  <2>1. delivery[b] # "none" /\ since[b] # {}
    BY <1>1, <1>2, <1>9 DEF ShelfOf
  <2>2. since'[b] = since[b] \cup {d}
    BY <1>2, <2>1
  <2>3. CASE e = d
    <3>1. e # b
      BY <1>1, <1>2, <1>9, <2>3 DEF ShelfOf
    <3>2. QED
      BY <2>2, <2>3, <3>1
  <2>4. CASE e # d
    <3>1. e \in behind[b] /\ e \in Deliveries
      BY <1>1, <1>2, <1>9, <2>4
    <3>2. Finished(e)' => Finished(e)
      BY <1>2, <2>4, <3>1 DEF Finished
    <3>3. QED
      BY <1>1, <2>2, <3>1, <3>2 DEF ShelfOf
  <2>5. QED
    BY <2>3, <2>4
<1>10. QED
  BY <1>3, <1>4, <1>5, <1>6, <1>7, <1>8, <1>9 DEF ShelfOf

LEMMA ReceiptShelf ==
    ASSUME ChatInv, ShelfInv, NEW r \in Receipts,
           ReceiptIgnored(r) \/ DeliveryStarted(r) \/ DeliveryFinished(r)
    PROVE  ShelfInv'
<1>1. /\ receipts \in Seq(Receipts)
      /\ delivery \in [Deliveries -> {"none", "started", "norun", "reconciling", "suppressed",
                                      "delivered", "failed"}]
  BY TypeParts DEF ChatInv, InboxTypes, RecordTypes
<1>2. TakingReceipt(r) /\ receipts # <<>> /\ receipts' = Tail(receipts)
  BY DEF ReceiptIgnored, DeliveryStarted, DeliveryFinished, TakingReceipt
<1>3. r[2] \in Deliveries /\ ~Forgotten(r[2])
  BY <1>2, ReceiptKnown DEF Receipts
<1>4. CASE ReceiptIgnored(r)
  BY <1>1, <1>2, <1>4, ShelfFrame DEF ReceiptIgnored, Finished
<1>5. CASE DeliveryStarted(r) \/ DeliveryFinished(r)
  <2>1. PICK st \in {"started", "norun", "reconciling"} : delivery' = [delivery EXCEPT ![r[2]] = st]
    BY <1>5 DEF DeliveryStarted, DeliveryFinished
  <2>2. Record(r[2]) /\ ~Finished(r[2])
    BY <1>3, <1>5 DEF DeliveryStarted, DeliveryFinished, AlreadyKnown, Finished, Receipts
  <2>3. \A b \in Deliveries : ShelfOf(b)' /\ (Forgotten(b)' => Forgotten(b))
    BY <1>1, <1>3, <2>1, <2>2, RecordedOf
  <2>4. (\A i \in 1..Len(receipts) : ~Forgotten(receipts[i][2]))'
    <3>1. SUFFICES ASSUME NEW i \in 1..Len(receipts'), NEW q, q = receipts'[i][2]
                   PROVE  ~Forgotten(q)'
      BY DEF Forgotten
    <3>2. i + 1 \in 1..Len(receipts) /\ receipts'[i] = receipts[i + 1]
      BY <1>1, <1>2, TailOf
    <3>3. receipts[i + 1][2] \in Deliveries /\ ~Forgotten(receipts[i + 1][2])
      BY <1>1, <3>2 DEF ShelfInv, Receipts
    <3>4. QED
      BY <2>3, <3>1, <3>2, <3>3
  <2>5. /\ behind' \in [Deliveries -> SUBSET Deliveries]
        /\ since' \in [Deliveries -> SUBSET Deliveries]
    BY <1>3, <2>2 DEF ShelfInv, Record
  <2>6. QED
    BY <2>3, <2>4, <2>5 DEF ShelfInv
<1>6. QED
  BY <1>4, <1>5

\* What a carry drops has as many finished deliveries behind it, all heard of
\* since, as a carry keeps.
LEMMA ContinueShelf ==
    ASSUME ChatInv, ShelfInv, ContinueAsNew
    PROVE  ShelfInv'
<1>1. /\ receipts' = <<>> /\ UNCHANGED since
      /\ \A d \in Deliveries :
           /\ delivery'[d] = IF d \in Dropped THEN "none" ELSE delivery[d]
           /\ behind'[d] = BehindKept(d) /\ delivery[d] # "reconciling"
      /\ behind' \in [Deliveries -> SUBSET Deliveries]
  <2>1. /\ receipts' = <<>> /\ UNCHANGED since /\ behind' = [d \in Deliveries |-> BehindKept(d)]
        /\ delivery' = [d \in Deliveries |-> IF d \in Dropped THEN "none" ELSE delivery[d]]
    BY DEF ContinueAsNew, CanContinueAsNew, inboxVars
  <2>2. \A d \in Deliveries : BehindKept(d) \subseteq Deliveries
    BY DEF BehindKept, ShelfInv
  <2>3. \A d \in Deliveries : lane[d].pc = "none"
    BY TypeParts, LaneIn DEF ChatInv, LaneTypes, ContinueAsNew, CanContinueAsNew, LanesIdle
  <2>4. \A d \in Deliveries : delivery[d] # "reconciling"
    BY <2>3 DEF ChatInv, DeliveryInv
  <2>5. QED
    BY <2>1, <2>2, <2>4
<1>2. ASSUME NEW d \in Deliveries PROVE ShelfOf(d)'
  <2>1. ShelfOf(d) /\ since'[d] = since[d]
    BY <1>1 DEF ShelfInv
  <2>2. CASE d \in Dropped
    <3>1. delivery'[d] = "none" /\ behind'[d] = {} /\ delivery[d] # "none"
      BY <1>1, <2>2 DEF BehindKept, Dropped, Done, Finished
    <3>2. Cardinality(since[d]) > CarryDeliveries
      <4> DEFINE B == {e \in behind[d] : Done(e)}
      <4>1. B \subseteq since[d] \ {d} /\ Cardinality(B) >= CarryDeliveries
        BY <2>1, <2>2 DEF ShelfOf, Dropped, Done
      <4>2. IsFiniteSet(since[d]) /\ d \in since[d]
        BY <2>1, <3>1 DEF ShelfOf
      <4>3. /\ IsFiniteSet(since[d] \ {d})
            /\ Cardinality(since[d] \ {d}) = Cardinality(since[d]) - 1
        BY <4>2, FS_RemoveElement
      <4>4. IsFiniteSet(B) /\ Cardinality(B) <= Cardinality(since[d] \ {d})
        BY <4>1, <4>3, FS_Subset
      <4>5. Cardinality(B) \in Nat /\ Cardinality(since[d]) \in Nat /\ CarryDeliveries \in Nat
        BY <4>2, <4>4, FS_CardinalityType, KeysApart
      <4> HIDE DEF B
      <4>6. QED
        BY <4>1, <4>3, <4>4, <4>5
    <3>3. QED
      BY <2>1, <3>1, <3>2 DEF ShelfOf
  <2>3. CASE d \notin Dropped
    <3>1. delivery'[d] = delivery[d] /\ (delivery[d] = "none" => behind'[d] = {})
      BY <1>1, <2>3 DEF BehindKept
    <3>2. ASSUME NEW e \in behind'[d] PROVE e # d /\ (Finished(e)' => e \in since[d])
      <4>1. /\ e \in Deliveries /\ delivery[d] # "none"
            /\ e \in behind[d] \/ (Active(e) /\ ~Active(d))
        BY <1>1, <2>3, <3>1, <3>2 DEF BehindKept, ShelfInv
      <4>2. Finished(e)' => Finished(e) /\ ~Active(e)
        BY <1>1, <4>1 DEF Finished, Active
      <4>3. QED
        BY <2>1, <4>1, <4>2 DEF ShelfOf
    <3>3. Forgotten(d)' => Forgotten(d)
      BY <2>1, <3>1 DEF Forgotten
    <3>4. QED
      BY <2>1, <3>1, <3>2, <3>3 DEF ShelfOf
  <2>4. QED
    BY <2>2, <2>3
<1>3. QED
  BY <1>1, <1>2 DEF ShelfInv

\* The steps that leave the records of deliveries alone.
LEMMA AwayFromShelf ==
    ASSUME \/ UNCHANGED vars
           \/ \E m \in Messages : ChatInbound(m)
           \/ \E e \in Emissions : DeliverEmission(e)
           \/ \E x \in Commands : Lands(x)
           \/ \E m \in Messages : TakeInbound(m)
           \/ MessageEmitted \/ ResponseStarts \/ ResponseSent \/ ResponseFails
           \/ \E e \in Emissions : TakeEmission(e)
           \/ \E c \in Calls : CallStep(c)
           \/ \E d \in Deliveries : TypingStops(d) \/ TypingFails(d)
    PROVE  UNCHANGED <<receipts, delivery, shelfVars>>
<1> USE DEF inboxVars, recordVars, seenVars
<1>1. CASE UNCHANGED vars
  BY <1>1 DEF vars
<1>2. CASE \/ \E m \in Messages : ChatInbound(m)
           \/ \E e \in Emissions : DeliverEmission(e)
           \/ \E x \in Commands : Lands(x)
           \/ \E d \in Deliveries : TypingStops(d) \/ TypingFails(d)
  BY <1>2 DEF ChatInbound, DeliverEmission, Lands, TypingStops, TypingFails
<1>3. CASE \E m \in Messages : TakeInbound(m)
  BY <1>3 DEF TakeInbound, DuplicateInbound, DropInbound, RespondToInbound, EmitInbound, Taking
<1>4. CASE MessageEmitted \/ ResponseStarts \/ ResponseSent \/ ResponseFails
  BY <1>4 DEF MessageEmitted, ResponseStarts, ResponseSent, ResponseFails, LoopStays
<1>5. CASE \E e \in Emissions : TakeEmission(e)
  BY <1>5 DEF TakeEmission, DuplicateEmission, CancellationReceived, CallReceived, TakingEmission
<1>6. CASE \E c \in Calls : CallStep(c)
  BY <1>6 DEF CallStep, CallPrepared, CommandAcknowledged, StepCancelled, StepFails, SendArchived,
              ReceiptWritten, CallAnswered, LaneRuns
<1>7. QED
  BY <1>1, <1>2, <1>3, <1>4, <1>5, <1>6

LEMMA NextShelf == ChatInv /\ ShelfInv /\ [Next]_vars => ShelfInv'
<1> SUFFICES ASSUME ChatInv, ShelfInv, [Next]_vars PROVE ShelfInv'
  OBVIOUS
<1>1. receipts \in Seq(Receipts) /\ delivery \in [Deliveries -> {"none", "started", "norun",
         "reconciling", "suppressed", "delivered", "failed"}]
  BY TypeParts DEF ChatInv, InboxTypes, RecordTypes
<1>2. CASE UNCHANGED <<receipts, delivery, shelfVars>>
  BY <1>1, <1>2, ShelfFrame DEF Finished
<1>3. ASSUME NEW r \in Receipts, BotDelivery(r) PROVE ShelfInv'
  <2>1. receipts' = Append(receipts, r) /\ UNCHANGED <<delivery, shelfVars>>
    BY <1>3 DEF BotDelivery, recordVars, seenVars
  <2>2. r[2] \in Deliveries /\ ~Forgotten(r[2])
    <3>1. r[2] \in Deliveries
      BY DEF Receipts
    <3>2. Cardinality(since[r[2]]) \in Nat /\ CarryDeliveries \in Nat
      BY <3>1, FS_CardinalityType, KeysApart DEF ShelfInv, ShelfOf
    <3>3. Cardinality(since[r[2]]) <= CarryDeliveries
      BY <1>3 DEF BotDelivery, RecentDelivery
    <3>4. QED
      BY <3>1, <3>2, <3>3 DEF ShelfInv, ShelfOf
  <2>3. \A i \in 1..Len(receipts') :
          receipts'[i] = r \/ (i \in 1..Len(receipts) /\ receipts'[i] = receipts[i])
    BY <1>1, <2>1, AppendedOnly
  <2>4. \A i \in 1..Len(receipts') : ~Forgotten(receipts'[i][2])
    BY <2>2, <2>3 DEF ShelfInv
  <2>5. \A d \in Deliveries : ShelfOf(d)'
    BY <2>1 DEF ShelfInv, ShelfOf, Finished, Forgotten, shelfVars
  <2>6. QED
    BY <2>1, <2>4, <2>5 DEF ShelfInv, Forgotten, shelfVars
<1>4. ASSUME NEW r \in Receipts, TakeReceipt(r) PROVE ShelfInv'
  BY <1>4, ReceiptShelf DEF TakeReceipt
<1>5. ASSUME NEW d \in Deliveries, FallbackStep(d) PROVE ShelfInv'
  <2>1. UNCHANGED <<receipts, shelfVars>> /\ lane[d].pc # "none"
    BY <1>5, LaneIn, TypeParts
    DEF FallbackStep, FallbackDecided, FallbackAcknowledged, FallbackArchived, FallbackFails,
        LaneRuns, inboxVars, seenVars, ChatInv, DeliveryInv, LaneTypes
  <2>2. delivery[d] = "reconciling"
    BY <2>1 DEF ChatInv, DeliveryInv
  <2>3. \/ UNCHANGED delivery
        \/ \E st \in {"suppressed", "delivered", "failed"} : delivery' = [delivery EXCEPT ![d] = st]
    BY <1>5 DEF FallbackStep, FallbackDecided, FallbackAcknowledged, FallbackArchived,
                FallbackFails, FallbackEnds
  <2>4. \A b \in Deliveries : (delivery'[b] = "none" <=> delivery[b] = "none")
                              /\ (Finished(b)' => Finished(b))
    BY <1>1, <2>2, <2>3 DEF Finished
  <2>5. QED
    BY <1>1, <2>1, <2>4, ShelfFrame
<1>6. CASE ContinueAsNew
  BY <1>6, ContinueShelf
<1>7. QED
  BY <1>2, <1>3, <1>4, <1>5, <1>6, AwayFromShelf DEF Next, LoopStep

-----------------------------------------------------------------------------

\* Every step keeps the invariant and asks only for what is wanted.
LEMMA NextChat == ChatInv /\ ShelfInv /\ [Next]_vars => ChatInv' /\ Wanted
<1> SUFFICES ASSUME ChatInv, ShelfInv, [Next]_vars PROVE ChatInv' /\ Wanted
  OBVIOUS
<1>1. CASE UNCHANGED vars
  BY <1>1, StutterStep
<1>2. CASE \/ \E m \in Messages : ChatInbound(m)
           \/ \E e \in Emissions : DeliverEmission(e)
           \/ \E r \in Receipts : BotDelivery(r)
  BY <1>2, SignalStep
<1>3. CASE \E x \in Commands : Lands(x)
  BY <1>3, LandsStep
<1>4. CASE LoopStep
  <2>1. ASSUME NEW m \in Messages, TakeInbound(m) PROVE ChatInv' /\ Wanted
    BY <2>1, DuplicateInboundStep, NewInboundStep DEF TakeInbound, NewInbound
  <2>2. ASSUME NEW e \in Emissions, TakeEmission(e) PROVE ChatInv' /\ Wanted
    BY <2>2, DuplicateEmissionStep, CancellationStep, CallReceivedStep DEF TakeEmission
  <2>3. ASSUME NEW r \in Receipts, TakeReceipt(r) PROVE ChatInv' /\ Wanted
    BY <2>3, ReceiptsStep DEF TakeReceipt
  <2>4. QED
    BY <1>4, <2>1, <2>2, <2>3, LoopStepInv DEF LoopStep
<1>5. ASSUME NEW c \in Calls, CallStep(c) PROVE ChatInv' /\ Wanted
  BY <1>5, CallPreparedStep, AcknowledgedStep, StepCancelledStep, StepFailsStep, ArchivedStep,
     ReceiptStep, AnsweredStep
  DEF CallStep
<1>6. ASSUME NEW d \in Deliveries, FallbackStep(d) \/ TypingStops(d) \/ TypingFails(d)
      PROVE  ChatInv' /\ Wanted
  BY <1>6, FallbackStepInv, TypingStep
<1>7. CASE ContinueAsNew
  BY <1>7, ContinueStep
<1>8. QED
  BY <1>1, <1>2, <1>3, <1>4, <1>5, <1>6, <1>7 DEF Next

LEMMA InitShelf == Init => ShelfInv
BY FS_EmptySet DEF Init, ShelfInv, ShelfOf, Forgotten

\* The memories hold what a repeat needs, the records of deliveries too, and
\* every message, call and delivery is where its lane, its answer and its
\* commands say it is.
THEOREM ChatInvariant == Spec => [](TypeOK /\ ChatInv /\ ShelfInv)
<1>1. ChatInv /\ ShelfInv /\ [Next]_vars => ChatInv' /\ ShelfInv'
  BY NextChat, NextShelf
<1>2. ChatInv /\ ShelfInv => TypeOK
  BY DEF ChatInv, ChatTypes, InboxTypes, RecordTypes, MemoryTypes, LaneTypes, Lanes, OutsideTypes,
         ShelfInv, TypeOK
<1>3. QED
  BY InitChat, InitShelf, <1>1, <1>2, PTL DEF Spec

\* However much or little of the ids, the cancellations and the deliveries a
\* carry keeps, as long as repeats come while their ids, and receipts while
\* their deliveries, are among the newest it keeps: no command is asked of the
\* provider twice, and none for a call whose cancellation the loop has taken.
THEOREM NeverUnwanted == Spec => NoUnwantedSend
<1>1. ChatInv /\ ShelfInv /\ [Next]_vars =>
        [\A x \in Commands : asked'[x] # asked[x] => asked[x] = 0 /\ ~HeardCancel(x[1])]_vars
  BY NextChat DEF Wanted
<1>2. QED
  BY ChatInvariant, <1>1, PTL DEF Spec, NoUnwantedSend

\* Whoever pushed a call gets one answer and the true one, and what is on record
\* as delivered or archived is with the provider.
THEOREM AlwaysHonest == Spec => []AnsweredHonestly
<1>1. ChatInv => AnsweredHonestly
  <2> SUFFICES ASSUME ChatInv PROVE AnsweredHonestly
    OBVIOUS
  <2>1. ASSUME NEW c \in Calls
        PROVE  /\ Cardinality(answer[c]) <= 1
               /\ "resolved" \in answer[c] =>
                    /\ \A i \in 1..Chunks[c] : <<c, i>> \in landed
                    /\ c \in Sends => c \in archived
               /\ "cancelled" \in answer[c] =>
                    HeardCancel(c) /\ \E i \in 1..Chunks[c] : <<c, i>> \notin acked
    <3>1. CASE answer[c] = {}
      BY <3>1, FS_EmptySet
    <3>2. CASE \E out \in Outcomes : answer[c] = {out} /\ Honest(c, out)
      BY <3>2, FS_Singleton DEF Honest, Sent
    <3>3. QED
      BY <3>1, <3>2 DEF ChatInv, CallInv
  <2>2. \A k \in archived : \A i \in 1..Chunks[k] : <<k, i>> \in landed
    BY DEF ChatInv, Outside, Sent
  <2>3. \A d \in Deliveries : delivery[d] = "delivered" => d \in archived
    BY DEF ChatInv, DeliveryInv
  <2>4. QED
    BY <2>1, <2>2, <2>3 DEF AnsweredHonestly
<1>2. QED
  BY ChatInvariant, <1>1, PTL

=============================================================================
