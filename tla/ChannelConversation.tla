------------------------ MODULE ChannelConversation ------------------------
(***************************************************************************)
(* The conversation workflow of a chat (temporal-workflow/workflows/       *)
(* channels) over its state (crates/channels): provider messages become    *)
(* bot events, the bot's message tools become sends to the provider, and   *)
(* the end of a delivery becomes a reply when the run wrote none itself.   *)
(*                                                                         *)
(* Signals only fill the inboxes.  The loop drains them: a provider        *)
(* message is handled inline, a pushed call or a finished delivery starts  *)
(* a lane.  The lanes run while the loop awaits; an action is the code     *)
(* from one await to the next.  An activity without an effect the          *)
(* properties see (the gate, the arguments, the handle, a blob) is part of *)
(* the step that awaits it.  The connector is external: a command that was *)
(* scheduled may reach the provider at any later time, also after the      *)
(* workflow gave it up.  Signals are repeated and overtake one another.    *)
(***************************************************************************)
EXTENDS Naturals, Sequences, FiniteSets, SequencesExt

CONSTANTS
    Messages,      \* provider messages
    Kinds,         \* what a message may be: "control", "denied", "ambient", "turn"
    Direct,        \* the chat has one other member
    InitialMode,   \* initial_group_activation
    Calls,         \* message_* invocations pushed by sessions
    Sends,         \* calls that send; the others edit or react
    Deliveries,    \* deliveries of the bot
    Runless,       \* deliveries steered or appended into a run
    Chunks,        \* command key -> number of commands its text takes
    InboxCap,      \* CHANNEL_INBOUND_INBOX_CAP
    CarrySeen,     \* MAX_CARRIED_SEEN_IDS
    CarryCancels,  \* MAX_CARRIED_CANCELLATIONS
    CarryDeliveries, \* MAX_CARRIED_DELIVERIES
    MaxFailures,   \* bound on activities and signals that fail
    MaxSignals,    \* bound on different signals that are sent
    MaxRepeats,    \* bound on signals that are repeated
    MaxContinues   \* bound on continue-as-new

(* What a command to the provider is for: a policy response to a message,  *)
(* a call, or the fallback of a delivery.                                  *)
Keys == Messages \cup Calls \cup Deliveries

ASSUME ConversationAssumption ==
    /\ Messages \cap Calls = {} /\ Messages \cap Deliveries = {} /\ Calls \cap Deliveries = {}
    /\ Kinds \subseteq {"control", "denied", "ambient", "turn"}
    /\ Direct \in BOOLEAN /\ InitialMode \in {"mention", "always"} /\ Sends \subseteq Calls
    /\ Runless \subseteq Deliveries /\ Chunks \in [Keys -> Nat \ {0}]
    /\ \A c \in Calls \ Sends : Chunks[c] = 1
    /\ {InboxCap, CarrySeen, CarryCancels, CarryDeliveries} \subseteq Nat \ {0}
    /\ {MaxFailures, MaxSignals, MaxRepeats, MaxContinues} \subseteq Nat

Commands == UNION {{<<k, i>> : i \in 1..Chunks[k]} : k \in Keys}
Emissions == {"call", "cancel"} \X Calls
Receipts == {"started", "finished"} \X Deliveries

VARIABLES
    inbound, emissions, receipts,  \* the three inboxes
    loop,       \* the message the loop is busy with
    mode,       \* group_activation
    msg,        \* messages and policy_responses: what became of a message
    call,       \* invocations: what became of a call
    delivery,   \* deliveries: what became of a delivery
    behind,     \* deliveries: the records that stand behind one in the ordered map
    seenIn,     \* seen_inbound_ids
    seenEm,     \* seen_emission_ids
    cancels,    \* cancellations
    lane,       \* the lane of a call or of a fallback
    typing,     \* deliveries with a typing lane
    asked,      \* command -> how often it was scheduled
    landed,     \* commands that reached the provider
    acked,      \* commands whose answer the workflow saw
    archived,   \* keys with a chat.sent row
    answer,     \* call -> what its holder was told
    unreachable,\* calls whose holder could not be told
    heardIn, heardEm, heardCancels,  \* history: what was new when it was taken
    since,      \* history: the deliveries heard of since one was first heard of
    told,       \* signals sent so far
    failures, repeats, continues

inboxVars == <<inbound, emissions, receipts>>
recordVars == <<msg, call, delivery>>
heardVars == <<heardIn, heardEm, heardCancels>>
idVars == <<seenIn, seenEm, cancels, heardVars>>
shelfVars == <<behind, since>>
seenVars == <<idVars, shelfVars>>
outsideVars == <<asked, landed, acked, archived, answer, unreachable>>
boundVars == <<told, failures, repeats, continues>>
vars == <<inboxVars, loop, mode, recordVars, seenVars, lane, typing, outsideVars, boundVars>>

Idle == [pc |-> "idle"]
Lane(pc, i, out) == [pc |-> pc, i |-> i, out |-> out]
NoLane == Lane("none", 0, "")
At(pc) == Lane(pc, 0, "")
Delivering(i) == Lane("deliver", i, "")
Answering(out) == Lane("answer", 0, out)

Init ==
    /\ inbound = <<>> /\ emissions = <<>> /\ receipts = <<>>
    /\ loop = Idle /\ mode = InitialMode
    /\ msg = [m \in Messages |-> "none"]
    /\ call = [c \in Calls |-> "none"]
    /\ delivery = [d \in Deliveries |-> "none"]
    /\ seenIn = <<>> /\ seenEm = <<>> /\ cancels = <<>>
    /\ heardIn = <<>> /\ heardEm = <<>> /\ heardCancels = <<>>
    /\ behind = [d \in Deliveries |-> {}] /\ since = [d \in Deliveries |-> {}]
    /\ lane = [k \in Calls \cup Deliveries |-> NoLane] /\ typing = {}
    /\ asked = [x \in Commands |-> 0] /\ landed = {} /\ acked = {}
    /\ archived = {}
    /\ answer = [c \in Calls |-> {}] /\ unreachable = {}
    /\ told = {} /\ failures = 0 /\ repeats = 0 /\ continues = 0

(* SeenSet::newest and tail: what a bounded carry keeps. *)
Newest(s, n) == IF Len(s) <= n THEN s ELSE SubSeq(s, Len(s) - n + 1, Len(s))

(* A repeat comes while its id is among the n newest ones. *)
Recent(s, x, n) == Contains(s, x) => Contains(Newest(s, n), x)

IsCancelled(c) == Contains(cancels, c)
Ask(k, i) == asked' = [asked EXCEPT ![<<k, i>>] = @ + 1]

Fail == failures < MaxFailures /\ failures' = failures + 1

Tell(x) ==
    /\ told' = told \cup {x}
    /\ IF x \in told
       THEN repeats < MaxRepeats /\ repeats' = repeats + 1
       ELSE Cardinality(told) < MaxSignals /\ UNCHANGED repeats

-----------------------------------------------------------------------------
\* Signals

(* chat_inbound: beyond the ceiling the message is shed. *)
ChatInbound(m) ==
    /\ Tell(m) /\ Recent(heardIn, m, CarrySeen)
    /\ inbound' = IF Len(inbound) >= InboxCap THEN inbound ELSE Append(inbound, m)
    /\ UNCHANGED <<emissions, receipts, loop, mode, recordVars, seenVars, lane, typing,
                   outsideVars, failures, continues>>

(* deliver_emission.  A call overtaken by its own cancellation comes while *)
(* the cancellation is among the ones a carry keeps.                       *)
DeliverEmission(e) ==
    /\ Tell(e) /\ Recent(heardEm, e, CarrySeen)
    /\ Recent(heardCancels, e[2], CarryCancels)
    /\ emissions' = Append(emissions, e)
    /\ UNCHANGED <<inbound, receipts, loop, mode, recordVars, seenVars, lane, typing,
                   outsideVars, failures, continues>>

(* A receipt is repeated, or comes after a later one of its delivery,      *)
(* before CarryDeliveries other deliveries were heard of.                  *)
RecentDelivery(d) == Cardinality(since[d]) <= CarryDeliveries

(* bot_delivery *)
BotDelivery(r) ==
    /\ Tell(r) /\ RecentDelivery(r[2])
    /\ receipts' = Append(receipts, r)
    /\ UNCHANGED <<inbound, emissions, loop, mode, recordVars, seenVars, lane, typing,
                   outsideVars, failures, continues>>

-----------------------------------------------------------------------------
\* The connector (external)

Lands(x) ==
    /\ asked[x] > 0 /\ x \notin landed
    /\ landed' = landed \cup {x}
    /\ UNCHANGED <<inboxVars, loop, mode, recordVars, seenVars, lane, typing, asked, acked,
                   archived, answer, unreachable, boundVars>>

-----------------------------------------------------------------------------
\* Provider messages, one at a time

(* plan_inbound: commands before activation, activation by the live mode. *)
PlanInbound(kind) ==
    CASE kind = "control" -> "control"
      [] kind = "denied" -> IF Direct THEN "denied" ELSE "silent"
      [] kind = "ambient" -> IF Direct \/ mode = "always" THEN "emit" ELSE "drop"
      [] OTHER -> "emit"

Taking(m) ==
    /\ loop = Idle /\ inbound # <<>> /\ m = Head(inbound)
    /\ inbound' = Tail(inbound)
    /\ UNCHANGED <<emissions, receipts, call, delivery, seenEm, cancels, heardEm, heardCancels, shelfVars,
                   lane, typing, outsideVars, boundVars>>

(* apply_inbound: true when the message is new. *)
ApplyInbound(m) ==
    /\ ~Contains(seenIn, m)
    /\ seenIn' = Append(seenIn, m) /\ heardIn' = Append(heardIn, m)

DuplicateInbound(m) ==
    /\ Taking(m) /\ Contains(seenIn, m)
    /\ UNCHANGED <<loop, mode, msg, seenIn, heardIn>>

DropInbound(m, kind) ==
    /\ Taking(m) /\ ApplyInbound(m)
    /\ PlanInbound(kind) \in {"drop", "silent"}
    /\ msg' = [msg EXCEPT ![m] = "settled"]
    /\ UNCHANGED <<loop, mode>>

(* control_reply, which may set the group mode, and the denial. *)
RespondToInbound(m, kind) ==
    /\ Taking(m) /\ ApplyInbound(m)
    /\ PlanInbound(kind) \in {"control", "denied"}
    /\ mode' \in IF PlanInbound(kind) = "control" /\ ~Direct
                THEN {"mention", "always"} ELSE {mode}
    /\ msg' = [msg EXCEPT ![m] = "responding"]
    /\ loop' = [pc |-> "prepare", m |-> m]

EmitInbound(m, kind) ==
    /\ Taking(m) /\ ApplyInbound(m)
    /\ PlanInbound(kind) = "emit"
    /\ msg' = [msg EXCEPT ![m] = "emitting"]
    /\ loop' = [pc |-> "emit", m |-> m]
    /\ UNCHANGED mode

LoopStays == UNCHANGED <<inboxVars, mode, call, delivery, seenVars, lane, typing>>
LoopEnds == loop' = Idle /\ msg' = [msg EXCEPT ![loop.m] = "settled"]

(* emit_message: the admission as an event of the bot; whatever comes of   *)
(* it is recorded.  The media prepared and transcribed before it are left  *)
(* out.                                                                    *)
MessageEmitted ==
    /\ loop.pc = "emit"
    /\ LoopEnds
    /\ LoopStays
    /\ UNCHANGED <<outsideVars, boundVars>>

(* send_policy_response: the gate, then each command in turn. *)
ResponseStarts ==
    /\ loop.pc = "prepare"
    /\ loop' = [pc |-> "deliver", m |-> loop.m, i |-> 1]
    /\ Ask(loop.m, 1)
    /\ LoopStays
    /\ UNCHANGED <<msg, landed, acked, archived, answer, unreachable, boundVars>>

ResponseSent ==
    /\ loop.pc = "deliver" /\ <<loop.m, loop.i>> \in landed
    /\ acked' = acked \cup {<<loop.m, loop.i>>}
    /\ IF loop.i < Chunks[loop.m]
       THEN /\ loop' = [loop EXCEPT !.i = @ + 1] /\ Ask(loop.m, loop.i + 1)
            /\ UNCHANGED msg
       ELSE LoopEnds /\ UNCHANGED asked
    /\ LoopStays
    /\ UNCHANGED <<landed, archived, answer, unreachable, boundVars>>

ResponseFails ==
    /\ loop.pc \in {"prepare", "deliver"}
    /\ Fail /\ LoopEnds
    /\ LoopStays
    /\ UNCHANGED <<outsideVars, told, repeats, continues>>

-----------------------------------------------------------------------------
\* Emissions, once no provider message waits

TakingEmission(e) ==
    /\ loop = Idle /\ inbound = <<>> /\ emissions # <<>> /\ e = Head(emissions)
    /\ emissions' = Tail(emissions)
    /\ UNCHANGED <<inbound, receipts, loop, mode, msg, delivery, seenIn, heardIn, shelfVars,
                   typing, outsideVars, boundVars>>

(* apply_emission: true when the emission is new. *)
ApplyEmission(e) ==
    /\ ~Contains(seenEm, e)
    /\ seenEm' = Append(seenEm, e) /\ heardEm' = Append(heardEm, e)

DuplicateEmission(e) ==
    /\ TakingEmission(e) /\ Contains(seenEm, e)
    /\ UNCHANGED <<call, seenEm, heardEm, cancels, heardCancels, lane>>

(* A cancellation is only recorded; the lane it concerns observes it. *)
CancellationReceived(e) ==
    /\ TakingEmission(e) /\ e[1] = "cancel" /\ ApplyEmission(e)
    /\ cancels' = Append(cancels, e[2]) /\ heardCancels' = Append(heardCancels, e[2])
    /\ UNCHANGED <<call, lane>>

(* A call of another bot's session, or without a reply promise, is only    *)
(* recorded; one whose cancellation came first is only answered; the       *)
(* others are run.                                                         *)
CallReceived(e) ==
    LET c == e[2] IN
    /\ TakingEmission(e) /\ e[1] = "call" /\ ApplyEmission(e)
    /\ UNCHANGED <<cancels, heardCancels>>
    /\ \/ /\ call' = [call EXCEPT ![c] = "invalid"]
          /\ UNCHANGED lane
       \/ /\ IsCancelled(c)
          /\ call' = [call EXCEPT ![c] = "cancelled"]
          /\ lane' = [lane EXCEPT ![c] = Answering("cancelled")]
       \/ /\ ~IsCancelled(c)
          /\ call' = [call EXCEPT ![c] = "delivering"]
          /\ lane' = [lane EXCEPT ![c] = At("prepare")]

-----------------------------------------------------------------------------
\* The lane of a call: run_invocation

(* with_lanes: lanes are polled while the loop awaits, inside a message or *)
(* parked with its inboxes empty.                                          *)
LanesPolled ==
    loop # Idle \/ (inbound = <<>> /\ emissions = <<>> /\ receipts = <<>>)

LaneRuns == LanesPolled /\ UNCHANGED <<inboxVars, loop, mode, msg, seenVars, typing>>
Move(k, to) == lane' = [lane EXCEPT ![k] = to]

(* Mutant: the next step starts whether or not the call was cancelled. *)
StartCommandAnyway(c, i) == Move(c, Delivering(i)) /\ Ask(c, i)

(* step: a cancellable step never starts once the call was cancelled. *)
StartCommand(c, i) ==
    IF IsCancelled(c)
    THEN Move(c, Answering("cancelled")) /\ UNCHANGED asked
    ELSE Move(c, Delivering(i)) /\ Ask(c, i)

(* The gate, the arguments and the handle they refer to. *)
CallPrepared(c) ==
    /\ lane[c] = At("prepare")
    /\ StartCommand(c, 1)
    /\ LaneRuns
    /\ UNCHANGED <<call, delivery, landed, acked, archived, answer, unreachable,
                   boundVars>>

(* deliver_planned: a command was acknowledged. *)
CommandAcknowledged(c) ==
    /\ lane[c].pc = "deliver" /\ <<c, lane[c].i>> \in landed
    /\ acked' = acked \cup {<<c, lane[c].i>>}
    /\ IF lane[c].i < Chunks[c]
       THEN StartCommand(c, lane[c].i + 1)
       ELSE /\ Move(c, At(IF c \in Sends THEN "archive" ELSE "receipt"))
            /\ UNCHANGED asked
    /\ LaneRuns
    /\ UNCHANGED <<call, delivery, landed, archived, answer, unreachable, boundVars>>

(* A step in flight is abandoned; what it sent may still land. *)
StepCancelled(c) ==
    /\ lane[c].pc \in {"prepare", "deliver"} /\ IsCancelled(c)
    /\ Move(c, Answering("cancelled"))
    /\ LaneRuns
    /\ UNCHANGED <<call, delivery, outsideVars, boundVars>>

StepFails(c) ==
    /\ lane[c].pc \in {"prepare", "deliver", "archive", "receipt"} /\ Fail
    /\ Move(c, Answering("failed"))
    /\ \/ UNCHANGED archived
       \/ lane[c].pc = "archive" /\ archived' = archived \cup {c}
    /\ LaneRuns
    /\ UNCHANGED <<call, delivery, asked, landed, acked, answer, unreachable,
                   told, repeats, continues>>

(* Mutant: the receipt is written without waiting for the archive. *)
SendArchivedLater(c) ==
    /\ lane[c] = At("archive")
    /\ Move(c, At("receipt"))
    /\ LaneRuns
    /\ UNCHANGED <<call, delivery, outsideVars, boundVars>>

(* store_chat_sent: not cancellable, keyed by the call. *)
SendArchived(c) ==
    /\ lane[c] = At("archive")
    /\ archived' = archived \cup {c}
    /\ Move(c, At("receipt"))
    /\ LaneRuns
    /\ UNCHANGED <<call, delivery, asked, landed, acked, answer, unreachable,
                   boundVars>>

ReceiptWritten(c) ==
    /\ lane[c] = At("receipt")
    /\ Move(c, Answering("resolved"))
    /\ LaneRuns
    /\ UNCHANGED <<call, delivery, outsideVars, boundVars>>

(* resolve_promise, then the record; a signal that fails is only logged. *)
CallAnswered(c) ==
    /\ lane[c].pc = "answer"
    /\ \/ answer' = [answer EXCEPT ![c] = @ \cup {lane[c].out}] /\ UNCHANGED <<unreachable, failures>>
       \/ Fail /\ unreachable' = unreachable \cup {c} /\ UNCHANGED answer
    /\ call' = [call EXCEPT ![c] = lane[c].out]
    /\ Move(c, NoLane)
    /\ LaneRuns
    /\ UNCHANGED <<delivery, asked, landed, acked, archived, told, repeats, continues>>

-----------------------------------------------------------------------------
\* Receipts, once no emission waits

TakingReceipt(r) ==
    /\ loop = Idle /\ inbound = <<>> /\ emissions = <<>>
    /\ receipts # <<>> /\ r = Head(receipts)
    /\ receipts' = Tail(receipts)
    /\ UNCHANGED <<inbound, emissions, loop, mode, msg, call, idVars, outsideVars, boundVars>>

Finished(d) == delivery[d] \notin {"none", "started"}

(* record_delivery_receipt: what was already known in this or in a later   *)
(* phase is ignored.                                                       *)
AlreadyKnown(r) ==
    \/ r[1] = "started" /\ delivery[r[2]] # "none"
    \/ r[1] = "finished" /\ Finished(r[2])

ReceiptIgnored(r) ==
    /\ TakingReceipt(r) /\ AlreadyKnown(r)
    /\ UNCHANGED <<delivery, shelfVars, lane, typing>>

(* A record that is new goes behind the others. *)
Record(d) ==
    /\ behind' = [b \in Deliveries |->
                    IF delivery[b] # "none" /\ delivery[d] = "none" /\ b # d
                    THEN behind[b] \cup {d} ELSE behind[b]]
    /\ since' = [b \in Deliveries |->
                   IF since[b] # {} \/ b = d THEN since[b] \cup {d} ELSE {}]

DeliveryStarted(r) ==
    /\ TakingReceipt(r) /\ r[1] = "started" /\ ~AlreadyKnown(r)
    /\ delivery' = [delivery EXCEPT ![r[2]] = "started"] /\ Record(r[2])
    /\ typing' = typing \cup {r[2]}
    /\ UNCHANGED lane

DeliveryFinished(r) ==
    LET d == r[2] IN
    /\ TakingReceipt(r) /\ r[1] = "finished" /\ ~AlreadyKnown(r)
    /\ delivery' = [delivery EXCEPT ![d] = IF d \in Runless THEN "norun" ELSE "reconciling"]
    /\ Record(d)
    /\ lane' = IF d \in Runless THEN lane ELSE [lane EXCEPT ![d] = At("reconcile")]
    /\ UNCHANGED typing

(* run_typing: until the delivery is no longer started, or the pulse ends. *)
TypingStops(d) ==
    /\ LanesPolled /\ d \in typing /\ delivery[d] # "started"
    /\ typing' = typing \ {d}
    /\ UNCHANGED <<inboxVars, loop, mode, recordVars, seenVars, lane, outsideVars, boundVars>>

TypingFails(d) ==
    /\ LanesPolled /\ d \in typing /\ Fail
    /\ typing' = typing \ {d}
    /\ UNCHANGED <<inboxVars, loop, mode, recordVars, seenVars, lane, outsideVars,
                   told, repeats, continues>>

-----------------------------------------------------------------------------
\* The lane of a fallback: run_fallback

FallbackEnds(d, st) == Move(d, NoLane) /\ delivery' = [delivery EXCEPT ![d] = st]

(* Nothing when the run answered through a tool, else the gate and a send. *)
FallbackDecided(d) ==
    /\ lane[d] = At("reconcile")
    /\ \/ FallbackEnds(d, "suppressed") /\ UNCHANGED asked
       \/ Move(d, Delivering(1)) /\ Ask(d, 1) /\ UNCHANGED delivery
    /\ LaneRuns
    /\ UNCHANGED <<call, landed, acked, archived, answer, unreachable, boundVars>>

FallbackAcknowledged(d) ==
    /\ lane[d].pc = "deliver" /\ <<d, lane[d].i>> \in landed
    /\ acked' = acked \cup {<<d, lane[d].i>>}
    /\ IF lane[d].i < Chunks[d]
       THEN Move(d, Delivering(lane[d].i + 1)) /\ Ask(d, lane[d].i + 1)
       ELSE Move(d, At("archive")) /\ UNCHANGED asked
    /\ LaneRuns
    /\ UNCHANGED <<call, delivery, landed, archived, answer, unreachable, boundVars>>

FallbackArchived(d) ==
    /\ lane[d] = At("archive")
    /\ archived' = archived \cup {d}
    /\ FallbackEnds(d, "delivered")
    /\ LaneRuns
    /\ UNCHANGED <<call, asked, landed, acked, answer, unreachable, boundVars>>

FallbackFails(d) ==
    /\ lane[d].pc # "none" /\ Fail
    /\ FallbackEnds(d, "failed")
    /\ \/ UNCHANGED archived
       \/ lane[d].pc = "archive" /\ archived' = archived \cup {d}
    /\ LaneRuns
    /\ UNCHANGED <<call, asked, landed, acked, answer, unreachable,
                   told, repeats, continues>>

-----------------------------------------------------------------------------
\* Continue as new

LanesIdle == typing = {} /\ \A k \in DOMAIN lane : lane[k] = NoLane

(* Mutant: continue as new leaves running lanes behind. *)
CanContinueBetweenSteps ==
    loop = Idle /\ inbound = <<>> /\ emissions = <<>> /\ receipts = <<>>

(* can_continue_as_new: empty inboxes and no lane. *)
CanContinueAsNew ==
    /\ loop = Idle /\ inbound = <<>> /\ emissions = <<>> /\ receipts = <<>>
    /\ LanesIdle

(* DeliveryRecord::is_active *)
Active(d) == delivery[d] \in {"started", "reconciling"}
Done(d) == Finished(d) /\ ~Active(d)

(* retain_recent: of the finished records the newest stay. *)
Dropped ==
    {d \in Deliveries :
       Done(d) /\ Cardinality({e \in behind[d] : Done(e)}) >= CarryDeliveries}

(* The records that stay, the active ones behind the others. *)
BehindKept(d) ==
    IF d \in Dropped \/ delivery[d] = "none" THEN {}
    ELSE IF Active(d) THEN {e \in behind[d] : Active(e)}
    ELSE {e \in Deliveries : e \notin Dropped /\ (e \in behind[d] \/ Active(e))}

(* compact_state: the newest ids, cancellations and finished deliveries,   *)
(* and the deliveries still active; a lane is a future and never carried.  *)
ContinueAsNew ==
    /\ CanContinueAsNew /\ continues < MaxContinues
    /\ continues' = continues + 1
    /\ seenIn' = Newest(seenIn, CarrySeen) /\ seenEm' = Newest(seenEm, CarrySeen)
    /\ cancels' = Newest(cancels, CarryCancels)
    /\ delivery' = [d \in Deliveries |-> IF d \in Dropped THEN "none" ELSE delivery[d]]
    /\ behind' = [d \in Deliveries |-> BehindKept(d)]
    /\ lane' = [k \in DOMAIN lane |-> NoLane] /\ typing' = {}
    /\ UNCHANGED <<inboxVars, loop, mode, msg, call, heardVars, since, outsideVars,
                   told, failures, repeats>>

-----------------------------------------------------------------------------

TakeInbound(m) ==
    \/ DuplicateInbound(m)
    \/ \E kind \in Kinds :
         DropInbound(m, kind) \/ RespondToInbound(m, kind) \/ EmitInbound(m, kind)
TakeEmission(e) == DuplicateEmission(e) \/ CancellationReceived(e) \/ CallReceived(e)
TakeReceipt(r) == ReceiptIgnored(r) \/ DeliveryStarted(r) \/ DeliveryFinished(r)

LoopStep ==
    \/ \E m \in Messages : TakeInbound(m)
    \/ MessageEmitted \/ ResponseStarts \/ ResponseSent \/ ResponseFails
    \/ \E e \in Emissions : TakeEmission(e)
    \/ \E r \in Receipts : TakeReceipt(r)

CallStep(c) ==
    \/ CallPrepared(c) \/ CommandAcknowledged(c) \/ StepCancelled(c) \/ StepFails(c)
    \/ SendArchived(c) \/ ReceiptWritten(c) \/ CallAnswered(c)

FallbackStep(d) ==
    \/ FallbackDecided(d) \/ FallbackAcknowledged(d) \/ FallbackArchived(d) \/ FallbackFails(d)

Next ==
    \/ \E m \in Messages : ChatInbound(m)
    \/ \E e \in Emissions : DeliverEmission(e)
    \/ \E r \in Receipts : BotDelivery(r)
    \/ \E x \in Commands : Lands(x)
    \/ LoopStep
    \/ \E c \in Calls : CallStep(c)
    \/ \E d \in Deliveries : FallbackStep(d) \/ TypingStops(d) \/ TypingFails(d)
    \/ ContinueAsNew

Spec == Init /\ [][Next]_vars

(* The command an activity in flight is for. *)
InFlight(x) ==
    \/ loop.pc = "deliver" /\ x = <<loop.m, loop.i>>
    \/ \E k \in DOMAIN lane : lane[k].pc = "deliver" /\ x = <<k, lane[k].i>>

(* What the worker and the connector owe: the loop and the lanes are       *)
(* polled, and an activity one of them awaits ends.                        *)
Progress ==
    \/ LoopStep
    \/ \E c \in Calls : CallStep(c)
    \/ \E d \in Deliveries : FallbackStep(d) \/ TypingStops(d)
    \/ \E x \in Commands : Lands(x) /\ InFlight(x)

FairSpec == Spec /\ WF_vars(Progress)

-----------------------------------------------------------------------------
\* Properties

Loops ==
    {Idle} \cup [pc : {"prepare", "emit"}, m : Messages]
           \cup [pc : {"deliver"}, m : Messages, i : Nat]
Outcomes == {"resolved", "failed", "cancelled"}

TypeOK ==
    /\ inbound \in Seq(Messages) /\ emissions \in Seq(Emissions) /\ receipts \in Seq(Receipts)
    /\ loop \in Loops /\ mode \in {"mention", "always"}
    /\ msg \in [Messages -> {"none", "responding", "emitting", "settled"}]
    /\ call \in [Calls -> {"none", "invalid", "delivering"} \cup Outcomes]
    /\ delivery \in [Deliveries -> {"none", "started", "norun", "reconciling", "suppressed",
                                    "delivered", "failed"}]
    /\ seenIn \in Seq(Messages) /\ heardIn \in Seq(Messages)
    /\ seenEm \in Seq(Emissions) /\ heardEm \in Seq(Emissions)
    /\ cancels \in Seq(Calls) /\ heardCancels \in Seq(Calls)
    /\ behind \in [Deliveries -> SUBSET Deliveries] /\ since \in [Deliveries -> SUBSET Deliveries]
    /\ lane \in [Calls \cup Deliveries ->
                   [pc : {"none", "prepare", "reconcile", "deliver", "archive", "receipt", "answer"},
                    i : Nat, out : {""} \cup Outcomes]]
    /\ typing \subseteq Deliveries
    /\ asked \in [Commands -> Nat] /\ landed \subseteq Commands /\ acked \subseteq Commands
    /\ archived \subseteq Keys
    /\ answer \in [Calls -> SUBSET Outcomes] /\ unreachable \subseteq Calls

HeardCancel(k) == Contains(heardCancels, k)

\* No reply is asked of the provider twice, however often a call or a receipt
\* is repeated and across continue-as-new, and none for a call whose
\* cancellation the loop has taken, whether it came before or after the call.
NoUnwantedSend ==
    [][\A x \in Commands :
         asked'[x] # asked[x] => asked[x] = 0 /\ ~HeardCancel(x[1])]_vars

\* The holder of a call gets one answer, and the true one: "resolved" only for
\* a message the provider has in full and, for a send, that the log has a
\* number for; "cancelled" only when it cancelled, and never for a message
\* whose delivery the workflow saw acknowledged in full ("a send the workflow
\* saw acknowledged is always archived even when a cancel landed with it").
\* A fallback on record as delivered is with the provider and in the log.
AnsweredHonestly ==
    /\ \A c \in Calls :
         /\ Cardinality(answer[c]) <= 1
         /\ "resolved" \in answer[c] =>
              /\ \A i \in 1..Chunks[c] : <<c, i>> \in landed
              /\ c \in Sends => c \in archived
         /\ "cancelled" \in answer[c] =>
              HeardCancel(c) /\ \E i \in 1..Chunks[c] : <<c, i>> \notin acked
    /\ \A k \in archived : \A i \in 1..Chunks[k] : <<k, i>> \in landed
    /\ \A d \in Deliveries : delivery[d] = "delivered" => d \in archived

CallSettled(c) ==
    \/ call[c] = "invalid"
    \/ /\ call[c] \in {"resolved", "failed", "cancelled"}
       /\ answer[c] # {} \/ c \in unreachable

(* What a carry left behind was done. *)
Forgotten(d) == delivery[d] = "none" /\ since[d] # {}

DeliverySettled(d) == (Done(d) \/ Forgotten(d)) /\ d \notin typing

\* Nothing the conversation took on is left half done: whatever is going on, a
\* time comes when every call taken is answered, every delivery reported
\* finished has its fallback decided and its typing off, and every provider
\* message taken is disposed of.
EverythingSettles ==
    []<>(/\ \A c \in Calls : Contains(heardEm, <<"call", c>>) => CallSettled(c)
         /\ \A d \in Deliveries : <<"finished", d>> \in told => DeliverySettled(d)
         /\ \A m \in Messages : Contains(heardIn, m) => msg[m] = "settled")

=============================================================================
