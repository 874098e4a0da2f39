------------------------------ MODULE RelayBundleChannel ------------------------------
(***************************************************************************)
(* RelayBundleChannel (engine/src/GameNetwork): one direction of the       *)
(* reliable channel between a client and the relay, over a network that    *)
(* loses, repeats and reorders datagrams.  A message is split into         *)
(* fragments; each is sent again every RetryMs until its acknowledgement   *)
(* arrives; whole messages are handed over in sequence order.              *)
(*                                                                         *)
(* A packet names a sequence, a fragment and the message it was cut from,  *)
(* so that two messages sent under one sequence can be told apart as the   *)
(* code tells them apart: by their sizes, then by the fragment's bytes.    *)
(* The 64-bit sequence ends at MaxSequence.                                *)
(***************************************************************************)
EXTENDS Integers, Sequences, FiniteSets, FiniteSetsExt

CONSTANTS
    Message,          \* what the two users exchange
    Fragments,        \* calculateFragmentCount of a message
    Accounted,        \* calculateAccounting of a message
    Window,           \* maxPendingMessages
    MaxQueuedBytes,   \* maxQueuedBytes
    MaxBufferedBytes, \* maxBufferedBytes
    Reservation,      \* m_expectedReservation: the accounting of a message of maximum size
    MaxSequence,      \* numeric_limits<uint64_t>::max()
    RetryMs,          \* retryMs
    MaxDatagrams,     \* what a user allows one poll to send
    Receiver,         \* the user at the receiving end: "relay" or "client"
    Loads             \* what a user may send; a behaviour is one of them:
                      \*   offered: the messages the user may have for each sequence
                      \*   fair: the fairness of FairSpec is asked for, and liveness shown

ASSUME ChannelAssumption ==
    /\ Fragments \in [Message -> Nat \ {0}]
    /\ Accounted \in [Message -> Nat \ {0}]
    /\ Window \in Nat \ {0} /\ MaxSequence \in Nat \ {0}
    /\ MaxQueuedBytes \in Nat /\ MaxBufferedBytes \in Nat /\ Reservation \in Nat
    /\ \A m \in Message : Accounted[m] <= Reservation
    /\ Reservation <= MaxBufferedBytes
    /\ RetryMs \in Nat \ {0} /\ MaxDatagrams \in Nat \ {0}
    /\ Receiver \in {"relay", "client"}
    /\ \A l \in Loads : l.offered \in [1 .. MaxSequence -> SUBSET Message] /\ l.fair \in BOOLEAN

VARIABLES
    accepted,         \* the messages queue accepted, in order
    pending,          \* m_pending
    queuedBytes,      \* m_queuedBytes
    nextSend,         \* m_nextSendSequence
    sendExhausted,    \* m_sendExhausted
    cursor,           \* m_pollCursorSequence, m_pollCursorFragment
    senderHistory,    \* m_senderHistory
    incoming,         \* m_incoming
    bufferedBytes,    \* m_bufferedBytes
    ready,            \* m_ready
    nextReceive,      \* m_nextReceiveSequence
    receiveExhausted, \* m_receiveExhausted
    receiverHistory,  \* m_receiverHistory
    taken,            \* what takeDelivered handed over, in order
    data, acks,       \* the packets in the network
    load              \* which of Loads this behaviour is: it never changes

senderVars == <<accepted, pending, queuedBytes, nextSend, sendExhausted, cursor, senderHistory>>
receiverVars == <<incoming, bufferedBytes, ready, nextReceive, receiveExhausted,
                  receiverHistory, taken>>
vars == <<senderVars, receiverVars, data, acks, load>>

-----------------------------------------------------------------------------

Sequence == 1 .. MaxSequence
FragmentsOf(m) == 1 .. Fragments[m]
Packet == UNION {[seq : Sequence, of : {m}, fragment : FragmentsOf(m)] : m \in Message}

\* What the metadata of a packet tells of its message.
SameSize(m, n) == Fragments[m] = Fragments[n] /\ Accounted[m] = Accounted[n]

Restricted(f, S) == [x \in S |-> f[x]]
Merged(f, g) == [x \in DOMAIN f \union DOMAIN g |-> IF x \in DOMAIN g THEN g[x] ELSE f[x]]
TotalOf(records) == MapThenSumSet(LAMBDA s : Accounted[records[s].of], DOMAIN records)

\* One entry of history too few.
Mutant_Newest(f) ==
    Restricted(f, {s \in DOMAIN f : Cardinality({t \in DOMAIN f : t > s}) < Window - 1})

\* addSenderHistory, addReceiverHistory: the oldest entries give way.
Newest(f) ==
    Restricted(f, {s \in DOMAIN f : Cardinality({t \in DOMAIN f : t > s}) < Window})

-----------------------------------------------------------------------------
\* The sender.

\* The bytes already queued are not counted.
Mutant_CanQueue(m) ==
    /\ ~sendExhausted
    /\ Cardinality(DOMAIN pending) < Window
    /\ Accounted[m] <= MaxQueuedBytes

\* queue
CanQueue(m) ==
    /\ ~sendExhausted
    /\ Cardinality(DOMAIN pending) < Window
    /\ Accounted[m] <= MaxQueuedBytes - queuedBytes

Queue(m) ==
    /\ CanQueue(m)
    /\ accepted' = Append(accepted, m)
    /\ pending' = Merged(pending, [s \in {nextSend} |->
            [of |-> m, sent |-> {}, acknowledged |-> {},
             wait |-> [f \in FragmentsOf(m) |-> 0]]])
    /\ queuedBytes' = queuedBytes + Accounted[m]
    /\ sendExhausted' = (nextSend = MaxSequence)
    /\ nextSend' = IF nextSend = MaxSequence THEN nextSend ELSE nextSend + 1
    /\ UNCHANGED <<cursor, senderHistory, receiverVars, data, acks>>

\* The fragments poll walks over, and the order it walks in: from the cursor
\* up to the last sequence, then from the first.
Slots == UNION {{[seq |-> s, fragment |-> f] : f \in FragmentsOf(pending[s].of)} :
                  s \in DOMAIN pending}
Before(x, y) == x.seq < y.seq \/ (x.seq = y.seq /\ x.fragment < y.fragment)
Ahead(x) == ~Before(x, cursor)
WalkedBefore(x, y) ==
    IF Ahead(x) = Ahead(y) THEN Before(x, y) ELSE Ahead(x)

\* A poll looks at MaxDatagrams fragments, or at all.
Inspected ==
    {x \in Slots : Cardinality({y \in Slots : WalkedBefore(y, x)}) < MaxDatagrams}

LastInspected == CHOOSE x \in Inspected : \A y \in Inspected \ {x} : WalkedBefore(y, x)

After(x) ==
    IF x.fragment < Fragments[pending[x.seq].of] THEN [x EXCEPT !.fragment = @ + 1]
    ELSE IF x.seq = MaxSequence
         THEN [seq |-> CHOOSE s \in DOMAIN pending : \A t \in DOMAIN pending : s <= t, fragment |-> 1]
         ELSE [seq |-> x.seq + 1, fragment |-> 1]

\* A fragment is sent once.
Mutant_Due(x) == x.fragment \notin pending[x.seq].sent

\* Neither acknowledged nor sent within the retry interval.
Due(x) ==
    /\ x.fragment \notin pending[x.seq].acknowledged
    /\ pending[x.seq].wait[x.fragment] = 0

Sent == {x \in Inspected : Due(x)}

Poll ==
    /\ pending # <<>>
    /\ cursor' = After(LastInspected)
    /\ pending' = [s \in DOMAIN pending |->
            LET now == {x.fragment : x \in {x \in Sent : x.seq = s}}
            IN  [pending[s] EXCEPT
                    !.sent = @ \union now,
                    !.wait = [f \in DOMAIN @ |-> IF f \in now THEN RetryMs ELSE @[f]]]]
    /\ data' = data \union
            {[seq |-> x.seq, of |-> pending[x.seq].of, fragment |-> x.fragment] : x \in Sent}
    /\ UNCHANGED <<accepted, queuedBytes, nextSend, sendExhausted, senderHistory,
                   receiverVars, acks>>

\* A millisecond passes: the clock both users pass to poll and receive.
Tick ==
    /\ pending' = [s \in DOMAIN pending |->
            [pending[s] EXCEPT !.wait = [f \in DOMAIN @ |-> IF @[f] = 0 THEN 0 ELSE @[f] - 1]]]
    /\ UNCHANGED <<accepted, queuedBytes, nextSend, sendExhausted, cursor, senderHistory,
                   receiverVars, data, acks>>

\* Any complete message leaves, not only the complete prefix.
Mutant_Retired(now) ==
    {s \in DOMAIN now : now[s].acknowledged = FragmentsOf(now[s].of)}

\* retirePending: the complete messages no incomplete one precedes.
Retired(now) ==
    {s \in DOMAIN now : \A t \in DOMAIN now :
        t <= s => now[t].acknowledged = FragmentsOf(now[t].of)}

\* The relay sends its acknowledgements in the envelope the client reads.
\* The client sends the bare packet, which does not start as a relay datagram
\* does: RelayCore::handle counts it as bad and drops it.
AckRead == Receiver = "relay"

\* receiveAck, for a message still pending.  An acknowledgement of a retired
\* message changes nothing; one that names what was never sent, or whose
\* sizes are not the message's, is an error.
ReceiveAck(a) ==
    /\ a \in acks
    /\ AckRead
    /\ a.seq \in DOMAIN pending
    /\ SameSize(a.of, pending[a.seq].of)
    /\ a.fragment \in pending[a.seq].sent
    /\ LET now == [pending EXCEPT ![a.seq].acknowledged = @ \union {a.fragment}]
           gone == Retired(now)
       IN  /\ pending' = Restricted(now, DOMAIN now \ gone)
           /\ queuedBytes' = queuedBytes - TotalOf(Restricted(now, gone))
           /\ senderHistory' = Newest(Merged(senderHistory, [s \in gone |-> now[s].of]))
    /\ UNCHANGED <<accepted, nextSend, sendExhausted, cursor, receiverVars, data, acks>>

-----------------------------------------------------------------------------
\* The receiver.

\* What an earlier sequence left behind, held or retired, must agree with a
\* packet in its sizes and, where that fragment arrived, in its bytes.
Agrees(held, p) ==
    /\ SameSize(held.of, p.of)
    /\ p.fragment \in DOMAIN held.parts => held.parts[p.fragment] = p.of

\* The expected message's share of the buffer is not kept free.
Mutant_Room(p) ==
    IF p.seq > nextReceive
    THEN /\ Cardinality(DOMAIN incoming) + 1 < Window
         /\ Accounted[p.of] <= MaxBufferedBytes - bufferedBytes
    ELSE /\ Cardinality(DOMAIN incoming) < Window
         /\ Accounted[p.of] <= MaxBufferedBytes - bufferedBytes

\* Room for a message not seen before: a slot and the bytes of a message of
\* maximum size stay free for the sequence expected next.
Room(p) ==
    IF p.seq > nextReceive
    THEN /\ Cardinality(DOMAIN incoming) + 1 < Window
         /\ Accounted[p.of] <= MaxBufferedBytes - Reservation - bufferedBytes
    ELSE /\ Cardinality(DOMAIN incoming) < Window
         /\ Accounted[p.of] <= MaxBufferedBytes - bufferedBytes

\* The outcome of receiveData, in the order it tests.
Reception(p) ==
    IF p.seq \in DOMAIN incoming
    THEN IF Agrees(incoming[p.seq], p) THEN "Held" ELSE "Differs"
    ELSE IF p.seq < nextReceive \/ receiveExhausted
    THEN IF p.seq \notin DOMAIN receiverHistory THEN "Forgotten"
         ELSE IF Agrees(receiverHistory[p.seq], p) THEN "Retired" ELSE "Differs"
    ELSE IF p.seq - nextReceive >= Window THEN "OutsideWindow"
    ELSE IF Room(p) THEN "New" ELSE "Full"

Whole(m) == [f \in FragmentsOf(m) |-> m]

\* The first fragment makes a message complete.
Mutant_Complete(held) == DOMAIN held.parts # {}

Complete(held) == DOMAIN held.parts = FragmentsOf(held.of)

\* markDelivered: the sequences that become deliverable together.
Run(now) ==
    IF receiveExhausted THEN {}
    ELSE {s \in DOMAIN now : s >= nextReceive /\ \A t \in nextReceive .. s :
                                t \in DOMAIN now /\ Complete(now[t])}

ReceiveData(p) ==
    /\ p \in data
    /\ Reception(p) \in {"Held", "Retired", "New"}
    /\ acks' = acks \union {p}
    /\ LET part == [f \in {p.fragment} |-> p.of]
           now == CASE Reception(p) = "Held" ->
                            [incoming EXCEPT ![p.seq].parts = Merged(@, part)]
                    [] Reception(p) = "New" ->
                            Merged(incoming, [s \in {p.seq} |-> [of |-> p.of, parts |-> part]])
                    [] OTHER -> incoming
           run == Run(now)
       IN  /\ incoming' = now
           /\ bufferedBytes' = IF Reception(p) = "New" THEN bufferedBytes + Accounted[p.of]
                               ELSE bufferedBytes
           /\ ready' = ready \o [i \in 1 .. Cardinality(run) |-> nextReceive + i - 1]
           /\ nextReceive' = IF MaxSequence \in run THEN MaxSequence
                             ELSE nextReceive + Cardinality(run)
           /\ receiveExhausted' = (receiveExhausted \/ MaxSequence \in run)
    /\ UNCHANGED <<receiverHistory, taken, senderVars, data>>

\* takeDelivered
TakeDelivered ==
    /\ ready # <<>>
    /\ LET gone == {ready[i] : i \in 1 .. Len(ready)}
       IN  /\ taken' = taken \o [i \in 1 .. Len(ready) |-> incoming[ready[i]].parts]
           /\ incoming' = Restricted(incoming, DOMAIN incoming \ gone)
           /\ bufferedBytes' = bufferedBytes - TotalOf(Restricted(incoming, gone))
           /\ receiverHistory' = Newest(Merged(receiverHistory, Restricted(incoming, gone)))
    /\ ready' = <<>>
    /\ UNCHANGED <<nextReceive, receiveExhausted, senderVars, data, acks>>

-----------------------------------------------------------------------------
\* The network repeats and reorders by leaving a packet in the set after it
\* was received, and loses it here.

LoseData(p) == p \in data /\ data' = data \ {p} /\ UNCHANGED <<senderVars, receiverVars, acks>>
LoseAck(a) == a \in acks /\ acks' = acks \ {a} /\ UNCHANGED <<senderVars, receiverVars, data>>

Init ==
    /\ accepted = <<>> /\ pending = <<>> /\ queuedBytes = 0
    /\ nextSend = 1 /\ sendExhausted = FALSE
    /\ cursor = [seq |-> 1, fragment |-> 1]
    /\ senderHistory = <<>>
    /\ incoming = <<>> /\ bufferedBytes = 0 /\ ready = <<>>
    /\ nextReceive = 1 /\ receiveExhausted = FALSE
    /\ receiverHistory = <<>> /\ taken = <<>>
    /\ data = {} /\ acks = {}
    /\ load \in Loads

Sender == Poll \/ Tick \/ \E m \in load.offered[nextSend] : Queue(m)
Network == \E p \in Packet : ReceiveData(p) \/ ReceiveAck(p) \/ LoseData(p) \/ LoseAck(p)

Next == (Sender \/ Network \/ TakeDelivered) /\ UNCHANGED load

Spec == Init /\ [][Next]_vars

\* Both users poll and drain on every tick and the clock runs.  The network
\* may lose every other packet, but while the sender repeats what it has no
\* acknowledgement for, such a packet arrives in the end, and so does an
\* acknowledgement the sender has not seen.  (Strong fairness for each packet
\* of its own implies both.)
Unacknowledged(p) ==
    p.seq \in DOMAIN pending /\ p.fragment \notin pending[p.seq].acknowledged
DataArrives == \E p \in data : Unacknowledged(p) /\ ReceiveData(p)
AckArrives == \E a \in acks : Unacknowledged(a) /\ ReceiveAck(a)

Fair(A) == load.fair /\ A /\ UNCHANGED load

Fairness ==
    /\ WF_vars(Fair(Poll)) /\ WF_vars(Fair(Tick)) /\ WF_vars(Fair(TakeDelivered))
    /\ SF_vars(Fair(DataArrives)) /\ SF_vars(Fair(AckArrives))

FairSpec == Spec /\ Fairness

-----------------------------------------------------------------------------
\* Properties

HeldType(held) ==
    /\ held.of \in Message
    /\ held.parts \in [DOMAIN held.parts -> Message]
    /\ DOMAIN held.parts \subseteq FragmentsOf(held.of)

TypeOK ==
    /\ accepted \in Seq(Message)
    /\ DOMAIN pending \subseteq Sequence
    /\ \A s \in DOMAIN pending :
        /\ pending[s].of \in Message
        /\ pending[s].acknowledged \subseteq pending[s].sent
        /\ pending[s].sent \subseteq FragmentsOf(pending[s].of)
        /\ pending[s].wait \in [FragmentsOf(pending[s].of) -> 0 .. RetryMs]
    /\ queuedBytes \in 0 .. MaxQueuedBytes
    /\ nextSend \in Sequence /\ sendExhausted \in BOOLEAN
    /\ cursor \in [seq : Sequence, fragment : Nat \ {0}]
    /\ senderHistory \in [DOMAIN senderHistory -> Message]
    /\ DOMAIN incoming \subseteq Sequence /\ \A s \in DOMAIN incoming : HeldType(incoming[s])
    /\ bufferedBytes \in 0 .. MaxBufferedBytes
    /\ ready \in Seq(DOMAIN incoming)
    /\ nextReceive \in Sequence /\ receiveExhausted \in BOOLEAN
    /\ \A s \in DOMAIN receiverHistory : HeldType(receiverHistory[s])
    /\ data \subseteq Packet /\ acks \subseteq Packet

\* The channel is the FIFO its header promises: whatever the network does,
\* the messages taken are the messages queued, whole, once and in order.
Fifo == INSTANCE ReliableFifo WITH
    Value <- {Whole(m) : m \in Message},
    accepted <- [i \in 1 .. Len(accepted) |-> Whole(accepted[i])]
ImplementsFifo == Fifo!Spec

\* No live message is refused for good: what the sender may still repeat is
\* inside the receive window, still remembered if it was handed over, and
\* never taken for another message; at worst the receiver is full.
LiveDataAnswered ==
    \A s \in DOMAIN pending : \A f \in pending[s].sent \ pending[s].acknowledged :
        Reception([seq |-> s, of |-> pending[s].of, fragment |-> f])
            \in {"Held", "Retired", "New", "Full"}

\* A drained receiver can always take the message it waits for, however the
\* later ones arrived: the reservation rules out a full buffer that waits
\* for a message it has no room for.
ExpectedFits ==
    ready = <<>> /\ nextReceive \notin DOMAIN incoming /\ ~receiveExhausted =>
        \A m \in Message : Room([seq |-> nextReceive, of |-> m, fragment |-> 1])

\* Every message the channel admits arrives ("A successful call admits the
\* complete logical message and never silently drops it").
Delivery == \A n \in Sequence : load.fair /\ Len(accepted) >= n ~> Len(taken) >= n

\* Every message is acknowledged to its sender in the end (NET-SYNC.md:
\* "Fragments are selectively ACKed and retried").
MessagesRetire ==
    \A s \in Sequence : load.fair /\ s \in DOMAIN pending ~> s \notin DOMAIN pending

\* Backpressure ends: a full window opens again.
WindowReopens ==
    load.fair /\ Cardinality(DOMAIN pending) = Window ~> Cardinality(DOMAIN pending) < Window

=============================================================================
