------------------------------ MODULE RelayFrameBundle ------------------------------
(***************************************************************************)
(* RelayFrameBundle::Builder (engine/src/GameNetwork/RelayFrameBundle.cpp):*)
(* admitted orders wait per slot in id order until a frame takes them      *)
(* within the player budget; a frame is staged, appended to the game log,  *)
(* and only then do the queues let its orders go.                          *)
(*                                                                         *)
(* An order is its id, its size and the frame it is eligible from; its     *)
(* bytes are opaque to the code too.  The code's lists are slot-major and  *)
(* ordered by id in a slot: here they are functions from slots to          *)
(* sequences.                                                              *)
(***************************************************************************)
EXTENDS Sequences, FiniteSets, FiniteSetsExt, RelayFrameClock, RelayMembership

CONSTANTS
    SlotMask,            \* m_slotMask: the game's slots
    PlayerFrameBytes,    \* kPlayerFrameBytes
    MaxOrderBytes,       \* kMaxOrderBytes
    MaxPendingOrders,    \* kMaxPendingOrdersPerSlot, of orders and of refusals
    MaxPendingBytes      \* kMaxPendingBytesPerSlot

ASSUME BundleAssumption ==
    /\ IsFiniteSet(Slot) /\ SlotMask \subseteq Slot /\ SlotMask # {}
    /\ PlayerFrameBytes \in Nat \ {0}
    /\ MaxOrderBytes \in Nat /\ PlayerFrameBytes <= MaxOrderBytes
    /\ MaxPendingOrders \in Nat \ {0}
    /\ MaxPendingBytes \in Nat /\ MaxOrderBytes <= MaxPendingBytes

VARIABLES
    nextFrame,   \* m_nextFrame
    failed,      \* m_failure is not empty
    nextId,      \* Slot::nextId
    orders,      \* Slot::orders
    bytes,       \* Slot::bytes
    refusals,    \* Slot::refusals
    prepared,    \* m_prepared
    staged,      \* m_record: the frame in flight, with the active slots it was built for
    log          \* the Frame records whose game-log append succeeded, in order

builderVars == <<nextFrame, failed, nextId, orders, bytes, refusals, prepared, staged, log>>

-----------------------------------------------------------------------------
\* The queue and the frame.  `stamp` is the frame an order was admitted for:
\* the code keeps no copy of it once a deferral moves `eligible`.

Frames == FirstFrame .. MaxFrame
Pending == [id : Nat, size : Nat, eligible : Frames, stamp : Frames]
Refusal == [id : Nat, size : Nat]
Deferral == [id : Nat, size : Nat, from : Frames, to : Frames, alone : BOOLEAN]

Content == [orders : [Slot -> Seq(Pending)],
            deferrals : [Slot -> Seq(Deferral)],
            refusals : [Slot -> Seq(Refusal)]]

FrameRecord == [frame : Nat, active : SUBSET Slot, content : Content]

NoRecord == [frame |-> 0, active |-> {},
             content |-> [orders |-> [s \in Slot |-> <<>>],
                          deferrals |-> [s \in Slot |-> <<>>],
                          refusals |-> [s \in Slot |-> <<>>]]]

\* The bytes of the first n entries of a list of orders.
RunningBytes(q) ==
    LET upTo[n \in 0 .. Len(q)] == IF n = 0 THEN 0 ELSE upTo[n - 1] + q[n].size
    IN  upTo

BytesOf(q) == RunningBytes(q)[Len(q)]

Ordinary(order) == order.size <= PlayerFrameBytes

\* (The Mutant_ operators of the modules are slips a change of the code could
\* make: PROJECT.json names the property that refutes each.)
Mutant_EligibleCount(q, frame) == Len(q)

\* The leading orders of a queue that may run in a frame ...
EligibleCount(q, frame) ==
    Cardinality({n \in 1 .. Len(q) : \A k \in 1 .. n : q[k].eligible <= frame})

\* The budget is tested before the order is added to it.
Mutant_ConsumedCount(q, frame) ==
    IF EligibleCount(q, frame) > 0 /\ ~Ordinary(q[1]) THEN 1
    ELSE Cardinality({n \in 1 .. EligibleCount(q, frame) :
                        /\ \A k \in 1 .. n : Ordinary(q[k])
                        /\ RunningBytes(q)[n - 1] <= PlayerFrameBytes})

\* ... and how many of them it takes: an oversized order only as the first
\* and only one, otherwise as many ordinary ones as the budget holds.
ConsumedCount(q, frame) ==
    IF EligibleCount(q, frame) > 0 /\ ~Ordinary(q[1]) THEN 1
    ELSE Cardinality({n \in 1 .. EligibleCount(q, frame) :
                        /\ \A k \in 1 .. n : Ordinary(q[k])
                        /\ RunningBytes(q)[n] <= PlayerFrameBytes})

\* Only the first order left behind is recorded.
Mutant_DeferralsOf(q, frame) ==
    IF EligibleCount(q, frame) = ConsumedCount(q, frame) THEN <<>>
    ELSE LET order == q[ConsumedCount(q, frame) + 1]
         IN  <<[id |-> order.id, size |-> order.size, from |-> frame, to |-> frame + 1,
                alone |-> ~Ordinary(q[1])]>>

\* The eligible orders a frame did not take, each deferred by one frame.
DeferralsOf(q, frame) ==
    [i \in 1 .. EligibleCount(q, frame) - ConsumedCount(q, frame) |->
        LET order == q[ConsumedCount(q, frame) + i]
        IN  [id |-> order.id, size |-> order.size, from |-> frame, to |-> frame + 1,
             alone |-> ~Ordinary(q[1])]]

\* What prepare gathers for the frame: a slot that is not active contributes
\* no order and no deferral, but its refusals are recorded.
ContentOf(m) ==
    [orders |-> [s \in Slot |->
        IF s \in m.active THEN SubSeq(orders[s], 1, ConsumedCount(orders[s], nextFrame)) ELSE <<>>],
     deferrals |-> [s \in Slot |->
        IF s \in m.active THEN DeferralsOf(orders[s], nextFrame) ELSE <<>>],
     refusals |-> refusals]

-----------------------------------------------------------------------------
\* validate(): what both the builder and every client demand of a frame.

Ids(list) == {list[i].id : i \in 1 .. Len(list)}
StrictlyOrdered(list) == \A i, j \in 1 .. Len(list) : i < j => list[i].id < list[j].id
Oversized(list) == \E i \in 1 .. Len(list) : ~Ordinary(list[i])

ValidOrders(c) == \A s \in Slot :
    LET list == c.orders[s] IN
    /\ StrictlyOrdered(list)
    /\ \A i \in 1 .. Len(list) : list[i].id > 0 /\ list[i].size \in 1 .. MaxOrderBytes
    /\ Oversized(list) => Len(list) = 1
    /\ ~Oversized(list) => BytesOf(list) <= PlayerFrameBytes

ValidDeferrals(c) == \A s \in Slot :
    LET ran == c.orders[s] list == c.deferrals[s] IN
    /\ StrictlyOrdered(list)
    /\ \A i \in 1 .. Len(list) :
        /\ list[i].id > 0 /\ list[i].size \in 1 .. MaxOrderBytes
        /\ ran # <<>> => list[i].id > ran[Len(ran)].id
        /\ list[i].from # MaxFrame /\ list[i].to = list[i].from + 1
        /\ list[i].alone = Oversized(ran)
    /\ list # <<>> /\ ~list[1].alone =>
        /\ ran # <<>>
        /\ list[1].size > PlayerFrameBytes - BytesOf(ran)

ValidRefusals(c) == \A s \in Slot :
    LET list == c.refusals[s] IN
    /\ StrictlyOrdered(list)
    /\ Ids(list) \intersect (Ids(c.orders[s]) \union Ids(c.deferrals[s])) = {}
    /\ \A i \in 1 .. Len(list) : list[i].size = 0 \/ list[i].size > MaxOrderBytes

\* The 4096 bound on each list is what the full queues of 16 slots hold.
EntryCount(lists) == MapThenSumSet(LAMBDA s : Len(lists[s]), Slot)
MaxEntries == Cardinality(Slot) * MaxPendingOrders

ValidContent(c, frame, m) ==
    /\ EntryCount(c.orders) <= MaxEntries
    /\ EntryCount(c.deferrals) <= MaxEntries
    /\ EntryCount(c.refusals) <= MaxEntries
    /\ ValidOrders(c) /\ ValidDeferrals(c) /\ ValidRefusals(c)
    /\ Valid(m)
    /\ (\E s \in Slot : c.orders[s] # <<>>) => ~m.paused /\ m.loaded = m.active /\ m.clockValid
    /\ \A s \in Slot : c.orders[s] # <<>> \/ c.deferrals[s] # <<>> => s \in m.active
    /\ \A s \in Slot : \A i \in 1 .. Len(c.deferrals[s]) : c.deferrals[s][i].from = frame
    /\ \A s \in Slot : c.refusals[s] # <<>> => s \in m.slotMask

-----------------------------------------------------------------------------
\* Admission.

NextUnpublished == IF prepared /\ nextFrame # MaxFrame THEN nextFrame + 1 ELSE nextFrame

Refused(size) == size = 0 \/ size > MaxOrderBytes

\* Queue order is eligibility order: the next order may not be eligible
\* before the one admitted last.
LastEligible(s) == IF orders[s] = <<>> THEN 0 ELSE orders[s][Len(orders[s])].eligible

\* The value admit returns, in the order it tests.
Admission(s, id, earliest, size) ==
    IF failed THEN "Terminal"
    ELSE IF s \notin SlotMask THEN "InvalidSlot"
    ELSE IF id # nextId[s] THEN "InvalidSequence"
    ELSE IF NextUnpublished = MaxFrame THEN "Terminal"
    ELSE IF Refused(size) THEN
        IF Len(refusals[s]) >= MaxPendingOrders THEN "Busy" ELSE "Malformed"
    ELSE IF earliest = MaxFrame \/ earliest < NextUnpublished \/ earliest < LastEligible(s)
        THEN "InvalidFrame"
    ELSE IF Len(orders[s]) >= MaxPendingOrders \/ size > MaxPendingBytes - bytes[s]
        THEN "Busy"
    ELSE "Accepted"

\* A refused order does not consume its id.
Mutant_BuilderAdmit(s, id, earliest, size) ==
    \/ /\ Admission(s, id, earliest, size) = "Accepted"
       /\ orders' = [orders EXCEPT ![s] = Append(@,
            [id |-> id, size |-> size, eligible |-> earliest, stamp |-> earliest])]
       /\ bytes' = [bytes EXCEPT ![s] = @ + size]
       /\ nextId' = [nextId EXCEPT ![s] = @ + 1]
       /\ UNCHANGED <<nextFrame, failed, refusals, prepared, staged, log>>
    \/ /\ Admission(s, id, earliest, size) = "Malformed"
       /\ refusals' = [refusals EXCEPT ![s] = Append(@, [id |-> id, size |-> size])]
       /\ UNCHANGED <<nextFrame, failed, nextId, orders, bytes, prepared, staged, log>>

\* admit.  A result other than Accepted and Malformed changes nothing.
BuilderAdmit(s, id, earliest, size) ==
    \/ /\ Admission(s, id, earliest, size) = "Accepted"
       /\ orders' = [orders EXCEPT ![s] = Append(@,
            [id |-> id, size |-> size, eligible |-> earliest, stamp |-> earliest])]
       /\ bytes' = [bytes EXCEPT ![s] = @ + size]
       /\ nextId' = [nextId EXCEPT ![s] = @ + 1]
       /\ UNCHANGED <<nextFrame, failed, refusals, prepared, staged, log>>
    \/ /\ Admission(s, id, earliest, size) = "Malformed"
       /\ refusals' = [refusals EXCEPT ![s] = Append(@, [id |-> id, size |-> size])]
       /\ nextId' = [nextId EXCEPT ![s] = @ + 1]
       /\ UNCHANGED <<nextFrame, failed, orders, bytes, prepared, staged, log>>

-----------------------------------------------------------------------------
\* Staging and release.

\* prepare returns true on a new frame.
CanPrepare(m) ==
    /\ ~failed /\ ~prepared
    /\ nextFrame # MaxFrame
    /\ m.slotMask = SlotMask
    /\ ValidContent(ContentOf(m), nextFrame, m)

BuilderPrepare(m) ==
    /\ CanPrepare(m)
    /\ prepared' = TRUE
    /\ staged' = [frame |-> nextFrame, active |-> m.active, content |-> ContentOf(m)]
    /\ UNCHANGED <<nextFrame, failed, nextId, orders, bytes, refusals, log>>

\* A deferral skips a frame.
Mutant_Released(q, consumed, deferred) ==
    [i \in 1 .. Len(q) - consumed |->
        IF i <= deferred THEN [q[consumed + i] EXCEPT !.eligible = nextFrame + 2]
                         ELSE q[consumed + i]]

\* What committed leaves of a queue: the consumed orders go, the deferred
\* ones become eligible one frame later.
Released(q, consumed, deferred) ==
    [i \in 1 .. Len(q) - consumed |->
        IF i <= deferred THEN [q[consumed + i] EXCEPT !.eligible = nextFrame + 1]
                         ELSE q[consumed + i]]

\* The deferred orders' bytes are given back although they stay queued.
Mutant_ReleasedBytes(s, c) == bytes[s] - BytesOf(c.orders[s]) - BytesOf(c.deferrals[s])

ReleasedBytes(s, c) == bytes[s] - BytesOf(c.orders[s])

BuilderCommitted ==
    /\ ~failed /\ prepared
    /\ LET c == staged.content IN
        /\ orders' = [s \in Slot |-> Released(orders[s], Len(c.orders[s]), Len(c.deferrals[s]))]
        /\ bytes' = [s \in Slot |-> ReleasedBytes(s, c)]
        /\ refusals' = [s \in Slot |-> SubSeq(refusals[s], Len(c.refusals[s]) + 1, Len(refusals[s]))]
    /\ log' = Append(log, staged)
    /\ nextFrame' = nextFrame + 1
    /\ prepared' = FALSE
    /\ staged' = NoRecord
    /\ UNCHANGED <<failed, nextId>>

\* fail: the append did not succeed; nothing of this builder runs again.
BuilderFail ==
    /\ ~failed
    /\ failed' = TRUE
    /\ UNCHANGED <<nextFrame, nextId, orders, bytes, refusals, prepared, staged, log>>

BuilderInit ==
    /\ nextFrame = FirstFrame
    /\ failed = FALSE
    /\ nextId = [s \in Slot |-> 1]
    /\ orders = [s \in Slot |-> <<>>]
    /\ bytes = [s \in Slot |-> 0]
    /\ refusals = [s \in Slot |-> <<>>]
    /\ prepared = FALSE
    /\ staged = NoRecord
    /\ log = <<>>

=============================================================================
