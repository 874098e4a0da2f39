------------------------------ MODULE RelayFrameScheduler ------------------------------
(***************************************************************************)
(* RelayFrameScheduler::Scheduler (engine/src/GameNetwork) over the        *)
(* builder it stamps orders for, driven as a relay drives them: messages   *)
(* of the slots are admitted in any order between the seals, a due frame   *)
(* is staged, its append succeeds or fails, and the membership moves       *)
(* through snapshots the membership codec accepts.                         *)
(***************************************************************************)
EXTENDS RelayFrameBundle

CONSTANTS
    Policies,   \* the policies to choose from: "EqualDelay", "NextFrame"
    Sizes,      \* the order sizes clients send, under each policy
    MaxNow,     \* bound of the relay's clock, under each policy
    MaxId,      \* bound of the order ids each slot uses
    MaxBeat,    \* bound of the beats each slot sends, under each policy
    Unsteady    \* the slots that may be held, resumed or depart

ASSUME SchedulerAssumption ==
    /\ Policies \subseteq {"EqualDelay", "NextFrame"}
    /\ Sizes \in [Policies -> SUBSET Nat]
    /\ MaxNow \in [Policies -> Nat]
    /\ MaxId \in [Slot -> Nat] /\ MaxBeat \in [Policies -> [Slot -> Nat]]
    /\ Unsteady \subseteq SlotMask

VARIABLES
    beatFrame,    \* m_beatFrame: the frame the slot's next beat completes
    nextBeatId,   \* m_nextBeatId
    now,          \* the monotonic clock of the relay's calls
    membership,   \* the snapshot the relay holds
    policy        \* the seal policy the relay was started with

vars == <<builderVars, beatFrame, nextBeatId, now, membership, policy>>

-----------------------------------------------------------------------------

\* requiredMask and awaiting
Required(m) == m.active \ (m.held \union m.departed)
Mutant_Awaiting(m) == {s \in Required(m) : beatFrame[s] < NextUnpublished}   \* one window too few
Awaiting(m) == {s \in Required(m) : beatFrame[s] <= NextUnpublished}

\* The frame is sealed at its start.
Mutant_SealDue(m) ==
    IF policy = "NextFrame"
    THEN BoundaryInRange(NextUnpublished) /\ now >= BoundaryOf(NextUnpublished) - FrameMs
    ELSE Awaiting(m) = {}

\* sealDue
SealDue(m) ==
    IF policy = "NextFrame"
    THEN BoundaryInRange(NextUnpublished) /\ now >= BoundaryOf(NextUnpublished)
    ELSE Awaiting(m) = {}

\* admit's stamp: the frame of the receipt (NextFrame) or of the slot's open
\* window (EqualDelay), unless that frame is already staged or published.
StampCandidate(s) == IF policy = "NextFrame" THEN FrameAfter(now) ELSE beatFrame[s]
Stamp(s) == IF StampCandidate(s) < NextUnpublished THEN NextUnpublished ELSE StampCandidate(s)

\* The result of admitting an order: the clock refuses before the builder.
OrderAdmission(s, id, size) ==
    IF policy = "NextFrame" /\ ~FrameAfterInRange(now) THEN "InvalidFrame"
    ELSE Admission(s, id, Stamp(s), size)

AdmitOrder(s, id, size) ==
    /\ OrderAdmission(s, id, size) \in {"Accepted", "Malformed"}
    /\ BuilderAdmit(s, id, Stamp(s), size)
    /\ UNCHANGED <<beatFrame, nextBeatId, now, membership, policy>>

\* The exhausted frame counter is not tested.
Mutant_BeatAdmission(s, id) == IF id # nextBeatId[s] THEN "InvalidSequence" ELSE "Accepted"

\* A beat out of sequence, or past the last frame, changes nothing.
BeatAdmission(s, id) ==
    IF id # nextBeatId[s] THEN "InvalidSequence"
    ELSE IF beatFrame[s] = MaxFrame THEN "Malformed"
    ELSE "Accepted"

AdmitBeat(s, id) ==
    /\ BeatAdmission(s, id) = "Accepted"
    /\ nextBeatId' = [nextBeatId EXCEPT ![s] = @ + 1]
    /\ beatFrame' = [beatFrame EXCEPT ![s] = @ + 1]
    /\ UNCHANGED <<builderVars, now, membership, policy>>

Seal ==
    /\ SealDue(membership)
    /\ BuilderPrepare(membership)
    /\ UNCHANGED <<beatFrame, nextBeatId, now, membership, policy>>

AppendSucceeds ==
    /\ BuilderCommitted
    /\ UNCHANGED <<beatFrame, nextBeatId, now, membership, policy>>

AppendFails ==
    /\ prepared
    /\ BuilderFail
    /\ UNCHANGED <<beatFrame, nextBeatId, now, membership, policy>>

Tick ==
    /\ now < MaxNow[policy]
    /\ now' = now + 1
    /\ UNCHANGED <<builderVars, beatFrame, nextBeatId, membership, policy>>

-----------------------------------------------------------------------------
\* The membership the builder is given: the mask partitioned into active,
\* held and departed slots, a departed slot staying departed.

SnapshotOf(active, held) ==
    [slotMask |-> SlotMask, active |-> active, held |-> held,
     departed |-> SlotMask \ (active \union held), loaded |-> active,
     generation |-> [s \in Slot |-> 0], paused |-> FALSE, clockValid |-> TRUE,
     originMs |-> OriginMs, firstFrame |-> FirstFrame]

MembershipChanges ==
    \E away \in SUBSET Unsteady : \E held \in SUBSET away :
        /\ membership.departed \subseteq away \ held
        /\ membership' = SnapshotOf(SlotMask \ away, held)
        /\ membership' # membership
        /\ UNCHANGED <<builderVars, beatFrame, nextBeatId, now, policy>>

-----------------------------------------------------------------------------

Init ==
    /\ BuilderInit
    /\ beatFrame = [s \in Slot |-> FirstFrame]
    /\ nextBeatId = [s \in Slot |-> 1]
    /\ now = OriginMs
    /\ membership = SnapshotOf(SlotMask, {})
    /\ policy \in Policies

Client ==
    \E s \in SlotMask :
        \/ \E id \in 1 .. MaxId[s], size \in Sizes[policy] : AdmitOrder(s, id, size)
        \/ \E id \in 1 .. MaxBeat[policy][s] : AdmitBeat(s, id)

Relay == Seal \/ AppendSucceeds \/ AppendFails \/ Tick \/ MembershipChanges

Next == Client \/ Relay

Spec == Init /\ [][Next]_vars

-----------------------------------------------------------------------------
\* Properties

\* Every variable of the builder and the scheduler keeps its type: no frame
\* leaves the 32-bit range.  (bytes is pinned down by ByteAccounting.)
TypeOK ==
    /\ nextFrame \in Frames
    /\ failed \in BOOLEAN
    /\ nextId \in [Slot -> Nat \ {0}]
    /\ orders \in [Slot -> Seq(Pending)]
    /\ refusals \in [Slot -> Seq(Refusal)]
    /\ prepared \in BOOLEAN
    /\ staged \in FrameRecord
    /\ log \in Seq(FrameRecord)
    /\ beatFrame \in [Slot -> Frames]
    /\ nextBeatId \in [Slot -> Nat \ {0}]
    /\ now \in Nat
    /\ membership \in Snapshot
    /\ policy \in Policies

\* The scheduler's stamps never meet the builder's out-of-order refusal: an
\* order with the slot's next id is never InvalidFrame while the clock has
\* not run out, whatever deferrals moved the orders queued before it.
AdmissionInOrder ==
    \A s \in SlotMask, size \in Sizes[policy] :
        /\ Stamp(s) < MaxFrame
        /\ policy = "NextFrame" => FrameAfterInRange(now)
        => OrderAdmission(s, nextId[s], size) # "InvalidFrame"

\* A slot's orders, and its refusals: the lists of the frames so far, and the
\* queue that waits behind them.
Ran(s) == [i \in 1 .. Len(log) |-> log[i].content.orders[s]]
Audited(s) == [i \in 1 .. Len(log) |-> log[i].content.refusals[s]]

AllIds(lists, queue) == Ids(queue) \union UNION {Ids(lists[i]) : i \in DOMAIN lists}

\* The lists and then the queue, read as one, go up in id.
Below(first, second) == \A a \in Ids(first), b \in Ids(second) : a < b
InTurn(lists, queue) ==
    /\ StrictlyOrdered(queue)
    /\ \A i \in DOMAIN lists :
        /\ StrictlyOrdered(lists[i])
        /\ Below(lists[i], queue)
        /\ \A j \in DOMAIN lists : i < j => Below(lists[i], lists[j])

\* No id of a slot is lost and none is used twice: each one admitted is an
\* order (in the queue or in one frame, which RunsInOrder says) or a refusal
\* (waiting or in one frame), and never both.
IdsAccounted ==
    \A s \in Slot :
        LET carried == AllIds(Ran(s), orders[s])
            reported == AllIds(Audited(s), refusals[s])
        IN  /\ carried \union reported = 1 .. nextId[s] - 1
            /\ carried \intersect reported = {}
            /\ InTurn(Audited(s), refusals[s])

\* Orders of a slot run in the order they were sent, and no order runs in a
\* frame before the one it was stamped for.
RunsInOrder ==
    \A s \in Slot :
        /\ InTurn(Ran(s), orders[s])
        /\ \A i \in 1 .. Len(log) : \A k \in 1 .. Len(log[i].content.orders[s]) :
            log[i].content.orders[s][k].stamp <= log[i].frame

\* The deferral audit explains every delay: an order is recorded as deferred
\* in exactly the frames from its stamp until it ran in which its slot was
\* active.
DeferredIn(s, id) ==
    {log[j].frame : j \in {j \in 1 .. Len(log) : id \in Ids(log[j].content.deferrals[s])}}
ActiveFrames(s, from, to) ==
    {log[j].frame : j \in {j \in 1 .. Len(log) : s \in log[j].active /\ log[j].frame \in from .. to}}
DelayExplained ==
    \A s \in Slot :
        /\ \A i \in 1 .. Len(log) : \A k \in 1 .. Len(log[i].content.orders[s]) :
            LET o == log[i].content.orders[s][k]
            IN  DeferredIn(s, o.id) = ActiveFrames(s, o.stamp, log[i].frame - 1)
        /\ \A k \in 1 .. Len(orders[s]) :
            LET o == orders[s][k]
            IN  DeferredIn(s, o.id) = ActiveFrames(s, o.stamp, nextFrame - 1)

\* No backlog can stop a frame or starve a slot: whatever is queued, the
\* frame the builder gathers passes the validation every client repeats, and
\* a slot with a deferred order has an order in the same frame.
FrameAlwaysValid ==
    ~failed /\ ~prepared /\ nextFrame # MaxFrame =>
        LET c == ContentOf(membership) IN
        /\ ValidContent(c, nextFrame, membership)
        /\ \A s \in Slot : c.deferrals[s] # <<>> => c.orders[s] # <<>>

\* The byte account a slot's backpressure reads is what its queue holds.
ByteAccounting ==
    \A s \in Slot :
        /\ bytes[s] = BytesOf(orders[s])
        /\ bytes[s] <= MaxPendingBytes

\* EqualDelay: the open window of a slot that was active in every frame so
\* far is not published yet, so what it sends before a beat runs with that
\* beat's frame and not later (NET-SYNC.md: "a late player's window still
\* lands together").
WindowsLandTogether ==
    policy = "EqualDelay" =>
        \A s \in SlotMask :
            /\ \A i \in 1 .. Len(log) : s \in log[i].active
            /\ prepared => s \in staged.active
            => beatFrame[s] >= NextUnpublished

\* NextFrame: the frame of a receipt is never behind the seals, so an order
\* runs in the frame it arrived in or is deferred by its own slot's backlog;
\* another slot cannot delay it.
ReceiptFrameOpen ==
    policy = "NextFrame" => NextUnpublished <= FrameAfter(now)

=============================================================================
