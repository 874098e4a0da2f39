------------------------------ MODULE RelayFrameScheduler_proofs ------------------------------
(***************************************************************************)
(* What holds of the scheduler and the builder for every number of slots,  *)
(* every budget, every queue limit, every clock and both policies: first   *)
(* the clock, the admission and the types, then what the log tells of      *)
(* every order, for any backlog and course of the membership: where each   *)
(* id went, in which order the orders ran, and why each waited; and that   *)
(* the queues keep their limits and every frame is a valid one.            *)
(***************************************************************************)
EXTENDS RelayFrameScheduler, InductionLemmas, TLAPS, FiniteSetTheorems, SequenceTheorems

-----------------------------------------------------------------------------
\* The clock.

LEMMA DivBounds ==
    ASSUME NEW a \in Nat, NEW m \in Nat \ {0}
    PROVE  /\ a \div m \in Nat
           /\ (a \div m) * m <= a
           /\ a < (a \div m + 1) * m
OBVIOUS

LEMMA DivAtLeast ==
    ASSUME NEW a \in Nat, NEW k \in Int, NEW m \in Nat \ {0}, k * m <= a
    PROVE  k <= a \div m
<1> DEFINE q == a \div m + 1
<1>1. a \div m \in Nat /\ a < q * m
  BY DivBounds
<1>2. SUFFICES ASSUME a \div m < k PROVE FALSE
  BY <1>1
<1>3. q <= k
  BY <1>1, <1>2
<1>4. \A x, y \in Int : x <= y => x * m <= y * m
  OBVIOUS
<1>5. q * m <= k * m
  BY <1>1, <1>3, <1>4
<1> QED BY <1>1, <1>5

\* A receipt belongs to the first frame whose boundary is after it: at the
\* boundary itself it belongs to the next frame (frameAfter, boundaryOf).
THEOREM FirstOpenBoundary ==
    ASSUME NEW receipt \in Nat, receipt >= OriginMs
    PROVE  /\ FrameAfter(receipt) \in Nat
           /\ FrameAfter(receipt) >= FirstFrame
           /\ receipt < BoundaryOf(FrameAfter(receipt))
           /\ \A frame \in Int : receipt >= BoundaryOf(frame) => frame < FrameAfter(receipt)
<1> DEFINE a == receipt - OriginMs
           d == a \div FrameMs
<1>1. a \in Nat /\ FrameMs \in Nat \ {0} /\ FirstFrame \in Nat /\ OriginMs \in Nat
  BY ClockAssumption
<1>2. d \in Nat /\ a < (d + 1) * FrameMs
  BY <1>1, DivBounds
<1>3. FrameAfter(receipt) = FirstFrame + d
  BY DEF FrameAfter
<1>4. BoundaryOf(FrameAfter(receipt)) = OriginMs + (d + 1) * FrameMs
  <2> HIDE DEF d
  <2>1. (FirstFrame + d) - FirstFrame + 1 = d + 1
    BY <1>1, <1>2
  <2>2. BoundaryOf(FirstFrame + d) = OriginMs + ((FirstFrame + d) - FirstFrame + 1) * FrameMs
    BY Zenon DEF BoundaryOf, Elapsed
  <2> QED BY <1>3, <2>1, <2>2, Zenon
<1>5. ASSUME NEW frame \in Int, receipt >= BoundaryOf(frame)
      PROVE  frame < FrameAfter(receipt)
  <2> DEFINE k == frame - FirstFrame + 1
  <2>1. k \in Int
    BY <1>1
  <2>2. k * FrameMs \in Int
    BY <1>1, <2>1
  <2>3. k * FrameMs <= a
    BY <1>1, <1>5, <2>2 DEF BoundaryOf, Elapsed
  <2>4. k <= d
    BY <1>1, <2>1, <2>3, DivAtLeast
  <2> QED BY <1>1, <1>2, <1>3, <2>4
<1>6. (d + 1) * FrameMs \in Int
  BY <1>1, <1>2
<1> QED BY <1>1, <1>2, <1>3, <1>4, <1>5, <1>6

LEMMA FrameAfterMonotone ==
    ASSUME NEW t \in Nat, NEW u \in Nat, OriginMs <= t, t <= u
    PROVE  FrameAfter(t) <= FrameAfter(u)
<1> DEFINE a == t - OriginMs
           b == u - OriginMs
           d == a \div FrameMs
<1>1. a \in Nat /\ b \in Nat /\ a <= b /\ FrameMs \in Nat \ {0} /\ FirstFrame \in Nat
  BY ClockAssumption
<1>2. d \in Nat /\ d * FrameMs <= a /\ d * FrameMs \in Int
  BY <1>1, DivBounds
<1>3. d * FrameMs <= b
  BY <1>1, <1>2
<1>4. d <= b \div FrameMs
  BY <1>1, <1>2, <1>3, DivAtLeast
<1>5. b \div FrameMs \in Nat
  BY <1>1, DivBounds
<1> QED BY <1>1, <1>2, <1>4, <1>5 DEF FrameAfter

-----------------------------------------------------------------------------
\* The helpers on queues.

LEMMA CountBounds ==
    ASSUME NEW q \in Seq(Pending), NEW frame \in Int
    PROVE  /\ EligibleCount(q, frame) \in 0 .. Len(q)
           /\ ConsumedCount(q, frame) \in 0 .. EligibleCount(q, frame)
<1> DEFINE n == EligibleCount(q, frame)
<1>1. \A k \in Nat : \A T \in SUBSET (1 .. k) : Cardinality(T) \in 0 .. k
  <2> SUFFICES ASSUME NEW k \in Nat, NEW T \in SUBSET (1 .. k) PROVE Cardinality(T) \in 0 .. k
    OBVIOUS
  <2>1. IsFiniteSet(1 .. k) /\ Cardinality(1 .. k) = k
    BY FS_Interval
  <2>2. IsFiniteSet(T) /\ Cardinality(T) <= Cardinality(1 .. k)
    BY <2>1, FS_Subset
  <2>3. Cardinality(T) \in Nat
    BY <2>2, FS_CardinalityType
  <2> QED BY <2>1, <2>2, <2>3
<1>2. Len(q) \in Nat
  OBVIOUS
<1>3. n \in 0 .. Len(q)
  BY <1>1, <1>2 DEF EligibleCount
<1>4. ConsumedCount(q, frame) \in 0 .. n
  <2> DEFINE T == {k \in 1 .. n : /\ \A j \in 1 .. k : Ordinary(q[j])
                                  /\ RunningBytes(q)[k] <= PlayerFrameBytes}
  <2>1. n \in Nat /\ T \in SUBSET (1 .. n)
    BY <1>2, <1>3
  <2>2. Cardinality(T) \in 0 .. n
    BY <1>1, <2>1
  <2>3. ConsumedCount(q, frame) = IF n > 0 /\ ~Ordinary(q[1]) THEN 1 ELSE Cardinality(T)
    BY DEF ConsumedCount
  <2> HIDE DEF n, T
  <2> QED BY <2>1, <2>2, <2>3
<1> QED BY <1>3, <1>4

\* A function on 1 .. n is a sequence also where n is negative.
LEMMA FunctionIsSeq ==
    ASSUME NEW S, NEW n \in Int, NEW f \in [1 .. n -> S]
    PROVE  /\ f \in Seq(S)
           /\ f # <<>> => n > 0 /\ Len(f) = n
<1>1. CASE n \in Nat
  <2>1. f \in Seq(S)
    BY <1>1, SeqDef
  <2>2. DOMAIN f = 1 .. n /\ DOMAIN f = 1 .. Len(f) /\ Len(f) \in Nat
    BY <2>1, LenProperties
  <2>3. ASSUME f # <<>> PROVE Len(f) > 0
    BY <2>1, <2>3, EmptySeq
  <2>4. ASSUME NEW k \in Nat, NEW l \in Nat, 1 .. k = 1 .. l, k > 0
        PROVE  k = l
    <3>1. k \in 1 .. l
      BY <2>4
    <3>2. l \in 1 .. k
      BY <2>4, <3>1
    <3> QED BY <3>1, <3>2
  <2> QED BY <1>1, <2>1, <2>2, <2>3, <2>4
<1>2. CASE n \notin Nat
  <2>1. 1 .. n = 1 .. 0 /\ 1 .. 0 = {}
    BY <1>2
  <2>2. f \in Seq(S)
    BY <2>1, SeqDef
  <2>3. DOMAIN f = 1 .. Len(f) /\ DOMAIN f = {} /\ Len(f) \in Nat
    BY <2>1, <2>2, LenProperties
  <2>4. Len(f) = 0
    BY <2>3
  <2>5. f = <<>>
    BY <2>2, <2>4, EmptySeq
  <2> QED BY <2>2, <2>5
<1> QED BY <1>1, <1>2

LEMMA AppendLast ==
    ASSUME NEW S, NEW q \in Seq(S), NEW e \in S
    PROVE  LET r == Append(q, e) IN r # <<>> /\ r[Len(r)] = e
<1>1. Len(q) \in Nat /\ Len(Append(q, e)) = Len(q) + 1
  OBVIOUS
<1>2. Append(q, e)[Len(q) + 1] = e
  OBVIOUS
<1>3. Len(<<>>) = 0
  OBVIOUS
<1> QED BY <1>1, <1>2, <1>3

LEMMA DeferralsType ==
    ASSUME NEW q \in Seq(Pending), NEW frame \in Frames, frame # MaxFrame
    PROVE  DeferralsOf(q, frame) \in Seq(Deferral)
<1> DEFINE e == EligibleCount(q, frame)
           c == ConsumedCount(q, frame)
<1>1. FirstFrame \in Nat /\ MaxFrame \in Nat
  BY ClockAssumption
<1>2. frame \in Nat /\ frame + 1 \in Frames
  BY <1>1 DEF Frames
<1>3. e \in 0 .. Len(q) /\ c \in 0 .. e /\ Len(q) \in Nat
  BY <1>2, CountBounds
<1> HIDE DEF e, c
<1>4. ASSUME NEW i \in 1 .. e - c
      PROVE  [id |-> q[c + i].id, size |-> q[c + i].size, from |-> frame, to |-> frame + 1,
              alone |-> ~Ordinary(q[1])] \in Deferral
  <2>1. c + i \in 1 .. Len(q)
    BY <1>3
  <2>2. q[c + i] \in Pending
    BY <2>1
  <2>3. q[c + i].id \in Nat /\ q[c + i].size \in Nat
    BY <2>2 DEF Pending
  <2>4. (~Ordinary(q[1])) \in BOOLEAN
    BY Zenon
  <2> QED BY <1>2, <2>3, <2>4 DEF Deferral
<1>5. DeferralsOf(q, frame) = [i \in 1 .. e - c |->
        [id |-> q[c + i].id, size |-> q[c + i].size, from |-> frame, to |-> frame + 1,
         alone |-> ~Ordinary(q[1])]]
  BY DEF DeferralsOf, e, c
<1>6. DeferralsOf(q, frame) \in [1 .. e - c -> Deferral]
  BY <1>4, <1>5
<1>7. e - c \in Int
  BY <1>3
<1> QED BY <1>6, <1>7, FunctionIsSeq

\* What committed leaves of a queue.
LEMMA ReleasedType ==
    ASSUME NEW q \in Seq(Pending), NEW consumed \in Nat, NEW deferred \in Nat,
           nextFrame \in Frames, nextFrame # MaxFrame
    PROVE  /\ Released(q, consumed, deferred) \in Seq(Pending)
           /\ Released(q, consumed, deferred) # <<>> =>
                LET r == Released(q, consumed, deferred) IN
                /\ q # <<>>
                /\ r[Len(r)].eligible \in {nextFrame + 1, q[Len(q)].eligible}
<1> DEFINE n == Len(q) - consumed
           r == Released(q, consumed, deferred)
<1>1. nextFrame + 1 \in Frames /\ nextFrame \in Nat
  BY ClockAssumption DEF Frames
<1>2. Len(q) \in Nat /\ n \in Int
  OBVIOUS
<1>3. ASSUME NEW i \in 1 .. n
      PROVE  /\ r[i] \in Pending
             /\ r[i].eligible \in {nextFrame + 1, q[consumed + i].eligible}
  <2>1. consumed + i \in 1 .. Len(q)
    BY <1>2
  <2>2. q[consumed + i] \in Pending
    BY <2>1
  <2>3. r[i] = IF i <= deferred THEN [q[consumed + i] EXCEPT !.eligible = nextFrame + 1]
               ELSE q[consumed + i]
    BY DEF Released
  <2>4. [q[consumed + i] EXCEPT !.eligible = nextFrame + 1] \in Pending
    BY <1>1, <2>2 DEF Pending
  <2>5. [q[consumed + i] EXCEPT !.eligible = nextFrame + 1].eligible = nextFrame + 1
    BY <2>2 DEF Pending
  <2> QED BY <2>2, <2>3, <2>4, <2>5
<1>4. r \in [1 .. n -> Pending]
  <2>1. r = [i \in 1 .. n |-> r[i]]
    BY DEF Released
  <2> HIDE DEF r
  <2> QED BY <1>3, <2>1
<1>5. r \in Seq(Pending)
  <2> HIDE DEF r, n
  <2> QED BY <1>2, <1>4, FunctionIsSeq
<1>6. ASSUME r # <<>>
      PROVE  q # <<>> /\ r[Len(r)].eligible \in {nextFrame + 1, q[Len(q)].eligible}
  <2>1. n > 0 /\ Len(r) = n
    <3> HIDE DEF r, n
    <3> QED BY <1>2, <1>4, <1>6, FunctionIsSeq
  <2>3. consumed + n = Len(q) /\ n \in 1 .. n
    BY <1>2, <2>1
  <2>4. q # <<>>
    BY <1>2, <2>1
  <2> HIDE DEF r, n
  <2>5. r[Len(r)].eligible \in {nextFrame + 1, q[consumed + n].eligible}
    BY <1>3, <2>1, <2>3
  <2> QED BY <2>3, <2>4, <2>5
<1> QED BY <1>5, <1>6

LEMMA ContentType ==
    ASSUME TypeOK, nextFrame # MaxFrame, NEW m \in Snapshot
    PROVE  ContentOf(m) \in Content
<1>1. nextFrame \in Frames /\ nextFrame \in Int
  BY ClockAssumption DEF TypeOK, Frames
<1>2. ASSUME NEW s \in Slot
      PROVE  /\ SubSeq(orders[s], 1, ConsumedCount(orders[s], nextFrame)) \in Seq(Pending)
             /\ DeferralsOf(orders[s], nextFrame) \in Seq(Deferral)
             /\ refusals[s] \in Seq(Refusal)
  <2> DEFINE q == orders[s]
             c == ConsumedCount(q, nextFrame)
  <2>1. q \in Seq(Pending) /\ refusals[s] \in Seq(Refusal)
    BY DEF TypeOK
  <2> HIDE DEF q
  <2>2. EligibleCount(q, nextFrame) \in 0 .. Len(q) /\ c \in 0 .. EligibleCount(q, nextFrame)
    BY <1>1, <2>1, CountBounds
  <2> HIDE DEF c
  <2>3. Len(q) \in Nat /\ c \in 0 .. Len(q)
    BY <2>1, <2>2
  <2>4. \A i \in 1 .. c : q[i] \in Pending
    BY <2>1, <2>3
  <2>5. SubSeq(q, 1, c) \in Seq(Pending)
    BY <2>3, <2>4, SubSeqProperties
  <2>6. DeferralsOf(q, nextFrame) \in Seq(Deferral)
    BY <1>1, <2>1, DeferralsType
  <2> QED BY <2>1, <2>5, <2>6 DEF q, c
<1>3. \A S : <<>> \in Seq(S)
  BY EmptySeq
<1> QED BY <1>2, <1>3 DEF ContentOf, Content, TypeOK

-----------------------------------------------------------------------------
\* The inductive invariant: the types; the clock is past its origin; a frame
\* is in flight only where its successor exists; and the last order of every
\* queue is eligible no later than the frame the slot's next order is stamped
\* for.

QueueBehindStamp == \A s \in Slot : LastEligible(s) <= Stamp(s)

IInv ==
    /\ TypeOK
    /\ now >= OriginMs
    /\ prepared => nextFrame # MaxFrame
    /\ QueueBehindStamp

LEMMA NextUnpublishedType ==
    ASSUME TypeOK
    PROVE  NextUnpublished \in Frames /\ NextUnpublished \in Nat
BY ClockAssumption DEF TypeOK, Frames, NextUnpublished

LEMMA StampType ==
    ASSUME TypeOK, now >= OriginMs, NEW s \in Slot
    PROVE  /\ StampCandidate(s) \in Nat
           /\ Stamp(s) \in Nat
           /\ Stamp(s) >= FirstFrame
           /\ NextUnpublished <= Stamp(s)
           /\ StampCandidate(s) <= MaxFrame => Stamp(s) \in Frames
<1>1. FirstFrame \in Nat /\ MaxFrame \in Nat /\ now \in Nat
  BY ClockAssumption DEF TypeOK
<1>2. FrameAfter(now) \in Nat /\ FrameAfter(now) >= FirstFrame
  BY <1>1, FirstOpenBoundary DEF TypeOK
<1>3. beatFrame[s] \in Nat /\ beatFrame[s] >= FirstFrame
  BY <1>1 DEF TypeOK, Frames
<1>4. StampCandidate(s) \in Nat /\ StampCandidate(s) >= FirstFrame
  BY <1>2, <1>3 DEF StampCandidate
<1>5. NextUnpublished \in Frames /\ NextUnpublished \in Nat
  BY NextUnpublishedType
<1> QED BY <1>1, <1>4, <1>5 DEF Stamp, Frames

LEMMA LastEligibleType ==
    ASSUME TypeOK, NEW s \in Slot
    PROVE  LastEligible(s) \in Nat
<1>1. FirstFrame \in Nat
  BY ClockAssumption
<1>2. orders[s] \in Seq(Pending)
  BY DEF TypeOK
<1>3. CASE orders[s] # <<>>
  <2>1. Len(orders[s]) \in 1 .. Len(orders[s])
    BY <1>2, <1>3, EmptySeq
  <2>2. orders[s][Len(orders[s])] \in Pending
    BY <1>2, <2>1
  <2> QED BY <1>1, <1>3, <2>2 DEF LastEligible, Pending, Frames
<1> QED BY <1>3 DEF LastEligible

LEMMA InitInv == Init => IInv
<1> SUFFICES ASSUME Init PROVE IInv
  OBVIOUS
<1> USE DEF Init, BuilderInit
<1>1. FirstFrame \in Frames /\ OriginMs \in Nat
  BY ClockAssumption DEF Frames
<1>2. \A S : <<>> \in Seq(S)
  BY EmptySeq
<1>3. NoRecord \in FrameRecord
  BY <1>2 DEF NoRecord, FrameRecord, Content
<1>4. SnapshotOf(SlotMask, {}) \in Snapshot
  BY ClockAssumption, BundleAssumption DEF SnapshotOf, Snapshot
<1>5. TypeOK
  <2>1. nextFrame \in Frames /\ failed \in BOOLEAN /\ prepared \in BOOLEAN /\ now \in Nat
    BY <1>1
  <2>2. /\ nextId \in [Slot -> Nat \ {0}] /\ nextBeatId \in [Slot -> Nat \ {0}]
        /\ beatFrame \in [Slot -> Frames]
    BY <1>1
  <2>3. /\ orders \in [Slot -> Seq(Pending)] /\ refusals \in [Slot -> Seq(Refusal)]
        /\ log \in Seq(FrameRecord)
    BY <1>2
  <2>4. staged \in FrameRecord /\ membership \in Snapshot
    BY <1>3, <1>4
  <2> QED BY <2>1, <2>2, <2>3, <2>4 DEF TypeOK
<1>6. now >= OriginMs
  BY <1>1
<1>7. QueueBehindStamp
  <2> SUFFICES ASSUME NEW s \in Slot PROVE LastEligible(s) <= Stamp(s)
    BY DEF QueueBehindStamp
  <2>1. LastEligible(s) = 0
    BY DEF LastEligible
  <2> QED BY <1>5, <1>6, <2>1, StampType
<1> QED BY <1>5, <1>6, <1>7 DEF IInv

\* One lemma per action of the slots and of the relay.

LEMMA OrderPreserves ==
    ASSUME IInv, NEW s \in SlotMask, NEW id \in 1 .. MaxId[s], NEW size \in Sizes[policy],
           AdmitOrder(s, id, size)
    PROVE  IInv'
<1>1. s \in Slot /\ id \in Nat /\ size \in Nat /\ MaxFrame \in Nat
  <2>1. Sizes[policy] \in SUBSET Nat
    BY SchedulerAssumption DEF IInv, TypeOK
  <2> QED BY <2>1, ClockAssumption, BundleAssumption, SchedulerAssumption
<1>2. TypeOK /\ now >= OriginMs /\ QueueBehindStamp /\ (prepared => nextFrame # MaxFrame)
  BY DEF IInv
<1>3. /\ UNCHANGED <<beatFrame, nextBeatId, now, membership, policy>>
      /\ UNCHANGED <<nextFrame, failed, prepared, staged, log>>
  BY DEF AdmitOrder, BuilderAdmit
<1>4. /\ now' >= OriginMs
      /\ prepared' => nextFrame' # MaxFrame
      /\ NextUnpublished' = NextUnpublished
      /\ \A r \in Slot : Stamp(r)' = Stamp(r)
  BY <1>2, <1>3 DEF NextUnpublished, Stamp, StampCandidate, FrameAfter
<1>5. CASE /\ Admission(s, id, Stamp(s), size) = "Accepted"
           /\ orders' = [orders EXCEPT ![s] = Append(@,
                [id |-> id, size |-> size, eligible |-> Stamp(s), stamp |-> Stamp(s)])]
           /\ nextId' = [nextId EXCEPT ![s] = @ + 1]
           /\ refusals' = refusals
  <2> DEFINE new == [id |-> id, size |-> size, eligible |-> Stamp(s), stamp |-> Stamp(s)]
  <2>1. StampCandidate(s) <= MaxFrame
    <3>1. OrderAdmission(s, id, size) # "InvalidFrame"
      BY DEF AdmitOrder
    <3>2. policy = "NextFrame" => FrameAfter(now) <= MaxFrame
      BY <3>1 DEF OrderAdmission, FrameAfterInRange
    <3>3. beatFrame[s] <= MaxFrame
      BY <1>1, <1>2 DEF TypeOK, Frames
    <3> QED BY <3>2, <3>3 DEF StampCandidate
  <2>2. Stamp(s) \in Frames
    BY <1>1, <1>2, <2>1, StampType
  <2>3. new \in Pending
    BY <1>1, <2>2 DEF Pending
  <2>4. orders[s] \in Seq(Pending)
    BY <1>1, <1>2 DEF TypeOK
  <2>5. Append(orders[s], new) \in Seq(Pending)
    BY <2>3, <2>4
  <2>6. orders' \in [Slot -> Seq(Pending)] /\ nextId' \in [Slot -> Nat \ {0}]
    BY <1>1, <1>2, <1>5, <2>5 DEF TypeOK
  <2>7. TypeOK'
    BY <1>2, <1>3, <1>5, <2>6 DEF TypeOK
  <2>8. QueueBehindStamp'
    <3> SUFFICES ASSUME NEW r \in Slot PROVE LastEligible(r)' <= Stamp(r)'
      BY DEF QueueBehindStamp
    <3>1. CASE r = s
      <4>1. orders'[s] = Append(orders[s], new)
        BY <1>1, <1>2, <1>5 DEF TypeOK
      <4>2. orders'[s] # <<>> /\ orders'[s][Len(orders'[s])] = new
        BY <2>3, <2>4, <4>1, AppendLast
      <4>3. LastEligible(s)' = Stamp(s)
        BY <4>2 DEF LastEligible
      <4> QED BY <1>1, <1>2, <1>4, <3>1, <4>3, StampType
    <3>2. CASE r # s
      <4>1. orders'[r] = orders[r]
        BY <1>2, <1>5, <3>2 DEF TypeOK
      <4> QED BY <1>2, <1>4, <4>1 DEF LastEligible, QueueBehindStamp
    <3> QED BY <3>1, <3>2
  <2> QED BY <1>4, <2>7, <2>8 DEF IInv
<1>6. CASE /\ refusals' = [refusals EXCEPT ![s] = Append(@, [id |-> id, size |-> size])]
           /\ nextId' = [nextId EXCEPT ![s] = @ + 1]
           /\ orders' = orders
  <2>1. refusals[s] \in Seq(Refusal) /\ [id |-> id, size |-> size] \in Refusal
    BY <1>1, <1>2 DEF TypeOK, Refusal
  <2>2. Append(refusals[s], [id |-> id, size |-> size]) \in Seq(Refusal)
    BY <2>1
  <2>3. refusals' \in [Slot -> Seq(Refusal)] /\ nextId' \in [Slot -> Nat \ {0}]
    BY <1>1, <1>2, <1>6, <2>2 DEF TypeOK
  <2>4. TypeOK'
    BY <1>2, <1>3, <1>6, <2>3 DEF TypeOK
  <2>5. QueueBehindStamp'
    BY <1>2, <1>4, <1>6 DEF QueueBehindStamp, LastEligible
  <2> QED BY <1>4, <2>4, <2>5 DEF IInv
<1> QED BY <1>5, <1>6 DEF AdmitOrder, BuilderAdmit

LEMMA BeatPreserves ==
    ASSUME IInv, NEW s \in SlotMask, NEW id \in 1 .. MaxBeat[policy][s], AdmitBeat(s, id)
    PROVE  IInv'
<1>1. s \in Slot /\ MaxFrame \in Nat /\ FirstFrame \in Nat
  BY ClockAssumption, BundleAssumption
<1>2. TypeOK /\ now >= OriginMs /\ QueueBehindStamp /\ (prepared => nextFrame # MaxFrame)
  BY DEF IInv
<1>3. UNCHANGED <<builderVars, now, membership, policy>>
  BY DEF AdmitBeat
<1>4. /\ beatFrame' = [beatFrame EXCEPT ![s] = @ + 1]
      /\ nextBeatId' = [nextBeatId EXCEPT ![s] = @ + 1]
      /\ beatFrame[s] # MaxFrame
  BY DEF AdmitBeat, BeatAdmission
<1>5. beatFrame' \in [Slot -> Frames] /\ nextBeatId' \in [Slot -> Nat \ {0}]
  BY <1>1, <1>2, <1>4 DEF TypeOK, Frames
<1>6. TypeOK'
  BY <1>2, <1>3, <1>5 DEF TypeOK, builderVars
<1>7. QueueBehindStamp'
  <2> SUFFICES ASSUME NEW r \in Slot PROVE LastEligible(r)' <= Stamp(r)'
    BY DEF QueueBehindStamp
  <2>1. LastEligible(r)' = LastEligible(r)
    BY <1>3 DEF LastEligible, builderVars
  <2>2. NextUnpublished' = NextUnpublished /\ FrameAfter(now)' = FrameAfter(now)
    BY <1>3 DEF NextUnpublished, builderVars
  <2>3. beatFrame[r] \in Nat /\ beatFrame'[r] \in Nat /\ beatFrame[r] <= beatFrame'[r]
    BY <1>1, <1>2, <1>4, SMTT(20) DEF TypeOK, Frames
  <2>4. FrameAfter(now) \in Nat /\ NextUnpublished \in Nat
    BY <1>2, FirstOpenBoundary, NextUnpublishedType DEF TypeOK
  <2>5. Stamp(r) <= Stamp(r)' /\ Stamp(r) \in Nat /\ Stamp(r)' \in Nat
    BY <1>3, <2>2, <2>3, <2>4 DEF Stamp, StampCandidate
  <2> QED BY <1>2, <2>1, <2>5, LastEligibleType DEF QueueBehindStamp
<1> QED BY <1>2, <1>3, <1>6, <1>7 DEF IInv, builderVars

LEMMA SealPreserves == IInv /\ Seal => IInv'
<1> SUFFICES ASSUME IInv, Seal PROVE IInv'
  OBVIOUS
<1>1. TypeOK /\ now >= OriginMs /\ QueueBehindStamp
  BY DEF IInv
<1>2. /\ ~prepared /\ nextFrame # MaxFrame /\ prepared' = TRUE
      /\ staged' = [frame |-> nextFrame, active |-> membership.active,
                    content |-> ContentOf(membership)]
      /\ UNCHANGED <<nextFrame, failed, nextId, orders, bytes, refusals, log>>
      /\ UNCHANGED <<beatFrame, nextBeatId, now, membership, policy>>
  BY DEF Seal, BuilderPrepare, CanPrepare
<1>3. membership \in Snapshot /\ membership.active \in SUBSET Slot /\ nextFrame \in Nat
  BY <1>1, ClockAssumption DEF TypeOK, Snapshot, Frames
<1>4. ContentOf(membership) \in Content
  BY <1>1, <1>2, <1>3, ContentType
<1>5. staged' \in FrameRecord
  BY <1>2, <1>3, <1>4 DEF FrameRecord
<1>6. TypeOK'
  BY <1>1, <1>2, <1>5 DEF TypeOK
<1>7. QueueBehindStamp'
  <2> SUFFICES ASSUME NEW s \in Slot PROVE LastEligible(s)' <= Stamp(s)'
    BY DEF QueueBehindStamp
  <2>1. LastEligible(s)' = LastEligible(s) /\ StampCandidate(s)' = StampCandidate(s)
    BY <1>2 DEF LastEligible, StampCandidate, FrameAfter
  <2>2. NextUnpublished \in Nat /\ NextUnpublished' \in Nat /\ NextUnpublished <= NextUnpublished'
    BY <1>2, <1>3 DEF NextUnpublished
  <2>3. StampCandidate(s) \in Nat
    BY <1>1, StampType
  <2>4. Stamp(s) <= Stamp(s)' /\ Stamp(s) \in Nat /\ Stamp(s)' \in Nat
    BY <2>1, <2>2, <2>3 DEF Stamp
  <2> QED BY <1>1, <2>1, <2>4, LastEligibleType DEF QueueBehindStamp
<1> QED BY <1>1, <1>2, <1>6, <1>7 DEF IInv

LEMMA CommitPreserves == IInv /\ AppendSucceeds => IInv'
<1> SUFFICES ASSUME IInv, AppendSucceeds PROVE IInv'
  OBVIOUS
<1> DEFINE c == staged.content
           ran(s) == Len(c.orders[s])
           late(s) == Len(c.deferrals[s])
<1>1. TypeOK /\ now >= OriginMs /\ QueueBehindStamp
  BY DEF IInv
<1>2. /\ prepared /\ nextFrame # MaxFrame
      /\ orders' = [s \in Slot |-> Released(orders[s], ran(s), late(s))]
      /\ refusals' = [s \in Slot |->
            SubSeq(refusals[s], Len(c.refusals[s]) + 1, Len(refusals[s]))]
      /\ log' = Append(log, staged)
      /\ nextFrame' = nextFrame + 1
      /\ prepared' = FALSE
      /\ staged' = NoRecord
      /\ UNCHANGED <<failed, nextId>>
      /\ UNCHANGED <<beatFrame, nextBeatId, now, membership, policy>>
  BY DEF IInv, AppendSucceeds, BuilderCommitted
<1>3. nextFrame \in Frames /\ nextFrame \in Nat /\ nextFrame' \in Frames
  BY <1>1, <1>2, ClockAssumption DEF TypeOK, Frames
<1>4. ASSUME NEW s \in Slot
      PROVE  /\ orders[s] \in Seq(Pending) /\ refusals[s] \in Seq(Refusal)
             /\ ran(s) \in Nat /\ late(s) \in Nat /\ Len(c.refusals[s]) \in Nat
  BY <1>1 DEF TypeOK, FrameRecord, Content
<1>5. ASSUME NEW s \in Slot
      PROVE  /\ orders'[s] \in Seq(Pending)
             /\ orders'[s] # <<>> =>
                    /\ orders[s] # <<>>
                    /\ orders'[s][Len(orders'[s])].eligible
                            \in {nextFrame + 1, orders[s][Len(orders[s])].eligible}
  <2>1. orders'[s] = Released(orders[s], ran(s), late(s))
    BY <1>2
  <2> QED BY <1>2, <1>3, <1>4, <2>1, ReleasedType
<1>6. orders' \in [Slot -> Seq(Pending)]
  <2>1. orders' = [s \in Slot |-> orders'[s]]
    BY <1>2
  <2> QED BY <1>5, <2>1
<1>7. refusals' \in [Slot -> Seq(Refusal)]
  <2> SUFFICES ASSUME NEW s \in Slot
               PROVE  SubSeq(refusals[s], Len(c.refusals[s]) + 1, Len(refusals[s])) \in Seq(Refusal)
    BY <1>2
  <2>1. Len(refusals[s]) \in Nat
    BY <1>4
  <2>2. \A i \in Len(c.refusals[s]) + 1 .. Len(refusals[s]) : refusals[s][i] \in Refusal
    BY <1>4, <2>1
  <2> QED BY <1>4, <2>1, <2>2, SubSeqProperties
<1>8. NoRecord \in FrameRecord /\ log' \in Seq(FrameRecord)
  <2>1. \A S : <<>> \in Seq(S)
    BY EmptySeq
  <2>2. NoRecord \in FrameRecord
    BY <2>1 DEF NoRecord, FrameRecord, Content
  <2>3. staged \in FrameRecord /\ log \in Seq(FrameRecord)
    BY <1>1 DEF TypeOK
  <2> QED BY <1>2, <2>2, <2>3
<1>9. TypeOK'
  BY <1>1, <1>2, <1>3, <1>6, <1>7, <1>8 DEF TypeOK
<1>10. NextUnpublished = nextFrame + 1 /\ NextUnpublished' = nextFrame + 1
  BY <1>2 DEF NextUnpublished
<1>11. QueueBehindStamp'
  <2> SUFFICES ASSUME NEW s \in Slot PROVE LastEligible(s)' <= Stamp(s)'
    BY DEF QueueBehindStamp
  <2>1. Stamp(s)' = Stamp(s)
    BY <1>2, <1>10 DEF Stamp, StampCandidate, FrameAfter
  <2>2. Stamp(s) \in Nat /\ nextFrame + 1 <= Stamp(s) /\ LastEligible(s) <= Stamp(s)
    BY <1>1, <1>10, StampType DEF QueueBehindStamp
  <2>3. CASE orders'[s] = <<>>
    BY <2>1, <2>2, <2>3 DEF LastEligible
  <2>4. CASE orders'[s] # <<>>
    <3>1. LastEligible(s)' \in {nextFrame + 1, LastEligible(s)}
      BY <1>5, <2>4 DEF LastEligible
    <3> QED BY <2>1, <2>2, <3>1
  <2> QED BY <2>3, <2>4
<1> QED BY <1>1, <1>2, <1>9, <1>11 DEF IInv

LEMMA TickPreserves == IInv /\ Tick => IInv'
<1> SUFFICES ASSUME IInv, Tick PROVE IInv'
  OBVIOUS
<1>1. TypeOK /\ now >= OriginMs /\ QueueBehindStamp /\ (prepared => nextFrame # MaxFrame)
  BY DEF IInv
<1>2. now' = now + 1 /\ UNCHANGED <<builderVars, beatFrame, nextBeatId, membership, policy>>
  BY DEF Tick
<1>3. now \in Nat /\ now' \in Nat /\ now <= now' /\ OriginMs \in Nat
  BY <1>1, <1>2, ClockAssumption DEF TypeOK
<1>4. TypeOK'
  BY <1>1, <1>2, <1>3 DEF TypeOK, builderVars
<1>5. FrameAfter(now) \in Nat /\ FrameAfter(now') \in Nat /\ FrameAfter(now) <= FrameAfter(now')
  BY <1>1, <1>3, FirstOpenBoundary, FrameAfterMonotone
<1>6. QueueBehindStamp'
  <2> SUFFICES ASSUME NEW s \in Slot PROVE LastEligible(s)' <= Stamp(s)'
    BY DEF QueueBehindStamp
  <2>1. LastEligible(s)' = LastEligible(s) /\ NextUnpublished' = NextUnpublished
    BY <1>2 DEF LastEligible, NextUnpublished, builderVars
  <2>2. NextUnpublished \in Nat /\ beatFrame[s] \in Nat
    BY <1>1, NextUnpublishedType, ClockAssumption DEF TypeOK, Frames
  <2>3. FrameAfter(now)' = FrameAfter(now') /\ beatFrame'[s] = beatFrame[s]
    BY <1>2 DEF FrameAfter
  <2>4. Stamp(s) <= Stamp(s)' /\ Stamp(s) \in Nat /\ Stamp(s)' \in Nat
    BY <1>2, <1>5, <2>1, <2>2, <2>3 DEF Stamp, StampCandidate
  <2> QED BY <1>1, <2>1, <2>4, LastEligibleType DEF QueueBehindStamp
<1> QED BY <1>1, <1>2, <1>3, <1>4, <1>6 DEF IInv, builderVars

LEMMA MembershipPreserves == IInv /\ MembershipChanges => IInv'
<1> SUFFICES ASSUME IInv, MembershipChanges PROVE IInv'
  OBVIOUS
<1>1. TypeOK /\ now >= OriginMs /\ QueueBehindStamp /\ (prepared => nextFrame # MaxFrame)
  BY DEF IInv
<1>2. UNCHANGED <<builderVars, beatFrame, nextBeatId, now, policy>>
  BY DEF MembershipChanges
<1>3. membership' \in Snapshot
  <2>1. PICK away \in SUBSET Unsteady : \E held \in SUBSET away :
            membership' = SnapshotOf(SlotMask \ away, held)
    BY DEF MembershipChanges
  <2>2. PICK held \in SUBSET away : membership' = SnapshotOf(SlotMask \ away, held)
    BY <2>1
  <2> QED BY <2>2, ClockAssumption, BundleAssumption, SchedulerAssumption
          DEF SnapshotOf, Snapshot
<1>4. TypeOK'
  BY <1>1, <1>2, <1>3 DEF TypeOK, builderVars
<1>5. QueueBehindStamp'
  BY <1>1, <1>2 DEF QueueBehindStamp, LastEligible, Stamp, StampCandidate, FrameAfter,
                    NextUnpublished, builderVars
<1> QED BY <1>1, <1>2, <1>4, <1>5 DEF IInv, builderVars

LEMMA StepInv == IInv /\ [Next]_vars => IInv'
<1> SUFFICES ASSUME IInv, [Next]_vars PROVE IInv'
  OBVIOUS
<1>1. ASSUME NEW s \in SlotMask, NEW id \in 1 .. MaxId[s], NEW size \in Sizes[policy],
             AdmitOrder(s, id, size)
      PROVE  IInv'
  BY <1>1, OrderPreserves
<1>2. ASSUME NEW s \in SlotMask, NEW id \in 1 .. MaxBeat[policy][s], AdmitBeat(s, id)
      PROVE  IInv'
  BY <1>2, BeatPreserves
<1>3. CASE Seal
  BY <1>3, SealPreserves
<1>4. CASE AppendSucceeds
  BY <1>4, CommitPreserves
<1>5. CASE AppendFails
  <2>1. failed' = TRUE /\ UNCHANGED <<beatFrame, nextBeatId, now, membership, policy>>
        /\ UNCHANGED <<nextFrame, nextId, orders, bytes, refusals, prepared, staged, log>>
    BY <1>5 DEF AppendFails, BuilderFail
  <2>2. TypeOK'
    BY <2>1 DEF IInv, TypeOK
  <2>3. QueueBehindStamp'
    BY <2>1 DEF IInv, QueueBehindStamp, LastEligible, Stamp, StampCandidate, FrameAfter,
                NextUnpublished
  <2> QED BY <2>1, <2>2, <2>3 DEF IInv
<1>6. CASE Tick
  BY <1>6, TickPreserves
<1>7. CASE MembershipChanges
  BY <1>7, MembershipPreserves
<1>8. CASE UNCHANGED vars
  <2>1. TypeOK'
    BY <1>8 DEF IInv, TypeOK, vars, builderVars
  <2>2. QueueBehindStamp'
    BY <1>8 DEF IInv, QueueBehindStamp, LastEligible, Stamp, StampCandidate, FrameAfter,
                NextUnpublished, vars, builderVars
  <2> QED BY <1>8, <2>1, <2>2 DEF IInv, vars, builderVars
<1> QED BY <1>1, <1>2, <1>3, <1>4, <1>5, <1>6, <1>7, <1>8 DEF Next, Client, Relay

THEOREM Inductive == Spec => []IInv
BY InitInv, StepInv, PTL DEF Spec

-----------------------------------------------------------------------------
\* The properties the runs check.

\* Types: every frame number the scheduler and the builder keep stays within
\* the 32-bit range they test against.
THEOREM TypeCorrect == Spec => []TypeOK
<1>1. IInv => TypeOK
  BY DEF IInv
<1> QED BY <1>1, Inductive, PTL

\* The builder never refuses as InvalidFrame what the scheduler stamps: the
\* stamp is never behind the last order queued, deferred or not, and never
\* behind the staged frame.
THEOREM StampsAreAdmitted == Spec => []AdmissionInOrder
<1>1. IInv => AdmissionInOrder
  <2> SUFFICES ASSUME IInv, NEW s \in SlotMask, NEW size \in Sizes[policy],
                      Stamp(s) < MaxFrame,
                      policy = "NextFrame" => FrameAfterInRange(now)
               PROVE  OrderAdmission(s, nextId[s], size) # "InvalidFrame"
    BY DEF AdmissionInOrder
  <2>1. s \in Slot /\ MaxFrame \in Nat
    BY ClockAssumption, BundleAssumption
  <2>2. Stamp(s) \in Nat /\ NextUnpublished \in Nat /\ NextUnpublished <= Stamp(s)
    BY <2>1, StampType, NextUnpublishedType DEF IInv
  <2>3. LastEligible(s) \in Nat /\ LastEligible(s) <= Stamp(s)
    BY <2>1, LastEligibleType DEF IInv, QueueBehindStamp
  <2>4. ~(Stamp(s) = MaxFrame \/ Stamp(s) < NextUnpublished \/ Stamp(s) < LastEligible(s))
    BY <2>1, <2>2, <2>3
  <2>5. Admission(s, nextId[s], Stamp(s), size) # "InvalidFrame"
    BY <2>4 DEF Admission
  <2> QED BY <2>5 DEF OrderAdmission
<1> QED BY <1>1, Inductive, PTL

\* What an action may do to the frame in flight: only Seal moves the first
\* unpublished frame, and it moves it by one.
LEMMA OnlySealAdvances ==
    ASSUME IInv, [Next]_vars
    PROVE  \/ Seal
           \/ /\ NextUnpublished' = NextUnpublished
              /\ \/ AppendSucceeds
                 \/ UNCHANGED <<log, prepared, staged>>
<1>1. CASE AppendSucceeds
  <2>1. NextUnpublished' = NextUnpublished
    BY <1>1 DEF IInv, AppendSucceeds, BuilderCommitted, NextUnpublished
  <2> QED BY <1>1, <2>1
<1>2. ASSUME NEW s \in SlotMask, NEW id, NEW size, AdmitOrder(s, id, size)
      PROVE  UNCHANGED <<nextFrame, prepared, log, staged>>
  BY <1>2 DEF AdmitOrder, BuilderAdmit
<1>3. ASSUME NEW s \in SlotMask, NEW id, AdmitBeat(s, id)
      PROVE  UNCHANGED <<nextFrame, prepared, log, staged>>
  BY <1>3 DEF AdmitBeat, builderVars
<1>4. AppendFails \/ Tick \/ MembershipChanges \/ UNCHANGED vars
      => UNCHANGED <<nextFrame, prepared, log, staged>>
  BY DEF AppendFails, BuilderFail, Tick, MembershipChanges, vars, builderVars
<1>5. UNCHANGED <<nextFrame, prepared, log, staged>>
      => NextUnpublished' = NextUnpublished /\ UNCHANGED <<log, prepared, staged>>
  BY DEF NextUnpublished
<1> QED BY <1>1, <1>2, <1>3, <1>4, <1>5 DEF Next, Client, Relay

LEMMA SealAdvances ==
    ASSUME IInv, Seal
    PROVE  /\ NextUnpublished = nextFrame
           /\ NextUnpublished' = nextFrame + 1
           /\ UNCHANGED <<now, beatFrame, log>>
BY DEF Seal, BuilderPrepare, CanPrepare, NextUnpublished

LEMMA PolicyStays == [Next]_vars => policy' = policy
BY DEF Next, Client, Relay, AdmitOrder, AdmitBeat, Seal, AppendSucceeds, AppendFails, Tick,
       MembershipChanges, vars

\* NextFrame: the seals never run ahead of the clock, so the frame a receipt
\* belongs to is still open: sealDue and frameAfter agree at every boundary.
THEOREM ReceiptsMeetOpenFrames == Spec => []ReceiptFrameOpen
<1>1. Init => ReceiptFrameOpen
  BY ClockAssumption, FirstOpenBoundary DEF Init, BuilderInit, ReceiptFrameOpen, NextUnpublished
<1>2. IInv /\ IInv' /\ ReceiptFrameOpen /\ [Next]_vars => ReceiptFrameOpen'
  <2> SUFFICES ASSUME IInv, IInv', ReceiptFrameOpen, [Next]_vars, policy = "NextFrame"
               PROVE  NextUnpublished' <= FrameAfter(now')
    BY PolicyStays DEF ReceiptFrameOpen, FrameAfter
  <2>1. /\ now \in Nat /\ now' \in Nat /\ OriginMs <= now /\ OriginMs <= now'
        /\ nextFrame \in Int /\ NextUnpublished \in Int
    BY ClockAssumption, NextUnpublishedType DEF IInv, TypeOK, Frames
  <2>2. FrameAfter(now) \in Nat /\ FrameAfter(now') \in Nat
    BY <2>1, FirstOpenBoundary
  <2>3. CASE Seal
    <3>1. NextUnpublished = nextFrame /\ NextUnpublished' = nextFrame + 1 /\ now' = now
      BY <2>3, SealAdvances
    <3>2. now >= BoundaryOf(nextFrame)
      BY <2>3, <3>1 DEF Seal, SealDue
    <3>3. nextFrame < FrameAfter(now)
      BY <2>1, <3>2, FirstOpenBoundary
    <3> QED BY <2>1, <2>2, <3>1, <3>3
  <2>4. CASE ~Seal
    <3>1. NextUnpublished' = NextUnpublished
      BY <2>4, OnlySealAdvances
    <3>2. now' = now \/ now' = now + 1
      BY DEF Next, Client, Relay, AdmitOrder, AdmitBeat, Seal, AppendSucceeds, AppendFails,
             Tick, MembershipChanges, vars
    <3>3. FrameAfter(now) <= FrameAfter(now')
      BY <2>1, <3>2, FrameAfterMonotone
    <3>4. NextUnpublished <= FrameAfter(now)
      BY DEF ReceiptFrameOpen
    <3> QED BY <2>1, <2>2, <3>1, <3>3, <3>4
  <2> QED BY <2>3, <2>4
<1> QED BY <1>1, <1>2, Inductive, PTL DEF Spec

\* EqualDelay: a frame is sealed only when every slot it is built for has
\* sent a beat past it, so a slot's open window is never published under it.
THEOREM WindowsStayOpen == Spec => []WindowsLandTogether
<1>1. Init => WindowsLandTogether
  BY ClockAssumption, BundleAssumption
     DEF Init, BuilderInit, WindowsLandTogether, NextUnpublished
<1>2. IInv /\ IInv' /\ WindowsLandTogether /\ [Next]_vars => WindowsLandTogether'
  <2> SUFFICES ASSUME IInv, IInv', WindowsLandTogether, [Next]_vars, policy = "EqualDelay",
                      NEW s \in SlotMask,
                      \A i \in 1 .. Len(log') : s \in log'[i].active,
                      prepared' => s \in staged'.active
               PROVE  beatFrame'[s] >= NextUnpublished'
    BY PolicyStays DEF WindowsLandTogether
  <2>1. /\ s \in Slot /\ nextFrame \in Nat /\ NextUnpublished \in Nat
        /\ beatFrame \in [Slot -> Frames]
        /\ beatFrame[s] \in Nat /\ beatFrame'[s] \in Nat
    <3>1. TypeOK /\ TypeOK' /\ s \in Slot
      BY BundleAssumption DEF IInv
    <3>2. Frames \subseteq Nat
      BY ClockAssumption DEF Frames
    <3>3. nextFrame \in Frames /\ beatFrame \in [Slot -> Frames] /\ beatFrame' \in [Slot -> Frames]
      BY <3>1 DEF TypeOK
    <3> QED BY <3>1, <3>2, <3>3, NextUnpublishedType
  <2>2. CASE Seal
    <3>1. /\ NextUnpublished = nextFrame /\ NextUnpublished' = nextFrame + 1
          /\ beatFrame' = beatFrame
      BY <2>2, SealAdvances
    <3>2. /\ prepared' /\ staged'.active = membership.active /\ Valid(membership)
          /\ Awaiting(membership) = {}
      BY <2>2, SchedulerAssumption DEF Seal, SealDue, BuilderPrepare, CanPrepare, ValidContent
    <3>3. s \in Required(membership)
      BY <3>2 DEF Required, Valid
    <3>4. ~(beatFrame[s] <= nextFrame)
      BY <3>1, <3>2, <3>3 DEF Awaiting
    <3> QED BY <2>1, <3>1, <3>4
  <2>3. CASE ~Seal
    <3>1. /\ NextUnpublished' = NextUnpublished
          /\ AppendSucceeds \/ UNCHANGED <<log, prepared, staged>>
      BY <2>3, OnlySealAdvances
    <3>2. beatFrame[s] <= beatFrame'[s]
      <4>1. ASSUME NEW r \in SlotMask, NEW id, AdmitBeat(r, id)
            PROVE  beatFrame[s] <= beatFrame'[s]
        <5>1. beatFrame' = [beatFrame EXCEPT ![r] = @ + 1]
          BY <4>1 DEF AdmitBeat
        <5>2. beatFrame'[s] = beatFrame[s] \/ beatFrame'[s] = beatFrame[s] + 1
          BY <2>1, <5>1
        <5> QED BY <2>1, <5>2
      <4>2. UNCHANGED beatFrame \/ \E r \in SlotMask : \E id \in 1 .. MaxBeat[policy][r] : AdmitBeat(r, id)
        BY DEF Next, Client, Relay, AdmitOrder, Seal, AppendSucceeds, AppendFails,
               Tick, MembershipChanges, vars
      <4> QED BY <2>1, <4>1, <4>2
    <3>3. /\ \A i \in 1 .. Len(log) : s \in log[i].active
          /\ prepared => s \in staged.active
      <4>1. CASE UNCHANGED <<log, prepared, staged>>
        BY <4>1
      <4>2. CASE AppendSucceeds
        <5>1. log' = Append(log, staged)
          BY <4>2 DEF AppendSucceeds, BuilderCommitted
        <5>2. log \in Seq(FrameRecord) /\ staged \in FrameRecord
          BY DEF IInv, TypeOK
        <5>3. /\ Len(log) \in Nat /\ Len(log') = Len(log) + 1
              /\ \A i \in 1 .. Len(log) : log'[i] = log[i]
              /\ log'[Len(log) + 1] = staged
          BY <5>1, <5>2
        <5> QED BY <5>3
      <4> QED BY <3>1, <4>1, <4>2
    <3>4. beatFrame[s] >= NextUnpublished
      BY <3>3 DEF WindowsLandTogether
    <3> QED BY <2>1, <3>1, <3>2, <3>4
  <2> QED BY <2>2, <2>3
<1> QED BY <1>1, <1>2, Inductive, PTL DEF Spec

-----------------------------------------------------------------------------
\* One frame after the other from the first, up to the next.
LogFrames ==
    /\ Len(log) = nextFrame - FirstFrame
    /\ \A i \in 1 .. Len(log) : log[i].frame = FirstFrame + i - 1
    /\ prepared => staged.frame = nextFrame

\* A queue goes up in eligibility, and the eligibility of an order is its
\* stamp until a frame defers it, then the frame after that one.
QueueOf(s) ==
    /\ \A k, l \in 1 .. Len(orders[s]) : k < l => orders[s][k].eligible <= orders[s][l].eligible
    /\ \A k \in 1 .. Len(orders[s]) :
        /\ orders[s][k].stamp <= orders[s][k].eligible
        /\ orders[s][k].eligible > nextFrame => orders[s][k].stamp = orders[s][k].eligible

\* What the frame in flight takes and defers is still at the head of the
\* queues, although orders were admitted since.
Covers(c, s, queue, waiting) ==
    LET ran == Len(c.orders[s]) late == Len(c.deferrals[s]) IN
    /\ ran + late <= Len(queue)
    /\ \A k \in 1 .. ran : c.orders[s][k] = queue[k]
    /\ \A k \in 1 .. late : c.deferrals[s][k].id = queue[ran + k].id
    /\ Len(c.refusals[s]) <= Len(waiting)
    /\ \A k \in 1 .. Len(c.refusals[s]) : c.refusals[s][k] = waiting[k]

InFlight(s) ==
    prepared =>
        LET c == staged.content
            taken == Len(c.orders[s]) + Len(c.deferrals[s])
        IN  /\ Covers(c, s, orders[s], refusals[s])
            /\ s \notin staged.active => taken = 0
            /\ \A k \in 1 .. taken : orders[s][k].eligible <= nextFrame
            /\ s \in staged.active =>
                \A k \in taken + 1 .. Len(orders[s]) : orders[s][k].eligible > nextFrame

AccountOf(s) ==
    /\ AllIds(Ran(s), orders[s]) \union AllIds(Audited(s), refusals[s]) = 1 .. nextId[s] - 1
    /\ AllIds(Ran(s), orders[s]) \intersect AllIds(Audited(s), refusals[s]) = {}
    /\ InTurn(Audited(s), refusals[s])

RunsOf(s) ==
    /\ InTurn(Ran(s), orders[s])
    /\ \A i \in 1 .. Len(log) : \A k \in 1 .. Len(log[i].content.orders[s]) :
        log[i].content.orders[s][k].stamp <= log[i].frame

\* An id that was not admitted yet was not deferred.
DeferralsOfIds(s) ==
    \A i \in 1 .. Len(log) : Ids(log[i].content.deferrals[s]) \subseteq 1 .. nextId[s] - 1

\* DelayExplained for one slot, of a log, a queue and the next frame.
DeferredBy(l, s, id) ==
    {l[j].frame : j \in {j \in 1 .. Len(l) : id \in Ids(l[j].content.deferrals[s])}}
ActiveBy(l, s, from, to) ==
    {l[j].frame : j \in {j \in 1 .. Len(l) : s \in l[j].active /\ l[j].frame \in from .. to}}
Explained(l, s, o, end) == DeferredBy(l, s, o.id) = ActiveBy(l, s, o.stamp, end - 1)
Delays(l, q, n, s) ==
    /\ \A i \in 1 .. Len(l) : \A k \in 1 .. Len(l[i].content.orders[s]) :
        Explained(l, s, l[i].content.orders[s][k], l[i].frame)
    /\ \A k \in 1 .. Len(q) : Explained(l, s, q[k], n)
DelaysOf(s) == Delays(log, orders[s], nextFrame, s)

SlotInv(s) ==
    QueueOf(s) /\ InFlight(s) /\ AccountOf(s) /\ RunsOf(s) /\ DeferralsOfIds(s) /\ DelaysOf(s)

AuditInv == IInv /\ LogFrames /\ \A s \in Slot : SlotInv(s)

-----------------------------------------------------------------------------
\* Lists and queues.

\* An entry behind every other one joins the queue.
LEMMA Joins ==
    ASSUME NEW S, NEW lists, NEW q \in Seq(S), NEW e \in S,
           InTurn(lists, q), \A a \in AllIds(lists, q) : a < e.id
    PROVE  /\ InTurn(lists, Append(q, e))
           /\ AllIds(lists, Append(q, e)) = AllIds(lists, q) \union {e.id}
<1> DEFINE r == Append(q, e)
<1>1. /\ Len(q) \in Nat /\ Len(r) = Len(q) + 1
      /\ \A k \in 1 .. Len(q) : r[k] = q[k]
      /\ r[Len(q) + 1] = e
  OBVIOUS
<1> HIDE DEF r
<1>2. Ids(r) = Ids(q) \union {e.id}
  BY <1>1 DEF Ids
<1>3. AllIds(lists, r) = AllIds(lists, q) \union {e.id}
  BY <1>2 DEF AllIds
<1>4. StrictlyOrdered(r)
  <2>1. \A k \in 1 .. Len(q) : q[k].id < e.id
    BY DEF AllIds, Ids
  <2> QED BY <1>1, <2>1 DEF InTurn, StrictlyOrdered
<1>5. \A i \in DOMAIN lists : Below(lists[i], r)
  BY <1>2 DEF Below, AllIds, InTurn
<1>6. InTurn(lists, r)
  BY <1>4, <1>5 DEF InTurn
<1> QED BY <1>3, <1>6 DEF r

\* The first c entries of a queue become the last of n + 1 lists.
Moves(n, lists, longer, queue, rest, c) ==
    /\ DOMAIN lists = 1 .. n /\ DOMAIN longer = 1 .. n + 1
    /\ \A i \in 1 .. n : longer[i] = lists[i]
    /\ Len(queue) \in Nat /\ c <= Len(queue)
    /\ Len(longer[n + 1]) = c
    /\ \A k \in 1 .. c : longer[n + 1][k].id = queue[k].id
    /\ Len(rest) = Len(queue) - c
    /\ \A k \in 1 .. Len(queue) - c : rest[k].id = queue[c + k].id

LEMMA TurnOver ==
    ASSUME NEW n \in Nat, NEW lists, NEW longer, NEW q, NEW rest, NEW c \in Nat,
           Moves(n, lists, longer, q, rest, c), InTurn(lists, q)
    PROVE  /\ InTurn(longer, rest)
           /\ AllIds(longer, rest) = AllIds(lists, q)
           /\ Below(longer[n + 1], rest)
           /\ Ids(longer[n + 1]) \subseteq Ids(q)
           /\ Ids(rest) \subseteq Ids(q)
<1> USE DEF Moves
<1> DEFINE new == longer[n + 1]
<1>1. \A x : x \in Ids(new) <=> \E k \in 1 .. c : x = q[k].id
  <2>1. 1 .. Len(new) = 1 .. c /\ \A k \in 1 .. c : new[k].id = q[k].id
    OBVIOUS
  <2> HIDE DEF new, Moves
  <2> QED BY <2>1, Zenon DEF Ids
<1>2. \A x : x \in Ids(rest) <=> \E k \in c + 1 .. Len(q) : x = q[k].id
  <2>1. ASSUME NEW x \in Ids(rest) PROVE \E k \in c + 1 .. Len(q) : x = q[k].id
    <3>1. PICK l \in 1 .. Len(q) - c : x = rest[l].id
      BY DEF Ids
    <3>2. c + l \in c + 1 .. Len(q) /\ x = q[c + l].id
      BY <3>1
    <3> QED BY <3>2
  <2>2. ASSUME NEW k \in c + 1 .. Len(q) PROVE q[k].id \in Ids(rest)
    <3>1. k - c \in 1 .. Len(q) - c /\ c + (k - c) = k
      OBVIOUS
    <3>2. k - c \in 1 .. Len(rest) /\ rest[k - c].id = q[k].id
      BY <3>1
    <3> QED BY <3>2, Zenon DEF Ids
  <2> QED BY <2>1, <2>2
<1>3. Ids(q) = Ids(new) \union Ids(rest)
  <2>1. \A x : x \in Ids(q) <=> \E k \in 1 .. Len(q) : x = q[k].id
    BY DEF Ids
  <2>2. \A k : k \in 1 .. Len(q) <=> k \in 1 .. c \/ k \in c + 1 .. Len(q)
    OBVIOUS
  <2> HIDE DEF new, Moves
  <2>3. Ids(new) \subseteq Ids(q) /\ Ids(rest) \subseteq Ids(q)
    <3>1. Ids(new) \subseteq Ids(q)
      BY <1>1, <2>1, <2>2
    <3> QED BY <1>2, <2>1, <2>2, <3>1
  <2>4. ASSUME NEW x \in Ids(q) PROVE x \in Ids(new) \/ x \in Ids(rest)
    <3>1. PICK k \in 1 .. Len(q) : x = q[k].id
      BY <2>1
    <3> QED BY <1>1, <1>2, <2>2, <3>1
  <2> QED BY <2>3, <2>4
<1>4. AllIds(longer, rest) = AllIds(lists, q)
  <2> HIDE DEF new
  <2>1. UNION {Ids(longer[i]) : i \in 1 .. n + 1} =
            Ids(new) \union UNION {Ids(lists[i]) : i \in 1 .. n}
    <3>1. \A i \in 1 .. n + 1 : i \in 1 .. n \/ i = n + 1
      OBVIOUS
    <3>2. 1 .. n \subseteq 1 .. n + 1 /\ n + 1 \in 1 .. n + 1
      OBVIOUS
    <3> QED BY <3>1, <3>2 DEF new
  <2> QED BY <1>3, <2>1 DEF AllIds
<1>5. StrictlyOrdered(q) /\ \A i \in 1 .. n : Below(lists[i], q)
  BY DEF InTurn
<1>6. StrictlyOrdered(new) /\ StrictlyOrdered(rest)
  <2>1. ASSUME NEW k \in 1 .. c, NEW l \in 1 .. c, k < l PROVE new[k].id < new[l].id
    BY <1>5, <2>1 DEF StrictlyOrdered
  <2>2. ASSUME NEW k \in 1 .. Len(rest), NEW l \in 1 .. Len(rest), k < l
        PROVE  rest[k].id < rest[l].id
    <3>1. c + k \in 1 .. Len(q) /\ c + l \in 1 .. Len(q) /\ c + k < c + l
      BY <2>2
    <3>2. q[c + k].id < q[c + l].id
      BY <1>5, <3>1 DEF StrictlyOrdered
    <3> QED BY <3>2
  <2> QED BY <2>1, <2>2 DEF StrictlyOrdered
<1>7. Below(new, rest)
  <2> SUFFICES ASSUME NEW x \in Ids(new), NEW y \in Ids(rest) PROVE x < y
    BY Zenon DEF Below
  <2>1. PICK k \in 1 .. c : x = q[k].id
    BY <1>1
  <2>2. PICK l \in c + 1 .. Len(q) : y = q[l].id
    BY <1>2
  <2>3. k \in 1 .. Len(q) /\ l \in 1 .. Len(q) /\ k < l
    OBVIOUS
  <2> QED BY <1>5, <2>1, <2>2, <2>3 DEF StrictlyOrdered
<1>8. \A i \in 1 .. n : Below(lists[i], new) /\ Below(lists[i], rest)
  BY <1>3, <1>5 DEF Below
<1>9. InTurn(longer, rest)
  <2> SUFFICES ASSUME NEW i \in 1 .. n + 1
               PROVE  /\ StrictlyOrdered(longer[i])
                      /\ Below(longer[i], rest)
                      /\ \A j \in 1 .. n + 1 : i < j => Below(longer[i], longer[j])
    BY <1>6 DEF InTurn
  <2>1. CASE i = n + 1
    BY <1>6, <1>7, <2>1
  <2>2. CASE i \in 1 .. n
    <3>1. StrictlyOrdered(lists[i]) /\ \A j \in 1 .. n : i < j => Below(lists[i], lists[j])
      BY <2>2 DEF InTurn
    <3>2. \A j \in 1 .. n + 1 : j \in 1 .. n \/ j = n + 1
      OBVIOUS
    <3> QED BY <1>8, <2>2, <3>1, <3>2
  <2> QED BY <2>1, <2>2
<1> QED BY <1>3, <1>4, <1>7, <1>9

\* A set that has with each number the ones before it is an interval.
LEMMA Leading ==
    ASSUME NEW n \in Nat, NEW E \in SUBSET (1 .. n), \A k \in E : 1 .. k \subseteq E
    PROVE  Cardinality(E) \in 0 .. n /\ E = 1 .. Cardinality(E)
<1> DEFINE e == Cardinality(E)
<1>1. IsFiniteSet(1 .. n) /\ Cardinality(1 .. n) = n
  BY FS_Interval
<1>2. IsFiniteSet(E) /\ e <= n /\ e \in Nat
  BY <1>1, FS_Subset, FS_CardinalityType
<1>3. ASSUME NEW k \in E PROVE k <= e
  <2>1. k \in Nat /\ k > 0 /\ 1 .. k \subseteq E
    OBVIOUS
  <2>2. Cardinality(1 .. k) = k
    BY <2>1, FS_Interval
  <2>3. Cardinality(1 .. k) <= e
    BY <1>2, <2>1, FS_Subset
  <2> QED BY <2>2, <2>3
<1>4. E \subseteq 1 .. e
  BY <1>3
<1>5. Cardinality(1 .. e) = e /\ IsFiniteSet(1 .. e)
  BY <1>2, FS_Interval
<1>6. E = 1 .. e
  BY <1>4, <1>5, FS_Subset
<1> QED BY <1>2, <1>6

\* In a queue that goes up in eligibility the eligible orders come first.
LEMMA EligibleFirst ==
    ASSUME NEW q \in Seq(Pending), NEW frame \in Int,
           \A k, l \in 1 .. Len(q) : k < l => q[k].eligible <= q[l].eligible
    PROVE  /\ EligibleCount(q, frame) \in 0 .. Len(q)
           /\ \A k \in 1 .. EligibleCount(q, frame) : q[k].eligible <= frame
           /\ \A k \in EligibleCount(q, frame) + 1 .. Len(q) : q[k].eligible > frame
<1> DEFINE E == {n \in 1 .. Len(q) : \A k \in 1 .. n : q[k].eligible <= frame}
           e == Cardinality(E)
<1>1. EligibleCount(q, frame) = e /\ e \in 0 .. Len(q) /\ Len(q) \in Nat
  <2>1. EligibleCount(q, frame) = e
    BY Zenon DEF EligibleCount
  <2>2. EligibleCount(q, frame) \in 0 .. Len(q)
    BY CountBounds
  <2> HIDE DEF e
  <2> QED BY <2>1, <2>2
<1>2. E = 1 .. e
  <2>1. E \in SUBSET (1 .. Len(q)) /\ \A n \in E : 1 .. n \subseteq E
    OBVIOUS
  <2> HIDE DEF E
  <2> QED BY <1>1, <2>1, Leading
<1> HIDE DEF e
<1>3. ASSUME NEW k \in 1 .. e PROVE q[k].eligible <= frame
  <2>1. k \in E /\ k \in 1 .. k
    BY <1>2
  <2> QED BY <2>1
<1>4. ASSUME NEW k \in e + 1 .. Len(q) PROVE q[k].eligible > frame
  <2>1. k \in 1 .. Len(q) /\ k \notin E
    BY <1>1, <1>2
  <2>2. PICK l \in 1 .. k : ~(q[l].eligible <= frame)
    BY <2>1
  <2>3. l \in 1 .. Len(q) /\ q[l] \in Pending /\ q[k] \in Pending
    BY <2>1
  <2>4. q[l].eligible \in Int /\ q[k].eligible \in Int
    <3>1. \A x \in Frames : x \in Int
      BY ClockAssumption DEF Frames
    <3>2. q[l].eligible \in Frames /\ q[k].eligible \in Frames
      BY <2>3 DEF Pending
    <3> QED BY <3>1, <3>2
  <2>5. q[l].eligible <= q[k].eligible
    BY <2>1, <2>2, <2>3, <2>4
  <2> QED BY <2>2, <2>4, <2>5
<1> QED BY <1>1, <1>3, <1>4

-----------------------------------------------------------------------------
\* The audit of a log.

\* What one more frame adds to an order's deferrals and to its slot's frames.
LEMMA DeferralsGrow ==
    ASSUME NEW l \in Seq(FrameRecord), NEW e \in FrameRecord, NEW s, NEW id
    PROVE  DeferredBy(Append(l, e), s, id) =
                IF id \in Ids(e.content.deferrals[s]) THEN DeferredBy(l, s, id) \union {e.frame}
                                                     ELSE DeferredBy(l, s, id)
<1> DEFINE m == Append(l, e)
<1>1. /\ Len(l) \in Nat /\ Len(m) = Len(l) + 1
      /\ \A j \in 1 .. Len(l) : m[j] = l[j]
      /\ m[Len(l) + 1] = e
  OBVIOUS
<1> HIDE DEF m
<1>2. \A j : j \in 1 .. Len(m) <=> j \in 1 .. Len(l) \/ j = Len(l) + 1
  BY <1>1
<1>3. DeferredBy(m, s, id) =
        IF id \in Ids(e.content.deferrals[s]) THEN DeferredBy(l, s, id) \union {e.frame}
                                             ELSE DeferredBy(l, s, id)
  BY <1>1, <1>2 DEF DeferredBy
<1> QED BY <1>3 DEF m

LEMMA FramesGrow ==
    ASSUME NEW l \in Seq(FrameRecord), NEW e \in FrameRecord, NEW s,
           NEW from \in Int, NEW to \in Int
    PROVE  ActiveBy(Append(l, e), s, from, to) =
                IF s \in e.active /\ e.frame \in from .. to
                THEN ActiveBy(l, s, from, to) \union {e.frame}
                ELSE ActiveBy(l, s, from, to)
<1> DEFINE m == Append(l, e)
<1>1. /\ Len(l) \in Nat /\ Len(m) = Len(l) + 1
      /\ \A j \in 1 .. Len(l) : m[j] = l[j]
      /\ m[Len(l) + 1] = e
  OBVIOUS
<1> HIDE DEF m
<1>2. \A j : j \in 1 .. Len(m) <=> j \in 1 .. Len(l) \/ j = Len(l) + 1
  BY <1>1
<1>3. ActiveBy(m, s, from, to) =
        IF s \in e.active /\ e.frame \in from .. to
        THEN ActiveBy(l, s, from, to) \union {e.frame}
        ELSE ActiveBy(l, s, from, to)
  BY <1>1, <1>2 DEF ActiveBy
<1> QED BY <1>3 DEF m

\* A frame the log has not reached adds nothing.
LEMMA NotReached ==
    ASSUME NEW l \in Seq(FrameRecord), NEW n \in Int, \A i \in 1 .. Len(l) : l[i].frame < n,
           NEW s, NEW from \in Int
    PROVE  /\ ActiveBy(l, s, from, n) = ActiveBy(l, s, from, n - 1)
           /\ from >= n => ActiveBy(l, s, from, n - 1) = {}
<1>1. \A i \in 1 .. Len(l) : l[i].frame \in Int
  <2>1. \A i \in 1 .. Len(l) : l[i] \in FrameRecord
    OBVIOUS
  <2> QED BY <2>1 DEF FrameRecord
<1>2. \A i \in 1 .. Len(l) : l[i].frame \in from .. n <=> l[i].frame \in from .. n - 1
  BY <1>1
<1>3. from >= n => \A i \in 1 .. Len(l) : l[i].frame \notin from .. n - 1
  BY <1>1
<1> QED BY <1>2, <1>3 DEF ActiveBy

-----------------------------------------------------------------------------
\* The initial state, and the actions.

LEMMA SlotTypes ==
    ASSUME TypeOK, NEW s \in Slot
    PROVE  /\ orders[s] \in Seq(Pending) /\ refusals[s] \in Seq(Refusal)
           /\ Len(orders[s]) \in Nat /\ Len(refusals[s]) \in Nat
           /\ nextId[s] \in Nat \ {0}
           /\ \A k \in 1 .. Len(orders[s]) :
                /\ orders[s][k] \in Pending
                /\ orders[s][k].id \in Nat /\ orders[s][k].eligible \in Nat
                /\ orders[s][k].stamp \in Nat
           /\ nextFrame \in Nat /\ NextUnpublished \in Nat /\ FirstFrame \in Nat
           /\ log \in Seq(FrameRecord) /\ Len(log) \in Nat
           /\ staged \in FrameRecord
<1>1. /\ orders[s] \in Seq(Pending) /\ refusals[s] \in Seq(Refusal)
      /\ nextId[s] \in Nat \ {0}
      /\ log \in Seq(FrameRecord) /\ staged \in FrameRecord
  BY DEF TypeOK
<1>2. Frames \subseteq Nat /\ nextFrame \in Nat /\ FirstFrame \in Nat
  BY ClockAssumption DEF TypeOK, Frames
<1>3. \A k \in 1 .. Len(orders[s]) : orders[s][k] \in Pending
  BY <1>1
<1>4. Len(orders[s]) \in Nat /\ Len(refusals[s]) \in Nat /\ Len(log) \in Nat
  BY <1>1
<1> QED BY <1>1, <1>2, <1>3, <1>4, NextUnpublishedType DEF Pending

LEMMA AuditInit == Init => AuditInv
<1> SUFFICES ASSUME Init PROVE AuditInv
  OBVIOUS
<1> USE DEF Init, BuilderInit
<1>1. IInv
  BY InitInv
<1>2. Len(log) = 0 /\ ~prepared /\ nextFrame = FirstFrame /\ FirstFrame \in Nat
  BY ClockAssumption
<1>3. LogFrames
  BY <1>2 DEF LogFrames
<1>4. ASSUME NEW s \in Slot PROVE SlotInv(s)
  <2>1. Len(orders[s]) = 0 /\ Len(refusals[s]) = 0 /\ nextId[s] = 1
    OBVIOUS
  <2>2. DOMAIN Ran(s) = {} /\ DOMAIN Audited(s) = {}
    BY <1>2 DEF Ran, Audited
  <2>3. AllIds(Ran(s), orders[s]) = {} /\ AllIds(Audited(s), refusals[s]) = {}
    BY <2>1, <2>2 DEF AllIds, Ids
  <2>4. InTurn(Ran(s), orders[s]) /\ InTurn(Audited(s), refusals[s])
    BY <2>1, <2>2 DEF InTurn, StrictlyOrdered
  <2>5. AccountOf(s) /\ RunsOf(s)
    BY <1>2, <2>1, <2>3, <2>4 DEF AccountOf, RunsOf
  <2> HIDE DEF Init, BuilderInit
  <2>6. QueueOf(s)
    BY <2>1 DEF QueueOf
  <2>8. InFlight(s)
    BY <1>2 DEF InFlight
  <2>9. DeferralsOfIds(s)
    BY <1>2 DEF DeferralsOfIds
  <2>7. DelaysOf(s)
    BY <1>2, <2>1 DEF DelaysOf, Delays
  <2> QED BY <2>5, <2>6, <2>7, <2>8, <2>9 DEF SlotInv
<1> QED BY <1>1, <1>3, <1>4 DEF AuditInv

\* A slot whose queues and ids stay, while no frame moves.
LEMMA Unmoved ==
    ASSUME NEW s \in Slot, SlotInv(s), UNCHANGED <<nextFrame, prepared, staged, log>>,
           orders'[s] = orders[s], refusals'[s] = refusals[s], nextId'[s] = nextId[s]
    PROVE  SlotInv(s)'
<1>1. QueueOf(s)' /\ InFlight(s)'
  BY DEF SlotInv, QueueOf, InFlight, Covers
<1>2. Ran(s)' = Ran(s) /\ Audited(s)' = Audited(s)
  BY DEF Ran, Audited
<1>3. AccountOf(s)' /\ RunsOf(s)'
  <2>1. AccountOf(s) /\ RunsOf(s)
    BY DEF SlotInv
  <2>2. AccountOf(s)'
    BY <1>2, <2>1, Zenon DEF AccountOf
  <2>3. RunsOf(s)'
    BY <1>2, <2>1, Zenon DEF RunsOf
  <2> QED BY <2>2, <2>3
<1>4. DeferralsOfIds(s)' /\ DelaysOf(s)'
  BY DEF SlotInv, DeferralsOfIds, DelaysOf
<1> QED BY <1>1, <1>3, <1>4 DEF SlotInv

\* An admitted order joins the end of its queue, eligible at its stamp.
LEMMA AcceptAudit ==
    ASSUME AuditInv, NEW s \in Slot, NEW e \in Pending,
           e.id = nextId[s], e.eligible = Stamp(s), e.stamp = Stamp(s),
           orders'[s] = Append(orders[s], e), nextId'[s] = nextId[s] + 1,
           refusals'[s] = refusals[s],
           UNCHANGED <<nextFrame, prepared, staged, log>>
    PROVE  SlotInv(s)'
<1> DEFINE q == orders[s]
           r == orders'[s]
           n == Len(orders[s])
<1>1. /\ TypeOK /\ SlotInv(s) /\ LogFrames /\ LastEligible(s) <= Stamp(s)
      /\ now >= OriginMs /\ (prepared => nextFrame # MaxFrame)
  BY DEF AuditInv, IInv, QueueBehindStamp
<1>2. /\ q \in Seq(Pending) /\ n \in Nat /\ nextId[s] \in Nat \ {0}
      /\ \A k \in 1 .. n : q[k].id \in Nat /\ q[k].eligible \in Nat /\ q[k].stamp \in Nat
      /\ nextFrame \in Nat /\ log \in Seq(FrameRecord)
  BY <1>1, SlotTypes
<1>3. /\ Len(r) = n + 1 /\ r[n + 1] = e
      /\ \A k \in 1 .. n : r[k] = q[k]
  BY <1>2
<1>4. /\ Stamp(s) \in Nat /\ nextFrame <= Stamp(s)
      /\ prepared => nextFrame < Stamp(s)
  <2>1. Stamp(s) \in Nat /\ NextUnpublished <= Stamp(s)
    BY <1>1, StampType
  <2> QED BY <1>1, <1>2, <2>1 DEF NextUnpublished
<1>5. \A k \in 1 .. n : q[k].eligible <= Stamp(s)
  <2>1. \A k, l \in 1 .. n : k < l => q[k].eligible <= q[l].eligible
    BY <1>1 DEF SlotInv, QueueOf
  <2>2. n > 0 => q[n].eligible <= Stamp(s)
    BY <1>1, <1>2 DEF LastEligible
  <2> HIDE DEF q, n
  <2> SUFFICES ASSUME NEW k \in 1 .. n PROVE q[k].eligible <= Stamp(s)
    OBVIOUS
  <2>3. n > 0 /\ n \in 1 .. n /\ (k < n \/ k = n)
    BY <1>2
  <2>4. q[k].eligible <= q[n].eligible
    <3>1. q[k].eligible \in Nat
      BY <1>2
    <3> QED BY <2>1, <2>3, <3>1
  <2>5. q[k].eligible \in Nat /\ q[n].eligible \in Nat /\ Stamp(s) \in Nat
    BY <1>2, <1>4, <2>3
  <2> QED BY <2>2, <2>3, <2>4, <2>5
<1> HIDE DEF q, r, n
<1>6. QueueOf(s)'
  <2>1. QueueOf(s)
    BY <1>1 DEF SlotInv
  <2>2. \A k, l \in 1 .. n + 1 : k < l => r[k].eligible <= r[l].eligible
    <3> SUFFICES ASSUME NEW k \in 1 .. n + 1, NEW l \in 1 .. n + 1, k < l
                 PROVE  r[k].eligible <= r[l].eligible
      OBVIOUS
    <3>1. k \in 1 .. n
      BY <1>2
    <3>2. CASE l \in 1 .. n
      BY <1>3, <2>1, <3>1, <3>2 DEF QueueOf, q, n
    <3>3. CASE l = n + 1
      BY <1>3, <1>5, <3>1, <3>3
    <3> QED BY <1>2, <3>2, <3>3
  <2>3. \A k \in 1 .. n + 1 : /\ r[k].stamp <= r[k].eligible
                              /\ r[k].eligible > nextFrame => r[k].stamp = r[k].eligible
    <3> SUFFICES ASSUME NEW k \in 1 .. n + 1
                 PROVE  /\ r[k].stamp <= r[k].eligible
                        /\ r[k].eligible > nextFrame => r[k].stamp = r[k].eligible
      OBVIOUS
    <3>1. CASE k \in 1 .. n
      BY <1>3, <2>1, <3>1 DEF QueueOf, q, n
    <3>2. CASE k = n + 1
      BY <1>3, <1>4, <3>2
    <3> QED BY <1>2, <3>1, <3>2
  <2> QED BY <1>3, <2>2, <2>3 DEF QueueOf, r
<1>7. InFlight(s)'
  <2> SUFFICES ASSUME prepared PROVE InFlight(s)'
    BY DEF InFlight
  <2> DEFINE c == staged.content
             ran == Len(c.orders[s])
             late == Len(c.deferrals[s])
  <2>1. /\ Covers(c, s, orders[s], refusals[s])
        /\ s \notin staged.active => ran + late = 0
        /\ \A k \in 1 .. ran + late : q[k].eligible <= nextFrame
        /\ s \in staged.active => \A k \in ran + late + 1 .. n : q[k].eligible > nextFrame
    BY <1>1 DEF SlotInv, InFlight, q, n
  <2>2. ran \in Nat /\ late \in Nat /\ ran + late <= n
    <3>1. c.orders[s] \in Seq(Pending) /\ c.deferrals[s] \in Seq(Deferral)
      BY <1>1 DEF TypeOK, FrameRecord, Content
    <3>2. ran + late <= n
      BY <2>1 DEF Covers, n
    <3>3. ran \in Nat /\ late \in Nat
      BY <3>1, LenProperties
    <3> QED BY <3>2, <3>3
  <2> HIDE DEF ran, late
  <2>3. Covers(c, s, r, refusals'[s])
    <3>1. \A k \in 1 .. ran : k \in 1 .. n
      BY <1>2, <2>2
    <3>2. \A k \in 1 .. late : ran + k \in 1 .. n
      BY <1>2, <2>2
    <3>5. /\ \A k \in 1 .. ran : c.orders[s][k] = q[k]
          /\ \A k \in 1 .. late : c.deferrals[s][k].id = q[ran + k].id
      BY <2>1 DEF Covers, q, ran, late
    <3>6. ran + late <= Len(r)
      BY <1>2, <1>3, <2>2
    <3>7. \A k \in 1 .. ran : c.orders[s][k] = r[k]
      BY <1>3, <3>1, <3>5
    <3>8. \A k \in 1 .. late : c.deferrals[s][k].id = r[ran + k].id
      BY <1>3, <3>2, <3>5
    <3>3. /\ ran + late <= Len(r)
          /\ \A k \in 1 .. ran : c.orders[s][k] = r[k]
          /\ \A k \in 1 .. late : c.deferrals[s][k].id = r[ran + k].id
      BY <3>6, <3>7, <3>8
    <3>4. /\ Len(c.refusals[s]) <= Len(refusals'[s])
          /\ \A k \in 1 .. Len(c.refusals[s]) : c.refusals[s][k] = refusals'[s][k]
      BY <2>1 DEF Covers
    <3> QED BY <3>3, <3>4 DEF Covers, ran, late
  <2>4. \A k \in 1 .. ran + late : r[k].eligible <= nextFrame
    <3>1. \A k \in 1 .. ran + late : k \in 1 .. n
      BY <1>2, <2>2
    <3> QED BY <1>3, <2>1, <3>1
  <2>5. s \in staged.active => \A k \in ran + late + 1 .. n + 1 : r[k].eligible > nextFrame
    <3> SUFFICES ASSUME s \in staged.active, NEW k \in ran + late + 1 .. n + 1
                 PROVE  r[k].eligible > nextFrame
      OBVIOUS
    <3>1. \/ k \in 1 .. n /\ k \in ran + late + 1 .. n
          \/ k = n + 1
      BY <1>2, <2>2
    <3> QED BY <1>2, <1>3, <1>4, <2>1, <3>1
  <2> QED BY <1>3, <2>1, <2>3, <2>4, <2>5 DEF InFlight, r, ran, late
<1>8. Ran(s)' = Ran(s) /\ Audited(s)' = Audited(s)
  BY DEF Ran, Audited
<1>9. /\ InTurn(Ran(s), r)
      /\ AllIds(Ran(s), r) = AllIds(Ran(s), q) \union {nextId[s]}
  <2>1. AccountOf(s) /\ InTurn(Ran(s), q)
    BY <1>1 DEF SlotInv, RunsOf, q
  <2>2. \A a \in AllIds(Ran(s), q) : a < e.id
    BY <1>2, <2>1 DEF AccountOf, q
  <2>3. r = Append(q, e)
    BY DEF q, r
  <2> QED BY <1>2, <2>1, <2>2, <2>3, Joins
<1>10. AccountOf(s)'
  <2> DEFINE carried == AllIds(Ran(s), q)
             reported == AllIds(Audited(s), refusals[s])
  <2>1. /\ carried \union reported = 1 .. nextId[s] - 1
        /\ carried \intersect reported = {}
        /\ InTurn(Audited(s), refusals[s])
    BY <1>1 DEF SlotInv, AccountOf, q
  <2> HIDE DEF carried, reported
  <2>2. nextId[s] \notin reported
    BY <1>2, <2>1
  <2>3. 1 .. nextId[s] + 1 - 1 = (1 .. nextId[s] - 1) \union {nextId[s]}
    BY <1>2
  <2>4. /\ (carried \union {nextId[s]}) \union reported = 1 .. nextId[s] + 1 - 1
        /\ (carried \union {nextId[s]}) \intersect reported = {}
    BY <2>1, <2>2, <2>3
  <2>5. /\ AllIds(Ran(s), r) \union AllIds(Audited(s), refusals[s]) = 1 .. nextId[s] + 1 - 1
        /\ AllIds(Ran(s), r) \intersect AllIds(Audited(s), refusals[s]) = {}
    BY <1>9, <2>4 DEF carried, reported
  <2>6. nextId'[s] = nextId[s] + 1 /\ refusals'[s] = refusals[s]
    OBVIOUS
  <2> QED BY <1>2, <1>8, <2>1, <2>5, <2>6 DEF AccountOf, r
<1>11. RunsOf(s)'
  <2>1. \A i \in 1 .. Len(log) : \A k \in 1 .. Len(log[i].content.orders[s]) :
            log[i].content.orders[s][k].stamp <= log[i].frame
    BY <1>1 DEF SlotInv, RunsOf
  <2> QED BY <1>8, <1>9, <2>1 DEF RunsOf, r
<1>12. DeferralsOfIds(s)'
  <2>1. \A i \in 1 .. Len(log) : Ids(log[i].content.deferrals[s]) \subseteq 1 .. nextId[s] - 1
    BY <1>1 DEF SlotInv, DeferralsOfIds
  <2>2. 1 .. nextId[s] - 1 \subseteq 1 .. nextId[s] + 1 - 1
    BY <1>2
  <2>3. \A i \in 1 .. Len(log) :
            Ids(log[i].content.deferrals[s]) \subseteq 1 .. nextId[s] + 1 - 1
    BY <2>1, <2>2, Zenon
  <2>4. nextId'[s] = nextId[s] + 1 /\ log' = log
    OBVIOUS
  <2>5. nextId'[s] - 1 = nextId[s] + 1 - 1
    BY <1>2, <2>4
  <2> QED BY <2>3, <2>4, <2>5, Zenon DEF DeferralsOfIds
<1>13. DelaysOf(s)'
  <2>1. Delays(log, q, nextFrame, s)
    BY <1>1 DEF SlotInv, DelaysOf, q
  <2>2. DeferredBy(log, s, e.id) = {}
    <3>1. \A j \in 1 .. Len(log) : e.id \notin Ids(log[j].content.deferrals[s])
      BY <1>1, <1>2 DEF SlotInv, DeferralsOfIds
    <3> QED BY <3>1 DEF DeferredBy
  <2>3. ActiveBy(log, s, e.stamp, nextFrame - 1) = {}
    <3>1. \A i \in 1 .. Len(log) : log[i].frame < nextFrame
      BY <1>1, <1>2, ClockAssumption DEF LogFrames
    <3>2. e.stamp \in Int /\ e.stamp >= nextFrame /\ nextFrame \in Int
      BY <1>2, <1>4
    <3> QED BY <1>2, <3>1, <3>2, NotReached
  <2>4. \A k \in 1 .. n + 1 : Explained(log, s, r[k], nextFrame)
    <3> SUFFICES ASSUME NEW k \in 1 .. n + 1 PROVE Explained(log, s, r[k], nextFrame)
      OBVIOUS
    <3>1. CASE k \in 1 .. n
      BY <1>3, <2>1, <3>1 DEF Delays, n, q
    <3>2. CASE k = n + 1
      BY <1>3, <2>2, <2>3, <3>2 DEF Explained
    <3> QED BY <1>2, <3>1, <3>2
  <2>5. Delays(log, r, nextFrame, s)
    BY <1>3, <2>1, <2>4 DEF Delays
  <2> QED BY <2>5 DEF DelaysOf, r
<1> QED BY <1>6, <1>7, <1>10, <1>11, <1>12, <1>13 DEF SlotInv

\* A refused order joins the refusals.
LEMMA RefuseAudit ==
    ASSUME AuditInv, NEW s \in Slot, NEW e \in Refusal, e.id = nextId[s],
           refusals'[s] = Append(refusals[s], e), nextId'[s] = nextId[s] + 1,
           orders'[s] = orders[s],
           UNCHANGED <<nextFrame, prepared, staged, log>>
    PROVE  SlotInv(s)'
<1> DEFINE q == refusals[s]
           r == refusals'[s]
           n == Len(refusals[s])
<1>1. TypeOK /\ SlotInv(s)
  BY DEF AuditInv, IInv
<1>2. q \in Seq(Refusal) /\ n \in Nat /\ nextId[s] \in Nat \ {0}
  BY <1>1, SlotTypes
<1>3. /\ Len(r) = n + 1
      /\ \A k \in 1 .. n : r[k] = q[k]
  BY <1>2
<1> HIDE DEF q, r, n
<1>4. QueueOf(s)'
  BY <1>1 DEF SlotInv, QueueOf
<1>5. InFlight(s)'
  <2> SUFFICES ASSUME prepared PROVE InFlight(s)'
    BY DEF InFlight
  <2>1. Covers(staged.content, s, orders[s], q) /\ InFlight(s)
    BY <1>1 DEF SlotInv, InFlight, q
  <2>2. Len(staged.content.refusals[s]) \in Nat
    BY <1>1 DEF TypeOK, FrameRecord, Content
  <2>3. /\ Len(staged.content.refusals[s]) <= n
        /\ \A k \in 1 .. Len(staged.content.refusals[s]) : staged.content.refusals[s][k] = q[k]
    BY <2>1 DEF Covers, q, n
  <2>4. /\ Len(staged.content.refusals[s]) <= n + 1
        /\ \A k \in 1 .. Len(staged.content.refusals[s]) : staged.content.refusals[s][k] = r[k]
    <3>1. \A k \in 1 .. Len(staged.content.refusals[s]) : k \in 1 .. n
      BY <1>2, <2>2, <2>3
    <3> QED BY <1>2, <1>3, <2>2, <2>3, <3>1
  <2>5. Covers(staged.content, s, orders[s], r)
    BY <1>3, <2>1, <2>4 DEF Covers
  <2> QED BY <2>1, <2>5 DEF InFlight, r
<1>6. Ran(s)' = Ran(s) /\ Audited(s)' = Audited(s)
  BY DEF Ran, Audited
<1>7. AccountOf(s)'
  <2> DEFINE carried == AllIds(Ran(s), orders[s])
             reported == AllIds(Audited(s), q)
  <2>1. /\ carried \union reported = 1 .. nextId[s] - 1
        /\ carried \intersect reported = {}
        /\ InTurn(Audited(s), q)
    BY <1>1 DEF SlotInv, AccountOf, q
  <2>2. /\ InTurn(Audited(s), r)
        /\ AllIds(Audited(s), r) = reported \union {nextId[s]}
    <3>1. \A a \in reported : a < e.id
      <4> HIDE DEF carried, reported
      <4> QED BY <1>2, <2>1
    <3>2. r = Append(q, e)
      BY DEF q, r
    <3> QED BY <1>2, <2>1, <3>1, <3>2, Joins
  <2> HIDE DEF carried, reported
  <2>3. nextId[s] \notin carried
    BY <1>2, <2>1
  <2>4. 1 .. nextId[s] + 1 - 1 = (1 .. nextId[s] - 1) \union {nextId[s]}
    BY <1>2
  <2>5. /\ carried \union AllIds(Audited(s), r) = 1 .. nextId[s] + 1 - 1
        /\ carried \intersect AllIds(Audited(s), r) = {}
    BY <2>1, <2>2, <2>3, <2>4
  <2> QED BY <1>6, <2>2, <2>5 DEF AccountOf, r, carried
<1>8. RunsOf(s)'
  <2>1. RunsOf(s)
    BY <1>1 DEF SlotInv
  <2> QED BY <1>6, <2>1, Zenon DEF RunsOf
<1>9. DeferralsOfIds(s)'
  <2>1. \A i \in 1 .. Len(log) : Ids(log[i].content.deferrals[s]) \subseteq 1 .. nextId[s] - 1
    BY <1>1 DEF SlotInv, DeferralsOfIds
  <2>2. 1 .. nextId[s] - 1 \subseteq 1 .. nextId[s] + 1 - 1
    BY <1>2
  <2>3. \A i \in 1 .. Len(log) :
            Ids(log[i].content.deferrals[s]) \subseteq 1 .. nextId[s] + 1 - 1
    BY <2>1, <2>2, Zenon
  <2>4. nextId'[s] = nextId[s] + 1 /\ log' = log
    OBVIOUS
  <2>5. nextId'[s] - 1 = nextId[s] + 1 - 1
    BY <1>2, <2>4
  <2> QED BY <2>3, <2>4, <2>5, Zenon DEF DeferralsOfIds
<1>10. DelaysOf(s)'
  BY <1>1 DEF SlotInv, DelaysOf
<1> QED BY <1>4, <1>5, <1>7, <1>8, <1>9, <1>10 DEF SlotInv

\* What prepare gathers is the head of every active slot's queue.
LEMMA SealAudit ==
    ASSUME AuditInv, Seal, NEW s \in Slot
    PROVE  SlotInv(s)'
<1> DEFINE q == orders[s]
           n == Len(orders[s])
           e == EligibleCount(orders[s], nextFrame)
           d == ConsumedCount(orders[s], nextFrame)
           c == ContentOf(membership)
<1>1. TypeOK /\ SlotInv(s)
  BY DEF AuditInv, IInv
<1>2. /\ nextFrame # MaxFrame /\ prepared' = TRUE
      /\ staged' = [frame |-> nextFrame, active |-> membership.active, content |-> c]
      /\ UNCHANGED <<nextFrame, nextId, orders, refusals, log>>
  BY DEF Seal, BuilderPrepare, CanPrepare
<1>3. q \in Seq(Pending) /\ n \in Nat /\ nextFrame \in Nat /\ Len(refusals[s]) \in Nat
  BY <1>1, SlotTypes
<1>4. /\ e \in 0 .. n /\ d \in 0 .. e
      /\ \A k \in 1 .. e : q[k].eligible <= nextFrame
      /\ \A k \in e + 1 .. n : q[k].eligible > nextFrame
  <2>1. \A k, l \in 1 .. Len(q) : k < l => q[k].eligible <= q[l].eligible
    BY <1>1 DEF SlotInv, QueueOf
  <2> HIDE DEF q, n, e, d
  <2>2. q \in Seq(Pending) /\ nextFrame \in Int
    BY <1>3
  <2>3. /\ EligibleCount(q, nextFrame) \in 0 .. Len(q)
        /\ ConsumedCount(q, nextFrame) \in 0 .. EligibleCount(q, nextFrame)
    BY <2>2, CountBounds
  <2>4. /\ \A k \in 1 .. EligibleCount(q, nextFrame) : q[k].eligible <= nextFrame
        /\ \A k \in EligibleCount(q, nextFrame) + 1 .. Len(q) : q[k].eligible > nextFrame
    BY <2>1, <2>2, EligibleFirst
  <2> QED BY <2>3, <2>4, Zenon DEF q, n, e, d
<1>5. s \in membership.active =>
        /\ c.orders[s] = SubSeq(q, 1, d)
        /\ c.deferrals[s] = DeferralsOf(q, nextFrame)
  BY DEF ContentOf
<1>6. s \notin membership.active => c.orders[s] = <<>> /\ c.deferrals[s] = <<>>
  BY DEF ContentOf
<1>7. c.refusals[s] = refusals[s]
  BY DEF ContentOf
<1>8. /\ Len(SubSeq(q, 1, d)) = d
      /\ \A k \in 1 .. d : SubSeq(q, 1, d)[k] = q[k]
  <2> HIDE DEF q, n, e, d
  <2>1. d \in Nat /\ d <= n /\ n = Len(q)
    BY <1>3, <1>4 DEF n, q
  <2> QED BY <1>3, <2>1
<1>9. /\ Len(DeferralsOf(q, nextFrame)) = e - d
      /\ \A k \in 1 .. e - d : DeferralsOf(q, nextFrame)[k].id = q[d + k].id
  <2> DEFINE f == DeferralsOf(q, nextFrame)
  <2>1. f = [k \in 1 .. e - d |->
                [id |-> q[d + k].id, size |-> q[d + k].size, from |-> nextFrame,
                 to |-> nextFrame + 1, alone |-> ~Ordinary(q[1])]]
    BY Zenon DEF DeferralsOf
  <2> HIDE DEF q, n, e, d, f
  <2>2. e - d \in Nat
    BY <1>3, <1>4
  <2>3. DOMAIN f = 1 .. e - d /\ \A k \in 1 .. e - d : f[k].id = q[d + k].id
    BY <2>1
  <2>4. f \in Seq({f[k] : k \in 1 .. e - d})
    <3>1. f \in [1 .. e - d -> {f[k] : k \in 1 .. e - d}]
      BY <2>1
    <3> QED BY <2>2, <3>1, SeqDef
  <2>5. Len(f) = e - d
    BY <2>2, <2>3, <2>4, LenProperties
  <2> QED BY <2>3, <2>5 DEF f
<1> HIDE DEF q, n, e, d, c
<1>10. QueueOf(s)'
  BY <1>1, <1>2 DEF SlotInv, QueueOf
<1>11. InFlight(s)'
  <2> DEFINE ran == Len(c.orders[s])
             late == Len(c.deferrals[s])
  <2>1. /\ Covers(c, s, q, refusals[s])
        /\ s \notin membership.active => ran + late = 0
        /\ \A k \in 1 .. ran + late : q[k].eligible <= nextFrame
        /\ s \in membership.active => \A k \in ran + late + 1 .. n : q[k].eligible > nextFrame
    <3>1. CASE s \in membership.active
      <4>0. ran = d /\ late = e - d
        BY <1>5, <1>8, <1>9, <3>1, Zenon
      <4>1. ran = d /\ late = e - d /\ ran + late = e
        <5> HIDE DEF ran, late
        <5> QED BY <1>3, <1>4, <4>0
      <4>2. /\ \A k \in 1 .. d : c.orders[s][k] = q[k]
            /\ \A k \in 1 .. e - d : c.deferrals[s][k].id = q[d + k].id
        BY <1>5, <1>8, <1>9, <3>1
      <4>3. e <= n /\ n = Len(q)
        BY <1>3, <1>4 DEF n, q
      <4> QED BY <1>3, <1>4, <1>7, <3>1, <4>1, <4>2, <4>3 DEF Covers
    <3>2. CASE s \notin membership.active
      <4>1. ran = 0 /\ late = 0 /\ n = Len(q)
        BY <1>6, <3>2 DEF n, q
      <4> QED BY <1>3, <1>7, <3>2, <4>1 DEF Covers
    <3> QED BY <3>1, <3>2
  <2>2. /\ staged'.content = c /\ staged'.active = membership.active
        /\ orders'[s] = q /\ refusals'[s] = refusals[s] /\ nextFrame' = nextFrame /\ n = Len(q)
    BY <1>2 DEF q, n
  <2> HIDE DEF ran, late
  <2>3. /\ Covers(staged'.content, s, orders'[s], refusals'[s])
        /\ s \notin staged'.active => ran + late = 0
        /\ \A k \in 1 .. ran + late : orders'[s][k].eligible <= nextFrame'
        /\ s \in staged'.active =>
            \A k \in ran + late + 1 .. Len(orders'[s]) : orders'[s][k].eligible > nextFrame'
        /\ ran = Len(staged'.content.orders[s]) /\ late = Len(staged'.content.deferrals[s])
    BY <2>1, <2>2 DEF ran, late
  <2> QED BY <2>3 DEF InFlight
<1>12. Ran(s)' = Ran(s) /\ Audited(s)' = Audited(s)
  BY <1>2 DEF Ran, Audited
<1>13. AccountOf(s)' /\ RunsOf(s)'
  <2>1. AccountOf(s) /\ RunsOf(s)
    BY <1>1 DEF SlotInv
  <2>2. orders' = orders /\ refusals' = refusals /\ nextId' = nextId /\ log' = log
    BY <1>2
  <2>3. AccountOf(s)'
    BY <1>12, <2>1, <2>2, Zenon DEF AccountOf
  <2>4. RunsOf(s)'
    BY <1>12, <2>1, <2>2, Zenon DEF RunsOf
  <2> QED BY <2>3, <2>4
<1>14. DeferralsOfIds(s)' /\ DelaysOf(s)'
  BY <1>1, <1>2 DEF SlotInv, DeferralsOfIds, DelaysOf
<1> QED BY <1>10, <1>11, <1>13, <1>14 DEF SlotInv

\* What committed leaves of a queue: the orders behind those that ran, the
\* deferred ones eligible from the next frame on.
LEMMA ReleasedIs ==
    ASSUME NEW q \in Seq(Pending), NEW c \in Nat, NEW d \in Nat, c + d <= Len(q),
           nextFrame \in Nat
    PROVE  LET r == Released(q, c, d) IN
           /\ Len(r) = Len(q) - c
           /\ \A k \in 1 .. Len(q) - c :
                /\ r[k].id = q[c + k].id /\ r[k].stamp = q[c + k].stamp
                /\ r[k].size = q[c + k].size
                /\ k <= d => r[k].eligible = nextFrame + 1
                /\ k > d => r[k].eligible = q[c + k].eligible
<1> DEFINE r == Released(q, c, d)
           n == Len(q) - c
<1>1. Len(q) \in Nat /\ n \in Nat
  OBVIOUS
<1>2. r = [k \in 1 .. n |->
            IF k <= d THEN [q[c + k] EXCEPT !.eligible = nextFrame + 1] ELSE q[c + k]]
  BY Zenon DEF Released
<1> HIDE DEF r
<1>3. ASSUME NEW k \in 1 .. n
      PROVE  /\ r[k].id = q[c + k].id /\ r[k].stamp = q[c + k].stamp
             /\ r[k].size = q[c + k].size
             /\ k <= d => r[k].eligible = nextFrame + 1
             /\ k > d => r[k].eligible = q[c + k].eligible
  <2>1. c + k \in 1 .. Len(q)
    BY <1>1
  <2>2. q[c + k] \in Pending
    BY <2>1
  <2>3. r[k] = IF k <= d THEN [q[c + k] EXCEPT !.eligible = nextFrame + 1] ELSE q[c + k]
    BY <1>2
  <2>4. CASE k <= d
    BY <2>2, <2>3, <2>4 DEF Pending
  <2>5. CASE ~(k <= d)
    BY <1>1, <2>3, <2>5
  <2> QED BY <2>4, <2>5
<1>4. Len(r) = n
  <2> HIDE DEF n
  <2>1. DOMAIN r = 1 .. n
    BY <1>2
  <2>2. r \in [1 .. n -> {r[k] : k \in 1 .. n}]
    BY <1>2
  <2>3. r \in Seq({r[k] : k \in 1 .. n})
    BY <1>1, <2>2, SeqDef, SMTT(20)
  <2>4. Len(r) \in Nat /\ 1 .. Len(r) = 1 .. n
    BY <2>1, <2>3, LenProperties
  <2> HIDE DEF r
  <2> QED BY <1>1, <2>4
<1> QED BY <1>3, <1>4 DEF r

\* An appended frame takes its orders to the log and explains one more frame
\* of every order it leaves behind.
LEMMA CommitAudit ==
    ASSUME AuditInv, AppendSucceeds, NEW s \in Slot
    PROVE  SlotInv(s)'
<1> DEFINE q == orders[s]
           r == orders'[s]
           n == Len(q)
           w == refusals[s]
           f == staged.content
           list == f.orders[s]
           late == f.deferrals[s]
           c == Len(list)
           d == Len(late)
           b == Len(f.refusals[s])
<1>1. TypeOK /\ SlotInv(s) /\ LogFrames
  BY DEF AuditInv, IInv
<1>2. /\ prepared /\ staged.frame = nextFrame
      /\ r = Released(q, c, d)
      /\ refusals'[s] = SubSeq(w, b + 1, Len(w))
      /\ log' = Append(log, staged)
      /\ nextFrame' = nextFrame + 1
      /\ prepared' = FALSE
      /\ nextId' = nextId
  BY <1>1 DEF AppendSucceeds, BuilderCommitted, LogFrames
<1>3. /\ q \in Seq(Pending) /\ w \in Seq(Refusal) /\ n \in Nat /\ Len(w) \in Nat
      /\ \A k \in 1 .. n : q[k].id \in Nat /\ q[k].eligible \in Nat /\ q[k].stamp \in Nat
      /\ nextFrame \in Nat /\ log \in Seq(FrameRecord) /\ staged \in FrameRecord
      /\ nextId[s] \in Nat \ {0}
  BY <1>1, SlotTypes
<1>4. c \in Nat /\ d \in Nat /\ b \in Nat
  <2>1. list \in Seq(Pending) /\ late \in Seq(Deferral) /\ f.refusals[s] \in Seq(Refusal)
    BY <1>3 DEF FrameRecord, Content
  <2> HIDE DEF list, late, f
  <2> QED BY <2>1, LenProperties
<1>5. /\ Covers(f, s, q, w)
      /\ s \notin staged.active => c + d = 0
      /\ \A k \in 1 .. c + d : q[k].eligible <= nextFrame
      /\ s \in staged.active => \A k \in c + d + 1 .. n : q[k].eligible > nextFrame
  BY <1>1, <1>2 DEF SlotInv, InFlight
<1>6. /\ c + d <= n
      /\ \A k \in 1 .. c : list[k] = q[k]
      /\ \A k \in 1 .. d : late[k].id = q[c + k].id
      /\ b <= Len(w)
      /\ \A k \in 1 .. b : f.refusals[s][k] = w[k]
  BY <1>5 DEF Covers
<1>7. /\ Len(log) \in Nat /\ Len(log') = Len(log) + 1
      /\ \A i \in 1 .. Len(log) : log'[i] = log[i]
      /\ log'[Len(log) + 1] = staged
  BY <1>2, <1>3
<1>8. \A i \in 1 .. Len(log) : log[i].frame < nextFrame /\ log[i].frame \in Int
  BY <1>1, <1>3, <1>7, ClockAssumption DEF LogFrames
<1>9. /\ QueueOf(s) /\ AccountOf(s) /\ RunsOf(s) /\ DeferralsOfIds(s)
      /\ Delays(log, q, nextFrame, s)
  BY <1>1 DEF SlotInv, DelaysOf
<1> HIDE DEF n, c, d, b, list, late, f, r
<1>10. /\ Len(r) = n - c
       /\ \A k \in 1 .. n - c :
            /\ r[k].id = q[c + k].id /\ r[k].stamp = q[c + k].stamp
            /\ k <= d => r[k].eligible = nextFrame + 1
            /\ k > d => r[k].eligible = q[c + k].eligible
  <2> HIDE DEF q, w
  <2>1. q \in Seq(Pending) /\ c \in Nat /\ d \in Nat /\ c + d <= Len(q) /\ nextFrame \in Nat
    BY <1>3, <1>4, <1>6 DEF n
  <2>2. /\ Len(Released(q, c, d)) = Len(q) - c
        /\ \A k \in 1 .. Len(q) - c :
             /\ Released(q, c, d)[k].id = q[c + k].id
             /\ Released(q, c, d)[k].stamp = q[c + k].stamp
             /\ k <= d => Released(q, c, d)[k].eligible = nextFrame + 1
             /\ k > d => Released(q, c, d)[k].eligible = q[c + k].eligible
    BY <2>1, ReleasedIs, ZenonT(40)
  <2>3. r = Released(q, c, d) /\ n = Len(q)
    BY <1>2 DEF n
  <2> QED BY <2>2, <2>3
<1> HIDE DEF q, w
<1>11. \A k \in 1 .. n - c : c + k \in 1 .. n
  BY <1>3, <1>4, <1>6
<1>12. QueueOf(s)'
  <2>1. /\ \A k, l \in 1 .. n : k < l => q[k].eligible <= q[l].eligible
        /\ \A k \in 1 .. n : /\ q[k].stamp <= q[k].eligible
                             /\ q[k].eligible > nextFrame => q[k].stamp = q[k].eligible
    BY <1>9 DEF QueueOf, q, n
  <2>2. \A k, l \in 1 .. n - c : k < l => r[k].eligible <= r[l].eligible
    <3> SUFFICES ASSUME NEW k \in 1 .. n - c, NEW l \in 1 .. n - c, k < l
                 PROVE  r[k].eligible <= r[l].eligible
      OBVIOUS
    <3>1. c + k \in 1 .. n /\ c + l \in 1 .. n /\ c + k < c + l
      BY <1>4, <1>11
    <3>2. q[c + k].eligible <= q[c + l].eligible
      BY <2>1, <3>1
    <3>3. CASE l <= d
      BY <1>3, <1>4, <1>10, <3>3
    <3>4. CASE k <= d /\ l > d
      <4>1. c + l \in c + d + 1 .. n /\ c + d > 0
        BY <1>3, <1>4, <3>1, <3>4
      <4>2. q[c + l].eligible > nextFrame
        BY <1>5, <4>1
      <4> QED BY <1>3, <1>10, <3>1, <3>4, <4>2
    <3>5. CASE k > d
      <4>1. l > d
        BY <1>4, <3>5
      <4> QED BY <1>10, <3>2, <3>5, <4>1
    <3> QED BY <1>4, <3>3, <3>4, <3>5
  <2>3. ASSUME NEW k \in 1 .. n - c
        PROVE  /\ r[k].stamp <= r[k].eligible
               /\ r[k].eligible > nextFrame + 1 => r[k].stamp = r[k].eligible
    <3> DEFINE j == c + k
    <3>0. j \in 1 .. n
      BY <1>11
    <3> HIDE DEF j
    <3>4. q[j].stamp \in Nat /\ q[j].eligible \in Nat
      BY <1>3, <3>0
    <3>5. /\ q[j].stamp <= q[j].eligible
          /\ q[j].eligible > nextFrame => q[j].stamp = q[j].eligible
      BY <2>1, <3>0, Zenon
    <3>1. /\ q[c + k].stamp <= q[c + k].eligible
          /\ q[c + k].eligible > nextFrame => q[c + k].stamp = q[c + k].eligible
          /\ q[c + k].stamp \in Nat /\ q[c + k].eligible \in Nat
      BY <3>4, <3>5 DEF j
    <3>2. CASE k <= d
      <4>1. c + k \in 1 .. c + d
        BY <1>4, <3>2
      <4>2. q[c + k].eligible <= nextFrame
        BY <1>5, <4>1
      <4>3. r[k].stamp = q[c + k].stamp /\ r[k].eligible = nextFrame + 1
        BY <1>10, <3>2
      <4> QED BY <1>3, <3>1, <4>2, <4>3
    <3>3. CASE k > d
      <4>1. r[k].stamp = q[c + k].stamp /\ r[k].eligible = q[c + k].eligible
        BY <1>10, <3>3
      <4> QED BY <1>3, <3>1, <4>1
    <3> QED BY <1>4, <3>2, <3>3
  <2>4. nextFrame' = nextFrame + 1
    BY <1>2
  <2> QED BY <1>10, <2>2, <2>3, <2>4 DEF QueueOf, r
<1>13. InFlight(s)'
  BY <1>2 DEF InFlight
<1>14. /\ Ran(s)' = [i \in 1 .. Len(log) + 1 |-> log'[i].content.orders[s]]
       /\ Audited(s)' = [i \in 1 .. Len(log) + 1 |-> log'[i].content.refusals[s]]
  BY <1>7, Zenon DEF Ran, Audited
<1>15. /\ InTurn(Ran(s)', r) /\ AllIds(Ran(s)', r) = AllIds(Ran(s), q)
       /\ Below(list, r) /\ Ids(list) \subseteq Ids(q) /\ Ids(r) \subseteq Ids(q)
  <2> DEFINE new == Ran(s)'
             old == Ran(s)
  <2>1. DOMAIN old = 1 .. Len(log) /\ \A i \in 1 .. Len(log) : old[i] = log[i].content.orders[s]
    BY DEF Ran
  <2>2. /\ DOMAIN new = 1 .. Len(log) + 1
        /\ \A i \in 1 .. Len(log) + 1 : new[i] = log'[i].content.orders[s]
    BY <1>14
  <2>3. InTurn(old, q)
    BY <1>9 DEF RunsOf, q
  <2> HIDE DEF new, old
  <2>4. Len(log) + 1 \in 1 .. Len(log) + 1
    BY <1>7
  <2>5. new[Len(log) + 1] = list
    BY <1>7, <2>2, <2>4 DEF list, f
  <2>6. \A i \in 1 .. Len(log) : new[i] = old[i]
    <3>1. \A i \in 1 .. Len(log) : i \in 1 .. Len(log) + 1
      BY <1>7
    <3> QED BY <1>7, <2>1, <2>2, <3>1
  <2>7. Len(list) = c /\ Len(q) = n /\ \A k \in 1 .. c : list[k].id = q[k].id
    BY <1>6 DEF c, n
  <2>8. c <= n
    BY <1>3, <1>4, <1>6
  <2>9. \A k \in 1 .. n - c : r[k].id = q[c + k].id
    BY <1>10
  <2>10. /\ InTurn(new, r) /\ AllIds(new, r) = AllIds(old, q)
         /\ Below(new[Len(log) + 1], r)
         /\ Ids(new[Len(log) + 1]) \subseteq Ids(q) /\ Ids(r) \subseteq Ids(q)
    <3>1. /\ Len(log) \in Nat /\ c \in Nat /\ Len(q) \in Nat /\ c <= Len(q)
          /\ DOMAIN old = 1 .. Len(log) /\ DOMAIN new = 1 .. Len(log) + 1
          /\ Len(new[Len(log) + 1]) = c /\ Len(r) = Len(q) - c
      BY <1>3, <1>4, <1>7, <1>10, <2>1, <2>2, <2>5, <2>7, <2>8
    <3>2. /\ \A k \in 1 .. c : new[Len(log) + 1][k].id = q[k].id
          /\ \A k \in 1 .. Len(q) - c : r[k].id = q[c + k].id
      BY <2>5, <2>7, <2>9
    <3>3. Moves(Len(log), old, new, q, r, c)
      BY <2>6, <3>1, <3>2, Zenon DEF Moves
    <3> QED BY <2>3, <3>1, <3>3, TurnOver
  <2> QED BY <2>5, <2>10 DEF new, old
<1>16. /\ InTurn(Audited(s)', refusals'[s])
       /\ AllIds(Audited(s)', refusals'[s]) = AllIds(Audited(s), w)
  <2> DEFINE new == Audited(s)'
             old == Audited(s)
             rest == refusals'[s]
             taken == f.refusals[s]
  <2>1. DOMAIN old = 1 .. Len(log) /\ \A i \in 1 .. Len(log) : old[i] = log[i].content.refusals[s]
    BY DEF Audited
  <2>2. /\ DOMAIN new = 1 .. Len(log) + 1
        /\ \A i \in 1 .. Len(log) + 1 : new[i] = log'[i].content.refusals[s]
    BY <1>14
  <2>3. InTurn(old, w)
    BY <1>9 DEF AccountOf, w
  <2>4. Len(rest) = Len(w) - b /\ \A k \in 1 .. Len(w) - b : rest[k] = w[b + k]
    <3>1. rest = SubSeq(w, b + 1, Len(w))
      BY <1>2
    <3> HIDE DEF rest
    <3>2. b \in Nat /\ Len(w) \in Nat /\ b <= Len(w) /\ w \in Seq(Refusal)
      BY <1>3, <1>4, <1>6 DEF w
    <3> QED BY <3>1, <3>2
  <2> HIDE DEF new, old, rest
  <2>5. Len(log) + 1 \in 1 .. Len(log) + 1
    BY <1>7
  <2>6. new[Len(log) + 1] = taken
    BY <1>7, <2>2, <2>5 DEF f
  <2> HIDE DEF taken
  <2>7. \A i \in 1 .. Len(log) : new[i] = old[i]
    <3>1. \A i \in 1 .. Len(log) : i \in 1 .. Len(log) + 1
      BY <1>7
    <3> QED BY <1>7, <2>1, <2>2, <3>1
  <2>8. Len(taken) = b /\ \A k \in 1 .. b : taken[k].id = w[k].id
    BY <1>6 DEF b, taken
  <2>9. Len(w) \in Nat /\ b \in Nat /\ b <= Len(w) /\ Len(log) \in Nat
    BY <1>3, <1>4, <1>6, <1>7 DEF w
  <2>10. \A k \in 1 .. Len(w) - b : rest[k].id = w[b + k].id
    BY <2>4
  <2>11. InTurn(new, rest) /\ AllIds(new, rest) = AllIds(old, w)
    <3>1. /\ Len(new[Len(log) + 1]) = b
          /\ \A k \in 1 .. b : new[Len(log) + 1][k].id = w[k].id
      BY <2>6, <2>8
    <3>2. Moves(Len(log), old, new, w, rest, b)
      BY <2>1, <2>2, <2>4, <2>7, <2>9, <2>10, <3>1, Zenon DEF Moves
    <3> QED BY <2>3, <2>9, <3>2, TurnOver
  <2> QED BY <2>11 DEF new, old, rest
<1>17. AccountOf(s)'
  <2>1. nextId'[s] = nextId[s]
    BY <1>2
  <2>2. /\ AllIds(Ran(s), q) \union AllIds(Audited(s), w) = 1 .. nextId[s] - 1
        /\ AllIds(Ran(s), q) \intersect AllIds(Audited(s), w) = {}
    BY <1>9 DEF AccountOf, q, w
  <2> QED BY <1>15, <1>16, <2>1, <2>2, Zenon DEF AccountOf, r
<1>18. ASSUME NEW i \in 1 .. Len(log')
       PROVE  \/ i \in 1 .. Len(log) /\ log'[i] = log[i]
              \/ /\ i = Len(log) + 1 /\ log'[i] = staged
                 /\ log'[i].content.orders[s] = list
                 /\ log'[i].content.deferrals[s] = late
  BY <1>7 DEF list, late, f
<1>19. RunsOf(s)'
  <2>1. ASSUME NEW k \in 1 .. c PROVE list[k].stamp <= nextFrame
    <3>1. k \in 1 .. n /\ k \in 1 .. c + d
      BY <1>3, <1>4, <1>6
    <3>2. q[k].stamp <= q[k].eligible /\ q[k].eligible <= nextFrame
      BY <1>5, <1>9, <3>1 DEF QueueOf, q, n
    <3>3. q[k].stamp \in Nat /\ q[k].eligible \in Nat /\ list[k] = q[k]
      BY <1>3, <1>6, <3>1 DEF q
    <3> QED BY <1>3, <3>2, <3>3
  <2>2. ASSUME NEW i \in 1 .. Len(log'), NEW k \in 1 .. Len(log'[i].content.orders[s])
        PROVE  log'[i].content.orders[s][k].stamp <= log'[i].frame
    <3>1. CASE i \in 1 .. Len(log) /\ log'[i] = log[i]
      BY <1>9, <2>2, <3>1 DEF RunsOf
    <3>2. CASE log'[i] = staged /\ log'[i].content.orders[s] = list
      BY <1>2, <2>1, <3>2 DEF c
    <3> QED BY <1>18, <3>1, <3>2
  <2> QED BY <1>15, <2>2 DEF RunsOf, r
<1>20. Ids(late) \subseteq Ids(q)
  <2>1. \A k \in 1 .. d : c + k \in 1 .. n
    BY <1>3, <1>4, <1>6
  <2> QED BY <1>6, <2>1 DEF Ids, d, n
<1>21. DeferralsOfIds(s)'
  <2>1. Ids(q) \subseteq 1 .. nextId[s] - 1
    BY <1>9 DEF AccountOf, AllIds, q
  <2>2. ASSUME NEW i \in 1 .. Len(log')
        PROVE  Ids(log'[i].content.deferrals[s]) \subseteq 1 .. nextId[s] - 1
    <3>1. CASE i \in 1 .. Len(log) /\ log'[i] = log[i]
      BY <1>9, <3>1 DEF DeferralsOfIds
    <3>2. CASE log'[i].content.deferrals[s] = late
      BY <1>20, <2>1, <3>2
    <3> QED BY <1>18, <3>1, <3>2
  <2>3. nextId'[s] = nextId[s]
    BY <1>2
  <2> QED BY <2>2, <2>3 DEF DeferralsOfIds
<1>22. ASSUME NEW o, o.stamp \in Int, NEW end \in Int
       PROVE  /\ /\ o.id \notin Ids(late)
                 /\ ~(s \in staged.active /\ nextFrame \in o.stamp .. end - 1)
                 => Explained(log', s, o, end) <=> Explained(log, s, o, end)
              /\ /\ o.id \in Ids(late) /\ s \in staged.active
                 /\ o.stamp <= nextFrame /\ Explained(log, s, o, nextFrame)
                 => Explained(log', s, o, nextFrame + 1)
              /\ /\ o.id \notin Ids(late)
                 /\ s \in staged.active => o.stamp > nextFrame
                 /\ Explained(log, s, o, nextFrame)
                 => Explained(log', s, o, nextFrame + 1)
  <2> DEFINE id == o.id
             from == o.stamp
  <2>1. DeferredBy(log', s, id) =
            IF id \in Ids(late) THEN DeferredBy(log, s, id) \union {nextFrame}
                               ELSE DeferredBy(log, s, id)
    <3> HIDE DEF id
    <3>1. DeferredBy(Append(log, staged), s, id) =
            IF id \in Ids(staged.content.deferrals[s])
            THEN DeferredBy(log, s, id) \union {staged.frame}
            ELSE DeferredBy(log, s, id)
      <4>1. log \in Seq(FrameRecord) /\ staged \in FrameRecord
        BY <1>3
      <4> QED BY <4>1, DeferralsGrow
    <3> QED BY <1>2, <3>1, Zenon DEF late, f
  <2>2. \A to \in Int : ActiveBy(log', s, from, to) =
            IF s \in staged.active /\ nextFrame \in from .. to
            THEN ActiveBy(log, s, from, to) \union {nextFrame}
            ELSE ActiveBy(log, s, from, to)
    <3>1. from \in Int
      BY <1>22
    <3> HIDE DEF from
    <3>2. ASSUME NEW to \in Int
          PROVE  ActiveBy(Append(log, staged), s, from, to) =
                    IF s \in staged.active /\ staged.frame \in from .. to
                    THEN ActiveBy(log, s, from, to) \union {staged.frame}
                    ELSE ActiveBy(log, s, from, to)
      <4>1. log \in Seq(FrameRecord) /\ staged \in FrameRecord
        BY <1>3
      <4> QED BY <3>1, <4>1, FramesGrow
    <3> QED BY <1>2, <3>2, Zenon
  <2>3. ActiveBy(log, s, from, nextFrame) = ActiveBy(log, s, from, nextFrame - 1)
    <3>1. from \in Int /\ nextFrame \in Int /\ \A i \in 1 .. Len(log) : log[i].frame < nextFrame
      BY <1>3, <1>8, <1>22
    <3> HIDE DEF from
    <3> QED BY <1>3, <3>1, NotReached, Zenon
  <2>4. end - 1 \in Int /\ nextFrame + 1 - 1 = nextFrame /\ nextFrame \in Int
    BY <1>3
  <2>5. from <= nextFrame => nextFrame \in from .. nextFrame
    BY <1>3, <1>22
  <2>6. from > nextFrame => nextFrame \notin from .. nextFrame
    BY <1>3, <1>22
  <2>7. \A m : Explained(log', s, o, m) <=> DeferredBy(log', s, id) = ActiveBy(log', s, from, m - 1)
    BY Zenon DEF Explained
  <2>8. \A m : Explained(log, s, o, m) <=> DeferredBy(log, s, id) = ActiveBy(log, s, from, m - 1)
    BY Zenon DEF Explained
  <2>9. o.stamp = from /\ o.id = id
    OBVIOUS
  <2> HIDE DEF from, id
  <2>10. /\ id \notin Ids(late)
         /\ ~(s \in staged.active /\ nextFrame \in from .. end - 1)
         => Explained(log', s, o, end) <=> Explained(log, s, o, end)
    BY <2>1, <2>2, <2>4, <2>7, <2>8
  <2>11. /\ id \in Ids(late) /\ s \in staged.active
         /\ from <= nextFrame /\ Explained(log, s, o, nextFrame)
         => Explained(log', s, o, nextFrame + 1)
    BY <2>1, <2>2, <2>3, <2>4, <2>5, <2>7, <2>8
  <2>12. /\ id \notin Ids(late)
         /\ s \in staged.active => from > nextFrame
         /\ Explained(log, s, o, nextFrame)
         => Explained(log', s, o, nextFrame + 1)
    BY <2>1, <2>2, <2>3, <2>4, <2>6, <2>7, <2>8
  <2> QED BY <2>9, <2>10, <2>11, <2>12
<1>23. \A x \in Ids(q) : x \in Nat
  <2>1. Ids(q) = {q[k].id : k \in 1 .. n}
    BY DEF Ids, n
  <2> QED BY <1>3, <2>1
<1>24. ASSUME NEW i \in 1 .. Len(log), NEW k \in 1 .. Len(log[i].content.orders[s])
       PROVE  Explained(log', s, log[i].content.orders[s][k], log[i].frame)
  <2> DEFINE o == log[i].content.orders[s][k]
  <2>1. Explained(log, s, o, log[i].frame)
    BY <1>9 DEF Delays
  <2>2. log[i] \in FrameRecord
    BY <1>3
  <2>3. o \in Pending
    BY <2>2 DEF FrameRecord, Content
  <2>4. o.stamp \in Int /\ o.id \in Nat
    BY <2>3, ClockAssumption DEF Pending, Frames
  <2>5. o.id \notin Ids(late)
    <3>1. Below(log[i].content.orders[s], q)
      BY <1>9 DEF RunsOf, InTurn, Ran, q
    <3>2. o.id \in Ids(log[i].content.orders[s])
      BY DEF Ids
    <3>3. \A x \in Ids(late) : o.id < x
      BY <1>20, <3>1, <3>2 DEF Below
    <3> QED BY <2>4, <3>3
  <2>6. nextFrame \notin o.stamp .. log[i].frame - 1 /\ log[i].frame \in Int
    BY <1>3, <1>8, <2>4
  <2> HIDE DEF o
  <2> QED BY <1>22, <2>1, <2>4, <2>5, <2>6 DEF o
<1>25. ASSUME NEW k \in 1 .. c
       PROVE  Explained(log', s, list[k], nextFrame)
  <2>1. k \in 1 .. n /\ list[k] = q[k]
    BY <1>3, <1>4, <1>6
  <2>2. Explained(log, s, q[k], nextFrame)
    BY <1>9, <2>1 DEF Delays, n
  <2>3. q[k].stamp \in Int /\ q[k].id \in Nat
    BY <1>3, <2>1
  <2>4. q[k].id \notin Ids(late)
    <3>1. ASSUME NEW l \in 1 .. d PROVE q[k].id < late[l].id
      <4>1. c + l \in 1 .. n /\ k < c + l
        BY <1>3, <1>4, <1>6
      <4>2. StrictlyOrdered(q)
        BY <1>9 DEF RunsOf, InTurn, q
      <4>3. q[k].id < q[c + l].id
        BY <2>1, <4>1, <4>2 DEF StrictlyOrdered, n
      <4> QED BY <1>6, <4>3
    <3>2. \A x \in Ids(late) : q[k].id < x
      BY <3>1 DEF Ids, d
    <3> QED BY <2>3, <3>2
  <2>5. nextFrame \notin q[k].stamp .. nextFrame - 1 /\ nextFrame \in Int
    BY <1>3, <2>3
  <2> QED BY <1>22, <2>1, <2>2, <2>3, <2>4, <2>5
<1>26. ASSUME NEW k \in 1 .. n - c
       PROVE  Explained(log', s, r[k], nextFrame + 1)
  <2> DEFINE j == c + k
  <2>1. j \in 1 .. n
    BY <1>11
  <2>2. r[k].id = q[j].id /\ r[k].stamp = q[j].stamp
    BY <1>10
  <2> HIDE DEF j
  <2>3. q[j].id \in Nat /\ q[j].stamp \in Nat /\ q[j].eligible \in Nat
    BY <1>3, <2>1
  <2>4. /\ q[j].stamp <= q[j].eligible
        /\ q[j].eligible > nextFrame => q[j].stamp = q[j].eligible
    BY <1>9, <2>1 DEF QueueOf, q, n
  <2>5. Explained(log, s, q[j], nextFrame)
    BY <1>9, <2>1 DEF Delays, n
  <2>6. Explained(log', s, q[j], nextFrame + 1)
    <3>1. CASE k <= d
      <4>1. q[j].id \in Ids(late)
        BY <1>4, <1>6, <3>1 DEF Ids, d, j
      <4>2. s \in staged.active
        BY <1>4, <1>5, <3>1
      <4>3. j \in 1 .. c + d
        BY <1>4, <3>1 DEF j
      <4>4. q[j].stamp <= nextFrame
        BY <1>3, <1>5, <2>3, <2>4, <4>3
      <4> QED BY <1>22, <2>3, <2>5, <4>1, <4>2, <4>4
    <3>2. CASE k > d
      <4>1. q[j].id \notin Ids(late)
        <5>1. ASSUME NEW l \in 1 .. d PROVE late[l].id < q[j].id
          <6>1. c + l \in 1 .. n /\ c + l < j
            BY <1>3, <1>4, <1>6, <3>2 DEF j
          <6>2. StrictlyOrdered(q)
            BY <1>9 DEF RunsOf, InTurn, q
          <6>3. q[c + l].id < q[j].id
            BY <2>1, <6>1, <6>2 DEF StrictlyOrdered, n
          <6> QED BY <1>6, <6>3
        <5>2. \A x \in Ids(late) : x < q[j].id
          BY <5>1 DEF Ids, d
        <5> QED BY <2>3, <5>2
      <4>2. s \in staged.active => q[j].stamp > nextFrame
        <5>1. j \in c + d + 1 .. n
          BY <1>3, <1>4, <2>1, <3>2 DEF j
        <5> QED BY <1>3, <1>5, <2>3, <2>4, <5>1
      <4> QED BY <1>22, <2>3, <2>5, <4>1, <4>2
    <3> QED BY <1>4, <3>1, <3>2
  <2> QED BY <2>2, <2>6 DEF Explained
<1>27. DelaysOf(s)'
  <2>1. ASSUME NEW i \in 1 .. Len(log'), NEW k \in 1 .. Len(log'[i].content.orders[s])
        PROVE  Explained(log', s, log'[i].content.orders[s][k], log'[i].frame)
    <3>1. CASE i \in 1 .. Len(log) /\ log'[i] = log[i]
      BY <1>24, <2>1, <3>1
    <3>2. CASE log'[i] = staged /\ log'[i].content.orders[s] = list
      BY <1>2, <1>25, <2>1, <3>2 DEF c
    <3> QED BY <1>18, <3>1, <3>2
  <2>2. \A k \in 1 .. Len(r) : Explained(log', s, r[k], nextFrame')
    BY <1>2, <1>10, <1>26
  <2>3. Delays(log', r, nextFrame', s)
    BY <2>1, <2>2 DEF Delays
  <2> QED BY <2>3 DEF DelaysOf, r
<1> QED BY <1>12, <1>13, <1>17, <1>19, <1>21, <1>27 DEF SlotInv

LEMMA AuditStep == AuditInv /\ [Next]_vars => AuditInv'
<1> SUFFICES ASSUME AuditInv, [Next]_vars PROVE AuditInv'
  OBVIOUS
<1>1. IInv /\ IInv' /\ TypeOK /\ LogFrames
  BY StepInv DEF AuditInv, IInv
<1>2. ASSUME UNCHANGED <<nextFrame, prepared, staged, log>> PROVE LogFrames'
  BY <1>1, <1>2 DEF LogFrames
<1>3. ASSUME UNCHANGED <<nextFrame, prepared, staged, log, orders, refusals, nextId>>
      PROVE  AuditInv'
  <2>1. \A s \in Slot : SlotInv(s)'
    BY <1>3, Unmoved DEF AuditInv
  <2> QED BY <1>1, <1>2, <1>3, <2>1 DEF AuditInv
<1>4. ASSUME NEW s \in SlotMask, NEW id \in 1 .. MaxId[s], NEW size \in Sizes[policy],
             AdmitOrder(s, id, size)
      PROVE  AuditInv'
  <2>1. s \in Slot /\ id \in Nat /\ size \in Nat /\ MaxFrame \in Nat
    <3>1. Sizes[policy] \in SUBSET Nat
      BY <1>1, SchedulerAssumption DEF TypeOK
    <3> QED BY <3>1, ClockAssumption, BundleAssumption, SchedulerAssumption
  <2>2. UNCHANGED <<nextFrame, prepared, staged, log>>
    BY <1>4 DEF AdmitOrder, BuilderAdmit
  <2>3. /\ orders \in [Slot -> Seq(Pending)] /\ refusals \in [Slot -> Seq(Refusal)]
        /\ nextId \in [Slot -> Nat \ {0}]
    BY <1>1 DEF TypeOK
  <2>4. id = nextId[s]
    BY <1>4 DEF AdmitOrder, OrderAdmission, Admission
  <2>5. CASE /\ orders' = [orders EXCEPT ![s] = Append(@,
                  [id |-> id, size |-> size, eligible |-> Stamp(s), stamp |-> Stamp(s)])]
             /\ nextId' = [nextId EXCEPT ![s] = @ + 1]
             /\ refusals' = refusals
    <3> DEFINE e == [id |-> id, size |-> size, eligible |-> Stamp(s), stamp |-> Stamp(s)]
    <3>1. orders'[s] = Append(orders[s], e) /\ nextId'[s] = nextId[s] + 1
      BY <2>1, <2>3, <2>5
    <3>2. e \in Pending
      <4>1. orders'[s] \in Seq(Pending)
        BY <1>1, <2>1 DEF IInv, TypeOK
      <4>2. Len(orders'[s]) = Len(orders[s]) + 1 /\ orders'[s][Len(orders[s]) + 1] = e
        BY <2>1, <2>3, <3>1
      <4>3. Len(orders[s]) + 1 \in 1 .. Len(orders'[s])
        BY <2>1, <2>3, <4>2
      <4> QED BY <4>1, <4>2, <4>3
    <3>3. SlotInv(s)'
      BY <2>1, <2>2, <2>4, <2>5, <3>1, <3>2, AcceptAudit
    <3>4. ASSUME NEW r \in Slot, r # s PROVE SlotInv(r)'
      <4>1. orders'[r] = orders[r] /\ refusals'[r] = refusals[r] /\ nextId'[r] = nextId[r]
        BY <2>3, <2>5, <3>4
      <4> QED BY <2>2, <4>1, Unmoved DEF AuditInv
    <3> QED BY <1>1, <1>2, <2>2, <3>3, <3>4 DEF AuditInv
  <2>6. CASE /\ refusals' = [refusals EXCEPT ![s] = Append(@, [id |-> id, size |-> size])]
             /\ nextId' = [nextId EXCEPT ![s] = @ + 1]
             /\ orders' = orders
    <3> DEFINE e == [id |-> id, size |-> size]
    <3>1. refusals'[s] = Append(refusals[s], e) /\ nextId'[s] = nextId[s] + 1
      BY <2>1, <2>3, <2>6
    <3>2. e \in Refusal
      BY <2>1 DEF Refusal
    <3>3. SlotInv(s)'
      BY <2>1, <2>2, <2>4, <2>6, <3>1, <3>2, RefuseAudit
    <3>4. ASSUME NEW r \in Slot, r # s PROVE SlotInv(r)'
      <4>1. orders'[r] = orders[r] /\ refusals'[r] = refusals[r] /\ nextId'[r] = nextId[r]
        BY <2>3, <2>6, <3>4
      <4> QED BY <2>2, <4>1, Unmoved DEF AuditInv
    <3> QED BY <1>1, <1>2, <2>2, <3>3, <3>4 DEF AuditInv
  <2> QED BY <1>4, <2>5, <2>6 DEF AdmitOrder, BuilderAdmit
<1>5. CASE Seal
  <2>1. LogFrames'
    BY <1>1, <1>5 DEF LogFrames, Seal, BuilderPrepare
  <2> QED BY <1>1, <1>5, <2>1, SealAudit DEF AuditInv
<1>6. CASE AppendSucceeds
  <2>1. LogFrames'
    <3>1. /\ prepared /\ log' = Append(log, staged) /\ nextFrame' = nextFrame + 1 /\ ~prepared'
          /\ staged.frame = nextFrame
      BY <1>1, <1>6 DEF LogFrames, AppendSucceeds, BuilderCommitted
    <3>2. log \in Seq(FrameRecord) /\ nextFrame \in Nat /\ FirstFrame \in Nat
      BY <1>1, ClockAssumption DEF TypeOK, Frames
    <3>3. /\ Len(log) \in Nat /\ Len(log') = Len(log) + 1
          /\ \A i \in 1 .. Len(log) : log'[i] = log[i]
          /\ log'[Len(log) + 1] = staged
      BY <3>1, <3>2
    <3>4. \A i \in 1 .. Len(log') : i \in 1 .. Len(log) \/ i = Len(log) + 1
      BY <3>3
    <3>5. Len(log') = nextFrame' - FirstFrame
      BY <1>1, <3>1, <3>2, <3>3 DEF LogFrames
    <3>6. \A i \in 1 .. Len(log') : log'[i].frame = FirstFrame + i - 1
      BY <1>1, <3>1, <3>2, <3>3, <3>4 DEF LogFrames
    <3> QED BY <3>1, <3>5, <3>6 DEF LogFrames
  <2> QED BY <1>1, <1>6, <2>1, CommitAudit DEF AuditInv
<1>7. ASSUME NEW s \in SlotMask, NEW id, AdmitBeat(s, id) PROVE AuditInv'
  BY <1>3, <1>7 DEF AdmitBeat, builderVars
<1>8. CASE AppendFails \/ Tick \/ MembershipChanges \/ UNCHANGED vars
  BY <1>3, <1>8 DEF AppendFails, BuilderFail, Tick, MembershipChanges, vars, builderVars
<1> QED BY <1>4, <1>5, <1>6, <1>7, <1>8 DEF Next, Client, Relay

THEOREM AuditInductive == Spec => []AuditInv
BY AuditInit, AuditStep, PTL DEF Spec

-----------------------------------------------------------------------------
\* The properties the run checks.

\* Every id a slot used is one order or one refusal: nothing admitted is lost
\* and nothing is carried out or reported twice (admit, committed).
THEOREM IdsAreAccounted == Spec => []IdsAccounted
<1>1. AuditInv => IdsAccounted
  BY DEF AuditInv, SlotInv, AccountOf, IdsAccounted
<1> QED BY <1>1, AuditInductive, PTL

\* A slot's orders run in the order it sent them, whatever was deferred, and
\* never before the frame they were stamped for (prepare).
THEOREM OrdersRunInOrder == Spec => []RunsInOrder
<1>1. AuditInv => RunsInOrder
  BY DEF AuditInv, SlotInv, RunsOf, RunsInOrder
<1> QED BY <1>1, AuditInductive, PTL

\* The deferrals a log records are exactly the frames an order waited in
\* while its slot was active (deferrals of prepare, committed).
THEOREM DelaysAreExplained == Spec => []DelayExplained
<1>1. AuditInv => DelayExplained
  BY DEF AuditInv, SlotInv, DelaysOf, Delays, Explained, DeferredBy, ActiveBy,
         DelayExplained, DeferredIn, ActiveFrames
<1> QED BY <1>1, AuditInductive, PTL

-----------------------------------------------------------------------------
\* The bytes of a list.

Sized(q) == Len(q) \in Nat /\ \A k \in 1 .. Len(q) : q[k].size \in Nat

LEMMA RunningSteps ==
    ASSUME NEW q, Len(q) \in Nat
    PROVE  /\ RunningBytes(q)[0] = 0
           /\ \A n \in 1 .. Len(q) : RunningBytes(q)[n] = RunningBytes(q)[n - 1] + q[n].size
<1> DEFINE Steps(n, g) == g = [m \in 0 .. n |-> IF m = 0 THEN 0 ELSE g[m - 1] + q[m].size]
           T == {n \in Nat : \E g : Steps(n, g)}
<1>1. 0 \in T
  <2> DEFINE g == [m \in 0 .. 0 |-> 0]
  <2>1. Steps(0, g)
    OBVIOUS
  <2> QED BY <2>1
<1>2. ASSUME NEW n \in Nat, n \in T PROVE n + 1 \in T
  <2>1. PICK g : Steps(n, g)
    BY <1>2
  <2> DEFINE h == [m \in 0 .. n + 1 |-> IF m = n + 1 THEN g[n] + q[n + 1].size ELSE g[m]]
  <2>2. \A m \in 0 .. n + 1 : h[m] = IF m = 0 THEN 0 ELSE h[m - 1] + q[m].size
    BY <2>1
  <2> DEFINE k == [m \in 0 .. n + 1 |-> IF m = 0 THEN 0 ELSE h[m - 1] + q[m].size]
  <2>3. h = k
    BY <2>2
  <2> HIDE DEF h
  <2>4. Steps(n + 1, h)
    BY <2>3
  <2> QED BY <2>4
<1> HIDE DEF T
<1>3. Len(q) \in T
  BY <1>1, <1>2, SetInduction
<1>4. Steps(Len(q), RunningBytes(q))
  <2>1. \E g : Steps(Len(q), g)
    BY <1>3 DEF T
  <2> QED BY <2>1 DEF RunningBytes
<1> QED BY <1>4

LEMMA RunningType ==
    ASSUME NEW q, Sized(q)
    PROVE  \A n \in 0 .. Len(q) : RunningBytes(q)[n] \in Nat
<1>1. /\ Len(q) \in Nat /\ RunningBytes(q)[0] \in Nat
      /\ \A n \in 1 .. Len(q) : RunningBytes(q)[n - 1] \in Nat => RunningBytes(q)[n] \in Nat
  BY RunningSteps DEF Sized
<1> QED BY <1>1, UpTo

\* The first n sizes of a list are those of another after its first c.
PartOf(r, n, q, c) ==
    /\ c + n <= Len(q) /\ n <= Len(r)
    /\ \A k \in 1 .. n : r[k].size = q[c + k].size

LEMMA RunningAlong ==
    ASSUME NEW q, NEW r, Sized(q), Sized(r), NEW c \in Nat, NEW n \in Nat, PartOf(r, n, q, c)
    PROVE  \A m \in 0 .. n : RunningBytes(q)[c + m] = RunningBytes(q)[c] + RunningBytes(r)[m]
<1> DEFINE T == {m \in Nat : m <= n =>
                    RunningBytes(q)[c + m] = RunningBytes(q)[c] + RunningBytes(r)[m]}
<1>0. Len(q) \in Nat /\ Len(r) \in Nat
  BY DEF Sized
<1>1. 0 \in T
  <2>1. c \in 0 .. Len(q)
    BY <1>0 DEF PartOf
  <2>2. RunningBytes(r)[0] = 0 /\ RunningBytes(q)[c] \in Nat
    BY <1>0, <2>1, RunningSteps, RunningType
  <2> QED BY <2>2
<1>2. ASSUME NEW m \in Nat, m \in T PROVE m + 1 \in T
  <2> SUFFICES ASSUME m + 1 <= n
               PROVE  RunningBytes(q)[c + (m + 1)] = RunningBytes(q)[c] + RunningBytes(r)[m + 1]
    OBVIOUS
  <2>1. RunningBytes(q)[c + m] = RunningBytes(q)[c] + RunningBytes(r)[m]
    BY <1>2
  <2>2. m + 1 \in 1 .. Len(r) /\ c + (m + 1) \in 1 .. Len(q) /\ m + 1 \in 1 .. n
    BY <1>0 DEF PartOf
  <2>3. RunningBytes(r)[m + 1] = RunningBytes(r)[(m + 1) - 1] + r[m + 1].size
    BY <1>0, <2>2, RunningSteps
  <2>4. RunningBytes(q)[c + (m + 1)] = RunningBytes(q)[(c + (m + 1)) - 1] + q[c + (m + 1)].size
    BY <1>0, <2>2, RunningSteps
  <2>5. r[m + 1].size = q[c + (m + 1)].size /\ r[m + 1].size \in Nat
    BY <2>2 DEF Sized, PartOf
  <2>6. /\ RunningBytes(q)[c] \in Nat /\ RunningBytes(r)[m] \in Nat
        /\ (m + 1) - 1 = m /\ (c + (m + 1)) - 1 = c + m
    BY <1>0, <2>2, RunningType
  <2> QED BY <2>1, <2>3, <2>4, <2>5, <2>6
<1> HIDE DEF T
<1>3. Nat \subseteq T
  BY <1>1, <1>2, SetInduction
<1> QED BY <1>3 DEF T

\* One more order, and a list cut in two.
LEMMA BytesOfAppend ==
    ASSUME NEW S, NEW q \in Seq(S), NEW e \in S, Sized(q), e.size \in Nat
    PROVE  /\ Sized(Append(q, e))
           /\ BytesOf(Append(q, e)) = BytesOf(q) + e.size
<1> DEFINE r == Append(q, e)
<1>1. /\ Len(q) \in Nat /\ Len(r) = Len(q) + 1
      /\ \A k \in 1 .. Len(q) : r[k] = q[k]
      /\ r[Len(q) + 1] = e
  OBVIOUS
<1> HIDE DEF r
<1>2. Sized(r)
  BY <1>1 DEF Sized
<1>3. RunningBytes(r)[0 + Len(q)] = RunningBytes(r)[0] + RunningBytes(q)[Len(q)]
  <2>1. \A k \in 1 .. Len(q) : q[k].size = r[0 + k].size
    BY <1>1
  <2>2. PartOf(q, Len(q), r, 0)
    BY <1>1, <2>1 DEF PartOf
  <2>3. \A m \in 0 .. Len(q) :
            RunningBytes(r)[0 + m] = RunningBytes(r)[0] + RunningBytes(q)[m]
    BY <1>1, <1>2, <2>2, RunningAlong
  <2> QED BY <1>1, <2>3
<1>4. RunningBytes(r)[Len(q) + 1] = RunningBytes(r)[Len(q)] + e.size
  <2>1. Len(q) + 1 \in 1 .. Len(r) /\ (Len(q) + 1) - 1 = Len(q) /\ Len(r) \in Nat
    BY <1>1
  <2> QED BY <1>1, <2>1, RunningSteps
<1>5. RunningBytes(r)[0] = 0 /\ RunningBytes(q)[Len(q)] \in Nat
  BY <1>1, <1>2, RunningSteps, RunningType DEF Sized
<1>6. BytesOf(r) = BytesOf(q) + e.size
  BY <1>1, <1>3, <1>4, <1>5 DEF BytesOf
<1> QED BY <1>2, <1>6 DEF r

LEMMA BytesOfCut ==
    ASSUME NEW q, NEW first, NEW rest, Sized(q), Sized(first), Sized(rest),
           Len(q) = Len(first) + Len(rest),
           \A k \in 1 .. Len(first) : first[k].size = q[k].size,
           \A k \in 1 .. Len(rest) : rest[k].size = q[Len(first) + k].size
    PROVE  BytesOf(q) = BytesOf(first) + BytesOf(rest)
<1>1. Len(q) \in Nat /\ Len(first) \in Nat /\ Len(rest) \in Nat
  BY DEF Sized
<1>2. RunningBytes(q)[0 + Len(first)] = RunningBytes(q)[0] + RunningBytes(first)[Len(first)]
  <2>1. \A k \in 1 .. Len(first) : first[k].size = q[0 + k].size
    OBVIOUS
  <2>2. PartOf(first, Len(first), q, 0)
    BY <1>1, <2>1 DEF PartOf
  <2>3. \A m \in 0 .. Len(first) :
            RunningBytes(q)[0 + m] = RunningBytes(q)[0] + RunningBytes(first)[m]
    BY <1>1, <2>2, RunningAlong
  <2> QED BY <1>1, <2>3
<1>3. RunningBytes(q)[Len(first) + Len(rest)] =
        RunningBytes(q)[Len(first)] + RunningBytes(rest)[Len(rest)]
  <2>1. PartOf(rest, Len(rest), q, Len(first))
    BY <1>1 DEF PartOf
  <2>2. \A m \in 0 .. Len(rest) :
            RunningBytes(q)[Len(first) + m] = RunningBytes(q)[Len(first)] + RunningBytes(rest)[m]
    BY <1>1, <2>1, RunningAlong
  <2> QED BY <1>1, <2>2
<1>4. /\ RunningBytes(q)[0] = 0 /\ 0 + Len(first) = Len(first)
      /\ RunningBytes(first)[Len(first)] \in Nat /\ RunningBytes(rest)[Len(rest)] \in Nat
  BY <1>1, RunningSteps, RunningType
<1> QED BY <1>2, <1>3, <1>4 DEF BytesOf

-----------------------------------------------------------------------------
\* What the queues hold: no more than their limits, orders of a size that is
\* admitted, refusals of one that is not, and nothing outside the mask.

Within(s) ==
    /\ Len(orders[s]) <= MaxPendingOrders /\ Len(refusals[s]) <= MaxPendingOrders
    /\ \A k \in 1 .. Len(orders[s]) : orders[s][k].size \in 1 .. MaxOrderBytes
    /\ \A k \in 1 .. Len(refusals[s]) : Refused(refusals[s][k].size)
    /\ s \notin SlotMask => Len(orders[s]) = 0 /\ Len(refusals[s]) = 0

Weighed(s) == bytes[s] = BytesOf(orders[s]) /\ bytes[s] <= MaxPendingBytes

QueueInv ==
    /\ bytes \in [Slot -> Nat]
    /\ \A s \in Slot : Within(s) /\ Weighed(s)
    /\ Valid(membership) /\ membership.slotMask = SlotMask
    /\ membership.loaded = membership.active
    /\ membership.clockValid /\ ~membership.paused

LEMMA OrdersSized == ASSUME TypeOK, NEW s \in Slot PROVE Sized(orders[s])
<1>1. Len(orders[s]) \in Nat /\ \A k \in 1 .. Len(orders[s]) : orders[s][k] \in Pending
  BY SlotTypes
<1> QED BY <1>1 DEF Sized, Pending

LEMMA SnapshotIsValid ==
    ASSUME NEW away \in SUBSET SlotMask, NEW held \in SUBSET away,
           NEW m, m = SnapshotOf(SlotMask \ away, held)
    PROVE  /\ Valid(m) /\ m.slotMask = SlotMask /\ m.loaded = m.active
           /\ m.clockValid /\ ~m.paused
<1>1. /\ m.slotMask = SlotMask /\ m.active = SlotMask \ away /\ m.held = held
      /\ m.departed = SlotMask \ ((SlotMask \ away) \union held)
      /\ m.loaded = m.active /\ m.generation = [s \in Slot |-> 0]
  BY DEF SnapshotOf
<1>2. m.clockValid /\ ~m.paused
  BY Zenon DEF SnapshotOf
<1>3. SlotMask # {}
  BY BundleAssumption
<1>4. /\ m.slotMask # {}
      /\ m.active \union m.held \union m.departed = m.slotMask
      /\ m.active \intersect m.held = {}
      /\ m.active \intersect m.departed = {}
      /\ m.held \intersect m.departed = {}
      /\ m.loaded \subseteq m.active
      /\ \A s \in Slot \ m.slotMask : m.generation[s] = 0
  BY <1>1, <1>3
<1>5. Valid(m)
  BY <1>1, <1>2, <1>4, Zenon DEF Valid
<1> QED BY <1>1, <1>2, <1>5

LEMMA QueueInit == Init => QueueInv
<1> SUFFICES ASSUME Init PROVE QueueInv
  OBVIOUS
<1>1. membership = SnapshotOf(SlotMask \ {}, {})
  BY DEF Init
<1>2. /\ Valid(membership) /\ membership.slotMask = SlotMask
      /\ membership.loaded = membership.active
      /\ membership.clockValid /\ ~membership.paused
  <2>1. {} \in SUBSET SlotMask /\ {} \in SUBSET {}
    OBVIOUS
  <2> QED BY <1>1, <2>1, SnapshotIsValid
<1>3. ASSUME NEW s \in Slot PROVE Within(s) /\ Weighed(s)
  <2>1. orders[s] = <<>> /\ refusals[s] = <<>> /\ bytes[s] = 0
    BY DEF Init, BuilderInit
  <2>2. Len(orders[s]) = 0 /\ Len(refusals[s]) = 0
    BY <2>1
  <2>3. BytesOf(orders[s]) = 0
    BY <2>2, RunningSteps DEF BytesOf
  <2> QED BY <2>1, <2>2, <2>3, BundleAssumption DEF Within, Weighed
<1>4. bytes \in [Slot -> Nat]
  BY DEF Init, BuilderInit
<1> QED BY <1>2, <1>3, <1>4 DEF QueueInv

\* A slot whose queues stay.
LEMMA QueuesStay ==
    ASSUME NEW s \in Slot, Within(s), Weighed(s),
           orders'[s] = orders[s], refusals'[s] = refusals[s], bytes'[s] = bytes[s]
    PROVE  Within(s)' /\ Weighed(s)'
BY DEF Within, Weighed

LEMMA AcceptKeeps ==
    ASSUME TypeOK, QueueInv, NEW s \in SlotMask, NEW e \in Pending,
           e.size \in 1 .. MaxOrderBytes, e.size <= MaxPendingBytes - bytes[s],
           Len(orders[s]) < MaxPendingOrders,
           orders'[s] = Append(orders[s], e), bytes'[s] = bytes[s] + e.size,
           refusals'[s] = refusals[s]
    PROVE  Within(s)' /\ Weighed(s)'
<1> DEFINE q == orders[s]
           r == orders'[s]
<1>1. s \in Slot /\ q \in Seq(Pending) /\ Within(s) /\ Weighed(s) /\ bytes[s] \in Nat
  BY BundleAssumption DEF QueueInv, TypeOK
<1>2. Sized(q)
  BY <1>1, OrdersSized
<1>3. /\ Len(q) \in Nat /\ Len(r) = Len(q) + 1
      /\ \A k \in 1 .. Len(q) : r[k] = q[k]
      /\ r[Len(q) + 1] = e
  BY <1>1
<1>4. e.size \in Nat
  BY BundleAssumption
<1>5. BytesOf(r) = BytesOf(q) + e.size
  BY <1>1, <1>2, <1>4, BytesOfAppend
<1>6. Weighed(s)'
  BY <1>1, <1>4, <1>5, BundleAssumption DEF Weighed
<1>7. Within(s)'
  <2>1. \A k \in 1 .. Len(r) : k \in 1 .. Len(q) \/ k = Len(q) + 1
    BY <1>3
  <2>2. \A k \in 1 .. Len(r) : r[k].size \in 1 .. MaxOrderBytes
    BY <1>1, <1>3, <2>1 DEF Within
  <2>3. Len(r) <= MaxPendingOrders
    BY <1>3, BundleAssumption
  <2> HIDE DEF r, q
  <2>4. /\ Len(orders'[s]) <= MaxPendingOrders
        /\ \A k \in 1 .. Len(orders'[s]) : orders'[s][k].size \in 1 .. MaxOrderBytes
    BY <2>2, <2>3 DEF r
  <2> QED BY <1>1, <2>4 DEF Within
<1> QED BY <1>6, <1>7

LEMMA RefuseKeeps ==
    ASSUME TypeOK, QueueInv, NEW s \in SlotMask, NEW e \in Refusal, Refused(e.size),
           Len(refusals[s]) < MaxPendingOrders,
           refusals'[s] = Append(refusals[s], e),
           orders'[s] = orders[s], bytes'[s] = bytes[s]
    PROVE  Within(s)' /\ Weighed(s)'
<1> DEFINE q == refusals[s]
           r == refusals'[s]
<1>1. s \in Slot /\ q \in Seq(Refusal) /\ Within(s) /\ Weighed(s)
  BY BundleAssumption DEF QueueInv, TypeOK
<1>2. /\ Len(q) \in Nat /\ Len(r) = Len(q) + 1
      /\ \A k \in 1 .. Len(q) : r[k] = q[k]
      /\ r[Len(q) + 1] = e
  BY <1>1
<1>3. \A k \in 1 .. Len(r) : k \in 1 .. Len(q) \/ k = Len(q) + 1
  BY <1>2
<1>4. \A k \in 1 .. Len(r) : Refused(r[k].size)
  BY <1>1, <1>2, <1>3 DEF Within
<1>5. Len(r) <= MaxPendingOrders
  BY <1>2, BundleAssumption
<1>6. Weighed(s)'
  BY <1>1 DEF Weighed
<1> HIDE DEF r, q
<1>7. /\ Len(refusals'[s]) <= MaxPendingOrders
      /\ \A k \in 1 .. Len(refusals'[s]) : Refused(refusals'[s][k].size)
  BY <1>4, <1>5 DEF r
<1>8. Within(s)'
  BY <1>1, <1>7 DEF Within
<1> QED BY <1>6, <1>8

\* What a committed frame leaves of a slot: the orders behind those that ran,
\* with their sizes, and the account less what ran.
LEMMA CommitKeeps ==
    ASSUME AuditInv, QueueInv, AppendSucceeds, NEW s \in Slot
    PROVE  /\ bytes'[s] \in Nat
           /\ Within(s)' /\ Weighed(s)'
<1> DEFINE q == orders[s]
           w == refusals[s]
           f == staged.content
           list == f.orders[s]
           c == Len(list)
           d == Len(f.deferrals[s])
           b == Len(f.refusals[s])
           r == orders'[s]
           v == refusals'[s]
<1>1. TypeOK /\ Within(s) /\ Weighed(s) /\ Sized(q) /\ bytes[s] \in Nat
  BY OrdersSized DEF AuditInv, IInv, QueueInv
<1>2. /\ prepared
      /\ r = Released(q, c, d)
      /\ v = SubSeq(w, b + 1, Len(w))
      /\ bytes'[s] = bytes[s] - BytesOf(list)
  BY DEF AppendSucceeds, BuilderCommitted, ReleasedBytes
<1>3. /\ q \in Seq(Pending) /\ w \in Seq(Refusal) /\ Len(q) \in Nat /\ Len(w) \in Nat
      /\ nextFrame \in Nat /\ staged \in FrameRecord
  BY <1>1, SlotTypes
<1>4. c \in Nat /\ d \in Nat /\ b \in Nat
  <2>1. list \in Seq(Pending) /\ f.deferrals[s] \in Seq(Deferral) /\ f.refusals[s] \in Seq(Refusal)
    BY <1>3 DEF FrameRecord, Content
  <2> HIDE DEF list, f
  <2> QED BY <2>1, LenProperties
<1>5. Covers(f, s, q, w)
  BY <1>2 DEF AuditInv, SlotInv, InFlight
<1>6. /\ c + d <= Len(q) /\ b <= Len(w)
      /\ \A k \in 1 .. c : list[k] = q[k]
  BY <1>5 DEF Covers
<1>7. /\ Len(r) = Len(q) - c
      /\ \A k \in 1 .. Len(q) - c : r[k].size = q[c + k].size
  <2> HIDE DEF q, c, d, r
  <2>1. \A k \in 1 .. Len(q) - c : Released(q, c, d)[k].size = q[c + k].size
    BY <1>3, <1>4, <1>6, ReleasedIs
  <2>2. Len(Released(q, c, d)) = Len(q) - c
    BY <1>3, <1>4, <1>6, ReleasedIs
  <2> QED BY <1>2, <2>1, <2>2
<1>8. /\ Len(v) = Len(w) - b
      /\ \A k \in 1 .. Len(w) - b : v[k] = w[b + k]
  <2> HIDE DEF w, b, v
  <2>1. b + 1 \in 1 .. Len(w) + 1 /\ Len(w) \in 0 .. Len(w)
    BY <1>3, <1>4, <1>6
  <2> QED BY <1>2, <1>3, <1>4, <1>6, <2>1, SubSeqProperties
<1> HIDE DEF q, w, f, list, c, d, b, r, v
<1>9. Sized(list) /\ Sized(r)
  <2>1. /\ \A k \in 1 .. c : k \in 1 .. Len(q)
        /\ \A k \in 1 .. Len(q) - c : c + k \in 1 .. Len(q)
        /\ Len(q) - c \in Nat
    BY <1>3, <1>4, <1>6
  <2>2. Sized(list)
    BY <1>1, <1>4, <1>6, <2>1 DEF Sized, c
  <2>3. Sized(r)
    BY <1>1, <1>7, <2>1 DEF Sized
  <2> QED BY <2>2, <2>3
<1>10. BytesOf(q) = BytesOf(list) + BytesOf(r) /\ BytesOf(list) \in Nat /\ BytesOf(r) \in Nat
  <2>1. /\ Len(q) = Len(list) + Len(r)
        /\ \A k \in 1 .. Len(list) : list[k].size = q[k].size
        /\ \A k \in 1 .. Len(r) : r[k].size = q[Len(list) + k].size
    BY <1>3, <1>4, <1>6, <1>7 DEF c
  <2>2. BytesOf(q) = BytesOf(list) + BytesOf(r)
    BY <1>1, <1>9, <2>1, BytesOfCut
  <2>3. Len(list) \in 0 .. Len(list) /\ Len(r) \in 0 .. Len(r)
    BY <1>9 DEF Sized
  <2> QED BY <1>9, <2>2, <2>3, RunningType DEF BytesOf
<1>11. bytes'[s] = BytesOf(r) /\ bytes'[s] <= MaxPendingBytes
  BY <1>1, <1>2, <1>10, BundleAssumption DEF Weighed, q
<1>12. /\ Len(r) <= MaxPendingOrders
       /\ \A k \in 1 .. Len(r) : r[k].size \in 1 .. MaxOrderBytes
       /\ s \notin SlotMask => Len(r) = 0
  <2>1. \A k \in 1 .. Len(r) : c + k \in 1 .. Len(q) /\ r[k].size = q[c + k].size
    BY <1>3, <1>4, <1>7
  <2>2. /\ Len(q) <= MaxPendingOrders
        /\ \A k \in 1 .. Len(q) : q[k].size \in 1 .. MaxOrderBytes
        /\ s \notin SlotMask => Len(q) = 0
    BY <1>1 DEF Within, q
  <2>3. Len(q) = 0 => Len(r) = 0
    BY <1>3, <1>4, <1>6, <1>7
  <2>4. Len(r) <= MaxPendingOrders
    BY <1>3, <1>4, <1>6, <1>7, <2>2, BundleAssumption
  <2>5. \A k \in 1 .. Len(r) : r[k].size \in 1 .. MaxOrderBytes
    BY <2>1, <2>2
  <2> QED BY <2>2, <2>3, <2>4, <2>5
<1>13. /\ Len(v) <= MaxPendingOrders
       /\ \A k \in 1 .. Len(v) : Refused(v[k].size)
       /\ s \notin SlotMask => Len(v) = 0
  <2>1. \A k \in 1 .. Len(v) : b + k \in 1 .. Len(w) /\ v[k] = w[b + k]
    BY <1>3, <1>4, <1>8
  <2>2. /\ Len(w) <= MaxPendingOrders
        /\ \A k \in 1 .. Len(w) : Refused(w[k].size)
        /\ s \notin SlotMask => Len(w) = 0
    BY <1>1 DEF Within, w
  <2>3. Len(w) = 0 => Len(v) = 0
    BY <1>3, <1>4, <1>6, <1>8
  <2>4. Len(v) <= MaxPendingOrders
    BY <1>3, <1>4, <1>6, <1>8, <2>2, BundleAssumption
  <2>5. \A k \in 1 .. Len(v) : Refused(v[k].size)
    BY <2>1, <2>2
  <2> QED BY <2>2, <2>3, <2>4, <2>5
<1>14. Within(s)'
  BY <1>12, <1>13 DEF Within, r, v
<1>15. Weighed(s)' /\ bytes'[s] \in Nat
  BY <1>10, <1>11 DEF Weighed, r
<1> QED BY <1>14, <1>15

LEMMA QueueStep == AuditInv /\ QueueInv /\ [Next]_vars => QueueInv'
<1> SUFFICES ASSUME AuditInv, QueueInv, [Next]_vars PROVE QueueInv'
  OBVIOUS
<1>1. TypeOK
  BY DEF AuditInv, IInv
<1>2. ASSUME UNCHANGED <<orders, refusals, bytes>> PROVE \A s \in Slot : Within(s)' /\ Weighed(s)'
  BY <1>2, QueuesStay DEF QueueInv
<1>3. ASSUME UNCHANGED membership, bytes' \in [Slot -> Nat],
             \A s \in Slot : Within(s)' /\ Weighed(s)'
      PROVE  QueueInv'
  BY <1>3 DEF QueueInv
<1>4. ASSUME NEW s \in SlotMask, NEW id \in 1 .. MaxId[s], NEW size \in Sizes[policy],
             AdmitOrder(s, id, size)
      PROVE  QueueInv'
  <2>1. s \in Slot /\ id \in Nat /\ size \in Nat
    <3>1. Sizes[policy] \in SUBSET Nat
      BY <1>1, SchedulerAssumption DEF TypeOK
    <3> QED BY <3>1, BundleAssumption, SchedulerAssumption
  <2>2. UNCHANGED membership
    BY <1>4 DEF AdmitOrder
  <2>3. /\ orders \in [Slot -> Seq(Pending)] /\ refusals \in [Slot -> Seq(Refusal)]
        /\ bytes \in [Slot -> Nat]
    BY <1>1 DEF TypeOK, QueueInv
  <2>4. CASE Admission(s, id, Stamp(s), size) = "Accepted"
    <3> DEFINE e == [id |-> id, size |-> size, eligible |-> Stamp(s), stamp |-> Stamp(s)]
    <3>1. /\ orders' = [orders EXCEPT ![s] = Append(@, e)]
          /\ bytes' = [bytes EXCEPT ![s] = @ + size]
          /\ refusals' = refusals
      BY <1>4, <2>4 DEF AdmitOrder, BuilderAdmit
    <3>2. /\ ~Refused(size) /\ size <= MaxPendingBytes - bytes[s]
          /\ Len(orders[s]) < MaxPendingOrders
      <4>1. /\ ~Refused(size) /\ ~(size > MaxPendingBytes - bytes[s])
            /\ ~(Len(orders[s]) >= MaxPendingOrders)
        BY <2>4 DEF Admission
      <4>2. Len(orders[s]) \in Nat /\ bytes[s] \in Nat
        BY <1>1, <2>1, <2>3, SlotTypes
      <4> QED BY <2>1, <4>1, <4>2, BundleAssumption
    <3>3. size \in 1 .. MaxOrderBytes
      BY <2>1, <3>2, BundleAssumption DEF Refused
    <3>4. orders'[s] = Append(orders[s], e) /\ bytes'[s] = bytes[s] + size
      BY <2>1, <2>3, <3>1
    <3>5. e \in Pending
      <4>1. orders'[s] \in Seq(Pending)
        <5>1. TypeOK'
          BY StepInv DEF AuditInv, IInv
        <5> QED BY <2>1, <5>1 DEF TypeOK
      <4>2. Len(orders'[s]) = Len(orders[s]) + 1 /\ orders'[s][Len(orders[s]) + 1] = e
        BY <2>1, <2>3, <3>4
      <4>3. Len(orders[s]) + 1 \in 1 .. Len(orders'[s])
        BY <2>1, <2>3, <4>2
      <4> QED BY <4>1, <4>2, <4>3
    <3>6. Within(s)' /\ Weighed(s)'
      <4>1. e.size = size
        OBVIOUS
      <4> HIDE DEF e
      <4> QED BY <1>1, <3>1, <3>2, <3>3, <3>4, <3>5, <4>1, AcceptKeeps
    <3>7. ASSUME NEW t \in Slot, t # s PROVE Within(t)' /\ Weighed(t)'
      <4>1. orders'[t] = orders[t] /\ refusals'[t] = refusals[t] /\ bytes'[t] = bytes[t]
        BY <2>3, <3>1, <3>7
      <4> QED BY <4>1, QueuesStay DEF QueueInv
    <3>8. bytes' \in [Slot -> Nat]
      BY <2>1, <2>3, <3>1
    <3> QED BY <1>3, <2>2, <3>6, <3>7, <3>8
  <2>5. CASE Admission(s, id, Stamp(s), size) = "Malformed"
    <3> DEFINE e == [id |-> id, size |-> size]
    <3>1. refusals' = [refusals EXCEPT ![s] = Append(@, e)] /\ UNCHANGED <<orders, bytes>>
      BY <1>4, <2>5 DEF AdmitOrder, BuilderAdmit
    <3>2. Refused(size) /\ Len(refusals[s]) < MaxPendingOrders
      <4>1. Refused(size) /\ ~(Len(refusals[s]) >= MaxPendingOrders)
        BY <2>5 DEF Admission
      <4>2. Len(refusals[s]) \in Nat
        BY <1>1, <2>1, SlotTypes
      <4> QED BY <4>1, <4>2, BundleAssumption
    <3>3. refusals'[s] = Append(refusals[s], e)
      BY <2>1, <2>3, <3>1
    <3>4. e \in Refusal /\ e.size = size
      BY <2>1 DEF Refusal
    <3> HIDE DEF e
    <3>5. Within(s)' /\ Weighed(s)'
      BY <1>1, <3>1, <3>2, <3>3, <3>4, RefuseKeeps
    <3>6. ASSUME NEW t \in Slot, t # s PROVE Within(t)' /\ Weighed(t)'
      <4>1. orders'[t] = orders[t] /\ refusals'[t] = refusals[t] /\ bytes'[t] = bytes[t]
        BY <2>3, <3>1, <3>6
      <4> QED BY <4>1, QueuesStay DEF QueueInv
    <3> QED BY <1>3, <2>2, <2>3, <3>1, <3>5, <3>6
  <2> QED BY <1>4, <2>4, <2>5 DEF AdmitOrder, BuilderAdmit
<1>5. CASE Seal \/ AppendFails \/ Tick \/ UNCHANGED vars
  <2>1. UNCHANGED <<orders, refusals, bytes, membership>>
    BY <1>5 DEF Seal, BuilderPrepare, AppendFails, BuilderFail, Tick, vars, builderVars
  <2> QED BY <1>2, <1>3, <2>1 DEF QueueInv
<1>6. CASE AppendSucceeds
  <2>1. \A s \in Slot : bytes'[s] \in Nat /\ Within(s)' /\ Weighed(s)'
    BY <1>6, CommitKeeps
  <2>2. UNCHANGED membership /\ bytes' = [s \in Slot |-> ReleasedBytes(s, staged.content)]
    BY <1>6 DEF AppendSucceeds, BuilderCommitted
  <2>3. bytes' \in [Slot -> Nat]
    <3>1. bytes' = [s \in Slot |-> bytes'[s]]
      BY <2>2
    <3> QED BY <2>1, <3>1
  <2> QED BY <1>3, <2>1, <2>2, <2>3
<1>7. ASSUME NEW s \in SlotMask, NEW id, AdmitBeat(s, id) PROVE QueueInv'
  <2>1. UNCHANGED <<orders, refusals, bytes, membership>>
    BY <1>7 DEF AdmitBeat, builderVars
  <2> QED BY <1>2, <1>3, <2>1 DEF QueueInv
<1>8. CASE MembershipChanges
  <2>1. UNCHANGED <<orders, refusals, bytes>>
    BY <1>8 DEF MembershipChanges, builderVars
  <2>2. \E away \in SUBSET SlotMask : \E held \in SUBSET away :
            membership' = SnapshotOf(SlotMask \ away, held)
    BY <1>8, SchedulerAssumption DEF MembershipChanges
  <2> DEFINE m == membership'
  <2>3. /\ Valid(m) /\ m.slotMask = SlotMask /\ m.loaded = m.active
        /\ m.clockValid /\ ~m.paused
    <3> HIDE DEF m
    <3>1. \A away \in SUBSET SlotMask : \A held \in SUBSET away :
            m = SnapshotOf(SlotMask \ away, held) =>
                /\ Valid(m) /\ m.slotMask = SlotMask /\ m.loaded = m.active
                /\ m.clockValid /\ ~m.paused
      BY SnapshotIsValid, Zenon
    <3> QED BY <2>2, <3>1, Zenon DEF m
  <2>4. /\ Valid(membership)' /\ membership'.slotMask = SlotMask
        /\ membership'.loaded = membership'.active
        /\ membership'.clockValid /\ ~membership'.paused
    BY <2>3 DEF Valid
  <2> QED BY <1>2, <2>1, <2>4 DEF QueueInv
<1> QED BY <1>4, <1>5, <1>6, <1>7, <1>8 DEF Next, Client, Relay

LEMMA QueueInductive == Spec => [](AuditInv /\ QueueInv)
<1>1. AuditInv /\ QueueInv /\ [Next]_vars => (AuditInv /\ QueueInv)'
  BY AuditStep, QueueStep
<1> QED BY <1>1, AuditInit, QueueInit, PTL DEF Spec

\* The byte account a slot's backpressure reads is what its queue holds and
\* never more than the limit, whatever was admitted, deferred and committed
\* (Slot::bytes of admit and committed).
THEOREM BytesAreAccounted == Spec => []ByteAccounting
<1>1. QueueInv => ByteAccounting
  BY DEF QueueInv, Weighed, ByteAccounting
<1> QED BY <1>1, QueueInductive, PTL

-----------------------------------------------------------------------------
\* The frame a queue contributes to.

\* What prepare takes of a queue, e its eligible orders and c those it takes ...
Counted(q, e, c) ==
    /\ e \in 0 .. Len(q) /\ c \in 0 .. e
    /\ e > 0 => c > 0
    /\ e > 0 /\ ~Ordinary(q[1]) => c = 1
    /\ e = 0 \/ Ordinary(q[1]) =>
        /\ \A k \in 1 .. c : Ordinary(q[k])
        /\ RunningBytes(q)[c] <= PlayerFrameBytes
        /\ c < e => RunningBytes(q)[c] + q[c + 1].size > PlayerFrameBytes

Takes(ran, q, c) == Len(ran) = c /\ \A k \in 1 .. c : ran[k] = q[k]

\* ... and what it defers.
Defers(late, q, e, c, frame) ==
    /\ Len(late) = e - c
    /\ late = [k \in 1 .. e - c |-> late[k]]
    /\ \A k \in 1 .. e - c :
        /\ late[k].id = q[c + k].id /\ late[k].size = q[c + k].size
        /\ late[k].from = frame /\ late[k].to = frame + 1
        /\ late[k].alone \in BOOLEAN /\ (late[k].alone <=> ~Ordinary(q[1]))

\* A frame takes an oversized order alone, or the orders the budget holds; the
\* first it leaves behind does not fit beside them.
LEMMA ConsumedFirst ==
    ASSUME NEW q \in Seq(Pending), NEW frame \in Int, Sized(q),
           NEW e, NEW c, e = EligibleCount(q, frame), c = ConsumedCount(q, frame)
    PROVE  Counted(q, e, c)
<1>1. /\ Len(q) \in Nat /\ e \in 0 .. Len(q) /\ c \in 0 .. e
      /\ PlayerFrameBytes \in Nat
  BY CountBounds, BundleAssumption
<1>2. CASE e > 0 /\ ~Ordinary(q[1])
  <2>1. c = 1
    BY <1>2 DEF ConsumedCount
  <2> QED BY <1>1, <1>2, <2>1 DEF Counted
<1>3. CASE ~(e > 0 /\ ~Ordinary(q[1]))
  <2> DEFINE T == {n \in 1 .. e : /\ \A k \in 1 .. n : Ordinary(q[k])
                                  /\ RunningBytes(q)[n] <= PlayerFrameBytes}
  <2>1. c = Cardinality(T)
    BY <1>3, Zenon DEF ConsumedCount
  <2>2. \A n \in 1 .. Len(q) :
            /\ RunningBytes(q)[n] = RunningBytes(q)[n - 1] + q[n].size
            /\ RunningBytes(q)[n] \in Nat /\ RunningBytes(q)[n - 1] \in Nat /\ q[n].size \in Nat
    BY <1>1, RunningSteps, RunningType DEF Sized
  <2>3. \A n \in T : 1 .. n \subseteq T
    <3> SUFFICES ASSUME NEW n \in T, NEW k \in 1 .. n PROVE k \in T
      OBVIOUS
    <3>1. n \in 1 .. Len(q) /\ k \in 1 .. e /\ 1 .. k \subseteq 1 .. n
      BY <1>1
    <3>2. RunningBytes(q)[k] <= RunningBytes(q)[n]
      <4> DEFINE B == {j \in Nat : k + j <= Len(q) => RunningBytes(q)[k] <= RunningBytes(q)[k + j]}
      <4>1. 0 \in B
        BY <1>1, <2>2, <3>1
      <4>2. ASSUME NEW j \in Nat, j \in B PROVE j + 1 \in B
        <5> SUFFICES ASSUME k + (j + 1) <= Len(q)
                     PROVE  RunningBytes(q)[k] <= RunningBytes(q)[k + (j + 1)]
          OBVIOUS
        <5>1. /\ k + (j + 1) \in 1 .. Len(q) /\ (k + (j + 1)) - 1 = k + j
              /\ k \in 1 .. Len(q) /\ k + j <= Len(q)
          BY <1>1, <3>1
        <5>2. RunningBytes(q)[k] <= RunningBytes(q)[k + j]
          BY <4>2, <5>1
        <5>3. /\ RunningBytes(q)[k + (j + 1)] = RunningBytes(q)[k + j] + q[k + (j + 1)].size
              /\ RunningBytes(q)[k + j] \in Nat /\ q[k + (j + 1)].size \in Nat
              /\ RunningBytes(q)[k] \in Nat
          BY <2>2, <5>1
        <5> QED BY <5>2, <5>3
      <4> HIDE DEF B
      <4>3. Nat \subseteq B
        BY <4>1, <4>2, SetInduction
      <4>4. n - k \in B /\ k + (n - k) = n
        BY <3>1, <4>3
      <4> QED BY <3>1, <4>4 DEF B
    <3>3. RunningBytes(q)[n] <= PlayerFrameBytes /\ \A j \in 1 .. n : Ordinary(q[j])
      OBVIOUS
    <3>4. RunningBytes(q)[k] <= PlayerFrameBytes
      <4>1. k \in 1 .. Len(q) /\ RunningBytes(q)[k] \in Nat /\ RunningBytes(q)[n] \in Nat
        BY <1>1, <2>2, <3>1
      <4> QED BY <1>1, <3>2, <3>3, <4>1
    <3> QED BY <3>1, <3>3, <3>4
  <2>4. T = 1 .. c
    <3>1. T \in SUBSET (1 .. e) /\ e \in Nat
      BY <1>1
    <3> HIDE DEF T
    <3> QED BY <2>1, <2>3, <3>1, Leading
  <2>5. c > 0 => c \in T
    BY <1>1, <2>4
  <2>6. /\ \A k \in 1 .. c : Ordinary(q[k])
        /\ RunningBytes(q)[c] <= PlayerFrameBytes
    <3>1. CASE c = 0
      <4>1. RunningBytes(q)[0] = 0
        BY <1>1, RunningSteps
      <4> QED BY <1>1, <3>1, <4>1
    <3>2. CASE c > 0
      BY <1>1, <2>5, <3>2
    <3> QED BY <1>1, <3>1, <3>2
  <2>7. ASSUME c < e PROVE RunningBytes(q)[c] + q[c + 1].size > PlayerFrameBytes
    <3>1. c + 1 \in 1 .. e /\ c + 1 \notin T /\ c + 1 \in 1 .. Len(q) /\ (c + 1) - 1 = c
      BY <1>1, <2>4, <2>7
    <3>2. /\ RunningBytes(q)[c + 1] = RunningBytes(q)[c] + q[c + 1].size
          /\ RunningBytes(q)[c] \in Nat /\ q[c + 1].size \in Nat
      BY <2>2, <3>1
    <3>3. CASE ~Ordinary(q[c + 1])
      BY <1>1, <3>2, <3>3 DEF Ordinary
    <3>4. CASE Ordinary(q[c + 1])
      <4>1. \A k \in 1 .. c + 1 : Ordinary(q[k])
        <5>1. \A k \in 1 .. c + 1 : k \in 1 .. c \/ k = c + 1
          BY <1>1
        <5> QED BY <2>6, <3>4, <5>1
      <4>2. ~(RunningBytes(q)[c + 1] <= PlayerFrameBytes)
        BY <3>1, <4>1
      <4> QED BY <1>1, <3>2, <4>2
    <3> QED BY <3>3, <3>4
  <2>8. ASSUME e > 0 PROVE c > 0
    <3>1. Ordinary(q[1]) /\ 1 \in 1 .. e /\ 1 \in 1 .. Len(q)
      BY <1>1, <1>3, <2>8
    <3>2. RunningBytes(q)[1] = q[1].size
      <4>1. RunningBytes(q)[1] = RunningBytes(q)[1 - 1] + q[1].size /\ q[1].size \in Nat
        BY <2>2, <3>1
      <4>2. RunningBytes(q)[0] = 0 /\ 1 - 1 = 0
        BY <1>1, RunningSteps
      <4> QED BY <4>1, <4>2
    <3>3. \A k \in 1 .. 1 : Ordinary(q[k])
      BY <3>1
    <3>4. 1 \in T
      BY <3>1, <3>2, <3>3 DEF Ordinary
    <3> QED BY <1>1, <2>4, <3>4
  <2> QED BY <1>1, <1>3, <2>6, <2>7, <2>8 DEF Counted
<1> QED BY <1>2, <1>3

LEMMA TakenIs ==
    ASSUME NEW q \in Seq(Pending), NEW c \in Nat, c <= Len(q)
    PROVE  Takes(SubSeq(q, 1, c), q, c)
BY DEF Takes

LEMMA DeferredIs ==
    ASSUME NEW q \in Seq(Pending), NEW frame \in Int,
           NEW e, NEW c, e = EligibleCount(q, frame), c = ConsumedCount(q, frame)
    PROVE  Defers(DeferralsOf(q, frame), q, e, c, frame)
<1> DEFINE late == DeferralsOf(q, frame)
<1>1. late = [k \in 1 .. e - c |->
                [id |-> q[c + k].id, size |-> q[c + k].size, from |-> frame,
                 to |-> frame + 1, alone |-> ~Ordinary(q[1])]]
  BY Zenon DEF DeferralsOf
<1>2. Len(q) \in Nat /\ e - c \in Nat
  <2>1. EligibleCount(q, frame) \in 0 .. Len(q) /\ ConsumedCount(q, frame) \in 0 .. EligibleCount(q, frame)
    BY CountBounds
  <2>2. e \in 0 .. Len(q) /\ c \in 0 .. e /\ Len(q) \in Nat
    BY ONLY <2>1, e = EligibleCount(q, frame), c = ConsumedCount(q, frame), q \in Seq(Pending)
  <2> QED BY <2>2
<1>3. DOMAIN late = 1 .. e - c
  BY <1>1
<1>4. ASSUME NEW k \in 1 .. e - c
      PROVE  /\ late[k].id = q[c + k].id /\ late[k].size = q[c + k].size
             /\ late[k].from = frame /\ late[k].to = frame + 1
  BY <1>1
<1>5. ASSUME NEW k \in 1 .. e - c
      PROVE  (late[k].alone <=> ~Ordinary(q[1])) /\ late[k].alone \in BOOLEAN
  <2> DEFINE b == ~Ordinary(q[1])
  <2>1. late = [l \in 1 .. e - c |->
                  [id |-> q[c + l].id, size |-> q[c + l].size, from |-> frame,
                   to |-> frame + 1, alone |-> b]]
    BY <1>1
  <2>2. b \in BOOLEAN
    BY Zenon
  <2> HIDE DEF b, late
  <2>3. late[k].alone = b
    BY <2>1
  <2>4. late[k].alone \in BOOLEAN /\ (late[k].alone <=> b)
    BY <2>2, <2>3, Zenon
  <2> QED BY <2>4 DEF b
<1>8. late = [k \in 1 .. e - c |-> late[k]]
  BY <1>1
<1> HIDE DEF late
<1>6. late \in Seq({late[k] : k \in 1 .. e - c})
  <2>2. late \in [1 .. e - c -> {late[k] : k \in 1 .. e - c}]
    BY <1>8
  <2> QED BY <1>2, <2>2, SeqDef
<1>7. Len(late) = e - c
  BY <1>2, <1>3, <1>6, LenProperties
<1> QED BY <1>4, <1>5, <1>7, <1>8 DEF Defers, late

\* validate() for one slot's lists.
ListOf(ran) ==
    /\ StrictlyOrdered(ran)
    /\ \A i \in 1 .. Len(ran) : ran[i].id > 0 /\ ran[i].size \in 1 .. MaxOrderBytes
    /\ Oversized(ran) => Len(ran) = 1
    /\ ~Oversized(ran) => BytesOf(ran) <= PlayerFrameBytes

Behind(ran, late) ==
    /\ StrictlyOrdered(late)
    /\ \A i \in 1 .. Len(late) :
        /\ late[i].id > 0 /\ late[i].size \in 1 .. MaxOrderBytes
        /\ ran # <<>> => late[i].id > ran[Len(ran)].id
        /\ late[i].from # MaxFrame /\ late[i].to = late[i].from + 1
        /\ late[i].alone = Oversized(ran)
    /\ late # <<>> /\ ~late[1].alone =>
        /\ ran # <<>>
        /\ late[1].size > PlayerFrameBytes - BytesOf(ran)

SlotFrame(ran, late, q, frame) ==
    /\ ListOf(ran) /\ Behind(ran, late)
    /\ Ids(ran) \subseteq Ids(q) /\ Ids(late) \subseteq Ids(q)
    /\ Len(ran) \in 0 .. Len(q) /\ Len(late) \in 0 .. Len(q)
    /\ late # <<>> => ran # <<>>
    /\ \A i \in 1 .. Len(late) : late[i].from = frame

LEMMA QueueFrame ==
    ASSUME NEW q \in Seq(Pending), StrictlyOrdered(q), NEW frame \in Nat, frame # MaxFrame,
           \A k \in 1 .. Len(q) : q[k].id > 0 /\ q[k].size \in 1 .. MaxOrderBytes,
           NEW e, NEW c, Counted(q, e, c), NEW ran, Takes(ran, q, c),
           NEW late, Defers(late, q, e, c, frame)
    PROVE  SlotFrame(ran, late, q, frame)
<1>1. e \in 0 .. Len(q) /\ c \in 0 .. e /\ Len(q) \in Nat
  BY DEF Counted
<1>2. \A k \in 1 .. Len(q) : q[k] \in Pending /\ q[k].id \in Nat /\ q[k].size \in Nat
  <2>1. \A k \in 1 .. Len(q) : q[k] \in Pending
    OBVIOUS
  <2> QED BY <2>1 DEF Pending
<1>3. Sized(q) /\ PlayerFrameBytes \in Nat /\ MaxOrderBytes \in Nat
  BY <1>1, <1>2, BundleAssumption DEF Sized
<1>4. /\ e > 0 => c > 0
      /\ e > 0 /\ ~Ordinary(q[1]) => c = 1
      /\ e = 0 \/ Ordinary(q[1]) =>
            /\ \A k \in 1 .. c : Ordinary(q[k])
            /\ RunningBytes(q)[c] <= PlayerFrameBytes
            /\ c < e => RunningBytes(q)[c] + q[c + 1].size > PlayerFrameBytes
  BY DEF Counted
<1>5. Len(ran) = c /\ \A k \in 1 .. c : ran[k] = q[k]
  BY DEF Takes
<1>6. /\ Len(late) = e - c
      /\ \A k \in 1 .. e - c :
            /\ late[k].id = q[c + k].id /\ late[k].size = q[c + k].size
            /\ late[k].from = frame /\ late[k].to = frame + 1
            /\ late[k].alone \in BOOLEAN /\ (late[k].alone <=> ~Ordinary(q[1]))
  BY Zenon DEF Defers
<1>7. \A k \in 1 .. e - c : c + k \in 1 .. Len(q)
  BY <1>1
<1>8. BytesOf(ran) = RunningBytes(q)[c] /\ RunningBytes(q)[c] \in Nat
  <2>1. Sized(ran)
    BY <1>1, <1>2, <1>5 DEF Sized
  <2>2. PartOf(ran, c, q, 0)
    BY <1>1, <1>5 DEF PartOf
  <2>3. \A m \in 0 .. c : RunningBytes(q)[0 + m] = RunningBytes(q)[0] + RunningBytes(ran)[m]
    BY <1>1, <1>3, <2>1, <2>2, RunningAlong
  <2>4. /\ RunningBytes(q)[0] = 0 /\ RunningBytes(ran)[c] \in Nat
        /\ RunningBytes(q)[c] \in Nat /\ c \in 0 .. c /\ 0 + c = c
    BY <1>1, <1>3, <1>5, <2>1, RunningSteps, RunningType
  <2>5. RunningBytes(q)[c] = RunningBytes(ran)[c]
    BY <2>3, <2>4
  <2> QED BY <1>5, <2>4, <2>5 DEF BytesOf
\* The frame's orders are oversized exactly if the queue begins with one.
<1>9. c > 0 => (Oversized(ran) <=> ~Ordinary(q[1]))
  <2>1. CASE c > 0 /\ Ordinary(q[1])
    BY <1>4, <1>5, <2>1, Zenon DEF Oversized
  <2>2. CASE c > 0 /\ ~Ordinary(q[1])
    <3>1. 1 \in 1 .. Len(ran) /\ ran[1] = q[1]
      BY <1>1, <1>5, <2>2
    <3> QED BY <2>2, <3>1, Zenon DEF Oversized
  <2> QED BY <2>1, <2>2
<1>10. ListOf(ran)
  <2>1. StrictlyOrdered(ran)
    BY <1>1, <1>5 DEF StrictlyOrdered
  <2>2. \A i \in 1 .. Len(ran) : ran[i].id > 0 /\ ran[i].size \in 1 .. MaxOrderBytes
    BY <1>1, <1>5
  <2>3. ASSUME Oversized(ran) PROVE Len(ran) = 1
    <3>1. PICK i \in 1 .. Len(ran) : ~Ordinary(ran[i])
      BY <2>3, Zenon DEF Oversized
    <3>2. c > 0 /\ e > 0
      BY <1>1, <1>5
    <3> QED BY <1>4, <1>5, <1>9, <2>3, <3>2
  <2>4. ASSUME ~Oversized(ran) PROVE BytesOf(ran) <= PlayerFrameBytes
    <3>1. e = 0 \/ Ordinary(q[1])
      BY <1>1, <1>4, <1>9, <2>4
    <3> QED BY <1>4, <1>8, <3>1
  <2> QED BY <2>1, <2>2, <2>3, <2>4 DEF ListOf
<1>11. late # <<>> => e - c > 0 /\ c > 0 /\ ran # <<>>
  <2> SUFFICES ASSUME late # <<>> PROVE e - c > 0 /\ c > 0 /\ ran # <<>>
    OBVIOUS
  <2>1. e - c > 0
    <3>1. late = [k \in 1 .. e - c |-> late[k]]
      BY DEF Defers
    <3>2. ASSUME e - c = 0 PROVE FALSE
      <4>1. late \in Seq({}) /\ Len(late) = 0
        <5>1. late \in [1 .. 0 -> {}] /\ 0 \in Nat
          BY <3>1, <3>2
        <5> QED BY <1>6, <3>2, <5>1, SeqDef
      <4> QED BY <4>1, EmptySeq
    <3> QED BY <1>1, <3>2
  <2> QED BY <1>1, <1>4, <1>5, <2>1
<1>12. \A i \in 1 .. Len(late) : late[i].alone = Oversized(ran) /\ late[i].alone \in BOOLEAN
  <2> SUFFICES ASSUME NEW i \in 1 .. Len(late)
               PROVE  late[i].alone = Oversized(ran) /\ late[i].alone \in BOOLEAN
    OBVIOUS
  <2>1. late[i].alone \in BOOLEAN /\ (late[i].alone <=> ~Ordinary(q[1]))
    BY <1>6, Zenon
  <2>2. Oversized(ran) \in BOOLEAN
    BY Zenon DEF Oversized
  <2>3. Oversized(ran) <=> ~Ordinary(q[1])
    BY <1>1, <1>4, <1>6, <1>9
  <2> QED BY <2>1, <2>2, <2>3, Zenon
<1>13. Behind(ran, late)
  <2>1. StrictlyOrdered(late)
    BY <1>1, <1>6, <1>7 DEF StrictlyOrdered
  <2>2. ASSUME NEW i \in 1 .. Len(late)
        PROVE  /\ late[i].id > 0 /\ late[i].size \in 1 .. MaxOrderBytes
               /\ ran # <<>> => late[i].id > ran[Len(ran)].id
               /\ late[i].from # MaxFrame /\ late[i].to = late[i].from + 1
    <3>1. /\ i \in 1 .. e - c /\ c + i \in 1 .. Len(q)
          /\ late[i].id = q[c + i].id /\ late[i].size = q[c + i].size
          /\ late[i].from = frame /\ late[i].to = frame + 1
      BY <1>6, <1>7
    <3>2. c > 0 /\ c \in 1 .. Len(q) /\ ran[Len(ran)] = q[c] /\ c < c + i
      BY <1>1, <1>4, <1>5, <3>1
    <3>3. q[c].id < q[c + i].id /\ q[c].id \in Nat /\ q[c + i].id \in Nat
      BY <1>2, <3>1, <3>2 DEF StrictlyOrdered
    <3> QED BY <3>1, <3>2, <3>3
  <2>3. ASSUME late # <<>>, ~late[1].alone
        PROVE  ran # <<>> /\ late[1].size > PlayerFrameBytes - BytesOf(ran)
    <3>1. c > 0 /\ c < e /\ 1 \in 1 .. e - c /\ 1 \in 1 .. Len(late)
      BY <1>1, <1>6, <1>11, <2>3
    <3>2. Ordinary(q[1])
      BY <1>6, <2>3, <3>1, Zenon
    <3>3. RunningBytes(q)[c] + q[c + 1].size > PlayerFrameBytes /\ q[c + 1].size \in Nat
      BY <1>2, <1>4, <1>7, <3>1, <3>2
    <3>4. late[1].size = q[c + 1].size
      BY <1>6, <3>1
    <3> QED BY <1>3, <1>8, <1>11, <2>3, <3>3, <3>4
  <2> QED BY <1>12, <2>1, <2>2, <2>3, Zenon DEF Behind
<1>14. Ids(ran) \subseteq Ids(q) /\ Ids(late) \subseteq Ids(q)
  <2>1. \A k \in 1 .. Len(ran) : k \in 1 .. Len(q) /\ ran[k].id = q[k].id
    BY <1>1, <1>5
  <2>2. \A k \in 1 .. Len(late) : c + k \in 1 .. Len(q) /\ late[k].id = q[c + k].id
    BY <1>6, <1>7
  <2>3. Ids(ran) \subseteq Ids(q)
    BY ONLY <2>1, Zenon DEF Ids
  <2>4. Ids(late) \subseteq Ids(q)
    BY ONLY <2>2, Zenon DEF Ids
  <2> QED BY <2>3, <2>4
<1>15. /\ Len(ran) \in 0 .. Len(q) /\ Len(late) \in 0 .. Len(q)
       /\ \A i \in 1 .. Len(late) : late[i].from = frame
  BY <1>1, <1>5, <1>6
<1> QED BY <1>10, <1>11, <1>13, <1>14, <1>15 DEF SlotFrame

LEMMA EmptyFrame ==
    ASSUME NEW q, Len(q) \in Nat, NEW frame
    PROVE  SlotFrame(<<>>, <<>>, q, frame)
<1> DEFINE ran == <<>>
<1>1. Len(ran) = 0
  OBVIOUS
<1>2. Sized(ran) /\ ~Oversized(ran) /\ StrictlyOrdered(ran)
  BY <1>1 DEF Sized, Oversized, StrictlyOrdered
<1>3. BytesOf(ran) = 0
  BY <1>1, <1>2, RunningSteps DEF BytesOf
<1>4. ListOf(ran) /\ Behind(ran, ran) /\ Ids(ran) = {}
  BY <1>1, <1>2, <1>3, BundleAssumption DEF ListOf, Behind, Ids
<1>5. SlotFrame(ran, ran, q, frame)
  BY <1>1, <1>4 DEF SlotFrame
<1> QED BY <1>5

\* What prepare gathers of a slot.
LEMMA GatheredFrame ==
    ASSUME AuditInv, QueueInv, nextFrame # MaxFrame, NEW s \in Slot,
           NEW c, c = ContentOf(membership)
    PROVE  /\ SlotFrame(c.orders[s], c.deferrals[s], orders[s], nextFrame)
           /\ s \notin membership.active => c.orders[s] = <<>> /\ c.deferrals[s] = <<>>
           /\ c.refusals[s] = refusals[s]
<1>1. TypeOK /\ Within(s) /\ AccountOf(s) /\ RunsOf(s)
  BY DEF AuditInv, IInv, SlotInv, QueueInv
<1>2. /\ orders[s] \in Seq(Pending) /\ Len(orders[s]) \in Nat /\ nextFrame \in Nat
      /\ nextId[s] \in Nat
  BY <1>1, SlotTypes
<1>3. StrictlyOrdered(orders[s])
  BY <1>1 DEF RunsOf, InTurn
<1>4. \A k \in 1 .. Len(orders[s]) : orders[s][k].id > 0 /\ orders[s][k].size \in 1 .. MaxOrderBytes
  <2>1. Ids(orders[s]) \subseteq 1 .. nextId[s] - 1
    BY <1>1 DEF AccountOf, AllIds
  <2>2. \A k \in 1 .. Len(orders[s]) : orders[s][k].id \in 1 .. nextId[s] - 1
    BY <2>1 DEF Ids
  <2> QED BY <1>1, <1>2, <2>2 DEF Within
<1>5. CASE s \in membership.active
  <2> DEFINE e == EligibleCount(orders[s], nextFrame)
             d == ConsumedCount(orders[s], nextFrame)
  <2>1. /\ c.orders[s] = SubSeq(orders[s], 1, d)
        /\ c.deferrals[s] = DeferralsOf(orders[s], nextFrame)
        /\ c.refusals[s] = refusals[s]
    BY <1>5 DEF ContentOf
  <2>2. e = EligibleCount(orders[s], nextFrame) /\ d = ConsumedCount(orders[s], nextFrame)
    OBVIOUS
  <2> HIDE DEF e, d
  <2>3. Sized(orders[s]) /\ nextFrame \in Int
    BY <1>1, <1>2, OrdersSized
  <2>4. Counted(orders[s], e, d)
    BY <1>2, <2>2, <2>3, ConsumedFirst
  <2>5. Takes(c.orders[s], orders[s], d)
    <3>1. d \in Nat /\ d <= Len(orders[s])
      BY <1>2, <2>4 DEF Counted
    <3> QED BY <1>2, <2>1, <3>1, TakenIs
  <2>6. Defers(c.deferrals[s], orders[s], e, d, nextFrame)
    BY <1>2, <2>1, <2>2, <2>3, DeferredIs
  <2> HIDE DEF Counted, Takes, Defers
  <2>7. SlotFrame(c.orders[s], c.deferrals[s], orders[s], nextFrame)
    BY <1>2, <1>3, <1>4, <2>4, <2>5, <2>6, QueueFrame
  <2> QED BY <1>5, <2>1, <2>7
<1>6. CASE s \notin membership.active
  <2>1. c.orders[s] = <<>> /\ c.deferrals[s] = <<>> /\ c.refusals[s] = refusals[s]
    BY <1>6 DEF ContentOf
  <2> QED BY <1>2, <2>1, EmptyFrame
<1> QED BY <1>5, <1>6

LEMMA EntryCountBound ==
    ASSUME NEW lists, \A s \in Slot : Len(lists[s]) \in 0 .. MaxPendingOrders
    PROVE  EntryCount(lists) <= MaxEntries
<1> DEFINE w == [s \in Slot |-> Len(lists[s])]
<1>1. EntryCount(lists) = Total(w, Slot)
  BY DEF EntryCount, MapThenSumSet, MapThenFoldSet, Total
<1>2. IsFiniteSet(Slot) /\ MaxPendingOrders \in Nat /\ \A s \in Slot : w[s] \in 0 .. MaxPendingOrders
  BY BundleAssumption
<1> HIDE DEF w
<1>3. Total(w, Slot) \in 0 .. Cardinality(Slot) * MaxPendingOrders
  BY <1>2, TotalType
<1>4. Cardinality(Slot) * MaxPendingOrders \in Int
  BY <1>2, FS_CardinalityType
<1> QED BY <1>1, <1>3, <1>4 DEF MaxEntries

\* Whatever is queued, the frame the builder gathers passes the validation it
\* and every client make, so no backlog stops the game; and a slot whose order
\* is deferred has one in the same frame (prepare, validate).
THEOREM FramesAreValid == Spec => []FrameAlwaysValid
<1>1. AuditInv /\ QueueInv => FrameAlwaysValid
  <2> SUFFICES ASSUME AuditInv, QueueInv, nextFrame # MaxFrame, NEW c, c = ContentOf(membership)
               PROVE  /\ ValidContent(c, nextFrame, membership)
                      /\ \A s \in Slot : c.deferrals[s] # <<>> => c.orders[s] # <<>>
    BY DEF FrameAlwaysValid
  <2>1. \A s \in Slot : /\ SlotFrame(c.orders[s], c.deferrals[s], orders[s], nextFrame)
                        /\ s \notin membership.active => c.orders[s] = <<>> /\ c.deferrals[s] = <<>>
                        /\ c.refusals[s] = refusals[s]
    BY GatheredFrame
  <2>2. \A s \in Slot : /\ Within(s) /\ AccountOf(s)
                        /\ Len(orders[s]) \in 0 .. MaxPendingOrders
                        /\ Len(refusals[s]) \in 0 .. MaxPendingOrders
    <3>1. TypeOK
      BY DEF AuditInv, IInv
    <3>2. \A s \in Slot : Len(orders[s]) \in Nat /\ Len(refusals[s]) \in Nat
      BY <3>1, SlotTypes
    <3>3. \A s \in Slot : Within(s) /\ AccountOf(s)
      BY DEF AuditInv, SlotInv, QueueInv
    <3>4. \A s \in Slot : Len(orders[s]) <= MaxPendingOrders /\ Len(refusals[s]) <= MaxPendingOrders
      BY <3>3 DEF Within
    <3> QED BY <3>2, <3>3, <3>4, BundleAssumption
  <2>3. /\ EntryCount(c.orders) <= MaxEntries
        /\ EntryCount(c.deferrals) <= MaxEntries
        /\ EntryCount(c.refusals) <= MaxEntries
    <3>1. \A s \in Slot : Len(c.orders[s]) \in 0 .. MaxPendingOrders
      BY <2>1, <2>2, BundleAssumption DEF SlotFrame
    <3>2. \A s \in Slot : Len(c.deferrals[s]) \in 0 .. MaxPendingOrders
      BY <2>1, <2>2, BundleAssumption DEF SlotFrame
    <3>3. \A s \in Slot : Len(c.refusals[s]) \in 0 .. MaxPendingOrders
      BY <2>1, <2>2
    <3> QED BY <3>1, <3>2, <3>3, EntryCountBound
  <2>4. ValidOrders(c)
    <3>1. \A s \in Slot : ListOf(c.orders[s])
      BY <2>1 DEF SlotFrame
    <3> QED BY <3>1, Zenon DEF ValidOrders, ListOf
  <2>5. ValidDeferrals(c)
    <3>1. \A s \in Slot : Behind(c.orders[s], c.deferrals[s])
      BY <2>1 DEF SlotFrame
    <3> QED BY <3>1, Zenon DEF ValidDeferrals, Behind
  <2>6. ValidRefusals(c)
    <3> SUFFICES ASSUME NEW s \in Slot
                 PROVE  LET list == c.refusals[s] IN
                        /\ StrictlyOrdered(list)
                        /\ Ids(list) \intersect (Ids(c.orders[s]) \union Ids(c.deferrals[s])) = {}
                        /\ \A i \in 1 .. Len(list) : list[i].size = 0 \/ list[i].size > MaxOrderBytes
      BY DEF ValidRefusals
    <3>1. StrictlyOrdered(refusals[s])
      BY <2>2 DEF AccountOf, InTurn
    <3>2. Ids(refusals[s]) \intersect Ids(orders[s]) = {}
      BY <2>2 DEF AccountOf, AllIds
    <3>3. Ids(c.orders[s]) \subseteq Ids(orders[s]) /\ Ids(c.deferrals[s]) \subseteq Ids(orders[s])
      BY <2>1 DEF SlotFrame
    <3>4. \A i \in 1 .. Len(refusals[s]) : refusals[s][i].size = 0 \/ refusals[s][i].size > MaxOrderBytes
      BY <2>2 DEF Within, Refused
    <3> QED BY <2>1, <3>1, <3>2, <3>3, <3>4
  <2>7. /\ Valid(membership) /\ membership.slotMask = SlotMask
        /\ membership.loaded = membership.active /\ membership.clockValid /\ ~membership.paused
    BY DEF QueueInv
  <2>8. \A s \in Slot : c.orders[s] # <<>> \/ c.deferrals[s] # <<>> => s \in membership.active
    BY <2>1
  <2>9. \A s \in Slot : /\ \A i \in 1 .. Len(c.deferrals[s]) : c.deferrals[s][i].from = nextFrame
                        /\ c.deferrals[s] # <<>> => c.orders[s] # <<>>
    BY <2>1 DEF SlotFrame
  <2>10. \A s \in Slot : c.refusals[s] # <<>> => s \in membership.slotMask
    <3> SUFFICES ASSUME NEW s \in Slot, s \notin SlotMask PROVE refusals[s] = <<>>
      BY <2>1, <2>7
    <3>1. refusals[s] \in Seq(Refusal) /\ Len(refusals[s]) = 0
      BY <2>2 DEF Within, AuditInv, IInv, TypeOK
    <3> QED BY <3>1, EmptySeq
  <2>11. ValidContent(c, nextFrame, membership)
    BY <2>3, <2>4, <2>5, <2>6, <2>7, <2>8, <2>9, <2>10, Zenon DEF ValidContent
  <2> QED BY <2>9, <2>11
<1> QED BY <1>1, QueueInductive, PTL

=============================================================================
