-------------------- MODULE RelayCanonicalAuthority_proofs --------------------
(***************************************************************************)
(* The game log, the relay and the clients agree, for any number of slots, *)
(* any channel window, any clock and both policies: whatever was written   *)
(* is what a reader takes, and no client runs anything else.               *)
(***************************************************************************)
EXTENDS RelayCanonicalAuthority, InductionLemmas, TLAPS, FiniteSetTheorems

-----------------------------------------------------------------------------
\* A cursor fed a list of records takes them one by one.

LEMMA FeedingSteps ==
    ASSUME NEW c, NEW records, Len(records) \in Nat
    PROVE  /\ Feeding(c, records)[0] = c
           /\ \A n \in 1 .. Len(records) :
                Feeding(c, records)[n] = Accepted(Feeding(c, records)[n - 1], records[n])
<1> DEFINE Steps(n, g) ==
             g = [m \in 0 .. n |-> IF m = 0 THEN c ELSE Accepted(g[m - 1], records[m])]
           T == {n \in Nat : \E g : Steps(n, g)}
<1>1. 0 \in T
  <2> DEFINE g == [m \in 0 .. 0 |-> c]
  <2>1. Steps(0, g)
    OBVIOUS
  <2> QED BY <2>1
<1>2. ASSUME NEW n \in Nat, n \in T PROVE n + 1 \in T
  <2>1. PICK g : Steps(n, g)
    BY <1>2
  <2> DEFINE h == [m \in 0 .. n + 1 |-> IF m = n + 1 THEN Accepted(g[n], records[n + 1]) ELSE g[m]]
  <2>2. \A m \in 0 .. n + 1 : h[m] = IF m = 0 THEN c ELSE Accepted(h[m - 1], records[m])
    BY <2>1
  <2> DEFINE k == [m \in 0 .. n + 1 |-> IF m = 0 THEN c ELSE Accepted(h[m - 1], records[m])]
  <2>3. h = k
    BY <2>2
  <2> HIDE DEF h
  <2>4. Steps(n + 1, h)
    BY <2>3
  <2> QED BY <2>4
<1> HIDE DEF T
<1>3. Len(records) \in T
  BY <1>1, <1>2, SetInduction
<1>4. Steps(Len(records), Feeding(c, records))
  <2>1. \E g : Steps(Len(records), g)
    BY <1>3 DEF T
  <2> QED BY <2>1 DEF Feeding
<1> QED BY <1>4

\* A queue that is a part of a list, after its first records.
Along(queue, got, records) ==
    /\ got + Len(queue) <= Len(records)
    /\ \A i \in 1 .. Len(queue) : queue[i] = records[got + i]

\* A cursor fed a part of a list goes through the states of one fed the list.
LEMMA FeedingAlong ==
    ASSUME NEW c, NEW records, Len(records) \in Nat,
           NEW part, Len(part) \in Nat, NEW g \in Nat, Along(part, g, records), NEW d, d = Feeding(c, records)[g]
    PROVE  \A m \in 0 .. Len(part) : Feeding(d, part)[m] = Feeding(c, records)[g + m]
<1> DEFINE T == {m \in Nat : m <= Len(part) => Feeding(d, part)[m] = Feeding(c, records)[g + m]}
<1>1. 0 \in T
  BY FeedingSteps
<1>2. ASSUME NEW m \in Nat, m \in T PROVE m + 1 \in T
  <2> SUFFICES ASSUME m + 1 <= Len(part)
               PROVE  Feeding(d, part)[m + 1] = Feeding(c, records)[g + (m + 1)]
    OBVIOUS
  <2>1. m + 1 \in 1 .. Len(part) /\ g + (m + 1) \in 1 .. Len(records)
    BY DEF Along
  <2>2. Feeding(d, part)[(m + 1) - 1] = Feeding(c, records)[(g + (m + 1)) - 1]
    BY <1>2
  <2>3. part[m + 1] = records[g + (m + 1)]
    BY <2>1 DEF Along
  <2>4. Feeding(d, part)[m + 1] = Accepted(Feeding(d, part)[(m + 1) - 1], part[m + 1])
    BY <2>1, FeedingSteps
  <2>5. Feeding(c, records)[g + (m + 1)] =
            Accepted(Feeding(c, records)[(g + (m + 1)) - 1], records[g + (m + 1)])
    BY <2>1, FeedingSteps
  <2> QED BY <2>2, <2>3, <2>4, <2>5
<1> HIDE DEF T
<1>3. Nat \subseteq T
  BY <1>1, <1>2, SetInduction
<1> QED BY <1>3 DEF T

\* The records of a game, and the cursors that read them.
Recorded ==
    {r \in [kind : {"Frame", "Membership", "End"}, sequence : Nat, frame : Nat,
            generation : Nat, payload : Seq(Snapshot) \union Seq(Orders)] : IsRecord(r)}

Cursor == [sequence : Nat, generation : Nat, nextFrame : Nat,
           staged : Snapshot, hasMembership : BOOLEAN,
           applied : Snapshot, departedAtFrame : SUBSET Slot, ended : BOOLEAN]

LEMMA NewCursorType == NewCursor \in Cursor
BY ClockAssumption DEF NewCursor, Cursor, NoSnapshot, Snapshot

\* What accept leaves of the cursor, by the kind of the record.
LEMMA AcceptedCases ==
    ASSUME NEW c \in Cursor, NEW r \in Recorded
    PROVE  /\ Accepted(c, r) \in Cursor
           /\ ~Accepts(c, r) => Accepted(c, r) = c
           /\ Accepts(c, r) =>
                /\ Accepted(c, r).sequence = c.sequence + 1
                /\ Accepted(c, r).generation = r.generation
           /\ Accepts(c, r) /\ r.kind = "Membership" =>
                /\ r.payload # <<>> /\ Accepted(c, r).staged = r.payload[1]
                /\ Accepted(c, r).hasMembership = TRUE
                /\ Accepted(c, r).applied = c.applied
                /\ Accepted(c, r).nextFrame = c.nextFrame
                /\ Accepted(c, r).ended = c.ended
           /\ Accepts(c, r) /\ r.kind = "Frame" =>
                /\ r.payload # <<>>
                /\ Accepted(c, r).staged = c.staged /\ Accepted(c, r).applied = c.staged
                /\ Accepted(c, r).departedAtFrame = c.staged.departed \ c.applied.departed
                /\ Accepted(c, r).nextFrame = c.nextFrame + 1
                /\ Accepted(c, r).hasMembership = c.hasMembership
                /\ Accepted(c, r).ended = c.ended
           /\ Accepts(c, r) /\ r.kind = "End" =>
                /\ Accepted(c, r).staged = c.staged /\ Accepted(c, r).applied = c.applied
                /\ Accepted(c, r).nextFrame = c.nextFrame
                /\ Accepted(c, r).hasMembership = c.hasMembership
                /\ Accepted(c, r).ended = TRUE
<1> DEFINE stamped == [c EXCEPT !.sequence = r.sequence, !.generation = r.generation]
<1>1. /\ r.kind \in {"Frame", "Membership", "End"} /\ r.sequence \in Nat /\ r.generation \in Nat
      /\ r.kind = "Membership" => r.payload \in Seq(Snapshot)
  BY DEF Recorded, IsRecord
<1>2. stamped \in Cursor
  BY <1>1 DEF Cursor
<1>3. CASE ~Accepts(c, r)
  BY <1>3 DEF Accepted
<1>4. CASE Accepts(c, r) /\ r.kind = "Membership"
  <2>1. Accepted(c, r) = [stamped EXCEPT !.staged = r.payload[1], !.hasMembership = TRUE]
    BY <1>4 DEF Accepted
  <2>2. r.payload # <<>> /\ r.payload[1] \in Snapshot /\ r.sequence = c.sequence + 1
    BY <1>1, <1>4 DEF Accepts, InSequence
  <2> QED BY <1>1, <1>2, <1>4, <2>1, <2>2 DEF Cursor
<1>5. CASE Accepts(c, r) /\ r.kind = "Frame"
  <2>1. Accepted(c, r) = [stamped EXCEPT !.departedAtFrame = c.staged.departed \ c.applied.departed,
                                         !.applied = c.staged, !.nextFrame = @ + 1]
    BY <1>5 DEF Accepted
  <2>2. r.payload # <<>> /\ r.sequence = c.sequence + 1
    BY <1>5 DEF Accepts, InSequence
  <2>3. c.staged.departed \ c.applied.departed \in SUBSET Slot
    BY DEF Cursor, Snapshot
  <2>4. Accepted(c, r) =
            [sequence |-> r.sequence, generation |-> r.generation, nextFrame |-> c.nextFrame + 1,
             staged |-> c.staged, hasMembership |-> c.hasMembership, applied |-> c.staged,
             departedAtFrame |-> c.staged.departed \ c.applied.departed, ended |-> c.ended]
    BY <1>2, <2>1 DEF Cursor
  <2>5. Accepted(c, r) \in Cursor
    BY <1>1, <2>3, <2>4 DEF Cursor
  <2> QED BY <1>5, <2>2, <2>4, <2>5
<1>6. CASE Accepts(c, r) /\ r.kind = "End"
  <2>1. Accepted(c, r) = [stamped EXCEPT !.ended = TRUE]
    BY <1>6 DEF Accepted
  <2>2. r.sequence = c.sequence + 1
    BY <1>6 DEF Accepts, InSequence
  <2> QED BY <1>1, <1>2, <1>6, <2>1, <2>2 DEF Cursor
<1> QED BY <1>1, <1>3, <1>4, <1>5, <1>6

LEMMA FeedingType ==
    ASSUME NEW c \in Cursor, NEW records \in Seq(Recorded)
    PROVE  \A n \in 0 .. Len(records) : Feeding(c, records)[n] \in Cursor
<1> DEFINE f == Feeding(c, records)
<1>1. ASSUME NEW n \in 1 .. Len(records), f[n - 1] \in Cursor PROVE f[n] \in Cursor
  <2>1. f[n] = Accepted(f[n - 1], records[n]) /\ records[n] \in Recorded
    BY FeedingSteps
  <2> HIDE DEF f
  <2> QED BY <1>1, <2>1, AcceptedCases
<1>2. f[0] \in Cursor
  BY FeedingSteps
<1>3. Len(records) \in Nat
  OBVIOUS
<1> HIDE DEF f
<1>4. \A n \in 0 .. Len(records) : f[n] \in Cursor
  BY <1>1, <1>2, <1>3, UpTo
<1> QED BY <1>4 DEF f

\* A cursor that took every record counted each.
LEMMA FeedingCounts ==
    ASSUME NEW c \in Cursor, NEW records \in Seq(Recorded), TakesAll(c, records)
    PROVE  \A n \in 0 .. Len(records) : Feeding(c, records)[n].sequence = c.sequence + n
<1> DEFINE T == {n \in Nat : n <= Len(records) => Feeding(c, records)[n].sequence = c.sequence + n}
<1>1. 0 \in T
  BY FeedingSteps DEF Cursor
<1>2. ASSUME NEW n \in Nat, n \in T PROVE n + 1 \in T
  <2> SUFFICES ASSUME n + 1 <= Len(records)
               PROVE  Feeding(c, records)[n + 1].sequence = c.sequence + (n + 1)
    OBVIOUS
  <2>1. n + 1 \in 1 .. Len(records) /\ (n + 1) - 1 = n /\ n \in 0 .. Len(records)
    OBVIOUS
  <2>2. Feeding(c, records)[n + 1] = Accepted(Feeding(c, records)[n], records[n + 1])
    BY <2>1, FeedingSteps
  <2>3. Accepts(Feeding(c, records)[n], records[n + 1])
    BY <2>1 DEF TakesAll
  <2>4. Feeding(c, records)[n] \in Cursor /\ records[n + 1] \in Recorded
    BY <2>1, FeedingType
  <2>5. Feeding(c, records)[n + 1].sequence = Feeding(c, records)[n].sequence + 1
    <3> DEFINE d == Feeding(c, records)[n]
               r == records[n + 1]
    <3>1. d \in Cursor /\ r \in Recorded /\ Accepts(d, r) /\ Feeding(c, records)[n + 1] = Accepted(d, r)
      BY <2>2, <2>3, <2>4
    <3> HIDE DEF d, r
    <3>2. Accepted(d, r).sequence = d.sequence + 1
      BY <3>1, AcceptedCases
    <3> QED BY <3>1, <3>2 DEF d
  <2>6. Feeding(c, records)[n].sequence = c.sequence + n /\ c.sequence \in Nat
    BY <1>2 DEF Cursor
  <2> QED BY <2>5, <2>6
<1> HIDE DEF T
<1>3. Nat \subseteq T
  BY <1>1, <1>2, SetInduction
<1> QED BY <1>3 DEF T

-----------------------------------------------------------------------------
\* The builder's types.

Waiting == [id : Nat, eligible : Int]

Builder == [nextFrame : FirstFrame .. MaxFrame, nextId : [Slot -> Nat],
            orders : [Slot -> Seq(Waiting)],
            beatFrame : [Slot -> FirstFrame .. MaxFrame], nextBeatId : [Slot -> Nat]]

LEMMA QuotientType ==
    ASSUME NEW a \in Nat, NEW m \in Nat \ {0}
    PROVE  a \div m \in Nat
OBVIOUS

LEMMA StampType ==
    ASSUME NEW b \in Builder, NEW s \in Slot, now \in Nat, OriginMs <= now
    PROVE  Stamp(b, s) \in Int
<1>1. now - OriginMs \in Nat /\ FrameMs \in Nat \ {0} /\ FirstFrame \in Nat /\ MaxFrame \in Nat
  BY ClockAssumption
<1>2. FrameAfter(now) \in Int
  BY <1>1, QuotientType DEF FrameAfter
<1>3. b.nextFrame \in Int /\ b.beatFrame[s] \in Int
  BY <1>1 DEF Builder
<1> HIDE DEF Builder
<1> QED BY <1>2, <1>3 DEF Stamp

LEMMA AdmittedType ==
    ASSUME NEW b \in Builder, NEW s \in Slot, NEW message \in Message, now \in Nat, OriginMs <= now
    PROVE  Admitted(b, s, message) \in Builder /\ Admitted(b, s, message).nextFrame = b.nextFrame
<1>1. Stamp(b, s) \in Int /\ FirstFrame \in Nat /\ MaxFrame \in Nat
  BY StampType, ClockAssumption
<1>2. CASE ~Admits(b, s, message)
  BY <1>2 DEF Admitted
<1>3. CASE Admits(b, s, message) /\ message.kind = "Beat"
  <2> DEFINE ids == [b.nextBeatId EXCEPT ![s] = @ + 1]
             beats == [b.beatFrame EXCEPT ![s] = @ + 1]
  <2>1. b.beatFrame[s] + 1 \in FirstFrame .. MaxFrame /\ b.nextBeatId[s] + 1 \in Nat
    BY <1>1, <1>3 DEF Admits, Builder
  <2>2. ids \in [Slot -> Nat] /\ beats \in [Slot -> FirstFrame .. MaxFrame]
    BY <2>1 DEF Builder
  <2>3. Admitted(b, s, message) = [b EXCEPT !.nextBeatId = ids, !.beatFrame = beats]
    BY <1>3 DEF Admitted, Builder
  <2> HIDE DEF ids, beats
  <2> QED BY <2>2, <2>3 DEF Builder
<1>4. CASE Admits(b, s, message) /\ message.kind # "Beat"
  <2> DEFINE order == [id |-> message.id, eligible |-> Stamp(b, s)]
             ids == [b.nextId EXCEPT ![s] = @ + 1]
             queues == [b.orders EXCEPT ![s] = Append(@, order)]
  <2>1. order \in Waiting
    BY <1>1 DEF Waiting, Message
  <2>2. Append(b.orders[s], order) \in Seq(Waiting) /\ b.nextId[s] + 1 \in Nat
    BY <2>1 DEF Builder
  <2> HIDE DEF order
  <2>3. ids \in [Slot -> Nat] /\ queues \in [Slot -> Seq(Waiting)]
    BY <2>2 DEF Builder
  <2>4. Admitted(b, s, message) = [b EXCEPT !.nextId = ids, !.orders = queues]
    BY <1>4 DEF Admitted, Builder, order
  <2> HIDE DEF ids, queues
  <2> QED BY <2>3, <2>4 DEF Builder
<1> QED BY <1>2, <1>3, <1>4

LEMMA AdmittingSteps ==
    ASSUME NEW b, NEW s, NEW messages, Len(messages) \in Nat
    PROVE  /\ Admitting(b, s, messages)[0] = b
           /\ \A n \in 1 .. Len(messages) :
                Admitting(b, s, messages)[n] = Admitted(Admitting(b, s, messages)[n - 1], s, messages[n])
<1> DEFINE Steps(n, g) ==
             g = [m \in 0 .. n |-> IF m = 0 THEN b ELSE Admitted(g[m - 1], s, messages[m])]
           T == {n \in Nat : \E g : Steps(n, g)}
<1>1. 0 \in T
  <2> DEFINE g == [m \in 0 .. 0 |-> b]
  <2>1. Steps(0, g)
    OBVIOUS
  <2> QED BY <2>1
<1>2. ASSUME NEW n \in Nat, n \in T PROVE n + 1 \in T
  <2>1. PICK g : Steps(n, g)
    BY <1>2
  <2> DEFINE h == [m \in 0 .. n + 1 |-> IF m = n + 1 THEN Admitted(g[n], s, messages[n + 1]) ELSE g[m]]
  <2>2. \A m \in 0 .. n + 1 : h[m] = IF m = 0 THEN b ELSE Admitted(h[m - 1], s, messages[m])
    BY <2>1
  <2> DEFINE k == [m \in 0 .. n + 1 |-> IF m = 0 THEN b ELSE Admitted(h[m - 1], s, messages[m])]
  <2>3. h = k
    BY <2>2
  <2> HIDE DEF h
  <2>4. Steps(n + 1, h)
    BY <2>3
  <2> QED BY <2>4
<1> HIDE DEF T
<1>3. Len(messages) \in T
  BY <1>1, <1>2, SetInduction
<1>4. Steps(Len(messages), Admitting(b, s, messages))
  <2>1. \E g : Steps(Len(messages), g)
    BY <1>3 DEF T
  <2> QED BY <2>1 DEF Admitting
<1> QED BY <1>4

LEMMA AdmittingType ==
    ASSUME NEW b \in Builder, NEW s \in Slot, NEW messages \in Seq(Message),
           now \in Nat, OriginMs <= now
    PROVE  \A n \in 0 .. Len(messages) :
             /\ Admitting(b, s, messages)[n] \in Builder
             /\ Admitting(b, s, messages)[n].nextFrame = b.nextFrame
<1> DEFINE f == Admitting(b, s, messages)
           S == {a \in Builder : a.nextFrame = b.nextFrame}
<1>1. ASSUME NEW n \in 1 .. Len(messages), f[n - 1] \in S PROVE f[n] \in S
  <2>1. f[n] = Admitted(f[n - 1], s, messages[n]) /\ messages[n] \in Message
    BY AdmittingSteps
  <2> HIDE DEF f
  <2> QED BY <1>1, <2>1, AdmittedType
<1>2. f[0] \in S
  BY AdmittingSteps
<1>3. Len(messages) \in Nat
  OBVIOUS
<1> HIDE DEF f, S
<1>4. \A n \in 0 .. Len(messages) : f[n] \in S
  BY <1>1, <1>2, <1>3, UpTo
<1> QED BY <1>4 DEF f, S

LEMMA DueType ==
    ASSUME NEW b \in Builder, NEW s \in Slot
    PROVE  Due(b, s) \in 0 .. Len(b.orders[s])
<1> DEFINE q == b.orders[s]
           T == {n \in 1 .. Len(q) : \A k \in 1 .. n : q[k].eligible <= b.nextFrame}
<1>1. Len(q) \in Nat
  BY DEF Builder
<1>2. IsFiniteSet(1 .. Len(q)) /\ Cardinality(1 .. Len(q)) = Len(q)
  <2> DEFINE n == Len(q)
  <2>1. n \in Nat /\ 0 <= n
    BY <1>1
  <2> HIDE DEF n
  <2>2. IsFiniteSet(1 .. n) /\ Cardinality(1 .. n) = IF 1 > n THEN 0 ELSE n - 1 + 1
    BY ONLY <2>1, FS_Interval
  <2>3. Cardinality(1 .. n) = n
    BY ONLY <2>1, <2>2
  <2> QED BY <2>2, <2>3 DEF n
<1>3. IsFiniteSet(T) /\ Cardinality(T) <= Cardinality(1 .. Len(q))
  BY <1>2, FS_Subset
<1>4. Cardinality(T) \in Nat
  BY <1>3, FS_CardinalityType
<1>5. Due(b, s) = Cardinality(T)
  BY DEF Due
<1> HIDE DEF T
<1> QED BY <1>1, <1>2, <1>3, <1>4, <1>5

LEMMA GatheredType ==
    ASSUME NEW b \in Builder, NEW m
    PROVE  /\ Gathered(b, m) \in Orders
           /\ \A s \in Slot : Gathered(b, m)[s] # <<>> => s \in m.active
<1>1. ASSUME NEW s \in Slot
      PROVE  [i \in 1 .. Due(b, s) |-> b.orders[s][i].id] \in Seq(Nat)
  <2> DEFINE n == Due(b, s)
             q == b.orders[s]
  <2>1. n \in 0 .. Len(q)
    BY DueType
  <2>2. q \in Seq(Waiting)
    BY DEF Builder
  <2> HIDE DEF n, q
  <2>3. \A i \in 1 .. n : q[i].id \in Nat
    <3> SUFFICES ASSUME NEW i \in 1 .. n PROVE q[i].id \in Nat
      OBVIOUS
    <3>1. q[i] \in Waiting
      BY <2>1, <2>2
    <3> QED BY <3>1 DEF Waiting
  <2>4. n \in Nat
    BY <2>1
  <2>5. [i \in 1 .. n |-> q[i].id] \in Seq(Nat)
    BY <2>3, <2>4
  <2> QED BY <2>5 DEF n, q
<1>2. ASSUME NEW s \in Slot PROVE Gathered(b, m)[s] \in Seq(Nat)
  BY <1>1 DEF Gathered
<1>3. Gathered(b, m) \in [Slot -> Seq(Nat)]
  BY <1>2 DEF Gathered
<1> QED BY <1>3 DEF Gathered, Orders

LEMMA CommittedType ==
    ASSUME NEW b \in Builder, b.nextFrame # MaxFrame, NEW orders \in Orders
    PROVE  Committed(b, orders) \in Builder /\ Committed(b, orders).nextFrame = b.nextFrame + 1
<1> DEFINE left == [s \in Slot |-> SubSeq(b.orders[s], Len(orders[s]) + 1, Len(b.orders[s]))]
<1>1. left \in [Slot -> Seq(Waiting)]
  <2> SUFFICES ASSUME NEW s \in Slot
               PROVE  SubSeq(b.orders[s], Len(orders[s]) + 1, Len(b.orders[s])) \in Seq(Waiting)
    OBVIOUS
  <2>1. orders[s] \in Seq(Nat) /\ b.orders[s] \in Seq(Waiting)
    BY DEF Orders, Builder
  <2>2. Len(orders[s]) + 1 \in Nat \ {0}
    BY <2>1
  <2> QED BY <2>1, <2>2
<1>2. DOMAIN b.orders = Slot
  BY DEF Builder
<1>3. Committed(b, orders) = [b EXCEPT !.nextFrame = b.nextFrame + 1, !.orders = left]
  BY <1>2 DEF Committed, Builder
<1>4. b.nextFrame + 1 \in FirstFrame .. MaxFrame
  BY ClockAssumption DEF Builder
<1> HIDE DEF left
<1> QED BY <1>1, <1>3, <1>4 DEF Builder

-----------------------------------------------------------------------------
\* Parts of sequences.

LEMMA FrontPart ==
    ASSUME NEW S, NEW q \in Seq(S), NEW k \in 0 .. Len(q)
    PROVE  /\ SubSeq(q, 1, k) \in Seq(S) /\ Len(SubSeq(q, 1, k)) = k
           /\ \A i \in 1 .. k : SubSeq(q, 1, k)[i] = q[i]
OBVIOUS

LEMMA RestPart ==
    ASSUME NEW S, NEW q \in Seq(S), NEW k \in 0 .. Len(q)
    PROVE  /\ SubSeq(q, k + 1, Len(q)) \in Seq(S) /\ Len(SubSeq(q, k + 1, Len(q))) = Len(q) - k
           /\ \A i \in 1 .. Len(q) - k : SubSeq(q, k + 1, Len(q))[i] = q[k + i]
OBVIOUS

LEMMA Joined ==
    ASSUME NEW S, NEW p \in Seq(S), NEW q \in Seq(S)
    PROVE  /\ p \o q \in Seq(S) /\ Len(p \o q) = Len(p) + Len(q)
           /\ \A i \in 1 .. Len(p) : (p \o q)[i] = p[i]
           /\ \A i \in 1 .. Len(q) : (p \o q)[Len(p) + i] = q[i]
OBVIOUS

-----------------------------------------------------------------------------
\* The records a pump stages.

MembershipRecord(b, m) ==
    Stamped("Membership", sequence + 1, b, generation + 1, IF Valid(m) THEN <<m>> ELSE <<>>)

FrameRecord(b, m, changed) ==
    IF changed THEN Stamped("Frame", sequence + 2, b, generation + 1, <<Gathered(b, m)>>)
               ELSE Stamped("Frame", sequence + 1, b, generation, <<Gathered(b, m)>>)

LEMMA StagedCases ==
    ASSUME NEW b, NEW m, NEW changed \in BOOLEAN, sequence \in Nat, generation \in Nat
    PROVE  StagedRecords(b, m, changed) =
             IF changed
             THEN IF CanSeal(b, m) THEN <<MembershipRecord(b, m), FrameRecord(b, m, TRUE)>>
                                   ELSE <<MembershipRecord(b, m)>>
             ELSE IF CanSeal(b, m) THEN <<FrameRecord(b, m, FALSE)>> ELSE <<>>
<1>1. sequence + 1 + 1 = sequence + 2 /\ sequence + 0 + 1 = sequence + 1 /\ generation + 0 = generation
  OBVIOUS
<1>2. ASSUME NEW x, NEW y PROVE <<x>> \o <<y>> = <<x, y>>
  <2>1. <<x>> \in Seq({x, y}) /\ <<y>> \in Seq({x, y}) /\ Len(<<x>>) = 1 /\ Len(<<y>>) = 1
    OBVIOUS
  <2>2. /\ <<x>> \o <<y>> \in Seq({x, y}) /\ Len(<<x>> \o <<y>>) = 2
        /\ (<<x>> \o <<y>>)[1] = x /\ (<<x>> \o <<y>>)[2] = y
    BY <2>1
  <2>3. <<x>> \o <<y>> = [i \in 1 .. 2 |-> (<<x>> \o <<y>>)[i]]
    BY <2>2
  <2>4. <<x, y>> = [i \in 1 .. 2 |-> <<x, y>>[i]]
    OBVIOUS
  <2>5. \A i \in 1 .. 2 : (<<x>> \o <<y>>)[i] = <<x, y>>[i]
    BY <2>2
  <2> QED BY <2>3, <2>4, <2>5
<1>3. \A x : <<x>> \o <<>> = <<x>> /\ <<>> \o <<x>> = <<x>> /\ <<>> \o <<>> = <<>>
  OBVIOUS
<1>4. CASE changed
  BY <1>1, <1>2, <1>3, <1>4 DEF StagedRecords, MembershipRecord, FrameRecord
<1>5. CASE ~changed
  BY <1>1, <1>2, <1>3, <1>5 DEF StagedRecords, MembershipRecord, FrameRecord
<1> QED BY <1>4, <1>5

LEMMA StampedType ==
    ASSUME NEW kind \in {"Frame", "Membership", "End"}, NEW n \in Nat, NEW b \in Builder, NEW g \in Nat,
           NEW payload, kind = "Membership" => payload \in Seq(Snapshot),
           kind = "Frame" => payload \in Seq(Orders), kind = "End" => payload = <<>>
    PROVE  Stamped(kind, n, b, g, payload) \in Recorded
<1>1. b.nextFrame \in Nat
  BY ClockAssumption DEF Builder
<1>2. <<>> \in Seq(Snapshot)
  OBVIOUS
<1>3. payload \in Seq(Snapshot) \union Seq(Orders)
  BY <1>2, Zenon
<1> QED BY <1>1, <1>3 DEF Stamped, Recorded, IsRecord

LEMMA StagedType ==
    ASSUME NEW b \in Builder, NEW m \in Snapshot, NEW changed \in BOOLEAN,
           sequence \in Nat, generation \in Nat
    PROVE  /\ MembershipRecord(b, m) \in Recorded
           /\ FrameRecord(b, m, changed) \in Recorded
           /\ StagedRecords(b, m, changed) \in Seq(Recorded)
           /\ Len(StagedRecords(b, m, changed)) \in 0 .. 2
<1>1. MembershipRecord(b, m) \in Recorded
  <2>1. (IF Valid(m) THEN <<m>> ELSE <<>>) \in Seq(Snapshot)
    OBVIOUS
  <2>2. sequence + 1 \in Nat /\ generation + 1 \in Nat
    OBVIOUS
  <2> QED BY <2>1, <2>2, StampedType DEF MembershipRecord
<1>2. \A c \in BOOLEAN : FrameRecord(b, m, c) \in Recorded
  <2>1. <<Gathered(b, m)>> \in Seq(Orders)
    BY GatheredType
  <2>2. sequence + 1 \in Nat /\ sequence + 2 \in Nat /\ generation + 1 \in Nat
    OBVIOUS
  <2> QED BY <2>1, <2>2, StampedType DEF FrameRecord
<1>3. <<>> \in Seq(Recorded) /\ Len(<<>>) = 0
  OBVIOUS
<1>4. \A x \in Recorded : <<x>> \in Seq(Recorded) /\ Len(<<x>>) = 1
  OBVIOUS
<1>5. \A x, y \in Recorded : <<x, y>> \in Seq(Recorded) /\ Len(<<x, y>>) = 2
  OBVIOUS
<1>6. /\ StagedRecords(b, m, changed) \in Seq(Recorded)
      /\ Len(StagedRecords(b, m, changed)) \in 0 .. 2
  <2> DEFINE M == MembershipRecord(b, m)
             F(c) == FrameRecord(b, m, c)
             staged == StagedRecords(b, m, changed)
  <2>1. staged \in {<<M, F(TRUE)>>, <<M>>, <<F(FALSE)>>, <<>>}
    BY StagedCases
  <2>2. M \in Recorded /\ F(TRUE) \in Recorded /\ F(FALSE) \in Recorded
    BY <1>1, <1>2
  <2> HIDE DEF M, F, staged
  <2>3. staged \in Seq(Recorded) /\ (Len(staged) = 0 \/ Len(staged) = 1 \/ Len(staged) = 2)
    BY <1>3, <1>4, <1>5, <2>1, <2>2, Zenon
  <2> QED BY <2>3 DEF staged
<1> QED BY <1>1, <1>2, <1>6

LEMMA StagedLength ==
    ASSUME NEW b, NEW m, NEW changed \in BOOLEAN, sequence \in Nat, generation \in Nat
    PROVE  /\ CanSeal(b, m) => Len(StagedRecords(b, m, changed)) = IF changed THEN 2 ELSE 1
           /\ ~CanSeal(b, m) => Len(StagedRecords(b, m, changed)) = IF changed THEN 1 ELSE 0
<1> DEFINE M == MembershipRecord(b, m)
           F(k) == FrameRecord(b, m, k)
           seal == CanSeal(b, m)
           staged == StagedRecords(b, m, changed)
<1>1. staged = IF changed THEN IF seal THEN <<M, F(TRUE)>> ELSE <<M>> ELSE IF seal THEN <<F(FALSE)>> ELSE <<>>
  BY StagedCases
<1> HIDE DEF M, F, seal, staged
<1>2. Len(<<>>) = 0 /\ Len(<<M>>) = 1 /\ Len(<<F(FALSE)>>) = 1
  OBVIOUS
<1>3. Len(<<M, F(TRUE)>>) = 2
  OBVIOUS
<1>4. /\ seal => Len(staged) = IF changed THEN 2 ELSE 1
      /\ ~seal => Len(staged) = IF changed THEN 1 ELSE 0
  BY <1>1, <1>2, <1>3
<1> QED BY <1>4 DEF seal, staged

LEMMA StagedMember ==
    ASSUME NEW b, NEW m, NEW changed \in BOOLEAN, sequence \in Nat, generation \in Nat,
           NEW i \in 1 .. Len(StagedRecords(b, m, changed))
    PROVE  \/ changed /\ i = 1 /\ StagedRecords(b, m, changed)[i] = MembershipRecord(b, m)
           \/ /\ CanSeal(b, m) /\ i = Len(StagedRecords(b, m, changed))
              /\ StagedRecords(b, m, changed)[i] = FrameRecord(b, m, changed)
<1> DEFINE M == MembershipRecord(b, m)
           F == FrameRecord(b, m, changed)
           seal == CanSeal(b, m)
           staged == StagedRecords(b, m, changed)
<1>1. staged = IF changed THEN IF seal THEN <<M, F>> ELSE <<M>> ELSE IF seal THEN <<F>> ELSE <<>>
  <2>1. CASE changed
    BY <2>1, StagedCases DEF FrameRecord
  <2>2. CASE ~changed
    BY <2>2, StagedCases DEF FrameRecord
  <2> QED BY <2>1, <2>2
<1> HIDE DEF M, F, seal, staged
<1>2. Len(<<>>) = 0 /\ Len(<<M>>) = 1 /\ <<M>>[1] = M /\ Len(<<F>>) = 1 /\ <<F>>[1] = F
  OBVIOUS
<1>3. Len(<<M, F>>) = 2 /\ <<M, F>>[1] = M /\ <<M, F>>[2] = F
  OBVIOUS
<1>4. i \in 1 .. Len(staged)
  BY DEF staged
<1>5. \/ changed /\ i = 1 /\ staged[i] = M
      \/ seal /\ i = Len(staged) /\ staged[i] = F
  <2>1. CASE changed /\ seal
    BY <1>1, <1>3, <1>4, <2>1
  <2>2. CASE ~(changed /\ seal)
    BY <1>1, <1>2, <1>4, <2>2
  <2> QED BY <2>1, <2>2
<1> QED BY <1>5 DEF M, F, seal, staged

-----------------------------------------------------------------------------
\* The inductive invariants.

FrameRun == [frame : Nat, departed : SUBSET Slot, orders : Orders]

Client == [cursor : Cursor, orderId : Nat, beatId : Nat, frames : Seq(FrameRun), rejected : BOOLEAN]

\* Everything has its type, and no channel holds more than its window.
AuthorityTypes ==
    /\ builder \in Builder /\ membership \in Snapshot
    /\ sequence \in Nat /\ generation \in Nat /\ outbox \in Seq(Recorded)
    /\ {dirty, failed} \subseteq BOOLEAN
    /\ members \subseteq SlotMask /\ refusedAt \subseteq members

CoreTypes ==
    /\ bye \subseteq members /\ {live, closed} \subseteq BOOLEAN
    /\ log \in Seq(Recorded) /\ repeats \in Nat /\ now \in Nat /\ OriginMs <= now

WireTypes ==
    /\ up \in [Slot -> Seq(Message)] /\ \A s \in Slot : Len(up[s]) <= ChannelWindow
    /\ down \in [Slot -> Seq(Recorded)] /\ queued \in [Slot -> 0 .. ChannelWindow]
    /\ \A s \in Slot : Len(down[s]) <= queued[s]
    /\ client \in [Slot -> Client]

TypeInv == AuthorityTypes /\ CoreTypes /\ WireTypes /\ game \in Games

\* A game whose rejoin tickets come one after the other.
NextTickets == \A g \in Games : \A s \in Slot : g.tickets[s] \subseteq {1}

\* The membership of a game: its clock runs from the start, a slot never bound
\* was never held and never left, and each slot rejoins at most once.
Clocked(m) ==
    /\ m.slotMask = SlotMask
    /\ ~m.paused /\ m.clockValid /\ m.originMs = OriginMs /\ m.firstFrame = FirstFrame
    /\ m.active \union m.held \union m.departed \subseteq members
    /\ \A s \in Slot : m.generation[s] \in {0, 1} /\ (s \notin members => m.generation[s] = 0)

\* The membership a cursor holds staged is one that m may follow, and is m
\* where nothing changed.
Behind(c, m, changed) ==
    /\ c.staged.departed \subseteq m.departed
    /\ \A s \in Slot : c.staged.generation[s] \in {0, 1} /\ c.staged.generation[s] <= m.generation[s]
    /\ c.generation = 0 => ~c.hasMembership /\ c.nextFrame = FirstFrame /\ (~changed => members = {})
    /\ c.generation > 0 =>
         /\ c.hasMembership /\ c.staged.clockValid
         /\ c.staged.originMs = OriginMs /\ c.staged.firstFrame = FirstFrame
         /\ ~changed => c.staged = m

\* A reader of the game log.
Reader == Feeding(NewCursor, log)[Len(log)]

\* It expects what the authority stamps next.
ReaderInv ==
    /\ ~closed \/ ~failed => TakesAll(NewCursor, log)
    /\ ~failed =>
        /\ outbox = <<>>
        /\ live \/ ~closed => Reader.sequence = sequence
        /\ live => Reader.ended = closed
        /\ ~closed => ~Reader.ended
        /\ Reader.generation = generation /\ Reader.nextFrame = builder.nextFrame
        /\ Behind(Reader, membership, dirty)

\* What the relay holds of a slot that did not rejoin is the log's: all of it
\* as long as the channel has room.
Supplied(s) ==
    LET got == client[s].cursor.sequence IN
    /\ ~client[s].rejected
    /\ got + Len(down[s]) <= Len(log)
    /\ client[s].cursor = Feeding(NewCursor, log)[got]
    /\ \A i \in 1 .. Len(down[s]) : down[s][i] = log[got + i]
    /\ ~closed /\ queued[s] < ChannelWindow => got + Len(down[s]) = Len(log)

\* Nothing is written before every slot was bound.
SuppliedInv ==
    /\ ~closed /\ log # <<>> => members = SlotMask
    /\ \A s \in members : membership.generation[s] = 0 => Supplied(s)
    /\ \A s \in Slot \ members : client[s] = NewClient /\ down[s] = <<>> /\ queued[s] = 0

LogInv == Clocked(membership) /\ ReaderInv /\ SuppliedInv

\* What a client ran, against the cursor that accepted it.
Ran(c, frames) ==
    /\ c.applied.departed \subseteq c.staged.departed
    /\ \A i \in 1 .. Len(frames) : frames[i].departed \subseteq c.applied.departed
    /\ \A i, j \in 1 .. Len(frames) : i < j => frames[i].departed \intersect frames[j].departed = {}
    /\ \A i, j \in 1 .. Len(frames) : i <= j => \A gone \in frames[i].departed : frames[j].orders[gone] = <<>>

RanInv == \A s \in Slot : Ran(client[s].cursor, client[s].frames)

-----------------------------------------------------------------------------
\* Types.

LEMMA InitTypes == Init => TypeInv
<1> SUFFICES ASSUME Init PROVE TypeInv
  OBVIOUS
<1>1. NewBuilder \in Builder
  BY ClockAssumption DEF NewBuilder, Builder
<1>2. membership \in Snapshot
  <2>1. NoSnapshot \in Snapshot /\ SlotMask \in SUBSET Slot /\ OriginMs \in Nat /\ FirstFrame \in Nat
    BY AuthorityAssumption, ClockAssumption DEF NoSnapshot, Snapshot
  <2> QED BY <2>1 DEF Init, Snapshot
<1>3. NewClient \in Client
  BY NewCursorType DEF NewClient, Client
<1>4. AuthorityTypes
  <2>1. sequence \in Nat /\ generation \in Nat /\ outbox \in Seq(Recorded)
    BY DEF Init
  <2>2. dirty = FALSE /\ failed = FALSE /\ members = {} /\ refusedAt = {} /\ builder \in Builder
    BY <1>1 DEF Init
  <2> QED BY <1>2, <2>1, <2>2, Zenon DEF AuthorityTypes
<1>5. CoreTypes
  <2>1. log \in Seq(Recorded) /\ repeats \in Nat /\ now \in Nat /\ OriginMs <= now
    BY ClockAssumption DEF Init
  <2>2. live = TRUE /\ closed = FALSE /\ bye = {}
    BY DEF Init
  <2> QED BY <2>1, <2>2, Zenon DEF CoreTypes
<1>6. WireTypes
  BY <1>3, AuthorityAssumption DEF Init, WireTypes
<1> QED BY <1>4, <1>5, <1>6 DEF Init, TypeInv

\* fanout: a part of the records goes to each member, all of them where the
\* window has room.
LEMMA FanoutParts ==
    ASSUME TypeInv, NEW records \in Seq(Recorded), Fanout(records)
    PROVE  /\ down' \in [Slot -> Seq(Recorded)] /\ queued' \in [Slot -> 0 .. ChannelWindow]
           /\ \A s \in Slot :
                IF s \in members
                THEN \E k \in 0 .. Len(records) :
                       /\ down'[s] = down[s] \o SubSeq(records, 1, k)
                       /\ queued'[s] = queued[s] + k
                       /\ k < Len(records) => queued'[s] = ChannelWindow
                ELSE down'[s] = down[s] /\ queued'[s] = queued[s]
<1> DEFINE fits(s) == IF Len(records) <= ChannelWindow - queued[s] THEN Len(records)
                      ELSE ChannelWindow - queued[s]
<1>1. ChannelWindow \in Nat /\ Len(records) \in Nat
  BY AuthorityAssumption
<1>2. ASSUME NEW s \in Slot
      PROVE  /\ down[s] \in Seq(Recorded) /\ queued[s] \in 0 .. ChannelWindow
             /\ fits(s) \in 0 .. Len(records) /\ queued[s] + fits(s) \in 0 .. ChannelWindow
             /\ fits(s) < Len(records) => queued[s] + fits(s) = ChannelWindow
  BY <1>1 DEF TypeInv, WireTypes
<1>3. /\ down' = [s \in Slot |-> IF s \in members THEN down[s] \o SubSeq(records, 1, fits(s)) ELSE down[s]]
      /\ queued' = [s \in Slot |-> IF s \in members THEN queued[s] + fits(s) ELSE queued[s]]
  BY DEF Fanout
<1> HIDE DEF fits
<1>4. ASSUME NEW s \in Slot PROVE down[s] \o SubSeq(records, 1, fits(s)) \in Seq(Recorded)
  BY <1>2, FrontPart, Joined
<1>5. down' \in [Slot -> Seq(Recorded)] /\ queued' \in [Slot -> 0 .. ChannelWindow]
  BY <1>2, <1>3, <1>4
<1>6. ASSUME NEW s \in Slot, s \in members
      PROVE  \E k \in 0 .. Len(records) :
               /\ down'[s] = down[s] \o SubSeq(records, 1, k)
               /\ queued'[s] = queued[s] + k
               /\ k < Len(records) => queued'[s] = ChannelWindow
  <2>1. down'[s] = down[s] \o SubSeq(records, 1, fits(s)) /\ queued'[s] = queued[s] + fits(s)
    BY <1>3, <1>6
  <2> QED BY <1>2, <2>1
<1>7. ASSUME NEW s \in Slot, s \notin members PROVE down'[s] = down[s] /\ queued'[s] = queued[s]
  BY <1>3, <1>7
<1> QED BY <1>5, <1>6, <1>7

LEMMA FanoutFits ==
    ASSUME TypeInv, NEW records \in Seq(Recorded), Fanout(records)
    PROVE  \A s \in Slot : Len(down'[s]) <= queued'[s]
<1> SUFFICES ASSUME NEW s \in Slot PROVE Len(down'[s]) <= queued'[s]
  OBVIOUS
<1>1. Len(down[s]) <= queued[s] /\ queued[s] \in Nat /\ down[s] \in Seq(Recorded)
  BY AuthorityAssumption DEF TypeInv, WireTypes
<1>2. CASE s \in members
  <2>1. PICK k \in 0 .. Len(records) : down'[s] = down[s] \o SubSeq(records, 1, k) /\ queued'[s] = queued[s] + k
    BY <1>2, FanoutParts
  <2>2. Len(SubSeq(records, 1, k)) = k /\ SubSeq(records, 1, k) \in Seq(Recorded)
    BY FrontPart
  <2> DEFINE old == down[s]
             new == down'[s]
             part == SubSeq(records, 1, k)
             before == queued[s]
             after == queued'[s]
  <2>3. /\ old \in Seq(Recorded) /\ part \in Seq(Recorded) /\ Len(part) = k
        /\ new = old \o part /\ after = before + k /\ Len(old) <= before /\ before \in Nat /\ k \in Nat
    BY <1>1, <2>1, <2>2
  <2> HIDE DEF old, new, part, before, after
  <2>4. Len(new) = Len(old) + k /\ Len(old) \in Nat
    BY <2>3, Joined
  <2>5. Len(new) <= after
    BY <2>3, <2>4
  <2> QED BY <2>5 DEF new, after
<1>3. CASE s \notin members
  BY <1>1, <1>3, FanoutParts
<1> QED BY <1>2, <1>3

LEMMA AppendsType ==
    ASSUME log \in Seq(Recorded), live \in BOOLEAN, NEW records \in Seq(Recorded),
           NEW landed \in 0 .. Len(records), Appends(records, landed)
    PROVE  log' \in Seq(Recorded) /\ live' \in BOOLEAN
<1>1. SubSeq(records, 1, landed) \in Seq(Recorded)
  BY FrontPart
<1>2. log \o SubSeq(records, 1, landed) \in Seq(Recorded)
  BY <1>1, Joined
<1> QED BY <1>2 DEF Appends

\* What pump leaves of the types, whatever builder and membership it is given.
LEMMA PumpTypes ==
    ASSUME TypeInv, NEW b \in Builder, NEW m \in Snapshot, NEW changed \in BOOLEAN, Pump(b, m, changed)
    PROVE  /\ builder' \in Builder /\ membership' \in Snapshot
           /\ sequence' \in Nat /\ generation' \in Nat /\ outbox' \in Seq(Recorded)
           /\ {dirty', failed', live'} \subseteq BOOLEAN /\ log' \in Seq(Recorded)
           /\ down' \in [Slot -> Seq(Recorded)] /\ queued' \in [Slot -> 0 .. ChannelWindow]
           /\ \A s \in Slot : Len(down'[s]) <= queued'[s]
<1> DEFINE staged == StagedRecords(b, m, changed)
<1>0. /\ sequence \in Nat /\ generation \in Nat /\ outbox \in Seq(Recorded) /\ log \in Seq(Recorded)
      /\ {failed, live} \subseteq BOOLEAN
      /\ down \in [Slot -> Seq(Recorded)] /\ queued \in [Slot -> 0 .. ChannelWindow]
      /\ \A s \in Slot : Len(down[s]) <= queued[s]
  BY DEF TypeInv, AuthorityTypes, CoreTypes, WireTypes
<1>1. CASE failed
  BY <1>0, <1>1 DEF Pump
<1>2. CASE ~failed
  <2>1. staged \in Seq(Recorded) /\ Len(staged) \in Nat
    BY <1>0, StagedType
  <2>2. /\ membership' = m /\ dirty' = FALSE /\ sequence' = sequence + Len(staged)
        /\ generation' = IF changed THEN generation + 1 ELSE generation
    BY <1>2 DEF Pump
  <2>3. sequence' \in Nat /\ generation' \in Nat
    BY <1>0, <2>1, <2>2
  <2>4. CASE changed /\ ~Valid(m)
    <3>1. failed' = TRUE /\ outbox' = staged /\ builder' = b /\ UNCHANGED <<live, log, down, queued>>
      BY <1>2, <2>4 DEF Pump
    <3> HIDE DEF staged
    <3> QED BY <1>0, <2>1, <2>2, <2>3, <3>1
  <2>5. CASE ~(changed /\ ~Valid(m))
    <3>1. PICK landed \in 0 .. Len(staged) :
            /\ Appends(staged, landed)
            /\ outbox' = SubSeq(staged, landed + 1, Len(staged))
            /\ failed' = (landed # Len(staged))
            /\ builder' = IF landed > 0 /\ staged[landed].kind = "Frame"
                          THEN Committed(b, staged[landed].payload[1]) ELSE b
            /\ Fanout(SubSeq(staged, 1, landed))
      BY <1>2, <2>5 DEF Pump
    <3>2. builder' \in Builder
      <4>1. CASE landed > 0 /\ staged[landed].kind = "Frame"
        <5>1. CanSeal(b, m) /\ staged[landed].payload[1] = Gathered(b, m)
          <6>1. \/ staged[landed] = MembershipRecord(b, m)
                \/ CanSeal(b, m) /\ staged[landed] = FrameRecord(b, m, changed)
            <7>1. landed \in 1 .. Len(staged)
              BY <4>1
            <7> QED BY <1>0, <7>1, StagedMember
          <6>2. MembershipRecord(b, m).kind = "Membership" /\ FrameRecord(b, m, changed).payload[1] = Gathered(b, m)
            BY DEF MembershipRecord, FrameRecord, Stamped
          <6> QED BY <4>1, <6>1, <6>2
        <5>2. builder' = Committed(b, Gathered(b, m)) /\ b.nextFrame # MaxFrame
          BY <3>1, <4>1, <5>1 DEF CanSeal
        <5> QED BY <5>2, GatheredType, CommittedType
      <4>2. CASE ~(landed > 0 /\ staged[landed].kind = "Frame")
        BY <3>1, <4>2
      <4> QED BY <4>1, <4>2
    <3> HIDE DEF staged
    <3>3. outbox' \in Seq(Recorded) /\ SubSeq(staged, 1, landed) \in Seq(Recorded)
      BY <2>1, <3>1, FrontPart, RestPart
    <3>4. log' \in Seq(Recorded) /\ live' \in BOOLEAN
      BY <1>0, <2>1, <3>1, AppendsType
    <3>5. /\ down' \in [Slot -> Seq(Recorded)] /\ queued' \in [Slot -> 0 .. ChannelWindow]
          /\ \A s \in Slot : Len(down'[s]) <= queued'[s]
      BY <3>1, <3>3, FanoutParts, FanoutFits
    <3> QED BY <2>2, <2>3, <3>1, <3>2, <3>3, <3>4, <3>5
  <2> QED BY <2>4, <2>5
<1> QED BY <1>0, <1>1, <1>2

-----------------------------------------------------------------------------
\* A client's update.

RunOf(fed, r) == [frame |-> r.frame, departed |-> fed.departedAtFrame, orders |-> r.payload[1]]

LEMMA FramesFedSteps ==
    ASSUME NEW c, NEW records, Len(records) \in Nat
    PROVE  /\ FramesFed(c, records)[0] = <<>>
           /\ \A n \in 1 .. Len(records) :
                FramesFed(c, records)[n] =
                  IF Accepts(Feeding(c, records)[n - 1], records[n]) /\ records[n].kind = "Frame"
                  THEN Append(FramesFed(c, records)[n - 1], RunOf(Feeding(c, records)[n], records[n]))
                  ELSE FramesFed(c, records)[n - 1]
<1> DEFINE Then(x, n) ==
             IF Accepts(Feeding(c, records)[n - 1], records[n]) /\ records[n].kind = "Frame"
             THEN Append(x, RunOf(Feeding(c, records)[n], records[n])) ELSE x
           Steps(n, g) == g = [m \in 0 .. n |-> IF m = 0 THEN <<>> ELSE Then(g[m - 1], m)]
           T == {n \in Nat : \E g : Steps(n, g)}
<1>1. FramesFed(c, records) = CHOOSE g : Steps(Len(records), g)
  BY DEF FramesFed, RunOf
<1> HIDE DEF Then
<1>2. 0 \in T
  <2> DEFINE g == [m \in 0 .. 0 |-> <<>>]
  <2>1. Steps(0, g)
    OBVIOUS
  <2> QED BY <2>1
<1>3. ASSUME NEW n \in Nat, n \in T PROVE n + 1 \in T
  <2>1. PICK g : Steps(n, g)
    BY <1>3
  <2> DEFINE h == [m \in 0 .. n + 1 |-> IF m = n + 1 THEN Then(g[n], n + 1) ELSE g[m]]
  <2>2. \A m \in 0 .. n + 1 : h[m] = IF m = 0 THEN <<>> ELSE Then(h[m - 1], m)
    BY <2>1
  <2> DEFINE k == [m \in 0 .. n + 1 |-> IF m = 0 THEN <<>> ELSE Then(h[m - 1], m)]
  <2>3. h = k
    BY <2>2
  <2> HIDE DEF h
  <2>4. Steps(n + 1, h)
    BY <2>3
  <2> QED BY <2>4
<1> HIDE DEF T
<1>4. Len(records) \in T
  BY <1>2, <1>3, SetInduction
<1>5. Steps(Len(records), FramesFed(c, records))
  <2>1. \E g : Steps(Len(records), g)
    BY <1>4 DEF T
  <2> QED BY <1>1, <2>1
<1>6. \A n \in 0 .. Len(records) :
        FramesFed(c, records)[n] = IF n = 0 THEN <<>> ELSE Then(FramesFed(c, records)[n - 1], n)
  BY <1>5
<1> QED BY <1>6 DEF Then

LEMMA FramesFedType ==
    ASSUME NEW c \in Cursor, NEW records \in Seq(Recorded)
    PROVE  \A n \in 0 .. Len(records) : FramesFed(c, records)[n] \in Seq(FrameRun)
<1> DEFINE f == FramesFed(c, records)
<1>1. ASSUME NEW n \in 1 .. Len(records), f[n - 1] \in Seq(FrameRun) PROVE f[n] \in Seq(FrameRun)
  <2> DEFINE r == records[n]
             before == Feeding(c, records)[n - 1]
             fed == Feeding(c, records)[n]
  <2>1. f[n] = IF Accepts(before, r) /\ r.kind = "Frame" THEN Append(f[n - 1], RunOf(fed, r)) ELSE f[n - 1]
    BY FramesFedSteps
  <2>2. r \in Recorded /\ fed \in Cursor
    BY FeedingType
  <2> HIDE DEF f, r, before, fed
  <2>3. CASE Accepts(before, r) /\ r.kind = "Frame"
    <3>1. r.payload \in Seq(Orders) /\ r.payload # <<>> /\ r.frame \in Nat
      BY <2>2, <2>3 DEF Accepts, Recorded, IsRecord
    <3>2. r.payload[1] \in Orders
      BY <3>1
    <3>3. fed.departedAtFrame \in SUBSET Slot
      BY <2>2 DEF Cursor
    <3>4. RunOf(fed, r) \in FrameRun
      BY <3>1, <3>2, <3>3 DEF RunOf, FrameRun
    <3> QED BY <1>1, <2>1, <2>3, <3>4
  <2>4. CASE ~(Accepts(before, r) /\ r.kind = "Frame")
    BY <1>1, <2>1, <2>4
  <2> QED BY <2>3, <2>4
<1>2. f[0] \in Seq(FrameRun)
  <2>1. f[0] = <<>>
    BY FramesFedSteps
  <2> HIDE DEF f
  <2> QED BY <2>1
<1>3. Len(records) \in Nat
  OBVIOUS
<1> HIDE DEF f
<1>4. \A n \in 0 .. Len(records) : f[n] \in Seq(FrameRun)
  BY <1>1, <1>2, <1>3, UpTo
<1> QED BY <1>4 DEF f

LEMMA RoomLeft ==
    ASSUME NEW window \in Nat, NEW used \in Nat, used <= window, NEW wanted \in Nat
    PROVE  LET k == IF window - used < wanted THEN window - used ELSE wanted
           IN  k \in 0 .. wanted /\ used + k <= window
OBVIOUS

LEMMA SentType ==
    ASSUME TypeInv, NEW s \in Slot, NEW given \in 0 .. 1
    PROVE  up[s] \o Sent(s, given) \in Seq(Message) /\ Len(up[s] \o Sent(s, given)) <= ChannelWindow
<1> DEFINE c == client[s]
           orders == [i \in 1 .. given |-> [kind |-> "Order", id |-> c.orderId + i]]
           beat == [kind |-> "Beat", id |-> c.beatId + 1]
           messages == orders \o <<beat>>
           room == ChannelWindow - Len(up[s])
           k == IF room < Len(messages) THEN room ELSE Len(messages)
<1>1. up[s] \in Seq(Message) /\ Len(up[s]) <= ChannelWindow /\ c \in Client /\ ChannelWindow \in Nat
  BY AuthorityAssumption DEF TypeInv, WireTypes
<1>2. c.orderId \in Nat /\ c.beatId \in Nat
  BY <1>1 DEF Client
<1>3. orders \in Seq(Message)
  <2>1. \A i \in 1 .. given : [kind |-> "Order", id |-> c.orderId + i] \in Message
    BY <1>2 DEF Message
  <2> HIDE DEF c
  <2> QED BY <2>1
<1>4. <<beat>> \in Seq(Message)
  <2>1. beat \in Message
    BY <1>2 DEF Message
  <2> HIDE DEF beat
  <2> QED BY <2>1
<1>5. messages \in Seq(Message)
  <2> HIDE DEF orders, beat
  <2> QED BY <1>3, <1>4, Joined
<1>6. Sent(s, given) = SubSeq(messages, 1, k)
  BY DEF Sent
<1> HIDE DEF messages
<1>7. Len(up[s]) \in Nat /\ Len(messages) \in Nat
  BY <1>1, <1>5
<1>8. k \in 0 .. Len(messages) /\ Len(up[s]) + k <= ChannelWindow
  BY <1>1, <1>7, RoomLeft
<1> DEFINE queue == up[s]
           sent == SubSeq(messages, 1, k)
<1>9. sent \in Seq(Message) /\ Len(sent) = k
  BY <1>5, <1>8, FrontPart
<1>10. queue \o sent \in Seq(Message) /\ Len(queue \o sent) = Len(queue) + k
  <2> HIDE DEF k, sent, queue
  <2>1. queue \in Seq(Message)
    BY <1>1 DEF queue
  <2> QED BY <1>9, <2>1, Joined
<1> QED BY <1>6, <1>8, <1>10

LEMMA ClientUpdateTypes == ASSUME TypeInv, NEW s \in SlotMask, ClientUpdate(s) PROVE WireTypes'
<1>1. PICK given \in 0 .. 1, arrived \in 0 .. Len(down[s]) :
        /\ up' = [up EXCEPT ![s] = @ \o Sent(s, given)]
        /\ down' = [down EXCEPT ![s] = SubSeq(@, arrived + 1, Len(@))]
        /\ client' = [client EXCEPT ![s] =
              [cursor |-> Fed(client[s].cursor, SubSeq(down[s], 1, arrived)),
               orderId |-> client[s].orderId + given,
               beatId |-> client[s].beatId + 1,
               frames |-> client[s].frames \o FramesOf(client[s].cursor, SubSeq(down[s], 1, arrived)),
               rejected |-> client[s].rejected
                            \/ ~TakesAll(client[s].cursor, SubSeq(down[s], 1, arrived))]]
  BY DEF ClientUpdate
<1>2. s \in Slot /\ queued' = queued
  BY AuthorityAssumption DEF ClientUpdate
<1>3. WireTypes
  BY DEF TypeInv
<1>4. up' \in [Slot -> Seq(Message)] /\ \A t \in Slot : Len(up'[t]) <= ChannelWindow
  <2> DEFINE longer == up[s] \o Sent(s, given)
  <2>1. longer \in Seq(Message) /\ Len(longer) <= ChannelWindow
    BY <1>2, SentType
  <2>2. up' = [up EXCEPT ![s] = longer]
    BY <1>1
  <2> HIDE DEF longer
  <2> QED BY <1>2, <1>3, <2>1, <2>2 DEF WireTypes
<1>5. down' \in [Slot -> Seq(Recorded)] /\ \A t \in Slot : Len(down'[t]) <= queued[t]
  <2> DEFINE queue == down[s]
             rest == SubSeq(queue, arrived + 1, Len(queue))
  <2>1. queue \in Seq(Recorded) /\ Len(queue) <= queued[s] /\ queued[s] \in Int
    BY <1>2, <1>3, AuthorityAssumption DEF WireTypes
  <2>2. down' = [down EXCEPT ![s] = rest] /\ arrived \in 0 .. Len(queue)
    BY <1>1
  <2> HIDE DEF queue
  <2>3. rest \in Seq(Recorded) /\ Len(rest) = Len(queue) - arrived
    BY <2>1, <2>2, RestPart
  <2>4. Len(rest) <= queued[s]
    BY <2>1, <2>2, <2>3
  <2> HIDE DEF rest
  <2> QED BY <1>2, <1>3, <2>2, <2>3, <2>4 DEF WireTypes
<1>6. client' \in [Slot -> Client]
  <2> DEFINE c == client[s].cursor
             records == SubSeq(down[s], 1, arrived)
             frames == client[s].frames \o FramesOf(c, records)
             fed == Fed(c, records)
             refused == client[s].rejected \/ ~TakesAll(c, records)
  <2>1. down[s] \in Seq(Recorded) /\ client[s] \in Client
    BY <1>2, <1>3 DEF WireTypes
  <2>2. records \in Seq(Recorded)
    BY <2>1, FrontPart
  <2>3. c \in Cursor /\ client[s].frames \in Seq(FrameRun) /\ client[s].rejected \in BOOLEAN
        /\ client[s].orderId \in Nat /\ client[s].beatId \in Nat
    BY <2>1 DEF Client
  <2> HIDE DEF records, c
  <2>4. Len(records) \in 0 .. Len(records)
    BY <2>2
  <2>5. fed \in Cursor
    BY <2>2, <2>3, <2>4, FeedingType DEF Fed
  <2>6. FramesOf(c, records) \in Seq(FrameRun)
    BY <2>2, <2>3, <2>4, FramesFedType DEF FramesOf
  <2>7. frames \in Seq(FrameRun)
    BY <2>3, <2>6, Joined
  <2>8. refused \in BOOLEAN
    BY <2>3
  <2>9. client' = [client EXCEPT ![s] =
              [cursor |-> fed, orderId |-> client[s].orderId + given, beatId |-> client[s].beatId + 1,
               frames |-> frames, rejected |-> refused]]
    BY <1>1 DEF c, records
  <2>10. client[s].orderId + given \in Nat /\ client[s].beatId + 1 \in Nat
    BY <2>3
  <2> HIDE DEF fed, frames, refused
  <2>11. [cursor |-> fed, orderId |-> client[s].orderId + given, beatId |-> client[s].beatId + 1,
          frames |-> frames, rejected |-> refused] \in Client
    BY <2>5, <2>7, <2>8, <2>10 DEF Client
  <2> QED BY <1>2, <1>3, <2>9, <2>11 DEF WireTypes
<1> QED BY <1>2, <1>3, <1>4, <1>5, <1>6 DEF WireTypes

LEMMA MembershipTypes ==
    ASSUME NEW m \in Snapshot, NEW s \in Slot, NEW ticket \in Nat, NEW quiet \in SUBSET Slot
    PROVE  Bound(m, s, ticket) \in Snapshot /\ Departed(m, s) \in Snapshot /\ Held(m, quiet) \in Snapshot
<1>1. Bound(m, s, ticket) \in Snapshot
  <2> DEFINE loaded == IF s \in m.active THEN m.loaded ELSE m.loaded \union {s}
             ids == [m.generation EXCEPT ![s] = ticket]
  <2>1. loaded \in SUBSET Slot /\ m.held \ {s} \in SUBSET Slot /\ m.active \union {s} \in SUBSET Slot
    BY DEF Snapshot
  <2>2. ids \in [Slot -> Nat]
    BY DEF Snapshot
  <2>3. Bound(m, s, ticket) = [m EXCEPT !.held = m.held \ {s}, !.active = m.active \union {s},
                                        !.loaded = loaded, !.generation = ids]
    BY DEF Bound, Snapshot
  <2> HIDE DEF loaded, ids
  <2> QED BY <2>1, <2>2, <2>3 DEF Snapshot
<1>2. Departed(m, s) \in Snapshot
  BY DEF Departed, Snapshot
<1>3. Held(m, quiet) \in Snapshot
  BY DEF Held, Snapshot
<1> QED BY <1>1, <1>2, <1>3

LEMMA BindTypes ==
    ASSUME TypeInv, NEW s \in SlotMask, Hello(s) \/ HelloAgain(s) \/ Rejoin(s), UNCHANGED game
    PROVE  TypeInv'
<1>1. s \in Slot /\ AuthorityTypes /\ CoreTypes /\ WireTypes /\ membership.generation[s] \in Nat
  BY AuthorityAssumption DEF TypeInv, AuthorityTypes, Snapshot
<1>2. membership' \in Snapshot
  <2>1. PICK ticket \in Nat : membership' = Bound(membership, s, ticket)
    <3>1. \A ticket \in game.tickets[s] : ticket \in Nat
      BY <1>1, AuthorityAssumption DEF TypeInv
    <3> QED BY <1>1, <3>1 DEF Hello, HelloAgain, Rejoin
  <2>2. membership \in Snapshot /\ {} \in SUBSET Slot
    BY <1>1 DEF AuthorityTypes
  <2> QED BY <1>1, <2>1, <2>2, MembershipTypes
<1>3. AuthorityTypes'
  <2>1. /\ UNCHANGED <<builder, sequence, generation, outbox, failed, refusedAt>> /\ dirty' = TRUE
        /\ members' = members \/ members' = members \union {s}
    BY DEF Hello, HelloAgain, Rejoin
  <2> QED BY <1>1, <1>2, <2>1 DEF AuthorityTypes
<1>4. CoreTypes'
  <2>1. /\ UNCHANGED <<bye, live, log, closed, now>> /\ repeats' \in Nat
        /\ members' = members \/ members' = members \union {s}
    BY <1>1 DEF Hello, HelloAgain, Rejoin, coreVars, CoreTypes
  <2> QED BY <1>1, <2>1 DEF CoreTypes
<1>5. WireTypes'
  <2>1. CASE UNCHANGED wireVars
    BY <1>1, <2>1 DEF WireTypes, wireVars
  <2>2. CASE Rejoin(s)
    <3>1. NewClient \in Client
      BY NewCursorType DEF NewClient, Client
    <3>2. ChannelWindow \in Nat
      BY AuthorityAssumption
    <3>3. up' \in [Slot -> Seq(Message)] /\ \A t \in Slot : Len(up'[t]) <= ChannelWindow
      BY <1>1, <2>2, <3>2 DEF Rejoin, WireTypes
    <3>4. down' \in [Slot -> Seq(Recorded)] /\ queued' \in [Slot -> 0 .. ChannelWindow]
      BY <1>1, <2>2, <3>2 DEF Rejoin, WireTypes
    <3>5. \A t \in Slot : Len(down'[t]) <= queued'[t]
      BY <1>1, <2>2, <3>2 DEF Rejoin, WireTypes
    <3>6. client' \in [Slot -> Client]
      BY <1>1, <2>2, <3>1 DEF Rejoin, WireTypes
    <3> QED BY <3>3, <3>4, <3>5, <3>6 DEF WireTypes
  <2> QED BY <2>1, <2>2 DEF Hello, HelloAgain
<1> QED BY <1>3, <1>4, <1>5 DEF TypeInv

LEMMA ReceiveTypes ==
    ASSUME TypeInv, NEW s \in SlotMask, ReceiveData(s), UNCHANGED game
    PROVE  TypeInv'
<1>1. PICK arrived \in 0 .. Len(up[s]) :
        /\ up' = [up EXCEPT ![s] = SubSeq(@, arrived + 1, Len(@))]
        /\ refusedAt' = refusedAt \/ refusedAt' = refusedAt \union {s}
        /\ Pump(Admitting(builder, s, SubSeq(up[s], 1, arrived))[arrived], membership, dirty)
  BY DEF ReceiveData
<1>2. /\ s \in Slot /\ s \in members /\ AuthorityTypes /\ CoreTypes /\ WireTypes
      /\ UNCHANGED <<members, bye, closed, repeats, now, client>>
  BY AuthorityAssumption DEF TypeInv, ReceiveData
<1> DEFINE queue == up[s]
           taken == SubSeq(queue, 1, arrived)
           b == Admitting(builder, s, taken)[arrived]
<1>3. queue \in Seq(Message) /\ Len(queue) <= ChannelWindow
  BY <1>2 DEF WireTypes
<1>4. b \in Builder
  <2>1. taken \in Seq(Message) /\ Len(taken) = arrived
    BY <1>1, <1>3, FrontPart
  <2>2. builder \in Builder /\ now \in Nat /\ OriginMs <= now
    BY <1>2 DEF AuthorityTypes, CoreTypes
  <2> HIDE DEF taken
  <2>3. arrived \in 0 .. Len(taken)
    BY <2>1
  <2> QED BY <1>2, <2>1, <2>2, <2>3, AdmittingType
<1>5. membership \in Snapshot /\ dirty \in BOOLEAN /\ Pump(b, membership, dirty)
  BY <1>1, <1>2 DEF AuthorityTypes
<1> HIDE DEF b
<1>6. AuthorityTypes' /\ CoreTypes' /\ down' \in [Slot -> Seq(Recorded)]
      /\ queued' \in [Slot -> 0 .. ChannelWindow] /\ \A t \in Slot : Len(down'[t]) <= queued'[t]
  <2>1. refusedAt' \subseteq members
    BY <1>1, <1>2 DEF AuthorityTypes
  <2> QED BY <1>2, <1>4, <1>5, <2>1, PumpTypes DEF AuthorityTypes, CoreTypes
<1>7. up' \in [Slot -> Seq(Message)] /\ \A t \in Slot : Len(up'[t]) <= ChannelWindow
  <2> DEFINE rest == SubSeq(queue, arrived + 1, Len(queue))
  <2> HIDE DEF queue
  <2>1. rest \in Seq(Message) /\ Len(rest) = Len(queue) - arrived /\ arrived \in 0 .. Len(queue)
    BY <1>1, <1>3, RestPart DEF queue
  <2>2. Len(rest) <= ChannelWindow
    BY <1>3, <2>1, AuthorityAssumption
  <2>3. up' = [up EXCEPT ![s] = rest]
    BY <1>1 DEF queue
  <2> HIDE DEF rest
  <2> QED BY <1>2, <2>1, <2>2, <2>3 DEF WireTypes
<1>8. WireTypes'
  BY <1>2, <1>6, <1>7 DEF WireTypes
<1> QED BY <1>6, <1>8 DEF TypeInv

LEMMA TickTypes == ASSUME TypeInv, Tick, UNCHANGED game PROVE TypeInv'
<1>1. PICK quiet \in SUBSET (game.silent \intersect (members \ bye)) :
        Pump(builder, Held(membership, Holdable(membership, quiet)),
             dirty \/ Holdable(membership, quiet) # {})
  BY DEF Tick
<1>2. /\ AuthorityTypes /\ CoreTypes /\ WireTypes
      /\ UNCHANGED <<members, refusedAt, bye, closed, repeats, now, up, client>>
  BY DEF TypeInv, Tick
<1> DEFINE m == Held(membership, Holdable(membership, quiet))
           changed == dirty \/ Holdable(membership, quiet) # {}
<1>3. m \in Snapshot
  <2>1. Holdable(membership, quiet) \in SUBSET Slot
    BY <1>2, AuthorityAssumption DEF Holdable, AuthorityTypes
  <2>2. membership \in Snapshot
    BY <1>2 DEF AuthorityTypes
  <2> QED BY <2>1, <2>2 DEF Held, Snapshot
<1>4. builder \in Builder /\ changed \in BOOLEAN /\ Pump(builder, m, changed)
  BY <1>1, <1>2 DEF AuthorityTypes
<1> HIDE DEF m, changed
<1>5. AuthorityTypes' /\ CoreTypes' /\ down' \in [Slot -> Seq(Recorded)]
      /\ queued' \in [Slot -> 0 .. ChannelWindow] /\ \A t \in Slot : Len(down'[t]) <= queued'[t]
  BY <1>2, <1>3, <1>4, PumpTypes DEF AuthorityTypes, CoreTypes
<1>6. WireTypes'
  BY <1>2, <1>5 DEF WireTypes
<1> QED BY <1>5, <1>6 DEF TypeInv

LEMMA EndType == ASSUME TypeInv PROVE EndRecord \in Recorded
<1>1. sequence + 1 \in Nat /\ builder \in Builder /\ generation \in Nat
  BY DEF TypeInv, AuthorityTypes
<1> QED BY <1>1, StampedType DEF EndRecord

LEMMA CloseTypes ==
    ASSUME TypeInv, Close
    PROVE  /\ closed' = TRUE /\ live' \in BOOLEAN /\ failed' \in BOOLEAN /\ sequence' \in Nat
           /\ log' \in Seq(Recorded) /\ outbox' \in Seq(Recorded)
<1>1. /\ sequence \in Nat /\ outbox \in Seq(Recorded) /\ log \in Seq(Recorded)
      /\ live \in BOOLEAN /\ failed \in BOOLEAN
  BY DEF TypeInv, AuthorityTypes, CoreTypes
<1>2. closed' = TRUE
  BY DEF Close
<1>3. CASE live
  <2>1. PICK landed \in 0 .. Len(outbox) + 1 :
          /\ Appends(Append(outbox, EndRecord), landed)
          /\ outbox' = SubSeq(outbox, landed + 1, Len(outbox))
          /\ sequence' = IF landed < Len(outbox) THEN sequence ELSE sequence + 1
          /\ failed' = (failed \/ landed < Len(outbox))
    BY <1>3 DEF Close
  <2>2. Append(outbox, EndRecord) \in Seq(Recorded) /\ Len(Append(outbox, EndRecord)) = Len(outbox) + 1
    BY <1>1, EndType
  <2>3. log' \in Seq(Recorded) /\ live' \in BOOLEAN
    BY <1>1, <2>1, <2>2, AppendsType
  <2>4. SubSeq(outbox, landed + 1, Len(outbox)) \in Seq(Recorded)
    BY <1>1, <2>1
  <2> QED BY <1>1, <1>2, <2>1, <2>3, <2>4
<1>4. CASE ~live
  BY <1>1, <1>2, <1>4 DEF Close
<1> QED BY <1>1, <1>3, <1>4

LEMMA EndingTypes ==
    ASSUME TypeInv, IdleClose \/ \E s \in SlotMask : Bye(s), UNCHANGED game
    PROVE  TypeInv'
<1>1. AuthorityTypes /\ CoreTypes /\ WireTypes
  BY DEF TypeInv
<1>2. WireTypes'
  BY <1>1 DEF WireTypes, wireVars, IdleClose, Bye
<1>3. ASSUME IdleClose PROVE AuthorityTypes' /\ CoreTypes'
  BY <1>1, <1>3, CloseTypes DEF IdleClose, AuthorityTypes, CoreTypes
<1>4. ASSUME NEW s \in SlotMask, Bye(s) PROVE AuthorityTypes' /\ CoreTypes'
  <2>1. /\ s \in members /\ s \in Slot /\ bye' = bye \union {s} /\ membership' = Departed(membership, s)
        /\ dirty' = TRUE /\ UNCHANGED <<builder, members, generation, refusedAt, now>>
    BY <1>4, AuthorityAssumption DEF Bye
  <2>2. repeats' \in Nat
    BY <1>1, <1>4 DEF Bye, CoreTypes
  <2>3. membership' \in Snapshot
    BY <1>1, <2>1, MembershipTypes DEF AuthorityTypes
  <2>4. /\ closed' \in BOOLEAN /\ live' \in BOOLEAN /\ failed' \in BOOLEAN /\ sequence' \in Nat
        /\ log' \in Seq(Recorded) /\ outbox' \in Seq(Recorded)
    <3>1. CASE Close
      BY <3>1, CloseTypes
    <3>2. CASE UNCHANGED <<closed, live, log, outbox, sequence, failed>>
      BY <1>1, <3>2 DEF AuthorityTypes, CoreTypes
    <3> QED BY <1>4, <3>1, <3>2 DEF Bye
  <2>5. AuthorityTypes'
    BY <1>1, <2>1, <2>3, <2>4 DEF AuthorityTypes
  <2>6. CoreTypes'
    BY <1>1, <2>1, <2>2, <2>4 DEF CoreTypes
  <2> QED BY <2>5, <2>6
<1> QED BY <1>2, <1>3, <1>4 DEF TypeInv

LEMMA StepTypes == TypeInv /\ [Next]_vars => TypeInv'
<1> SUFFICES ASSUME TypeInv, [Next]_vars PROVE TypeInv'
  OBVIOUS
<1>1. CASE Next
  <2>1. UNCHANGED game
    BY <1>1 DEF Next
  <2>2. ASSUME NEW s \in SlotMask, ClientUpdate(s) PROVE TypeInv'
    <3>1. WireTypes'
      BY <2>2, ClientUpdateTypes
    <3>2. AuthorityTypes' /\ CoreTypes'
      BY <2>2 DEF ClientUpdate, TypeInv, AuthorityTypes, CoreTypes, authorityVars, coreVars
    <3> QED BY <2>1, <3>1, <3>2 DEF TypeInv
  <2>3. CASE LogStops \/ TimePasses
    <3>1. AuthorityTypes' /\ WireTypes'
      BY <2>3 DEF LogStops, TimePasses, TypeInv, AuthorityTypes, WireTypes, authorityVars, wireVars
    <3>2. CoreTypes'
      <4>1. live' \in BOOLEAN /\ now' \in Nat /\ OriginMs <= now'
        <5>1. now \in Nat /\ OriginMs <= now /\ OriginMs \in Nat /\ live \in BOOLEAN
          BY ClockAssumption DEF TypeInv, CoreTypes
        <5>2. (now' = now \/ now' = now + 1) /\ (live' = live \/ live' = FALSE)
          BY <2>3 DEF LogStops, TimePasses
        <5>3. live' \in BOOLEAN
          BY <5>1, <5>2, Zenon
        <5> QED BY <5>1, <5>2, <5>3
      <4>2. UNCHANGED <<bye, log, closed, repeats, members>>
        BY <2>3 DEF LogStops, TimePasses, authorityVars
      <4> QED BY <4>1, <4>2 DEF TypeInv, CoreTypes
    <3> QED BY <2>1, <3>1, <3>2 DEF TypeInv
  <2> QED BY <1>1, <2>1, <2>2, <2>3, BindTypes, ReceiveTypes, TickTypes, EndingTypes DEF Next
<1>2. CASE UNCHANGED vars
  BY <1>2 DEF vars, authorityVars, coreVars, wireVars, TypeInv, AuthorityTypes, CoreTypes, WireTypes
<1> QED BY <1>1, <1>2

LEMMA AuthorityTyped == Spec => []TypeInv
BY InitTypes, StepTypes, PTL DEF Spec

\* Every part of the game keeps its type: the frame counters stay in their
\* range and no channel ever holds more than its window.
THEOREM AuthorityTypeCorrect == Spec => []TypeOK
<1>1. ASSUME TypeInv PROVE TypeOK
  <2>1. AuthorityTypes /\ CoreTypes /\ WireTypes
    BY <1>1 DEF TypeInv
  <2>2. \A q \in Seq(Recorded) : \A i \in 1 .. Len(q) : IsRecord(q[i])
    <3> SUFFICES ASSUME NEW q \in Seq(Recorded), NEW i \in 1 .. Len(q) PROVE IsRecord(q[i])
      OBVIOUS
    <3>1. q[i] \in Recorded
      OBVIOUS
    <3> QED BY <3>1 DEF Recorded
  <2>3. builder.nextFrame \in FirstFrame .. MaxFrame
        /\ \A s \in Slot : builder.beatFrame[s] \in FirstFrame .. MaxFrame
    BY <2>1 DEF AuthorityTypes, Builder
  <2> QED BY <2>1, <2>2, <2>3 DEF TypeOK, AuthorityTypes, CoreTypes, WireTypes
<1> QED BY <1>1, AuthorityTyped, PTL

-----------------------------------------------------------------------------
\* What a reader takes.

\* A list of records read after another.
LEMMA FeedingJoined ==
    ASSUME NEW p \in Seq(Recorded), NEW q \in Seq(Recorded), NEW d, d = Feeding(NewCursor, p)[Len(p)]
    PROVE  /\ \A n \in 0 .. Len(p) : Feeding(NewCursor, p \o q)[n] = Feeding(NewCursor, p)[n]
           /\ \A n \in 0 .. Len(q) : Feeding(NewCursor, p \o q)[Len(p) + n] = Feeding(d, q)[n]
           /\ TakesAll(NewCursor, p) /\ TakesAll(d, q) => TakesAll(NewCursor, p \o q)
<1> DEFINE r == p \o q
<1>1. /\ r \in Seq(Recorded) /\ Len(r) = Len(p) + Len(q)
      /\ \A i \in 1 .. Len(p) : r[i] = p[i]
      /\ \A i \in 1 .. Len(q) : r[Len(p) + i] = q[i]
  BY Joined
<1>2. Len(p) \in Nat /\ Len(q) \in Nat
  OBVIOUS
<1> HIDE DEF r
<1>3. \A n \in 0 .. Len(p) : Feeding(NewCursor, p)[n] = Feeding(NewCursor, r)[0 + n]
  <2>1. Len(r) \in Nat /\ Along(p, 0, r)
    BY <1>1, <1>2 DEF Along
  <2>2. NewCursor = Feeding(NewCursor, r)[0]
    BY <2>1, FeedingSteps
  <2> QED BY <1>2, <2>1, <2>2, FeedingAlong
<1>4. d = Feeding(NewCursor, r)[Len(p)]
  BY <1>2, <1>3
<1>5. \A n \in 0 .. Len(q) : Feeding(d, q)[n] = Feeding(NewCursor, r)[Len(p) + n]
  <2>1. Len(r) \in Nat /\ Along(q, Len(p), r)
    BY <1>1, <1>2 DEF Along
  <2> QED BY <1>2, <1>4, <2>1, FeedingAlong
<1>6. ASSUME TakesAll(NewCursor, p), TakesAll(d, q) PROVE TakesAll(NewCursor, r)
  <2> SUFFICES ASSUME NEW i \in 1 .. Len(r) PROVE Accepts(Feeding(NewCursor, r)[i - 1], r[i])
    BY DEF TakesAll
  <2>1. CASE i <= Len(p)
    <3>1. i \in 1 .. Len(p) /\ i - 1 \in 0 .. Len(p) /\ 0 + (i - 1) = i - 1
      BY <1>2, <2>1
    <3>2. Accepts(Feeding(NewCursor, p)[i - 1], p[i])
      BY <1>6, <3>1 DEF TakesAll
    <3> QED BY <1>1, <1>3, <3>1, <3>2
  <2>2. CASE i > Len(p)
    <3> DEFINE j == i - Len(p)
    <3>1. j \in 1 .. Len(q) /\ j - 1 \in 0 .. Len(q) /\ Len(p) + (j - 1) = i - 1 /\ Len(p) + j = i
      BY <1>1, <1>2, <2>2
    <3> HIDE DEF j
    <3>2. Accepts(Feeding(d, q)[j - 1], q[j])
      BY <1>6, <3>1 DEF TakesAll
    <3>3. Feeding(d, q)[j - 1] = Feeding(NewCursor, r)[i - 1] /\ q[j] = r[i]
      BY <1>1, <1>5, <3>1
    <3> QED BY <3>2, <3>3
  <2> QED BY <1>1, <1>2, <2>1, <2>2
<1>7. \A n \in 0 .. Len(p) : 0 + n = n
  BY <1>2
<1> QED BY <1>3, <1>5, <1>6, <1>7 DEF r

\* A cursor that takes a list takes its beginning.
LEMMA TakesFront ==
    ASSUME NEW c, NEW q \in Seq(Recorded), NEW k \in 0 .. Len(q), TakesAll(c, q)
    PROVE  TakesAll(c, SubSeq(q, 1, k))
<1> DEFINE p == SubSeq(q, 1, k)
<1>1. p \in Seq(Recorded) /\ Len(p) = k /\ \A i \in 1 .. k : p[i] = q[i]
  BY FrontPart
<1> HIDE DEF p
<1>2. \A n \in 0 .. Len(p) : Feeding(c, p)[n] = Feeding(c, q)[0 + n]
  <2>1. Len(p) \in Nat /\ Len(q) \in Nat /\ Along(p, 0, q)
    BY <1>1 DEF Along
  <2>2. c = Feeding(c, q)[0]
    BY <2>1, FeedingSteps
  <2> QED BY <2>1, <2>2, FeedingAlong
<1>3. ASSUME NEW i \in 1 .. Len(p) PROVE Accepts(Feeding(c, p)[i - 1], p[i])
  <2>1. i \in 1 .. Len(q) /\ i - 1 \in 0 .. Len(p) /\ 0 + (i - 1) = i - 1 /\ p[i] = q[i]
    BY <1>1
  <2>2. Accepts(Feeding(c, q)[i - 1], q[i])
    BY <2>1 DEF TakesAll
  <2>3. Feeding(c, p)[i - 1] = Feeding(c, q)[i - 1]
    BY <1>2, <2>1
  <2> QED BY <2>1, <2>2, <2>3
<1>4. TakesAll(c, p)
  BY <1>3 DEF TakesAll
<1> QED BY <1>4 DEF p

\* A membership the authority encodes is one the cursor takes.
LEMMA TakesMembership ==
    ASSUME NEW c \in Cursor, NEW b \in Builder, NEW m \in Snapshot, Clocked(m), Behind(c, m, TRUE), Valid(m),
           ~c.ended, c.sequence = sequence, c.generation = generation, c.nextFrame = b.nextFrame
    PROVE  Accepts(c, MembershipRecord(b, m))
<1> DEFINE r == MembershipRecord(b, m)
<1>1. /\ r.kind = "Membership" /\ r.sequence = c.sequence + 1 /\ r.frame = c.nextFrame
      /\ r.generation = c.generation + 1 /\ r.payload = <<m>>
  BY DEF MembershipRecord, Stamped
<1> HIDE DEF r
<1>2. r.payload # <<>> /\ r.payload[1] = m
  BY <1>1
<1>3. \A s \in Slot : m.generation[s] \in {c.staged.generation[s], c.staged.generation[s] + 1}
  BY DEF Clocked, Behind
<1>4. ClockFollows(c, m)
  <2>1. c.generation \in Nat
    BY DEF Cursor
  <2> QED BY <2>1 DEF ClockFollows, Clocked, Behind
<1>5. MembershipFollows(c, m)
  BY <1>3, <1>4 DEF MembershipFollows, Clocked, Behind
<1> QED BY <1>1, <1>2, <1>5 DEF r, Accepts, InSequence

\* A frame the authority seals is one the cursor that holds its membership takes.
LEMMA TakesFrame ==
    ASSUME NEW c \in Cursor, NEW b \in Builder, NEW m \in Snapshot, CanSeal(b, m), m.clockValid,
           c.hasMembership, c.staged = m, ~c.ended, c.nextFrame = b.nextFrame,
           NEW n, n = c.sequence + 1
    PROVE  Accepts(c, Stamped("Frame", n, b, c.generation, <<Gathered(b, m)>>))
<1> DEFINE r == Stamped("Frame", n, b, c.generation, <<Gathered(b, m)>>)
           orders == Gathered(b, m)
<1>1. /\ r.kind = "Frame" /\ r.sequence = n /\ r.frame = c.nextFrame
      /\ r.generation = c.generation /\ r.payload = <<orders>>
  BY DEF Stamped
<1>2. \A s \in Slot : orders[s] # <<>> => s \in m.active
  BY GatheredType
<1> HIDE DEF r, orders
<1>3. r.payload # <<>> /\ r.payload[1] = orders
  BY <1>1
<1>4. ValidFrame(orders, m) /\ b.nextFrame # MaxFrame
  BY <1>2 DEF ValidFrame, CanSeal
<1> QED BY <1>1, <1>3, <1>4 DEF r, orders, Accepts, InSequence

LEMMA HeldStaged ==
    ASSUME NEW c \in Cursor, NEW m, Clocked(m), c.staged = m, c.hasMembership, c.generation > 0
    PROVE  Behind(c, m, FALSE)
<1>1. \A s \in Slot : m.generation[s] \in {0, 1} /\ m.generation[s] <= m.generation[s]
  BY DEF Clocked
<1>2. c.generation # 0
  BY DEF Cursor
<1> QED BY <1>1, <1>2 DEF Clocked, Behind

\* One record, and two.
LEMMA FeedingOne ==
    ASSUME NEW c, NEW x
    PROVE  /\ Len(<<x>>) = 1 /\ Feeding(c, <<x>>)[1] = Accepted(c, x)
           /\ Accepts(c, x) => TakesAll(c, <<x>>)
<1>1. Len(<<x>>) = 1 /\ <<x>>[1] = x
  OBVIOUS
<1>2. Feeding(c, <<x>>)[0] = c /\ Feeding(c, <<x>>)[1] = Accepted(Feeding(c, <<x>>)[1 - 1], <<x>>[1])
  BY <1>1, FeedingSteps
<1>3. Feeding(c, <<x>>)[1 - 1] = c
  BY <1>2
<1>4. ASSUME Accepts(c, x) PROVE TakesAll(c, <<x>>)
  <2> SUFFICES ASSUME NEW i \in 1 .. Len(<<x>>) PROVE Accepts(Feeding(c, <<x>>)[i - 1], <<x>>[i])
    BY DEF TakesAll
  <2>1. i = 1
    BY <1>1
  <2> QED BY <1>1, <1>3, <1>4, <2>1
<1> QED BY <1>1, <1>2, <1>3, <1>4

LEMMA FeedingTwo ==
    ASSUME NEW c, NEW x, NEW y
    PROVE  /\ Len(<<x, y>>) = 2 /\ Feeding(c, <<x, y>>)[2] = Accepted(Accepted(c, x), y)
           /\ Accepts(c, x) /\ Accepts(Accepted(c, x), y) => TakesAll(c, <<x, y>>)
<1> DEFINE q == <<x, y>>
<1>1. Len(q) = 2 /\ q[1] = x /\ q[2] = y
  OBVIOUS
<1> HIDE DEF q
<1>2. /\ Feeding(c, q)[0] = c /\ Feeding(c, q)[1] = Accepted(Feeding(c, q)[1 - 1], q[1])
      /\ Feeding(c, q)[2] = Accepted(Feeding(c, q)[2 - 1], q[2])
  <2>1. Len(q) \in Nat /\ 1 \in 1 .. Len(q) /\ 2 \in 1 .. Len(q)
    BY <1>1
  <2> QED BY <2>1, FeedingSteps
<1>3. Feeding(c, q)[1 - 1] = c /\ Feeding(c, q)[2 - 1] = Feeding(c, q)[1]
  BY <1>2
<1>4. Feeding(c, q)[2 - 1] = Accepted(c, x)
  BY <1>1, <1>2, <1>3
<1>5. ASSUME Accepts(c, x), Accepts(Accepted(c, x), y) PROVE TakesAll(c, q)
  <2> SUFFICES ASSUME NEW i \in 1 .. Len(q) PROVE Accepts(Feeding(c, q)[i - 1], q[i])
    BY DEF TakesAll
  <2>1. i = 1 \/ i = 2
    BY <1>1
  <2>2. CASE i = 1
    BY <1>1, <1>3, <1>5, <2>2
  <2>3. CASE i = 2
    BY <1>1, <1>4, <1>5, <2>3
  <2> QED BY <2>1, <2>2, <2>3
<1>6. Feeding(c, q)[2] = Accepted(Accepted(c, x), y)
  BY <1>1, <1>2, <1>4
<1> QED BY <1>1, <1>5, <1>6 DEF q

\* A reader that expects what the authority stamps takes what a pump stages.
LEMMA StagedTaken ==
    ASSUME sequence \in Nat, generation \in Nat, SlotMask # {},
           NEW c \in Cursor, NEW b \in Builder, NEW m \in Snapshot, NEW changed \in BOOLEAN,
           Clocked(m), Behind(c, m, changed), changed => Valid(m), ~c.ended,
           c.sequence = sequence, c.generation = generation, c.nextFrame = b.nextFrame,
           NEW staged, staged = StagedRecords(b, m, changed)
    PROVE  LET d == Feeding(c, staged)[Len(staged)] IN
           /\ TakesAll(c, staged)
           /\ d \in Cursor /\ ~d.ended /\ d.sequence = sequence + Len(staged)
           /\ d.generation = IF changed THEN generation + 1 ELSE generation
           /\ d.nextFrame = IF CanSeal(b, m) THEN b.nextFrame + 1 ELSE b.nextFrame
           /\ Behind(d, m, FALSE)
<1> DEFINE d == Feeding(c, staged)[Len(staged)]
           M == MembershipRecord(b, m)
           F(k) == FrameRecord(b, m, k)
<1>1. /\ M \in Recorded /\ M.kind = "Membership" /\ M.generation = generation + 1
      /\ Valid(m) => M.payload = <<m>>
  BY StagedType DEF MembershipRecord, Stamped
<1>2. \A k \in BOOLEAN : F(k) \in Recorded /\ F(k).kind = "Frame"
                          /\ F(k).generation = IF k THEN generation + 1 ELSE generation
  BY StagedType DEF FrameRecord, Stamped
<1>3. m.clockValid
  BY DEF Clocked
<1>4. CASE changed
  <2>1. Behind(c, m, TRUE) /\ Valid(m)
    BY <1>4 DEF Behind
  <2>2. Accepts(c, M)
    BY <2>1, TakesMembership
  <2> DEFINE e == Accepted(c, M)
  <2>3. M \in Recorded /\ M.kind = "Membership" /\ M.generation = generation + 1 /\ M.payload[1] = m
    BY <1>1, <2>1
  <2> HIDE DEF M
  <2>4. /\ e \in Cursor /\ e.sequence = sequence + 1 /\ e.generation = generation + 1
        /\ e.staged = m /\ e.hasMembership /\ e.nextFrame = b.nextFrame /\ ~e.ended
    <3>1. c \in Cursor /\ M \in Recorded /\ Accepts(c, M) /\ M.kind = "Membership"
      BY <2>2, <2>3
    <3>2. /\ e \in Cursor /\ e.sequence = c.sequence + 1 /\ e.generation = M.generation
          /\ e.staged = M.payload[1] /\ e.hasMembership = TRUE
          /\ e.nextFrame = c.nextFrame /\ e.ended = c.ended
      BY ONLY <3>1, AcceptedCases
    <3> HIDE DEF e
    <3> QED BY <2>3, <3>2, Zenon
  <2> HIDE DEF e
  <2>5. CASE ~CanSeal(b, m)
    <3>1. staged = <<M>>
      BY <1>4, <2>5, StagedCases DEF M
    <3>2. TakesAll(c, staged) /\ d = e /\ Len(staged) = 1
      BY <2>2, <3>1, FeedingOne DEF e
    <3>3. Behind(e, m, FALSE)
      <4>1. e.generation > 0
        BY <2>4
      <4> QED BY <2>4, <4>1, HeldStaged
    <3> QED BY <1>4, <2>4, <2>5, <3>2, <3>3
  <2>6. CASE CanSeal(b, m)
    <3> DEFINE r == F(TRUE)
    <3>1. staged = <<M, r>>
      BY <1>4, <2>6, StagedCases DEF M
    <3>2. r = Stamped("Frame", e.sequence + 1, b, e.generation, <<Gathered(b, m)>>)
      <4>1. e.sequence + 1 = sequence + 2
        BY <2>4
      <4> QED BY <2>4, <4>1 DEF FrameRecord
    <3>3. Accepts(e, r)
      BY <1>3, <2>4, <2>6, <3>2, TakesFrame
    <3>4. r \in Recorded /\ r.kind = "Frame" /\ r.generation = generation + 1
      BY <1>2
    <3> HIDE DEF r
    <3> DEFINE f == Accepted(e, r)
    <3>5. /\ f \in Cursor /\ f.sequence = e.sequence + 1 /\ f.generation = generation + 1
          /\ f.staged = m /\ f.hasMembership /\ f.nextFrame = e.nextFrame + 1 /\ ~f.ended
      <4>1. /\ f \in Cursor /\ f.sequence = e.sequence + 1 /\ f.generation = r.generation
            /\ f.staged = e.staged /\ f.nextFrame = e.nextFrame + 1
            /\ f.hasMembership = e.hasMembership /\ f.ended = e.ended
        <5>1. e \in Cursor /\ r \in Recorded /\ Accepts(e, r) /\ r.kind = "Frame"
          BY <2>4, <3>3, <3>4
        <5> QED BY ONLY <5>1, AcceptedCases
      <4> HIDE DEF f
      <4> QED BY <2>4, <3>4, <4>1, Zenon
    <3>6. TakesAll(c, staged) /\ d = f /\ Len(staged) = 2
      BY <2>2, <3>1, <3>3, FeedingTwo DEF e
    <3> HIDE DEF f
    <3>7. Behind(f, m, FALSE)
      <4>1. f.generation > 0
        BY <3>5
      <4> QED BY <3>5, <4>1, HeldStaged
    <3>8. f.sequence = sequence + 2
      BY <2>4, <3>5
    <3> QED BY <1>4, <2>4, <2>6, <3>5, <3>6, <3>7, <3>8
  <2> QED BY <2>5, <2>6
<1>5. CASE ~changed
  <2>1. Behind(c, m, FALSE)
    BY <1>5 DEF Behind
  <2>2. CASE ~CanSeal(b, m)
    <3>1. staged = <<>>
      BY <1>5, <2>2, StagedCases
    <3>2. Len(staged) = 0 /\ sequence + 0 = sequence
      BY <3>1
    <3>3. d = c
      BY <3>2, FeedingSteps
    <3>4. TakesAll(c, staged)
      BY <3>2 DEF TakesAll
    <3> QED BY <1>5, <2>1, <2>2, <3>2, <3>3, <3>4
  <2>3. CASE CanSeal(b, m)
    <3> DEFINE r == F(FALSE)
    <3>1. staged = <<r>>
      BY <1>5, <2>3, StagedCases
    <3>2. r = Stamped("Frame", c.sequence + 1, b, c.generation, <<Gathered(b, m)>>)
      BY DEF FrameRecord
    <3>3. c.generation > 0 /\ c.staged = m /\ c.hasMembership
      <4>1. members # {}
        BY <2>3 DEF CanSeal, Valid, Clocked
      <4>2. c.generation # 0
        BY <2>1, <4>1 DEF Behind
      <4> QED BY <2>1, <4>2 DEF Behind, Cursor
    <3>4. Accepts(c, r)
      BY <1>3, <2>3, <3>2, <3>3, TakesFrame
    <3>5. r \in Recorded /\ r.kind = "Frame" /\ r.generation = generation
      BY <1>2
    <3> HIDE DEF r
    <3> DEFINE f == Accepted(c, r)
    <3>6. /\ f \in Cursor /\ f.sequence = sequence + 1 /\ f.generation = generation
          /\ f.staged = m /\ f.hasMembership /\ f.nextFrame = b.nextFrame + 1 /\ ~f.ended
      <4>1. /\ f \in Cursor /\ f.sequence = c.sequence + 1 /\ f.generation = r.generation
            /\ f.staged = c.staged /\ f.nextFrame = c.nextFrame + 1
            /\ f.hasMembership = c.hasMembership /\ f.ended = c.ended
        BY <3>4, <3>5, AcceptedCases
      <4> HIDE DEF f
      <4> QED BY <3>3, <3>5, <4>1, Zenon
    <3>7. TakesAll(c, staged) /\ d = f /\ Len(staged) = 1
      BY <3>1, <3>4, FeedingOne
    <3> HIDE DEF f
    <3>8. Behind(f, m, FALSE)
      BY <3>3, <3>6, HeldStaged
    <3> QED BY <1>5, <2>3, <3>6, <3>7, <3>8
  <2> QED BY <2>2, <2>3
<1> QED BY <1>4, <1>5

-----------------------------------------------------------------------------
\* The log after a pump.

\* The reader expects what a pump of this builder and this membership stages.
Ready(b, m, changed) ==
    /\ ~failed /\ ~closed /\ TakesAll(NewCursor, log)
    /\ ~Reader.ended /\ Reader.sequence = sequence
    /\ Reader.generation = generation /\ Reader.nextFrame = b.nextFrame
    /\ Clocked(m) /\ Behind(Reader, m, changed)

LEMMA ReaderType == ASSUME log \in Seq(Recorded) PROVE Reader \in Cursor
<1>1. Len(log) \in 0 .. Len(log)
  OBVIOUS
<1> QED BY <1>1, NewCursorType, FeedingType DEF Reader

\* The first records of the staged ones, written after the log, are taken.
LEMMA FrontTaken ==
    ASSUME NEW p \in Seq(Recorded), NEW q \in Seq(Recorded), NEW k \in 0 .. Len(q),
           TakesAll(NewCursor, p), TakesAll(Feeding(NewCursor, p)[Len(p)], q)
    PROVE  TakesAll(NewCursor, p \o SubSeq(q, 1, k))
<1>1. SubSeq(q, 1, k) \in Seq(Recorded)
  BY FrontPart
<1> QED BY <1>1, TakesFront, FeedingJoined

LEMMA WholeFront ==
    ASSUME NEW S, NEW q \in Seq(S)
    PROVE  SubSeq(q, 1, Len(q)) = q /\ SubSeq(q, Len(q) + 1, Len(q)) = <<>>
OBVIOUS

LEMMA PumpReads ==
    ASSUME TypeInv, NEW b \in Builder, NEW m \in Snapshot, NEW changed \in BOOLEAN,
           Ready(b, m, changed), Pump(b, m, changed), UNCHANGED <<closed, members>>
    PROVE  ReaderInv'
<1> DEFINE staged == StagedRecords(b, m, changed)
           d == Feeding(Reader, staged)[Len(staged)]
<1>1. /\ sequence \in Nat /\ generation \in Nat /\ log \in Seq(Recorded) /\ SlotMask # {}
      /\ Reader \in Cursor /\ ~failed /\ ~closed
  BY ReaderType, AuthorityAssumption DEF TypeInv, AuthorityTypes, CoreTypes, Ready
<1>2. /\ membership' = m /\ dirty' = FALSE /\ sequence' = sequence + Len(staged)
      /\ generation' = (IF changed THEN generation + 1 ELSE generation) /\ closed' = closed
  BY <1>1 DEF Pump
<1>3. CASE changed /\ ~Valid(m)
  <2>1. failed' = TRUE /\ log' = log
    BY <1>1, <1>3 DEF Pump
  <2>2. TakesAll(NewCursor, log')
    BY <2>1 DEF Ready
  <2> QED BY <2>1, <2>2 DEF ReaderInv
<1>4. CASE ~(changed /\ ~Valid(m))
  <2>1. PICK landed \in 0 .. Len(staged) :
          /\ Appends(staged, landed)
          /\ outbox' = SubSeq(staged, landed + 1, Len(staged))
          /\ failed' = (landed # Len(staged))
          /\ builder' = IF landed > 0 /\ staged[landed].kind = "Frame"
                        THEN Committed(b, staged[landed].payload[1]) ELSE b
    BY <1>1, <1>4 DEF Pump
  <2>2. /\ TakesAll(Reader, staged)
        /\ d \in Cursor /\ ~d.ended /\ d.sequence = sequence + Len(staged)
        /\ d.generation = IF changed THEN generation + 1 ELSE generation
        /\ d.nextFrame = IF CanSeal(b, m) THEN b.nextFrame + 1 ELSE b.nextFrame
        /\ Behind(d, m, FALSE)
    <3>1. Clocked(m) /\ Behind(Reader, m, changed) /\ (changed => Valid(m)) /\ ~Reader.ended
          /\ Reader.sequence = sequence /\ Reader.generation = generation /\ Reader.nextFrame = b.nextFrame
      BY <1>4 DEF Ready
    <3> QED BY <1>1, <3>1, StagedTaken
  <2>3. staged \in Seq(Recorded) /\ Len(staged) \in Nat
    BY <1>1, StagedType
  <2>4. builder'.nextFrame = IF landed > 0 /\ staged[landed].kind = "Frame" THEN b.nextFrame + 1 ELSE b.nextFrame
    <3>1. CASE landed > 0 /\ staged[landed].kind = "Frame"
      <4>1. landed \in 1 .. Len(staged)
        BY <3>1
      <4>2. \/ staged[landed] = MembershipRecord(b, m)
            \/ CanSeal(b, m) /\ staged[landed] = FrameRecord(b, m, changed)
        BY <1>1, <4>1, StagedMember
      <4>3. MembershipRecord(b, m).kind = "Membership" /\ FrameRecord(b, m, changed).payload[1] = Gathered(b, m)
        BY DEF MembershipRecord, FrameRecord, Stamped
      <4>4. builder' = Committed(b, Gathered(b, m)) /\ b.nextFrame # MaxFrame
        BY <2>1, <3>1, <4>2, <4>3 DEF CanSeal
      <4> QED BY <3>1, <4>4, GatheredType, CommittedType
    <3>2. CASE ~(landed > 0 /\ staged[landed].kind = "Frame")
      BY <2>1, <3>2
    <3> QED BY <3>1, <3>2
  <2>5. ASSUME landed = Len(staged)
        PROVE  landed > 0 /\ staged[landed].kind = "Frame" <=> CanSeal(b, m)
    <3>1. FrameRecord(b, m, changed).kind = "Frame" /\ MembershipRecord(b, m).kind = "Membership"
      BY DEF MembershipRecord, FrameRecord, Stamped
    <3>2. CASE CanSeal(b, m)
      <4>1. Len(staged) > 0 /\ (Len(staged) # 1 \/ ~changed)
        <5>1. Len(staged) = IF changed THEN 2 ELSE 1
          BY <1>1, <3>2, StagedLength
        <5> QED BY <5>1
      <4>2. landed \in 1 .. Len(staged)
        BY <2>3, <2>5, <4>1
      <4>3. staged[landed] = FrameRecord(b, m, changed)
        BY <1>1, <2>5, <4>1, <4>2, StagedMember
      <4> QED BY <3>1, <3>2, <4>1, <4>3, <2>5
    <3>3. CASE ~CanSeal(b, m)
      <4>1. ASSUME landed > 0 PROVE staged[landed] = MembershipRecord(b, m)
        <5>1. landed \in 1 .. Len(staged)
          BY <4>1
        <5> QED BY <1>1, <3>3, <5>1, StagedMember
      <4> QED BY <3>1, <3>3, <4>1
    <3> QED BY <3>2, <3>3
  <2> HIDE DEF staged
  <2>6. log' = log \o SubSeq(staged, 1, landed)
    BY <2>1 DEF Appends
  <2>7. TakesAll(NewCursor, log')
    BY <1>1, <2>2, <2>3, <2>6, FrontTaken DEF Ready, Reader
  <2>8. CASE landed # Len(staged)
    BY <2>1, <2>7, <2>8 DEF ReaderInv
  <2>9. CASE landed = Len(staged)
    <3>1. log' = log \o staged /\ outbox' = <<>> /\ failed' = FALSE
      BY <2>1, <2>3, <2>6, <2>9, WholeFront
    <3>2. Reader' = d
      <4>1. Len(log \o staged) = Len(log) + Len(staged)
        BY <1>1, <2>3, Joined
      <4>2. Len(staged) \in 0 .. Len(staged)
        BY <2>3
      <4>3. Feeding(NewCursor, log \o staged)[Len(log) + Len(staged)] = d
        BY <1>1, <2>3, <4>2, FeedingJoined DEF Reader
      <4> QED BY <3>1, <4>1, <4>3 DEF Reader
    <3> HIDE DEF d
    <3>3. builder'.nextFrame = d.nextFrame
      BY <2>2, <2>4, <2>5, <2>9
    <3>4. Behind(Reader, membership, dirty)'
      BY <1>2, <2>2, <3>2 DEF Behind
    <3>5. d.generation = generation' /\ d.sequence = sequence'
      BY <1>2, <2>2
    <3>6. ~d.ended /\ d.ended \in BOOLEAN /\ ~closed' /\ closed' \in BOOLEAN
      BY <1>1, <1>2, <2>2 DEF Cursor, TypeInv, CoreTypes
    <3>7. d.ended = closed'
      BY <3>6
    <3> QED BY <2>7, <3>1, <3>2, <3>3, <3>4, <3>5, <3>6, <3>7, Zenon DEF ReaderInv
  <2> QED BY <2>8, <2>9
<1> QED BY <1>3, <1>4

-----------------------------------------------------------------------------
\* What the channels hold of the log.

\* A queue that runs along a log still does when both grow by the same records,
\* and when its front is taken.
LEMMA TailGrows ==
    ASSUME NEW S, NEW all \in Seq(S), NEW more \in Seq(S), NEW old \in Seq(S), NEW got \in Nat,
           NEW k \in 0 .. Len(more), Along(old, got, all), k > 0 => got + Len(old) = Len(all)
    PROVE  /\ Along(old \o SubSeq(more, 1, k), got, all \o more)
           /\ k = Len(more) /\ got + Len(old) = Len(all) =>
                got + Len(old \o SubSeq(more, 1, k)) = Len(all \o more)
<1> DEFINE part == SubSeq(more, 1, k)
           new == old \o part
           sum == all \o more
           o == Len(old)
           a == Len(all)
           m == Len(more)
<1>1. part \in Seq(S) /\ Len(part) = k /\ \A i \in 1 .. k : part[i] = more[i]
  BY FrontPart
<1> HIDE DEF part
<1>2. Len(sum) = a + m
  BY Joined
<1>3. \A i \in 1 .. a : sum[i] = all[i]
  BY Joined
<1>4. \A i \in 1 .. m : sum[a + i] = more[i]
  BY Joined
<1>5. Len(new) = o + Len(part)
  BY <1>1, Joined
<1>6. \A i \in 1 .. o : new[i] = old[i]
  BY <1>1, Joined
<1>7. \A i \in 1 .. Len(part) : new[o + i] = part[i]
  BY <1>1, Joined
<1>8. o \in Nat /\ a \in Nat /\ m \in Nat /\ k \in 0 .. m /\ got + o <= a /\ (k > 0 => got + o = a)
  BY DEF Along
<1>9. \A i \in 1 .. o : old[i] = all[got + i]
  BY DEF Along
<1>10. Len(new) = o + k
  BY <1>1, <1>5
<1> HIDE DEF new, sum, o, a, m
<1>11. got + Len(new) <= Len(sum) /\ (k = m /\ got + o = a => got + Len(new) = Len(sum))
  BY ONLY <1>2, <1>8, <1>10, got \in Nat
<1>12. ASSUME NEW i \in 1 .. Len(new) PROVE new[i] = sum[got + i]
  <2>1. CASE i <= o
    <3>1. i \in 1 .. o /\ got + i \in 1 .. a
      BY ONLY <1>8, <2>1, <1>10, i \in 1 .. Len(new), got \in Nat
    <3> QED BY <1>3, <1>6, <1>9, <3>1
  <2>2. CASE i > o
    <3> DEFINE j == i - o
    <3>1. j \in 1 .. k /\ j \in 1 .. m /\ o + j = i /\ a + j = got + i
      BY ONLY <1>8, <2>2, <1>10, i \in 1 .. Len(new), got \in Nat
    <3> HIDE DEF j
    <3>2. new[i] = part[j] /\ part[j] = more[j]
      BY <1>1, <1>7, <3>1
    <3>3. sum[got + i] = more[j]
      BY <1>4, <3>1
    <3> QED BY <3>2, <3>3
  <2> QED BY ONLY <1>8, <1>10, i \in 1 .. Len(new), <2>1, <2>2
<1>13. Along(new, got, sum)
  BY <1>11, <1>12 DEF Along
<1> QED BY <1>11, <1>13 DEF new, sum, part, o, a, m

LEMMA TailShrinks ==
    ASSUME NEW S, NEW all \in Seq(S), NEW old \in Seq(S), NEW got \in Nat, NEW k \in 0 .. Len(old),
           Along(old, got, all)
    PROVE  /\ Along(SubSeq(old, k + 1, Len(old)), got + k, all)
           /\ Along(SubSeq(old, 1, k), got, all)
           /\ got + k \in 0 .. Len(all)
           /\ (got + k) + Len(SubSeq(old, k + 1, Len(old))) = got + Len(old)
<1> DEFINE part == SubSeq(old, 1, k)
           rest == SubSeq(old, k + 1, Len(old))
           o == Len(old)
           a == Len(all)
<1>1. Len(part) = k /\ \A i \in 1 .. k : part[i] = old[i]
  BY FrontPart
<1>2. Len(rest) = o - k /\ \A i \in 1 .. o - k : rest[i] = old[k + i]
  BY RestPart
<1>3. o \in Nat /\ a \in Nat /\ k \in 0 .. o /\ got + o <= a
  BY DEF Along
<1>4. \A i \in 1 .. o : old[i] = all[got + i]
  BY DEF Along
<1> HIDE DEF part, rest, o
<1>5. k \in Nat /\ got + k <= a /\ \A i \in 1 .. k : i \in 1 .. o
  BY ONLY <1>3, got \in Nat
<1>6. Along(part, got, all)
  BY <1>1, <1>4, <1>5 DEF Along
<1>7. ASSUME NEW i \in 1 .. Len(rest) PROVE rest[i] = all[(got + k) + i]
  <2>1. i \in 1 .. o - k /\ k + i \in 1 .. o /\ got + (k + i) = (got + k) + i
    BY ONLY <1>2, <1>3, got \in Nat, i \in 1 .. Len(rest)
  <2> QED BY <1>2, <1>4, <2>1
<1>8. got + k \in 0 .. a /\ (got + k) + Len(rest) = got + o /\ (got + k) + Len(rest) <= a
  BY ONLY <1>2, <1>3, got \in Nat
<1>9. Along(rest, got + k, all)
  BY <1>7, <1>8 DEF Along
<1> QED BY <1>6, <1>8, <1>9 DEF part, rest, o

\* Supplied, with the types it takes.
LEMMA SuppliedTypes ==
    ASSUME TypeInv, NEW s \in Slot
    PROVE  /\ log \in Seq(Recorded) /\ Len(log) \in Nat
           /\ down[s] \in Seq(Recorded) /\ queued[s] \in 0 .. ChannelWindow
           /\ client[s].cursor \in Cursor /\ client[s].cursor.sequence \in Nat
           /\ client[s].rejected \in BOOLEAN
<1>1. log \in Seq(Recorded) /\ down[s] \in Seq(Recorded) /\ queued[s] \in 0 .. ChannelWindow /\ client[s] \in Client
  BY DEF TypeInv, CoreTypes, WireTypes
<1>2. client[s].cursor \in Cursor /\ client[s].rejected \in BOOLEAN
  BY <1>1 DEF Client
<1>3. client[s].cursor.sequence \in Nat
  BY <1>2 DEF Cursor
<1>4. Len(log) \in Nat
  BY <1>1
<1> QED BY <1>1, <1>2, <1>3, <1>4

\* A client keeps what it was supplied with when records are added to the log
\* and some of them to its channel.
LEMMA SuppliedKeeps ==
    ASSUME TypeInv, NEW s \in Slot, Supplied(s), NEW records \in Seq(Recorded), NEW k \in 0 .. Len(records),
           log' = log \o records, client'[s] = client[s],
           down'[s] = down[s] \o SubSeq(records, 1, k), queued'[s] = queued[s] + k,
           queued'[s] <= ChannelWindow, k > 0 => ~closed,
           closed' \/ (closed' = closed /\ (k < Len(records) => queued'[s] = ChannelWindow))
    PROVE  Supplied(s)'
<1> DEFINE c == client[s].cursor
           got == c.sequence
           old == down[s]
           new == old \o SubSeq(records, 1, k)
           sum == log \o records
           size == queued[s]
<1>1. /\ log \in Seq(Recorded) /\ Len(log) \in Nat /\ old \in Seq(Recorded)
      /\ size \in 0 .. ChannelWindow /\ c \in Cursor /\ got \in Nat
  BY SuppliedTypes
<1>2. /\ ~client[s].rejected /\ Along(old, got, log) /\ c = Feeding(NewCursor, log)[got]
      /\ ~closed /\ size < ChannelWindow => got + Len(old) = Len(log)
  BY DEF Supplied, Along
<1>3. log' = sum /\ client'[s] = client[s] /\ down'[s] = new /\ queued'[s] = size + k
  OBVIOUS
<1>4. ChannelWindow \in Nat /\ k \in Nat /\ Len(records) \in Nat
  BY AuthorityAssumption
<1> HIDE DEF size
<1>5. k > 0 => size < ChannelWindow /\ ~closed
  BY <1>1, <1>3, <1>4
<1> HIDE DEF c, got, old
<1>6. /\ Along(new, got, sum)
      /\ k = Len(records) /\ got + Len(old) = Len(log) => got + Len(new) = Len(sum)
  BY ONLY <1>1, <1>2, <1>5, TailGrows, k \in 0 .. Len(records), records \in Seq(Recorded)
<1>7. c = Feeding(NewCursor, sum)[got]
  <2>1. got \in 0 .. Len(log)
    BY <1>1, <1>2 DEF Along
  <2> QED BY <1>1, <1>2, <2>1, FeedingJoined
<1>8. ASSUME ~closed', queued'[s] < ChannelWindow PROVE got + Len(new) = Len(sum)
  <2>1. closed' = closed /\ (k < Len(records) => queued'[s] = ChannelWindow)
    BY <1>8
  <2>2. k = Len(records)
    BY <1>4, <1>8, <2>1
  <2>3. ~closed /\ size < ChannelWindow
    BY <1>1, <1>3, <1>4, <1>8, <2>1
  <2> QED BY <1>2, <1>6, <2>2, <2>3
<1> HIDE DEF new, sum
<1>9. Along(down'[s], client'[s].cursor.sequence, log')
  BY <1>3, <1>6 DEF c, got
<1>10. client'[s].cursor = Feeding(NewCursor, log')[client'[s].cursor.sequence]
  BY <1>3, <1>7 DEF c, got
<1>11. ~closed' /\ queued'[s] < ChannelWindow => client'[s].cursor.sequence + Len(down'[s]) = Len(log')
  BY <1>3, <1>8 DEF c, got
<1>12. ~client'[s].rejected
  BY <1>2, <1>3
<1> QED BY ONLY <1>9, <1>10, <1>11, <1>12 DEF Supplied, Along

\* A client that takes what arrived goes on along the log.
LEMMA SuppliedUpdates ==
    ASSUME TypeInv, NEW s \in Slot, Supplied(s), TakesAll(NewCursor, log), NEW arrived \in 0 .. Len(down[s]),
           down'[s] = SubSeq(down[s], arrived + 1, Len(down[s])),
           client'[s].cursor = Fed(client[s].cursor, SubSeq(down[s], 1, arrived)),
           client'[s].rejected = (client[s].rejected \/ ~TakesAll(client[s].cursor, SubSeq(down[s], 1, arrived))),
           UNCHANGED <<log, queued, closed>>
    PROVE  Supplied(s)'
<1> DEFINE c == client[s].cursor
           got == c.sequence
           old == down[s]
           part == SubSeq(old, 1, arrived)
           rest == SubSeq(old, arrived + 1, Len(old))
           e == client'[s].cursor
<1>1. /\ log \in Seq(Recorded) /\ Len(log) \in Nat /\ old \in Seq(Recorded)
      /\ c \in Cursor /\ got \in Nat
  BY SuppliedTypes
<1>2. /\ ~client[s].rejected /\ Along(old, got, log) /\ c = Feeding(NewCursor, log)[got]
      /\ ~closed /\ queued[s] < ChannelWindow => got + Len(old) = Len(log)
  BY DEF Supplied, Along
<1>3. /\ arrived \in 0 .. Len(old) /\ down'[s] = rest /\ e = Fed(c, part)
      /\ client'[s].rejected = (client[s].rejected \/ ~TakesAll(c, part))
      /\ log' = log /\ queued' = queued /\ closed' = closed
  OBVIOUS
<1>4. TakesAll(NewCursor, log)
  OBVIOUS
<1> HIDE DEF c, got, old, e
<1>5. /\ Along(rest, got + arrived, log) /\ Along(part, got, log)
      /\ got + arrived \in 0 .. Len(log)
      /\ (got + arrived) + Len(rest) = got + Len(old)
  <2>1. log \in Seq(Recorded) /\ old \in Seq(Recorded) /\ got \in Nat /\ Along(old, got, log)
    BY <1>1, <1>2
  <2>2. arrived \in 0 .. Len(old)
    BY <1>3
  <2> QED BY ONLY <2>1, <2>2, TailShrinks
<1>6. part \in Seq(Recorded) /\ Len(part) = arrived
  BY <1>1, <1>3, FrontPart
<1> HIDE DEF part, rest
<1>7. \A n \in 0 .. Len(part) : Feeding(c, part)[n] = Feeding(NewCursor, log)[got + n]
  <2>1. Len(part) \in Nat
    BY <1>6
  <2>2. Len(log) \in Nat /\ got \in Nat
    BY <1>1
  <2>3. Along(part, got, log)
    BY <1>5
  <2>4. c = Feeding(NewCursor, log)[got]
    BY <1>2
  <2> QED BY ONLY <2>1, <2>2, <2>3, <2>4, FeedingAlong
<1>8. TakesAll(c, part)
  <2> SUFFICES ASSUME NEW i \in 1 .. Len(part) PROVE Accepts(Feeding(c, part)[i - 1], part[i])
    BY DEF TakesAll
  <2>1. Len(part) \in Nat
    BY <1>6
  <2>2. /\ got + i \in 1 .. Len(log) /\ i - 1 \in 0 .. Len(part) /\ got + (i - 1) = (got + i) - 1
        /\ part[i] = log[got + i]
    <3>1. Len(log) \in Nat /\ got \in Nat /\ Along(part, got, log)
      BY <1>1, <1>5
    <3> QED BY ONLY <2>1, <3>1, i \in 1 .. Len(part) DEF Along
  <2>3. Accepts(Feeding(NewCursor, log)[(got + i) - 1], log[got + i])
    BY <1>4, <2>2 DEF TakesAll
  <2>4. Feeding(c, part)[i - 1] = Feeding(NewCursor, log)[(got + i) - 1]
    BY <1>7, <2>2
  <2> QED BY <2>2, <2>3, <2>4
<1>9. e = Feeding(NewCursor, log)[got + arrived] /\ e.sequence = got + arrived
  <2>1. arrived \in 0 .. Len(part)
    BY <1>3, <1>6
  <2>2. e = Feeding(NewCursor, log)[got + arrived]
    BY <1>3, <1>6, <1>7, <2>1 DEF Fed
  <2>3. Feeding(NewCursor, log)[got + arrived].sequence = NewCursor.sequence + (got + arrived)
    BY ONLY <1>1, <1>4, <1>5, NewCursorType, FeedingCounts
  <2>4. NewCursor.sequence = 0 /\ 0 + (got + arrived) = got + arrived
    BY <1>5 DEF NewCursor
  <2> QED BY <2>2, <2>3, <2>4
<1>10. ~client'[s].rejected
  BY <1>2, <1>3, <1>8
<1>11. Along(down'[s], e.sequence, log')
  BY <1>3, <1>5, <1>9
<1>12. e = Feeding(NewCursor, log')[e.sequence]
  BY <1>3, <1>9, Zenon
<1>13. ~closed' /\ queued'[s] < ChannelWindow => e.sequence + Len(down'[s]) = Len(log')
  BY <1>2, <1>3, <1>5, <1>9
<1> QED BY ONLY <1>10, <1>11, <1>12, <1>13 DEF Supplied, Along, e

\* A client nothing happens to keeps what it was supplied with.
LEMMA SuppliedSame ==
    ASSUME NEW s, Supplied(s), log' = log, client'[s] = client[s], down'[s] = down[s], queued'[s] = queued[s],
           closed' \/ closed' = closed
    PROVE  Supplied(s)'
BY DEF Supplied

-----------------------------------------------------------------------------
\* The membership along the steps.

LEMMA ClockedBound ==
    ASSUME membership \in Snapshot, Clocked(membership), NEW s \in Slot, NEW ticket \in {0, 1},
           members \subseteq members', s \in members', membership' = Bound(membership, s, ticket)
    PROVE  /\ Clocked(membership)' /\ membership.departed \subseteq membership'.departed
           /\ membership'.generation[s] = ticket
           /\ \A t \in Slot \ {s} : membership'.generation[t] = membership.generation[t]
<1> DEFINE m == membership
           loaded == IF s \in m.active THEN m.loaded ELSE m.loaded \union {s}
           tickets == [m.generation EXCEPT ![s] = ticket]
           next == [m EXCEPT !.held = m.held \ {s}, !.active = m.active \union {s},
                             !.loaded = loaded, !.generation = tickets]
<1>1. membership' = next
  BY DEF Bound, Snapshot
<1>2. tickets[s] = ticket /\ \A t \in Slot \ {s} : tickets[t] = m.generation[t]
  BY DEF Snapshot
<1> HIDE DEF loaded, tickets
<1>3. /\ next.slotMask = m.slotMask /\ next.paused = m.paused /\ next.clockValid = m.clockValid
      /\ next.originMs = m.originMs /\ next.firstFrame = m.firstFrame
      /\ next.active = m.active \union {s} /\ next.held = m.held \ {s} /\ next.departed = m.departed
      /\ next.generation = tickets
  BY DEF Snapshot
<1> HIDE DEF next
<1>4. \A t \in Slot : tickets[t] \in {0, 1} /\ (t \notin members' => tickets[t] = 0)
  <2> SUFFICES ASSUME NEW t \in Slot PROVE tickets[t] \in {0, 1} /\ (t \notin members' => tickets[t] = 0)
    OBVIOUS
  <2>1. CASE t = s
    BY <1>2, <2>1
  <2>2. CASE t # s
    BY <1>2, <2>2 DEF Clocked
  <2> QED BY <2>1, <2>2
<1>5. Clocked(membership)'
  BY <1>1, <1>3, <1>4 DEF Clocked
<1> QED BY <1>1, <1>2, <1>3, <1>5

LEMMA ClockedDeparted ==
    ASSUME membership \in Snapshot, Clocked(membership), NEW s \in members, members' = members,
           membership' = Departed(membership, s)
    PROVE  /\ Clocked(membership)' /\ membership.departed \subseteq membership'.departed
           /\ membership'.generation = membership.generation
<1> DEFINE m == membership
           next == Departed(m, s)
<1>1. /\ next.slotMask = m.slotMask /\ next.paused = m.paused /\ next.clockValid = m.clockValid
      /\ next.originMs = m.originMs /\ next.firstFrame = m.firstFrame
      /\ next.active = m.active \ {s} /\ next.held = m.held \ {s} /\ next.departed = m.departed \union {s}
      /\ next.generation = m.generation
  BY DEF Departed, Snapshot
<1>2. membership' = next
  OBVIOUS
<1> HIDE DEF next
<1> QED BY <1>1, <1>2 DEF Clocked

LEMMA ClockedHeld ==
    ASSUME membership \in Snapshot, Clocked(membership), NEW quiet
    PROVE  LET m == Held(membership, Holdable(membership, quiet)) IN
           /\ m \in Snapshot /\ Clocked(m) /\ m.departed = membership.departed
           /\ m.generation = membership.generation
           /\ Holdable(membership, quiet) = {} => m = membership
<1> DEFINE held == Holdable(membership, quiet)
           m == Held(membership, held)
<1>1. held \subseteq membership.active
  BY DEF Holdable
<1>2. membership.held \union held \in SUBSET Slot
  BY <1>1 DEF Snapshot
<1>3. m = [membership EXCEPT !.held = membership.held \union held]
  BY DEF Held, Snapshot
<1> HIDE DEF held
<1>4. m \in Snapshot
  BY <1>2, <1>3 DEF Snapshot
<1>5. /\ m.slotMask = membership.slotMask /\ m.paused = membership.paused
      /\ m.clockValid = membership.clockValid /\ m.originMs = membership.originMs
      /\ m.firstFrame = membership.firstFrame /\ m.active = membership.active
      /\ m.held = membership.held \union held
      /\ m.departed = membership.departed /\ m.generation = membership.generation
  BY <1>3 DEF Snapshot
<1>6. held = {} => m = membership
  BY <1>3 DEF Snapshot
<1> HIDE DEF m
<1>7. Clocked(m)
  BY <1>1, <1>5 DEF Clocked
<1> QED BY <1>4, <1>5, <1>6, <1>7 DEF m, held

\* A membership that may follow one staged record may follow it after more changes.
LEMMA BehindGrows ==
    ASSUME NEW c, NEW m \in Snapshot, NEW n \in Snapshot, NEW changed, Behind(c, m, changed),
           m.departed \subseteq n.departed, \A s \in Slot : m.generation[s] <= n.generation[s]
    PROVE  Behind(c, n, TRUE)
<1>1. \A s \in Slot : c.staged.generation[s] \in {0, 1} /\ c.staged.generation[s] <= n.generation[s]
  <2> SUFFICES ASSUME NEW s \in Slot
               PROVE  c.staged.generation[s] \in {0, 1} /\ c.staged.generation[s] <= n.generation[s]
    OBVIOUS
  <2>1. /\ c.staged.generation[s] \in {0, 1} /\ c.staged.generation[s] <= m.generation[s]
        /\ m.generation[s] <= n.generation[s] /\ m.generation[s] \in Nat /\ n.generation[s] \in Nat
    BY DEF Behind, Snapshot
  <2> QED BY <2>1
<1> QED BY <1>1 DEF Behind

\* Where the membership changes and nothing is written, the reader stays ready
\* for what comes.
LEMMA ReaderKeeps ==
    ASSUME ReaderInv, membership \in Snapshot, membership' \in Snapshot, dirty' = TRUE,
           UNCHANGED <<builder, sequence, generation, outbox, failed, live, log, closed>>,
           membership.departed \subseteq membership'.departed,
           \A s \in Slot : membership.generation[s] <= membership'.generation[s]
    PROVE  ReaderInv'
<1>1. Reader' = Reader
  BY DEF Reader
<1>2. ASSUME ~failed PROVE Behind(Reader, membership, dirty)'
  <2>1. Behind(Reader, membership, dirty)
    BY <1>2 DEF ReaderInv
  <2>2. Behind(Reader, membership', TRUE)
    BY <2>1, BehindGrows
  <2> QED BY <1>1, <2>2 DEF Behind
<1> QED BY <1>1, <1>2 DEF ReaderInv

-----------------------------------------------------------------------------
\* The game log along the steps.

LEMMA SuppliedClient ==
    ASSUME TypeInv, ReaderInv, SuppliedInv, NEW s \in SlotMask, ClientUpdate(s)
    PROVE  SuppliedInv'
<1>1. PICK arrived \in 0 .. Len(down[s]) :
        /\ down' = [down EXCEPT ![s] = SubSeq(@, arrived + 1, Len(@))]
        /\ \E given \in 0 .. 1 :
             client' = [client EXCEPT ![s] =
                 [cursor |-> Fed(client[s].cursor, SubSeq(down[s], 1, arrived)),
                  orderId |-> client[s].orderId + given,
                  beatId |-> client[s].beatId + 1,
                  frames |-> client[s].frames \o FramesOf(client[s].cursor, SubSeq(down[s], 1, arrived)),
                  rejected |-> client[s].rejected
                               \/ ~TakesAll(client[s].cursor, SubSeq(down[s], 1, arrived))]]
  BY DEF ClientUpdate
<1>2. /\ s \in Slot /\ s \in members /\ ~closed
      /\ UNCHANGED <<membership, members, log, closed, queued>>
  BY AuthorityAssumption DEF ClientUpdate, authorityVars, coreVars
<1>3. TakesAll(NewCursor, log)
  BY <1>2 DEF ReaderInv
<1>4. /\ down'[s] = SubSeq(down[s], arrived + 1, Len(down[s]))
      /\ client'[s].cursor = Fed(client[s].cursor, SubSeq(down[s], 1, arrived))
      /\ client'[s].rejected = (client[s].rejected
                                \/ ~TakesAll(client[s].cursor, SubSeq(down[s], 1, arrived)))
  BY <1>1, <1>2 DEF TypeInv, WireTypes
<1>5. \A t \in Slot \ {s} : down'[t] = down[t] /\ client'[t] = client[t] /\ queued'[t] = queued[t]
  BY <1>1, <1>2 DEF TypeInv, WireTypes
<1>6. ASSUME NEW t \in members, membership.generation[t] = 0 PROVE Supplied(t)'
  <2>1. Supplied(t) /\ t \in Slot
    BY <1>6, AuthorityAssumption DEF SuppliedInv, TypeInv, AuthorityTypes
  <2>2. CASE t = s
    <3>1. Supplied(s) /\ UNCHANGED <<log, queued, closed>>
      BY <1>2, <2>1, <2>2
    <3>2. Supplied(s)'
      BY ONLY <1>2, <1>3, <1>4, <3>1, TypeInv, arrived \in 0 .. Len(down[s]), SuppliedUpdates
    <3> QED BY <2>2, <3>2
  <2>3. CASE t # s
    BY <1>2, <1>5, <2>1, <2>3, SuppliedSame
  <2> QED BY <2>2, <2>3
<1> QED BY <1>2, <1>5, <1>6 DEF SuppliedInv

LEMMA LogClient ==
    ASSUME TypeInv, LogInv, NEW s \in SlotMask, ClientUpdate(s)
    PROVE  LogInv'
<1>1. UNCHANGED <<builder, membership, dirty, members, sequence, generation, outbox, failed, live, log, closed>>
  BY DEF ClientUpdate, authorityVars, coreVars
<1>2. Clocked(membership)'
  BY <1>1 DEF LogInv, Clocked
<1>3. ReaderInv'
  BY <1>1 DEF LogInv, ReaderInv, Reader, Behind
<1>4. SuppliedInv'
  BY SuppliedClient DEF LogInv
<1> QED BY <1>2, <1>3, <1>4 DEF LogInv

\* A slot that is bound, for the first time or again.
LEMMA LogBinds ==
    ASSUME TypeInv, TypeInv', LogInv, NEW s \in SlotMask, NEW ticket \in {0, 1},
           members \subseteq members', s \in members', members' \subseteq members \union {s},
           membership' = Bound(membership, s, ticket), membership.generation[s] <= ticket, dirty' = TRUE,
           UNCHANGED <<builder, sequence, generation, outbox, failed, live, log, closed>>
    PROVE  /\ Clocked(membership)' /\ ReaderInv'
           /\ membership'.generation[s] = ticket
           /\ \A t \in Slot \ {s} : membership'.generation[t] = membership.generation[t]
<1>1. s \in Slot /\ membership \in Snapshot /\ membership' \in Snapshot
  BY AuthorityAssumption DEF TypeInv, AuthorityTypes
<1>2. /\ Clocked(membership)' /\ membership.departed \subseteq membership'.departed
      /\ membership'.generation[s] = ticket
      /\ \A t \in Slot \ {s} : membership'.generation[t] = membership.generation[t]
  BY <1>1, ClockedBound DEF LogInv
<1>3. ASSUME NEW t \in Slot PROVE membership.generation[t] <= membership'.generation[t]
  <2>1. membership.generation[t] \in Nat
    BY <1>1 DEF Snapshot
  <2> QED BY <1>2, <2>1
<1>4. ReaderInv'
  BY <1>1, <1>2, <1>3, ReaderKeeps DEF LogInv
<1> QED BY <1>2, <1>4

LEMMA LogHello ==
    ASSUME TypeInv, TypeInv', LogInv, NEW s \in SlotMask, Hello(s)
    PROVE  LogInv'
<1>1. /\ s \notin members /\ s \in Slot /\ ~closed /\ members' = members \union {s}
      /\ membership' = Bound(membership, s, 0) /\ dirty' = TRUE
      /\ UNCHANGED <<builder, sequence, generation, outbox, failed, live, log, closed, down, queued, client>>
  BY AuthorityAssumption DEF Hello, coreVars, wireVars
<1>2. membership.generation[s] = 0
  BY <1>1 DEF LogInv, Clocked
<1>3. /\ Clocked(membership)' /\ ReaderInv'
      /\ \A t \in Slot \ {s} : membership'.generation[t] = membership.generation[t]
  BY <1>1, <1>2, LogBinds
<1>4. log = <<>>
  BY <1>1 DEF LogInv, SuppliedInv
<1>5. client[s] = NewClient /\ down[s] = <<>> /\ queued[s] = 0
  BY <1>1 DEF LogInv, SuppliedInv
<1>6. Supplied(s)'
  <2>1. Len(log') = 0 /\ Len(down'[s]) = 0
    BY <1>1, <1>4, <1>5
  <2>2. Feeding(NewCursor, log')[0] = NewCursor
    BY <2>1, FeedingSteps
  <2>3. client'[s].cursor = NewCursor /\ client'[s].rejected = FALSE /\ NewCursor.sequence = 0
    BY <1>1, <1>5 DEF NewClient, NewCursor
  <2> QED BY <2>1, <2>2, <2>3 DEF Supplied
<1>7. ASSUME NEW t \in members, membership.generation[t] = 0 PROVE Supplied(t)'
  BY <1>1, <1>7, SuppliedSame DEF LogInv, SuppliedInv
<1>8. SuppliedInv'
  <2>1. members \subseteq Slot
    BY AuthorityAssumption DEF TypeInv, AuthorityTypes
  <2> QED BY <1>1, <1>3, <1>4, <1>6, <1>7, <2>1 DEF LogInv, SuppliedInv
<1> QED BY <1>3, <1>8 DEF LogInv

LEMMA LogAgain ==
    ASSUME TypeInv, TypeInv', LogInv, NEW s \in SlotMask, HelloAgain(s)
    PROVE  LogInv'
<1> DEFINE ticket == membership.generation[s]
<1>1. /\ s \in members /\ s \in Slot /\ members' = members
      /\ membership' = Bound(membership, s, ticket) /\ dirty' = TRUE
      /\ UNCHANGED <<builder, sequence, generation, outbox, failed, live, log, closed, down, queued, client>>
  BY AuthorityAssumption DEF HelloAgain, wireVars
<1>2. ticket \in {0, 1}
  BY <1>1 DEF LogInv, Clocked
<1>3. /\ Clocked(membership)' /\ ReaderInv' /\ membership'.generation[s] = membership.generation[s]
      /\ \A t \in Slot \ {s} : membership'.generation[t] = membership.generation[t]
  <2>1. membership.generation[s] <= ticket
    BY <1>2
  <2> HIDE DEF ticket
  <2>2. /\ Clocked(membership)' /\ ReaderInv' /\ membership'.generation[s] = ticket
        /\ \A t \in Slot \ {s} : membership'.generation[t] = membership.generation[t]
    BY <1>1, <1>2, <2>1, LogBinds
  <2> QED BY <2>2 DEF ticket
<1>4. ASSUME NEW t \in members, membership.generation[t] = 0 PROVE Supplied(t)'
  BY <1>1, <1>4, SuppliedSame DEF LogInv, SuppliedInv
<1>5. SuppliedInv'
  <2>1. members \subseteq Slot
    BY AuthorityAssumption DEF TypeInv, AuthorityTypes
  <2> QED BY <1>1, <1>3, <1>4, <2>1 DEF LogInv, SuppliedInv
<1> QED BY <1>3, <1>5 DEF LogInv

LEMMA LogRejoin ==
    ASSUME NextTickets, TypeInv, TypeInv', LogInv, NEW s \in SlotMask, Rejoin(s)
    PROVE  LogInv'
<1>1. /\ s \in members /\ s \in Slot /\ members' = members /\ membership.generation[s] = 0 /\ dirty' = TRUE
      /\ down' = [down EXCEPT ![s] = <<>>] /\ queued' = [queued EXCEPT ![s] = 0]
      /\ client' = [client EXCEPT ![s] = NewClient]
      /\ UNCHANGED <<builder, sequence, generation, outbox, failed, live, log, closed>>
  BY AuthorityAssumption DEF Rejoin, coreVars
<1>2. membership' = Bound(membership, s, 1)
  <2>1. \A step \in game.tickets[s] : step = 1
    BY <1>1 DEF NextTickets, TypeInv
  <2> QED BY <2>1 DEF Rejoin
<1>3. /\ Clocked(membership)' /\ ReaderInv' /\ membership'.generation[s] = 1
      /\ \A t \in Slot \ {s} : membership'.generation[t] = membership.generation[t]
  <2>1. membership.generation[s] <= 1
    BY <1>1
  <2> QED BY <1>1, <1>2, <2>1, LogBinds
<1>4. \A t \in Slot \ {s} : down'[t] = down[t] /\ client'[t] = client[t] /\ queued'[t] = queued[t]
  BY <1>1 DEF TypeInv, WireTypes
<1>5. ASSUME NEW t \in members \ {s}, membership.generation[t] = 0 PROVE Supplied(t)'
  <2>1. t \in Slot
    BY AuthorityAssumption DEF TypeInv, AuthorityTypes
  <2> QED BY <1>1, <1>4, <1>5, <2>1, SuppliedSame DEF LogInv, SuppliedInv
<1>6. SuppliedInv'
  <2>1. members \subseteq Slot
    BY AuthorityAssumption DEF TypeInv, AuthorityTypes
  <2>2. \A t \in members' : membership'.generation[t] = 0 => Supplied(t)'
    BY <1>1, <1>3, <1>5, <2>1
  <2>3. \A t \in Slot \ members' : client'[t] = NewClient /\ down'[t] = <<>> /\ queued'[t] = 0
    BY <1>1, <1>4 DEF LogInv, SuppliedInv
  <2> QED BY <1>1, <2>2, <2>3 DEF LogInv, SuppliedInv
<1> QED BY <1>3, <1>6 DEF LogInv

\* A pump gives every client what it writes, as far as the client's channel has room.
LEMMA PumpSupplies ==
    ASSUME TypeInv, SuppliedInv, NEW b \in Builder, NEW m \in Snapshot, NEW changed \in BOOLEAN,
           Clocked(m), ~failed, ~closed, Pump(b, m, changed), m.generation = membership.generation,
           UNCHANGED <<closed, members, client>>
    PROVE  SuppliedInv'
<1> DEFINE staged == StagedRecords(b, m, changed)
<1>1. /\ sequence \in Nat /\ generation \in Nat /\ log \in Seq(Recorded) /\ members \subseteq Slot
      /\ members \subseteq SlotMask
  BY AuthorityAssumption DEF TypeInv, AuthorityTypes, CoreTypes
<1>2. membership' = m
  BY DEF Pump
<1>3. CASE changed /\ ~Valid(m)
  <2>1. UNCHANGED <<log, down, queued>>
    BY <1>3 DEF Pump
  <2>2. ASSUME NEW s \in members, m.generation[s] = 0 PROVE Supplied(s)'
    BY <2>1, <2>2, SuppliedSame DEF SuppliedInv
  <2> QED BY <1>2, <2>1, <2>2 DEF SuppliedInv
<1>4. CASE ~(changed /\ ~Valid(m))
  <2>1. PICK landed \in 0 .. Len(staged) : Appends(staged, landed) /\ Fanout(SubSeq(staged, 1, landed))
    BY <1>4 DEF Pump
  <2>2. staged \in Seq(Recorded) /\ Len(staged) \in Nat
    BY <1>1, StagedType
  <2>3. ASSUME Len(staged) > 0 PROVE members = SlotMask
    <3>1. changed \/ CanSeal(b, m)
      BY <1>1, <2>3, StagedLength
    <3>2. Valid(m)
      BY <1>4, <3>1 DEF CanSeal
    <3> QED BY <1>1, <3>2 DEF Valid, Clocked
  <2> HIDE DEF staged
  <2> DEFINE part == SubSeq(staged, 1, landed)
  <2>4. part \in Seq(Recorded) /\ Len(part) = landed /\ log' = log \o part /\ Fanout(part)
    BY <2>1, <2>2, FrontPart DEF Appends
  <2> HIDE DEF part
  <2>5. /\ queued' \in [Slot -> 0 .. ChannelWindow]
        /\ \A s \in Slot :
             IF s \in members
             THEN \E k \in 0 .. Len(part) :
                    /\ down'[s] = down[s] \o SubSeq(part, 1, k)
                    /\ queued'[s] = queued[s] + k
                    /\ k < Len(part) => queued'[s] = ChannelWindow
             ELSE down'[s] = down[s] /\ queued'[s] = queued[s]
    BY <2>4, FanoutParts
  <2>6. ASSUME NEW s \in members, m.generation[s] = 0 PROVE Supplied(s)'
    <3>1. s \in Slot /\ Supplied(s)
      BY <1>1, <2>6 DEF SuppliedInv
    <3>2. PICK k \in 0 .. Len(part) :
            /\ down'[s] = down[s] \o SubSeq(part, 1, k)
            /\ queued'[s] = queued[s] + k
            /\ k < Len(part) => queued'[s] = ChannelWindow
      BY <2>5, <3>1
    <3>3. queued'[s] <= ChannelWindow
      <4>1. queued'[s] \in 0 .. ChannelWindow /\ ChannelWindow \in Nat
        BY <2>5, <3>1, AuthorityAssumption
      <4> QED BY <4>1
    <3>4. client'[s] = client[s] /\ closed' = closed /\ ~closed
      OBVIOUS
    <3> QED BY ONLY TypeInv, <2>4, <3>1, <3>2, <3>3, <3>4, SuppliedKeeps
  <2>7. ~closed' /\ log' # <<>> => members' = SlotMask
    <3>1. CASE landed > 0
      BY <2>1, <2>2, <2>3, <3>1
    <3>2. CASE landed = 0
      <4>1. log' = log
        BY <1>1, <2>1, <2>2, <2>4, <3>2
      <4> QED BY <4>1 DEF SuppliedInv
    <3> QED BY <2>1, <2>2, <3>1, <3>2
  <2>8. \A s \in Slot \ members : down'[s] = down[s] /\ queued'[s] = queued[s]
    BY <2>5
  <2> QED BY <1>2, <2>6, <2>7, <2>8 DEF SuppliedInv
<1> QED BY <1>3, <1>4

LEMMA LogReceives ==
    ASSUME TypeInv, LogInv, NEW s \in SlotMask, ReceiveData(s)
    PROVE  LogInv'
<1>1. PICK arrived \in 0 .. Len(up[s]) :
        Pump(Admitting(builder, s, SubSeq(up[s], 1, arrived))[arrived], membership, dirty)
  BY DEF ReceiveData
<1>2. s \in Slot /\ ~closed /\ ~failed /\ UNCHANGED <<members, closed, client>>
  BY AuthorityAssumption DEF ReceiveData
<1> DEFINE taken == SubSeq(up[s], 1, arrived)
           b == Admitting(builder, s, taken)[arrived]
<1>3. b \in Builder /\ b.nextFrame = builder.nextFrame
  <2>1. up[s] \in Seq(Message)
    BY <1>2 DEF TypeInv, WireTypes
  <2>2. taken \in Seq(Message) /\ Len(taken) = arrived
    BY <1>1, <2>1, FrontPart
  <2>3. builder \in Builder /\ now \in Nat /\ OriginMs <= now
    BY DEF TypeInv, AuthorityTypes, CoreTypes
  <2> HIDE DEF taken
  <2>4. arrived \in 0 .. Len(taken)
    BY <2>2
  <2> QED BY <1>2, <2>2, <2>3, <2>4, AdmittingType
<1>4. membership \in Snapshot /\ dirty \in BOOLEAN /\ Pump(b, membership, dirty)
  BY <1>1 DEF TypeInv, AuthorityTypes
<1> HIDE DEF b
<1>5. Ready(b, membership, dirty)
  BY <1>2, <1>3 DEF Ready, LogInv, ReaderInv
<1>6. ReaderInv'
  BY <1>2, <1>3, <1>4, <1>5, PumpReads
<1>7. SuppliedInv'
  BY <1>2, <1>3, <1>4, PumpSupplies DEF LogInv
<1>8. Clocked(membership)'
  <2>1. membership' = membership
    BY <1>2, <1>4 DEF Pump
  <2> QED BY <1>2, <2>1 DEF LogInv, Clocked
<1> QED BY <1>6, <1>7, <1>8 DEF LogInv

LEMMA LogTicks ==
    ASSUME TypeInv, LogInv, Tick
    PROVE  LogInv'
<1>1. PICK quiet \in SUBSET (game.silent \intersect (members \ bye)) :
        Pump(builder, Held(membership, Holdable(membership, quiet)),
             dirty \/ Holdable(membership, quiet) # {})
  BY DEF Tick
<1>2. ~closed /\ UNCHANGED <<members, closed, client>>
  BY DEF Tick
<1> DEFINE held == Holdable(membership, quiet)
           m == Held(membership, held)
           changed == (dirty \/ held # {})
<1>3. /\ m \in Snapshot /\ Clocked(m) /\ m.departed = membership.departed
      /\ m.generation = membership.generation
      /\ held = {} => m = membership
  <2>1. membership \in Snapshot
    BY DEF TypeInv, AuthorityTypes
  <2> QED BY <2>1, ClockedHeld DEF LogInv
<1>4. builder \in Builder /\ dirty \in BOOLEAN /\ Pump(builder, m, changed)
  BY <1>1 DEF TypeInv, AuthorityTypes
<1>5. changed \in BOOLEAN /\ (~changed => dirty = FALSE /\ m = membership)
  BY <1>3, <1>4
<1> HIDE DEF m, held, changed
<1>6. membership' = m
  BY <1>4 DEF Pump
<1>7. Clocked(membership)'
  BY <1>2, <1>3, <1>6 DEF Clocked
<1>8. CASE failed
  <2>1. UNCHANGED <<failed, log, down, queued>>
    BY <1>4, <1>8 DEF Pump
  <2>2. ReaderInv'
    BY <1>2, <1>8, <2>1 DEF LogInv, ReaderInv
  <2>3. ASSUME NEW s \in members, membership.generation[s] = 0 PROVE Supplied(s)'
    BY <1>2, <2>1, <2>3, SuppliedSame DEF LogInv, SuppliedInv
  <2>4. SuppliedInv'
    BY <1>2, <1>3, <1>6, <2>1, <2>3 DEF LogInv, SuppliedInv
  <2> QED BY <1>7, <2>2, <2>4 DEF LogInv
<1>9. CASE ~failed
  <2>1. Behind(Reader, m, changed)
    <3>1. Behind(Reader, membership, dirty)
      BY <1>9 DEF LogInv, ReaderInv
    <3>2. CASE changed = TRUE
      <4>1. membership \in Snapshot /\ \A s \in Slot : membership.generation[s] <= m.generation[s]
        BY <1>3 DEF TypeInv, AuthorityTypes, Snapshot
      <4>2. Behind(Reader, m, TRUE)
        BY <1>3, <3>1, <4>1, BehindGrows
      <4> QED BY <3>2, <4>2
    <3>3. CASE changed = FALSE
      BY <1>5, <3>1, <3>3
    <3> QED BY <1>5, <3>2, <3>3
  <2>2. Ready(builder, m, changed)
    BY <1>2, <1>3, <1>9, <2>1 DEF Ready, LogInv, ReaderInv
  <2>3. ReaderInv'
    BY <1>2, <1>3, <1>4, <1>5, <2>2, PumpReads
  <2>4. SuppliedInv'
    BY <1>2, <1>3, <1>4, <1>5, <1>9, PumpSupplies DEF LogInv
  <2> QED BY <1>7, <2>3, <2>4 DEF LogInv
<1> QED BY <1>8, <1>9

LEMMA OneOrNone ==
    ASSUME NEW S, NEW x \in S, NEW q \in Seq(S)
    PROVE  /\ <<x>> \in Seq(S) /\ Len(<<x>>) = 1
           /\ SubSeq(<<x>>, 1, 1) = <<x>> /\ SubSeq(<<x>>, 1, 0) = <<>>
           /\ q \o <<>> = q /\ Len(q \o <<x>>) = Len(q) + 1
<1>1. <<x>> \in Seq(S) /\ Len(<<x>>) = 1
  OBVIOUS
<1>2. SubSeq(<<x>>, 1, 1) = <<x>>
  BY <1>1, WholeFront
<1>3. \A p \in Seq(S) : SubSeq(p, 1, 0) = <<>>
  OBVIOUS
<1>4. q \o <<>> = q
  OBVIOUS
<1>5. Len(q \o <<x>>) = Len(q) + 1
  BY <1>1, Joined
<1> QED BY <1>1, <1>2, <1>3, <1>4, <1>5

\* The End record, which a reader of everything written takes.
LEMMA CloseReads ==
    ASSUME TypeInv, LogInv, Close, ~closed, UNCHANGED <<builder, generation, members>>,
           membership' \in Snapshot, dirty' \in BOOLEAN,
           \/ membership' = membership /\ dirty' = dirty
           \/ /\ dirty' = TRUE /\ membership.departed \subseteq membership'.departed
              /\ membership'.generation = membership.generation
    PROVE  ReaderInv'
<1>1. /\ log \in Seq(Recorded) /\ sequence \in Nat /\ Reader \in Cursor /\ membership \in Snapshot
      /\ failed \in BOOLEAN /\ live \in BOOLEAN
  BY ReaderType DEF TypeInv, AuthorityTypes, CoreTypes
<1>2. closed' = TRUE
  BY DEF Close
<1>3. CASE failed
  <2>1. failed' = TRUE
    <3>1. CASE live
      BY <1>3, <3>1 DEF Close
    <3>2. CASE ~live
      BY <1>1, <1>3, <3>2 DEF Close
    <3> QED BY <3>1, <3>2
  <2> QED BY <1>2, <2>1 DEF ReaderInv
<1>4. CASE ~failed
  <2>1. /\ TakesAll(NewCursor, log) /\ outbox = <<>> /\ Reader.sequence = sequence /\ ~Reader.ended
        /\ Reader.generation = generation /\ Reader.nextFrame = builder.nextFrame
        /\ Behind(Reader, membership, dirty)
    BY <1>4 DEF LogInv, ReaderInv
  <2>2. ASSUME NEW c, c.staged = Reader.staged, c.generation = Reader.generation,
               c.hasMembership = Reader.hasMembership, c.nextFrame = Reader.nextFrame
        PROVE  Behind(c, membership', dirty')
    <3>1. Behind(Reader, membership', dirty')
      <4>1. CASE membership' = membership /\ dirty' = dirty
        BY <2>1, <4>1
      <4>2. CASE /\ dirty' = TRUE /\ membership.departed \subseteq membership'.departed
                 /\ membership'.generation = membership.generation
        <5>1. \A s \in Slot : membership.generation[s] <= membership'.generation[s]
          BY <1>1, <4>2 DEF Snapshot
        <5>2. Behind(Reader, membership', TRUE)
          BY <1>1, <2>1, <4>2, <5>1, BehindGrows
        <5> QED BY <4>2, <5>2
      <4> QED BY <4>1, <4>2
    <3> HIDE DEF Reader
    <3> QED BY <2>2, <3>1 DEF Behind
  <2>3. CASE ~live
    <3>1. UNCHANGED <<live, log, outbox, sequence, failed>>
      BY <2>3 DEF Close
    <3>2. Reader' = Reader
      BY <3>1 DEF Reader
    <3>3. Behind(Reader, membership, dirty)'
      <4>1. Behind(Reader, membership', dirty')
        BY <2>2
      <4> QED BY <3>2, <4>1 DEF Behind
    <3> QED BY <1>2, <1>4, <2>1, <2>3, <3>1, <3>2, <3>3 DEF ReaderInv
  <2>4. CASE live
    <3> DEFINE end == EndRecord
    <3>1. end \in Recorded /\ end.kind = "End" /\ Accepts(Reader, end) /\ end.generation = generation
      <4>1. end \in Recorded
        BY EndType
      <4>2. /\ end.kind = "End" /\ end.sequence = sequence + 1 /\ end.frame = builder.nextFrame
            /\ end.generation = generation /\ end.payload = <<>>
        BY DEF EndRecord, Stamped
      <4> HIDE DEF end
      <4> QED BY <2>1, <4>1, <4>2 DEF Accepts, InSequence
    <3> HIDE DEF end
    <3>2. Append(outbox, end) = <<end>> /\ Len(outbox) = 0
      BY <2>1
    <3>3. PICK landed \in 0 .. 1 :
            /\ Appends(<<end>>, landed)
            /\ outbox' = SubSeq(outbox, landed + 1, Len(outbox))
            /\ sequence' = IF landed < 0 THEN sequence ELSE sequence + 1
            /\ failed' = (failed \/ landed < 0)
      BY <2>4, <3>2 DEF Close, end
    <3>4. outbox' = <<>> /\ failed' = FALSE /\ sequence' = sequence + 1
      <4>1. \A k \in 1 .. 2 : SubSeq(<<>>, k, 0) = <<>>
        OBVIOUS
      <4>2. landed + 1 \in 1 .. 2 /\ ~(landed < 0)
        BY <3>3
      <4>3. outbox' = SubSeq(<<>>, landed + 1, 0)
        BY <2>1, <3>2, <3>3
      <4>4. outbox' = <<>>
        BY <4>1, <4>2, <4>3
      <4> QED BY <1>1, <1>4, <3>3, <4>2, <4>4
    <3>5. /\ <<end>> \in Seq(Recorded) /\ Len(<<end>>) = 1
          /\ SubSeq(<<end>>, 1, 1) = <<end>> /\ SubSeq(<<end>>, 1, 0) = <<>>
          /\ log \o <<>> = log /\ Len(log \o <<end>>) = Len(log) + 1
      BY <1>1, <3>1, OneOrNone
    <3>6. CASE landed = 0
      <4>1. log' = log /\ live' = FALSE
        <5>1. log' = log \o SubSeq(<<end>>, 1, 0) /\ live' = (live /\ 0 = Len(<<end>>))
          BY <3>3, <3>6 DEF Appends
        <5>2. log' = log
          BY <3>5, <5>1, Zenon
        <5>3. ~(0 = 1)
          OBVIOUS
        <5>4. live' = FALSE
          BY <3>5, <5>1, <5>3, Zenon
        <5> QED BY <5>2, <5>4
      <4>2. Reader' = Reader
        BY <4>1 DEF Reader
      <4>3. Behind(Reader, membership, dirty)'
        <5>1. Behind(Reader, membership', dirty')
          BY <2>2
        <5> QED BY <4>2, <5>1 DEF Behind
      <4> QED BY <1>2, <2>1, <3>4, <4>1, <4>2, <4>3 DEF ReaderInv
    <3>7. CASE landed = 1
      <4> DEFINE e == Accepted(Reader, end)
      <4>1. log' = log \o <<end>>
        BY <3>3, <3>5, <3>7 DEF Appends
      <4>3. TakesAll(Reader, <<end>>) /\ Feeding(Reader, <<end>>)[1] = e
        BY <3>1, FeedingOne
      <4>4. TakesAll(NewCursor, log') /\ Feeding(NewCursor, log')[Len(log) + 1] = e
        <5> DEFINE d == Reader
                   q == <<end>>
        <5>1. 1 \in 0 .. Len(q) /\ q \in Seq(Recorded) /\ TakesAll(d, q) /\ Feeding(d, q)[1] = e
          BY <3>5, <4>3
        <5>2. d = Feeding(NewCursor, log)[Len(log)]
          BY DEF Reader
        <5> HIDE DEF d, q, e
        <5>3. TakesAll(NewCursor, log \o q) /\ Feeding(NewCursor, log \o q)[Len(log) + 1] = Feeding(d, q)[1]
          BY ONLY <1>1, <2>1, <5>1, <5>2, FeedingJoined
        <5> QED BY <4>1, <5>1, <5>3 DEF q
      <4>5. Reader' = e
        <5>1. Len(log') = Len(log) + 1
          BY <3>5, <4>1
        <5> QED BY <4>4, <5>1 DEF Reader
      <4>6. /\ e.sequence = Reader.sequence + 1 /\ e.generation = generation
            /\ e.staged = Reader.staged /\ e.hasMembership = Reader.hasMembership
            /\ e.nextFrame = Reader.nextFrame /\ e.ended = TRUE
        <5> DEFINE c == Reader
        <5>1. c \in Cursor /\ end \in Recorded /\ Accepts(c, end) /\ end.kind = "End" /\ end.generation = generation
          BY <1>1, <3>1
        <5> HIDE DEF c
        <5>2. /\ Accepted(c, end).sequence = c.sequence + 1 /\ Accepted(c, end).generation = generation
              /\ Accepted(c, end).staged = c.staged /\ Accepted(c, end).hasMembership = c.hasMembership
              /\ Accepted(c, end).nextFrame = c.nextFrame /\ Accepted(c, end).ended = TRUE
          BY ONLY <5>1, AcceptedCases
        <5> QED BY <5>2 DEF c
      <4> HIDE DEF e
      <4>7. Behind(Reader, membership, dirty)'
        <5>1. Behind(e, membership', dirty')
          BY <2>1, <2>2, <4>6
        <5> QED BY <4>5, <5>1 DEF Behind
      <4> QED BY <1>2, <2>1, <3>4, <4>4, <4>5, <4>6, <4>7 DEF ReaderInv
    <3> QED BY <3>3, <3>6, <3>7
  <2> QED BY <2>3, <2>4
<1> QED BY <1>3, <1>4

LEMMA CloseSupplies ==
    ASSUME TypeInv, SuppliedInv, Close, UNCHANGED <<members, down, queued, client>>,
           membership'.generation = membership.generation
    PROVE  SuppliedInv'
<1>1. closed' = TRUE /\ log \in Seq(Recorded) /\ members \subseteq Slot
  BY AuthorityAssumption DEF Close, TypeInv, AuthorityTypes, CoreTypes
<1>2. ASSUME NEW s \in members, membership.generation[s] = 0 PROVE Supplied(s)'
  <2>1. Supplied(s) /\ s \in Slot
    BY <1>1, <1>2 DEF SuppliedInv
  <2>2. CASE ~live
    <3>1. log' = log
      BY <2>2 DEF Close
    <3> QED BY <1>1, <2>1, <3>1, SuppliedSame
  <2>3. CASE live
    <3> DEFINE records == Append(outbox, EndRecord)
    <3>1. PICK landed \in 0 .. Len(outbox) + 1 : Appends(records, landed)
      BY <2>3 DEF Close
    <3>2. records \in Seq(Recorded) /\ Len(records) = Len(outbox) + 1
      BY EndType DEF TypeInv, AuthorityTypes
    <3> HIDE DEF records
    <3> DEFINE part == SubSeq(records, 1, landed)
    <3>3. part \in Seq(Recorded) /\ Len(part) = landed /\ log' = log \o part
      BY <3>1, <3>2, FrontPart DEF Appends
    <3> HIDE DEF part
    <3>4. down[s] \o SubSeq(part, 1, 0) = down[s] /\ queued[s] + 0 = queued[s] /\ queued[s] <= ChannelWindow
      <4> DEFINE queue == down[s]
      <4>1. queue \in Seq(Recorded) /\ queued[s] \in 0 .. ChannelWindow /\ ChannelWindow \in Nat
        BY <2>1, SuppliedTypes, AuthorityAssumption
      <4> HIDE DEF queue
      <4>2. SubSeq(part, 1, 0) = <<>> /\ queue \o <<>> = queue
        BY <3>3, <4>1
      <4>3. queued[s] + 0 = queued[s] /\ queued[s] <= ChannelWindow
        BY <4>1
      <4> QED BY <4>2, <4>3 DEF queue
    <3>5. /\ client'[s] = client[s] /\ down'[s] = down[s] \o SubSeq(part, 1, 0)
          /\ queued'[s] = queued[s] + 0 /\ queued'[s] <= ChannelWindow /\ closed'
      BY <1>1, <3>4
    <3>6. 0 \in 0 .. Len(part) /\ ~(0 > 0)
      BY <3>1, <3>3
    <3> QED BY ONLY TypeInv, <2>1, <3>3, <3>5, <3>6, SuppliedKeeps
  <2> QED BY <2>2, <2>3
<1> QED BY <1>1, <1>2 DEF SuppliedInv

LEMMA LogEnds ==
    ASSUME TypeInv, TypeInv', LogInv, IdleClose \/ \E s \in SlotMask : Bye(s)
    PROVE  LogInv'
<1>1. membership \in Snapshot /\ membership' \in Snapshot /\ dirty' \in BOOLEAN
  BY DEF TypeInv, AuthorityTypes
<1>2. CASE IdleClose
  <2>1. /\ Close /\ ~closed
        /\ UNCHANGED <<builder, membership, dirty, members, generation, down, queued, client>>
    BY <1>2 DEF IdleClose, wireVars
  <2>2. ReaderInv'
    BY <1>1, <2>1, CloseReads
  <2>3. SuppliedInv'
    BY <2>1, CloseSupplies DEF LogInv
  <2>4. Clocked(membership)'
    BY <2>1 DEF LogInv, Clocked
  <2> QED BY <2>2, <2>3, <2>4 DEF LogInv
<1>3. ASSUME NEW s \in SlotMask, Bye(s) PROVE LogInv'
  <2>1. /\ ~closed /\ s \in members /\ membership' = Departed(membership, s) /\ dirty' = TRUE
        /\ UNCHANGED <<builder, members, generation, down, queued, client>>
    BY <1>3 DEF Bye, wireVars
  <2>2. /\ Clocked(membership)' /\ membership.departed \subseteq membership'.departed
        /\ membership'.generation = membership.generation
    BY <1>1, <2>1, ClockedDeparted DEF LogInv
  <2>3. CASE Close
    BY <1>1, <2>1, <2>2, <2>3, CloseReads, CloseSupplies DEF LogInv
  <2>4. CASE UNCHANGED <<closed, live, log, outbox, sequence, failed>>
    <3>1. \A t \in Slot : membership.generation[t] <= membership'.generation[t]
      BY <1>1, <2>2 DEF Snapshot
    <3>2. ReaderInv'
      BY <1>1, <2>1, <2>2, <2>4, <3>1, ReaderKeeps DEF LogInv
    <3>3. ASSUME NEW t \in members, membership.generation[t] = 0 PROVE Supplied(t)'
      BY <2>1, <2>4, <3>3, SuppliedSame DEF LogInv, SuppliedInv
    <3>4. SuppliedInv'
      BY <2>1, <2>2, <2>4, <3>3 DEF LogInv, SuppliedInv
    <3> QED BY <2>2, <3>2, <3>4 DEF LogInv
  <2> QED BY <1>3, <2>3, <2>4 DEF Bye
<1> QED BY <1>2, <1>3

LEMMA LogPasses ==
    ASSUME TypeInv, LogInv,
           UNCHANGED <<builder, membership, dirty, members, sequence, generation, outbox, failed,
                       log, closed, down, queued, client>>,
           live' = live \/ (live' = FALSE /\ ~closed)
    PROVE  LogInv'
<1>1. Clocked(membership)'
  BY DEF LogInv, Clocked
<1>2. ReaderInv'
  <2>1. Reader' = Reader
    BY DEF Reader
  <2>2. Behind(Reader, membership, dirty)' <=> Behind(Reader, membership, dirty)
    BY <2>1 DEF Behind
  <2> QED BY <2>1, <2>2 DEF LogInv, ReaderInv
<1>3. ASSUME NEW t \in members, membership.generation[t] = 0 PROVE Supplied(t)'
  BY <1>3, SuppliedSame DEF LogInv, SuppliedInv
<1>4. SuppliedInv'
  BY <1>3 DEF LogInv, SuppliedInv
<1> QED BY <1>1, <1>2, <1>4 DEF LogInv

LEMMA InitLog == Init => LogInv
<1> SUFFICES ASSUME Init PROVE LogInv
  OBVIOUS
<1>1. log = <<>> /\ Len(log) = 0 /\ members = {} /\ closed = FALSE
  BY DEF Init
<1>2. Reader = NewCursor
  BY <1>1, FeedingSteps DEF Reader
<1>3. Clocked(membership)
  BY <1>1 DEF Init, Clocked, NoSnapshot
<1>4. Behind(Reader, membership, dirty)
  BY <1>1, <1>2 DEF Init, Behind, NoSnapshot, NewCursor
<1>5. TakesAll(NewCursor, log)
  BY <1>1 DEF TakesAll
<1>6. ReaderInv
  BY <1>1, <1>2, <1>4, <1>5 DEF Init, ReaderInv, NewCursor, NewBuilder
<1>7. SuppliedInv
  BY <1>1 DEF Init, SuppliedInv
<1> QED BY <1>3, <1>6, <1>7 DEF LogInv

LEMMA StepLog == ASSUME NextTickets PROVE TypeInv /\ TypeInv' /\ LogInv /\ [Next]_vars => LogInv'
<1> SUFFICES ASSUME TypeInv, TypeInv', LogInv, [Next]_vars PROVE LogInv'
  OBVIOUS
<1>1. CASE LogStops \/ TimePasses \/ UNCHANGED vars
  <2>1. UNCHANGED <<builder, membership, dirty, members, sequence, generation, outbox, failed,
                    log, closed, down, queued, client>>
    BY <1>1 DEF LogStops, TimePasses, vars, authorityVars, coreVars, wireVars
  <2>2. live' = live \/ (live' = FALSE /\ ~closed)
    BY <1>1 DEF LogStops, TimePasses, vars, coreVars
  <2> QED BY <2>1, <2>2, LogPasses
<1>2. CASE Next /\ ~(LogStops \/ TimePasses)
  BY <1>2, LogClient, LogHello, LogAgain, LogRejoin, LogReceives, LogTicks, LogEnds DEF Next
<1> QED BY <1>1, <1>2

LEMMA LogFollowed == ASSUME NextTickets PROVE Spec => [](TypeInv /\ LogInv)
<1>1. Init => TypeInv /\ LogInv
  BY InitTypes, InitLog
<1>2. TypeInv /\ LogInv /\ [Next]_vars => (TypeInv /\ LogInv)'
  BY StepTypes, StepLog
<1> QED BY <1>1, <1>2, PTL DEF Spec

\* A reader of the game log follows the authority exactly as long as it has
\* not failed, whichever messages arrive in whichever order, where a slot that
\* rejoins does so with its next ticket.
THEOREM LogIsReplayable == ASSUME NextTickets PROVE Spec => []LogReplays
<1>1. ASSUME TypeInv, LogInv PROVE LogReplays
  <2>1. Reader = Fed(NewCursor, log)
    BY DEF Reader, Fed
  <2>2. ASSUME ~failed, generation > 0, ~dirty PROVE Reader.staged = membership
    <3>1. Behind(Reader, membership, dirty) /\ Reader.generation = generation
      BY <1>1, <2>2 DEF LogInv, ReaderInv
    <3> QED BY <2>2, <3>1 DEF Behind
  <2> HIDE DEF Reader
  <2>3. ReaderInv
    BY <1>1 DEF LogInv
  <2> QED BY <2>1, <2>2, <2>3 DEF ReaderInv, LogReplays
<1>2. TypeInv /\ LogInv => LogReplays
  BY <1>1
<1> QED BY <1>2, LogFollowed, PTL

\* No client that kept its place runs what the game log does not hold: its
\* cursor is the log's after as many records, and those on their way to it are
\* the ones that follow.
THEOREM ClientsAreSupplied == ASSUME NextTickets PROVE Spec => []ClientsFollowLog
<1>1. ASSUME TypeInv, LogInv, NEW s \in members, membership.generation[s] = 0 PROVE Follows(s)
  <2> DEFINE c == client[s].cursor
             got == c.sequence
             part == SubSeq(log, 1, got)
  <2>1. s \in Slot /\ Supplied(s)
    BY <1>1, AuthorityAssumption DEF LogInv, SuppliedInv, TypeInv, AuthorityTypes
  <2>2. log \in Seq(Recorded) /\ Len(log) \in Nat /\ got \in Nat /\ down[s] \in Seq(Recorded)
    BY <1>1, <2>1, SuppliedTypes
  <2>3. /\ ~client[s].rejected /\ got + Len(down[s]) <= Len(log) /\ c = Feeding(NewCursor, log)[got]
        /\ \A i \in 1 .. Len(down[s]) : down[s][i] = log[got + i]
    BY <2>1 DEF Supplied
  <2>4. got \in 0 .. Len(log)
    BY <2>2, <2>3
  <2> HIDE DEF c, got
  <2>5. part \in Seq(Recorded) /\ Len(part) = got /\ \A i \in 1 .. got : part[i] = log[i]
    BY <2>2, <2>4, FrontPart
  <2> HIDE DEF part
  <2>6. Along(part, 0, log)
    BY <2>2, <2>4, <2>5 DEF Along
  <2>7. \A n \in 0 .. Len(part) : Feeding(NewCursor, part)[n] = Feeding(NewCursor, log)[0 + n]
    <3>1. NewCursor = Feeding(NewCursor, log)[0] /\ Len(part) \in Nat /\ Len(log) \in Nat
      BY <2>2, <2>5, FeedingSteps
    <3> QED BY ONLY <2>6, <3>1, FeedingAlong
  <2>8. c = Fed(NewCursor, part)
    <3>1. Len(part) \in 0 .. Len(part) /\ 0 + Len(part) = got
      BY <2>2, <2>5
    <3> QED BY <2>3, <2>7, <3>1 DEF Fed
  <2> QED BY <2>3, <2>8 DEF Follows, c, got, part
<1>2. TypeInv /\ LogInv => ClientsFollowLog
  BY <1>1 DEF ClientsFollowLog
<1> QED BY <1>2, LogFollowed, PTL

-----------------------------------------------------------------------------
\* What a client ran.

LEMMA AppendJoined ==
    ASSUME NEW S, NEW p \in Seq(S), NEW q \in Seq(S), NEW x \in S
    PROVE  p \o Append(q, x) = Append(p \o q, x)
OBVIOUS

LEMMA Extended ==
    ASSUME NEW S, NEW q \in Seq(S), NEW x \in S
    PROVE  /\ Append(q, x) \in Seq(S) /\ Len(Append(q, x)) = Len(q) + 1
           /\ Append(q, x)[Len(q) + 1] = x
           /\ \A i \in 1 .. Len(q) : Append(q, x)[i] = q[i]
OBVIOUS

\* A slot of a frame a cursor takes either left before, and has no orders, or is here.
LEMMA RanFrame ==
    ASSUME NEW c \in Cursor, NEW r \in Recorded, NEW frames \in Seq(FrameRun), Ran(c, frames),
           Accepts(c, r), r.kind = "Frame"
    PROVE  Ran(Accepted(c, r), Append(frames, RunOf(Accepted(c, r), r)))
<1> DEFINE e == Accepted(c, r)
           new == RunOf(e, r)
           all == Append(frames, new)
           n == Len(frames)
<1>1. /\ e \in Cursor /\ r.payload # <<>> /\ e.staged = c.staged /\ e.applied = c.staged
      /\ e.departedAtFrame = c.staged.departed \ c.applied.departed
  BY AcceptedCases
<1>2. r.payload \in Seq(Orders) /\ r.payload[1] \in Orders /\ r.frame \in Nat
  BY <1>1 DEF Recorded, IsRecord
<1>3. ValidFrame(r.payload[1], c.staged)
  BY DEF Accepts
<1> HIDE DEF e
<1>4. new \in FrameRun /\ new.departed = c.staged.departed \ c.applied.departed /\ new.orders = r.payload[1]
  BY <1>1, <1>2 DEF RunOf, FrameRun, Cursor
<1>5. ASSUME NEW gone \in c.staged.departed PROVE new.orders[gone] = <<>>
  <2>1. gone \in Slot /\ gone \notin c.staged.active
    BY <1>3 DEF ValidFrame, Valid, Cursor, Snapshot
  <2> QED BY <1>3, <1>4, <2>1 DEF ValidFrame
<1>6. /\ c.applied.departed \subseteq c.staged.departed
      /\ \A i \in 1 .. n : frames[i].departed \subseteq c.applied.departed
  BY DEF Ran
<1> HIDE DEF new
<1>7. all[n + 1] = new /\ Len(all) = n + 1 /\ n \in Nat /\ \A i \in 1 .. n : all[i] = frames[i]
  BY <1>4, Extended
<1> HIDE DEF all, n
<1>8. \A i \in 1 .. Len(all) : i = n + 1 \/ i \in 1 .. n
  BY <1>7
<1>9. \A i \in 1 .. Len(all) : all[i].departed \subseteq c.staged.departed
  BY <1>4, <1>6, <1>7, <1>8
<1>10. ASSUME NEW i \in 1 .. Len(all), NEW j \in 1 .. Len(all), i < j
       PROVE  all[i].departed \intersect all[j].departed = {}
  <2>1. i \in 1 .. n
    BY <1>7, <1>10
  <2>2. CASE j = n + 1
    BY <1>4, <1>6, <1>7, <2>1, <2>2
  <2>3. CASE j \in 1 .. n
    BY <1>7, <1>10, <2>1, <2>3 DEF Ran, n
  <2> QED BY <1>8, <2>2, <2>3
<1>11. ASSUME NEW i \in 1 .. Len(all), NEW j \in 1 .. Len(all), i <= j, NEW gone \in all[i].departed
       PROVE  all[j].orders[gone] = <<>>
  <2>1. CASE j = n + 1
    BY <1>5, <1>7, <1>9, <2>1
  <2>2. CASE j \in 1 .. n
    <3>1. i \in 1 .. n
      BY <1>7, <1>11, <2>2
    <3> QED BY <1>7, <1>11, <2>2, <3>1 DEF Ran, n
  <2> QED BY <1>8, <2>1, <2>2
<1>12. e.applied.departed \subseteq e.staged.departed /\ e.applied = c.staged
  BY <1>1
<1>13. Ran(e, all)
  BY <1>9, <1>10, <1>11, <1>12 DEF Ran
<1> QED BY <1>13 DEF e, all, new

LEMMA RanOther ==
    ASSUME NEW c \in Cursor, NEW r \in Recorded, NEW frames, Ran(c, frames), ~(Accepts(c, r) /\ r.kind = "Frame")
    PROVE  Ran(Accepted(c, r), frames)
<1> DEFINE e == Accepted(c, r)
<1>1. r.kind \in {"Frame", "Membership", "End"}
  BY DEF Recorded, IsRecord
<1>2. CASE ~Accepts(c, r)
  BY <1>2, AcceptedCases
<1>3. CASE Accepts(c, r) /\ r.kind = "Membership"
  <2>1. e.staged = r.payload[1] /\ e.applied = c.applied
    BY <1>3, AcceptedCases
  <2>2. c.staged.departed \subseteq r.payload[1].departed
    BY <1>3 DEF Accepts, MembershipFollows
  <2> HIDE DEF e
  <2>3. Ran(e, frames)
    BY <2>1, <2>2 DEF Ran
  <2> QED BY <2>3 DEF e
<1>4. CASE Accepts(c, r) /\ r.kind = "End"
  <2>1. e.staged = c.staged /\ e.applied = c.applied
    BY <1>4, AcceptedCases
  <2> HIDE DEF e
  <2>2. Ran(e, frames)
    BY <2>1 DEF Ran
  <2> QED BY <2>2 DEF e
<1> QED BY <1>1, <1>2, <1>3, <1>4

LEMMA RanFed ==
    ASSUME NEW c \in Cursor, NEW records \in Seq(Recorded), NEW frames \in Seq(FrameRun), Ran(c, frames)
    PROVE  Ran(Fed(c, records), frames \o FramesOf(c, records))
<1> DEFINE fed == Feeding(c, records)
           runs == FramesFed(c, records)
           T == {n \in Nat : n <= Len(records) => Ran(fed[n], frames \o runs[n])}
<1>1. /\ \A n \in 0 .. Len(records) : fed[n] \in Cursor /\ runs[n] \in Seq(FrameRun)
      /\ fed[0] = c /\ runs[0] = <<>> /\ Len(records) \in Nat
  BY FeedingType, FramesFedType, FeedingSteps, FramesFedSteps
<1>2. \A n \in 1 .. Len(records) :
        /\ fed[n] = Accepted(fed[n - 1], records[n])
        /\ runs[n] = IF Accepts(fed[n - 1], records[n]) /\ records[n].kind = "Frame"
                     THEN Append(runs[n - 1], RunOf(fed[n], records[n])) ELSE runs[n - 1]
  BY FeedingSteps, FramesFedSteps
<1> HIDE DEF fed, runs
<1>3. 0 \in T
  <2>1. frames \o <<>> = frames
    OBVIOUS
  <2> QED BY <1>1, <2>1
<1>4. ASSUME NEW n \in Nat, n \in T PROVE n + 1 \in T
  <2> SUFFICES ASSUME n + 1 <= Len(records) PROVE Ran(fed[n + 1], frames \o runs[n + 1])
    OBVIOUS
  <2> DEFINE d == fed[n]
             r == records[n + 1]
             x == runs[n]
  <2>1. n + 1 \in 1 .. Len(records) /\ (n + 1) - 1 = n /\ n \in 0 .. Len(records) /\ n + 1 \in 0 .. Len(records)
    BY <1>1
  <2>2. /\ d \in Cursor /\ r \in Recorded /\ x \in Seq(FrameRun) /\ Ran(d, frames \o x)
        /\ frames \o x \in Seq(FrameRun)
    BY <1>1, <1>4, <2>1, Joined
  <2>3. /\ fed[n + 1] = Accepted(d, r)
        /\ runs[n + 1] = IF Accepts(d, r) /\ r.kind = "Frame" THEN Append(x, RunOf(Accepted(d, r), r)) ELSE x
    BY <1>2, <2>1
  <2> HIDE DEF d, r, x
  <2>4. CASE Accepts(d, r) /\ r.kind = "Frame"
    <3> DEFINE new == RunOf(Accepted(d, r), r)
    <3>1. new \in FrameRun
      <4>1. Accepted(d, r) \in Cursor /\ r.payload # <<>>
        BY <2>2, <2>4, AcceptedCases
      <4>2. r.payload \in Seq(Orders) /\ r.frame \in Nat
        BY <2>2, <2>4 DEF Recorded, IsRecord
      <4>3. r.payload[1] \in Orders
        BY <4>1, <4>2
      <4>4. Accepted(d, r).departedAtFrame \in SUBSET Slot
        BY <4>1 DEF Cursor
      <4> QED BY <4>2, <4>3, <4>4 DEF RunOf, FrameRun
    <3>2. Ran(Accepted(d, r), Append(frames \o x, new))
      BY <2>2, <2>4, RanFrame
    <3> HIDE DEF new
    <3>3. frames \o Append(x, new) = Append(frames \o x, new)
      BY <2>2, <3>1, AppendJoined
    <3> QED BY <2>3, <2>4, <3>2, <3>3 DEF new
  <2>5. CASE ~(Accepts(d, r) /\ r.kind = "Frame")
    BY <2>2, <2>3, <2>5, RanOther
  <2> QED BY <2>4, <2>5
<1> HIDE DEF T
<1>5. Nat \subseteq T
  BY <1>3, <1>4, SetInduction
<1>6. Ran(fed[Len(records)], frames \o runs[Len(records)])
  BY <1>1, <1>5 DEF T
<1> QED BY <1>6 DEF fed, runs, Fed, FramesOf

LEMMA NewRan == Ran(NewClient.cursor, NewClient.frames)
<1>1. NewClient.cursor = NewCursor /\ NewClient.frames = <<>> /\ Len(<<>>) = 0
  BY DEF NewClient
<1>2. NewCursor.applied.departed = {}
  BY DEF NewCursor, NoSnapshot
<1> QED BY <1>1, <1>2 DEF Ran

LEMMA StepRan == TypeInv /\ RanInv /\ [Next]_vars => RanInv'
<1> SUFFICES ASSUME TypeInv, RanInv, [Next]_vars PROVE RanInv'
  OBVIOUS
<1>1. SlotMask \subseteq Slot /\ client \in [Slot -> Client]
  BY AuthorityAssumption DEF TypeInv, WireTypes
<1>2. CASE UNCHANGED client
  BY <1>2 DEF RanInv
<1>3. ASSUME NEW s \in SlotMask, Rejoin(s) PROVE RanInv'
  <2>1. client' = [client EXCEPT ![s] = NewClient]
    BY <1>3 DEF Rejoin
  <2> QED BY <1>1, <2>1, NewRan DEF RanInv
<1>4. ASSUME NEW s \in SlotMask, ClientUpdate(s) PROVE RanInv'
  <2>1. PICK arrived \in 0 .. Len(down[s]), given \in 0 .. 1 :
             client' = [client EXCEPT ![s] =
                 [cursor |-> Fed(client[s].cursor, SubSeq(down[s], 1, arrived)),
                  orderId |-> client[s].orderId + given,
                  beatId |-> client[s].beatId + 1,
                  frames |-> client[s].frames \o FramesOf(client[s].cursor, SubSeq(down[s], 1, arrived)),
                  rejected |-> client[s].rejected
                               \/ ~TakesAll(client[s].cursor, SubSeq(down[s], 1, arrived))]]
    BY <1>4 DEF ClientUpdate
  <2> DEFINE c == client[s].cursor
             frames == client[s].frames
             records == SubSeq(down[s], 1, arrived)
  <2>2. s \in Slot /\ c \in Cursor /\ frames \in Seq(FrameRun) /\ Ran(c, frames)
    BY <1>1 DEF Client, RanInv
  <2>3. records \in Seq(Recorded)
    <3>1. down[s] \in Seq(Recorded)
      BY <2>2 DEF TypeInv, WireTypes
    <3> QED BY <2>1, <3>1, FrontPart
  <2>4. /\ client'[s].cursor = Fed(c, records) /\ client'[s].frames = frames \o FramesOf(c, records)
        /\ \A t \in Slot \ {s} : client'[t] = client[t]
    <3> DEFINE next ==
                 [cursor |-> Fed(c, records),
                  orderId |-> client[s].orderId + given,
                  beatId |-> client[s].beatId + 1,
                  frames |-> frames \o FramesOf(c, records),
                  rejected |-> client[s].rejected \/ ~TakesAll(c, records)]
    <3>1. client' = [client EXCEPT ![s] = next]
      BY <2>1
    <3>2. next.cursor = Fed(c, records) /\ next.frames = frames \o FramesOf(c, records)
      OBVIOUS
    <3> HIDE DEF c, frames, records, next
    <3> QED BY <1>1, <2>2, <3>1, <3>2
  <2> HIDE DEF c, frames, records
  <2>5. Ran(Fed(c, records), frames \o FramesOf(c, records))
    BY <2>2, <2>3, RanFed
  <2>6. Ran(client'[s].cursor, client'[s].frames)
    BY <2>4, <2>5
  <2> QED BY <2>4, <2>6 DEF RanInv
<1>5. CASE \/ \E s \in SlotMask : Hello(s) \/ HelloAgain(s) \/ ReceiveData(s) \/ Bye(s)
           \/ Tick \/ IdleClose \/ LogStops \/ TimePasses \/ UNCHANGED vars
  <2>1. UNCHANGED client
    BY <1>5 DEF Hello, HelloAgain, ReceiveData, Bye, Tick, IdleClose, LogStops, TimePasses, vars, wireVars
  <2> QED BY <1>2, <2>1
<1> QED BY <1>3, <1>4, <1>5 DEF Next

\* A slot departs once for every client, and nothing it ordered runs from that
\* frame on: whatever records reach the client, in whichever order, and whoever
\* rejoins with whichever ticket.
THEOREM DepartsOnceEach == Spec => []DepartsOnce
<1>1. Init => RanInv
  BY NewRan DEF Init, RanInv
<1>2. ASSUME TypeInv, RanInv PROVE DepartsOnce
  <2>1. members \subseteq Slot
    BY <1>2, AuthorityAssumption DEF TypeInv, AuthorityTypes
  <2> QED BY <1>2, <2>1 DEF DepartsOnce, RanInv, Ran
<1>3. TypeInv /\ RanInv => DepartsOnce
  BY <1>2
<1> QED BY <1>1, <1>3, InitTypes, StepTypes, StepRan, PTL DEF Spec

-----------------------------------------------------------------------------
\* The ids of what a client sends.

\* After its first n messages a queue holds, of one kind, the ids from first to
\* last, each once and in order.
Numbered(queue, n, kind, first, last) ==
    LET its == {i \in n + 1 .. Len(queue) : queue[i].kind = kind} IN
    /\ first <= last + 1
    /\ \A i \in its : queue[i].id \in first .. last
    /\ \A id \in first .. last : \E i \in its : queue[i].id = id
    /\ \A i, j \in its : i < j => queue[i].id < queue[j].id

\* What is on the way from a slot, given what the relay expects of it next.
Dense(queue, n, id, beatId, c) ==
    /\ Numbered(queue, n, "Order", id, c.orderId)
    /\ Numbered(queue, n, "Beat", beatId, c.beatId)

\* A slot never bound has not rejoined; one that has not was never refused.
DenseInv ==
    \A s \in SlotMask :
        /\ s \notin members => membership.generation[s] = 0
        /\ membership.generation[s] = 0 =>
            /\ s \notin refusedAt
            /\ Dense(up[s], 0, builder.nextId[s], builder.nextBeatId[s], client[s])

\* No frame counter has run out: neither the next frame's, nor the one a slot's
\* beats have reached, nor the one the clock is in.
CountersLeft ==
    /\ builder.nextFrame < MaxFrame
    /\ \A s \in SlotMask : builder.beatFrame[s] < MaxFrame
    /\ game.policy = "NextFrame" => FrameAfterInRange(now) /\ FrameAfter(now) < MaxFrame

\* A client that updates gets all it sends into its channel.
NothingCut ==
    \A s \in SlotMask : client'[s].beatId > client[s].beatId =>
        Len(up'[s]) = Len(up[s]) + (client'[s].orderId - client[s].orderId) + 1

LEMMA NumberedNext ==
    ASSUME NEW queue \in Seq(Message), NEW n \in Nat, n + 1 <= Len(queue), NEW kind,
           NEW first \in Nat, NEW last \in Nat, Numbered(queue, n, kind, first, last), queue[n + 1].kind = kind
    PROVE  queue[n + 1].id = first /\ Numbered(queue, n + 1, kind, first + 1, last)
<1> DEFINE its == {i \in n + 1 .. Len(queue) : queue[i].kind = kind}
           rest == {i \in (n + 1) + 1 .. Len(queue) : queue[i].kind = kind}
           Id(i) == queue[i].id
<1>1. /\ \A i \in its : Id(i) \in first .. last
      /\ \A id \in first .. last : \E i \in its : Id(i) = id
      /\ \A i, j \in its : i < j => Id(i) < Id(j)
  BY DEF Numbered
<1>2. /\ n + 1 \in its /\ rest \subseteq its /\ \A i \in its : i = n + 1 \/ i \in rest
      /\ \A i \in rest : i \in Nat /\ n + 1 < i
  OBVIOUS
<1> HIDE DEF its, rest, Id
<1>3. Id(n + 1) \in first .. last /\ first \in first .. last
  BY <1>1, <1>2
<1>4. Id(n + 1) = first
  <2>1. PICK i \in its : Id(i) = first
    BY <1>1, <1>3
  <2>2. CASE i \in rest
    <3>1. Id(n + 1) < Id(i)
      BY <1>1, <1>2, <2>1, <2>2
    <3> QED BY <1>3, <2>1, <3>1
  <2> QED BY <1>2, <2>1, <2>2
<1>5. \A i \in rest : Id(i) \in first + 1 .. last
  <2> SUFFICES ASSUME NEW i \in rest PROVE Id(i) \in first + 1 .. last
    OBVIOUS
  <2>1. i \in its /\ n + 1 < i /\ Id(i) \in first .. last
    BY <1>1, <1>2
  <2>2. Id(n + 1) < Id(i)
    BY <1>1, <1>2, <2>1
  <2> QED BY <1>4, <2>1, <2>2
<1>6. \A id \in first + 1 .. last : \E i \in rest : Id(i) = id
  <2> SUFFICES ASSUME NEW id \in first + 1 .. last PROVE \E i \in rest : Id(i) = id
    OBVIOUS
  <2>1. PICK i \in its : Id(i) = id
    BY <1>1
  <2>2. i # n + 1
    BY <1>4, <2>1
  <2> QED BY <1>2, <2>1, <2>2
<1>7. \A i, j \in rest : i < j => Id(i) < Id(j)
  BY <1>1, <1>2
<1>8. first + 1 <= last + 1
  BY <1>3
<1> QED BY <1>4, <1>5, <1>6, <1>7, <1>8 DEF Numbered, rest, Id

LEMMA NumberedSkip ==
    ASSUME NEW queue \in Seq(Message), NEW n \in Nat, n + 1 <= Len(queue), NEW kind,
           NEW first \in Nat, NEW last \in Nat, Numbered(queue, n, kind, first, last), queue[n + 1].kind # kind
    PROVE  Numbered(queue, n + 1, kind, first, last)
<1>1. {i \in n + 1 .. Len(queue) : queue[i].kind = kind} = {i \in (n + 1) + 1 .. Len(queue) : queue[i].kind = kind}
  OBVIOUS
<1> QED BY <1>1 DEF Numbered

LEMMA NumberedRest ==
    ASSUME NEW queue \in Seq(Message), NEW n \in 0 .. Len(queue), NEW kind,
           NEW first \in Nat, NEW last \in Nat, Numbered(queue, n, kind, first, last)
    PROVE  Numbered(SubSeq(queue, n + 1, Len(queue)), 0, kind, first, last)
<1> DEFINE rest == SubSeq(queue, n + 1, Len(queue))
           its == {i \in n + 1 .. Len(queue) : queue[i].kind = kind}
           those == {i \in 0 + 1 .. Len(rest) : rest[i].kind = kind}
<1>1. /\ \A i \in its : queue[i].id \in first .. last
      /\ \A id \in first .. last : \E i \in its : queue[i].id = id
      /\ \A i, j \in its : i < j => queue[i].id < queue[j].id
  BY DEF Numbered
<1>2. rest \in Seq(Message) /\ Len(rest) = Len(queue) - n
      /\ \A i \in 1 .. Len(queue) - n : rest[i] = queue[n + i]
  BY RestPart
<1> HIDE DEF rest
<1>3. /\ \A i \in those : i \in Nat /\ n + i \in its /\ rest[i].id = queue[n + i].id
      /\ \A i \in its : i - n \in those /\ rest[i - n].id = queue[i].id
  <2>1. ASSUME NEW i \in those PROVE i \in Nat /\ n + i \in its /\ rest[i].id = queue[n + i].id
    <3>1. i \in 1 .. Len(queue) - n /\ rest[i].kind = kind
      BY <1>2, <2>1
    <3>2. rest[i] = queue[n + i]
      BY <1>2, <3>1
    <3> QED BY <3>1, <3>2
  <2>2. ASSUME NEW i \in its PROVE i - n \in those /\ rest[i - n].id = queue[i].id
    <3>1. i - n \in 1 .. Len(queue) - n /\ n + (i - n) = i
      OBVIOUS
    <3>2. rest[i - n] = queue[i]
      BY <1>2, <3>1
    <3> QED BY <1>2, <3>1, <3>2
  <2> QED BY <2>1, <2>2
<1>4. \A i \in its : i \in Nat
  OBVIOUS
<1> HIDE DEF its, those
<1>5. \A i \in those : rest[i].id \in first .. last
  BY <1>1, <1>3
<1>6. \A id \in first .. last : \E i \in those : rest[i].id = id
  <2> SUFFICES ASSUME NEW id \in first .. last PROVE \E i \in those : rest[i].id = id
    OBVIOUS
  <2>1. PICK i \in its : queue[i].id = id
    BY <1>1
  <2> QED BY <1>3, <2>1
<1>7. \A i, j \in those : i < j => rest[i].id < rest[j].id
  <2> SUFFICES ASSUME NEW i \in those, NEW j \in those, i < j PROVE rest[i].id < rest[j].id
    OBVIOUS
  <2>1. n + i \in its /\ n + j \in its /\ n + i < n + j
    BY <1>3
  <2>2. queue[n + i].id < queue[n + j].id
    BY <1>1, <2>1
  <2> QED BY <1>3, <2>2
<1> QED BY <1>5, <1>6, <1>7 DEF Numbered, rest, those

LEMMA NumberedMore ==
    ASSUME NEW queue \in Seq(Message), NEW kind, NEW first \in Nat, NEW last \in Nat, NEW message \in Message,
           Numbered(queue, 0, kind, first, last)
    PROVE  /\ message.kind # kind => Numbered(Append(queue, message), 0, kind, first, last)
           /\ message.kind = kind /\ message.id = last + 1 =>
                Numbered(Append(queue, message), 0, kind, first, last + 1)
<1> DEFINE more == Append(queue, message)
           n == Len(queue)
           its == {i \in 0 + 1 .. n : queue[i].kind = kind}
           those == {i \in 0 + 1 .. Len(more) : more[i].kind = kind}
<1>1. /\ first <= last + 1
      /\ \A i \in its : queue[i].id \in first .. last
      /\ \A id \in first .. last : \E i \in its : queue[i].id = id
      /\ \A i, j \in its : i < j => queue[i].id < queue[j].id
  BY DEF Numbered
<1>2. n \in Nat /\ Len(more) = n + 1 /\ more[n + 1] = message /\ \A i \in 1 .. n : more[i] = queue[i]
  BY Extended
<1> HIDE DEF more, n
<1>3. CASE message.kind # kind
  <2>1. those = its
    BY <1>2, <1>3
  <2>2. \A i \in its : more[i] = queue[i]
    BY <1>2
  <2> HIDE DEF its, those
  <2>3. /\ \A i \in those : more[i].id \in first .. last
        /\ \A id \in first .. last : \E i \in those : more[i].id = id
        /\ \A i, j \in those : i < j => more[i].id < more[j].id
    BY <1>1, <2>1, <2>2
  <2>4. Numbered(more, 0, kind, first, last)
    BY <1>1, <2>3 DEF Numbered, those
  <2> QED BY <1>3, <2>4 DEF more
<1>4. CASE message.kind = kind /\ message.id = last + 1
  <2>1. those = its \union {n + 1}
    BY <1>2, <1>4
  <2>2. \A i \in its : i \in Nat /\ i < n + 1 /\ more[i] = queue[i]
    BY <1>2
  <2> HIDE DEF its, those
  <2>3. \A i \in those : more[i].id \in first .. last + 1
    BY <1>1, <1>2, <1>4, <2>1, <2>2
  <2>4. \A id \in first .. last + 1 : \E i \in those : more[i].id = id
    <3> SUFFICES ASSUME NEW id \in first .. last + 1 PROVE \E i \in those : more[i].id = id
      OBVIOUS
    <3>1. CASE id = last + 1
      BY <1>2, <1>4, <2>1, <3>1
    <3>2. CASE id \in first .. last
      <4>1. PICK i \in its : queue[i].id = id
        BY <1>1, <3>2
      <4> QED BY <2>1, <2>2, <4>1
    <3> QED BY <3>1, <3>2
  <2>5. \A i, j \in those : i < j => more[i].id < more[j].id
    <3> SUFFICES ASSUME NEW i \in those, NEW j \in those, i < j PROVE more[i].id < more[j].id
      OBVIOUS
    <3>1. i \in its
      BY <1>2, <2>1, <2>2
    <3>2. CASE j \in its
      BY <1>1, <2>2, <3>1, <3>2
    <3>3. CASE j = n + 1
      <4>1. more[i].id \in first .. last
        BY <1>1, <2>2, <3>1
      <4> QED BY <1>2, <1>4, <3>3, <4>1
    <3> QED BY <2>1, <3>2, <3>3
  <2>6. Numbered(more, 0, kind, first, last + 1)
    BY <1>1, <2>3, <2>4, <2>5 DEF Numbered, those
  <2> QED BY <1>4, <2>6 DEF more
<1> QED BY <1>3, <1>4

\* Whatever a client sends, in whole, goes on where its ids were.
LEMMA SentDense ==
    ASSUME TypeInv, NEW s \in SlotMask, NEW given \in 0 .. 1, NEW id \in Nat, NEW beatId \in Nat,
           Dense(up[s], 0, id, beatId, client[s]),
           Len(up[s] \o Sent(s, given)) = Len(up[s]) + given + 1,
           NEW next, next.orderId = client[s].orderId + given, next.beatId = client[s].beatId + 1
    PROVE  Dense(up[s] \o Sent(s, given), 0, id, beatId, next)
<1> DEFINE queue == up[s]
           o == client[s].orderId
           t == client[s].beatId
           orders == [i \in 1 .. given |-> [kind |-> "Order", id |-> o + i]]
           order == [kind |-> "Order", id |-> o + 1]
           beat == [kind |-> "Beat", id |-> t + 1]
           messages == orders \o <<beat>>
           room == ChannelWindow - Len(up[s])
           k == IF room < Len(messages) THEN room ELSE Len(messages)
<1>1. queue \in Seq(Message) /\ o \in Nat /\ t \in Nat /\ room \in Int
  BY AuthorityAssumption DEF TypeInv, WireTypes, Client
<1>2. order \in Message /\ beat \in Message /\ order.kind = "Order" /\ beat.kind = "Beat"
      /\ order.id = o + 1 /\ beat.id = t + 1
  BY <1>1 DEF Message
<1>3. Numbered(queue, 0, "Order", id, o) /\ Numbered(queue, 0, "Beat", beatId, t)
  BY DEF Dense
<1>4. Sent(s, given) = SubSeq(messages, 1, k)
  BY DEF Sent
<1> HIDE DEF o, t, order, beat
<1>5. /\ given = 0 => orders = <<>>
      /\ given = 1 => orders = <<order>>
      /\ orders \in Seq(Message) /\ Len(orders) = given
  <2>1. \A i \in 1 .. given : [kind |-> "Order", id |-> o + i] \in Message
    BY <1>1 DEF Message
  <2>2. orders \in Seq(Message) /\ Len(orders) = given
    BY <2>1
  <2>3. given = 0 => orders = <<>>
    OBVIOUS
  <2>4. given = 1 => orders = <<order>>
    BY DEF order
  <2> QED BY <2>2, <2>3, <2>4
<1> HIDE DEF orders
<1>6. messages = Append(orders, beat) /\ messages \in Seq(Message) /\ Len(messages) = given + 1
  BY <1>2, <1>5
<1> HIDE DEF messages
<1>7. Sent(s, given) = messages
  <2>1. Len(queue) \in Nat /\ Len(queue) <= ChannelWindow
    BY <1>1, AuthorityAssumption DEF TypeInv, WireTypes
  <2>2. k \in 0 .. Len(messages)
    BY <1>1, <1>6, <2>1, AuthorityAssumption
  <2> HIDE DEF k, queue
  <2>3. SubSeq(messages, 1, k) \in Seq(Message) /\ Len(SubSeq(messages, 1, k)) = k
    BY <1>6, <2>2, FrontPart
  <2>4. Len(queue \o SubSeq(messages, 1, k)) = Len(queue) + k
    BY <1>1, <2>3, Joined
  <2>5. Len(queue \o SubSeq(messages, 1, k)) = Len(queue) + given + 1
    BY <1>4 DEF queue
  <2>6. k = Len(messages)
    BY <1>6, <2>1, <2>2, <2>4, <2>5
  <2> QED BY <1>4, <1>6, <2>6, WholeFront
<1> HIDE DEF k, room
<1>8. Numbered(Append(queue, beat), 0, "Order", id, o) /\ Numbered(Append(queue, beat), 0, "Beat", beatId, t + 1)
  BY <1>1, <1>2, <1>3, NumberedMore
<1>9. queue \o Sent(s, given) = Append(queue \o orders, beat)
  <2> HIDE DEF queue
  <2> QED BY <1>1, <1>2, <1>5, <1>6, <1>7, AppendJoined
<1>10. CASE given = 0
  <2>1. queue \o orders = queue
    <3> HIDE DEF queue
    <3> QED BY <1>1, <1>5, <1>10
  <2>2. next.orderId = o /\ next.beatId = t + 1
    BY <1>1, <1>10 DEF o, t
  <2> QED BY <1>8, <1>9, <2>1, <2>2 DEF Dense
<1>11. CASE given = 1
  <2> DEFINE q == Append(queue, order)
  <2>1. queue \o orders = q
    <3> HIDE DEF queue
    <3>1. queue \o <<order>> = Append(queue, order)
      BY <1>1, <1>2
    <3> QED BY <1>5, <1>11, <3>1
  <2>2. next.orderId = o + 1 /\ next.beatId = t + 1
    BY <1>1, <1>11 DEF o, t
  <2>3. q \in Seq(Message)
    BY <1>1, <1>2
  <2>4. Numbered(q, 0, "Order", id, o + 1)
    BY <1>1, <1>2, <1>3, NumberedMore
  <2>5. Numbered(q, 0, "Beat", beatId, t)
    BY <1>1, <1>2, <1>3, NumberedMore
  <2> HIDE DEF q
  <2>6. Numbered(Append(q, beat), 0, "Order", id, o + 1) /\ Numbered(Append(q, beat), 0, "Beat", beatId, t + 1)
    <3>1. o + 1 \in Nat
      BY <1>1
    <3> QED BY <1>1, <1>2, <2>3, <2>4, <2>5, <3>1, NumberedMore
  <2> QED BY <1>9, <2>1, <2>2, <2>6 DEF Dense
<1> QED BY <1>10, <1>11

\* A builder that takes a message leaves what the other slots' ids are.
LEMMA AdmittedOthers ==
    ASSUME NEW b \in Builder, NEW s \in Slot, NEW message \in Message
    PROVE  \A t \in Slot \ {s} :
             /\ Admitted(b, s, message).nextId[t] = b.nextId[t]
             /\ Admitted(b, s, message).nextBeatId[t] = b.nextBeatId[t]
BY DEF Admitted, Builder

LEMMA AdmittingOthers ==
    ASSUME TypeInv, NEW s \in Slot, NEW queue \in Seq(Message), NEW k \in 0 .. Len(queue)
    PROVE  LET b == Admitting(builder, s, SubSeq(queue, 1, k))[k] IN
           /\ b \in Builder
           /\ \A t \in Slot \ {s} : b.nextId[t] = builder.nextId[t] /\ b.nextBeatId[t] = builder.nextBeatId[t]
<1> DEFINE taken == SubSeq(queue, 1, k)
           f == Admitting(builder, s, taken)
           S == {b \in Builder :
                   \A t \in Slot \ {s} : b.nextId[t] = builder.nextId[t] /\ b.nextBeatId[t] = builder.nextBeatId[t]}
<1>1. taken \in Seq(Message) /\ Len(taken) = k /\ k \in Nat
      /\ builder \in Builder /\ now \in Nat /\ OriginMs <= now
  BY FrontPart DEF TypeInv, AuthorityTypes, CoreTypes
<1> HIDE DEF taken
<1>2. /\ f[0] = builder
      /\ \A n \in 1 .. k : f[n] = Admitted(f[n - 1], s, taken[n]) /\ taken[n] \in Message
  BY <1>1, AdmittingSteps
<1> HIDE DEF f
<1>3. ASSUME NEW n \in 1 .. k, f[n - 1] \in S PROVE f[n] \in S
  <2>1. PICK b \in Builder : b = f[n - 1]
    BY <1>3
  <2>2. PICK message \in Message : message = taken[n]
    BY <1>2
  <2>3. f[n] = Admitted(b, s, message)
    BY <1>2, <2>1, <2>2
  <2>4. f[n] \in Builder
    BY <1>1, <2>3, AdmittedType
  <2>5. \A t \in Slot \ {s} : /\ f[n].nextId[t] = builder.nextId[t]
                             /\ f[n].nextBeatId[t] = builder.nextBeatId[t]
    BY <1>3, <2>1, <2>3, AdmittedOthers
  <2> QED BY <2>4, <2>5
<1>4. f[0] \in S
  BY <1>1, <1>2
<1> HIDE DEF S
<1>5. \A n \in 0 .. k : f[n] \in S
  BY <1>1, <1>3, <1>4, UpTo
<1> QED BY <1>1, <1>5 DEF f, taken, S

\* The head of a dense queue is admitted, unless the slot's beats are at the
\* last frame there is.
LEMMA HeadAdmitted ==
    ASSUME TypeInv, CountersLeft, NEW s \in SlotMask, NEW b \in Builder, b.nextFrame = builder.nextFrame,
           b.beatFrame[s] # MaxFrame,
           NEW queue \in Seq(Message), NEW n \in Nat, n + 1 <= Len(queue),
           NEW c \in Client, Dense(queue, n, b.nextId[s], b.nextBeatId[s], c)
    PROVE  LET d == Admitted(b, s, queue[n + 1]) IN
           /\ Admits(b, s, queue[n + 1])
           /\ Dense(queue, n + 1, d.nextId[s], d.nextBeatId[s], c)
<1> DEFINE message == queue[n + 1]
           d == Admitted(b, s, message)
           first == b.nextId[s]
           beat == b.nextBeatId[s]
<1>1. /\ s \in Slot /\ message \in Message /\ c.orderId \in Nat /\ c.beatId \in Nat
      /\ first \in Nat /\ beat \in Nat
  BY AuthorityAssumption DEF Client, Builder
<1>2. Numbered(queue, n, "Order", first, c.orderId) /\ Numbered(queue, n, "Beat", beat, c.beatId)
  BY DEF Dense
<1>3. message.kind = "Order" \/ message.kind = "Beat"
  BY <1>1 DEF Message
<1>4. CASE message.kind = "Beat"
  <2>1. message.id = beat /\ Numbered(queue, n + 1, "Beat", beat + 1, c.beatId)
    <3> HIDE DEF beat
    <3>1. queue[n + 1].kind = "Beat"
      BY <1>4
    <3> QED BY <1>1, <1>2, <3>1, NumberedNext
  <2>2. message.kind # "Order"
    BY <1>4
  <2>3. Numbered(queue, n + 1, "Order", first, c.orderId)
    BY <1>1, <1>2, <2>2, NumberedSkip
  <2>4. Admits(b, s, message)
    BY <1>4, <2>1 DEF Admits
  <2>5. d.nextId[s] = first /\ d.nextBeatId[s] = beat + 1
    BY <1>1, <1>4, <2>4 DEF Admitted, Builder
  <2> QED BY <2>1, <2>3, <2>4, <2>5 DEF Dense
<1>5. CASE message.kind = "Order"
  <2>1. message.id = first /\ Numbered(queue, n + 1, "Order", first + 1, c.orderId)
    BY <1>1, <1>2, <1>5, NumberedNext
  <2>2. message.kind # "Beat"
    BY <1>5
  <2>3. Numbered(queue, n + 1, "Beat", beat, c.beatId)
    BY <1>1, <1>2, <2>2, NumberedSkip
  <2>4. b.nextFrame # MaxFrame /\ Stamp(b, s) # MaxFrame
        /\ (game.policy = "NextFrame" => FrameAfterInRange(now))
    <3>1. b.nextFrame < MaxFrame /\ MaxFrame \in Nat /\ b.nextFrame \in Int
      BY ClockAssumption DEF CountersLeft, Builder
    <3>2. game.policy = "NextFrame" => FrameAfterInRange(now) /\ FrameAfter(now) < MaxFrame
      BY DEF CountersLeft
    <3>3. now - OriginMs \in Nat /\ FrameMs \in Nat \ {0} /\ FirstFrame \in Nat
      BY ClockAssumption DEF TypeInv, CoreTypes
    <3>4. FrameAfter(now) \in Int
      BY <3>3, QuotientType DEF FrameAfter
    <3> QED BY <3>1, <3>2, <3>4 DEF Stamp
  <2>5. Admits(b, s, message)
    BY <2>1, <2>2, <2>4 DEF Admits
  <2>6. d.nextId[s] = first + 1 /\ d.nextBeatId[s] = beat
    BY <1>1, <2>2, <2>5 DEF Admitted, Builder
  <2> QED BY <2>1, <2>3, <2>5, <2>6 DEF Dense
<1> QED BY <1>3, <1>4, <1>5

\* A slot whose beats are at the last frame there is stays there.
LEMMA LastBeat ==
    ASSUME NEW b \in Builder, NEW s \in Slot, NEW message \in Message, b.beatFrame[s] = MaxFrame
    PROVE  Admitted(b, s, message).beatFrame[s] = MaxFrame
BY DEF Admitted, Admits, Builder

\* The builder after each of the messages a slot's packet made deliverable.
LEMMA AllAdmitted ==
    ASSUME TypeInv, CountersLeft, NEW s \in SlotMask, NEW c \in Client, NEW queue \in Seq(Message),
           Dense(queue, 0, builder.nextId[s], builder.nextBeatId[s], c), NEW k \in 0 .. Len(queue)
    PROVE  LET taken == SubSeq(queue, 1, k)
               after == Admitting(builder, s, taken)
           IN  \/ after[k].beatFrame[s] = MaxFrame
               \/ /\ \A i \in 1 .. k : Admits(after[i - 1], s, taken[i])
                  /\ Dense(SubSeq(queue, k + 1, Len(queue)), 0, after[k].nextId[s], after[k].nextBeatId[s], c)
<1> DEFINE taken == SubSeq(queue, 1, k)
           after == Admitting(builder, s, taken)
           Good(n) == /\ \A i \in 1 .. n : Admits(after[i - 1], s, taken[i])
                      /\ Dense(queue, n, after[n].nextId[s], after[n].nextBeatId[s], c)
           T == {n \in Nat : n <= k => after[n].beatFrame[s] = MaxFrame \/ Good(n)}
<1>1. /\ taken \in Seq(Message) /\ Len(taken) = k /\ k \in Nat /\ \A i \in 1 .. k : taken[i] = queue[i]
      /\ s \in Slot /\ builder \in Builder /\ now \in Nat /\ OriginMs <= now
  BY FrontPart, AuthorityAssumption DEF TypeInv, AuthorityTypes, CoreTypes
<1> HIDE DEF taken
<1>2. /\ after[0] = builder
      /\ \A n \in 1 .. k : after[n] = Admitted(after[n - 1], s, taken[n])
      /\ \A n \in 0 .. k : after[n] \in Builder /\ after[n].nextFrame = builder.nextFrame
  BY <1>1, AdmittingSteps, AdmittingType
<1> HIDE DEF after
<1>3. 0 \in T
  <2>1. Good(0)
    BY <1>2
  <2> QED BY <1>2, <2>1
<1>4. ASSUME NEW n \in Nat, n \in T PROVE n + 1 \in T
  <2> SUFFICES ASSUME n + 1 <= k PROVE after[n + 1].beatFrame[s] = MaxFrame \/ Good(n + 1)
    OBVIOUS
  <2>1. n + 1 \in 1 .. k /\ (n + 1) - 1 = n /\ n \in 0 .. k /\ n + 1 <= Len(queue) /\ n <= k
    BY <1>1
  <2>2. PICK b \in Builder : b = after[n] /\ b.nextFrame = builder.nextFrame
    BY <1>2, <2>1
  <2>3. PICK message \in Message : message = queue[n + 1] /\ message = taken[n + 1]
    BY <1>1, <2>1
  <2>4. after[n + 1] = Admitted(b, s, message)
    BY <1>2, <2>1, <2>2, <2>3
  <2>5. b.beatFrame[s] = MaxFrame \/ Good(n)
    BY <1>4, <2>1, <2>2
  <2>6. CASE b.beatFrame[s] = MaxFrame
    BY <1>1, <2>4, <2>6, LastBeat
  <2>7. CASE b.beatFrame[s] # MaxFrame
    <3>1. Dense(queue, n, b.nextId[s], b.nextBeatId[s], c)
      BY <2>2, <2>5, <2>7
    <3>2. Admits(b, s, message)
          /\ Dense(queue, n + 1, after[n + 1].nextId[s], after[n + 1].nextBeatId[s], c)
      BY <2>1, <2>2, <2>3, <2>4, <2>7, <3>1, HeadAdmitted
    <3>3. \A i \in 1 .. n : Admits(after[i - 1], s, taken[i])
      BY <2>2, <2>5, <2>7
    <3>4. Admits(after[(n + 1) - 1], s, taken[n + 1])
      BY <2>1, <2>2, <2>3, <3>2
    <3>5. \A i \in 1 .. n + 1 : i \in 1 .. n \/ i = n + 1
      OBVIOUS
    <3>6. Good(n + 1)
      BY <3>2, <3>3, <3>4, <3>5
    <3> QED BY <3>6
  <2> QED BY <2>6, <2>7
<1> HIDE DEF T
<1>5. k \in T
  BY <1>1, <1>3, <1>4, SetInduction
<1>6. (after[k].beatFrame[s] = MaxFrame \/ Good(k)) /\ after[k] \in Builder
  BY <1>1, <1>2, <1>5 DEF T
<1>7. CASE after[k].beatFrame[s] = MaxFrame
  BY <1>6, <1>7 DEF after, taken
<1>8. CASE Good(k)
  <2>1. PICK id \in Nat, beatId \in Nat : id = after[k].nextId[s] /\ beatId = after[k].nextBeatId[s]
    BY <1>1, <1>6 DEF Builder
  <2>2. c.orderId \in Nat /\ c.beatId \in Nat
    BY DEF Client
  <2>3. Numbered(queue, k, "Order", id, c.orderId) /\ Numbered(queue, k, "Beat", beatId, c.beatId)
    BY <1>8, <2>1 DEF Dense
  <2> DEFINE rest == SubSeq(queue, k + 1, Len(queue))
  <2>4. Numbered(rest, 0, "Order", id, c.orderId) /\ Numbered(rest, 0, "Beat", beatId, c.beatId)
    BY <2>2, <2>3, NumberedRest
  <2>5. Dense(rest, 0, after[k].nextId[s], after[k].nextBeatId[s], c)
    BY <2>1, <2>4 DEF Dense
  <2> QED BY <1>6, <1>8, <2>5 DEF after, taken
<1> QED BY <1>6, <1>7, <1>8

\* A pump leaves the ids the relay expects as they are.
LEMMA PumpKeepsIds ==
    ASSUME NEW b \in Builder, NEW m, NEW changed, Pump(b, m, changed)
    PROVE  /\ builder'.nextId = b.nextId /\ builder'.nextBeatId = b.nextBeatId
           /\ builder'.beatFrame = b.beatFrame /\ membership' = m
<1>1. \A orders : LET d == Committed(b, orders) IN
        d.nextId = b.nextId /\ d.nextBeatId = b.nextBeatId /\ d.beatFrame = b.beatFrame
  BY DEF Committed, Builder
<1>2. membership' = m /\ (builder' = b \/ \E orders : builder' = Committed(b, orders))
  BY DEF Pump
<1> QED BY <1>1, <1>2

LEMMA InitDense == Init => DenseInv
<1> SUFFICES ASSUME Init, NEW s \in SlotMask
             PROVE  /\ membership.generation[s] = 0 /\ s \notin refusedAt
                    /\ Dense(up[s], 0, builder.nextId[s], builder.nextBeatId[s], client[s])
  BY DEF DenseInv
<1>1. s \in Slot
  BY AuthorityAssumption
<1>2. up[s] = <<>> /\ Len(<<>>) = 0 /\ builder.nextId[s] = 1 /\ builder.nextBeatId[s] = 1
      /\ client[s].orderId = 0 /\ client[s].beatId = 0 /\ s \notin refusedAt
  BY <1>1 DEF Init, NewBuilder, NewClient
<1>3. membership.generation[s] = 0
  BY <1>1 DEF Init, NoSnapshot
<1>4. \A kind : Numbered(<<>>, 0, kind, 1, 0)
  BY <1>2 DEF Numbered
<1> QED BY <1>2, <1>3, <1>4 DEF Dense

\* What is dense for a slot stays so while nothing the slot is about changes.
LEMMA DenseKept ==
    ASSUME DenseInv, NEW t \in SlotMask,
           membership'.generation[t] = membership.generation[t],
           t \in members => t \in members', t \in refusedAt' => t \in refusedAt,
           up'[t] = up[t], client'[t] = client[t],
           builder'.nextId[t] = builder.nextId[t], builder'.nextBeatId[t] = builder.nextBeatId[t]
    PROVE  /\ t \notin members' => membership'.generation[t] = 0
           /\ membership'.generation[t] = 0 =>
                /\ t \notin refusedAt'
                /\ Dense(up'[t], 0, builder'.nextId[t], builder'.nextBeatId[t], client'[t])
<1>1. /\ t \notin members => membership.generation[t] = 0
      /\ membership.generation[t] = 0 =>
            t \notin refusedAt /\ Dense(up[t], 0, builder.nextId[t], builder.nextBeatId[t], client[t])
  BY DEF DenseInv
<1> QED BY <1>1

LEMMA UpdateDense ==
    ASSUME TypeInv, DenseInv, NEW s \in SlotMask, ClientUpdate(s), NothingCut
    PROVE  DenseInv'
<1>1. PICK given \in 0 .. 1, arrived \in 0 .. Len(down[s]) :
        /\ up' = [up EXCEPT ![s] = @ \o Sent(s, given)]
        /\ client' = [client EXCEPT ![s] =
              [cursor |-> Fed(client[s].cursor, SubSeq(down[s], 1, arrived)),
               orderId |-> client[s].orderId + given,
               beatId |-> client[s].beatId + 1,
               frames |-> client[s].frames \o FramesOf(client[s].cursor, SubSeq(down[s], 1, arrived)),
               rejected |-> client[s].rejected
                            \/ ~TakesAll(client[s].cursor, SubSeq(down[s], 1, arrived))]]
  BY DEF ClientUpdate
<1>2. /\ s \in Slot /\ SlotMask \subseteq Slot /\ UNCHANGED <<builder, membership, members, refusedAt>>
      /\ up \in [Slot -> Seq(Message)] /\ client \in [Slot -> Client] /\ builder \in Builder
  BY AuthorityAssumption DEF ClientUpdate, authorityVars, TypeInv, WireTypes, AuthorityTypes
<1>3. \A t \in SlotMask \ {s} : up'[t] = up[t] /\ client'[t] = client[t]
  BY <1>1, <1>2
<1>4. /\ up'[s] = up[s] \o Sent(s, given)
      /\ client'[s].orderId = client[s].orderId + given /\ client'[s].beatId = client[s].beatId + 1
  <2> DEFINE next ==
               [cursor |-> Fed(client[s].cursor, SubSeq(down[s], 1, arrived)),
                orderId |-> client[s].orderId + given,
                beatId |-> client[s].beatId + 1,
                frames |-> client[s].frames \o FramesOf(client[s].cursor, SubSeq(down[s], 1, arrived)),
                rejected |-> client[s].rejected
                             \/ ~TakesAll(client[s].cursor, SubSeq(down[s], 1, arrived))]
  <2>1. next.orderId = client[s].orderId + given /\ next.beatId = client[s].beatId + 1
    OBVIOUS
  <2>2. client' = [client EXCEPT ![s] = next]
    BY <1>1
  <2> HIDE DEF next
  <2> QED BY <1>1, <1>2, <2>1, <2>2
<1>5. Len(up[s] \o Sent(s, given)) = Len(up[s]) + given + 1
  <2>1. client[s].orderId \in Nat /\ client[s].beatId \in Nat
    BY <1>2 DEF Client
  <2>2. client'[s].beatId > client[s].beatId /\ client'[s].orderId - client[s].orderId = given
    BY <1>4, <2>1
  <2> QED BY <1>4, <2>2 DEF NothingCut
<1>6. ASSUME membership.generation[s] = 0
      PROVE  Dense(up'[s], 0, builder.nextId[s], builder.nextBeatId[s], client'[s])
  <2>1. Dense(up[s], 0, builder.nextId[s], builder.nextBeatId[s], client[s])
    BY <1>6 DEF DenseInv
  <2>2. builder.nextId[s] \in Nat /\ builder.nextBeatId[s] \in Nat
    BY <1>2 DEF Builder
  <2> QED BY <1>4, <1>5, <2>1, <2>2, SentDense
<1>7. ASSUME NEW t \in SlotMask
      PROVE  /\ t \notin members' => membership'.generation[t] = 0
             /\ membership'.generation[t] = 0 =>
                  /\ t \notin refusedAt'
                  /\ Dense(up'[t], 0, builder'.nextId[t], builder'.nextBeatId[t], client'[t])
  <2>1. CASE t = s
    BY <1>2, <1>6, <2>1 DEF DenseInv
  <2>2. CASE t # s
    BY <1>2, <1>3, <2>2, DenseKept
  <2> QED BY <2>1, <2>2
<1> QED BY <1>7 DEF DenseInv

LEMMA BindDense ==
    ASSUME TypeInv, DenseInv, NEW s \in SlotMask, Hello(s) \/ HelloAgain(s) \/ Rejoin(s)
    PROVE  DenseInv'
<1>1. s \in Slot /\ SlotMask \subseteq Slot /\ UNCHANGED <<builder, refusedAt>>
  BY AuthorityAssumption DEF Hello, HelloAgain, Rejoin
<1>2. PICK ticket \in Nat :
        /\ membership' = Bound(membership, s, ticket)
        /\ \/ ticket = 0 /\ s \notin members /\ members' = members \union {s}
           \/ ticket = membership.generation[s] /\ s \in members /\ members' = members
           \/ ticket # 0 /\ s \in members /\ members' = members
        /\ ticket = 0 => UNCHANGED <<up, client>>
        /\ \A t \in SlotMask \ {s} : up'[t] = up[t] /\ client'[t] = client[t]
  <2>1. CASE Hello(s)
    BY <2>1 DEF Hello, wireVars
  <2>2. CASE HelloAgain(s)
    <3>1. membership.generation[s] \in Nat
      BY <1>1 DEF TypeInv, AuthorityTypes, Snapshot
    <3> QED BY <2>2, <3>1 DEF HelloAgain, wireVars
  <2>3. CASE Rejoin(s)
    <3>1. PICK ticket \in game.tickets[s] : membership' = Bound(membership, s, ticket)
      BY <2>3 DEF Rejoin
    <3>2. ticket \in Nat \ {0}
      BY <1>1, <3>1, AuthorityAssumption DEF TypeInv
    <3>3. /\ up' = [up EXCEPT ![s] = <<>>] /\ client' = [client EXCEPT ![s] = NewClient]
          /\ s \in members /\ members' = members
      BY <2>3 DEF Rejoin
    <3>4. \A t \in SlotMask \ {s} : up'[t] = up[t] /\ client'[t] = client[t]
      BY <1>1, <3>3 DEF TypeInv, WireTypes
    <3> QED BY <3>1, <3>2, <3>3, <3>4
  <2> QED BY <2>1, <2>2, <2>3
<1>3. membership'.generation[s] = ticket
      /\ \A t \in SlotMask \ {s} : membership'.generation[t] = membership.generation[t]
  <2>1. membership \in Snapshot
    BY DEF TypeInv, AuthorityTypes
  <2> QED BY <1>1, <1>2, <2>1 DEF Bound, Snapshot
<1>4. ASSUME NEW t \in SlotMask
      PROVE  /\ t \notin members' => membership'.generation[t] = 0
             /\ membership'.generation[t] = 0 =>
                  /\ t \notin refusedAt'
                  /\ Dense(up'[t], 0, builder'.nextId[t], builder'.nextBeatId[t], client'[t])
  <2>1. CASE t # s
    <3>1. t \in members => t \in members'
      BY <1>2
    <3> QED BY <1>1, <1>2, <1>3, <2>1, <3>1, DenseKept
  <2>2. CASE t = s
    <3>1. s \in members'
      BY <1>2
    <3>2. CASE ticket = 0
      <4>1. membership.generation[s] = 0
        BY <1>2, <3>2 DEF DenseInv
      <4> QED BY <1>1, <1>2, <1>3, <2>2, <3>1, <3>2, <4>1 DEF DenseInv
    <3>3. CASE ticket # 0
      BY <1>3, <2>2, <3>1, <3>3
    <3> QED BY <3>2, <3>3
  <2> QED BY <2>1, <2>2
<1> QED BY <1>4 DEF DenseInv

LEMMA ReceiveDense ==
    ASSUME TypeInv, DenseInv, CountersLeft, CountersLeft', NEW s \in SlotMask, ReceiveData(s)
    PROVE  DenseInv'
<1> DEFINE queue == up[s]
           c == client[s]
           Taken(k) == SubSeq(queue, 1, k)
           After(k) == Admitting(builder, s, Taken(k))
<1>1. PICK k \in 0 .. Len(up[s]) :
        /\ up' = [up EXCEPT ![s] = SubSeq(@, k + 1, Len(@))]
        /\ refusedAt' = IF \A i \in 1 .. k : Admits(After(k)[i - 1], s, Taken(k)[i])
                        THEN refusedAt ELSE refusedAt \union {s}
        /\ Pump(After(k)[k], membership, dirty)
  BY DEF ReceiveData
<1>2. /\ s \in Slot /\ SlotMask \subseteq Slot /\ s \in members /\ UNCHANGED <<members, client>>
      /\ up \in [Slot -> Seq(Message)] /\ queue \in Seq(Message) /\ c \in Client
  BY AuthorityAssumption DEF ReceiveData, TypeInv, WireTypes
<1> DEFINE rest == SubSeq(queue, k + 1, Len(queue))
           b == After(k)[k]
           allAdmitted == \A i \in 1 .. k : Admits(After(k)[i - 1], s, Taken(k)[i])
<1>3. k \in 0 .. Len(queue) /\ up' = [up EXCEPT ![s] = rest] /\ Pump(b, membership, dirty)
      /\ refusedAt' = IF allAdmitted THEN refusedAt ELSE refusedAt \union {s}
  BY <1>1
<1>4. /\ b \in Builder
      /\ \A t \in Slot \ {s} : b.nextId[t] = builder.nextId[t] /\ b.nextBeatId[t] = builder.nextBeatId[t]
  <2> HIDE DEF queue
  <2> QED BY <1>2, <1>3, AdmittingOthers
<1>5. ASSUME membership.generation[s] = 0
      PROVE  \/ b.beatFrame[s] = MaxFrame
             \/ allAdmitted /\ Dense(rest, 0, b.nextId[s], b.nextBeatId[s], c)
  <2>1. Dense(queue, 0, builder.nextId[s], builder.nextBeatId[s], c)
    BY <1>5 DEF DenseInv
  <2> HIDE DEF queue, c
  <2> QED BY <1>2, <1>3, <2>1, AllAdmitted
<1> HIDE DEF b, rest, allAdmitted, Taken, After
<1>6. /\ builder'.nextId = b.nextId /\ builder'.nextBeatId = b.nextBeatId
      /\ builder'.beatFrame = b.beatFrame /\ membership' = membership
  BY <1>3, <1>4, PumpKeepsIds
<1>7. b.beatFrame[s] # MaxFrame
  <2>1. b.beatFrame[s] < MaxFrame /\ MaxFrame \in Nat
    BY <1>6, ClockAssumption DEF CountersLeft
  <2> QED BY <2>1
<1>8. up'[s] = rest /\ \A t \in SlotMask \ {s} : up'[t] = up[t] /\ (t \in refusedAt' => t \in refusedAt)
  BY <1>2, <1>3
<1>9. ASSUME NEW t \in SlotMask
      PROVE  /\ t \notin members' => membership'.generation[t] = 0
             /\ membership'.generation[t] = 0 =>
                  /\ t \notin refusedAt'
                  /\ Dense(up'[t], 0, builder'.nextId[t], builder'.nextBeatId[t], client'[t])
  <2>1. CASE t # s
    <3>1. builder'.nextId[t] = builder.nextId[t] /\ builder'.nextBeatId[t] = builder.nextBeatId[t]
      BY <1>2, <1>4, <1>6, <2>1
    <3> QED BY <1>2, <1>6, <1>8, <2>1, <3>1, DenseKept
  <2>2. CASE t = s
    <3>1. membership.generation[s] = 0 => s \notin refusedAt
      BY DEF DenseInv
    <3>2. membership.generation[s] = 0 => refusedAt' = refusedAt /\ Dense(rest, 0, b.nextId[s], b.nextBeatId[s], c)
      BY <1>3, <1>5, <1>7
    <3> QED BY <1>2, <1>6, <1>8, <2>2, <3>1, <3>2
  <2> QED BY <2>1, <2>2
<1> QED BY <1>9 DEF DenseInv

LEMMA StepDense ==
    TypeInv /\ DenseInv /\ CountersLeft /\ CountersLeft' /\ [Next]_vars /\ [NothingCut]_vars => DenseInv'
<1> SUFFICES ASSUME TypeInv, DenseInv, CountersLeft, CountersLeft', [Next]_vars, [NothingCut]_vars
             PROVE  DenseInv'
  OBVIOUS
<1>1. CASE UNCHANGED <<builder, members, refusedAt, up, client>> /\ membership'.generation = membership.generation
  BY <1>1 DEF DenseInv
<1>2. CASE UNCHANGED vars
  BY <1>1, <1>2 DEF vars, authorityVars, wireVars
<1>3. ASSUME NEW s \in SlotMask, ClientUpdate(s) PROVE DenseInv'
  <2>1. CASE NothingCut
    BY <1>3, <2>1, UpdateDense
  <2> QED BY <1>2, <2>1
<1>4. ASSUME NEW s \in SlotMask, Bye(s) PROVE DenseInv'
  <2>1. membership' = Departed(membership, s) /\ membership \in Snapshot
        /\ UNCHANGED <<builder, members, refusedAt, up, client>>
    BY <1>4 DEF Bye, wireVars, TypeInv, AuthorityTypes
  <2> QED BY <1>1, <2>1 DEF Departed, Snapshot
<1>5. CASE Tick
  <2>1. PICK quiet \in SUBSET (game.silent \intersect (members \ bye)) :
          Pump(builder, Held(membership, Holdable(membership, quiet)),
               dirty \/ Holdable(membership, quiet) # {})
    BY <1>5 DEF Tick
  <2>2. builder \in Builder /\ membership \in Snapshot /\ UNCHANGED <<members, refusedAt, up, client>>
    BY <1>5 DEF Tick, TypeInv, AuthorityTypes
  <2> DEFINE m == Held(membership, Holdable(membership, quiet))
             changed == dirty \/ Holdable(membership, quiet) # {}
  <2>3. m.generation = membership.generation
    BY <2>2 DEF Held, Snapshot
  <2>4. Pump(builder, m, changed)
    BY <2>1
  <2> HIDE DEF m, changed
  <2>5. /\ builder'.nextId = builder.nextId /\ builder'.nextBeatId = builder.nextBeatId
        /\ membership'.generation = membership.generation
    BY <2>2, <2>3, <2>4, PumpKeepsIds
  <2> QED BY <2>2, <2>5 DEF DenseInv
<1>6. CASE IdleClose \/ LogStops \/ TimePasses
  <2>1. UNCHANGED <<builder, members, refusedAt, up, client, membership>>
    BY <1>6 DEF IdleClose, LogStops, TimePasses, authorityVars, wireVars
  <2> QED BY <1>1, <2>1
<1> QED BY <1>2, <1>3, <1>4, <1>5, <1>6, BindDense, ReceiveDense DEF Next

\* The order and beat ids of a client are dense, so that the relay admits all
\* that a client of the first generation sends, in whatever packets it arrives
\* and whatever the other slots do: as long as no client updates against a full
\* channel, which would consume the ids of what it does not send, and no frame
\* counter has run out.
THEOREM IdsStayDense == Spec /\ []CountersLeft /\ [][NothingCut]_vars => []IdsAreDense
<1>1. DenseInv /\ TypeInv => IdsAreDense
  <2> SUFFICES ASSUME DenseInv, TypeInv, NEW s \in refusedAt PROVE membership.generation[s] > 0
    BY DEF IdsAreDense
  <2>1. s \in SlotMask /\ s \in Slot
    BY AuthorityAssumption DEF TypeInv, AuthorityTypes
  <2>2. membership.generation[s] # 0 /\ membership.generation[s] \in Nat
    BY <2>1 DEF DenseInv, TypeInv, AuthorityTypes, Snapshot
  <2> QED BY <2>2
<1> QED BY <1>1, AuthorityTyped, InitDense, StepDense, PTL DEF Spec

=============================================================================
