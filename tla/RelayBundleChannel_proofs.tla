------------------------------ MODULE RelayBundleChannel_proofs ------------------------------
(***************************************************************************)
(* What holds of the channel for every message, every size, every window   *)
(* and budget, every end of the sequence, and whatever the network does.   *)
(***************************************************************************)
EXTENDS RelayBundleChannel, InductionLemmas, TLAPS, FiniteSetTheorems, SequenceTheorems

\* The last sequence handed over or ready to be.
Received == IF receiveExhausted THEN MaxSequence ELSE nextReceive - 1

\* What the receiver has of a message: fragments of that message alone.
HeldOf(m) == [of : {m}, parts : UNION {[F -> {m}] : F \in SUBSET FragmentsOf(m)}]

\* What the sender has of a message.
RecordOf(m) == [of : {m}, sent : SUBSET FragmentsOf(m),
                acknowledged : SUBSET FragmentsOf(m), wait : [FragmentsOf(m) -> Nat]]

\* A packet cut from an accepted message.
Genuine(p) ==
    /\ p.seq \in 1 .. Len(accepted)
    /\ p.of = accepted[p.seq]
    /\ p.fragment \in FragmentsOf(p.of)

Arrived(s, f) ==
    \/ s <= Received
    \/ s \in DOMAIN incoming /\ f \in DOMAIN incoming[s].parts

Numbers ==
    /\ load \in Loads
    /\ accepted \in Seq(Message)
    /\ taken \in Seq({Whole(m) : m \in Message})
    /\ ready \in Seq(Nat)
    /\ nextSend \in Sequence /\ sendExhausted \in BOOLEAN
    /\ nextReceive \in Sequence /\ receiveExhausted \in BOOLEAN
    /\ Len(accepted) <= MaxSequence
    /\ ~sendExhausted => nextSend = Len(accepted) + 1
    /\ Received = Len(taken) + Len(ready)
    /\ Received <= Len(accepted)

\* The retired messages are a prefix of what was received, and the pending
\* ones fit the window.
Sending ==
    /\ DOMAIN pending \subseteq 1 .. Len(accepted)
    /\ \A s \in DOMAIN pending :
        /\ s .. Len(accepted) \subseteq DOMAIN pending
        /\ Len(accepted) - s < Window
        /\ pending[s] \in RecordOf(accepted[s])
        /\ \A f \in pending[s].acknowledged : Arrived(s, f)
    /\ \A s \in 1 .. Len(accepted) : s \notin DOMAIN pending => s <= Received

Travelling ==
    /\ \A p \in data : Genuine(p)
    /\ \A a \in acks : Genuine(a) /\ Arrived(a.seq, a.fragment)

Receiving ==
    /\ DOMAIN incoming \subseteq Len(taken) + 1 .. Len(accepted)
    /\ \A s \in DOMAIN incoming : incoming[s] \in HeldOf(accepted[s])
    /\ \A s \in Len(taken) + 1 .. Received : s \in DOMAIN incoming /\ Complete(incoming[s])
    /\ ~receiveExhausted /\ nextReceive \in DOMAIN incoming => ~Complete(incoming[nextReceive])

Delivering ==
    /\ \A i \in 1 .. Len(taken) : taken[i] = Whole(accepted[i])
    /\ \A i \in 1 .. Len(ready) : ready[i] = Len(taken) + i
    /\ DOMAIN receiverHistory \subseteq 1 .. Len(taken)
    /\ \A s \in DOMAIN receiverHistory : receiverHistory[s] \in HeldOf(accepted[s])
    /\ \A s \in 1 .. Len(taken) : Len(taken) - s < Window => s \in DOMAIN receiverHistory

ChannelInv == Numbers /\ Sending /\ Travelling /\ Receiving /\ Delivering

-----------------------------------------------------------------------------
\* Helpers.

\* Counts of consecutive numbers.
LEMMA IntervalCount ==
    ASSUME NEW a \in Int, NEW b \in Int, NEW S, S \subseteq a .. b
    PROVE  /\ IsFiniteSet(S) /\ Cardinality(S) \in Nat
           /\ a <= b => Cardinality(S) <= b - a + 1
           /\ a > b => S = {} /\ Cardinality(S) = 0
           /\ a .. b \subseteq S /\ a <= b + 1 => Cardinality(S) = b - a + 1
<1>1. IsFiniteSet(a .. b) /\ Cardinality(a .. b) = IF a > b THEN 0 ELSE b - a + 1
  BY FS_Interval
<1>2. IsFiniteSet(S) /\ Cardinality(S) <= Cardinality(a .. b)
  BY <1>1, FS_Subset
<1>3. Cardinality(S) \in Nat
  BY <1>2, FS_CardinalityType
<1>4. a > b => S = {}
  OBVIOUS
<1>5. a .. b \subseteq S => S = a .. b
  OBVIOUS
<1> QED BY <1>1, <1>2, <1>3, <1>4, <1>5, FS_EmptySet

\* A set that goes up from a without a gap is the numbers from a on, as many
\* as it has elements.
LEMMA CountUp ==
    ASSUME NEW a \in Int, NEW b \in Int, NEW S, S \subseteq a .. b,
           \A s \in S : a .. s \subseteq S
    PROVE  /\ Cardinality(S) \in Nat
           /\ S = a .. a + Cardinality(S) - 1
<1> DEFINE c == Cardinality(S)
<1>1. IsFiniteSet(S) /\ c \in Nat
  BY IntervalCount
<1>2. ASSUME NEW s \in S PROVE s - a + 1 <= c
  <2>1. a .. s \subseteq S /\ s \in Int /\ a <= s
    BY <1>2
  <2>2. Cardinality(a .. s) = s - a + 1
    BY <2>1, FS_Interval
  <2> QED BY <1>1, <2>1, <2>2, FS_Subset
<1>3. S \subseteq a .. a + c - 1
  BY <1>1, <1>2
<1>4. Cardinality(a .. a + c - 1) = c /\ IsFiniteSet(a .. a + c - 1)
  BY <1>1, FS_Interval, SMTT(20)
<1> QED BY <1>1, <1>3, <1>4, FS_Subset

\* The last Window of a run of numbers stay in a history.
LEMMA NewestKeeps ==
    ASSUME NEW f, NEW top \in Nat, DOMAIN f \subseteq 1 .. top,
           NEW s \in DOMAIN f, top - s < Window
    PROVE  s \in DOMAIN Newest(f)
<1> DEFINE later == {t \in DOMAIN f : t > s}
<1>1. later \subseteq s + 1 .. top /\ s \in Int /\ s <= top
  OBVIOUS
<1>2. Cardinality(later) \in Nat /\ Cardinality(later) <= top - s
  <2> HIDE DEF later
  <2>1. s + 1 \in Int /\ top \in Int
    BY <1>1
  <2>2. /\ Cardinality(later) \in Nat
        /\ s + 1 <= top => Cardinality(later) <= top - (s + 1) + 1
        /\ s + 1 > top => later = {} /\ Cardinality(later) = 0
    BY <1>1, <2>1, IntervalCount, Zenon
  <2> QED BY <1>1, <2>2
<1>3. Cardinality(later) < Window
  BY <1>1, <1>2, ChannelAssumption
<1>4. DOMAIN Newest(f) = {u \in DOMAIN f : Cardinality({t \in DOMAIN f : t > u}) < Window}
  BY DEF Newest, Restricted
<1> QED BY <1>3, <1>4

LEMMA NewestIs ==
    ASSUME NEW f
    PROVE  /\ DOMAIN Newest(f) \subseteq DOMAIN f
           /\ \A s \in DOMAIN Newest(f) : Newest(f)[s] = f[s]
BY DEF Newest, Restricted

-----------------------------------------------------------------------------
\* Each action keeps the invariant.

LEMMA Sizes ==
    ASSUME Numbers
    PROVE  /\ Len(accepted) \in Nat /\ Len(taken) \in Nat /\ Len(ready) \in Nat
           /\ Received \in Nat /\ MaxSequence \in Nat \ {0}
           /\ Len(taken) <= Received /\ Received <= Len(accepted)
           /\ Received <= MaxSequence
           /\ \A s \in 1 .. Len(accepted) : accepted[s] \in Message
BY LenProperties, ElementOfSeq, ChannelAssumption DEF Numbers

\* What only the network and the clocks touch is not in the way.
LEMMA ReceiverUnchanged ==
    ASSUME ChannelInv, UNCHANGED <<accepted, receiverVars>>
    PROVE  Receiving' /\ Delivering' /\ Received' = Received
           /\ \A s, f : Arrived(s, f)' <=> Arrived(s, f)
BY DEF ChannelInv, Receiving, Delivering, Received, Arrived, receiverVars, Complete,
       HeldOf, Newest, Whole

LEMMA QueuePreserves ==
    ASSUME ChannelInv, NEW m \in load.offered[nextSend], Queue(m), UNCHANGED load
    PROVE  ChannelInv'
<1> DEFINE n == Len(accepted)
           top == n + 1
<1> USE DEF ChannelInv
<1>1. n \in Nat /\ Len(taken) \in Nat /\ Received \in Nat /\ Received <= n /\ Len(taken) <= n
  BY Sizes
<1>2. /\ m \in Message
      /\ nextSend = top
      /\ top <= MaxSequence
      /\ MaxSequence \in Nat
  <2>1. /\ nextSend \in 1 .. MaxSequence /\ load \in Loads /\ ~sendExhausted
        /\ ~sendExhausted => nextSend = top
        /\ MaxSequence \in Nat
    BY ChannelAssumption DEF Queue, CanQueue, Numbers, Sequence
  <2>2. load.offered \in [1 .. MaxSequence -> SUBSET Message]
    BY <2>1, ChannelAssumption
  <2>3. m \in Message
    BY <2>1, <2>2
  <2> QED BY <2>1, <2>3
<1>3. /\ accepted' \in Seq(Message)
      /\ Len(accepted') = top
      /\ accepted'[top] = m
      /\ \A s \in 1 .. n : accepted'[s] = accepted[s]
  BY <1>2, AppendProperties DEF Queue, Numbers
<1>4. /\ UNCHANGED <<load, taken, ready, incoming, nextReceive, receiveExhausted,
                     receiverHistory, data, acks>>
      /\ Received' = Received
  BY DEF Queue, receiverVars, Received
<1>5. Numbers'
  <2>1. /\ sendExhausted' = (nextSend = MaxSequence)
        /\ nextSend' = IF nextSend = MaxSequence THEN nextSend ELSE nextSend + 1
    BY DEF Queue
  <2>2. sendExhausted' \in BOOLEAN
    BY <2>1, Zenon
  <2>3. nextSend' \in Sequence /\ (nextSend # MaxSequence => nextSend' = Len(accepted') + 1)
    BY <1>1, <1>2, <1>3, <2>1 DEF Sequence
  <2>4. ~sendExhausted' => nextSend' = Len(accepted') + 1
    BY <2>1, <2>3, Zenon
  <2> QED BY <1>1, <1>2, <1>3, <1>4, <2>2, <2>3, <2>4 DEF Numbers
<1>6. \A s, f : Arrived(s, f)' <=> Arrived(s, f)
  BY <1>4 DEF Arrived
<1>7. Sending'
  <2> DEFINE new == [of |-> m, sent |-> {}, acknowledged |-> {},
                     wait |-> [f \in FragmentsOf(m) |-> 0]]
  <2>1. /\ DOMAIN pending' = DOMAIN pending \union {top}
        /\ pending'[top] = new
        /\ \A s \in DOMAIN pending : s # top => pending'[s] = pending[s]
    BY <1>2 DEF Queue, Merged
  <2>2. DOMAIN pending \subseteq 1 .. n
    BY DEF Sending
  <2>3. new \in RecordOf(m)
    BY DEF RecordOf
  <2>4. ASSUME NEW s \in DOMAIN pending
        PROVE  top - s < Window
    <3>1. s .. n \subseteq DOMAIN pending /\ s \in 1 .. n
      BY <2>2 DEF Sending
    <3>2. IsFiniteSet(DOMAIN pending) /\ Cardinality(DOMAIN pending) \in Nat
      BY <1>1, <2>2, IntervalCount
    <3>3. Cardinality(s .. n) = n - s + 1
      BY <1>1, <3>1, FS_Interval
    <3>4. Cardinality(s .. n) <= Cardinality(DOMAIN pending)
      BY <3>1, <3>2, FS_Subset
    <3> QED BY <1>1, <3>1, <3>2, <3>3, <3>4, ChannelAssumption DEF Queue, CanQueue
  <2>5. ASSUME NEW s \in DOMAIN pending'
        PROVE  /\ s .. Len(accepted)' \subseteq DOMAIN pending'
               /\ Len(accepted)' - s < Window
               /\ pending'[s] \in RecordOf(accepted'[s])
               /\ \A f \in pending'[s].acknowledged : Arrived(s, f)'
    <3>1. CASE s = top
      BY <1>1, <1>3, <2>1, <2>3, <3>1, ChannelAssumption
    <3>2. CASE s \in DOMAIN pending
      <4>1. s \in 1 .. n /\ s # top
        BY <1>1, <2>2, <3>2
      <4>2. pending'[s] = pending[s] /\ accepted'[s] = accepted[s]
        BY <1>3, <2>1, <3>2, <4>1
      <4>3. s .. n \subseteq DOMAIN pending
            /\ pending[s] \in RecordOf(accepted[s])
            /\ \A f \in pending[s].acknowledged : Arrived(s, f)
        BY <3>2 DEF Sending
      <4>4. s .. Len(accepted)' \subseteq DOMAIN pending'
        BY <1>1, <1>3, <2>1, <4>1, <4>3
      <4> QED BY <1>3, <1>6, <2>4, <3>2, <4>2, <4>3, <4>4
    <3> QED BY <2>1, <3>1, <3>2
  <2>6. DOMAIN pending' \subseteq 1 .. Len(accepted')
    BY <1>1, <1>3, <2>1, <2>2
  <2>7. \A s \in 1 .. Len(accepted') : s \notin DOMAIN pending' => s <= Received'
    BY <1>1, <1>3, <1>4, <2>1 DEF Sending
  <2> QED BY <2>5, <2>6, <2>7 DEF Sending
<1>8. Travelling'
  <2>1. \A p : Genuine(p) => Genuine(p)'
    BY <1>1, <1>3 DEF Genuine
  <2> QED BY <1>4, <1>6, <2>1 DEF Travelling
<1>9. Receiving'
  <2>1. DOMAIN incoming \subseteq Len(taken) + 1 .. n
    BY DEF Receiving
  <2>2. \A s \in DOMAIN incoming : accepted'[s] = accepted[s]
    BY <1>1, <1>3, <2>1
  <2> QED BY <1>1, <1>3, <1>4, <2>1, <2>2 DEF Receiving, Complete
<1>10. Delivering'
  <2>1. \A s \in 1 .. Len(taken) : accepted'[s] = accepted[s]
    BY <1>1, <1>3
  <2> QED BY <1>4, <2>1 DEF Delivering
<1> QED BY <1>5, <1>7, <1>8, <1>9, <1>10

LEMMA PollPreserves ==
    ASSUME ChannelInv, Poll, UNCHANGED load
    PROVE  ChannelInv'
<1> USE DEF ChannelInv
<1>1. UNCHANGED <<load, accepted, nextSend, sendExhausted, receiverVars, acks>>
  BY DEF Poll
<1>2. Received' = Received /\ Receiving' /\ Delivering'
      /\ \A s, f : Arrived(s, f)' <=> Arrived(s, f)
  BY <1>1, ReceiverUnchanged
<1>3. Numbers'
  BY <1>1, <1>2 DEF Numbers, receiverVars
<1>4. DOMAIN pending' = DOMAIN pending
  BY DEF Poll
<1>5. \A x \in Sent : x.seq \in DOMAIN pending /\ x.fragment \in FragmentsOf(pending[x.seq].of)
  BY DEF Sent, Inspected, Slots
<1>6. ASSUME NEW s \in DOMAIN pending
      PROVE  /\ pending'[s] \in RecordOf(accepted[s])
             /\ pending'[s].acknowledged = pending[s].acknowledged
  <2> DEFINE now == {x.fragment : x \in {x \in Sent : x.seq = s}}
             old == pending[s]
             waits == [f \in DOMAIN old.wait |-> IF f \in now THEN RetryMs ELSE old.wait[f]]
  <2>1. pending'[s] = [old EXCEPT !.sent = old.sent \union now, !.wait = waits]
    BY DEF Poll
  <2>2. old \in RecordOf(accepted[s])
    BY DEF Sending
  <2>3. now \subseteq FragmentsOf(accepted[s])
    BY <1>5, <2>2 DEF RecordOf
  <2>4. waits \in [FragmentsOf(accepted[s]) -> Nat]
    BY <2>2, ChannelAssumption DEF RecordOf
  <2> HIDE DEF now, old, waits
  <2>5. [old EXCEPT !.sent = old.sent \union now, !.wait = waits] \in RecordOf(accepted[s])
        /\ [old EXCEPT !.sent = old.sent \union now, !.wait = waits].acknowledged = old.acknowledged
    BY <2>2, <2>3, <2>4 DEF RecordOf
  <2> QED BY <2>1, <2>5 DEF old
<1>7. Sending'
  BY <1>1, <1>2, <1>4, <1>6 DEF Sending
<1>8. Travelling'
  <2>1. ASSUME NEW x \in Sent
        PROVE  Genuine([seq |-> x.seq, of |-> pending[x.seq].of, fragment |-> x.fragment])
    <3>1. x.seq \in DOMAIN pending /\ x.fragment \in FragmentsOf(pending[x.seq].of)
      BY <1>5
    <3>2. x.seq \in 1 .. Len(accepted) /\ pending[x.seq].of = accepted[x.seq]
      BY <3>1 DEF Sending, RecordOf
    <3> QED BY <3>1, <3>2 DEF Genuine
  <2>2. \A p \in data' : p \in data \/ \E x \in Sent :
            p = [seq |-> x.seq, of |-> pending[x.seq].of, fragment |-> x.fragment]
    BY DEF Poll
  <2>3. \A p : Genuine(p)' <=> Genuine(p)
    BY <1>1 DEF Genuine
  <2> QED BY <1>1, <1>2, <2>1, <2>2, <2>3 DEF Travelling
<1> QED BY <1>2, <1>3, <1>7, <1>8

LEMMA TickPreserves ==
    ASSUME ChannelInv, Tick, UNCHANGED load
    PROVE  ChannelInv'
<1> USE DEF ChannelInv
<1>1. UNCHANGED <<load, accepted, nextSend, sendExhausted, receiverVars, data, acks>>
  BY DEF Tick
<1>2. Received' = Received /\ Receiving' /\ Delivering'
      /\ \A s, f : Arrived(s, f)' <=> Arrived(s, f)
  BY <1>1, ReceiverUnchanged
<1>3. Numbers'
  BY <1>1, <1>2 DEF Numbers, receiverVars
<1>4. DOMAIN pending' = DOMAIN pending
  BY DEF Tick
<1>5. ASSUME NEW s \in DOMAIN pending
      PROVE  /\ pending'[s] \in RecordOf(accepted[s])
             /\ pending'[s].acknowledged = pending[s].acknowledged
  <2> DEFINE old == pending[s]
             waits == [f \in DOMAIN old.wait |->
                          IF old.wait[f] = 0 THEN 0 ELSE old.wait[f] - 1]
  <2>1. pending'[s] = [old EXCEPT !.wait = waits]
    BY DEF Tick
  <2>2. old \in RecordOf(accepted[s])
    BY DEF Sending
  <2>3. waits \in [FragmentsOf(accepted[s]) -> Nat]
    BY <2>2 DEF RecordOf
  <2> HIDE DEF old, waits
  <2>4. [old EXCEPT !.wait = waits] \in RecordOf(accepted[s])
        /\ [old EXCEPT !.wait = waits].acknowledged = old.acknowledged
    BY <2>2, <2>3 DEF RecordOf
  <2> QED BY <2>1, <2>4 DEF old
<1>6. Sending'
  BY <1>1, <1>2, <1>4, <1>5 DEF Sending
<1>7. Travelling'
  BY <1>1, <1>2 DEF Travelling, Genuine
<1> QED BY <1>2, <1>3, <1>6, <1>7

LEMMA LossPreserves ==
    ASSUME ChannelInv, NEW p, LoseData(p) \/ LoseAck(p), UNCHANGED load
    PROVE  ChannelInv'
<1> USE DEF ChannelInv
<1>1. /\ UNCHANGED <<load, accepted, pending, nextSend, sendExhausted, receiverVars>>
      /\ data' \subseteq data /\ acks' \subseteq acks
  BY DEF LoseData, LoseAck, senderVars
<1>2. Received' = Received /\ Receiving' /\ Delivering'
      /\ \A s, f : Arrived(s, f)' <=> Arrived(s, f)
  BY <1>1, ReceiverUnchanged
<1>3. Numbers'
  BY <1>1, <1>2 DEF Numbers, receiverVars
<1>4. Sending'
  BY <1>1, <1>2 DEF Sending
<1>5. Travelling'
  BY <1>1, <1>2 DEF Travelling, Genuine
<1> QED BY <1>2, <1>3, <1>4, <1>5

\* Only messages the receiver has whole are retired: the first sequence it
\* does not have whole cannot have all its fragments acknowledged.
LEMMA AckPreserves ==
    ASSUME ChannelInv, NEW a, ReceiveAck(a), UNCHANGED load
    PROVE  ChannelInv'
<1> DEFINE n == Len(accepted)
           now == [pending EXCEPT ![a.seq].acknowledged = @ \union {a.fragment}]
           gone == Retired(now)
<1> USE DEF ChannelInv
<1>1. UNCHANGED <<load, accepted, nextSend, sendExhausted, receiverVars, data, acks>>
  BY DEF ReceiveAck
<1>2. Received' = Received /\ Receiving' /\ Delivering'
      /\ \A s, f : Arrived(s, f)' <=> Arrived(s, f)
  BY <1>1, ReceiverUnchanged
<1>3. Numbers'
  BY <1>1, <1>2 DEF Numbers, receiverVars
<1>4. Travelling'
  BY <1>1, <1>2 DEF Travelling, Genuine
<1>5. /\ a.seq \in DOMAIN pending
      /\ Genuine(a) /\ Arrived(a.seq, a.fragment)
  BY DEF ReceiveAck, Travelling
<1>6. /\ DOMAIN now = DOMAIN pending
      /\ \A s \in DOMAIN pending :
            now[s] \in RecordOf(accepted[s]) /\ \A f \in now[s].acknowledged : Arrived(s, f)
  <2>1. ASSUME NEW s \in DOMAIN pending
        PROVE  now[s] \in RecordOf(accepted[s]) /\ \A f \in now[s].acknowledged : Arrived(s, f)
    <3> DEFINE old == pending[s]
    <3>1. old \in RecordOf(accepted[s]) /\ \A f \in old.acknowledged : Arrived(s, f)
      BY DEF Sending
    <3>2. CASE s # a.seq
      BY <3>1, <3>2
    <3>3. CASE s = a.seq
      <4>1. now[s] = [old EXCEPT !.acknowledged = old.acknowledged \union {a.fragment}]
        BY <1>5, <3>3
      <4>2. a.fragment \in FragmentsOf(accepted[s]) /\ Arrived(s, a.fragment)
        BY <1>5, <3>3 DEF Genuine
      <4> HIDE DEF now, old
      <4>3. now[s] \in RecordOf(accepted[s])
            /\ now[s].acknowledged = old.acknowledged \union {a.fragment}
        BY <3>1, <4>1, <4>2 DEF RecordOf
      <4> QED BY <3>1, <4>2, <4>3
    <3> QED BY <3>2, <3>3
  <2> QED BY <2>1
<1> HIDE DEF now
<1>7. gone = {s \in DOMAIN pending : \A t \in DOMAIN pending :
                 t <= s => now[t].acknowledged = FragmentsOf(now[t].of)}
  BY <1>6 DEF Retired
<1>8. /\ DOMAIN pending' = DOMAIN pending \ gone
      /\ \A s \in DOMAIN pending' : pending'[s] = now[s]
  BY <1>6 DEF ReceiveAck, Restricted, now
<1> HIDE DEF gone
<1>9. n \in Nat /\ DOMAIN pending \subseteq 1 .. n /\ Received \in Nat /\ Received <= n
      /\ n <= MaxSequence /\ MaxSequence \in Nat
  BY Sizes DEF Sending, Numbers
<1>10. ASSUME NEW s \in gone, s > Received
       PROVE  FALSE
  <2> DEFINE t == Received + 1
  <2>1. s \in DOMAIN pending /\ s \in 1 .. n /\ t \in 1 .. n /\ t <= s
    BY <1>7, <1>9, <1>10
  <2>2. t \in DOMAIN pending
    BY <1>9, <2>1 DEF Sending
  <2>3. now[t].acknowledged = FragmentsOf(accepted[t])
    BY <1>6, <1>7, <2>1, <2>2 DEF RecordOf
  <2>4. \A f \in FragmentsOf(accepted[t]) : t \in DOMAIN incoming /\ f \in DOMAIN incoming[t].parts
    BY <1>6, <1>9, <2>2, <2>3 DEF Arrived
  <2>5. 1 \in FragmentsOf(accepted[t])
    BY <2>1, Sizes, ChannelAssumption DEF FragmentsOf
  <2>6. t \in DOMAIN incoming /\ incoming[t] \in HeldOf(accepted[t])
    BY <2>4, <2>5 DEF Receiving
  <2>7. Complete(incoming[t])
    BY <2>4, <2>6 DEF HeldOf, Complete
  <2>8. ~receiveExhausted /\ t = nextReceive
    BY <1>9, <2>1, ChannelAssumption DEF Received, Numbers, Sequence
  <2> QED BY <2>6, <2>7, <2>8 DEF Receiving
<1>11. ASSUME NEW s \in DOMAIN pending'
       PROVE  s .. n \subseteq DOMAIN pending' /\ n - s < Window
              /\ pending'[s] \in RecordOf(accepted[s])
              /\ \A f \in pending'[s].acknowledged : Arrived(s, f)
  <2>1. s \in DOMAIN pending /\ s \notin gone /\ pending'[s] = now[s]
    BY <1>8
  <2>2. s .. n \subseteq DOMAIN pending /\ n - s < Window
    BY <2>1 DEF Sending
  <2>3. ASSUME NEW t \in s .. n
        PROVE  t \notin gone
    <3>1. PICK u \in DOMAIN pending : u <= s /\ now[u].acknowledged # FragmentsOf(now[u].of)
      BY <1>7, <2>1
    <3>2. u <= t
      BY <1>9, <2>1, <3>1
    <3> QED BY <1>7, <3>1, <3>2
  <2> QED BY <1>6, <1>8, <2>1, <2>2, <2>3
<1>12. ASSUME NEW s \in 1 .. n, s \notin DOMAIN pending'
       PROVE  s <= Received
  BY <1>8, <1>9, <1>10, <1>12 DEF Sending
<1>13. Sending'
  BY <1>1, <1>2, <1>8, <1>9, <1>11, <1>12 DEF Sending
<1> QED BY <1>2, <1>3, <1>4, <1>13

LEMMA TakePreserves ==
    ASSUME ChannelInv, TakeDelivered, UNCHANGED load
    PROVE  ChannelInv' /\ Len(taken') = Received /\ Len(taken) < Received
<1> DEFINE n == Len(accepted)
           k == Len(taken)
           gone == {ready[i] : i \in 1 .. Len(ready)}
           handed == [i \in 1 .. Len(ready) |-> incoming[ready[i]].parts]
           parts == {Whole(m) : m \in Message}
<1> USE DEF ChannelInv
<1>1. /\ UNCHANGED <<load, nextReceive, receiveExhausted, senderVars, data, acks>>
      /\ UNCHANGED <<accepted, pending, nextSend, sendExhausted>>
      /\ Received' = Received
  BY DEF TakeDelivered, senderVars, Received
<1>2. /\ n \in Nat /\ k \in Nat /\ Len(ready) \in Nat /\ Received = k + Len(ready)
      /\ Received <= n
      /\ \A s \in 1 .. n : accepted[s] \in Message
  BY Sizes DEF Numbers
<1>3. Len(ready) > 0
  BY <1>2, EmptySeq DEF TakeDelivered, Numbers
<1>4. gone = k + 1 .. Received
  <2>1. \A i \in 1 .. Len(ready) : ready[i] = k + i
    BY DEF Delivering
  <2>2. \A s \in k + 1 .. Received : s - k \in 1 .. Len(ready) /\ ready[s - k] = s
    BY <1>2, <2>1
  <2>3. gone \subseteq k + 1 .. Received
    BY <1>2, <2>1
  <2>4. k + 1 .. Received \subseteq gone
    BY <2>2
  <2> QED BY <2>3, <2>4
<1>5. ASSUME NEW i \in 1 .. Len(ready)
      PROVE  handed[i] = Whole(accepted[k + i])
  <2>1. ready[i] = k + i /\ k + i \in k + 1 .. Received
    BY <1>2 DEF Delivering
  <2>2. k + i \in DOMAIN incoming /\ Complete(incoming[k + i])
        /\ incoming[k + i] \in HeldOf(accepted[k + i])
    BY <2>1 DEF Receiving
  <2>3. incoming[k + i].parts = Whole(accepted[k + i])
    BY <2>2 DEF HeldOf, Complete, Whole
  <2> QED BY <2>1, <2>3
<1>6. handed \in Seq(parts) /\ Len(handed) = Len(ready)
  <2>1. ASSUME NEW i \in 1 .. Len(ready)
        PROVE  handed[i] \in parts
    <3>1. accepted[k + i] \in Message
      BY <1>2
    <3> QED BY <1>5, <3>1
  <2> QED BY <1>2, <2>1, IsASeq
<1> HIDE DEF handed
<1>7. /\ taken' \in Seq(parts)
      /\ Len(taken') = Received
      /\ \A i \in 1 .. Received : taken'[i] = IF i <= k THEN taken[i] ELSE handed[i - k]
  <2>1. taken' = taken \o handed
    BY DEF TakeDelivered, handed
  <2>2. taken \in Seq(parts)
    BY DEF Numbers
  <2>3. /\ taken \o handed \in Seq(parts)
        /\ Len(taken \o handed) = k + Len(handed)
        /\ \A i \in 1 .. k + Len(handed) :
              (taken \o handed)[i] = IF i <= k THEN taken[i] ELSE handed[i - k]
    <3> HIDE DEF parts
    <3> QED BY <1>6, <2>2, ConcatProperties, Zenon
  <2> QED BY <1>2, <1>6, <2>1, <2>3
<1>8. ready' = <<>> /\ Len(ready') = 0 /\ ready' \in Seq(Nat)
  BY DEF TakeDelivered
<1>9. Numbers'
  BY <1>1, <1>2, <1>7, <1>8 DEF Numbers
<1>10. /\ DOMAIN incoming' = DOMAIN incoming \ gone
       /\ \A s \in DOMAIN incoming' : incoming'[s] = incoming[s]
  BY DEF TakeDelivered, Restricted
<1>11. \A s, f : s \in 1 .. n => (Arrived(s, f) => Arrived(s, f)')
  BY <1>1, <1>2, <1>4, <1>10 DEF Arrived
<1>12. Sending'
  BY <1>1, <1>2, <1>11 DEF Sending
<1>13. Travelling'
  BY <1>1, <1>11 DEF Travelling, Genuine
<1>14. Receiving'
  <2>1. DOMAIN incoming' \subseteq Len(taken') + 1 .. n
    BY <1>2, <1>4, <1>7, <1>10 DEF Receiving
  <2>2. \A s \in DOMAIN incoming' : incoming'[s] \in HeldOf(accepted[s])
    BY <1>10 DEF Receiving
  <2>3. Len(taken') + 1 .. Received' = {}
    BY <1>1, <1>2, <1>7
  <2>4. ~receiveExhausted /\ nextReceive \in DOMAIN incoming' =>
            ~Complete(incoming'[nextReceive])
    BY <1>10 DEF Receiving
  <2> QED BY <1>1, <2>1, <2>2, <2>3, <2>4 DEF Receiving, Complete
<1>15. Delivering'
  <2>1. ASSUME NEW i \in 1 .. Received
        PROVE  taken'[i] = Whole(accepted[i])
    <3>1. CASE i <= k
      BY <1>2, <1>7, <3>1 DEF Delivering
    <3>2. CASE i > k
      <4>1. i - k \in 1 .. Len(ready) /\ k + (i - k) = i
        BY <1>2, <3>2
      <4> QED BY <1>5, <1>7, <1>2, <3>2, <4>1
    <3> QED BY <1>2, <3>1, <3>2
  <2> DEFINE kept == Restricted(incoming, gone)
             all == Merged(receiverHistory, kept)
  <2>2. receiverHistory' = Newest(all)
    BY DEF TakeDelivered
  <2>3. gone \subseteq DOMAIN incoming
    BY <1>4 DEF Receiving
  <2>4. /\ DOMAIN all = DOMAIN receiverHistory \union gone
        /\ \A s \in gone : all[s] = incoming[s]
        /\ \A s \in DOMAIN receiverHistory : s \notin gone => all[s] = receiverHistory[s]
    BY DEF Merged, Restricted
  <2> HIDE DEF all, gone
  <2>5. DOMAIN all \subseteq 1 .. Received
    BY <1>2, <1>4, <2>4 DEF Delivering
  <2>6. \A s \in DOMAIN all : all[s] \in HeldOf(accepted[s])
    BY <2>3, <2>4 DEF Delivering, Receiving
  <2>7. ASSUME NEW s \in 1 .. Received, Received - s < Window
        PROVE  s \in DOMAIN receiverHistory'
    <3>1. s \in DOMAIN all
      <4>1. CASE s > k
        BY <1>2, <1>4, <2>4, <4>1
      <4>2. CASE s <= k
        <5>1. s \in 1 .. k /\ k - s < Window
          BY <1>2, <2>7, <4>2, ChannelAssumption
        <5> QED BY <2>4, <5>1 DEF Delivering
      <4> QED BY <1>2, <4>1, <4>2
    <3>2. Received \in Nat
      BY <1>2
    <3> QED BY <2>2, <2>5, <2>7, <3>1, <3>2, NewestKeeps
  <2>8. DOMAIN receiverHistory' \subseteq DOMAIN all
        /\ \A s \in DOMAIN receiverHistory' : receiverHistory'[s] = all[s]
    BY <2>2, NewestIs
  <2>9. \A i \in 1 .. Len(ready') : ready'[i] = Len(taken') + i
    BY <1>8
  <2> QED BY <1>1, <1>7, <2>1, <2>5, <2>6, <2>7, <2>8, <2>9 DEF Delivering
<1> QED BY <1>2, <1>3, <1>7, <1>9, <1>12, <1>13, <1>14, <1>15

\* A fragment is stored with the message it was cut from, and what becomes
\* deliverable follows what was handed over without a gap.
LEMMA DataPreserves ==
    ASSUME ChannelInv, NEW p, ReceiveData(p), UNCHANGED load
    PROVE  ChannelInv'
<1> DEFINE n == Len(accepted)
           k == Len(taken)
           part == [f \in {p.fragment} |-> p.of]
           now == CASE Reception(p) = "Held" ->
                            [incoming EXCEPT ![p.seq].parts = Merged(@, part)]
                    [] Reception(p) = "New" ->
                            Merged(incoming, [s \in {p.seq} |-> [of |-> p.of, parts |-> part]])
                    [] OTHER -> incoming
           run == Run(now)
           c == Cardinality(run)
           more == [i \in 1 .. c |-> nextReceive + i - 1]
<1> USE DEF ChannelInv
<1>1. /\ UNCHANGED <<load, accepted, pending, nextSend, sendExhausted, receiverHistory, taken,
                     data>>
      /\ Reception(p) \in {"Held", "Retired", "New"}
      /\ acks' = acks \union {p}
      /\ Genuine(p)
  BY DEF ReceiveData, senderVars, Travelling
<1>2. /\ incoming' = now
      /\ ready' = ready \o more
      /\ nextReceive' = IF MaxSequence \in run THEN MaxSequence ELSE nextReceive + c
      /\ receiveExhausted' = (receiveExhausted \/ MaxSequence \in run)
  BY DEF ReceiveData
<1>3. /\ n \in Nat /\ k \in Nat /\ Len(ready) \in Nat /\ Received = k + Len(ready)
      /\ Received <= n /\ n <= MaxSequence /\ MaxSequence \in Nat \ {0}
      /\ nextReceive \in 1 .. MaxSequence
      /\ \A s \in 1 .. n : accepted[s] \in Message
  BY Sizes DEF Numbers, Sequence
<1>4. /\ p.seq \in 1 .. n /\ p.of = accepted[p.seq] /\ p.fragment \in FragmentsOf(p.of)
      /\ p.seq > Received \/ Reception(p) # "New"
      /\ p.seq <= Received \/ Reception(p) # "Retired"
      /\ p.seq \in DOMAIN incoming <=> Reception(p) = "Held"
  <2>1. p.seq \in 1 .. n /\ p.of = accepted[p.seq] /\ p.fragment \in FragmentsOf(p.of)
    BY <1>1 DEF Genuine
  <2>2. p.seq \in DOMAIN incoming <=> Reception(p) = "Held"
    BY <1>1 DEF Reception
  <2>3. Reception(p) = "New" => ~(p.seq < nextReceive \/ receiveExhausted)
    BY <1>1 DEF Reception
  <2>4. Reception(p) = "Retired" => p.seq < nextReceive \/ receiveExhausted
    BY <1>1 DEF Reception
  <2> QED BY <1>3, <2>1, <2>2, <2>3, <2>4 DEF Received
\* What is held only grows, by fragments of the message of its sequence.
<1>5. /\ DOMAIN now = DOMAIN incoming \union
                      (IF Reception(p) = "New" THEN {p.seq} ELSE {})
      /\ \A s \in DOMAIN now : now[s] \in HeldOf(accepted[s])
      /\ \A s \in DOMAIN incoming : DOMAIN incoming[s].parts \subseteq DOMAIN now[s].parts
      /\ p.seq > Received => p.seq \in DOMAIN now /\ p.fragment \in DOMAIN now[p.seq].parts
  <2> DEFINE m == accepted[p.seq]
  <2>1. CASE Reception(p) = "Held"
    <3> DEFINE old == incoming[p.seq]
               new == [old EXCEPT !.parts = Merged(old.parts, part)]
    <3>1. now = [incoming EXCEPT ![p.seq] = new]
      BY <2>1
    <3>2. p.seq \in DOMAIN incoming /\ old \in HeldOf(m)
      BY <1>4, <2>1 DEF Receiving
    <3>3. PICK F \in SUBSET FragmentsOf(m) : old.parts \in [F -> {m}]
      BY <3>2 DEF HeldOf
    <3>4. Merged(old.parts, part) \in [F \union {p.fragment} -> {m}]
      BY <1>4, <3>3 DEF Merged
    <3>5. F \union {p.fragment} \in SUBSET FragmentsOf(m)
      BY <1>4
    <3> HIDE DEF old, now, part
    <3>6. new.parts = Merged(old.parts, part) /\ new.of = old.of /\ new \in HeldOf(m)
      BY <3>2, <3>4, <3>5 DEF HeldOf
    <3> HIDE DEF new
    <3>7. DOMAIN now = DOMAIN incoming /\ now[p.seq] = new
          /\ \A s \in DOMAIN incoming : s # p.seq => now[s] = incoming[s]
      BY <3>1, <3>2
    <3>8. DOMAIN new.parts = F \union {p.fragment} /\ DOMAIN old.parts = F
      BY <3>3, <3>4, <3>6
    <3>9. \A s \in DOMAIN incoming : incoming[s] \in HeldOf(accepted[s])
      BY DEF Receiving
    <3> QED BY <2>1, <3>2, <3>6, <3>7, <3>8, <3>9 DEF old
  <2>2. CASE Reception(p) = "New"
    <3> DEFINE new == [of |-> p.of, parts |-> part]
    <3>1. now = Merged(incoming, [s \in {p.seq} |-> new])
      BY <2>2
    <3>2. p.seq \notin DOMAIN incoming
      BY <1>4, <2>2
    <3>3. part \in [{p.fragment} -> {m}] /\ {p.fragment} \in SUBSET FragmentsOf(m)
      BY <1>4
    <3>4. new \in HeldOf(m) /\ DOMAIN new.parts = {p.fragment}
      BY <1>4, <3>3 DEF HeldOf
    <3> HIDE DEF new, now
    <3>5. DOMAIN now = DOMAIN incoming \union {p.seq} /\ now[p.seq] = new
          /\ \A s \in DOMAIN incoming : now[s] = incoming[s]
      BY <3>1, <3>2 DEF Merged
    <3>6. \A s \in DOMAIN incoming : incoming[s] \in HeldOf(accepted[s])
      BY DEF Receiving
    <3> QED BY <2>2, <3>4, <3>5, <3>6
  <2>3. CASE Reception(p) = "Retired"
    <3>1. now = incoming
      BY <2>3
    <3>2. \A s \in DOMAIN incoming : incoming[s] \in HeldOf(accepted[s])
      BY DEF Receiving
    <3> QED BY <1>3, <1>4, <2>3, <3>1, <3>2
  <2> QED BY <1>1, <2>1, <2>2, <2>3
<1> HIDE DEF now
<1>6. /\ DOMAIN now \subseteq k + 1 .. n
      /\ DOMAIN incoming \subseteq DOMAIN now
  BY <1>3, <1>4, <1>5 DEF Receiving
<1>7. /\ run \subseteq DOMAIN now
      /\ run = nextReceive .. nextReceive + c - 1
      /\ c \in Nat
      /\ receiveExhausted => c = 0
      /\ \A s \in run : Complete(now[s])
      /\ ~receiveExhausted /\ nextReceive + c \in DOMAIN now => ~Complete(now[nextReceive + c])
  <2>1. CASE receiveExhausted
    <3>1. run = {}
      BY <2>1 DEF Run
    <3>2. c = 0
      BY <3>1, FS_EmptySet
    <3> HIDE DEF run
    <3> QED BY <1>3, <2>1, <3>1, <3>2
  <2>2. CASE ~receiveExhausted
    <3>1. run = {s \in DOMAIN now : s >= nextReceive /\ \A t \in nextReceive .. s :
                                        t \in DOMAIN now /\ Complete(now[t])}
      BY <2>2 DEF Run
    <3> HIDE DEF run
    <3>2. run \subseteq nextReceive .. n /\ run \subseteq DOMAIN now
      BY <1>3, <1>6, <3>1
    <3>3. ASSUME NEW s \in run PROVE nextReceive .. s \subseteq run
      BY <1>3, <3>1, <3>2
    <3>4. c \in Nat /\ run = nextReceive .. nextReceive + c - 1
      <4>1. nextReceive \in Int /\ n \in Int
        BY <1>3
      <4>2. \A s \in run : nextReceive .. s \subseteq run
        BY <3>3
      <4> QED BY <3>2, <4>1, <4>2, CountUp, Zenon
    <3> HIDE DEF c
    <3>5. \A s \in run : Complete(now[s])
      BY <1>3, <1>6, <3>1
    <3>6. ASSUME nextReceive + c \in DOMAIN now, Complete(now[nextReceive + c])
          PROVE  FALSE
      <4>1. ASSUME NEW t \in nextReceive .. nextReceive + c
            PROVE  t \in DOMAIN now /\ Complete(now[t])
        <5>1. CASE t = nextReceive + c
          BY <3>6, <5>1
        <5>2. CASE t # nextReceive + c
          <6>1. t \in run
            BY <1>3, <3>4, <5>2
          <6> QED BY <3>2, <3>5, <6>1
        <5> QED BY <5>1, <5>2
      <4>2. nextReceive + c \in run
        BY <1>3, <3>1, <3>4, <3>6, <4>1
      <4> QED BY <1>3, <3>4, <4>2
    <3> QED BY <2>2, <3>2, <3>4, <3>5, <3>6
  <2> QED BY <2>1, <2>2
<1> HIDE DEF run, c
<1>8. Received' = Received + c /\ Received' \in Nat /\ Received' <= n
      /\ nextReceive' \in Sequence
  <2>1. CASE receiveExhausted
    <3>1. c = 0 /\ MaxSequence \notin run
      BY <1>3, <1>7, <2>1
    <3>2. receiveExhausted'
      BY <1>2, <2>1, Zenon
    <3>3. nextReceive' = nextReceive
      BY <1>2, <1>3, <3>1
    <3> QED BY <1>3, <2>1, <3>1, <3>2, <3>3 DEF Received, Sequence
  <2>2. CASE ~receiveExhausted
    <3>1. Received = nextReceive - 1
      BY <2>2 DEF Received
    <3>2. CASE MaxSequence \in run
      <4>1. MaxSequence = nextReceive + c - 1 /\ MaxSequence <= n
        BY <1>3, <1>6, <1>7, <3>2
      <4>2. Received' = MaxSequence /\ nextReceive' = MaxSequence
        BY <1>2, <3>2 DEF Received
      <4>3. nextReceive' \in 1 .. MaxSequence
        BY <1>3, <4>2
      <4>4. Received + c = MaxSequence /\ Received' \in Nat
        BY <1>3, <1>7, <3>1, <4>1, <4>2
      <4> QED BY <4>1, <4>2, <4>3, <4>4 DEF Sequence
    <3>3. CASE MaxSequence \notin run
      <4>1. ~receiveExhausted' /\ nextReceive' = nextReceive + c
        BY <1>2, <2>2, <3>3
      <4>2. Received' = Received + c
        BY <1>3, <1>7, <3>1, <4>1 DEF Received
      <4>3. nextReceive + c <= MaxSequence /\ Received + c <= n
        <5>1. CASE c = 0
          BY <1>3, <5>1
        <5>2. CASE c > 0
          <6>1. nextReceive + c - 1 \in run
            BY <1>3, <1>7, <5>2
          <6>2. nextReceive + c - 1 \in k + 1 .. n /\ nextReceive + c - 1 # MaxSequence
            BY <1>6, <1>7, <3>3, <6>1
          <6> QED BY <1>3, <1>7, <3>1, <6>2
        <5> QED BY <1>7, <5>1, <5>2
      <4>4. nextReceive' \in 1 .. MaxSequence
        BY <1>3, <1>7, <4>1, <4>3
      <4> QED BY <1>3, <1>7, <4>2, <4>3, <4>4 DEF Sequence
    <3> QED BY <3>2, <3>3
  <2> QED BY <2>1, <2>2
<1>9. \A s, f : Arrived(s, f) /\ s \in Int => Arrived(s, f)'
  <2>1. \A s \in DOMAIN incoming : s \in DOMAIN incoming'
            /\ DOMAIN incoming[s].parts \subseteq DOMAIN incoming'[s].parts
    BY <1>2, <1>5, <1>6
  <2> QED BY <1>3, <1>7, <1>8, <2>1 DEF Arrived
<1>10. /\ ready' \in Seq(Nat) /\ Len(ready') = Len(ready) + c
       /\ \A i \in 1 .. Len(ready) + c : ready'[i] = k + i
  <2>1. ASSUME NEW i \in 1 .. c
        PROVE  more[i] \in Nat /\ more[i] = Received + i
    <3>1. c > 0 /\ ~receiveExhausted
      BY <1>7
    <3> QED BY <1>3, <1>7, <3>1 DEF Received
  <2>2. more \in Seq(Nat) /\ Len(more) = c
    <3>1. \A i \in 1 .. c : nextReceive + i - 1 \in Nat
      BY <1>3, <1>7
    <3> QED BY <1>7, <3>1, IsASeq
  <2> HIDE DEF more
  <2>3. ready \in Seq(Nat) /\ \A i \in 1 .. Len(ready) : ready[i] = k + i
    BY DEF Numbers, Delivering
  <2>4. /\ ready \o more \in Seq(Nat) /\ Len(ready \o more) = Len(ready) + Len(more)
        /\ \A i \in 1 .. Len(ready) + Len(more) :
              (ready \o more)[i] = IF i <= Len(ready) THEN ready[i] ELSE more[i - Len(ready)]
    BY <2>2, <2>3, ConcatProperties, Zenon
  <2>5. ASSUME NEW i \in 1 .. Len(ready) + c
        PROVE  (ready \o more)[i] = k + i
    <3>1. CASE i <= Len(ready)
      BY <1>3, <1>7, <2>2, <2>3, <2>4, <3>1
    <3>2. CASE i > Len(ready)
      <4>1. i - Len(ready) \in 1 .. c
        BY <1>3, <1>7, <3>2
      <4>2. more[i - Len(ready)] = Received + (i - Len(ready))
        BY <2>1, <4>1
      <4>3. (ready \o more)[i] = more[i - Len(ready)]
        BY <1>3, <1>7, <2>2, <2>4, <3>2
      <4> QED BY <1>3, <1>7, <4>2, <4>3
    <3>3. i <= Len(ready) \/ i > Len(ready)
      BY <1>3, <1>7
    <3> QED BY <3>1, <3>2, <3>3
  <2> QED BY <1>2, <2>2, <2>4, <2>5
<1>11. Numbers'
  <2>1. receiveExhausted' \in BOOLEAN
    BY <1>2, Zenon DEF Numbers
  <2> QED BY <1>1, <1>3, <1>7, <1>8, <1>10, <2>1 DEF Numbers
<1>12. Sending'
  <2>1. \A s \in DOMAIN pending : s \in Int
    BY <1>3 DEF Sending
  <2>2. \A s \in DOMAIN pending : \A f \in pending[s].acknowledged : Arrived(s, f)'
    BY <1>9, <2>1 DEF Sending
  <2>3. \A s \in 1 .. n : s \notin DOMAIN pending => s <= Received'
    BY <1>3, <1>7, <1>8 DEF Sending
  <2> QED BY <1>1, <2>2, <2>3 DEF Sending
<1>13. Travelling'
  <2>1. \A q : Genuine(q)' <=> Genuine(q)
    BY <1>1 DEF Genuine
  <2>2. ASSUME NEW a \in acks PROVE Genuine(a) /\ Arrived(a.seq, a.fragment)'
    BY <1>3, <1>9 DEF Travelling, Genuine
  <2>3. Arrived(p.seq, p.fragment)'
    <3>1. CASE p.seq <= Received
      BY <1>3, <1>4, <1>7, <1>8, <3>1 DEF Arrived
    <3>2. CASE p.seq > Received
      BY <1>2, <1>5, <3>2 DEF Arrived
    <3> QED BY <1>3, <1>4, <3>1, <3>2
  <2> QED BY <1>1, <2>1, <2>2, <2>3 DEF Travelling
<1>14. Receiving'
  <2>1. ASSUME NEW s \in k + 1 .. Received'
        PROVE  s \in DOMAIN now /\ Complete(now[s])
    <3>1. CASE s <= Received
      <4>1. s \in DOMAIN incoming /\ Complete(incoming[s])
            /\ incoming[s] \in HeldOf(accepted[s])
        BY <1>3, <3>1 DEF Receiving
      <4>2. s \in DOMAIN now /\ now[s] \in HeldOf(accepted[s])
            /\ DOMAIN incoming[s].parts \subseteq DOMAIN now[s].parts
        BY <1>5, <1>6, <4>1
      <4> QED BY <4>1, <4>2 DEF HeldOf, Complete
    <3>2. CASE s > Received
      <4>1. c > 0 /\ ~receiveExhausted
        BY <1>3, <1>7, <1>8, <3>2
      <4>2. s \in run
        BY <1>3, <1>7, <1>8, <3>2, <4>1 DEF Received
      <4> QED BY <1>7, <4>2
    <3> QED BY <1>3, <3>1, <3>2
  <2>2. ~receiveExhausted' /\ nextReceive' \in DOMAIN now => ~Complete(now[nextReceive'])
    BY <1>2, <1>7
  <2> QED BY <1>1, <1>2, <1>5, <1>6, <2>1, <2>2 DEF Receiving, Complete
<1>15. Delivering'
  BY <1>1, <1>10 DEF Delivering
<1> QED BY <1>11, <1>12, <1>13, <1>14, <1>15

-----------------------------------------------------------------------------
\* The theorems.

LEMMA InitChannel == Init => ChannelInv
<1> SUFFICES ASSUME Init PROVE ChannelInv
  OBVIOUS
<1>1. /\ accepted = <<>> /\ taken = <<>> /\ ready = <<>>
      /\ Len(accepted) = 0 /\ Len(taken) = 0 /\ Len(ready) = 0
      /\ DOMAIN pending = {} /\ DOMAIN incoming = {} /\ DOMAIN receiverHistory = {}
  BY DEF Init
<1>2. Received = 0
  BY DEF Init, Received
<1>3. Numbers
  <2>1. /\ nextSend = 1 /\ nextReceive = 1 /\ sendExhausted \in BOOLEAN
        /\ receiveExhausted \in BOOLEAN /\ load \in Loads
    BY DEF Init
  <2>2. MaxSequence \in Nat \ {0}
    BY ChannelAssumption
  <2>3. accepted \in Seq(Message) /\ taken \in Seq({Whole(m) : m \in Message})
        /\ ready \in Seq(Nat)
    BY <1>1, EmptySeq
  <2> QED BY <1>1, <1>2, <2>1, <2>2, <2>3 DEF Numbers, Sequence
<1>4. Sending /\ Travelling
  BY <1>1 DEF Init, Sending, Travelling
<1>5. Receiving /\ Delivering
  BY <1>1, <1>2 DEF Receiving, Delivering
<1> QED BY <1>3, <1>4, <1>5 DEF ChannelInv

LEMMA NextChannel == ChannelInv /\ [Next]_vars => ChannelInv'
<1> SUFFICES ASSUME ChannelInv, [Next]_vars PROVE ChannelInv'
  OBVIOUS
<1>1. ASSUME Poll, UNCHANGED load PROVE ChannelInv'
  BY <1>1, PollPreserves
<1>2. ASSUME Tick, UNCHANGED load PROVE ChannelInv'
  BY <1>2, TickPreserves
<1>3. ASSUME NEW m \in load.offered[nextSend], Queue(m), UNCHANGED load PROVE ChannelInv'
  BY <1>3, QueuePreserves
<1>4. ASSUME NEW p \in Packet, ReceiveData(p), UNCHANGED load PROVE ChannelInv'
  BY <1>4, DataPreserves
<1>5. ASSUME NEW p \in Packet, ReceiveAck(p), UNCHANGED load PROVE ChannelInv'
  BY <1>5, AckPreserves
<1>6. ASSUME NEW p \in Packet, LoseData(p) \/ LoseAck(p), UNCHANGED load PROVE ChannelInv'
  BY <1>6, LossPreserves
<1>7. ASSUME TakeDelivered, UNCHANGED load PROVE ChannelInv'
  BY <1>7, TakePreserves
<1>8. ASSUME UNCHANGED vars PROVE ChannelInv'
  <2>1. /\ UNCHANGED <<accepted, pending, nextSend, sendExhausted, data, acks, load>>
        /\ UNCHANGED receiverVars
    BY <1>8 DEF vars, senderVars
  <2>2. Receiving' /\ Delivering' /\ Received' = Received
        /\ \A s, f : Arrived(s, f)' <=> Arrived(s, f)
    BY <2>1, ReceiverUnchanged
  <2>3. Numbers' /\ Sending' /\ Travelling'
    BY <2>1, <2>2 DEF ChannelInv, Numbers, Sending, Travelling, Genuine, receiverVars
  <2> QED BY <2>2, <2>3 DEF ChannelInv
<1> QED BY <1>1, <1>2, <1>3, <1>4, <1>5, <1>6, <1>7, <1>8 DEF Next, Sender, Network

\* The invariant both theorems rest on: what was handed over, what is ready,
\* what is held and what is pending are stretches of what was queued, and
\* every packet in the network was cut from it.
THEOREM ChannelInductive == Spec => []ChannelInv
<1>1. Init => ChannelInv
  BY InitChannel
<1>2. ChannelInv /\ [Next]_vars => ChannelInv'
  BY NextChannel
<1> QED BY <1>1, <1>2, PTL DEF Spec

LEMMA LiveIsAnswered == ChannelInv => LiveDataAnswered
<1> SUFFICES ASSUME ChannelInv, NEW s \in DOMAIN pending,
                    NEW f \in pending[s].sent \ pending[s].acknowledged
             PROVE  Reception([seq |-> s, of |-> pending[s].of, fragment |-> f])
                        \in {"Held", "Retired", "New", "Full"}
  BY DEF LiveDataAnswered
<1> DEFINE n == Len(accepted)
           m == pending[s].of
           p == [seq |-> s, of |-> m, fragment |-> f]
<1> USE DEF ChannelInv
<1>1. /\ n \in Nat /\ Len(taken) \in Nat /\ Received \in Nat /\ Received <= n
      /\ n <= MaxSequence /\ Len(taken) <= Received
      /\ nextReceive \in 1 .. MaxSequence /\ MaxSequence \in Nat /\ Window \in Nat
  BY Sizes, ChannelAssumption DEF Numbers, Sequence
<1>2. s \in 1 .. n /\ n - s < Window /\ m = accepted[s]
  BY DEF Sending, RecordOf
<1>3. p.seq = s /\ p.of = m /\ p.fragment = f
  OBVIOUS
<1> HIDE DEF p
<1>4. \A held : held \in HeldOf(m) => Agrees(held, p)
  BY <1>3 DEF HeldOf, Agrees, SameSize
<1>5. CASE s \in DOMAIN incoming
  <2>1. incoming[s] \in HeldOf(m)
    BY <1>2, <1>5 DEF Receiving
  <2> QED BY <1>3, <1>4, <1>5, <2>1 DEF Reception, p
<1>6. CASE s \notin DOMAIN incoming /\ (s < nextReceive \/ receiveExhausted)
  <2>1. s <= Received
    BY <1>1, <1>2, <1>6 DEF Received
  <2>2. s <= Len(taken)
    BY <1>1, <1>2, <1>6, <2>1 DEF Receiving
  <2>3. s \in DOMAIN receiverHistory
    BY <1>1, <1>2, <2>2 DEF Delivering
  <2>4. receiverHistory[s] \in HeldOf(m)
    BY <1>2, <2>3 DEF Delivering
  <2> QED BY <1>3, <1>4, <1>6, <2>3, <2>4 DEF Reception, p
<1>7. CASE s \notin DOMAIN incoming /\ ~(s < nextReceive \/ receiveExhausted)
  <2>1. Received = nextReceive - 1 /\ nextReceive <= s
    BY <1>1, <1>2, <1>7 DEF Received
  <2>2. nextReceive \in DOMAIN pending
    BY <1>1, <1>2, <2>1 DEF Sending
  <2>3. s - nextReceive < Window
    BY <1>1, <1>2, <2>2 DEF Sending
  <2>4. ~(s - nextReceive >= Window)
    BY <1>1, <1>2, <2>3
  <2> QED BY <1>3, <1>7, <2>4 DEF Reception, p
<1> QED BY <1>5, <1>6, <1>7 DEF p

\* What the sender may still repeat is never refused for good: it is held,
\* remembered, or inside the window, and never taken for another message
\* (receiveData; the receiver's history is as long as the window).
THEOREM LiveDataIsAnswered == Spec => []LiveDataAnswered
BY ChannelInductive, LiveIsAnswered, PTL

LEMMA FifoInit == Init => Fifo!Init
<1> SUFFICES ASSUME Init PROVE Fifo!Init
  OBVIOUS
<1>1. accepted = <<>> /\ taken = <<>> /\ Len(accepted) = 0
  BY DEF Init
<1> QED BY <1>1 DEF Fifo!Init

LEMMA FifoStep ==
    ASSUME ChannelInv, ChannelInv', [Next]_vars
    PROVE  [Fifo!Next]_<<[i \in 1 .. Len(accepted) |-> Whole(accepted[i])], taken>>
<1> DEFINE wholes == [i \in 1 .. Len(accepted) |-> Whole(accepted[i])]
           parts == {Whole(m) : m \in Message}
<1>1. Len(accepted) \in Nat /\ Len(taken) \in Nat
      /\ \A s \in 1 .. Len(accepted) : accepted[s] \in Message
  BY Sizes DEF ChannelInv
<1>2. wholes \in Seq(parts) /\ Len(wholes) = Len(accepted)
  <2>1. \A i \in 1 .. Len(accepted) : Whole(accepted[i]) \in parts
    BY <1>1
  <2> QED BY <1>1, <2>1, IsASeq
<1>3. ASSUME NEW m \in load.offered[nextSend], Queue(m), UNCHANGED load
      PROVE  Fifo!Accept
  <2>1. accepted' = Append(accepted, m) /\ UNCHANGED taken
    BY <1>3 DEF Queue, receiverVars
  <2>2. m \in Message
    <3>1. /\ load \in Loads /\ nextSend \in 1 .. MaxSequence
      BY DEF ChannelInv, Numbers, Sequence
    <3>2. load.offered \in [1 .. MaxSequence -> SUBSET Message]
      BY <3>1, ChannelAssumption
    <3> QED BY <3>1, <3>2
  <2>3. /\ Len(accepted') = Len(accepted) + 1
        /\ accepted'[Len(accepted) + 1] = m
        /\ \A i \in 1 .. Len(accepted) : accepted'[i] = accepted[i]
    BY <2>1, <2>2, AppendProperties DEF ChannelInv, Numbers
  <2>4. Whole(m) \in parts
    BY <2>2
  <2>5. /\ Append(wholes, Whole(m)) \in Seq(parts)
        /\ Len(Append(wholes, Whole(m))) = Len(accepted) + 1
        /\ \A i \in 1 .. Len(accepted) : Append(wholes, Whole(m))[i] = wholes[i]
        /\ Append(wholes, Whole(m))[Len(accepted) + 1] = Whole(m)
    <3> HIDE DEF wholes, parts
    <3> QED BY <1>2, <2>4, AppendProperties
  <2>6. /\ wholes' \in Seq(parts) /\ Len(wholes') = Len(accepted) + 1
        /\ \A i \in 1 .. Len(accepted) + 1 : wholes'[i] = Whole(accepted'[i])
    <3>1. wholes' = [i \in 1 .. Len(accepted) + 1 |-> Whole(accepted'[i])]
      BY <2>3 DEF Whole, FragmentsOf
    <3>2. \A i \in 1 .. Len(accepted) + 1 : Whole(accepted'[i]) \in parts
      BY <1>1, <2>2, <2>3
    <3>3. Len(accepted) + 1 \in Nat
      BY <1>1
    <3> HIDE DEF parts, wholes
    <3> QED BY <3>1, <3>2, <3>3, IsASeq
  <2>7. \A i \in 1 .. Len(accepted) + 1 : wholes'[i] = Append(wholes, Whole(m))[i]
    BY <1>1, <2>3, <2>5, <2>6
  <2>8. wholes' = Append(wholes, Whole(m))
    <3> HIDE DEF wholes, parts
    <3> QED BY <2>5, <2>6, <2>7, SeqEqual
  <2> QED BY <2>1, <2>4, <2>8 DEF Fifo!Accept
<1>4. ASSUME TakeDelivered, UNCHANGED load
      PROVE  Fifo!Take
  <2>1. UNCHANGED accepted
    BY <1>4 DEF TakeDelivered, senderVars
  <2>2. /\ Len(taken') = Received /\ Len(taken) < Received
        /\ Received <= Len(accepted) /\ Received \in Nat
    BY <1>4, TakePreserves, Sizes DEF ChannelInv
  <2>3. taken' \in Seq(parts)
    <3>1. Numbers'
      BY DEF ChannelInv
    <3> QED BY <3>1 DEF Numbers, Whole, FragmentsOf
  <2>4. \A i \in 1 .. Received : taken'[i] = wholes[i]
    <3>1. Delivering'
      BY DEF ChannelInv
    <3>2. \A i \in 1 .. Received : taken'[i] = Whole(accepted[i])
      BY <2>1, <2>2, <3>1 DEF Delivering, Whole, FragmentsOf
    <3> QED BY <1>1, <2>2, <3>2
  <2>5. /\ SubSeq(wholes, 1, Received) \in Seq(parts)
        /\ Len(SubSeq(wholes, 1, Received)) = Received
        /\ \A i \in 1 .. Received : SubSeq(wholes, 1, Received)[i] = wholes[i]
    <3> HIDE DEF wholes, parts
    <3>1. \A i \in 1 .. Received : wholes[i] \in parts
      BY <1>1, <1>2, <2>2, ElementOfSeq
    <3> QED BY <1>1, <2>2, <3>1, SubSeqProperties
  <2>6. taken' = SubSeq(wholes, 1, Received)
    <3> HIDE DEF wholes, parts
    <3> QED BY <2>2, <2>3, <2>4, <2>5, SeqEqual
  <2>7. UNCHANGED wholes
    BY <2>1 DEF Whole, FragmentsOf
  <2>8. Received \in Len(taken) + 1 .. Len(wholes)
    BY <1>1, <1>2, <2>2
  <2> QED BY <2>6, <2>7, <2>8 DEF Fifo!Take
<1>5. ASSUME UNCHANGED <<accepted, taken>>
      PROVE  UNCHANGED <<wholes, taken>>
  BY <1>5 DEF Whole, FragmentsOf
<1>6. ASSUME NEW p, ReceiveData(p) \/ ReceiveAck(p) \/ LoseData(p) \/ LoseAck(p)
                    \/ Poll \/ Tick \/ UNCHANGED vars
      PROVE  UNCHANGED <<accepted, taken>>
  <2>1. CASE ReceiveData(p)
    BY <2>1 DEF ReceiveData, senderVars
  <2>2. CASE ReceiveAck(p)
    BY <2>2 DEF ReceiveAck, receiverVars
  <2>3. CASE LoseData(p) \/ LoseAck(p)
    BY <2>3 DEF LoseData, LoseAck, senderVars, receiverVars
  <2>4. CASE Poll \/ Tick
    BY <2>4 DEF Poll, Tick, receiverVars
  <2>5. CASE UNCHANGED vars
    BY <2>5 DEF vars, senderVars, receiverVars
  <2> QED BY <1>6, <2>1, <2>2, <2>3, <2>4, <2>5
<1> QED BY <1>3, <1>4, <1>5, <1>6 DEF Next, Sender, Network, Fifo!Next

\* The channel implements the FIFO its header promises, for every message,
\* window, budget and behaviour of the network.
THEOREM ChannelIsFifo == Spec => ImplementsFifo
<1>1. Init => Fifo!Init
  BY FifoInit
<1>2. ChannelInv /\ ChannelInv' /\ [Next]_vars =>
        [Fifo!Next]_<<[i \in 1 .. Len(accepted) |-> Whole(accepted[i])], taken>>
  BY FifoStep
<1> QED BY <1>1, <1>2, ChannelInductive, PTL DEF Spec, ImplementsFifo, Fifo!Spec


-----------------------------------------------------------------------------
\* Types and bytes.

\* The sum of a set of messages' accounting, as a sum of values.
Weights(records) == [s \in DOMAIN records |-> Accounted[records[s].of]]

Weighs(records) ==
    /\ IsFiniteSet(DOMAIN records)
    /\ \A s \in DOMAIN records : records[s].of \in Message

LEMMA TotalOfIs ==
    ASSUME NEW records
    PROVE  TotalOf(records) = Total(Weights(records), DOMAIN records)
BY DEF TotalOf, MapThenSumSet, MapThenFoldSet, Total, Weights

LEMMA WeightType ==
    ASSUME NEW records, Weighs(records)
    PROVE  \A s \in DOMAIN records : Weights(records)[s] \in Nat
BY ChannelAssumption DEF Weights, Weighs

LEMMA TotalOfNat ==
    ASSUME NEW records, Weighs(records)
    PROVE  TotalOf(records) \in Nat
BY TotalOfIs, WeightType, TotalNat DEF Weighs

LEMMA TotalOfSame ==
    ASSUME NEW r, NEW q, Weighs(r), DOMAIN q = DOMAIN r, \A s \in DOMAIN r : q[s].of = r[s].of
    PROVE  TotalOf(q) = TotalOf(r) /\ Weighs(q)
<1>1. \A s \in DOMAIN r : Weights(q)[s] = Weights(r)[s]
  BY DEF Weights
<1>2. Total(Weights(q), DOMAIN r) = Total(Weights(r), DOMAIN r)
  BY <1>1, TotalSame DEF Weighs
<1> QED BY <1>2, TotalOfIs DEF Weighs

LEMMA TotalOfAdd ==
    ASSUME NEW r, NEW q, NEW t, NEW m \in Message, Weighs(r), t \notin DOMAIN r,
           DOMAIN q = DOMAIN r \union {t}, q[t].of = m, \A s \in DOMAIN r : q[s].of = r[s].of
    PROVE  TotalOf(q) = TotalOf(r) + Accounted[m] /\ Weighs(q)
<1>1. Weighs(q)
  BY FS_AddElement DEF Weighs
<1>2. Total(Weights(q), DOMAIN q) = Weights(q)[t] + Total(Weights(q), DOMAIN q \ {t})
  <2>1. t \in DOMAIN q /\ IsFiniteSet(DOMAIN q)
    BY <1>1 DEF Weighs
  <2>2. \A s \in DOMAIN q : Weights(q)[s] \in Nat
    BY <1>1, WeightType
  <2> QED BY <2>1, <2>2, TotalRemove
<1>3. DOMAIN q \ {t} = DOMAIN r
  OBVIOUS
<1>4. Total(Weights(q), DOMAIN r) = Total(Weights(r), DOMAIN r)
  <2>1. \A s \in DOMAIN r : Weights(q)[s] = Weights(r)[s]
    BY DEF Weights
  <2> QED BY <2>1, TotalSame DEF Weighs
<1>5. Weights(q)[t] = Accounted[m]
  BY DEF Weights
<1>6. TotalOf(r) \in Nat /\ Accounted[m] \in Nat
  BY TotalOfNat, ChannelAssumption
<1> QED BY <1>1, <1>2, <1>3, <1>4, <1>5, <1>6, TotalOfIs

LEMMA WeighsPart ==
    ASSUME NEW r, NEW A \in SUBSET DOMAIN r, Weighs(r)
    PROVE  /\ Weighs(Restricted(r, A))
           /\ TotalOf(Restricted(r, A)) = Total(Weights(r), A)
<1> DEFINE q == Restricted(r, A)
<1>1. DOMAIN q = A /\ \A s \in A : q[s] = r[s]
  BY DEF Restricted
<1>2. Weighs(q)
  BY <1>1, FS_Subset DEF Weighs
<1>3. \A s \in A : Weights(q)[s] = Weights(r)[s]
  BY <1>1 DEF Weights
<1> HIDE DEF q
<1>4. Total(Weights(q), A) = Total(Weights(r), A)
  BY <1>1, <1>2, <1>3, TotalSame DEF Weighs
<1>5. TotalOf(q) = Total(Weights(q), A)
  BY <1>1, TotalOfIs
<1> QED BY <1>2, <1>4, <1>5 DEF q

LEMMA TotalOfSplit ==
    ASSUME NEW r, NEW A \in SUBSET DOMAIN r, Weighs(r)
    PROVE  /\ TotalOf(Restricted(r, A)) \in Nat /\ TotalOf(Restricted(r, DOMAIN r \ A)) \in Nat
           /\ TotalOf(r) = TotalOf(Restricted(r, A)) + TotalOf(Restricted(r, DOMAIN r \ A))
<1> DEFINE B == DOMAIN r \ A
           w == Weights(r)
<1>1. IsFiniteSet(A) /\ IsFiniteSet(B) /\ A \intersect B = {} /\ A \union B = DOMAIN r
  BY FS_Subset DEF Weighs
<1>2. \A s \in A \union B : w[s] \in Nat
  BY <1>1, WeightType
<1>3. /\ TotalOf(Restricted(r, A)) = Total(w, A) /\ Weighs(Restricted(r, A))
      /\ TotalOf(Restricted(r, B)) = Total(w, B) /\ Weighs(Restricted(r, B))
  <2>1. B \in SUBSET DOMAIN r
    OBVIOUS
  <2> QED BY <2>1, WeighsPart
<1> HIDE DEF B, w
<1>4. Total(w, A \union B) = Total(w, A) + Total(w, B)
  BY <1>1, <1>2, TotalUnion
<1>5. TotalOf(r) = Total(w, DOMAIN r)
  BY TotalOfIs DEF w
<1> QED BY <1>1, <1>3, <1>4, <1>5, TotalOfNat DEF B

\* A smaller part weighs no more.
LEMMA TotalOfPart ==
    ASSUME NEW r, NEW B \in SUBSET DOMAIN r, NEW A \in SUBSET B, Weighs(r)
    PROVE  /\ TotalOf(Restricted(r, A)) \in Nat /\ TotalOf(Restricted(r, B)) \in Nat
           /\ TotalOf(Restricted(r, A)) <= TotalOf(Restricted(r, B))
           /\ TotalOf(Restricted(r, B)) <= TotalOf(r)
<1>1. Weighs(Restricted(r, B)) /\ DOMAIN Restricted(r, B) = B
  BY WeighsPart DEF Restricted
<1>2. Restricted(Restricted(r, B), A) = Restricted(r, A)
  BY DEF Restricted
<1>3. /\ TotalOf(Restricted(r, B)) \in Nat /\ TotalOf(Restricted(r, DOMAIN r \ B)) \in Nat
      /\ TotalOf(r) = TotalOf(Restricted(r, B)) + TotalOf(Restricted(r, DOMAIN r \ B))
  BY TotalOfSplit
<1>4. /\ TotalOf(Restricted(r, A)) \in Nat /\ TotalOf(Restricted(Restricted(r, B), B \ A)) \in Nat
      /\ TotalOf(Restricted(r, B)) = TotalOf(Restricted(r, A)) + TotalOf(Restricted(Restricted(r, B), B \ A))
  BY <1>1, <1>2, TotalOfSplit
<1> QED BY <1>3, <1>4

\* What the receiver has of messages after the one it expects.
Later == {s \in DOMAIN incoming : s > nextReceive}

\* What TypeOK says beyond the other parts of the invariant.
Shapes ==
    /\ pending = [s \in DOMAIN pending |-> pending[s]]
    /\ \A s \in DOMAIN pending :
        /\ pending[s].acknowledged \subseteq pending[s].sent
        /\ pending[s].wait \in [FragmentsOf(pending[s].of) -> 0 .. RetryMs]
    /\ cursor \in [seq : Sequence, fragment : Nat \ {0}]
    /\ senderHistory \in [DOMAIN senderHistory -> Message]
    /\ data \subseteq Packet /\ acks \subseteq Packet

SenderBytes == Weighs(pending) /\ queuedBytes = TotalOf(pending) /\ queuedBytes <= MaxQueuedBytes

\* A message after the expected one was let in beside the reservation: what is
\* held of the later ones leaves room for one more, in bytes and in the window.
ReceiverBytes ==
    /\ Weighs(incoming)
    /\ bufferedBytes = TotalOf(incoming) /\ bufferedBytes <= MaxBufferedBytes
    /\ TotalOf(Restricted(incoming, Later)) <= MaxBufferedBytes - Reservation
    /\ Cardinality(Later) < Window

Bytes == SenderBytes /\ ReceiverBytes

LEMMA BytesAtInit == Init => Bytes
<1> SUFFICES ASSUME Init PROVE Bytes
  OBVIOUS
<1>1. DOMAIN pending = {} /\ DOMAIN incoming = {} /\ queuedBytes = 0 /\ bufferedBytes = 0
  BY DEF Init
<1>2. Weighs(pending) /\ Weighs(incoming)
  BY <1>1, FS_EmptySet DEF Weighs
<1>3. TotalOf(pending) = 0 /\ TotalOf(incoming) = 0
  BY <1>1, TotalOfIs, TotalEmpty
<1>4. Later = {} /\ Cardinality(Later) = 0
  BY <1>1, FS_EmptySet DEF Later
<1>5. TotalOf(Restricted(incoming, Later)) = 0
  <2>1. DOMAIN Restricted(incoming, Later) = {}
    BY <1>4 DEF Restricted
  <2> QED BY <2>1, TotalOfIs, TotalEmpty
<1> QED BY <1>1, <1>2, <1>3, <1>4, <1>5, ChannelAssumption DEF Bytes, SenderBytes, ReceiverBytes

LEMMA ReceiverBytesKept ==
    ASSUME ReceiverBytes, UNCHANGED <<incoming, bufferedBytes, nextReceive>>
    PROVE  ReceiverBytes'
<1>1. Later' = Later
  BY DEF Later
<1> QED BY <1>1 DEF ReceiverBytes

LEMMA SenderBytesKept ==
    ASSUME SenderBytes, UNCHANGED <<pending, queuedBytes>>
    PROVE  SenderBytes'
BY DEF SenderBytes

LEMMA QueueBytes ==
    ASSUME ChannelInv, SenderBytes, NEW m \in load.offered[nextSend], Queue(m), UNCHANGED load
    PROVE  SenderBytes'
<1>1. /\ ~sendExhausted /\ nextSend = Len(accepted) + 1 /\ Len(accepted) \in Nat
      /\ DOMAIN pending \subseteq 1 .. Len(accepted)
      /\ nextSend \in Sequence /\ load \in Loads
  BY Sizes DEF Queue, CanQueue, ChannelInv, Numbers, Sending
<1>2. m \in Message
  BY <1>1, ChannelAssumption DEF Sequence
<1>3. nextSend \notin DOMAIN pending
  BY <1>1
<1>4. /\ DOMAIN pending' = DOMAIN pending \union {nextSend}
      /\ pending'[nextSend].of = m
      /\ \A s \in DOMAIN pending : pending'[s].of = pending[s].of
  BY <1>3 DEF Queue, Merged
<1>5. TotalOf(pending') = TotalOf(pending) + Accounted[m] /\ Weighs(pending')
  BY <1>2, <1>3, <1>4, TotalOfAdd DEF SenderBytes
<1>6. queuedBytes' = queuedBytes + Accounted[m] /\ Accounted[m] <= MaxQueuedBytes - queuedBytes
  BY DEF Queue, CanQueue
<1>7. TotalOf(pending) \in Nat /\ Accounted[m] \in Nat /\ MaxQueuedBytes \in Nat
  BY <1>2, TotalOfNat, ChannelAssumption DEF SenderBytes
<1> QED BY <1>5, <1>6, <1>7 DEF SenderBytes

LEMMA SentBytes ==
    ASSUME ChannelInv, ChannelInv', SenderBytes, Poll \/ Tick
    PROVE  SenderBytes'
<1>1. DOMAIN pending' = DOMAIN pending /\ queuedBytes' = queuedBytes /\ accepted' = accepted
  BY DEF Poll, Tick
<1>2. \A s \in DOMAIN pending : pending[s].of = accepted[s]
  BY DEF ChannelInv, Sending, RecordOf
<1>3. \A s \in DOMAIN pending' : pending'[s].of = accepted'[s]
  BY DEF ChannelInv, Sending, RecordOf
<1>4. TotalOf(pending') = TotalOf(pending) /\ Weighs(pending')
  BY <1>1, <1>2, <1>3, TotalOfSame DEF SenderBytes
<1> QED BY <1>1, <1>4 DEF SenderBytes

LEMMA AckBytes ==
    ASSUME SenderBytes, NEW a, ReceiveAck(a)
    PROVE  SenderBytes'
<1> DEFINE now == [pending EXCEPT ![a.seq].acknowledged = @ \union {a.fragment}]
           gone == Retired(now)
<1>1. /\ pending' = Restricted(now, DOMAIN now \ gone)
      /\ queuedBytes' = queuedBytes - TotalOf(Restricted(now, gone))
  BY DEF ReceiveAck
<1>2. DOMAIN now = DOMAIN pending /\ \A s \in DOMAIN pending : now[s].of = pending[s].of
  OBVIOUS
<1>3. gone \in SUBSET DOMAIN now
  BY DEF Retired
<1> HIDE DEF now, gone
<1>4. TotalOf(now) = TotalOf(pending) /\ Weighs(now)
  BY <1>2, TotalOfSame DEF SenderBytes
<1>5. /\ TotalOf(Restricted(now, gone)) \in Nat /\ TotalOf(Restricted(now, DOMAIN now \ gone)) \in Nat
      /\ TotalOf(now) = TotalOf(Restricted(now, gone)) + TotalOf(Restricted(now, DOMAIN now \ gone))
  BY <1>3, <1>4, TotalOfSplit
<1>6. Weighs(Restricted(now, DOMAIN now \ gone))
  <2>1. DOMAIN now \ gone \in SUBSET DOMAIN now
    OBVIOUS
  <2> QED BY <1>4, <2>1, WeighsPart
<1> QED BY <1>1, <1>4, <1>5, <1>6, ChannelAssumption DEF SenderBytes

\* Where no later message is added, no more is held of the later ones.
LEMMA LaterShrinks ==
    ASSUME ReceiverBytes, Weighs(incoming'), Later' \subseteq Later,
           \A s \in Later' : incoming'[s].of = incoming[s].of
    PROVE  /\ TotalOf(Restricted(incoming', Later')) <= MaxBufferedBytes - Reservation
           /\ Cardinality(Later') < Window
<1>1. Later \in SUBSET DOMAIN incoming /\ Later' \in SUBSET DOMAIN incoming' /\ Later' \in SUBSET Later
  BY DEF Later
<1>2. /\ TotalOf(Restricted(incoming, Later')) \in Nat /\ TotalOf(Restricted(incoming, Later)) \in Nat
      /\ TotalOf(Restricted(incoming, Later')) <= TotalOf(Restricted(incoming, Later))
  BY <1>1, TotalOfPart DEF ReceiverBytes
<1>3. TotalOf(Restricted(incoming', Later')) = TotalOf(Restricted(incoming, Later'))
  <2> DEFINE r == Restricted(incoming, Later')
             q == Restricted(incoming', Later')
  <2>1. DOMAIN q = DOMAIN r /\ \A s \in DOMAIN r : q[s].of = r[s].of
    BY DEF Restricted
  <2>2. Weighs(r)
    <3>1. Later' \in SUBSET DOMAIN incoming
      BY <1>1
    <3> QED BY <3>1, WeighsPart DEF ReceiverBytes
  <2> HIDE DEF r, q
  <2>3. TotalOf(q) = TotalOf(r)
    BY <2>1, <2>2, TotalOfSame
  <2> QED BY <2>3 DEF q, r
<1>4. Cardinality(Later') \in Nat /\ Cardinality(Later') <= Cardinality(Later) /\ Cardinality(Later) \in Nat
  <2>1. IsFiniteSet(Later)
    BY <1>1, FS_Subset DEF ReceiverBytes, Weighs
  <2> QED BY <1>1, <2>1, FS_Subset, FS_CardinalityType
<1> QED BY <1>2, <1>3, <1>4, ChannelAssumption DEF ReceiverBytes

\* Of what is held, what comes after the expected message and nothing else
\* counts: that message may use what is reserved for it.
LEMMA DataBytes ==
    ASSUME ChannelInv, ReceiverBytes, NEW p, ReceiveData(p)
    PROVE  ReceiverBytes'
<1> DEFINE part == [f \in {p.fragment} |-> p.of]
           now == CASE Reception(p) = "Held" ->
                            [incoming EXCEPT ![p.seq].parts = Merged(@, part)]
                    [] Reception(p) = "New" ->
                            Merged(incoming, [s \in {p.seq} |-> [of |-> p.of, parts |-> part]])
                    [] OTHER -> incoming
           run == Run(now)
<1>1. /\ Reception(p) \in {"Held", "Retired", "New"} /\ incoming' = now
      /\ bufferedBytes' = IF Reception(p) = "New" THEN bufferedBytes + Accounted[p.of]
                               ELSE bufferedBytes
      /\ nextReceive' = IF MaxSequence \in run THEN MaxSequence ELSE nextReceive + Cardinality(run)
  BY DEF ReceiveData
<1>2. /\ p.of \in Message /\ p.seq \in 1 .. Len(accepted) /\ Len(accepted) \in Nat
      /\ nextReceive \in 1 .. MaxSequence /\ MaxSequence \in Nat /\ Len(accepted) <= MaxSequence
  <2>1. Genuine(p)
    BY DEF ReceiveData, ChannelInv, Travelling
  <2> QED BY <2>1, Sizes DEF Genuine, ChannelInv, Numbers, Sequence
<1>3. DOMAIN incoming \subseteq 1 .. Len(accepted)
  <2>1. DOMAIN incoming \subseteq Len(taken) + 1 .. Len(accepted) /\ Len(taken) \in Nat
    BY Sizes DEF ChannelInv, Receiving
  <2> QED BY <1>2, <2>1
<1>4. nextReceive' \in Nat /\ nextReceive <= nextReceive'
  <2>1. run \subseteq nextReceive .. MaxSequence
    <3>1. DOMAIN now \subseteq 1 .. MaxSequence
      BY <1>1, <1>2, <1>3 DEF Merged
    <3> HIDE DEF now
    <3> QED BY <1>2, <3>1 DEF Run
  <2> HIDE DEF run
  <2>2. Cardinality(run) \in Nat
    <3>1. nextReceive \in Int /\ MaxSequence \in Int
      BY <1>2
    <3> QED BY <2>1, <3>1, IntervalCount
  <2> QED BY <1>1, <1>2, <2>2
<1>5. Weighs(incoming) /\ TotalOf(incoming) \in Nat /\ MaxBufferedBytes \in Nat /\ Reservation \in Nat
      /\ Window \in Nat
  BY TotalOfNat, ChannelAssumption DEF ReceiverBytes
<1>6. CASE Reception(p) # "New"
  <2>1. /\ DOMAIN incoming' = DOMAIN incoming /\ bufferedBytes' = bufferedBytes
        /\ \A s \in DOMAIN incoming : incoming'[s].of = incoming[s].of
    BY <1>1, <1>6
  <2>2. TotalOf(incoming') = TotalOf(incoming) /\ Weighs(incoming')
    BY <1>5, <2>1, TotalOfSame
  <2>3. Later' \subseteq Later /\ \A s \in Later' : incoming'[s].of = incoming[s].of
    BY <1>2, <1>3, <1>4, <2>1 DEF Later
  <2>4. /\ TotalOf(Restricted(incoming', Later')) <= MaxBufferedBytes - Reservation
        /\ Cardinality(Later') < Window
    BY <2>2, <2>3, LaterShrinks
  <2> QED BY <2>1, <2>2, <2>4 DEF ReceiverBytes
<1>7. CASE Reception(p) = "New"
  <2>1. /\ p.seq \notin DOMAIN incoming /\ p.seq >= nextReceive /\ Room(p)
    BY <1>2, <1>7 DEF Reception
  <2>2. /\ DOMAIN incoming' = DOMAIN incoming \union {p.seq}
        /\ incoming'[p.seq].of = p.of /\ bufferedBytes' = bufferedBytes + Accounted[p.of]
        /\ \A s \in DOMAIN incoming : incoming'[s].of = incoming[s].of
    BY <1>1, <1>7, <2>1 DEF Merged
  <2>3. TotalOf(incoming') = TotalOf(incoming) + Accounted[p.of] /\ Weighs(incoming')
    BY <1>2, <1>5, <2>1, <2>2, TotalOfAdd
  <2>4. Accounted[p.of] \in Nat /\ Accounted[p.of] <= MaxBufferedBytes - bufferedBytes
    BY <1>2, <1>5, <2>1, ChannelAssumption DEF Room, ReceiverBytes
  <2>5. bufferedBytes' = TotalOf(incoming') /\ bufferedBytes' <= MaxBufferedBytes
    BY <1>5, <2>2, <2>3, <2>4 DEF ReceiverBytes
  <2>6. CASE p.seq > nextReceive
    <3>1. /\ Cardinality(DOMAIN incoming) + 1 < Window
          /\ Accounted[p.of] <= MaxBufferedBytes - Reservation - bufferedBytes
      BY <2>1, <2>6 DEF Room
    <3>2. Later' \in SUBSET DOMAIN incoming'
      BY DEF Later
    <3>3. Cardinality(Later') < Window
      <4>1. IsFiniteSet(DOMAIN incoming) /\ Cardinality(DOMAIN incoming) \in Nat
        BY <1>5, FS_CardinalityType DEF Weighs
      <4>2. Cardinality(DOMAIN incoming') = Cardinality(DOMAIN incoming) + 1 /\ IsFiniteSet(DOMAIN incoming')
        <5>1. /\ IsFiniteSet(DOMAIN incoming \union {p.seq})
              /\ Cardinality(DOMAIN incoming \union {p.seq}) = Cardinality(DOMAIN incoming) + 1
          BY <2>1, <4>1, FS_AddElement
        <5> QED BY <2>2, <5>1
      <4>3. Cardinality(Later') \in Nat /\ Cardinality(Later') <= Cardinality(DOMAIN incoming')
        BY <3>2, <4>2, FS_Subset, FS_CardinalityType
      <4> QED BY <1>5, <3>1, <4>1, <4>2, <4>3
    <3>4. /\ TotalOf(Restricted(incoming', Later')) \in Nat
          /\ TotalOf(Restricted(incoming', Later')) <= TotalOf(incoming')
      <4>1. Later' \in SUBSET Later'
        OBVIOUS
      <4> QED BY <2>3, <3>2, <4>1, TotalOfPart
    <3>5. TotalOf(Restricted(incoming', Later')) <= MaxBufferedBytes - Reservation
      BY <1>5, <2>3, <2>4, <3>1, <3>4 DEF ReceiverBytes
    <3> QED BY <2>3, <2>5, <3>3, <3>5 DEF ReceiverBytes
  <2>7. CASE ~(p.seq > nextReceive)
    <3>1. p.seq = nextReceive
      BY <1>2, <2>1, <2>7
    <3>2. Later' \subseteq Later /\ \A s \in Later' : incoming'[s].of = incoming[s].of
      BY <1>2, <1>3, <1>4, <2>2, <3>1 DEF Later
    <3>3. /\ TotalOf(Restricted(incoming', Later')) <= MaxBufferedBytes - Reservation
          /\ Cardinality(Later') < Window
      BY <2>3, <3>2, LaterShrinks
    <3> QED BY <2>3, <2>5, <3>3 DEF ReceiverBytes
  <2> QED BY <2>6, <2>7
<1> QED BY <1>6, <1>7

LEMMA TakeBytes ==
    ASSUME ChannelInv, ReceiverBytes, TakeDelivered
    PROVE  ReceiverBytes'
<1> DEFINE gone == {ready[i] : i \in 1 .. Len(ready)}
<1>1. /\ incoming' = Restricted(incoming, DOMAIN incoming \ gone)
      /\ bufferedBytes' = bufferedBytes - TotalOf(Restricted(incoming, gone))
      /\ nextReceive' = nextReceive
  BY DEF TakeDelivered
<1>2. gone \in SUBSET DOMAIN incoming
  <2>1. \A i \in 1 .. Len(ready) : ready[i] \in Len(taken) + 1 .. Received
    BY Sizes DEF ChannelInv, Delivering, Numbers
  <2> QED BY <2>1 DEF ChannelInv, Receiving
<1> HIDE DEF gone
<1>3. /\ TotalOf(Restricted(incoming, gone)) \in Nat
      /\ TotalOf(Restricted(incoming, DOMAIN incoming \ gone)) \in Nat
      /\ TotalOf(incoming) = TotalOf(Restricted(incoming, gone))
                             + TotalOf(Restricted(incoming, DOMAIN incoming \ gone))
  BY <1>2, TotalOfSplit DEF ReceiverBytes
<1>4. Weighs(incoming')
  <2>1. DOMAIN incoming \ gone \in SUBSET DOMAIN incoming
    OBVIOUS
  <2> QED BY <1>1, <2>1, WeighsPart DEF ReceiverBytes
<1>5. /\ DOMAIN incoming' \subseteq DOMAIN incoming
      /\ \A s \in DOMAIN incoming' : incoming'[s].of = incoming[s].of
  BY <1>1 DEF Restricted
<1>6. Later' \subseteq Later /\ \A s \in Later' : incoming'[s].of = incoming[s].of
  BY <1>1, <1>5 DEF Later
<1>7. /\ TotalOf(Restricted(incoming', Later')) <= MaxBufferedBytes - Reservation
      /\ Cardinality(Later') < Window
  BY <1>4, <1>6, LaterShrinks
<1> QED BY <1>1, <1>3, <1>4, <1>7, ChannelAssumption DEF ReceiverBytes

LEMMA StepBytes == ChannelInv /\ ChannelInv' /\ Bytes /\ [Next]_vars => Bytes'
<1> SUFFICES ASSUME ChannelInv, ChannelInv', Bytes, [Next]_vars PROVE SenderBytes' /\ ReceiverBytes'
  BY DEF Bytes, SenderBytes, ReceiverBytes
<1>0. SenderBytes /\ ReceiverBytes
  BY DEF Bytes, SenderBytes, ReceiverBytes
<1>1. ASSUME Poll \/ Tick PROVE SenderBytes' /\ ReceiverBytes'
  <2>1. UNCHANGED <<incoming, bufferedBytes, nextReceive>>
    BY <1>1 DEF Poll, Tick, receiverVars
  <2> QED BY <1>0, <1>1, <2>1, SentBytes, ReceiverBytesKept
<1>2. ASSUME NEW m \in load.offered[nextSend], Queue(m), UNCHANGED load PROVE SenderBytes' /\ ReceiverBytes'
  <2>1. UNCHANGED <<incoming, bufferedBytes, nextReceive>>
    BY <1>2 DEF Queue, receiverVars
  <2> QED BY <1>0, <1>2, <2>1, QueueBytes, ReceiverBytesKept
<1>3. ASSUME NEW p \in Packet, ReceiveData(p) PROVE SenderBytes' /\ ReceiverBytes'
  <2>1. UNCHANGED <<pending, queuedBytes>>
    BY <1>3 DEF ReceiveData, senderVars
  <2> QED BY <1>0, <1>3, <2>1, DataBytes, SenderBytesKept
<1>4. ASSUME NEW p \in Packet, ReceiveAck(p) PROVE SenderBytes' /\ ReceiverBytes'
  <2>1. UNCHANGED <<incoming, bufferedBytes, nextReceive>>
    BY <1>4 DEF ReceiveAck, receiverVars
  <2> QED BY <1>0, <1>4, <2>1, AckBytes, ReceiverBytesKept
<1>5. ASSUME TakeDelivered PROVE SenderBytes' /\ ReceiverBytes'
  <2>1. UNCHANGED <<pending, queuedBytes>>
    BY <1>5 DEF TakeDelivered, senderVars
  <2> QED BY <1>0, <1>5, <2>1, TakeBytes, SenderBytesKept
<1>6. ASSUME UNCHANGED <<senderVars, receiverVars>> PROVE SenderBytes' /\ ReceiverBytes'
  <2>1. UNCHANGED <<pending, queuedBytes>> /\ UNCHANGED <<incoming, bufferedBytes, nextReceive>>
    BY <1>6 DEF senderVars, receiverVars
  <2> QED BY <1>0, <2>1, SenderBytesKept, ReceiverBytesKept
<1>7. ASSUME NEW p \in Packet, LoseData(p) \/ LoseAck(p) PROVE UNCHANGED <<senderVars, receiverVars>>
  BY <1>7 DEF LoseData, LoseAck
<1>8. ASSUME UNCHANGED vars PROVE UNCHANGED <<senderVars, receiverVars>>
  BY <1>8 DEF vars
<1> QED BY <1>1, <1>2, <1>3, <1>4, <1>5, <1>6, <1>7, <1>8 DEF Next, Sender, Network

LEMMA NoneIsEmpty ==
    ASSUME NEW f, f = [s \in DOMAIN f |-> f[s]], DOMAIN f = {}
    PROVE  f = <<>>
OBVIOUS

\* The order in which poll walks is linear, so there is a first fragment and a
\* last one among those it looks at.
Walk == {q \in Slots \X Slots : WalkedBefore(q[1], q[2])}

LEMMA SlotsAre ==
    ASSUME ChannelInv
    PROVE  /\ IsFiniteSet(Slots)
           /\ \A x \in Slots : /\ x = [seq |-> x.seq, fragment |-> x.fragment]
                               /\ x.seq \in DOMAIN pending /\ x.seq \in Sequence
                               /\ x.fragment \in FragmentsOf(pending[x.seq].of) /\ x.fragment \in Nat \ {0}
<1>1. \A s \in DOMAIN pending : pending[s].of \in Message /\ s \in Sequence
  <2>1. \A s \in DOMAIN pending : s \in 1 .. Len(accepted) /\ pending[s].of = accepted[s]
    BY DEF ChannelInv, Sending, RecordOf
  <2>2. Len(accepted) \in Nat /\ Len(accepted) <= MaxSequence /\ MaxSequence \in Nat
        /\ \A s \in 1 .. Len(accepted) : accepted[s] \in Message
    BY Sizes DEF ChannelInv, Numbers
  <2> QED BY <2>1, <2>2 DEF Sequence
<1>2. \A s \in DOMAIN pending : Fragments[pending[s].of] \in Nat
  BY <1>1, ChannelAssumption
<1>3. IsFiniteSet(DOMAIN pending)
  <2>1. DOMAIN pending \subseteq 1 .. Len(accepted) /\ Len(accepted) \in Int
    BY Sizes DEF ChannelInv, Sending
  <2> QED BY <2>1, IntervalCount
<1>4. IsFiniteSet(Slots)
  <2> DEFINE Of(s) == {[seq |-> s, fragment |-> f] : f \in FragmentsOf(pending[s].of)}
             parts == [s \in DOMAIN pending |-> Of(s)]
             Parts == {parts[s] : s \in DOMAIN pending}
  <2>1. IsFiniteSet(Parts)
    <3> HIDE DEF parts
    <3> QED BY <1>3, ImageIsFinite
  <2>2. ASSUME NEW s \in DOMAIN pending PROVE IsFiniteSet(Of(s))
    <3>1. IsFiniteSet(FragmentsOf(pending[s].of))
      BY <1>2, FS_Interval DEF FragmentsOf
    <3> DEFINE g == [f \in FragmentsOf(pending[s].of) |-> [seq |-> s, fragment |-> f]]
    <3>2. Of(s) = {g[f] : f \in FragmentsOf(pending[s].of)}
      OBVIOUS
    <3> HIDE DEF g
    <3> QED BY <3>1, <3>2, ImageIsFinite
  <2>3. IsFiniteSet(UNION Parts)
    <3>1. \A P \in Parts : IsFiniteSet(P)
      BY <2>2
    <3> HIDE DEF Parts
    <3> QED BY <2>1, <3>1, FS_UNION
  <2>4. Parts = {Of(s) : s \in DOMAIN pending}
    OBVIOUS
  <2> QED BY <2>3, <2>4 DEF Slots
<1> QED BY <1>1, <1>2, <1>4 DEF Slots, FragmentsOf

LEMMA WalkIsLinear ==
    ASSUME ChannelInv, Shapes
    PROVE  /\ \A x, y \in Slots : x # y => <<x, y>> \in Walk \/ <<y, x>> \in Walk
           /\ \A x, y, z \in Slots : <<x, y>> \in Walk /\ <<y, z>> \in Walk => <<x, z>> \in Walk
           /\ \A x \in Slots : <<x, x>> \notin Walk
<1>1. \A x \in Slots : /\ x = [seq |-> x.seq, fragment |-> x.fragment]
                       /\ x.seq \in Nat /\ x.fragment \in Nat /\ Ahead(x) \in BOOLEAN
  BY SlotsAre DEF Sequence, Ahead, Before
<1>2. \A x, y \in Slots : x # y => Before(x, y) \/ Before(y, x)
  BY <1>1 DEF Before
<1>3. \A x, y, z \in Slots : Before(x, y) /\ Before(y, z) => Before(x, z)
  BY <1>1 DEF Before
<1>4. \A x \in Slots : ~Before(x, x)
  BY <1>1 DEF Before
<1>5. \A x, y \in Slots : <<x, y>> \in Walk <=> (IF Ahead(x) = Ahead(y) THEN Before(x, y) ELSE Ahead(x))
  BY DEF Walk, WalkedBefore
<1> QED BY <1>1, <1>2, <1>3, <1>4, <1>5

LEMMA LastIsInspected ==
    ASSUME ChannelInv, Shapes, pending # <<>>
    PROVE  LastInspected \in Slots
<1>1. Slots # {}
  <2>1. DOMAIN pending # {}
    BY NoneIsEmpty DEF Shapes
  <2>2. PICK s : s \in DOMAIN pending
    BY <2>1
  <2>3. pending[s].of = accepted[s] /\ accepted[s] \in Message
    BY <2>2, Sizes DEF ChannelInv, Sending, RecordOf
  <2>4. 1 \in FragmentsOf(pending[s].of)
    BY <2>3, ChannelAssumption DEF FragmentsOf
  <2>5. \A f \in FragmentsOf(pending[s].of) : [seq |-> s, fragment |-> f] \in Slots
    BY <2>2 DEF Slots
  <2> QED BY <2>4, <2>5
<1> DEFINE Back == {q \in Slots \X Slots : <<q[2], q[1]>> \in Walk}
<1>2. \A x, y \in Slots : <<x, y>> \in Back <=> <<y, x>> \in Walk
  OBVIOUS
<1>3. PICK first \in Slots : \A y \in Slots \ {first} : <<y, first>> \in Back
  <2>1. /\ \A x, y \in Slots : x # y => <<x, y>> \in Back \/ <<y, x>> \in Back
        /\ \A x, y, z \in Slots : <<x, y>> \in Back /\ <<y, z>> \in Back => <<x, z>> \in Back
    BY <1>2, WalkIsLinear
  <2> HIDE DEF Back
  <2>2. IsFiniteSet(Slots)
    BY SlotsAre
  <2>3. \E x \in Slots : \A y \in Slots \ {x} : <<y, x>> \in Back
    BY <1>1, <2>1, <2>2, LastOne
  <2> QED BY <2>3
<1>4. {y \in Slots : WalkedBefore(y, first)} = {}
  <2> SUFFICES ASSUME NEW y \in Slots, WalkedBefore(y, first) PROVE FALSE
    OBVIOUS
  <2>1. <<y, first>> \in Walk
    BY DEF Walk
  <2>2. y # first
    BY <2>1, WalkIsLinear
  <2>3. <<first, y>> \in Walk
    BY <1>2, <1>3, <2>2
  <2>4. <<y, y>> \in Walk
    BY <2>1, <2>3, WalkIsLinear
  <2> QED BY <2>4, WalkIsLinear
<1>5. first \in Inspected
  BY <1>4, FS_EmptySet, ChannelAssumption DEF Inspected
<1>6. Inspected \subseteq Slots /\ IsFiniteSet(Inspected) /\ Inspected # {}
  BY <1>5, SlotsAre, FS_Subset DEF Inspected
<1>7. \E x \in Inspected : \A y \in Inspected \ {x} : <<y, x>> \in Walk
  <2>1. /\ \A x, y \in Inspected : x # y => <<x, y>> \in Walk \/ <<y, x>> \in Walk
        /\ \A x, y, z \in Inspected : <<x, y>> \in Walk /\ <<y, z>> \in Walk => <<x, z>> \in Walk
    BY <1>6, WalkIsLinear
  <2> QED BY <1>6, <2>1, LastOne
<1>8. \E x \in Inspected : \A y \in Inspected \ {x} : WalkedBefore(y, x)
  BY <1>7 DEF Walk
<1>9. LastInspected \in Inspected
  BY <1>8 DEF LastInspected
<1> QED BY <1>6, <1>9

LEMMA CursorMoves ==
    ASSUME ChannelInv, Shapes, pending # <<>>
    PROVE  After(LastInspected) \in [seq : Sequence, fragment : Nat \ {0}]
<1> DEFINE x == LastInspected
<1>1. /\ x = [seq |-> x.seq, fragment |-> x.fragment] /\ x.seq \in DOMAIN pending
      /\ x.seq \in Sequence /\ x.fragment \in Nat \ {0}
  BY LastIsInspected, SlotsAre
<1>2. MaxSequence \in Nat \ {0}
  BY ChannelAssumption
<1> HIDE DEF x
<1>3. CASE x.fragment < Fragments[pending[x.seq].of]
  <2>1. After(x) = [seq |-> x.seq, fragment |-> x.fragment + 1]
    BY <1>1, <1>3 DEF After
  <2> QED BY <1>1, <2>1 DEF x
<1>4. CASE ~(x.fragment < Fragments[pending[x.seq].of]) /\ x.seq = MaxSequence
  <2> DEFINE least == CHOOSE s \in DOMAIN pending : \A t \in DOMAIN pending : s <= t
  <2>1. After(x) = [seq |-> least, fragment |-> 1]
    BY <1>4 DEF After
  <2>2. DOMAIN pending \subseteq 1 .. Len(accepted) /\ Len(accepted) \in Nat /\ Len(accepted) <= MaxSequence
    BY Sizes DEF ChannelInv, Sending, Numbers
  <2>3. \E s \in DOMAIN pending : \A t \in DOMAIN pending : s <= t
    <3>1. PICK s \in DOMAIN pending : \A t \in DOMAIN pending : ~ (<<t, s>> \in Less)
      <4>1. DOMAIN pending \subseteq Nat /\ DOMAIN pending # {}
        BY <1>1, <2>2
      <4> QED BY <4>1, LessIsWellFounded, WFMin
    <3>2. \A t \in DOMAIN pending : s <= t
      <4>1. \A t \in DOMAIN pending : t \in Nat
        BY <2>2
      <4> SUFFICES ASSUME NEW t \in DOMAIN pending PROVE s <= t
        OBVIOUS
      <4>2. s \in Nat /\ t \in Nat /\ <<t, s>> \notin Less
        BY <3>1, <4>1
      <4> QED BY <4>2 DEF Less
    <3> QED BY <3>2
  <2>4. least \in Sequence
    BY <1>2, <2>2, <2>3 DEF Sequence
  <2> HIDE DEF least
  <2> QED BY <2>1, <2>4 DEF x
<1>5. CASE ~(x.fragment < Fragments[pending[x.seq].of]) /\ x.seq # MaxSequence
  <2>1. After(x) = [seq |-> x.seq + 1, fragment |-> 1]
    BY <1>5 DEF After
  <2> QED BY <1>1, <1>2, <1>5, <2>1 DEF x, Sequence
<1> QED BY <1>3, <1>4, <1>5

LEMMA ShapesAtInit == Init => Shapes
<1> SUFFICES ASSUME Init PROVE Shapes
  OBVIOUS
<1>1. DOMAIN pending = {} /\ DOMAIN senderHistory = {} /\ data = {} /\ acks = {}
      /\ pending = [s \in DOMAIN pending |-> pending[s]]
      /\ senderHistory = [s \in DOMAIN senderHistory |-> senderHistory[s]]
  BY DEF Init
<1>2. cursor \in [seq : Sequence, fragment : Nat \ {0}]
  BY ChannelAssumption DEF Init, Sequence
<1> QED BY <1>1, <1>2 DEF Shapes

LEMMA QueueShapes ==
    ASSUME ChannelInv, Shapes, NEW m, Queue(m)
    PROVE  Shapes'
<1> DEFINE new == [of |-> m, sent |-> {}, acknowledged |-> {}, wait |-> [f \in FragmentsOf(m) |-> 0]]
<1>1. /\ UNCHANGED <<cursor, senderHistory, data, acks>>
      /\ pending' = Merged(pending, [s \in {nextSend} |-> new])
  BY DEF Queue
<1>2. /\ DOMAIN pending' = DOMAIN pending \union {nextSend}
      /\ pending' = [s \in DOMAIN pending' |-> pending'[s]]
      /\ \A s \in DOMAIN pending' : pending'[s] = IF s = nextSend THEN new ELSE pending[s]
  BY <1>1 DEF Merged
<1>3. /\ new.acknowledged \subseteq new.sent
      /\ new.wait \in [FragmentsOf(new.of) -> 0 .. RetryMs]
  BY ChannelAssumption
<1> HIDE DEF new
<1>4. \A s \in DOMAIN pending' :
        /\ pending'[s].acknowledged \subseteq pending'[s].sent
        /\ pending'[s].wait \in [FragmentsOf(pending'[s].of) -> 0 .. RetryMs]
  BY <1>2, <1>3 DEF Shapes
<1> QED BY <1>1, <1>2, <1>4 DEF Shapes

LEMMA PollShapes ==
    ASSUME ChannelInv, ChannelInv', Shapes, Poll
    PROVE  Shapes'
<1>1. UNCHANGED <<accepted, senderHistory, acks>> /\ DOMAIN pending' = DOMAIN pending
      /\ pending' = [s \in DOMAIN pending' |-> pending'[s]] /\ pending # <<>>
      /\ cursor' = After(LastInspected)
  BY DEF Poll
<1>2. \A s \in DOMAIN pending : pending[s] \in RecordOf(accepted[s]) /\ pending'[s] \in RecordOf(accepted[s])
  BY <1>1 DEF ChannelInv, Sending
<1>3. ASSUME NEW s \in DOMAIN pending
      PROVE  /\ pending'[s].acknowledged \subseteq pending'[s].sent
             /\ pending'[s].wait \in [FragmentsOf(pending'[s].of) -> 0 .. RetryMs]
  <2> DEFINE now == {x.fragment : x \in {x \in Sent : x.seq = s}}
             old == pending[s]
             waits == [f \in DOMAIN old.wait |-> IF f \in now THEN RetryMs ELSE old.wait[f]]
             new == [old EXCEPT !.sent = old.sent \union now, !.wait = waits]
  <2>1. pending'[s] = new
    BY DEF Poll
  <2>2. old \in RecordOf(accepted[s])
    BY <1>2
  <2>3. old.acknowledged \subseteq old.sent /\ old.wait \in [FragmentsOf(old.of) -> 0 .. RetryMs]
    BY DEF Shapes
  <2>4. waits \in [FragmentsOf(old.of) -> 0 .. RetryMs]
    <3> HIDE DEF now, old
    <3> QED BY <2>3, ChannelAssumption
  <2> HIDE DEF now, old, waits
  <2>5. new.acknowledged = old.acknowledged /\ new.of = old.of /\ new.wait = waits
        /\ new.sent = old.sent \union now
    BY <2>2 DEF RecordOf
  <2> HIDE DEF new
  <2> QED BY <2>1, <2>3, <2>4, <2>5
<1>4. data' \subseteq Packet
  <2>1. \A x \in Sent : /\ x.seq \in Sequence /\ pending[x.seq].of \in Message
                        /\ x.fragment \in FragmentsOf(pending[x.seq].of)
    <3>1. \A s \in DOMAIN pending : pending[s].of \in Message
      BY <1>2, Sizes DEF RecordOf, ChannelInv, Sending
    <3> QED BY <3>1, SlotsAre DEF Sent, Inspected
  <2>2. ASSUME NEW x \in Sent
        PROVE  [seq |-> x.seq, of |-> pending[x.seq].of, fragment |-> x.fragment] \in Packet
    BY <2>1 DEF Packet
  <2>3. data' = data \union
            {[seq |-> x.seq, of |-> pending[x.seq].of, fragment |-> x.fragment] : x \in Sent}
    BY DEF Poll
  <2> QED BY <2>2, <2>3 DEF Shapes
<1>5. cursor' \in [seq : Sequence, fragment : Nat \ {0}]
  BY <1>1, CursorMoves
<1> QED BY <1>1, <1>3, <1>4, <1>5 DEF Shapes

LEMMA TickShapes ==
    ASSUME ChannelInv, Shapes, Tick
    PROVE  Shapes'
<1>1. UNCHANGED <<cursor, senderHistory, data, acks>> /\ DOMAIN pending' = DOMAIN pending
      /\ pending' = [s \in DOMAIN pending' |-> pending'[s]]
  BY DEF Tick
<1>2. ASSUME NEW s \in DOMAIN pending
      PROVE  /\ pending'[s].acknowledged \subseteq pending'[s].sent
             /\ pending'[s].wait \in [FragmentsOf(pending'[s].of) -> 0 .. RetryMs]
  <2> DEFINE old == pending[s]
             waits == [f \in DOMAIN old.wait |-> IF old.wait[f] = 0 THEN 0 ELSE old.wait[f] - 1]
             new == [old EXCEPT !.wait = waits]
  <2>1. pending'[s] = new
    BY DEF Tick
  <2>2. old \in RecordOf(accepted[s])
    BY DEF ChannelInv, Sending
  <2>3. old.acknowledged \subseteq old.sent /\ old.wait \in [FragmentsOf(old.of) -> 0 .. RetryMs]
    BY DEF Shapes
  <2>4. waits \in [FragmentsOf(old.of) -> 0 .. RetryMs]
    <3> HIDE DEF old
    <3> QED BY <2>3, ChannelAssumption
  <2> HIDE DEF old, waits
  <2>5. new.acknowledged = old.acknowledged /\ new.of = old.of /\ new.wait = waits
        /\ new.sent = old.sent
    BY <2>2 DEF RecordOf
  <2> HIDE DEF new
  <2> QED BY <2>1, <2>3, <2>4, <2>5
<1> QED BY <1>1, <1>2 DEF Shapes

LEMMA AckShapes ==
    ASSUME ChannelInv, Shapes, NEW a, ReceiveAck(a)
    PROVE  Shapes'
<1> DEFINE now == [pending EXCEPT ![a.seq].acknowledged = @ \union {a.fragment}]
           gone == Retired(now)
           old == pending[a.seq]
           new == [old EXCEPT !.acknowledged = old.acknowledged \union {a.fragment}]
<1>1. /\ pending' = Restricted(now, DOMAIN now \ gone)
      /\ senderHistory' = Newest(Merged(senderHistory, [s \in gone |-> now[s].of]))
      /\ UNCHANGED <<cursor, data, acks>> /\ a.seq \in DOMAIN pending
      /\ a.fragment \in old.sent
  BY DEF ReceiveAck
<1>2. \A s \in DOMAIN pending : /\ pending[s] \in RecordOf(accepted[s]) /\ accepted[s] \in Message
                                /\ pending[s].acknowledged \subseteq pending[s].sent
                                /\ pending[s].wait \in [FragmentsOf(pending[s].of) -> 0 .. RetryMs]
  BY Sizes DEF ChannelInv, Sending, Shapes
<1>3. DOMAIN now = DOMAIN pending /\ now[a.seq] = new
      /\ \A s \in DOMAIN pending : s # a.seq => now[s] = pending[s]
  BY <1>1
<1>4. gone \in SUBSET DOMAIN now
  BY DEF Retired
<1> HIDE DEF now, gone
<1>5. old \in RecordOf(accepted[a.seq])
  BY <1>1, <1>2
<1>6. new.acknowledged = old.acknowledged \union {a.fragment} /\ new.of = old.of
      /\ new.wait = old.wait /\ new.sent = old.sent
  <2> HIDE DEF old
  <2> QED BY <1>5 DEF RecordOf
<1>7. \A s \in DOMAIN pending : /\ now[s].of \in Message
                                /\ now[s].acknowledged \subseteq now[s].sent
                                /\ now[s].wait \in [FragmentsOf(now[s].of) -> 0 .. RetryMs]
  <2> SUFFICES ASSUME NEW s \in DOMAIN pending
               PROVE  /\ now[s].of \in Message
                      /\ now[s].acknowledged \subseteq now[s].sent
                      /\ now[s].wait \in [FragmentsOf(now[s].of) -> 0 .. RetryMs]
    OBVIOUS
  <2>1. /\ pending[s].of \in Message
        /\ pending[s].acknowledged \subseteq pending[s].sent
        /\ pending[s].wait \in [FragmentsOf(pending[s].of) -> 0 .. RetryMs]
    BY <1>2 DEF RecordOf
  <2>2. CASE s = a.seq
    <3> HIDE DEF new
    <3> QED BY <1>1, <1>3, <1>6, <2>1, <2>2
  <2>3. CASE s # a.seq
    BY <1>3, <2>1, <2>3
  <2> QED BY <2>2, <2>3
<1>8. /\ DOMAIN pending' \subseteq DOMAIN pending
      /\ pending' = [s \in DOMAIN pending' |-> pending'[s]]
      /\ \A s \in DOMAIN pending' : pending'[s] = now[s]
  BY <1>1, <1>3 DEF Restricted
<1>9. senderHistory' \in [DOMAIN senderHistory' -> Message]
  <2> DEFINE all == Merged(senderHistory, [s \in gone |-> now[s].of])
  <2>1. \A s \in DOMAIN all : all[s] \in Message
    BY <1>3, <1>4, <1>7 DEF Merged, Shapes
  <2> HIDE DEF all
  <2>2. Newest(all) \in [DOMAIN Newest(all) -> Message]
    BY <2>1 DEF Newest, Restricted
  <2> QED BY <1>1, <2>2 DEF all
<1> QED BY <1>1, <1>7, <1>8, <1>9 DEF Shapes

LEMMA StepShapes == ChannelInv /\ ChannelInv' /\ Shapes /\ [Next]_vars => Shapes'
<1> SUFFICES ASSUME ChannelInv, ChannelInv', Shapes, [Next]_vars PROVE Shapes'
  OBVIOUS
<1>1. ASSUME NEW p \in Packet, ReceiveData(p) PROVE Shapes'
  <2>1. UNCHANGED <<pending, cursor, senderHistory, data>> /\ acks' = acks \union {p}
    BY <1>1 DEF ReceiveData, senderVars
  <2> QED BY <2>1 DEF Shapes
<1>2. ASSUME NEW p \in Packet, LoseData(p) \/ LoseAck(p) PROVE Shapes'
  <2>1. UNCHANGED <<pending, cursor, senderHistory>> /\ data' \subseteq data /\ acks' \subseteq acks
    BY <1>2 DEF LoseData, LoseAck, senderVars
  <2> QED BY <2>1 DEF Shapes
<1>3. ASSUME UNCHANGED <<pending, cursor, senderHistory, data, acks>> PROVE Shapes'
  BY <1>3 DEF Shapes
<1>4. ASSUME TakeDelivered PROVE UNCHANGED <<pending, cursor, senderHistory, data, acks>>
  BY <1>4 DEF TakeDelivered, senderVars
<1>5. ASSUME UNCHANGED vars PROVE UNCHANGED <<pending, cursor, senderHistory, data, acks>>
  BY <1>5 DEF vars, senderVars
<1> QED BY <1>1, <1>2, <1>3, <1>4, <1>5, QueueShapes, PollShapes, TickShapes, AckShapes
        DEF Next, Sender, Network

LEMMA ChannelTyped == Spec => [](ChannelInv /\ Bytes /\ Shapes)
<1>1. Init => ChannelInv /\ Bytes /\ Shapes
  BY InitChannel, BytesAtInit, ShapesAtInit
<1>2. (ChannelInv /\ Bytes /\ Shapes) /\ [Next]_vars => (ChannelInv /\ Bytes /\ Shapes)'
  BY NextChannel, StepBytes, StepShapes
<1> QED BY <1>1, <1>2, PTL DEF Spec

\* Every variable of the channel keeps its type: the sequence, the poll cursor
\* and what is held stay in their ranges, and neither byte count exceeds its
\* budget or falls below zero (m_queuedBytes, m_bufferedBytes).
THEOREM ChannelTypeCorrect == Spec => []TypeOK
<1>1. ChannelInv /\ Bytes /\ Shapes => TypeOK
  <2> SUFFICES ASSUME ChannelInv, Bytes, Shapes PROVE TypeOK
    OBVIOUS
  <2>1. \A s, held : s \in 1 .. Len(accepted) /\ held \in HeldOf(accepted[s]) => HeldType(held)
    BY Sizes DEF ChannelInv, HeldOf, HeldType
  <2>2. /\ DOMAIN pending \subseteq Sequence /\ DOMAIN incoming \subseteq Sequence
        /\ \A s \in DOMAIN incoming : HeldType(incoming[s])
        /\ \A s \in DOMAIN receiverHistory : HeldType(receiverHistory[s])
    <3>1. /\ Len(accepted) \in Nat /\ Len(taken) \in Nat /\ Len(taken) <= Len(accepted)
          /\ Len(accepted) <= MaxSequence /\ MaxSequence \in Nat
      BY Sizes DEF ChannelInv, Numbers
    <3>2. /\ DOMAIN pending \subseteq 1 .. Len(accepted)
          /\ DOMAIN incoming \subseteq 1 .. Len(accepted)
          /\ DOMAIN receiverHistory \subseteq 1 .. Len(accepted)
      BY <3>1 DEF ChannelInv, Sending, Receiving, Delivering
    <3>3. /\ \A s \in DOMAIN incoming : incoming[s] \in HeldOf(accepted[s])
          /\ \A s \in DOMAIN receiverHistory : receiverHistory[s] \in HeldOf(accepted[s])
      BY DEF ChannelInv, Receiving, Delivering
    <3> QED BY <2>1, <3>1, <3>2, <3>3 DEF Sequence
  <2>3. \A s \in DOMAIN pending : /\ pending[s].of \in Message
                                  /\ pending[s].sent \subseteq FragmentsOf(pending[s].of)
    BY Sizes DEF ChannelInv, Sending, RecordOf
  <2>4. ready \in Seq(DOMAIN incoming)
    <3>1. \A i \in 1 .. Len(ready) : ready[i] \in Len(taken) + 1 .. Received
      BY Sizes DEF ChannelInv, Delivering, Numbers
    <3>2. \A i \in 1 .. Len(ready) : ready[i] \in DOMAIN incoming
      BY <3>1 DEF ChannelInv, Receiving
    <3> QED BY <3>2 DEF ChannelInv, Numbers
  <2>5. queuedBytes \in 0 .. MaxQueuedBytes /\ bufferedBytes \in 0 .. MaxBufferedBytes
    BY TotalOfNat, ChannelAssumption DEF Bytes, SenderBytes, ReceiverBytes
  <2>6. /\ accepted \in Seq(Message) /\ nextSend \in Sequence /\ sendExhausted \in BOOLEAN
        /\ nextReceive \in Sequence /\ receiveExhausted \in BOOLEAN
    BY DEF ChannelInv, Numbers
  <2> QED BY <2>2, <2>3, <2>4, <2>5, <2>6 DEF TypeOK, Shapes
<1> QED BY <1>1, ChannelTyped, PTL

\* A receiver that was drained has room for the message it expects, whatever it
\* holds of later ones: they were let in only beside the reservation
\* (receiveData, m_expectedReservation).
THEOREM DrainedReceiverHasRoom == Spec => []ExpectedFits
<1>1. ChannelInv /\ Bytes => ExpectedFits
  <2> SUFFICES ASSUME ChannelInv, Bytes, ready = <<>>, nextReceive \notin DOMAIN incoming,
                      ~receiveExhausted, NEW m \in Message
               PROVE  Room([seq |-> nextReceive, of |-> m, fragment |-> 1])
    BY DEF ExpectedFits
  <2>1. /\ Len(taken) = nextReceive - 1 /\ nextReceive \in Nat /\ Len(accepted) \in Nat
    BY Sizes DEF ChannelInv, Numbers, Received, Sequence
  <2>2. Later = DOMAIN incoming
    <3>1. DOMAIN incoming \subseteq Len(taken) + 1 .. Len(accepted)
      BY DEF ChannelInv, Receiving
    <3>2. \A s \in DOMAIN incoming : s \in Int /\ s > nextReceive
      BY <2>1, <3>1
    <3> QED BY <3>2 DEF Later
  <2>3. TotalOf(Restricted(incoming, Later)) = bufferedBytes
    <3>1. Restricted(incoming, Later) = [s \in DOMAIN incoming |-> incoming[s]]
      BY <2>2 DEF Restricted
    <3>2. TotalOf(Restricted(incoming, Later)) = TotalOf(incoming)
      <4> DEFINE r == Restricted(incoming, Later)
      <4>1. DOMAIN r = DOMAIN incoming /\ \A s \in DOMAIN incoming : r[s].of = incoming[s].of
        BY <3>1
      <4> HIDE DEF r
      <4>2. TotalOf(r) = TotalOf(incoming)
        BY <4>1, TotalOfSame DEF Bytes, SenderBytes, ReceiverBytes
      <4> QED BY <4>2 DEF r
    <3> QED BY <3>2 DEF Bytes, SenderBytes, ReceiverBytes
  <2>4. bufferedBytes \in Nat /\ bufferedBytes <= MaxBufferedBytes - Reservation
        /\ Cardinality(DOMAIN incoming) < Window
    BY <2>2, <2>3, TotalOfNat DEF Bytes, SenderBytes, ReceiverBytes
  <2> DEFINE p == [seq |-> nextReceive, of |-> m, fragment |-> 1]
  <2>5. Accounted[m] <= MaxBufferedBytes - bufferedBytes
    BY <2>4, ChannelAssumption
  <2>6. p.seq = nextReceive /\ p.of = m
    OBVIOUS
  <2> HIDE DEF p
  <2>7. Room(p)
    BY <2>1, <2>4, <2>5, <2>6 DEF Room
  <2> QED BY <2>7 DEF p
<1> QED BY <1>1, ChannelTyped, PTL

=============================================================================
