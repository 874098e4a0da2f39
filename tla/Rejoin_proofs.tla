----------------------------- MODULE Rejoin_proofs -----------------------------
(***************************************************************************)
(* What RelayLogFetch joined is the beginning of the relay's log, for every*)
(* chunk size, window and run-ahead, while the log grows and whatever order*)
(* the answers come in, however often.  And for a player who restarts once:*)
(* it runs every frame with the commands the others ran it with, and goes  *)
(* by the join frame they take it back at.  The invariant says whose       *)
(* commands a frame has by what the log tells of it: the drops, the REJOIN,*)
(* and the frames each incarnation announced.                              *)
(***************************************************************************)
EXTENDS Rejoin, InductionLemmas, SequenceTheorems

\* The positions a fetch has of a log of n records: its first ones, and of an
\* early chunk those from its offset on.
Beginnings(n) == {b \in Seq(Nat) : Len(b) <= n /\ \A i \in 1 .. Len(b) : b[i] = i}

Chunks(off, n) ==
    {c \in Seq(Nat) : /\ Len(c) = 0 \/ off + Len(c) <= n
                      /\ \A i \in 1 .. Len(c) : c[i] = off + i}

FetchOf(f, n) ==
    /\ f.relaySize \in 0 .. n
    /\ f.bytes \in Beginnings(n)
    /\ DOMAIN f.early \subseteq 0 .. n
    /\ \A off \in DOMAIN f.early : f.early[off] \in Chunks(off, n)
    /\ DOMAIN f.asks \subseteq 0 .. n

IsLog(l) == \E S : l \in Seq(S)

FetchInv == IsLog(log) /\ FetchOf(fetch, Len(log))

-----------------------------------------------------------------------------
\* The greatest and the least of a few numbers.

LEMMA MaxOfFinite ==
    ASSUME NEW S, IsFiniteSet(S), S # {}, S \subseteq Nat
    PROVE  Max(S) \in S /\ \A y \in S : y <= Max(S)
<1>1. PICK x \in S : \A y \in S : y <= x
  BY GreatestOne
<1>2. \E z \in S : \A y \in S : z >= y
  BY <1>1
<1>3. Max(S) \in S /\ \A y \in S : Max(S) >= y
  BY <1>2 DEF Max
<1>4. \A y \in S : y \in Nat
  OBVIOUS
<1> QED BY <1>3, <1>4

LEMMA MaxIsMost ==
    ASSUME NEW n \in Nat, NEW S \in SUBSET (0 .. n), S # {}
    PROVE  Max(S) \in S /\ \A y \in S : y <= Max(S)
<1>1. IsFiniteSet(S) /\ S \subseteq Nat
  <2>1. IsFiniteSet(0 .. n)
    BY FS_Interval
  <2>2. IsFiniteSet(S)
    BY <2>1, FS_Subset
  <2> QED BY <2>2
<1> QED BY <1>1, MaxOfFinite

LEMMA MinIsLeast ==
    ASSUME NEW S \in SUBSET Nat, S # {}
    PROVE  Min(S) \in S /\ \A y \in S : Min(S) <= y
<1>1. PICK x \in S : \A y \in S : ~ (<<y, x>> \in Less)
  BY LessIsWellFounded, WFMin
<1>2. ASSUME NEW y \in S PROVE x <= y
  <2>1. x \in Nat /\ y \in Nat
    BY <1>1
  <2>2. y < x => <<y, x>> \in Less
    BY <2>1 DEF Less
  <2> QED BY <1>1, <2>1, <2>2
<1>3. \E z \in S : \A y \in S : z <= y
  BY <1>2
<1> QED BY <1>3 DEF Min

LEMMA MaxOfTwo ==
    ASSUME NEW a \in Int, NEW b \in Int
    PROVE  Max({a, b}) = IF a >= b THEN a ELSE b
BY DEF Max

LEMMA MinOfTwo ==
    ASSUME NEW a \in Int, NEW b \in Int
    PROVE  Min({a, b}) = IF a <= b THEN a ELSE b
BY DEF Min

-----------------------------------------------------------------------------
\* One step of the fetch.

LEMMA ChunkFits ==
    ASSUME NEW n \in Nat, NEW size \in 0 .. n, NEW off \in Nat
    PROVE  ChunkOf(off, size) \in Chunks(off, n)
<1> DEFINE k == Max({0, Min({Chunk, size - off})})
           c == ChunkOf(off, size)
<1>1. Chunk \in Nat /\ size - off \in Int
  BY RejoinAssumption
<1>2. Min({Chunk, size - off}) = IF Chunk <= size - off THEN Chunk ELSE size - off
  BY <1>1, MinOfTwo
<1>3. Min({Chunk, size - off}) \in Int /\ Min({Chunk, size - off}) <= size - off
  BY <1>1, <1>2
<1>4. k = IF 0 >= Min({Chunk, size - off}) THEN 0 ELSE Min({Chunk, size - off})
  BY <1>3, MaxOfTwo
<1>5. k \in Nat /\ (k = 0 \/ k <= size - off)
  BY <1>3, <1>4
<1>6. c = [i \in 1 .. k |-> off + i]
  BY DEF ChunkOf
<1> HIDE DEF k, c
<1>7. c \in Seq(Nat)
  BY <1>5, <1>6, SeqDef
<1>8. Len(c) = k
  BY <1>5, <1>6, <1>7, LenProperties
<1>9. c \in Chunks(off, n)
  BY <1>1, <1>5, <1>6, <1>7, <1>8 DEF Chunks
<1> QED BY <1>9 DEF c

\* An early chunk at the end of what was joined goes on with it.
LEMMA ChunkJoins ==
    ASSUME NEW n \in Nat, NEW b \in Beginnings(n), NEW c \in Chunks(Len(b), n)
    PROVE  b \o c \in Beginnings(n)
<1> DEFINE r == b \o c
<1>1. b \in Seq(Nat) /\ c \in Seq(Nat) /\ Len(b) \in Nat /\ Len(c) \in Nat
  BY DEF Beginnings, Chunks
<1>2. /\ r \in Seq(Nat) /\ Len(r) = Len(b) + Len(c)
      /\ \A i \in 1 .. Len(b) + Len(c) : r[i] = IF i <= Len(b) THEN b[i] ELSE c[i - Len(b)]
  BY <1>1, ConcatProperties
<1> HIDE DEF r
<1>3. ASSUME NEW i \in 1 .. Len(r) PROVE r[i] = i
  <2>1. CASE i <= Len(b)
    <3>1. i \in 1 .. Len(b) /\ r[i] = b[i]
      BY <1>1, <1>2, <2>1
    <3> QED BY <3>1 DEF Beginnings
  <2>2. CASE i > Len(b)
    <3>1. i - Len(b) \in 1 .. Len(c)
      BY <1>1, <1>2, <2>2
    <3>2. c[i - Len(b)] = Len(b) + (i - Len(b))
      BY <3>1 DEF Chunks
    <3>3. r[i] = c[i - Len(b)] /\ Len(b) + (i - Len(b)) = i
      BY <1>1, <1>2, <2>2
    <3> QED BY <3>2, <3>3
  <2>3. i \in Int /\ Len(b) \in Int
    BY <1>1, <1>2
  <2> QED BY <2>1, <2>2, <2>3
<1>4. Len(r) <= n
  BY <1>1, <1>2 DEF Beginnings, Chunks
<1> QED BY <1>2, <1>3, <1>4 DEF Beginnings, r

LEMMA JoinedSteps ==
    ASSUME NEW bytes, NEW early, IsFiniteSet(DOMAIN early)
    PROVE  /\ Joined(bytes, early)[0] = bytes
           /\ \A m \in 1 .. Cardinality(DOMAIN early) :
                LET b == Joined(bytes, early)[m - 1] IN
                Joined(bytes, early)[m] = IF Len(b) \in DOMAIN early THEN b \o early[Len(b)] ELSE b
<1> DEFINE N == Cardinality(DOMAIN early)
           More(b) == IF Len(b) \in DOMAIN early THEN b \o early[Len(b)] ELSE b
           Steps(n, g) == g = [m \in 0 .. n |-> IF m = 0 THEN bytes ELSE More(g[m - 1])]
           T == {n \in Nat : \E g : Steps(n, g)}
<1>0. N \in Nat
  BY FS_CardinalityType
<1>1. 0 \in T
  <2> DEFINE g == [m \in 0 .. 0 |-> bytes]
  <2>1. Steps(0, g)
    OBVIOUS
  <2> QED BY <2>1
<1>2. ASSUME NEW n \in Nat, n \in T PROVE n + 1 \in T
  <2>1. PICK g : Steps(n, g)
    BY <1>2
  <2> HIDE DEF More
  <2> DEFINE h == [m \in 0 .. n + 1 |-> IF m = n + 1 THEN More(g[n]) ELSE g[m]]
  <2>2. \A m \in 0 .. n + 1 : h[m] = IF m = 0 THEN bytes ELSE More(h[m - 1])
    BY <2>1
  <2> DEFINE k == [m \in 0 .. n + 1 |-> IF m = 0 THEN bytes ELSE More(h[m - 1])]
  <2>3. h = k
    BY <2>2
  <2> HIDE DEF h
  <2>4. Steps(n + 1, h)
    BY <2>3
  <2> QED BY <2>4
<1> HIDE DEF T
<1>3. N \in T
  BY <1>0, <1>1, <1>2, SetInduction
<1>4. Steps(N, Joined(bytes, early))
  <2>1. \E g : Steps(N, g)
    BY <1>3 DEF T
  <2> QED BY <2>1 DEF Joined
<1>5. /\ Joined(bytes, early)[0] = bytes
      /\ \A m \in 1 .. N : Joined(bytes, early)[m] = More(Joined(bytes, early)[m - 1])
  <2> HIDE DEF More, N
  <2> QED BY <1>0, <1>4
<1> QED BY <1>5

LEMMA PrefixJoined ==
    ASSUME NEW n \in Nat, NEW bytes \in Beginnings(n), NEW early, DOMAIN early \subseteq 0 .. n,
           \A off \in DOMAIN early : early[off] \in Chunks(off, n)
    PROVE  Contiguous(bytes, early) \in Beginnings(n)
<1> DEFINE N == Cardinality(DOMAIN early)
           j == Joined(bytes, early)
<1>1. IsFiniteSet(DOMAIN early) /\ N \in Nat
  <2>1. IsFiniteSet(0 .. n)
    BY FS_Interval
  <2> QED BY <2>1, FS_Subset, FS_CardinalityType
<1>2. j[0] \in Beginnings(n)
  BY <1>1, JoinedSteps
<1>3. ASSUME NEW m \in 1 .. N, j[m - 1] \in Beginnings(n) PROVE j[m] \in Beginnings(n)
  <2> DEFINE b == j[m - 1]
  <2>1. j[m] = IF Len(b) \in DOMAIN early THEN b \o early[Len(b)] ELSE b
    BY <1>1, JoinedSteps
  <2> HIDE DEF j, b
  <2>2. b \in Beginnings(n)
    BY <1>3 DEF b
  <2>3. CASE Len(b) \in DOMAIN early
    <3>1. early[Len(b)] \in Chunks(Len(b), n)
      BY <2>3
    <3>2. b \o early[Len(b)] \in Beginnings(n)
      BY <2>2, <3>1, ChunkJoins
    <3> QED BY <2>1, <2>3, <3>2
  <2> QED BY <2>1, <2>2, <2>3
<1> HIDE DEF j, N
<1>4. \A m \in 0 .. N : j[m] \in Beginnings(n)
  BY <1>1, <1>2, <1>3, UpTo
<1>5. j[N] \in Beginnings(n)
  BY <1>1, <1>4
<1> QED BY <1>5 DEF Contiguous, j, N

LEMMA AsksWithin ==
    ASSUME NEW n \in Nat, NEW have \in 0 .. n, NEW size \in 0 .. n
    PROVE  Asked(have, size) \subseteq 0 .. n
<1>1. \A i \in 0 .. Window - 1 : i * Chunk \in Nat
  BY RejoinAssumption
<1>2. ASSUME NEW off \in Asked(have, size) PROVE off \in 0 .. n
  <2>1. PICK i \in 0 .. Window - 1 : off = have + i * Chunk
    BY DEF Asked
  <2>2. off < size \/ off = have
    BY DEF Asked
  <2>3. off \in Nat
    BY <1>1, <2>1
  <2> QED BY <2>2, <2>3
<1> QED BY <1>2

LEMMA FetchKeeps ==
    ASSUME NEW n \in Nat, n = Len(log), FetchOf(fetch, n), NEW sizes \in Arrivals
    PROVE  FetchOf(Fetched(sizes), n)
<1> DEFINE S == {fetch.relaySize} \cup {sizes[off] : off \in DOMAIN sizes}
           size == Max(S)
           late == {o \in DOMAIN sizes : o >= Len(fetch.bytes)}
           arrived == [off \in late |-> ChunkOf(off, sizes[off])]
           early == [off \in DOMAIN arrived \cup DOMAIN fetch.early |->
                        IF off \in DOMAIN arrived THEN arrived[off] ELSE fetch.early[off]]
           bytes == Contiguous(fetch.bytes, early)
           have == Len(bytes)
           asked == {off \in DOMAIN fetch.asks : off >= have}
<1>1. /\ DOMAIN sizes \subseteq 0 .. n
      /\ \A off \in DOMAIN sizes : sizes[off] \in 0 .. n
  BY DEF Arrivals, FetchOf
<1>2. size \in 0 .. n
  <2>1. S \in SUBSET (0 .. n) /\ S # {}
    BY <1>1 DEF FetchOf
  <2> HIDE DEF S
  <2>2. Max(S) \in S
    BY <2>1, MaxIsMost
  <2> QED BY <2>1, <2>2
<1>3. \A off \in late : off \in 0 .. n /\ ChunkOf(off, sizes[off]) \in Chunks(off, n)
  BY <1>1, ChunkFits
<1>4. /\ DOMAIN early \subseteq 0 .. n
      /\ \A off \in DOMAIN early : early[off] \in Chunks(off, n)
  <2>1. DOMAIN arrived = late /\ \A off \in late : arrived[off] \in Chunks(off, n)
    BY <1>3
  <2>2. /\ DOMAIN fetch.early \subseteq 0 .. n
        /\ \A off \in DOMAIN fetch.early : fetch.early[off] \in Chunks(off, n)
    BY DEF FetchOf
  <2> HIDE DEF arrived, late
  <2> QED BY <1>3, <2>1, <2>2
<1> HIDE DEF S, size, arrived, late, early
<1>5. bytes \in Beginnings(n)
  <2>1. fetch.bytes \in Beginnings(n)
    BY DEF FetchOf
  <2> QED BY <1>4, <2>1, PrefixJoined
<1> HIDE DEF bytes
<1>6. have \in 0 .. n
  BY <1>5 DEF Beginnings
<1> HIDE DEF have
<1>7. Asked(have, size) \subseteq 0 .. n /\ asked \subseteq 0 .. n
  BY <1>2, <1>6, AsksWithin DEF FetchOf
<1>8. /\ DOMAIN Kept(early, have) \subseteq DOMAIN early
      /\ \A off \in DOMAIN Kept(early, have) : Kept(early, have)[off] = early[off]
  BY DEF Kept, Restrict
<1>9. Fetched(sizes) =
        [relaySize |-> size,
         bytes |-> bytes,
         early |-> Kept(early, have),
         asks |-> [off \in asked \cup Asked(have, size) |->
                       IF off \in asked THEN fetch.asks[off] ELSE Len(log)]]
  BY Zenon DEF Fetched, have, bytes, early, arrived, late, size, S
<1> HIDE DEF asked
<1>10. /\ Fetched(sizes).relaySize = size /\ Fetched(sizes).bytes = bytes
       /\ Fetched(sizes).early = Kept(early, have)
       /\ DOMAIN Fetched(sizes).asks = asked \cup Asked(have, size)
  BY <1>9
<1> QED BY <1>2, <1>4, <1>5, <1>7, <1>8, <1>10, Zenon DEF FetchOf

\* A longer log still begins with what was fetched.
LEMMA LogGrows ==
    ASSUME FetchInv, NEW e, log' = Append(log, e), UNCHANGED fetch
    PROVE  FetchInv'
<1>1. PICK S : log \in Seq(S)
  BY DEF FetchInv, IsLog
<1> DEFINE T == S \cup {e}
<1>2. log \in Seq(T) /\ e \in T
  <2>1. log \in [1 .. Len(log) -> S] /\ Len(log) \in Nat
    BY <1>1
  <2>2. log \in [1 .. Len(log) -> T]
    BY <2>1
  <2> QED BY <2>1, <2>2, SeqDef
<1> HIDE DEF T
<1>3. /\ log' \in Seq(T) /\ Len(log) \in Nat /\ Len(log') = Len(log) + 1
  BY <1>2
<1>4. FetchOf(fetch, Len(log) + 1)
  <2> DEFINE n == Len(log)
  <2>1. n \in Nat /\ 0 .. n \subseteq 0 .. n + 1
    BY <1>3
  <2> HIDE DEF n
  <2>2. Beginnings(n) \subseteq Beginnings(n + 1)
    BY <2>1 DEF Beginnings
  <2>3. \A off \in 0 .. n : Chunks(off, n) \subseteq Chunks(off, n + 1)
    BY <2>1 DEF Chunks
  <2>4. FetchOf(fetch, n)
    BY DEF FetchInv, n
  <2>5. FetchOf(fetch, n + 1)
    BY <2>1, <2>2, <2>3, <2>4 DEF FetchOf
  <2> QED BY <2>5 DEF n
<1> QED BY <1>3, <1>4 DEF FetchInv, IsLog

LEMMA NothingFetched ==
    ASSUME NEW n \in Nat
    PROVE  FetchOf(NoFetch, n)
<1>1. <<>> \in Seq(Nat) /\ Len(<<>>) = 0 /\ DOMAIN <<>> = {}
  OBVIOUS
<1>2. /\ NoFetch.relaySize = 0 /\ NoFetch.bytes = <<>>
      /\ NoFetch.early = <<>> /\ NoFetch.asks = <<>>
  BY DEF NoFetch
<1> QED BY <1>1, <1>2 DEF FetchOf, Beginnings

LEMMA FetchAtInit == Init => FetchInv
<1> SUFFICES ASSUME Init PROVE FetchInv
  OBVIOUS
<1>1. PICK a \in 0 .. RunAhead :
        log = [f \in 1 .. RunAhead + 1 |-> Info(f - 1, FALSE)] \o [f \in 1 .. a + 1 |-> OwnInfo(f - 1)]
  BY DEF Init
<1> DEFINE p == [f \in 1 .. RunAhead + 1 |-> Info(f - 1, FALSE)]
           q == [f \in 1 .. a + 1 |-> OwnInfo(f - 1)]
           S == {p[i] : i \in 1 .. RunAhead + 1} \cup {q[i] : i \in 1 .. a + 1}
<1>2. RunAhead + 1 \in Nat /\ a + 1 \in Nat
  BY RejoinAssumption
<1>3. p \in [1 .. RunAhead + 1 -> S] /\ q \in [1 .. a + 1 -> S]
  OBVIOUS
<1> HIDE DEF S
<1>4. log = p \o q
  BY <1>1
<1> HIDE DEF p, q
<1>5. log \in Seq(S) /\ Len(log) \in Nat
  <2>1. p \in Seq(S) /\ q \in Seq(S)
    BY <1>2, <1>3, SeqDef
  <2> QED BY <1>4, <2>1
<1>6. fetch = NoFetch
  BY DEF Init
<1> QED BY <1>5, <1>6, NothingFetched DEF FetchInv, IsLog

LEMMA FetchStep == FetchInv /\ [Next]_vars => FetchInv'
<1> SUFFICES ASSUME FetchInv, [Next]_vars PROVE FetchInv'
  OBVIOUS
<1>1. Len(log) \in Nat
  BY DEF FetchInv, IsLog
<1>2. ASSUME UNCHANGED <<log, fetch>> PROVE FetchInv'
  BY <1>2 DEF FetchInv, IsLog
<1>3. ASSUME NEW sizes \in Arrivals, fetch' = Fetched(sizes), UNCHANGED log PROVE FetchInv'
  <2>1. FetchOf(Fetched(sizes), Len(log))
    BY <1>1, FetchKeeps DEF FetchInv
  <2> QED BY <1>3, <2>1 DEF FetchInv, IsLog
<1>4. CASE Receive \/ Status \/ TakeBack \/ Hear \/ RunLive \/ UNCHANGED vars
  <2>1. UNCHANGED <<log, fetch>>
    BY <1>4 DEF Receive, Status, TakeBack, Hear, RunLive, vars
  <2> QED BY <1>2, <2>1
<1>5. CASE Drop \/ RunFrame \/ HandOver \/ Announce
  <2>1. UNCHANGED fetch /\ \E e : log' = Append(log, e)
    BY <1>5 DEF Drop, RunFrame, HandOver, Announce
  <2>2. PICK e : log' = Append(log, e)
    BY <2>1
  <2> QED BY <2>1, <2>2, LogGrows
<1>6. CASE Bind
  <2>1. fetch' = NoFetch /\ log' = Append(log, Rejoined(player.generation + 1))
    BY <1>6 DEF Bind
  <2>2. IsLog(log')
    <3>1. PICK S : log \in Seq(S)
      BY DEF FetchInv, IsLog
    <3>2. log \in [1 .. Len(log) -> S] /\ Len(log) \in Nat
      BY <3>1
    <3> DEFINE e == Rejoined(player.generation + 1)
               T == S \cup {e}
    <3>3. log \in [1 .. Len(log) -> T]
      BY <3>2
    <3>4. log \in Seq(T) /\ e \in T
      BY <3>2, <3>3, SeqDef
    <3> HIDE DEF T, e
    <3>5. Append(log, e) \in Seq(T)
      BY <3>4
    <3> QED BY <2>1, <3>5 DEF IsLog, e
  <2>3. Len(log') \in Nat
    BY <2>2 DEF IsLog
  <2>4. FetchOf(NoFetch, Len(log'))
    BY <2>3, NothingFetched
  <2> QED BY <2>1, <2>2, <2>4 DEF FetchInv, IsLog
<1>7. CASE Crash
  <2>1. fetch' = NoFetch /\ UNCHANGED log
    BY <1>7 DEF Crash
  <2> QED BY <1>1, <2>1, NothingFetched DEF FetchInv, IsLog
<1>8. ASSUME NEW sizes \in Arrivals, ReadTail(sizes) PROVE FetchInv'
  BY <1>3, <1>8 DEF ReadTail
<1>9. ASSUME NEW sizes \in Arrivals, NEW budget, CatchUp(sizes, budget) PROVE FetchInv'
  <2>1. UNCHANGED log /\ fetch' = RejoinStep(sizes, budget).fetch
    BY <1>9 DEF CatchUp
  <2>2. RejoinStep(sizes, budget).fetch = Fetched(sizes)
    BY DEF RejoinStep
  <2> QED BY <1>3, <2>1, <2>2
<1> QED BY <1>4, <1>5, <1>6, <1>7, <1>8, <1>9 DEF Next, Others, Client, Fetches

\* What the fetch joined is the beginning of the log the relay keeps, whatever
\* order the chunks of a growing log came in, how long each was and how often
\* it was asked for (RelayLogFetch::step).
THEOREM FetchedIsPrefix == Spec => []LogPrefix
<1>1. FetchInv => LogPrefix
  BY DEF FetchInv, IsLog, FetchOf, Beginnings, LogPrefix
<1> QED BY <1>1, FetchAtInit, FetchStep, PTL DEF Spec

-----------------------------------------------------------------------------
\* The log's records, one by one.

LEMMA NthOfOne ==
    ASSUME NEW x \in Int
    PROVE  Nth(1, {x}) = x
<1>1. {y \in {x} : y <= x} = {x}
  OBVIOUS
<1>2. Cardinality({x}) = 1
  BY FS_Singleton
<1> QED BY <1>1, <1>2 DEF Nth

-----------------------------------------------------------------------------
\* What one more record changes.

LEMMA PositionsGrow ==
    ASSUME NEW l, IsLog(l), NEW e, NEW kind
    PROVE  /\ Len(l) \in Nat /\ DOMAIN l = 1 .. Len(l)
           /\ \A i \in 1 .. Len(l) : Append(l, e)[i] = l[i]
           /\ Append(l, e)[Len(l) + 1] = e
           /\ Positions(kind, l) \subseteq 1 .. Len(l)
           /\ Positions(kind, Append(l, e)) =
                Positions(kind, l) \cup (IF e.kind = kind THEN {Len(l) + 1} ELSE {})
<1>1. PICK S : l \in Seq(S)
  BY DEF IsLog
<1>2. /\ Len(l) \in Nat /\ DOMAIN l = 1 .. Len(l)
      /\ DOMAIN Append(l, e) = 1 .. Len(l) + 1
      /\ \A i \in 1 .. Len(l) : Append(l, e)[i] = l[i]
      /\ Append(l, e)[Len(l) + 1] = e
  BY <1>1
<1> DEFINE L == Append(l, e)
<1> HIDE DEF L
<1>3. Positions(kind, l) = {i \in 1 .. Len(l) : l[i].kind = kind}
  BY <1>2 DEF Positions
<1>4. Positions(kind, L) = {i \in 1 .. Len(l) + 1 : L[i].kind = kind}
  BY <1>2 DEF Positions, L
<1>5. /\ \A i \in 1 .. Len(l) : L[i].kind = l[i].kind
      /\ L[Len(l) + 1].kind = e.kind
  BY <1>2 DEF L
<1>6. 1 .. Len(l) + 1 = 1 .. Len(l) \cup {Len(l) + 1}
  BY <1>2
<1>7. Positions(kind, L) = Positions(kind, l) \cup (IF e.kind = kind THEN {Len(l) + 1} ELSE {})
  BY <1>3, <1>4, <1>5, <1>6
<1> QED BY <1>2, <1>3, <1>7 DEF L

LEMMA FramesGrow ==
    ASSUME NEW l, IsLog(l), NEW e, NEW kind
    PROVE  FramesOf(kind, Append(l, e)) =
             FramesOf(kind, l) \cup (IF e.kind = kind THEN {e.frame} ELSE {})
<1> DEFINE L == Append(l, e)
<1> HIDE DEF L
<1>1. /\ Positions(kind, l) \subseteq 1 .. Len(l)
      /\ Positions(kind, L) = Positions(kind, l) \cup (IF e.kind = kind THEN {Len(l) + 1} ELSE {})
      /\ \A i \in 1 .. Len(l) : L[i].frame = l[i].frame
      /\ L[Len(l) + 1].frame = e.frame
  BY PositionsGrow DEF L
<1>2. \A i \in Positions(kind, l) : L[i].frame = l[i].frame
  BY <1>1
<1>3. FramesOf(kind, L) = FramesOf(kind, l) \cup (IF e.kind = kind THEN {e.frame} ELSE {})
  BY <1>1, <1>2 DEF FramesOf
<1> QED BY <1>3 DEF L

LEMMA RejoinsGrow ==
    ASSUME NEW l, IsLog(l), NEW e
    PROVE  Rejoins(Append(l, e)) =
             Rejoins(l) \cup (IF e.kind = "other" /\ e.rejoin THEN {e.frame} ELSE {})
<1> DEFINE L == Append(l, e)
<1> HIDE DEF L
<1>1. /\ Positions("other", l) \subseteq 1 .. Len(l)
      /\ Positions("other", L) =
            Positions("other", l) \cup (IF e.kind = "other" THEN {Len(l) + 1} ELSE {})
      /\ \A i \in 1 .. Len(l) : L[i] = l[i]
      /\ L[Len(l) + 1] = e
  BY PositionsGrow DEF L
<1>2. \A i \in Positions("other", l) : L[i].frame = l[i].frame /\ (L[i].rejoin <=> l[i].rejoin)
  BY <1>1
<1>3. L[Len(l) + 1].frame = e.frame /\ (L[Len(l) + 1].rejoin <=> e.rejoin)
  BY <1>1
<1>4. Rejoins(L) = Rejoins(l) \cup (IF e.kind = "other" /\ e.rejoin THEN {e.frame} ELSE {})
  BY <1>1, <1>2, <1>3 DEF Rejoins
<1> QED BY <1>4 DEF L

\* Own infos go to the incarnation of the last REJOINED record.
LEMMA OwnGrow ==
    ASSUME NEW l, IsLog(l), NEW e, NEW k
    PROVE  OwnFrames(Append(l, e), k) =
             OwnFrames(l, k) \cup
               (IF e.kind = "own" /\ Cardinality(Positions("rejoined", l)) = k - 1
                THEN {e.frame} ELSE {})
<1> DEFINE L == Append(l, e)
<1> HIDE DEF L
<1>1. /\ Len(l) \in Nat
      /\ Positions("own", l) \subseteq 1 .. Len(l) /\ Positions("rejoined", l) \subseteq 1 .. Len(l)
      /\ Positions("own", L) =
            Positions("own", l) \cup (IF e.kind = "own" THEN {Len(l) + 1} ELSE {})
      /\ Positions("rejoined", L) =
            Positions("rejoined", l) \cup (IF e.kind = "rejoined" THEN {Len(l) + 1} ELSE {})
      /\ \A i \in 1 .. Len(l) : L[i].frame = l[i].frame
      /\ L[Len(l) + 1].frame = e.frame
  BY PositionsGrow DEF L
<1> DEFINE Before(j) == {r \in Positions("rejoined", l) : r < j}
           After(j) == {r \in Positions("rejoined", L) : r < j}
<1>2. \A j \in 1 .. Len(l) : After(j) = Before(j)
  BY <1>1
<1>3. e.kind = "own" => After(Len(l) + 1) = Positions("rejoined", l)
  BY <1>1
<1>4. OwnFrames(l, k) = {l[i].frame : i \in {j \in Positions("own", l) : Cardinality(Before(j)) = k - 1}}
  BY DEF OwnFrames
<1>5. OwnFrames(L, k) = {L[i].frame : i \in {j \in Positions("own", L) : Cardinality(After(j)) = k - 1}}
  BY DEF OwnFrames
<1> HIDE DEF Before, After
<1>6. \A j \in Positions("own", l) : L[j].frame = l[j].frame /\ After(j) = Before(j)
  BY <1>1, <1>2
<1>7. OwnFrames(L, k) = OwnFrames(l, k) \cup
        (IF e.kind = "own" /\ Cardinality(Positions("rejoined", l)) = k - 1 THEN {e.frame} ELSE {})
  BY <1>1, <1>3, <1>4, <1>5, <1>6
<1> QED BY <1>7 DEF L

-----------------------------------------------------------------------------
\* What the log tells of the slot, and the invariant.

\* The frames the first process announced, and those the restarted one did.
Early == OwnFrames(log, 1)
Late == OwnFrames(log, 2)
Drops == FramesOf("drop", log)
Returns == Rejoins(log)
Said == other.frame + RunAhead

\* The others wait for the restarted process from the frame after the REJOIN's
\* on, until they drop it; whose commands frame g has by that.
Back(g) == \E r \in Returns : r < g
Out(g) == \E d \in Drops : d <= g
OutAgain(g) == \E r \in Returns, d \in Drops : r < d /\ d <= g
Fate(g) == IF Back(g) /\ ~OutAgain(g) THEN 1 ELSE IF Out(g) THEN Nobody ELSE 0

\* Frame g is run with v's commands, and no later record changes that: whoever
\* runs it announced it, or the frame is too far back for a REJOIN to come.
Settled(g, v) ==
    /\ v = Fate(g)
    /\ v = 1 => g \in Late
    /\ v = 0 => g \in Early
    /\ v = Nobody => g < Said

\* The others' records: one for each frame below said, in the frames' order,
\* and the REJOIN behind the REJOINED record.
InOrder(l, said, i) ==
    /\ l[i].frame \in 0 .. said - 1
    /\ \A g \in 0 .. l[i].frame - 1 :
          \E j \in Positions("other", l) : j < i /\ l[j].frame = g
    /\ \A j \in Positions("other", l) : l[j].frame = l[i].frame => j = i
    /\ l[i].rejoin => \E j \in Positions("rejoined", l) : j < i

OthersOf(l, said) ==
    /\ \A i \in Positions("other", l) : InOrder(l, said, i)
    /\ \A g \in 0 .. said - 1 : \E j \in Positions("other", l) : l[j].frame = g

OthersInv == OthersOf(log, Said)

\* The player's one restart.
RejoinedInv ==
    /\ player.generation = 0 => Positions("rejoined", log) = {}
    /\ player.generation = 1 =>
          \E p \in DOMAIN log : Positions("rejoined", log) = {p} /\ log[p].generation = 1

\* The others know of the process that is bound, and issue a REJOIN only for a
\* slot that was dropped and is not back yet.
OtherInv ==
    /\ other.frame \in Nat \ {0} /\ Said + 1 < Never /\ other.has \in Nat
    /\ player.generation \in 0 .. 1 /\ other.seen \in 0 .. player.generation
    /\ other.member \in 0 .. other.seen
    /\ \/ other.issued = Never
       \/ /\ other.issued \in other.frame .. Said /\ other.leave # Never
          /\ other.member = 0 /\ other.seen = 1
    /\ other.leave # Never => other.leave \in Drops /\ other.leave <= other.frame

\* While the first process is the member: it is dropped at most once, and only
\* the REJOIN on its way is in the log.
FirstInv ==
    other.member = 0 =>
        /\ other.join = 0
        /\ Returns = (IF other.issued # Never /\ other.issued < Said THEN {other.issued} ELSE {})
        /\ Drops = (IF other.leave = Never THEN {} ELSE {other.leave})
        /\ other.leave = Never => other.frame <= other.has
        /\ 0 .. other.has - 1 \subseteq Early

\* While the restarted process is the member.
SecondInv ==
    other.member = 1 =>
        /\ other.join \in 1 .. other.frame /\ Returns = {other.join - 1}
        /\ \E d \in Drops : d < other.join
        /\ {d \in Drops : d >= other.join} = (IF other.leave = Never THEN {} ELSE {other.leave})
        /\ other.has >= other.join /\ other.join .. other.has - 1 \subseteq Late

\* Each process announces its frames in their order, none behind its drop, and
\* the restarted one only behind its REJOIN.
OwnInv ==
    /\ Early \subseteq Nat /\ Late \subseteq Nat /\ Drops \subseteq Nat /\ Returns \subseteq Nat
    /\ \A g \in Early : 0 .. g \subseteq Early
    /\ \A g \in Early, d \in Drops : g < d
    /\ \A d \in Drops : (\A e \in Drops : d <= e) => 0 .. d - 1 \subseteq Early
    /\ \A g \in Late : \E r \in Returns : r < g /\ r + 1 .. g \subseteq Late
    /\ \A g \in Late, r \in Returns, d \in Drops : r < d => g < d
    /\ \A r \in Returns : \E d \in Drops : d <= r

\* The others ran every frame as the log tells it.
RanInv ==
    /\ DOMAIN other.ran = 1 .. other.frame
    /\ \A g \in 0 .. other.frame - 1 : Settled(g, other.ran[g + 1])

\* So did the player; it announces frames only once it is live.
PlayerInv ==
    /\ player.generation = 0 => player.state = "off" /\ Late = {}
    /\ Running =>
        /\ player.generation = 1 /\ player.frame \in Nat
        /\ DOMAIN player.ran = 1 .. player.frame
        /\ \A g \in 0 .. player.frame - 1 : Settled(g, player.ran[g + 1])
        /\ \A r \in Returns, d \in Drops : d <= r
    /\ player.state \in {"catching", "waiting"} => Late = {} /\ player.frame <= Said
    /\ player.state = "live" =>
        /\ player.join \in Nat \ {0} /\ player.announced \in Nat
        /\ Returns = {player.join - 1} /\ Late = player.join .. player.announced
        /\ player.join - 1 <= player.announced /\ player.join <= player.frame

PlayerStates == {"off", "catching", "waiting", "live", "failed"}

OtherType ==
    [frame : Nat, ran : Seq(Int), join : Nat, leave : Nat, has : Nat, member : Nat, seen : Nat,
     issued : Nat, handedOver : BOOLEAN, streamFrom : Nat]

PlayerType ==
    [state : PlayerStates, generation : Nat, frame : Nat, ran : Seq(Int), join : Nat,
     announced : Int, stream : Int, asked : Nat]

Types == other \in OtherType /\ player \in PlayerType

RestartInv ==
    /\ FetchInv /\ Types
    /\ OthersInv /\ RejoinedInv /\ OtherInv /\ FirstInv /\ SecondInv /\ OwnInv
    /\ RanInv /\ PlayerInv

-----------------------------------------------------------------------------
\* What the log's reader makes of a beginning of the log.

LEMMA OneReturn ==
    ASSUME OtherInv, FirstInv, SecondInv
    PROVE  \A r, s \in Returns : r = s
<1>1. other.member \in {0, 1}
  BY DEF OtherInv
<1>2. CASE other.member = 0
  BY <1>2 DEF FirstInv
<1>3. CASE other.member = 1
  BY <1>3 DEF SecondInv
<1> QED BY <1>1, <1>2, <1>3

\* An incarnation of these runs the frame unless it was dropped by then.
LEMMA RunsUnless ==
    ASSUME NEW P, FramesOf("drop", P) \subseteq Nat, NEW join \in Nat, NEW g \in Nat, g < Never
    PROVE  /\ g < End(P, join) => \A d \in FramesOf("drop", P) : join <= d => g < d
           /\ ~(g < End(P, join)) => \E d \in FramesOf("drop", P) : join <= d /\ d <= g
<1> DEFINE F == {d \in FramesOf("drop", P) : d >= join}
           E == F \cup {Never}
<1>1. E \in SUBSET Nat /\ Never \in Nat
  BY DEF Never
<1>2. End(P, join) = Min(E)
  BY DEF End
<1>3. End(P, join) \in E /\ \A y \in E : End(P, join) <= y
  <2> HIDE DEF E
  <2>1. E # {}
    BY DEF E
  <2> QED BY <1>1, <1>2, <2>1, MinIsLeast
<1>4. End(P, join) \in Nat
  BY <1>1, <1>3
<1>5. ASSUME g < End(P, join), NEW d \in FramesOf("drop", P), join <= d PROVE g < d
  <2>1. d \in E /\ d \in Nat
    BY <1>5
  <2> HIDE DEF E
  <2> QED BY <1>3, <1>4, <1>5, <2>1
<1>6. ASSUME ~(g < End(P, join)) PROVE \E d \in FramesOf("drop", P) : join <= d /\ d <= g
  <2>1. End(P, join) <= g
    BY <1>4, <1>6
  <2>2. End(P, join) \in F
    BY <1>1, <1>3, <2>1 DEF Never
  <2> QED BY <2>1, <2>2
<1> QED BY <1>5, <1>6

LEMMA MemberIs ==
    ASSUME NEW P, NEW n \in 1 .. 2, NEW joins, DOMAIN joins = 1 .. n, NEW g
    PROVE  /\ Member(P, joins, g) \in 0 .. n
           /\ \/ Member(P, joins, g) = 0
              \/ /\ joins[Member(P, joins, g)] <= g
                 /\ g < End(P, joins[Member(P, joins, g)])
           /\ Member(P, joins, g) = 0 =>
                \A j \in 1 .. n : ~(joins[j] <= g /\ g < End(P, joins[j]))
<1> DEFINE M == {i \in DOMAIN joins : joins[i] <= g /\ g < End(P, joins[i])}
           S == {0} \cup M
           k == Member(P, joins, g)
<1>1. k = Max(S)
  BY DEF Member
<1>2. S \in SUBSET (0 .. n) /\ S # {}
  OBVIOUS
<1>3. k \in S /\ \A y \in S : y <= k
  <2> HIDE DEF S, k
  <2>1. n \in Nat
    OBVIOUS
  <2> QED BY <1>1, <1>2, <2>1, MaxIsMost
<1> HIDE DEF k
<1>4. k \in 0 .. n
  BY <1>2, <1>3
<1>5. k = 0 \/ k \in M
  BY <1>3
<1>6. k = 0 => \A j \in 1 .. n : j \notin M
  BY <1>3
<1> QED BY <1>4, <1>5, <1>6 DEF k

LEMMA RejoinedOnce ==
    ASSUME OtherInv, RejoinedInv
    PROVE  \E R : /\ Positions("rejoined", log) = R /\ (R = {} \/ \E p \in DOMAIN log : R = {p})
                  /\ \A p \in R : log[p].generation = 1
                  /\ R = {} <=> player.generation = 0
<1>1. player.generation \in {0, 1}
  BY DEF OtherInv
<1> QED BY <1>1 DEF RejoinedInv

LEMMA Beginning ==
    ASSUME IsLog(log), OtherInv, RejoinedInv,
           NEW n \in 0 .. Len(log), NEW P, P = [i \in 1 .. n |-> log[i]]
    PROVE  /\ \A kind : Positions(kind, P) = {i \in Positions(kind, log) : i <= n}
           /\ \A kind : FramesOf(kind, P) \subseteq FramesOf(kind, log)
           /\ Rejoins(P) \subseteq Returns
           /\ OwnFrames(P, 1) \subseteq Early /\ OwnFrames(P, 2) \subseteq Late
<1>1. Len(log) \in Nat /\ DOMAIN log = 1 .. Len(log)
  BY DEF IsLog
<1>2. DOMAIN P = 1 .. n /\ \A i \in 1 .. n : P[i] = log[i]
  OBVIOUS
<1>3. 1 .. n = {i \in DOMAIN log : i <= n}
  BY <1>1
<1>4. ASSUME NEW kind PROVE Positions(kind, P) = {i \in Positions(kind, log) : i <= n}
  BY <1>2, <1>3 DEF Positions
<1>5. ASSUME NEW kind PROVE FramesOf(kind, P) \subseteq FramesOf(kind, log)
  <2>1. \A i \in Positions(kind, P) : i \in Positions(kind, log) /\ P[i].frame = log[i].frame
    BY <1>1, <1>2, <1>4 DEF Positions
  <2> QED BY <2>1 DEF FramesOf
<1>6. Rejoins(P) \subseteq Returns
  <2>1. \A i \in Positions("other", P) :
            /\ i \in Positions("other", log) /\ P[i].frame = log[i].frame
            /\ P[i].rejoin <=> log[i].rejoin
    BY <1>1, <1>2, <1>4 DEF Positions
  <2> QED BY <2>1 DEF Rejoins, Returns
<1>7. ASSUME NEW k PROVE OwnFrames(P, k) \subseteq OwnFrames(log, k)
  <2> DEFINE Here(j) == {r \in Positions("rejoined", P) : r < j}
             There(j) == {r \in Positions("rejoined", log) : r < j}
  <2>1. \A i \in Positions("own", P) : i \in Positions("own", log) /\ P[i].frame = log[i].frame
    BY <1>1, <1>2, <1>4 DEF Positions
  <2>2. \A j \in Positions("own", P) : Here(j) = There(j)
    <3>1. Positions("rejoined", log) \subseteq Int /\ Positions("own", log) \subseteq Int
      BY <1>1 DEF Positions
    <3> QED BY <1>4, <3>1
  <2>3. OwnFrames(P, k) = {P[i].frame : i \in {j \in Positions("own", P) : Cardinality(Here(j)) = k - 1}}
    BY DEF OwnFrames
  <2>4. OwnFrames(log, k) = {log[i].frame : i \in {j \in Positions("own", log) : Cardinality(There(j)) = k - 1}}
    BY DEF OwnFrames
  <2> HIDE DEF Here, There
  <2> QED BY <2>1, <2>2, <2>3, <2>4
<1> QED BY <1>4, <1>5, <1>6, <1>7 DEF Early, Late

\* One REJOINED record and one REJOIN at most: the incarnations of a beginning.
LEMMA JoinsAre ==
    ASSUME IsLog(log), OtherInv, RejoinedInv, FirstInv, SecondInv, OwnInv,
           NEW n \in 0 .. Len(log), NEW P, P = [i \in 1 .. n |-> log[i]]
    PROVE  /\ Incarnations(P) = IF Positions("rejoined", P) = {} THEN 1 ELSE 2
           /\ Generation(P, 1) = 0
           /\ Positions("rejoined", P) # {} => Generation(P, 2) = 1
           /\ DOMAIN Joins(P) =
                1 .. (IF Positions("rejoined", P) = {} \/ Rejoins(P) = {} THEN 1 ELSE 2)
           /\ Joins(P)[1] = 0
           /\ \A r \in Rejoins(P) : Positions("rejoined", P) # {} => Joins(P)[2] = r + 1
<1> DEFINE R == Positions("rejoined", P)
           T == Rejoins(P)
<1>1. R = {i \in Positions("rejoined", log) : i <= n} /\ T \subseteq Returns
  BY Beginning
<1>2. R = {} \/ \E p \in 1 .. n : R = {p} /\ P[p].generation = 1
  <2>1. DOMAIN log = 1 .. Len(log) /\ Len(log) \in Nat
    BY DEF IsLog
  <2>2. Positions("rejoined", log) = {} \/ \E p \in DOMAIN log :
            Positions("rejoined", log) = {p} /\ log[p].generation = 1
    BY RejoinedOnce
  <2> QED BY <1>1, <2>1, <2>2
<1>3. T = {} \/ \E r \in Nat : T = {r}
  <2>1. \A r, s \in T : r = s
    BY <1>1, OneReturn
  <2>2. T \subseteq Nat
    BY <1>1 DEF OwnInv
  <2> QED BY <2>1, <2>2
<1>4. Cardinality(R) = IF R = {} THEN 0 ELSE 1
  BY <1>2, FS_EmptySet, FS_Singleton
<1>5. Cardinality(T) = IF T = {} THEN 0 ELSE 1
  BY <1>3, FS_EmptySet, FS_Singleton
<1>6. Incarnations(P) = IF R = {} THEN 1 ELSE 2
  BY <1>4 DEF Incarnations
<1>7. R # {} => Generation(P, 2) = 1
  <2> SUFFICES ASSUME R # {} PROVE Generation(P, 2) = 1
    OBVIOUS
  <2>1. PICK p \in 1 .. n : R = {p} /\ P[p].generation = 1
    BY <1>2
  <2>2. Nth(2 - 1, R) = p
    BY <2>1, NthOfOne
  <2> QED BY <2>1, <2>2 DEF Generation
<1>8. Generation(P, 1) = 0
  BY DEF Generation
<1> DEFINE m == Min({Incarnations(P), 1 + Cardinality(T)})
<1>9. m = IF R = {} \/ T = {} THEN 1 ELSE 2
  <2>1. Incarnations(P) \in Int /\ 1 + Cardinality(T) \in Int
    BY <1>5, <1>6
  <2>2. m = IF Incarnations(P) <= 1 + Cardinality(T) THEN Incarnations(P) ELSE 1 + Cardinality(T)
    BY <2>1, MinOfTwo
  <2> HIDE DEF m, R, T
  <2> QED BY <1>5, <1>6, <2>2
<1>10. Joins(P) = [k \in 1 .. m |-> IF k = 1 THEN 0 ELSE 1 + Nth(k - 1, T)]
  BY DEF Joins
<1>11. \A r \in T : Nth(1, T) = r
  BY <1>3, NthOfOne
<1> HIDE DEF m, R, T
<1>12. DOMAIN Joins(P) = 1 .. (IF R = {} \/ T = {} THEN 1 ELSE 2)
  BY <1>9, <1>10
<1>13. Joins(P)[1] = 0
  BY <1>9, <1>10
<1>14. ASSUME NEW r \in T, R # {} PROVE Joins(P)[2] = r + 1
  <2>1. m = 2
    BY <1>9, <1>14
  <2>2. Joins(P)[2] = 1 + Nth(2 - 1, T)
    BY <1>10, <2>1
  <2>3. r \in Nat
    BY <1>3, <1>14
  <2> QED BY <1>11, <1>14, <2>2, <2>3
<1> QED BY <1>6, <1>7, <1>8, <1>12, <1>13, <1>14 DEF R, T

\* What the frame is complete with, and with whose commands it is run.
\* The parts of Assembled.
CompleteIn(P, f) ==
    LET k == Member(P, Joins(P), f)
    IN  f \in FramesOf("other", P) /\ (k # 0 => f \in OwnFrames(P, k))

RanBy(P, f) ==
    LET k == Member(P, Joins(P), f)
    IN  IF k = 0 THEN Nobody ELSE Generation(P, k)

LEMMA AssembledIs ==
    ASSUME NEW P
    PROVE  LET a == Assembled(P)
               complete == Min({f \in 0 .. Cardinality(FramesOf("other", P)) : ~CompleteIn(P, f)})
           IN  /\ a.complete = complete
               /\ a.ran = [f \in 1 .. complete |-> RanBy(P, f - 1)]
               /\ a.ours <=> Incarnations(P) >= 2
               /\ a.join = IF /\ Incarnations(P) \in DOMAIN Joins(P) \ {1}
                              /\ Joins(P)[Incarnations(P)] <= complete
                           THEN Joins(P)[Incarnations(P)] ELSE Never
BY Zenon DEF Assembled, CompleteIn, RanBy

LEMMA CompleteIs ==
    ASSUME NEW P, NEW s \in Nat, FramesOf("other", P) \subseteq 0 .. s - 1,
           NEW c, c = Assembled(P).complete
    PROVE  /\ c \in 0 .. s
           /\ \A g \in 0 .. c - 1 : CompleteIn(P, g)
           /\ ~CompleteIn(P, c)
<1> DEFINE F == FramesOf("other", P)
           U == {f \in 0 .. Cardinality(F) : ~CompleteIn(P, f)}
<1>1. c = Min(U)
  BY AssembledIs
<1>2. IsFiniteSet(F) /\ Cardinality(F) \in Nat /\ Cardinality(F) <= s
  <2>1. IsFiniteSet(0 .. s - 1) /\ Cardinality(0 .. s - 1) = s
    BY FS_Interval
  <2> QED BY <2>1, FS_Subset, FS_CardinalityType
<1>3. U # {}
  <2> SUFFICES ASSUME U = {} PROVE FALSE
    OBVIOUS
  <2>1. 0 .. Cardinality(F) \subseteq F
    BY DEF CompleteIn
  <2>2. Cardinality(0 .. Cardinality(F)) = Cardinality(F) + 1
    BY <1>2, FS_Interval
  <2>3. Cardinality(0 .. Cardinality(F)) <= Cardinality(F)
    BY <1>2, <2>1, FS_Subset
  <2> QED BY <1>2, <2>2, <2>3
<1>4. U \in SUBSET Nat
  BY <1>2
<1> HIDE DEF F
<1>5. c \in U /\ \A y \in U : c <= y
  <2> HIDE DEF U
  <2> QED BY <1>1, <1>3, <1>4, MinIsLeast
<1>6. ASSUME NEW g \in 0 .. c - 1 PROVE CompleteIn(P, g)
  <2>1. g \in 0 .. Cardinality(F) /\ ~(c <= g)
    BY <1>2, <1>4, <1>5
  <2> QED BY <1>5, <2>1
<1> QED BY <1>2, <1>5, <1>6

\* Whose commands the others run a frame with, and the log's reader.
LEMMA Read ==
    ASSUME FetchInv, OthersInv, RejoinedInv, OtherInv, FirstInv, SecondInv, OwnInv,
           NEW n \in 0 .. Len(log), NEW P, P = [i \in 1 .. n |-> log[i]],
           NEW a, a = Assembled(P)
    PROVE  /\ a.complete \in 0 .. Said
           /\ a.ran \in Seq(Int) /\ Len(a.ran) = a.complete
           /\ \A g \in 0 .. a.complete - 1 : Settled(g, a.ran[g + 1])
           /\ a.join # Never => a.join \in Nat \ {0} /\ a.join - 1 \in Returns
<1> DEFINE c == a.complete
           F == FramesOf("other", P)
           D == FramesOf("drop", P)
           J == Joins(P)
           R == Positions("rejoined", P)
           m == IF R = {} \/ Rejoins(P) = {} THEN 1 ELSE 2
<1>0. IsLog(log) /\ Len(log) \in Nat /\ DOMAIN log = 1 .. Len(log)
  BY DEF FetchInv, IsLog
<1>1. /\ \A kind : Positions(kind, P) = {i \in Positions(kind, log) : i <= n}
      /\ \A kind : FramesOf(kind, P) \subseteq FramesOf(kind, log)
      /\ Rejoins(P) \subseteq Returns
      /\ OwnFrames(P, 1) \subseteq Early /\ OwnFrames(P, 2) \subseteq Late
  BY <1>0, Beginning
<1>2. /\ Generation(P, 1) = 0
      /\ R # {} => Generation(P, 2) = 1
      /\ DOMAIN J = 1 .. m
      /\ J[1] = 0
      /\ \A r \in Rejoins(P) : R # {} => J[2] = r + 1
      /\ Incarnations(P) = IF R = {} THEN 1 ELSE 2
      /\ m \in {1, 2} /\ (m = 2 <=> R # {} /\ Rejoins(P) # {})
  <2>1. m \in {1, 2} /\ (m = 2 <=> R # {} /\ Rejoins(P) # {})
    <3>1. CASE R = {} \/ Rejoins(P) = {}
      <4>1. m = 1
        BY <3>1
      <4> QED BY <3>1, <4>1
    <3>2. CASE ~(R = {} \/ Rejoins(P) = {})
      <4>1. m = 2
        BY <3>2
      <4> QED BY <3>2, <4>1
    <3> QED BY <3>1, <3>2
  <2>2. /\ Generation(P, 1) = 0
        /\ R # {} => Generation(P, 2) = 1
        /\ DOMAIN J = 1 .. m
        /\ J[1] = 0
        /\ \A r \in Rejoins(P) : R # {} => J[2] = r + 1
        /\ Incarnations(P) = IF R = {} THEN 1 ELSE 2
    BY <1>0, JoinsAre
  <2> QED BY <2>1, <2>2
<1> HIDE DEF m, J
<1>3. Said \in Nat /\ Said < Never
  BY RejoinAssumption DEF OtherInv, Said, Never
<1>4. F \subseteq 0 .. Said - 1
  <2>1. FramesOf("other", log) \subseteq 0 .. Said - 1
    BY DEF FramesOf, OthersInv, OthersOf, InOrder
  <2> QED BY <1>1, <2>1
<1>5. c \in 0 .. Said /\ \A g \in 0 .. c - 1 : CompleteIn(P, g)
  BY <1>3, <1>4, CompleteIs
<1>6. Returns \subseteq Nat /\ D \subseteq Drops /\ Drops \subseteq Nat
  BY <1>1 DEF OwnInv, Drops
<1>7. m = 2 => \E r \in Returns : r \in Rejoins(P) /\ J[2] = r + 1
  BY <1>1, <1>2
<1>8. a.ran = [f \in 1 .. c |-> RanBy(P, f - 1)]
  BY AssembledIs
<1>9. ASSUME NEW g \in 0 .. c - 1
      PROVE  RanBy(P, g) \in Int /\ Settled(g, RanBy(P, g))
  <2> DEFINE k == Member(P, J, g)
  <2>1. g \in Nat /\ g < Never /\ g < Said
    BY <1>3, <1>5 DEF Never
  <2>2. CompleteIn(P, g)
    BY <1>5
  <2>3. /\ k \in 0 .. m
        /\ k # 0 => J[k] <= g
        /\ k = 0 => \A j \in 1 .. m : J[j] <= g => \E d \in D : J[j] <= d /\ d <= g
        /\ k = 0 \/ k = 1 \/ k = 2
    <3>1. m \in 1 .. 2 /\ m \in {1, 2}
      <4>1. m \in {1, 2}
        BY <1>2
      <4> QED BY <4>1
    <3>2. DOMAIN J = 1 .. m
      BY <1>2
    <3> HIDE DEF k
    <3>3. k = Member(P, J, g)
      BY DEF k
    <3>4. /\ k \in 0 .. m
          /\ k = 0 \/ (J[k] <= g /\ g < End(P, J[k]))
          /\ k = 0 => \A j \in 1 .. m : ~(J[j] <= g /\ g < End(P, J[j]))
      BY ONLY <3>1, <3>2, <3>3, MemberIs
    <3>5. \A j \in 1 .. m : J[j] \in Nat
      <4>1. m = 2 => J[2] \in Nat
        BY <1>6, <1>7
      <4>2. \A j \in 1 .. m : j = 1 \/ (j = 2 /\ m = 2)
        BY <1>2
      <4> QED BY <1>2, <4>1, <4>2
    <3>6. D \subseteq Nat
      BY <1>6
    <3>7. ASSUME k = 0, NEW j \in 1 .. m, J[j] <= g
          PROVE  \E d \in D : J[j] <= d /\ d <= g
      <4>1. ~(g < End(P, J[j])) /\ J[j] \in Nat
        BY <3>4, <3>5, <3>7
      <4> QED BY <2>1, <3>6, <4>1, RunsUnless
    <3>8. k # 0 => J[k] <= g
      BY <3>4
    <3>9. k = 0 \/ k = 1 \/ k = 2
      BY <3>1, <3>4
    <3> QED BY <3>4, <3>7, <3>8, <3>9
  <2>4. /\ RanBy(P, g) = IF k = 0 THEN Nobody ELSE Generation(P, k)
        /\ g \in F /\ (k # 0 => g \in OwnFrames(P, k))
    BY <2>2 DEF RanBy, CompleteIn, J
  <2> HIDE DEF k, D, F, J, c
  <2>5. CASE k = 2
    <3>1. m = 2 /\ RanBy(P, g) = 1 /\ g \in Late
      <4>1. m \in {1, 2}
        BY <1>2
      <4>2. m = 2
        BY <2>3, <2>5, <4>1
      <4>3. RanBy(P, g) = Generation(P, 2) /\ g \in OwnFrames(P, 2)
        BY <2>4, <2>5
      <4>4. Generation(P, 2) = 1
        BY <1>2, <4>2
      <4> QED BY <1>1, <4>2, <4>3, <4>4
    <3>2. PICK r \in Returns : J[2] = r + 1
      BY <1>7, <3>1
    <3>3. r < g
      BY <1>6, <2>1, <2>3, <2>5, <3>2
    <3>4. Back(g) /\ ~OutAgain(g)
      <4>1. ASSUME NEW s \in Returns, NEW d \in Drops, s < d /\ d <= g PROVE FALSE
        BY <1>6, <2>1, <3>1, <4>1 DEF OwnInv
      <4> QED BY <3>3, <4>1 DEF Back, OutAgain
    <3> QED BY <3>1, <3>4 DEF Settled, Fate, Nobody
  <2>6. CASE k = 1
    <3>1. RanBy(P, g) = 0 /\ g \in Early
      BY <1>1, <1>2, <2>4, <2>6
    <3>2. \A d \in Drops : g < d
      BY <3>1 DEF OwnInv
    <3>3. ~Out(g)
      BY <1>6, <2>1, <3>2 DEF Out
    <3>4. ~Back(g)
      <4>1. \A r \in Returns : \E d \in Drops : d <= r
        BY DEF OwnInv
      <4> QED BY <1>6, <2>1, <3>2, <4>1 DEF Back
    <3> QED BY <3>1, <3>3, <3>4 DEF Settled, Fate, Nobody
  <2>7. CASE k = 0
    <3>1. RanBy(P, g) = Nobody
      BY <2>4, <2>7
    <3>2. Out(g)
      <4>1. 1 \in 1 .. m
        BY <1>2
      <4>2. \E d \in D : J[1] <= d /\ d <= g
        BY <1>2, <2>1, <2>3, <2>7, <4>1
      <4> QED BY <1>6, <4>2 DEF Out
    <3>3. ASSUME Back(g) PROVE OutAgain(g)
      <4>1. PICK r \in Returns : r < g
        BY <3>3 DEF Back
      <4>2. r \in Rejoins(P) /\ Positions("rejoined", P) # {}
        <5>1. PICK i \in Positions("other", log) : log[i].rejoin /\ log[i].frame = r
          BY DEF Returns, Rejoins
        <5>2. PICK h \in Positions("other", P) : P[h].frame = g
          BY <2>4 DEF F, FramesOf
        <5>3. h \in Positions("other", log) /\ h <= n /\ h \in 1 .. n /\ log[h].frame = g
          BY <1>0, <1>1, <5>2 DEF Positions
        <5>4. PICK j \in Positions("other", log) : j < h /\ log[j].frame = r
          <6>1. r \in 0 .. log[h].frame - 1
            BY <1>6, <2>1, <4>1, <5>3
          <6> QED BY <5>3, <6>1 DEF OthersInv, OthersOf, InOrder
        <5>5. j = i
          BY <5>1, <5>4 DEF OthersInv, OthersOf, InOrder
        <5>6. i \in Positions("other", P) /\ i \in 1 .. n
          BY <1>0, <1>1, <5>3, <5>4, <5>5 DEF Positions
        <5>7. P[i] = log[i]
          BY <5>6
        <5>8. r \in Rejoins(P)
          BY <5>1, <5>6, <5>7 DEF Rejoins
        <5>9. PICK q \in Positions("rejoined", log) : q < i
          BY <5>1 DEF OthersInv, OthersOf, InOrder
        <5>10. q \in Positions("rejoined", P)
          BY <1>0, <1>1, <5>6, <5>9 DEF Positions
        <5> QED BY <5>8, <5>10
      <4>3. m = 2 /\ J[2] = r + 1
        BY <1>2, <4>2 DEF R
      <4>4. PICK d \in D : r + 1 <= d /\ d <= g
        <5>1. J[2] <= g
          BY <1>6, <2>1, <4>1, <4>3
        <5>2. 2 \in 1 .. m
          BY <4>3
        <5>3. \E d \in D : J[2] <= d /\ d <= g
          BY <2>3, <2>7, <5>1, <5>2
        <5> QED BY <4>3, <5>3
      <4> QED BY <1>6, <4>4 DEF OutAgain
    <3>4. Fate(g) = Nobody
      BY <3>2, <3>3 DEF Fate
    <3> QED BY <2>1, <3>1, <3>4 DEF Settled, Nobody
  <2>8. Settled(g, RanBy(P, g))
    BY <2>3, <2>5, <2>6, <2>7
  <2>9. RanBy(P, g) \in Int
    BY <2>8 DEF Settled, Fate, Nobody
  <2> QED BY <2>8, <2>9
<1>10. a.ran \in Seq(Int) /\ Len(a.ran) = c
  <2>1. \A f \in 1 .. c : RanBy(P, f - 1) \in Int
    BY <1>5, <1>9
  <2>2. a.ran \in [1 .. c -> Int]
    BY <1>8, <2>1
  <2>3. c \in Nat
    BY <1>5
  <2> HIDE DEF c
  <2> QED BY <2>2, <2>3, SeqDef, LenProperties
<1>11. \A g \in 0 .. c - 1 : Settled(g, a.ran[g + 1])
  <2> SUFFICES ASSUME NEW g \in 0 .. c - 1 PROVE Settled(g, a.ran[g + 1])
    OBVIOUS
  <2>1. g + 1 \in 1 .. c /\ (g + 1) - 1 = g
    BY <1>5
  <2>2. a.ran[g + 1] = RanBy(P, g)
    BY <1>8, <2>1
  <2> QED BY <1>9, <2>2
<1>12. a.join # Never => a.join \in Nat \ {0} /\ a.join - 1 \in Returns
  <2>1. a.join # Never => Incarnations(P) \in DOMAIN J \ {1} /\ a.join = J[Incarnations(P)]
    BY AssembledIs DEF J
  <2>2. Incarnations(P) \in DOMAIN J \ {1} => m = 2 /\ Incarnations(P) = 2
    BY <1>2
  <2>3. m = 2 => J[2] \in Nat \ {0} /\ J[2] - 1 \in Returns
    BY <1>6, <1>7
  <2> HIDE DEF R
  <2> QED BY <2>1, <2>2, <2>3
<1> QED BY <1>5, <1>10, <1>11, <1>12

\* The log names the frame the others took the process back from.
LEMMA JoinRead ==
    ASSUME FetchInv, OthersInv, RejoinedInv, OtherInv, FirstInv, SecondInv, OwnInv,
           player.generation = 1, other.member = 1
    PROVE  Assembled(log).join = other.join
<1> DEFINE c == Assembled(log).complete
           F == FramesOf("other", log)
           J == Joins(log)
           r == other.join - 1
<1>1. /\ Len(log) \in Nat /\ IsLog(log) /\ log = [i \in 1 .. Len(log) |-> log[i]]
  <2>1. PICK S : log \in Seq(S)
    BY DEF FetchInv, IsLog
  <2> QED BY <2>1 DEF IsLog
<1>2. Returns = {r} /\ r \in Nat /\ other.join = r + 1
  BY DEF SecondInv, OtherInv
<1>3. Positions("rejoined", log) # {} /\ Rejoins(log) = {r}
  BY <1>2 DEF RejoinedInv, Returns
<1>4. Incarnations(log) = 2 /\ DOMAIN J = 1 .. 2 /\ J[1] = 0 /\ J[2] = r + 1
  <2>1. Len(log) \in 0 .. Len(log)
    BY <1>1
  <2>2. /\ Incarnations(log) = IF Positions("rejoined", log) = {} THEN 1 ELSE 2
        /\ DOMAIN J = 1 .. (IF Positions("rejoined", log) = {} \/ Rejoins(log) = {} THEN 1 ELSE 2)
        /\ J[1] = 0
        /\ \A s \in Rejoins(log) : Positions("rejoined", log) # {} => J[2] = s + 1
    BY <1>1, <2>1, JoinsAre
  <2> HIDE DEF J
  <2> QED BY <1>3, <2>2
<1>5. F \subseteq 0 .. Said - 1 /\ Said \in Nat /\ Said < Never
  <2>1. F \subseteq 0 .. Said - 1
    BY DEF FramesOf, OthersInv, OthersOf, InOrder
  <2>2. Said \in Nat /\ Said < Never
    BY RejoinAssumption DEF OtherInv, Said, Never
  <2> QED BY <2>1, <2>2
<1>6. c \in 0 .. Said /\ ~CompleteIn(log, c)
  BY <1>5, CompleteIs
<1>7. Drops \subseteq Nat /\ Drops # {} /\ Drops = FramesOf("drop", log)
  BY <1>2 DEF OwnInv, SecondInv, Drops
<1> HIDE DEF c
<1>8. ASSUME c <= r PROVE CompleteIn(log, c)
  <2> DEFINE k == Member(log, J, c)
  <2> HIDE DEF k
  <2>1. c \in Nat /\ c < Never
    BY <1>5, <1>6 DEF Never
  <2>2. c \in F
    <3>1. PICK i \in Positions("other", log) : log[i].frame = r
      BY <1>2 DEF Returns, Rejoins
    <3>2. CASE c = r
      BY <3>1, <3>2 DEF FramesOf
    <3>3. CASE c # r
      <4>1. c \in 0 .. log[i].frame - 1
        BY <1>2, <1>8, <2>1, <3>1, <3>3
      <4>2. PICK j \in Positions("other", log) : log[j].frame = c
        BY <4>1 DEF OthersInv, OthersOf, InOrder
      <4> QED BY <4>2 DEF FramesOf
    <3> QED BY <3>2, <3>3
  <2>3. /\ k # 0 => J[k] <= c
        /\ k # 0 => \A d \in Drops : J[k] <= d => c < d
        /\ k = 0 \/ k = 1 \/ k = 2
    <3>1. \A j \in 1 .. 2 : J[j] \in Nat
      BY <1>2, <1>4
    <3>2. k = Member(log, J, c) /\ 2 \in 1 .. 2
      BY DEF k
    <3>3. DOMAIN J = 1 .. 2
      BY <1>4
    <3> HIDE DEF J
    <3>4. k \in 0 .. 2 /\ (k = 0 \/ (J[k] <= c /\ c < End(log, J[k])))
      BY ONLY <3>2, <3>3, MemberIs
    <3>5. k = 0 \/ k = 1 \/ k = 2
      BY <3>4
    <3>6. k # 0 => J[k] \in Nat
      BY <3>1, <3>5
    <3>7. k # 0 => \A d \in Drops : J[k] <= d => c < d
      BY <1>7, <2>1, <3>4, <3>6, RunsUnless
    <3> QED BY <3>4, <3>5, <3>7
  <2>4. CASE k = 2
    <3>1. r + 1 <= c
      BY <1>4, <2>3, <2>4
    <3> QED BY <1>2, <1>8, <2>1, <3>1
  <2>5. CASE k = 1
    <3>1. \A d \in Drops : c < d
      BY <1>4, <1>7, <2>3, <2>5
    <3>2. PICK d \in Drops : \A e \in Drops : d <= e
      BY <1>7, MinIsLeast
    <3>3. c \in 0 .. d - 1
      BY <1>7, <2>1, <3>1
    <3>4. c \in OwnFrames(log, 1)
      BY <3>2, <3>3 DEF OwnInv, Early
    <3> QED BY <2>2, <2>5, <3>4 DEF CompleteIn, k
  <2>6. CASE k = 0
    BY <2>2, <2>6 DEF CompleteIn, k
  <2> QED BY <2>3, <2>4, <2>5, <2>6
<1>9. r + 1 <= c
  BY <1>2, <1>6, <1>8
<1>10. Assembled(log).join = r + 1
  <2>1. 2 \in (1 .. 2) \ {1}
    OBVIOUS
  <2>2. Assembled(log).complete = Min({f \in 0 .. Cardinality(F) : ~CompleteIn(log, f)})
    BY AssembledIs
  <2>3. c = Min({f \in 0 .. Cardinality(F) : ~CompleteIn(log, f)})
    BY <2>2 DEF c
  <2>4. Assembled(log).join =
          IF Incarnations(log) \in DOMAIN J \ {1} /\ J[Incarnations(log)] <= c
          THEN J[Incarnations(log)] ELSE Never
    BY <2>3, AssembledIs
  <2> HIDE DEF J
  <2> QED BY <1>4, <1>9, <2>1, <2>4
<1> QED BY <1>2, <1>10

-----------------------------------------------------------------------------
\* What a step changes of the frames the log tells.

LEMMA Grown ==
    ASSUME IsLog(log), OtherInv, RejoinedInv, NEW e, log' = Append(log, e)
    PROVE  /\ Drops' = Drops \cup (IF e.kind = "drop" THEN {e.frame} ELSE {})
           /\ Returns' = Returns \cup (IF e.kind = "other" /\ e.rejoin THEN {e.frame} ELSE {})
           /\ Early' = Early \cup (IF e.kind = "own" /\ player.generation = 0 THEN {e.frame} ELSE {})
           /\ Late' = Late \cup (IF e.kind = "own" /\ player.generation = 1 THEN {e.frame} ELSE {})
<1> DEFINE R == Positions("rejoined", log)
<1>1. player.generation \in {0, 1}
  BY DEF OtherInv
<1>2. /\ player.generation = 0 => R = {}
      /\ player.generation = 1 => \E p : R = {p}
  BY DEF RejoinedInv
<1>3. Cardinality(R) = player.generation
  BY <1>1, <1>2, FS_EmptySet, FS_Singleton
<1>4. Drops' = Drops \cup (IF e.kind = "drop" THEN {e.frame} ELSE {})
  BY FramesGrow DEF Drops
<1>5. Returns' = Returns \cup (IF e.kind = "other" /\ e.rejoin THEN {e.frame} ELSE {})
  BY RejoinsGrow DEF Returns
<1>6. Early' = Early \cup (IF e.kind = "own" /\ Cardinality(R) = 1 - 1 THEN {e.frame} ELSE {})
  BY OwnGrow DEF Early
<1>7. Late' = Late \cup (IF e.kind = "own" /\ Cardinality(R) = 2 - 1 THEN {e.frame} ELSE {})
  BY OwnGrow DEF Late
<1> QED BY <1>1, <1>3, <1>4, <1>5, <1>6, <1>7

LEMMA OthersStay ==
    ASSUME NEW l, IsLog(l), NEW said, OthersOf(l, said), NEW e, e.kind # "other"
    PROVE  OthersOf(Append(l, e), said)
<1> DEFINE O == Positions("other", l)
           R == Positions("rejoined", l)
           L == Append(l, e)
<1>1. /\ Positions("other", L) = O /\ O \subseteq 1 .. Len(l)
      /\ R \subseteq Positions("rejoined", L)
      /\ \A i \in 1 .. Len(l) : L[i] = l[i]
  <2>1. /\ O \subseteq 1 .. Len(l)
        /\ Positions("other", L) = O \cup (IF e.kind = "other" THEN {Len(l) + 1} ELSE {})
        /\ \A i \in 1 .. Len(l) : L[i] = l[i]
    BY PositionsGrow
  <2>2. Positions("rejoined", L) = R \cup (IF e.kind = "rejoined" THEN {Len(l) + 1} ELSE {})
    BY PositionsGrow
  <2> HIDE DEF O, R, L
  <2> QED BY <2>1, <2>2
<1>2. \A i \in O : L[i].frame = l[i].frame /\ (L[i].rejoin <=> l[i].rejoin)
  BY <1>1
<1> HIDE DEF L
<1>3. (\A i \in O : InOrder(l, said, i)) /\ \A g \in 0 .. said - 1 : \E j \in O : l[j].frame = g
  BY DEF OthersOf
<1>4. ASSUME NEW i \in O PROVE InOrder(L, said, i)
  <2>1. InOrder(l, said, i)
    BY <1>3
  <2> HIDE DEF O, R
  <2>2. /\ l[i].frame \in 0 .. said - 1
        /\ \A g \in 0 .. l[i].frame - 1 : \E j \in O : j < i /\ l[j].frame = g
        /\ \A j \in O : l[j].frame = l[i].frame => j = i
        /\ l[i].rejoin => \E j \in R : j < i
    BY <2>1 DEF InOrder, O, R
  <2>3. /\ L[i].frame \in 0 .. said - 1
        /\ \A g \in 0 .. L[i].frame - 1 : \E j \in O : j < i /\ L[j].frame = g
        /\ \A j \in O : L[j].frame = L[i].frame => j = i
        /\ L[i].rejoin => \E j \in Positions("rejoined", L) : j < i
    BY <1>1, <1>2, <2>2
  <2>4. Positions("other", L) = O
    BY <1>1
  <2> QED BY <2>3, <2>4 DEF InOrder
<1> HIDE DEF O, R
<1>5. \A g \in 0 .. said - 1 : \E j \in O : L[j].frame = g
  BY <1>2, <1>3
<1>6. Positions("other", L) = O
  BY <1>1
<1>7. OthersOf(L, said)
  BY <1>4, <1>5, <1>6 DEF OthersOf
<1> QED BY <1>7 DEF L

LEMMA RejoinedStays ==
    ASSUME IsLog(log), RejoinedInv, NEW e, log' = Append(log, e), e.kind # "rejoined",
           player.generation' = player.generation
    PROVE  RejoinedInv'
<1> DEFINE R == Positions("rejoined", log)
<1>1. /\ Positions("rejoined", log') = R
      /\ \A i \in DOMAIN log : log'[i] = log[i]
  <2>1. /\ DOMAIN log = 1 .. Len(log)
        /\ Positions("rejoined", Append(log, e)) =
              R \cup (IF e.kind = "rejoined" THEN {Len(log) + 1} ELSE {})
        /\ \A i \in 1 .. Len(log) : Append(log, e)[i] = log[i]
    BY PositionsGrow
  <2> HIDE DEF R
  <2> QED BY <2>1
<1>2. DOMAIN log \subseteq DOMAIN log'
  <2>1. PICK S : log \in Seq(S)
    BY DEF IsLog
  <2>2. DOMAIN log = 1 .. Len(log) /\ DOMAIN Append(log, e) = 1 .. Len(log) + 1 /\ Len(log) \in Nat
    BY <2>1
  <2> QED BY <2>2
<1> QED BY <1>1, <1>2 DEF RejoinedInv

LEMMA Unmoved ==
    ASSUME UNCHANGED log, UNCHANGED other.frame, UNCHANGED player.generation
    PROVE  /\ Early' = Early /\ Late' = Late /\ Drops' = Drops /\ Returns' = Returns /\ Said' = Said
           /\ OthersInv => OthersInv'
           /\ RejoinedInv => RejoinedInv'
           /\ OwnInv => OwnInv'
<1>1. Early' = Early /\ Late' = Late /\ Drops' = Drops /\ Returns' = Returns /\ Said' = Said
  BY DEF Early, Late, Drops, Returns, Said
<1>2. OthersInv => OthersInv'
  BY <1>1 DEF OthersInv, OthersOf, InOrder
<1>3. RejoinedInv => RejoinedInv'
  BY DEF RejoinedInv
<1>4. OwnInv => OwnInv'
  BY <1>1 DEF OwnInv
<1> QED BY <1>1, <1>2, <1>3, <1>4

\* What is settled stays so: while the frames announced grow, a drop is above
\* the player's frames, and a REJOIN above all that was announced.
LEMMA StaysSettled ==
    ASSUME NEW g \in Nat, NEW v, Settled(g, v),
           Early \subseteq Early', Late \subseteq Late', Said \in Nat, Said' \in Nat, Said <= Said',
           Drops' = Drops, Returns' = Returns
    PROVE  Settled(g, v)'
<1>1. Fate(g)' = Fate(g)
  BY DEF Fate, Back, Out, OutAgain
<1> QED BY <1>1 DEF Settled

LEMMA SettledAtDrop ==
    ASSUME NEW g \in Nat, NEW v, Settled(g, v), Early' = Early, Late' = Late, Said' = Said,
           NEW d \in Nat, \A f \in Early \cup Late : f < d,
           Drops' = Drops \cup {d}, Returns' = Returns
    PROVE  Settled(g, v)'
<1>1. Back(g)' <=> Back(g)
  BY DEF Back
<1>2. Out(g)' <=> Out(g) \/ d <= g
  BY DEF Out
<1>3. OutAgain(g)' <=> OutAgain(g) \/ (d <= g /\ \E r \in Returns : r < d)
  BY DEF OutAgain
<1>4. v = 1 \/ v = 0 \/ v = Nobody
  BY DEF Settled, Fate, Nobody
<1>5. CASE v = 1
  <2>1. g < d /\ g \in Late
    BY <1>5 DEF Settled
  <2>2. ~(d <= g)
    BY <2>1
  <2> QED BY <1>1, <1>2, <1>3, <1>5, <2>2 DEF Settled, Fate, Nobody
<1>6. CASE v = 0
  <2>1. g < d /\ g \in Early
    BY <1>6 DEF Settled
  <2>2. ~(d <= g)
    BY <2>1
  <2> QED BY <1>1, <1>2, <1>3, <1>6, <2>2 DEF Settled, Fate, Nobody
<1>7. CASE v = Nobody
  BY <1>1, <1>2, <1>3, <1>7 DEF Settled, Fate, Nobody
<1> QED BY <1>4, <1>5, <1>6, <1>7

LEMMA SettledAtReturn ==
    ASSUME NEW g \in Nat, NEW v, Settled(g, v), Early' = Early, Late' = Late,
           Said \in Nat, Said' \in Nat, Said <= Said',
           \A f \in Early \cup Late : f < Said, Early \subseteq Nat, Late \subseteq Nat,
           Drops \subseteq Nat, Drops' = Drops, Returns' = Returns \cup {Said}
    PROVE  Settled(g, v)'
<1>1. g < Said
  <2>1. v = 1 \/ v = 0 \/ v = Nobody
    BY DEF Settled, Fate, Nobody
  <2> QED BY <2>1 DEF Settled
<1>2. Back(g)' <=> Back(g)
  BY <1>1 DEF Back
<1>3. Out(g)' <=> Out(g)
  BY DEF Out
<1>4. OutAgain(g) => OutAgain(g)'
  BY DEF OutAgain
<1>5. ASSUME OutAgain(g)' PROVE OutAgain(g)
  BY <1>1, <1>5 DEF OutAgain
<1>6. Fate(g)' = Fate(g)
  BY <1>2, <1>3, <1>4, <1>5 DEF Fate
<1> QED BY <1>6 DEF Settled

LEMMA OthersGo ==
    ASSUME NEW l, IsLog(l), NEW said \in Nat, OthersOf(l, said), NEW e, e.kind = "other",
           e.frame = said, e.rejoin => Positions("rejoined", l) # {}
    PROVE  OthersOf(Append(l, e), said + 1)
<1> DEFINE O == Positions("other", l)
           R == Positions("rejoined", l)
           L == Append(l, e)
           z == Len(l) + 1
<1>1. /\ Positions("other", L) = O \cup {z} /\ O \subseteq 1 .. Len(l)
      /\ Positions("rejoined", L) = R /\ R \subseteq 1 .. Len(l)
      /\ \A i \in 1 .. Len(l) : L[i] = l[i]
      /\ L[z] = e /\ Len(l) \in Nat
  <2>1. /\ O \subseteq 1 .. Len(l) /\ Len(l) \in Nat
        /\ Positions("other", L) = O \cup (IF e.kind = "other" THEN {z} ELSE {})
        /\ \A i \in 1 .. Len(l) : L[i] = l[i]
        /\ L[z] = e
    BY PositionsGrow
  <2>2. Positions("rejoined", L) = R \cup (IF e.kind = "rejoined" THEN {Len(l) + 1} ELSE {})
    BY ONLY IsLog(l), PositionsGrow, Zenon
  <2>3. R \subseteq 1 .. Len(l)
    BY PositionsGrow
  <2> HIDE DEF O, R, L
  <2> QED BY <2>1, <2>2, <2>3
<1>2. \A i \in O : L[i].frame = l[i].frame /\ (L[i].rejoin <=> l[i].rejoin)
  BY <1>1
<1>0. L[z].frame = said /\ (L[z].rejoin <=> e.rejoin)
  BY <1>1
<1> HIDE DEF L, z
<1>3. (\A i \in O : InOrder(l, said, i)) /\ \A g \in 0 .. said - 1 : \E j \in O : l[j].frame = g
  BY DEF OthersOf
<1>4. ASSUME NEW i \in O PROVE InOrder(L, said + 1, i)
  <2>1. InOrder(l, said, i)
    BY <1>3
  <2> HIDE DEF O, R
  <2>2. /\ l[i].frame \in 0 .. said - 1
        /\ \A g \in 0 .. l[i].frame - 1 : \E j \in O : j < i /\ l[j].frame = g
        /\ \A j \in O : l[j].frame = l[i].frame => j = i
        /\ l[i].rejoin => \E j \in R : j < i
    BY <2>1 DEF InOrder, O, R
  <2>3. /\ L[i].frame \in 0 .. said
        /\ \A g \in 0 .. L[i].frame - 1 : \E j \in O : j < i /\ L[j].frame = g
        /\ \A j \in O : L[j].frame = L[i].frame => j = i
        /\ L[i].rejoin => \E j \in R : j < i
    BY <1>2, <2>2
  <2>4. \A j \in O \cup {z} : L[j].frame = L[i].frame => j = i
    BY <1>0, <1>2, <2>2, <2>3
  <2>5. Positions("other", L) = O \cup {z} /\ Positions("rejoined", L) = R /\ (said + 1) - 1 = said
    BY <1>1
  <2> QED BY <2>3, <2>4, <2>5 DEF InOrder
<1>5. InOrder(L, said + 1, z)
  <2> HIDE DEF O, R
  <2>1. \A j \in O : j < z
    BY <1>1 DEF z
  <2>2. \A g \in 0 .. said - 1 : \E j \in O : j < z /\ L[j].frame = g
    BY <1>2, <1>3, <2>1
  <2>3. \A j \in O : L[j].frame \in 0 .. said - 1
    BY <1>2, <1>3 DEF InOrder
  <2>4. \A j \in O \cup {z} : L[j].frame = said => j = z
    BY <2>3
  <2>5. L[z].rejoin => \E j \in R : j < z
    BY <1>0, <1>1 DEF R, z
  <2>6. Positions("other", L) = O \cup {z} /\ Positions("rejoined", L) = R /\ (said + 1) - 1 = said
    BY <1>1
  <2> QED BY <1>0, <2>2, <2>4, <2>5, <2>6 DEF InOrder
<1> HIDE DEF O, R
<1>6. \A g \in 0 .. (said + 1) - 1 : \E j \in O \cup {z} : L[j].frame = g
  <2> SUFFICES ASSUME NEW g \in 0 .. (said + 1) - 1
               PROVE  \E j \in O \cup {z} : L[j].frame = g
    OBVIOUS
  <2>1. CASE g = said
    BY <1>0, <2>1
  <2>2. CASE g # said
    <3>1. g \in 0 .. said - 1
      BY <2>2
    <3> QED BY <1>2, <1>3, <3>1
  <2> QED BY <2>1, <2>2
<1>7. Positions("other", L) = O \cup {z}
  BY <1>1
<1>8. OthersOf(L, said + 1)
  BY <1>4, <1>5, <1>6, <1>7 DEF OthersOf
<1> QED BY <1>8 DEF L

\* The infos of the member incarnation.
LEMMA SentIs ==
    ASSUME IsLog(log), OtherInv, RejoinedInv
    PROVE  /\ Sent = {f \in Early \cup Late : f >= other.join}
           /\ IsFiniteSet(Sent)
<1> DEFINE O == Positions("own", log)
           R == Positions("rejoined", log)
           Behind(j) == Cardinality({r \in R : r < j})
<1>1. R = {} \/ \E p \in DOMAIN log : R = {p}
  BY RejoinedOnce
<1>2. \A j : Behind(j) = 1 - 1 \/ Behind(j) = 2 - 1
  <2> SUFFICES ASSUME NEW j PROVE Behind(j) = 1 - 1 \/ Behind(j) = 2 - 1
    OBVIOUS
  <2>1. {r \in R : r < j} = {} \/ \E p : {r \in R : r < j} = {p}
    BY <1>1
  <2>2. Cardinality({r \in R : r < j}) = 0 \/ Cardinality({r \in R : r < j}) = 1
    BY <2>1, FS_EmptySet, FS_Singleton
  <2> QED BY <2>2
<1>3. /\ Early = {log[i].frame : i \in {j \in O : Behind(j) = 1 - 1}}
      /\ Late = {log[i].frame : i \in {j \in O : Behind(j) = 2 - 1}}
  BY DEF Early, Late, OwnFrames
<1>4. Sent = {log[i].frame : i \in {j \in O : log[j].frame >= other.join}}
  BY DEF Sent, Positions
<1> HIDE DEF O, Behind
<1>5. Sent = {f \in Early \cup Late : f >= other.join}
  BY <1>2, <1>3, <1>4
<1>6. IsFiniteSet(Sent)
  <2> DEFINE g == [i \in DOMAIN log |-> log[i].frame]
             T == {j \in O : log[j].frame >= other.join}
  <2>1. IsFiniteSet(DOMAIN log) /\ O \subseteq DOMAIN log
    BY FS_Interval DEF IsLog, O, Positions
  <2>2. IsFiniteSet(T)
    BY <2>1, FS_Subset
  <2>3. IsFiniteSet({g[x] : x \in T})
    BY <2>2, ImageIsFinite
  <2>4. Sent = {g[x] : x \in T}
    BY <1>4, <2>1
  <2> QED BY <2>3, <2>4
<1> QED BY <1>5, <1>6

LEMMA Frames ==
    ASSUME OtherInv
    PROVE  /\ other.frame \in Nat \ {0} /\ Said = other.frame + RunAhead /\ Said \in Nat
           /\ other.frame < Said /\ Said + 1 < Never /\ Never \in Nat /\ RunAhead \in Nat \ {0}
           /\ other.member = 0 \/ other.member = 1
           /\ player.generation = 0 \/ player.generation = 1
           /\ other.seen \in {0, 1} /\ other.has \in Nat
BY RejoinAssumption DEF OtherInv, Said, Never

-----------------------------------------------------------------------------
\* The steps.

LEMMA OnlyPlayer ==
    ASSUME OtherInv, FirstInv, SecondInv, OthersInv, RejoinedInv, OwnInv, RanInv,
           UNCHANGED <<log, other>>, player'.generation = player.generation
    PROVE  /\ OthersInv' /\ RejoinedInv' /\ OtherInv' /\ FirstInv' /\ SecondInv' /\ OwnInv' /\ RanInv'
           /\ Early' = Early /\ Late' = Late /\ Drops' = Drops /\ Returns' = Returns /\ Said' = Said
           /\ \A g \in Nat : \A v : Settled(g, v) => Settled(g, v)'
<1>1. /\ Early' = Early /\ Late' = Late /\ Drops' = Drops /\ Returns' = Returns /\ Said' = Said
      /\ OthersInv' /\ RejoinedInv' /\ OwnInv'
  BY Unmoved
<1>2. OtherInv' /\ FirstInv' /\ SecondInv'
  BY <1>1 DEF OtherInv, FirstInv, SecondInv
<1>3. Early \subseteq Early' /\ Late \subseteq Late' /\ Said \in Nat /\ Said' \in Nat /\ Said <= Said'
  BY <1>1, Frames
<1>4. ASSUME NEW g \in Nat, NEW v, Settled(g, v) PROVE Settled(g, v)'
  BY <1>1, <1>3, <1>4, StaysSettled
<1>5. RanInv'
  <2>1. ASSUME NEW g \in 0 .. other.frame - 1 PROVE Settled(g, other.ran[g + 1])'
    <3>1. PICK v : v = other.ran[g + 1]
      OBVIOUS
    <3>2. g \in Nat /\ Settled(g, v)
      BY <3>1, Frames DEF RanInv
    <3>3. Settled(g, v)' /\ other'.ran[g + 1] = v
      BY <1>4, <3>1, <3>2
    <3> QED BY <3>3 DEF Settled
  <2> QED BY <2>1 DEF RanInv
<1> QED BY <1>1, <1>2, <1>4, <1>5

\* A step changes no frame's commands.
StillSettled == \A g \in Nat : \A v : Settled(g, v) => Settled(g, v)'

LEMMA PlayerRan ==
    ASSUME StillSettled, player'.ran = player.ran, NEW n \in Nat,
           \A g \in 0 .. n - 1 : Settled(g, player.ran[g + 1])
    PROVE  \A g \in 0 .. n - 1 : Settled(g, player.ran[g + 1])'
<1> SUFFICES ASSUME NEW g \in 0 .. n - 1 PROVE Settled(g, player.ran[g + 1])'
  OBVIOUS
<1>1. PICK v : v = player.ran[g + 1]
  OBVIOUS
<1>2. g \in Nat /\ Settled(g, v)
  BY <1>1
<1>3. Settled(g, v)' /\ player'.ran[g + 1] = v
  BY <1>1, <1>2 DEF StillSettled
<1> QED BY <1>3 DEF Settled

LEMMA OthersRan ==
    ASSUME StillSettled, other'.ran = other.ran, other'.frame = other.frame, OtherInv, RanInv
    PROVE  RanInv'
<1>1. ASSUME NEW g \in 0 .. other.frame - 1 PROVE Settled(g, other.ran[g + 1])'
  <2>1. PICK v : v = other.ran[g + 1]
    OBVIOUS
  <2>2. g \in Nat /\ Settled(g, v)
    BY <2>1, Frames DEF RanInv
  <2>3. Settled(g, v)' /\ other'.ran[g + 1] = v
    BY <2>1, <2>2 DEF StillSettled
  <2> QED BY <2>3 DEF Settled
<1> QED BY <1>1 DEF RanInv

\* A player whose process goes on as it was, in a log that tells the same of it.
LEMMA PlayerStays ==
    ASSUME Types, PlayerInv, StillSettled, Late' = Late, Said \in Nat, Said' \in Nat, Said <= Said',
           player'.ran = player.ran, player'.frame = player.frame, player'.join = player.join,
           player'.announced = player.announced, player'.generation = player.generation,
           player'.state = player.state,
           Running => \A r \in Returns', d \in Drops' : d <= r,
           player.state = "live" => Returns' = Returns
    PROVE  PlayerInv'
<1>1. Running' <=> Running
  BY DEF Running
<1>2. Running => \A g \in 0 .. player.frame - 1 : Settled(g, player.ran[g + 1])'
  BY PlayerRan DEF PlayerInv
<1>3. Running => /\ player.generation = 1 /\ player.frame \in Nat
                 /\ DOMAIN player.ran = 1 .. player.frame
  BY DEF PlayerInv
<1>4. player.generation = 0 => player.state = "off" /\ Late = {}
  BY DEF PlayerInv
<1>5. player.state \in {"catching", "waiting"} => Late' = {} /\ player.frame <= Said'
  <2>1. player.frame \in Nat
    BY DEF Types, PlayerType
  <2> QED BY <2>1 DEF PlayerInv
<1>6. player.state = "live" =>
        /\ player.join \in Nat \ {0} /\ player.announced \in Nat
        /\ Returns' = {player.join - 1} /\ Late' = player.join .. player.announced
        /\ player.join - 1 <= player.announced /\ player.join <= player.frame
  BY DEF PlayerInv
<1>7. Running' => /\ player'.generation = 1 /\ player'.frame \in Nat
                  /\ DOMAIN player'.ran = 1 .. player'.frame
                  /\ \A g \in 0 .. player'.frame - 1 : Settled(g, player.ran[g + 1])'
                  /\ \A r \in Returns', d \in Drops' : d <= r
  BY <1>1, <1>2, <1>3
<1> QED BY <1>4, <1>5, <1>6, <1>7 DEF PlayerInv

LEMMA OnlyOther ==
    ASSUME RestartInv, UNCHANGED <<log, player>>, other'.frame = other.frame, other'.ran = other.ran
    PROVE  /\ OthersInv' /\ RejoinedInv' /\ OwnInv' /\ RanInv' /\ PlayerInv'
           /\ Early' = Early /\ Late' = Late /\ Drops' = Drops /\ Returns' = Returns /\ Said' = Said
<1>0. OthersInv /\ RejoinedInv /\ OwnInv /\ RanInv /\ PlayerInv /\ OtherInv /\ Types
  BY DEF RestartInv
<1>1. /\ Early' = Early /\ Late' = Late /\ Drops' = Drops /\ Returns' = Returns /\ Said' = Said
      /\ OthersInv' /\ RejoinedInv' /\ OwnInv'
  BY <1>0, Unmoved
<1>2. Early \subseteq Early' /\ Late \subseteq Late' /\ Said \in Nat /\ Said' \in Nat /\ Said <= Said'
  BY <1>0, <1>1, Frames
<1>3. StillSettled
  <2>1. ASSUME NEW g \in Nat, NEW v, Settled(g, v) PROVE Settled(g, v)'
    BY <1>1, <1>2, <2>1, StaysSettled
  <2> QED BY <2>1 DEF StillSettled
<1>4. RanInv'
  BY <1>0, <1>3, OthersRan
<1>5. Running => \A r \in Returns', d \in Drops' : d <= r
  BY <1>0, <1>1 DEF PlayerInv
<1>6. PlayerInv'
  BY <1>0, <1>1, <1>2, <1>3, <1>5, PlayerStays
<1> QED BY <1>1, <1>4, <1>6

LEMMA ReceiveKeeps ==
    ASSUME RestartInv, Receive
    PROVE  RestartInv'
<1>0. Types /\ OtherInv /\ FirstInv /\ SecondInv /\ OwnInv /\ FetchInv /\ RejoinedInv
  BY DEF RestartInv
<1>1. /\ UNCHANGED <<log, player, fetch>> /\ other.leave = Never /\ other.has \in Sent
      /\ other' = [other EXCEPT !.has = 1 + Max(Sent)]
  BY DEF Receive
<1>2. /\ other'.frame = other.frame /\ other'.ran = other.ran /\ other'.has = 1 + Max(Sent)
      /\ other'.join = other.join /\ other'.leave = other.leave /\ other'.member = other.member
      /\ other'.seen = other.seen /\ other'.issued = other.issued
  BY <1>0, <1>1 DEF Types
<1>3. /\ OthersInv' /\ RejoinedInv' /\ OwnInv' /\ RanInv' /\ PlayerInv'
      /\ Early' = Early /\ Late' = Late /\ Drops' = Drops /\ Returns' = Returns /\ Said' = Said
  BY <1>1, <1>2, OnlyOther
<1>4. Sent = {f \in Early \cup Late : f >= other.join} /\ IsFiniteSet(Sent)
  BY <1>0, SentIs DEF FetchInv
<1>5. Sent \subseteq Nat
  BY <1>0, <1>4 DEF OwnInv
<1>6. Max(Sent) \in Sent /\ other.has <= Max(Sent) /\ Max(Sent) \in Nat
  BY <1>1, <1>4, <1>5, MaxOfFinite
<1> DEFINE m == Max(Sent)
<1> HIDE DEF m
<1>7. other'.has = 1 + m /\ m \in Sent /\ other.has <= m /\ m \in Nat /\ other.has \in Nat
  BY <1>2, <1>6, <1>0 DEF m, OtherInv
<1>8. OtherInv'
  BY <1>0, <1>1, <1>2, <1>3, <1>7 DEF OtherInv
<1>9. FirstInv'
  <2> SUFFICES ASSUME other.member = 0 PROVE FirstInv'
    BY <1>2 DEF FirstInv
  <2>1. Drops = {} /\ Returns = {} /\ other.join = 0 /\ other.frame <= other.has
    BY <1>0, <1>1 DEF FirstInv, OtherInv
  <2>2. Late = {}
    BY <1>0, <2>1 DEF OwnInv
  <2>3. m \in Early
    BY <1>4, <1>7, <2>2
  <2>4. 0 .. m \subseteq Early
    BY <1>0, <2>3 DEF OwnInv
  <2>5. 0 .. other'.has - 1 \subseteq Early' /\ other.frame <= other'.has
    BY <1>0, <1>3, <1>7, <2>1, <2>4, Frames
  <2> QED BY <1>0, <1>2, <1>3, <2>1, <2>5 DEF FirstInv
<1>10. SecondInv'
  <2> SUFFICES ASSUME other.member = 1 PROVE SecondInv'
    BY <1>2 DEF SecondInv
  <2>1. /\ other.join \in 1 .. other.frame /\ Returns = {other.join - 1} /\ other.join \in Nat
        /\ other.has >= other.join
    BY <1>0, Frames DEF SecondInv
  <2>2. PICK d \in Drops : d < other.join
    BY <1>0 DEF SecondInv
  <2>3. m \in Late
    <3>1. m >= other.join /\ d \in Nat
      BY <1>0, <1>4, <1>7 DEF OwnInv
    <3>2. m \notin Early
      BY <1>0, <1>7, <2>1, <2>2, <3>1 DEF OwnInv
    <3> QED BY <1>4, <1>7, <3>2
  <2>4. other.join .. m \subseteq Late
    BY <1>0, <2>1, <2>3 DEF OwnInv
  <2>5. other.join .. other'.has - 1 \subseteq Late' /\ other'.has >= other.join
    BY <1>3, <1>7, <2>1, <2>4
  <2> QED BY <1>0, <1>2, <1>3, <2>1, <2>5 DEF SecondInv
<1>11. Types'
  <2>1. other \in OtherType /\ player \in PlayerType
    BY <1>0 DEF Types
  <2>2. 1 + Max(Sent) \in Nat
    BY <1>6
  <2>3. other' \in OtherType
    BY <1>1, <2>1, <2>2 DEF OtherType
  <2> QED BY <1>1, <2>1, <2>3 DEF Types
<1>12. FetchInv'
  BY <1>0, FetchStep DEF Next, Others
<1> QED BY <1>3, <1>8, <1>9, <1>10, <1>11, <1>12 DEF RestartInv

LEMMA StatusKeeps ==
    ASSUME RestartInv, Status
    PROVE  RestartInv'
<1>0. Types /\ OtherInv /\ FirstInv /\ SecondInv /\ FetchInv
  BY DEF RestartInv
<1>1. /\ UNCHANGED <<log, player, fetch>> /\ other.seen < player.generation
      /\ other' = [other EXCEPT !.seen = player.generation]
  BY DEF Status
<1>2. other \in OtherType /\ player \in PlayerType /\ player.generation \in Nat
  BY <1>0 DEF Types, PlayerType
<1>3. /\ other'.frame = other.frame /\ other'.ran = other.ran /\ other'.has = other.has
      /\ other'.join = other.join /\ other'.leave = other.leave /\ other'.member = other.member
      /\ other'.seen = player.generation /\ other'.issued = other.issued
      /\ other' \in OtherType
  BY <1>1, <1>2 DEF OtherType
<1>4. /\ OthersInv' /\ RejoinedInv' /\ OwnInv' /\ RanInv' /\ PlayerInv'
      /\ Early' = Early /\ Late' = Late /\ Drops' = Drops /\ Returns' = Returns /\ Said' = Said
  BY <1>1, <1>3, OnlyOther
<1>5. OtherInv'
  <2>1. other.seen = 0 /\ player.generation = 1
    BY <1>0, <1>1, Frames
  <2>2. other.issued = Never /\ other.member = 0
    BY <1>0, <2>1 DEF OtherInv
  <2> QED BY <1>0, <1>1, <1>3, <1>4, <2>1, <2>2 DEF OtherInv
<1>6. FirstInv' /\ SecondInv'
  BY <1>0, <1>3, <1>4 DEF FirstInv, SecondInv
<1>7. Types'
  BY <1>1, <1>2, <1>3 DEF Types
<1>8. FetchInv'
  BY <1>0, FetchStep DEF Next, Others
<1> QED BY <1>4, <1>5, <1>6, <1>7, <1>8 DEF RestartInv

LEMMA TakeBackKeeps ==
    ASSUME RestartInv, TakeBack
    PROVE  RestartInv'
<1>0. Types /\ OtherInv /\ FirstInv /\ SecondInv /\ FetchInv
  BY DEF RestartInv
<1>1. /\ UNCHANGED <<log, player, fetch>> /\ other.leave # Never /\ other.seen > other.member
      /\ other.issued = Never /\ other' = [other EXCEPT !.issued = other.frame + RunAhead]
  BY DEF TakeBack, Talking, Held
<1>2. other \in OtherType /\ player \in PlayerType /\ other.frame + RunAhead \in Nat
  BY <1>0, Frames DEF Types
<1>3. /\ other'.frame = other.frame /\ other'.ran = other.ran /\ other'.has = other.has
      /\ other'.join = other.join /\ other'.leave = other.leave /\ other'.member = other.member
      /\ other'.seen = other.seen /\ other'.issued = Said
      /\ other' \in OtherType
  BY <1>1, <1>2 DEF OtherType, Said
<1>4. /\ OthersInv' /\ RejoinedInv' /\ OwnInv' /\ RanInv' /\ PlayerInv'
      /\ Early' = Early /\ Late' = Late /\ Drops' = Drops /\ Returns' = Returns /\ Said' = Said
  BY <1>1, <1>3, OnlyOther
<1>5. other.member = 0 /\ other.seen = 1
  BY <1>0, <1>1, Frames
<1>6. Said \in other.frame .. Said
  BY <1>0, Frames
<1>7. OtherInv'
  BY <1>0, <1>1, <1>3, <1>4, <1>5, <1>6 DEF OtherInv
<1>8. FirstInv' /\ SecondInv'
  <2>1. Returns = {} /\ ~(Said < Said)
    BY <1>0, <1>1, <1>5, Frames DEF FirstInv
  <2> QED BY <1>0, <1>1, <1>3, <1>4, <1>5, <2>1 DEF FirstInv, SecondInv
<1>9. Types'
  BY <1>1, <1>2, <1>3 DEF Types
<1>10. FetchInv'
  BY <1>0, FetchStep DEF Next, Others
<1> QED BY <1>4, <1>7, <1>8, <1>9, <1>10 DEF RestartInv

\* A record of the log that tells nothing of the slot: the army is handed over.
LEMMA HandOverKeeps ==
    ASSUME RestartInv, HandOver
    PROVE  RestartInv'
<1>0. /\ Types /\ OtherInv /\ FirstInv /\ SecondInv /\ FetchInv /\ OthersInv /\ RejoinedInv
      /\ OwnInv /\ RanInv /\ PlayerInv /\ IsLog(log)
  BY DEF RestartInv, FetchInv
<1>1. /\ UNCHANGED <<player, fetch>> /\ log' = Append(log, Destroyed)
      /\ other' = [other EXCEPT !.handedOver = TRUE] /\ Destroyed.kind = "destroy"
  BY DEF HandOver, Destroyed
<1>2. other \in OtherType /\ player \in PlayerType
  BY <1>0 DEF Types
<1>3. /\ other'.frame = other.frame /\ other'.ran = other.ran /\ other'.has = other.has
      /\ other'.join = other.join /\ other'.leave = other.leave /\ other'.member = other.member
      /\ other'.seen = other.seen /\ other'.issued = other.issued
      /\ other' \in OtherType
  BY <1>1, <1>2 DEF OtherType
<1>4. Early' = Early /\ Late' = Late /\ Drops' = Drops /\ Returns' = Returns /\ Said' = Said
  BY <1>0, <1>1, <1>3, Grown DEF Said
<1>5. OthersInv' /\ RejoinedInv'
  BY <1>0, <1>1, <1>4, OthersStay, RejoinedStays DEF OthersInv
<1>6. OwnInv' /\ OtherInv' /\ FirstInv' /\ SecondInv'
  <2>1. OwnInv'
    BY <1>0, <1>4 DEF OwnInv
  <2>2. OtherInv'
    BY <1>0, <1>1, <1>3, <1>4 DEF OtherInv
  <2>3. FirstInv' /\ SecondInv'
    BY <1>0, <1>3, <1>4 DEF FirstInv, SecondInv
  <2> QED BY <2>1, <2>2, <2>3
<1>7. Early \subseteq Early' /\ Late \subseteq Late' /\ Said \in Nat /\ Said' \in Nat /\ Said <= Said'
  BY <1>0, <1>4, Frames
<1>8. StillSettled
  <2>1. ASSUME NEW g \in Nat, NEW v, Settled(g, v) PROVE Settled(g, v)'
    BY <1>4, <1>7, <2>1, StaysSettled
  <2> QED BY <2>1 DEF StillSettled
<1>9. RanInv'
  BY <1>0, <1>3, <1>8, OthersRan
<1>10. PlayerInv'
  <2>1. Running => \A r \in Returns', d \in Drops' : d <= r
    BY <1>0, <1>4 DEF PlayerInv
  <2> QED BY <1>0, <1>1, <1>4, <1>7, <1>8, <2>1, PlayerStays
<1>11. Types'
  BY <1>1, <1>2, <1>3 DEF Types
<1>12. FetchInv'
  BY <1>0, FetchStep DEF Next
<1> QED BY <1>5, <1>6, <1>9, <1>10, <1>11, <1>12 DEF RestartInv

LEMMA DropKeeps ==
    ASSUME RestartInv, Drop
    PROVE  RestartInv'
<1> DEFINE F == other.frame
<1>0. /\ Types /\ OtherInv /\ FirstInv /\ SecondInv /\ FetchInv /\ OthersInv /\ RejoinedInv
      /\ OwnInv /\ RanInv /\ PlayerInv /\ IsLog(log)
  BY DEF RestartInv, FetchInv
<1>1. /\ UNCHANGED <<player, fetch>> /\ log' = Append(log, Dropped(F))
      /\ Dropped(F).kind = "drop" /\ Dropped(F).frame = F
      /\ other' = [other EXCEPT !.leave = F, !.streamFrom = Never, !.issued = Never]
      /\ other.join <= F /\ F < other.leave /\ other.has <= F /\ other.has \notin Sent /\ Gone
  BY DEF Drop, Dropped, Needed
<1>2. other \in OtherType /\ player \in PlayerType
  BY <1>0 DEF Types
<1>F. /\ F \in Nat \ {0} /\ F < Said /\ Said \in Nat /\ Said + 1 < Never /\ Never \in Nat
      /\ other.has \in Nat
  BY <1>0, Frames
<1>3. /\ other'.frame = F /\ other'.ran = other.ran /\ other'.has = other.has
      /\ other'.join = other.join /\ other'.leave = F /\ other'.member = other.member
      /\ other'.seen = other.seen /\ other'.issued = Never
      /\ other' \in OtherType
  BY <1>1, <1>2, <1>F DEF OtherType
<1>4. /\ Early' = Early /\ Late' = Late /\ Drops' = Drops \cup {F} /\ Returns' = Returns
      /\ Said' = Said
  BY <1>0, <1>1, <1>3, Grown DEF Said
<1>5. other.leave = Never /\ other.issued = Never
  <2>1. other.leave # Never => other.leave <= F /\ other.leave \in Nat
    BY <1>0 DEF OtherInv, OwnInv
  <2>2. other.leave = Never
    BY <1>1, <1>F, <2>1
  <2> QED BY <1>0, <2>2 DEF OtherInv
<1>6. Sent = {f \in Early \cup Late : f >= other.join}
  BY <1>0, SentIs
<1>7. Early \subseteq Nat /\ Late \subseteq Nat /\ Drops \subseteq Nat /\ Returns \subseteq Nat
  BY <1>0 DEF OwnInv
<1>8. other.member = 0 \/ other.member = 1
  BY <1>0, Frames
<1>9. other.member = 0 =>
        /\ other.join = 0 /\ Returns = {} /\ Drops = {} /\ Late = {}
        /\ F <= other.has /\ 0 .. other.has - 1 \subseteq Early
  <2> SUFFICES ASSUME other.member = 0
               PROVE  /\ other.join = 0 /\ Returns = {} /\ Drops = {} /\ Late = {}
                      /\ F <= other.has /\ 0 .. other.has - 1 \subseteq Early
    OBVIOUS
  <2>1. /\ other.join = 0 /\ Returns = {} /\ Drops = {}
        /\ F <= other.has /\ 0 .. other.has - 1 \subseteq Early
    BY <1>0, <1>5 DEF FirstInv
  <2>2. Late = {}
    BY <1>0, <2>1 DEF OwnInv
  <2> QED BY <2>1, <2>2
<1>10. other.member = 1 =>
        /\ other.join \in 1 .. F /\ Returns = {other.join - 1} /\ other.has >= other.join
        /\ (\E d \in Drops : d < other.join) /\ {d \in Drops : d >= other.join} = {}
  BY <1>0, <1>5 DEF SecondInv
<1>11. \A f \in Early \cup Late : f < F
  <2> SUFFICES ASSUME NEW f \in Early \cup Late, F <= f PROVE FALSE
    BY <1>7, <1>F
  <2>1. f \in Nat
    BY <1>7
  <2>2. CASE other.member = 0
    <3>1. f \in Early
      BY <1>9, <2>2
    <3>2. 0 .. f \subseteq Early
      BY <1>0, <3>1 DEF OwnInv
    <3>3. other.has \in Early /\ other.has >= other.join
      BY <1>1, <1>F, <1>9, <2>1, <2>2, <3>2
    <3> QED BY <1>1, <1>6, <3>3
  <2>3. CASE other.member = 1
    <3>1. other.join \in Nat /\ other.join <= F /\ other.join \in 1 .. F
      BY <1>10, <1>F, <2>3
    <3>2. f \notin Early
      <4>1. PICK d \in Drops : d < other.join
        BY <1>10, <2>3
      <4>2. f \in Early => f < d
        BY <1>0, <4>1 DEF OwnInv
      <4> QED BY <1>7, <1>F, <2>1, <3>1, <4>1, <4>2
    <3>3. f \in Late
      BY <3>2
    <3>4. PICK r \in Returns : r < f /\ r + 1 .. f \subseteq Late
      BY <1>0, <3>3 DEF OwnInv
    <3>5. r + 1 = other.join
      BY <1>10, <2>3, <3>1, <3>4
    <3>6. other.has \in other.join .. f
      BY <1>1, <1>F, <1>10, <2>1, <2>3, <3>1
    <3> QED BY <1>1, <1>6, <1>10, <2>3, <3>4, <3>5, <3>6
  <2> QED BY <1>8, <2>2, <2>3
<1>12. OthersInv' /\ RejoinedInv'
  BY <1>0, <1>1, <1>4, OthersStay, RejoinedStays DEF OthersInv
<1>13. OtherInv'
  BY <1>0, <1>1, <1>3, <1>4, <1>F DEF OtherInv
<1>14. FirstInv'
  BY <1>3, <1>4, <1>9, <1>F DEF FirstInv
<1>15. SecondInv'
  <2> SUFFICES ASSUME other.member = 1 PROVE SecondInv'
    BY <1>3 DEF SecondInv
  <2>1. {d \in Drops' : d >= other.join} = {F} /\ \E d \in Drops' : d < other.join
    BY <1>1, <1>4, <1>10
  <2>2. other.has >= other.join /\ other.join .. other.has - 1 \subseteq Late
    BY <1>0 DEF SecondInv
  <2>3. F # Never
    BY <1>F
  <2> QED BY <1>3, <1>4, <1>10, <2>1, <2>2, <2>3 DEF SecondInv
<1>16. OwnInv'
  <2>1. \A g \in Early : 0 .. g \subseteq Early
    BY <1>0 DEF OwnInv
  <2>2. \A g \in Early, d \in Drops \cup {F} : g < d
    BY <1>0, <1>11 DEF OwnInv
  <2>3. ASSUME NEW d \in Drops \cup {F}, \A e \in Drops \cup {F} : d <= e
        PROVE  0 .. d - 1 \subseteq Early
    <3>1. CASE d \in Drops
      BY <1>0, <2>3, <3>1 DEF OwnInv
    <3>2. CASE d = F /\ other.member = 0
      BY <1>9, <1>F, <3>2
    <3>3. CASE d = F /\ other.member = 1
      <4>1. PICK e \in Drops : e < other.join
        BY <1>10, <3>3
      <4>2. F <= e /\ e \in Nat
        BY <1>7, <2>3, <3>3
      <4> QED BY <1>10, <1>F, <3>3, <4>1, <4>2
    <3> QED BY <1>8, <3>1, <3>2, <3>3
  <2>4. \A g \in Late : \E r \in Returns : r < g /\ r + 1 .. g \subseteq Late
    BY <1>0 DEF OwnInv
  <2>5. \A g \in Late, r \in Returns, d \in Drops \cup {F} : r < d => g < d
    BY <1>0, <1>11 DEF OwnInv
  <2>6. \A r \in Returns : \E d \in Drops \cup {F} : d <= r
    BY <1>0 DEF OwnInv
  <2>7. Drops \cup {F} \subseteq Nat
    BY <1>7, <1>F
  <2> HIDE DEF F
  <2> QED BY <1>4, <1>7, <2>1, <2>2, <2>3, <2>4, <2>5, <2>6, <2>7 DEF OwnInv
<1>17. StillSettled
  <2>1. ASSUME NEW g \in Nat, NEW v, Settled(g, v) PROVE Settled(g, v)'
    <3> HIDE DEF F
    <3> QED BY <1>4, <1>11, <1>F, <2>1, SettledAtDrop
  <2> QED BY <2>1 DEF StillSettled
<1>18. RanInv'
  BY <1>0, <1>3, <1>17, OthersRan
<1>19. PlayerInv'
  <2>1. Running => \A r \in Returns', d \in Drops' : d <= r
    <3> SUFFICES ASSUME Running PROVE \A r \in Returns', d \in Drops' : d <= r
      OBVIOUS
    <3>1. player.generation = 1
      BY <1>0 DEF PlayerInv
    <3>2. other.member = 0
      BY <1>0, <1>1, <1>8, <3>1 DEF Gone, OtherInv
    <3> QED BY <1>4, <1>9, <3>2
  <2> QED BY <1>0, <1>1, <1>4, <1>17, <1>F, <2>1, PlayerStays
<1>20. Types'
  BY <1>1, <1>2, <1>3 DEF Types
<1>21. FetchInv'
  BY <1>0, FetchStep DEF Next, Others
<1> QED BY <1>12, <1>13, <1>14, <1>15, <1>16, <1>18, <1>19, <1>20, <1>21 DEF RestartInv

\* The others run a frame and announce the next one, with the REJOIN that
\* is issued for it; behind the REJOIN's frame the slot is a member again.
LEMMA RunFrameKeeps ==
    ASSUME RestartInv, RunFrame
    PROVE  RestartInv'
<1> DEFINE F == other.frame
           e == Info(F + RunAhead, other.issued = F + RunAhead)
           v == IF Needed(F) THEN other.member ELSE Nobody
           back == other.issued = F
<1>0. /\ Types /\ OtherInv /\ FirstInv /\ SecondInv /\ FetchInv /\ OthersInv /\ RejoinedInv
      /\ OwnInv /\ RanInv /\ PlayerInv /\ IsLog(log)
  BY DEF RestartInv, FetchInv
<1>F. /\ F \in Nat \ {0} /\ F < Said /\ Said \in Nat /\ Said + 1 < Never /\ Never \in Nat
      /\ other.has \in Nat /\ RunAhead \in Nat \ {0} /\ Said = F + RunAhead
      /\ (other.member = 0 \/ other.member = 1) /\ other.seen \in {0, 1}
  BY <1>0, Frames
<1>1. /\ UNCHANGED <<player, fetch>> /\ log' = Append(log, e)
      /\ F + RunAhead + 2 < Never
      /\ Needed(F) => F < other.has
  BY DEF RunFrame
<1>2. other \in OtherType /\ player \in PlayerType
  BY <1>0 DEF Types
<1>e. e.kind = "other" /\ e.frame = Said /\ (e.rejoin <=> other.issued = Said)
  BY <1>F DEF Info
<1>v. v \in Int
  BY <1>F DEF Nobody
<1>3. /\ other'.frame = F + 1 /\ other'.ran = Append(other.ran, v) /\ other'.seen = other.seen
      /\ back => /\ other'.join = F + 1 /\ other'.leave = Never /\ other'.has = F + 1
                 /\ other'.member = other.seen /\ other'.issued = Never
      /\ ~back => /\ other'.join = other.join /\ other'.leave = other.leave
                  /\ other'.has = other.has /\ other'.member = other.member
                  /\ other'.issued = other.issued
      /\ other' \in OtherType
  <2> DEFINE ran == [other EXCEPT !.ran = Append(@, v)]
             after == IF back THEN TakenBack(ran) ELSE ran
  <2>1. other' = [after EXCEPT !.frame = @ + 1]
    BY DEF RunFrame
  <2>2. /\ ran \in OtherType /\ ran.ran = Append(other.ran, v) /\ ran.frame = F
        /\ ran.join = other.join /\ ran.leave = other.leave /\ ran.has = other.has
        /\ ran.member = other.member /\ ran.issued = other.issued /\ ran.seen = other.seen
    <3>1. other.ran \in Seq(Int)
      BY <1>2 DEF OtherType
    <3>2. Append(other.ran, v) \in Seq(Int)
      BY <1>v, <3>1
    <3> HIDE DEF v
    <3> QED BY <1>2, <3>2 DEF OtherType
  <2> HIDE DEF ran
  <2>3. CASE back
    <3>1. after = [ran EXCEPT !.join = F + 1, !.leave = Never, !.has = F + 1,
                      !.member = ran.seen, !.streamFrom = F + RunAhead, !.issued = Never]
      BY <2>2, <2>3 DEF TakenBack
    <3>2. F + 1 \in Nat /\ F + RunAhead \in Nat
      BY <1>F
    <3> HIDE DEF after
    <3>3. /\ after \in OtherType /\ after.ran = ran.ran /\ after.frame = F /\ after.seen = ran.seen
          /\ after.join = F + 1 /\ after.leave = Never /\ after.has = F + 1
          /\ after.member = ran.seen /\ after.issued = Never
      BY <1>F, <2>2, <3>1, <3>2 DEF OtherType
    <3>4. other' \in OtherType /\ other'.frame = F + 1 /\ other'.ran = after.ran
          /\ other'.seen = after.seen /\ other'.join = after.join /\ other'.leave = after.leave
          /\ other'.has = after.has /\ other'.member = after.member /\ other'.issued = after.issued
      BY <2>1, <3>2, <3>3 DEF OtherType
    <3> QED BY <2>2, <2>3, <3>3, <3>4
  <2>4. CASE ~back
    <3>1. after = ran /\ F + 1 \in Nat
      BY <1>F, <2>4
    <3> HIDE DEF after
    <3>2. other' \in OtherType /\ other'.frame = F + 1 /\ other'.ran = after.ran
          /\ other'.seen = after.seen /\ other'.join = after.join /\ other'.leave = after.leave
          /\ other'.has = after.has /\ other'.member = after.member /\ other'.issued = after.issued
      BY <2>1, <2>2, <3>1 DEF OtherType
    <3> QED BY <2>2, <2>4, <3>1, <3>2
  <2> QED BY <2>3, <2>4
<1> HIDE DEF e
<1>4. /\ Early' = Early /\ Late' = Late /\ Drops' = Drops
      /\ Returns' = Returns \cup (IF other.issued = Said THEN {Said} ELSE {})
  BY <1>0, <1>1, <1>e, Grown
<1>5. Said' = Said + 1
  BY <1>3, <1>F DEF Said
<1>7. Early \subseteq Nat /\ Late \subseteq Nat /\ Drops \subseteq Nat /\ Returns \subseteq Nat
  BY <1>0 DEF OwnInv
\* The slot while a REJOIN is issued.
<1>8. other.issued # Never =>
        /\ other.issued \in F .. Said /\ other.leave # Never /\ other.leave \in Drops
        /\ other.leave \in Nat /\ other.leave <= F /\ Drops = {other.leave}
        /\ other.member = 0 /\ other.seen = 1 /\ player.generation = 1
        /\ Returns = (IF other.issued < Said THEN {other.issued} ELSE {})
  <2> SUFFICES ASSUME other.issued # Never
               PROVE  /\ other.issued \in F .. Said /\ other.leave # Never /\ other.leave \in Drops
                      /\ other.leave \in Nat /\ other.leave <= F /\ Drops = {other.leave}
                      /\ other.member = 0 /\ other.seen = 1 /\ player.generation = 1
                      /\ Returns = (IF other.issued < Said THEN {other.issued} ELSE {})
    OBVIOUS
  <2>1. /\ other.issued \in F .. Said /\ other.leave # Never /\ other.member = 0 /\ other.seen = 1
        /\ other.leave \in Drops /\ other.leave <= F /\ player.generation = 1
    BY <1>0 DEF OtherInv
  <2>2. Drops = {other.leave} /\ Returns = (IF other.issued < Said THEN {other.issued} ELSE {})
    BY <1>0, <2>1 DEF FirstInv
  <2> QED BY <1>7, <2>1, <2>2
<1>9. other.issued = Said => /\ Returns = {} /\ Late = {} /\ (\A f \in Early \cup Late : f < Said)
  <2> SUFFICES ASSUME other.issued = Said
               PROVE  Returns = {} /\ Late = {} /\ (\A f \in Early \cup Late : f < Said)
    OBVIOUS
  <2>1. other.issued # Never /\ Returns = {}
    BY <1>8, <1>F
  <2>2. Late = {}
    BY <1>0, <2>1 DEF OwnInv
  <2>3. \A f \in Early : f < other.leave /\ other.leave \in Nat /\ other.leave <= F
    BY <1>0, <1>8, <2>1 DEF OwnInv
  <2>4. \A f \in Early : f < Said
    BY <1>7, <1>F, <2>3
  <2> QED BY <2>1, <2>2, <2>4
<1>10. StillSettled
  <2>1. ASSUME NEW g \in Nat, NEW w, Settled(g, w) PROVE Settled(g, w)'
    <3>1. Said' \in Nat /\ Said <= Said'
      BY <1>5, <1>F
    <3>2. CASE other.issued = Said
      <4>1. Returns' = Returns \cup {Said}
        BY <1>4, <3>2
      <4> QED BY <1>4, <1>7, <1>9, <1>F, <2>1, <3>1, <3>2, <4>1, SettledAtReturn
    <3>3. CASE other.issued # Said
      <4>1. Returns' = Returns
        BY <1>4, <3>3
      <4> QED BY <1>4, <1>F, <2>1, <3>1, <4>1, StaysSettled
    <3> QED BY <3>2, <3>3
  <2> QED BY <2>1 DEF StillSettled
<1>11. OthersInv'
  <2>1. e.rejoin => Positions("rejoined", log) # {}
    <3> SUFFICES ASSUME other.issued = Said PROVE Positions("rejoined", log) # {}
      BY <1>e
    <3>1. player.generation = 1
      BY <1>8, <1>F
    <3> QED BY <1>0, <3>1 DEF RejoinedInv
  <2>2. OthersOf(log, Said)
    BY <1>0 DEF OthersInv
  <2>3. OthersOf(Append(log, e), Said + 1)
    BY <1>0, <1>e, <1>F, <2>1, <2>2, OthersGo
  <2> QED BY <1>1, <1>5, <2>3 DEF OthersInv
<1>12. RejoinedInv'
  BY <1>0, <1>1, <1>e, RejoinedStays
\* The frame that is run now.
<1>c. PICK now, whose : now = F /\ whose = v
  OBVIOUS
<1>n. now = F /\ now \in Nat /\ whose = v
  BY <1>c, <1>F
<1>13. Settled(now, whose)'
  <2>1. F < Said' /\ (other.issued = Said => ~(Said < F))
    BY <1>n, <1>5, <1>F
  <2>2. other.leave # Never => other.leave \in Drops /\ other.leave \in Nat /\ other.leave <= F
    BY <1>n, <1>0, <1>7 DEF OtherInv
  <2>3. CASE Needed(F)
    <3>1. other.join <= F /\ F < other.leave /\ F < other.has /\ v = other.member
      BY <1>n, <1>1, <2>3 DEF Needed
    <3>2. other.leave = Never /\ other.issued = Never
      BY <1>n, <1>8, <1>F, <2>2, <3>1
    <3>3. Returns' = Returns
      BY <1>n, <1>4, <1>F, <3>2
    <3>4. CASE other.member = 0
      <4>1. Drops = {} /\ Returns = {} /\ F \in Early
        BY <1>n, <1>0, <1>F, <3>1, <3>2, <3>4 DEF FirstInv
      <4>2. Fate(now)' = 0
        BY <1>n, <1>4, <3>3, <4>1 DEF Fate, Back, Out
      <4>3. F \in Early'
        BY <1>n, <1>4, <4>1
      <4> QED BY <1>n, <3>1, <3>4, <4>2, <4>3 DEF Settled, Nobody
    <3>5. CASE other.member = 1
      <4>1. /\ Returns = {other.join - 1} /\ other.join \in 1 .. F /\ F \in Late
            /\ {d \in Drops : d >= other.join} = {}
        BY <1>n, <1>0, <1>F, <3>1, <3>2, <3>5 DEF SecondInv
      <4>2. Back(now)'
        BY <1>n, <1>F, <3>3, <4>1 DEF Back
      <4>3. ~OutAgain(now)'
        <5> SUFFICES ASSUME NEW d \in Drops, other.join - 1 < d PROVE FALSE
          BY <1>n, <1>4, <3>3, <4>1 DEF OutAgain
        <5>1. d >= other.join
          BY <1>n, <1>7, <1>F, <4>1
        <5> QED BY <1>n, <4>1, <5>1
      <4>4. Fate(now)' = 1
        BY <1>n, <4>2, <4>3 DEF Fate
      <4>5. F \in Late'
        BY <1>n, <1>4, <4>1
      <4> QED BY <1>n, <3>1, <3>5, <4>4, <4>5 DEF Settled, Nobody
    <3> QED BY <1>n, <1>F, <3>4, <3>5
  <2>4. CASE ~Needed(F)
    <3>1. v = Nobody
      BY <1>n, <2>4
    <3>2. other.join <= F
      <4>1. CASE other.member = 0
        BY <1>n, <1>0, <1>F, <4>1 DEF FirstInv
      <4>2. CASE other.member = 1
        BY <1>n, <1>0, <1>F, <4>2 DEF SecondInv
      <4> QED BY <1>n, <1>F, <4>1, <4>2
    <3>3. other.leave # Never
      BY <1>n, <1>F, <2>4, <3>2 DEF Needed
    <3>4. Out(now)'
      BY <1>n, <1>4, <2>2, <3>3 DEF Out
    <3>5. ~Back(now)' \/ OutAgain(now)'
      <4>1. CASE other.member = 0
        <5>1. \A r \in Returns : r = other.issued /\ other.issued # Never
          BY <1>0, <4>1 DEF FirstInv
        <5>2. \A r \in Returns : r \in Nat /\ r >= F
          BY <1>7, <1>8, <1>F, <5>1
        <5>3. \A r \in Returns' : r \in Nat /\ r >= now
          BY <1>n, <1>4, <1>F, <5>2
        <5>4. \A r \in Returns' : ~(r < now)
          BY <1>n, <5>3
        <5> QED BY <5>4 DEF Back
      <4>2. CASE other.member = 1
        <5>1. /\ Returns = {other.join - 1} /\ other.join \in 1 .. F
              /\ other.leave \in {d \in Drops : d >= other.join}
          BY <1>n, <1>0, <1>F, <3>3, <4>2 DEF SecondInv
        <5>2. other.join - 1 < other.leave /\ other.leave \in Drops
          <6>1. other.leave \in Drops /\ other.leave >= other.join
            BY <5>1, Zenon
          <6>2. other.leave \in Nat
            BY <1>7, <6>1, Zenon
          <6>3. other.join \in Nat
            BY <1>F, <5>1
          <6>4. PICK x, y : x = other.join /\ y = other.leave
            OBVIOUS
          <6>5. x \in Nat /\ y \in Nat /\ y >= x
            BY <6>1, <6>2, <6>3, <6>4
          <6>6. x - 1 < y
            BY <6>5
          <6> QED BY <6>1, <6>4, <6>6
        <5>3. Returns' = Returns
          BY <1>n, <1>4, <1>8, <1>F, <4>2
        <5> QED BY <1>n, <1>4, <2>2, <3>3, <5>1, <5>2, <5>3 DEF OutAgain
      <4> QED BY <1>n, <1>F, <4>1, <4>2
    <3>6. Fate(now)' = Nobody
      BY <1>n, <3>4, <3>5 DEF Fate
    <3> QED BY <1>n, <2>1, <3>1, <3>6 DEF Settled, Nobody
  <2> QED BY <1>n, <2>3, <2>4
<1>14. RanInv'
  <2>1. other.ran \in Seq(Int) /\ DOMAIN other.ran = 1 .. F /\ Len(other.ran) = F
    BY <1>0, <1>2, <1>F DEF RanInv, OtherType
  <2>2. /\ DOMAIN other'.ran = 1 .. F + 1 /\ other'.ran[F + 1] = v
        /\ \A i \in 1 .. F : other'.ran[i] = other.ran[i]
    BY <1>3, <1>v, <2>1
  <2>3. ASSUME NEW g \in 0 .. F PROVE Settled(g, other.ran[g + 1])'
    <3>1. CASE g = F
      <4>1. Settled(now, whose)' /\ now = g /\ other'.ran[g + 1] = whose
        BY <1>n, <1>13, <2>2, <3>1
      <4> QED BY <4>1 DEF Settled
    <3>2. CASE g # F
      <4>1. PICK w : w = other.ran[g + 1]
        OBVIOUS
      <4>2. g \in 0 .. F - 1 /\ g \in Nat
        BY <1>F, <3>2
      <4>3. Settled(g, w)
        BY <1>0, <4>1, <4>2 DEF RanInv
      <4>4. Settled(g, w)'
        BY <1>10, <4>2, <4>3 DEF StillSettled
      <4>5. other'.ran[g + 1] = w
        BY <1>F, <2>2, <4>1, <4>2
      <4> QED BY <4>4, <4>5 DEF Settled
    <3> QED BY <3>1, <3>2
  <2>4. (F + 1) - 1 = F
    BY <1>F
  <2> HIDE DEF v
  <2> QED BY <1>3, <2>2, <2>3, <2>4 DEF RanInv
<1> HIDE DEF v
<1>15. OtherInv'
  <2>0. player' = player
    BY <1>1
  <2>1. /\ other'.frame \in Nat \ {0} /\ Said' + 1 < Never /\ other'.has \in Nat
        /\ player'.generation \in 0 .. 1 /\ other'.seen \in 0 .. player'.generation
    <3>1. player.generation \in 0 .. 1 /\ other.seen \in 0 .. player.generation
      BY <1>0 DEF OtherInv
    <3>2. other'.has \in Nat /\ other'.frame \in Nat \ {0}
      BY <1>3, <1>F
    <3>3. Said' + 1 < Never
      BY <1>1, <1>5, <1>F
    <3> QED BY <1>3, <2>0, <3>1, <3>2, <3>3
  <2>2. other'.member \in 0 .. other'.seen
    <3>1. other.member \in 0 .. other.seen
      BY <1>0 DEF OtherInv
    <3>2. CASE back
      BY <1>3, <1>F, <3>2
    <3>3. CASE ~back
      BY <1>3, <3>1, <3>3
    <3> QED BY <3>2, <3>3
  <2>3. other'.issued # Never =>
          /\ other'.issued \in other'.frame .. Said' /\ other'.leave # Never
          /\ other'.member = 0 /\ other'.seen = 1
    <3> SUFFICES ASSUME other'.issued # Never
                 PROVE  /\ other'.issued \in other'.frame .. Said' /\ other'.leave # Never
                        /\ other'.member = 0 /\ other'.seen = 1
      OBVIOUS
    <3>1. ~back
      BY <1>3
    <3>2. other'.issued = other.issued /\ other'.leave = other.leave /\ other'.member = other.member
      BY <1>3, <3>1
    <3>3. other.issued \in F .. Said /\ other.leave # Never /\ other.member = 0 /\ other.seen = 1
      BY <1>8, <3>2
    <3>4. other.issued \in F + 1 .. Said + 1
      BY <1>F, <3>1, <3>3
    <3> QED BY <1>3, <1>5, <3>2, <3>3, <3>4
  <2>4. other'.leave # Never => other'.leave \in Drops' /\ other'.leave <= other'.frame
    <3>1. other.leave # Never => other.leave \in Drops /\ other.leave <= F /\ other.leave \in Nat
      BY <1>0, <1>7 DEF OtherInv
    <3>2. CASE back
      BY <1>3, <3>2
    <3>3. CASE ~back
      BY <1>3, <1>4, <1>F, <3>1, <3>3
    <3> QED BY <3>2, <3>3
  <2> QED BY <2>1, <2>2, <2>3, <2>4 DEF OtherInv
<1>16. FirstInv'
  <2> SUFFICES ASSUME other'.member = 0 PROVE FirstInv'
    BY DEF FirstInv
  <2>1. ~back
    BY <1>3, <1>8, <1>F
  <2>2. other.member = 0
    BY <1>3, <2>1
  <2>3. /\ other.join = 0 /\ Drops = (IF other.leave = Never THEN {} ELSE {other.leave})
        /\ Returns = (IF other.issued # Never /\ other.issued < Said THEN {other.issued} ELSE {})
        /\ other.leave = Never => F <= other.has
        /\ 0 .. other.has - 1 \subseteq Early
    BY <1>0, <2>2 DEF FirstInv
  <2>4. Returns' = (IF other'.issued # Never /\ other'.issued < Said' THEN {other'.issued} ELSE {})
    <3>1. CASE other.issued = Never
      BY <1>3, <1>4, <1>F, <2>1, <2>3, <3>1
    <3>2. CASE other.issued # Never
      <4>1. other.issued \in F .. Said /\ other.issued < Said + 1
        BY <1>8, <1>F, <3>2
      <4>2. other.issued = Said \/ other.issued < Said
        BY <1>F, <4>1
      <4> QED BY <1>3, <1>4, <1>5, <1>F, <2>1, <2>3, <3>2, <4>1, <4>2
    <3> QED BY <3>1, <3>2
  <2>5. other.leave = Never => F + 1 <= other.has
    <3> SUFFICES ASSUME other.leave = Never PROVE F + 1 <= other.has
      OBVIOUS
    <3>1. Needed(F)
      BY <1>F, <2>3 DEF Needed
    <3> QED BY <1>1, <1>F, <3>1
  <2> QED BY <1>3, <1>4, <2>1, <2>3, <2>4, <2>5 DEF FirstInv
<1>17. SecondInv'
  <2> SUFFICES ASSUME other'.member = 1 PROVE SecondInv'
    BY DEF SecondInv
  <2>1. CASE back
    <3>1. /\ other.issued # Never /\ Returns = {F} /\ Drops = {other.leave}
          /\ other.leave \in Nat /\ other.leave <= F
      BY <1>8, <1>F, <2>1
    <3>2. Returns' = {F}
      BY <1>4, <1>F, <2>1, <3>1
    <3>3. (F + 1) - 1 = F /\ F + 1 \in 1 .. F + 1 /\ (F + 1) .. (F + 1) - 1 = {} /\ F + 1 >= F + 1
      BY <1>F
    <3>4. (\E d \in Drops : d < F + 1) /\ {d \in Drops : d >= F + 1} = {}
      BY <1>F, <3>1
    <3> QED BY <1>3, <1>4, <2>1, <3>2, <3>3, <3>4 DEF SecondInv
  <2>2. CASE ~back
    <3>1. other.member = 1 /\ other.issued = Never
      BY <1>3, <1>8, <2>2
    <3>2. Returns' = Returns
      BY <1>4, <1>F, <3>1
    <3>3. /\ other.join \in 1 .. F /\ Returns = {other.join - 1}
          /\ \E d \in Drops : d < other.join
          /\ {d \in Drops : d >= other.join} = (IF other.leave = Never THEN {} ELSE {other.leave})
          /\ other.has >= other.join /\ other.join .. other.has - 1 \subseteq Late
      BY <1>0, <3>1 DEF SecondInv
    <3>4. other.join \in 1 .. F + 1
      BY <1>F, <3>3
    <3> QED BY <1>3, <1>4, <2>2, <3>2, <3>3, <3>4 DEF SecondInv
  <2> QED BY <2>1, <2>2
<1>18. OwnInv'
  <2>1. CASE other.issued # Said
    <3>1. Returns' = Returns
      BY <1>4, <2>1
    <3> QED BY <1>0, <1>4, <3>1 DEF OwnInv
  <2>2. CASE other.issued = Said
    <3>1. Returns' = {Said} /\ Late = {} /\ \E d \in Drops : d <= Said
      <4>1. other.issued # Never
        BY <1>F, <2>2
      <4>2. other.leave \in Drops /\ other.leave <= Said
        BY <1>8, <1>F, <4>1
      <4> QED BY <1>4, <1>9, <2>2, <4>2
    <3>2. /\ \A g \in Early : 0 .. g \subseteq Early
          /\ \A g \in Early, d \in Drops : g < d
          /\ \A d \in Drops : (\A f \in Drops : d <= f) => 0 .. d - 1 \subseteq Early
      BY <1>0 DEF OwnInv
    <3> QED BY <1>4, <1>7, <1>F, <3>1, <3>2 DEF OwnInv
  <2> QED BY <2>1, <2>2
<1>19. PlayerInv'
  <2>1. Running => \A r \in Returns', d \in Drops' : d <= r
    <3> SUFFICES ASSUME Running PROVE \A r \in Returns', d \in Drops' : d <= r
      OBVIOUS
    <3>1. \A r \in Returns, d \in Drops : d <= r
      BY <1>0 DEF PlayerInv
    <3>2. other.issued = Said => \A d \in Drops : d <= Said
      BY <1>8, <1>F
    <3> QED BY <1>4, <3>1, <3>2
  <2>2. player.state = "live" => Returns' = Returns
    <3> SUFFICES ASSUME player.state = "live" PROVE other.issued # Said
      BY <1>4
    <3>1. Returns # {}
      BY <1>0 DEF PlayerInv
    <3> QED BY <1>9, <3>1
  <2>3. Late' = Late /\ Said' \in Nat /\ Said <= Said'
    BY <1>4, <1>5, <1>F
  <2> QED BY <1>0, <1>1, <1>10, <1>F, <2>1, <2>2, <2>3, PlayerStays
<1>20. Types'
  BY <1>1, <1>2, <1>3 DEF Types
<1>21. FetchInv'
  BY <1>0, FetchStep DEF Next, Others
<1> QED BY <1>11, <1>12, <1>14, <1>15, <1>16, <1>17, <1>18, <1>19, <1>20, <1>21 DEF RestartInv

\* A log that tells the same of the slot, to the same others.
LEMMA SameTold ==
    ASSUME RestartInv, Early' = Early, Late' = Late, Drops' = Drops, Returns' = Returns,
           UNCHANGED other, player'.generation \in {player.generation, 1}
    PROVE  OtherInv' /\ FirstInv' /\ SecondInv' /\ OwnInv' /\ RanInv' /\ StillSettled /\ Said' = Said
<1>0. OtherInv /\ FirstInv /\ SecondInv /\ OwnInv /\ RanInv
  BY DEF RestartInv
<1>1. Said' = Said
  BY DEF Said
<1>2. OtherInv'
  <2>1. player.generation \in 0 .. 1 /\ player'.generation \in 0 .. 1
        /\ player.generation <= player'.generation
    BY <1>0 DEF OtherInv
  <2> QED BY <1>0, <1>1, <2>1 DEF OtherInv
<1>3. FirstInv' /\ SecondInv' /\ OwnInv'
  BY <1>0, <1>1 DEF FirstInv, SecondInv, OwnInv
<1>4. Early \subseteq Early' /\ Late \subseteq Late' /\ Said \in Nat /\ Said' \in Nat /\ Said <= Said'
  BY <1>0, <1>1, Frames
<1>5. StillSettled
  <2>1. ASSUME NEW g \in Nat, NEW v, Settled(g, v) PROVE Settled(g, v)'
    BY <1>4, <2>1, StaysSettled
  <2> QED BY <2>1 DEF StillSettled
<1>6. RanInv'
  BY <1>0, <1>5, OthersRan
<1> QED BY <1>1, <1>2, <1>3, <1>5, <1>6

\* A step of the player's process alone.
LEMMA PlayerAlone ==
    ASSUME RestartInv, UNCHANGED <<log, other>>, player' \in PlayerType,
           player'.generation = player.generation, FetchInv', PlayerInv'
    PROVE  RestartInv'
<1>0. OtherInv /\ FirstInv /\ SecondInv /\ OthersInv /\ RejoinedInv /\ OwnInv /\ RanInv /\ Types
  BY DEF RestartInv
<1>1. OthersInv' /\ RejoinedInv' /\ OtherInv' /\ FirstInv' /\ SecondInv' /\ OwnInv' /\ RanInv'
  BY <1>0, OnlyPlayer
<1>2. Types'
  BY <1>0 DEF Types
<1> QED BY <1>1, <1>2 DEF RestartInv

\* One that goes on as it was.
LEMMA PlayerWaits ==
    ASSUME RestartInv, UNCHANGED <<log, other>>, player' \in PlayerType, FetchInv',
           player'.ran = player.ran, player'.frame = player.frame, player'.join = player.join,
           player'.announced = player.announced, player'.generation = player.generation,
           player'.state = player.state
    PROVE  RestartInv'
<1>0. /\ OtherInv /\ FirstInv /\ SecondInv /\ OthersInv /\ RejoinedInv /\ OwnInv /\ RanInv
      /\ Types /\ PlayerInv
  BY DEF RestartInv
<1>1. /\ Early' = Early /\ Late' = Late /\ Drops' = Drops /\ Returns' = Returns /\ Said' = Said
      /\ StillSettled
  BY <1>0, OnlyPlayer DEF StillSettled
<1>2. Said \in Nat /\ Said' \in Nat /\ Said <= Said'
  BY <1>0, <1>1, Frames
<1>3. Running => \A r \in Returns', d \in Drops' : d <= r
  BY <1>0, <1>1 DEF PlayerInv
<1>4. PlayerInv'
  BY <1>0, <1>1, <1>2, <1>3, PlayerStays
<1> QED BY <1>4, PlayerAlone

LEMMA CrashKeeps ==
    ASSUME RestartInv, Crash
    PROVE  RestartInv'
<1>0. Types /\ PlayerInv /\ FetchInv
  BY DEF RestartInv
<1>1. /\ UNCHANGED <<log, other>> /\ player' = [player EXCEPT !.state = "off"] /\ Running
  BY DEF Crash
<1>2. player \in PlayerType
  BY <1>0 DEF Types
<1>3. /\ player' \in PlayerType /\ player'.state = "off"
      /\ player'.generation = player.generation
  BY <1>1, <1>2 DEF PlayerType, PlayerStates
<1>4. player.generation = 1
  BY <1>0, <1>1 DEF PlayerInv
<1>5. PlayerInv'
  BY <1>3, <1>4 DEF PlayerInv, Running
<1>6. FetchInv'
  BY <1>0, FetchStep DEF Next
<1> QED BY <1>1, <1>3, <1>5, <1>6, PlayerAlone

LEMMA HearKeeps ==
    ASSUME RestartInv, Hear
    PROVE  RestartInv'
<1>0. Types /\ FetchInv
  BY DEF RestartInv
<1>1. /\ UNCHANGED <<log, other, fetch>>
      /\ player' = [player EXCEPT !.stream = other.frame + RunAhead - other.streamFrom]
  BY DEF Hear
<1>2. player \in PlayerType /\ other \in OtherType
  BY <1>0 DEF Types
<1>3. other.frame + RunAhead - other.streamFrom \in Int
  BY <1>2, RejoinAssumption DEF OtherType
<1>4. /\ player' \in PlayerType /\ player'.ran = player.ran /\ player'.frame = player.frame
      /\ player'.join = player.join /\ player'.announced = player.announced
      /\ player'.generation = player.generation /\ player'.state = player.state
  BY <1>1, <1>2, <1>3 DEF PlayerType
<1>5. FetchInv'
  BY <1>0, FetchStep DEF Next, Client
<1> QED BY <1>1, <1>4, <1>5, PlayerWaits

LEMMA ReadTailKeeps ==
    ASSUME RestartInv, NEW sizes \in Arrivals, ReadTail(sizes)
    PROVE  RestartInv'
<1>0. Types /\ FetchInv
  BY DEF RestartInv
<1>1. UNCHANGED <<log, other, player>>
  BY DEF ReadTail
<1>2. player' \in PlayerType
  BY <1>0, <1>1 DEF Types
<1>3. FetchInv'
  BY <1>0, FetchStep DEF Next, Client, Fetches
<1> QED BY <1>1, <1>2, <1>3, PlayerWaits

\* The player runs a frame in lockstep: it announced that frame, so it was
\* not dropped at it, and the others run it with the player's commands.
LEMMA RunLiveKeeps ==
    ASSUME RestartInv, RunLive
    PROVE  RestartInv'
<1> DEFINE F == player.frame
<1>0. /\ OtherInv /\ FirstInv /\ SecondInv /\ OthersInv /\ RejoinedInv /\ OwnInv /\ RanInv
      /\ Types /\ PlayerInv /\ FetchInv
  BY DEF RestartInv
<1>1. /\ UNCHANGED <<log, other, fetch>> /\ player.state = "live"
      /\ player.announced = F + RunAhead - 1
      /\ player' = [player EXCEPT !.frame = @ + 1, !.ran = Append(@, player.generation)]
  BY DEF RunLive
<1>2. player \in PlayerType /\ Running
  BY <1>0, <1>1 DEF Types, Running
<1>3. /\ player.generation = 1 /\ F \in Nat /\ DOMAIN player.ran = 1 .. F
      /\ \A g \in 0 .. F - 1 : Settled(g, player.ran[g + 1])
      /\ \A r \in Returns, d \in Drops : d <= r
      /\ player.join \in Nat \ {0} /\ player.announced \in Nat
      /\ Returns = {player.join - 1} /\ Late = player.join .. player.announced
      /\ player.join - 1 <= player.announced /\ player.join <= F
  BY <1>0, <1>1, <1>2 DEF PlayerInv
<1>4. player.ran \in Seq(Int) /\ Append(player.ran, 1) \in Seq(Int)
  BY <1>2 DEF PlayerType
<1>5. /\ player' \in PlayerType /\ player'.frame = F + 1 /\ player'.ran = Append(player.ran, 1)
      /\ player'.join = player.join /\ player'.announced = player.announced
      /\ player'.generation = player.generation /\ player'.state = "live"
  <2>1. player' = [player EXCEPT !.frame = F + 1, !.ran = Append(player.ran, 1)]
    BY <1>1, <1>3
  <2>2. F + 1 \in Nat
    BY <1>3
  <2>3. PICK f, r : f = F + 1 /\ r = Append(player.ran, 1)
    OBVIOUS
  <2>4. f \in Nat /\ r \in Seq(Int) /\ player' = [player EXCEPT !.frame = f, !.ran = r]
    BY <1>4, <2>1, <2>2, <2>3
  <2>5. /\ player' \in PlayerType /\ player'.frame = f /\ player'.ran = r
        /\ player'.join = player.join /\ player'.announced = player.announced
        /\ player'.generation = player.generation /\ player'.state = player.state
    BY <1>2, <2>4 DEF PlayerType
  <2> QED BY <1>1, <2>3, <2>5
<1>6. /\ Early' = Early /\ Late' = Late /\ Drops' = Drops /\ Returns' = Returns /\ Said' = Said
      /\ StillSettled
  BY <1>0, <1>1, <1>5, OnlyPlayer DEF StillSettled
<1>7. PICK now : now = F
  OBVIOUS
<1>8. Settled(now, 1)'
  <2>1. now \in Late
    BY <1>1, <1>3, <1>7, RejoinAssumption
  <2>2. Back(now)
    BY <1>3, <1>7 DEF Back
  <2>3. ~OutAgain(now)
    <3> SUFFICES ASSUME NEW r \in Returns, NEW d \in Drops, r < d PROVE FALSE
      BY DEF OutAgain
    <3>1. d <= r /\ d \in Nat /\ r \in Nat
      BY <1>0, <1>3 DEF OwnInv
    <3> QED BY <3>1
  <2>4. Fate(now) = 1
    BY <2>2, <2>3 DEF Fate
  <2>5. Settled(now, 1)
    BY <2>1, <2>4 DEF Settled, Nobody
  <2> QED BY <1>3, <1>6, <1>7, <2>5 DEF StillSettled
<1>9. /\ DOMAIN player'.ran = 1 .. F + 1 /\ player'.ran[F + 1] = 1
      /\ \A i \in 1 .. F : player'.ran[i] = player.ran[i]
  <2>1. Len(player.ran) = F
    BY <1>3, <1>4
  <2> QED BY <1>3, <1>4, <1>5, <2>1
<1>10. ASSUME NEW g \in 0 .. F PROVE Settled(g, player.ran[g + 1])'
  <2>1. CASE g = F
    <3>1. Settled(now, 1)' /\ now = g /\ player'.ran[g + 1] = 1
      BY <1>7, <1>8, <1>9, <2>1
    <3> QED BY <3>1 DEF Settled
  <2>2. CASE g # F
    <3>1. PICK w : w = player.ran[g + 1]
      OBVIOUS
    <3>2. g \in 0 .. F - 1 /\ g \in Nat /\ g + 1 \in 1 .. F
      BY <1>3, <2>2
    <3>3. Settled(g, w)
      BY <1>3, <3>1, <3>2
    <3>4. Settled(g, w)' /\ player'.ran[g + 1] = w
      BY <1>6, <1>9, <3>1, <3>2, <3>3 DEF StillSettled
    <3> QED BY <3>4 DEF Settled
  <2> QED BY <2>1, <2>2
<1>11. (F + 1) - 1 = F /\ F + 1 \in Nat /\ player.join <= F + 1
  BY <1>3
<1> HIDE DEF F
<1>12. PlayerInv'
  BY <1>3, <1>5, <1>6, <1>9, <1>10, <1>11 DEF PlayerInv
<1>13. FetchInv'
  BY <1>0, FetchStep DEF Next, Client
<1> QED BY <1>1, <1>5, <1>12, <1>13, PlayerAlone

\* The player announces its next frame, behind the REJOIN it goes by.
LEMMA AnnounceKeeps ==
    ASSUME RestartInv, Announce
    PROVE  RestartInv'
<1> DEFINE e == OwnInfo(player.announced + 1)
<1>0. /\ OtherInv /\ FirstInv /\ SecondInv /\ OthersInv /\ RejoinedInv /\ OwnInv /\ RanInv
      /\ Types /\ PlayerInv /\ FetchInv /\ IsLog(log)
  BY DEF RestartInv, FetchInv
<1>1. /\ UNCHANGED <<other, fetch>> /\ player.state = "live"
      /\ log' = Append(log, e) /\ e.kind = "own" /\ e.frame = player.announced + 1
      /\ player' = [player EXCEPT !.announced = @ + 1]
  BY DEF Announce, OwnInfo
<1> HIDE DEF e
<1>2. player \in PlayerType /\ Running
  BY <1>0, <1>1 DEF Types, Running
<1>3. /\ player.generation = 1
      /\ \A r \in Returns, d \in Drops : d <= r
      /\ player.join \in Nat \ {0} /\ player.announced \in Nat
      /\ Returns = {player.join - 1} /\ Late = player.join .. player.announced
      /\ player.join - 1 <= player.announced /\ player.join <= player.frame
  BY <1>0, <1>1, <1>2 DEF PlayerInv
<1>4. /\ player' \in PlayerType /\ player'.ran = player.ran /\ player'.frame = player.frame
      /\ player'.join = player.join /\ player'.announced = player.announced + 1
      /\ player'.generation = player.generation /\ player'.state = "live"
  <2>1. PICK m : m = player.announced + 1
    OBVIOUS
  <2>2. m \in Int /\ player' = [player EXCEPT !.announced = m]
    BY <1>1, <1>3, <2>1
  <2>3. /\ player' \in PlayerType /\ player'.ran = player.ran /\ player'.frame = player.frame
        /\ player'.join = player.join /\ player'.announced = m
        /\ player'.generation = player.generation /\ player'.state = player.state
    BY <1>2, <2>2 DEF PlayerType
  <2> QED BY <1>1, <2>1, <2>3
<1>5. /\ Early' = Early /\ Drops' = Drops /\ Returns' = Returns /\ Said' = Said
      /\ Late' = Late \cup {player.announced + 1}
  <2>1. /\ Drops' = Drops \cup (IF e.kind = "drop" THEN {e.frame} ELSE {})
        /\ Returns' = Returns \cup (IF e.kind = "other" /\ e.rejoin THEN {e.frame} ELSE {})
        /\ Early' = Early \cup (IF e.kind = "own" /\ player.generation = 0 THEN {e.frame} ELSE {})
        /\ Late' = Late \cup (IF e.kind = "own" /\ player.generation = 1 THEN {e.frame} ELSE {})
    BY <1>0, <1>1, Grown
  <2>2. Said' = Said
    BY <1>1 DEF Said
  <2> QED BY <1>1, <1>3, <2>1, <2>2
<1>6. Late' = player.join .. player.announced + 1
  BY <1>3, <1>5
<1>7. Said \in Nat /\ Said' \in Nat /\ Said <= Said' /\ Late \subseteq Late' /\ Early \subseteq Early'
  BY <1>0, <1>5, Frames
<1>8. StillSettled
  <2>1. ASSUME NEW g \in Nat, NEW v, Settled(g, v) PROVE Settled(g, v)'
    BY <1>5, <1>7, <2>1, StaysSettled
  <2> QED BY <2>1 DEF StillSettled
<1>9. RanInv'
  BY <1>0, <1>1, <1>8, OthersRan
<1>10. OthersInv' /\ RejoinedInv'
  BY <1>0, <1>1, <1>4, <1>5, OthersStay, RejoinedStays DEF OthersInv
<1>11. OtherInv' /\ FirstInv' /\ SecondInv'
  <2>1. OtherInv'
    BY <1>0, <1>1, <1>4, <1>5 DEF OtherInv
  <2>2. FirstInv'
    BY <1>0, <1>1, <1>5 DEF FirstInv
  <2>3. SecondInv'
    BY <1>0, <1>1, <1>5, <1>7 DEF SecondInv
  <2> QED BY <2>1, <2>2, <2>3
<1>12. OwnInv'
  <2>1. Late' \subseteq Nat
    BY <1>3, <1>6
  <2>2. ASSUME NEW g \in Late' PROVE \E r \in Returns' : r < g /\ r + 1 .. g \subseteq Late'
    <3>1. g \in player.join .. player.announced + 1
      BY <1>6
    <3>2. player.join - 1 < g /\ (player.join - 1) + 1 = player.join
      BY <1>3, <3>1
    <3>3. player.join .. g \subseteq Late'
      BY <1>3, <1>6, <3>1
    <3> QED BY <1>3, <1>5, <3>2, <3>3
  <2>3. \A g \in Late', r \in Returns', d \in Drops' : r < d => g < d
    <3> SUFFICES ASSUME NEW r \in Returns, NEW d \in Drops, r < d PROVE FALSE
      BY <1>5
    <3>1. d <= r /\ d \in Nat /\ r \in Nat
      BY <1>0, <1>3 DEF OwnInv
    <3> QED BY <3>1
  <2> QED BY <1>0, <1>5, <2>1, <2>2, <2>3 DEF OwnInv
<1>13. PlayerInv'
  <2>1. /\ player.frame \in Nat /\ DOMAIN player.ran = 1 .. player.frame
        /\ \A g \in 0 .. player.frame - 1 : Settled(g, player.ran[g + 1])
    BY <1>0, <1>2 DEF PlayerInv
  <2>2. \A g \in 0 .. player.frame - 1 : Settled(g, player.ran[g + 1])'
    BY <1>4, <1>8, <2>1, PlayerRan
  <2>3. player.announced + 1 \in Nat /\ player.join - 1 <= player.announced + 1
    BY <1>3
  <2> QED BY <1>3, <1>4, <1>5, <1>6, <2>1, <2>2, <2>3 DEF PlayerInv
<1>14. Types'
  BY <1>0, <1>1, <1>4 DEF Types
<1>15. FetchInv'
  BY <1>0, FetchStep DEF Next, Client
<1> QED BY <1>9, <1>10, <1>11, <1>12, <1>13, <1>14, <1>15 DEF RestartInv

\* What the fetch has of the log is a beginning of it.
LEMMA ParsedIs ==
    ASSUME NEW n \in Nat, NEW f, f.bytes \in Beginnings(n)
    PROVE  /\ Len(f.bytes) \in 0 .. n
           /\ Parsed(f) = [i \in 1 .. Len(f.bytes) |-> log[i]]
<1>1. f.bytes \in Seq(Nat) /\ Len(f.bytes) <= n /\ \A i \in 1 .. Len(f.bytes) : f.bytes[i] = i
  BY DEF Beginnings
<1>2. DOMAIN f.bytes = 1 .. Len(f.bytes) /\ Len(f.bytes) \in Nat
  BY <1>1
<1>3. Parsed(f) = [i \in 1 .. Len(f.bytes) |-> log[f.bytes[i]]]
  BY <1>2 DEF Parsed
<1>4. \A i \in 1 .. Len(f.bytes) : log[f.bytes[i]] = log[i]
  BY <1>1
<1> QED BY <1>1, <1>2, <1>3, <1>4

\* How far a step of the catch-up runs.
LEMMA RunsTo ==
    ASSUME NEW frame \in Nat, NEW complete \in Nat, NEW join \in Nat, NEW budget \in {1, Never},
           NEW n, n = Min({Max({frame, Min({complete, join})}), frame + budget})
    PROVE  n \in Nat /\ frame <= n /\ (n = frame \/ n <= complete)
<1>1. Never \in Nat /\ frame + budget \in Nat /\ frame < frame + budget
  BY DEF Never
<1> DEFINE c == Min({complete, join})
           r == Max({frame, c})
<1>2. c = IF complete <= join THEN complete ELSE join
  BY MinOfTwo
<1>3. c \in Nat /\ c <= complete
  BY <1>2
<1> HIDE DEF c
<1>4. r = IF frame >= c THEN frame ELSE c
  BY <1>3, MaxOfTwo
<1>5. r \in Nat /\ frame <= r /\ (r = frame \/ r <= complete)
  BY <1>3, <1>4
<1> HIDE DEF r
<1>6. n = IF r <= frame + budget THEN r ELSE frame + budget
  <2>1. n = Min({r, frame + budget})
    BY DEF r, c
  <2> QED BY <1>1, <1>5, <2>1, MinOfTwo
<1> QED BY <1>1, <1>5, <1>6

\* What a step of the catch-up ran, after what was run before.
\* RunTo, of the frames that are told.
RunOn(ran, frame, told, n) == ran \o SubSeq(told, frame + 1, n)

LEMMA RanTo ==
    ASSUME NEW ran \in Seq(Int), NEW frame \in Nat, DOMAIN ran = 1 .. frame,
           NEW told \in Seq(Int), NEW n \in Nat, frame <= n, n = frame \/ n <= Len(told)
    PROVE  /\ RunOn(ran, frame, told, n) \in Seq(Int)
           /\ DOMAIN RunOn(ran, frame, told, n) = 1 .. n
           /\ \A i \in 1 .. frame : RunOn(ran, frame, told, n)[i] = ran[i]
           /\ \A i \in frame + 1 .. n : RunOn(ran, frame, told, n)[i] = told[i]
<1> DEFINE all == RunOn(ran, frame, told, n)
<1> HIDE DEF all
<1> DEFINE more == SubSeq(told, frame + 1, n)
<1>1. Len(ran) = frame /\ Len(told) \in Nat
  OBVIOUS
<1>2. /\ more \in Seq(Int) /\ Len(more) = n - frame
      /\ \A i \in 1 .. n - frame : more[i] = told[frame + i]
  <2>1. CASE n = frame
    <3>1. more = <<>>
      BY <2>1
    <3> QED BY <2>1, <3>1
  <2>2. CASE n # frame
    <3>1. \A i \in frame + 1 .. n : told[i] \in Int
      BY <2>2
    <3>2. more \in Seq(Int) /\ Len(more) = IF frame + 1 <= n THEN n - (frame + 1) + 1 ELSE 0
      BY <3>1, SubSeqProperties
    <3>3. \A i \in 1 .. Len(more) : more[i] = told[(frame + 1) + i - 1]
      BY <3>1, SubSeqProperties
    <3> QED BY <2>2, <3>2, <3>3
  <2> QED BY <2>1, <2>2
<1> HIDE DEF more
<1>3. all = ran \o more
  BY DEF more, RunOn, all
<1>4. /\ all \in Seq(Int) /\ Len(all) = Len(ran) + Len(more)
      /\ \A i \in 1 .. Len(ran) + Len(more) :
            all[i] = IF i <= Len(ran) THEN ran[i] ELSE more[i - Len(ran)]
  <2>1. ran \in Seq(Int) /\ more \in Seq(Int)
    BY <1>2
  <2>2. /\ ran \o more \in Seq(Int) /\ Len(ran \o more) = Len(ran) + Len(more)
        /\ \A i \in 1 .. Len(ran) + Len(more) :
              (ran \o more)[i] = IF i <= Len(ran) THEN ran[i] ELSE more[i - Len(ran)]
    BY ONLY <2>1, ConcatProperties
  <2> QED BY ONLY <1>3, <2>2
<1>5. Len(all) = n /\ DOMAIN all = 1 .. n
  BY <1>1, <1>2, <1>4
<1>6. \A i \in 1 .. frame : all[i] = ran[i]
  BY <1>1, <1>2, <1>4
<1>7. ASSUME NEW i \in frame + 1 .. n PROVE all[i] = told[i]
  <2>1. all[i] = more[i - frame] /\ i - frame \in 1 .. n - frame
    <3>1. i \in 1 .. n /\ ~(i <= frame) /\ i - frame \in 1 .. n - frame
      OBVIOUS
    <3>2. Len(ran) + Len(more) = n
      BY <1>1, <1>2
    <3> QED BY <1>1, <1>4, <3>1, <3>2
  <2>2. more[i - frame] = told[frame + (i - frame)] /\ frame + (i - frame) = i
    BY <1>2, <2>1
  <2> QED BY <2>1, <2>2
<1> QED BY <1>4, <1>5, <1>6, <1>7 DEF all

\* The catch-up runs the frames as the log tells them, and goes live behind
\* the one REJOIN there is.
LEMMA CatchUpKeeps ==
    ASSUME RestartInv, NEW sizes \in Arrivals, NEW budget \in {1, Never}, CatchUp(sizes, budget)
    PROVE  RestartInv'
<1> DEFINE f == Fetched(sizes)
           a == Assembled(Parsed(f))
           n == Min({Reach(a), player.frame + budget})
           ran == RunTo(n, a)
           failed == a.handedOver \/ (~a.ours /\ CaughtUp(f)) \/ Mismatch(ran, a)
           waiting == player.state = "waiting" \/ Ready(a, f, n)
           moved == [player EXCEPT
                        !.frame = n, !.ran = ran,
                        !.state = IF n >= a.join THEN "live"
                                  ELSE IF waiting THEN "waiting" ELSE "catching",
                        !.join = IF n >= a.join THEN a.join ELSE Never,
                        !.announced = IF n >= a.join THEN a.join - 1 ELSE @,
                        !.asked = IF waiting THEN player.generation ELSE @]
<1>0. /\ OtherInv /\ FirstInv /\ SecondInv /\ OthersInv /\ RejoinedInv /\ OwnInv /\ RanInv
      /\ Types /\ PlayerInv /\ FetchInv
  BY DEF RestartInv
<1>1. /\ UNCHANGED <<log, other>> /\ player.state \in {"catching", "waiting"}
      /\ player' = IF failed THEN [player EXCEPT !.state = "failed"] ELSE moved
  <2>1. /\ UNCHANGED <<log, other>> /\ player.state \in {"catching", "waiting"}
        /\ player' = RejoinStep(sizes, budget).player
    BY DEF CatchUp
  <2>2. RejoinStep(sizes, budget).player =
          IF failed THEN [player EXCEPT !.state = "failed"] ELSE moved
    BY DEF RejoinStep
  <2> HIDE DEF failed, moved
  <2> QED BY <2>1, <2>2
<1>2. /\ player \in PlayerType /\ Running
  BY <1>0, <1>1 DEF Types, Running
<1>3. /\ player.generation = 1 /\ player.frame \in Nat /\ DOMAIN player.ran = 1 .. player.frame
      /\ \A g \in 0 .. player.frame - 1 : Settled(g, player.ran[g + 1])
      /\ \A r \in Returns, d \in Drops : d <= r
      /\ Late = {} /\ player.frame <= Said
  BY <1>0, <1>1, <1>2 DEF PlayerInv
<1>4. FetchInv'
  BY <1>0, FetchStep DEF Next, Client, Fetches
<1> HIDE DEF failed, waiting, moved, f
<1>5. CASE failed
  <2>1. /\ player' \in PlayerType /\ player'.state = "failed"
        /\ player'.generation = player.generation
    BY <1>1, <1>2, <1>5 DEF PlayerType, PlayerStates
  <2>2. PlayerInv'
    BY <1>3, <2>1 DEF PlayerInv, Running
  <2> QED BY <1>1, <1>4, <2>1, <2>2, PlayerAlone
<1>6. CASE ~failed
  <2>1. /\ a.complete \in 0 .. Said
        /\ a.ran \in Seq(Int) /\ Len(a.ran) = a.complete
        /\ \A g \in 0 .. a.complete - 1 : Settled(g, a.ran[g + 1])
        /\ a.join # Never => a.join \in Nat \ {0} /\ a.join - 1 \in Returns
    <3>1. Len(log) \in Nat /\ FetchOf(fetch, Len(log))
      BY <1>0 DEF FetchInv, IsLog
    <3>2. f.bytes \in Beginnings(Len(log))
      BY <3>1, FetchKeeps DEF FetchOf, f
    <3>3. /\ Len(f.bytes) \in 0 .. Len(log)
          /\ Parsed(f) = [i \in 1 .. Len(f.bytes) |-> log[i]]
      BY <3>1, <3>2, ParsedIs
    <3> QED BY <1>0, <3>3, Read
  <2> DEFINE A == a
  <2>2. PICK told : told = a
    OBVIOUS
  <2>3. /\ told.complete \in 0 .. Said /\ told.complete \in Nat
        /\ told.ran \in Seq(Int) /\ Len(told.ran) = told.complete
        /\ \A g \in 0 .. told.complete - 1 : Settled(g, told.ran[g + 1])
        /\ told.join # Never => told.join \in Nat \ {0} /\ told.join - 1 \in Returns
        /\ told.join \in Nat
    <3>1. Said \in Nat /\ Never \in Nat
      BY <1>0, Frames
    <3> QED BY <2>1, <2>2, <3>1
  <2>4. PICK m : m = n
    OBVIOUS
  <2>5. m \in Nat /\ player.frame <= m /\ (m = player.frame \/ m <= told.complete)
    <3>1. m = Min({Max({player.frame, Min({told.complete, told.join})}), player.frame + budget})
      BY <2>2, <2>4 DEF Reach
    <3> QED BY <1>3, <2>3, <3>1, RunsTo
  <2>6. PICK all : all = player.ran \o SubSeq(told.ran, player.frame + 1, m)
    OBVIOUS
  <2>7. /\ all \in Seq(Int) /\ DOMAIN all = 1 .. m
        /\ \A i \in 1 .. player.frame : all[i] = player.ran[i]
        /\ \A i \in player.frame + 1 .. m : all[i] = told.ran[i]
    <3>1. player.ran \in Seq(Int)
      BY <1>2 DEF PlayerType
    <3>2. m = player.frame \/ m <= Len(told.ran)
      BY <2>3, <2>5
    <3>3. all = RunOn(player.ran, player.frame, told.ran, m)
      BY <2>6 DEF RunOn
    <3>4. /\ RunOn(player.ran, player.frame, told.ran, m) \in Seq(Int)
          /\ DOMAIN RunOn(player.ran, player.frame, told.ran, m) = 1 .. m
          /\ \A i \in 1 .. player.frame :
                RunOn(player.ran, player.frame, told.ran, m)[i] = player.ran[i]
          /\ \A i \in player.frame + 1 .. m :
                RunOn(player.ran, player.frame, told.ran, m)[i] = told.ran[i]
      <4>1. \A p \in Seq(Int), k \in Nat, t \in Seq(Int), l \in Nat :
              DOMAIN p = 1 .. k /\ k <= l /\ (l = k \/ l <= Len(t)) =>
                /\ RunOn(p, k, t, l) \in Seq(Int)
                /\ DOMAIN RunOn(p, k, t, l) = 1 .. l
                /\ \A i \in 1 .. k : RunOn(p, k, t, l)[i] = p[i]
                /\ \A i \in k + 1 .. l : RunOn(p, k, t, l)[i] = t[i]
        BY RanTo
      <4>2. m \in Nat /\ player.frame <= m
        BY <2>5
      <4>3. PICK p \in Seq(Int) : p = player.ran
        BY <3>1
      <4>4. PICK t \in Seq(Int) : t = told.ran
        BY <2>3
      <4>5. PICK k \in Nat : k = player.frame
        BY <1>3
      <4>6. PICK l \in Nat : l = m
        BY <4>2
      <4>7. DOMAIN p = 1 .. k /\ k <= l /\ (l = k \/ l <= Len(t))
        BY <1>3, <3>2, <4>2, <4>3, <4>4, <4>5, <4>6
      <4>8. /\ RunOn(p, k, t, l) \in Seq(Int)
            /\ DOMAIN RunOn(p, k, t, l) = 1 .. l
            /\ \A i \in 1 .. k : RunOn(p, k, t, l)[i] = p[i]
            /\ \A i \in k + 1 .. l : RunOn(p, k, t, l)[i] = t[i]
        BY ONLY <4>1, <4>7, Zenon
      <4> QED BY ONLY <4>3, <4>4, <4>5, <4>6, <4>8
    <3> QED BY <3>3, <3>4
  <2>8. all = ran
    BY <2>2, <2>4, <2>6 DEF RunTo
  <2>9. player' = [player EXCEPT
                      !.frame = m, !.ran = all,
                      !.state = IF m >= told.join THEN "live"
                                ELSE IF waiting THEN "waiting" ELSE "catching",
                      !.join = IF m >= told.join THEN told.join ELSE Never,
                      !.announced = IF m >= told.join THEN told.join - 1 ELSE player.announced,
                      !.asked = IF waiting THEN player.generation ELSE player.asked]
    BY <1>1, <1>6, <2>2, <2>4, <2>8 DEF moved
  <2>10. m <= Said /\ Said < Never /\ Said \in Nat /\ Never \in Nat
    BY <1>0, <1>3, <2>3, <2>5, Frames
  <2>11. PICK state, join, announced, asked :
           /\ state = IF m >= told.join THEN "live" ELSE IF waiting THEN "waiting" ELSE "catching"
           /\ join = IF m >= told.join THEN told.join ELSE Never
           /\ announced = IF m >= told.join THEN told.join - 1 ELSE player.announced
           /\ asked = IF waiting THEN player.generation ELSE player.asked
    OBVIOUS
  <2>12. state \in PlayerStates /\ join \in Nat /\ announced \in Int /\ asked \in Nat
    <3>1. player.announced \in Int /\ player.generation \in Nat /\ player.asked \in Nat
      BY <1>2 DEF PlayerType
    <3>2. state \in PlayerStates
      BY <2>11 DEF PlayerStates
    <3>3. join \in Nat
      BY <2>3, <2>10, <2>11
    <3>4. announced \in Int
      BY <2>3, <2>11, <3>1
    <3>5. asked \in Nat
      BY <2>11, <3>1
    <3> QED BY <3>2, <3>3, <3>4, <3>5
  <2>13. /\ player' \in PlayerType /\ player'.generation = player.generation
         /\ player'.frame = m /\ player'.ran = all /\ player'.state = state
         /\ player'.join = join /\ player'.announced = announced
    <3>1. player' = [player EXCEPT !.frame = m, !.ran = all, !.state = state, !.join = join,
                                   !.announced = announced, !.asked = asked]
      BY <2>9, <2>11
    <3> QED BY <1>2, <2>5, <2>7, <2>12, <3>1 DEF PlayerType
  <2>14. /\ Early' = Early /\ Late' = Late /\ Drops' = Drops /\ Returns' = Returns /\ Said' = Said
         /\ StillSettled
    BY <1>0, <1>1, <2>13, OnlyPlayer DEF StillSettled
  <2>15. ASSUME NEW g \in 0 .. m - 1 PROVE Settled(g, player.ran[g + 1])'
    <3>1. PICK w : w = all[g + 1]
      OBVIOUS
    <3>2. Settled(g, w)
      <4>1. CASE g < player.frame
        <5>1. g \in 0 .. player.frame - 1 /\ g + 1 \in 1 .. player.frame
          BY <1>3, <2>5, <4>1
        <5> QED BY <1>3, <2>7, <3>1, <5>1
      <4>2. CASE g >= player.frame
        <5>1. /\ g \in 0 .. told.complete - 1 /\ g + 1 \in player.frame + 1 .. m
          BY <1>3, <2>3, <2>5, <4>2
        <5> QED BY <2>3, <2>7, <3>1, <5>1
      <4> QED BY <1>3, <2>5, <4>1, <4>2
    <3>3. Settled(g, w)' /\ player'.ran[g + 1] = w
      BY <2>5, <2>13, <2>14, <3>1, <3>2 DEF StillSettled
    <3> QED BY <3>3 DEF Settled
  <2>16. PlayerInv'
    <3>1. state = "live" => /\ join \in Nat \ {0} /\ announced \in Nat /\ Returns = {join - 1}
                            /\ Late = join .. announced /\ join - 1 <= announced /\ join <= m
      <4> SUFFICES ASSUME state = "live"
                   PROVE  /\ join \in Nat \ {0} /\ announced \in Nat /\ Returns = {join - 1}
                          /\ Late = join .. announced /\ join - 1 <= announced /\ join <= m
        OBVIOUS
      <4>1. m >= told.join /\ join = told.join /\ announced = join - 1
        BY <2>11
      <4>2. told.join # Never
        BY <2>5, <2>10, <4>1
      <4>3. join \in Nat \ {0} /\ join - 1 \in Returns
        BY <2>3, <4>1, <4>2
      <4>4. Returns = {join - 1}
        BY <1>0, <4>3, OneReturn
      <4>5. join .. announced = {} /\ join - 1 <= announced /\ announced \in Nat /\ join <= m
        BY <2>5, <4>1, <4>3
      <4> QED BY <1>3, <4>3, <4>4, <4>5
    <3> QED BY <1>3, <2>5, <2>7, <2>10, <2>13, <2>14, <2>15, <3>1 DEF PlayerInv
  <2> QED BY <1>1, <1>4, <2>13, <2>16, PlayerAlone
<1> QED BY <1>5, <1>6

\* The player's one restart: nothing of it is in the log yet.
OneRestart == MaxGeneration <= 1

LEMMA BindKeeps ==
    ASSUME OneRestart, RestartInv, Bind
    PROVE  RestartInv'
<1> DEFINE e == Rejoined(1)
<1>0. /\ OtherInv /\ FirstInv /\ SecondInv /\ OthersInv /\ RejoinedInv /\ OwnInv /\ RanInv
      /\ Types /\ PlayerInv /\ FetchInv /\ IsLog(log)
  BY DEF RestartInv, FetchInv
<1>1. player.generation = 0 /\ player.generation + 1 = 1
  <2>1. player.generation < MaxGeneration /\ MaxGeneration \in Nat /\ MaxGeneration <= 1
    BY RejoinAssumption DEF Bind, OneRestart
  <2>2. player.generation = 0 \/ player.generation = 1
    BY <1>0, Frames
  <2> QED BY <2>1, <2>2
<1>2. /\ UNCHANGED other /\ log' = Append(log, e) /\ e.kind = "rejoined" /\ e.generation = 1
      /\ player' = [state |-> "catching", generation |-> 1, frame |-> 0,
                    ran |-> <<>>, join |-> Never, announced |-> -1, stream |-> 0,
                    asked |-> player.asked]
  BY <1>1 DEF Bind, Rejoined
<1> HIDE DEF e
<1>3. /\ player'.state = "catching" /\ player'.generation = 1 /\ player'.frame = 0
      /\ player'.ran = <<>> /\ player' \in PlayerType
  <2>1. player.asked \in Nat /\ <<>> \in Seq(Int) /\ Never \in Nat
    BY <1>0 DEF Types, PlayerType, Never
  <2> QED BY <1>2, <2>1 DEF PlayerType, PlayerStates
<1>4. other.member = 0 /\ other.issued = Never /\ Late = {} /\ Returns = {}
  <2>1. other.seen = 0
    BY <1>0, <1>1 DEF OtherInv
  <2>2. other.member = 0 /\ other.issued = Never
    BY <1>0, <2>1 DEF OtherInv
  <2>3. Late = {} /\ Returns = {}
    BY <1>0, <1>1, <2>2 DEF PlayerInv, FirstInv
  <2> QED BY <2>2, <2>3
<1>5. Early' = Early /\ Late' = Late /\ Drops' = Drops /\ Returns' = Returns
  <2>1. /\ Drops' = Drops \cup (IF e.kind = "drop" THEN {e.frame} ELSE {})
        /\ Returns' = Returns \cup (IF e.kind = "other" /\ e.rejoin THEN {e.frame} ELSE {})
        /\ Early' = Early \cup (IF e.kind = "own" /\ player.generation = 0 THEN {e.frame} ELSE {})
        /\ Late' = Late \cup (IF e.kind = "own" /\ player.generation = 1 THEN {e.frame} ELSE {})
    BY <1>0, <1>2, Grown
  <2> QED BY <1>2, <2>1
<1>6. OtherInv' /\ FirstInv' /\ SecondInv' /\ OwnInv' /\ RanInv' /\ Said' = Said
  BY <1>2, <1>3, <1>5, SameTold
<1>7. OthersInv'
  BY <1>0, <1>2, <1>6, OthersStay DEF OthersInv
<1>8. RejoinedInv'
  <2>1. /\ Positions("rejoined", log') = {Len(log) + 1} /\ log'[Len(log) + 1] = e
        /\ Len(log) \in Nat
    <3>1. Positions("rejoined", log) = {}
      BY <1>0, <1>1 DEF RejoinedInv
    <3>2. /\ Append(log, e)[Len(log) + 1] = e /\ Len(log) \in Nat
          /\ Positions("rejoined", Append(log, e)) =
               Positions("rejoined", log) \cup (IF e.kind = "rejoined" THEN {Len(log) + 1} ELSE {})
      BY <1>0, PositionsGrow
    <3> QED BY <1>2, <3>1, <3>2
  <2>2. Len(log) + 1 \in DOMAIN log'
    <3>1. Len(log) + 1 \in Positions("rejoined", log')
      BY <2>1
    <3> QED BY <3>1 DEF Positions
  <2> QED BY <1>2, <1>3, <2>1, <2>2 DEF RejoinedInv
<1>9. PlayerInv'
  <2>1. DOMAIN player'.ran = 1 .. 0 /\ 0 .. 0 - 1 = {}
    BY <1>3
  <2>2. 0 <= Said'
    BY <1>0, <1>6, Frames
  <2> QED BY <1>3, <1>4, <1>5, <2>1, <2>2 DEF PlayerInv
<1>10. Types'
  BY <1>0, <1>2, <1>3 DEF Types
<1>11. FetchInv'
  BY <1>0, FetchStep DEF Next
<1> QED BY <1>6, <1>7, <1>8, <1>9, <1>10, <1>11 DEF RestartInv

-----------------------------------------------------------------------------
LEMMA RestartAtInit == Init => RestartInv
<1> SUFFICES ASSUME Init PROVE RestartInv
  OBVIOUS
<1>0. FetchInv
  BY FetchAtInit
<1>1. PICK a \in 0 .. RunAhead :
        /\ log = [f \in 1 .. RunAhead + 1 |-> Info(f - 1, FALSE)] \o [f \in 1 .. a + 1 |-> OwnInfo(f - 1)]
        /\ other = [frame |-> 1, ran |-> <<0>>, join |-> 0, leave |-> Never, has |-> a + 1,
                    member |-> 0, seen |-> 0, issued |-> Never, handedOver |-> FALSE,
                    streamFrom |-> Never]
        /\ player = [state |-> "off", generation |-> 0, frame |-> 0, ran |-> <<>>, join |-> Never,
                     announced |-> -1, stream |-> 0, asked |-> 0]
  BY DEF Init
<1>2. PICK n, m : n = RunAhead + 1 /\ m = a + 1
  OBVIOUS
<1>3. /\ n \in Nat /\ m \in Nat /\ 1 <= m /\ a \in Nat /\ RunAhead \in Nat /\ n + 1 < Never
      /\ Never \in Nat /\ m - 1 = a
  BY <1>2, RejoinAssumption DEF Never
<1>4. /\ Len(log) = n + m /\ DOMAIN log = 1 .. n + m
      /\ \A i \in 1 .. n : log[i] = Info(i - 1, FALSE)
      /\ \A i \in n + 1 .. n + m : log[i] = OwnInfo(i - n - 1)
  <2> DEFINE p == [f \in 1 .. n |-> Info(f - 1, FALSE)]
             q == [f \in 1 .. m |-> OwnInfo(f - 1)]
             S == {p[i] : i \in 1 .. n} \cup {q[i] : i \in 1 .. m}
  <2>1. p \in [1 .. n -> S] /\ q \in [1 .. m -> S]
    OBVIOUS
  <2>2. log = p \o q
    BY <1>1, <1>2
  <2>3. /\ \A i \in 1 .. n : p[i] = Info(i - 1, FALSE)
        /\ \A i \in 1 .. m : q[i] = OwnInfo(i - 1)
    OBVIOUS
  <2> HIDE DEF p, q, S
  <2>4. p \in Seq(S) /\ q \in Seq(S) /\ Len(p) = n /\ Len(q) = m
    BY <1>3, <2>1, SeqDef, LenProperties
  <2>5. /\ log \in Seq(S) /\ Len(log) = n + m
        /\ \A i \in 1 .. n + m : log[i] = IF i <= n THEN p[i] ELSE q[i - n]
    BY ONLY <2>2, <2>4, ConcatProperties
  <2>6. DOMAIN log = 1 .. n + m
    BY <2>5
  <2>7. ASSUME NEW i \in 1 .. n PROVE log[i] = Info(i - 1, FALSE)
    <3>1. i \in 1 .. n + m /\ i <= n
      BY <1>3
    <3> QED BY <2>3, <2>5, <3>1
  <2>8. ASSUME NEW i \in n + 1 .. n + m PROVE log[i] = OwnInfo(i - n - 1)
    <3>1. i \in 1 .. n + m /\ ~(i <= n) /\ i - n \in 1 .. m
      BY <1>3
    <3> QED BY <2>3, <2>5, <3>1
  <2> QED BY <2>5, <2>6, <2>7, <2>8
<1>5. /\ \A i \in 1 .. n : log[i].kind = "other" /\ log[i].frame = i - 1 /\ ~log[i].rejoin
      /\ \A i \in n + 1 .. n + m : log[i].kind = "own" /\ log[i].frame = i - n - 1
  <2>1. ASSUME NEW i \in 1 .. n
        PROVE  log[i].kind = "other" /\ log[i].frame = i - 1 /\ ~log[i].rejoin
    <3>1. log[i] = [kind |-> "other", frame |-> i - 1, rejoin |-> FALSE]
      BY <1>4 DEF Info
    <3> QED BY <3>1
  <2>2. ASSUME NEW i \in n + 1 .. n + m PROVE log[i].kind = "own" /\ log[i].frame = i - n - 1
    <3>1. log[i] = [kind |-> "own", frame |-> i - n - 1]
      BY <1>4 DEF OwnInfo
    <3> QED BY <3>1
  <2> QED BY <2>1, <2>2
<1>6. 1 .. n + m = 1 .. n \cup n + 1 .. n + m
  BY <1>3
<1>7. /\ Positions("other", log) = 1 .. n /\ Positions("own", log) = n + 1 .. n + m
      /\ Positions("rejoined", log) = {} /\ Positions("drop", log) = {}
  BY <1>4, <1>5, <1>6 DEF Positions
<1>8. Drops = {} /\ Returns = {}
  BY <1>5, <1>7 DEF Drops, Returns, FramesOf, Rejoins
<1>9. Late = {} /\ Early = 0 .. a
  <2> DEFINE Behind(j) == Cardinality({r \in Positions("rejoined", log) : r < j})
  <2>1. \A j : {r \in Positions("rejoined", log) : r < j} = {}
    BY <1>7
  <2>2. \A j : Behind(j) = 1 - 1 /\ Behind(j) # 2 - 1
    BY <2>1, FS_EmptySet
  <2>0. /\ Early = {log[i].frame : i \in {j \in Positions("own", log) : Behind(j) = 1 - 1}}
        /\ Late = {log[i].frame : i \in {j \in Positions("own", log) : Behind(j) = 2 - 1}}
    BY DEF Early, Late, OwnFrames
  <2> HIDE DEF Behind
  <2>3. Late = {}
    BY <2>0, <2>2
  <2>4. Early = {log[i].frame : i \in n + 1 .. n + m}
    BY <1>7, <2>0, <2>2
  <2>5. ASSUME NEW g \in 0 .. a PROVE g \in Early
    <3>1. n + 1 + g \in n + 1 .. n + m /\ (n + 1 + g) - n - 1 = g
      BY <1>3
    <3>2. log[n + 1 + g].frame = g
      BY <1>5, <3>1
    <3> QED BY <2>4, <3>1, <3>2
  <2>6. ASSUME NEW g \in Early PROVE g \in 0 .. a
    <3>1. PICK i \in n + 1 .. n + m : g = log[i].frame
      BY <2>4
    <3> QED BY <1>3, <1>5, <3>1
  <2> QED BY <2>3, <2>5, <2>6
<1>10. /\ other.frame = 1 /\ other.ran = <<0>> /\ other.join = 0 /\ other.leave = Never
       /\ other.has = m /\ other.member = 0 /\ other.seen = 0 /\ other.issued = Never
       /\ player.state = "off" /\ player.generation = 0
       /\ Said = n
  BY <1>1, <1>2, <1>3 DEF Said
<1>11. OthersInv
  <2>1. ASSUME NEW i \in 1 .. n PROVE InOrder(log, n, i)
    <3>1. log[i].frame = i - 1 /\ i - 1 \in 0 .. n - 1 /\ ~log[i].rejoin
      BY <1>3, <1>5
    <3>2. ASSUME NEW g \in 0 .. i - 1 - 1 PROVE \E j \in 1 .. n : j < i /\ log[j].frame = g
      <4>1. g + 1 \in 1 .. n /\ g + 1 < i /\ (g + 1) - 1 = g
        BY <1>3
      <4> QED BY <1>5, <4>1
    <3>3. \A j \in 1 .. n : log[j].frame = log[i].frame => j = i
      BY <1>3, <1>5
    <3> QED BY <1>7, <3>1, <3>2, <3>3 DEF InOrder
  <2>2. ASSUME NEW g \in 0 .. n - 1 PROVE \E j \in 1 .. n : log[j].frame = g
    <3>1. g + 1 \in 1 .. n /\ (g + 1) - 1 = g
      BY <1>3
    <3> QED BY <1>5, <3>1
  <2> QED BY <1>7, <1>10, <2>1, <2>2 DEF OthersInv, OthersOf
<1>12. RejoinedInv
  BY <1>7, <1>10 DEF RejoinedInv
<1>13. OtherInv
  BY <1>3, <1>10 DEF OtherInv
<1>14. FirstInv /\ SecondInv
  BY <1>3, <1>8, <1>9, <1>10 DEF FirstInv, SecondInv
<1>15. OwnInv
  <2>1. \A g \in 0 .. a : 0 .. g \subseteq 0 .. a
    BY <1>3
  <2> QED BY <1>3, <1>8, <1>9, <2>1 DEF OwnInv
<1>16. RanInv
  <2>1. Settled(0, 0)
    <3>1. ~Back(0) /\ ~Out(0) /\ 0 \in Early
      BY <1>3, <1>8, <1>9 DEF Back, Out
    <3> QED BY <3>1 DEF Settled, Fate, Nobody
  <2>2. DOMAIN <<0>> = 1 .. 1 /\ <<0>>[0 + 1] = 0 /\ 0 .. 1 - 1 = {0}
    OBVIOUS
  <2> QED BY <1>10, <2>1, <2>2 DEF RanInv
<1>17. PlayerInv
  BY <1>9, <1>10 DEF PlayerInv, Running
<1>18. Types
  <2>1. <<0>> \in Seq(Int) /\ <<>> \in Seq(Int) /\ a + 1 \in Nat
    BY <1>3
  <2>2. other \in OtherType
    BY <1>1, <1>3, <2>1 DEF OtherType
  <2>3. player \in PlayerType
    BY <1>1, <1>3, <2>1 DEF PlayerType, PlayerStates
  <2> QED BY <2>2, <2>3 DEF Types
<1> QED BY <1>0, <1>11, <1>12, <1>13, <1>14, <1>15, <1>16, <1>17, <1>18 DEF RestartInv

LEMMA RestartStep == OneRestart /\ RestartInv /\ [Next]_vars => RestartInv'
<1> SUFFICES ASSUME OneRestart, RestartInv, [Next]_vars PROVE RestartInv'
  OBVIOUS
<1>1. CASE Others
  BY <1>1, ReceiveKeeps, StatusKeeps, DropKeeps, TakeBackKeeps, RunFrameKeeps DEF Others
<1>2. CASE Client
  BY <1>2, ReadTailKeeps, CatchUpKeeps, AnnounceKeeps, HearKeeps, RunLiveKeeps
     DEF Client, Fetches
<1>3. CASE HandOver \/ Crash \/ Bind
  BY <1>3, HandOverKeeps, CrashKeeps, BindKeeps
<1>4. CASE UNCHANGED vars
  <2>1. FetchInv /\ Types
    BY DEF RestartInv
  <2>2. UNCHANGED <<log, other, player>>
    BY <1>4 DEF vars
  <2>3. player' \in PlayerType
    BY <2>1, <2>2 DEF Types
  <2>4. FetchInv'
    BY <2>1, FetchStep
  <2> QED BY <2>2, <2>3, <2>4, PlayerWaits
<1> QED BY <1>1, <1>2, <1>3, <1>4 DEF Next

LEMMA RestartHolds ==
    ASSUME OneRestart
    PROVE  Spec => []RestartInv
<1>1. RestartInv /\ [Next]_vars => RestartInv'
  BY RestartStep
<1> QED BY <1>1, RestartAtInit, PTL DEF Spec

\* A client that runs, in the catch-up or in lockstep, ran every frame with the
\* commands the others ran it with: those of the log's incarnation of the slot,
\* or none while it was dropped (RelayLog::assemble, CommandLogCatchUp,
\* applyRejoin), for a player who restarts once.
THEOREM CatchUpInStep == ASSUME OneRestart PROVE Spec => []InStep
<1>1. RestartInv => InStep
  <2> SUFFICES ASSUME RestartInv, Running, NEW f \in 1 .. Len(player.ran), f <= Len(other.ran)
               PROVE  player.ran[f] = other.ran[f]
    BY DEF InStep
  <2>0. RanInv /\ PlayerInv /\ Types /\ OtherInv
    BY DEF RestartInv
  <2>1. player.ran \in Seq(Int) /\ other.ran \in Seq(Int)
    BY <2>0 DEF Types, PlayerType, OtherType
  <2>2. /\ DOMAIN player.ran = 1 .. player.frame /\ player.frame \in Nat
        /\ DOMAIN other.ran = 1 .. other.frame /\ other.frame \in Nat
    BY <2>0 DEF PlayerInv, RanInv, OtherInv
  <2>3. Len(player.ran) = player.frame /\ Len(other.ran) = other.frame
    BY <2>1, <2>2
  <2>4. PICK g \in Nat : g = f - 1
    BY <2>1
  <2>5. g \in 0 .. player.frame - 1 /\ g \in 0 .. other.frame - 1 /\ g + 1 = f
    BY <2>2, <2>3, <2>4
  <2>6. Settled(g, player.ran[g + 1]) /\ Settled(g, other.ran[g + 1])
    BY <2>0, <2>5 DEF PlayerInv, RanInv
  <2>7. player.ran[g + 1] = Fate(g) /\ other.ran[g + 1] = Fate(g)
    BY <2>6 DEF Settled
  <2> QED BY <2>5, <2>7
<1> QED BY <1>1, RestartHolds, PTL

\* The join frame a client goes by is the one the others take this very process
\* back from, and the log names that frame for a client that still catches up
\* or waits (NetGameSession::rejoinStep, RelayLog::assemble), for a player who
\* restarts once.
THEOREM JoinIsTheirs == ASSUME OneRestart PROVE Spec => []JoinNamed
<1>1. RestartInv => JoinNamed
  <2> SUFFICES ASSUME RestartInv PROVE JoinNamed
    OBVIOUS
  <2>0. /\ OtherInv /\ FirstInv /\ SecondInv /\ OthersInv /\ RejoinedInv /\ OwnInv
        /\ PlayerInv /\ FetchInv
    BY DEF RestartInv
  <2>1. ASSUME player.state = "live" PROVE TakesBack(player.generation, player.join)
    <3>1. /\ player.generation = 1 /\ player.join \in Nat \ {0} /\ Returns = {player.join - 1}
      BY <2>0, <2>1 DEF PlayerInv, Running
    <3>2. CASE other.member = 1
      <4>1. Returns = {other.join - 1} /\ other.join \in Nat
        BY <2>0, <3>2, Frames DEF SecondInv
      <4>2. PICK x \in Nat, y \in Nat : x = other.join /\ y = player.join
        BY <3>1, <4>1
      <4>3. x - 1 = y - 1
        BY <3>1, <4>1, <4>2
      <4>4. other.join = player.join
        BY <4>2, <4>3
      <4> QED BY <3>1, <3>2, <4>4 DEF TakesBack
    <3>3. CASE other.member = 0
      <4>1. other.issued # Never /\ Returns = {other.issued}
        BY <2>0, <3>1, <3>3 DEF FirstInv
      <4>2. other.issued = player.join - 1 /\ other.seen = 1
        BY <2>0, <3>1, <4>1 DEF OtherInv
      <4>3. other.issued + 1 = player.join
        BY <3>1, <4>2
      <4> QED BY <3>1, <4>1, <4>2, <4>3 DEF TakesBack
    <3> QED BY <2>0, <3>2, <3>3, Frames
  <2>2. ASSUME player.state \in {"catching", "waiting"}, other.leave = Never,
               other.member = player.generation
        PROVE  Assembled(log).join = other.join
    <3>1. player.generation = 1 /\ other.member = 1
      BY <2>0, <2>2 DEF PlayerInv, Running
    <3> QED BY <2>0, <3>1, JoinRead
  <2> QED BY <2>1, <2>2 DEF JoinNamed
<1> QED BY <1>1, RestartHolds, PTL

=============================================================================
