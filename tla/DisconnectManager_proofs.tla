---------------------- MODULE DisconnectManager_proofs ----------------------
(***************************************************************************)
(* What holds of the peers of a classic game, for every number of slots,   *)
(* frames and run-ahead.  First the types, whatever crashes, outages and   *)
(* kicks happen: each operation of the manager is given by the fields it   *)
(* may change and by what it may send.  Then the games in which one slot t *)
(* may stop: what each of the others becomes by a step (Idle, Announces,   *)
(* Decides, Notes, ... of it), what the streams may carry, and from these  *)
(* that t is dropped in step on every remaining peer.                      *)
(***************************************************************************)
EXTENDS DisconnectManager, InductionLemmas, SequenceTheorems

\* Frames a peer may stand on or speak of, and what the streams carry.
Stand == 0 .. MaxFrame + 1

DropCommand == [type : {"DISCONNECTPLAYER"}, target : Players, frame : Stand \ {0}, gone : SUBSET Players]
Resend == [type : {"FRAMERESEND"}, frame : Int, owner : Players]
FrameInfo == [type : {"FRAMEINFO"}, frame : Frames]
Vote == [type : {"DISCONNECTVOTE"}, target : Players, frame : Stand]
Announcement == [type : {"DISCONNECTFRAME"}, frame : Stand \ {0}]
ScreenOff == [type : {"DISCONNECTSCREENOFF"}, frame : Stand, released : SUBSET (Players \X Stand)]

Message == FrameInfo \cup Resend \cup Vote \cup Announcement \cup DropCommand \cup ScreenOff

PendingDrop == [from : Players, target : Players, frame : Stand \ {0}, gone : SUBSET Players]

Peer ==
    [self : Players, frame : Stand \ {0}, ran : Seq(SUBSET Players), have : SUBSET (Players \X Frames),
     leave : [Players -> Frames \cup {Never}], heard : [Players -> BOOLEAN],
     bar : [Players -> {"full", "low", "out"}], screen : BOOLEAN,
     votes : [Players -> [Players -> Stand]], df : [Players -> Stand], dfr : [Players -> BOOLEAN],
     by : [Players -> Stand], ann : Stand, hold : {"none", "held", "released"}, notified : Stand,
     decided : Seq(DropCommand), pending : Seq(PendingDrop), quit : BOOLEAN, due : BOOLEAN,
     out : [Players -> Seq(Message)]]

-----------------------------------------------------------------------------
LEMMA Numbers ==
    /\ MaxFrame \in Nat \ {0} /\ RunAhead \in Nat \ {0} /\ Never = MaxFrame + RunAhead + 1 /\ Never \in Nat
    /\ Players # {} /\ Players \subseteq Nat /\ IsFiniteSet(Players) /\ Cardinality(Players) \in Nat
    /\ Frames = 1 .. MaxFrame + RunAhead
<1>1. Cardinality(Players) \in Nat
  BY PlayersAssumption, FS_CardinalityType
<1>2. 0 \in Players /\ Players \subseteq Nat
  BY <1>1, PlayersAssumption
<1> QED BY <1>1, <1>2, PlayersAssumption, BoundsAssumption DEF Never, Frames

-----------------------------------------------------------------------------
\* A stream that grew by messages of M.
Grows(s, u, M) ==
    /\ Len(s) <= Len(u)
    /\ \A k \in 1 .. Len(s) : u[k] = s[k]
    /\ \A k \in Len(s) + 1 .. Len(u) : u[k] \in M

Outs == [Players -> Seq(Message)]

\* What a peer becomes by sending messages of M alone.
Sending(x, M) == {[x EXCEPT !.out = o] : o \in {o \in Outs : \A b \in Players : Grows(x.out[b], o[b], M)}}

LEMMA PostSends ==
    ASSUME NEW x \in Peer, NEW to \in SUBSET Players, NEW m \in Message
    PROVE  Post(x, to, m) \in Sending(x, {m})
<1> DEFINE o == [q \in Players |-> IF q \in to THEN Append(x.out[q], m) ELSE x.out[q]]
<1>1. x.out \in Outs
  BY DEF Peer, Outs
<1>2. \A q \in Players : x.out[q] \in Seq(Message)
  BY <1>1 DEF Outs
<1>3. \A q \in Players : o[q] \in Seq(Message) /\ Grows(x.out[q], o[q], {m})
  BY <1>2 DEF Grows
<1>4. o \in Outs
  BY <1>3 DEF Outs
<1>5. Post(x, to, m) = [x EXCEPT !.out = o]
  BY DEF Post, Peer
<1> HIDE DEF o
<1> QED BY <1>3, <1>4, <1>5 DEF Sending

LEMMA SendingIsPeer ==
    ASSUME NEW x \in Peer, NEW M, NEW y \in Sending(x, M)
    PROVE  y \in Peer
<1>1. PICK o \in Outs : y = [x EXCEPT !.out = o]
  BY DEF Sending
<1> QED BY <1>1 DEF Peer, Outs

LEMMA SendingTwice ==
    ASSUME NEW x \in Peer, NEW M, NEW y \in Sending(x, M), NEW z \in Sending(y, M)
    PROVE  z \in Sending(x, M)
<1>1. PICK o \in Outs : y = [x EXCEPT !.out = o] /\ \A b \in Players : Grows(x.out[b], o[b], M)
  BY DEF Sending
<1>2. PICK u \in Outs : z = [y EXCEPT !.out = u] /\ \A b \in Players : Grows(y.out[b], u[b], M)
  BY DEF Sending
<1>3. y.out = o /\ z = [x EXCEPT !.out = u]
  BY <1>1, <1>2 DEF Peer
<1>4. \A b \in Players : x.out[b] \in Seq(Message) /\ o[b] \in Seq(Message) /\ u[b] \in Seq(Message)
  BY DEF Peer, Outs
<1>5. \A b \in Players : Grows(x.out[b], u[b], M)
  <2> TAKE b \in Players
  <2>1. /\ Grows(x.out[b], o[b], M) /\ Grows(o[b], u[b], M)
        /\ Len(x.out[b]) \in Nat /\ Len(o[b]) \in Nat /\ Len(u[b]) \in Nat
    BY <1>1, <1>2, <1>3, <1>4
  <2> QED BY ONLY <2>1 DEF Grows
<1> QED BY <1>3, <1>5 DEF Sending

LEMMA SendingNothing ==
    ASSUME NEW x \in Peer, NEW M
    PROVE  x \in Sending(x, M)
<1>1. x.out \in Outs /\ x = [x EXCEPT !.out = x.out]
  BY DEF Peer, Outs
<1>2. \A b \in Players : x.out[b] \in Seq(Message) /\ Len(x.out[b]) \in Nat
  BY <1>1 DEF Outs
<1>3. \A b \in Players : Grows(x.out[b], x.out[b], M)
  BY <1>2 DEF Grows
<1> QED BY <1>1, <1>3 DEF Sending

LEMMA OrderIs == Len(Order) \in Nat /\ Len(Order) = Cardinality(Players) /\ \A n \in 1 .. Len(Order) : Order[n] \in Players
BY Numbers, PlayersAssumption DEF Order

LEMMA ResendSends ==
    ASSUME NEW x \in Peer, NEW to \in Players, NEW f \in Int, NEW s \in Players
    PROVE  resend(x, to, f, s) \in Sending(x, Resend)
<1> DEFINE m == [type |-> "FRAMERESEND", frame |-> f, owner |-> s]
<1>1. m \in Resend /\ m \in Message
  BY DEF Resend, Message
<1> HIDE DEF m
<1>2. Post(x, {to}, m) \in Sending(x, {m})
  BY <1>1, PostSends
<1>3. Sending(x, {m}) \subseteq Sending(x, Resend)
  BY <1>1 DEF Sending, Grows
<1> QED BY <1>2, <1>3, SendingNothing DEF resend, m

\* The commands of a frame, one after the other.
LEMMA ResendFrameSends ==
    ASSUME NEW x \in Peer, NEW to \in Players, NEW f \in Int
    PROVE  resendFrame(x, to, f) \in Sending(x, Resend)
<1> DEFINE N == Len(Order)
           S == Sending(x, Resend)
           F == [a \in S \X (1 .. N) |-> resend(a[1], to, f, Order[a[2]])]
<1>1. N \in Nat /\ \A n \in 1 .. N : Order[n] \in Players
  BY OrderIs
<1>2. \A y \in S, n \in 1 .. N : resend(y, to, f, Order[n]) \in S
  BY OrderIs, SendingIsPeer, SendingTwice, ResendSends
<1>3. \A y \in S, n \in 1 .. N : F[<<y, n>>] = resend(y, to, f, Order[n])
  OBVIOUS
<1>4. x \in S
  BY SendingNothing
<1> HIDE DEF N, S, F
<1>5. PICK g : Recursive(g, N, x, F) /\ \A n \in 0 .. N : g[n] \in S
  <2>1. \A y \in S, n \in 1 .. N : F[<<y, n>>] \in S
    BY <1>2, <1>3
  <2> QED BY <1>1, <1>4, <2>1, RecursionStays
<1> DEFINE Is(h) == h = [n \in 0 .. N |-> IF n = 0 THEN x
                                         ELSE CHOOSE z \in {resend(y, to, f, Order[n]) : y \in {h[n - 1]}} : TRUE]
<1>6. Is(g)
  <2>1. ASSUME NEW n \in 0 .. N
        PROVE  g[n] = IF n = 0 THEN x ELSE CHOOSE z \in {resend(y, to, f, Order[n]) : y \in {g[n - 1]}} : TRUE
    <3>1. CASE n = 0
      BY <1>1, <1>5, <3>1 DEF Recursive
    <3>2. CASE n # 0
      <4>1. n \in 1 .. N /\ n - 1 \in 0 .. N
        BY <1>1, <3>2
      <4>2. g[n] = F[<<g[n - 1], n>>]
        BY <1>1, <1>5, <3>2 DEF Recursive
      <4>3. g[n] = resend(g[n - 1], to, f, Order[n])
        BY <1>3, <1>5, <4>1, <4>2
      <4> QED BY <3>2, <4>3
    <3> QED BY <3>1, <3>2
  <2> QED BY <1>5, <2>1 DEF Recursive
<1> DEFINE h == CHOOSE h : Is(h)
<1>7. Is(h)
  BY <1>6
<1>8. resendFrame(x, to, f) = h[N]
  BY DEF resendFrame, InTurn, Of, N
<1> HIDE DEF h
<1>9. \A n \in 0 .. N : h[n] \in S
  <2>1. h[0] \in S
    BY <1>1, <1>4, <1>7
  <2>2. ASSUME NEW n \in 1 .. N, h[n - 1] \in S PROVE h[n] \in S
    <3>1. h[n] = resend(h[n - 1], to, f, Order[n])
      BY <1>1, <1>7
    <3> QED BY <1>2, <2>2, <3>1
  <2> QED BY ONLY <2>1, <2>2, <1>1, UpTo
<1> QED BY <1>1, <1>8, <1>9 DEF S

LEMMA FramesFromIs ==
    ASSUME NEW start \in Int, NEW next \in Int
    PROVE  Len(FramesFrom(start, next)) \in Nat /\ \A n \in 1 .. Len(FramesFrom(start, next)) : FramesFrom(start, next)[n] \in Int
<1>1. CASE next - start \in Nat
  <2>1. Len(FramesFrom(start, next)) = next - start
    BY <1>1 DEF FramesFrom
  <2> QED BY <1>1, <2>1 DEF FramesFrom
<1>2. CASE next - start \notin Nat
  <2>1. 1 .. next - start = 1 .. 0
    BY <1>2
  <2>2. FramesFrom(start, next) = [i \in 1 .. 0 |-> start + i - 1]
    BY <2>1 DEF FramesFrom
  <2>3. \A a : Len([i \in 1 .. 0 |-> a[i]]) = 0
    OBVIOUS
  <2>4. FramesFrom(start, next) = <<>>
    BY <2>2
  <2> QED BY <2>4
<1> QED BY <1>1, <1>2

\* What a peer missed.
LEMMA DataSends ==
    ASSUME NEW x \in Peer, NEW to \in Players, NEW start \in Stand
    PROVE  sendFrameDataToPlayer(x, to, start) \in Sending(x, Resend)
<1> DEFINE N == Len(FramesFrom(start, x.frame))
           S == Sending(x, Resend)
           F == [a \in S \X (1 .. N) |-> resendFrame(a[1], to, FramesFrom(start, x.frame)[a[2]])]
<1>1. N \in Nat /\ \A n \in 1 .. N : FramesFrom(start, x.frame)[n] \in Int
  <2>1. x.frame \in Int /\ start \in Int
    BY Numbers DEF Peer, Stand
  <2> HIDE DEF S, F
  <2> QED BY <2>1, FramesFromIs
<1>2. \A y \in S, n \in 1 .. N : resendFrame(y, to, FramesFrom(start, x.frame)[n]) \in S
  BY <1>1, SendingIsPeer, SendingTwice, ResendFrameSends
<1>3. \A y \in S, n \in 1 .. N : F[<<y, n>>] = resendFrame(y, to, FramesFrom(start, x.frame)[n])
  OBVIOUS
<1>4. x \in S
  BY SendingNothing
<1> HIDE DEF N, S, F
<1>5. PICK g : Recursive(g, N, x, F) /\ \A n \in 0 .. N : g[n] \in S
  <2>1. \A y \in S, n \in 1 .. N : F[<<y, n>>] \in S
    BY <1>2, <1>3
  <2> QED BY <1>1, <1>4, <2>1, RecursionStays
<1> DEFINE Is(h) == h = [n \in 0 .. N |-> IF n = 0 THEN x
                                         ELSE CHOOSE z \in {resendFrame(y, to, FramesFrom(start, x.frame)[n]) : y \in {h[n - 1]}} : TRUE]
<1>6. Is(g)
  <2>1. ASSUME NEW n \in 0 .. N
        PROVE  g[n] = IF n = 0 THEN x ELSE CHOOSE z \in {resendFrame(y, to, FramesFrom(start, x.frame)[n]) : y \in {g[n - 1]}} : TRUE
    <3>1. CASE n = 0
      BY <1>1, <1>5, <3>1 DEF Recursive
    <3>2. CASE n # 0
      <4>1. n \in 1 .. N /\ n - 1 \in 0 .. N
        BY <1>1, <3>2
      <4>2. g[n] = F[<<g[n - 1], n>>]
        BY <1>1, <1>5, <3>2 DEF Recursive
      <4>3. g[n] = resendFrame(g[n - 1], to, FramesFrom(start, x.frame)[n])
        BY <1>3, <1>5, <4>1, <4>2
      <4> QED BY <3>2, <4>3
    <3> QED BY <3>1, <3>2
  <2> QED BY <1>5, <2>1 DEF Recursive
<1> DEFINE h == CHOOSE h : Is(h)
<1>7. Is(h)
  BY <1>6
<1>8. sendFrameDataToPlayer(x, to, start) = h[N]
  BY DEF sendFrameDataToPlayer, InTurn, Of, N
<1> HIDE DEF h
<1>9. \A n \in 0 .. N : h[n] \in S
  <2>1. h[0] \in S
    BY <1>1, <1>4, <1>7
  <2>2. ASSUME NEW n \in 1 .. N, h[n - 1] \in S PROVE h[n] \in S
    <3>1. h[n] = resendFrame(h[n - 1], to, FramesFrom(start, x.frame)[n])
      BY <1>1, <1>7
    <3> QED BY <1>2, <2>2, <3>1
  <2> QED BY ONLY <2>1, <2>2, <1>1, UpTo
<1> QED BY <1>1, <1>8, <1>9 DEF S

LEMMA HelpSends ==
    ASSUME NEW x \in Peer, NEW i \in Players
    PROVE  helpBehind(x, i) \in Sending(x, Resend)
<1>1. x.df[i] \in Stand
  BY DEF Peer
<1> QED BY <1>1, DataSends, SendingNothing DEF helpBehind

\* What all of those behind missed.
LEMMA HelpsSend ==
    ASSUME NEW x \in Peer
    PROVE  InTurn(helpBehind, x, Order) \in Sending(x, Resend)
<1> DEFINE N == Len(Order)
           S == Sending(x, Resend)
           F == [a \in S \X (1 .. N) |-> helpBehind(a[1], Order[a[2]])]
<1>1. N \in Nat /\ \A n \in 1 .. N : Order[n] \in Players
  BY OrderIs
<1>2. \A y \in S, n \in 1 .. N : helpBehind(y, Order[n]) \in S
  BY OrderIs, SendingIsPeer, SendingTwice, HelpSends
<1>3. \A y \in S, n \in 1 .. N : F[<<y, n>>] = helpBehind(y, Order[n])
  OBVIOUS
<1>4. x \in S
  BY SendingNothing
<1> HIDE DEF N, S, F
<1>5. PICK g : Recursive(g, N, x, F) /\ \A n \in 0 .. N : g[n] \in S
  <2>1. \A y \in S, n \in 1 .. N : F[<<y, n>>] \in S
    BY <1>2, <1>3
  <2> QED BY <1>1, <1>4, <2>1, RecursionStays
<1> DEFINE Is(h) == h = [n \in 0 .. N |-> IF n = 0 THEN x
                                         ELSE CHOOSE z \in {helpBehind(y, Order[n]) : y \in {h[n - 1]}} : TRUE]
<1>6. Is(g)
  <2>1. ASSUME NEW n \in 0 .. N
        PROVE  g[n] = IF n = 0 THEN x ELSE CHOOSE z \in {helpBehind(y, Order[n]) : y \in {g[n - 1]}} : TRUE
    <3>1. CASE n = 0
      BY <1>1, <1>5, <3>1 DEF Recursive
    <3>2. CASE n # 0
      <4>1. n \in 1 .. N /\ n - 1 \in 0 .. N
        BY <1>1, <3>2
      <4>2. g[n] = F[<<g[n - 1], n>>]
        BY <1>1, <1>5, <3>2 DEF Recursive
      <4>3. g[n] = helpBehind(g[n - 1], Order[n])
        BY <1>3, <1>5, <4>1, <4>2
      <4> QED BY <3>2, <4>3
    <3> QED BY <3>1, <3>2
  <2> QED BY <1>5, <2>1 DEF Recursive
<1> DEFINE h == CHOOSE h : Is(h)
<1>7. Is(h)
  BY <1>6
<1>8. InTurn(helpBehind, x, Order) = h[N]
  BY DEF InTurn, Of, N
<1> HIDE DEF h
<1>9. \A n \in 0 .. N : h[n] \in S
  <2>1. h[0] \in S
    BY <1>1, <1>4, <1>7
  <2>2. ASSUME NEW n \in 1 .. N, h[n - 1] \in S PROVE h[n] \in S
    <3>1. h[n] = helpBehind(h[n - 1], Order[n])
      BY <1>1, <1>7
    <3> QED BY <1>2, <2>2, <3>1
  <2> QED BY ONLY <2>1, <2>2, <1>1, UpTo
<1> QED BY <1>1, <1>8, <1>9 DEF S

\* The drops a peer decided.
Decided(x) == {x.decided[k] : k \in 1 .. Len(x.decided)}

LEMMA RepeatSends ==
    ASSUME NEW x \in Peer, NEW to \in Players, NEW f \in Stand, NEW M \in SUBSET DropCommand, NEW d \in M
    PROVE  repeatDrop(x, to, f, d) \in Sending(x, M)
<1>1. d \in Message
  BY DEF Message
<1>2. Post(x, {to}, d) \in Sending(x, {d})
  BY <1>1, PostSends
<1>3. Sending(x, {d}) \subseteq Sending(x, M)
  BY DEF Sending, Grows
<1> QED BY <1>2, <1>3, SendingNothing DEF repeatDrop

\* The drops a peer decided, sent again.
LEMMA RepeatsSend ==
    ASSUME NEW x \in Peer, NEW to \in Players, NEW f \in Stand
    PROVE  repeatDrops(x, to, f) \in Sending(x, Decided(x))
<1> DEFINE N == Len(x.decided)
           S == Sending(x, Decided(x))
           F == [a \in S \X (1 .. N) |-> repeatDrop(a[1], to, f, x.decided[a[2]])]
<1>1. N \in Nat
  BY DEF Peer
<1>2. \A y \in S, n \in 1 .. N : repeatDrop(y, to, f, x.decided[n]) \in S
  <2>0. x.decided \in Seq(DropCommand)
    BY DEF Peer
  <2>1. Decided(x) \in SUBSET DropCommand /\ \A n \in 1 .. N : x.decided[n] \in Decided(x)
    BY <2>0 DEF Decided
  <2> HIDE DEF N, F
  <2> QED BY <2>1, SendingIsPeer, SendingTwice, RepeatSends
<1>3. \A y \in S, n \in 1 .. N : F[<<y, n>>] = repeatDrop(y, to, f, x.decided[n])
  OBVIOUS
<1>4. x \in S
  BY SendingNothing
<1> HIDE DEF N, S, F
<1>5. PICK g : Recursive(g, N, x, F) /\ \A n \in 0 .. N : g[n] \in S
  <2>1. \A y \in S, n \in 1 .. N : F[<<y, n>>] \in S
    BY <1>2, <1>3
  <2> QED BY <1>1, <1>4, <2>1, RecursionStays
<1> DEFINE Is(h) == h = [n \in 0 .. N |-> IF n = 0 THEN x
                                         ELSE CHOOSE z \in {repeatDrop(y, to, f, x.decided[n]) : y \in {h[n - 1]}} : TRUE]
<1>6. Is(g)
  <2>1. ASSUME NEW n \in 0 .. N
        PROVE  g[n] = IF n = 0 THEN x ELSE CHOOSE z \in {repeatDrop(y, to, f, x.decided[n]) : y \in {g[n - 1]}} : TRUE
    <3>1. CASE n = 0
      BY <1>1, <1>5, <3>1 DEF Recursive
    <3>2. CASE n # 0
      <4>1. n \in 1 .. N /\ n - 1 \in 0 .. N
        BY <1>1, <3>2
      <4>2. g[n] = F[<<g[n - 1], n>>]
        BY <1>1, <1>5, <3>2 DEF Recursive
      <4>3. g[n] = repeatDrop(g[n - 1], to, f, x.decided[n])
        BY <1>3, <1>5, <4>1, <4>2
      <4> QED BY <3>2, <4>3
    <3> QED BY <3>1, <3>2
  <2> QED BY <1>5, <2>1 DEF Recursive
<1> DEFINE h == CHOOSE h : Is(h)
<1>7. Is(h)
  BY <1>6
<1>8. repeatDrops(x, to, f) = h[N]
  BY DEF repeatDrops, InTurn, Of, N
<1> HIDE DEF h
<1>9. \A n \in 0 .. N : h[n] \in S
  <2>1. h[0] \in S
    BY <1>1, <1>4, <1>7
  <2>2. ASSUME NEW n \in 1 .. N, h[n - 1] \in S PROVE h[n] \in S
    <3>1. h[n] = repeatDrop(h[n - 1], to, f, x.decided[n])
      BY <1>1, <1>7
    <3> QED BY <1>2, <2>2, <3>1
  <2> QED BY ONLY <2>1, <2>2, <1>1, UpTo
<1> QED BY <1>1, <1>8, <1>9 DEF S

-----------------------------------------------------------------------------
\* What an operation of the manager leaves alone: who the peer is, the frame it
\* stands on, what it ran and the commands it has.
Kin(x) == {y \in Peer : y.self = x.self /\ y.frame = x.frame /\ y.ran = x.ran /\ y.have = x.have}

LEMMA KinTwice ==
    ASSUME NEW x \in Peer, NEW y \in Kin(x), NEW z \in Kin(y)
    PROVE  y \in Peer /\ z \in Kin(x)
BY DEF Kin

LEMMA KinSelf == ASSUME NEW x \in Peer PROVE x \in Kin(x)
BY DEF Kin

PostOut(x, to, m) == [q \in Players |-> IF q \in to THEN Append(x.out[q], m) ELSE x.out[q]]

LEMMA PostIs ==
    ASSUME NEW x \in Peer, NEW to, NEW m \in Message
    PROVE  /\ Post(x, to, m) = [x EXCEPT !.out = PostOut(x, to, m)]
           /\ PostOut(x, to, m) \in Outs
           /\ Post(x, to, m) \in Kin(x)
<1>1. \A q \in Players : x.out[q] \in Seq(Message) /\ Append(x.out[q], m) \in Seq(Message)
  BY DEF Peer
<1>2. PostOut(x, to, m) \in Outs
  BY <1>1 DEF PostOut, Outs
<1>3. Post(x, to, m) = [x EXCEPT !.out = PostOut(x, to, m)]
  BY DEF Post, PostOut, Peer
<1>4. [x EXCEPT !.out = PostOut(x, to, m)] \in Kin(x)
  <2> DEFINE o == PostOut(x, to, m)
  <2>1. o \in [Players -> Seq(Message)]
    BY <1>2 DEF Outs
  <2> HIDE DEF o
  <2>2. [x EXCEPT !.out = o] \in Kin(x)
    BY <2>1 DEF Kin, Peer
  <2> QED BY <2>2 DEF o
<1> QED BY <1>2, <1>3, <1>4

-----------------------------------------------------------------------------
Votes == [Players -> [Players -> Stand]]
Fewer(v) == {u \in Votes : \A a, b \in Players : u[a][b] \in {v[a][b], 0}}

LEMMA ResetVotesIs ==
    ASSUME NEW x \in Peer, NEW v \in Players, NEW f \in Int
    PROVE  \E u \in Fewer(x.votes) : resetPlayersVotes(x, v, f) = [x EXCEPT !.votes = u]
<1> DEFINE u == [t \in Players |-> IF x.votes[t][v] <= f THEN [x.votes[t] EXCEPT ![v] = 0] ELSE x.votes[t]]
<1>1. x.votes \in Votes /\ 0 \in Stand
  BY Numbers DEF Peer, Votes, Stand
<1>2. \A t \in Players : x.votes[t] \in [Players -> Stand] /\ u[t] \in [Players -> Stand]
  BY <1>1 DEF Votes
<1>3. \A a, b \in Players : u[a][b] \in {x.votes[a][b], 0}
  BY <1>1, <1>2 DEF Votes
<1>4. u \in Fewer(x.votes)
  BY <1>2, <1>3 DEF Fewer, Votes
<1>5. resetPlayersVotes(x, v, f) = [x EXCEPT !.votes = u]
  BY DEF resetPlayersVotes, Peer
<1> QED BY <1>4, <1>5

\* The own record, and what goes out when the frame is announced.
Opening(x, y) ==
    \E u \in Fewer(x.votes), o \in Outs :
        /\ y = [x EXCEPT !.votes = u, !.df = [x.df EXCEPT ![x.self] = x.frame],
                         !.dfr = [x.dfr EXCEPT ![x.self] = TRUE], !.out = o]
        /\ \A b \in Players : Grows(x.out[b], o[b], Resend)

LEMMA FewerSelf == ASSUME NEW x \in Peer PROVE x.votes \in Fewer(x.votes)
BY DEF Peer, Fewer, Votes

LEMMA GrowsSelf ==
    ASSUME NEW x \in Peer, NEW M
    PROVE  x.out \in Outs /\ \A b \in Players : Grows(x.out[b], x.out[b], M)
<1>1. x.out \in Outs
  BY DEF Peer, Outs
<1>2. \A b \in Players : Len(x.out[b]) \in Nat
  BY <1>1 DEF Outs
<1> QED BY <1>1, <1>2 DEF Grows

LEMMA OpenOwnIs ==
    ASSUME NEW x \in Peer
    PROVE  Opening(x, openOwnRecord(x))
<1>1. CASE x.df[x.self] = x.frame /\ x.dfr[x.self]
  <2>1. [x.df EXCEPT ![x.self] = x.frame] = x.df /\ [x.dfr EXCEPT ![x.self] = TRUE] = x.dfr
    BY <1>1 DEF Peer
  <2>2. x = [x EXCEPT !.votes = x.votes, !.df = [x.df EXCEPT ![x.self] = x.frame],
                      !.dfr = [x.dfr EXCEPT ![x.self] = TRUE], !.out = x.out]
    BY <2>1 DEF Peer
  <2>3. Opening(x, x)
    BY <2>2, FewerSelf, GrowsSelf DEF Opening
  <2> QED BY <1>1, <2>3 DEF openOwnRecord
<1>2. CASE ~(x.df[x.self] = x.frame /\ x.dfr[x.self])
  <2>1. x.self \in Players /\ x.frame - 1 \in Int /\ x.frame \in Stand
    BY Numbers DEF Peer, Stand
  <2>2. PICK u \in Fewer(x.votes) : resetPlayersVotes(x, x.self, x.frame - 1) = [x EXCEPT !.votes = u]
    BY <2>1, ResetVotesIs
  <2> DEFINE z == [x EXCEPT !.votes = u, !.df = [x.df EXCEPT ![x.self] = x.frame],
                            !.dfr = [x.dfr EXCEPT ![x.self] = TRUE]]
  <2>3. [resetPlayersVotes(x, x.self, x.frame - 1) EXCEPT !.df[x.self] = x.frame, !.dfr[x.self] = TRUE] = z
    BY <2>2 DEF Peer
  <2>4. z \in Peer /\ z.out = x.out
    BY <2>1 DEF Peer, Fewer, Votes
  <2>5. openOwnRecord(x) = InTurn(helpBehind, z, Order)
    BY <1>2, <2>3 DEF openOwnRecord
  <2>6. openOwnRecord(x) \in Sending(z, Resend)
    BY <2>4, <2>5, HelpsSend
  <2>7. PICK o \in Outs : openOwnRecord(x) = [z EXCEPT !.out = o] /\ \A b \in Players : Grows(z.out[b], o[b], Resend)
    BY <2>6 DEF Sending
  <2>8. [z EXCEPT !.out = o] = [x EXCEPT !.votes = u, !.df = [x.df EXCEPT ![x.self] = x.frame],
                               !.dfr = [x.dfr EXCEPT ![x.self] = TRUE], !.out = o]
    BY DEF Peer
  <2> HIDE DEF z
  <2> QED BY <2>2, <2>4, <2>7, <2>8 DEF Opening
<1> QED BY <1>1, <1>2

Announced(x) == [type |-> "DISCONNECTFRAME", frame |-> x.frame]

Notifying(x, y) ==
    \E u \in Fewer(x.votes), o \in Outs :
        /\ y = [x EXCEPT !.votes = u, !.df = [x.df EXCEPT ![x.self] = x.frame],
                         !.dfr = [x.dfr EXCEPT ![x.self] = TRUE], !.out = o,
                         !.ann = x.frame, !.hold = "held"]
        /\ \A b \in Players : Grows(PostOut(x, Others(x), Announced(x))[b], o[b], Resend)

LEMMA NotifyIs ==
    ASSUME NEW x \in Peer
    PROVE  Notifying(x, notifyOthersOfCurrentFrame(x))
<1> DEFINE p == PostOut(x, Others(x), Announced(x))
           z == [x EXCEPT !.out = p]
<1>1. Announced(x) \in Message
  BY DEF Announced, Message, Announcement, Peer
<1>2. p \in Outs /\ Post(x, Others(x), Announced(x)) = z
  BY <1>1, PostIs
<1> HIDE DEF p
<1>3. z \in Peer /\ z.out = p /\ z.votes = x.votes /\ z.df = x.df /\ z.dfr = x.dfr
      /\ z.self = x.self /\ z.frame = x.frame
  BY <1>2 DEF Peer, Outs
<1>4. Opening(z, openOwnRecord(z))
  BY <1>3, OpenOwnIs
<1>5. PICK u \in Fewer(x.votes), o \in Outs :
        /\ openOwnRecord(z) = [z EXCEPT !.votes = u, !.df = [x.df EXCEPT ![x.self] = x.frame],
                                       !.dfr = [x.dfr EXCEPT ![x.self] = TRUE], !.out = o]
        /\ \A b \in Players : Grows(p[b], o[b], Resend)
  BY <1>3, <1>4, ZenonT(30) DEF Opening
<1>6. notifyOthersOfCurrentFrame(x) = [openOwnRecord(z) EXCEPT !.ann = x.frame, !.hold = "held"]
  BY <1>2 DEF notifyOthersOfCurrentFrame, Announced
<1>7. notifyOthersOfCurrentFrame(x) =
        [x EXCEPT !.votes = u, !.df = [x.df EXCEPT ![x.self] = x.frame],
                  !.dfr = [x.dfr EXCEPT ![x.self] = TRUE], !.out = o, !.ann = x.frame, !.hold = "held"]
  BY <1>5, <1>6 DEF Peer
<1> QED BY <1>5, <1>7 DEF Notifying, p

LEMMA NotifyingIsKin ==
    ASSUME NEW x \in Peer, NEW y, Notifying(x, y)
    PROVE  y \in Kin(x)
<1>1. PICK u \in Fewer(x.votes), o \in Outs :
        y = [x EXCEPT !.votes = u, !.df = [x.df EXCEPT ![x.self] = x.frame],
                  !.dfr = [x.dfr EXCEPT ![x.self] = TRUE], !.out = o, !.ann = x.frame, !.hold = "held"]
  BY DEF Notifying
<1>2. u \in [Players -> [Players -> Stand]] /\ o \in [Players -> Seq(Message)] /\ x.frame \in Stand
  BY DEF Fewer, Votes, Outs, Peer
<1> QED BY <1>1, <1>2 DEF Kin, Peer

-----------------------------------------------------------------------------
LEMMA GreatestIs ==
    ASSUME NEW S \in SUBSET Stand, S # {}
    PROVE  GreatestOf(S) \in S /\ \A y \in S : y <= GreatestOf(S)
<1>1. IsFiniteSet(S) /\ S \subseteq Nat
  <2>1. IsFiniteSet(Stand) /\ Stand \subseteq Nat
    BY Numbers, FS_Interval DEF Stand
  <2> QED BY <2>1, FS_Subset
<1>2. PICK x \in S : \A y \in S : y <= x
  BY <1>1, GreatestOne
<1>3. \A y \in S : x >= y
  BY <1>1, <1>2
<1>4. GreatestOf(S) \in S /\ \A y \in S : GreatestOf(S) >= y
  BY <1>3 DEF GreatestOf
<1> QED BY <1>1, <1>4

LEMMA LeastIs ==
    ASSUME NEW S \in SUBSET Players, S # {}
    PROVE  LeastOf(S) \in S /\ \A y \in S : LeastOf(S) <= y
<1>1. S \subseteq Nat
  BY Numbers
<1>2. PICK x \in S : \A y \in S \ {x} : ~ (<<y, x>> \in Less)
  BY <1>1, LessIsWellFounded, WFMin
<1>3. ASSUME NEW y \in S PROVE x <= y
  <2>1. x \in Nat /\ y \in Nat
    BY <1>1, <1>2
  <2>2. y < x => <<y, x>> \in Less
    BY <2>1 DEF Less
  <2> QED BY <1>2, <2>1, <2>2
<1> QED BY <1>3 DEF LeastOf

-----------------------------------------------------------------------------
LEMMA ReleaseIs ==
    ASSUME NEW x \in Peer
    PROVE  /\ Release(x) = [x EXCEPT !.hold = IF x.hold = "held" THEN "released" ELSE x.hold]
           /\ Release(x) \in Kin(x)
<1>1. Release(x) = [x EXCEPT !.hold = IF x.hold = "held" THEN "released" ELSE x.hold]
  <2>1. x = [x EXCEPT !.hold = x.hold]
    BY DEF Peer
  <2> QED BY <2>1 DEF Release
<1>2. (IF x.hold = "held" THEN "released" ELSE x.hold) \in {"none", "held", "released"}
  BY DEF Peer
<1> QED BY <1>1, <1>2, ZenonT(30) DEF Kin, Peer

LEMMA DisconnectIs ==
    ASSUME NEW x \in Peer, NEW s \in Players, NEW f \in Stand \ {0}
    PROVE  /\ disconnectPlayer(x, s, f) = [x EXCEPT !.leave = [x.leave EXCEPT ![s] = f],
                  !.heard = [x.heard EXCEPT ![s] = TRUE], !.bar = [x.bar EXCEPT ![s] = "full"]]
           /\ disconnectPlayer(x, s, f) \in Kin(x)
<1>1. f \in Frames
  BY Numbers DEF Stand
<1>2. disconnectPlayer(x, s, f) = [x EXCEPT !.leave = [x.leave EXCEPT ![s] = f],
                  !.heard = [x.heard EXCEPT ![s] = TRUE], !.bar = [x.bar EXCEPT ![s] = "full"]]
  BY DEF disconnectPlayer
<1>3. /\ [x.leave EXCEPT ![s] = f] \in [Players -> Frames \cup {Never}]
      /\ [x.heard EXCEPT ![s] = TRUE] \in [Players -> BOOLEAN]
      /\ [x.bar EXCEPT ![s] = "full"] \in [Players -> {"full", "low", "out"}]
  BY <1>1 DEF Peer
<1>4. [x EXCEPT !.leave = [x.leave EXCEPT ![s] = f],
                !.heard = [x.heard EXCEPT ![s] = TRUE], !.bar = [x.bar EXCEPT ![s] = "full"]] \in Kin(x)
  BY <1>3 DEF Kin, Peer
<1> QED BY <1>2, <1>4

LEMMA ApplyDropIsKin ==
    ASSUME NEW x \in Peer, NEW d \in PendingDrop
    PROVE  applyDrop(x, d) \in Kin(x)
<1>1. [x EXCEPT !.pending = Append(@, d)] \in Kin(x)
  <2> DEFINE s == Append(x.pending, d)
  <2>1. s \in Seq(PendingDrop)
    BY DEF Peer
  <2> HIDE DEF s
  <2>2. [x EXCEPT !.pending = s] \in Kin(x)
    BY <2>1 DEF Kin, Peer
  <2> QED BY <2>2 DEF s
<1>2. [x EXCEPT !.quit = TRUE] \in Kin(x)
  BY DEF Kin, Peer
<1>3. d.target \in Players /\ d.frame \in Stand \ {0}
  BY DEF PendingDrop
<1>4. Release(disconnectPlayer(x, d.target, d.frame)) \in Kin(x)
  <2> DEFINE y == disconnectPlayer(x, d.target, d.frame)
  <2>1. y \in Kin(x) /\ y \in Peer
    BY <1>3, DisconnectIs DEF Kin
  <2> HIDE DEF y
  <2>2. Release(y) \in Kin(x)
    BY <2>1, ReleaseIs, KinTwice
  <2> QED BY <2>2 DEF y
<1> QED BY <1>1, <1>2, <1>4, KinSelf DEF applyDrop

\* The drops that wait, applied one after the other.
LEMMA PendingIsKin ==
    ASSUME NEW x \in Peer
    PROVE  applyPendingDrops(x) \in Kin(x)
<1> DEFINE N == Len(x.pending)
           S == Kin(x)
           F == [a \in S \X (1 .. N) |-> applyDrop(a[1], x.pending[a[2]])]
<1>1. N \in Nat
  BY DEF Peer
<1>2. \A y \in S, n \in 1 .. N : applyDrop(y, x.pending[n]) \in S
  <2>1. \A n \in 1 .. N : x.pending[n] \in PendingDrop
    BY DEF Peer
  <2>2. \A y \in S : y \in Peer
    BY DEF Kin
  <2> HIDE DEF N, F
  <2> QED BY <2>1, <2>2, ApplyDropIsKin, KinTwice
<1>3. \A y \in S, n \in 1 .. N : F[<<y, n>>] = applyDrop(y, x.pending[n])
  OBVIOUS
<1>4. [x EXCEPT !.pending = <<>>] \in S
  <2> DEFINE s == <<>>
  <2>1. s \in Seq(PendingDrop)
    OBVIOUS
  <2> HIDE DEF s
  <2>2. [x EXCEPT !.pending = s] \in Kin(x)
    BY <2>1 DEF Kin, Peer
  <2> QED BY <2>2 DEF s
<1> HIDE DEF N, S, F
<1>5. PICK g : Recursive(g, N, [x EXCEPT !.pending = <<>>], F) /\ \A n \in 0 .. N : g[n] \in S
  <2>1. \A y \in S, n \in 1 .. N : F[<<y, n>>] \in S
    BY <1>2, <1>3
  <2> QED BY <1>1, <1>4, <2>1, RecursionStays
<1> DEFINE Is(h) == h = [n \in 0 .. N |-> IF n = 0 THEN [x EXCEPT !.pending = <<>>]
                                         ELSE CHOOSE z \in {applyDrop(y, x.pending[n]) : y \in {h[n - 1]}} : TRUE]
<1>6. Is(g)
  <2>1. ASSUME NEW n \in 0 .. N
        PROVE  g[n] = IF n = 0 THEN [x EXCEPT !.pending = <<>>] ELSE CHOOSE z \in {applyDrop(y, x.pending[n]) : y \in {g[n - 1]}} : TRUE
    <3>1. CASE n = 0
      BY <1>1, <1>5, <3>1 DEF Recursive
    <3>2. CASE n # 0
      <4>1. n \in 1 .. N /\ n - 1 \in 0 .. N
        BY <1>1, <3>2
      <4>2. g[n] = F[<<g[n - 1], n>>]
        BY <1>1, <1>5, <3>2 DEF Recursive
      <4>3. g[n] = applyDrop(g[n - 1], x.pending[n])
        BY <1>3, <1>5, <4>1, <4>2
      <4> QED BY <3>2, <4>3
    <3> QED BY <3>1, <3>2
  <2> QED BY <1>5, <2>1 DEF Recursive
<1> DEFINE h == CHOOSE h : Is(h)
<1>7. Is(h)
  BY <1>6
<1>8. applyPendingDrops(x) = h[N]
  BY DEF applyPendingDrops, InTurn, Of, N
<1> HIDE DEF h
<1>9. \A n \in 0 .. N : h[n] \in S
  <2>1. h[0] \in S
    BY <1>1, <1>4, <1>7
  <2>2. ASSUME NEW n \in 1 .. N, h[n - 1] \in S PROVE h[n] \in S
    <3>1. h[n] = applyDrop(h[n - 1], x.pending[n])
      BY <1>1, <1>7
    <3> QED BY <1>2, <2>2, <3>1
  <2> QED BY ONLY <2>1, <2>2, <1>1, UpTo
<1> QED BY <1>1, <1>8, <1>9 DEF S


-----------------------------------------------------------------------------
DropOf(x, i) ==
    [type |-> "DISCONNECTPLAYER", target |-> i, frame |-> GreatestOf({x.df[s] : s \in Players}),
     gone |-> Predecessors(x.self, i)]

LEMMA DropIs ==
    ASSUME NEW x \in Peer, NEW i \in Players, x.df[x.self] >= 1
    PROVE  /\ DropOf(x, i) \in DropCommand
           /\ \A s \in Players : x.df[s] <= DropOf(x, i).frame
           /\ \E s \in Players : DropOf(x, i).frame = x.df[s]
           /\ Drop(x, i) = [x EXCEPT !.decided = Append(x.decided, DropOf(x, i)),
                  !.out = PostOut(x, Others(x), DropOf(x, i)),
                  !.leave = [x.leave EXCEPT ![i] = DropOf(x, i).frame],
                  !.heard = [x.heard EXCEPT ![i] = TRUE], !.bar = [x.bar EXCEPT ![i] = "full"],
                  !.hold = IF x.hold = "held" THEN "released" ELSE x.hold]
           /\ Drop(x, i) \in Kin(x)
<1> DEFINE S == {x.df[s] : s \in Players}
           L == GreatestOf(S)
           d == DropOf(x, i)
<1>1. S \in SUBSET Stand /\ S # {} /\ x.self \in Players
  BY Numbers DEF Peer
<1>2. L \in S /\ \A y \in S : y <= L
  BY <1>1, GreatestIs
<1>3. x.df[x.self] \in S
  BY <1>1
<1>5. L \in Stand \ {0} /\ L >= 1
  <2> HIDE DEF L, S
  <2>1. L \in Stand /\ x.df[x.self] <= L /\ x.df[x.self] \in Stand
    BY <1>1, <1>2, <1>3
  <2> QED BY <2>1, Numbers DEF Stand
<1> HIDE DEF L
<1>4. d = [type |-> "DISCONNECTPLAYER", target |-> i, frame |-> L, gone |-> Predecessors(x.self, i)]
  BY DEF DropOf, L
<1>6. d \in DropCommand /\ d \in Message /\ d.frame = L
  BY <1>4, <1>5 DEF DropCommand, Predecessors, Message
<1> HIDE DEF d
<1> DEFINE w == [x EXCEPT !.decided = Append(x.decided, d)]
           z == [w EXCEPT !.out = PostOut(w, Others(w), d)]
<1>7. w \in Kin(x) /\ w \in Peer
  <2> DEFINE s == Append(x.decided, d)
  <2>1. s \in Seq(DropCommand)
    BY <1>6 DEF Peer
  <2> HIDE DEF s
  <2>2. [x EXCEPT !.decided = s] \in Kin(x) /\ [x EXCEPT !.decided = s] \in Peer
    BY <2>1 DEF Kin, Peer
  <2> QED BY <2>2 DEF s
<1>8. w.out = x.out /\ w.self = x.self /\ w.leave = x.leave
  BY DEF Peer
<1>9. Others(w) = Others(x) /\ PostOut(w, Others(w), d) = PostOut(x, Others(x), d)
  BY <1>8 DEF Others, Connected, PostOut
<1>10. Post(w, Others(w), d) = z /\ z \in Kin(w)
  <2> HIDE DEF w
  <2> QED BY <1>6, <1>7, PostIs
<1>11. z \in Peer /\ z \in Kin(x)
  BY <1>7, <1>10, KinTwice DEF Kin
<1>12. Post(w, Others(x), d) = z
  BY <1>9, <1>10
<1>13. Drop(x, i) = Release(disconnectPlayer(z, i, L))
  BY <1>4, <1>12 DEF Drop, L
<1>14. z = [x EXCEPT !.decided = Append(x.decided, d), !.out = PostOut(x, Others(x), d)]
  BY <1>9
<1> HIDE DEF w, z
<1>15. /\ disconnectPlayer(z, i, L) = [z EXCEPT !.leave = [z.leave EXCEPT ![i] = L],
                  !.heard = [z.heard EXCEPT ![i] = TRUE], !.bar = [z.bar EXCEPT ![i] = "full"]]
       /\ disconnectPlayer(z, i, L) \in Kin(z)
  BY <1>5, <1>11, DisconnectIs
<1> DEFINE v == disconnectPlayer(z, i, L)
<1>16. v \in Peer /\ Release(v) = [v EXCEPT !.hold = IF v.hold = "held" THEN "released" ELSE v.hold] /\ Release(v) \in Kin(v)
  BY <1>15, ReleaseIs DEF Kin
<1>17. Release(v) \in Kin(x)
  <2>1. v \in Kin(x)
    BY <1>11, <1>15, KinTwice
  <2> HIDE DEF v
  <2> QED BY <2>1, <1>16, KinTwice
<1>18. v.hold = x.hold /\ z.leave = x.leave /\ z.heard = x.heard /\ z.bar = x.bar
  BY <1>14, <1>15 DEF Peer
<1>19. Release(v) = [x EXCEPT !.decided = Append(x.decided, d),
                  !.out = PostOut(x, Others(x), d),
                  !.leave = [x.leave EXCEPT ![i] = L],
                  !.heard = [x.heard EXCEPT ![i] = TRUE], !.bar = [x.bar EXCEPT ![i] = "full"],
                  !.hold = IF x.hold = "held" THEN "released" ELSE x.hold]
  BY <1>14, <1>15, <1>16, <1>18 DEF Peer
<1>20. \A s \in Players : x.df[s] \in S
  OBVIOUS
<1>21. \E s \in Players : L = x.df[s]
  BY <1>2
<1> QED BY <1>2, <1>6, <1>13, <1>17, <1>19, <1>20, <1>21 DEF d

VoteFor(x, s) == [type |-> "DISCONNECTVOTE", target |-> s, frame |-> x.frame]

LEMMA VoteIs ==
    ASSUME NEW x \in Peer, NEW s \in Players
    PROVE  /\ voteForPlayerDisconnect(x, s) \in Kin(x)
           /\ VoteFor(x, s) \in Message
           /\ x.votes[s][x.self] = 0 =>
                 voteForPlayerDisconnect(x, s) =
                    [x EXCEPT !.votes[s][x.self] = x.frame, !.out = PostOut(x, Others(x), VoteFor(x, s))]
<1> DEFINE w == [x EXCEPT !.votes[s][x.self] = x.frame]
<1>1. VoteFor(x, s) \in Message
  BY DEF VoteFor, Vote, Message, Peer
<1>2. x.self \in Players /\ x.frame \in Stand /\ x.votes \in [Players -> [Players -> Stand]]
  BY DEF Peer
<1>3. w \in Kin(x) /\ w \in Peer
  <2>1. [x.votes EXCEPT ![s][x.self] = x.frame] \in [Players -> [Players -> Stand]]
    BY <1>2
  <2> QED BY <2>1 DEF Kin, Peer
<1>4. w.out = x.out /\ w.self = x.self /\ w.leave = x.leave
  BY DEF Peer
<1>5. Others(w) = Others(x) /\ PostOut(w, Others(x), VoteFor(x, s)) = PostOut(x, Others(x), VoteFor(x, s))
  BY <1>4 DEF Others, Connected, PostOut
<1>6. /\ Post(w, Others(x), VoteFor(x, s)) = [w EXCEPT !.out = PostOut(w, Others(x), VoteFor(x, s))]
      /\ Post(w, Others(x), VoteFor(x, s)) \in Kin(w)
  BY <1>1, <1>3, PostIs
<1>7. Post(w, Others(x), VoteFor(x, s)) \in Kin(x)
  BY <1>3, <1>6, KinTwice
<1>8. voteForPlayerDisconnect(x, s) = IF x.votes[s][x.self] # 0 THEN x ELSE Post(w, Others(x), VoteFor(x, s))
  BY DEF voteForPlayerDisconnect, VoteFor
<1> QED BY <1>1, <1>5, <1>6, <1>7, <1>8, KinSelf

-----------------------------------------------------------------------------
\* The operations keep the types, and leave alone what Kin says.

LEMMA AnnounceIsKin ==
    ASSUME NEW x \in Peer, NEW i \in Players
    PROVE  announce(x, i) \in Kin(x)
<1> DEFINE y == notifyOthersOfCurrentFrame(x)
<1>1. y \in Kin(x) /\ y.frame = x.frame
  BY NotifyIs, NotifyingIsKin DEF Kin
<1>2. x.frame \in Stand
  BY DEF Peer
<1> HIDE DEF y
<1>3. [y EXCEPT !.notified = x.frame] \in Kin(x)
  BY <1>1, <1>2 DEF Kin, Peer
<1> QED BY <1>3, KinSelf DEF announce, y

LEMMA DecideIsKin ==
    ASSUME NEW x \in Peer, NEW i \in Players
    PROVE  decide(x, i) \in Kin(x)
<1> DEFINE y == notifyOthersOfCurrentFrame(x)
<1>1. y \in Kin(x) /\ Notifying(x, y)
  BY NotifyIs, NotifyingIsKin
<1>2. y \in Peer /\ y.df[y.self] >= 1
  <2>1. y \in Peer /\ y.self = x.self
    BY <1>1 DEF Kin
  <2>2. PICK u, o : y = [x EXCEPT !.votes = u, !.df = [x.df EXCEPT ![x.self] = x.frame],
                         !.dfr = [x.dfr EXCEPT ![x.self] = TRUE], !.out = o,
                         !.ann = x.frame, !.hold = "held"]
    BY <1>1 DEF Notifying
  <2>3. y.df[x.self] = x.frame
    BY <2>2 DEF Peer
  <2>4. x.frame >= 1
    BY Numbers DEF Peer, Stand
  <2> QED BY <2>1, <2>3, <2>4
<1> HIDE DEF y
<1>3. Drop(y, i) \in Kin(x)
  BY <1>1, <1>2, DropIs, KinTwice
<1>4. decide(x, i) \in {Drop(y, i), voteForPlayerDisconnect(x, i), x}
  BY DEF decide, Of, y
<1> QED BY <1>3, <1>4, VoteIs, KinSelf

LEMMA StatusIsKin ==
    ASSUME NEW x \in Peer, NEW i \in Players
    PROVE  updateDisconnectStatus(x, i) \in Kin(x)
<1> DEFINE y == announce(x, i)
<1>1. y \in Kin(x) /\ y \in Peer
  BY AnnounceIsKin DEF Kin
<1>2. updateDisconnectStatus(x, i) \in {x, decide(y, i)}
  BY DEF updateDisconnectStatus, Of
<1> HIDE DEF y
<1> QED BY <1>1, <1>2, DecideIsKin, KinTwice, KinSelf

\* The loop over the slots.
LEMMA StatusesAreKin ==
    ASSUME NEW x \in Peer
    PROVE  InTurn(updateDisconnectStatus, x, Order) \in Kin(x)
<1> DEFINE N == Len(Order)
           S == Kin(x)
           F == [a \in S \X (1 .. N) |-> updateDisconnectStatus(a[1], Order[a[2]])]
<1>1. N \in Nat
  BY OrderIs
<1>2. \A y \in S, n \in 1 .. N : updateDisconnectStatus(y, Order[n]) \in S
  <2>1. \A n \in 1 .. N : Order[n] \in Players
    BY OrderIs
  <2>2. \A y \in S : y \in Peer
    BY DEF Kin
  <2> HIDE DEF N, F
  <2> QED BY <2>1, <2>2, StatusIsKin, KinTwice
<1>3. \A y \in S, n \in 1 .. N : F[<<y, n>>] = updateDisconnectStatus(y, Order[n])
  OBVIOUS
<1>4. x \in S
  BY KinSelf
<1> HIDE DEF N, S, F
<1>5. PICK g : Recursive(g, N, x, F) /\ \A n \in 0 .. N : g[n] \in S
  <2>1. \A y \in S, n \in 1 .. N : F[<<y, n>>] \in S
    BY <1>2, <1>3
  <2> QED BY <1>1, <1>4, <2>1, RecursionStays
<1> DEFINE Is(h) == h = [n \in 0 .. N |-> IF n = 0 THEN x
                                         ELSE CHOOSE z \in {updateDisconnectStatus(y, Order[n]) : y \in {h[n - 1]}} : TRUE]
<1>6. Is(g)
  <2>1. ASSUME NEW n \in 0 .. N
        PROVE  g[n] = IF n = 0 THEN x ELSE CHOOSE z \in {updateDisconnectStatus(y, Order[n]) : y \in {g[n - 1]}} : TRUE
    <3>1. CASE n = 0
      BY <1>1, <1>5, <3>1 DEF Recursive
    <3>2. CASE n # 0
      <4>1. n \in 1 .. N /\ n - 1 \in 0 .. N
        BY <1>1, <3>2
      <4>2. g[n] = F[<<g[n - 1], n>>]
        BY <1>1, <1>5, <3>2 DEF Recursive
      <4>3. g[n] = updateDisconnectStatus(g[n - 1], Order[n])
        BY <1>3, <1>5, <4>1, <4>2
      <4> QED BY <3>2, <4>3
    <3> QED BY <3>1, <3>2
  <2> QED BY <1>5, <2>1 DEF Recursive
<1> DEFINE h == CHOOSE h : Is(h)
<1>7. Is(h)
  BY <1>6
<1>8. InTurn(updateDisconnectStatus, x, Order) = h[N]
  BY DEF InTurn, Of, N
<1> HIDE DEF h
<1>9. \A n \in 0 .. N : h[n] \in S
  <2>1. h[0] \in S
    BY <1>1, <1>4, <1>7
  <2>2. ASSUME NEW n \in 1 .. N, h[n - 1] \in S PROVE h[n] \in S
    <3>1. h[n] = updateDisconnectStatus(h[n - 1], Order[n])
      BY <1>1, <1>7
    <3> QED BY <1>2, <2>2, <3>1
  <2> QED BY ONLY <2>1, <2>2, <1>1, UpTo
<1> QED BY <1>1, <1>8, <1>9 DEF S


OffCommand(x) == [type |-> "DISCONNECTSCREENOFF", frame |-> x.frame, released |-> Opened(x)]

LEMMA ScreenOffIs ==
    ASSUME NEW x \in Peer
    PROVE  /\ turnOffScreen(x) \in Kin(x)
           /\ OffCommand(x) \in Message
           /\ ~x.screen => turnOffScreen(x) = x
           /\ x.screen => \E v \in Fewer(x.votes), h \in {x.hold, IF x.hold = "held" THEN "released" ELSE x.hold} :
                 turnOffScreen(x) = [x EXCEPT !.screen = FALSE, !.dfr = ForAll(FALSE), !.votes = v,
                                              !.out = PostOut(x, Others(x), OffCommand(x)), !.hold = h]
<1> DEFINE v == [t \in Players |-> [x.votes[t] EXCEPT ![x.self] = 0]]
           w == [x EXCEPT !.screen = FALSE, !.dfr = ForAll(FALSE), !.votes = v]
           z == [w EXCEPT !.out = PostOut(w, Others(w), OffCommand(x))]
<1>1. OffCommand(x) \in Message
  <2>1. Opened(x) \in SUBSET (Players \X Stand)
    BY DEF Opened, Peer
  <2>2. x.frame \in Stand
    BY DEF Peer
  <2> QED BY <2>1, <2>2 DEF OffCommand, ScreenOff, Message
<1>2. v \in Votes /\ v \in Fewer(x.votes)
  <2>1. \A t \in Players : x.votes[t] \in [Players -> Stand] /\ 0 \in Stand
    BY Numbers DEF Peer, Stand
  <2>2. v \in Votes
    BY <2>1 DEF Votes
  <2>3. \A a, b \in Players : v[a][b] \in {x.votes[a][b], 0}
    BY <2>1
  <2> HIDE DEF v
  <2> QED BY <2>2, <2>3 DEF Fewer
<1> HIDE DEF v
<1>3. ForAll(FALSE) \in [Players -> BOOLEAN]
  BY DEF ForAll
<1>4. w \in Kin(x) /\ w \in Peer
  BY <1>2, <1>3 DEF Kin, Peer, Votes
<1>5. w.out = x.out /\ w.self = x.self /\ w.leave = x.leave
  BY DEF Peer
<1>6. Others(w) = Others(x) /\ PostOut(w, Others(w), OffCommand(x)) = PostOut(x, Others(x), OffCommand(x))
  BY <1>5 DEF Others, Connected, PostOut
<1>7. Post(w, Others(w), OffCommand(x)) = z /\ z \in Kin(w) /\ Post(w, Others(x), OffCommand(x)) = z
  <2> HIDE DEF w
  <2> QED BY <1>1, <1>4, <1>6, PostIs
<1>8. z \in Peer /\ z \in Kin(x)
  BY <1>4, <1>7, KinTwice DEF Kin
<1>9. w = [x EXCEPT !.screen = FALSE, !.dfr = ForAll(FALSE),
                    !.votes = [t \in Players |-> [x.votes[t] EXCEPT ![x.self] = 0]]]
  BY DEF v
<1>10. turnOffScreen(x) \in {x, z, Release(z)} /\ (x.screen => turnOffScreen(x) \in {z, Release(z)})
       /\ (~x.screen => turnOffScreen(x) = x)
  <2>1. [x EXCEPT !.screen = FALSE, !.dfr = ForAll(FALSE),
                    !.votes = [t \in Players |-> [@[t] EXCEPT ![x.self] = 0]]] = w
    BY <1>9 DEF Peer
  <2>2. turnOffScreen(x) = IF ~x.screen THEN x
                           ELSE IF nextPacketRouter(w) = x.self
                                THEN Release(Post(w, Others(x), OffCommand(x)))
                                ELSE Post(w, Others(x), OffCommand(x))
    BY <2>1 DEF turnOffScreen, OffCommand
  <2> QED BY <1>7, <2>2
<1>11. z = [x EXCEPT !.screen = FALSE, !.dfr = ForAll(FALSE), !.votes = v,
                     !.out = PostOut(x, Others(x), OffCommand(x)), !.hold = x.hold]
  BY <1>6 DEF Peer
<1> HIDE DEF w, z
<1>12. Release(z) \in Kin(x) /\ Release(z) = [z EXCEPT !.hold = IF z.hold = "held" THEN "released" ELSE z.hold]
  BY <1>8, ReleaseIs, KinTwice
<1>13. \E h \in {x.hold, IF x.hold = "held" THEN "released" ELSE x.hold} : Release(z) =
         [x EXCEPT !.screen = FALSE, !.dfr = ForAll(FALSE), !.votes = v,
                   !.out = PostOut(x, Others(x), OffCommand(x)), !.hold = h]
  <2> DEFINE h == IF x.hold = "held" THEN "released" ELSE x.hold
  <2>1. z.hold = x.hold
    BY <1>11 DEF Peer
  <2>2. Release(z) = [z EXCEPT !.hold = h]
    BY <1>12, <2>1
  <2>3. h \in {x.hold, IF x.hold = "held" THEN "released" ELSE x.hold}
    OBVIOUS
  <2> HIDE DEF h
  <2>4. Release(z) = [x EXCEPT !.screen = FALSE, !.dfr = ForAll(FALSE), !.votes = v,
                   !.out = PostOut(x, Others(x), OffCommand(x)), !.hold = h]
    BY <1>11, <2>2 DEF Peer
  <2> QED BY <2>3, <2>4
<1>14. turnOffScreen(x) \in Kin(x)
  BY <1>8, <1>10, <1>12, KinSelf
<1>15. x.screen => \E h \in {x.hold, IF x.hold = "held" THEN "released" ELSE x.hold} : turnOffScreen(x) =
         [x EXCEPT !.screen = FALSE, !.dfr = ForAll(FALSE), !.votes = v,
                   !.out = PostOut(x, Others(x), OffCommand(x)), !.hold = h]
  BY <1>10, <1>11, <1>13
<1> QED BY <1>1, <1>2, <1>10, <1>14, <1>15

LEMMA SwitchIsKin ==
    ASSUME NEW x \in Peer
    PROVE  switchScreen(x) \in Kin(x)
<1>1. turnOnScreen(x) \in Kin(x)
  <2>1. ForAll("full") \in [Players -> {"full", "low", "out"}] /\ 0 \in Stand
    BY Numbers DEF ForAll, Stand
  <2> QED BY <2>1 DEF turnOnScreen, Kin, Peer
<1> QED BY <1>1, ScreenOffIs, KinSelf DEF switchScreen

LEMMA RestartIs ==
    ASSUME NEW x \in Peer
    PROVE  /\ restartTimeouts(x) \in Kin(x)
           /\ restartTimeouts(x) = [x EXCEPT !.hold = IF x.frame > x.ann THEN "none" ELSE x.hold,
                                             !.bar = [s \in Players |-> IF x.heard[s] THEN "full" ELSE x.bar[s]]]
<1>1. [s \in Players |-> IF x.heard[s] THEN "full" ELSE x.bar[s]] \in [Players -> {"full", "low", "out"}]
  BY DEF Peer
<1>2. (IF x.frame > x.ann THEN "none" ELSE x.hold) \in {"none", "held", "released"}
  BY DEF Peer
<1> QED BY <1>1, <1>2, ZenonT(30) DEF restartTimeouts, Kin, Peer

\* What update does, one operation after the other.
LEMMA UpdateIs ==
    ASSUME NEW x \in Peer
    PROVE  \E a, b, c, d \in Peer :
              /\ a = applyPendingDrops(x) /\ b = restartTimeouts(a) /\ c = switchScreen(b)
              /\ d = (IF c.screen THEN InTurn(updateDisconnectStatus, c, Order) ELSE c)
              /\ update(x) = [d EXCEPT !.due = FALSE]
              /\ a \in Kin(x) /\ b \in Kin(x) /\ c \in Kin(x) /\ d \in Kin(x)
              /\ update(x) \in Kin(x)
<1> DEFINE a == applyPendingDrops(x)
           b == restartTimeouts(a)
           c == switchScreen(b)
           d == IF c.screen THEN InTurn(updateDisconnectStatus, c, Order) ELSE c
<1>1. a \in Kin(x) /\ a \in Peer
  BY PendingIsKin DEF Kin
<1>2. b \in Kin(x) /\ b \in Peer
  <2> HIDE DEF a
  <2>1. b \in Kin(a)
    BY <1>1, RestartIs
  <2> QED BY <1>1, <2>1, KinTwice DEF Kin
<1>3. c \in Kin(x) /\ c \in Peer
  <2> HIDE DEF b
  <2>1. c \in Kin(b)
    BY <1>2, SwitchIsKin
  <2> QED BY <1>2, <2>1, KinTwice DEF Kin
<1>4. d \in Kin(x) /\ d \in Peer
  <2> HIDE DEF c
  <2>1. d \in Kin(c)
    BY <1>3, StatusesAreKin, KinSelf
  <2> QED BY <1>3, <2>1, KinTwice DEF Kin
<1>5. update(x) = [d EXCEPT !.due = FALSE]
  BY DEF update, Of
<1>6. [d EXCEPT !.due = FALSE] \in Kin(x)
  <2> HIDE DEF d
  <2> QED BY <1>4, ZenonT(30) DEF Kin, Peer
<1> HIDE DEF a, b, c, d
<1>7. /\ a = applyPendingDrops(x) /\ b = restartTimeouts(a) /\ c = switchScreen(b)
      /\ d = (IF c.screen THEN InTurn(updateDisconnectStatus, c, Order) ELSE c)
  BY DEF a, b, c, d
<1> QED BY <1>1, <1>2, <1>3, <1>4, <1>5, <1>6, <1>7

-----------------------------------------------------------------------------
\* What a command changes: nothing of the frame the peer stands on or of what
\* it ran, and it gets no command for a frame that ran.
Filed(x) ==
    {y \in Peer : /\ y.self = x.self /\ y.frame = x.frame /\ y.ran = x.ran
                  /\ \A h \in y.have : h \in x.have \/ h[2] >= x.frame}

LEMMA KinIsFiled ==
    ASSUME NEW x \in Peer, NEW y \in Kin(x)
    PROVE  y \in Filed(x)
BY DEF Kin, Filed

LEMMA FrameIsFiled ==
    ASSUME NEW x \in Peer, NEW from \in Players, NEW c \in FrameInfo
    PROVE  OnFrame(x, from, c) \in Filed(x)
<1> DEFINE h == x.have \cup {<<from, c.frame>>}
<1>1. h \in SUBSET (Players \X Frames)
  BY DEF FrameInfo, Peer
<1>2. c.frame >= x.frame => \A e \in h : e \in x.have \/ e[2] >= x.frame
  OBVIOUS
<1> HIDE DEF h
<1>3. c.frame >= x.frame => [x EXCEPT !.have = h] \in Filed(x)
  BY <1>1, <1>2 DEF Filed, Peer
<1>4. x \in Filed(x)
  BY KinSelf, KinIsFiled
<1> QED BY <1>3, <1>4 DEF OnFrame, h

LEMMA FrameResendIsFiled ==
    ASSUME NEW x \in Peer, NEW from \in Players, NEW c \in Resend
    PROVE  OnFrameResend(x, from, c) \in Filed(x)
<1> DEFINE h == x.have \cup {<<c.owner, c.frame>>}
<1>1. CASE c.frame >= x.frame /\ c.frame < x.leave[c.owner]
  <2>0. c.owner \in Players /\ c.frame \in Int
    BY DEF Resend
  <2>1. c.owner \in Players /\ c.frame \in Int /\ x.leave[c.owner] \in Frames \cup {Never} /\ x.frame \in 1 .. MaxFrame + 1
    <3>1. x.frame \in Stand \ {0} /\ x.leave \in [Players -> Frames \cup {Never}]
      BY DEF Peer
    <3>2. x.frame \in 1 .. MaxFrame + 1
      BY <3>1, Numbers DEF Stand
    <3> QED BY <2>0, <3>1, <3>2
  <2>2. c.frame \in Frames
    BY <1>1, <2>1, Numbers
  <2>3. h \in SUBSET (Players \X Frames)
    BY <2>1, <2>2 DEF Peer
  <2>4. \A e \in h : e \in x.have \/ e[2] >= x.frame
    BY <1>1
  <2> HIDE DEF h
  <2>5. [x EXCEPT !.have = h] \in Filed(x)
    BY <2>3, <2>4 DEF Filed, Peer
  <2> QED BY <1>1, <2>5 DEF OnFrameResend, h
<1>2. CASE ~(c.frame >= x.frame /\ c.frame < x.leave[c.owner])
  BY <1>2, KinSelf, KinIsFiled DEF OnFrameResend
<1> QED BY <1>1, <1>2

LEMMA VoteIsKin ==
    ASSUME NEW x \in Peer, NEW from \in Players, NEW c \in Vote
    PROVE  OnVote(x, from, c) \in Kin(x)
<1> DEFINE v == [x.votes EXCEPT ![c.target][from] = c.frame]
<1>1. v \in [Players -> [Players -> Stand]]
  BY DEF Vote, Peer
<1> HIDE DEF v
<1>2. [x EXCEPT !.votes = v] \in Kin(x)
  BY <1>1 DEF Kin, Peer
<1> QED BY <1>2, KinSelf DEF OnVote, v

LEMMA GreatestOfTwo ==
    ASSUME NEW a \in Stand, NEW b \in Stand
    PROVE  GreatestOf({a, b}) \in Stand /\ GreatestOf({a, b}) >= a /\ GreatestOf({a, b}) >= b
<1>1. GreatestOf({a, b}) \in {a, b} /\ \A y \in {a, b} : y <= GreatestOf({a, b})
  BY GreatestIs
<1> QED BY <1>1, Numbers DEF Stand

Closing(x, q, f) == [type |-> "DISCONNECTSCREENOFF", frame |-> x.frame, released |-> {<<q, f>>}]

\* The record of an announcement: what it changes and what is sent.
Noting(x, from, f, b, o, y) ==
    \E u \in Fewer(x.votes), g \in Stand :
        /\ g >= f /\ g >= x.by[from]
        /\ y = [x EXCEPT !.votes = u, !.df = [x.df EXCEPT ![from] = f], !.dfr = [x.dfr EXCEPT ![from] = b],
                         !.by = [x.by EXCEPT ![from] = g], !.out = o]

Answering(x, o) == o \in Outs /\ \A b \in Players : Grows(x.out[b], o[b], Resend \cup Decided(x))

LEMMA SendingMore ==
    ASSUME NEW x \in Peer, NEW M, NEW R, M \subseteq R, NEW y \in Sending(x, M)
    PROVE  y \in Sending(x, R)
BY DEF Sending, Grows

LEMMA NotingIsKin ==
    ASSUME NEW x \in Peer, NEW from \in Players, NEW f \in Stand, NEW b \in BOOLEAN, NEW o \in Outs, NEW y,
           Noting(x, from, f, b, o, y)
    PROVE  y \in Kin(x)
<1>1. PICK u \in Fewer(x.votes), g \in Stand :
        y = [x EXCEPT !.votes = u, !.df = [x.df EXCEPT ![from] = f], !.dfr = [x.dfr EXCEPT ![from] = b],
                         !.by = [x.by EXCEPT ![from] = g], !.out = o]
  BY DEF Noting
<1>2. u \in [Players -> [Players -> Stand]] /\ o \in [Players -> Seq(Message)]
  BY DEF Fewer, Votes, Outs
<1>3. [x.df EXCEPT ![from] = f] \in [Players -> Stand] /\ [x.dfr EXCEPT ![from] = b] \in [Players -> BOOLEAN]
      /\ [x.by EXCEPT ![from] = g] \in [Players -> Stand]
  BY DEF Peer
<1> QED BY <1>1, <1>2, <1>3 DEF Kin, Peer

\* The announcement counts: it is noted, and a packet router whose screen is
\* off closes the record at once.
Heeds(x, from, c) ==
    \E o, y : /\ Answering(x, o) /\ Noting(x, from, c.frame, TRUE, o, y) /\ y \in Kin(x)
              /\ IF ~x.screen /\ nextPacketRouter(y) = x.self
                 THEN \E z : /\ Noting(x, from, c.frame, FALSE, o, z)
                             /\ OnDisconnectFrame(x, from, c) =
                                  [z EXCEPT !.out = [q \in Players |->
                                      IF q \in Others(x) THEN Append(o[q], Closing(x, from, c.frame)) ELSE o[q]]]
                 ELSE OnDisconnectFrame(x, from, c) = y

LEMMA DisconnectFrameIs ==
    ASSUME NEW x \in Peer, NEW from \in Players, NEW c \in Announcement
    PROVE  /\ OnDisconnectFrame(x, from, c) \in Kin(x)
           /\ x.df[from] > c.frame \/ (x.df[from] = c.frame /\ x.dfr[from]) => OnDisconnectFrame(x, from, c) = x
           /\ ~(x.df[from] > c.frame \/ (x.df[from] = c.frame /\ x.dfr[from])) => Heeds(x, from, c)
<1>0. c.frame \in Stand /\ c.frame - 1 \in Int /\ x.by[from] \in Stand /\ x.self \in Players
  BY Numbers DEF Announcement, Stand, Peer
<1>1. PICK u \in Fewer(x.votes) : resetPlayersVotes(x, from, c.frame - 1) = [x EXCEPT !.votes = u]
  BY <1>0, ResetVotesIs
<1> DEFINE g == GreatestOf({x.by[from], c.frame})
           n == [x EXCEPT !.votes = u, !.df = [x.df EXCEPT ![from] = c.frame],
                          !.dfr = [x.dfr EXCEPT ![from] = TRUE], !.by = [x.by EXCEPT ![from] = g]]
<1>2. g \in Stand /\ g >= c.frame /\ g >= x.by[from]
  BY <1>0, GreatestOfTwo
<1> HIDE DEF g
<1>3. noted(x, from, c.frame) = n
  BY <1>1 DEF noted, Peer, g
<1>4. n \in Peer /\ n.out = x.out /\ n.decided = x.decided /\ n.self = x.self /\ n.frame = x.frame
      /\ n.leave = x.leave
  <2>1. /\ [x.df EXCEPT ![from] = c.frame] \in [Players -> Stand] /\ [x.dfr EXCEPT ![from] = TRUE] \in [Players -> BOOLEAN]
        /\ [x.by EXCEPT ![from] = g] \in [Players -> Stand] /\ u \in [Players -> [Players -> Stand]]
    BY <1>0, <1>2 DEF Peer, Fewer, Votes
  <2> QED BY <2>1 DEF Peer
<1> HIDE DEF n
<1> DEFINE helped == IF c.frame < n.df[n.self] THEN sendFrameDataToPlayer(n, from, c.frame) ELSE n
           repeated == answered(n, from, c.frame)
<1>5. helped \in Sending(n, Resend)
  BY <1>0, <1>4, DataSends, SendingNothing
<1>6. helped \in Peer /\ helped.decided = x.decided
  <2> HIDE DEF helped
  <2>1. PICK o \in Outs : helped = [n EXCEPT !.out = o]
    BY <1>5 DEF Sending
  <2> QED BY <1>4, <1>5, <2>1, SendingIsPeer DEF Peer
<1>7. repeated \in Sending(n, Resend \cup Decided(x))
  <2>0. repeated = repeatDrops(helped, from, c.frame)
    BY DEF answered
  <2> HIDE DEF helped, repeated
  <2>1. repeated \in Sending(helped, Decided(x))
    <3>1. Decided(helped) = Decided(x)
      BY <1>6 DEF Decided
    <3> QED BY <1>0, <1>6, <2>0, <3>1, RepeatsSend
  <2>2. helped \in Sending(n, Resend \cup Decided(x))
    BY <1>4, <1>5, SendingMore
  <2>3. repeated \in Sending(helped, Resend \cup Decided(x))
    BY <1>6, <2>1, SendingMore
  <2> QED BY <1>4, <2>2, <2>3, SendingTwice
<1> HIDE DEF helped
<1>8. /\ x.df[from] > c.frame \/ (x.df[from] = c.frame /\ x.dfr[from]) => OnDisconnectFrame(x, from, c) = x
      /\ ~(x.df[from] > c.frame \/ (x.df[from] = c.frame /\ x.dfr[from])) => OnDisconnectFrame(x, from, c) =
           IF ~x.screen /\ nextPacketRouter(repeated) = x.self
           THEN Post([repeated EXCEPT !.dfr[from] = FALSE], Others(x), Closing(x, from, c.frame))
           ELSE repeated
  BY <1>3 DEF OnDisconnectFrame, Closing, repeated
<1> HIDE DEF repeated
<1>9. PICK o \in Outs : /\ repeated = [n EXCEPT !.out = o]
                        /\ \A b \in Players : Grows(n.out[b], o[b], Resend \cup Decided(x))
  BY <1>7 DEF Sending
<1>10. Answering(x, o)
  BY <1>4, <1>9 DEF Answering
<1>11. Noting(x, from, c.frame, TRUE, o, repeated)
  <2>1. repeated = [x EXCEPT !.votes = u, !.df = [x.df EXCEPT ![from] = c.frame],
              !.dfr = [x.dfr EXCEPT ![from] = TRUE], !.by = [x.by EXCEPT ![from] = g], !.out = o]
    BY <1>9 DEF n, Peer
  <2> QED BY <1>2, <2>1 DEF Noting
<1> DEFINE z == [repeated EXCEPT !.dfr[from] = FALSE]
           w == Closing(x, from, c.frame)
<1>12. repeated \in Kin(x) /\ repeated \in Peer
  BY <1>0, <1>9, <1>11, NotingIsKin DEF Kin
<1>13. Noting(x, from, c.frame, FALSE, o, z)
  <2>1. z = [x EXCEPT !.votes = u, !.df = [x.df EXCEPT ![from] = c.frame],
              !.dfr = [x.dfr EXCEPT ![from] = FALSE], !.by = [x.by EXCEPT ![from] = g], !.out = o]
    BY <1>9 DEF n, Peer
  <2> HIDE DEF z
  <2> QED BY <1>2, <2>1 DEF Noting
<1>14. z \in Kin(x) /\ z \in Peer /\ z.out = o
  <2>1. z \in Kin(x)
    <3> HIDE DEF z
    <3> QED BY <1>0, <1>9, <1>13, NotingIsKin
  <2>2. z.out = o
    BY <1>9, <1>12, <1>4 DEF Peer
  <2> QED BY <2>1, <2>2 DEF Kin
<1>15. w \in Message
  <2>1. {<<from, c.frame>>} \in SUBSET (Players \X Stand) /\ x.frame \in Stand
    BY <1>0 DEF Peer
  <2> QED BY <2>1 DEF Closing, ScreenOff, Message
<1> HIDE DEF z, w
<1>16. /\ Post(z, Others(x), w) = [z EXCEPT !.out = PostOut(z, Others(x), w)]
       /\ Post(z, Others(x), w) \in Kin(x)
  BY <1>14, <1>15, PostIs, KinTwice
<1>17. PostOut(z, Others(x), w) = [q \in Players |-> IF q \in Others(x) THEN Append(o[q], w) ELSE o[q]]
  BY <1>14 DEF PostOut
<1>18. OnDisconnectFrame(x, from, c) \in {x, Post(z, Others(x), w), repeated}
  BY <1>8 DEF z, w
<1>19. OnDisconnectFrame(x, from, c) \in Kin(x)
  BY <1>12, <1>16, <1>18, KinSelf
<1>20. ASSUME ~(x.df[from] > c.frame \/ (x.df[from] = c.frame /\ x.dfr[from]))
       PROVE  IF ~x.screen /\ nextPacketRouter(repeated) = x.self
              THEN OnDisconnectFrame(x, from, c) = [z EXCEPT !.out = [q \in Players |->
                                                  IF q \in Others(x) THEN Append(o[q], w) ELSE o[q]]]
              ELSE OnDisconnectFrame(x, from, c) = repeated
  <2>1. OnDisconnectFrame(x, from, c) =
           IF ~x.screen /\ nextPacketRouter(repeated) = x.self THEN Post(z, Others(x), w) ELSE repeated
    BY <1>8, <1>20 DEF z, w
  <2> QED BY <1>16, <1>17, <2>1
<1>21. ~(x.df[from] > c.frame \/ (x.df[from] = c.frame /\ x.dfr[from])) => Heeds(x, from, c)
  BY <1>10, <1>11, <1>12, <1>13, <1>20 DEF Heeds, w
<1> QED BY <1>8, <1>19, <1>21

LEMMA DisconnectPlayerIsKin ==
    ASSUME NEW x \in Peer, NEW from \in Players, NEW c \in DropCommand
    PROVE  OnDisconnectPlayer(x, from, c) \in Kin(x)
<1> DEFINE d == [from |-> from, target |-> c.target, frame |-> c.frame, gone |-> c.gone]
           s == Append(x.pending, d)
           w == [x EXCEPT !.pending = s]
<1>1. s \in Seq(PendingDrop)
  <2>1. d \in PendingDrop
    BY DEF DropCommand, PendingDrop
  <2> HIDE DEF d
  <2> QED BY <2>1 DEF Peer
<1>2. OnDisconnectPlayer(x, from, c) \in {x, applyPendingDrops(w)}
  BY DEF OnDisconnectPlayer
<1> HIDE DEF s
<1>3. w \in Kin(x) /\ w \in Peer
  BY <1>1 DEF Kin, Peer
<1> HIDE DEF w
<1>4. applyPendingDrops(w) \in Kin(x)
  BY <1>3, PendingIsKin, KinTwice
<1> QED BY <1>2, <1>4, KinSelf

\* What the end of a screen changes: the sender's record, and the hold of the
\* frame if the packet router released it.
Closes(x, from, c) ==
    \E y \in Kin(x) :
        /\ \/ y = x /\ c.frame < x.df[from]
           \/ \E u \in Fewer(x.votes) :
                /\ c.frame >= x.df[from]
                /\ y = [x EXCEPT !.votes = u, !.dfr = [x.dfr EXCEPT ![from] = FALSE],
                                 !.df = [x.df EXCEPT ![from] = c.frame]]
        /\ OnScreenOff(x, from, c) =
             IF <<x.self, x.ann>> \in c.released /\ nextPacketRouter(y) = from
             THEN [y EXCEPT !.hold = IF y.hold = "held" THEN "released" ELSE y.hold] ELSE y

LEMMA OnScreenOffIs ==
    ASSUME NEW x \in Peer, NEW from \in Players, NEW c \in ScreenOff
    PROVE  OnScreenOff(x, from, c) \in Kin(x) /\ Closes(x, from, c)
<1>1. c.frame \in Stand /\ c.frame \in Int /\ x.df[from] \in Stand /\ x.df[from] \in Int
  BY Numbers DEF ScreenOff, Stand, Peer
<1>2. PICK u \in Fewer(x.votes) : resetPlayersVotes(x, from, c.frame) = [x EXCEPT !.votes = u]
  BY <1>1, ResetVotesIs
<1> DEFINE v == [x EXCEPT !.votes = u, !.dfr = [x.dfr EXCEPT ![from] = FALSE], !.df = [x.df EXCEPT ![from] = c.frame]]
           y == IF c.frame >= x.df[from] THEN v ELSE x
<1>3. v \in Kin(x)
  <2>1. u \in [Players -> [Players -> Stand]] /\ [x.dfr EXCEPT ![from] = FALSE] \in [Players -> BOOLEAN]
        /\ [x.df EXCEPT ![from] = c.frame] \in [Players -> Stand]
    BY <1>1 DEF Fewer, Votes, Peer
  <2> QED BY <2>1 DEF Kin, Peer
<1>4. y \in Kin(x) /\ y \in Peer
  BY <1>3, KinSelf DEF Kin
<1>5. [resetPlayersVotes(x, from, c.frame) EXCEPT !.dfr[from] = FALSE, !.df[from] = c.frame] = v
  BY <1>2 DEF Peer
<1>6. OnScreenOff(x, from, c) = IF <<x.self, x.ann>> \in c.released /\ nextPacketRouter(y) = from THEN Release(y) ELSE y
  BY <1>5 DEF OnScreenOff
<1>7. (y = x /\ c.frame < x.df[from]) \/ (c.frame >= x.df[from] /\ y = v)
  BY <1>1
<1> HIDE DEF y
<1>8. Release(y) \in Kin(x) /\ Release(y) = [y EXCEPT !.hold = IF y.hold = "held" THEN "released" ELSE y.hold]
  BY <1>4, ReleaseIs, KinTwice
<1> QED BY <1>4, <1>6, <1>7, <1>8 DEF Closes

LEMMA FileIsFiled ==
    ASSUME NEW x \in Peer, NEW from \in Players, NEW c \in Message
    PROVE  file(x, from, c) \in Filed(x)
<1>1. CASE c \in FrameInfo
  <2>1. c.type = "FRAMEINFO"
    BY <1>1 DEF FrameInfo
  <2> QED BY <1>1, <2>1, FrameIsFiled DEF file
<1>2. CASE c \in Resend
  <2>1. c.type = "FRAMERESEND"
    BY <1>2 DEF Resend
  <2> QED BY <1>2, <2>1, FrameResendIsFiled DEF file
<1>3. CASE c \in Vote
  <2>1. c.type = "DISCONNECTVOTE"
    BY <1>3 DEF Vote
  <2> QED BY <1>3, <2>1, VoteIsKin, KinIsFiled DEF file
<1>4. CASE c \in Announcement
  <2>1. c.type = "DISCONNECTFRAME"
    BY <1>4 DEF Announcement
  <2> QED BY <1>4, <2>1, DisconnectFrameIs, KinIsFiled DEF file
<1>5. CASE c \in DropCommand
  <2>1. c.type = "DISCONNECTPLAYER"
    BY <1>5 DEF DropCommand
  <2> QED BY <1>5, <2>1, DisconnectPlayerIsKin, KinIsFiled DEF file
<1>6. CASE c \in ScreenOff
  <2>1. c.type = "DISCONNECTSCREENOFF"
    BY <1>6 DEF ScreenOff
  <2> QED BY <1>6, <2>1, OnScreenOffIs, KinIsFiled DEF file
<1> QED BY <1>1, <1>2, <1>3, <1>4, <1>5, <1>6 DEF Message

-----------------------------------------------------------------------------
\* The types, and the shape of what each process remembers.

PeerOf(p) ==
    {x \in Peer : /\ x.self = p /\ Len(x.ran) = x.frame - 1 /\ (\A h \in x.have : h[2] >= x.frame)
                  /\ x.out = ForAll(<<>>) /\ ~x.quit}

TypeInv ==
    /\ peer \in [Players -> Peer] /\ \A p \in Players : peer[p] \in PeerOf(p)
    /\ net \in [Players -> [Players -> Seq(Message)]]
    /\ alive \subseteq Players /\ cut \subseteq SUBSET Players /\ may \in Game

LEMMA NewPeerType == \A p \in Players : NewPeer(p) \in PeerOf(p) /\ NewPeer(p) \in Peer
<1> TAKE p \in Players
<1>1. 1 \in Stand \ {0} /\ 0 \in Stand /\ Never \in Frames \cup {Never}
  BY Numbers DEF Stand
<1> DEFINE e == <<>>
<1>2. e \in Seq(SUBSET Players) /\ e \in Seq(DropCommand) /\ e \in Seq(PendingDrop) /\ e \in Seq(Message) /\ Len(e) = 0
  OBVIOUS
<1> HIDE DEF e
<1>3. /\ ForAll(Never) \in [Players -> Frames \cup {Never}] /\ ForAll(TRUE) \in [Players -> BOOLEAN]
      /\ ForAll("full") \in [Players -> {"full", "low", "out"}] /\ ForAll(0) \in [Players -> Stand]
      /\ ForAll(FALSE) \in [Players -> BOOLEAN] /\ ForAll(e) \in [Players -> Seq(Message)]
  BY <1>1, <1>2 DEF ForAll
<1>4. ForAll(ForAll(0)) \in [Players -> [Players -> Stand]]
  <2> DEFINE z == ForAll(0)
  <2>1. z \in [Players -> Stand]
    BY <1>3
  <2> HIDE DEF z
  <2>2. ForAll(z) \in [Players -> [Players -> Stand]]
    BY <2>1 DEF ForAll
  <2> QED BY <2>2 DEF z
<1>5. NewPeer(p) =
    [self |-> p, frame |-> 1, ran |-> e, have |-> {}, leave |-> ForAll(Never),
     heard |-> ForAll(TRUE), bar |-> ForAll("full"), screen |-> FALSE,
     votes |-> ForAll(ForAll(0)), df |-> ForAll(0), dfr |-> ForAll(FALSE), by |-> ForAll(0),
     ann |-> 0, hold |-> "none", notified |-> 0, decided |-> e, pending |-> e,
     quit |-> FALSE, due |-> FALSE, out |-> ForAll(e)]
  BY DEF NewPeer, e
<1>6. NewPeer(p) \in Peer
  <2> DEFINE l == ForAll(Never)
             t == ForAll(TRUE)
             u == ForAll("full")
             z == ForAll(0)
             v == ForAll(ForAll(0))
             n == ForAll(FALSE)
             o == ForAll(e)
  <2>1. /\ l \in [Players -> Frames \cup {Never}] /\ t \in [Players -> BOOLEAN] /\ u \in [Players -> {"full", "low", "out"}]
        /\ z \in [Players -> Stand] /\ v \in [Players -> [Players -> Stand]] /\ n \in [Players -> BOOLEAN]
        /\ o \in [Players -> Seq(Message)]
    BY <1>3, <1>4
  <2>2. NewPeer(p) = [self |-> p, frame |-> 1, ran |-> e, have |-> {}, leave |-> l,
     heard |-> t, bar |-> u, screen |-> FALSE, votes |-> v, df |-> z, dfr |-> n, by |-> z,
     ann |-> 0, hold |-> "none", notified |-> 0, decided |-> e, pending |-> e,
     quit |-> FALSE, due |-> FALSE, out |-> o]
    BY <1>5
  <2> HIDE DEF l, t, u, z, v, n, o
  <2> QED BY <1>1, <1>2, <2>1, <2>2 DEF Peer
<1>7. NewPeer(p).out = ForAll(<<>>)
  BY <1>5 DEF e
<1> QED BY <1>2, <1>5, <1>6, <1>7 DEF PeerOf

LEMMA TypeInit == Init => TypeInv
<1> SUFFICES ASSUME Init PROVE TypeInv
  OBVIOUS
<1>1. \A p \in Players : peer[p] = NewPeer(p)
  BY DEF Init
<1>2. peer \in [Players -> Peer] /\ \A p \in Players : peer[p] \in PeerOf(p)
  <2>1. peer = [p \in Players |-> NewPeer(p)]
    BY DEF Init
  <2> QED BY <1>1, <2>1, NewPeerType
<1>3. net \in [Players -> [Players -> Seq(Message)]]
  <2> DEFINE s == [f \in 1 .. RunAhead |-> [type |-> "FRAMEINFO", frame |-> f]]
             e == <<>>
  <2>1. e \in Seq(Message)
    OBVIOUS
  <2>2. s \in Seq(Message)
    <3>1. \A f \in 1 .. RunAhead : [type |-> "FRAMEINFO", frame |-> f] \in Message
      BY Numbers DEF FrameInfo, Message
    <3> QED BY <3>1, Numbers
  <2>3. net = [a \in Players |-> [b \in Players |-> IF a = b THEN e ELSE s]]
    BY DEF Init
  <2> HIDE DEF s, e
  <2> QED BY <2>1, <2>2, <2>3
<1>4. alive \subseteq Players /\ cut \subseteq SUBSET Players /\ may \in Game
  BY GamesAssumption DEF Init
<1> QED BY <1>2, <1>3, <1>4 DEF TypeInv

\* What a step of a peer leaves: it becomes x, or it ended.
LEMMA BecomeType ==
    ASSUME NEW p \in Players, NEW x, NEW s, TypeInv, Become(p, x, s),
           x \in Peer, x.self = p, Len(x.ran) = x.frame - 1, \A h \in x.have : h[2] >= x.frame,
           s \in [Players -> [Players -> Seq(Message)]]
    PROVE  /\ peer' \in [Players -> Peer] /\ \A q \in Players : peer'[q] \in PeerOf(q)
           /\ net' \in [Players -> [Players -> Seq(Message)]]
           /\ alive' \subseteq Players
           /\ \A q \in Players \ {p} : peer'[q] = peer[q]
           /\ peer'[p] = IF x.quit THEN NewPeer(p) ELSE [x EXCEPT !.out = ForAll(<<>>)]
           /\ alive' = IF x.quit THEN alive \ {p} ELSE alive
           /\ \A a, b \in Players :
                 net'[a][b] = IF b \notin alive' \/ ~Connected(peer'[b], a) THEN <<>>
                              ELSE IF a = p THEN s[a][b] \o x.out[b] ELSE s[a][b]
<1> DEFINE y == IF x.quit THEN NewPeer(p) ELSE [x EXCEPT !.out = ForAll(<<>>)]
           e == <<>>
<1>1. /\ peer' = [peer EXCEPT ![p] = y]
      /\ alive' = IF x.quit THEN alive \ {p} ELSE alive
      /\ net' = [a \in Players |-> [b \in Players |->
                  IF b \notin alive' \/ ~Connected(peer'[b], a) THEN e
                  ELSE IF a = p THEN s[a][b] \o x.out[b] ELSE s[a][b]]]
  BY DEF Become
<1>2. y \in Peer /\ y \in PeerOf(p)
  <2>1. CASE x.quit
    BY <2>1, NewPeerType
  <2>2. CASE ~x.quit
    <3> DEFINE o == ForAll(<<>>)
    <3>1. o \in [Players -> Seq(Message)]
      BY DEF ForAll
    <3> HIDE DEF o
    <3>2. [x EXCEPT !.out = o] \in Peer /\ [x EXCEPT !.out = o].out = o
      BY <3>1 DEF Peer
    <3>3. [x EXCEPT !.out = o] \in {z \in Peer : z.self = p /\ Len(z.ran) = z.frame - 1 /\ (\A h \in z.have : h[2] >= z.frame)
                                       /\ z.out = o /\ ~z.quit}
      BY <2>2, <3>2 DEF Peer
    <3> QED BY <2>2, <3>2, <3>3 DEF PeerOf, o
  <2> QED BY <2>1, <2>2
<1> HIDE DEF y
<1>3. /\ peer' \in [Players -> Peer] /\ \A q \in Players : peer'[q] \in PeerOf(q)
      /\ \A q \in Players \ {p} : peer'[q] = peer[q]
      /\ peer'[p] = y
  BY <1>1, <1>2 DEF TypeInv
<1>4. alive' \subseteq Players
  BY <1>1 DEF TypeInv
<1>5. e \in Seq(Message) /\ \A a, b \in Players : s[a][b] \in Seq(Message) /\ s[a][b] \o x.out[b] \in Seq(Message)
  BY DEF Peer
<1> HIDE DEF e
<1>6. net' \in [Players -> [Players -> Seq(Message)]]
  BY <1>1, <1>5
<1>7. \A a, b \in Players : net'[a][b] = IF b \notin alive' \/ ~Connected(peer'[b], a) THEN e
                              ELSE IF a = p THEN s[a][b] \o x.out[b] ELSE s[a][b]
  BY <1>1
<1> QED BY <1>1, <1>3, <1>4, <1>6, <1>7 DEF y, e

LEMMA AboutPeer ==
    ASSUME TypeInv, NEW p \in Players
    PROVE  /\ peer[p] \in Peer /\ peer[p].self = p /\ Len(peer[p].ran) = peer[p].frame - 1
           /\ \A h \in peer[p].have : h[2] >= peer[p].frame
           /\ peer[p].out = ForAll(<<>>) /\ ~peer[p].quit
           /\ peer[p].frame \in 1 .. MaxFrame + 1
<1>1. peer[p] \in PeerOf(p)
  BY DEF TypeInv
<1>2. peer[p] \in Peer
  BY <1>1 DEF PeerOf
<1>3. peer[p].frame \in Stand \ {0}
  BY <1>2 DEF Peer
<1> QED BY <1>1, <1>2, <1>3, Numbers DEF PeerOf, Stand

\* A step that changes neither the frame nor what was run, and gets no command
\* of a frame that ran.
LEMMA StepType ==
    ASSUME TypeInv, NEW p \in Players, NEW x, NEW s, Become(p, x, s), x \in Filed(peer[p]),
           s \in [Players -> [Players -> Seq(Message)]]
    PROVE  /\ peer' \in [Players -> Peer] /\ \A q \in Players : peer'[q] \in PeerOf(q)
           /\ net' \in [Players -> [Players -> Seq(Message)]]
           /\ alive' \subseteq Players
<1>1. x \in Peer /\ x.self = p /\ Len(x.ran) = x.frame - 1 /\ \A h \in x.have : h[2] >= x.frame
  BY AboutPeer DEF Filed
<1> QED BY <1>1, BecomeType

LEMMA FiledDue ==
    ASSUME NEW x \in Peer, NEW y \in Filed(x), NEW b \in BOOLEAN
    PROVE  [y EXCEPT !.due = b] \in Filed(x)
BY ZenonT(30) DEF Filed, Peer

LEMMA HeardIs ==
    ASSUME NEW x \in Peer, NEW s \in Players, NEW b \in BOOLEAN
    PROVE  [x EXCEPT !.heard[s] = b] \in Kin(x)
<1> DEFINE h == [x.heard EXCEPT ![s] = b]
<1>1. h \in [Players -> BOOLEAN]
  BY DEF Peer
<1> HIDE DEF h
<1>2. [x EXCEPT !.heard = h] \in Kin(x)
  BY <1>1 DEF Kin, Peer
<1> QED BY <1>2 DEF h

LEMMA TypeReceive ==
    ASSUME TypeInv, NEW p \in Players, NEW q \in Players, Receive(p, q)
    PROVE  TypeInv'
<1> DEFINE x == peer[p]
           w == [x EXCEPT !.heard[q] = TRUE]
           c == Head(net[q][p])
           y == file(w, q, c)
           s == [net EXCEPT ![q][p] = Tail(@)]
<1>1. x \in Peer /\ net \in [Players -> [Players -> Seq(Message)]]
  BY AboutPeer DEF TypeInv
<1>2. net[q][p] # <<>> /\ Become(p, [y EXCEPT !.due = TRUE], s) /\ UNCHANGED <<cut, may>>
  BY DEF Receive
<1>3. net[q][p] \in Seq(Message) /\ c \in Message /\ Tail(net[q][p]) \in Seq(Message)
  BY <1>1, <1>2
<1>4. s \in [Players -> [Players -> Seq(Message)]]
  BY <1>1, <1>3
<1>5. w \in Kin(x) /\ w \in Peer
  BY <1>1, HeardIs DEF Kin
<1>6. y \in Filed(w)
  <2> HIDE DEF w, c
  <2> QED BY <1>3, <1>5, FileIsFiled
<1>7. [y EXCEPT !.due = TRUE] \in Filed(x)
  <2> HIDE DEF y
  <2>1. y \in Filed(x)
    BY <1>5, <1>6 DEF Kin, Filed
  <2> QED BY <1>1, <2>1, FiledDue
<1> HIDE DEF y, s
<1>8. /\ peer' \in [Players -> Peer] /\ \A r \in Players : peer'[r] \in PeerOf(r)
      /\ net' \in [Players -> [Players -> Seq(Message)]] /\ alive' \subseteq Players
  BY <1>2, <1>4, <1>7, StepType
<1> QED BY <1>2, <1>8 DEF TypeInv

\* A step of a peer that reads no message and changes what Kin allows.
LEMMA TypeKin ==
    ASSUME TypeInv, NEW p \in Players, NEW y \in Kin(peer[p]), NEW b \in BOOLEAN,
           Become(p, [y EXCEPT !.due = b], net) \/ Become(p, y, net), cut' \subseteq SUBSET Players, may' \in Game
    PROVE  TypeInv'
<1>1. peer[p] \in Peer /\ net \in [Players -> [Players -> Seq(Message)]]
  BY AboutPeer DEF TypeInv
<1>2. y \in Filed(peer[p]) /\ [y EXCEPT !.due = b] \in Filed(peer[p])
  BY <1>1, KinIsFiled, FiledDue
<1>3. PICK z : z \in Filed(peer[p]) /\ Become(p, z, net)
  BY <1>2
<1>4. /\ peer' \in [Players -> Peer] /\ \A r \in Players : peer'[r] \in PeerOf(r)
      /\ net' \in [Players -> [Players -> Seq(Message)]] /\ alive' \subseteq Players
  BY <1>1, <1>3, StepType
<1> QED BY <1>4 DEF TypeInv

\* What becomes of a peer that runs the frame it stands on.
RanFrame(x) == [x EXCEPT !.frame = @ + 1, !.due = TRUE,
                         !.ran = Append(@, {s \in Players : x.frame < x.leave[s]}),
                         !.have = {h \in @ : h[2] > x.frame}]

LEMMA RanFrameIs ==
    ASSUME TypeInv, NEW p \in Players, NEW x, x = peer[p], x.frame <= may.frames
    PROVE  LET y == RanFrame(x)
               m == [type |-> "FRAMEINFO", frame |-> x.frame + RunAhead]
           IN  /\ y \in Peer /\ y.self = p /\ Len(y.ran) = y.frame - 1 /\ (\A h \in y.have : h[2] >= y.frame)
               /\ m \in Message /\ m \in FrameInfo /\ x.frame <= MaxFrame
<1> DEFINE y == RanFrame(x)
           m == [type |-> "FRAMEINFO", frame |-> x.frame + RunAhead]
           r == Append(x.ran, {s \in Players : x.frame < x.leave[s]})
           v == {h \in x.have : h[2] > x.frame}
           f == x.frame + 1
<1>1. x \in Peer /\ x.self = p /\ Len(x.ran) = x.frame - 1 /\ x.frame \in 1 .. MaxFrame + 1
  BY AboutPeer
<1>2. may.frames \in 1 .. MaxFrame /\ x.frame <= MaxFrame
  BY <1>1, Numbers DEF TypeInv, Game
<1>3. m \in FrameInfo /\ m \in Message
  <2>1. x.frame + RunAhead \in Frames
    BY <1>1, <1>2, Numbers
  <2> QED BY <2>1 DEF FrameInfo, Message
<1>4. x.ran \in Seq(SUBSET Players) /\ x.have \in SUBSET (Players \X Frames)
  BY <1>1 DEF Peer
<1>5. r \in Seq(SUBSET Players) /\ Len(r) = x.frame
  BY <1>1, <1>4
<1>6. v \in SUBSET (Players \X Frames) /\ \A h \in v : h[2] >= f
  <2>1. \A h \in x.have : h[2] \in Int
    BY <1>4, Numbers
  <2> QED BY <1>1, <1>4, <2>1
<1>7. f \in Stand \ {0} /\ x.frame = f - 1
  BY <1>1, <1>2, Numbers DEF Stand
<1>8. y = [x EXCEPT !.frame = f, !.due = TRUE, !.ran = r, !.have = v]
  BY DEF RanFrame
<1> HIDE DEF y, r, v, f
<1>9. y \in Peer /\ y.self = p /\ y.ran = r /\ y.have = v /\ y.frame = f
  BY <1>1, <1>5, <1>6, <1>7, <1>8 DEF Peer
<1> QED BY <1>2, <1>3, <1>5, <1>6, <1>7, <1>9 DEF y

LEMMA TypeRunFrame ==
    ASSUME TypeInv, NEW p \in Players, RunFrame(p)
    PROVE  TypeInv'
<1> DEFINE x == peer[p]
           y == RanFrame(x)
           m == [type |-> "FRAMEINFO", frame |-> x.frame + RunAhead]
           z == Post(y, Others(y), m)
<1>1. x.frame <= may.frames /\ Become(p, z, net) /\ UNCHANGED <<cut, may>>
  BY DEF RunFrame, MayRun, RanFrame
<1>2. y \in Peer /\ y.self = p /\ Len(y.ran) = y.frame - 1 /\ (\A h \in y.have : h[2] >= y.frame) /\ m \in Message
  BY <1>1, RanFrameIs
<1> HIDE DEF y, m
<1>3. z \in Kin(y)
  BY <1>2, PostIs
<1>4. z \in Peer /\ z.self = p /\ Len(z.ran) = z.frame - 1 /\ (\A h \in z.have : h[2] >= z.frame)
  BY <1>2, <1>3 DEF Kin
<1> HIDE DEF z
<1>5. net \in [Players -> [Players -> Seq(Message)]]
  BY DEF TypeInv
<1>6. /\ peer' \in [Players -> Peer] /\ \A r \in Players : peer'[r] \in PeerOf(r)
      /\ net' \in [Players -> [Players -> Seq(Message)]] /\ alive' \subseteq Players
  BY <1>1, <1>4, <1>5, BecomeType
<1> QED BY <1>1, <1>6 DEF TypeInv

\* What a timer or a button changes.
Ticks(p, y) ==
    \/ \E s \in Players : y \in {[peer[p] EXCEPT !.heard[s] = FALSE], [peer[p] EXCEPT !.heard[s] = TRUE],
                                 [peer[p] EXCEPT !.bar[s] = IF @ = "full" THEN "low" ELSE "out"],
                                 voteForPlayerDisconnect(peer[p], s)}
    \/ y \in {[peer[p] EXCEPT !.notified = 0], [peer[p] EXCEPT !.quit = TRUE]}

LEMMA TicksKin ==
    ASSUME TypeInv, NEW p \in Players, NEW y, Ticks(p, y)
    PROVE  y \in Kin(peer[p])
<1> DEFINE x == peer[p]
<1>1. x \in Peer
  BY AboutPeer
<1>2. [x EXCEPT !.notified = 0] \in Kin(x) /\ [x EXCEPT !.quit = TRUE] \in Kin(x)
  <2>1. 0 \in Stand
    BY Numbers DEF Stand
  <2> HIDE DEF x
  <2> QED BY <1>1, <2>1, ZenonT(30) DEF Kin, Peer
<1>3. ASSUME NEW s \in Players
      PROVE  [x EXCEPT !.bar[s] = IF @ = "full" THEN "low" ELSE "out"] \in Kin(x)
  <2> DEFINE b == [x.bar EXCEPT ![s] = IF @ = "full" THEN "low" ELSE "out"]
  <2>1. b \in [Players -> {"full", "low", "out"}]
    BY <1>1 DEF Peer
  <2> HIDE DEF b, x
  <2>2. [x EXCEPT !.bar = b] \in Kin(x)
    BY <1>1, <2>1 DEF Kin, Peer
  <2> QED BY <2>2 DEF b
<1> HIDE DEF x
<1>4. \A s \in Players : /\ [x EXCEPT !.heard[s] = FALSE] \in Kin(x) /\ [x EXCEPT !.heard[s] = TRUE] \in Kin(x)
                         /\ voteForPlayerDisconnect(x, s) \in Kin(x)
  BY <1>1, HeardIs, VoteIs
<1>5. Ticks(p, y) => y \in Kin(x)
  BY <1>2, <1>3, <1>4 DEF Ticks, x
<1> QED BY <1>5 DEF x

LEMMA TypeNext == TypeInv /\ [Next]_vars => TypeInv'
<1> SUFFICES ASSUME TypeInv, [Next]_vars PROVE TypeInv'
  OBVIOUS
<1>0. may \in Game /\ cut \subseteq SUBSET Players /\ net \in [Players -> [Players -> Seq(Message)]]
  BY DEF TypeInv
<1>1. CASE Work
  <2>1. ASSUME NEW p \in Players, Update(p) PROVE TypeInv'
    <3>1. peer[p] \in Peer /\ Become(p, update(peer[p]), net) /\ UNCHANGED <<cut, may>>
      BY <2>1, AboutPeer DEF Update
    <3>2. update(peer[p]) \in Kin(peer[p])
      BY <3>1, UpdateIs
    <3> QED BY <1>0, <3>1, <3>2, TypeKin
  <2> QED BY <1>1, <2>1, TypeReceive, TypeRunFrame DEF Work
<1>2. ASSUME NEW p \in Players, NEW y, Ticks(p, y), Tick(p, y) PROVE TypeInv'
  <2>1. y \in Kin(peer[p]) /\ Become(p, [y EXCEPT !.due = TRUE], net) /\ UNCHANGED <<cut, may>>
    BY <1>2, TicksKin DEF Tick
  <2> QED BY <1>0, <2>1, TypeKin
<1>3. CASE Timers \/ Answers \/ Repeats
  <2>1. \E p \in Players : \E y : Ticks(p, y) /\ Tick(p, y)
    BY <1>3 DEF Timers, Answers, Repeats, Silence, Age, Hear, Repeat, Ticks
  <2> QED BY <1>2, <2>1
<1>4. CASE Heals
  <2>1. UNCHANGED <<peer, net, alive, may>> /\ cut' \subseteq cut
    BY <1>4 DEF Heals, Heal
  <2> QED BY <2>1 DEF TypeInv, PeerOf
<1>5. CASE Failures
  <2>1. ASSUME NEW p \in Players, Crash(p) PROVE TypeInv'
    <3> DEFINE y == [peer[p] EXCEPT !.quit = TRUE]
    <3>1. Become(p, y, net) /\ may' = [may EXCEPT !.crash = @ \ {p}] /\ cut' = cut
      BY <2>1 DEF Crash
    <3>2. y \in Kin(peer[p])
      BY TicksKin DEF Ticks
    <3>3. may' \in Game
      BY <1>0, <3>1 DEF Game
    <3> HIDE DEF y
    <3> QED BY <1>0, <3>1, <3>2, <3>3, TypeKin
  <2>2. ASSUME NEW p \in Players, NEW s \in Players, Kick(p, s) PROVE TypeInv'
    <3> DEFINE y == voteForPlayerDisconnect(peer[p], s)
    <3>1. Become(p, [y EXCEPT !.due = TRUE], net) /\ may' = [may EXCEPT !.kick = @ \ {p}] /\ cut' = cut
      BY <2>2 DEF Kick
    <3>2. y \in Kin(peer[p])
      BY TicksKin DEF Ticks
    <3>3. may' \in Game
      BY <1>0, <3>1 DEF Game
    <3> HIDE DEF y
    <3> QED BY <1>0, <3>1, <3>2, <3>3, TypeKin
  <2>3. ASSUME NEW p \in Players, NEW q \in Players, Lost(p, q) PROVE TypeInv'
    <3> DEFINE e == <<>>
    <3>1. net' = [net EXCEPT ![p][q] = e] /\ UNCHANGED <<peer, alive, cut, may>> /\ e \in Seq(Message)
      BY <2>3 DEF Lost
    <3> HIDE DEF e
    <3>2. net' \in [Players -> [Players -> Seq(Message)]]
      BY <1>0, <3>1
    <3> QED BY <3>1, <3>2 DEF TypeInv, PeerOf
  <2>4. ASSUME NEW p \in Players, NEW q \in Players, Cut(p, q) PROVE TypeInv'
    <3>1. cut' = cut \cup {{p, q}} /\ may' = [may EXCEPT !.cut = @ \ {{p, q}}] /\ UNCHANGED <<peer, net, alive>>
      BY <2>4 DEF Cut
    <3>2. may' \in Game
      BY <1>0, <3>1 DEF Game
    <3>3. cut' \subseteq SUBSET Players
      BY <1>0, <3>1
    <3> QED BY <3>1, <3>2, <3>3 DEF TypeInv, PeerOf
  <2> QED BY <1>5, <2>1, <2>2, <2>3, <2>4 DEF Failures
<1>6. CASE UNCHANGED vars
  BY <1>6 DEF vars, TypeInv, PeerOf
<1> QED BY <1>1, <1>3, <1>4, <1>5, <1>6 DEF Next

\* Frames run one after the other, each once, and nothing is kept for a frame
\* that ran: the shape of every peer, in every game (Network::file,
\* relayCommands).
THEOREM TypeCorrect == Spec => []TypeOK
<1>1. TypeInv => TypeOK
  <2> SUFFICES ASSUME TypeInv PROVE TypeOK
    OBVIOUS
  <2>1. alive \subseteq Players /\ cut \subseteq SUBSET Players
    BY DEF TypeInv
  <2>2. ASSUME NEW p \in Players
        PROVE  LET x == peer[p]
               IN  /\ x.self = p /\ x.frame \in 1 .. MaxFrame + 1 /\ Len(x.ran) = x.frame - 1
                   /\ x.have \subseteq Players \X Frames /\ \A h \in x.have : h[2] >= x.frame
                   /\ x.leave \in [Players -> Frames \cup {Never}]
                   /\ x.bar \in [Players -> {"full", "low", "out"}]
                   /\ x.hold \in {"none", "held", "released"}
    BY AboutPeer DEF Peer
  <2> QED BY <2>1, <2>2 DEF TypeOK
<1> QED BY <1>1, TypeInit, TypeNext, PTL DEF Spec

-----------------------------------------------------------------------------
\* The games in which no slot but t ever stops and nobody is out of reach.
\* What the others know of each other: all are heard, and nobody votes on them.

Rest(t) == Players \ {t}
Router(t) == LeastOf(Rest(t))
In(x, t) == x.leave[t] = Never

Known(x, t) ==
    /\ \A q \in Rest(t) : /\ x.leave[q] = Never /\ x.heard[q] /\ x.bar[q] = "full"
                          /\ \A v \in Players : x.votes[q][v] = 0
    /\ x.votes[t][t] = 0

LEMMA RestIs ==
    ASSUME NEW t \in Players
    PROVE  /\ Router(t) \in Rest(t) /\ \A s \in Rest(t) : Router(t) <= s
           /\ Rest(t) \subseteq Players /\ Players = Rest(t) \cup {t}
<1>1. 0 \in Players /\ 1 \in Players
  BY Numbers, PlayersAssumption
<1>2. Rest(t) \in SUBSET Players /\ Rest(t) # {}
  BY <1>1 DEF Rest
<1>3. LeastOf(Rest(t)) \in Rest(t) /\ \A s \in Rest(t) : LeastOf(Rest(t)) <= s
  BY <1>2, LeastIs
<1> QED BY <1>2, <1>3 DEF Rest, Router

LEMMA VotersIs ==
    ASSUME NEW x \in Peer, NEW S \in SUBSET Voters(x)
    PROVE  /\ IsFiniteSet(S) /\ Cardinality(S) \in Nat
           /\ \A R \in SUBSET S : Cardinality(R) >= Cardinality(S) => R = S
<1>1. IsFiniteSet(Players) /\ S \subseteq Players
  BY Numbers DEF Voters
<1>2. IsFiniteSet(S)
  BY <1>1, FS_Subset
<1>3. Cardinality(S) \in Nat
  BY <1>2, FS_CardinalityType
<1>4. ASSUME NEW R \in SUBSET S, Cardinality(R) >= Cardinality(S) PROVE R = S
  <2>1. IsFiniteSet(R) /\ Cardinality(R) <= Cardinality(S) /\ (Cardinality(R) = Cardinality(S) => R = S)
    BY <1>2, FS_Subset
  <2>2. Cardinality(R) \in Nat
    BY <2>1, FS_CardinalityType
  <2> QED BY <1>3, <1>4, <2>1, <2>2
<1> QED BY <1>2, <1>3, <1>4

LEMMA KnownIn ==
    ASSUME NEW t \in Players, NEW x \in Peer, x.self \in Rest(t), Known(x, t), NEW q \in Rest(t), q # x.self
    PROVE  isPlayerInGame(x, q) /\ ~isPlayerVotedOut(x, q)
<1> DEFINE V == Voters(x) \ {q}
           W == {v \in Voters(x) : x.votes[q][v] # 0}
<1>1. x.self \in Voters(x)
  BY RestIs DEF Known, Voters, Connected
<1>2. x.self \in V /\ V \in SUBSET Voters(x)
  BY <1>1
<1>3. W = {}
  BY DEF Known, Voters
<1>4. W \in SUBSET V
  BY <1>3
<1>5. V # W
  BY <1>2, <1>3
<1> HIDE DEF V, W
<1>6. ~(Cardinality(W) >= Cardinality(V)) /\ Cardinality(V) \in Nat
  BY <1>2, <1>4, <1>5, VotersIs
<1>7. W \in SUBSET Voters(x)
  BY <1>2, <1>4
<1>8. Cardinality(W) \in Nat
  BY <1>7, VotersIs
<1>9. ~isPlayerVotedOut(x, q)
  BY <1>6, <1>8 DEF isPlayerVotedOut, V, W
<1>10. Connected(x, q) /\ x.bar[q] # "out"
  BY DEF Known, Connected
<1> QED BY <1>9, <1>10 DEF isPlayerInGame

\* Among the others only the first is ever the packet router.
LEMMA KnownRouter ==
    ASSUME NEW t \in Players, NEW x \in Peer, x.self \in Rest(t), Known(x, t), nextPacketRouter(x) \in Rest(t)
    PROVE  nextPacketRouter(x) = Router(t)
<1> DEFINE S == {r \in Players : r = x.self \/ isPlayerInGame(x, r)}
<1>1. S \in SUBSET Players /\ Router(t) \in S
  BY RestIs, KnownIn
<1> HIDE DEF S
<1>2. LeastOf(S) \in S /\ \A y \in S : LeastOf(S) <= y
  BY <1>1, LeastIs
<1>3. nextPacketRouter(x) = LeastOf(S)
  BY DEF nextPacketRouter, S
<1>4. LeastOf(S) <= Router(t) /\ Router(t) <= LeastOf(S)
  BY <1>1, <1>2, <1>3, RestIs
<1>5. LeastOf(S) \in Nat /\ Router(t) \in Nat
  BY <1>1, <1>2, Numbers
<1> QED BY <1>3, <1>4, <1>5

-----------------------------------------------------------------------------
\* What a peer other than t remembers, whatever it knows of the streams.

Own(x, t) ==
    /\ ~x.quit /\ x.df[t] = 0 /\ ~x.dfr[t] /\ x.pending = <<>>
    /\ x.df[x.self] = x.ann /\ x.ann <= x.frame
    /\ \A i \in Players : x.dfr[i] => x.df[i] >= 1 /\ (i # x.self => x.by[i] >= x.df[i])
    /\ x.ann = 0 => x.hold = "none"
    /\ x.ann # 0 /\ x.ann = x.frame => x.hold # "none"
    /\ In(x, t) /\ x.screen => ~x.heard[t]
    /\ In(x, t) /\ ~x.screen => /\ x.ann = 0 /\ x.notified = 0
                                /\ x.votes[t][x.self] = 0 /\ x.bar[t] = "full"
    /\ In(x, t) => x.decided = <<>>
    /\ ~In(x, t) => x.bar[t] = "full" /\ x.heard[t]

\* Every frame ran with the slots that were in the game.
Ranged(x) == \A f \in 1 .. x.frame - 1 : x.ran[f] = {s \in Players : f < x.leave[s]}

KeptIn(x, t) == Known(x, t) /\ Own(x, t) /\ Ranged(x)

\* What says nothing of the frames and records.
Plain(t) == {m \in Message : \/ m.type \in {"FRAMEINFO", "FRAMERESEND"}
                             \/ m.type = "DISCONNECTVOTE" /\ m.target = t}
Echo == Resend \cup DropCommand
AllOf(s, M) == \A k \in 1 .. Len(s) : s[k] \in M

\* A step says messages of M, and to itself nothing that counts.
Says(y, M) == (\A b \in Players : AllOf(y.out[b], M)) /\ AllOf(y.out[y.self], Echo)

\* A peer that heard nothing of t for a while, or dropped it.
Noticed(x, t) == ~x.heard[t] \/ ~In(x, t)

\* The kinds of steps of a peer x other than t, that becomes y.
Idle(x, y, t) ==
    /\ y.frame = x.frame /\ y.leave = x.leave /\ y.decided = x.decided
    /\ y.df = x.df /\ y.dfr = x.dfr /\ y.by = x.by /\ y.ann = x.ann
    /\ y.hold = x.hold \/ x.frame > x.ann
    /\ y.notified = x.notified \/ x.ann = 0
    /\ y.screen = x.screen \/ In(x, t)
    /\ Says(y, Plain(t)) /\ (y.out = x.out \/ Noticed(x, t))

Announces(x, y, t) ==
    /\ In(x, t) /\ ~x.heard[t] /\ (x.ann < x.frame \/ x.notified # x.frame)
    /\ y.frame = x.frame /\ y.leave = x.leave /\ y.decided = x.decided /\ y.by = x.by
    /\ y.ann = x.frame /\ y.hold = "held" /\ y.notified = x.frame
    /\ y.df = [x.df EXCEPT ![x.self] = x.frame] /\ y.dfr = [x.dfr EXCEPT ![x.self] = TRUE]
    /\ Says(y, Plain(t) \cup {Announced(x)})
    /\ \A b \in Players : \A k \in 2 .. Len(y.out[b]) : y.out[b][k] \in Plain(t)

Dropping(x, t) == [type |-> "DISCONNECTPLAYER", target |-> t, frame |-> x.frame, gone |-> {}]

Decides(x, y, t) ==
    /\ In(x, t) /\ ~x.heard[t] /\ x.self = Router(t)
    /\ \A i \in Rest(t) \ {x.self} : x.dfr[i] /\ x.df[i] = x.frame
    /\ y.frame = x.frame /\ y.by = x.by /\ y.ann = x.frame
    /\ y.leave = [x.leave EXCEPT ![t] = x.frame] /\ y.decided = <<Dropping(x, t)>>
    /\ y.df = [x.df EXCEPT ![x.self] = x.frame] /\ y.dfr = [x.dfr EXCEPT ![x.self] = TRUE]
    /\ Says(y, Plain(t) \cup {Announced(x), Dropping(x, t)})
    /\ \A b \in Rest(t) \ {x.self} : \E k \in 1 .. Len(y.out[b]) :
          y.out[b][k] = Dropping(x, t) /\ \E j \in 1 .. k - 1 : y.out[b][j] = Announced(x)

Notes(x, y, t, q, f) ==
    /\ y.frame = x.frame /\ y.leave = x.leave /\ y.decided = x.decided
    /\ y.ann = x.ann /\ y.hold = x.hold /\ y.notified = x.notified /\ y.screen = x.screen
    /\ x.df[q] <= f /\ y.df = [x.df EXCEPT ![q] = f]
    /\ \E g \in Stand : g >= f /\ g >= x.by[q] /\ y.by = [x.by EXCEPT ![q] = g]
    /\ \/ y.dfr = [x.dfr EXCEPT ![q] = TRUE] /\ Says(y, Plain(t) \cup Decided(x))
       \/ /\ y.dfr = [x.dfr EXCEPT ![q] = FALSE] /\ x.self = Router(t) /\ ~x.screen
          /\ Says(y, Plain(t) \cup Decided(x) \cup {Closing(x, q, f)})

HearsOff(x, y, t, q, c) ==
    /\ y.frame = x.frame /\ y.leave = x.leave /\ y.decided = x.decided
    /\ y.by = x.by /\ y.ann = x.ann /\ y.notified = x.notified /\ y.screen = x.screen
    /\ \/ c.frame < x.df[q] /\ y.df = x.df /\ y.dfr = x.dfr
       \/ /\ c.frame >= x.df[q]
          /\ y.df = [x.df EXCEPT ![q] = c.frame] /\ y.dfr = [x.dfr EXCEPT ![q] = FALSE]
    /\ y.hold = x.hold \/ (q = Router(t) /\ <<x.self, x.ann>> \in c.released)
    /\ Says(y, {})

Applies(x, y, t, c) ==
    /\ In(x, t) /\ x.ann = x.frame /\ c.frame = x.frame
    /\ y.frame = x.frame /\ y.leave = [x.leave EXCEPT ![t] = x.frame] /\ y.decided = x.decided
    /\ y.df = x.df /\ y.dfr = x.dfr /\ y.by = x.by /\ y.ann = x.ann
    /\ y.notified = x.notified /\ y.screen = x.screen
    /\ Says(y, {})

TurnsOff(x, y, t) ==
    /\ ~In(x, t) /\ x.screen /\ ~y.screen
    /\ y.frame = x.frame /\ y.leave = x.leave /\ y.decided = x.decided
    /\ y.df = x.df /\ y.dfr = ForAll(FALSE) /\ y.by = x.by /\ y.ann = x.ann
    /\ Says(y, {OffCommand(x)})

\* The peers other than t in such a game; between two steps nothing is to be sent.
Playing(t) == {x \in Peer : x.self \in Rest(t) /\ KeptIn(x, t) /\ Len(x.ran) = x.frame - 1}
Peers(t) == {x \in Playing(t) : x.out = ForAll(<<>>)}

LEMMA PlayingAre ==
    ASSUME NEW t \in Players, NEW x \in Playing(t)
    PROVE  /\ x \in Peer /\ x.self \in Rest(t) /\ x.self \in Players /\ x.self # t
           /\ Known(x, t) /\ Own(x, t) /\ Ranged(x) /\ Len(x.ran) = x.frame - 1
           /\ x.frame \in Stand \ {0} /\ x.frame \in Nat /\ x.frame >= 1 /\ x.ann \in Nat /\ x.ann <= x.frame
           /\ x.frame <= MaxFrame + 1
<1>1. x \in Peer /\ x.self \in Rest(t) /\ Known(x, t) /\ Own(x, t) /\ Ranged(x)
      /\ Len(x.ran) = x.frame - 1
  BY DEF Playing, KeptIn
<1>2. x.self \in Players /\ x.self # t
  BY <1>1 DEF Rest
<1>3. x.frame \in Stand \ {0} /\ x.ann \in Stand
  BY <1>1 DEF Peer
<1> QED BY <1>1, <1>2, <1>3, Numbers DEF Stand, Own

LEMMA PeersAre ==
    ASSUME NEW t \in Players, NEW x \in Peers(t)
    PROVE  /\ x \in Peer /\ x.self \in Rest(t) /\ x.self \in Players /\ x.self # t /\ x.out = ForAll(<<>>)
           /\ Known(x, t) /\ Own(x, t) /\ Ranged(x) /\ Len(x.ran) = x.frame - 1
           /\ x.frame \in Stand \ {0} /\ x.frame \in Nat /\ x.frame >= 1 /\ x.ann \in Nat /\ x.ann <= x.frame
           /\ x.frame <= MaxFrame + 1 /\ KeptIn(x, t)
BY PlayingAre DEF Peers, Playing

LEMMA Silent ==
    ASSUME NEW t \in Players, NEW x \in Peers(t), NEW M, NEW y, y.out = x.out, y.self = x.self
    PROVE  Says(y, M)
<1>1. x.self \in Players /\ y.out = ForAll(<<>>)
  BY PeersAre
<1> QED BY <1>1 DEF Says, AllOf, ForAll

LEMMA FileIdle ==
    ASSUME NEW t \in Players, NEW x \in Peers(t), NEW q \in Players, NEW c \in Plain(t),
           c.type = "DISCONNECTVOTE" => q # x.self /\ q # t
    PROVE  Idle(x, file(x, q, c), t) /\ KeptIn(file(x, q, c), t)
<1> DEFINE y == file(x, q, c)
<1> SUFFICES Idle(x, y, t) /\ KeptIn(y, t)
  OBVIOUS
<1>1. x \in Peer /\ x.self \in Players
  BY PeersAre
<1>2. ASSUME c.type # "DISCONNECTVOTE" PROVE \E h : y = [x EXCEPT !.have = h]
  <2>1. c.type \in {"FRAMEINFO", "FRAMERESEND"}
    BY <1>2 DEF Plain
  <2>2. x = [x EXCEPT !.have = x.have]
    BY <1>1 DEF Peer
  <2> QED BY <2>1, <2>2 DEF file, OnFrame, OnFrameResend
<1>3. ASSUME NEW h, y = [x EXCEPT !.have = h] PROVE Idle(x, y, t) /\ KeptIn(y, t)
  <2> HIDE DEF y
  <2>1. /\ y.self = x.self /\ y.quit = x.quit /\ y.frame = x.frame /\ y.ran = x.ran /\ y.leave = x.leave /\ y.heard = x.heard
        /\ y.bar = x.bar /\ y.screen = x.screen /\ y.votes = x.votes /\ y.df = x.df /\ y.dfr = x.dfr /\ y.by = x.by
        /\ y.ann = x.ann /\ y.hold = x.hold /\ y.notified = x.notified /\ y.decided = x.decided
        /\ y.pending = x.pending /\ y.out = x.out
    BY <1>1, <1>3 DEF Peer
  <2>2. Says(y, Plain(t))
    BY <2>1, Silent
  <2>3. KeptIn(x, t)
    BY PeersAre
  <2>4. KeptIn(y, t)
    BY <2>1, <2>3 DEF KeptIn, Known, Own, Ranged, In
  <2> QED BY <2>1, <2>2, <2>4 DEF Idle
<1>4. CASE c.type = "DISCONNECTVOTE"
  <2>1. c.target = t
    BY <1>4 DEF Plain
  <2>2. y = x \/ y = [x EXCEPT !.votes[t][q] = c.frame]
    BY <1>4, <2>1 DEF file, OnVote
  <2>3. CASE y = x
    <3>1. x = [x EXCEPT !.have = x.have]
      BY <1>1 DEF Peer
    <3> QED BY <1>3, <2>3, <3>1
  <2>4. CASE y = [x EXCEPT !.votes[t][q] = c.frame]
    <3> HIDE DEF y
    <3>1. /\ y.self = x.self /\ y.quit = x.quit /\ y.frame = x.frame /\ y.ran = x.ran /\ y.leave = x.leave /\ y.heard = x.heard
          /\ y.bar = x.bar /\ y.screen = x.screen /\ y.df = x.df /\ y.dfr = x.dfr /\ y.by = x.by
          /\ y.ann = x.ann /\ y.hold = x.hold /\ y.notified = x.notified /\ y.decided = x.decided
          /\ y.pending = x.pending /\ y.out = x.out
          /\ \A a, b \in Players : a # t \/ b # q => y.votes[a][b] = x.votes[a][b]
      BY <1>1, <2>4 DEF Peer
    <3>2. Says(y, Plain(t))
      BY <3>1, Silent
    <3>3. Known(x, t) /\ Own(x, t) /\ Ranged(x)
      BY PeersAre
    <3>4. q # x.self /\ q # t
      BY <1>4
    <3>5. KeptIn(y, t)
      BY <1>1, <3>1, <3>3, <3>4 DEF KeptIn, Known, Own, Ranged, In, Rest
    <3> QED BY <3>1, <3>2, <3>5 DEF Idle
  <2> QED BY <2>2, <2>3, <2>4
<1> QED BY <1>2, <1>3, <1>4

Noted(x, y, t, q, f, b, o) ==
    /\ y \in Peer /\ y.self = x.self /\ y.out = o /\ KeptIn(y, t)
    /\ y.frame = x.frame /\ y.leave = x.leave /\ y.decided = x.decided
    /\ y.ann = x.ann /\ y.hold = x.hold /\ y.notified = x.notified /\ y.screen = x.screen
    /\ y.df = [x.df EXCEPT ![q] = f] /\ y.dfr = [x.dfr EXCEPT ![q] = b]
    /\ \E g \in Stand : g >= f /\ g >= x.by[q] /\ y.by = [x.by EXCEPT ![q] = g]

LEMMA NotedIs ==
    ASSUME NEW t \in Players, NEW x \in Peers(t), NEW q \in Rest(t), q # x.self, NEW f \in Stand \ {0},
           NEW b \in BOOLEAN, NEW o \in Outs, NEW y, Noting(x, q, f, b, o, y)
    PROVE  Noted(x, y, t, q, f, b, o)
<1>1. PICK u \in Fewer(x.votes), g \in Stand :
        /\ g >= f /\ g >= x.by[q]
        /\ y = [x EXCEPT !.votes = u, !.df = [x.df EXCEPT ![q] = f], !.dfr = [x.dfr EXCEPT ![q] = b],
                         !.by = [x.by EXCEPT ![q] = g], !.out = o]
  BY DEF Noting
<1>2. x \in Peer /\ x.self \in Players /\ q \in Players /\ q # t /\ x.self # t
  BY PeersAre DEF Rest
<1>3. y \in Peer
  BY <1>2, NotingIsKin DEF Kin
<1>4. /\ y.self = x.self /\ y.quit = x.quit /\ y.frame = x.frame /\ y.ran = x.ran /\ y.leave = x.leave /\ y.heard = x.heard
      /\ y.bar = x.bar /\ y.screen = x.screen /\ y.votes = u
      /\ y.df = [x.df EXCEPT ![q] = f] /\ y.dfr = [x.dfr EXCEPT ![q] = b] /\ y.by = [x.by EXCEPT ![q] = g]
      /\ y.ann = x.ann /\ y.hold = x.hold /\ y.notified = x.notified /\ y.decided = x.decided
      /\ y.pending = x.pending /\ y.out = o
  BY <1>1, <1>2 DEF Peer
<1>5. \A v, w \in Players : u[v][w] \in {x.votes[v][w], 0}
  BY DEF Fewer
<1>6. Known(x, t) /\ Own(x, t) /\ Ranged(x)
  BY PeersAre
<1>7. Known(y, t)
  BY <1>2, <1>4, <1>5, <1>6 DEF Known, Rest
<1>8. Ranged(y)
  BY <1>4, <1>6 DEF Ranged
<1>9. Own(y, t)
  <2>1. /\ x.df \in [Players -> Stand] /\ x.dfr \in [Players -> BOOLEAN] /\ x.by \in [Players -> Stand]
        /\ f >= 1 /\ g >= f
    <3>1. f >= 1
      BY Numbers DEF Stand
    <3> QED BY <1>1, <1>2, <3>1 DEF Peer
  <2>2. y.df[t] = 0 /\ ~y.dfr[t] /\ y.pending = <<>> /\ y.df[y.self] = y.ann /\ y.ann <= y.frame
    BY <1>2, <1>4, <1>6, <2>1 DEF Own
  <2>3. \A i \in Players : y.dfr[i] => y.df[i] >= 1 /\ (i # y.self => y.by[i] >= y.df[i])
    BY <1>2, <1>4, <1>6, <2>1 DEF Own
  <2>4. y.votes[t][y.self] \in {x.votes[t][x.self], 0}
    BY <1>2, <1>4, <1>5
  <2> QED BY <1>4, <1>6, <2>2, <2>3, <2>4 DEF Own, In
<1> QED BY <1>1, <1>3, <1>4, <1>7, <1>8, <1>9 DEF KeptIn, Noted

LEMMA GrownIs ==
    ASSUME NEW s, s = <<>>, NEW u \in Seq(Message), NEW M, Grows(s, u, M)
    PROVE  AllOf(u, M)
BY DEF Grows, AllOf

\* An announcement is old news, or is noted, or is noted and closed at once.
LEMMA FileNotes ==
    ASSUME NEW t \in Players, NEW x \in Peers(t), NEW q \in Rest(t), q # x.self, NEW c \in Announcement
    PROVE  /\ KeptIn(file(x, q, c), t)
           /\ x.df[q] > c.frame \/ (x.df[q] = c.frame /\ x.dfr[q]) => Idle(x, file(x, q, c), t)
           /\ ~(x.df[q] > c.frame \/ (x.df[q] = c.frame /\ x.dfr[q])) => Notes(x, file(x, q, c), t, q, c.frame)
<1>1. x \in Peer /\ x.self \in Players /\ q \in Players /\ x.self \in Rest(t) /\ x.out = ForAll(<<>>)
  BY PeersAre DEF Rest
<1>2. file(x, q, c) = OnDisconnectFrame(x, q, c)
  BY DEF file, Announcement
<1>3. c.frame \in Stand \ {0} /\ c.frame \in Stand /\ c.frame \in Int /\ x.df[q] \in Int
  BY <1>1, Numbers DEF Announcement, Stand, Peer
<1>4. CASE x.df[q] > c.frame \/ (x.df[q] = c.frame /\ x.dfr[q])
  <2>1. file(x, q, c) = x
    BY <1>1, <1>2, <1>4, DisconnectFrameIs
  <2>2. Says(x, Plain(t))
    BY Silent
  <2>3. Idle(x, x, t) /\ KeptIn(x, t)
    BY <2>2, PeersAre DEF Idle
  <2> QED BY <1>4, <2>1, <2>3
<1>5. CASE ~(x.df[q] > c.frame \/ (x.df[q] = c.frame /\ x.dfr[q]))
  <2> DEFINE Z == OnDisconnectFrame(x, q, c)
             O(o) == [b \in Players |-> IF b \in Others(x) THEN Append(o[b], Closing(x, q, c.frame)) ELSE o[b]]
  <2>0. Z \in Kin(x)
    BY <1>1, DisconnectFrameIs
  <2>1. PICK o, y : /\ Answering(x, o) /\ Noting(x, q, c.frame, TRUE, o, y)
                    /\ IF ~x.screen /\ nextPacketRouter(y) = x.self
                       THEN \E z : Noting(x, q, c.frame, FALSE, o, z) /\ Z = [z EXCEPT !.out = O(o)]
                       ELSE Z = y
    <3>1. x \in Peer /\ q \in Players /\ c \in Announcement
      BY <1>1
    <3>2. Heeds(x, q, c)
      BY ONLY <1>5, <3>1, DisconnectFrameIs
    <3> QED BY ONLY <3>2 DEF Heeds
  <2>2. o \in Outs /\ \A b \in Players : Grows(x.out[b], o[b], Resend \cup Decided(x))
    BY <2>1 DEF Answering
  <2>3. Resend \subseteq Plain(t) /\ Resend \cup Decided(x) \subseteq Echo /\ x.out \in Outs
    <3>1. Resend \subseteq Plain(t)
      BY DEF Resend, Plain, Message
    <3>2. x.decided \in Seq(DropCommand) /\ x.out \in Outs
      BY <1>1 DEF Peer, Outs
    <3> QED BY <3>1, <3>2 DEF Decided, Echo
  <2>4. \A b \in Players : o[b] \in Seq(Message) /\ AllOf(o[b], Resend \cup Decided(x))
    <3> TAKE b \in Players
    <3>1. o[b] \in Seq(Message) /\ x.out[b] = <<>>
      BY <1>1, <2>2 DEF Outs, ForAll
    <3> QED BY <2>2, <3>1, GrownIs
  <2>5. Noted(x, y, t, q, c.frame, TRUE, o)
    BY <1>3, <2>1, <2>2, NotedIs
  <2> HIDE DEF Z
  <2>6. CASE ~(~x.screen /\ nextPacketRouter(y) = x.self)
    <3>1. Z = y
      BY <2>1, <2>6
    <3>2. Says(y, Plain(t) \cup Decided(x))
      BY <1>1, <2>3, <2>4, <2>5 DEF Says, AllOf, Noted
    <3>3. Notes(x, y, t, q, c.frame)
      BY <1>3, <1>5, <2>5, <3>2 DEF Notes, Noted
    <3> QED BY <1>2, <1>5, <2>5, <3>1, <3>3 DEF Z, Noted
  <2>7. CASE ~x.screen /\ nextPacketRouter(y) = x.self
    <3>1. PICK z : Noting(x, q, c.frame, FALSE, o, z) /\ Z = [z EXCEPT !.out = O(o)]
      BY <2>1, <2>7
    <3>2. O(o) \in Outs
      <4>1. Closing(x, q, c.frame) \in Message
        <5>1. {<<q, c.frame>>} \in SUBSET (Players \X Stand) /\ x.frame \in Stand
          BY <1>1, <1>3 DEF Peer
        <5> QED BY <5>1 DEF Closing, ScreenOff, Message
      <4> QED BY <2>4, <4>1 DEF Outs
    <3>3. Noting(x, q, c.frame, FALSE, O(o), Z)
      <4>1. PICK u \in Fewer(x.votes), g \in Stand :
              /\ g >= c.frame /\ g >= x.by[q]
              /\ z = [x EXCEPT !.votes = u, !.df = [x.df EXCEPT ![q] = c.frame], !.dfr = [x.dfr EXCEPT ![q] = FALSE],
                               !.by = [x.by EXCEPT ![q] = g], !.out = o]
        BY <3>1 DEF Noting
      <4> DEFINE oo == O(o)
      <4>2. Z = [z EXCEPT !.out = oo]
        BY <3>1
      <4> HIDE DEF oo, O
      <4>3. Z = [x EXCEPT !.votes = u, !.df = [x.df EXCEPT ![q] = c.frame], !.dfr = [x.dfr EXCEPT ![q] = FALSE],
                          !.by = [x.by EXCEPT ![q] = g], !.out = oo]
        BY <1>1, <4>1, <4>2 DEF Peer
      <4>4. Noting(x, q, c.frame, FALSE, oo, Z)
        BY <4>1, <4>3 DEF Noting
      <4> QED BY <4>4 DEF oo
    <3>4. Noted(x, Z, t, q, c.frame, FALSE, O(o))
      <4> HIDE DEF O
      <4> QED BY <1>3, <3>2, <3>3, NotedIs
    <3>5. x.self = Router(t)
      <4>1. nextPacketRouter(y) \in Rest(t) /\ y.self \in Rest(t) /\ Known(y, t)
        BY <1>1, <2>5, <2>7 DEF KeptIn, Noted
      <4> QED BY <2>5, <2>7, <4>1, KnownRouter DEF Noted
    <3>6. Says(Z, Plain(t) \cup Decided(x) \cup {Closing(x, q, c.frame)})
      <4>1. ASSUME NEW b \in Players PROVE AllOf(O(o)[b], Plain(t) \cup Decided(x) \cup {Closing(x, q, c.frame)})
        <5>1. o[b] \in Seq(Message) /\ AllOf(o[b], Plain(t) \cup Decided(x))
          BY <2>3, <2>4 DEF AllOf
        <5>2. O(o)[b] = IF b \in Others(x) THEN Append(o[b], Closing(x, q, c.frame)) ELSE o[b]
          OBVIOUS
        <5> HIDE DEF O
        <5> QED BY <5>1, <5>2 DEF AllOf
      <4>2. O(o)[x.self] = o[x.self]
        BY <1>1 DEF Others
      <4>3. AllOf(o[x.self], Echo)
        BY <1>1, <2>3, <2>4 DEF AllOf
      <4> HIDE DEF O
      <4> QED BY <3>4, <4>1, <4>2, <4>3 DEF Says, Noted
    <3>7. Notes(x, Z, t, q, c.frame)
      <4> HIDE DEF O
      <4> QED BY <1>3, <1>5, <2>7, <3>4, <3>5, <3>6 DEF Notes, Noted
    <3> QED BY <1>2, <1>5, <3>4, <3>7 DEF Z, Noted
  <2> QED BY <2>6, <2>7
<1> QED BY <1>4, <1>5

LEMMA FileHearsOff ==
    ASSUME NEW t \in Players, NEW x \in Peers(t), NEW q \in Rest(t), q # x.self, NEW c \in ScreenOff
    PROVE  KeptIn(file(x, q, c), t) /\ HearsOff(x, file(x, q, c), t, q, c)
<1> DEFINE z == file(x, q, c)
<1> SUFFICES KeptIn(z, t) /\ HearsOff(x, z, t, q, c)
  OBVIOUS
<1>1. x \in Peer /\ x.self \in Players /\ q \in Players /\ q # t /\ x.self # t /\ x.self \in Rest(t)
      /\ x.out = ForAll(<<>>)
  BY PeersAre DEF Rest
<1>2. z = OnScreenOff(x, q, c) /\ Closes(x, q, c)
  BY <1>1, OnScreenOffIs DEF file, ScreenOff
<1>3. PICK y \in Kin(x) :
        /\ \/ y = x /\ c.frame < x.df[q]
           \/ \E u \in Fewer(x.votes) :
                /\ c.frame >= x.df[q]
                /\ y = [x EXCEPT !.votes = u, !.dfr = [x.dfr EXCEPT ![q] = FALSE],
                                 !.df = [x.df EXCEPT ![q] = c.frame]]
        /\ z = IF <<x.self, x.ann>> \in c.released /\ nextPacketRouter(y) = q
               THEN [y EXCEPT !.hold = IF y.hold = "held" THEN "released" ELSE y.hold] ELSE y
  BY <1>2, ZenonT(30) DEF Closes
<1> HIDE DEF z
<1>4. PICK u \in Votes :
        /\ \A v, w \in Players : u[v][w] \in {x.votes[v][w], 0}
        /\ y \in Peer /\ y.self = x.self /\ y.quit = x.quit /\ y.frame = x.frame /\ y.ran = x.ran /\ y.leave = x.leave /\ y.heard = x.heard
        /\ y.bar = x.bar /\ y.screen = x.screen /\ y.votes = u /\ y.by = x.by
        /\ y.ann = x.ann /\ y.hold = x.hold /\ y.notified = x.notified /\ y.decided = x.decided
        /\ y.pending = x.pending /\ y.out = x.out
        /\ \/ c.frame < x.df[q] /\ y.df = x.df /\ y.dfr = x.dfr
           \/ /\ c.frame >= x.df[q]
              /\ y.df = [x.df EXCEPT ![q] = c.frame] /\ y.dfr = [x.dfr EXCEPT ![q] = FALSE]
  <2>1. y \in Peer /\ y.self = x.self
    BY DEF Kin
  <2>2. CASE y = x /\ c.frame < x.df[q]
    <3>1. x.votes \in Votes
      BY <1>1 DEF Peer, Votes
    <3> QED BY <2>1, <2>2, <3>1
  <2>3. CASE \E u \in Fewer(x.votes) :
                /\ c.frame >= x.df[q]
                /\ y = [x EXCEPT !.votes = u, !.dfr = [x.dfr EXCEPT ![q] = FALSE],
                                 !.df = [x.df EXCEPT ![q] = c.frame]]
    <3>1. PICK u \in Fewer(x.votes) :
                /\ c.frame >= x.df[q]
                /\ y = [x EXCEPT !.votes = u, !.dfr = [x.dfr EXCEPT ![q] = FALSE],
                                 !.df = [x.df EXCEPT ![q] = c.frame]]
      BY <2>3
    <3>2. u \in Votes /\ \A v, w \in Players : u[v][w] \in {x.votes[v][w], 0}
      BY DEF Fewer
    <3>3. /\ y.frame = x.frame /\ y.ran = x.ran /\ y.leave = x.leave /\ y.heard = x.heard
          /\ y.bar = x.bar /\ y.screen = x.screen /\ y.votes = u /\ y.by = x.by
          /\ y.ann = x.ann /\ y.hold = x.hold /\ y.notified = x.notified /\ y.decided = x.decided
          /\ y.pending = x.pending /\ y.out = x.out
          /\ y.df = [x.df EXCEPT ![q] = c.frame] /\ y.dfr = [x.dfr EXCEPT ![q] = FALSE]
      BY <1>1, <3>1 DEF Peer
    <3> QED BY <2>1, <3>1, <3>2, <3>3
  <2> QED BY <1>3, <2>2, <2>3
<1>5. PICK h : z = [y EXCEPT !.hold = h] /\ (h = y.hold \/ (y.hold = "held" /\ h = "released"
                    /\ <<x.self, x.ann>> \in c.released /\ nextPacketRouter(y) = q))
  <2>1. y = [y EXCEPT !.hold = y.hold]
    BY <1>4 DEF Peer
  <2> QED BY <1>3, <2>1
<1>6. /\ z.self = x.self /\ z.quit = x.quit /\ z.frame = x.frame /\ z.ran = x.ran /\ z.leave = x.leave /\ z.heard = x.heard
      /\ z.bar = x.bar /\ z.screen = x.screen /\ z.votes = u /\ z.by = x.by
      /\ z.ann = x.ann /\ z.hold = h /\ z.notified = x.notified /\ z.decided = x.decided
      /\ z.pending = x.pending /\ z.out = x.out /\ z.df = y.df /\ z.dfr = y.dfr
  BY <1>4, <1>5 DEF Peer
<1>7. Known(x, t) /\ Own(x, t) /\ Ranged(x)
  BY PeersAre
<1>8. Known(y, t) /\ Known(z, t)
  BY <1>1, <1>4, <1>6, <1>7 DEF Known, Rest
<1>9. h = x.hold \/ (x.hold = "held" /\ h = "released" /\ q = Router(t) /\ <<x.self, x.ann>> \in c.released)
  BY <1>1, <1>4, <1>5, <1>8, KnownRouter
<1>10. Ranged(z)
  BY <1>6, <1>7 DEF Ranged
<1>11. Own(z, t)
  <2>1. x.df \in [Players -> Stand] /\ x.dfr \in [Players -> BOOLEAN]
    BY <1>1 DEF Peer
  <2>2. z.df[t] = 0 /\ ~z.dfr[t] /\ z.pending = <<>> /\ z.df[z.self] = z.ann /\ z.ann <= z.frame
    BY <1>1, <1>4, <1>6, <1>7, <2>1 DEF Own
  <2>3. \A i \in Players : z.dfr[i] => z.df[i] >= 1 /\ (i # z.self => z.by[i] >= z.df[i])
    BY <1>1, <1>4, <1>6, <1>7, <2>1 DEF Own
  <2>4. z.votes[t][z.self] \in {x.votes[t][x.self], 0}
    BY <1>1, <1>4, <1>6
  <2> QED BY <1>6, <1>7, <1>9, <2>2, <2>3, <2>4 DEF Own, In
<1>12. Says(z, {})
  BY <1>6, Silent
<1>13. HearsOff(x, z, t, q, c)
  BY <1>4, <1>6, <1>9, <1>12 DEF HearsOff
<1> QED BY <1>8, <1>10, <1>11, <1>13 DEF KeptIn

\* A peer that has no drop waiting, or one.
LEMMA NoDropWaits ==
    ASSUME NEW x \in Peer, x.pending = <<>>
    PROVE  applyPendingDrops(x) = x
<1> DEFINE a == [x EXCEPT !.pending = <<>>]
           Is(h) == h = [n \in 0 .. 0 |-> IF n = 0 THEN a ELSE CHOOSE z \in {applyDrop(y, x.pending[n]) : y \in {h[n - 1]}} : TRUE]
           h == CHOOSE h : Is(h)
<1>1. a = x
  BY DEF Peer
<1>2. Len(x.pending) = 0
  OBVIOUS
<1>3. applyPendingDrops(x) = h[0]
  BY <1>2 DEF applyPendingDrops, InTurn, Of
<1> HIDE DEF a
<1>4. Is([n \in 0 .. 0 |-> a])
  OBVIOUS
<1>5. Is(h)
  BY <1>4
<1> HIDE DEF h
<1>6. h[0] = a
  BY <1>5
<1> QED BY <1>1, <1>3, <1>6

LEMMA OneDropWaits ==
    ASSUME NEW x \in Peer, NEW d, x.pending = <<d>>
    PROVE  applyPendingDrops(x) = applyDrop([x EXCEPT !.pending = <<>>], d)
<1> DEFINE a == [x EXCEPT !.pending = <<>>]
           b == applyDrop(a, d)
           Is(h) == h = [n \in 0 .. 1 |-> IF n = 0 THEN a ELSE CHOOSE z \in {applyDrop(y, x.pending[n]) : y \in {h[n - 1]}} : TRUE]
           h == CHOOSE h : Is(h)
           g == [n \in 0 .. 1 |-> IF n = 0 THEN a ELSE b]
<1>2. Len(x.pending) = 1 /\ x.pending[1] = d
  OBVIOUS
<1>3. applyPendingDrops(x) = h[1]
  BY <1>2 DEF applyPendingDrops, InTurn, Of
<1>4. Is(g)
  <2>1. ASSUME NEW n \in 0 .. 1
        PROVE  g[n] = IF n = 0 THEN a ELSE CHOOSE z \in {applyDrop(y, x.pending[n]) : y \in {g[n - 1]}} : TRUE
    <3>1. CASE n = 0
      BY <3>1
    <3>2. CASE n = 1
      <4>1. g[0] = a /\ g[1] = b
        OBVIOUS
      <4>2. {applyDrop(y, x.pending[n]) : y \in {g[n - 1]}} = {b}
        BY <1>2, <3>2, <4>1
      <4> HIDE DEF b, a, g
      <4>3. (CHOOSE z \in {b} : TRUE) = b
        OBVIOUS
      <4> QED BY <3>2, <4>1, <4>2, <4>3
    <3> QED BY <3>1, <3>2
  <2> QED BY <2>1
<1> HIDE DEF g
<1>5. Is(h)
  BY <1>4
<1> HIDE DEF h
<1>6. h[0] = a
  BY <1>5
<1>7. h[1] = CHOOSE z \in {applyDrop(y, x.pending[1]) : y \in {h[0]}} : TRUE
  BY <1>5
<1>8. h[1] = CHOOSE z \in {b} : TRUE
  BY <1>2, <1>6, <1>7
<1> HIDE DEF b
<1>9. h[1] = b
  BY <1>8
<1> QED BY <1>3, <1>9 DEF b

\* The slot is dropped at the frame the peer stands on.
LEMMA DroppedKept ==
    ASSUME NEW t \in Players, NEW x \in Playing(t), In(x, t), NEW y \in Peer,
           y.self = x.self, y.frame = x.frame, y.ran = x.ran, y.leave = [x.leave EXCEPT ![t] = x.frame],
           y.heard = [x.heard EXCEPT ![t] = TRUE], y.bar = [x.bar EXCEPT ![t] = "full"],
           \A q \in Rest(t), v \in Players : y.votes[q][v] = 0, y.votes[t][t] = 0
    PROVE  Known(y, t) /\ Ranged(y) /\ ~In(y, t) /\ y.leave[t] = x.frame /\ y.heard[t] /\ y.bar[t] = "full"
<1>1. x \in Peer /\ t \in Players /\ x.self # t /\ x.frame \in Nat /\ x.frame <= MaxFrame + 1
  BY PlayingAre
<1>2. y.leave[t] = x.frame /\ y.heard[t] /\ y.bar[t] = "full"
  BY <1>1 DEF Peer
<1>3. ~In(y, t)
  BY <1>1, <1>2, Numbers DEF In
<1>4. Known(x, t) /\ Ranged(x)
  BY PlayingAre
<1>5. \A q \in Rest(t) : y.leave[q] = x.leave[q] /\ y.heard[q] = x.heard[q] /\ y.bar[q] = x.bar[q]
  BY <1>1 DEF Peer, Rest
<1>6. Known(y, t)
  <2>1. \A q \in Rest(t) : x.leave[q] = Never /\ x.heard[q] /\ x.bar[q] = "full"
    BY <1>4 DEF Known
  <2>2. \A q \in Rest(t) : y.leave[q] = Never /\ y.heard[q] /\ y.bar[q] = "full"
    BY <1>5, <2>1
  <2> QED BY <2>2 DEF Known
<1>7. ASSUME NEW f \in 1 .. x.frame - 1 PROVE {s \in Players : f < x.leave[s]} = {s \in Players : f < y.leave[s]}
  <2>1. f \in Nat /\ f < x.frame /\ f < Never
    BY <1>1, Numbers
  <2>2. x.leave[t] = Never
    BY DEF In
  <2> QED BY <1>2, <1>5, <2>1, <2>2 DEF Rest
<1>8. Ranged(y)
  BY <1>1, <1>4, <1>7 DEF Ranged
<1> QED BY <1>2, <1>3, <1>6, <1>8

LEMMA FileApplies ==
    ASSUME NEW t \in Players, NEW x \in Peers(t), NEW c \in DropCommand, c.target = t, c.gone = {}
    PROVE  LET y == file(x, Router(t), c)
           IN  /\ KeptIn(y, t) /\ (Idle(x, y, t) \/ Applies(x, y, t, c))
               /\ In(x, t) /\ x.by[Router(t)] >= c.frame /\ x.ann = c.frame /\ c.frame >= x.frame => Applies(x, y, t, c)
<1> DEFINE r == Router(t)
           y == file(x, r, c)
           d == [from |-> r, target |-> t, frame |-> c.frame, gone |-> {}]
           w == [x EXCEPT !.pending = Append(@, d)]
<1>1. x \in Peer /\ x.self \in Players /\ x.self # t /\ x.self \in Rest(t) /\ r \in Players /\ r \in Rest(t)
      /\ x.frame \in Nat /\ x.ann \in Nat /\ x.ann <= x.frame /\ Known(x, t) /\ Own(x, t)
  BY PeersAre, RestIs
<1>2. Predecessors(r, t) = {}
  <2>1. \A s \in Players : s # t => r <= s
    BY RestIs DEF Rest
  <2>2. Players \subseteq Nat
    BY Numbers
  <2> QED BY <1>1, <2>1, <2>2 DEF Predecessors
<1>3. \A z : verifyDropClaims(z, r, t, {}) = "apply"
  BY <1>2 DEF verifyDropClaims
<1>4. y = IF Connected(x, t) /\ validateDrop(x, r, c) THEN applyPendingDrops(w) ELSE x
  <2>1. y = OnDisconnectPlayer(x, r, c)
    BY DEF file, DropCommand
  <2> HIDE DEF y
  <2> QED BY <1>3, <2>1 DEF OnDisconnectPlayer
<1>5. validateDrop(x, r, c) <=> x.by[r] >= c.frame /\ x.ann = c.frame
  BY <1>1 DEF validateDrop
<1>6. Idle(x, x, t) /\ KeptIn(x, t)
  <2>1. Says(x, Plain(t))
    BY Silent
  <2> QED BY <2>1, PeersAre DEF Idle
<1>7. c.frame \in Stand \ {0} /\ c.frame \in Nat
  BY Numbers DEF DropCommand, Stand
<1> HIDE DEF y, r
<1>8. CASE ~(Connected(x, t) /\ validateDrop(x, r, c))
  BY <1>4, <1>5, <1>6, <1>8 DEF Connected, In, y, r
<1>9. CASE Connected(x, t) /\ validateDrop(x, r, c)
  <2> DEFINE v == [w EXCEPT !.pending = <<>>]
  <2>1. x.pending = <<>> /\ d \in PendingDrop
    BY <1>1, <1>7 DEF Own, PendingDrop
  <2> HIDE DEF d
  <2>2. w \in Peer /\ w.pending = <<d>> /\ v = x
    <3> DEFINE u == <<d>>
    <3>1. u \in Seq(PendingDrop) /\ Append(x.pending, d) = u
      BY <2>1
    <3> HIDE DEF u
    <3>2. w = [x EXCEPT !.pending = u]
      BY <3>1
    <3>3. w \in Peer /\ w.pending = u
      BY <1>1, <3>1, <3>2 DEF Peer
    <3>4. v = [x EXCEPT !.pending = <<>>]
      BY <1>1, <3>2 DEF Peer
    <3>5. [x EXCEPT !.pending = x.pending] = x
      BY <1>1 DEF Peer
    <3> QED BY <2>1, <3>3, <3>4, <3>5 DEF u
  <2>3. y = applyDrop(x, d)
    <3> HIDE DEF w
    <3> QED BY <1>4, <1>9, <2>2, OneDropWaits
  <2>4. d.target = t /\ d.from = r /\ d.gone = {} /\ d.frame = c.frame
    BY DEF d
  <2>5. y = IF c.frame < x.frame THEN x ELSE Release(disconnectPlayer(x, t, c.frame))
    BY <1>1, <1>3, <1>9, <2>3, <2>4 DEF applyDrop
  <2>6. CASE c.frame < x.frame
    BY <1>1, <1>5, <1>6, <1>7, <2>5, <2>6 DEF y, r
  <2>7. CASE ~(c.frame < x.frame)
    <3>1. c.frame = x.frame /\ x.ann = x.frame /\ In(x, t)
      BY <1>1, <1>5, <1>7, <1>9, <2>7 DEF Connected, In
    <3> DEFINE u == disconnectPlayer(x, t, x.frame)
    <3>2. y = Release(u) /\ x.frame \in Stand \ {0}
      BY <1>7, <2>5, <2>7, <3>1
    <3>3. u = [x EXCEPT !.leave = [x.leave EXCEPT ![t] = x.frame], !.heard = [x.heard EXCEPT ![t] = TRUE],
                        !.bar = [x.bar EXCEPT ![t] = "full"]] /\ u \in Kin(x)
      BY <1>1, <3>2, DisconnectIs
    <3> HIDE DEF u
    <3>4. u \in Peer
      BY <3>3 DEF Kin
    <3>5. y = [u EXCEPT !.hold = IF u.hold = "held" THEN "released" ELSE u.hold] /\ y \in Kin(u)
      BY <3>2, <3>4, ReleaseIs
    <3>6. /\ y.self = x.self /\ y.quit = x.quit /\ y.frame = x.frame /\ y.ran = x.ran /\ y.leave = [x.leave EXCEPT ![t] = x.frame]
          /\ y.heard = [x.heard EXCEPT ![t] = TRUE] /\ y.bar = [x.bar EXCEPT ![t] = "full"]
          /\ y.screen = x.screen /\ y.votes = x.votes /\ y.df = x.df /\ y.dfr = x.dfr /\ y.by = x.by
          /\ y.ann = x.ann /\ y.hold = (IF x.hold = "held" THEN "released" ELSE x.hold)
          /\ y.notified = x.notified /\ y.decided = x.decided
          /\ y.pending = x.pending /\ y.out = x.out
      BY <1>1, <3>3, <3>5 DEF Peer
    <3>7. y \in Peer
      BY <3>5 DEF Kin
    <3>8. Known(y, t) /\ Ranged(y) /\ ~In(y, t) /\ y.leave[t] = x.frame /\ y.heard[t] /\ y.bar[t] = "full"
      <4>1. (\A q \in Rest(t), z \in Players : y.votes[q][z] = 0) /\ y.votes[t][t] = 0
        BY <1>1, <3>6 DEF Known
      <4> QED BY <3>1, <3>6, <3>7, <4>1, DroppedKept DEF Peers
    <3>9. Own(y, t)
      BY <1>1, <3>6, <3>8 DEF Own
    <3>10. Says(y, {})
      BY <3>6, Silent
    <3>11. Applies(x, y, t, c)
      BY <3>1, <3>6, <3>10 DEF Applies
    <3> QED BY <3>8, <3>9, <3>11 DEF KeptIn, y, r
  <2> QED BY <2>6, <2>7
<1> QED BY <1>8, <1>9

-----------------------------------------------------------------------------
\* What the loop over the slots does in such a game: only the turn of t counts.

\* The slot is silent and the screen is on: the peer tells the others.
Silenced(x, t) == In(x, t) /\ ~x.heard[t] /\ x.screen

\* What is sent to one of the others while the frame of x is announced.
Tells(s, x, t) == AllOf(s, Plain(t) \cup {Announced(x)}) /\ \A k \in 2 .. Len(s) : s[k] \in Plain(t)

Told(x, y, t) ==
    /\ y.frame = x.frame /\ y.leave = x.leave /\ y.decided = x.decided /\ y.by = x.by
    /\ y.heard = x.heard /\ y.screen = x.screen /\ y.bar = x.bar /\ y.self = x.self /\ y.quit = x.quit /\ y.ran = x.ran
    /\ y.ann = x.frame /\ y.hold = "held"
    /\ y.df = [x.df EXCEPT ![x.self] = x.frame] /\ y.dfr = [x.dfr EXCEPT ![x.self] = TRUE]
    /\ \A v, w \in Players : y.votes[v][w] \in {x.votes[v][w], 0}
    /\ \A b \in Players : Grows(PostOut(x, Others(x), Announced(x))[b], y.out[b], Resend)

LEMMA TellIs ==
    ASSUME NEW t \in Players, NEW x \in Playing(t), Silenced(x, t)
    PROVE  LET y == notifyOthersOfCurrentFrame(x)
           IN  y \in Playing(t) /\ Silenced(y, t) /\ Told(x, y, t) /\ y.notified = x.notified
<1> DEFINE y == notifyOthersOfCurrentFrame(x)
<1> SUFFICES y \in Playing(t) /\ Silenced(y, t) /\ Told(x, y, t) /\ y.notified = x.notified
  OBVIOUS
<1>1. x \in Peer /\ x.self \in Players /\ x.self # t /\ x.self \in Rest(t) /\ x.frame \in Stand /\ x.frame \in Nat
      /\ x.frame >= 1 /\ Known(x, t) /\ Own(x, t) /\ Ranged(x) /\ Len(x.ran) = x.frame - 1
  BY PlayingAre
<1>2. Notifying(x, y) /\ y \in Peer
  BY <1>1, NotifyIs, NotifyingIsKin DEF Kin
<1> HIDE DEF y
<1>3. PICK u \in Fewer(x.votes), o \in Outs :
        /\ y = [x EXCEPT !.votes = u, !.df = [x.df EXCEPT ![x.self] = x.frame],
                         !.dfr = [x.dfr EXCEPT ![x.self] = TRUE], !.out = o,
                         !.ann = x.frame, !.hold = "held"]
        /\ \A b \in Players : Grows(PostOut(x, Others(x), Announced(x))[b], o[b], Resend)
  BY <1>2 DEF Notifying
<1>4. /\ y.self = x.self /\ y.quit = x.quit /\ y.frame = x.frame /\ y.ran = x.ran /\ y.leave = x.leave /\ y.heard = x.heard
      /\ y.bar = x.bar /\ y.screen = x.screen /\ y.votes = u /\ y.by = x.by
      /\ y.df = [x.df EXCEPT ![x.self] = x.frame] /\ y.dfr = [x.dfr EXCEPT ![x.self] = TRUE]
      /\ y.ann = x.frame /\ y.hold = "held" /\ y.notified = x.notified /\ y.decided = x.decided
      /\ y.pending = x.pending /\ y.out = o
  BY <1>1, <1>3 DEF Peer
<1>5. \A v, w \in Players : u[v][w] \in {x.votes[v][w], 0}
  BY DEF Fewer
<1>6. Told(x, y, t)
  BY <1>3, <1>4, <1>5 DEF Told
<1>7. Known(y, t)
  BY <1>1, <1>4, <1>5 DEF Known, Rest
<1>8. Own(y, t)
  <2>1. x.df \in [Players -> Stand] /\ x.dfr \in [Players -> BOOLEAN]
    BY <1>1 DEF Peer
  <2>2. y.df[t] = 0 /\ ~y.dfr[t] /\ y.pending = <<>> /\ y.df[y.self] = y.ann /\ y.ann <= y.frame
    BY <1>1, <1>4, <2>1 DEF Own
  <2>3. \A i \in Players : y.dfr[i] => y.df[i] >= 1 /\ (i # y.self => y.by[i] >= y.df[i])
    BY <1>1, <1>4, <2>1 DEF Own
  <2> QED BY <1>1, <1>4, <2>2, <2>3 DEF Own, Silenced, In
<1>9. Ranged(y)
  BY <1>1, <1>4 DEF Ranged
<1>10. y \in Playing(t)
  BY <1>1, <1>2, <1>4, <1>7, <1>8, <1>9 DEF Playing, KeptIn
<1> QED BY <1>4, <1>6, <1>10 DEF Silenced, In

\* What a silenced peer has to say so far: nothing, or the frame it stands on.
Quiet(x) == x.out = ForAll(<<>>)
Spoke(x, t) == AllOf(x.out[x.self], Echo) /\ \A b \in Players : Tells(x.out[b], x, t)

LEMMA AppendOne ==
    ASSUME NEW s \in Seq(Message), NEW m
    PROVE  Len(Append(s, m)) = Len(s) + 1 /\ Append(s, m)[Len(s) + 1] = m
           /\ \A k \in 1 .. Len(s) : Append(s, m)[k] = s[k]
OBVIOUS

LEMMA QuietSpoke ==
    ASSUME NEW t \in Players, NEW x \in Playing(t), Quiet(x)
    PROVE  Spoke(x, t) /\ \A b \in Players : AllOf(x.out[b], Plain(t))
<1>1. \A b \in Players : x.out[b] = <<>>
  BY DEF Quiet, ForAll
<1>2. x.self \in Players
  BY PlayingAre
<1> QED BY <1>1, <1>2 DEF Spoke, Tells, AllOf

\* A message to the others on top of what was said.
LEMMA PostTells ==
    ASSUME NEW t \in Players, NEW x \in Playing(t), NEW m \in Message, NEW b \in Players
    PROVE  LET p == PostOut(x, Others(x), m)[b]
           IN  /\ x.out[b] \in Seq(Message) /\ p \in Seq(Message)
               /\ p = x.out[b] \/ (b # x.self /\ p = Append(x.out[b], m))
               /\ b \in Rest(t) \ {x.self} => p = Append(x.out[b], m)
<1>1. x \in Peer /\ x.self \in Players /\ Known(x, t)
  BY PlayingAre
<1>2. x.out[b] \in Seq(Message)
  BY <1>1 DEF Peer
<1>3. PostOut(x, Others(x), m)[b] = IF b \in Others(x) THEN Append(x.out[b], m) ELSE x.out[b]
  BY DEF PostOut
<1>4. b \in Others(x) => b # x.self
  BY DEF Others
<1>5. b \in Rest(t) \ {x.self} => b \in Others(x)
  BY <1>1 DEF Others, Known, Connected
<1> QED BY <1>2, <1>3, <1>4, <1>5

LEMMA ToldSpoke ==
    ASSUME NEW t \in Players, NEW x \in Playing(t), NEW y \in Peer, Told(x, y, t)
    PROVE  /\ Quiet(x) => Spoke(y, t)
           /\ Spoke(x, t) => /\ AllOf(y.out[y.self], Echo)
                             /\ \A b \in Players : AllOf(y.out[b], Plain(t) \cup {Announced(x)})
           /\ \A b \in Rest(t) \ {x.self} : \E j \in 1 .. Len(y.out[b]) : y.out[b][j] = Announced(x)
<1> DEFINE m == Announced(x)
           P(b) == PostOut(x, Others(x), m)[b]
<1>1. x.self \in Players /\ y.self = x.self /\ y.quit = x.quit /\ y.frame = x.frame /\ m \in Message /\ Announced(y) = m
  BY PlayingAre DEF Told, Announced, Message, Announcement
<1>2. Resend \subseteq Plain(t) /\ Resend \subseteq Echo
  BY DEF Resend, Plain, Message, Echo
<1>3. ASSUME NEW b \in Players
      PROVE  /\ P(b) \in Seq(Message) /\ x.out[b] \in Seq(Message) /\ y.out[b] \in Seq(Message)
             /\ P(b) = x.out[b] \/ (b # x.self /\ P(b) = Append(x.out[b], m))
             /\ b \in Rest(t) \ {x.self} => P(b) = Append(x.out[b], m)
             /\ Grows(P(b), y.out[b], Resend)
  BY <1>1, PostTells DEF Told, Peer
<1> HIDE DEF P, m
<1>4. ASSUME NEW b \in Players, Quiet(x) PROVE Tells(y.out[b], y, t) /\ (b = x.self => AllOf(y.out[b], Echo))
  <2>1. Len(x.out[b]) = 0
    BY <1>4 DEF Quiet, ForAll
  <2>2. P(b) = x.out[b] \/ (b # x.self /\ Len(P(b)) = 1 /\ P(b)[1] = m)
    <3>1. Len(Append(x.out[b], m)) = Len(x.out[b]) + 1 /\ Append(x.out[b], m)[Len(x.out[b]) + 1] = m
      BY <1>3, AppendOne
    <3>2. Len(x.out[b]) + 1 = 1
      BY <2>1
    <3>3. Len(Append(x.out[b], m)) = 1 /\ Append(x.out[b], m)[1] = m
      BY ONLY <3>1, <3>2
    <3>4. P(b) = x.out[b] \/ (b # x.self /\ P(b) = Append(x.out[b], m))
      BY <1>3
    <3> QED BY ONLY <3>3, <3>4
  <2>3. Grows(P(b), y.out[b], Resend) /\ y.out[b] \in Seq(Message) /\ Len(y.out[b]) \in Nat
    BY <1>3
  <2> QED BY <1>1, <1>2, <2>1, <2>2, <2>3 DEF Grows, Tells, AllOf
<1>5. ASSUME NEW b \in Players, Spoke(x, t)
      PROVE  AllOf(y.out[b], Plain(t) \cup {m}) /\ (b = x.self => AllOf(y.out[b], Echo))
  <2>1. AllOf(x.out[b], Plain(t) \cup {m}) /\ (b = x.self => AllOf(x.out[b], Echo))
    BY <1>5 DEF Spoke, Tells, m
  <2>2. Grows(P(b), y.out[b], Resend) /\ Len(y.out[b]) \in Nat /\ Len(x.out[b]) \in Nat
    BY <1>3
  <2>3. \/ P(b) = x.out[b]
        \/ /\ b # x.self /\ Len(P(b)) = Len(x.out[b]) + 1 /\ P(b)[Len(x.out[b]) + 1] = m
           /\ \A k \in 1 .. Len(x.out[b]) : P(b)[k] = x.out[b][k]
    BY <1>3, AppendOne
  <2>4. ASSUME NEW k \in 1 .. Len(y.out[b])
        PROVE  y.out[b][k] \in Plain(t) \cup {m} /\ (b = x.self => y.out[b][k] \in Echo)
    <3>1. CASE k \in 1 .. Len(P(b))
      <4>1. y.out[b][k] = P(b)[k]
        BY <2>2, <3>1 DEF Grows
      <4>2. CASE k \in 1 .. Len(x.out[b])
        BY <2>1, <2>3, <4>1, <4>2 DEF AllOf
      <4>3. CASE k \notin 1 .. Len(x.out[b])
        BY <2>2, <2>3, <3>1, <4>1, <4>3
      <4> QED BY <4>2, <4>3
    <3>2. CASE k \notin 1 .. Len(P(b))
      <4>1. k \in Len(P(b)) + 1 .. Len(y.out[b])
        BY <1>3, <2>2, <3>2
      <4> QED BY <1>2, <2>2, <4>1 DEF Grows
    <3> QED BY <3>1, <3>2
  <2> QED BY <2>4 DEF AllOf
<1>6. ASSUME NEW b \in Rest(t) \ {x.self} PROVE \E j \in 1 .. Len(y.out[b]) : y.out[b][j] = m
  <2>1. b \in Players
    BY DEF Rest
  <2>2. P(b) = Append(x.out[b], m) /\ x.out[b] \in Seq(Message) /\ Grows(P(b), y.out[b], Resend) /\ y.out[b] \in Seq(Message)
    BY <1>3, <2>1
  <2>3. Len(P(b)) = Len(x.out[b]) + 1 /\ P(b)[Len(x.out[b]) + 1] = m /\ Len(x.out[b]) \in Nat
    BY <2>2, AppendOne
  <2>4. Len(x.out[b]) + 1 \in 1 .. Len(y.out[b]) /\ y.out[b][Len(x.out[b]) + 1] = m
    BY <2>2, <2>3 DEF Grows
  <2> QED BY <2>4
<1> QED BY <1>1, <1>4, <1>5, <1>6 DEF Spoke, m

\* Two peers that differ by votes, messages and what is due.
Alike(x, y) ==
    /\ y.self = x.self /\ y.quit = x.quit /\ y.frame = x.frame /\ y.leave = x.leave /\ y.decided = x.decided /\ y.heard = x.heard
    /\ y.bar = x.bar /\ y.df = x.df /\ y.dfr = x.dfr /\ y.by = x.by /\ y.ann = x.ann /\ y.hold = x.hold
    /\ y.notified = x.notified /\ y.screen = x.screen

LEMMA VoteKept ==
    ASSUME NEW t \in Players, NEW x \in Playing(t), Silenced(x, t)
    PROVE  LET y == voteForPlayerDisconnect(x, t)
           IN  /\ y \in Playing(t) /\ Alike(x, y)
               /\ Spoke(x, t) => Spoke(y, t)
               /\ Quiet(x) => Says(y, Plain(t))
<1> DEFINE y == voteForPlayerDisconnect(x, t)
           m == VoteFor(x, t)
<1> SUFFICES y \in Playing(t) /\ Alike(x, y) /\ (Spoke(x, t) => Spoke(y, t)) /\ (Quiet(x) => Says(y, Plain(t)))
  OBVIOUS
<1>1. x \in Peer /\ x.self \in Players /\ x.self # t /\ x.self \in Rest(t)
      /\ Known(x, t) /\ Own(x, t) /\ Ranged(x) /\ Len(x.ran) = x.frame - 1
  BY PlayingAre
<1>2. y \in Kin(x) /\ m \in Message
  BY <1>1, VoteIs
<1>3. CASE x.votes[t][x.self] # 0
  <2>1. y = x
    BY <1>3 DEF voteForPlayerDisconnect
  <2>2. Quiet(x) => Says(x, Plain(t))
    BY <1>1, QuietSpoke DEF Says, Spoke
  <2> QED BY <2>1, <2>2 DEF Alike
<1>4. CASE x.votes[t][x.self] = 0
  <2> DEFINE o == PostOut(x, Others(x), m)
  <2>1. y = [x EXCEPT !.votes[t][x.self] = x.frame, !.out = o]
    BY <1>1, <1>4, VoteIs
  <2>2. y \in Peer
    BY <1>2 DEF Kin
  <2> HIDE DEF y, o
  <2>3. /\ y.self = x.self /\ y.quit = x.quit /\ y.frame = x.frame /\ y.ran = x.ran /\ y.leave = x.leave /\ y.heard = x.heard
        /\ y.bar = x.bar /\ y.screen = x.screen /\ y.by = x.by
        /\ y.df = x.df /\ y.dfr = x.dfr /\ y.ann = x.ann /\ y.hold = x.hold /\ y.notified = x.notified
        /\ y.decided = x.decided /\ y.pending = x.pending /\ y.out = o
        /\ \A a, b \in Players : a # t \/ b # x.self => y.votes[a][b] = x.votes[a][b]
    BY <1>1, <2>1 DEF Peer
  <2>4. Known(y, t)
    BY <1>1, <2>3 DEF Known, Rest
  <2>5. Own(y, t)
    BY <1>1, <2>3 DEF Own, Silenced, In
  <2>6. y \in Playing(t)
    BY <1>1, <2>2, <2>3, <2>4, <2>5 DEF Playing, KeptIn, Ranged
  <2>7. m \in Plain(t) /\ Announced(y) = Announced(x)
    BY <1>2, <2>3 DEF VoteFor, Plain, Announced
  <2>8. ASSUME NEW b \in Players
        PROVE  /\ y.out[b] = x.out[b] \/ (b # x.self /\ y.out[b] = Append(x.out[b], m))
               /\ x.out[b] \in Seq(Message)
    BY <1>2, <2>3, PostTells DEF o
  <2>9. ASSUME NEW b \in Players, NEW M, Plain(t) \subseteq M, AllOf(x.out[b], M) PROVE AllOf(y.out[b], M)
    BY <2>7, <2>8, <2>9 DEF AllOf
  <2>10. Spoke(x, t) => Spoke(y, t)
    <3> SUFFICES ASSUME Spoke(x, t) PROVE Spoke(y, t)
      OBVIOUS
    <3>1. y.out[y.self] = x.out[x.self]
      BY <1>1, <2>3, <2>8
    <3>2. ASSUME NEW b \in Players PROVE Tells(y.out[b], y, t)
      <4>1. Tells(x.out[b], x, t)
        BY DEF Spoke
      <4>2. AllOf(y.out[b], Plain(t) \cup {Announced(x)})
        BY <2>9, <4>1 DEF Tells
      <4>3. \A k \in 2 .. Len(y.out[b]) : y.out[b][k] \in Plain(t)
        BY <2>7, <2>8, <4>1 DEF Tells
      <4> QED BY <2>7, <4>2, <4>3 DEF Tells
    <3> QED BY <3>1, <3>2 DEF Spoke
  <2>11. Quiet(x) => Says(y, Plain(t))
    <3>1. Quiet(x) => \A b \in Players : AllOf(x.out[b], Plain(t))
      BY QuietSpoke
    <3>2. Quiet(x) => AllOf(y.out[y.self], Echo)
      BY <1>1, <2>3, <2>8, QuietSpoke DEF Spoke
    <3> QED BY <2>9, <3>1, <3>2 DEF Says
  <2> QED BY <2>3, <2>6, <2>10, <2>11 DEF Alike
<1> QED BY <1>3, <1>4

\* The router is behind its own announcement only once another one got further.
Behind(x, t) ==
    x.self = Router(t) /\ In(x, t) /\ x.ann # 0 /\ x.frame > x.ann => \E i \in Rest(t) \ {x.self} : x.df[i] > x.ann

\* What a drop leaves of the peer x that decided it.
Dropped(x, y, t) ==
    /\ In(x, t) /\ ~x.heard[t] /\ x.self = Router(t)
    /\ \A i \in Rest(t) \ {x.self} : x.dfr[i] /\ x.df[i] = x.frame
    /\ y.frame = x.frame /\ y.by = x.by /\ y.ann = x.frame
    /\ y.leave = [x.leave EXCEPT ![t] = x.frame] /\ y.decided = <<Dropping(x, t)>>
    /\ y.df = [x.df EXCEPT ![x.self] = x.frame] /\ y.dfr = [x.dfr EXCEPT ![x.self] = TRUE]

LEMMA DecideDrops ==
    ASSUME NEW t \in Players, NEW x \in Playing(t), Silenced(x, t), Behind(x, t),
           allOnSameFrame(x), dropClaims(x, t), Spoke(x, t)
    PROVE  LET y == Drop(notifyOthersOfCurrentFrame(x), t)
           IN  y \in Playing(t) /\ Dropped(x, y, t) /\ Says(y, Plain(t) \cup {Announced(x), Dropping(x, t)})
               /\ \A b \in Rest(t) \ {x.self} : \E k \in 1 .. Len(y.out[b]) :
                     y.out[b][k] = Dropping(x, t) /\ \E j \in 1 .. k - 1 : y.out[b][j] = Announced(x)
<1> DEFINE n == notifyOthersOfCurrentFrame(x)
           y == Drop(n, t)
           d == Dropping(x, t)
<1> SUFFICES /\ y \in Playing(t) /\ Dropped(x, y, t) /\ Says(y, Plain(t) \cup {Announced(x), d})
             /\ \A b \in Rest(t) \ {x.self} : \E k \in 1 .. Len(y.out[b]) :
                     y.out[b][k] = d /\ \E j \in 1 .. k - 1 : y.out[b][j] = Announced(x)
  OBVIOUS
<1>1. x \in Peer /\ x.self \in Players /\ x.self # t /\ x.self \in Rest(t) /\ x.frame \in Nat /\ x.frame >= 1
      /\ x.ann \in Nat /\ x.ann <= x.frame
      /\ Known(x, t) /\ Own(x, t) /\ Ranged(x) /\ Len(x.ran) = x.frame - 1 /\ x.frame \in Stand \ {0}
  BY PlayingAre
<1>2. n \in Playing(t) /\ Silenced(n, t) /\ Told(x, n, t) /\ n \in Peer
  BY TellIs, PlayingAre
<1> HIDE DEF n
<1>3. n.self = x.self /\ n.quit = x.quit /\ n.frame = x.frame /\ n.leave = x.leave /\ n.decided = x.decided /\ n.by = x.by
      /\ n.heard = x.heard /\ n.bar = x.bar /\ n.ran = x.ran
      /\ n.ann = x.frame /\ n.df = [x.df EXCEPT ![x.self] = x.frame] /\ n.dfr = [x.dfr EXCEPT ![x.self] = TRUE]
  BY <1>2 DEF Told
<1>4. x.df \in [Players -> Stand] /\ x.dfr \in [Players -> BOOLEAN] /\ n.df[n.self] = x.frame
  BY <1>1, <1>3 DEF Peer
<1>5. \A s \in Predecessors(x.self, t) : FALSE
  BY <1>1 DEF Predecessors, dropClaims, Known, Connected, Rest
<1>6. x.self = Router(t)
  <2>1. Router(t) \in Rest(t) /\ Router(t) <= x.self /\ Rest(t) \subseteq Players
    BY <1>1, RestIs
  <2>2. ~(Router(t) < x.self)
    BY <1>5, <2>1 DEF Predecessors, Rest
  <2>3. Router(t) \in Nat /\ x.self \in Nat
    BY <1>1, <2>1, Numbers
  <2> QED BY <2>1, <2>2, <2>3
<1>7. \A i \in Rest(t) \ {x.self} : x.dfr[i] /\ x.df[i] = x.ann
  <2> TAKE i \in Rest(t) \ {x.self}
  <2>1. isPlayerInGame(x, i) /\ x.heard[i] /\ i \in Players
    BY <1>1, KnownIn DEF Known, Rest
  <2>2. x.dfr[i] /\ x.df[i] = x.df[x.self]
    BY <1>1, <2>1 DEF allOnSameFrame
  <2> QED BY <1>1, <2>2 DEF Own
<1>8. \A i \in Rest(t) \ {x.self} : x.dfr[i] /\ x.df[i] = x.frame
  <2> TAKE i \in Rest(t) \ {x.self}
  <2>1. x.dfr[i] /\ x.df[i] = x.ann /\ x.df[i] >= 1
    BY <1>1, <1>7 DEF Own, Rest
  <2>2. ~(x.frame > x.ann)
    <3> SUFFICES ASSUME x.frame > x.ann PROVE FALSE
      OBVIOUS
    <3>1. PICK j \in Rest(t) \ {x.self} : x.df[j] > x.ann
      BY <1>1, <1>6, <2>1 DEF Behind, Silenced
    <3>2. x.df[j] = x.ann
      BY <1>7
    <3> QED BY <1>1, <3>1, <3>2
  <2> QED BY <1>1, <2>1, <2>2
<1> DEFINE e == DropOf(n, t)
<1>9. /\ e \in DropCommand /\ (\A s \in Players : n.df[s] <= e.frame) /\ (\E s \in Players : e.frame = n.df[s])
      /\ y = [n EXCEPT !.decided = Append(n.decided, e),
                  !.out = PostOut(n, Others(n), e),
                  !.leave = [n.leave EXCEPT ![t] = e.frame],
                  !.heard = [n.heard EXCEPT ![t] = TRUE], !.bar = [n.bar EXCEPT ![t] = "full"],
                  !.hold = IF n.hold = "held" THEN "released" ELSE n.hold]
      /\ y \in Kin(n)
  BY <1>1, <1>2, <1>4, DropIs
<1>10. e.frame = x.frame
  <2>1. ASSUME NEW s \in Players PROVE n.df[s] \in {x.frame, 0}
    <3>1. CASE s = x.self
      BY <1>3, <1>4, <3>1
    <3>2. CASE s = t
      <4>1. n.df[t] = x.df[t] /\ x.df[t] = 0
        BY <1>1, <1>3, <1>4 DEF Own
      <4> QED BY <3>2, <4>1
    <3>3. CASE s \in Rest(t) \ {x.self}
      BY <1>3, <1>4, <1>8, <3>3
    <3> QED BY <3>1, <3>2, <3>3 DEF Rest
  <2>2. n.df[x.self] = x.frame /\ x.frame <= e.frame
    BY <1>1, <1>3, <1>4, <1>9
  <2> HIDE DEF e
  <2> QED BY <1>1, <1>9, <2>1, <2>2
<1>11. e = d /\ d \in Message
  <2>1. Predecessors(n.self, t) = {}
    BY <1>3, <1>5 DEF Predecessors
  <2>2. e = [type |-> "DISCONNECTPLAYER", target |-> t, frame |-> e.frame, gone |-> {}]
    BY <2>1 DEF DropOf
  <2>3. e \in Message
    BY <1>9 DEF Message
  <2> HIDE DEF e
  <2> QED BY <1>10, <2>2, <2>3 DEF Dropping
<1> HIDE DEF e, y, d
<1>12. n.hold = "held"
  BY <1>2 DEF Told
<1> DEFINE o == PostOut(n, Others(n), d)
           g == Append(n.decided, d)
<1>13. y = [n EXCEPT !.decided = g, !.out = o, !.leave = [x.leave EXCEPT ![t] = x.frame],
                  !.heard = [x.heard EXCEPT ![t] = TRUE], !.bar = [x.bar EXCEPT ![t] = "full"], !.hold = "released"]
  BY <1>3, <1>9, <1>10, <1>11, <1>12
<1> HIDE DEF o, g
<1>14. y \in Peer
  BY <1>9 DEF Kin
<1>15. /\ y.self = x.self /\ y.quit = x.quit /\ y.frame = x.frame /\ y.ran = x.ran /\ y.leave = [x.leave EXCEPT ![t] = x.frame]
       /\ y.heard = [x.heard EXCEPT ![t] = TRUE] /\ y.bar = [x.bar EXCEPT ![t] = "full"]
       /\ y.screen = n.screen /\ y.votes = n.votes /\ y.df = n.df /\ y.dfr = n.dfr /\ y.by = x.by
       /\ y.ann = x.frame /\ y.hold = "released" /\ y.notified = n.notified /\ y.decided = g
       /\ y.pending = n.pending /\ y.out = o
  BY <1>2, <1>3, <1>13 DEF Peer
<1>16. x.decided = <<>> /\ g = <<d>>
  <2>1. x.decided = <<>> /\ n.decided = <<>>
    BY <1>1, <1>3 DEF Own, Silenced
  <2> QED BY <2>1 DEF g
<1>17. Dropped(x, y, t)
  BY <1>3, <1>6, <1>8, <1>15, <1>16 DEF Dropped, Silenced, d
<1>18. Known(y, t) /\ Ranged(y) /\ ~In(y, t) /\ y.leave[t] = x.frame /\ y.heard[t] /\ y.bar[t] = "full"
  <2>1. (\A q \in Rest(t), z \in Players : y.votes[q][z] = 0) /\ y.votes[t][t] = 0
    BY <1>2, <1>15, PlayingAre DEF Known
  <2> QED BY <1>14, <1>15, <2>1, DroppedKept, ZenonT(30) DEF Silenced
<1>19. Own(y, t)
  <2>1. Own(n, t)
    BY <1>2, PlayingAre
  <2> QED BY <1>1, <1>3, <1>15, <1>18, <2>1 DEF Own
<1>20. y \in Playing(t)
  BY <1>1, <1>14, <1>15, <1>18, <1>19 DEF Playing, KeptIn
<1>21. AllOf(n.out[n.self], Echo) /\ \A b \in Players : AllOf(n.out[b], Plain(t) \cup {Announced(x)})
  BY <1>2, ToldSpoke
<1>22. ASSUME NEW b \in Players
       PROVE  /\ n.out[b] \in Seq(Message) /\ o[b] \in Seq(Message)
              /\ o[b] = n.out[b] \/ (b # x.self /\ o[b] = Append(n.out[b], d))
              /\ b \in Rest(t) \ {x.self} => o[b] = Append(n.out[b], d)
  BY <1>2, <1>3, <1>11, PostTells DEF o
<1>23. Says(y, Plain(t) \cup {Announced(x), d})
  <2>1. y.out[y.self] = n.out[n.self]
    BY <1>1, <1>3, <1>15, <1>22
  <2>2. ASSUME NEW b \in Players PROVE AllOf(y.out[b], Plain(t) \cup {Announced(x), d})
    BY <1>15, <1>21, <1>22 DEF AllOf
  <2> QED BY <1>21, <2>1, <2>2 DEF Says
<1>24. ASSUME NEW b \in Rest(t) \ {x.self}
       PROVE  \E k \in 1 .. Len(y.out[b]) : y.out[b][k] = d /\ \E j \in 1 .. k - 1 : y.out[b][j] = Announced(x)
  <2>1. b \in Players
    BY DEF Rest
  <2>2. PICK j \in 1 .. Len(n.out[b]) : n.out[b][j] = Announced(x)
    BY <1>2, ToldSpoke
  <2>3. y.out[b] = Append(n.out[b], d) /\ n.out[b] \in Seq(Message)
    BY <1>15, <1>22, <2>1
  <2>4. Len(y.out[b]) = Len(n.out[b]) + 1 /\ y.out[b][Len(n.out[b]) + 1] = d /\ y.out[b][j] = n.out[b][j]
        /\ Len(n.out[b]) \in Nat
    BY <2>3, AppendOne
  <2>5. Len(n.out[b]) + 1 \in 1 .. Len(y.out[b]) /\ j \in 1 .. (Len(n.out[b]) + 1) - 1
    BY <2>4
  <2> QED BY <2>2, <2>4, <2>5
<1> QED BY <1>17, <1>20, <1>23, <1>24

\* What decide does, on a silenced peer.
LEMMA DecideIs ==
    ASSUME NEW t \in Players, NEW x \in Playing(t), Silenced(x, t)
    PROVE  \/ decide(x, t) \in {x, voteForPlayerDisconnect(x, t)}
           \/ /\ allOnSameFrame(x) /\ dropClaims(x, t)
              /\ decide(x, t) = Drop(notifyOthersOfCurrentFrame(x), t)
BY DEF decide, Of

LEMMA StatusKept ==
    ASSUME NEW t \in Players, NEW x \in Peers(t), Silenced(x, t), Behind(x, t)
    PROVE  LET y == updateDisconnectStatus(x, t)
           IN  y \in Playing(t) /\ (Idle(x, y, t) \/ Announces(x, y, t) \/ Decides(x, y, t))
<1> DEFINE y == updateDisconnectStatus(x, t)
           a == announce(x, t)
           n == notifyOthersOfCurrentFrame(x)
<1> SUFFICES y \in Playing(t) /\ (Idle(x, y, t) \/ Announces(x, y, t) \/ Decides(x, y, t))
  OBVIOUS
<1>1. x \in Playing(t) /\ x \in Peer /\ x.self \in Players /\ x.self # t /\ x.self \in Rest(t) /\ x.out = ForAll(<<>>)
      /\ x.frame \in Stand
  BY PlayingAre DEF Peers
<1>2. y = decide(a, t)
  BY <1>1 DEF updateDisconnectStatus, Of, Silenced, In, Connected
<1>3. a = x \/ (x.notified # x.frame /\ a = [n EXCEPT !.notified = x.frame])
  BY DEF announce
<1> HIDE DEF y, a
<1>4. Quiet(x) /\ Spoke(x, t)
  BY <1>1, QuietSpoke DEF Quiet
<1>5. CASE a = x
  <2>1. CASE y \in {x, voteForPlayerDisconnect(x, t)}
    <3>1. Alike(x, x) /\ Says(x, Plain(t))
      BY Silent DEF Alike
    <3>2. y \in Playing(t) /\ Alike(x, y) /\ Says(y, Plain(t))
      BY <1>1, <1>4, <2>1, <3>1, VoteKept
    <3>3. Idle(x, y, t)
      BY <3>2 DEF Idle, Alike, Silenced, Noticed
    <3> QED BY <3>2, <3>3
  <2>2. CASE allOnSameFrame(x) /\ dropClaims(x, t) /\ y = Drop(n, t)
    <3>1. /\ y \in Playing(t) /\ Dropped(x, y, t) /\ Says(y, Plain(t) \cup {Announced(x), Dropping(x, t)})
          /\ \A b \in Rest(t) \ {x.self} : \E k \in 1 .. Len(y.out[b]) :
                     y.out[b][k] = Dropping(x, t) /\ \E j \in 1 .. k - 1 : y.out[b][j] = Announced(x)
      BY <1>1, <1>4, <2>2, DecideDrops
    <3> QED BY <3>1 DEF Dropped, Decides
  <2> QED BY <1>1, <1>2, <1>5, <2>1, <2>2, DecideIs
<1>6. CASE x.notified # x.frame /\ a = [n EXCEPT !.notified = x.frame]
  <2>1. n \in Playing(t) /\ Silenced(n, t) /\ Told(x, n, t) /\ n \in Peer
    BY <1>1, TellIs, PlayingAre
  <2>2. Spoke(n, t)
    BY <1>1, <1>4, <2>1, ToldSpoke
  <2> HIDE DEF n
  <2>3. /\ a.self = n.self /\ a.quit = n.quit /\ a.frame = n.frame /\ a.ran = n.ran /\ a.leave = n.leave /\ a.heard = n.heard
        /\ a.bar = n.bar /\ a.screen = n.screen /\ a.votes = n.votes /\ a.by = n.by /\ a.df = n.df /\ a.dfr = n.dfr
        /\ a.ann = n.ann /\ a.hold = n.hold /\ a.notified = x.frame /\ a.decided = n.decided
        /\ a.pending = n.pending /\ a.out = n.out /\ a \in Peer
    BY <1>1, <1>6, <2>1 DEF Peer
  <2>4. /\ a.self = x.self /\ a.quit = x.quit /\ a.frame = x.frame /\ a.leave = x.leave /\ a.decided = x.decided /\ a.by = x.by
        /\ a.heard = x.heard /\ a.screen = x.screen
        /\ a.ann = x.frame /\ a.hold = "held" /\ a.notified = x.frame
        /\ a.df = [x.df EXCEPT ![x.self] = x.frame] /\ a.dfr = [x.dfr EXCEPT ![x.self] = TRUE]
    BY <2>1, <2>3 DEF Told
  <2>5. a \in Playing(t) /\ Silenced(a, t) /\ Spoke(a, t)
    <3>1. Known(n, t) /\ Own(n, t) /\ Ranged(n) /\ n.self \in Rest(t) /\ Len(n.ran) = n.frame - 1
      BY <2>1, PlayingAre
    <3>2. Known(a, t) /\ Ranged(a)
      BY <2>3, <3>1 DEF Known, Ranged
    <3>3. Own(a, t)
      BY <2>1, <2>3, <3>1 DEF Own, Silenced, In
    <3>4. Spoke(a, t)
      BY <2>2, <2>3 DEF Spoke, Tells, Announced
    <3> QED BY <2>1, <2>3, <3>1, <3>2, <3>3, <3>4 DEF Playing, KeptIn, Silenced, In
  <2>6. Behind(a, t)
    BY <1>1, <2>4, PlayingAre DEF Behind
  <2>7. CASE y \in {a, voteForPlayerDisconnect(a, t)}
    <3>1. Alike(a, a)
      BY DEF Alike
    <3>2. y \in Playing(t) /\ Alike(a, y) /\ Spoke(y, t)
      BY <2>5, <2>7, <3>1, VoteKept
    <3>3. Announced(y) = Announced(x)
      BY <2>4, <3>2 DEF Announced, Alike
    <3>4. Says(y, Plain(t) \cup {Announced(x)}) /\ \A b \in Players : \A k \in 2 .. Len(y.out[b]) : y.out[b][k] \in Plain(t)
      BY <3>2, <3>3 DEF Spoke, Tells, Says
    <3>5. Announces(x, y, t)
      BY <1>6, <2>4, <3>2, <3>4 DEF Announces, Alike, Silenced
    <3> QED BY <3>2, <3>5
  <2>8. CASE allOnSameFrame(a) /\ dropClaims(a, t) /\ y = Drop(notifyOthersOfCurrentFrame(a), t)
    <3>1. /\ y \in Playing(t) /\ Dropped(a, y, t) /\ Says(y, Plain(t) \cup {Announced(a), Dropping(a, t)})
          /\ \A b \in Rest(t) \ {a.self} : \E k \in 1 .. Len(y.out[b]) :
                     y.out[b][k] = Dropping(a, t) /\ \E j \in 1 .. k - 1 : y.out[b][j] = Announced(a)
      BY <2>5, <2>6, <2>8, DecideDrops
    <3>2. Announced(a) = Announced(x) /\ Dropping(a, t) = Dropping(x, t)
      BY <2>4 DEF Announced, Dropping
    <3>3. x.df \in [Players -> Stand] /\ x.dfr \in [Players -> BOOLEAN]
      BY <1>1 DEF Peer
    <3>4. /\ [a.df EXCEPT ![x.self] = x.frame] = [x.df EXCEPT ![x.self] = x.frame]
          /\ [a.dfr EXCEPT ![x.self] = TRUE] = [x.dfr EXCEPT ![x.self] = TRUE]
      BY <1>1, <2>4, <3>3
    <3>5. \A i \in Rest(t) \ {x.self} : x.dfr[i] /\ x.df[i] = x.frame
      <4> TAKE i \in Rest(t) \ {x.self}
      <4>1. a.dfr[i] /\ a.df[i] = x.frame /\ i \in Players
        BY <2>4, <3>1 DEF Dropped, Rest
      <4> QED BY <2>4, <3>3, <4>1
    <3>6. /\ In(x, t) /\ ~x.heard[t] /\ x.self = Router(t)
          /\ y.frame = x.frame /\ y.by = x.by /\ y.ann = x.frame
          /\ y.leave = [x.leave EXCEPT ![t] = x.frame] /\ y.decided = <<Dropping(x, t)>>
          /\ y.df = [x.df EXCEPT ![x.self] = x.frame] /\ y.dfr = [x.dfr EXCEPT ![x.self] = TRUE]
      BY <2>4, <3>1, <3>2, <3>4, ZenonT(30) DEF Dropped, In
    <3>7. Decides(x, y, t)
      BY <2>4, <3>1, <3>2, <3>5, <3>6 DEF Decides
    <3> QED BY <3>1, <3>7
  <2> QED BY <1>2, <2>5, <2>7, <2>8, DecideIs
<1> QED BY <1>3, <1>5, <1>6

\* The turn of another slot changes nothing.
LEMMA StatusNothing ==
    ASSUME NEW t \in Players, NEW x \in Playing(t), NEW i \in Players, i # t \/ ~In(x, t)
    PROVE  updateDisconnectStatus(x, i) = x
<1>1. x \in Peer /\ x.self \in Rest(t) /\ Known(x, t)
  BY PlayingAre
<1>2. CASE i = x.self \/ ~Connected(x, i)
  BY <1>2 DEF updateDisconnectStatus
<1>3. CASE i # x.self /\ Connected(x, i)
  <2>1. i \in Rest(t)
    BY <1>3 DEF Rest, In, Connected
  <2>2. ~isPlayerVotedOut(x, i) /\ x.bar[i] = "full"
    BY <1>1, <1>3, <2>1, KnownIn DEF Known
  <2>3. announce(x, i) = x /\ decide(x, i) = x
    BY <2>2 DEF announce, decide
  <2> QED BY <1>3, <2>3 DEF updateDisconnectStatus, Of
<1> QED BY <1>2, <1>3

LEMMA LoopIs ==
    ASSUME NEW t \in Players, NEW x \in Playing(t), updateDisconnectStatus(x, t) \in Playing(t)
    PROVE  InTurn(updateDisconnectStatus, x, Order) = updateDisconnectStatus(x, t)
<1> DEFINE N == Len(Order)
           z == updateDisconnectStatus(x, t)
           Is(h) == h = [n \in 0 .. N |-> IF n = 0 THEN x
                                         ELSE CHOOSE w \in {updateDisconnectStatus(y, Order[n]) : y \in {h[n - 1]}} : TRUE]
           g == [n \in 0 .. N |-> IF n <= t THEN x ELSE z]
           h == CHOOSE h : Is(h)
<1>1. N \in Nat /\ t \in 0 .. N - 1 /\ \A n \in 1 .. N : Order[n] = n - 1 /\ Order[n] \in Players
  BY Numbers, PlayersAssumption, OrderIs DEF Order
<1>2. InTurn(updateDisconnectStatus, x, Order) = h[N]
  BY DEF InTurn, Of
<1> HIDE DEF N
<1>3. Is(g)
  <2>1. ASSUME NEW n \in 0 .. N
        PROVE  g[n] = IF n = 0 THEN x ELSE CHOOSE w \in {updateDisconnectStatus(y, Order[n]) : y \in {g[n - 1]}} : TRUE
    <3>1. CASE n = 0
      BY <1>1, <3>1
    <3>2. CASE n # 0
      <4>1. n \in 1 .. N /\ n - 1 \in 0 .. N /\ Order[n] = n - 1 /\ Order[n] \in Players
        BY <1>1, <3>2
      <4>2. g[n - 1] = (IF n - 1 <= t THEN x ELSE z) /\ g[n] = (IF n <= t THEN x ELSE z)
        BY <4>1
      <4> HIDE DEF g, z
      <4>3. (CHOOSE w \in {updateDisconnectStatus(y, Order[n]) : y \in {g[n - 1]}} : TRUE)
              = updateDisconnectStatus(g[n - 1], Order[n])
        OBVIOUS
      <4>4. updateDisconnectStatus(g[n - 1], Order[n]) = g[n]
        <5>1. CASE n <= t
          <6>1. g[n - 1] = x /\ g[n] = x /\ Order[n] # t
            BY <1>1, <4>1, <4>2, <5>1
          <6> QED BY <4>1, <6>1, StatusNothing
        <5>2. CASE n = t + 1
          <6>1. g[n - 1] = x /\ g[n] = z /\ Order[n] = t
            BY <1>1, <4>1, <4>2, <5>2
          <6> QED BY <6>1 DEF z
        <5>3. CASE n > t + 1
          <6>1. g[n - 1] = z /\ g[n] = z /\ Order[n] # t
            BY <1>1, <4>1, <4>2, <5>3
          <6>2. z \in Playing(t)
            BY DEF z
          <6> QED BY <4>1, <6>1, <6>2, StatusNothing
        <5> QED BY <1>1, <4>1, <5>1, <5>2, <5>3
      <4> QED BY <3>2, <4>3, <4>4
    <3> QED BY <3>1, <3>2
  <2> QED BY <2>1
<1>4. g[N] = z
  BY <1>1
<1> HIDE DEF g, z
<1>5. Is(h)
  BY <1>3
<1> HIDE DEF h
<1>6. \A n \in 0 .. N : h[n] = g[n]
  <2> DEFINE S == {1}
             d == [n \in 0 .. N |-> IF h[n] = g[n] THEN 1 ELSE 0]
  <2>1. h[0] = g[0]
    BY <1>1, <1>3, <1>5
  <2>2. ASSUME NEW n \in 1 .. N, h[n - 1] = g[n - 1] PROVE h[n] = g[n]
    <3>1. n \in 0 .. N /\ n # 0
      BY <1>1
    <3>2. h[n] = CHOOSE w \in {updateDisconnectStatus(y, Order[n]) : y \in {h[n - 1]}} : TRUE
      BY <1>5, <3>1
    <3>3. g[n] = CHOOSE w \in {updateDisconnectStatus(y, Order[n]) : y \in {g[n - 1]}} : TRUE
      BY <1>3, <3>1
    <3> HIDE DEF Is
    <3> QED BY <2>2, <3>2, <3>3
  <2>3. d[0] \in S /\ \A n \in 1 .. N : d[n - 1] \in S => d[n] \in S
    <3>1. 0 \in 0 .. N /\ \A n \in 1 .. N : n - 1 \in 0 .. N /\ n \in 0 .. N
      BY <1>1
    <3>2. \A n \in 0 .. N : d[n] = (IF h[n] = g[n] THEN 1 ELSE 0)
      OBVIOUS
    <3> HIDE DEF d
    <3> QED BY <2>1, <2>2, <3>1, <3>2
  <2> HIDE DEF d, S
  <2>4. \A n \in 0 .. N : d[n] \in S
    BY ONLY <1>1, <2>3, UpTo
  <2> QED BY <2>4 DEF d, S
<1> QED BY <1>1, <1>2, <1>4, <1>6 DEF z

-----------------------------------------------------------------------------
\* What a step leaves is told by these fields.
Twin(y, z) ==
    /\ Alike(y, z) /\ z.ran = y.ran /\ z.votes = y.votes /\ z.pending = y.pending

LEMMA TwinKept ==
    ASSUME NEW t \in Players, NEW y \in Playing(t), NEW z \in Peer, Twin(y, z)
    PROVE  z \in Playing(t)
<1>1. z.self \in Rest(t) /\ Len(z.ran) = z.frame - 1
  BY PlayingAre DEF Twin, Alike
<1>2. KeptIn(z, t)
  BY PlayingAre DEF Twin, Alike, KeptIn, Known, Own, Ranged, In
<1> QED BY <1>1, <1>2 DEF Playing

LEMMA DueTwin ==
    ASSUME NEW y \in Peer, NEW b \in BOOLEAN
    PROVE  LET z == [y EXCEPT !.due = b] IN z \in Peer /\ Twin(y, z) /\ z.out = y.out /\ z.due = b /\ z.quit = y.quit
BY DEF Peer, Twin, Alike

\* The manager's own step.
Steps(x, y, t) == Idle(x, y, t) \/ Announces(x, y, t) \/ Decides(x, y, t) \/ TurnsOff(x, y, t)

LEMMA TwinSteps ==
    ASSUME NEW t, NEW x, NEW y, NEW z, Twin(y, z), z.out = y.out
    PROVE  /\ Idle(x, y, t) => Idle(x, z, t)
           /\ Announces(x, y, t) => Announces(x, z, t)
           /\ Decides(x, y, t) => Decides(x, z, t)
           /\ TurnsOff(x, y, t) => TurnsOff(x, z, t)
<1>1. /\ z.self = y.self /\ z.quit = y.quit /\ z.frame = y.frame /\ z.leave = y.leave /\ z.decided = y.decided
      /\ z.df = y.df /\ z.dfr = y.dfr /\ z.by = y.by /\ z.ann = y.ann /\ z.hold = y.hold
      /\ z.notified = y.notified /\ z.screen = y.screen /\ z.out = y.out
  BY DEF Twin, Alike
<1>2. \A M : Says(y, M) => Says(z, M)
  BY <1>1 DEF Says
<1>3. Idle(x, y, t) => Idle(x, z, t)
  BY <1>1, <1>2 DEF Idle
<1>4. Announces(x, y, t) => Announces(x, z, t)
  BY <1>1, <1>2 DEF Announces
<1>5. Decides(x, y, t) => Decides(x, z, t)
  BY <1>1, <1>2 DEF Decides
<1>6. TurnsOff(x, y, t) => TurnsOff(x, z, t)
  BY <1>1, <1>2 DEF TurnsOff
<1> QED BY <1>3, <1>4, <1>5, <1>6

\* restartTimeouts and the screen that goes on come before what counts.
Begun(x, y, t) ==
    /\ y.self = x.self /\ y.quit = x.quit /\ y.frame = x.frame /\ y.leave = x.leave /\ y.decided = x.decided /\ y.heard = x.heard
    /\ y.df = x.df /\ y.dfr = x.dfr /\ y.by = x.by /\ y.ann = x.ann
    /\ y.hold = x.hold \/ (x.frame > x.ann /\ y.hold = "none")
    /\ y.notified = x.notified \/ (x.ann = 0 /\ y.notified = 0)
    /\ y.screen = x.screen \/ In(x, t)

LEMMA BegunSteps ==
    ASSUME NEW t \in Players, NEW x \in Peers(t), NEW y \in Peers(t), Begun(x, y, t), NEW z
    PROVE  /\ Behind(x, t) => Behind(y, t)
           /\ Idle(y, z, t) => Idle(x, z, t)
           /\ Announces(y, z, t) => Announces(x, z, t)
           /\ Decides(y, z, t) => Decides(x, z, t)
<1>1. x.frame \in Nat /\ x.ann \in Nat /\ x.frame >= 1 /\ y.out = x.out
  BY PeersAre
<1>2. /\ y.self = x.self /\ y.quit = x.quit /\ y.frame = x.frame /\ y.leave = x.leave /\ y.decided = x.decided
      /\ y.df = x.df /\ y.dfr = x.dfr /\ y.by = x.by /\ y.ann = x.ann /\ y.heard = x.heard
      /\ y.hold = x.hold \/ x.frame > x.ann
      /\ y.notified = x.notified \/ (x.ann = 0 /\ y.notified = 0)
      /\ y.screen = x.screen \/ In(x, t)
  BY DEF Begun
<1>3. Behind(x, t) => Behind(y, t)
  BY <1>2 DEF Behind, In
<1>4. Idle(y, z, t) => Idle(x, z, t)
  BY <1>1, <1>2 DEF Idle, In, Noticed
<1>5. Announces(y, z, t) => Announces(x, z, t)
  BY <1>1, <1>2 DEF Announces, In, Announced
<1>6. Decides(y, z, t) => Decides(x, z, t)
  <2>1. Announced(y) = Announced(x) /\ Dropping(y, t) = Dropping(x, t) /\ (In(y, t) <=> In(x, t))
    BY <1>2 DEF In, Announced, Dropping
  <2> QED BY <1>2, <2>1 DEF Decides
<1> QED BY <1>3, <1>4, <1>5, <1>6

LEMMA RestartKept ==
    ASSUME NEW t \in Players, NEW x \in Peers(t)
    PROVE  LET y == restartTimeouts(x) IN y \in Peers(t) /\ Begun(x, y, t) /\ y.screen = x.screen /\ y.notified = x.notified
<1> DEFINE y == restartTimeouts(x)
           b == [s \in Players |-> IF x.heard[s] THEN "full" ELSE x.bar[s]]
           h == IF x.frame > x.ann THEN "none" ELSE x.hold
<1> SUFFICES y \in Peers(t) /\ Begun(x, y, t) /\ y.screen = x.screen /\ y.notified = x.notified
  OBVIOUS
<1>1. x \in Peer /\ x.self \in Rest(t) /\ x.self \in Players /\ x.self # t /\ Known(x, t) /\ Own(x, t) /\ Ranged(x)
      /\ x.out = ForAll(<<>>) /\ Len(x.ran) = x.frame - 1 /\ x.frame \in Nat /\ x.ann \in Nat
  BY PeersAre
<1>2. y = [x EXCEPT !.hold = h, !.bar = b] /\ y \in Peer
  BY <1>1, RestartIs DEF Kin
<1>3. \A s \in Players : b[s] = IF x.heard[s] THEN "full" ELSE x.bar[s]
  OBVIOUS
<1>4. (h = x.hold \/ (x.frame > x.ann /\ h = "none")) /\ (x.ann = x.frame => h = x.hold)
  BY <1>1
<1> HIDE DEF y, b, h
<1>5. /\ y.self = x.self /\ y.quit = x.quit /\ y.frame = x.frame /\ y.ran = x.ran /\ y.leave = x.leave /\ y.heard = x.heard
      /\ y.bar = b /\ y.screen = x.screen /\ y.votes = x.votes /\ y.df = x.df /\ y.dfr = x.dfr /\ y.by = x.by
      /\ y.ann = x.ann /\ y.hold = h /\ y.notified = x.notified /\ y.decided = x.decided
      /\ y.pending = x.pending /\ y.out = x.out
  BY <1>1, <1>2 DEF Peer
<1>6. Known(y, t)
  BY <1>1, <1>3, <1>5, RestIs DEF Known
<1>7. Own(y, t)
  BY <1>1, <1>3, <1>4, <1>5 DEF Own, In
<1>8. Begun(x, y, t)
  BY <1>4, <1>5 DEF Begun
<1>9. KeptIn(y, t)
  BY <1>1, <1>5, <1>6, <1>7 DEF KeptIn, Ranged
<1>10. y \in Peers(t)
  BY <1>1, <1>2, <1>5, <1>9 DEF Peers, Playing
<1> QED BY <1>5, <1>8, <1>10

\* The screen of a peer that is told nothing by t goes on.
LEMMA TurnOnKept ==
    ASSUME NEW t \in Players, NEW x \in Peers(t), In(x, t), ~x.heard[t], ~x.screen
    PROVE  LET y == turnOnScreen(x) IN y \in Peers(t) /\ Begun(x, y, t) /\ Silenced(y, t)
<1> DEFINE y == turnOnScreen(x)
           b == ForAll("full")
<1> SUFFICES y \in Peers(t) /\ Begun(x, y, t) /\ Silenced(y, t)
  OBVIOUS
<1>1. x \in Peer /\ x.self \in Rest(t) /\ x.self \in Players /\ x.self # t /\ Known(x, t) /\ Own(x, t) /\ Ranged(x)
      /\ x.out = ForAll(<<>>) /\ Len(x.ran) = x.frame - 1
  BY PeersAre
<1>2. y = [x EXCEPT !.screen = TRUE, !.bar = b, !.notified = 0]
  BY DEF turnOnScreen
<1>3. (\A s \in Players : b[s] = "full") /\ b \in [Players -> {"full", "low", "out"}] /\ 0 \in Stand
  BY Numbers DEF ForAll, Stand
<1> HIDE DEF y, b
<1>4. /\ y.self = x.self /\ y.quit = x.quit /\ y.frame = x.frame /\ y.ran = x.ran /\ y.leave = x.leave /\ y.heard = x.heard
      /\ y.bar = b /\ y.screen = TRUE /\ y.votes = x.votes /\ y.df = x.df /\ y.dfr = x.dfr /\ y.by = x.by
      /\ y.ann = x.ann /\ y.hold = x.hold /\ y.notified = 0 /\ y.decided = x.decided
      /\ y.pending = x.pending /\ y.out = x.out /\ y \in Peer
  BY <1>1, <1>2, <1>3 DEF Peer
<1>5. Known(y, t)
  BY <1>1, <1>3, <1>4, RestIs DEF Known
<1>6. x.ann = 0
  BY <1>1 DEF Own
<1>7. Own(y, t)
  BY <1>1, <1>3, <1>4 DEF Own, In
<1>8. Begun(x, y, t) /\ Silenced(y, t)
  BY <1>4, <1>6 DEF Begun, Silenced, In
<1> QED BY <1>1, <1>4, <1>5, <1>7, <1>8 DEF Peers, Playing, KeptIn, Ranged

\* The screen goes off once the slot is dropped.
LEMMA TurnOffKept ==
    ASSUME NEW t \in Players, NEW x \in Peers(t), ~In(x, t), x.screen
    PROVE  LET y == turnOffScreen(x) IN y \in Playing(t) /\ TurnsOff(x, y, t) /\ y.leave = x.leave
<1> DEFINE y == turnOffScreen(x)
           m == OffCommand(x)
           o == PostOut(x, Others(x), m)
           n == ForAll(FALSE)
<1> SUFFICES y \in Playing(t) /\ TurnsOff(x, y, t) /\ y.leave = x.leave
  OBVIOUS
<1>1. x \in Peer /\ x.self \in Rest(t) /\ x.self \in Players /\ x.self # t /\ Known(x, t) /\ Own(x, t) /\ Ranged(x)
      /\ x.out = ForAll(<<>>) /\ Len(x.ran) = x.frame - 1
  BY PeersAre
<1>2. y \in Peer /\ m \in Message /\ \E v \in Fewer(x.votes), h \in {x.hold, IF x.hold = "held" THEN "released" ELSE x.hold} :
        y = [x EXCEPT !.screen = FALSE, !.dfr = n, !.votes = v, !.out = o, !.hold = h]
  BY <1>1, ScreenOffIs DEF Kin
<1> HIDE DEF y, o, m, n
<1>3. PICK v \in Fewer(x.votes), h \in {x.hold, IF x.hold = "held" THEN "released" ELSE x.hold} :
        y = [x EXCEPT !.screen = FALSE, !.dfr = n, !.votes = v, !.out = o, !.hold = h]
  BY <1>2
<1>4. /\ y.self = x.self /\ y.quit = x.quit /\ y.frame = x.frame /\ y.ran = x.ran /\ y.leave = x.leave /\ y.heard = x.heard
      /\ y.bar = x.bar /\ y.screen = FALSE /\ y.votes = v /\ y.df = x.df /\ y.dfr = n /\ y.by = x.by
      /\ y.ann = x.ann /\ y.hold = h /\ y.notified = x.notified /\ y.decided = x.decided
      /\ y.pending = x.pending /\ y.out = o
  BY <1>1, <1>3 DEF Peer
<1>5. \A a, b \in Players : v[a][b] \in {x.votes[a][b], 0}
  BY DEF Fewer
<1>6. \A s \in Players : ~n[s]
  BY DEF n, ForAll
<1>7. Known(y, t)
  BY <1>1, <1>4, <1>5, RestIs DEF Known
<1>8. Own(y, t)
  <2>1. h = x.hold \/ (x.hold = "held" /\ h = "released")
    OBVIOUS
  <2> QED BY <1>1, <1>4, <1>6, <2>1 DEF Own, In
<1>9. Says(y, {m})
  <2>1. ASSUME NEW b \in Players PROVE AllOf(o[b], {m}) /\ (b = x.self => AllOf(o[b], Echo))
    <3>1. x \in Playing(t) /\ x.out[b] = <<>>
      BY <1>1 DEF Peers, ForAll
    <3>2. o[b] = x.out[b] \/ (b # x.self /\ o[b] = Append(x.out[b], m))
      BY <1>2, <3>1, PostTells DEF o
    <3>3. o[b] = <<>> \/ (b # x.self /\ o[b] = <<m>>)
      BY <3>1, <3>2
    <3> QED BY <3>3 DEF AllOf
  <2> QED BY <1>1, <1>4, <2>1 DEF Says
<1>10. TurnsOff(x, y, t)
  BY <1>4, <1>9 DEF TurnsOff, m, n
<1> QED BY <1>1, <1>2, <1>4, <1>7, <1>8, <1>10, ZenonT(30) DEF Playing, KeptIn, Ranged

LEMMA SwitchKept ==
    ASSUME NEW t \in Players, NEW x \in Peers(t)
    PROVE  LET y == switchScreen(x)
           IN  \/ y = x /\ ~x.screen /\ (~In(x, t) \/ x.heard[t])
               \/ ~In(x, t) /\ y \in Playing(t) /\ TurnsOff(x, y, t) /\ y.leave = x.leave
               \/ y \in Peers(t) /\ Begun(x, y, t) /\ Silenced(y, t)
<1> DEFINE y == switchScreen(x)
<1> SUFFICES \/ y = x /\ ~x.screen /\ (~In(x, t) \/ x.heard[t])
             \/ ~In(x, t) /\ y \in Playing(t) /\ TurnsOff(x, y, t) /\ y.leave = x.leave
             \/ y \in Peers(t) /\ Begun(x, y, t) /\ Silenced(y, t)
  OBVIOUS
<1>1. x \in Peer /\ x.self # t /\ x.self \in Players /\ Known(x, t) /\ Own(x, t)
  BY PeersAre
<1>2. Others(x) \subseteq Players /\ (\A s \in Others(x) : s # t => x.heard[s]) /\ (t \in Others(x) <=> In(x, t))
  BY <1>1 DEF Others, Connected, In, Known, Rest
<1>3. CASE ~In(x, t)
  <2>1. \A s \in Others(x) : x.heard[s]
    BY <1>2, <1>3
  <2>2. y = turnOffScreen(x)
    BY <2>1 DEF switchScreen
  <2>3. ~x.screen => turnOffScreen(x) = x
    BY <1>1, ScreenOffIs
  <2> HIDE DEF y
  <2> QED BY <1>3, <2>2, <2>3, TurnOffKept
<1>4. CASE In(x, t) /\ x.heard[t]
  <2>1. \A s \in Others(x) : x.heard[s]
    BY <1>2, <1>4
  <2>2. y = turnOffScreen(x)
    BY <2>1 DEF switchScreen
  <2>3. ~x.screen => turnOffScreen(x) = x
    BY <1>1, ScreenOffIs
  <2>4. ~x.screen
    BY <1>1, <1>4 DEF Own
  <2> HIDE DEF y
  <2> QED BY <1>4, <2>2, <2>3, <2>4
<1>5. CASE In(x, t) /\ ~x.heard[t]
  <2>1. ~\A s \in Others(x) : x.heard[s]
    BY <1>2, <1>5
  <2>2. y = IF x.screen THEN x ELSE turnOnScreen(x)
    BY <2>1 DEF switchScreen
  <2>3. CASE x.screen
    BY <1>5, <2>2, <2>3 DEF Begun, Silenced
  <2>4. CASE ~x.screen
    <3>1. y = turnOnScreen(x)
      BY <2>2, <2>4
    <3> HIDE DEF y
    <3> QED BY <1>5, <2>4, <3>1, TurnOnKept
  <2> QED BY <2>3, <2>4
<1> QED BY <1>3, <1>4, <1>5

\* What update does of a peer other than t.
LEMMA UpdateKept ==
    ASSUME NEW t \in Players, NEW x \in Peers(t), Behind(x, t)
    PROVE  LET y == update(x)
           IN  /\ y \in Playing(t) /\ Steps(x, y, t)
               /\ In(y, t) \/ ~y.screen \/ Decides(x, y, t)
<1>1. x \in Peer /\ x.pending = <<>> /\ Own(x, t)
  BY PeersAre DEF Own
<1>2. PICK a, b, c, d \in Peer :
              /\ a = applyPendingDrops(x) /\ b = restartTimeouts(a) /\ c = switchScreen(b)
              /\ d = (IF c.screen THEN InTurn(updateDisconnectStatus, c, Order) ELSE c)
              /\ update(x) = [d EXCEPT !.due = FALSE]
  BY <1>1, UpdateIs
<1>3. a = x
  BY <1>1, <1>2, NoDropWaits
<1>4. b \in Peers(t) /\ Begun(x, b, t) /\ b.screen = x.screen /\ b.notified = x.notified
  BY <1>2, <1>3, RestartKept
<1>5. In(b, t) <=> In(x, t)
  BY <1>4 DEF Begun, In
<1>6. d \in Playing(t) /\ Steps(x, d, t) /\ (In(d, t) \/ ~d.screen \/ Decides(x, d, t))
  <2>1. CASE c = b /\ ~b.screen /\ (~In(b, t) \/ b.heard[t])
    <3>1. d = b
      BY <1>2, <2>1
    <3>2. Idle(b, b, t)
      <4>1. Says(b, Plain(t))
        BY <1>4, Silent
      <4> QED BY <4>1 DEF Idle
    <3>3. Idle(x, d, t)
      BY <1>4, <3>1, <3>2, BegunSteps
    <3> QED BY <1>4, <2>1, <3>1, <3>3 DEF Peers, Steps
  <2>2. CASE ~In(b, t) /\ c \in Playing(t) /\ TurnsOff(b, c, t) /\ c.leave = b.leave
    <3>1. d = c
      BY <1>2, <2>2 DEF TurnsOff
    <3>2. TurnsOff(x, c, t)
      <4>1. /\ b.frame = x.frame /\ b.leave = x.leave /\ b.decided = x.decided /\ b.df = x.df /\ b.dfr = x.dfr
            /\ b.by = x.by /\ b.ann = x.ann /\ b.screen = x.screen
        BY <1>4 DEF Begun
      <4>2. OffCommand(b) = OffCommand(x)
        BY <4>1 DEF OffCommand, Opened
      <4> QED BY <1>5, <2>2, <4>1, <4>2 DEF TurnsOff
    <3> QED BY <2>2, <3>1, <3>2 DEF TurnsOff, Steps
  <2>3. CASE c \in Peers(t) /\ Begun(b, c, t) /\ Silenced(c, t)
    <3>1. c.screen
      BY <2>3 DEF Silenced
    <3>2. Behind(c, t)
      BY <1>4, <2>3, BegunSteps
    <3> DEFINE z == updateDisconnectStatus(c, t)
    <3>3. z \in Playing(t) /\ (Idle(c, z, t) \/ Announces(c, z, t) \/ Decides(c, z, t))
      BY <2>3, <3>2, StatusKept
    <3>4. c \in Playing(t)
      BY <2>3 DEF Peers
    <3>5. d = z
      BY <1>2, <3>1, <3>3, <3>4, LoopIs
    <3> HIDE DEF z
    <3>6. Idle(x, z, t) \/ Announces(x, z, t) \/ Decides(x, z, t)
      <4>1. Idle(b, z, t) \/ Announces(b, z, t) \/ Decides(b, z, t)
        BY <1>4, <2>3, <3>3, BegunSteps
      <4> QED BY <1>4, <4>1, BegunSteps
    <3>7. In(z, t) \/ Decides(x, z, t)
      <4>1. In(x, t)
        BY <1>5, <2>3 DEF Begun, In, Silenced
      <4> QED BY <3>6, <4>1 DEF In, Idle, Announces
    <3> QED BY <3>3, <3>5, <3>6, <3>7 DEF Steps
  <2> QED BY <1>2, <1>4, <2>1, <2>2, <2>3, SwitchKept
<1>7. d \in Peer /\ update(x) \in Peer /\ Twin(d, update(x)) /\ update(x).out = d.out
  <2> DEFINE z == [d EXCEPT !.due = FALSE]
  <2>1. z \in Peer /\ Twin(d, z) /\ z.out = d.out
    BY DueTwin
  <2> QED BY <1>2, <2>1
<1>8. update(x) \in Playing(t)
  BY <1>6, <1>7, TwinKept
<1>9. Steps(x, update(x), t)
  BY <1>6, <1>7, TwinSteps DEF Steps
<1>10. In(update(x), t) \/ ~update(x).screen \/ Decides(x, update(x), t)
  BY <1>6, <1>7, TwinSteps DEF In, Twin, Alike
<1> QED BY <1>8, <1>9, <1>10

-----------------------------------------------------------------------------
\* The other steps of a peer.

LEMMA SilenceKept ==
    ASSUME NEW t \in Players, NEW x \in Peers(t)
    PROVE  LET y == [x EXCEPT !.heard[t] = FALSE] IN In(x, t) => y \in Playing(t) /\ Idle(x, y, t)
<1> DEFINE h == [x.heard EXCEPT ![t] = FALSE]
           y == [x EXCEPT !.heard = h]
<1> SUFFICES ASSUME In(x, t) PROVE y \in Playing(t) /\ Idle(x, y, t)
  OBVIOUS
<1>1. x \in Peer /\ x.self \in Rest(t) /\ x.self \in Players /\ x.self # t /\ Known(x, t) /\ Own(x, t) /\ Ranged(x)
      /\ x.out = ForAll(<<>>) /\ Len(x.ran) = x.frame - 1
  BY PeersAre
<1>2. h \in [Players -> BOOLEAN] /\ \A q \in Rest(t) : h[q] = x.heard[q]
  BY <1>1 DEF Peer, Rest
<1>3. ~h[t]
  BY <1>1 DEF Peer
<1> HIDE DEF h
<1>4. /\ y.self = x.self /\ y.quit = x.quit /\ y.frame = x.frame /\ y.ran = x.ran /\ y.leave = x.leave /\ y.heard = h
      /\ y.bar = x.bar /\ y.screen = x.screen /\ y.votes = x.votes /\ y.df = x.df /\ y.dfr = x.dfr /\ y.by = x.by
      /\ y.ann = x.ann /\ y.hold = x.hold /\ y.notified = x.notified /\ y.decided = x.decided
      /\ y.pending = x.pending /\ y.out = x.out /\ y \in Peer
  BY <1>1, <1>2 DEF Peer
<1> HIDE DEF y
<1>5. Known(y, t)
  BY <1>1, <1>2, <1>4 DEF Known
<1>6. Own(y, t)
  BY <1>1, <1>3, <1>4 DEF Own, In
<1>7. Says(y, Plain(t))
  BY <1>4, Silent
<1> QED BY <1>1, <1>4, <1>5, <1>6, <1>7 DEF Playing, KeptIn, Ranged, Idle

LEMMA AgeKept ==
    ASSUME NEW t \in Players, NEW x \in Peers(t), Silenced(x, t), NEW v \in {"full", "low", "out"}
    PROVE  LET y == [x EXCEPT !.bar[t] = v] IN y \in Playing(t) /\ Idle(x, y, t)
<1> DEFINE b == [x.bar EXCEPT ![t] = v]
           y == [x EXCEPT !.bar = b]
<1> SUFFICES y \in Playing(t) /\ Idle(x, y, t)
  OBVIOUS
<1>1. x \in Peer /\ x.self \in Rest(t) /\ x.self \in Players /\ x.self # t /\ Known(x, t) /\ Own(x, t) /\ Ranged(x)
      /\ x.out = ForAll(<<>>) /\ Len(x.ran) = x.frame - 1
  BY PeersAre
<1>2. b \in [Players -> {"full", "low", "out"}] /\ \A q \in Rest(t) : b[q] = x.bar[q]
  BY <1>1 DEF Peer, Rest
<1> HIDE DEF b
<1>4. /\ y.self = x.self /\ y.quit = x.quit /\ y.frame = x.frame /\ y.ran = x.ran /\ y.leave = x.leave /\ y.heard = x.heard
      /\ y.bar = b /\ y.screen = x.screen /\ y.votes = x.votes /\ y.df = x.df /\ y.dfr = x.dfr /\ y.by = x.by
      /\ y.ann = x.ann /\ y.hold = x.hold /\ y.notified = x.notified /\ y.decided = x.decided
      /\ y.pending = x.pending /\ y.out = x.out /\ y \in Peer
  BY <1>1, <1>2 DEF Peer
<1> HIDE DEF y
<1>5. Known(y, t)
  BY <1>1, <1>2, <1>4 DEF Known
<1>6. Own(y, t)
  BY <1>1, <1>4 DEF Own, In, Silenced
<1>7. Says(y, Plain(t))
  BY <1>4, Silent
<1> QED BY <1>1, <1>4, <1>5, <1>6, <1>7 DEF Playing, KeptIn, Ranged, Idle

\* An announcement that was released is to be made again.
Reopens(x, y, t) ==
    /\ x.hold = "released"
    /\ y.frame = x.frame /\ y.leave = x.leave /\ y.decided = x.decided
    /\ y.df = x.df /\ y.dfr = x.dfr /\ y.by = x.by /\ y.ann = x.ann
    /\ y.hold = x.hold /\ y.notified = 0 /\ y.screen = x.screen
    /\ y.out = x.out

LEMMA RepeatKept ==
    ASSUME NEW t \in Players, NEW x \in Peers(t), x.hold = "released"
    PROVE  LET y == [x EXCEPT !.notified = 0] IN y \in Playing(t) /\ Reopens(x, y, t)
<1> DEFINE y == [x EXCEPT !.notified = 0]
<1> SUFFICES y \in Playing(t) /\ Reopens(x, y, t)
  OBVIOUS
<1>1. x \in Peer /\ x.self \in Rest(t) /\ x.self \in Players /\ Known(x, t) /\ Own(x, t) /\ Ranged(x)
      /\ x.out = ForAll(<<>>) /\ Len(x.ran) = x.frame - 1
  BY PeersAre
<1>2. 0 \in Stand
  BY Numbers DEF Stand
<1>4. /\ y.self = x.self /\ y.quit = x.quit /\ y.frame = x.frame /\ y.ran = x.ran /\ y.leave = x.leave /\ y.heard = x.heard
      /\ y.bar = x.bar /\ y.screen = x.screen /\ y.votes = x.votes /\ y.df = x.df /\ y.dfr = x.dfr /\ y.by = x.by
      /\ y.ann = x.ann /\ y.hold = x.hold /\ y.notified = 0 /\ y.decided = x.decided
      /\ y.pending = x.pending /\ y.out = x.out /\ y \in Peer
  BY <1>1, <1>2 DEF Peer
<1> HIDE DEF y
<1>5. Known(y, t) /\ Own(y, t) /\ Ranged(y)
  BY <1>1, <1>4 DEF Known, Own, In, Ranged
<1>6. Reopens(x, y, t)
  BY <1>4 DEF Reopens
<1> QED BY <1>1, <1>4, <1>5, <1>6 DEF Playing, KeptIn

LEMMA KickKept ==
    ASSUME NEW t \in Players, NEW x \in Peers(t), Silenced(x, t)
    PROVE  LET y == voteForPlayerDisconnect(x, t) IN y \in Playing(t) /\ Idle(x, y, t)
<1> DEFINE y == voteForPlayerDisconnect(x, t)
<1>1. x \in Playing(t) /\ Quiet(x)
  BY DEF Peers, Quiet
<1>2. y \in Playing(t) /\ Alike(x, y) /\ Says(y, Plain(t))
  BY <1>1, VoteKept
<1> HIDE DEF y
<1>3. Idle(x, y, t)
  BY <1>2 DEF Idle, Alike, Silenced, Noticed
<1> QED BY <1>2, <1>3 DEF y

\* The next frame: the announced one only after another peer got further.
Runs(x, y, t) ==
    /\ ~x.due
    /\ x.hold = "held" /\ x.frame = x.ann => \E i \in Rest(t) \ {x.self} : x.df[i] > x.frame
    /\ y.frame = x.frame + 1
    /\ y.leave = x.leave /\ y.decided = x.decided /\ y.df = x.df /\ y.dfr = x.dfr /\ y.by = x.by
    /\ y.ann = x.ann /\ y.hold = x.hold /\ y.notified = x.notified /\ y.screen = x.screen
    /\ Says(y, FrameInfo)

LEMMA RunKept ==
    ASSUME NEW t \in Players, NEW x \in Peers(t), ~x.due, allowedToContinue(x), RanFrame(x) \in Peer,
           Len(RanFrame(x).ran) = RanFrame(x).frame - 1, NEW m \in FrameInfo
    PROVE  LET y == Post(RanFrame(x), Others(RanFrame(x)), m) IN y \in Playing(t) /\ Runs(x, y, t)
<1> DEFINE n == RanFrame(x)
           o == PostOut(n, Others(n), m)
           y == Post(n, Others(n), m)
           s == {q \in Players : x.frame < x.leave[q]}
<1> SUFFICES y \in Playing(t) /\ Runs(x, y, t)
  OBVIOUS
<1>1. x \in Peer /\ x.self \in Rest(t) /\ x.self \in Players /\ x.self # t /\ Known(x, t) /\ Own(x, t) /\ Ranged(x)
      /\ x.out = ForAll(<<>>) /\ Len(x.ran) = x.frame - 1 /\ x.frame \in Nat /\ x.frame >= 1
      /\ x.ann \in Nat /\ x.ann <= x.frame
  BY PeersAre
<1>2. n \in Peer /\ Len(n.ran) = n.frame - 1 /\ m \in Message
  BY DEF Message
<1>3. /\ n.self = x.self /\ n.quit = x.quit /\ n.frame = x.frame + 1 /\ n.ran = Append(x.ran, s) /\ n.leave = x.leave /\ n.heard = x.heard
      /\ n.bar = x.bar /\ n.screen = x.screen /\ n.votes = x.votes /\ n.df = x.df /\ n.dfr = x.dfr /\ n.by = x.by
      /\ n.ann = x.ann /\ n.hold = x.hold /\ n.notified = x.notified /\ n.decided = x.decided
      /\ n.pending = x.pending /\ n.out = x.out
  BY <1>1 DEF RanFrame, Peer
<1> HIDE DEF n, s
<1>4. y = [n EXCEPT !.out = o] /\ y \in Peer
  BY <1>2, PostIs DEF Kin
<1> HIDE DEF y, o
<1>5. /\ y.self = x.self /\ y.quit = x.quit /\ y.frame = x.frame + 1 /\ y.ran = Append(x.ran, s) /\ y.leave = x.leave /\ y.heard = x.heard
      /\ y.bar = x.bar /\ y.screen = x.screen /\ y.votes = x.votes /\ y.df = x.df /\ y.dfr = x.dfr /\ y.by = x.by
      /\ y.ann = x.ann /\ y.hold = x.hold /\ y.notified = x.notified /\ y.decided = x.decided
      /\ y.pending = x.pending /\ y.out = o
  BY <1>2, <1>3, <1>4 DEF Peer
<1>6. Known(y, t)
  BY <1>1, <1>5 DEF Known
<1>7. Own(y, t)
  BY <1>1, <1>5 DEF Own, In
<1>8. Ranged(y)
  <2>1. x.ran \in Seq(SUBSET Players)
    BY <1>1 DEF Peer
  <2>2. ASSUME NEW f \in 1 .. y.frame - 1 PROVE y.ran[f] = {q \in Players : f < y.leave[q]}
    <3>1. f \in 1 .. x.frame
      BY <1>1, <1>5
    <3>2. CASE f = x.frame
      <4>1. y.ran[f] = s
        BY <1>1, <1>5, <2>1, <3>2
      <4> QED BY <1>5, <3>2, <4>1 DEF s
    <3>3. CASE f # x.frame
      <4>1. f \in 1 .. x.frame - 1 /\ f \in 1 .. Len(x.ran)
        BY <1>1, <3>1, <3>3
      <4>2. y.ran[f] = x.ran[f]
        BY <1>5, <2>1, <4>1
      <4> QED BY <1>1, <1>5, <4>1, <4>2 DEF Ranged
    <3> QED BY <3>2, <3>3
  <2> QED BY <2>2 DEF Ranged
<1>9. Says(y, FrameInfo)
  <2>1. ASSUME NEW b \in Players PROVE AllOf(o[b], FrameInfo) /\ (b = x.self => AllOf(o[b], Echo))
    <3>1. o[b] = IF b \in Others(n) THEN Append(n.out[b], m) ELSE n.out[b]
      BY DEF o, PostOut
    <3>2. n.out[b] = <<>> /\ x.self \notin Others(n)
      BY <1>1, <1>3 DEF ForAll, Others
    <3>3. o[b] = <<>> \/ (b # x.self /\ o[b] = <<m>>)
      BY <3>1, <3>2
    <3> QED BY <3>3 DEF AllOf
  <2> QED BY <1>1, <1>5, <2>1 DEF Says
<1>10. x.hold = "held" /\ x.frame = x.ann => \E i \in Rest(t) \ {x.self} : x.df[i] > x.frame
  <2> SUFFICES ASSUME x.hold = "held", x.frame = x.ann PROVE \E i \in Rest(t) \ {x.self} : x.df[i] > x.frame
    OBVIOUS
  <2>1. PICK i \in Others(x) : x.df[i] > x.frame
    BY DEF allowedToContinue
  <2>2. x.df[t] = 0
    BY <1>1 DEF Own
  <2>3. i # t
    BY <1>1, <2>1, <2>2
  <2> QED BY <2>1, <2>3 DEF Others, Rest
<1>11. Runs(x, y, t)
  BY <1>5, <1>9, <1>10 DEF Runs
<1>12. Len(y.ran) = y.frame - 1
  BY <1>2, <1>3, <1>5
<1> QED BY <1>1, <1>4, <1>5, <1>6, <1>7, <1>8, <1>11, <1>12 DEF Playing, KeptIn

\* A command that arrives.
Ignored(x, c, q, t) ==
    /\ c \notin ScreenOff
    /\ c \in Announcement => x.df[q] > c.frame \/ (x.df[q] = c.frame /\ x.dfr[q])
    /\ c \in DropCommand => ~(In(x, t) /\ x.by[Router(t)] >= c.frame /\ x.ann = c.frame /\ c.frame >= x.frame)

Gets(x, y, t, q, c) ==
    \/ Idle(x, y, t) /\ Ignored(x, c, q, t)
    \/ c \in Announcement /\ q \in Rest(t) \ {x.self} /\ Notes(x, y, t, q, c.frame)
    \/ c \in ScreenOff /\ q \in Rest(t) \ {x.self} /\ HearsOff(x, y, t, q, c)
    \/ c \in DropCommand /\ q = Router(t) /\ Applies(x, y, t, c)

\* What a stream from q to p carries in such a game.
Carried(c, q, p, t) ==
    /\ q = t \/ p = t => c \in FrameInfo
    /\ q = p => c \in Echo
    /\ c \in Vote => c.target = t
    /\ c \in DropCommand => q = Router(t) /\ c.target = t /\ c.gone = {}

LEMMA TwinGets ==
    ASSUME NEW t, NEW x, NEW y, NEW z, Twin(y, z), z.out = y.out, NEW q, NEW c, Gets(x, y, t, q, c)
    PROVE  Gets(x, z, t, q, c)
<1>1. /\ z.self = y.self /\ z.frame = y.frame /\ z.leave = y.leave /\ z.decided = y.decided
      /\ z.df = y.df /\ z.dfr = y.dfr /\ z.by = y.by /\ z.ann = y.ann /\ z.hold = y.hold
      /\ z.notified = y.notified /\ z.screen = y.screen /\ z.out = y.out
  BY DEF Twin, Alike
<1>2. \A M : Says(y, M) => Says(z, M)
  BY <1>1 DEF Says
<1>3. Idle(x, y, t) => Idle(x, z, t)
  BY TwinSteps
<1>4. \A f : Notes(x, y, t, q, f) => Notes(x, z, t, q, f)
  BY <1>1, <1>2 DEF Notes
<1>5. HearsOff(x, y, t, q, c) => HearsOff(x, z, t, q, c)
  BY <1>1, <1>2 DEF HearsOff
<1>6. Applies(x, y, t, c) => Applies(x, z, t, c)
  BY <1>1, <1>2 DEF Applies
<1> QED BY <1>3, <1>4, <1>5, <1>6 DEF Gets

LEMMA KindsOfMessage ==
    /\ FrameInfo \cap (Announcement \cup DropCommand \cup ScreenOff \cup Vote \cup Resend) = {}
    /\ Resend \cap (Announcement \cup DropCommand \cup ScreenOff \cup Vote) = {}
    /\ Vote \cap (Announcement \cup DropCommand \cup ScreenOff) = {}
    /\ Announcement \cap (DropCommand \cup ScreenOff) = {} /\ DropCommand \cap ScreenOff = {}
BY DEF FrameInfo, Resend, Vote, Announcement, DropCommand, ScreenOff

LEMMA ReceiveKept ==
    ASSUME NEW t \in Players, NEW x \in Peers(t), NEW q \in Players, NEW c \in Message, x.heard[q], Carried(c, q, x.self, t)
    PROVE  LET y == [file([x EXCEPT !.heard[q] = TRUE], q, c) EXCEPT !.due = TRUE]
           IN  y \in Playing(t) /\ y.due /\ Gets(x, y, t, q, c)
<1> DEFINE z == file(x, q, c)
<1>1. x \in Peer /\ x.self \in Rest(t) /\ x.self \in Players /\ x.self # t /\ Len(x.ran) = x.frame - 1
  BY PeersAre
<1>2. [x EXCEPT !.heard[q] = TRUE] = x
  <2>1. [x.heard EXCEPT ![q] = TRUE] = x.heard
    BY <1>1 DEF Peer
  <2>2. [x EXCEPT !.heard = x.heard] = x
    BY <1>1 DEF Peer
  <2> QED BY <2>1, <2>2
<1>3. z \in Filed(x)
  BY <1>1, FileIsFiled
<1>4. z \in Peer /\ z.self = x.self /\ Len(z.ran) = z.frame - 1
  BY <1>1, <1>3 DEF Filed
<1>5. KeptIn(z, t) /\ Gets(x, z, t, q, c)
  <2> HIDE DEF z
  <2>1. CASE c \in FrameInfo \cup Resend \cup Vote
    <3>1. c \in Plain(t) /\ (c.type = "DISCONNECTVOTE" => q # x.self /\ q # t)
      <4>1. CASE c \in FrameInfo \cup Resend
        BY <4>1 DEF Plain, FrameInfo, Resend
      <4>2. CASE c \in Vote
        <5>1. c \notin FrameInfo /\ c \notin Echo
          BY <4>2, KindsOfMessage DEF Echo
        <5> QED BY <4>2, <5>1 DEF Plain, Vote, Carried
      <4> QED BY <2>1, <4>1, <4>2
    <3>2. Idle(x, z, t) /\ KeptIn(z, t)
      BY <3>1, FileIdle DEF z
    <3>3. Ignored(x, c, q, t)
      BY <2>1, KindsOfMessage DEF Ignored
    <3> QED BY <3>2, <3>3 DEF Gets
  <2>2. CASE c \in Announcement
    <3>1. c \notin FrameInfo /\ c \notin Echo /\ c \notin ScreenOff /\ c \notin DropCommand
      BY <2>2, KindsOfMessage DEF Echo
    <3>2. q \in Rest(t) /\ q # x.self
      BY <3>1 DEF Carried, Rest
    <3>3. /\ KeptIn(z, t)
          /\ x.df[q] > c.frame \/ (x.df[q] = c.frame /\ x.dfr[q]) => Idle(x, z, t)
          /\ ~(x.df[q] > c.frame \/ (x.df[q] = c.frame /\ x.dfr[q])) => Notes(x, z, t, q, c.frame)
      BY <2>2, <3>2, FileNotes DEF z
    <3> QED BY <2>2, <3>1, <3>2, <3>3 DEF Gets, Ignored
  <2>3. CASE c \in ScreenOff
    <3>1. c \notin FrameInfo /\ c \notin Echo
      BY <2>3, KindsOfMessage DEF Echo
    <3>2. q \in Rest(t) /\ q # x.self
      BY <3>1 DEF Carried, Rest
    <3>3. KeptIn(z, t) /\ HearsOff(x, z, t, q, c)
      BY <2>3, <3>2, FileHearsOff DEF z
    <3> QED BY <2>3, <3>2, <3>3 DEF Gets
  <2>4. CASE c \in DropCommand
    <3>1. c \notin Announcement /\ c \notin ScreenOff
      BY <2>4, KindsOfMessage
    <3>2. q = Router(t) /\ c.target = t /\ c.gone = {}
      BY <2>4 DEF Carried
    <3>3. /\ KeptIn(z, t) /\ (Idle(x, z, t) \/ Applies(x, z, t, c))
          /\ In(x, t) /\ x.by[Router(t)] >= c.frame /\ x.ann = c.frame /\ c.frame >= x.frame => Applies(x, z, t, c)
      BY <2>4, <3>2, FileApplies DEF z
    <3> QED BY <2>4, <3>1, <3>2, <3>3 DEF Gets, Ignored
  <2> QED BY <2>1, <2>2, <2>3, <2>4 DEF Message
<1> DEFINE y == [z EXCEPT !.due = TRUE]
<1>6. y \in Peer /\ Twin(z, y) /\ y.out = z.out /\ y.due = TRUE
  <2> HIDE DEF z
  <2> QED BY <1>4, DueTwin
<1>7. z \in Playing(t)
  BY <1>1, <1>4, <1>5 DEF Playing
<1> HIDE DEF y, z
<1>8. y \in Playing(t) /\ y.due /\ Gets(x, y, t, q, c)
  BY <1>5, <1>6, <1>7, TwinKept, TwinGets
<1> QED BY <1>2, <1>8 DEF y, z

-----------------------------------------------------------------------------
\* A game of such peers.  P holds the peers and N the streams, as peer and net
\* do; t may have stopped, the others are all there and hear each other.

\* What t remembers as long as it lives.
Lone(x) ==
    /\ x.leave = ForAll(Never) /\ x.heard = ForAll(TRUE) /\ ~x.screen /\ x.pending = <<>>
    /\ x.out = ForAll(<<>>) /\ Ranged(x) /\ Len(x.ran) = x.frame - 1 /\ ~x.quit

World(t, P, N) ==
    /\ P \in [Players -> Peer] /\ \A p \in Players : P[p].self = p
    /\ \A p \in Rest(t) : P[p] \in Peers(t)
    /\ Lone(P[t])
    /\ N \in [Players -> [Players -> Seq(Message)]]

Sent(N, a, b) == {N[a][b][k] : k \in 1 .. Len(N[a][b])}

\* What the streams carry, and what its sender stands for.
Fits(t, P, a, b, m) ==
    /\ Carried(m, a, b, t)
    /\ m \in DropCommand => m.frame = P[a].leave[t] /\ ~In(P[a], t)
    /\ m \in Announcement => m.frame <= P[a].ann
    /\ m \in ScreenOff => m.frame <= P[a].frame

Said(t, P, N) == \A a, b \in Players : \A m \in Sent(N, a, b) : Fits(t, P, a, b, m)

\* A record is what its peer announced, which may have gone on since.
Records(t, P) == \A p, q \in Rest(t) :
    /\ P[p].df[q] <= P[q].frame
    /\ P[p].dfr[q] => P[p].df[q] <= P[q].ann

\* The others drop t at the frame the router decided, or not yet.
Leaves(t, P) == \A q \in Rest(t) :
    /\ P[q].leave[t] \in {Never, P[Router(t)].leave[t]}
    /\ P[q].decided # <<>> => q = Router(t)
    /\ \A d \in Decided(P[q]) : d.target = t /\ d.gone = {} /\ d.frame = P[q].leave[t]
    /\ ~In(P[q], t) => P[q].leave[t] <= P[q].frame /\ P[q].leave[t] >= 1

Core(t, P, N) == World(t, P, N) /\ Said(t, P, N) /\ Records(t, P) /\ Leaves(t, P)

\* A step of p that becomes y: Q and M are what it leaves, S the streams
\* without the command it read.
Move(t, P, Q, M, p, y, S) ==
    /\ p \in Rest(t) /\ y \in Playing(t) /\ y.self = p
    /\ S \in [Players -> [Players -> Seq(Message)]]
    /\ Q = [P EXCEPT ![p] = [y EXCEPT !.out = ForAll(<<>>)]]
    /\ M \in [Players -> [Players -> Seq(Message)]]
    /\ \A a, b \in Players :
          LET s == IF a = p THEN S[a][b] \o y.out[b] ELSE S[a][b]
          IN  M[a][b] \in {s, <<>>} /\ (a \in Rest(t) /\ b \in Rest(t) => M[a][b] = s)
    /\ (\E q \in Rest(t) : Noticed(P[q], t)) => \A a \in Players : M[a][t] = <<>> /\ M[t][a] = <<>>

Reads(N, S, q, p) == N[q][p] # <<>> /\ S = [N EXCEPT ![q][p] = Tail(N[q][p])]

Kind(t, P, N, p, y, S) ==
    /\ \/ S = N /\ (Steps(P[p], y, t) \/ Runs(P[p], y, t))
       \/ S = N /\ Reopens(P[p], y, t) /\ \A a, b \in Players : N[a][b] = <<>>
       \/ \E q \in Players : Reads(N, S, q, p) /\ Gets(P[p], y, t, q, Head(N[q][p]))
    /\ y.due \/ In(y, t) \/ ~y.screen \/ Decides(P[p], y, t)

Turn(t, P, N, Q, M, p, y, S) == Core(t, P, N) /\ Move(t, P, Q, M, p, y, S) /\ Kind(t, P, N, p, y, S)

Out(y, b) == {y.out[b][k] : k \in 1 .. Len(y.out[b])}

LEMMA SentHead ==
    ASSUME NEW N \in [Players -> [Players -> Seq(Message)]], NEW S, NEW p \in Players, NEW q \in Players, Reads(N, S, q, p)
    PROVE  /\ Head(N[q][p]) \in Sent(N, q, p) /\ Head(N[q][p]) \in Message
           /\ \A a, b \in Players : Sent(S, a, b) \subseteq Sent(N, a, b)
<1>1. N[q][p] \in Seq(Message) /\ N[q][p] # <<>> /\ S = [N EXCEPT ![q][p] = Tail(N[q][p])]
  BY DEF Reads
<1> DEFINE s == N[q][p]
<1>2. Len(s) \in Nat /\ Len(s) >= 1 /\ Head(s) = s[1] /\ Head(s) \in Message
  BY <1>1
<1>3. Tail(s) \in Seq(Message) /\ Len(Tail(s)) = Len(s) - 1 /\ \A k \in 1 .. Len(Tail(s)) : Tail(s)[k] = s[k + 1]
  BY <1>1
<1>4. Head(s) \in Sent(N, q, p)
  BY <1>2 DEF Sent
<1>5. ASSUME NEW a \in Players, NEW b \in Players PROVE Sent(S, a, b) \subseteq Sent(N, a, b)
  <2>1. CASE a = q /\ b = p
    <3>1. S[a][b] = Tail(s)
      BY <1>1, <2>1
    <3>2. ASSUME NEW k \in 1 .. Len(Tail(s)) PROVE Tail(s)[k] \in Sent(N, q, p)
      <4>1. k + 1 \in 1 .. Len(s)
        BY <1>2, <1>3
      <4> QED BY <1>3, <4>1 DEF Sent
    <3> HIDE DEF s
    <3> QED BY <2>1, <3>1, <3>2 DEF Sent
  <2>2. CASE ~(a = q /\ b = p)
    <3>1. S[a][b] = N[a][b]
      BY <1>1, <2>2
    <3> QED BY <3>1 DEF Sent
  <2> QED BY <2>1, <2>2
<1> QED BY <1>2, <1>4, <1>5

LEMMA MoveIs ==
    ASSUME NEW t \in Players, NEW P, NEW N, NEW Q, NEW M, NEW p, NEW y, NEW S, World(t, P, N), Move(t, P, Q, M, p, y, S)
    PROVE  /\ p \in Rest(t) /\ p \in Players /\ p # t /\ P[p] \in Peers(t) /\ P[p].self = p
           /\ y \in Peer /\ Q[p] \in Peers(t) /\ Alike(y, Q[p]) /\ Q[p].due = y.due
           /\ \A q \in Players \ {p} : Q[q] = P[q]
           /\ World(t, Q, M)
<1>1. p \in Rest(t) /\ p \in Players /\ p # t /\ P[p] \in Peers(t) /\ P[p].self = p /\ P \in [Players -> Peer]
  BY DEF Move, World, Rest
<1>2. y \in Playing(t) /\ y \in Peer /\ y.self = p
  BY PlayingAre DEF Move
<1> DEFINE o == ForAll(<<>>)
           z == [y EXCEPT !.out = o]
<1>3. o \in [Players -> Seq(Message)]
  BY DEF ForAll
<1>4. Q = [P EXCEPT ![p] = z]
  BY DEF Move
<1> HIDE DEF o
<1>5. z \in Peer /\ Twin(y, z) /\ z.out = o /\ z.due = y.due
  BY <1>2, <1>3 DEF Peer, Twin, Alike
<1> HIDE DEF z
<1>6. z \in Peers(t) /\ z.self = p
  <2>1. z \in Playing(t)
    BY <1>2, <1>5, TwinKept
  <2> QED BY <1>2, <1>5, <2>1 DEF Peers, o, Twin, Alike
<1>7. Q[p] = z /\ \A q \in Players \ {p} : Q[q] = P[q]
  BY <1>1, <1>4
<1>8. World(t, Q, M)
  <2>1. Q \in [Players -> Peer]
    BY <1>1, <1>4, <1>5
  <2>2. \A q \in Players : Q[q].self = q
    BY <1>6, <1>7 DEF World
  <2>3. \A q \in Rest(t) : Q[q] \in Peers(t)
    BY <1>6, <1>7 DEF World, Rest
  <2>4. Lone(Q[t])
    BY <1>1, <1>7 DEF World
  <2> QED BY <2>1, <2>2, <2>3, <2>4 DEF World, Move
<1> QED BY <1>1, <1>2, <1>5, <1>6, <1>7, <1>8 DEF Twin

\* One stream after the other, place by place.
LEMMA Joined ==
    ASSUME NEW s \in Seq(Message), NEW u \in Seq(Message)
    PROVE  /\ s \o u \in Seq(Message) /\ Len(s \o u) = Len(s) + Len(u) /\ Len(s) \in Nat /\ Len(u) \in Nat
           /\ \A k \in 1 .. Len(s) : k \in 1 .. Len(s \o u) /\ (s \o u)[k] = s[k]
           /\ \A k \in 1 .. Len(u) : Len(s) + k \in 1 .. Len(s \o u) /\ (s \o u)[Len(s) + k] = u[k]
           /\ \A k \in 1 .. Len(s \o u) : k \in 1 .. Len(s) \/ \E j \in 1 .. Len(u) : k = Len(s) + j
<1> DEFINE v == s \o u
           n == Len(s)
           r == Len(u)
<1>1. v \in Seq(Message) /\ Len(v) = n + r /\ n \in Nat /\ r \in Nat
      /\ \A i \in 1 .. n + r : v[i] = IF i <= n THEN s[i] ELSE u[i - n]
  BY ConcatProperties
<1> HIDE DEF v, n, r
<1>2. \A k \in 1 .. n : k \in 1 .. Len(v) /\ v[k] = s[k]
  BY <1>1
<1>3. ASSUME NEW k \in 1 .. r PROVE n + k \in 1 .. Len(v) /\ v[n + k] = u[k]
  <2>1. n + k \in 1 .. n + r /\ ~(n + k <= n) /\ (n + k) - n = k
    BY <1>1
  <2> QED BY <1>1, <2>1
<1>4. ASSUME NEW k \in 1 .. Len(v) PROVE k \in 1 .. n \/ \E j \in 1 .. r : k = n + j
  <2>1. CASE k <= n
    BY <1>1, <2>1
  <2>2. CASE ~(k <= n)
    <3>1. k - n \in 1 .. r /\ k = n + (k - n)
      BY <1>1, <2>2
    <3> QED BY <3>1
  <2> QED BY <2>1, <2>2
<1> QED BY <1>1, <1>2, <1>3, <1>4 DEF v, n, r

\* The streams after a step carry what they did, and what the step says.
LEMMA SentIs ==
    ASSUME NEW t \in Players, NEW P, NEW N, NEW Q, NEW M, NEW p, NEW y, NEW S, Turn(t, P, N, Q, M, p, y, S),
           NEW a \in Players, NEW b \in Players
    PROVE  Sent(M, a, b) \subseteq Sent(N, a, b) \cup (IF a = p THEN Out(y, b) ELSE {})
<1>1. World(t, P, N) /\ Move(t, P, Q, M, p, y, S) /\ Kind(t, P, N, p, y, S)
  BY DEF Turn, Core
<1>2. p \in Players /\ y \in Peer /\ N \in [Players -> [Players -> Seq(Message)]]
  BY <1>1, PlayingAre DEF World, Move, Rest
<1>3. Sent(S, a, b) \subseteq Sent(N, a, b)
  BY <1>1, <1>2, SentHead DEF Kind
<1>4. S[a][b] \in Seq(Message) /\ y.out[b] \in Seq(Message)
  BY <1>1, <1>2 DEF Move, Peer
<1>5. M[a][b] \in {IF a = p THEN S[a][b] \o y.out[b] ELSE S[a][b], <<>>}
  BY <1>1 DEF Move
<1>6. ASSUME NEW k \in 1 .. Len(S[a][b] \o y.out[b]) PROVE (S[a][b] \o y.out[b])[k] \in Sent(S, a, b) \cup Out(y, b)
  <2> DEFINE s == S[a][b]
             u == y.out[b]
  <2>1. s \in Seq(Message) /\ u \in Seq(Message)
    BY <1>4
  <2>2. (\A i \in 1 .. Len(s) : s[i] \in Sent(S, a, b)) /\ (\A j \in 1 .. Len(u) : u[j] \in Out(y, b))
    BY DEF Sent, Out
  <2>3. k \in 1 .. Len(s \o u)
    OBVIOUS
  <2> HIDE DEF s, u
  <2>4. (s \o u)[k] \in Sent(S, a, b) \cup Out(y, b)
    BY <2>1, <2>2, <2>3, Joined
  <2> QED BY <2>4 DEF s, u
<1>7. CASE M[a][b] = <<>>
  BY <1>7 DEF Sent
<1>8. CASE a = p /\ M[a][b] = S[a][b] \o y.out[b]
  <2>1. Sent(M, a, b) \subseteq Sent(S, a, b) \cup Out(y, b)
    BY <1>6, <1>8 DEF Sent
  <2> QED BY <1>3, <1>8, <2>1
<1>9. CASE a # p /\ M[a][b] = S[a][b]
  BY <1>3, <1>9 DEF Sent
<1> QED BY <1>5, <1>7, <1>8, <1>9


-----------------------------------------------------------------------------
\* The turns of such a game, one by one.

TakesFrame(t, P, N, p, y, S) ==
    \E q \in Rest(t) \ {p} : \E c \in Announcement :
        Reads(N, S, q, p) /\ c = Head(N[q][p]) /\ Notes(P[p], y, t, q, c.frame)

TakesOff(t, P, N, p, y, S) ==
    \E q \in Rest(t) \ {p} : \E c \in ScreenOff :
        Reads(N, S, q, p) /\ c = Head(N[q][p]) /\ HearsOff(P[p], y, t, q, c)

TakesDrop(t, P, N, p, y, S) ==
    \E c \in DropCommand : Reads(N, S, Router(t), p) /\ c = Head(N[Router(t)][p]) /\ Applies(P[p], y, t, c)

Ignores(t, P, N, p, y, S) ==
    \E q \in Players : Reads(N, S, q, p) /\ Idle(P[p], y, t) /\ Ignored(P[p], Head(N[q][p]), q, t)

LEMMA TurnsAre ==
    ASSUME NEW t \in Players, NEW P, NEW N, NEW Q, NEW M, NEW p, NEW y, NEW S, Turn(t, P, N, Q, M, p, y, S)
    PROVE  \/ S = N /\ Idle(P[p], y, t)
           \/ Ignores(t, P, N, p, y, S)
           \/ S = N /\ Announces(P[p], y, t)
           \/ S = N /\ Decides(P[p], y, t)
           \/ S = N /\ TurnsOff(P[p], y, t)
           \/ S = N /\ Runs(P[p], y, t)
           \/ S = N /\ Reopens(P[p], y, t) /\ \A a, b \in Players : N[a][b] = <<>>
           \/ TakesFrame(t, P, N, p, y, S)
           \/ TakesOff(t, P, N, p, y, S)
           \/ TakesDrop(t, P, N, p, y, S)
<1>1. Kind(t, P, N, p, y, S) /\ P[p].self = p
  BY MoveIs DEF Turn, Core
<1>2. ASSUME NEW q \in Players, Reads(N, S, q, p), Gets(P[p], y, t, q, Head(N[q][p]))
      PROVE  \/ Ignores(t, P, N, p, y, S) \/ TakesFrame(t, P, N, p, y, S)
             \/ TakesOff(t, P, N, p, y, S) \/ TakesDrop(t, P, N, p, y, S)
  BY <1>1, <1>2 DEF Gets, Ignores, TakesFrame, TakesOff, TakesDrop
<1> QED BY <1>1, <1>2 DEF Kind, Steps

\* Frames and announcements only rise, and who dropped t did so for good.
LEMMA Rises ==
    ASSUME NEW t \in Players, NEW P, NEW N, NEW Q, NEW M, NEW p, NEW y, NEW S, Turn(t, P, N, Q, M, p, y, S),
           NEW a \in Rest(t)
    PROVE  /\ P[a].frame \in Nat /\ P[a].ann \in Nat /\ Q[a].frame \in Nat /\ Q[a].ann \in Nat
           /\ P[a].frame <= Q[a].frame /\ P[a].ann <= Q[a].ann /\ P[a].ann <= P[a].frame /\ Q[a].ann <= Q[a].frame
           /\ Q[a].frame # P[a].frame => a = p /\ Q[a].frame = P[a].frame + 1 /\ S = N /\ Runs(P[p], y, t)
           /\ Q[a].leave = P[a].leave \/ (In(P[a], t) /\ a = p /\ Q[a].leave[t] = P[a].frame /\ ~In(Q[a], t)
                                          /\ (Decides(P[a], y, t) \/ TakesDrop(t, P, N, p, y, S)))
<1>1. /\ p \in Rest(t) /\ P[p] \in Peers(t) /\ Q[p] \in Peers(t) /\ Alike(y, Q[p])
      /\ \A q \in Players \ {p} : Q[q] = P[q]
      /\ World(t, P, N) /\ World(t, Q, M) /\ a \in Players
  BY MoveIs DEF Turn, Core, Rest
<1>2. P[a] \in Peers(t) /\ Q[a] \in Peers(t)
  BY <1>1 DEF World
<1>3. /\ P[a].frame \in Nat /\ P[a].ann \in Nat /\ P[a].ann <= P[a].frame /\ P[a].frame <= MaxFrame + 1
      /\ Q[a].frame \in Nat /\ Q[a].ann \in Nat /\ Q[a].ann <= Q[a].frame /\ P[a].leave \in [Players -> Frames \cup {Never}]
  BY <1>2, PeersAre DEF Peer
<1>4. CASE a # p
  BY <1>1, <1>3, <1>4
<1>5. CASE a = p
  <2>1. y.frame = Q[p].frame /\ y.ann = Q[p].ann /\ y.leave = Q[p].leave
    BY <1>1 DEF Alike
  <2> DEFINE Stays == y.frame = P[p].frame /\ y.ann \in {P[p].ann, P[p].frame}
             Leaves1 == y.leave = [P[p].leave EXCEPT ![t] = P[p].frame] /\ In(P[p], t)
  <2>5. CASE Idle(P[p], y, t) \/ Ignores(t, P, N, p, y, S)
    <3>1. Stays /\ y.leave = P[p].leave
      BY <2>5 DEF Idle, Ignores
    <3> QED BY <1>3, <1>5, <2>1, <3>1
  <2>6. CASE Announces(P[p], y, t) \/ TurnsOff(P[p], y, t) \/ Reopens(P[p], y, t)
    <3>1. Stays /\ y.leave = P[p].leave
      BY <2>6 DEF Announces, TurnsOff, Reopens
    <3> QED BY <1>3, <1>5, <2>1, <3>1
  <2>7. CASE Decides(P[p], y, t)
    <3>1. Stays /\ Leaves1
      BY <2>7 DEF Decides
    <3>2. Q[p].leave[t] = P[p].frame /\ ~In(Q[p], t)
      BY <1>3, <1>5, <2>1, <3>1, Numbers DEF In
    <3> QED BY <1>3, <1>5, <2>1, <2>7, <3>1, <3>2
  <2>8. CASE S = N /\ Runs(P[p], y, t)
    <3>1. y.frame = P[p].frame + 1 /\ y.ann = P[p].ann /\ y.leave = P[p].leave
      BY <2>8 DEF Runs
    <3> QED BY <1>3, <1>5, <2>1, <2>8, <3>1
  <2>9. CASE TakesFrame(t, P, N, p, y, S)
    <3>1. Stays /\ y.leave = P[p].leave
      BY <2>9 DEF TakesFrame, Notes
    <3> QED BY <1>3, <1>5, <2>1, <3>1
  <2>10. CASE TakesOff(t, P, N, p, y, S)
    <3>1. Stays /\ y.leave = P[p].leave
      BY <2>10 DEF TakesOff, HearsOff
    <3> QED BY <1>3, <1>5, <2>1, <3>1
  <2>11. CASE TakesDrop(t, P, N, p, y, S)
    <3>1. Stays /\ Leaves1
      BY <2>11 DEF TakesDrop, Applies
    <3>2. Q[p].leave[t] = P[p].frame /\ ~In(Q[p], t)
      BY <1>3, <1>5, <2>1, <3>1, Numbers DEF In
    <3> QED BY <1>3, <1>5, <2>1, <2>11, <3>1, <3>2
  <2> QED BY <2>5, <2>6, <2>7, <2>8, <2>9, <2>10, <2>11, TurnsAre
<1> QED BY <1>4, <1>5

\* What a peer says, and in which step.
LEMMA OutIs ==
    ASSUME NEW t \in Players, NEW P, NEW N, NEW Q, NEW M, NEW p, NEW y, NEW S, Turn(t, P, N, Q, M, p, y, S),
           NEW b \in Players, NEW m \in Out(y, b)
    PROVE  /\ b = p => m \in Echo
           /\ \/ m \in Plain(t) /\ (m \in FrameInfo \/ Noticed(P[p], t) \/ TakesFrame(t, P, N, p, y, S))
              \/ m = Announced(P[p]) /\ (Announces(P[p], y, t) \/ Decides(P[p], y, t))
              \/ m = Dropping(P[p], t) /\ Decides(P[p], y, t)
              \/ m \in Decided(P[p]) /\ TakesFrame(t, P, N, p, y, S)
              \/ \E q \in Rest(t) \ {p} : \E c \in Announcement :
                    /\ Reads(N, S, q, p) /\ c = Head(N[q][p]) /\ Notes(P[p], y, t, q, c.frame)
                    /\ y.dfr = [P[p].dfr EXCEPT ![q] = FALSE] /\ p = Router(t) /\ ~P[p].screen
                    /\ m = Closing(P[p], q, c.frame)
              \/ m = OffCommand(P[p]) /\ TurnsOff(P[p], y, t)
<1>1. /\ p \in Rest(t) /\ P[p] \in Peers(t) /\ P[p].self = p /\ y \in Peer /\ y.self = p
  <2>1. World(t, P, N) /\ Move(t, P, Q, M, p, y, S)
    BY DEF Turn, Core
  <2>2. y.self = p
    BY <2>1 DEF Move
  <2> QED BY <2>1, <2>2, MoveIs
<1>2. P[p].out = ForAll(<<>>)
  BY <1>1, PeersAre
<1> DEFINE x == P[p]
<1>3. y.out # x.out
  <2>1. y.out[b] # <<>>
    BY DEF Out
  <2> QED BY <1>2, <2>1 DEF ForAll
<1>4. \E K : Says(y, K) /\ p \in Players
  BY <1>1, <1>3, TurnsAre, ZenonT(30) DEF Idle, Ignores, Announces, Decides, TurnsOff, Runs, Reopens, TakesFrame, Notes, TakesOff, HearsOff, TakesDrop, Applies, Rest
<1>5. b = p => m \in Echo
  BY <1>1, <1>4 DEF Says, AllOf, Out
<1>6. \A K : Says(y, K) => m \in K
  BY DEF Says, AllOf, Out
<1> HIDE DEF x
<1>7. CASE Idle(x, y, t)
  BY <1>3, <1>5, <1>6, <1>7 DEF Idle, x
<1>8. CASE Announces(x, y, t) \/ Decides(x, y, t)
  <2>1. Noticed(x, t)
    BY <1>8 DEF Announces, Decides, Noticed
  <2> QED BY <1>5, <1>6, <1>8, <2>1 DEF Announces, Decides, x
<1>9. CASE TurnsOff(x, y, t)
  BY <1>5, <1>6, <1>9 DEF TurnsOff, x
<1>10. CASE Runs(x, y, t)
  <2>1. m \in FrameInfo
    BY <1>6, <1>10 DEF Runs
  <2>2. m \in Plain(t)
    BY <2>1 DEF Plain, FrameInfo, Message
  <2> QED BY <1>5, <2>1, <2>2
<1>11. CASE TakesFrame(t, P, N, p, y, S)
  <2>1. PICK q \in Rest(t) \ {p}, c \in Announcement :
          Reads(N, S, q, p) /\ c = Head(N[q][p]) /\ Notes(x, y, t, q, c.frame)
    BY <1>11 DEF TakesFrame, x
  <2>2. \/ Says(y, Plain(t) \cup Decided(x))
        \/ /\ y.dfr = [x.dfr EXCEPT ![q] = FALSE] /\ x.self = Router(t) /\ ~x.screen
           /\ Says(y, Plain(t) \cup Decided(x) \cup {Closing(x, q, c.frame)})
    BY <2>1 DEF Notes
  <2> QED BY <1>1, <1>5, <1>6, <1>11, <2>1, <2>2 DEF x
<1>12. ~(Reopens(x, y, t) \/ TakesOff(t, P, N, p, y, S) \/ TakesDrop(t, P, N, p, y, S))
  BY <1>3, <1>6 DEF Reopens, TakesOff, HearsOff, TakesDrop, Applies, x
<1> QED BY <1>7, <1>8, <1>9, <1>10, <1>11, <1>12, TurnsAre DEF Ignores, x

-----------------------------------------------------------------------------
\* What the streams carry stays true of their senders.

\* Who announced a frame, or dropped t, noticed.
LEMMA AnnouncerNoticed ==
    ASSUME NEW t \in Players, NEW x \in Peers(t), x.ann # 0 \/ ~In(x, t)
    PROVE  Noticed(x, t)
BY PeersAre DEF Own, Noticed

LEMMA PlainIs ==
    ASSUME NEW t \in Players, NEW m \in Plain(t)
    PROVE  m \in Message /\ m \notin Announcement /\ m \notin DropCommand /\ m \notin ScreenOff /\ (m \in Vote => m.target = t)
BY DEF Plain, Announcement, DropCommand, ScreenOff, Vote

LEMMA AnnouncedIs ==
    ASSUME NEW t \in Players, NEW x \in Peers(t)
    PROVE  /\ Announced(x) \in Announcement /\ Announced(x) \in Message /\ Announced(x).frame = x.frame
           /\ Announced(x) \notin DropCommand /\ Announced(x) \notin ScreenOff /\ Announced(x) \notin Vote
           /\ Dropping(x, t) \in DropCommand /\ Dropping(x, t).frame = x.frame /\ Dropping(x, t).target = t /\ Dropping(x, t).gone = {}
           /\ Dropping(x, t) \notin Announcement /\ Dropping(x, t) \notin ScreenOff /\ Dropping(x, t) \notin Vote
           /\ \A q \in Players, f \in Stand : Closing(x, q, f) \in ScreenOff /\ Closing(x, q, f).frame = x.frame
           /\ OffCommand(x) \in ScreenOff /\ OffCommand(x).frame = x.frame
<1>1. x \in Peer /\ x.frame \in Stand \ {0}
  BY PeersAre
<1>2. Announced(x) \in Announcement /\ Announced(x).frame = x.frame
  BY <1>1 DEF Announced, Announcement
<1>3. Dropping(x, t) \in DropCommand /\ Dropping(x, t).frame = x.frame /\ Dropping(x, t).target = t /\ Dropping(x, t).gone = {}
  BY <1>1 DEF Dropping, DropCommand
<1>4. ASSUME NEW q \in Players, NEW f \in Stand PROVE Closing(x, q, f) \in ScreenOff /\ Closing(x, q, f).frame = x.frame
  <2>1. {<<q, f>>} \in SUBSET (Players \X Stand)
    OBVIOUS
  <2> QED BY <1>1, <2>1 DEF Closing, ScreenOff
<1>5. OffCommand(x) \in ScreenOff /\ OffCommand(x).frame = x.frame
  <2>1. Opened(x) \in SUBSET (Players \X Stand)
    BY <1>1 DEF Opened, Peer
  <2> QED BY <1>1, <2>1 DEF OffCommand, ScreenOff
<1> QED BY <1>2, <1>3, <1>4, <1>5, KindsOfMessage DEF Message

\* What a peer decided.
LEMMA DecidedIs ==
    ASSUME NEW t \in Players, NEW P, NEW N, Core(t, P, N), NEW q \in Rest(t), NEW d \in Decided(P[q])
    PROVE  d \in DropCommand /\ q = Router(t) /\ d.target = t /\ d.gone = {} /\ d.frame = P[q].leave[t] /\ ~In(P[q], t)
<1>1. P[q] \in Peers(t) /\ Leaves(t, P)
  BY DEF Core, World
<1>2. P[q].decided \in Seq(DropCommand) /\ P[q].decided # <<>>
  BY <1>1, PeersAre DEF Peer, Decided
<1>3. d \in DropCommand
  BY <1>2 DEF Decided
<1>4. ~In(P[q], t)
  BY <1>1, <1>2, PeersAre DEF Own
<1> QED BY <1>1, <1>2, <1>3, <1>4 DEF Leaves

LEMMA OldFits ==
    ASSUME NEW t \in Players, NEW P, NEW N, NEW Q, NEW M, NEW p, NEW y, NEW S, Turn(t, P, N, Q, M, p, y, S),
           NEW a \in Players, NEW b \in Players, NEW m \in Sent(N, a, b)
    PROVE  Fits(t, Q, a, b, m)
<1>1. Fits(t, P, a, b, m) /\ m \in Message
  BY DEF Turn, Core, Said, World, Sent
<1>2. CASE a = t
  <2>1. m \in FrameInfo
    BY <1>1, <1>2 DEF Fits, Carried
  <2> QED BY <1>1, <2>1, KindsOfMessage DEF Fits
<1>3. CASE a # t
  <2>1. a \in Rest(t)
    BY <1>3 DEF Rest
  <2>2. /\ P[a].frame \in Nat /\ P[a].ann \in Nat /\ Q[a].frame \in Nat /\ Q[a].ann \in Nat
        /\ P[a].frame <= Q[a].frame /\ P[a].ann <= Q[a].ann
        /\ Q[a].leave = P[a].leave \/ In(P[a], t)
    BY <2>1, Rises
  <2>3. (m \in Announcement => m.frame \in Nat) /\ (m \in ScreenOff => m.frame \in Nat)
    BY Numbers DEF Announcement, ScreenOff, Stand
  <2> QED BY <1>1, <2>2, <2>3 DEF Fits, In
<1> QED BY <1>2, <1>3

LEMMA NewFits ==
    ASSUME NEW t \in Players, NEW P, NEW N, NEW Q, NEW M, NEW p, NEW y, NEW S, Turn(t, P, N, Q, M, p, y, S),
           NEW b \in Players, NEW m \in Out(y, b), M[p][b] # <<>>
    PROVE  Fits(t, Q, p, b, m)
<1>1. World(t, P, N) /\ Move(t, P, Q, M, p, y, S) /\ Core(t, P, N)
  BY DEF Turn, Core
<1>2. p \in Rest(t) /\ p \in Players /\ p # t /\ P[p] \in Peers(t) /\ P[p].self = p /\ Alike(y, Q[p]) /\ Q[p] \in Peers(t)
  BY <1>1, MoveIs
<1>3. /\ P[p].frame \in Nat /\ P[p].ann \in Nat /\ Q[p].frame \in Nat /\ Q[p].ann \in Nat
      /\ P[p].frame <= Q[p].frame /\ P[p].ann <= Q[p].ann
  BY <1>2, Rises
<1>4. b = p => m \in Echo
  BY OutIs
<1>5. TakesFrame(t, P, N, p, y, S) => \E q \in Rest(t) : Noticed(P[q], t)
  <2>1. SUFFICES ASSUME NEW q \in Rest(t) \ {p}, NEW c \in Announcement, Reads(N, S, q, p), c = Head(N[q][p])
                 PROVE  Noticed(P[q], t)
    BY DEF TakesFrame
  <2>2. c \in Sent(N, q, p) /\ q \in Players
    BY <1>1, <1>2, <2>1, SentHead DEF World, Rest
  <2>3. c.frame <= P[q].ann /\ c.frame \in Stand \ {0}
    BY <1>1, <1>2, <2>2 DEF Core, Said, Fits, Announcement
  <2>4. P[q].ann # 0
    BY <2>3, Numbers DEF Stand
  <2> QED BY <1>1, <2>4, AnnouncerNoticed DEF World
<1>6. (\E q \in Rest(t) : Noticed(P[q], t)) => b # t
  BY <1>1, <1>2 DEF Move
<1>7. Announces(P[p], y, t) \/ Decides(P[p], y, t) \/ TurnsOff(P[p], y, t) => Noticed(P[p], t) /\ y.frame = P[p].frame
  BY DEF Announces, Decides, TurnsOff, Noticed
<1>8. Announces(P[p], y, t) \/ Decides(P[p], y, t) => Q[p].ann = P[p].frame
  BY <1>2 DEF Announces, Decides, Alike
<1>9. CASE m \in Plain(t) /\ (m \in FrameInfo \/ Noticed(P[p], t) \/ TakesFrame(t, P, N, p, y, S))
  BY <1>2, <1>4, <1>5, <1>6, <1>9, PlainIs DEF Fits, Carried
<1>10. CASE m = Announced(P[p]) /\ (Announces(P[p], y, t) \/ Decides(P[p], y, t))
  BY <1>2, <1>3, <1>4, <1>6, <1>7, <1>8, <1>10, AnnouncedIs DEF Fits, Carried
<1>11. CASE m = Dropping(P[p], t) /\ Decides(P[p], y, t)
  <2>1. p = Router(t)
    BY <1>2, <1>11 DEF Decides
  <2>2. Q[p].leave[t] = P[p].frame /\ ~In(Q[p], t)
    <3>1. Q[p].leave = [P[p].leave EXCEPT ![t] = P[p].frame] /\ P[p].leave \in [Players -> Frames \cup {Never}]
      <4>1. Q[p].leave = y.leave /\ y.leave = [P[p].leave EXCEPT ![t] = P[p].frame]
        BY <1>2, <1>11 DEF Decides, Alike
      <4>2. P[p] \in Peer
        BY <1>2, PeersAre
      <4> QED BY <4>1, <4>2 DEF Peer
    <3>2. P[p].frame <= MaxFrame + 1
      BY <1>2, PeersAre
    <3> QED BY <1>3, <3>1, <3>2, Numbers DEF In
  <2> QED BY <1>2, <1>3, <1>4, <1>6, <1>7, <1>11, <2>1, <2>2, AnnouncedIs DEF Fits, Carried
<1>12. CASE m \in Decided(P[p]) /\ TakesFrame(t, P, N, p, y, S)
  <2>1. m \in DropCommand /\ p = Router(t) /\ m.target = t /\ m.gone = {} /\ m.frame = P[p].leave[t] /\ ~In(P[p], t)
    BY <1>1, <1>2, <1>12, DecidedIs
  <2>2. Q[p].leave[t] = P[p].leave[t]
    BY <1>2, <2>1, Rises DEF In
  <2>3. m \notin Announcement /\ m \notin ScreenOff /\ m \notin Vote
    BY <2>1, KindsOfMessage
  <2> QED BY <1>2, <1>4, <1>5, <1>6, <1>12, <2>1, <2>2, <2>3 DEF Fits, Carried, In
<1>13. CASE m \in ScreenOff /\ m.frame = P[p].frame /\ b # t
  <2>1. m \notin Announcement /\ m \notin DropCommand /\ m \notin Vote
    BY <1>13, KindsOfMessage
  <2> QED BY <1>2, <1>3, <1>4, <1>13, <2>1 DEF Fits, Carried
<1>14. CASE \E q \in Rest(t) \ {p} : \E c \in Announcement :
                    /\ Reads(N, S, q, p) /\ c = Head(N[q][p]) /\ Notes(P[p], y, t, q, c.frame)
                    /\ y.dfr = [P[p].dfr EXCEPT ![q] = FALSE] /\ p = Router(t) /\ ~P[p].screen
                    /\ m = Closing(P[p], q, c.frame)
  <2>1. PICK q \in Rest(t) \ {p}, c \in Announcement :
                    /\ Reads(N, S, q, p) /\ c = Head(N[q][p]) /\ Notes(P[p], y, t, q, c.frame)
                    /\ m = Closing(P[p], q, c.frame)
    BY <1>14
  <2>2. q \in Players /\ c.frame \in Stand
    BY DEF Rest, Announcement
  <2>3. TakesFrame(t, P, N, p, y, S)
    BY <2>1 DEF TakesFrame
  <2> QED BY <1>2, <1>5, <1>6, <1>13, <2>1, <2>2, <2>3, AnnouncedIs
<1>15. CASE m = OffCommand(P[p]) /\ TurnsOff(P[p], y, t)
  BY <1>2, <1>6, <1>7, <1>13, <1>15, AnnouncedIs
<1> QED BY <1>9, <1>10, <1>11, <1>12, <1>14, <1>15, OutIs

LEMMA SaidKept ==
    ASSUME NEW t \in Players, NEW P, NEW N, NEW Q, NEW M, NEW p, NEW y, NEW S, Turn(t, P, N, Q, M, p, y, S)
    PROVE  Said(t, Q, M)
<1> SUFFICES ASSUME NEW a \in Players, NEW b \in Players, NEW m \in Sent(M, a, b) PROVE Fits(t, Q, a, b, m)
  BY DEF Said
<1>1. CASE m \in Sent(N, a, b)
  BY <1>1, OldFits
<1>2. CASE a = p /\ m \in Out(y, b)
  <2>1. M[a][b] # <<>>
    BY DEF Sent
  <2> QED BY <1>2, <2>1, NewFits
<1> QED BY <1>1, <1>2, SentIs

\* A record is what its peer announced.
LEMMA RecordsKept ==
    ASSUME NEW t \in Players, NEW P, NEW N, NEW Q, NEW M, NEW p, NEW y, NEW S, Turn(t, P, N, Q, M, p, y, S)
    PROVE  Records(t, Q)
<1>1. World(t, P, N) /\ Move(t, P, Q, M, p, y, S) /\ Core(t, P, N) /\ Records(t, P)
  BY DEF Turn, Core
<1>2. /\ p \in Rest(t) /\ p \in Players /\ p # t /\ P[p] \in Peers(t) /\ P[p].self = p /\ Alike(y, Q[p]) /\ Q[p] \in Peers(t)
      /\ \A a \in Players \ {p} : Q[a] = P[a]
  BY <1>1, MoveIs
<1> SUFFICES ASSUME NEW a \in Rest(t), NEW b \in Rest(t)
             PROVE  Q[a].df[b] <= Q[b].frame /\ (Q[a].dfr[b] => Q[a].df[b] <= Q[b].ann)
  BY DEF Records
<1>3. /\ P[b].frame \in Nat /\ P[b].ann \in Nat /\ Q[b].frame \in Nat /\ Q[b].ann \in Nat
      /\ P[b].frame <= Q[b].frame /\ P[b].ann <= Q[b].ann /\ Q[b].ann <= Q[b].frame
  BY Rises
<1>4. /\ P[a].df[b] <= P[b].frame /\ (P[a].dfr[b] => P[a].df[b] <= P[b].ann)
  BY <1>1 DEF Records
<1>5. a \in Players /\ b \in Players /\ P[a].df \in [Players -> Stand] /\ P[a].dfr \in [Players -> BOOLEAN] /\ P[a].df[b] \in Nat
  <2>1. P[a] \in Peer /\ a \in Players /\ b \in Players
    BY <1>1, PeersAre DEF World, Rest
  <2>2. P[a].df \in [Players -> Stand] /\ P[a].dfr \in [Players -> BOOLEAN]
    BY <2>1 DEF Peer
  <2> QED BY <2>1, <2>2, Numbers DEF Stand
<1>6. CASE Q[a].df[b] = P[a].df[b] /\ (Q[a].dfr[b] => P[a].dfr[b])
  BY <1>3, <1>4, <1>5, <1>6
<1>7. CASE a # p
  BY <1>2, <1>5, <1>6, <1>7
<1>8. CASE a = p
  <2>1. Q[p].df = y.df /\ Q[p].dfr = y.dfr /\ Q[p].ann = y.ann /\ Q[p].frame = y.frame
    BY <1>2 DEF Alike
  <2>2. CASE y.df = P[p].df /\ y.dfr = P[p].dfr
    BY <1>6, <1>8, <2>1, <2>2
  <2>3. CASE Announces(P[p], y, t) \/ Decides(P[p], y, t)
    <3>1. /\ y.df = [P[p].df EXCEPT ![p] = P[p].frame] /\ y.dfr = [P[p].dfr EXCEPT ![p] = TRUE]
          /\ y.ann = P[p].frame /\ y.frame = P[p].frame
      BY <1>2, <2>3 DEF Announces, Decides
    <3>2. CASE b = p
      BY <1>2, <1>3, <1>5, <1>8, <2>1, <3>1, <3>2
    <3>3. CASE b # p
      BY <1>5, <1>6, <1>8, <2>1, <3>1, <3>3
    <3> QED BY <3>2, <3>3
  <2>4. CASE TurnsOff(P[p], y, t)
    <3>1. y.df = P[p].df /\ ~y.dfr[b]
      BY <1>5, <2>4 DEF TurnsOff, ForAll
    <3> QED BY <1>6, <1>8, <2>1, <3>1
  <2>5. CASE TakesFrame(t, P, N, p, y, S)
    <3>1. PICK q \in Rest(t) \ {p}, c \in Announcement :
            Reads(N, S, q, p) /\ c = Head(N[q][p]) /\ Notes(P[p], y, t, q, c.frame)
      BY <2>5 DEF TakesFrame
    <3>2. c \in Sent(N, q, p) /\ q \in Players
      BY <1>1, <1>2, <3>1, SentHead DEF World, Rest
    <3>3. c.frame <= P[q].ann /\ c.frame \in Nat
      BY <1>1, <1>2, <3>2, Numbers DEF Core, Said, Fits, Announcement, Stand
    <3>4. /\ y.df = [P[p].df EXCEPT ![q] = c.frame]
          /\ y.dfr = [P[p].dfr EXCEPT ![q] = TRUE] \/ y.dfr = [P[p].dfr EXCEPT ![q] = FALSE]
      BY <3>1 DEF Notes
    <3>5. CASE b = q
      <4>1. Q[p].df[b] = c.frame
        BY <1>5, <1>8, <2>1, <3>4, <3>5
      <4> QED BY <1>3, <1>8, <3>3, <3>5, <4>1
    <3>6. CASE b # q
      BY <1>5, <1>6, <1>8, <2>1, <3>4, <3>6
    <3> QED BY <3>5, <3>6
  <2>6. CASE TakesOff(t, P, N, p, y, S)
    <3>1. PICK q \in Rest(t) \ {p}, c \in ScreenOff :
            Reads(N, S, q, p) /\ c = Head(N[q][p]) /\ HearsOff(P[p], y, t, q, c)
      BY <2>6 DEF TakesOff
    <3>2. c \in Sent(N, q, p) /\ q \in Players
      BY <1>1, <1>2, <3>1, SentHead DEF World, Rest
    <3>3. c.frame <= P[q].frame /\ c.frame \in Nat
      BY <1>1, <1>2, <3>2, Numbers DEF Core, Said, Fits, ScreenOff, Stand
    <3>4. \/ y.df = P[p].df /\ y.dfr = P[p].dfr
          \/ y.df = [P[p].df EXCEPT ![q] = c.frame] /\ y.dfr = [P[p].dfr EXCEPT ![q] = FALSE]
      BY <3>1 DEF HearsOff
    <3>5. CASE b = q /\ y.df = [P[p].df EXCEPT ![q] = c.frame] /\ y.dfr = [P[p].dfr EXCEPT ![q] = FALSE]
      <4>1. Q[p].df[b] = c.frame /\ ~Q[p].dfr[b]
        BY <1>5, <1>8, <2>1, <3>5
      <4> QED BY <1>3, <1>8, <3>3, <3>5, <4>1
    <3>6. CASE b # q /\ y.df = [P[p].df EXCEPT ![q] = c.frame] /\ y.dfr = [P[p].dfr EXCEPT ![q] = FALSE]
      BY <1>5, <1>6, <1>8, <2>1, <3>6
    <3> QED BY <2>2, <3>4, <3>5, <3>6
  <2>7. CASE Idle(P[p], y, t) \/ Ignores(t, P, N, p, y, S) \/ Runs(P[p], y, t) \/ Reopens(P[p], y, t) \/ TakesDrop(t, P, N, p, y, S)
    <3>1. y.df = P[p].df /\ y.dfr = P[p].dfr
      BY <2>7 DEF Idle, Ignores, Runs, Reopens, TakesDrop, Applies
    <3> QED BY <2>2, <3>1
  <2> QED BY <2>3, <2>4, <2>5, <2>6, <2>7, TurnsAre
<1> QED BY <1>7, <1>8

\* The others drop t at the frame of the router.
LEMMA LeavesKept ==
    ASSUME NEW t \in Players, NEW P, NEW N, NEW Q, NEW M, NEW p, NEW y, NEW S, Turn(t, P, N, Q, M, p, y, S)
    PROVE  Leaves(t, Q)
<1> DEFINE r == Router(t)
<1>1. World(t, P, N) /\ Move(t, P, Q, M, p, y, S) /\ Core(t, P, N) /\ Leaves(t, P)
  BY DEF Turn, Core
<1>2. /\ p \in Rest(t) /\ p \in Players /\ p # t /\ P[p] \in Peers(t) /\ P[p].self = p /\ Alike(y, Q[p]) /\ Q[p] \in Peers(t)
      /\ \A a \in Players \ {p} : Q[a] = P[a]
  BY <1>1, MoveIs
<1>3. r \in Rest(t) /\ \A a \in Rest(t) : a \in Players
  BY RestIs
<1>4. \A a \in Rest(t) : \/ Q[a].leave = P[a].leave
                         \/ (In(P[a], t) /\ a = p /\ Q[a].leave[t] = P[a].frame /\ ~In(Q[a], t)
                                          /\ (Decides(P[a], y, t) \/ TakesDrop(t, P, N, p, y, S)))
  BY Rises
<1>5. TakesDrop(t, P, N, p, y, S) => /\ ~In(P[r], t) /\ r # p /\ P[r].leave[t] = P[p].frame
  <2>1. SUFFICES ASSUME NEW c \in DropCommand, Reads(N, S, r, p), c = Head(N[r][p]), Applies(P[p], y, t, c)
                 PROVE  ~In(P[r], t) /\ r # p /\ P[r].leave[t] = P[p].frame
    BY DEF TakesDrop
  <2>2. c \in Sent(N, r, p)
    BY <1>1, <1>2, <1>3, <2>1, SentHead DEF World
  <2>3. c.frame = P[r].leave[t] /\ ~In(P[r], t)
    BY <1>1, <1>2, <1>3, <2>2 DEF Core, Said, Fits
  <2>4. c.frame = P[p].frame /\ In(P[p], t)
    BY <2>1 DEF Applies
  <2> QED BY <2>3, <2>4
<1>6. Decides(P[p], y, t) => p = r
  BY <1>2 DEF Decides
<1>7. \A a \in Rest(t) : In(P[r], t) => P[a].leave[t] = Never
  BY <1>1 DEF Leaves, In
<1> HIDE DEF r
<1>8. ASSUME NEW q \in Rest(t) PROVE Q[q].leave[t] \in {Never, Q[r].leave[t]}
  <2>1. P[q].leave[t] \in {Never, P[r].leave[t]}
    BY <1>1 DEF Leaves, r
  <2>2. Q[r].leave = P[r].leave \/ In(P[r], t)
    BY <1>3, <1>4
  <2>3. CASE In(P[r], t) /\ q = r
    BY <2>3
  <2>4. CASE In(P[r], t) /\ q # r
    <3>1. Q[q].leave = P[q].leave
      BY <1>4, <1>5, <1>6, <2>4
    <3> QED BY <1>7, <2>4, <3>1
  <2>5. CASE Q[r].leave = P[r].leave
    BY <1>4, <1>5, <1>6, <2>1, <2>5
  <2> QED BY <2>2, <2>3, <2>4, <2>5
<1>9. ASSUME NEW q \in Rest(t) PROVE ~In(Q[q], t) => Q[q].leave[t] <= Q[q].frame /\ Q[q].leave[t] >= 1
  <2>1. /\ P[q].frame \in Nat /\ Q[q].frame \in Nat /\ P[q].frame <= Q[q].frame
    BY Rises
  <2>2. P[q].frame >= 1 /\ P[q].leave[t] \in Nat
    <3>1. P[q] \in Peers(t)
      BY <1>1 DEF World
    <3>2. P[q] \in Peer /\ P[q].frame >= 1
      BY <3>1, PeersAre
    <3>3. P[q].leave[t] \in Frames \cup {Never}
      BY <3>2 DEF Peer
    <3> QED BY <3>2, <3>3, Numbers
  <2>3. ~In(P[q], t) => P[q].leave[t] <= P[q].frame /\ P[q].leave[t] >= 1
    BY <1>1 DEF Leaves
  <2>4. CASE Q[q].leave = P[q].leave
    BY <2>1, <2>2, <2>3, <2>4 DEF In
  <2>5. CASE Q[q].leave[t] = P[q].frame
    BY <2>1, <2>2, <2>5
  <2> QED BY <1>4, <2>4, <2>5
<1>10. \/ y.decided = P[p].decided
       \/ Decides(P[p], y, t) /\ y.decided = <<Dropping(P[p], t)>>
  <2>1. CASE Idle(P[p], y, t) \/ Ignores(t, P, N, p, y, S) \/ Announces(P[p], y, t) \/ TurnsOff(P[p], y, t)
    BY <2>1 DEF Idle, Ignores, Announces, TurnsOff
  <2>2. CASE Runs(P[p], y, t) \/ Reopens(P[p], y, t) \/ TakesDrop(t, P, N, p, y, S) \/ TakesFrame(t, P, N, p, y, S) \/ TakesOff(t, P, N, p, y, S)
    BY <2>2 DEF Runs, Reopens, TakesDrop, Applies, TakesFrame, Notes, TakesOff, HearsOff
  <2> QED BY <2>1, <2>2, TurnsAre DEF Decides
<1>11. ASSUME NEW q \in Rest(t)
       PROVE  /\ Q[q].decided # <<>> => q = r
              /\ \A d \in Decided(Q[q]) : d.target = t /\ d.gone = {} /\ d.frame = Q[q].leave[t]
  <2>1. /\ P[q].decided # <<>> => q = r
        /\ \A d \in Decided(P[q]) : d.target = t /\ d.gone = {} /\ d.frame = P[q].leave[t] /\ ~In(P[q], t)
    BY <1>1, DecidedIs DEF Leaves, r
  <2>2. CASE Q[q].decided = P[q].decided
    <3>1. Decided(Q[q]) = Decided(P[q])
      BY <2>2 DEF Decided
    <3> QED BY <1>4, <2>1, <2>2, <3>1
  <2>3. CASE q = p /\ Decides(P[p], y, t) /\ Q[q].decided = <<Dropping(P[p], t)>>
    <3>1. Decided(Q[q]) = {Dropping(P[p], t)}
      BY <2>3 DEF Decided
    <3>2. Q[p].leave[t] = P[p].frame
      <4>1. Q[p].leave = y.leave /\ y.leave = [P[p].leave EXCEPT ![t] = P[p].frame]
        BY <1>2, <2>3 DEF Decides, Alike
      <4>2. P[p] \in Peer
        BY <1>2, PeersAre
      <4> QED BY <4>1, <4>2 DEF Peer
    <3> QED BY <1>2, <1>6, <2>3, <3>1, <3>2, AnnouncedIs
  <2>4. q = p => Q[q].decided = y.decided
    BY <1>2 DEF Alike
  <2> QED BY <1>2, <1>3, <1>10, <2>2, <2>3, <2>4
<1> QED BY <1>8, <1>9, <1>11 DEF Leaves, r

LEMMA CoreKept ==
    ASSUME NEW t \in Players, NEW P, NEW N, NEW Q, NEW M, NEW p, NEW y, NEW S, Turn(t, P, N, Q, M, p, y, S)
    PROVE  Core(t, Q, M)
<1>1. World(t, Q, M)
  <2>1. World(t, P, N) /\ Move(t, P, Q, M, p, y, S)
    BY DEF Turn, Core
  <2> QED BY <2>1, MoveIs
<1> QED BY <1>1, SaidKept, RecordsKept, LeavesKept DEF Core

-----------------------------------------------------------------------------
\* Before the router dropped t.

Names(m, f) == m \in Announcement /\ m.frame = f
Frees(m, q, f) == m \in ScreenOff /\ <<q, f>> \in m.released

\* The router holds the frame it announced until another one got further.
RouterHolds(t, P) ==
    /\ P[Router(t)].ann # 0 /\ P[Router(t)].frame = P[Router(t)].ann => P[Router(t)].hold = "held"
    /\ Behind(P[Router(t)], t)

\* The record of q at the router is open for f, or will be.
Open(t, P, N, q, f) ==
    \/ P[Router(t)].dfr[q] /\ P[Router(t)].df[q] = f
    \/ \E m \in Sent(N, q, Router(t)) : Names(m, f)

Followers(t) == Rest(t) \ {Router(t)}

\* While the record is open the peer holds the frame.
Holds(t, P, N) == \A q \in Followers(t) :
    Open(t, P, N, q, P[q].frame) => P[q].ann = P[q].frame /\ P[q].hold = "held"

\* A release on its way is of a record that was closed.
Closed(t, P, N) == \A q \in Followers(t) : \A m \in Sent(N, Router(t), q) : \A f \in Stand :
    Frees(m, q, f) => ~Open(t, P, N, q, f) /\ f <= P[q].ann

\* A frame is announced again when nothing of the first time is on its way.
Fresh(t, P, N) == \A q \in Followers(t) :
    P[q].ann = P[q].frame /\ P[q].notified # P[q].frame =>
        /\ \A m \in Sent(N, Router(t), q) : ~Frees(m, q, P[q].ann)
        /\ \A m \in Sent(N, q, Router(t)) : ~Names(m, P[q].ann)

\* What is on its way to the router are announcements of one frame after another.
Rising(t, N) == \A q \in Followers(t) : \A j, k \in 1 .. Len(N[q][Router(t)]) :
    /\ j < k /\ N[q][Router(t)][j] \in Announcement /\ N[q][Router(t)][k] \in Announcement
    => N[q][Router(t)][j].frame < N[q][Router(t)][k].frame

\* Who got past f first had no open record for it.
First(t, P, N) == \A f \in Stand :
    (\E i \in Rest(t) : P[i].frame > f) =>
        \E i \in Rest(t) : P[i].frame > f /\ (i = Router(t) \/ ~Open(t, P, N, i, f))

Before(t, P, N) ==
    /\ RouterHolds(t, P) /\ Holds(t, P, N) /\ Closed(t, P, N)
    /\ Fresh(t, P, N) /\ Rising(t, N) /\ First(t, P, N)

LEMMA SaysAnnouncement ==
    ASSUME NEW t \in Players, NEW P, NEW N, NEW Q, NEW M, NEW p, NEW y, NEW S, Turn(t, P, N, Q, M, p, y, S),
           NEW b \in Players, NEW m \in Out(y, b), m \in Announcement
    PROVE  /\ m = Announced(P[p]) /\ m.frame = P[p].frame
           /\ Announces(P[p], y, t) \/ Decides(P[p], y, t)
<1>1. World(t, P, N) /\ Move(t, P, Q, M, p, y, S) /\ Core(t, P, N)
  BY DEF Turn, Core
<1>2. p \in Rest(t) /\ P[p] \in Peers(t)
  BY <1>1, MoveIs
<1>3. m \notin Plain(t) /\ m \notin Decided(P[p]) /\ m \notin ScreenOff /\ m \notin DropCommand
  BY <1>1, <1>2, PlainIs, DecidedIs, KindsOfMessage
<1>4. \A q \in Rest(t), c \in Announcement : m # Closing(P[p], q, c.frame)
  <2>1. \A q \in Rest(t), c \in Announcement : q \in Players /\ c.frame \in Stand
    BY DEF Rest, Announcement
  <2> QED BY <1>2, <1>3, <2>1, AnnouncedIs
<1>5. m # Dropping(P[p], t) /\ m # OffCommand(P[p]) /\ Announced(P[p]).frame = P[p].frame
  BY <1>2, <1>3, AnnouncedIs
<1>7. ~ \E q \in Rest(t) \ {p} : \E c \in Announcement :
              /\ Reads(N, S, q, p) /\ c = Head(N[q][p]) /\ Notes(P[p], y, t, q, c.frame)
              /\ y.dfr = [P[p].dfr EXCEPT ![q] = FALSE] /\ p = Router(t) /\ ~P[p].screen
              /\ m = Closing(P[p], q, c.frame)
  BY <1>4
<1>6. m = Announced(P[p]) /\ (Announces(P[p], y, t) \/ Decides(P[p], y, t))
  BY <1>3, <1>5, <1>7, OutIs
<1> QED BY <1>5, <1>6

LEMMA SaysOff ==
    ASSUME NEW t \in Players, NEW P, NEW N, NEW Q, NEW M, NEW p, NEW y, NEW S, Turn(t, P, N, Q, M, p, y, S),
           NEW b \in Players, NEW m \in Out(y, b), m \in ScreenOff
    PROVE  /\ m.frame = P[p].frame
           /\ \/ \E q \in Rest(t) \ {p} : \E c \in Announcement :
                    /\ Reads(N, S, q, p) /\ c = Head(N[q][p]) /\ Notes(P[p], y, t, q, c.frame)
                    /\ y.dfr = [P[p].dfr EXCEPT ![q] = FALSE] /\ p = Router(t)
                    /\ m = Closing(P[p], q, c.frame)
              \/ m = OffCommand(P[p]) /\ TurnsOff(P[p], y, t)
<1>1. World(t, P, N) /\ Move(t, P, Q, M, p, y, S) /\ Core(t, P, N)
  BY DEF Turn, Core
<1>2. p \in Rest(t) /\ P[p] \in Peers(t)
  BY <1>1, MoveIs
<1>3. m \notin Plain(t) /\ m \notin Decided(P[p]) /\ m \notin Announcement /\ m \notin DropCommand
  BY <1>1, <1>2, PlainIs, DecidedIs, KindsOfMessage
<1>4. \A q \in Rest(t), c \in Announcement : Closing(P[p], q, c.frame).frame = P[p].frame
  <2>1. \A q \in Rest(t), c \in Announcement : q \in Players /\ c.frame \in Stand
    BY DEF Rest, Announcement
  <2> QED BY <1>2, <2>1, AnnouncedIs
<1>5. m # Announced(P[p]) /\ m # Dropping(P[p], t) /\ OffCommand(P[p]).frame = P[p].frame
  BY <1>2, <1>3, AnnouncedIs
<1>6. \/ \E q \in Rest(t) \ {p} : \E c \in Announcement :
                    /\ Reads(N, S, q, p) /\ c = Head(N[q][p]) /\ Notes(P[p], y, t, q, c.frame)
                    /\ y.dfr = [P[p].dfr EXCEPT ![q] = FALSE] /\ p = Router(t) /\ ~P[p].screen
                    /\ m = Closing(P[p], q, c.frame)
      \/ m = OffCommand(P[p]) /\ TurnsOff(P[p], y, t)
  BY <1>3, <1>5, OutIs
<1>7. CASE m = OffCommand(P[p]) /\ TurnsOff(P[p], y, t)
  BY <1>5, <1>7
<1>8. CASE m # OffCommand(P[p]) \/ ~TurnsOff(P[p], y, t)
  <2>1. PICK q \in Rest(t) \ {p} : \E c \in Announcement :
              /\ Reads(N, S, q, p) /\ c = Head(N[q][p]) /\ Notes(P[p], y, t, q, c.frame)
              /\ y.dfr = [P[p].dfr EXCEPT ![q] = FALSE] /\ p = Router(t) /\ ~P[p].screen
              /\ m = Closing(P[p], q, c.frame)
    BY <1>6, <1>8
  <2> QED BY <1>4, <2>1
<1> QED BY <1>7, <1>8

\* What a peer records of another one, it read.
LEMMA RecordIs ==
    ASSUME NEW t \in Players, NEW P, NEW N, NEW Q, NEW M, NEW p, NEW y, NEW S, Turn(t, P, N, Q, M, p, y, S),
           NEW b \in Players, b # p
    PROVE  /\ P[p].df[b] \in Nat /\ Q[p].df[b] \in Nat /\ P[p].df[b] <= Q[p].df[b]
           /\ Q[p].dfr[b] => \/ P[p].dfr[b] /\ Q[p].df[b] = P[p].df[b]
                             \/ \E c \in Sent(N, b, p) : Names(c, Q[p].df[b])
           /\ \/ Q[p].df[b] = P[p].df[b]
              \/ b \in Rest(t) /\ \E c \in Sent(N, b, p) :
                    /\ c = Head(N[b][p]) /\ Reads(N, S, b, p)
                    /\ c \in Announcement \cup ScreenOff /\ c.frame = Q[p].df[b]
<1>1. World(t, P, N) /\ Move(t, P, Q, M, p, y, S) /\ Core(t, P, N)
  BY DEF Turn, Core
<1>2. p \in Rest(t) /\ p \in Players /\ P[p] \in Peers(t) /\ P[p].self = p /\ Q[p] \in Peers(t)
      /\ Q[p].df = y.df /\ Q[p].dfr = y.dfr
  BY <1>1, MoveIs DEF Alike
<1>3. P[p].df \in [Players -> Stand] /\ P[p].dfr \in [Players -> BOOLEAN] /\ P[p].df[b] \in Nat /\ Q[p].df[b] \in Nat
  <2>1. P[p] \in Peer /\ Q[p] \in Peer
    BY <1>2, PeersAre
  <2>2. P[p].df \in [Players -> Stand] /\ P[p].dfr \in [Players -> BOOLEAN] /\ Q[p].df \in [Players -> Stand]
    BY <2>1 DEF Peer
  <2>3. P[p].df[b] \in Stand /\ Q[p].df[b] \in Stand
    BY <2>2
  <2>4. \A n \in Stand : n \in Nat
    BY Numbers DEF Stand
  <2> QED BY <2>2, <2>3, <2>4
<1>4. CASE y.df = P[p].df /\ (y.dfr = P[p].dfr \/ ~y.dfr[b])
  BY <1>2, <1>3, <1>4
<1>5. CASE Announces(P[p], y, t) \/ Decides(P[p], y, t)
  <2>1. y.df = [P[p].df EXCEPT ![p] = P[p].frame] /\ y.dfr = [P[p].dfr EXCEPT ![p] = TRUE]
    BY <1>2, <1>5 DEF Announces, Decides
  <2> QED BY <1>2, <1>3, <2>1
<1>6. CASE TurnsOff(P[p], y, t)
  <2>1. y.df = P[p].df /\ ~y.dfr[b]
    BY <1>6 DEF TurnsOff, ForAll
  <2> QED BY <1>4, <2>1
<1>7. CASE TakesFrame(t, P, N, p, y, S)
  <2>1. PICK q \in Rest(t) \ {p}, c \in Announcement :
          Reads(N, S, q, p) /\ c = Head(N[q][p]) /\ Notes(P[p], y, t, q, c.frame)
    BY <1>7 DEF TakesFrame
  <2>2. c \in Sent(N, q, p) /\ q \in Players
    BY <1>1, <1>2, <2>1, SentHead DEF World, Rest
  <2>3. /\ y.df = [P[p].df EXCEPT ![q] = c.frame] /\ P[p].df[q] <= c.frame
        /\ y.dfr = [P[p].dfr EXCEPT ![q] = TRUE] \/ y.dfr = [P[p].dfr EXCEPT ![q] = FALSE]
    BY <2>1 DEF Notes
  <2>4. CASE b = q
    <3>1. Q[p].df[b] = c.frame
      BY <1>2, <1>3, <2>2, <2>3, <2>4
    <3> QED BY <1>3, <2>1, <2>2, <2>3, <2>4, <3>1 DEF Names
  <2>5. CASE b # q
    BY <1>2, <1>3, <2>3, <2>5
  <2> QED BY <2>4, <2>5
<1>8. CASE TakesOff(t, P, N, p, y, S)
  <2>1. PICK q \in Rest(t) \ {p}, c \in ScreenOff :
          Reads(N, S, q, p) /\ c = Head(N[q][p]) /\ HearsOff(P[p], y, t, q, c)
    BY <1>8 DEF TakesOff
  <2>2. c \in Sent(N, q, p) /\ q \in Players /\ c.frame \in Nat
    <3>1. c \in Sent(N, q, p) /\ q \in Players
      BY <1>1, <1>2, <2>1, SentHead DEF World, Rest
    <3>2. c.frame \in Nat
      BY Numbers DEF ScreenOff, Stand
    <3> QED BY <3>1, <3>2
  <2>3. \/ y.df = P[p].df /\ y.dfr = P[p].dfr
        \/ c.frame >= P[p].df[q] /\ y.df = [P[p].df EXCEPT ![q] = c.frame] /\ y.dfr = [P[p].dfr EXCEPT ![q] = FALSE]
    BY <2>1 DEF HearsOff
  <2>4. CASE b = q /\ c.frame >= P[p].df[q] /\ y.df = [P[p].df EXCEPT ![q] = c.frame] /\ y.dfr = [P[p].dfr EXCEPT ![q] = FALSE]
    <3>1. Q[p].df[b] = c.frame /\ ~Q[p].dfr[b]
      BY <1>2, <1>3, <2>2, <2>4
    <3> QED BY <1>3, <2>1, <2>2, <2>4, <3>1
  <2>5. CASE b # q /\ y.df = [P[p].df EXCEPT ![q] = c.frame] /\ y.dfr = [P[p].dfr EXCEPT ![q] = FALSE]
    BY <1>2, <1>3, <2>5
  <2> QED BY <1>4, <2>3, <2>4, <2>5
<1>9. CASE Idle(P[p], y, t) \/ Ignores(t, P, N, p, y, S) \/ Runs(P[p], y, t) \/ Reopens(P[p], y, t) \/ TakesDrop(t, P, N, p, y, S)
  <2>1. y.df = P[p].df /\ y.dfr = P[p].dfr
    BY <1>9 DEF Idle, Ignores, Runs, Reopens, TakesDrop, Applies
  <2> QED BY <1>4, <2>1
<1> QED BY <1>5, <1>6, <1>7, <1>8, <1>9, TurnsAre

\* A record opens by an announcement alone.
LEMMA OpenKept ==
    ASSUME NEW t \in Players, NEW P, NEW N, NEW Q, NEW M, NEW p, NEW y, NEW S, Turn(t, P, N, Q, M, p, y, S),
           NEW q \in Followers(t), NEW f, Open(t, Q, M, q, f)
    PROVE  Open(t, P, N, q, f) \/ (q = p /\ Announces(P[p], y, t) /\ f = P[p].frame)
<1> DEFINE r == Router(t)
<1>1. World(t, P, N) /\ Move(t, P, Q, M, p, y, S) /\ Core(t, P, N)
  BY DEF Turn, Core
<1>2. p \in Rest(t) /\ p \in Players /\ P[p].self = p /\ \A a \in Players \ {p} : Q[a] = P[a]
  BY <1>1, MoveIs
<1>3. r \in Players /\ q \in Players /\ q # r
  BY RestIs DEF Followers
<1>4. CASE Q[r].dfr[q] /\ Q[r].df[q] = f
  <2>1. CASE r # p
    BY <1>2, <1>3, <1>4, <2>1 DEF Open
  <2>2. CASE r = p
    BY <1>3, <1>4, <2>2, RecordIs DEF Open
  <2> QED BY <2>1, <2>2
<1>5. ASSUME NEW m \in Sent(M, q, r), Names(m, f) PROVE Open(t, P, N, q, f) \/ (q = p /\ Announces(P[p], y, t) /\ f = P[p].frame)
  <2>1. CASE m \in Sent(N, q, r)
    BY <1>5, <2>1 DEF Open
  <2>2. CASE q = p /\ m \in Out(y, r)
    <3>1. Announces(P[p], y, t) \/ Decides(P[p], y, t)
      BY <1>3, <1>5, <2>2, SaysAnnouncement DEF Names
    <3>2. m.frame = P[p].frame
      BY <1>3, <1>5, <2>2, SaysAnnouncement DEF Names
    <3>3. ~Decides(P[p], y, t)
      BY <1>2, <1>3, <2>2 DEF Decides
    <3> QED BY <1>5, <2>2, <3>1, <3>2, <3>3 DEF Names
  <2> HIDE DEF r
  <2> QED BY <1>3, <2>1, <2>2, SentIs
<1> QED BY <1>4, <1>5 DEF Open

\* A turn before the drop.
LEMMA EarlyIs ==
    ASSUME NEW t \in Players, NEW P, NEW N, NEW Q, NEW M, NEW p, NEW y, NEW S, Turn(t, P, N, Q, M, p, y, S), In(P[Router(t)], t)
    PROVE  /\ p \in Rest(t) /\ p \in Players /\ P[p] \in Peers(t) /\ P[p].self = p
           /\ Alike(y, Q[p]) /\ Q[p] \in Peers(t) /\ Q[p].self = p /\ \A a \in Players \ {p} : Q[a] = P[a]
           /\ World(t, P, N) /\ Said(t, P, N) /\ Records(t, P) /\ Move(t, P, Q, M, p, y, S)
           /\ \A q \in Rest(t) : In(P[q], t) /\ q \in Players
           /\ ~TurnsOff(P[p], y, t) /\ ~TakesDrop(t, P, N, p, y, S)
           /\ Decides(P[p], y, t) => p = Router(t) /\ ~In(Q[p], t)
           /\ Router(t) \in Rest(t) /\ Router(t) \in Players
           /\ \A a, b \in Rest(t) : M[a][b] = IF a = p THEN S[a][b] \o y.out[b] ELSE S[a][b]
<1> DEFINE r == Router(t)
<1>1. World(t, P, N) /\ Move(t, P, Q, M, p, y, S) /\ Core(t, P, N) /\ Said(t, P, N) /\ Records(t, P) /\ Leaves(t, P)
  BY DEF Turn, Core
<1>2. /\ p \in Rest(t) /\ p \in Players /\ P[p] \in Peers(t) /\ P[p].self = p /\ Alike(y, Q[p]) /\ Q[p] \in Peers(t)
      /\ Q[p].self = p /\ \A a \in Players \ {p} : Q[a] = P[a]
  <2>1. World(t, Q, M)
    BY <1>1, MoveIs
  <2>2. p \in Players
    BY <1>1, MoveIs
  <2>3. Q[p].self = p
    BY <2>1, <2>2 DEF World
  <2> QED BY <1>1, <2>3, MoveIs
<1>3. r \in Rest(t) /\ r \in Players /\ \A q \in Rest(t) : q \in Players
  BY RestIs DEF Rest
<1>4. \A q \in Rest(t) : In(P[q], t)
  BY <1>1 DEF Leaves, In
<1>5. ~TurnsOff(P[p], y, t)
  BY <1>2, <1>4 DEF TurnsOff
<1>6. ~TakesDrop(t, P, N, p, y, S)
  <2>1. SUFFICES ASSUME NEW c \in DropCommand, Reads(N, S, r, p), c = Head(N[r][p]) PROVE FALSE
    BY DEF TakesDrop
  <2>2. c \in Sent(N, r, p)
    BY <1>1, <1>2, <1>3, <2>1, SentHead DEF World
  <2> QED BY <1>1, <1>2, <1>3, <2>2 DEF Said, Fits
<1>7. Decides(P[p], y, t) => p = r /\ ~In(Q[p], t)
  <2>1. SUFFICES ASSUME Decides(P[p], y, t) PROVE p = r /\ ~In(Q[p], t)
    OBVIOUS
  <2>2. Q[p].leave = [P[p].leave EXCEPT ![t] = P[p].frame] /\ p = r
    BY <1>2, <2>1 DEF Decides, Alike
  <2>3. P[p].leave \in [Players -> Frames \cup {Never}] /\ P[p].frame \in Nat /\ P[p].frame <= MaxFrame + 1
    <3>1. P[p] \in Peer /\ P[p].frame \in Nat /\ P[p].frame <= MaxFrame + 1
      BY <1>2, PeersAre
    <3> QED BY <3>1 DEF Peer
  <2>4. Q[p].leave[t] = P[p].frame
    BY <2>2, <2>3
  <2> QED BY <2>2, <2>3, <2>4, Numbers DEF In
<1>8. ASSUME NEW a \in Rest(t), NEW b \in Rest(t) PROVE M[a][b] = IF a = p THEN S[a][b] \o y.out[b] ELSE S[a][b]
  BY <1>1, <1>3 DEF Move
<1> QED BY <1>1, <1>2, <1>3, <1>4, <1>5, <1>6, <1>7, <1>8

\* What such a turn leaves of the announcement and its hold.
LEMMA EarlyHold ==
    ASSUME NEW t \in Players, NEW P, NEW N, NEW Q, NEW M, NEW p, NEW y, NEW S, Turn(t, P, N, Q, M, p, y, S), In(P[Router(t)], t)
    PROVE  \/ S = N /\ Announces(P[p], y, t) /\ Q[p].frame = P[p].frame /\ Q[p].ann = P[p].frame /\ Q[p].hold = "held"
              /\ Q[p].notified = P[p].frame
           \/ S = N /\ Decides(P[p], y, t)
           \/ S = N /\ Runs(P[p], y, t) /\ Q[p].frame = P[p].frame + 1 /\ Q[p].ann = P[p].ann /\ Q[p].hold = P[p].hold
           \/ S = N /\ Q[p].frame = P[p].frame /\ Q[p].ann = P[p].ann /\ Q[p].hold = P[p].hold /\ P[p].hold = "released"
              /\ \A a, b \in Players : N[a][b] = <<>>
           \/ /\ Q[p].frame = P[p].frame /\ Q[p].ann = P[p].ann /\ (Q[p].notified = P[p].notified \/ P[p].ann = 0)
              /\ \/ Q[p].hold = P[p].hold \/ P[p].frame > P[p].ann
                 \/ \E c \in Sent(N, Router(t), p) : p # Router(t) /\ Frees(c, p, P[p].ann)
<1>1. /\ p \in Rest(t) /\ p \in Players /\ P[p] \in Peers(t) /\ P[p].self = p /\ World(t, P, N)
      /\ Alike(y, Q[p]) /\ ~TurnsOff(P[p], y, t) /\ ~TakesDrop(t, P, N, p, y, S)
      /\ Router(t) \in Players
  BY EarlyIs
<1>2. y.frame = Q[p].frame /\ y.ann = Q[p].ann /\ y.hold = Q[p].hold /\ y.notified = Q[p].notified
  BY <1>1 DEF Alike
<1>3. CASE Idle(P[p], y, t) \/ Ignores(t, P, N, p, y, S)
  <2>1. Idle(P[p], y, t)
    BY <1>3 DEF Ignores
  <2> QED BY <1>2, <2>1 DEF Idle
<1>4. CASE S = N /\ Announces(P[p], y, t)
  BY <1>2, <1>4 DEF Announces
<1>5. CASE S = N /\ Runs(P[p], y, t)
  BY <1>2, <1>5 DEF Runs
<1>6. CASE S = N /\ Reopens(P[p], y, t) /\ \A a, b \in Players : N[a][b] = <<>>
  BY <1>2, <1>6 DEF Reopens
<1>7. CASE TakesFrame(t, P, N, p, y, S)
  BY <1>2, <1>7 DEF TakesFrame, Notes
<1>8. CASE TakesOff(t, P, N, p, y, S)
  <2>1. PICK q \in Rest(t) \ {p}, c \in ScreenOff :
          Reads(N, S, q, p) /\ c = Head(N[q][p]) /\ HearsOff(P[p], y, t, q, c)
    BY <1>8 DEF TakesOff
  <2>2. c \in Sent(N, q, p)
    BY <1>1, <2>1, SentHead DEF World, Rest
  <2>3. /\ y.frame = P[p].frame /\ y.ann = P[p].ann /\ y.notified = P[p].notified
        /\ y.hold = P[p].hold \/ (q = Router(t) /\ <<P[p].self, P[p].ann>> \in c.released)
    BY <2>1 DEF HearsOff
  <2>4. CASE y.hold = P[p].hold
    BY <1>2, <2>3, <2>4
  <2>5. CASE q = Router(t) /\ <<P[p].self, P[p].ann>> \in c.released
    <3>1. c \in Sent(N, Router(t), p) /\ p # Router(t) /\ Frees(c, p, P[p].ann)
      BY <1>1, <2>1, <2>2, <2>5 DEF Frees
    <3> QED BY <1>2, <2>3, <3>1
  <2> QED BY <2>3, <2>4, <2>5
<1> QED BY <1>1, <1>3, <1>4, <1>5, <1>6, <1>7, <1>8, TurnsAre

LEMMA RouterHoldsKept ==
    ASSUME NEW t \in Players, NEW P, NEW N, NEW Q, NEW M, NEW p, NEW y, NEW S, Turn(t, P, N, Q, M, p, y, S),
           In(P[Router(t)], t), In(Q[Router(t)], t), RouterHolds(t, P)
    PROVE  RouterHolds(t, Q)
<1> DEFINE r == Router(t)
<1>1. /\ p \in Rest(t) /\ P[p] \in Peers(t) /\ P[p].self = p /\ Q[p] \in Peers(t) /\ (\A a \in Players \ {p} : Q[a] = P[a])
      /\ Q[p].self = p /\ In(P[p], t)
      /\ Alike(y, Q[p]) /\ r \in Players /\ r \in Rest(t) /\ (Decides(P[p], y, t) => p = r /\ ~In(Q[p], t))
      /\ \A q \in Rest(t) : q \in Players
  BY EarlyIs
<1>2. CASE r # p
  BY <1>1, <1>2 DEF RouterHolds
<1>3. CASE r = p
  <2>1. P[p].ann \in Nat /\ P[p].frame \in Nat /\ P[p].ann <= P[p].frame /\ In(P[p], t) /\ Q[p].self = p
    BY <1>1, PeersAre
  <2>2. /\ P[p].ann # 0 /\ P[p].frame = P[p].ann => P[p].hold = "held"
        /\ P[p].ann # 0 /\ P[p].frame > P[p].ann => \E i \in Rest(t) \ {p} : P[p].df[i] > P[p].ann
    BY <1>1, <1>3, <2>1 DEF RouterHolds, Behind
  <2>3. \A i \in Rest(t) \ {p} : P[p].df[i] \in Nat /\ Q[p].df[i] \in Nat /\ P[p].df[i] <= Q[p].df[i]
    BY <1>1, RecordIs
  <2>4. CASE Q[p].frame = P[p].frame /\ Q[p].ann = P[p].frame /\ Q[p].hold = "held"
    BY <1>3, <2>1, <2>4 DEF RouterHolds, Behind
  <2>5. CASE Runs(P[p], y, t) /\ Q[p].frame = P[p].frame + 1 /\ Q[p].ann = P[p].ann /\ Q[p].hold = P[p].hold
    <3>1. P[p].hold = "held" /\ P[p].frame = P[p].ann => \E i \in Rest(t) \ {p} : P[p].df[i] > P[p].frame
      BY <1>1, <2>5 DEF Runs
    <3>2. P[p].ann # 0 => \E i \in Rest(t) \ {p} : P[p].df[i] > P[p].ann
      BY <2>1, <2>2, <3>1
    <3>3. P[p].ann # 0 => \E i \in Rest(t) \ {p} : Q[p].df[i] > P[p].ann
      BY <2>1, <2>3, <3>2
    <3> QED BY <1>3, <2>1, <2>5, <3>3 DEF RouterHolds, Behind
  <2>6. CASE Q[p].frame = P[p].frame /\ Q[p].ann = P[p].ann /\ (Q[p].hold = P[p].hold \/ P[p].frame > P[p].ann)
    <3>1. P[p].ann # 0 /\ P[p].frame > P[p].ann => \E i \in Rest(t) \ {p} : Q[p].df[i] > P[p].ann
      BY <2>1, <2>2, <2>3
    <3> QED BY <1>3, <2>1, <2>2, <2>6, <3>1 DEF RouterHolds, Behind
  <2> QED BY <1>1, <1>3, <2>4, <2>5, <2>6, EarlyHold
<1> QED BY <1>2, <1>3

LEMMA HoldsKept ==
    ASSUME NEW t \in Players, NEW P, NEW N, NEW Q, NEW M, NEW p, NEW y, NEW S, Turn(t, P, N, Q, M, p, y, S),
           In(P[Router(t)], t), In(Q[Router(t)], t), Holds(t, P, N), Closed(t, P, N)
    PROVE  Holds(t, Q, M)
<1> SUFFICES ASSUME NEW q \in Followers(t), Open(t, Q, M, q, Q[q].frame)
             PROVE  Q[q].ann = Q[q].frame /\ Q[q].hold = "held"
  BY DEF Holds
<1>1. /\ p \in Rest(t) /\ P[p] \in Peers(t) /\ P[p].self = p /\ Q[p] \in Peers(t) /\ (\A a \in Players \ {p} : Q[a] = P[a])
      /\ Said(t, P, N) /\ Records(t, P)
      /\ Alike(y, Q[p]) /\ Router(t) \in Players /\ Router(t) \in Rest(t) /\ (Decides(P[p], y, t) => p = Router(t) /\ ~In(Q[p], t))
  BY EarlyIs
<1>2. q \in Players /\ q \in Rest(t) /\ q # Router(t)
  BY DEF Followers, Rest
<1>3. P[q].ann \in Nat /\ P[q].frame \in Nat /\ P[q].ann <= P[q].frame
  BY <1>2, Rises
<1>4. Open(t, P, N, q, P[q].frame) => P[q].ann = P[q].frame /\ P[q].hold = "held"
  BY DEF Holds
<1>5. \A f : Open(t, P, N, q, f) => f <= P[q].ann
  <2>1. \A m \in Sent(N, q, Router(t)) : \A f : Names(m, f) => f <= P[q].ann
    BY <1>1, <1>2 DEF Said, Fits, Names
  <2> QED BY <1>1, <1>2, <2>1 DEF Open, Records
<1>6. Open(t, P, N, q, Q[q].frame) \/ (q = p /\ Announces(P[p], y, t) /\ Q[q].frame = P[p].frame)
  BY OpenKept
<1>7. CASE q # p
  BY <1>1, <1>2, <1>4, <1>6, <1>7
<1>8. CASE q = p
  <2>1. CASE Q[p].frame = P[p].frame /\ Q[p].ann = P[p].frame /\ Q[p].hold = "held"
    BY <1>8, <2>1
  <2>2. CASE Q[p].frame = P[p].frame + 1 /\ Runs(P[p], y, t)
    <3>1. ~Announces(P[p], y, t)
      <4>1. P[p].frame # P[p].frame + 1
        BY <1>3, <1>8
      <4> QED BY <2>2, <4>1 DEF Runs, Announces
    <3>2. Q[q].frame <= P[q].ann
      BY <1>5, <1>6, <3>1
    <3> QED BY <1>3, <1>8, <2>2, <3>2
  <2>3. CASE Q[p].frame = P[p].frame /\ Q[p].ann = P[p].ann
    <3>1. CASE Announces(P[p], y, t)
      <4>1. y.ann = P[p].frame /\ y.hold = "held"
        BY <3>1 DEF Announces
      <4> QED BY <1>1, <1>8, <2>3, <4>1 DEF Alike
    <3>2. CASE Open(t, P, N, q, P[q].frame)
      <4>1. P[p].ann = P[p].frame /\ P[p].hold = "held"
        BY <1>4, <1>8, <3>2
      <4>2. CASE Q[p].hold = P[p].hold
        BY <1>8, <2>3, <4>1, <4>2
      <4>3. CASE \E c \in Sent(N, Router(t), p) : Frees(c, p, P[p].ann)
        <5>1. PICK c \in Sent(N, Router(t), p) : Frees(c, p, P[p].ann)
          BY <4>3
        <5>2. P[p].ann \in Stand
          <6>1. P[p] \in Peer
            BY <1>1, PeersAre
          <6> QED BY <6>1 DEF Peer
        <5>3. ~Open(t, P, N, q, P[p].ann)
          BY <1>8, <5>1, <5>2 DEF Closed
        <5> QED BY <1>8, <3>2, <4>1, <5>3
      <4>4. \/ Q[p].hold = P[p].hold \/ P[p].frame > P[p].ann \/ Q[p].hold = "held"
            \/ \E c \in Sent(N, Router(t), p) : Frees(c, p, P[p].ann)
        BY <1>1, <1>2, <1>8, EarlyHold
      <4> QED BY <1>3, <1>8, <2>3, <4>1, <4>2, <4>3, <4>4
    <3> QED BY <1>6, <1>8, <2>3, <3>1, <3>2
  <2> QED BY <1>1, <1>2, <1>8, <2>1, <2>2, <2>3, EarlyHold
<1> QED BY <1>7, <1>8

\* What a turn leaves of the streams between a follower and the router.
LEMMA ClosedKept ==
    ASSUME NEW t \in Players, NEW P, NEW N, NEW Q, NEW M, NEW p, NEW y, NEW S, Turn(t, P, N, Q, M, p, y, S),
           In(P[Router(t)], t), In(Q[Router(t)], t), Closed(t, P, N), Fresh(t, P, N), Rising(t, N)
    PROVE  Closed(t, Q, M)
<1> DEFINE r == Router(t)
<1> SUFFICES ASSUME NEW q \in Followers(t), NEW m \in Sent(M, r, q), NEW f \in Stand, Frees(m, q, f)
             PROVE  ~Open(t, Q, M, q, f) /\ f <= Q[q].ann
  BY DEF Closed
<1>1. /\ p \in Rest(t) /\ p \in Players /\ P[p] \in Peers(t) /\ P[p].self = p /\ Q[p] \in Peers(t) /\ (\A a \in Players \ {p} : Q[a] = P[a])
      /\ World(t, P, N) /\ Said(t, P, N) /\ Alike(y, Q[p]) /\ r \in Players /\ r \in Rest(t) /\ ~TurnsOff(P[p], y, t)
      /\ \A a, b \in Rest(t) : M[a][b] = IF a = p THEN S[a][b] \o y.out[b] ELSE S[a][b]
  BY EarlyIs
<1>2. q \in Players /\ q \in Rest(t) /\ q # r
  BY DEF Followers, Rest
<1>3. P[q].ann \in Nat /\ P[q].frame \in Nat /\ P[q].ann <= P[q].frame /\ P[q].ann <= Q[q].ann /\ Q[q].ann \in Nat
  BY <1>2, Rises
<1>4. f \in Nat
  BY Numbers DEF Stand
<1> HIDE DEF r
<1>5. CASE m \in Sent(N, r, q)
  <2>1. ~Open(t, P, N, q, f) /\ f <= P[q].ann
    BY <1>5 DEF Closed, r
  <2>2. ASSUME q = p, Announces(P[p], y, t), f = P[p].frame PROVE FALSE
    <3>1. P[q].ann < P[q].frame \/ P[q].notified # P[q].frame
      BY <2>2 DEF Announces
    <3>2. P[q].ann = P[q].frame /\ P[q].notified # P[q].frame
      BY <1>3, <1>4, <2>1, <2>2, <3>1
    <3>3. ~Frees(m, q, P[q].ann)
      BY <1>5, <3>2 DEF Fresh, r
    <3> QED BY <2>2, <3>2, <3>3
  <2>3. ~Open(t, Q, M, q, f)
    BY <2>1, <2>2, OpenKept
  <2> QED BY <1>3, <1>4, <2>1, <2>3
<1>6. CASE r = p /\ m \in Out(y, q)
  <2>1. PICK a \in Rest(t) \ {p}, c \in Announcement :
          /\ Reads(N, S, a, p) /\ c = Head(N[a][p]) /\ Notes(P[p], y, t, a, c.frame)
          /\ y.dfr = [P[p].dfr EXCEPT ![a] = FALSE] /\ m = Closing(P[p], a, c.frame)
    BY <1>1, <1>2, <1>6, SaysOff DEF Frees
  <2>2. a = q /\ c.frame = f
    BY <2>1 DEF Frees, Closing
  <2>3. c \in Sent(N, q, r)
    BY <1>1, <1>2, <1>6, <2>1, <2>2, SentHead DEF World
  <2>4. f <= Q[q].ann
    <3>1. c.frame <= P[q].ann
      BY <1>1, <1>2, <2>3 DEF Said, Fits
    <3> QED BY <1>3, <1>4, <2>2, <3>1
  <2>5. ~Q[r].dfr[q]
    <3>1. P[p].dfr \in [Players -> BOOLEAN]
      <4>1. P[p] \in Peer
        BY <1>1, PeersAre
      <4> QED BY <4>1 DEF Peer
    <3>2. Q[r].dfr = y.dfr
      BY <1>1, <1>6 DEF Alike
    <3> QED BY <1>2, <2>1, <2>2, <3>1, <3>2
  <2>6. ASSUME NEW k \in Sent(M, q, r), Names(k, f) PROVE FALSE
    <3> DEFINE s == N[q][r]
    <3>1. M[q][r] = Tail(s) /\ s \in Seq(Message) /\ s # <<>>
      <4>1. M[q][r] = S[q][r]
        BY <1>1, <1>2, <1>6
      <4>2. S = [N EXCEPT ![q][r] = Tail(N[q][r])] /\ s # <<>>
        BY <1>6, <2>1, <2>2 DEF Reads
      <4>3. s \in Seq(Message) /\ N \in [Players -> [Players -> Seq(Message)]]
        BY <1>1, <1>2 DEF World
      <4> QED BY <1>1, <1>2, <4>1, <4>2, <4>3
    <3>2. PICK i \in 1 .. Len(M[q][r]) : k = M[q][r][i]
      BY <2>6 DEF Sent
    <3>3. k = s[i + 1] /\ i + 1 \in 1 .. Len(s) /\ 1 \in 1 .. Len(s) /\ s[1] = c /\ i \in Nat /\ 1 < i + 1
      BY <1>6, <2>1, <2>2, <3>1, <3>2
    <3>4. c.frame < k.frame
      BY <2>6, <3>3 DEF Rising, Names, r
    <3> QED BY <1>4, <2>2, <2>6, <3>4 DEF Names
  <2> QED BY <2>4, <2>5, <2>6 DEF Open, r
<1> QED BY <1>1, <1>2, <1>5, <1>6, SentIs

LEMMA FreshKept ==
    ASSUME NEW t \in Players, NEW P, NEW N, NEW Q, NEW M, NEW p, NEW y, NEW S, Turn(t, P, N, Q, M, p, y, S),
           In(P[Router(t)], t), In(Q[Router(t)], t), Fresh(t, P, N)
    PROVE  Fresh(t, Q, M)
<1> DEFINE r == Router(t)
<1> SUFFICES ASSUME NEW q \in Followers(t), Q[q].ann = Q[q].frame, Q[q].notified # Q[q].frame
             PROVE  /\ \A m \in Sent(M, r, q) : ~Frees(m, q, Q[q].ann)
                    /\ \A m \in Sent(M, q, r) : ~Names(m, Q[q].ann)
  BY DEF Fresh
<1>1. /\ p \in Rest(t) /\ p \in Players /\ P[p] \in Peers(t) /\ P[p].self = p /\ Q[p] \in Peers(t) /\ (\A a \in Players \ {p} : Q[a] = P[a])
      /\ World(t, P, N) /\ Said(t, P, N) /\ Alike(y, Q[p]) /\ r \in Players /\ r \in Rest(t) /\ ~TurnsOff(P[p], y, t)
      /\ (Decides(P[p], y, t) => p = r /\ ~In(Q[p], t))
  BY EarlyIs
<1>2. q \in Players /\ q \in Rest(t) /\ q # r
  BY DEF Followers, Rest
<1>3. P[q].ann \in Nat /\ P[q].frame \in Nat /\ P[q].ann <= P[q].frame /\ P[q].frame >= 1
  BY <1>1, <1>2, Rises, PeersAre DEF World
<1>4. \/ P[q].ann = P[q].frame /\ P[q].notified # P[q].frame /\ Q[q].ann = P[q].ann /\ (q = p => ~Announces(P[p], y, t))
      \/ \A a, b \in Players : N[a][b] = <<>> /\ (q = p => ~Announces(P[p], y, t))
  <2>1. CASE q # p
    BY <1>1, <1>2, <2>1
  <2>2. CASE q = p
    <3>1. Announces(P[p], y, t) => y.ann = P[p].frame /\ y.notified = P[p].frame /\ y.frame = P[p].frame
      BY DEF Announces
    <3>2. ~Announces(P[p], y, t)
      BY <1>1, <2>2, <3>1 DEF Alike
    <3>3. ~(Q[p].frame = P[p].frame + 1 /\ Q[p].ann = P[p].ann)
      BY <1>3, <2>2
    <3>4. CASE \A a, b \in Players : N[a][b] = <<>>
      BY <3>2, <3>4
    <3>5. CASE Q[p].frame = P[p].frame /\ Q[p].ann = P[p].ann /\ (Q[p].notified = P[p].notified \/ P[p].ann = 0)
      BY <1>3, <2>2, <3>2, <3>5
    <3> QED BY <1>1, <1>2, <2>2, <3>2, <3>3, <3>4, <3>5, EarlyHold
  <2> QED BY <2>1, <2>2
<1> HIDE DEF r
<1>5. ASSUME NEW m \in Sent(M, q, r), Names(m, Q[q].ann) PROVE FALSE
  <2>1. CASE m \in Sent(N, q, r)
    <3>1. N[q][r] # <<>>
      BY <2>1 DEF Sent
    <3>2. P[q].ann = P[q].frame /\ P[q].notified # P[q].frame /\ Q[q].ann = P[q].ann
      BY <1>1, <1>2, <1>4, <3>1
    <3> QED BY <1>5, <2>1, <3>2 DEF Fresh, r
  <2>2. CASE q = p /\ m \in Out(y, r)
    <3>1. Announces(P[p], y, t) \/ Decides(P[p], y, t)
      BY <1>1, <1>5, <2>2, SaysAnnouncement DEF Names
    <3> QED BY <1>1, <1>2, <1>3, <1>4, <2>2, <3>1
  <2> QED BY <1>1, <1>2, <2>1, <2>2, SentIs
<1>6. ASSUME NEW m \in Sent(M, r, q), Frees(m, q, Q[q].ann) PROVE FALSE
  <2>1. CASE m \in Sent(N, r, q)
    <3>1. N[r][q] # <<>>
      BY <2>1 DEF Sent
    <3>2. P[q].ann = P[q].frame /\ P[q].notified # P[q].frame /\ Q[q].ann = P[q].ann
      BY <1>1, <1>2, <1>4, <3>1
    <3> QED BY <1>6, <2>1, <3>2 DEF Fresh, r
  <2>2. CASE r = p /\ m \in Out(y, q)
    <3>1. PICK a \in Rest(t) \ {p}, c \in Announcement :
          /\ Reads(N, S, a, p) /\ c = Head(N[a][p]) /\ Notes(P[p], y, t, a, c.frame)
          /\ y.dfr = [P[p].dfr EXCEPT ![a] = FALSE] /\ m = Closing(P[p], a, c.frame)
      BY <1>1, <1>2, <1>6, <2>2, SaysOff DEF Frees
    <3>2. a = q /\ c.frame = Q[q].ann
      BY <1>6, <3>1 DEF Frees, Closing
    <3>3. c \in Sent(N, q, r) /\ N[q][r] # <<>>
      <4>1. c \in Sent(N, q, r)
        BY <1>1, <1>2, <2>2, <3>1, <3>2, SentHead DEF World
      <4> QED BY <2>2, <3>1, <3>2, <4>1 DEF Reads
    <3>4. P[q].ann = P[q].frame /\ P[q].notified # P[q].frame /\ Q[q].ann = P[q].ann
      BY <1>1, <1>2, <1>4, <3>3
    <3> QED BY <3>2, <3>3, <3>4 DEF Fresh, Names, r
  <2> QED BY <1>1, <1>2, <2>1, <2>2, SentIs
<1> QED BY <1>5, <1>6 DEF r

LEMMA RisingKept ==
    ASSUME NEW t \in Players, NEW P, NEW N, NEW Q, NEW M, NEW p, NEW y, NEW S, Turn(t, P, N, Q, M, p, y, S),
           In(P[Router(t)], t), In(Q[Router(t)], t), Fresh(t, P, N), Rising(t, N)
    PROVE  Rising(t, M)
<1> DEFINE r == Router(t)
<1> SUFFICES ASSUME NEW q \in Followers(t), NEW j \in 1 .. Len(M[q][r]), NEW k \in 1 .. Len(M[q][r]),
                    j < k, M[q][r][j] \in Announcement, M[q][r][k] \in Announcement
             PROVE  M[q][r][j].frame < M[q][r][k].frame
  BY DEF Rising
<1>1. /\ p \in Rest(t) /\ p \in Players /\ P[p] \in Peers(t) /\ P[p].self = p /\ Q[p] \in Peers(t) /\ (\A a \in Players \ {p} : Q[a] = P[a])
      /\ World(t, P, N) /\ Said(t, P, N) /\ Alike(y, Q[p]) /\ r \in Players /\ r \in Rest(t) /\ ~TurnsOff(P[p], y, t)
      /\ (Decides(P[p], y, t) => p = r /\ ~In(Q[p], t)) /\ Move(t, P, Q, M, p, y, S)
      /\ \A a, b \in Rest(t) : M[a][b] = IF a = p THEN S[a][b] \o y.out[b] ELSE S[a][b]
  BY EarlyIs
<1>2. q \in Players /\ q \in Rest(t) /\ q # r
  BY DEF Followers, Rest
<1>3. P[q].ann \in Nat /\ P[q].frame \in Nat /\ P[q].ann <= P[q].frame
  BY <1>2, Rises
<1>4. N \in [Players -> [Players -> Seq(Message)]] /\ N[q][r] \in Seq(Message)
  BY <1>1, <1>2 DEF World
<1>5. S[q][r] = N[q][r] \/ (r = p /\ N[q][r] # <<>> /\ S[q][r] = Tail(N[q][r]))
  <2>1. S = N \/ \E a \in Players : Reads(N, S, a, p)
    BY DEF Turn, Kind
  <2>2. ASSUME NEW a \in Players, Reads(N, S, a, p) PROVE S[q][r] = N[q][r] \/ (r = p /\ N[q][r] # <<>> /\ S[q][r] = Tail(N[q][r]))
    <3>1. S = [N EXCEPT ![a][p] = Tail(N[a][p])] /\ N[a][p] # <<>>
      BY <2>2 DEF Reads
    <3> QED BY <1>1, <1>2, <1>4, <3>1
  <2> QED BY <2>1, <2>2
<1>6. \A i, n \in 1 .. Len(N[q][r]) :
        i < n /\ N[q][r][i] \in Announcement /\ N[q][r][n] \in Announcement => N[q][r][i].frame < N[q][r][n].frame
  BY DEF Rising
<1> DEFINE s == N[q][r]
           u == y.out[r]
<1> HIDE DEF r, s, u
<1>7. CASE M[q][r] = s
  BY <1>6, <1>7 DEF s
<1>8. CASE r = p /\ s # <<>> /\ M[q][r] = Tail(s)
  <2>1. s \in Seq(Message)
    BY <1>4 DEF s
  <2>2. /\ M[q][r][j] = s[j + 1] /\ M[q][r][k] = s[k + 1] /\ j + 1 \in 1 .. Len(s) /\ k + 1 \in 1 .. Len(s) /\ j + 1 < k + 1
    BY <1>8, <2>1
  <2> QED BY <1>6, <2>2 DEF s
<1>9. CASE q = p /\ M[q][r] = s \o u
  <2>1. s \in Seq(Message) /\ u \in Seq(Message)
    <3>1. y.out \in [Players -> Seq(Message)]
      <4>1. y \in Peer
        BY <1>1, PlayingAre DEF Move
      <4> QED BY <4>1 DEF Peer
    <3> QED BY <1>1, <1>4, <3>1 DEF s, u
  <2>2. \A i \in 1 .. Len(u) : u[i] \in Announcement => /\ i = 1 /\ u[i].frame = P[q].frame /\ Announces(P[q], y, t)
    <3>1. SUFFICES ASSUME NEW i \in 1 .. Len(u), u[i] \in Announcement
                   PROVE i = 1 /\ u[i].frame = P[q].frame /\ Announces(P[q], y, t)
      OBVIOUS
    <3>2. u[i] \in Out(y, r)
      BY DEF Out, u
    <3>3. u[i].frame = P[q].frame /\ (Announces(P[q], y, t) \/ Decides(P[q], y, t))
      BY <1>1, <1>9, <3>1, <3>2, SaysAnnouncement
    <3>4. Announces(P[q], y, t)
      BY <1>1, <1>2, <1>9, <3>3
    <3>5. \A n \in 2 .. Len(u) : u[n] \in Plain(t)
      BY <1>1, <3>4 DEF Announces, u
    <3>6. i \notin 2 .. Len(u)
      BY <3>1, <3>5, PlainIs
    <3>7. Len(u) \in Nat
      BY <2>1
    <3>8. i = 1
      BY <3>6, <3>7
    <3> QED BY <3>3, <3>4, <3>8
  <2>3. \A i \in 1 .. Len(s) : s[i] \in Announcement /\ Announces(P[q], y, t) => s[i].frame < P[q].frame
    <3>1. SUFFICES ASSUME NEW i \in 1 .. Len(s), s[i] \in Announcement, Announces(P[q], y, t) PROVE s[i].frame < P[q].frame
      OBVIOUS
    <3>2. s[i] \in Sent(N, q, r)
      BY DEF Sent, s
    <3>3. s[i].frame <= P[q].ann
      BY <1>1, <1>2, <3>1, <3>2 DEF Said, Fits
    <3>4. s[i].frame \in Nat
      BY <3>1, Numbers DEF Announcement, Stand
    <3>5. P[q].ann < P[q].frame \/ P[q].notified # P[q].frame
      BY <3>1 DEF Announces
    <3>6. P[q].ann = P[q].frame /\ P[q].notified # P[q].frame => s[i].frame # P[q].ann
      BY <3>1, <3>2 DEF Fresh, Names, r
    <3> QED BY <1>3, <3>3, <3>4, <3>5, <3>6
  <2>4. j \in 1 .. Len(s \o u) /\ k \in 1 .. Len(s \o u)
    BY <1>9
  <2>5. /\ Len(s) \in Nat /\ Len(u) \in Nat
        /\ \A i \in 1 .. Len(s) : (s \o u)[i] = s[i]
        /\ \A i \in 1 .. Len(u) : (s \o u)[Len(s) + i] = u[i]
        /\ \A i \in 1 .. Len(s \o u) : i \in 1 .. Len(s) \/ \E n \in 1 .. Len(u) : i = Len(s) + n
    BY <2>1, Joined
  <2>6. CASE k \in 1 .. Len(s)
    <3>1. j \in 1 .. Len(s)
      BY <2>4, <2>5, <2>6
    <3> QED BY <1>6, <1>9, <2>5, <2>6, <3>1 DEF s
  <2>7. ASSUME NEW n \in 1 .. Len(u), k = Len(s) + n PROVE M[q][r][j].frame < M[q][r][k].frame
    <3>1. M[q][r][k] = u[n] /\ u[n] \in Announcement
      BY <1>9, <2>5, <2>7
    <3>2. n = 1 /\ u[n].frame = P[q].frame /\ Announces(P[q], y, t)
      BY <2>2, <3>1
    <3>3. j \in 1 .. Len(s)
      BY <2>4, <2>5, <2>7, <3>2
    <3>4. M[q][r][j] = s[j]
      BY <1>9, <2>5, <3>3
    <3> QED BY <2>3, <3>1, <3>2, <3>3, <3>4
  <2> QED BY <2>4, <2>5, <2>6, <2>7
<1>10. M[q][r] = IF q = p THEN S[q][r] \o u ELSE S[q][r]
  BY <1>1, <1>2 DEF u
<1> QED BY <1>2, <1>5, <1>7, <1>8, <1>9, <1>10 DEF s

LEMMA FirstKept ==
    ASSUME NEW t \in Players, NEW P, NEW N, NEW Q, NEW M, NEW p, NEW y, NEW S, Turn(t, P, N, Q, M, p, y, S),
           In(P[Router(t)], t), In(Q[Router(t)], t), First(t, P, N), Holds(t, P, N)
    PROVE  First(t, Q, M)
<1> SUFFICES ASSUME NEW f \in Stand, NEW e \in Rest(t), Q[e].frame > f
             PROVE  \E i \in Rest(t) : Q[i].frame > f /\ (i = Router(t) \/ ~Open(t, Q, M, i, f))
  BY DEF First
<1>1. /\ p \in Rest(t) /\ p \in Players /\ P[p] \in Peers(t) /\ P[p].self = p /\ (\A a \in Players \ {p} : Q[a] = P[a])
      /\ Records(t, P) /\ \A a \in Rest(t) : a \in Players
  BY EarlyIs
<1>2. f \in Nat
  BY Numbers DEF Stand
<1>3. \A a \in Rest(t) : /\ P[a].frame \in Nat /\ Q[a].frame \in Nat /\ P[a].frame <= Q[a].frame
                         /\ Q[a].frame # P[a].frame => a = p /\ Q[a].frame = P[a].frame + 1 /\ S = N /\ Runs(P[p], y, t)
  BY Rises
<1>4. CASE \E i \in Rest(t) : P[i].frame > f
  <2>1. PICK i \in Rest(t) : P[i].frame > f /\ (i = Router(t) \/ ~Open(t, P, N, i, f))
    BY <1>4 DEF First
  <2>2. Q[i].frame > f
    BY <1>2, <1>3, <2>1
  <2>3. CASE i = Router(t)
    BY <2>2, <2>3
  <2>4. CASE i # Router(t) /\ ~Open(t, P, N, i, f)
    <3>1. ~(i = p /\ f = P[p].frame)
      BY <1>2, <1>3, <2>1
    <3>2. ~Open(t, Q, M, i, f)
      BY <2>4, <3>1, OpenKept DEF Followers
    <3> QED BY <2>2, <3>2
  <2> QED BY <2>1, <2>3, <2>4
<1>5. CASE \A i \in Rest(t) : ~(P[i].frame > f)
  <2>1. e = p /\ Q[p].frame = P[p].frame + 1 /\ Runs(P[p], y, t)
    <3>1. Q[e].frame # P[e].frame
      BY <1>5
    <3> QED BY <1>3, <3>1
  <2>2. f = P[p].frame
    BY <1>1, <1>2, <1>3, <1>5, <2>1
  <2>3. CASE p = Router(t)
    BY <1>1, <2>1, <2>3
  <2>4. CASE p # Router(t)
    <3>1. ASSUME Open(t, P, N, p, f) PROVE FALSE
      <4>1. P[p].hold = "held" /\ P[p].frame = P[p].ann
        BY <1>1, <2>2, <2>4, <3>1 DEF Holds, Followers
      <4>2. PICK i \in Rest(t) \ {p} : P[p].df[i] > P[p].frame
        BY <1>1, <2>1, <4>1 DEF Runs
      <4>3. P[p].df[i] <= P[i].frame
        BY <1>1 DEF Records
      <4>4. P[p].df[i] \in Nat
        BY <1>1, RecordIs
      <4> QED BY <1>2, <1>3, <1>5, <2>2, <4>2, <4>3, <4>4
    <3>2. ~Announces(P[p], y, t)
      <4>1. y.frame = P[p].frame + 1
        BY <2>1 DEF Runs
      <4>2. P[p].frame # P[p].frame + 1
        BY <1>1, <1>3
      <4> QED BY <4>1, <4>2 DEF Announces
    <3>3. ~Open(t, Q, M, p, f)
      BY <1>1, <2>4, <3>1, <3>2, OpenKept DEF Followers
    <3> QED BY <1>1, <2>1, <3>3
  <2> QED BY <2>3, <2>4
<1> QED BY <1>4, <1>5

LEMMA BeforeKept ==
    ASSUME NEW t \in Players, NEW P, NEW N, NEW Q, NEW M, NEW p, NEW y, NEW S, Turn(t, P, N, Q, M, p, y, S),
           In(P[Router(t)], t), In(Q[Router(t)], t), Before(t, P, N)
    PROVE  Before(t, Q, M)
<1>1. RouterHolds(t, P) /\ Holds(t, P, N) /\ Closed(t, P, N) /\ Fresh(t, P, N) /\ Rising(t, N) /\ First(t, P, N)
  BY DEF Before
<1>2. RouterHolds(t, Q) /\ Holds(t, Q, M)
  BY <1>1, RouterHoldsKept, HoldsKept
<1>3. Closed(t, Q, M) /\ Fresh(t, Q, M)
  BY <1>1, ClosedKept, FreshKept
<1>4. Rising(t, M) /\ First(t, Q, M)
  BY <1>1, RisingKept, FirstKept
<1> QED BY <1>2, <1>3, <1>4 DEF Before

-----------------------------------------------------------------------------
\* After the router dropped t at frame L.

Dated(m) == m \in Announcement \cup ScreenOff

\* The drop is on its way to q, behind the announcement that makes it count,
\* and nothing before it lets q past the frame.
Coming(s, q, f, b) == \E k \in 1 .. Len(s) :
    /\ s[k] \in DropCommand
    /\ \A j \in 1 .. k - 1 : (Dated(s[j]) => s[j].frame <= f) /\ ~Frees(s[j], q, f)
    /\ b >= f \/ \E j \in 1 .. k - 1 : Names(s[j], f)

\* Who did not drop t yet stands on that frame and holds it.
Stands(x, f) == x.frame = f /\ x.ann = f /\ x.hold = "held" /\ \A i \in Players : x.df[i] <= f

Waits(t, P, N) == \A q \in Rest(t) : In(P[q], t) =>
    /\ Stands(P[q], P[Router(t)].leave[t])
    /\ \A i \in Followers(t) \ {q} : \A m \in Sent(N, i, q) : Dated(m) => m.frame <= P[Router(t)].leave[t]
    /\ Coming(N[Router(t)][q], q, P[Router(t)].leave[t], P[q].by[Router(t)])

\* Who dropped t turns the screen off before it goes on.
Offs(t, P) == \A q \in Followers(t) :
    ~In(P[q], t) /\ P[q].screen => P[q].frame = P[q].leave[t] /\ P[q].due

After(t, P, N) == Waits(t, P, N) /\ Offs(t, P)

LEMMA ComingMore ==
    ASSUME NEW s \in Seq(Message), NEW u \in Seq(Message), NEW q, NEW f, NEW b, Coming(s, q, f, b)
    PROVE  Coming(s \o u, q, f, b)
<1>1. PICK k \in 1 .. Len(s) :
        /\ s[k] \in DropCommand
        /\ \A j \in 1 .. k - 1 : (Dated(s[j]) => s[j].frame <= f) /\ ~Frees(s[j], q, f)
        /\ b >= f \/ \E j \in 1 .. k - 1 : Names(s[j], f)
  BY DEF Coming
<1> DEFINE v == s \o u
<1>2. Len(s) \in Nat /\ \A j \in 1 .. Len(s) : j \in 1 .. Len(v) /\ v[j] = s[j]
  BY Joined
<1> HIDE DEF v
<1>3. \A j \in 1 .. k - 1 : j \in 1 .. Len(s)
  BY <1>2
<1>4. k \in 1 .. Len(v) /\ v[k] = s[k] /\ \A j \in 1 .. k - 1 : v[j] = s[j]
  BY <1>2, <1>3
<1>5. Coming(v, q, f, b)
  BY <1>1, <1>4 DEF Coming
<1> QED BY <1>5 DEF v

\* The head of such a stream, and what follows it.
LEMMA ComingHead ==
    ASSUME NEW s \in Seq(Message), NEW q, NEW f, NEW b, Coming(s, q, f, b)
    PROVE  /\ s # <<>> /\ (Dated(Head(s)) => Head(s).frame <= f) /\ ~Frees(Head(s), q, f)
           /\ \A c : c >= b /\ (b >= f => c >= f) /\ ~(Head(s) \in DropCommand /\ b >= f) /\ (Names(Head(s), f) => c >= f)
                       => Coming(Tail(s), q, f, c)
<1>1. PICK k \in 1 .. Len(s) :
        /\ s[k] \in DropCommand
        /\ \A j \in 1 .. k - 1 : (Dated(s[j]) => s[j].frame <= f) /\ ~Frees(s[j], q, f)
        /\ b >= f \/ \E j \in 1 .. k - 1 : Names(s[j], f)
  BY DEF Coming
<1>2. s # <<>> /\ Len(s) \in Nat /\ Head(s) = s[1]
  BY <1>1
<1> DEFINE v == Tail(s)
<1>3. Len(v) = Len(s) - 1 /\ \A j \in 1 .. Len(v) : v[j] = s[j + 1]
  BY <1>2
<1> HIDE DEF v
<1>4. (Dated(Head(s)) => Head(s).frame <= f) /\ ~Frees(Head(s), q, f)
  <2>1. CASE k = 1
    BY <1>1, <1>2, <2>1, KindsOfMessage DEF Dated, Frees
  <2>2. CASE k # 1
    <3>1. 1 \in 1 .. k - 1
      BY <1>2, <2>2
    <3> QED BY <1>1, <1>2, <3>1
  <2> QED BY <2>1, <2>2
<1>5. ASSUME NEW c, c >= b /\ (b >= f => c >= f) /\ ~(Head(s) \in DropCommand /\ b >= f) /\ (Names(Head(s), f) => c >= f)
      PROVE Coming(v, q, f, c)
  <2>1. k # 1
    BY <1>1, <1>2, <1>5
  <2>2. k - 1 \in 1 .. Len(v) /\ v[k - 1] = s[k]
    <3>1. k - 1 \in 1 .. Len(v) /\ (k - 1) + 1 = k
      BY <1>2, <1>3, <2>1
    <3> QED BY <1>3, <3>1
  <2>3. \A j \in 1 .. (k - 1) - 1 : v[j] = s[j + 1] /\ j + 1 \in 1 .. k - 1
    BY <1>2, <1>3
  <2>4. c >= f \/ \E j \in 1 .. (k - 1) - 1 : Names(v[j], f)
    <3>1. CASE b >= f
      BY <1>5, <3>1
    <3>2. ASSUME NEW j \in 1 .. k - 1, Names(s[j], f) PROVE c >= f \/ \E i \in 1 .. (k - 1) - 1 : Names(v[i], f)
      <4>1. CASE j = 1
        BY <1>2, <1>5, <3>2, <4>1
      <4>2. CASE j # 1
        <5>1. j - 1 \in 1 .. (k - 1) - 1 /\ (j - 1) + 1 = j
          BY <1>2, <4>2
        <5>2. v[j - 1] = s[j]
          BY <2>3, <5>1
        <5> QED BY <3>2, <5>1, <5>2
      <4> QED BY <4>1, <4>2
    <3> QED BY <1>1, <3>1, <3>2
  <2> QED BY <1>1, <2>2, <2>3, <2>4 DEF Coming
<1> QED BY <1>2, <1>4, <1>5 DEF v

\* The drop itself: everybody stands on the frame, announced it and holds it.
LEMMA DropsAll ==
    ASSUME NEW t \in Players, NEW P, NEW N, NEW Q, NEW M, NEW p, NEW y, NEW S, Turn(t, P, N, Q, M, p, y, S),
           In(P[Router(t)], t), Before(t, P, N), Decides(P[p], y, t), NEW q \in Followers(t)
    PROVE  Stands(P[q], P[p].frame) /\ Open(t, P, N, q, P[p].frame)
<1> DEFINE f == P[p].frame
<1>1. /\ p = Router(t) /\ p \in Rest(t) /\ p \in Players /\ P[p].self = p /\ Records(t, P) /\ World(t, P, N)
      /\ \A i \in Rest(t) : i \in Players
  BY EarlyIs
<1>2. \A i \in Followers(t) : P[p].dfr[i] /\ P[p].df[i] = f
  BY <1>1 DEF Decides, Followers
<1>3. \A i \in Followers(t) : Open(t, P, N, i, f)
  BY <1>1, <1>2 DEF Open
<1>4. \A i \in Rest(t) : P[i].frame \in Nat /\ P[i].ann \in Nat /\ P[i].ann <= P[i].frame
  BY Rises
<1>5. f \in Stand
  <2>1. P[p] \in Peer
    BY <1>1, PeersAre DEF World
  <2> QED BY <2>1 DEF Peer
<1>6. \A i \in Rest(t) : P[i].frame <= f
  <2>1. SUFFICES ASSUME NEW i \in Rest(t), P[i].frame > f PROVE FALSE
    BY <1>1, <1>4
  <2>2. PICK a \in Rest(t) : P[a].frame > f /\ (a = Router(t) \/ ~Open(t, P, N, a, f))
    BY <1>5, <2>1 DEF Before, First
  <2>3. a # Router(t)
    <3>1. ~(P[p].frame > f)
      BY <1>1, <1>4
    <3> QED BY <1>1, <2>2, <3>1
  <2>4. a \in Followers(t)
    BY <2>2, <2>3 DEF Followers
  <2>5. Open(t, P, N, a, f)
    BY <1>3, <2>4
  <2> QED BY <2>2, <2>3, <2>5
<1>7. q \in Rest(t) /\ q # p
  BY <1>1 DEF Followers
<1>8. f <= P[q].ann
  <2>1. P[p].dfr[q] => P[p].df[q] <= P[q].ann
    BY <1>1, <1>7 DEF Records
  <2> QED BY <1>2, <2>1
<1>9. P[q].frame = f /\ P[q].ann = f
  BY <1>1, <1>4, <1>6, <1>7, <1>8
<1>10. P[q].hold = "held"
  BY <1>3, <1>9 DEF Before, Holds
<1>11. ASSUME NEW i \in Players PROVE P[q].df[i] <= f
  <2>1. CASE i \in Rest(t)
    <3>1. P[q].df[i] <= P[i].frame
      BY <1>1, <1>7, <2>1 DEF Records
    <3>2. P[q].df[i] \in Nat
      <4>1. P[q] \in Peer
        BY <1>1, <1>7, PeersAre DEF World
      <4>2. P[q].df[i] \in Stand
        BY <4>1 DEF Peer
      <4> QED BY <4>2, Numbers DEF Stand
    <3> QED BY <1>1, <1>4, <1>6, <2>1, <3>1, <3>2
  <2>2. CASE i = t
    <3>1. P[q].df[t] = 0
      BY <1>1, <1>7, PeersAre DEF World, Own
    <3> QED BY <1>1, <1>4, <2>2, <3>1
  <2> QED BY <2>1, <2>2 DEF Rest
<1> HIDE DEF f
<1>12. Stands(P[q], f)
  BY <1>9, <1>10, <1>11 DEF Stands
<1> QED BY <1>3, <1>12 DEF f

LEMMA Drops ==
    ASSUME NEW t \in Players, NEW P, NEW N, NEW Q, NEW M, NEW p, NEW y, NEW S, Turn(t, P, N, Q, M, p, y, S),
           In(P[Router(t)], t), ~In(Q[Router(t)], t), Before(t, P, N)
    PROVE  After(t, Q, M)
<1> DEFINE r == Router(t)
           L == Q[r].leave[t]
           x == P[r]
<1>1. /\ World(t, P, N) /\ Said(t, P, N) /\ Move(t, P, Q, M, p, y, S) /\ P[p].self = p
      /\ r \in Rest(t) /\ r \in Players /\ (\A a \in Players \ {p} : Q[a] = P[a]) /\ Alike(y, Q[p]) /\ P[p] \in Peers(t)
      /\ ~TakesDrop(t, P, N, p, y, S) /\ (\A q \in Rest(t) : In(P[q], t) /\ q \in Players)
      /\ (Decides(P[p], y, t) => p = r)
      /\ \A a, b \in Rest(t) : M[a][b] = IF a = p THEN S[a][b] \o y.out[b] ELSE S[a][b]
  BY EarlyIs
<1>2. p = r /\ Decides(x, y, t) /\ L = x.frame
  <2>1. Q[r].leave # P[r].leave
    BY DEF In
  <2> QED BY <1>1, <2>1, Rises
<1>3. S = N
  <2>1. \/ Decides(P[p], y, t) /\ S = N
        \/ y.leave = P[p].leave
    BY <1>1, TurnsAre DEF Idle, Ignores, Announces, TurnsOff, Runs, Reopens, TakesFrame, Notes, TakesOff, HearsOff
  <2>2. Q[p].leave = y.leave
    BY <1>1 DEF Alike
  <2> QED BY <1>2, <2>1, <2>2 DEF In
<1>4. L \in Nat /\ L \in Stand /\ x \in Peers(t) /\ x.self = r
  <2>1. x \in Peers(t) /\ x.self = r
    BY <1>1, <1>2
  <2>2. x.frame \in Stand \ {0} /\ x.frame \in Nat
    BY <2>1, PeersAre
  <2> QED BY <1>2, <2>1, <2>2
<1>5. ASSUME NEW q \in Rest(t), In(Q[q], t)
      PROVE  /\ Stands(Q[q], L)
             /\ \A i \in Followers(t) \ {q} : \A m \in Sent(M, i, q) : Dated(m) => m.frame <= L
             /\ Coming(M[r][q], q, L, Q[q].by[r])
  <2>1. q # r /\ q \in Followers(t) /\ q \in Players /\ Q[q] = P[q]
    BY <1>1, <1>2, <1>5 DEF Followers
  <2>2. Stands(Q[q], L) /\ Open(t, P, N, q, L)
    BY <1>2, <2>1, DropsAll
  <2>3. ASSUME NEW i \in Followers(t) \ {q}, NEW m \in Sent(M, i, q), Dated(m) PROVE m.frame <= L
    <3>1. i \in Rest(t) /\ i \in Players /\ i # p
      BY <1>1, <1>2 DEF Followers
    <3>2. m \in Sent(N, i, q)
      BY <2>1, <3>1, SentIs
    <3>3. Stands(P[i], L)
      BY <1>2, DropsAll
    <3>4. (m \in Announcement => m.frame <= P[i].ann) /\ (m \in ScreenOff => m.frame <= P[i].frame)
      BY <1>1, <2>1, <3>1, <3>2 DEF Said, Fits
    <3> QED BY <2>3, <3>3, <3>4 DEF Dated, Stands
  <2> DEFINE s == N[r][q]
             u == y.out[q]
  <2>4. M[r][q] = s \o u /\ s \in Seq(Message) /\ u \in Seq(Message)
    <3>1. y \in Peer
      BY <1>1, PlayingAre DEF Move
    <3>2. y.out[q] \in Seq(Message)
      BY <2>1, <3>1 DEF Peer
    <3> QED BY <1>1, <1>2, <1>3, <1>5, <2>1, <3>2 DEF World
  <2>5. PICK k \in 1 .. Len(u) : u[k] = Dropping(x, t) /\ \E j \in 1 .. k - 1 : u[j] = Announced(x)
    BY <1>2, <1>4, <2>1 DEF Decides, Followers
  <2>6. \A m \in Sent(N, r, q) : (Dated(m) => m.frame <= L) /\ ~Frees(m, q, L)
    <3> TAKE m \in Sent(N, r, q)
    <3>1. (m \in Announcement => m.frame <= x.ann) /\ (m \in ScreenOff => m.frame <= x.frame)
      BY <1>1, <2>1 DEF Said, Fits
    <3>2. x.ann \in Nat /\ x.ann <= x.frame
      BY <1>4, PeersAre
    <3>3. m \in Announcement => m.frame \in Nat
      BY Numbers DEF Announcement, Stand
    <3>4. Dated(m) => m.frame <= L
      BY <1>2, <1>4, <3>1, <3>2, <3>3 DEF Dated
    <3>5. ~Frees(m, q, L)
      BY <1>4, <2>1, <2>2 DEF Before, Closed
    <3> QED BY <3>4, <3>5
  <2>7. \A m \in Out(y, q) : (Dated(m) => m.frame <= L) /\ ~Frees(m, q, L)
    <3> TAKE m \in Out(y, q)
    <3>1. m \in Announcement => m.frame = x.frame
      BY <1>2, <2>1, SaysAnnouncement
    <3>2. m \notin ScreenOff
      <4>1. m \in Plain(t) \cup {Announced(x), Dropping(x, t)}
        BY <1>2, <2>1 DEF Decides, Says, AllOf, Out
      <4> QED BY <1>4, <4>1, PlainIs, AnnouncedIs
    <3> QED BY <1>2, <1>4, <3>1, <3>2 DEF Dated, Frees
  <2>8. (\A i \in 1 .. Len(s) : s[i] \in Sent(N, r, q)) /\ (\A i \in 1 .. Len(u) : u[i] \in Out(y, q))
    BY DEF Sent, Out
  <2> DEFINE v == s \o u
             n == Len(s)
  <2>9. /\ n \in Nat /\ Len(u) \in Nat
        /\ \A i \in 1 .. n : v[i] = s[i]
        /\ \A i \in 1 .. Len(u) : n + i \in 1 .. Len(v) /\ v[n + i] = u[i]
        /\ \A i \in 1 .. Len(v) : i \in 1 .. n \/ \E a \in 1 .. Len(u) : i = n + a
        /\ Len(v) = n + Len(u)
    BY <2>4, Joined
  <2> HIDE DEF s, u, v, n
  <2>10. \A i \in 1 .. Len(v) : (Dated(v[i]) => v[i].frame <= L) /\ ~Frees(v[i], q, L)
    <3> TAKE i \in 1 .. Len(v)
    <3>1. v[i] \in Sent(N, r, q) \cup Out(y, q)
      BY <2>8, <2>9 DEF n
    <3> QED BY <2>6, <2>7, <3>1
  <2>11. Coming(v, q, L, Q[q].by[r])
    <3>1. n + k \in 1 .. Len(v) /\ v[n + k] = u[k]
      BY <2>9
    <3>2. u[k] \in DropCommand
      BY <1>4, <2>5, AnnouncedIs
    <3>3. \A j \in 1 .. (n + k) - 1 : j \in 1 .. Len(v)
      BY <2>9
    <3>4. PICK j \in 1 .. k - 1 : u[j] = Announced(x)
      BY <2>5
    <3>5. n + j \in 1 .. (n + k) - 1 /\ j \in 1 .. Len(u)
      BY <2>9, <3>4
    <3>6. Names(v[n + j], L)
      BY <1>2, <1>4, <2>9, <3>4, <3>5, AnnouncedIs DEF Names
    <3> HIDE DEF L
    <3> QED BY <2>10, <3>1, <3>2, <3>3, <3>5, <3>6 DEF Coming
  <2> QED BY <2>2, <2>3, <2>4, <2>11 DEF v
<1>6. Offs(t, Q)
  <2>1. \A q \in Followers(t) : Q[q] = P[q] /\ In(P[q], t)
    BY <1>1, <1>2 DEF Followers
  <2> QED BY <2>1 DEF Offs
<1> QED BY <1>5, <1>6 DEF After, Waits
\* A turn after the drop.
LEMMA LateIs ==
    ASSUME NEW t \in Players, NEW P, NEW N, NEW Q, NEW M, NEW p, NEW y, NEW S, Turn(t, P, N, Q, M, p, y, S), ~In(P[Router(t)], t)
    PROVE  /\ p \in Rest(t) /\ p \in Players /\ P[p] \in Peers(t) /\ P[p].self = p
           /\ Alike(y, Q[p]) /\ Q[p].due = y.due /\ \A a \in Players \ {p} : Q[a] = P[a]
           /\ World(t, P, N) /\ World(t, Q, M) /\ Said(t, P, N) /\ Kind(t, P, N, p, y, S) /\ y \in Peer
           /\ ~Decides(P[p], y, t) /\ ~In(Q[Router(t)], t)
           /\ Router(t) \in Rest(t) /\ Router(t) \in Players
           /\ Q[Router(t)].leave = P[Router(t)].leave /\ P[Router(t)].leave[t] \in Nat
           /\ \A q \in Rest(t) : q \in Players /\ (~In(P[q], t) => P[q].leave[t] = P[Router(t)].leave[t])
           /\ \A a, b \in Rest(t) : M[a][b] = IF a = p THEN S[a][b] \o y.out[b] ELSE S[a][b]
<1> DEFINE r == Router(t)
<1>1. World(t, P, N) /\ Move(t, P, Q, M, p, y, S) /\ Said(t, P, N) /\ Leaves(t, P) /\ Kind(t, P, N, p, y, S)
  BY DEF Turn, Core
<1>2. /\ p \in Rest(t) /\ p \in Players /\ P[p] \in Peers(t) /\ P[p].self = p /\ Alike(y, Q[p]) /\ Q[p].due = y.due
      /\ World(t, Q, M) /\ y \in Peer /\ \A a \in Players \ {p} : Q[a] = P[a]
  BY <1>1, MoveIs
<1>3. r \in Rest(t) /\ r \in Players /\ \A q \in Rest(t) : q \in Players
  BY RestIs DEF Rest
<1>4. ~Decides(P[p], y, t)
  BY <1>2 DEF Decides
<1>5. Q[r].leave = P[r].leave /\ ~In(Q[r], t)
  <2>1. Q[r].leave = P[r].leave
    BY <1>3, Rises
  <2> QED BY <2>1 DEF In
<1>6. P[r].leave[t] \in Nat
  <2>1. P[r] \in Peers(t)
    BY <1>1, <1>3 DEF World
  <2>2. P[r] \in Peer
    BY <2>1, PeersAre
  <2>3. P[r].leave[t] \in Frames \cup {Never}
    BY <2>2 DEF Peer
  <2> QED BY <2>3, Numbers
<1>7. \A q \in Rest(t) : ~In(P[q], t) => P[q].leave[t] = P[r].leave[t]
  BY <1>1 DEF Leaves, In
<1>8. ASSUME NEW a \in Rest(t), NEW b \in Rest(t) PROVE M[a][b] = IF a = p THEN S[a][b] \o y.out[b] ELSE S[a][b]
  BY <1>1, <1>3 DEF Move
<1> QED BY <1>1, <1>2, <1>3, <1>4, <1>5, <1>6, <1>7, <1>8

\* What a dated message to one who did not drop t yet says.
LEMMA LateSays ==
    ASSUME NEW t \in Players, NEW P, NEW N, NEW Q, NEW M, NEW p, NEW y, NEW S, Turn(t, P, N, Q, M, p, y, S), ~In(P[Router(t)], t),
           After(t, P, N), NEW q \in Rest(t), In(P[q], t), NEW i \in Followers(t) \ {q}, NEW m \in Sent(M, i, q), Dated(m)
    PROVE  m.frame <= P[Router(t)].leave[t]
<1>1. /\ p \in Rest(t) /\ p \in Players /\ P[p] \in Peers(t) /\ ~Decides(P[p], y, t) /\ P[Router(t)].leave[t] \in Nat
      /\ \A a \in Rest(t) : a \in Players /\ (~In(P[a], t) => P[a].leave[t] = P[Router(t)].leave[t])
  BY LateIs
<1>2. i \in Rest(t) /\ i # Router(t) /\ i \in Players /\ q \in Players
  BY <1>1 DEF Followers
<1>3. CASE m \in Sent(N, i, q)
  BY <1>3 DEF After, Waits
<1>4. CASE i = p /\ m \in Out(y, q)
  <2>1. CASE m \in Announcement
    <3>1. m.frame = P[p].frame /\ (Announces(P[p], y, t) \/ Decides(P[p], y, t))
      BY <1>2, <1>4, <2>1, SaysAnnouncement
    <3>2. In(P[p], t)
      BY <1>1, <3>1 DEF Announces
    <3>3. Stands(P[p], P[Router(t)].leave[t])
      BY <1>1, <3>2 DEF After, Waits
    <3> QED BY <1>1, <3>1, <3>3 DEF Stands
  <2>2. CASE m \in ScreenOff
    <3>1. m.frame = P[p].frame
      BY <1>2, <1>4, <2>2, SaysOff
    <3>2. TurnsOff(P[p], y, t) \/ p = Router(t)
      BY <1>2, <1>4, <2>2, SaysOff
    <3>3. ~In(P[p], t) /\ P[p].screen
      BY <1>2, <1>4, <3>2 DEF TurnsOff
    <3>4. P[p].frame = P[p].leave[t]
      BY <1>2, <1>4, <3>3 DEF After, Offs
    <3>5. P[p].leave[t] = P[Router(t)].leave[t]
      BY <1>1, <3>3
    <3> QED BY <1>1, <3>1, <3>4, <3>5
  <2> QED BY <2>1, <2>2 DEF Dated
<1> QED BY <1>2, <1>3, <1>4, SentIs

\* Who has yet to drop t reads on until the drop.
LEMMA LateStep ==
    ASSUME NEW t \in Players, NEW P, NEW N, NEW Q, NEW M, NEW p, NEW y, NEW S, Turn(t, P, N, Q, M, p, y, S), ~In(P[Router(t)], t),
           After(t, P, N), In(P[p], t), In(Q[p], t)
    PROVE  /\ Stands(Q[p], P[Router(t)].leave[t])
           /\ Coming(S[Router(t)][p], p, P[Router(t)].leave[t], Q[p].by[Router(t)])
<1> DEFINE r == Router(t)
           L == P[r].leave[t]
           x == P[p]
<1>1. /\ p \in Rest(t) /\ p \in Players /\ x \in Peers(t) /\ x.self = p /\ Alike(y, Q[p]) /\ World(t, P, N) /\ Said(t, P, N)
      /\ ~Decides(x, y, t) /\ r \in Rest(t) /\ r \in Players /\ L \in Nat /\ p # r
      /\ \A a \in Rest(t) : a \in Players
  BY LateIs
<1>2. /\ Stands(x, L) /\ Coming(N[r][p], p, L, x.by[r])
      /\ \A i \in Followers(t) \ {p} : \A m \in Sent(N, i, p) : Dated(m) => m.frame <= L
  BY <1>1 DEF After, Waits
<1>3. N \in [Players -> [Players -> Seq(Message)]] /\ N[r][p] \in Seq(Message)
  BY <1>1 DEF World
<1>4. /\ x \in Peer /\ Own(x, t) /\ x.by[r] \in Nat /\ (\A i \in Players : x.df[i] \in Nat)
      /\ x.df \in [Players -> Stand] /\ x.by \in [Players -> Stand]
  <2>1. x \in Peer /\ Own(x, t)
    BY <1>1, PeersAre
  <2>2. x.df \in [Players -> Stand] /\ x.by \in [Players -> Stand]
    BY <2>1 DEF Peer
  <2>3. \A n \in Stand : n \in Nat
    BY Numbers DEF Stand
  <2> QED BY <1>1, <2>1, <2>2, <2>3
<1>5. /\ Q[p].frame = y.frame /\ Q[p].ann = y.ann /\ Q[p].hold = y.hold /\ Q[p].df = y.df /\ Q[p].by = y.by
      /\ Q[p].leave = y.leave
  BY <1>1 DEF Alike
<1>6. x.frame = L /\ x.ann = L /\ x.hold = "held" /\ \A i \in Players : x.df[i] <= L
  BY <1>2 DEF Stands
<1>7. ~Runs(x, y, t) /\ ~Reopens(x, y, t) /\ ~TurnsOff(x, y, t) /\ ~TakesDrop(t, P, N, p, y, S)
  <2>1. ~Runs(x, y, t)
    <3>1. \A i \in Rest(t) \ {p} : ~(x.df[i] > x.frame)
      BY <1>1, <1>4, <1>6
    <3> QED BY <1>1, <1>6, <3>1 DEF Runs
  <2>2. ~Reopens(x, y, t) /\ ~TurnsOff(x, y, t)
    BY <1>6 DEF Reopens, TurnsOff
  <2>3. ~TakesDrop(t, P, N, p, y, S)
    <3>1. SUFFICES ASSUME TakesDrop(t, P, N, p, y, S) PROVE FALSE
      OBVIOUS
    <3>2. y.leave = [x.leave EXCEPT ![t] = x.frame]
      BY <3>1 DEF TakesDrop, Applies
    <3>3. x.leave \in [Players -> Frames \cup {Never}] /\ x.frame \in Nat /\ x.frame <= MaxFrame + 1
      BY <1>1, <1>4, PeersAre DEF Peer
    <3>4. Q[p].leave[t] = x.frame
      BY <1>5, <3>2, <3>3
    <3>5. x.frame # Never
      BY <3>3, Numbers
    <3> QED BY <3>4, <3>5 DEF In
  <2> QED BY <2>1, <2>2, <2>3
\* What may have been read.
<1>8. ASSUME NEW s \in Rest(t) \ {p}, Reads(N, S, s, p), NEW c, c = Head(N[s][p]), Dated(c)
      PROVE  c.frame <= L /\ (s = r => ~Frees(c, p, L))
  <2>1. CASE s = r
    BY <1>2, <1>3, <1>8, <2>1, ComingHead
  <2>2. CASE s # r
    <3>1. s \in Followers(t) \ {p} /\ s \in Players
      BY <1>1, <2>2 DEF Followers
    <3>2. c \in Sent(N, s, p)
      BY <1>1, <1>3, <1>8, <3>1, SentHead
    <3> QED BY <1>2, <1>8, <2>2, <3>1, <3>2
  <2> QED BY <2>1, <2>2
<1>9. ASSUME NEW s \in Players, Reads(N, S, s, p), NEW b, b >= x.by[r], b \in Nat,
             s = r => ~(Head(N[r][p]) \in DropCommand /\ x.by[r] >= L) /\ (Names(Head(N[r][p]), L) => b >= L),
             s # r => b = x.by[r]
      PROVE  Coming(S[r][p], p, L, b)
  <2>0. S[s][p] = Tail(N[s][p]) /\ \A a, d \in Players : a # s \/ d # p => S[a][d] = N[a][d]
    <3>1. Reads(N, S, s, p) /\ p \in Players
      BY <1>1, <1>9
    <3>2. S = [N EXCEPT ![s][p] = Tail(N[s][p])]
      BY <3>1 DEF Reads
    <3> HIDE DEF r, L, x
    <3> QED BY <1>3, <3>1, <3>2
  <2>1. CASE s # r
    <3>1. S[r][p] = N[r][p]
      BY <1>1, <2>0, <2>1
    <3> QED BY <1>2, <1>9, <2>1, <3>1
  <2>2. CASE s = r
    <3>1. S[r][p] = Tail(N[r][p])
      BY <2>0, <2>2
    <3>2. x.by[r] >= L => b >= L
      BY <1>1, <1>4, <1>9
    <3> DEFINE u == N[r][p]
    <3>3. Coming(u, p, L, x.by[r]) /\ u \in Seq(Message)
      BY <1>2, <1>3
    <3>4. ~(Head(u) \in DropCommand /\ x.by[r] >= L) /\ (Names(Head(u), L) => b >= L) /\ b >= x.by[r]
      BY <1>9, <2>2
    <3> HIDE DEF u, L, x, r
    <3>5. Coming(Tail(u), p, L, b)
      BY <3>2, <3>3, <3>4, ComingHead
    <3> QED BY <3>1, <3>5 DEF u
  <2> QED BY <2>1, <2>2
<1>10. CASE S = N /\ Idle(x, y, t)
  BY <1>1, <1>2, <1>5, <1>6, <1>10 DEF Idle, Stands
<1>11. CASE S = N /\ Announces(x, y, t)
  <2>1. y.frame = x.frame /\ y.ann = x.frame /\ y.hold = "held" /\ y.by = x.by /\ y.df = [x.df EXCEPT ![p] = x.frame]
    BY <1>1, <1>11 DEF Announces
  <2>2. \A i \in Players : y.df[i] <= L
    BY <1>1, <1>4, <1>6, <2>1
  <2> QED BY <1>2, <1>5, <1>6, <1>11, <2>1, <2>2 DEF Stands
<1>12. CASE Ignores(t, P, N, p, y, S)
  <2>1. PICK s \in Players : Reads(N, S, s, p) /\ Idle(x, y, t) /\ Ignored(x, Head(N[s][p]), s, t)
    BY <1>12 DEF Ignores
  <2>2. Stands(Q[p], L) /\ y.by = x.by
    BY <1>1, <1>5, <1>6, <2>1 DEF Idle, Stands
  <2>3. ASSUME s = r PROVE ~(Head(N[r][p]) \in DropCommand /\ x.by[r] >= L) /\ (Names(Head(N[r][p]), L) => x.by[r] >= L)
    <3> DEFINE c == Head(N[r][p])
    <3>1. c \in Sent(N, r, p)
      BY <1>1, <1>3, <2>1, <2>3, SentHead
    <3>2. c \in DropCommand => c.frame = L
      BY <1>1, <3>1 DEF Said, Fits
    <3>3. /\ c \in Announcement => x.df[r] > c.frame \/ (x.df[r] = c.frame /\ x.dfr[r])
          /\ c \in DropCommand => ~(In(x, t) /\ x.by[r] >= c.frame /\ x.ann = c.frame /\ c.frame >= x.frame)
      BY <2>1, <2>3 DEF Ignored
    <3> HIDE DEF c
    <3>4. x.dfr[r] => x.by[r] >= x.df[r]
      BY <1>1, <1>4 DEF Own
    <3>5. x.df[r] <= L /\ x.df[r] \in Nat
      BY <1>1, <1>4, <1>6
    <3>6. Names(c, L) => x.by[r] >= L
      BY <1>1, <1>4, <3>3, <3>4, <3>5 DEF Names
    <3>7. ~(c \in DropCommand /\ x.by[r] >= L)
      BY <1>1, <1>6, <3>2, <3>3
    <3> QED BY <3>6, <3>7 DEF c
  <2>4. Coming(S[r][p], p, L, x.by[r])
    BY <1>4, <1>9, <2>1, <2>3
  <2> QED BY <1>5, <2>2, <2>4
<1>13. CASE TakesFrame(t, P, N, p, y, S)
  <2>1. PICK s \in Rest(t) \ {p}, c \in Announcement :
          Reads(N, S, s, p) /\ c = Head(N[s][p]) /\ Notes(x, y, t, s, c.frame)
    BY <1>13 DEF TakesFrame
  <2>2. PICK g \in Stand : g >= c.frame /\ g >= x.by[s] /\ y.by = [x.by EXCEPT ![s] = g]
    BY <2>1 DEF Notes
  <2>3. /\ y.frame = x.frame /\ y.ann = x.ann /\ y.hold = x.hold /\ y.df = [x.df EXCEPT ![s] = c.frame]
    BY <2>1 DEF Notes
  <2>4. c.frame <= L /\ c.frame \in Nat /\ g \in Nat /\ s \in Players
    <3>1. c.frame <= L
      BY <1>8, <2>1 DEF Dated
    <3>2. c.frame \in Nat
      BY Numbers DEF Announcement, Stand
    <3> QED BY <1>1, <3>1, <3>2, Numbers DEF Stand
  <2>5. Stands(Q[p], L)
    <3>1. \A i \in Players : y.df[i] <= L
      BY <1>4, <1>6, <2>3, <2>4
    <3> QED BY <1>5, <1>6, <2>3, <3>1 DEF Stands
  <2>6. y.by[r] >= x.by[r] /\ y.by[r] \in Nat /\ (s # r => y.by[r] = x.by[r]) /\ (s = r => y.by[r] >= c.frame)
    BY <1>1, <1>4, <2>2, <2>4
  <2>7. s = r => ~(Head(N[r][p]) \in DropCommand /\ x.by[r] >= L) /\ (Names(Head(N[r][p]), L) => y.by[r] >= L)
    BY <2>1, <2>6, KindsOfMessage DEF Names
  <2>8. Coming(S[r][p], p, L, y.by[r])
    BY <1>9, <2>1, <2>4, <2>6, <2>7
  <2> QED BY <1>5, <2>5, <2>8
<1>14. CASE TakesOff(t, P, N, p, y, S)
  <2>1. PICK s \in Rest(t) \ {p}, c \in ScreenOff :
          Reads(N, S, s, p) /\ c = Head(N[s][p]) /\ HearsOff(x, y, t, s, c)
    BY <1>14 DEF TakesOff
  <2>2. /\ y.frame = x.frame /\ y.ann = x.ann /\ y.by = x.by
        /\ y.df = x.df \/ y.df = [x.df EXCEPT ![s] = c.frame]
        /\ y.hold = x.hold \/ (s = r /\ <<x.self, x.ann>> \in c.released)
    BY <2>1 DEF HearsOff
  <2>3. c.frame <= L /\ c.frame \in Nat /\ s \in Players /\ (s = r => ~Frees(c, p, L))
    <3>1. c.frame <= L /\ (s = r => ~Frees(c, p, L))
      BY <1>8, <2>1 DEF Dated
    <3>2. c.frame \in Nat
      BY Numbers DEF ScreenOff, Stand
    <3> QED BY <1>1, <3>1, <3>2
  <2>4. Stands(Q[p], L)
    <3>1. \A i \in Players : y.df[i] <= L
      BY <1>4, <1>6, <2>2, <2>3
    <3>2. y.hold = "held"
      BY <1>1, <1>6, <2>2, <2>3 DEF Frees
    <3> QED BY <1>5, <1>6, <2>2, <3>1, <3>2 DEF Stands
  <2>5. s = r => ~(Head(N[r][p]) \in DropCommand /\ x.by[r] >= L) /\ (Names(Head(N[r][p]), L) => x.by[r] >= L)
    BY <2>1, KindsOfMessage DEF Names
  <2>6. Coming(S[r][p], p, L, x.by[r])
    BY <1>4, <1>9, <2>1, <2>3, <2>5
  <2> QED BY <1>5, <2>2, <2>4, <2>6
<1> QED BY <1>1, <1>7, <1>10, <1>11, <1>12, <1>13, <1>14, TurnsAre

LEMMA WaitsKept ==
    ASSUME NEW t \in Players, NEW P, NEW N, NEW Q, NEW M, NEW p, NEW y, NEW S, Turn(t, P, N, Q, M, p, y, S), ~In(P[Router(t)], t),
           After(t, P, N)
    PROVE  Waits(t, Q, M)
<1> DEFINE r == Router(t)
           L == P[r].leave[t]
<1>1. /\ p \in Rest(t) /\ p \in Players /\ World(t, P, N) /\ r \in Rest(t) /\ r \in Players /\ L \in Nat /\ Q[r].leave[t] = L
      /\ Kind(t, P, N, p, y, S) /\ y \in Peer /\ ~In(Q[r], t)
      /\ (\A a \in Players \ {p} : Q[a] = P[a]) /\ (\A a \in Rest(t) : a \in Players)
      /\ \A a, b \in Rest(t) : M[a][b] = IF a = p THEN S[a][b] \o y.out[b] ELSE S[a][b]
  BY LateIs
<1> SUFFICES ASSUME NEW q \in Rest(t), In(Q[q], t)
             PROVE  /\ Stands(Q[q], L) /\ Coming(M[r][q], q, L, Q[q].by[r])
                    /\ \A i \in Followers(t) \ {q} : \A m \in Sent(M, i, q) : Dated(m) => m.frame <= L
  BY <1>1 DEF Waits
<1>2. In(P[q], t) /\ q \in Players /\ q # r
  <2>1. Q[q].leave = P[q].leave \/ In(P[q], t)
    BY Rises
  <2> QED BY <1>1, <2>1 DEF In
<1>3. \A i \in Followers(t) \ {q} : \A m \in Sent(M, i, q) : Dated(m) => m.frame <= L
  BY <1>2, LateSays
<1>4. CASE q = p
  <2>1. Stands(Q[p], L) /\ Coming(S[r][p], p, L, Q[p].by[r])
    BY <1>2, <1>4, LateStep
  <2>2. M[r][q] = S[r][q]
    BY <1>1, <1>2, <1>4
  <2> QED BY <1>3, <1>4, <2>1, <2>2
<1>5. CASE q # p
  <2>1. Stands(P[q], L) /\ Coming(N[r][q], q, L, P[q].by[r]) /\ Q[q] = P[q]
    BY <1>1, <1>2, <1>5 DEF After, Waits
  <2>2. S[r][q] = N[r][q]
    <3>1. N \in [Players -> [Players -> Seq(Message)]]
      BY <1>1 DEF World
    <3>2. S = N \/ \E s \in Players : Reads(N, S, s, p)
      BY <1>1 DEF Kind
    <3>3. ASSUME NEW s \in Players, Reads(N, S, s, p) PROVE \A a, d \in Players : a # s \/ d # p => S[a][d] = N[a][d]
      <4>1. p \in Players
        BY <1>1
      <4>2. S = [N EXCEPT ![s][p] = Tail(N[s][p])]
        BY <3>3 DEF Reads
      <4> QED BY <3>1, <4>1, <4>2
    <3> QED BY <1>1, <1>2, <1>5, <3>2, <3>3
  <2>3. N[r][q] \in Seq(Message) /\ y.out[q] \in Seq(Message)
    <3>1. y.out \in [Players -> Seq(Message)]
      BY <1>1 DEF Peer
    <3> QED BY <1>1, <1>2, <3>1 DEF World
  <2>4. M[r][q] = N[r][q] \/ M[r][q] = N[r][q] \o y.out[q]
    BY <1>1, <2>2
  <2>5. Coming(M[r][q], q, L, P[q].by[r])
    BY <2>1, <2>3, <2>4, ComingMore
  <2> QED BY <1>3, <2>1, <2>5
<1> QED BY <1>4, <1>5

LEMMA OffsKept ==
    ASSUME NEW t \in Players, NEW P, NEW N, NEW Q, NEW M, NEW p, NEW y, NEW S, Turn(t, P, N, Q, M, p, y, S), ~In(P[Router(t)], t),
           Offs(t, P)
    PROVE  Offs(t, Q)
<1>1. /\ p \in Rest(t) /\ p \in Players /\ Alike(y, Q[p]) /\ Q[p].due = y.due /\ Kind(t, P, N, p, y, S)
      /\ ~Decides(P[p], y, t) /\ \A a \in Players \ {p} : Q[a] = P[a]
  BY LateIs
<1> SUFFICES ASSUME NEW q \in Followers(t), ~In(Q[q], t), Q[q].screen PROVE Q[q].frame = Q[q].leave[t] /\ Q[q].due
  BY DEF Offs
<1>2. CASE q # p
  <2>1. Q[q] = P[q]
    BY <1>1, <1>2 DEF Followers, Rest
  <2> QED BY <2>1 DEF Offs
<1>3. CASE q = p
  <2>1. Q[p].leave = y.leave /\ Q[p].frame = y.frame /\ Q[p].screen = y.screen
    BY <1>1 DEF Alike
  <2>2. y.due
    BY <1>1, <1>3, <2>1 DEF Kind, In
  <2>3. CASE In(P[p], t)
    <3>1. TakesDrop(t, P, N, p, y, S) /\ Q[p].leave[t] = P[p].frame
      <4>1. Q[p].leave # P[p].leave
        BY <1>3, <2>3 DEF In
      <4> QED BY <1>1, <4>1, Rises
    <3>2. y.frame = P[p].frame
      BY <3>1 DEF TakesDrop, Applies
    <3> QED BY <1>1, <1>3, <2>1, <2>2, <3>1, <3>2
  <2>4. CASE ~In(P[p], t)
    <3>1. P[p].screen => P[p].frame = P[p].leave[t] /\ P[p].due
      BY <1>3, <2>4 DEF Offs
    <3>2. CASE Idle(P[p], y, t) \/ Ignores(t, P, N, p, y, S)
      <4>1. y.frame = P[p].frame /\ y.leave = P[p].leave /\ y.screen = P[p].screen
        BY <2>4, <3>2 DEF Idle, Ignores
      <4> QED BY <1>1, <1>3, <2>1, <2>2, <3>1, <4>1
    <3>3. CASE TakesFrame(t, P, N, p, y, S) \/ TakesOff(t, P, N, p, y, S) \/ Reopens(P[p], y, t)
      <4>1. y.frame = P[p].frame /\ y.leave = P[p].leave /\ y.screen = P[p].screen
        BY <3>3 DEF TakesFrame, TakesOff, Notes, HearsOff, Reopens
      <4> QED BY <1>1, <1>3, <2>1, <2>2, <3>1, <4>1
    <3>4. ~Announces(P[p], y, t) /\ ~TakesDrop(t, P, N, p, y, S)
      BY <2>4 DEF Announces, TakesDrop, Applies
    <3>5. ~TurnsOff(P[p], y, t)
      BY <1>3, <2>1 DEF TurnsOff
    <3>6. ~Runs(P[p], y, t)
      BY <1>3, <2>1, <3>1 DEF Runs
    <3> QED BY <1>1, <3>2, <3>3, <3>4, <3>5, <3>6, TurnsAre
  <2> QED BY <2>3, <2>4
<1> QED BY <1>2, <1>3

\* After the drop it stays that way until everybody made it.
LEMMA AfterKept ==
    ASSUME NEW t \in Players, NEW P, NEW N, NEW Q, NEW M, NEW p, NEW y, NEW S, Turn(t, P, N, Q, M, p, y, S), ~In(P[Router(t)], t),
           After(t, P, N)
    PROVE  After(t, Q, M) /\ ~In(Q[Router(t)], t)
<1>1. Offs(t, P)
  BY DEF After
<1>2. Waits(t, Q, M) /\ Offs(t, Q) /\ ~In(Q[Router(t)], t)
  BY <1>1, WaitsKept, OffsKept, LateIs
<1> QED BY <1>2 DEF After

-----------------------------------------------------------------------------
\* The steps of t: the others stay what they are, and so do their streams.

Aside(t, P, N, Q, M) ==
    /\ World(t, Q, M) /\ \A q \in Rest(t) : Q[q] = P[q]
    /\ \A a, b \in Rest(t) : M[a][b] = N[a][b]
    /\ \A a, b \in Players : Sent(M, a, b) \subseteq Sent(N, a, b) \cup (IF a = t /\ b # t THEN FrameInfo ELSE {})

LEMMA AsideKept ==
    ASSUME NEW t \in Players, NEW P, NEW N, NEW Q, NEW M, Core(t, P, N), Aside(t, P, N, Q, M)
    PROVE  /\ Core(t, Q, M)
           /\ Before(t, P, N) => Before(t, Q, M)
           /\ After(t, P, N) => After(t, Q, M)
<1> DEFINE r == Router(t)
<1>1. /\ World(t, Q, M) /\ Said(t, P, N) /\ Records(t, P) /\ Leaves(t, P)
      /\ \A q \in Rest(t) : Q[q] = P[q]
  BY DEF Core, Aside
<1>2. r \in Rest(t) /\ Q[r] = P[r] /\ \A q \in Followers(t) : q \in Rest(t)
  BY <1>1, RestIs DEF Followers
<1>3. \A a, b \in Rest(t) : M[a][b] = N[a][b] /\ Sent(M, a, b) = Sent(N, a, b)
  BY DEF Aside, Sent
<1>4. Said(t, Q, M)
  <2>1. SUFFICES ASSUME NEW a \in Players, NEW b \in Players, NEW m \in Sent(M, a, b) PROVE Fits(t, Q, a, b, m)
    BY DEF Said
  <2>2. CASE m \in Sent(N, a, b)
    <3>1. Fits(t, P, a, b, m)
      BY <1>1, <2>2 DEF Said
    <3>2. CASE a # t
      <4>1. Q[a] = P[a]
        BY <1>1, <3>2 DEF Rest
      <4> QED BY <3>1, <4>1 DEF Fits
    <3>3. CASE a = t
      <4>1. m \in FrameInfo
        BY <3>1, <3>3 DEF Fits, Carried
      <4> QED BY <3>1, <4>1, KindsOfMessage DEF Fits
    <3> QED BY <3>2, <3>3
  <2>3. CASE a = t /\ b # t /\ m \in FrameInfo
    <3>1. m \notin Vote /\ m \notin DropCommand /\ m \notin Announcement /\ m \notin ScreenOff
      BY <2>3, KindsOfMessage
    <3> QED BY <2>3, <3>1 DEF Fits, Carried
  <2> QED BY <2>1, <2>2, <2>3 DEF Aside
<1>5. Records(t, Q) /\ Leaves(t, Q)
  BY <1>1, <1>2 DEF Records, Leaves
<1>6. ASSUME Before(t, P, N) PROVE Before(t, Q, M)
  <2>1. RouterHolds(t, P) /\ Holds(t, P, N) /\ Closed(t, P, N) /\ Fresh(t, P, N) /\ Rising(t, N) /\ First(t, P, N)
    BY <1>6 DEF Before
  <2>2. \A q \in Followers(t) : \A f : Open(t, Q, M, q, f) <=> Open(t, P, N, q, f)
    BY <1>2, <1>3 DEF Open
  <2>3. RouterHolds(t, Q)
    BY <1>2, <2>1 DEF RouterHolds
  <2>4. Holds(t, Q, M)
    BY <1>1, <1>2, <2>1, <2>2 DEF Holds
  <2>5. Closed(t, Q, M)
    BY <1>1, <1>2, <1>3, <2>1, <2>2 DEF Closed
  <2>6. Fresh(t, Q, M)
    BY <1>1, <1>2, <1>3, <2>1 DEF Fresh
  <2>7. Rising(t, M)
    BY <1>2, <1>3, <2>1 DEF Rising
  <2>8. First(t, Q, M)
    <3>1. \A i \in Rest(t) : \A f : i = r \/ (Open(t, Q, M, i, f) <=> Open(t, P, N, i, f))
      BY <2>2 DEF Followers
    <3> QED BY <1>1, <2>1, <3>1 DEF First
  <2> QED BY <2>3, <2>4, <2>5, <2>6, <2>7, <2>8 DEF Before
<1>7. ASSUME After(t, P, N) PROVE After(t, Q, M)
  <2>1. Waits(t, Q, M)
    BY <1>1, <1>2, <1>3, <1>7 DEF After, Waits, Followers
  <2>2. Offs(t, Q)
    BY <1>1, <1>2, <1>7 DEF After, Offs
  <2> QED BY <2>1, <2>2 DEF After
<1> QED BY <1>1, <1>4, <1>5, <1>6, <1>7 DEF Core

-----------------------------------------------------------------------------
\* Who notices that t is gone: nobody but by its silence.

\* A peer that hears everybody shows no screen and says nothing.
LEMMA UpdateQuiet ==
    ASSUME NEW x \in Peer, x.pending = <<>>, ~x.screen, \A s \in Players : x.heard[s] \/ ~Connected(x, s)
    PROVE  \E y \in Peer : y = restartTimeouts(x) /\ update(x) = [y EXCEPT !.due = FALSE]
<1>1. PICK a, b, c, d \in Peer :
              /\ a = applyPendingDrops(x) /\ b = restartTimeouts(a) /\ c = switchScreen(b)
              /\ d = (IF c.screen THEN InTurn(updateDisconnectStatus, c, Order) ELSE c)
              /\ update(x) = [d EXCEPT !.due = FALSE]
  BY UpdateIs
<1>2. a = x
  BY <1>1, NoDropWaits
<1>3. /\ b.screen = x.screen /\ b.heard = x.heard /\ b.leave = x.leave /\ b.self = x.self
  <2> DEFINE h == IF x.frame > x.ann THEN "none" ELSE x.hold
             v == [s \in Players |-> IF x.heard[s] THEN "full" ELSE x.bar[s]]
  <2>1. b = [x EXCEPT !.hold = h, !.bar = v]
    BY <1>1, <1>2, RestartIs
  <2> HIDE DEF h, v
  <2> QED BY <2>1 DEF Peer
<1>4. c = b
  BY <1>1, <1>3 DEF switchScreen, turnOffScreen, Others, Connected
<1> QED BY <1>1, <1>2, <1>3, <1>4

LEMMA FileHeard ==
    ASSUME NEW x \in Peer, NEW q \in Players, NEW c \in FrameInfo \cup Resend \cup Vote \cup ScreenOff
    PROVE  /\ file(x, q, c).heard = x.heard /\ file(x, q, c).leave = x.leave
           /\ c \in FrameInfo => \E h : file(x, q, c) = [x EXCEPT !.have = h]
<1>1. x = [x EXCEPT !.have = x.have]
  BY DEF Peer
<1>2. CASE c \in FrameInfo
  <2>1. file(x, q, c) = OnFrame(x, q, c)
    BY <1>2 DEF file, FrameInfo
  <2>2. PICK h : OnFrame(x, q, c) = [x EXCEPT !.have = h]
    BY <1>1 DEF OnFrame
  <2> QED BY <2>1, <2>2, ZenonT(30) DEF Peer
<1>3. CASE c \in Resend
  <2>1. file(x, q, c) = OnFrameResend(x, q, c)
    BY <1>3 DEF file, Resend
  <2>2. PICK h : OnFrameResend(x, q, c) = [x EXCEPT !.have = h]
    BY <1>1 DEF OnFrameResend
  <2> QED BY <1>3, <2>1, <2>2, KindsOfMessage DEF Peer
<1>4. CASE c \in Vote
  <2>1. file(x, q, c) = OnVote(x, q, c)
    BY <1>4 DEF file, Vote
  <2>2. OnVote(x, q, c) = x \/ \E v : OnVote(x, q, c) = [x EXCEPT !.votes = v]
    BY DEF OnVote
  <2> QED BY <1>4, <2>1, <2>2, KindsOfMessage DEF Peer
<1>5. CASE c \in ScreenOff
  <2>1. file(x, q, c) = OnScreenOff(x, q, c)
    BY <1>5 DEF file, ScreenOff
  <2>2. Closes(x, q, c)
    BY <1>5, OnScreenOffIs
  <2>3. OnScreenOff(x, q, c).heard = x.heard /\ OnScreenOff(x, q, c).leave = x.leave
    <3>1. PICK y \in Kin(x) :
            /\ \/ y = x
               \/ \E u, d, f : y = [x EXCEPT !.votes = u, !.dfr = d, !.df = f]
            /\ \/ OnScreenOff(x, q, c) = y
               \/ \E h : OnScreenOff(x, q, c) = [y EXCEPT !.hold = h]
      BY <2>2 DEF Closes
    <3>2. y \in Peer
      BY DEF Kin
    <3>3. y.heard = x.heard /\ y.leave = x.leave
      BY <3>1 DEF Peer
    <3> QED BY <3>1, <3>2, <3>3, ZenonT(30) DEF Peer
  <2> QED BY <1>5, <2>1, <2>3, KindsOfMessage
<1> QED BY <1>2, <1>3, <1>4, <1>5

-----------------------------------------------------------------------------
\* The games of which this is said: only t may stop, and nobody is cut off.

Alone(t) == may.cut = {} /\ cut = {} /\ may.crash \subseteq {t} /\ Rest(t) \subseteq alive

\* Nothing is on its way from t or to t any more.
Gone(t) == t \notin alive /\ \A q \in Players : net[t][q] = <<>> /\ net[q][t] = <<>>

Dead(t) == (\E p \in Rest(t) : Noticed(peer[p], t)) => Gone(t)

Phase(t, P, N) == IF In(P[Router(t)], t) THEN Before(t, P, N) ELSE After(t, P, N)

IInv(t) == TypeInv /\ Alone(t) /\ Dead(t) /\ Core(t, peer, net) /\ Phase(t, peer, net)

LEMMA TurnKept ==
    ASSUME NEW t \in Players, NEW P, NEW N, NEW Q, NEW M, NEW p, NEW y, NEW S, Turn(t, P, N, Q, M, p, y, S), Phase(t, P, N)
    PROVE  Core(t, Q, M) /\ Phase(t, Q, M)
<1>1. Core(t, Q, M)
  BY CoreKept
<1>2. CASE In(P[Router(t)], t) /\ In(Q[Router(t)], t)
  <2>1. Before(t, Q, M)
    BY <1>2, BeforeKept DEF Phase
  <2> QED BY <1>1, <1>2, <2>1 DEF Phase
<1>3. CASE In(P[Router(t)], t) /\ ~In(Q[Router(t)], t)
  <2>1. After(t, Q, M)
    BY <1>3, Drops DEF Phase
  <2> QED BY <1>1, <1>3, <2>1 DEF Phase
<1>4. CASE ~In(P[Router(t)], t)
  <2>1. After(t, Q, M) /\ ~In(Q[Router(t)], t)
    BY <1>4, AfterKept DEF Phase
  <2> QED BY <1>1, <2>1 DEF Phase
<1> QED BY <1>2, <1>3, <1>4

\* A step of one of the others, as the network makes it.
LEMMA Moves ==
    ASSUME NEW t \in Players, TypeInv, TypeInv', Alone(t), Dead(t), Core(t, peer, net),
           NEW p \in Rest(t), NEW z \in Playing(t), z.self = p, NEW S \in [Players -> [Players -> Seq(Message)]],
           S = net \/ \E q \in Players : Reads(net, S, q, p), Become(p, z, S), Noticed(z, t) => Gone(t)
    PROVE  alive' = alive /\ Move(t, peer, peer', net', p, z, S) /\ Dead(t)'
<1> DEFINE w == [z EXCEPT !.out = ForAll(<<>>)]
<1>1. ~z.quit /\ z \in Peer /\ p \in Players /\ p # t
  BY PlayingAre DEF Own, Rest
<1>2. /\ peer' = [peer EXCEPT ![p] = w] /\ alive' = alive
      /\ \A a, b \in Players : net'[a][b] = IF b \notin alive' \/ ~Connected(peer'[b], a) THEN <<>>
                                           ELSE IF a = p THEN S[a][b] \o z.out[b] ELSE S[a][b]
  <2> DEFINE e == <<>>
  <2>1. /\ peer' = [peer EXCEPT ![p] = IF z.quit THEN NewPeer(p) ELSE [z EXCEPT !.out = ForAll(e)]]
        /\ alive' = IF z.quit THEN alive \ {p} ELSE alive
        /\ net' = [a \in Players |-> [b \in Players |->
                    IF b \notin alive' \/ ~Connected(peer'[b], a) THEN e
                    ELSE IF a = p THEN S[a][b] \o z.out[b] ELSE S[a][b]]]
    BY DEF Become
  <2>2. peer' = [peer EXCEPT ![p] = w] /\ alive' = alive
    BY <1>1, <2>1
  <2> HIDE DEF w, e
  <2>3. \A a, b \in Players : net'[a][b] = IF b \notin alive' \/ ~Connected(peer'[b], a) THEN e
                                           ELSE IF a = p THEN S[a][b] \o z.out[b] ELSE S[a][b]
    BY <2>1
  <2> QED BY <2>2, <2>3 DEF e
<1>3. /\ peer \in [Players -> Peer] /\ net' \in [Players -> [Players -> Seq(Message)]]
      /\ net \in [Players -> [Players -> Seq(Message)]]
  BY DEF TypeInv
<1>4. peer'[p] = w /\ \A q \in Players \ {p} : peer'[q] = peer[q]
  BY <1>1, <1>2, <1>3
<1>5. w.heard = z.heard /\ w.leave = z.leave
  BY <1>1 DEF Peer
<1> HIDE DEF w
<1>6. \A a, b \in Rest(t) : b \in alive' /\ Connected(peer'[b], a)
  <2> TAKE a, b \in Rest(t)
  <2>1. b \in alive' /\ b \in Players
    BY <1>2 DEF Alone, Rest
  <2>2. CASE b = p
    BY <1>4, <1>5, <2>1, <2>2, PlayingAre DEF Known, Connected
  <2>3. CASE b # p
    <3>1. peer[b] \in Peers(t)
      BY DEF Core, World
    <3> QED BY <1>4, <2>1, <2>3, <3>1, PeersAre DEF Known, Connected
  <2> QED BY <2>2, <2>3
<1>7. \A a, b \in Players :
          LET s == IF a = p THEN S[a][b] \o z.out[b] ELSE S[a][b]
          IN  net'[a][b] \in {s, <<>>} /\ (a \in Rest(t) /\ b \in Rest(t) => net'[a][b] = s)
  BY <1>2, <1>6
<1>8. Gone(t) => Gone(t)'
  <2>1. SUFFICES ASSUME Gone(t), NEW q \in Players PROVE net'[t][q] = <<>> /\ net'[q][t] = <<>>
    BY <1>2 DEF Gone
  <2>2. net'[q][t] = <<>>
    BY <1>2, <2>1 DEF Gone
  <2>3. S[t][q] = <<>>
    <3>1. net[t][q] = <<>>
      BY <2>1 DEF Gone
    <3>2. ASSUME NEW a \in Players, Reads(net, S, a, p) PROVE S[t][q] = <<>>
      <4>1. S = [net EXCEPT ![a][p] = Tail(net[a][p])] /\ net[a][p] # <<>>
        BY <3>2 DEF Reads
      <4>2. a # t
        BY <1>1, <2>1, <4>1 DEF Gone
      <4> QED BY <1>3, <3>1, <4>1, <4>2
    <3> QED BY <3>1, <3>2
  <2> QED BY <1>1, <1>2, <2>2, <2>3
<1>9. (\E q \in Rest(t) : Noticed(peer'[q], t)) => Gone(t)
  <2>1. SUFFICES ASSUME NEW q \in Rest(t), Noticed(peer'[q], t) PROVE Gone(t)
    OBVIOUS
  <2>2. CASE q = p
    BY <1>4, <1>5, <2>1, <2>2 DEF Noticed, In
  <2>3. CASE q # p
    BY <1>4, <2>1, <2>3 DEF Dead, Rest
  <2> QED BY <2>2, <2>3
<1>10. Dead(t)'
  BY <1>8, <1>9 DEF Dead
<1>11. (\E q \in Rest(t) : Noticed(peer[q], t)) => \A a \in Players : net'[a][t] = <<>> /\ net'[t][a] = <<>>
  BY <1>8 DEF Dead, Gone
<1>12. Move(t, peer, peer', net', p, z, S)
  BY <1>2, <1>3, <1>7, <1>11 DEF Move, w
<1> QED BY <1>2, <1>10, <1>12

LEMMA MovesKeep ==
    ASSUME NEW t \in Players, IInv(t), TypeInv',
           NEW p \in Rest(t), NEW z \in Playing(t), z.self = p, NEW S \in [Players -> [Players -> Seq(Message)]],
           Kind(t, peer, net, p, z, S), Become(p, z, S), Noticed(z, t) => Gone(t),
           cut' = cut, may'.cut = may.cut, may'.crash = may.crash
    PROVE  IInv(t)'
<1>1. TypeInv /\ Alone(t) /\ Dead(t) /\ Core(t, peer, net) /\ Phase(t, peer, net)
  BY DEF IInv
<1>2. S = net \/ \E q \in Players : Reads(net, S, q, p)
  BY DEF Kind
<1>3. alive' = alive /\ Move(t, peer, peer', net', p, z, S) /\ Dead(t)'
  BY <1>1, <1>2, Moves
<1>4. Turn(t, peer, net, peer', net', p, z, S)
  BY <1>1, <1>3 DEF Turn
<1>5. Core(t, peer', net') /\ Phase(t, peer', net')
  BY <1>1, <1>4, TurnKept
<1>6. Alone(t)'
  BY <1>1, <1>3 DEF Alone
<1> QED BY <1>3, <1>5, <1>6 DEF IInv

LEMMA OtherIs ==
    ASSUME NEW t \in Players, IInv(t), NEW p \in Rest(t)
    PROVE  /\ p \in Players /\ p # t /\ peer[p] \in Peers(t) /\ peer[p] \in Peer /\ peer[p].self = p
           /\ Known(peer[p], t) /\ Own(peer[p], t) /\ peer[p].out = ForAll(<<>>)
           /\ Noticed(peer[p], t) => Gone(t)
           /\ net \in [Players -> [Players -> Seq(Message)]] /\ TypeInv /\ cut = {} /\ Rest(t) \subseteq alive
           /\ Behind(peer[p], t)
<1>1. TypeInv /\ Alone(t) /\ Dead(t) /\ Core(t, peer, net) /\ World(t, peer, net) /\ Phase(t, peer, net)
  BY DEF IInv, Core
<1>2. p \in Players /\ p # t /\ peer[p] \in Peers(t) /\ peer[p].self = p
  BY <1>1 DEF World, Rest
<1>3. Noticed(peer[p], t) => Gone(t)
  BY <1>1 DEF Dead
<1>4. net \in [Players -> [Players -> Seq(Message)]] /\ cut = {} /\ Rest(t) \subseteq alive
  BY <1>1 DEF TypeInv, Alone
<1>5. Behind(peer[p], t)
  <2>1. CASE p # Router(t)
    BY <1>2, <2>1 DEF Behind
  <2>2. CASE p = Router(t) /\ ~In(peer[p], t)
    BY <2>2 DEF Behind
  <2>3. CASE p = Router(t) /\ In(peer[p], t)
    BY <1>1, <2>3 DEF Phase, Before, RouterHolds
  <2> QED BY <2>1, <2>2, <2>3
<1> QED BY <1>1, <1>2, <1>3, <1>4, <1>5, PeersAre

LEMMA UpdateMoves ==
    ASSUME NEW t \in Players, IInv(t), TypeInv', NEW p \in Rest(t), Update(p)
    PROVE  IInv(t)'
<1> DEFINE x == peer[p]
           z == update(x)
<1>1. /\ p \in Players /\ p # t /\ x \in Peers(t) /\ x \in Peer /\ x.self = p /\ Known(x, t) /\ Own(x, t)
      /\ Behind(x, t) /\ net \in [Players -> [Players -> Seq(Message)]] /\ (Noticed(x, t) => Gone(t))
  BY OtherIs
<1>2. Become(p, z, net) /\ cut' = cut /\ may' = may
  BY DEF Update
<1>3. z \in Playing(t) /\ Steps(x, z, t) /\ (In(z, t) \/ ~z.screen \/ Decides(x, z, t))
  BY <1>1, UpdateKept
<1>4. z.self = p
  <2>1. z \in Kin(x)
    BY <1>1, UpdateIs
  <2> QED BY <1>1, <2>1 DEF Kin
<1>5. Noticed(z, t) => Gone(t)
  <2>1. SUFFICES ASSUME ~Noticed(x, t) PROVE ~Noticed(z, t)
    BY <1>1
  <2>2. x.heard[t] /\ In(x, t) /\ ~x.screen /\ x.pending = <<>> /\ \A s \in Players : x.heard[s] \/ ~Connected(x, s)
    BY <1>1, <2>1 DEF Noticed, Own, Known, Rest
  <2>3. PICK y \in Peer : y = restartTimeouts(x) /\ z = [y EXCEPT !.due = FALSE]
    BY <1>1, <2>2, UpdateQuiet
  <2>4. y.heard = x.heard /\ y.leave = x.leave
    <3> DEFINE h == IF x.frame > x.ann THEN "none" ELSE x.hold
               v == [s \in Players |-> IF x.heard[s] THEN "full" ELSE x.bar[s]]
    <3>1. y = [x EXCEPT !.hold = h, !.bar = v]
      BY <1>1, <2>3, RestartIs
    <3> HIDE DEF h, v, x, z
    <3> QED BY <1>1, <3>1 DEF Peer
  <2>5. z.heard = y.heard /\ z.leave = y.leave
    BY <2>3 DEF Peer
  <2> QED BY <2>2, <2>4, <2>5 DEF Noticed, In
<1> HIDE DEF z
<1>6. Kind(t, peer, net, p, z, net)
  BY <1>3 DEF Kind
<1> QED BY <1>1, <1>2, <1>3, <1>4, <1>5, <1>6, MovesKeep

LEMMA ReceiveMoves ==
    ASSUME NEW t \in Players, IInv(t), TypeInv', NEW p \in Rest(t), NEW q \in Players, Receive(p, q)
    PROVE  IInv(t)'
<1> DEFINE x == peer[p]
           c == Head(net[q][p])
           w == [x EXCEPT !.heard[q] = TRUE]
           y == file(w, q, c)
           z == [y EXCEPT !.due = TRUE]
           S == [net EXCEPT ![q][p] = Tail(net[q][p])]
<1>1. /\ p \in Players /\ p # t /\ x \in Peers(t) /\ x \in Peer /\ x.self = p /\ Known(x, t) /\ Own(x, t)
      /\ net \in [Players -> [Players -> Seq(Message)]] /\ (Noticed(x, t) => Gone(t))
  BY OtherIs
<1>2. Become(p, z, S) /\ net[q][p] # <<>> /\ cut' = cut /\ may' = may
  BY DEF Receive
<1>3. Reads(net, S, q, p)
  BY <1>2 DEF Reads
<1>4. c \in Sent(net, q, p) /\ c \in Message
  BY <1>1, <1>3, SentHead
<1>5. Core(t, peer, net)
  BY DEF IInv
<1>6. Fits(t, peer, q, p, c)
  BY <1>1, <1>4, <1>5 DEF Core, Said
<1>7. x.heard[q]
  <2>1. CASE q \in Rest(t)
    BY <1>1, <2>1 DEF Known
  <2>2. CASE q = t
    BY <1>1, <1>2, <2>2 DEF Noticed, Gone
  <2> QED BY <2>1, <2>2 DEF Rest
<1>8. w = x
  <2>1. [x.heard EXCEPT ![q] = TRUE] = x.heard
    BY <1>1, <1>7 DEF Peer
  <2>2. w = [x EXCEPT !.heard = [x.heard EXCEPT ![q] = TRUE]]
    OBVIOUS
  <2> QED BY <1>1, <2>1, <2>2 DEF Peer
<1>9. z \in Playing(t) /\ z.due /\ Gets(x, z, t, q, c)
  <2>1. Carried(c, q, x.self, t)
    BY <1>1, <1>6 DEF Fits
  <2> HIDE DEF c, x
  <2> QED BY <1>1, <1>4, <1>7, <2>1, ReceiveKept
<1>10. y \in Peer /\ y.self = p
  <2> HIDE DEF c
  <2>1. y \in Filed(x)
    BY <1>1, <1>4, <1>8, FileIsFiled
  <2> QED BY <1>1, <2>1 DEF Filed
<1>11. Noticed(z, t) => Gone(t)
  <2>1. SUFFICES ASSUME ~Gone(t) PROVE ~Noticed(z, t)
    OBVIOUS
  <2>2. \A a \in Rest(t) : ~Noticed(peer[a], t) /\ peer[a] \in Peers(t)
    BY <2>1, <1>5 DEF IInv, Dead, Core, World
  <2>3. c \notin Announcement
    <3>1. SUFFICES ASSUME c \in Announcement PROVE FALSE
      OBVIOUS
    <3>2. c \notin FrameInfo
      BY <3>1, KindsOfMessage
    <3>3. q \in Rest(t)
      BY <1>6, <3>2 DEF Fits, Carried, Rest
    <3>4. c.frame <= peer[q].ann /\ c.frame \in Nat /\ c.frame # 0
      <4>1. c.frame <= peer[q].ann
        BY <1>6, <3>1 DEF Fits
      <4>2. c.frame \in Stand \ {0}
        BY <3>1 DEF Announcement
      <4> QED BY <4>1, <4>2, Numbers DEF Stand
    <3>5. peer[q].ann # 0
      BY <3>4
    <3> QED BY <2>2, <3>3, <3>5, AnnouncerNoticed
  <2>4. c \notin DropCommand
    <3>1. SUFFICES ASSUME c \in DropCommand PROVE FALSE
      OBVIOUS
    <3>2. q = Router(t) /\ ~In(peer[q], t)
      BY <1>6, <3>1 DEF Fits, Carried
    <3> QED BY <2>2, <3>2, RestIs, AnnouncerNoticed
  <2>5. y.heard = x.heard /\ y.leave = x.leave
    <3>1. c \in FrameInfo \cup Resend \cup Vote \cup ScreenOff
      BY <1>4, <2>3, <2>4 DEF Message
    <3> HIDE DEF c
    <3> QED BY <1>1, <1>8, <3>1, FileHeard
  <2> HIDE DEF y
  <2>6. z.heard = x.heard /\ z.leave = x.leave
    BY <1>10, <2>5 DEF Peer
  <2> QED BY <2>2, <2>6 DEF Noticed, In
<1>12. z.self = p
  <2> HIDE DEF y
  <2> QED BY <1>10 DEF Peer
<1>13. S \in [Players -> [Players -> Seq(Message)]]
  <2>1. Tail(net[q][p]) \in Seq(Message)
    BY <1>1, <1>2
  <2> QED BY <1>1, <2>1
<1>14. Kind(t, peer, net, p, z, S)
  <2> HIDE DEF z, S
  <2> QED BY <1>3, <1>9 DEF Kind
<1> HIDE DEF z, S
<1> QED BY <1>1, <1>2, <1>9, <1>11, <1>12, <1>13, <1>14, MovesKeep

LEMMA RunMoves ==
    ASSUME NEW t \in Players, IInv(t), TypeInv', NEW p \in Rest(t), RunFrame(p)
    PROVE  IInv(t)'
<1> DEFINE x == peer[p]
           n == RanFrame(x)
           m == [type |-> "FRAMEINFO", frame |-> x.frame + RunAhead]
           z == Post(n, Others(n), m)
<1>1. /\ p \in Players /\ p # t /\ x \in Peers(t) /\ x \in Peer /\ x.self = p /\ TypeInv
      /\ net \in [Players -> [Players -> Seq(Message)]] /\ (Noticed(x, t) => Gone(t))
  BY OtherIs
<1>2. ~x.due /\ allowedToContinue(x) /\ x.frame <= may.frames /\ Become(p, z, net) /\ cut' = cut /\ may' = may
  BY DEF RunFrame, MayRun, RanFrame
<1>3. n \in Peer /\ n.self = p /\ Len(n.ran) = n.frame - 1 /\ m \in FrameInfo /\ m \in Message
  BY <1>1, <1>2, RanFrameIs
<1>4. n.heard = x.heard /\ n.leave = x.leave /\ n.due
  BY <1>1 DEF RanFrame, Peer
<1> HIDE DEF m
<1>5. z \in Playing(t) /\ Runs(x, z, t)
  <2> HIDE DEF x
  <2> QED BY <1>1, <1>2, <1>3, RunKept
<1> HIDE DEF n
<1>6. z.self = p /\ z.heard = n.heard /\ z.leave = n.leave /\ z.due = n.due
  <2>1. z = [n EXCEPT !.out = PostOut(n, Others(n), m)]
    BY <1>3, PostIs
  <2> QED BY <1>3, <2>1 DEF Peer
<1>7. Noticed(z, t) => Gone(t)
  BY <1>1, <1>4, <1>6 DEF Noticed, In
<1> HIDE DEF z
<1>8. Kind(t, peer, net, p, z, net)
  BY <1>4, <1>5, <1>6 DEF Kind
<1> QED BY <1>1, <1>2, <1>5, <1>6, <1>7, <1>8, MovesKeep

\* The timers and the button: each is a step that leaves the peer due.
LEMMA TickMoves ==
    ASSUME NEW t \in Players, IInv(t), TypeInv', NEW p \in Rest(t), NEW y \in Playing(t), y.self = p,
           Idle(peer[p], y, t) \/ (Reopens(peer[p], y, t) /\ \A a, b \in Players : net[a][b] = <<>>),
           Noticed(y, t) => Gone(t), Become(p, [y EXCEPT !.due = TRUE], net),
           cut' = cut, may'.cut = may.cut, may'.crash = may.crash
    PROVE  IInv(t)'
<1> DEFINE x == peer[p]
           z == [y EXCEPT !.due = TRUE]
<1>1. net \in [Players -> [Players -> Seq(Message)]]
  BY OtherIs
<1>2. y \in Peer
  BY PlayingAre
<1>3. z \in Peer /\ Twin(y, z) /\ z.out = y.out /\ z.due
  BY <1>2, DueTwin
<1> HIDE DEF z
<1>4. z \in Playing(t) /\ z.self = p
  BY <1>3, TwinKept DEF Twin, Alike
<1>5. Idle(x, y, t) => Idle(x, z, t)
  BY <1>3, TwinSteps
<1>6. Reopens(x, y, t) => Reopens(x, z, t)
  BY <1>3 DEF Reopens, Twin, Alike
<1>7. Kind(t, peer, net, p, z, net)
  BY <1>3, <1>5, <1>6 DEF Kind, Steps
<1>8. Noticed(z, t) => Gone(t)
  BY <1>3 DEF Noticed, In, Twin, Alike
<1> QED BY <1>1, <1>4, <1>7, <1>8, MovesKeep DEF z

LEMMA SilenceMoves ==
    ASSUME NEW t \in Players, IInv(t), TypeInv', NEW p \in Rest(t), NEW s \in Players, Silence(p, s)
    PROVE  IInv(t)'
<1> DEFINE x == peer[p]
           y == [x EXCEPT !.heard[s] = FALSE]
<1>1. /\ p \in Players /\ p # t /\ x \in Peers(t) /\ x \in Peer /\ x.self = p /\ Known(x, t) /\ cut = {} /\ Rest(t) \subseteq alive
  BY OtherIs
<1>2. s \in Others(x) /\ Unheard(p, s) /\ Settled /\ Become(p, [y EXCEPT !.due = TRUE], net) /\ cut' = cut /\ may' = may
  BY DEF Silence, Tick
<1>3. s = t
  <2>1. SUFFICES ASSUME s \in Rest(t) PROVE FALSE
    BY DEF Rest
  <2>2. Known(peer[s], t)
    BY <2>1, OtherIs
  <2>3. Connected(peer[s], p)
    BY <1>1, <2>2 DEF Known, Connected
  <2> QED BY <1>1, <1>2, <2>1, <2>3 DEF Unheard
<1>4. In(x, t)
  BY <1>2, <1>3 DEF Others, Connected, In
<1>5. y \in Playing(t) /\ Idle(x, y, t)
  BY <1>1, <1>3, <1>4, SilenceKept
<1>6. y.self = p
  BY <1>1 DEF Peer
<1>7. Gone(t)
  <2>1. \A a, b \in Players : net[a][b] = <<>>
    BY <1>1, <1>2 DEF Settled
  <2>2. t \notin alive
    <3>1. Lone(peer[t])
      BY DEF IInv, Core, World
    <3>2. Connected(peer[t], p)
      BY <1>1, <3>1 DEF Lone, ForAll, Connected
    <3> QED BY <1>1, <1>2, <1>3, <3>2 DEF Unheard
  <2> QED BY <2>1, <2>2 DEF Gone
<1> HIDE DEF y
<1> QED BY <1>2, <1>5, <1>6, <1>7, TickMoves

\* Whoever ages or is kicked is the slot that is silent.
LEMMA SilentIs ==
    ASSUME NEW t \in Players, IInv(t), NEW p \in Rest(t), NEW s \in Players, peer[p].screen, ~peer[p].heard[s]
    PROVE  s = t /\ Silenced(peer[p], t) /\ Gone(t)
<1>1. Known(peer[p], t) /\ Own(peer[p], t) /\ (Noticed(peer[p], t) => Gone(t))
  BY OtherIs
<1>2. s = t
  BY <1>1 DEF Known, Rest
<1> QED BY <1>1, <1>2 DEF Own, Silenced, Noticed

LEMMA AgeMoves ==
    ASSUME NEW t \in Players, IInv(t), TypeInv', NEW p \in Rest(t), NEW s \in Players, Age(p, s)
    PROVE  IInv(t)'
<1> DEFINE x == peer[p]
           v == IF x.bar[s] = "full" THEN "low" ELSE "out"
           y == [x EXCEPT !.bar[s] = v]
<1>1. x \in Peers(t) /\ x \in Peer /\ x.self = p
  BY OtherIs
<1>2. Become(p, [y EXCEPT !.due = TRUE], net) /\ cut' = cut /\ may' = may /\ x.screen /\ ~x.heard[s]
  BY DEF Age, Tick
<1>3. s = t /\ Silenced(x, t) /\ Gone(t)
  BY <1>2, SilentIs
<1>4. v \in {"full", "low", "out"}
  OBVIOUS
<1> HIDE DEF v
<1>5. y \in Playing(t) /\ Idle(x, y, t)
  BY <1>1, <1>3, <1>4, AgeKept
<1>6. y.self = p
  BY <1>1 DEF Peer
<1> HIDE DEF y
<1> QED BY <1>2, <1>3, <1>5, <1>6, TickMoves

LEMMA RepeatMoves ==
    ASSUME NEW t \in Players, IInv(t), TypeInv', NEW p \in Rest(t), Repeat(p)
    PROVE  IInv(t)'
<1> DEFINE x == peer[p]
           y == [x EXCEPT !.notified = 0]
<1>1. x \in Peers(t) /\ x \in Peer /\ x.self = p /\ cut = {} /\ (Noticed(x, t) => Gone(t))
  BY OtherIs
<1>2. Become(p, [y EXCEPT !.due = TRUE], net) /\ cut' = cut /\ may' = may /\ x.hold = "released" /\ Settled
  BY DEF Repeat, Tick
<1>3. y \in Playing(t) /\ Reopens(x, y, t)
  BY <1>1, <1>2, RepeatKept
<1>4. \A a, b \in Players : net[a][b] = <<>>
  BY <1>1, <1>2 DEF Settled
<1>5. y.self = p /\ y.heard = x.heard /\ y.leave = x.leave
  BY <1>1 DEF Peer
<1>6. Noticed(y, t) => Gone(t)
  BY <1>1, <1>5 DEF Noticed, In
<1> HIDE DEF y
<1> QED BY <1>2, <1>3, <1>4, <1>5, <1>6, TickMoves

LEMMA KickMoves ==
    ASSUME NEW t \in Players, IInv(t), TypeInv', NEW p \in Rest(t), NEW s \in Players, Kick(p, s)
    PROVE  IInv(t)'
<1> DEFINE x == peer[p]
           y == voteForPlayerDisconnect(x, s)
<1>1. x \in Peers(t) /\ x \in Peer /\ x.self = p /\ TypeInv
  BY OtherIs
<1>2. Become(p, [y EXCEPT !.due = TRUE], net) /\ cut' = cut /\ may' = [may EXCEPT !.kick = @ \ {p}] /\ x.screen /\ ~x.heard[s]
  BY DEF Kick
<1>3. s = t /\ Silenced(x, t) /\ Gone(t)
  BY <1>2, SilentIs
<1>4. y \in Playing(t) /\ Idle(x, y, t)
  BY <1>1, <1>3, KickKept
<1>5. y.self = p
  <2>1. y \in Kin(x)
    BY <1>1, VoteIs
  <2> QED BY <1>1, <2>1 DEF Kin
<1>6. may'.cut = may.cut /\ may'.crash = may.crash
  BY <1>1, <1>2 DEF TypeInv, Game
<1> HIDE DEF y
<1> QED BY <1>2, <1>3, <1>4, <1>5, <1>6, TickMoves

\* A slot that lives is never taken for silent.
LEMMA NoHear ==
    ASSUME NEW t \in Players, IInv(t), NEW p \in Players, NEW s \in Players
    PROVE  ~Hear(p, s)
<1> SUFFICES ASSUME Hear(p, s) PROVE FALSE
  OBVIOUS
<1>1. p \in alive /\ ~Unheard(p, s) /\ ~peer[p].heard[s]
  BY DEF Hear
<1>2. CASE p \in Rest(t)
  <2>1. Known(peer[p], t) /\ (Noticed(peer[p], t) => Gone(t))
    BY <1>2, OtherIs
  <2>2. s = t
    BY <1>1, <2>1 DEF Known, Rest
  <2>3. t \notin alive
    BY <1>1, <2>1, <2>2 DEF Noticed, Gone
  <2> QED BY <1>1, <2>2, <2>3 DEF Unheard
<1>3. CASE p = t
  BY <1>1, <1>3 DEF IInv, Core, World, Lone, ForAll
<1> QED BY <1>2, <1>3 DEF Rest

-----------------------------------------------------------------------------
\* The steps of t, as long as it lives, and what is lost of it afterwards.

LEMMA LoneNew == ASSUME NEW t \in Players PROVE Lone(NewPeer(t))
<1>1. NewPeer(t) \in PeerOf(t)
  BY NewPeerType
<1>2. /\ NewPeer(t).leave = ForAll(Never) /\ NewPeer(t).heard = ForAll(TRUE) /\ ~NewPeer(t).screen
      /\ NewPeer(t).pending = <<>> /\ NewPeer(t).frame = 1
  BY DEF NewPeer
<1>3. Ranged(NewPeer(t))
  BY <1>2 DEF Ranged
<1> QED BY <1>1, <1>2, <1>3 DEF Lone, PeerOf

LEMMA LoneMoves ==
    ASSUME NEW t \in Players, IInv(t), TypeInv', NEW z, NEW S \in [Players -> [Players -> Seq(Message)]], Become(t, z, S),
           S = net \/ \E q \in Players : Reads(net, S, q, t), z.out \in Outs,
           \A b \in Players : AllOf(z.out[b], FrameInfo) /\ (b = t => z.out[b] = <<>>),
           z.quit \/ Lone([z EXCEPT !.out = ForAll(<<>>)]), t \in alive,
           cut' = cut, may'.cut = may.cut, may'.crash \subseteq may.crash
    PROVE  IInv(t)'
<1> DEFINE w == IF z.quit THEN NewPeer(t) ELSE [z EXCEPT !.out = ForAll(<<>>)]
           s(a, b) == IF a = t THEN S[a][b] \o z.out[b] ELSE S[a][b]
<1>1. TypeInv /\ Alone(t) /\ Dead(t) /\ Core(t, peer, net) /\ Phase(t, peer, net) /\ World(t, peer, net)
  BY DEF IInv, Core
<1>2. /\ peer' = [peer EXCEPT ![t] = w] /\ alive' = IF z.quit THEN alive \ {t} ELSE alive
      /\ \A a, b \in Players : net'[a][b] = IF b \notin alive' \/ ~Connected(peer'[b], a) THEN <<>> ELSE s(a, b)
  <2> DEFINE e == <<>>
             v == IF z.quit THEN NewPeer(t) ELSE [z EXCEPT !.out = ForAll(e)]
  <2>1. /\ peer' = [peer EXCEPT ![t] = v]
        /\ alive' = IF z.quit THEN alive \ {t} ELSE alive
        /\ net' = [a \in Players |-> [b \in Players |->
                    IF b \notin alive' \/ ~Connected(peer'[b], a) THEN e
                    ELSE IF a = t THEN S[a][b] \o z.out[b] ELSE S[a][b]]]
    BY DEF Become
  <2> HIDE DEF w, e, v
  <2>2. \A a, b \in Players : net'[a][b] = IF b \notin alive' \/ ~Connected(peer'[b], a) THEN e ELSE s(a, b)
    BY <2>1
  <2> QED BY <2>1, <2>2 DEF e, v, w
<1>3. Lone(w)
  BY LoneNew
<1> HIDE DEF w
<1>4. peer'[t] = w /\ \A q \in Rest(t) : peer'[q] = peer[q] /\ q \in Players /\ q # t /\ q \in alive'
  BY <1>1, <1>2 DEF World, Rest, Alone
<1>5. World(t, peer', net')
  <2>1. /\ peer' \in [Players -> Peer] /\ net' \in [Players -> [Players -> Seq(Message)]]
        /\ \A p \in Players : peer'[p].self = p
    BY DEF TypeInv, PeerOf
  <2> QED BY <1>1, <1>3, <1>4, <2>1 DEF World
<1>6. net \in [Players -> [Players -> Seq(Message)]]
  BY <1>1 DEF World
<1>7. \A a, b \in Rest(t) : net'[a][b] = net[a][b]
  <2> TAKE a, b \in Rest(t)
  <2>1. Connected(peer'[b], a)
    <3>1. Known(peer[b], t)
      BY OtherIs
    <3> QED BY <1>4, <3>1 DEF Known, Connected
  <2>2. S[a][b] = net[a][b]
    <3>1. ASSUME NEW q \in Players, Reads(net, S, q, t) PROVE S[a][b] = net[a][b]
      <4>1. S = [net EXCEPT ![q][t] = Tail(net[q][t])]
        BY <3>1 DEF Reads
      <4> QED BY <1>4, <1>6, <4>1
    <3> QED BY <3>1
  <2> QED BY <1>2, <1>4, <2>1, <2>2
<1>8. ASSUME NEW a \in Players, NEW b \in Players
      PROVE  Sent(net', a, b) \subseteq Sent(net, a, b) \cup (IF a = t /\ b # t THEN FrameInfo ELSE {})
  <2>1. Sent(S, a, b) \subseteq Sent(net, a, b)
    BY <1>6, SentHead
  <2>2. CASE net'[a][b] = <<>>
    BY <2>2 DEF Sent
  <2>3. CASE a # t /\ net'[a][b] = S[a][b]
    BY <2>1, <2>3 DEF Sent
  <2>4. CASE a = t /\ net'[a][b] = S[a][b] \o z.out[b]
    <3> DEFINE c == S[a][b]
               u == z.out[b]
               v == c \o u
    <3>1. c \in Seq(Message) /\ u \in Seq(Message)
      BY DEF Outs
    <3>2. (\A i \in 1 .. Len(c) : c[i] \in Sent(S, a, b)) /\ (\A i \in 1 .. Len(u) : u[i] \in FrameInfo /\ b # t)
      BY DEF Sent, AllOf
    <3>3. Sent(net', a, b) = {v[k] : k \in 1 .. Len(v)}
      BY <2>4 DEF Sent
    <3>4. ASSUME NEW k \in 1 .. Len(v) PROVE v[k] \in Sent(S, a, b) \/ (b # t /\ v[k] \in FrameInfo)
      <4> HIDE DEF c, u
      <4>1. k \in 1 .. Len(c) \/ \E j \in 1 .. Len(u) : k = Len(c) + j
        BY <3>1, Joined
      <4>2. CASE k \in 1 .. Len(c)
        <5>1. v[k] = c[k]
          BY <3>1, <4>2, Joined
        <5> QED BY <3>2, <4>2, <5>1
      <4>3. ASSUME NEW j \in 1 .. Len(u), k = Len(c) + j PROVE v[k] \in FrameInfo /\ b # t
        <5>1. v[k] = u[j]
          BY <3>1, <4>3, Joined
        <5> QED BY <3>2, <5>1
      <4> QED BY <4>1, <4>2, <4>3
    <3> HIDE DEF v
    <3> QED BY <2>1, <2>4, <3>3, <3>4
  <2> QED BY <1>2, <2>2, <2>3, <2>4
<1>9. Aside(t, peer, net, peer', net')
  BY <1>4, <1>5, <1>7, <1>8 DEF Aside
<1>10. Core(t, peer', net') /\ Phase(t, peer', net')
  <2>1. In(peer'[Router(t)], t) <=> In(peer[Router(t)], t)
    BY <1>4, RestIs
  <2> QED BY <1>1, <1>9, <2>1, AsideKept DEF Phase
<1>11. Dead(t)'
  <2>1. \A q \in Rest(t) : ~Noticed(peer[q], t)
    BY <1>1 DEF Dead, Gone
  <2> QED BY <1>4, <2>1 DEF Dead
<1>12. Alone(t)'
  BY <1>1, <1>4 DEF Alone
<1> QED BY <1>10, <1>11, <1>12 DEF IInv

LEMMA LoneIs ==
    ASSUME NEW t \in Players, IInv(t)
    PROVE  /\ peer[t] \in Peer /\ peer[t].self = t /\ Lone(peer[t]) /\ peer[t].pending = <<>> /\ ~peer[t].screen
           /\ (\A s \in Players : peer[t].heard[s] /\ peer[t].leave[s] = Never) /\ peer[t].out \in Outs
           /\ (\A b \in Players : peer[t].out[b] = <<>>) /\ net \in [Players -> [Players -> Seq(Message)]] /\ TypeInv
<1>1. TypeInv /\ World(t, peer, net)
  BY DEF IInv, Core
<1>2. peer[t] \in Peer /\ peer[t].self = t /\ Lone(peer[t]) /\ net \in [Players -> [Players -> Seq(Message)]]
  BY <1>1 DEF World
<1>3. peer[t].out \in Outs
  BY <1>2 DEF Peer, Outs
<1> QED BY <1>1, <1>2, <1>3 DEF Lone, ForAll

\* What t becomes by anything but running a frame.
LEMMA LoneStays ==
    ASSUME NEW t \in Players, IInv(t), NEW z, z.out = peer[t].out,
           z.leave = peer[t].leave, z.heard = peer[t].heard, z.screen = peer[t].screen, z.pending = peer[t].pending,
           z.frame = peer[t].frame, z.ran = peer[t].ran, z.quit = peer[t].quit, z \in Peer
    PROVE  Lone([z EXCEPT !.out = ForAll(<<>>)])
<1> DEFINE o == ForAll(<<>>)
           w == [z EXCEPT !.out = o]
<1>1. Lone(peer[t])
  BY LoneIs
<1> HIDE DEF o
<1>2. /\ w.leave = z.leave /\ w.heard = z.heard /\ w.screen = z.screen /\ w.pending = z.pending
      /\ w.frame = z.frame /\ w.ran = z.ran /\ w.quit = z.quit /\ w.out = o
  BY DEF Peer
<1> HIDE DEF w
<1>3. Lone(w)
  BY <1>1, <1>2 DEF Lone, Ranged, o
<1> QED BY <1>3 DEF w, o

LEMMA LoneUpdates ==
    ASSUME NEW t \in Players, IInv(t), TypeInv', Update(t)
    PROVE  IInv(t)'
<1> DEFINE x == peer[t]
           z == update(x)
<1>1. x \in Peer /\ x.pending = <<>> /\ ~x.screen /\ (\A s \in Players : x.heard[s]) /\ x.out \in Outs
      /\ (\A b \in Players : x.out[b] = <<>>) /\ net \in [Players -> [Players -> Seq(Message)]]
  BY LoneIs
<1>2. Become(t, z, net) /\ cut' = cut /\ may' = may /\ t \in alive
  BY DEF Update
<1>3. PICK y \in Peer : y = restartTimeouts(x) /\ z = [y EXCEPT !.due = FALSE]
  BY <1>1, UpdateQuiet
<1>4. /\ y.heard = x.heard /\ y.leave = x.leave /\ y.screen = x.screen /\ y.pending = x.pending /\ y.frame = x.frame
      /\ y.ran = x.ran /\ y.quit = x.quit /\ y.out = x.out
  <2> DEFINE h == IF x.frame > x.ann THEN "none" ELSE x.hold
             v == [s \in Players |-> IF x.heard[s] THEN "full" ELSE x.bar[s]]
  <2>1. y = [x EXCEPT !.hold = h, !.bar = v]
    BY <1>1, <1>3, RestartIs
  <2> HIDE DEF h, v, x, z
  <2> QED BY <1>1, <2>1 DEF Peer
<1> HIDE DEF z
<1>5. /\ z \in Peer /\ z.heard = x.heard /\ z.leave = x.leave /\ z.screen = x.screen /\ z.pending = x.pending /\ z.frame = x.frame
      /\ z.ran = x.ran /\ z.quit = x.quit /\ z.out = x.out
  BY <1>3, <1>4 DEF Peer
<1>6. Lone([z EXCEPT !.out = ForAll(<<>>)])
  BY <1>5, LoneStays
<1>7. \A b \in Players : AllOf(z.out[b], FrameInfo) /\ (b = t => z.out[b] = <<>>)
  BY <1>1, <1>5 DEF AllOf
<1> QED BY <1>1, <1>2, <1>5, <1>6, <1>7, LoneMoves

LEMMA FrameHeard ==
    ASSUME NEW x \in Peer, NEW q \in Players, NEW c \in FrameInfo
    PROVE  \E h : file(x, q, c) = [x EXCEPT !.have = h]
<1>1. c \in FrameInfo \cup Resend \cup Vote \cup ScreenOff
  OBVIOUS
<1>2. c \in FrameInfo => \E h : file(x, q, c) = [x EXCEPT !.have = h]
  BY <1>1, FileHeard
<1> QED BY <1>2

LEMMA LoneReceives ==
    ASSUME NEW t \in Players, IInv(t), TypeInv', NEW q \in Players, Receive(t, q)
    PROVE  IInv(t)'
<1> DEFINE x == peer[t]
           c == Head(net[q][t])
           w == [x EXCEPT !.heard[q] = TRUE]
           y == file(w, q, c)
           z == [y EXCEPT !.due = TRUE]
           S == [net EXCEPT ![q][t] = Tail(net[q][t])]
<1>1. x \in Peer /\ (\A s \in Players : x.heard[s]) /\ x.out \in Outs
      /\ (\A b \in Players : x.out[b] = <<>>) /\ net \in [Players -> [Players -> Seq(Message)]]
  BY LoneIs
<1>2. Become(t, z, S) /\ net[q][t] # <<>> /\ cut' = cut /\ may' = may /\ t \in alive
  BY DEF Receive
<1>3. Reads(net, S, q, t)
  BY <1>2 DEF Reads
<1>4. c \in FrameInfo
  <2>1. c \in Sent(net, q, t)
    BY <1>1, <1>3, SentHead
  <2>2. Fits(t, peer, q, t, c)
    BY <2>1 DEF IInv, Core, Said
  <2> QED BY <2>2 DEF Fits, Carried
<1>5. w = x
  <2>1. [x.heard EXCEPT ![q] = TRUE] = x.heard
    BY <1>1 DEF Peer
  <2>2. w = [x EXCEPT !.heard = [x.heard EXCEPT ![q] = TRUE]]
    OBVIOUS
  <2> QED BY <1>1, <2>1, <2>2 DEF Peer
<1>6. y \in Peer /\ \E h : y = [x EXCEPT !.have = h]
  <2> HIDE DEF c, x
  <2>1. c \in Message
    BY <1>4 DEF Message
  <2>2. \E h : file(x, q, c) = [x EXCEPT !.have = h]
    BY <1>1, <1>4, FrameHeard, ZenonT(30)
  <2>3. file(x, q, c) \in Filed(x)
    BY <1>1, <2>1, FileIsFiled
  <2> QED BY <1>5, <2>2, <2>3 DEF Filed
<1> HIDE DEF y, S
<1>7. /\ y.heard = x.heard /\ y.leave = x.leave /\ y.screen = x.screen /\ y.pending = x.pending /\ y.frame = x.frame
      /\ y.ran = x.ran /\ y.quit = x.quit /\ y.out = x.out
  BY <1>1, <1>6 DEF Peer
<1>8. /\ z \in Peer /\ z.heard = x.heard /\ z.leave = x.leave /\ z.screen = x.screen /\ z.pending = x.pending /\ z.frame = x.frame
      /\ z.ran = x.ran /\ z.quit = x.quit /\ z.out = x.out
  BY <1>6, <1>7 DEF Peer
<1> HIDE DEF z
<1>9. Lone([z EXCEPT !.out = ForAll(<<>>)])
  BY <1>8, LoneStays
<1>10. \A b \in Players : AllOf(z.out[b], FrameInfo) /\ (b = t => z.out[b] = <<>>)
  BY <1>1, <1>8 DEF AllOf
<1>11. S \in [Players -> [Players -> Seq(Message)]]
  <2>1. Tail(net[q][t]) \in Seq(Message)
    BY <1>1, <1>2
  <2> QED BY <1>1, <2>1 DEF S
<1> QED BY <1>1, <1>2, <1>3, <1>8, <1>9, <1>10, <1>11, LoneMoves

LEMMA RangedOn ==
    ASSUME NEW x \in Peer, Ranged(x), Len(x.ran) = x.frame - 1, x.frame \in Nat, x.frame >= 1,
           NEW y, y.frame = x.frame + 1, y.leave = x.leave,
           y.ran = Append(x.ran, {q \in Players : x.frame < x.leave[q]})
    PROVE  Ranged(y)
<1> DEFINE s == {q \in Players : x.frame < x.leave[q]}
<1>1. x.ran \in Seq(SUBSET Players) /\ y.ran = Append(x.ran, s)
  BY DEF Peer
<1> HIDE DEF s
<1>2. ASSUME NEW f \in 1 .. y.frame - 1 PROVE y.ran[f] = {q \in Players : f < y.leave[q]}
  <2>1. f \in 1 .. x.frame
    OBVIOUS
  <2>2. CASE f = x.frame
    <3>1. y.ran[f] = s
      BY <1>1, <2>2
    <3> QED BY <2>2, <3>1 DEF s
  <2>3. CASE f # x.frame
    <3>1. f \in 1 .. x.frame - 1 /\ f \in 1 .. Len(x.ran)
      BY <2>1, <2>3
    <3>2. y.ran[f] = x.ran[f]
      BY <1>1, <3>1
    <3> QED BY <3>1, <3>2 DEF Ranged
  <2> QED BY <2>2, <2>3
<1> QED BY <1>2 DEF Ranged

LEMMA LoneRuns ==
    ASSUME NEW t \in Players, IInv(t), TypeInv', RunFrame(t)
    PROVE  IInv(t)'
<1> DEFINE x == peer[t]
           n == RanFrame(x)
           m == [type |-> "FRAMEINFO", frame |-> x.frame + RunAhead]
           o == PostOut(n, Others(n), m)
           z == Post(n, Others(n), m)
           s == {q \in Players : x.frame < x.leave[q]}
<1>1. /\ x \in Peer /\ x.self = t /\ Lone(x) /\ x.out \in Outs /\ (\A b \in Players : x.out[b] = <<>>)
      /\ net \in [Players -> [Players -> Seq(Message)]] /\ TypeInv
  BY LoneIs
<1>2. x.frame <= may.frames /\ Become(t, z, net) /\ cut' = cut /\ may' = may /\ t \in alive
  BY DEF RunFrame, MayRun, RanFrame
<1>3. n \in Peer /\ n.self = t /\ Len(n.ran) = n.frame - 1 /\ m \in FrameInfo /\ m \in Message
  BY <1>1, <1>2, RanFrameIs
<1>4. x.frame \in Nat /\ x.frame >= 1
  <2>1. x.frame \in Stand \ {0}
    BY <1>1 DEF Peer
  <2> HIDE DEF x
  <2> QED BY <2>1, Numbers DEF Stand
<1>5. /\ n.quit = x.quit /\ n.frame = x.frame + 1 /\ n.ran = Append(x.ran, s) /\ n.leave = x.leave /\ n.heard = x.heard
      /\ n.screen = x.screen /\ n.pending = x.pending /\ n.out = x.out
  BY <1>1 DEF RanFrame, Peer
<1>6. Ranged(n)
  BY <1>1, <1>4, <1>5, RangedOn DEF Lone
<1> HIDE DEF m, n, s, x
<1>7. z = [n EXCEPT !.out = o] /\ z \in Peer /\ o \in Outs
  BY <1>3, PostIs DEF Kin
<1>8. \A b \in Players : AllOf(o[b], FrameInfo) /\ (b = t => o[b] = <<>>)
  <2> TAKE b \in Players
  <2>1. o[b] = IF b \in Others(n) THEN Append(n.out[b], m) ELSE n.out[b]
    BY DEF PostOut
  <2>2. n.out[b] = <<>> /\ t \notin Others(n)
    BY <1>1, <1>3, <1>5 DEF Others
  <2>3. o[b] = <<>> \/ (b # t /\ o[b] = <<m>>)
    BY <2>1, <2>2
  <2> QED BY <1>3, <2>3 DEF AllOf
<1> HIDE DEF z, o
<1>9. z.out = o /\ ~z.quit /\ Lone([z EXCEPT !.out = ForAll(<<>>)])
  <2> DEFINE e == ForAll(<<>>)
             w == [z EXCEPT !.out = e]
  <2> HIDE DEF e
  <2>1. /\ z.quit = n.quit /\ z.frame = n.frame /\ z.ran = n.ran /\ z.leave = n.leave /\ z.heard = n.heard
        /\ z.screen = n.screen /\ z.pending = n.pending /\ z.out = o
    BY <1>3, <1>7 DEF Peer
  <2>2. /\ w.quit = z.quit /\ w.frame = z.frame /\ w.ran = z.ran /\ w.leave = z.leave /\ w.heard = z.heard
        /\ w.screen = z.screen /\ w.pending = z.pending /\ w.out = e
    BY <1>7 DEF Peer
  <2> HIDE DEF w
  <2>3. Ranged(w)
    BY <1>6, <2>1, <2>2 DEF Ranged
  <2>4. Lone(w)
    BY <1>1, <1>3, <1>5, <2>1, <2>2, <2>3 DEF Lone, e
  <2> QED BY <1>1, <1>5, <2>1, <2>4 DEF w, e, Lone
<1>10. z.out \in Outs /\ \A b \in Players : AllOf(z.out[b], FrameInfo) /\ (b = t => z.out[b] = <<>>)
  BY <1>7, <1>8, <1>9
<1> QED BY <1>1, <1>2, <1>9, <1>10, LoneMoves

LEMMA LoneCrashes ==
    ASSUME NEW t \in Players, IInv(t), TypeInv', Crash(t)
    PROVE  IInv(t)'
<1> DEFINE z == [peer[t] EXCEPT !.quit = TRUE]
<1>1. /\ peer[t] \in Peer /\ peer[t].out \in Outs /\ (\A b \in Players : peer[t].out[b] = <<>>)
      /\ net \in [Players -> [Players -> Seq(Message)]] /\ TypeInv
  BY LoneIs
<1>2. Become(t, z, net) /\ cut' = cut /\ may' = [may EXCEPT !.crash = @ \ {t}] /\ t \in alive
  BY DEF Crash
<1>3. z.quit /\ z.out = peer[t].out
  BY <1>1 DEF Peer
<1>4. may'.cut = may.cut /\ may'.crash \subseteq may.crash
  BY <1>1, <1>2 DEF TypeInv, Game
<1> HIDE DEF z
<1>5. z.out \in Outs /\ \A b \in Players : AllOf(z.out[b], FrameInfo) /\ (b = t => z.out[b] = <<>>)
  BY <1>1, <1>3 DEF AllOf
<1> QED BY <1>1, <1>2, <1>3, <1>4, <1>5, LoneMoves

\* What t left on its way is lost.
LEMMA LossKept ==
    ASSUME NEW t \in Players, IInv(t), TypeInv', NEW p \in Players, NEW q \in Players, Lost(p, q)
    PROVE  IInv(t)'
<1>1. TypeInv /\ Alone(t) /\ Dead(t) /\ Core(t, peer, net) /\ Phase(t, peer, net) /\ World(t, peer, net)
  BY DEF IInv, Core
<1>2. p \notin alive /\ UNCHANGED <<peer, alive, cut, may>>
  BY DEF Lost
<1>3. p = t
  BY <1>1, <1>2 DEF Alone, Rest
<1>4. net \in [Players -> [Players -> Seq(Message)]] /\ net' \in [Players -> [Players -> Seq(Message)]]
  BY <1>1 DEF TypeInv
<1>5. \A a, b \in Players : net'[a][b] = net[a][b] \/ net'[a][b] = <<>>
  <2> DEFINE e == <<>>
  <2>1. net' = [net EXCEPT ![p][q] = e]
    BY DEF Lost
  <2> HIDE DEF e
  <2>2. \A a, b \in Players : net'[a][b] = net[a][b] \/ net'[a][b] = e
    BY <1>4, <2>1
  <2> QED BY <2>2 DEF e
<1>6. \A a, b \in Rest(t) : net'[a][b] = net[a][b]
  <2> DEFINE e == <<>>
  <2>1. net' = [net EXCEPT ![t][q] = e]
    BY <1>3 DEF Lost
  <2> HIDE DEF e
  <2> QED BY <1>4, <2>1 DEF Rest
<1>7. Aside(t, peer, net, peer', net')
  <2>1. World(t, peer', net')
    BY <1>1, <1>2, <1>4 DEF World
  <2>2. \A a, b \in Players : Sent(net', a, b) \subseteq Sent(net, a, b)
    BY <1>5 DEF Sent
  <2> QED BY <1>2, <1>6, <2>1, <2>2 DEF Aside
<1>8. Core(t, peer', net') /\ Phase(t, peer', net')
  BY <1>1, <1>2, <1>7, AsideKept DEF Phase
<1>9. Dead(t)' /\ Alone(t)'
  BY <1>1, <1>2, <1>5 DEF Dead, Gone, Alone
<1> QED BY <1>8, <1>9 DEF IInv

\* t never takes anybody for silent.
LEMMA LoneWaits ==
    ASSUME NEW t \in Players, IInv(t), NEW s \in Players
    PROVE  ~Silence(t, s) /\ ~Age(t, s) /\ ~Repeat(t) /\ ~Kick(t, s)
<1>1. /\ peer[t].self = t /\ Lone(peer[t]) /\ ~peer[t].screen
  BY LoneIs
<1>2. ASSUME Silence(t, s) PROVE FALSE
  <2>1. t \in alive /\ s \in Rest(t) /\ Unheard(t, s)
    BY <1>1, <1>2 DEF Silence, Others, Rest
  <2>2. s \in alive /\ cut = {} /\ (Noticed(peer[s], t) => Gone(t))
    BY <2>1, OtherIs
  <2>3. ~Connected(peer[s], t)
    BY <2>1, <2>2 DEF Unheard
  <2> QED BY <2>1, <2>2, <2>3 DEF Connected, Noticed, In, Gone
<1> QED BY <1>1, <1>2 DEF Age, Repeat, Kick

LEMMA IInvStutters ==
    ASSUME NEW t \in Players, IInv(t), TypeInv', UNCHANGED vars
    PROVE  IInv(t)'
<1>1. TypeInv /\ Alone(t) /\ Dead(t) /\ Core(t, peer, net) /\ Phase(t, peer, net)
  BY DEF IInv
<1>2. peer' = peer /\ net' = net /\ alive' = alive /\ cut' = cut /\ may' = may
  BY DEF vars
<1>3. Core(t, peer', net') /\ Phase(t, peer', net') /\ Alone(t)' /\ Dead(t)'
  BY <1>1, <1>2 DEF Alone, Dead, Gone
<1> QED BY <1>3 DEF IInv

LEMMA IInvNext ==
    ASSUME NEW t \in Players, IInv(t), [Next]_vars
    PROVE  IInv(t)'
<1>1. TypeInv /\ Alone(t)
  BY DEF IInv
<1>2. TypeInv'
  BY <1>1, TypeNext
<1>3. ASSUME NEW p \in Players PROVE p \in Rest(t) \/ p = t
  BY DEF Rest
<1>4. CASE Work
  <2>1. ASSUME NEW p \in Players, Update(p) PROVE IInv(t)'
    BY <1>2, <1>3, <2>1, UpdateMoves, LoneUpdates
  <2>2. ASSUME NEW p \in Players, RunFrame(p) PROVE IInv(t)'
    BY <1>2, <1>3, <2>2, RunMoves, LoneRuns
  <2>3. ASSUME NEW p \in Players, NEW q \in Players, Receive(p, q) PROVE IInv(t)'
    BY <1>2, <1>3, <2>3, ReceiveMoves, LoneReceives
  <2> QED BY <1>4, <2>1, <2>2, <2>3 DEF Work
<1>5. CASE Timers
  <2>1. ASSUME NEW p \in Players, NEW s \in Players, Silence(p, s) PROVE IInv(t)'
    BY <1>2, <1>3, <2>1, SilenceMoves, LoneWaits
  <2>2. ASSUME NEW p \in Players, NEW s \in Players, Age(p, s) PROVE IInv(t)'
    BY <1>2, <1>3, <2>2, AgeMoves, LoneWaits
  <2> QED BY <1>5, <2>1, <2>2 DEF Timers
<1>6. CASE Answers
  BY <1>6, NoHear DEF Answers
<1>7. CASE Repeats
  <2>1. ASSUME NEW p \in Players, Repeat(p) PROVE IInv(t)'
    BY <1>2, <1>3, <2>1, RepeatMoves, LoneWaits
  <2> QED BY <1>7, <2>1 DEF Repeats
<1>8. CASE Heals
  BY <1>1, <1>8 DEF Heals, Alone
<1>9. CASE Failures
  <2>1. ASSUME NEW p \in Players, Crash(p) PROVE IInv(t)'
    <3>1. p = t
      BY <1>1, <2>1 DEF Crash, Alone
    <3> QED BY <1>2, <2>1, <3>1, LoneCrashes
  <2>2. ASSUME NEW p \in Players, NEW q \in Players, Lost(p, q) PROVE IInv(t)'
    BY <1>2, <2>2, LossKept
  <2>3. ASSUME NEW p \in Players, NEW q \in Players, Kick(p, q) PROVE IInv(t)'
    BY <1>2, <1>3, <2>3, KickMoves, LoneWaits
  <2>4. ASSUME NEW p \in Players, NEW q \in Players, Cut(p, q) PROVE IInv(t)'
    BY <1>1, <2>4 DEF Cut, Alone
  <2> QED BY <1>9, <2>1, <2>2, <2>3, <2>4 DEF Failures
<1>10. CASE UNCHANGED vars
  BY <1>2, <1>10, IInvStutters
<1> QED BY <1>4, <1>5, <1>6, <1>7, <1>8, <1>9, <1>10 DEF Next

LEMMA NewPeers ==
    ASSUME NEW t \in Players, NEW p \in Rest(t)
    PROVE  NewPeer(p) \in Peers(t)
<1> DEFINE x == NewPeer(p)
           e == <<>>
<1>1. p \in Players /\ p # t
  BY DEF Rest
<1>2. x \in Peer
  BY <1>1, NewPeerType
<1>3. /\ x.self = p /\ x.frame = 1 /\ x.ran = e /\ x.leave = ForAll(Never) /\ x.heard = ForAll(TRUE) /\ x.bar = ForAll("full")
      /\ ~x.screen /\ x.votes = ForAll(ForAll(0)) /\ x.df = ForAll(0) /\ x.dfr = ForAll(FALSE)
      /\ x.ann = 0 /\ x.hold = "none" /\ x.notified = 0 /\ x.decided = <<>> /\ x.pending = <<>> /\ ~x.quit /\ x.out = ForAll(<<>>)
  BY DEF NewPeer
<1>4. Len(x.ran) = 0
  BY <1>3
<1> HIDE DEF x, e
<1>5. \A q \in Players : /\ x.leave[q] = Never /\ x.heard[q] /\ x.bar[q] = "full" /\ x.df[q] = 0 /\ ~x.dfr[q]
                         /\ \A v \in Players : x.votes[q][v] = 0
  BY <1>3 DEF ForAll
<1>6. Known(x, t)
  BY <1>5 DEF Known, Rest
<1>7. Own(x, t)
  <2>1. x.df[t] = 0 /\ ~x.dfr[t] /\ x.leave[t] = Never /\ x.heard[t] /\ x.votes[t][p] = 0 /\ x.bar[t] = "full" /\ x.df[p] = 0
    BY <1>1, <1>5
  <2>2. \A i \in Players : ~x.dfr[i]
    BY <1>5
  <2>3. ~x.quit /\ x.self = p /\ x.frame = 1 /\ x.ann = 0 /\ x.hold = "none" /\ x.notified = 0 /\ ~x.screen
    BY <1>3
  <2>4. x.decided = <<>> /\ x.pending = <<>>
    BY <1>3
  <2> QED BY ONLY <2>1, <2>2, <2>3, <2>4 DEF Own, In
<1>8. Ranged(x)
  BY <1>3 DEF Ranged
<1>9. x \in Playing(t)
  BY <1>2, <1>3, <1>4, <1>6, <1>7, <1>8 DEF Playing, KeptIn
<1> QED BY <1>3, <1>9 DEF Peers, x

LEMMA IInvInit ==
    ASSUME NEW t \in Players, Init, may.cut = {}, may.crash \subseteq {t}
    PROVE  IInv(t)
<1> DEFINE r == Router(t)
<1>1. TypeInv
  BY TypeInit
<1>2. Alone(t)
  BY DEF Init, Alone, Rest
<1>3. /\ \A p \in Players : peer[p] = NewPeer(p)
      /\ \A q \in Followers(t) : q \in Rest(t) /\ q # r
      /\ r \in Rest(t) /\ \A q \in Rest(t) : q \in Players
  BY RestIs DEF Init, Followers
<1>4. \A p \in Players : /\ peer[p].frame = 1 /\ peer[p].ann = 0 /\ peer[p].decided = <<>> /\ Len(peer[p].decided) = 0
                         /\ \A q \in Players : /\ peer[p].leave[q] = Never /\ peer[p].heard[q]
                                               /\ peer[p].df[q] = 0 /\ ~peer[p].dfr[q]
  <2>1. ASSUME NEW p \in Players
        PROVE  /\ NewPeer(p).frame = 1 /\ NewPeer(p).ann = 0 /\ NewPeer(p).decided = <<>> /\ NewPeer(p).leave = ForAll(Never)
               /\ NewPeer(p).heard = ForAll(TRUE) /\ NewPeer(p).df = ForAll(0) /\ NewPeer(p).dfr = ForAll(FALSE)
    BY DEF NewPeer
  <2>2. Len(<<>>) = 0
    OBVIOUS
  <2> QED BY <1>3, <2>1, <2>2 DEF ForAll
<1>5. World(t, peer, net)
  <2>1. \A p \in Rest(t) : peer[p] \in Peers(t)
    BY <1>3, NewPeers
  <2>2. Lone(peer[t])
    BY <1>3, LoneNew
  <2> QED BY <1>1, <2>1, <2>2 DEF World, TypeInv, PeerOf
<1>6. \A a, b \in Players : \A m \in Sent(net, a, b) : m \in FrameInfo /\ a # b
  <2> TAKE a, b \in Players
  <2>1. CASE a = b
    <3>1. net[a][b] = <<>>
      BY <2>1 DEF Init
    <3> QED BY <3>1 DEF Sent
  <2>2. CASE a # b
    <3> DEFINE g == [f \in 1 .. RunAhead |-> [type |-> "FRAMEINFO", frame |-> f]]
    <3>1. net[a][b] = g
      <4> DEFINE e == <<>>
      <4>1. net = [c \in Players |-> [d \in Players |-> IF c = d THEN e ELSE g]]
        BY DEF Init
      <4> HIDE DEF e, g
      <4> QED BY <2>2, <4>1
    <3>2. Len(g) = RunAhead
      BY Numbers
    <3>3. \A f \in 1 .. RunAhead : [type |-> "FRAMEINFO", frame |-> f] \in FrameInfo
      BY Numbers DEF FrameInfo
    <3>4. \A f \in 1 .. RunAhead : g[f] \in FrameInfo
      BY <3>3
    <3> HIDE DEF g
    <3> QED BY <2>2, <3>1, <3>2, <3>4 DEF Sent
  <2> QED BY <2>1, <2>2
<1>7. \A m \in FrameInfo : m \notin Announcement /\ m \notin ScreenOff /\ m \notin Vote /\ m \notin DropCommand
                           /\ \A q, f : ~Names(m, f) /\ ~Frees(m, q, f)
  BY DEF FrameInfo, Announcement, ScreenOff, Vote, DropCommand, Names, Frees
<1>8. Said(t, peer, net)
  BY <1>6, <1>7 DEF Said, Fits, Carried
<1>9. Records(t, peer)
  BY <1>3, <1>4 DEF Records
<1>10. Leaves(t, peer)
  BY <1>3, <1>4 DEF Leaves, Decided, In
<1>11. \A q \in Followers(t) : \A f : ~Open(t, peer, net, q, f)
  BY <1>3, <1>4, <1>6, <1>7 DEF Open
<1>12. Phase(t, peer, net)
  <2>1. In(peer[r], t)
    BY <1>3, <1>4 DEF In
  <2>2. RouterHolds(t, peer)
    BY <1>3, <1>4 DEF RouterHolds, Behind
  <2>3. Holds(t, peer, net)
    BY <1>11 DEF Holds
  <2>4. Closed(t, peer, net)
    BY <1>3, <1>6, <1>7 DEF Closed
  <2>5. Fresh(t, peer, net)
    BY <1>3, <1>4 DEF Fresh
  <2>6. Rising(t, net)
    <3>1. \A q \in Followers(t) : \A k \in 1 .. Len(net[q][r]) : net[q][r][k] \notin Announcement
      BY <1>3, <1>6, <1>7 DEF Sent
    <3> QED BY <3>1 DEF Rising
  <2>7. First(t, peer, net)
    BY <1>11 DEF First, Followers
  <2> QED BY <2>1, <2>2, <2>3, <2>4, <2>5, <2>6, <2>7 DEF Phase, Before
<1>13. Dead(t)
  BY <1>3, <1>4 DEF Dead, Noticed, In
<1> QED BY <1>1, <1>2, <1>5, <1>8, <1>9, <1>10, <1>12, <1>13 DEF IInv, Core

-----------------------------------------------------------------------------
\* A game in which at most one process stops, and no pair of peers loses sight
\* of each other.
OneFailure == may.cut = {} /\ \E t \in Players : may.crash \subseteq {t}
Inductive == \E t \in Players : IInv(t)

LEMMA InductiveHolds == Spec /\ OneFailure => []Inductive
<1>1. Init /\ OneFailure => Inductive
  BY IInvInit DEF OneFailure, Inductive
<1>2. Inductive /\ [Next]_vars => Inductive'
  <2> SUFFICES ASSUME Inductive, [Next]_vars PROVE Inductive'
    OBVIOUS
  <2>1. PICK t \in Players : IInv(t)
    BY DEF Inductive
  <2>2. IInv(t)'
    BY <2>1, IInvNext
  <2> QED BY <2>2 DEF Inductive
<1> QED BY <1>1, <1>2, PTL DEF Spec

LEMMA DropsAgree ==
    ASSUME NEW t \in Players, IInv(t), NEW p \in alive, NEW q \in alive, NEW s \in Players, ~Connected(peer[p], s)
    PROVE  \/ peer[q].leave[s] = peer[p].leave[s]
           \/ Connected(peer[q], s) /\ peer[q].frame <= peer[p].leave[s]
<1>1. /\ TypeInv /\ World(t, peer, net) /\ Leaves(t, peer) /\ Phase(t, peer, net) /\ Dead(t)
      /\ p \in Players /\ q \in Players
  BY DEF IInv, Core, TypeInv
<1>2. p \in Rest(t) /\ s = t
  <2>1. p # t
    BY <1>1 DEF World, Lone, ForAll, Connected
  <2>2. p \in Rest(t)
    BY <1>1, <2>1 DEF Rest
  <2>3. Known(peer[p], t)
    BY <2>2, OtherIs
  <2> QED BY <2>2, <2>3 DEF Known, Connected, Rest
<1>3. ~In(peer[p], t) /\ q \in Rest(t)
  <2>1. ~In(peer[p], t)
    BY <1>2 DEF In, Connected
  <2>2. t \notin alive
    BY <1>1, <1>2, <2>1 DEF Dead, Noticed, Gone
  <2> QED BY <1>1, <2>1, <2>2 DEF Rest
<1>4. peer[p].leave[t] = peer[Router(t)].leave[t]
  BY <1>1, <1>2, <1>3 DEF Leaves, In
<1>5. CASE ~In(peer[q], t)
  BY <1>1, <1>2, <1>3, <1>4, <1>5 DEF Leaves, In
<1>6. CASE In(peer[q], t)
  <2>1. ~In(peer[Router(t)], t)
    BY <1>3, <1>4 DEF In
  <2>2. Stands(peer[q], peer[Router(t)].leave[t])
    BY <1>1, <1>3, <1>6, <2>1 DEF Phase, After, Waits
  <2>3. peer[q].frame = peer[p].leave[t]
    BY <1>4, <2>2 DEF Stands
  <2>4. peer[p].leave[t] \in Int
    <3>1. peer[p] \in Peer
      BY <1>2, OtherIs
    <3>2. peer[p].leave[t] \in Frames \cup {Never}
      BY <3>1 DEF Peer
    <3> QED BY <3>2, Numbers
  <2> QED BY <1>2, <1>6, <2>3, <2>4 DEF Connected, In
<1> QED BY <1>5, <1>6

\* A slot that stops is dropped by all that stay at one frame, and whoever has
\* not dropped it yet still waits at that frame or before it
\* (DisconnectManager::allOnSameFrame, DisconnectManager.h: in step on every
\* remaining peer).
THEOREM DroppedInTime == Spec /\ OneFailure => []DropInTime
<1>1. Inductive => DropInTime
  <2> SUFFICES ASSUME Inductive, NEW p \in alive, NEW q \in alive, NEW s \in Players, ~Connected(peer[p], s)
               PROVE  \/ peer[q].leave[s] = peer[p].leave[s]
                      \/ Connected(peer[q], s) /\ peer[q].frame <= peer[p].leave[s]
    BY DEF DropInTime
  <2>1. PICK t \in Players : IInv(t)
    BY DEF Inductive
  <2> QED BY <2>1, DropsAgree
<1> QED BY <1>1, InductiveHolds, PTL

\* A frame that ran is run with the same slots by whoever dropped another one
\* of them meanwhile.
LEMMA SlotsAgree ==
    ASSUME NEW t \in Players, IInv(t), NEW p \in alive, NEW q \in alive, NEW f \in Nat, f <= peer[p].frame - 1,
           NEW s \in Players, f < peer[p].leave[s]
    PROVE  f < peer[q].leave[s]
<1>1. TypeInv /\ p \in Players /\ q \in Players
  BY DEF IInv, TypeInv
<1>2. peer[p].frame \in 1 .. MaxFrame + 1
  BY <1>1, AboutPeer
<1>3. peer[q].leave[s] \in Frames \cup {Never}
  BY <1>1, AboutPeer DEF Peer
<1>4. CASE Connected(peer[q], s)
  BY <1>2, <1>4, Numbers DEF Connected
<1>5. CASE ~Connected(peer[q], s)
  <2>1. peer[p].leave[s] = peer[q].leave[s] \/ peer[p].frame <= peer[q].leave[s]
    BY <1>5, DropsAgree
  <2> QED BY <1>2, <1>3, <2>1, Numbers
<1> QED BY <1>4, <1>5

\* Peers that play together run every frame with the commands of the same
\* slots, whichever slot stops and wherever each of them stands when it does.
THEOREM StaysInStep == Spec /\ OneFailure => []InStep
<1>1. Inductive => InStep
  <2> SUFFICES ASSUME Inductive, NEW p \in alive, NEW q \in alive, NEW f \in DOMAIN peer[p].ran \cap DOMAIN peer[q].ran
               PROVE  peer[p].ran[f] = peer[q].ran[f]
    BY DEF InStep
  <2>1. PICK t \in Players : IInv(t)
    BY DEF Inductive
  <2>2. ASSUME NEW r \in alive, f \in DOMAIN peer[r].ran
        PROVE  f \in Nat /\ f <= peer[r].frame - 1 /\ peer[r].ran[f] = {s \in Players : f < peer[r].leave[s]}
    <3>1. TypeInv /\ r \in Players /\ World(t, peer, net)
      BY <2>1 DEF IInv, Core, TypeInv
    <3>2. Len(peer[r].ran) = peer[r].frame - 1 /\ peer[r] \in Peer
      BY <3>1, AboutPeer
    <3>3. f \in 1 .. peer[r].frame - 1
      <4>1. peer[r].ran \in Seq(SUBSET Players)
        BY <3>2 DEF Peer
      <4>2. DOMAIN peer[r].ran = 1 .. Len(peer[r].ran)
        BY <4>1
      <4> QED BY <2>2, <3>2, <4>2
    <3>4. Ranged(peer[r])
      <4>1. CASE r = t
        BY <3>1, <4>1 DEF World, Lone
      <4>2. CASE r \in Rest(t)
        BY <2>1, <4>2, OtherIs, PeersAre
      <4> QED BY <3>1, <4>1, <4>2 DEF Rest
    <3>5. peer[r].frame \in Int
      BY <3>1, AboutPeer
    <3> QED BY <3>3, <3>4, <3>5 DEF Ranged
  <2>3. \A s \in Players : f < peer[p].leave[s] <=> f < peer[q].leave[s]
    BY <2>1, <2>2, SlotsAgree
  <2> QED BY <2>2, <2>3
<1> QED BY <1>1, InductiveHolds, PTL

=============================================================================
