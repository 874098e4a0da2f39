-------------------------------- MODULE Rejoin --------------------------------
(***************************************************************************)
(* The rejoin of a lockstep game (engine/src/GameNetwork): a player's new  *)
(* process fetches the relay's log of the running game in chunks           *)
(* (RelayLogFetch), runs the frames that are complete in it                *)
(* (RelayLog::assemble, CommandLogCatchUp), asks to be taken back, and     *)
(* switches to lockstep behind the frame whose REJOIN took it              *)
(* (NetGameSession::rejoinStep).                                           *)
(*                                                                         *)
(* The other players are one process, the packet router, which never       *)
(* fails; the player has crashed when the behaviour starts.  What a        *)
(* process sent before it stopped reaches the others before they drop it.  *)
(* A frame's commands and its FRAMEINFO are one record of the log, and a   *)
(* log offset counts records.  A request for a chunk, and its answer, may  *)
(* be lost, late, repeated and overtaken.  The one-minute limits of the    *)
(* wait for the REJOIN and of the tail are left out.                       *)
(***************************************************************************)
EXTENDS Integers, Sequences, FiniteSets, SequencesExt

CONSTANTS
    RunAhead,       \* frames between a command's issue and its execution
    Chunk,          \* kLogChunkBytes, in records
    Window,         \* RelayLogFetch::window
    NearEdge,       \* how close to the log's edge the catch-up asks to be taken back
    MaxFrame,       \* bound of the frames the others run for themselves
    MaxGeneration   \* bound of the player's restarts

Never == 1000           \* 0xFFFFFFFF, of a frame

ASSUME RejoinAssumption ==
    /\ RunAhead \in Nat \ {0} /\ Chunk \in Nat \ {0} /\ Window \in Nat \ {0} /\ NearEdge \in Nat
    /\ MaxFrame \in Nat \ {0} /\ MaxGeneration \in Nat
    /\ RunAhead + 2 < Never

VARIABLES
    log,        \* the relay's log
    other,      \* the packet router and what it knows of the player's slot
    player,     \* the player's process
    fetch       \* its RelayLogFetch

vars == <<log, other, player, fetch>>

Nobody == -1            \* a frame ran without the player's commands

-----------------------------------------------------------------------------
\* The log's records

Info(frame, rejoin) == [kind |-> "other", frame |-> frame, rejoin |-> rejoin]
OwnInfo(frame) == [kind |-> "own", frame |-> frame]
Dropped(frame) == [kind |-> "drop", frame |-> frame]
Rejoined(generation) == [kind |-> "rejoined", generation |-> generation]
Destroyed == [kind |-> "destroy"]

Positions(kind, records) == {i \in DOMAIN records : records[i].kind = kind}
FramesOf(kind, records) == {records[i].frame : i \in Positions(kind, records)}

\* The nth of these numbers, from the least on.
Nth(n, S) == CHOOSE x \in S : Cardinality({y \in S : y <= x}) = n

\* RelayLog::assemble, of a log that is still written.  An incarnation of the
\* slot runs from the frame after its REJOIN to the first drop from there on.
\* Its infos are those behind its REJOINED record.
Incarnations(records) == 1 + Cardinality(Positions("rejoined", records))

Generation(records, k) ==
    IF k = 1 THEN 0 ELSE records[Nth(k - 1, Positions("rejoined", records))].generation

OwnFrames(records, k) ==
    {records[i].frame : i \in {j \in Positions("own", records) :
        Cardinality({r \in Positions("rejoined", records) : r < j}) = k - 1}}

End(records, join) == Min({d \in FramesOf("drop", records) : d >= join} \cup {Never})

\* The frames with the router's REJOIN.
Rejoins(records) ==
    {records[i].frame : i \in {j \in Positions("other", records) : records[j].rejoin}}

\* Each REJOIN starts the first incarnation that waits for one.
\* It starts at the REJOIN's own frame.
Mutant_Joins(records) ==
    [k \in 1 .. Min({Incarnations(records), 1 + Cardinality(Rejoins(records))}) |->
        IF k = 1 THEN 0 ELSE Nth(k - 1, Rejoins(records))]

\* It starts at the frame after the REJOIN's.
Joins(records) ==
    [k \in 1 .. Min({Incarnations(records), 1 + Cardinality(Rejoins(records))}) |->
        IF k = 1 THEN 0 ELSE 1 + Nth(k - 1, Rejoins(records))]

\* The incarnation that runs a frame; 0: none.
Member(records, joins, frame) ==
    Max({0} \cup {k \in DOMAIN joins : joins[k] <= frame /\ frame < End(records, joins[k])})

Assembled(records) ==
    LET frames == FramesOf("other", records)
        joins == Joins(records)
        Complete(f) ==
            LET k == Member(records, joins, f)
            IN  f \in frames /\ (k # 0 => f \in OwnFrames(records, k))
        complete == Min({f \in 0 .. Cardinality(frames) : ~Complete(f)})
        mine == Incarnations(records)
    IN  [complete |-> complete,                 \* lastCompleteFrame + 1
         \* whose commands each of these frames has
         ran |-> [f \in 1 .. complete |->
                     LET k == Member(records, joins, f - 1)
                     IN  IF k = 0 THEN Nobody ELSE Generation(records, k)],
         ours |-> mine >= 2,
         join |-> IF mine \in DOMAIN joins \ {1} /\ joins[mine] <= complete THEN joins[mine] ELSE Never,
         handedOver |-> Positions("destroy", records) # {}]

-----------------------------------------------------------------------------
\* RelayLogFetch.  bytes and early hold positions of the log.

\* The contiguous bytes: while there is an early chunk at their end, it is joined.
\* A chunk that overlaps what is there is joined too.
Mutant_Contiguous(bytes, early) ==
    LET joined[n \in 0 .. Cardinality(DOMAIN early)] ==
            IF n = 0 THEN bytes
            ELSE LET b == joined[n - 1]
                     reached == {off \in DOMAIN early : off <= Len(b)}
                 IN  IF reached # {} THEN b \o early[Max(reached)] ELSE b
    IN  joined[Cardinality(DOMAIN early)]

Joined(bytes, early) ==
    LET joined[n \in 0 .. Cardinality(DOMAIN early)] ==
            IF n = 0 THEN bytes
            ELSE LET b == joined[n - 1]
                 IN  IF Len(b) \in DOMAIN early THEN b \o early[Len(b)] ELSE b
    IN  joined

Contiguous(bytes, early) == Joined(bytes, early)[Cardinality(DOMAIN early)]

\* The chunk at off of a log of that size.
ChunkOf(off, size) == [i \in 1 .. Max({0, Min({Chunk, size - off})}) |-> off + i]

\* What may have arrived since the last step: an answer to a request tells any
\* size the log had from then on.
Arrivals ==
    UNION {{sizes \in [A -> 0 .. Len(log)] : \A off \in A : fetch.asks[off] <= sizes[off]} :
           A \in SUBSET DOMAIN fetch.asks}

\* The offsets asked for: the chunks below the relay's size, and the log's end.
\* The end is not asked for again: what the log gains is never fetched.
Mutant_Asked(have, size) ==
    {off \in {have + i * Chunk : i \in 0 .. Window - 1} : off < size \/ have = 0}

Asked(have, size) ==
    {off \in {have + i * Chunk : i \in 0 .. Window - 1} : off < size \/ off = have}

Kept(early, have) == Restrict(early, {off \in DOMAIN early : off > have})

\* RelayLogFetch::step
Fetched(sizes) ==
    LET size == Max({fetch.relaySize} \cup {sizes[off] : off \in DOMAIN sizes})
        arrived == [off \in {o \in DOMAIN sizes : o >= Len(fetch.bytes)} |-> ChunkOf(off, sizes[off])]
        early == [off \in DOMAIN arrived \cup DOMAIN fetch.early |->
                      IF off \in DOMAIN arrived THEN arrived[off] ELSE fetch.early[off]]
        bytes == Contiguous(fetch.bytes, early)
        have == Len(bytes)
        asked == {off \in DOMAIN fetch.asks : off >= have}
    IN  [relaySize |-> size,
         bytes |-> bytes,
         early |-> Kept(early, have),
         asks |-> [off \in asked \cup Asked(have, size) |->
                       IF off \in asked THEN fetch.asks[off] ELSE Len(log)]]

NoFetch == [relaySize |-> 0, bytes |-> <<>>, early |-> <<>>, asks |-> <<>>]

CaughtUp(f) == f.relaySize > 0 /\ Len(f.bytes) >= f.relaySize

Parsed(f) == [i \in DOMAIN f.bytes |-> log[f.bytes[i]]]

-----------------------------------------------------------------------------
\* The player's process

Running == player.state \in {"catching", "waiting", "live"}

Crash ==
    /\ Running
    /\ player' = [player EXCEPT !.state = "off"]
    /\ fetch' = NoFetch
    /\ UNCHANGED <<log, other>>

\* A restarted game binds with its rejoin ticket: the relay logs it
\* (RelayCore::hello) and the process begins its rejoin (beginRejoin).
Bind ==
    /\ player.state = "off" /\ player.generation < MaxGeneration
    /\ log' = Append(log, Rejoined(player.generation + 1))
    /\ player' = [state |-> "catching", generation |-> player.generation + 1, frame |-> 0,
                  ran |-> <<>>, join |-> Never, announced |-> -1, stream |-> 0,
                  asked |-> player.asked]
    /\ fetch' = NoFetch
    /\ UNCHANGED other

\* The catch-up runs to frame n of the assembled log.
RunTo(n, a) == player.ran \o SubSeq(a.ran, player.frame + 1, n)

\* The frames below the one the catch-up may not run.
Reach(a) == Max({player.frame, Min({a.complete, a.join})})

\* The players' CRC of the state before frame f is among the commands of
\* frame f + RunAhead.
Mismatch(ran, a) ==
    \E f \in 1 .. Len(ran) : f + RunAhead < a.complete /\ f <= Len(other.ran) /\ ran[f] # other.ran[f]

\* A client that never asked to be taken back switches too early.
Ready(a, f, n) == a.ours /\ CaughtUp(f) /\ n + NearEdge >= a.complete - 1

\* rejoinStep, with the time to run so many frames: the fetch and the process after it.
RejoinStep(sizes, budget) ==
    LET f == Fetched(sizes)
        a == Assembled(Parsed(f))
        n == Min({Reach(a), player.frame + budget})
        ran == RunTo(n, a)
        failed == a.handedOver \/ (~a.ours /\ CaughtUp(f)) \/ Mismatch(ran, a)
        waiting == player.state = "waiting" \/ Ready(a, f, n)
    IN  [fetch |-> f,
         player |-> IF failed THEN [player EXCEPT !.state = "failed"]
                    ELSE [player EXCEPT
                             !.frame = n, !.ran = ran,
                             !.state = IF n >= a.join THEN "live"
                                       ELSE IF waiting THEN "waiting" ELSE "catching",
                             !.join = IF n >= a.join THEN a.join ELSE Never,
                             !.announced = IF n >= a.join THEN a.join - 1 ELSE @,
                             !.asked = IF waiting THEN player.generation ELSE @]]

CatchUp(sizes, budget) ==
    /\ player.state \in {"catching", "waiting"}
    /\ \E after \in {RejoinStep(sizes, budget)} :
        fetch' = after.fetch /\ player' = after.player
    /\ UNCHANGED <<log, other>>

\* Network::update of a client in lockstep: the info of the next frame.
Announce ==
    /\ player.state = "live" /\ player.announced < player.frame + RunAhead - 1
    /\ log' = Append(log, OwnInfo(player.announced + 1))
    /\ player' = [player EXCEPT !.announced = @ + 1]
    /\ UNCHANGED <<other, fetch>>

\* The stream of the others carries what they sent since they took it back.
Hear ==
    /\ Running /\ other.streamFrom # Never /\ other.member = player.generation
    /\ player.stream # other.frame + RunAhead - other.streamFrom
    /\ player' = [player EXCEPT !.stream = other.frame + RunAhead - other.streamFrom]
    /\ UNCHANGED <<log, other, fetch>>

\* A frame whose commands have come, live or filled from the log.
Filled(frame) == frame \in FramesOf("other", Parsed(fetch))

Got(frame) ==
    \/ Filled(frame)
    \/ frame >= other.streamFrom /\ frame < other.streamFrom + player.stream

RunLive ==
    /\ player.state = "live" /\ player.announced = player.frame + RunAhead - 1
    /\ Got(player.frame)
    /\ player' = [player EXCEPT !.frame = @ + 1, !.ran = Append(@, player.generation)]
    /\ UNCHANGED <<log, other, fetch>>

\* service: a client that waits for a frame reads the log's tail.
ReadTail(sizes) ==
    /\ player.state = "live" /\ ~Got(player.frame)
    /\ fetch' = Fetched(sizes)
    /\ UNCHANGED <<log, other, player>>

-----------------------------------------------------------------------------
\* The others

\* slotNeeded
Needed(frame) == other.join <= frame /\ frame < other.leave

\* The infos of the slot's member incarnation that are logged.
Sent == {log[i].frame : i \in {j \in DOMAIN log : log[j].kind = "own" /\ log[j].frame >= other.join}}

Receive ==
    /\ other.leave = Never /\ other.has \in Sent
    /\ other' = [other EXCEPT !.has = 1 + Max(Sent)]
    /\ UNCHANGED <<log, player, fetch>>

\* checkRelayStatus
Status ==
    /\ other.seen < player.generation
    /\ other' = [other EXCEPT !.seen = player.generation]
    /\ UNCHANGED <<log, player, fetch>>

\* The member's process is gone: it is silent, or restarted.
\* A restarted one is not silent, so it is waited for.
Mutant_Gone == ~Running

Gone == ~Running \/ other.seen > other.member

\* disconnectPlayer, at the frame that waits for the slot.
Drop ==
    /\ Needed(other.frame) /\ other.has <= other.frame /\ Gone
    /\ other.has \notin Sent
    /\ other' = [other EXCEPT !.leave = other.frame, !.streamFrom = Never, !.issued = Never]
    /\ log' = Append(log, Dropped(other.frame))
    /\ UNCHANGED <<player, fetch>>

Held == other.leave # Never /\ ~other.handedOver

\* newIncarnationTalking
Talking == Held /\ other.seen > other.member

\* The REJOINREQUEST and the router's REJOIN (receiveAll, routerRejoinDuties).
TakeBack ==
    /\ Talking /\ player.asked = other.seen /\ other.issued = Never
    /\ other' = [other EXCEPT !.issued = other.frame + RunAhead]
    /\ UNCHANGED <<log, player, fetch>>

\* The rejoin window ends.
HandOver ==
    /\ Held /\ other.issued = Never
    /\ other' = [other EXCEPT !.handedOver = TRUE]
    /\ log' = Append(log, Destroyed)
    /\ UNCHANGED <<player, fetch>>

\* applyRejoin
\* The slot is waited for from the REJOIN's own frame on.
Mutant_TakenBack(o) ==
    [o EXCEPT !.join = o.issued, !.leave = Never, !.has = o.issued + 1,
              !.member = o.seen, !.streamFrom = o.issued + RunAhead, !.issued = Never]

TakenBack(o) ==
    [o EXCEPT !.join = o.issued + 1, !.leave = Never, !.has = o.issued + 1,
              !.member = o.seen, !.streamFrom = o.issued + RunAhead, !.issued = Never]

\* relayCommands, and the info of the next frame.  The bound: the game goes on
\* beyond MaxFrame until the player who is gone is dropped and the one who
\* returns is in it, with its frames below Never.
RunFrame ==
    /\ other.frame + RunAhead + 2 < Never
    /\ \/ other.frame < MaxFrame \/ other.issued # Never \/ other.frame <= other.join
       \/ Gone /\ other.leave = Never
    /\ Needed(other.frame) => other.frame < other.has
    /\ LET ran == [other EXCEPT !.ran = Append(@, IF Needed(other.frame) THEN other.member ELSE Nobody)]
           after == IF other.issued = other.frame THEN TakenBack(ran) ELSE ran
       IN  other' = [after EXCEPT !.frame = @ + 1]
    /\ log' = Append(log, Info(other.frame + RunAhead, other.issued = other.frame + RunAhead))
    /\ UNCHANGED <<player, fetch>>

-----------------------------------------------------------------------------

\* The players ran one frame together; the player announced up to frame a.
Init ==
    \E a \in 0 .. RunAhead :
        /\ log = [f \in 1 .. RunAhead + 1 |-> Info(f - 1, FALSE)] \o [f \in 1 .. a + 1 |-> OwnInfo(f - 1)]
        /\ other = [frame |-> 1, ran |-> <<0>>, join |-> 0, leave |-> Never, has |-> a + 1,
                    member |-> 0, seen |-> 0, issued |-> Never, handedOver |-> FALSE,
                    streamFrom |-> Never]
        /\ player = [state |-> "off", generation |-> 0, frame |-> 0, ran |-> <<>>, join |-> Never,
                     announced |-> -1, stream |-> 0, asked |-> 0]
        /\ fetch = NoFetch

Others == Receive \/ Status \/ Drop \/ TakeBack \/ RunFrame
Fetches ==
    \E sizes \in Arrivals :
        ReadTail(sizes) \/ \E budget \in {1, Never} : CatchUp(sizes, budget)
Client == Fetches \/ Announce \/ Hear \/ RunLive
Next == Others \/ Client \/ HandOver \/ Crash \/ Bind

Spec == Init /\ [][Next]_vars

\* What is asked for is answered in the end, and the catch-up gets its time.
Answered == [off \in {Len(fetch.bytes)} \cap DOMAIN fetch.asks |-> Len(log)]
Answers == CatchUp(Answered, Never) \/ ReadTail(Answered)

\* ENABLED <<Answers>>_vars
AnswerTells ==
    \/ /\ player.state \in {"catching", "waiting"}
       /\ RejoinStep(Answered, Never) # [fetch |-> fetch, player |-> player]
    \/ /\ player.state = "live" /\ ~Got(player.frame)
       /\ Fetched(Answered) # fetch

FairSpec ==
    /\ Spec
    /\ WF_vars(Receive) /\ WF_vars(Status) /\ WF_vars(Drop) /\ WF_vars(TakeBack) /\ WF_vars(RunFrame)
    /\ []<>~AnswerTells \/ []<><<Answers>>_vars
    /\ WF_vars(Announce) /\ WF_vars(Hear) /\ WF_vars(RunLive)

-----------------------------------------------------------------------------
\* Properties

\* What the fetch joined is the log's beginning, whatever order the chunks of
\* a log that grows came in and however long each was.
LogPrefix ==
    /\ \A i \in DOMAIN fetch.bytes : fetch.bytes[i] = i
    /\ Len(fetch.bytes) <= Len(log)

\* A client that runs, in the catch-up or in lockstep, ran every frame with the
\* commands the others ran it with.
InStep ==
    Running => \A f \in 1 .. Len(player.ran) : f <= Len(other.ran) => player.ran[f] = other.ran[f]

\* The others took this process back at that frame, or are about to.
TakesBack(generation, join) ==
    \/ other.issued # Never /\ other.seen = generation /\ other.issued + 1 = join
    \/ other.member = generation /\ other.join = join

\* The join frame a client goes by is the one the others take this very process
\* back from, and the log names it for a client that waits (NetGameSession.cpp:
\* "the REJOIN of this incarnation [...] names the first lockstep frame").
JoinNamed ==
    /\ player.state = "live" => TakesBack(player.generation, player.join)
    /\ player.state \in {"catching", "waiting"} /\ other.leave = Never /\ other.member = player.generation
       => Assembled(log).join = other.join

\* A player who comes back gets into the game, and over the frames that were
\* under way while it did, unless it stops or its army was handed over.
InGame == player.state = "live" /\ player.frame >= player.join + RunAhead
RejoinEnds ==
    player.state \in {"catching", "waiting"} ~> InGame \/ player.state = "off" \/ other.handedOver

\* The others never wait for the player for ever.
Waits == Needed(other.frame) /\ other.has <= other.frame
GameGoesOn == Waits ~> ~Waits

=============================================================================
