------------------------------ MODULE RelayCanonicalAuthority ------------------------------
(***************************************************************************)
(* A canonical game from end to end: the clients of its slots              *)
(* (Network::updateCanonical), the reliable channels (as the FIFO that     *)
(* RelayBundleChannel implements), and the relay: RelayCore's handling of  *)
(* HELLO, DATA, BYE and tick around a RelayCanonicalAuthority              *)
(* (services/online/relay), with the game log the records are appended to. *)
(*                                                                         *)
(* Every handler of the relay runs alone and to its end.  The builder and  *)
(* the scheduler are those of module RelayFrameScheduler without the byte  *)
(* budgets: an order whose frame is due is in the frame.                   *)
(***************************************************************************)
EXTENDS Integers, FiniteSets, RelayCursor

CONSTANTS
    ChannelWindow,   \* maxPendingMessages of the channels
    Games            \* what may happen in a game; a behaviour is one of them:
                     \*   policy: "EqualDelay" or "NextFrame"
                     \*   lasts: bound of the relay's clock
                     \*   updates, orders: bounds of the updates each client makes and of
                     \*     the orders its player gives
                     \*   repeats: bound of the HELLOs and BYEs the relay hears again
                     \*   silent: the slots that may fall silent
                     \*   tickets: by how much a rejoin ticket may raise each slot's generation
                     \*   fair: the fairness of FairSpec is asked for, and liveness shown

ASSUME AuthorityAssumption ==
    /\ SlotMask \subseteq Slot /\ SlotMask # {}
    /\ ChannelWindow \in Nat \ {0}
    /\ \A g \in Games :
        /\ g.policy \in {"EqualDelay", "NextFrame"} /\ g.lasts \in Nat /\ OriginMs <= g.lasts
        /\ g.updates \in [Slot -> Nat] /\ g.orders \in [Slot -> Nat] /\ g.repeats \in Nat
        /\ g.silent \subseteq SlotMask /\ g.tickets \in [Slot -> SUBSET (Nat \ {0})]
        /\ g.fair \in BOOLEAN

VARIABLES
    \* the authority
    builder,      \* m_builder and m_scheduler: the next frame and, for each slot, the
                  \* order ids, the queue of orders, the open window and the beat ids
    membership,   \* m_membership
    dirty,        \* m_membershipDirty
    members,      \* the slots m_members holds a channel for
    sequence,     \* m_sequence
    generation,   \* m_membershipGeneration
    outbox,       \* m_outbox: records no append of which succeeded
    failed,       \* m_failure is not empty
    refusedAt,    \* the slots m_errors names for an order or beat not admitted
    \* RelayCore's game
    bye,          \* the slots that left by BYE
    live,         \* the game log is open and took every write so far
    log,          \* the canonical records of the game log
    closed,       \* the game is over
    repeats,      \* the repeated HELLOs and BYEs heard so far
    now,          \* the relay's clock
    \* the network and the clients
    up,           \* for each slot, the messages on the way to the relay
    down,         \* for each slot, the records on the way to the client
    queued,       \* for each slot, the records its channel at the relay holds unacknowledged
    client,       \* for each slot, its Network's canonical state
    game          \* which of Games this behaviour is: it never changes

authorityVars == <<builder, membership, dirty, members, sequence, generation, outbox, failed, refusedAt>>
coreVars == <<bye, live, log, closed, repeats, now>>
wireVars == <<up, down, queued, client>>
vars == <<authorityVars, coreVars, wireVars, game>>

-----------------------------------------------------------------------------
\* The scheduler and the builder (see RelayFrameScheduler).

NewBuilder ==
    [nextFrame |-> FirstFrame, nextId |-> [s \in Slot |-> 1], orders |-> [s \in Slot |-> <<>>],
     beatFrame |-> [s \in Slot |-> FirstFrame], nextBeatId |-> [s \in Slot |-> 1]]

\* A slot that departed is still waited for.
Mutant_Required(m) == m.slotMask

Required(m) == m.active \ (m.held \union m.departed)

SealDue(b, m) ==
    IF game.policy = "NextFrame"
    THEN BoundaryInRange(b.nextFrame) /\ now >= BoundaryOf(b.nextFrame)
    ELSE \A s \in Required(m) : b.beatFrame[s] > b.nextFrame

Stamp(b, s) ==
    LET candidate == IF game.policy = "NextFrame" THEN FrameAfter(now) ELSE b.beatFrame[s]
    IN  IF candidate < b.nextFrame THEN b.nextFrame ELSE candidate

Admits(b, s, message) ==
    IF message.kind = "Beat"
    THEN message.id = b.nextBeatId[s] /\ b.beatFrame[s] # MaxFrame
    ELSE /\ message.id = b.nextId[s]
         /\ b.nextFrame # MaxFrame /\ Stamp(b, s) # MaxFrame
         /\ game.policy = "NextFrame" => FrameAfterInRange(now)

Admitted(b, s, message) ==
    IF ~Admits(b, s, message) THEN b
    ELSE IF message.kind = "Beat"
    THEN [b EXCEPT !.nextBeatId[s] = @ + 1, !.beatFrame[s] = @ + 1]
    ELSE [b EXCEPT !.nextId[s] = @ + 1,
                   !.orders[s] = Append(@, [id |-> message.id, eligible |-> Stamp(b, s)])]

\* The builder after each of a slot's messages.
Admitting(b, s, messages) ==
    LET upTo[n \in 0 .. Len(messages)] ==
            IF n = 0 THEN b ELSE Admitted(upTo[n - 1], s, messages[n])
    IN  upTo

\* The leading orders of a slot that are due, the frame's orders, and the
\* builder once the frame is committed.
Due(b, s) ==
    Cardinality({n \in 1 .. Len(b.orders[s]) : \A k \in 1 .. n : b.orders[s][k].eligible <= b.nextFrame})

Gathered(b, m) ==
    [s \in Slot |-> IF s \in m.active THEN [i \in 1 .. Due(b, s) |-> b.orders[s][i].id] ELSE <<>>]

Committed(b, orders) ==
    [b EXCEPT !.nextFrame = @ + 1,
              !.orders = [s \in Slot |-> SubSeq(@[s], Len(orders[s]) + 1, Len(@[s]))]]

-----------------------------------------------------------------------------
\* pump(): a membership record when the membership changed, a frame when one
\* is due, both appended to the log before any client is sent either.

Stamped(kind, n, b, g, payload) ==
    [kind |-> kind, sequence |-> n, frame |-> b.nextFrame, generation |-> g, payload |-> payload]

CanSeal(b, m) == SealDue(b, m) /\ b.nextFrame # MaxFrame /\ Valid(m)

\* The frame refers to the membership before the one just staged.
Mutant_StagedRecords(b, m, changed) ==
    LET first == IF changed THEN 1 ELSE 0
    IN  (IF changed
         THEN <<Stamped("Membership", sequence + 1, b, generation + 1, IF Valid(m) THEN <<m>> ELSE <<>>)>>
         ELSE <<>>)
        \o (IF CanSeal(b, m)
            THEN <<Stamped("Frame", sequence + first + 1, b, generation, <<Gathered(b, m)>>)>>
            ELSE <<>>)

\* The records the call stages, over a builder b and a membership m that is
\* dirty or not; the membership record stays empty until its append.
StagedRecords(b, m, changed) ==
    LET first == IF changed THEN 1 ELSE 0
        g == generation + first
    IN  (IF changed
         THEN <<Stamped("Membership", sequence + 1, b, g, IF Valid(m) THEN <<m>> ELSE <<>>)>>
         ELSE <<>>)
        \o (IF CanSeal(b, m)
            THEN <<Stamped("Frame", sequence + first + 1, b, g, <<Gathered(b, m)>>)>>
            ELSE <<>>)

\* A full channel takes the records too.
Mutant_Fanout(records) ==
    /\ down' = [s \in Slot |-> IF s \in members THEN down[s] \o records ELSE down[s]]
    /\ queued' = [s \in Slot |-> IF s \in members THEN queued[s] + Len(records) ELSE queued[s]]

\* fanout(): each record to the channel of every member, as far as the window
\* of the channel has room; what has none is an error line.
Fanout(records) ==
    LET fits(s) == IF Len(records) <= ChannelWindow - queued[s] THEN Len(records)
                   ELSE ChannelWindow - queued[s]
    IN  /\ down' = [s \in Slot |->
                IF s \in members THEN down[s] \o SubSeq(records, 1, fits(s)) ELSE down[s]]
        /\ queued' = [s \in Slot |-> IF s \in members THEN queued[s] + fits(s) ELSE queued[s]]

\* The appends of a list of records: all of them, or those before the write
\* that finds the log closed, full or failing.
Appends(records, landed) ==
    /\ landed > 0 => live
    /\ live' = (live /\ landed = Len(records))
    /\ log' = log \o SubSeq(records, 1, landed)

\* A record is published before its append.
Mutant_Pump(b, m, changed) ==
    IF failed
    THEN /\ builder' = b /\ membership' = m /\ dirty' = changed
         /\ UNCHANGED <<sequence, generation, outbox, failed, live, log, down, queued>>
    ELSE
    LET staged == StagedRecords(b, m, changed) IN
    /\ membership' = m
    /\ dirty' = FALSE
    /\ sequence' = sequence + Len(staged)
    /\ generation' = IF changed THEN generation + 1 ELSE generation
    /\ IF changed /\ ~Valid(m)
       THEN /\ failed' = TRUE /\ outbox' = staged /\ builder' = b
            /\ UNCHANGED <<live, log, down, queued>>
       ELSE \E landed \in 0 .. Len(staged) :
            /\ Appends(staged, landed)
            /\ outbox' = SubSeq(staged, landed + 1, Len(staged))
            /\ failed' = (landed # Len(staged))
            /\ builder' = IF landed > 0 /\ staged[landed].kind = "Frame"
                          THEN Committed(b, staged[landed].payload[1]) ELSE b
            /\ Fanout(staged)

Pump(b, m, changed) ==
    IF failed
    THEN /\ builder' = b /\ membership' = m /\ dirty' = changed
         /\ UNCHANGED <<sequence, generation, outbox, failed, live, log, down, queued>>
    ELSE
    LET staged == StagedRecords(b, m, changed) IN
    /\ membership' = m
    /\ dirty' = FALSE
    /\ sequence' = sequence + Len(staged)
    /\ generation' = IF changed THEN generation + 1 ELSE generation
    /\ IF changed /\ ~Valid(m)
       THEN /\ failed' = TRUE /\ outbox' = staged /\ builder' = b
            /\ UNCHANGED <<live, log, down, queued>>
       ELSE \E landed \in 0 .. Len(staged) :
            /\ Appends(staged, landed)
            /\ outbox' = SubSeq(staged, landed + 1, Len(staged))
            /\ failed' = (landed # Len(staged))
            /\ builder' = IF landed > 0 /\ staged[landed].kind = "Frame"
                          THEN Committed(b, staged[landed].payload[1]) ELSE b
            /\ Fanout(SubSeq(staged, 1, landed))

-----------------------------------------------------------------------------
\* The membership: bind, depart and hold.

Bound(m, s, ticket) ==
    [m EXCEPT !.held = @ \ {s}, !.active = @ \union {s},
              !.loaded = IF s \in m.active THEN @ ELSE @ \union {s},
              !.generation[s] = ticket]

Departed(m, s) ==
    [m EXCEPT !.active = @ \ {s}, !.held = @ \ {s}, !.loaded = @ \ {s},
              !.departed = @ \union {s}]

\* A slot that is held stays active.
Held(m, quiet) == [m EXCEPT !.held = @ \union quiet]
Holdable(m, quiet) == {s \in quiet : s \in m.active /\ s \notin m.departed}

-----------------------------------------------------------------------------
\* A client (Network::updateCanonical).

NewClient == [cursor |-> NewCursor, orderId |-> 0, beatId |-> 0, frames |-> <<>>, rejected |-> FALSE]

\* The input of the frames among a list of records, as the cursor takes them.
FramesFed(c, records) ==
    LET fed == Feeding(c, records)
        upTo[n \in 0 .. Len(records)] ==
            IF n = 0 THEN <<>>
            ELSE IF Accepts(fed[n - 1], records[n]) /\ records[n].kind = "Frame"
                 THEN Append(upTo[n - 1], [frame |-> records[n].frame,
                                           departed |-> fed[n].departedAtFrame,
                                           orders |-> records[n].payload[1]])
                 ELSE upTo[n - 1]
    IN  upTo

FramesOf(c, records) == FramesFed(c, records)[Len(records)]

\* Orders and beats share one counter.
Mutant_Sent(s, given) ==
    LET c == client[s]
        messages == [i \in 1 .. given |-> [kind |-> "Order", id |-> c.orderId + i]]
                    \o <<[kind |-> "Beat", id |-> c.orderId + given + c.beatId + 1]>>
        room == ChannelWindow - Len(up[s])
    IN  SubSeq(messages, 1, IF room < Len(messages) THEN room ELSE Len(messages))

\* One update: the player's orders and the beat go up, each consuming its id
\* whether or not the channel has room, then the records that arrived are fed
\* to the cursor.
Sent(s, given) ==
    LET c == client[s]
        messages == [i \in 1 .. given |-> [kind |-> "Order", id |-> c.orderId + i]]
                    \o <<[kind |-> "Beat", id |-> c.beatId + 1]>>
        room == ChannelWindow - Len(up[s])
    IN  SubSeq(messages, 1, IF room < Len(messages) THEN room ELSE Len(messages))

ClientUpdate(s) ==
    /\ s \in members \ bye /\ ~closed
    /\ client[s].beatId < game.updates[s]
    /\ \E given \in 0 .. 1, arrived \in 0 .. Len(down[s]) :
        LET c == client[s]
            records == SubSeq(down[s], 1, arrived)
        IN  /\ c.orderId + given <= game.orders[s]
            /\ up' = [up EXCEPT ![s] = @ \o Sent(s, given)]
            /\ down' = [down EXCEPT ![s] = SubSeq(@, arrived + 1, Len(@))]
            /\ client' = [client EXCEPT ![s] =
                    [cursor |-> Fed(c.cursor, records),
                     orderId |-> c.orderId + given,
                     beatId |-> c.beatId + 1,
                     frames |-> c.frames \o FramesOf(c.cursor, records),
                     rejected |-> c.rejected \/ ~TakesAll(c.cursor, records)]]
    /\ UNCHANGED <<authorityVars, coreVars, queued>>

-----------------------------------------------------------------------------
\* The relay's handlers.

\* HELLO of a slot never bound.
Hello(s) ==
    /\ ~closed /\ s \in SlotMask \ members
    /\ membership' = Bound(membership, s, 0)
    /\ dirty' = TRUE
    /\ members' = members \union {s}
    /\ UNCHANGED <<builder, sequence, generation, outbox, failed, refusedAt, coreVars, wireVars>>

\* A HELLO repeated from the slot's own address, as when its WELCOME was lost.
HelloAgain(s) ==
    /\ ~closed /\ s \in members \ membership.departed
    /\ repeats < game.repeats /\ repeats' = repeats + 1
    /\ membership' = Bound(membership, s, membership.generation[s])
    /\ dirty' = TRUE
    /\ UNCHANGED <<builder, members, sequence, generation, outbox, failed, refusedAt,
                   bye, live, log, closed, now, wireVars>>

\* HELLO with a rejoin ticket: a new process of the client behind new
\* channels.  (A slot that left for good asks for no ticket.)
Rejoin(s) ==
    /\ ~closed /\ s \in members \ membership.departed
    /\ membership.generation[s] = 0
    /\ \E step \in game.tickets[s] : membership' = Bound(membership, s, step)
    /\ dirty' = TRUE
    /\ up' = [up EXCEPT ![s] = <<>>]
    /\ down' = [down EXCEPT ![s] = <<>>]
    /\ queued' = [queued EXCEPT ![s] = 0]
    /\ client' = [client EXCEPT ![s] = NewClient]
    /\ UNCHANGED <<builder, members, sequence, generation, outbox, failed, refusedAt, coreVars>>

\* A channel packet that makes some messages deliverable, or none.
ReceiveData(s) ==
    /\ ~closed /\ s \in members /\ ~failed
    /\ \E arrived \in 0 .. Len(up[s]) :
        LET taken == SubSeq(up[s], 1, arrived)
            after == Admitting(builder, s, taken)
        IN  /\ up' = [up EXCEPT ![s] = SubSeq(@, arrived + 1, Len(@))]
            /\ refusedAt' = IF \A i \in 1 .. arrived : Admits(after[i - 1], s, taken[i])
                            THEN refusedAt ELSE refusedAt \union {s}
            /\ Pump(after[arrived], membership, dirty)
    /\ UNCHANGED <<members, bye, closed, repeats, now, client>>

\* tick(): the silent slots are held, the authority is serviced.
Tick ==
    /\ ~closed /\ members # {}
    /\ \E quiet \in SUBSET (game.silent \intersect (members \ bye)) :
        LET held == Holdable(membership, quiet)
        IN  Pump(builder, Held(membership, held), dirty \/ held # {})
    /\ UNCHANGED <<members, refusedAt, bye, closed, repeats, now, up, client>>

\* close(): whatever the outbox holds and the End record reach the log, if it
\* is still open.
EndRecord == Stamped("End", sequence + 1, builder, generation, <<>>)

Close ==
    /\ closed' = TRUE
    /\ IF live
       THEN \E landed \in 0 .. Len(outbox) + 1 :
            /\ Appends(Append(outbox, EndRecord), landed)
            /\ outbox' = SubSeq(outbox, landed + 1, Len(outbox))
            /\ sequence' = IF landed < Len(outbox) THEN sequence ELSE sequence + 1
            /\ failed' = (failed \/ landed < Len(outbox))
       ELSE UNCHANGED <<live, log, outbox, sequence, failed>>

\* BYE, which a client sends twice: the slot departs; the last one to leave
\* closes the game.
Bye(s) ==
    /\ ~closed /\ s \in members
    /\ s \in bye => repeats < game.repeats
    /\ repeats' = IF s \in bye THEN repeats + 1 ELSE repeats
    /\ bye' = bye \union {s}
    /\ membership' = Departed(membership, s)
    /\ dirty' = TRUE
    /\ IF members \subseteq bye'
       THEN Close
       ELSE UNCHANGED <<closed, live, log, outbox, sequence, failed>>
    /\ UNCHANGED <<builder, members, generation, refusedAt, now, wireVars>>

\* tick() of a game nobody was heard in for idleMs.
IdleClose ==
    /\ ~closed /\ members # {}
    /\ Close
    /\ UNCHANGED <<builder, membership, dirty, members, generation, refusedAt, bye, repeats, now, wireVars>>

\* A write of another record stops the log.
LogStops ==
    /\ ~closed /\ live
    /\ live' = FALSE
    /\ UNCHANGED <<authorityVars, bye, log, closed, repeats, now, wireVars>>

TimePasses ==
    /\ now < game.lasts
    /\ now' = now + 1
    /\ UNCHANGED <<authorityVars, bye, live, log, closed, repeats, wireVars>>

-----------------------------------------------------------------------------

Init ==
    /\ builder = NewBuilder
    /\ membership = [NoSnapshot EXCEPT !.slotMask = SlotMask, !.originMs = OriginMs,
                                       !.firstFrame = FirstFrame, !.clockValid = TRUE]
    /\ dirty = FALSE /\ members = {}
    /\ sequence = 0 /\ generation = 0 /\ outbox = <<>> /\ failed = FALSE /\ refusedAt = {}
    /\ bye = {} /\ live = TRUE /\ log = <<>> /\ closed = FALSE /\ repeats = 0 /\ now = OriginMs
    /\ up = [s \in Slot |-> <<>>] /\ down = [s \in Slot |-> <<>>]
    /\ queued = [s \in Slot |-> 0]
    /\ client = [s \in Slot |-> NewClient]
    /\ game \in Games

Next ==
    /\ \/ \E s \in SlotMask :
            \/ ClientUpdate(s)
            \/ Hello(s) \/ HelloAgain(s) \/ Rejoin(s) \/ ReceiveData(s) \/ Bye(s)
       \/ Tick \/ IdleClose \/ LogStops \/ TimePasses
    /\ UNCHANGED game

Spec == Init /\ [][Next]_vars

\* Clients update, packets arrive and the relay ticks, again and again.
Fair(A) == game.fair /\ A /\ UNCHANGED game

FairSpec ==
    /\ Spec
    /\ WF_vars(Fair(Tick))
    /\ \A s \in SlotMask : WF_vars(Fair(ClientUpdate(s))) /\ WF_vars(Fair(ReceiveData(s)))

-----------------------------------------------------------------------------
\* Properties

Message == [kind : {"Order", "Beat"}, id : Nat \ {0}]

\* Every variable keeps its type; no channel holds more than its window.
TypeOK ==
    /\ builder.nextFrame \in FirstFrame .. MaxFrame
    /\ \A s \in Slot : builder.beatFrame[s] \in FirstFrame .. MaxFrame
    /\ membership \in Snapshot
    /\ members \subseteq SlotMask /\ bye \subseteq members /\ refusedAt \subseteq members
    /\ sequence \in Nat /\ generation \in Nat /\ now \in Nat /\ repeats \in Nat
    /\ \A i \in 1 .. Len(outbox) : IsRecord(outbox[i])
    /\ \A i \in 1 .. Len(log) : IsRecord(log[i])
    /\ {dirty, failed, live, closed} \subseteq BOOLEAN
    /\ \A s \in Slot :
        /\ up[s] \in Seq(Message) /\ Len(up[s]) <= ChannelWindow
        /\ Len(down[s]) <= queued[s] /\ queued[s] \in 0 .. ChannelWindow

\* While the authority has not failed, a reader of the game log follows it
\* exactly: every record is taken, and what the cursor then expects and holds
\* staged is what the authority will stamp next and has as its membership.
LogReplays ==
    ~failed =>
        LET reader == Fed(NewCursor, log) IN
        /\ TakesAll(NewCursor, log)
        /\ live => reader.sequence = sequence
        /\ live => reader.ended = closed
        /\ reader.generation = generation
        /\ reader.nextFrame = builder.nextFrame
        /\ generation > 0 /\ ~dirty => reader.staged = membership

\* No client runs what the log does not hold: the records a client took and
\* those on their way to it are the log's, in its order, without a gap.
Follows(s) ==
    LET got == client[s].cursor.sequence IN
    /\ ~client[s].rejected
    /\ client[s].cursor = Fed(NewCursor, SubSeq(log, 1, got))
    /\ got + Len(down[s]) <= Len(log)
    /\ \A i \in 1 .. Len(down[s]) : down[s][i] = log[got + i]

ClientsFollowLog == \A s \in members : membership.generation[s] = 0 => Follows(s)

\* A slot departs once for every client, and nothing it ordered runs from
\* that frame on.
DepartsOnce ==
    \A s \in members : \A i, j \in 1 .. Len(client[s].frames) :
        LET earlier == client[s].frames[i] later == client[s].frames[j] IN
        /\ i < j => earlier.departed \intersect later.departed = {}
        /\ i <= j => \A gone \in earlier.departed : later.orders[gone] = <<>>

\* The order and beat ids of a client are dense (RelayCanonicalInput.h), so
\* nothing it sends is refused for its id, whatever its channel holds.
IdsAreDense == \A s \in refusedAt : membership.generation[s] > 0

\* An order the relay admitted runs: no slot that left, however it left,
\* keeps a frame from sealing.
OrdersIn(s) == UNION {{log[i].payload[1][s][k] : k \in 1 .. Len(log[i].payload[1][s])} :
                        i \in {i \in 1 .. Len(log) : log[i].kind = "Frame"}}
OrdersRun ==
    \A s \in SlotMask : \A id \in UNION {1 .. g.orders[s] : g \in {g \in Games : g.fair}} :
        game.fair /\ builder.nextId[s] > id ~>
            id \in OrdersIn(s) \/ s \in membership.departed \/ failed \/ closed

-----------------------------------------------------------------------------
\* What comments and documents say and the code does not do: the runs of
\* these find the difference.

\* A change of membership -- a player bound, held or departed -- is a committed
\* record (RelayCanonicalAuthority.h): in whatever order the players arrive or
\* fall silent, the authority does not fail while the log takes its records.
MembershipCommits == failed => ~live

\* A client that rejoined follows the log too (RelayLog.cpp: "The rejoining
\* client feeds the same records to its canonical cursor").
RejoinedFollowLog == \A s \in members : membership.generation[s] > 0 => ~client[s].rejected

=============================================================================
