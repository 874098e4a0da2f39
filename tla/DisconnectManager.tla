------------------------- MODULE DisconnectManager -------------------------
(***************************************************************************)
(* The disconnect path of a classic (LAN) lockstep game:                   *)
(* src/engine/src/GameNetwork/DisconnectManager.cpp with the part of       *)
(* Network.cpp and LockstepDriver.cpp it rests on.  A peer that has not    *)
(* heard another one for a while shows the disconnect screen, announces    *)
(* the frame it stands on, votes, and holds that frame; when every player  *)
(* it hears announced the same frame the first of them in the fallback     *)
(* order decides the drop, and the others apply it before they run the     *)
(* frame.                                                                  *)
(*                                                                         *)
(* peer[p] is the memory of the process of slot p, net[p][q] the reliable  *)
(* ordered stream of Transport from p to q.  Players are 0 .. n-1 and      *)
(* their order is the fallback order of packet routers.  The games are     *)
(* past the load screen (frames count from 1 here), without pause, leave,  *)
(* hold for a rejoin, or adaptive run-ahead; a slot has fewer than five    *)
(* silent spells.  The commands of a slot for a frame, with its FRAMEINFO, *)
(* are one message: a frame counts only once it is complete.               *)
(***************************************************************************)
EXTENDS Integers, FiniteSets, Sequences

CONSTANTS
    Players,      \* the network slots of the game, 0 .. n-1
    RunAhead,     \* frames between a command and its execution
    MaxFrame,     \* bound: the last frame any game executes
    Games         \* what may happen in a game; a behaviour is one of them:
                  \*   frames: bound of the frames that run
                  \*   crash: the slots whose process may stop
                  \*   cut: the pairs of peers that may not reach each other for a while
                  \*   kick: the slots whose player may press Kick, once
                  \*   fair: the fairness of FairSpec is asked for

ASSUME PlayersAssumption ==
    IsFiniteSet(Players) /\ Players = 0 .. Cardinality(Players) - 1 /\ Cardinality(Players) > 1
ASSUME BoundsAssumption == RunAhead \in Nat \ {0} /\ MaxFrame \in Nat \ {0}
Pairs == {e \in SUBSET Players : Cardinality(e) = 2}
Game == [frames : 1 .. MaxFrame, crash : SUBSET Players, cut : SUBSET Pairs,
         kick : SUBSET Players, fair : BOOLEAN]
ASSUME GamesAssumption == Games \subseteq Game

VARIABLES peer, net, alive, cut, may
vars == <<peer, net, alive, cut, may>>

Frames == 1 .. MaxFrame + RunAhead
Never == MaxFrame + RunAhead + 1     \* the leave frame of a slot that is in the game
Order == [i \in 1 .. Cardinality(Players) |-> i - 1]
LeastOf(S) == CHOOSE s \in S : \A t \in S : s <= t
GreatestOf(S) == CHOOSE s \in S : \A t \in S : s >= t

\* op of the one value x has; op applied to x for each element of seq in turn.
Of(x, op(_)) == CHOOSE z \in {op(y) : y \in {x}} : TRUE
InTurn(op(_, _), x, seq) ==
    LET after[n \in 0 .. Len(seq)] ==
            IF n = 0 THEN x ELSE Of(after[n - 1], LAMBDA y : op(y, seq[n]))
    IN  after[Len(seq)]

(***************************************************************************)
(* A peer.  votes[t][v] is the frame of v's vote to drop t (0: none), df   *)
(* and dfr the disconnect frames and whether their record is open, by the  *)
(* frames actually announced, ann the own announcement and hold what it    *)
(* does to that frame, notified the frame last notified (0: none).  `out'  *)
(* is what the step in progress sends.                                     *)
(***************************************************************************)
ForAll(v) == [s \in Players |-> v]

NewPeer(p) ==
    [self |-> p, frame |-> 1, ran |-> <<>>, have |-> {}, leave |-> ForAll(Never),
     heard |-> ForAll(TRUE), bar |-> ForAll("full"), screen |-> FALSE,
     votes |-> ForAll(ForAll(0)), df |-> ForAll(0), dfr |-> ForAll(FALSE), by |-> ForAll(0),
     ann |-> 0, hold |-> "none", notified |-> 0, decided |-> <<>>, pending |-> <<>>,
     quit |-> FALSE, due |-> FALSE, out |-> ForAll(<<>>)]

Connected(x, s) == x.leave[s] = Never
Others(x) == {s \in Players \ {x.self} : Connected(x, s)}

Post(x, to, m) == [x EXCEPT !.out = [q \in Players |-> IF q \in to THEN Append(@[q], m) ELSE @[q]]]

(***************************************************************************)
(* What a peer concludes from its state.                                   *)
(***************************************************************************)
Voters(x) == {v \in Players : Connected(x, v) /\ x.heard[v]}

isPlayerVotedOut(x, t) ==
    Cardinality(Voters(x) \ {t}) <= Cardinality({v \in Voters(x) : x.votes[t][v] # 0})

isPlayerInGame(x, s) == Connected(x, s) /\ ~isPlayerVotedOut(x, s) /\ x.bar[s] # "out"

\* A record that was closed again counts.
Mutant_allOnSameFrame(x) ==
    \A i \in Players \ {x.self} :
        isPlayerInGame(x, i) /\ x.heard[i] => x.df[i] = x.df[x.self]

allOnSameFrame(x) ==
    \A i \in Players \ {x.self} :
        isPlayerInGame(x, i) /\ x.heard[i] => x.dfr[i] /\ x.df[i] = x.df[x.self]

nextPacketRouter(x) == LeastOf({r \in Players : r = x.self \/ isPlayerInGame(x, r)})

Predecessors(sender, target) == {s \in Players : s < sender /\ s # target}

dropClaims(x, target) == \A s \in Predecessors(x.self, target) : ~Connected(x, s)

verifyDropClaims(x, sender, target, gone) ==
    IF ~(Predecessors(sender, target) \subseteq gone) THEN "refuse"
    ELSE IF \E s \in Predecessors(sender, target) : Connected(x, s) THEN "wait" ELSE "apply"

\* The announced frame is not held.
Mutant_allowedToContinue(x) == \A k \in DOMAIN x.pending : x.pending[k].frame > x.frame

allowedToContinue(x) ==
    /\ \A k \in DOMAIN x.pending : x.pending[k].frame > x.frame
    /\ \/ x.hold # "held" \/ x.frame # x.ann
       \/ \E i \in Others(x) : x.df[i] > x.frame

isFrameReady(x) ==
    \A s \in Players \ {x.self} : x.frame < x.leave[s] => <<s, x.frame>> \in x.have

Release(x) == IF x.hold = "held" THEN [x EXCEPT !.hold = "released"] ELSE x

(***************************************************************************)
(* The operations of the manager on its peer.                              *)
(***************************************************************************)
resetPlayersVotes(x, v, frame) ==
    [x EXCEPT !.votes = [t \in Players |-> IF @[t][v] <= frame THEN [@[t] EXCEPT ![v] = 0] ELSE @[t]]]

\* The commands peer `to' missed, one FRAMERESEND per frame and owner.
resend(x, to, f, s) ==
    IF s \in x.ran[f] \ {to}
    THEN Post(x, {to}, [type |-> "FRAMERESEND", frame |-> f, owner |-> s]) ELSE x

resendFrame(x, to, f) == InTurn(LAMBDA y, s : resend(y, to, f, s), x, Order)

FramesFrom(start, next) == [i \in 1 .. next - start |-> start + i - 1]

sendFrameDataToPlayer(x, to, start) ==
    InTurn(LAMBDA y, f : resendFrame(y, to, f), x, FramesFrom(start, x.frame))

helpBehind(x, i) ==
    IF i # x.self /\ isPlayerInGame(x, i) /\ x.dfr[i] /\ x.df[i] < x.frame
    THEN sendFrameDataToPlayer(x, i, x.df[i]) ELSE x

\* Its own DISCONNECTFRAME, processed here: the peers behind get what they miss.
openOwnRecord(x) ==
    LET opened == [resetPlayersVotes(x, x.self, x.frame - 1)
                      EXCEPT !.df[x.self] = x.frame, !.dfr[x.self] = TRUE]
    IN  IF x.df[x.self] = x.frame /\ x.dfr[x.self] THEN x ELSE InTurn(helpBehind, opened, Order)

notifyOthersOfCurrentFrame(x) ==
    LET told == Post(x, Others(x), [type |-> "DISCONNECTFRAME", frame |-> x.frame])
    IN  [openOwnRecord(told) EXCEPT !.ann = x.frame, !.hold = "held"]

\* A slot that is out of the game is heard for good: hasConnection is false.
disconnectPlayer(x, s, frame) ==
    [x EXCEPT !.leave[s] = frame, !.heard[s] = TRUE, !.bar[s] = "full"]

voteForPlayerDisconnect(x, s) ==
    IF x.votes[s][x.self] # 0 THEN x
    ELSE Post([x EXCEPT !.votes[s][x.self] = x.frame], Others(x),
              [type |-> "DISCONNECTVOTE", target |-> s, frame |-> x.frame])

turnOnScreen(x) == [x EXCEPT !.screen = TRUE, !.bar = ForAll("full"), !.notified = 0]

Opened(x) == {<<i, x.df[i]>> : i \in {j \in Players : x.dfr[j]}}

turnOffScreen(x) ==
    LET off == [x EXCEPT !.screen = FALSE, !.dfr = ForAll(FALSE),
                         !.votes = [t \in Players |-> [@[t] EXCEPT ![x.self] = 0]]]
        told == Post(off, Others(x),
                     [type |-> "DISCONNECTSCREENOFF", frame |-> x.frame, released |-> Opened(x)])
    IN  IF ~x.screen THEN x
        ELSE IF nextPacketRouter(off) = x.self THEN Release(told) ELSE told

applyDrop(x, d) ==
    LET verdict == verifyDropClaims(x, d.from, d.target, d.gone)
    IN  IF ~Connected(x, d.target) THEN x
        ELSE IF verdict = "wait" THEN [x EXCEPT !.pending = Append(@, d)]
        ELSE IF verdict = "refuse" \/ d.frame < x.frame THEN x
        ELSE IF d.target = x.self THEN [x EXCEPT !.quit = TRUE]
        ELSE Release(disconnectPlayer(x, d.target, d.frame))

applyPendingDrops(x) == InTurn(applyDrop, [x EXCEPT !.pending = <<>>], x.pending)

Drop(x, i) ==
    LET frame == GreatestOf({x.df[s] : s \in Players})
        d == [type |-> "DISCONNECTPLAYER", target |-> i, frame |-> frame,
              gone |-> Predecessors(x.self, i)]
    IN  Release(disconnectPlayer(Post([x EXCEPT !.decided = Append(@, d)], Others(x), d), i, frame))

\* The bar's 32-bit difference is below a third only from there to zero: past
\* zero it wraps.
announce(x, i) ==
    IF (x.bar[i] = "low" \/ isPlayerVotedOut(x, i)) /\ x.notified # x.frame
    THEN [notifyOthersOfCurrentFrame(x) EXCEPT !.notified = x.frame] ELSE x

decide(x, i) ==
    LET gone == x.bar[i] = "out" \/ isPlayerVotedOut(x, i)
    IN  IF gone /\ allOnSameFrame(x) /\ nextPacketRouter(x) = x.self /\ dropClaims(x, i)
        THEN Of(notifyOthersOfCurrentFrame(x), LAMBDA y : Drop(y, i))
        ELSE IF gone /\ ~isPlayerVotedOut(x, i) THEN voteForPlayerDisconnect(x, i)
        ELSE x

\* One turn of the loop over the slots.
updateDisconnectStatus(x, i) ==
    IF i = x.self \/ ~Connected(x, i) THEN x
    ELSE Of(announce(x, i), LAMBDA y : decide(y, i))

restartTimeouts(x) ==
    [x EXCEPT !.hold = IF x.frame > x.ann THEN "none" ELSE @,
              !.bar = [s \in Players |-> IF x.heard[s] THEN "full" ELSE @[s]]]

\* Hearing one of the others is enough to turn the screen off.
Mutant_switchScreen(x) ==
    IF \E s \in Others(x) : x.heard[s] THEN turnOffScreen(x)
    ELSE IF x.screen THEN x ELSE turnOnScreen(x)

switchScreen(x) ==
    IF \A s \in Others(x) : x.heard[s] THEN turnOffScreen(x)
    ELSE IF x.screen THEN x ELSE turnOnScreen(x)

update(x) ==
    LET status(y) == IF y.screen THEN InTurn(updateDisconnectStatus, y, Order) ELSE y
        timed == Of(applyPendingDrops(x), restartTimeouts)
    IN  [Of(Of(timed, switchScreen), status) EXCEPT !.due = FALSE]

(***************************************************************************)
(* Network::file and processDisconnectCommand: a command from slot `from'. *)
(***************************************************************************)
OnFrame(x, from, c) ==
    IF c.frame >= x.frame THEN [x EXCEPT !.have = @ \cup {<<from, c.frame>>}] ELSE x

\* A frame that already ran is filed again.
Mutant_OnFrameResend(x, from, c) ==
    IF c.frame < x.leave[c.owner] THEN [x EXCEPT !.have = @ \cup {<<c.owner, c.frame>>}] ELSE x

OnFrameResend(x, from, c) ==
    IF c.frame >= x.frame /\ c.frame < x.leave[c.owner]
    THEN [x EXCEPT !.have = @ \cup {<<c.owner, c.frame>>}] ELSE x

OnVote(x, from, c) ==
    IF isPlayerInGame(x, from) THEN [x EXCEPT !.votes[c.target][from] = c.frame] ELSE x

repeatDrop(x, to, frame, d) ==
    IF frame <= d.frame /\ to # d.target THEN Post(x, {to}, d) ELSE x

repeatDrops(x, to, frame) == InTurn(LAMBDA y, d : repeatDrop(y, to, frame, d), x, x.decided)

noted(x, from, frame) ==
    [resetPlayersVotes(x, from, frame - 1)
        EXCEPT !.df[from] = frame, !.dfr[from] = TRUE, !.by[from] = GreatestOf({@, frame})]

answered(x, to, frame) ==
    LET helped == IF frame < x.df[x.self] THEN sendFrameDataToPlayer(x, to, frame) ELSE x
    IN  repeatDrops(helped, to, frame)

OnDisconnectFrame(x, from, c) ==
    LET repeated == answered(noted(x, from, c.frame), from, c.frame)
    IN  IF x.df[from] > c.frame \/ (x.df[from] = c.frame /\ x.dfr[from]) THEN x
        ELSE IF ~x.screen /\ nextPacketRouter(repeated) = x.self
        THEN Post([repeated EXCEPT !.dfr[from] = FALSE], Others(x),
                  [type |-> "DISCONNECTSCREENOFF", frame |-> x.frame, released |-> {<<from, c.frame>>}])
        ELSE repeated

validateDrop(x, from, c) ==
    /\ x.self \notin c.gone
    /\ x.by[from] >= c.frame
    /\ c.target # x.self => x.ann = c.frame

OnDisconnectPlayer(x, from, c) ==
    IF /\ Connected(x, c.target)
       /\ validateDrop(x, from, c)
       /\ verifyDropClaims(x, from, c.target, c.gone) # "refuse"
    THEN applyPendingDrops([x EXCEPT !.pending = Append(@,
             [from |-> from, target |-> c.target, frame |-> c.frame, gone |-> c.gone])])
    ELSE x

OnScreenOff(x, from, c) ==
    LET y == IF c.frame >= x.df[from]
             THEN [resetPlayersVotes(x, from, c.frame) EXCEPT !.dfr[from] = FALSE, !.df[from] = c.frame]
             ELSE x
    IN  IF <<x.self, x.ann>> \in c.released /\ nextPacketRouter(y) = from THEN Release(y) ELSE y

file(x, from, c) ==
    CASE c.type = "FRAMEINFO"           -> OnFrame(x, from, c)
      [] c.type = "FRAMERESEND"         -> OnFrameResend(x, from, c)
      [] c.type = "DISCONNECTVOTE"      -> OnVote(x, from, c)
      [] c.type = "DISCONNECTFRAME"     -> OnDisconnectFrame(x, from, c)
      [] c.type = "DISCONNECTPLAYER"    -> OnDisconnectPlayer(x, from, c)
      [] c.type = "DISCONNECTSCREENOFF" -> OnScreenOff(x, from, c)

(***************************************************************************)
(* The network.  Become(p, x) ends a step of peer p: what it sent is on    *)
(* its streams, and what nobody will read any more is discarded: the       *)
(* streams to a process that ended, and to one that dropped the sender.    *)
(***************************************************************************)
Become(p, becomes, streams) == \E x \in {becomes} :
    /\ peer' = [peer EXCEPT ![p] = IF x.quit THEN NewPeer(p) ELSE [x EXCEPT !.out = ForAll(<<>>)]]
    /\ alive' = IF x.quit THEN alive \ {p} ELSE alive
    /\ net' = [a \in Players |-> [b \in Players |->
                  IF b \notin alive' \/ ~Connected(peer'[b], a) THEN <<>>
                  ELSE IF a = p THEN streams[a][b] \o x.out[b] ELSE streams[a][b]]]

Init ==
    /\ peer = [p \in Players |-> NewPeer(p)]
    /\ net = [a \in Players |-> [b \in Players |->
                 IF a = b THEN <<>>
                 ELSE [f \in 1 .. RunAhead |-> [type |-> "FRAMEINFO", frame |-> f]]]]
    /\ alive = Players
    /\ cut = {}
    /\ may \in Games

\* receiveAll: one command of the stream from q; update follows the last one.
Receive(p, q) ==
    /\ p \in alive /\ net[q][p] # <<>> /\ {p, q} \notin cut
    /\ Become(p, [file([peer[p] EXCEPT !.heard[q] = TRUE], q, Head(net[q][p])) EXCEPT !.due = TRUE],
              [net EXCEPT ![q][p] = Tail(@)])
    /\ UNCHANGED <<cut, may>>

Update(p) ==
    /\ p \in alive /\ peer[p].due
    /\ Become(p, update(peer[p]), net)
    /\ UNCHANGED <<cut, may>>

MayRun(p) ==
    LET x == peer[p]
    IN  p \in alive /\ ~x.due /\ x.frame <= may.frames /\ isFrameReady(x) /\ allowedToContinue(x)

\* LockstepDriver::acquire runs the frame; the next update sends the commands
\* of the frame that is now RunAhead away.
RunFrame(p) ==
    LET x == peer[p]
        y == [x EXCEPT !.frame = @ + 1, !.due = TRUE,
                       !.ran = Append(@, {s \in Players : x.frame < x.leave[s]}),
                       !.have = {h \in @ : h[2] > x.frame}]
    IN  /\ MayRun(p)
        /\ Become(p, Post(y, Others(y), [type |-> "FRAMEINFO", frame |-> x.frame + RunAhead]), net)
        /\ UNCHANGED <<cut, may>>

(***************************************************************************)
(* Time.  The disconnect timers are seconds (5 s of silence, a minute of   *)
(* the bar), the network and a frame are milliseconds: a timer moves only  *)
(* when no command is on its way and no peer has anything left to do.      *)
(***************************************************************************)
Settled ==
    /\ \A a, b \in Players : {a, b} \in cut \/ net[a][b] = <<>>
    /\ \A p \in alive : ~peer[p].due /\ ~MayRun(p)

Unheard(p, s) == s \notin alive \/ {p, s} \in cut \/ ~Connected(peer[s], p)

Tick(p, x) == Become(p, [x EXCEPT !.due = TRUE], net) /\ UNCHANGED <<cut, may>>

Silence(p, s) ==
    /\ p \in alive /\ s \in Others(peer[p]) /\ Unheard(p, s) /\ peer[p].heard[s] /\ Settled
    /\ Tick(p, [peer[p] EXCEPT !.heard[s] = FALSE])

Age(p, s) ==
    /\ p \in alive /\ peer[p].screen /\ ~peer[p].heard[s] /\ peer[p].bar[s] # "out" /\ Settled
    /\ Tick(p, [peer[p] EXCEPT !.bar[s] = IF @ = "full" THEN "low" ELSE "out"])

\* Every peer sends something all the time: a slot that lives is heard again.
Hear(p, s) ==
    /\ p \in alive /\ ~Unheard(p, s) /\ ~peer[p].heard[s]
    /\ Tick(p, [peer[p] EXCEPT !.heard[s] = TRUE])

\* A released announcement is made again while the screen stays on (500 ms).
Repeat(p) ==
    /\ p \in alive
    /\ peer[p].screen /\ peer[p].hold = "released" /\ peer[p].notified # 0 /\ Settled
    /\ Tick(p, [peer[p] EXCEPT !.notified = 0])

\* The Kick button of a slot that is silent.
Kick(p, s) ==
    /\ p \in may.kick \cap alive
    /\ peer[p].screen /\ s \in Others(peer[p]) /\ ~peer[p].heard[s] /\ peer[p].votes[s][p] = 0
    /\ Become(p, [voteForPlayerDisconnect(peer[p], s) EXCEPT !.due = TRUE], net)
    /\ may' = [may EXCEPT !.kick = @ \ {p}] /\ UNCHANGED cut

(***************************************************************************)
(* Faults: a process stops, what it left on its way is lost from some      *)
(* point on, a pair of peers does not reach each other for a while.        *)
(***************************************************************************)
Crash(p) ==
    /\ p \in may.crash \cap alive
    /\ Become(p, [peer[p] EXCEPT !.quit = TRUE], net)
    /\ may' = [may EXCEPT !.crash = @ \ {p}] /\ UNCHANGED cut

Lost(p, q) ==
    /\ p \notin alive /\ net[p][q] # <<>>
    /\ net' = [net EXCEPT ![p][q] = <<>>]
    /\ UNCHANGED <<peer, alive, cut, may>>

Cut(p, q) ==
    /\ {p, q} \in may.cut
    /\ cut' = cut \cup {{p, q}} /\ may' = [may EXCEPT !.cut = @ \ {{p, q}}]
    /\ UNCHANGED <<peer, net, alive>>

Heal(e) == e \in cut /\ cut' = cut \ {e} /\ UNCHANGED <<peer, net, alive, may>>

Work == \E p \in Players : Update(p) \/ RunFrame(p) \/ \E q \in Players : Receive(p, q)
Timers == \E p, s \in Players : Silence(p, s) \/ Age(p, s)
Answers == \E p, s \in Players : Hear(p, s)
Repeats == \E p \in Players : Repeat(p)
Heals == \E e \in cut : Heal(e)
Failures == \E p, q \in Players : Crash(p) \/ Lost(p, q) \/ Kick(p, q) \/ Cut(p, q)

Next == Work \/ Timers \/ Answers \/ Repeats \/ Heals \/ Failures
Spec == Init /\ [][Next]_vars

\* Processes run, streams deliver, clocks advance and an outage ends.  Repeats
\* undo Settled for a moment, so the timers and they need the strong form.
FairSpec ==
    /\ Spec
    /\ WF_vars(may.fair /\ Work) /\ SF_vars(may.fair /\ Timers) /\ WF_vars(may.fair /\ Answers)
    /\ SF_vars(may.fair /\ Repeats) /\ WF_vars(may.fair /\ Heals)

-----------------------------------------------------------------------------
\* The shape of a peer: a frame runs once, in order, and nothing is kept for a
\* frame that ran (Network::file, relayCommands).
TypeOK ==
    /\ alive \subseteq Players /\ cut \subseteq SUBSET Players
    /\ \A p \in Players :
         LET x == peer[p]
         IN  /\ x.self = p /\ x.frame \in 1 .. MaxFrame + 1 /\ Len(x.ran) = x.frame - 1
             /\ x.have \subseteq Players \X Frames /\ \A h \in x.have : h[2] >= x.frame
             /\ x.leave \in [Players -> Frames \cup {Never}]
             /\ x.bar \in [Players -> {"full", "low", "out"}]
             /\ x.hold \in {"none", "held", "released"}

\* Two live peers that reach each other and have not dropped each other.
Together(p, q) ==
    Connected(peer[p], q) /\ Connected(peer[q], p) /\ {p, q} \notin cut

\* Peers that play together ran every frame with the commands of the same
\* slots, whoever crashed on the way (DisconnectManager.h: a player is dropped
\* in step on every remaining peer).
InStep ==
    \A p, q \in alive : Together(p, q) =>
        \A f \in DOMAIN peer[p].ran \cap DOMAIN peer[q].ran : peer[p].ran[f] = peer[q].ran[f]

\* A drop one peer made is made by the other at the same frame, or the other
\* has not run that frame yet and can still make it.
DropInTime ==
    \A p, q \in alive, s \in Players :
        Together(p, q) /\ ~Connected(peer[p], s) =>
            \/ peer[q].leave[s] = peer[p].leave[s]
            \/ Connected(peer[q], s) /\ peer[q].frame <= peer[p].leave[s]

\* Whoever crashes, the game does not freeze: a peer that stays gets through
\* every frame.
GameGoesOn ==
    may.fair => \A p \in Players : <>(p \notin alive \/ peer[p].frame > may.frames)
=============================================================================
