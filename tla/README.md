# OpenBFME: verification of the multiplayer core

OpenBFME (`src/engine`, `src/godot`, `src/services`, `src/launcher`) is a
re-implementation of a real-time strategy game with deterministic lockstep
multiplayer. This directory holds TLA+ models of the parts of it where order and
failure matter most:

- the *canonical* relay game: the relay decides which orders run in which frame,
  writes the frame to a log and only then publishes it, and every client and
  every replay reads the same records;
- what a *classic* lockstep game does when a player fails: the *disconnect
  manager*, by which the others drop the player at one frame, and the *rejoin*,
  by which the player's restarted game catches up from the relay's log and is
  taken back;
- the two places where the simulation meets threads: the *job system*, which
  runs parts of a frame on several, and the *logic worker*, which runs frames
  beside the render thread.

The modules are checked with TLC on small instances. What matters most about the
scheduler and its audit, the channel, the canonical log and its readers, the fetch
of a log, the job system and the logic worker is proved with TLAPS for every value
of their constants.

Paths below are relative to the repository; `GN` is
`engine/src/GameNetwork`, `GC` is `engine/src/GameClient`, `RL` is
`services/online/relay`, `JS` is `engine/src/Common/System/JobSystem.cpp`.

## 1. Inventory

### The canonical game (modelled)

| Part | State | Operations | What is hard |
|---|---|---|---|
| Frame clock, `GN/RelayFrameClock.h` | origin, first frame, frame length | `boundaryOf`, `frameAfter` | a receipt exactly on a boundary; the last 32-bit frame and the last 64-bit millisecond |
| Scheduler, `GN/RelayFrameScheduler.*` | each slot's open window and next beat | `admit`, `admitBeat`, `sealDue`, `awaiting` | the stamp it gives must be one the builder takes, whatever is staged, deferred or inactive |
| Bundle builder, `GN/RelayFrameBundle.*` | each slot's order queue, its bytes and its refusals; the staged frame | `admit`, `prepare`, `committed`, `fail`, `validate` | byte budgets, oversized orders and deferrals over many frames; admissions while a staged frame waits for its append |
| Records, membership and cursor, `GN/RelayCommit.*`, `GN/RelayMembership.*` | the reader's sequence, generation, next frame, staged and applied membership | `valid`, `Cursor::accept` | every reader must take exactly what the authority wrote |
| Bundle channel, `GN/RelayBundleChannel.*` | pending messages and acknowledgements; partial messages, ready sequences; two histories; byte budgets | `queue`, `poll`, `receive` of DATA and ACK, `takeDelivered` | loss, repetition and reordering both ways; a full buffer; the end of the sequence |
| Authority, `RL/RelayCanonicalAuthority.*` | builder, membership, record numbers, outbox, failure, the channels of the members | `bind`, `depart`, `hold`, `receive`, `service`, `finish` (all through `pump` and `fanout`) | an append that fails between two records; a membership that changes between any two of them |
| Relay core (canonical part), `RL/RelayCore.cpp` | bindings, BYEs, the game log, the clock | HELLO, rejoin HELLO, DATA, BYE, `tick`, `close` | HELLOs repeated after a lost WELCOME, silence, the log stopping, idle close |
| Client (canonical part), `GN/Network.cpp`, `GN/Transport.cpp`, `GN/RelayCanonicalClient.*` | order and beat ids, cursor, frame inputs | `updateCanonical` | ids must stay dense although a send can be refused; records must be fed from the first one |

How they interact: a client's update sends its orders and a beat through its
channel; the relay's DATA handler hands what the channel delivers to the
scheduler, which stamps it and puts it in the builder's queue; `pump` (after
every packet and every tick) stages a membership record if the membership
changed and a frame if one is due, appends them to the game log, and fans the
appended records out through the members' channels; each client feeds what
arrives to its cursor.

### A player who fails in a classic game (modelled in part)

| Part | State | Operations | What is hard |
|---|---|---|---|
| Disconnect manager, `GN/DisconnectManager.*`, with the frame gate of `GN/Network.cpp` and `GN/LockstepDriver.cpp` | per peer: whom it hears, the bar of each silent slot, votes, announced frames and whether their record is open, its own announcement and what holds it, pending drops, the frame each slot left at | `update` (screen, announcements, decision, votes), the five disconnect commands, `FRAMERESEND`, `allowedToContinue` | each peer hears of the silence at another moment and frame; the one who decides the drop may stop in the middle of telling the others; commands of the dropped player reached some and not others |
| Rejoin, `GN/Rejoin.*`, `GN/RelayLog.*`, `GN/NetGameSession.cpp`, the rejoin part of `GN/Network.cpp` | the log; the chunks fetched and asked for; the frames run; at the others: the held slot, its generations, the frame of the REJOIN | fetch `step`, `assemble`, `rejoinStep`, `receiveAll`, `routerRejoinDuties`, `applyRejoin`, `beginLive` | the log grows while it is read; requests and answers are lost and overtake each other; the player may crash again at any point; both sides must name the same first frame |

How they interact: silence opens the disconnect screen on each peer; the first
of the fallback order that everybody announced the same frame to decides the
drop and tells the others, who apply it before they run that frame. A slot that
was dropped is held; its restarted game binds with a ticket (the relay logs
REJOINED), replays the log, asks to be taken back, and the packet router's
REJOIN command names the frame behind which everybody counts the slot as a
member again.

### The threads of the game (modelled)

- **Job system**, `engine/src/Common/JobSystem.h` and `System/JobSystem.cpp`.
  State: the workers, who holds the dispatch mutex, the published job (body,
  number of chunks, next chunk, open or not, generation), how many workers are
  inside, the error kept and its chunk, the stop flag. Operations: `parallelFor`
  (published, or inline when the pool is busy, too small or the job is), `fail`,
  `workerMain`, `setThreadCount`. Hard: a worker may wake at any time, long after
  its job closed, and two condition variables carry the hand-over. Correct when
  every chunk runs once, nobody runs a body whose caller has left, a call gives
  what one thread would have given (the header's determinism contract, on which
  lockstep rests), and every call returns.
- **Logic worker**, `GC/LiveGameRunner.cpp`, `GC/LiveGame.*`. State: the queue of
  requested frames, whether one runs, the client window and the wish for one, the
  failure, the input held by the render thread and by the frame driver.
  Operations: `workerLoop`, `beginClientWindow`, `endClientWindow`, `waitIdle`,
  `advance` with and without a driver and inline, `setLogicThread`. Hard: the
  render thread touches the live logic between frames, and every wait for the
  worker may meet a park, a window or a failure. Correct when no frame runs while
  the render thread uses the logic, input runs in its frame, once and in order,
  every wait returns, and what was requested runs.

### What is not modelled, and why

Planned (section 6), each a protocol of its own:

- **Classic lockstep, the rest** (`GN/Network.cpp`): the adaptive run-ahead, the
  comparison of the players' CRCs, pause and leaving.
- **Classic transport** (`GN/Transport.cpp`): resends and round-trip estimates.
  Its acknowledged streams are taken as ordered and reliable.
- **Relay authentication** (`GN/RelayAuth.cpp`): the sliding replay window; the
  cryptography is out of scope.
- **Relay core, the rest** (`RL/RelayCore.cpp`): routed streams, spectators, the
  `.part` game log and its rename, budgets; the relay process and the upload
  (`RL/relay_main.cpp`, `RL/upload_logs.py`).
- **Launcher** (`launcher/scripts/core/`): install, swap and recover after a stop
  at any point; the one-launcher lock.
- **Lobby service** (`services/online/lobby`): rooms and rejoin tickets.

Out of reach or without a protocol: the simulation itself
(`engine/src/GameLogic` and most of `Common`) is half a million lines of
sequential game rules over large numeric state; the models take it as the
consumer of frame inputs. The game client, devices and the Godot front end are
presentation. Saved games are a codec and one file replacement. The LAN lobby,
the HTTP clients, the mailer and the crash schema are parsing, user interface
state or stateless. `WWLib/workerpool.h` is used by its tests alone. Tools,
tests, fuzzers and vendored code are not part of the running system.

## 2. Modules

| Module | Models | Extends |
|---|---|---|
| `RelayFrameClock` | the frame boundaries and their ranges | |
| `RelayMembership` | the snapshot and `valid()` | |
| `RelayFrameBundle` | the builder and `validate()` | clock, membership |
| `RelayFrameScheduler` | the scheduler over the builder: a component of its own with a specification | bundle |
| `RelayFrameScheduler_proofs` | theorems: stamps, policies, and the log's account of ids, delays, bytes and frames | scheduler |
| `ReliableFifo` | what the channel promises (abstract specification) | |
| `RelayBundleChannel` | one direction of the channel and its network | |
| `RelayBundleChannel_proofs` | theorems: the refinement, the types and budgets, the room for the expected message | channel |
| `RelayCursor` | records and `Cursor::accept`, and what it is after each of a list of records | clock, membership |
| `RelayCanonicalAuthority` | clients, channels, relay core, authority and log composed | cursor |
| `RelayCanonicalAuthority_proofs` | theorems: types, the log, the clients, departures, ids | authority |
| `DisconnectManager` | the peers of a classic game and their disconnect managers, with the streams between them | |
| `DisconnectManager_proofs` | theorems: the types of the peers; one slot that stops is dropped in step | the former |
| `Rejoin` | the player who returns, the relay's log and the others | |
| `Rejoin_proofs` | theorems: what was fetched, the frames in step, the join frame | rejoin |
| `InductionLemmas` | lemmas: induction as a fact about sets, sums over finite sets; no code | |
| `JobSystem`, `JobSystem_proofs` | the pool, its workers and its callers; theorems | |
| `LogicWorker`, `LogicWorker_proofs` | the render thread and the worker; theorems | |
| `MC...` | the values of the constants for TLC (`Rejoin` and `LogicWorker` need none) | |

### Scheduler and builder

`RelayFrameBundle` has the builder's variables and one operator per operation;
`RelayFrameScheduler` adds the scheduler's variables, the relay's clock and the
membership, and makes them actions: `AdmitOrder` and `AdmitBeat` (any slot, any
id up to a bound, any size: the guards decide), `Seal` (`sealDue`, then
`prepare`), `AppendSucceeds` and `AppendFails` (`committed`, `fail`), `Tick`,
`MembershipChanges`. Lists the code keeps slot-major are functions from slots to
sequences. `stamp` is a history field: the frame an order was admitted for, which
the code forgets once a deferral moves `eligible`.

A call that returns without changing state (a wrong id, a full queue) is a
stutter and has no action. Bytes are sizes; the OBFB layout is not modelled,
but everything its validator demands is `ValidContent`. The 2 MiB bound on a
frame cannot be met (16 slots of 64 KiB), so its refusal is left out; so are an
id of the last 64-bit value and a second `prepare` over a staged frame, which
the relay never makes.

### Channel

`pending`, `incoming` and the histories are functions on sequence numbers.
`Poll` sends the due fragments among the first `MaxDatagrams` the rotating cursor
walks over; `Tick` runs the retry clocks; `ReceiveData` follows the order of the
code's tests (`Reception`), stores the fragment, and marks the run of sequences
that becomes deliverable; `ReceiveAck` acknowledges, retires the complete prefix
and remembers it; `TakeDelivered` drains. The network is a set of data packets
and a set of acknowledgements: receiving leaves a packet there (repetition,
reordering), `LoseData` and `LoseAck` remove it. CRC, identity and layout checks
are left out (a packet they refuse changes nothing), and so is a clock that runs
backwards.

`Receiver` says which end acknowledges. The relay puts its ACKs in the envelope
the client reads; the client sends the bare packet, which `RelayCore::handle`
takes for no relay datagram (`AckRead`). See finding 4.

`ReliableFifo` is the header's promise: what `queue` accepts is taken complete,
once, in order. The refinement maps a queued message to the whole of its
fragments, so a message put together from fragments of two messages would not be
a step of the FIFO.

### The composed canonical game

Every handler of the relay runs to its end before the next (one thread), so each
is one action: `Hello`, `HelloAgain`, `Rejoin`, `ReceiveData`, `Tick`, `Bye`,
`IdleClose`. All of them that reach `pump` share the operator `Pump`, in which
the number of appends that succeed is chosen: none, the membership record alone,
or both. `LogStops` is another record's failing write. The channels are FIFOs
with a window (what `ChannelIsFifo` proves of the channel); a channel of the
relay never loses a record from its window count, because no client ACK reaches
it (finding 4). `ClientUpdate` sends the player's orders and the beat, each
consuming its id whether or not there was room, then feeds what arrived to the
cursor. The builder here has no byte budgets: those are `RelayFrameScheduler`'s.

Left out of the composition: the WELCOME of a rebinding, which makes the client a
new channel while the relay keeps its own (`GN/Transport.cpp:563`); the size limit
the client decodes records with (`GN/Network.cpp:541`); the last 64-bit sequence;
a rejoin of a slot that left for good.

### Disconnect manager

`peer[p]` is the memory of the process of slot p: the manager's own fields and
what it reads of `Network` (the frame, which slots' commands it has for which
frames, the frame each slot left at). `net[p][q]` is the transport's stream from
p to q. `Receive` is one turn of `receiveAll` (a command filed by `file`),
`Update` is `DisconnectManager::update`, which follows whenever something was
received, ran or timed out (`due`), `RunFrame` is a frame the driver acquires,
with the FRAMEINFO it sends for the frame the run-ahead makes due. Each operator
on a peer is a method of the code with its name: `updateDisconnectStatus`,
`verifyDropClaims`, `applyPendingDrops` and so on.

The timers of the manager are seconds and minutes, a message and a frame are
milliseconds: `Silence`, `Age` (the bar of a silent slot) and `Repeat` move only
in a state that is `Settled`, with nothing on its way and nothing left to do. The
faults are a process that stops (`Crash`), whose last messages are lost from some
point on (`Lost`), a pair of peers that do not reach each other for a while
(`Cut`, `Heal`), and the Kick button. A game of the constant `Games` says which of
these may happen.

Left out: a process that hangs and comes back (`checkOwnHang`), the expiry of a
claim that nobody confirms, leaving, pause, the hold of a slot for its rejoin, the
adaptive run-ahead, more than four silent spells of a slot.

### Rejoin

`log` is the relay's log, one record for the commands and the FRAMEINFO of a slot
for a frame, so an offset counts records. `other` stands for the players who
remain, with the packet router; they do not fail. `player` is the process that
returns, `fetch` its `RelayLogFetch`. `Fetched` is one `step` of the fetch: any
set of answers to earlier requests may have come, each as old as it likes since
its request; `Joined` is its loop over the early chunks, one at a time. `Assembled` is `RelayLog::assemble` (`Incarnations`, `Joins`, `End`,
`Member`). `RejoinStep` is `rejoinStep` with the checks in their order and as much
catch-up as its time allows (one frame, or all). The reader's passes over the log
are written as the sets of frames they find (the drops, the REJOINs, the infos of
an incarnation) and the join frames as a function of the incarnation; frame numbers
stay below `Never`, the code's 0xFFFFFFFF (`RunFrame`, `RejoinAssumption`). `Drop`, `TakeBack`, `HandOver`
and `RunFrame` are what the others do about the slot; `Announce`, `Hear`,
`RunLive` and `ReadTail` are the returned player's lockstep.

Left out: the one-minute limits of the wait for the REJOIN and of the tail, a slot
that leaves, a room with one human, spectators, the parser. What a process sent
before it stopped reaches the others before they drop it; see "Seen while
modelling" for the case where it does not.

### Job system

A thread is a process whose `pc` says where it is. A section under `m_mutex` is
one action (`Publish`, `Fail`, `Left`, `Close`, `Drain`, `Look`, `Leave`); what
happens outside it is one of its own: taking a chunk (`Take`) and reading the
number of chunks and the body (`Begin`) are two steps, since a worker may do the
first for a job that has ended; so are unlocking and notifying (`Wake`,
`WakeToStop`). `sleeping` holds the threads in a wait that nothing has notified; a
wait may also return by itself (`SpuriousWake`, for which no fairness is assumed).
The spin before a worker's wait changes nothing and is left out. A job is a number
of chunks and each chunk's fate: it may throw, and it may leave another
floating-point environment behind. Two tests of `runChunks` cannot fail and are
left out: no chunk starts outside the canonical environment, since the caller was
verified, a worker is normalised when it joins and every thread after a chunk
that left it. `NoCall` clears a caller's fields when it returns. A body that
dispatches to its own pool runs that job inside its chunk. The destructor, which
is `stopWorkers` with no caller left, is left out.

### Logic worker

One action is one region of `m_pubMutex`, or the unlocked code between two of
them. The worker (`worker`) looks, sleeps, parks for a window that is wanted
(`ParkExpires` when it did not come in time), runs a frame, may throw, and takes
the mutex again. The render thread (`render`) goes through a render frame: it
begins a window or finds the worker running and asks for one, does client work
(`UseLogic`, `Used`, which may issue input; `WaitIdle`, in its parts, for what it
needs outside the window), advances, and ends the window. Input is a number, and
its way through `m_commands`, `m_pendingInput`, the queue and the driver is
followed; `issued` is a history of when each was issued. The frame driver is
external: it takes what is pumped and hands it out with its next batch. Snapshots,
events, statistics, the pacing of the ticks and the loading of a game are left
out.

## 3. Runs

| Run | Asks | Instance |
|---|---|---|
| `scheduler` | is every id accounted for, in order, with its delay explained; is a stamp ever refused, a gathered frame ever invalid; does each policy keep its promise | 2 slots, 3 and 1 ids, frame budget 2, queue of 3 orders and 5 bytes, 4 frames of 2 ms from 1 ms. EqualDelay: 4 and 2 beats, sizes 0, 1, 3, the clock stands. NextFrame: size 2, clock to 9 ms, last millisecond 11 |
| `channel` | does the channel implement the FIFO, answer every live fragment, keep room for the expected message, deliver everything and reopen its window | window 2, 3 sequences (the last is the last there is), messages of 1 and 2 fragments, buffer 3 of which 2 reserved; for progress, one-fragment messages and one datagram per poll |
| `authority` | does the log replay, do the clients follow it, does a slot depart once, are ids dense, does an admitted order run | 2 slots in three games: one slot ahead of the other, which falls silent or leaves, with a repeated HELLO or BYE; two that go on; the clock up to the last frame with a rejoin |
| `disconnect` | do the peers drop a player at one frame and run on in step, and does nobody wait for ever | 3 slots, run-ahead 1, 2 frames; any one crashes; one crashes and the others may press Kick; any number crash (safety alone); a pair is cut off for a while |
| `rejoin` | is what the fetch joined the log's beginning, does the player who returns run what the others ran, do both name the same first frame, does it get in, do the others go on | run-ahead 2, chunks of 3 records, 2 requests at a time, near edge 1, one restart with crashes at any point |
| `job_system` | does a body outlive its call, does a chunk run twice, does a call give what one thread would, does every call return | 2 callers, 2 workers or none, 2 calls, 1 change of the thread count, a simulation pool; jobs of 2 chunks: both fine, both failing (one throws, one throws and leaves the environment), and a caller outside the environment |
| `logic_worker` | is the logic used by one thread at a time, does input run in its frame, do waits return and requested frames run | with and without a driver, 3 frames, up to 2 per advance, 2 queued batches, 2 inputs, one switch of the worker, frames that may throw |
| `membership_commits`, `rejoined_client`, `refused_send`, `client_ack`, `second_rejoin` | the findings below | as above; `second_rejoin` has two restarts |

What the properties say:

- `AdmissionInOrder`: the scheduler never stamps an order so that the builder
  refuses it as out of order. If it did, the slot's next id would never be used
  and the slot would be mute for the rest of the game.
- `IdsAccounted`: the ids a slot used are exactly those of its orders and its
  refusals, each in a queue or in one committed frame, none twice and none both
  an order and a refusal.
- `RunsInOrder`, `DelayExplained`: a slot's orders run in the order it sent them,
  and the deferral audit names exactly the frames an order was held back in while
  its slot was active.
- `FrameAlwaysValid`: whatever is queued and whatever the membership, the frame
  gathered next passes the validation every client repeats; so no backlog can
  stop the game.
- `ByteAccounting`: the account that backpressure reads is what the queue holds.
- `WindowsLandTogether`, `ReceiptFrameOpen`: the promise of each policy.
- `LiveDataAnswered`, `ExpectedFits`: a fragment that may still be sent again is
  never refused for good, and a drained receiver always has room for the message
  it waits for.
- `ImplementsFifo`, `Delivery`, `WindowReopens`: the channel's promise, and its
  progress.
- `LogReplays`: a reader of the log takes every record and ends where the
  authority is, at every point of every failure.
- `ClientsFollowLog`: a client runs a prefix of the log and nothing else.
- `DepartsOnce`: one frame, and only one, orders the destruction of a departed
  slot, and no order of the slot runs from then on.
- `IdsAreDense`, `OrdersRun`: as long as no send is refused a slot's ids stay the
  ones the relay expects; an admitted order runs unless the game ends, fails or
  its slot leaves.
- `InStep` of the disconnect: peers that still play together ran every frame with
  the commands of the same slots. `DropInTime`: a drop one of them made is made by
  the other at the same frame, or the other has not passed that frame yet.
  `GameGoesOn`: a peer that stays gets through every frame. With four slots the
  first two fail when two players stop at the same time (section 5).
- `LogPrefix`: whatever order the chunks of a growing log came in and however long
  each was, what is joined is the log's beginning. `InStep` of the rejoin: every
  frame the player ran, from the log or live, had the commands the others ran it
  with. `JoinNamed`: the join frame a client goes by is the one the others take
  this very process back from. `RejoinEnds`, `GameGoesOn`: the player gets in
  unless it stops or its army was handed over, and the others never wait for it
  for ever.
- `BodyAlive`, `ChunkOnce`: a body is a closure on its caller's stack; no thread
  runs one whose call is over, and no chunk is given out twice although threads of
  earlier jobs are still on their way.
- `SameAsSequential`: the call's outcome depends on the job alone, not on the
  number of threads or their order, nor on whether the pool was free.
- `CallsReturn`: no call and no change of the thread count waits for ever.
- `LogicExclusive`: no frame runs while the render thread has a window or uses
  logic it was told it holds. `InputInItsFrame`: input runs once, whole, in the
  order it was issued and in the first frame requested after it.
  `RenderThreadReturns`, `RequestedFramesRun`: every wait of the render thread
  ends, and its windows do not starve the worker.

Why the bounds are enough. Scheduler and authority: two slots are needed for one
to be ahead of, absent from or silent beside the other, and no handler treats a
third differently; the budgets are the smallest for which an order fits, one is
deferred and one runs alone, and for which both queue limits are met; the last
frame and the last millisecond are reached. Channel: a window of two with three
sequences is the smallest in which history entries are evicted and the window
slides past a retired message, and the last sequence number is reached.
Disconnect: three slots are the fewest for which one fails, one decides and one is
told, and two frames let the peers stand on different ones; what a fourth slot adds,
two players dropped at once before two others, breaks `InStep` and `DropInTime`
(section 5, seen and not among the runs). Rejoin: chunks of
three records are needed for an early chunk that a short one overlaps; with
run-ahead 2 the frames announced before the crash, the REJOIN's frame and the
frames under way while the player returns are all different; the others go on
beyond `MaxFrame` until the player is dropped or back. Job system: two callers are
needed for one to find the pool busy, two calls for a worker of the first job to
meet the second, two chunks for two threads to fail in either order. Logic worker:
two frames may be queued behind one that runs, and two inputs may lie in different
places of the same way. The proofs lift the bounds for what they prove.

Deadlock is checked in `logic_worker` only: the others stop at their bounds, and a
closed game stops for good.

### Fairness

- Channel: weak fairness of `Poll`, `Tick` and `TakeDelivered` (both users call
  them in their loops). The network is lossy but not dead: strong fairness of
  *some* unacknowledged fragment arriving and *some* unseen acknowledgement
  arriving, which is weaker than strong fairness of each packet.
- Game: weak fairness of the relay's `Tick` (every 1000 ms,
  `RL/relay_main.cpp:295`), of each client's first `Hello` (the transport
  repeats it until it is welcomed), of `ClientUpdate` (the client's loop) and of
  `ReceiveData` (what the channel's `Delivery` gives). Nothing is assumed of
  BYE, silence, rejoin, the log or the clock.
- Disconnect: the processes run and the streams deliver (weak fairness of `Work`),
  a slot that lives is heard again (`Answers`: every peer sends keep-alives), an
  outage ends (`Heals`); the timers and the repeated announcement advance (strong,
  since each other's steps unsettle the state for a moment). Nothing of crashes,
  losses or the Kick button.
- Rejoin: weak fairness of each step of the others and of each step of the
  client's loop. A request at the end of what was fetched is answered in the end:
  this is `Answers`, whose fairness is spelled out with `AnswerTells` for its
  enabledness. Nothing of crashes, of a new binding or of the hand-over.
- Job system: weak fairness of each caller inside a call and of each worker:
  threads run, and bodies end. Nothing is assumed of spurious wake-ups.
- Logic worker: weak fairness of both threads. The client work of a render frame
  ends (`SF` of `Leave`), and between two windows, while a frame is drawn, the
  worker gets at the mutex (`SF` of its steps that take or finish a frame).

## 4. Proofs

### Scheduler

`RelayFrameScheduler_proofs` proves, for any finite set of slots of
which the game uses some (the code has 16), any budgets, limits, frame length and clock allowed by
`ClockAssumption`, `BundleAssumption` and `SchedulerAssumption`:

- `TypeCorrect`: `Spec => []TypeOK`. No frame number leaves its range.
- `StampsAreAdmitted`: `Spec => []AdmissionInOrder`.
- `ReceiptsMeetOpenFrames`: `Spec => []ReceiptFrameOpen`.
- `WindowsStayOpen`: `Spec => []WindowsLandTogether`.
- `FirstOpenBoundary`: `frameAfter` returns the first frame whose boundary lies
  after the receipt, for every receipt from the origin on.
- `Inductive`: `Spec => []IInv`, on which the first three rest.

`AdmissionInOrder` is not inductive: it speaks of the next admission and says
nothing of how the queue came to be. `IInv` adds `QueueBehindStamp`: the last
order of every queue is eligible no later than the frame the slot's next order
would be stamped for. Each action keeps it for a reason of its own. An admission
puts at the end of the queue an order eligible at that very stamp
(`OrderPreserves`). A beat and a tick only raise the stamp (`BeatPreserves`,
`TickPreserves`, the latter by `FrameAfterMonotone`). Staging raises the next
unpublished frame and with it the stamp (`SealPreserves`). A commit raises the
`eligible` of deferred orders by one, but only of orders that were eligible at the
staged frame, to the frame after it, which is the least any stamp may then be
(`CommitPreserves`). The other conjuncts (types, a clock not before its
origin, a successor of every staged frame) are what these steps use. The two
policy theorems follow from `IInv` and from the fact that only `Seal` raises the
next unpublished frame (`OnlySealAdvances`, `SealAdvances`), and does so only
when the boundary has passed or every required window is closed.

### The log's account of the orders

The same module proves from the same assumptions `IdsAreAccounted`,
`OrdersRunInOrder`, `DelaysAreExplained`, `BytesAreAccounted` and `FramesAreValid`:
`Spec => []P` for `IdsAccounted`, `RunsInOrder`, `DelayExplained`, `ByteAccounting`
and `FrameAlwaysValid`. The invariant behind the first three (`AuditInductive`)
is `AuditInv`, which adds to `IInv` that the log has one frame after the other
(`LogFrames`) and, for each slot:

- `QueueOf`: the queue goes up in eligibility, and an order eligible later than
  the next frame was never deferred: its eligibility is still its stamp.
- `InFlight`: what a staged frame takes, defers and refuses is still the head of
  the slot's queues, although orders were admitted since, and what it leaves
  behind is not due. This is what makes `committed` remove the right entries:
  it removes by counting, not by looking.
- `AccountOf`, `RunsOf`, `DeferralsOfIds`, `DelaysOf`: the three properties, with
  the queues carried along as the continuation of the log.

`Seal` establishes `InFlight` from `QueueOf` (`EligibleFirst`: the due orders of
a queue that goes up are a prefix; `SealAudit`). Admissions keep it, as they put
entries at the end (`AcceptAudit`, `RefuseAudit`). The commit moves a prefix of
each queue to the log: `TurnOver` shows that ids and their order survive any such
move, `ReleasedIs` what becomes of the deferred ones, and `CommitAudit` that each
order the frame deferred gained just this frame in both sets `DelayExplained`
compares, while for the others neither grew (`DeferralsGrow`, `FramesGrow`,
`NotReached`).

The bytes and the frames need `QueueInv` beside `AuditInv`: the queues keep their
limits, hold orders of an admitted size and refusals of one that is not, and
nothing for a slot outside the mask (`Within`); the byte account is their sum and
keeps its limit (`Weighed`); and the membership is always a valid one in which all
who are active have loaded, since that is what `MembershipChanges` makes
(`SnapshotIsValid`).

- `BytesAreAccounted`: an admission adds its size to the sum (`BytesOfAppend`), and
  the commit of a prefix takes off just its part (`BytesOfCut`), because `InFlight`
  says that the prefix is what was staged (`CommitKeeps`).
- `FramesAreValid`: `ConsumedFirst` shows where `prepare` stops, that is, that what
  it takes fits the frame's budget and that at least one order of a slot runs before
  one of it is deferred: an order alone always fits or runs alone. `QueueFrame`
  and `GatheredFrame` carry this to the lists of every slot, with their ids in order
  and apart from each other by `AccountOf`; `EntryCountBound` bounds the frame as a
  whole. This is where `BundleAssumption` says that the slots are finitely many.

### Channel

`RelayBundleChannel_proofs` proves, for any messages, sizes, window, budgets and
end of the sequence allowed by the module's assumptions:

- `ChannelIsFifo`: `Spec => ImplementsFifo`, the refinement of `ReliableFifo`.
- `LiveDataIsAnswered`: `Spec => []LiveDataAnswered`.
- `ChannelInductive`: `Spec => []ChannelInv`, on which both rest.

`ChannelInv` says what each end may hold given what travels: every packet was cut
from an accepted message, and every acknowledgement is of a fragment that arrived
(`Travelling`); the pending messages are the last accepted ones, no more than a
window of them, and whatever is retired was received whole (`Sending`); what is
put together at a sequence consists of fragments of that message alone
(`Receiving`); the first sequence not received is not complete, so `markDelivered`
left none behind (its run is measured by `CountUp`); what was taken is the
messages accepted first, and the history holds the last window of them
(`Delivering`). `LiveDataAnswered` follows: what is still sent again lies within a
window of the newest, and so is new, waiting, or in the history. The step of the
refinement is `FifoStep`: `Queue` is the FIFO's own, `TakeDelivered` takes whole
messages in turn, everything else is a stutter.

Two more theorems are about types, budgets and room:

- `ChannelTypeCorrect`: `Spec => []TypeOK`.
- `DrainedReceiverHasRoom`: `Spec => []ExpectedFits`.

They rest on `ChannelInv` with `Bytes` and `Shapes` (`ChannelTyped`). `Bytes` says
that both byte counts are the sums over what is held and keep their budgets, and of
the receiver two things more: what it holds *behind* the expected message (`Later`)
leaves the reservation free, and is fewer than a window. `DataBytes` is the step that
matters: a later message is let in beside the reservation only, an expected one may
use it, and when the window moves on, what was later becomes less (`LaterShrinks`).
`ExpectedFits` follows, for once the receiver was drained, later messages are all it
holds. `Shapes` is what `TypeOK` adds: the cursor of `poll` stays a fragment of a
sequence however far it walked (`CursorMoves`), and the retry clocks stay in range.
The sums are `Total*` of `InductionLemmas`.

### Canonical game

`RelayCanonicalAuthority_proofs` proves, for any slots, clock, windows, policies and
games allowed by `AuthorityAssumption` and `ClockAssumption`:

- `AuthorityTypeCorrect`: `Spec => []TypeOK`.
- `LogIsReplayable`: `NextTickets => (Spec => []LogReplays)`.
- `ClientsAreSupplied`: `NextTickets => (Spec => []ClientsFollowLog)`.
- `DepartsOnceEach`: `Spec => []DepartsOnce`.
- `IdsStayDense`: `Spec /\ []CountersLeft /\ [][NothingCut]_vars => []IdsAreDense`.

`NextTickets` says that a rejoin comes with the slot's next ticket. It is needed: the
cursor refuses a membership in which a generation goes up by more
(`GN/RelayMembership.cpp:151`), while HELLO takes any later ticket
(`RL/RelayCore.cpp:617`); the game `rejoin` of the run `authority` satisfies it.
`DepartsOnceEach` holds without it, since a reader that refuses a record stays where
it is.

`IdsStayDense` assumes of a behaviour what the code does not see to: that a client
that updates gets all it sends into its channel (`NothingCut`; finding 3 is what
happens otherwise) and that no frame counter has reached the last frame there is
(`CountersLeft`: then the builder refuses for want of a frame). Both hold in every
state and step of the run `authority`, where the window of 3 takes all a client sends
in a game. What is left is everything that could still break the ids: packets that
make any number of messages deliverable, a pump between them that commits or fails,
HELLOs repeated, slots held, leaving or rejoining beside it.

What a reader makes of a list of records is a recursive function (`Feeding`), and so
are the admissions of a packet (`Admitting`) and the frames a client gets out of
what arrived (`FramesFed`). Their lemmas (`FeedingSteps`, `FeedingAlong`,
`FeedingJoined`, `AdmittingSteps`, `FramesFedSteps`) rest on `SetInduction` of
`InductionLemmas`: induction over the naturals as a statement about a set, which is
the library's principle of the least element (`WFMin`) and needs no operator as a
parameter.

The types (`TypeInv`) say of each slot what the wire holds: what waits for a client
fits its window, so `Fanout` never has to drop a record from it. The invariant of the
log (`LogInv`) has three parts:

- `Clocked`: the clock of the membership runs from the start of the game, a slot that
  never bound was neither held nor departed, and each slot is at its ticket 0 or 1.
- `ReaderInv`: a cursor fed the whole log expects the sequence, the generation and
  the frame the authority stamps next, and the membership it holds staged is one the
  authority's may follow (`Behind`): no departed slot comes back, no generation goes
  down or up by two, and it is the very same unless `m_dirty` is set. Without
  `Behind` the step is not provable, since `m_dirty` is what decides whether the
  next record is a membership. `StagedTaken` is the heart: whatever `pump` stages
  (nothing, a membership, a frame, or both), the cursor takes. `PumpReads` adds the
  appends that fail between them: the authority fails with the log, and the log is
  still read whole. `CloseReads` does it for the End record.
- `SuppliedInv`: what a client took and what waits for it are the log, up to where
  its window filled (`Supplied`); no slot joins after the first record but by a
  rejoin, which is why the log begins with the membership of all
  (`members = SlotMask`). `PumpSupplies`, `TailGrows` and `TailShrinks` follow a
  record from the log over the wire to the client.

The invariant of the ids (`DenseInv`) says what is on the way from a slot that has
not rejoined: of each kind, the messages in its channel bear the ids from the one
the relay expects to the client's last, each once and in order (`Numbered`). A send
adds the next ones (`SentDense`); the head of such a queue is what `Admits` asks for,
and admitting it leaves such a queue (`HeadAdmitted`), so a packet of any length is
admitted whole (`AllAdmitted`). A slot's beat frame never goes back, which is why
`CountersLeft` after a packet speaks for every message in it (`LastBeat`).

`ClientsAreSupplied` follows: a cursor fed a prefix of the log is the one
`ClientsFollowLog` names, by `FeedingJoined`. The invariant of the departures
(`RanInv`) is about the client alone: what departed at one of its frames is in its
applied membership, the next frame's departures are not, and a frame with an order
of a slot departed before is refused (`RanFrame`, `RanFed`).

### Rejoin

`Rejoin_proofs` proves `FetchedIsPrefix`, `Spec => []LogPrefix`, for any chunk size,
window, run-ahead and number of restarts and frames allowed by `RejoinAssumption`.

`LogPrefix` is not inductive: it says nothing of the chunks that came early. The
invariant `FetchInv` adds that every early chunk holds the log's positions from its
offset on and does not pass the log's end (`Chunks`), and that the size the relay
reported and the offsets asked for are not beyond the end either (`FetchOf`). An
answer was cut when the log had some size between the one reported and today's, so
it is short or whole but never wrong (`ChunkFits`), and a log only grows
(`LogGrows`). An early chunk at the end of what was joined goes on with it
(`ChunkJoins`), so by `SetInduction` the loop over the early chunks ends in a
beginning of the log (`JoinedSteps`, `PrefixJoined`). Nothing is assumed about the
order, the number or the loss of the answers.

`CatchUpInStep` and `JoinIsTheirs` are `Spec => []InStep` and `Spec => []JoinNamed`
for a player who restarts at most once (`OneRestart`, `MaxGeneration <= 1`), and for
every run-ahead, chunk, window and number of frames. The hypothesis is what the code
needs, not the proof: with two restarts `second_rejoin` refutes the one and section
5 tells how the other fails. Within the one restart the process may crash anywhere,
be dropped before or after it is back, and come back to an army handed over.

Neither is inductive: both relate what two processes ran through a log that each
knows a part of. `RestartInv` says instead what the log settles of a frame. From the
first process's announcements (`Early`), the second's (`Late`), the drops and the
REJOIN it defines whose commands frame g has (`Fate`), and calls it `Settled` when
no later record can change that: whoever runs the frame announced it, and no drop is
at or below a frame announced; or nobody does, and the frame is below every frame a
REJOIN may still come for (`Said`). The conjuncts are

- `OthersInv`: the others' records are one per frame, in order, without a gap, and
  the REJOIN is behind the REJOINED record;
- `RejoinedInv`, `OtherInv`, `FirstInv`, `SecondInv`: which drops and REJOINs the log
  has while the first process, or the second, is the member, and while a REJOIN is
  on its way;
- `OwnInv`: each process announced its frames without a gap, none behind its drop,
  and the second only behind its REJOIN;
- `RanInv`, `PlayerInv`: every frame that the others ran, or the player, is settled.

Each step keeps what is settled, for a reason of its own (`StaysSettled`): a drop
comes at a frame nobody announced, because the router waits for all that was sent
(`SettledAtDrop`, by `SentIs`); a REJOIN comes for a frame above all that was
announced (`SettledAtReturn`). The heart is `Read`: whatever beginning of the log a
client has fetched, the frames that are complete in it are settled as the whole log
settles them. A REJOIN or a drop that the beginning does not show yet is above its
complete frames, because the frame of the others that carries the one, or the frame
the other leaves without an announcement, is missing there (`AssembledIs`,
`CompleteIs`, `JoinsAre`, `MemberIs`). `JoinRead` is the same for the join frame:
once the others have applied the REJOIN, every frame below it is complete in the
log. `InStep` follows since both sides ran what `Fate` says, `JoinNamed` since there
is only one REJOIN (`OneReturn`).

### Disconnect manager

`DisconnectManager_proofs` proves `TypeCorrect`, `Spec => []TypeOK`, for any slots,
frames, run-ahead and any games, and `DroppedInTime` and `StaysInStep`,
`Spec /\ OneFailure => []P` for `DropInTime` and `InStep`. `OneFailure` speaks of the
game played: at most one process stops, whichever it is, and no pair of peers is cut
off; players may press Kick. It is the code that needs it: with an outage beside a
crash, or with two crashes among four slots, the two properties fail (section 5).
The games `OneCrash` and `Kicked` of the run satisfy it. Any number of slots vote,
announce, release, announce again and fall behind, and the one that decides is
whichever comes first among those left.

Neither property is inductive: each compares what two peers have done, and why
they agree lies in what is still on its way between them. For the slot t that may
stop, the invariant `IInv(t)` has these parts, apart from the types:

- `World`: what each of the others remembers (`Known`, `Own`, `Ranged`): it hears all
  the others, votes on nobody but t, and keeps its own announcement and record in
  agreement; t itself, as long as it lives, takes nobody for silent (`Lone`).
- `Said`: what each stream may carry. A drop comes from the first in the fallback
  order of the others, the router, is of t, claims nobody before it gone, and names
  the frame the router left t at; no announcement is beyond what its sender
  announced.
- `Records` and `Leaves`: a record of another peer is not ahead of it, and whoever
  dropped t did so at the router's frame.
- `Dead`: nobody notices the silence of t before it stopped and what it sent is gone.
  The timers make this so: they move only when the network is settled.
- `Before`, while the router has not dropped t. A follower's record is open when the
  router has it open or an announcement of that frame is on its way to it (`Open`).
  Whoever stands on a frame with an open record holds that frame (`Holds`); a release
  on its way is of a record that was closed (`Closed`); when a frame is announced
  again nothing of its first announcement travels (`Fresh`), and announcements to the
  router go up (`Rising`). Nobody got past a frame but behind one who had no open
  record for it (`First`). Together these are why all records open at one frame, which
  is when the router decides, mean that everybody stands on that frame and holds it.
- `After`, from then on: whoever has not dropped t yet stands on the drop's frame and
  holds it; the drop is on its way to it, behind the announcement without which it
  would refuse it, with no release before it (`Waits`); and who dropped t turns its
  screen off before it goes on (`Offs`), so that nothing it says later frees one who
  still waits.

A step of one of the others is of one of ten kinds (`TurnsAre`: `Idle`, `Announces`,
`Decides`, `TurnsOff`, `Runs` and so on), and `UpdateKept`, `ReceiveKept` and `RunKept`
show that every operation is of one of them, whatever loop it runs over the slots
(`InTurn`, by `UpTo` and `RecursionStays`). Each conjunct is then kept by each kind. `Drops` is the
step from `Before` to `After`; `MovesKeep` and `IInvNext` put the steps together.
`DropInTime` follows from `Leaves` and `Waits`, and `InStep` from it and `Ranged`: the
frames that ran were run with the slots whose leave frame is later.

### Job system

`JobSystem_proofs` proves, for any callers, any finite set of workers, any jobs and
both kinds of pool (`JobAssumption`), `JobTypes`, `BodiesOutlive`,
`ChunksAreUnique` and `PoolIsSequential`: `Spec => []P` for `TypeOK`, `BodyAlive`,
`ChunkOnce` and `SameAsSequential`. The invariant behind them (`JobInductive`)
has four parts besides the types:

- `Ownership`: the call whose body is published holds the pool, and a worker can
  be inside only while that call is in the dispatch. This needs `joined` to be the
  number of workers inside (`WorkerMoves` and the theorems on cardinalities) and
  `open` to imply a published job: together they are why `Close` may forget the
  body when `joined` is 0, and why a worker that looks later joins nothing.
- `Claims`: every chunk taken is below the counter and belongs to one thread or
  has run. `Publish` may reset the counter because, by `Ownership`, no thread is
  inside a job then (`Busy`).
- `Recording`: every chunk below the counter is held or has run; every failure
  that ran is reported, is about to be, or is beaten by a lower one (`Kept`).
  `RecordedIs` and `ReportKept` are the argument for `fail`, the exception and then
  the environment of one chunk included. When a caller is drained, nothing is held
  or about to be reported, so the error kept is the lowest (`DrainedSettled`).
- `Calls`: what a call has when it starts, runs inline (`InlineSettled`) or returns.

### Logic worker

`LogicWorker_proofs` proves, for any bounds, with and without a driver, whether or
not frames throw, `WorkerTypes`, `LogicIsExclusive` and `InputRunsInItsFrame`:
`Spec => []P` for `TypeOK`, `LogicExclusive` and `InputInItsFrame`.

`LogicExclusive` is not inductive. `IInv` (`WorkerInductive`) adds to it that `m_running` is set
exactly from a frame's taking to its completion, that a worker which was joined is
gone, that after a failure no frame is taken, and that what lets the render thread
use the logic (no worker, its window, an idle worker, a failure) still stands
while it does (`Held`). `NoTake` is the heart of it: under `Held` the worker's
guard is false.

`TypeInv` adds to the types that the frames run, the one taken and those queued are
no more than were requested. `InputInItsFrame` rests on two more parts. `PlaceInv`
says where input may be while the render thread is in which step: `m_commands` is
used inline, in a window or while the worker is idle, `m_pendingInput` only when
there is a worker, and neither holds anything back when `advance` hands its batch
over. `Flow` says that everything issued and not yet run lies in order along the
way (`Flows`): in the batch that runs, in the batches queued, in the driver, in
`m_pendingInput`, in `m_commands`, each with the frame it will run in, and that
what has run did so in its frame (`Past`). Every step moves input along this line
or leaves it (`UnsentStays` and the lemmas after it). After a failure only `Past`
remains.

### Only model-checked

- All liveness, and what is said of fairness (`OrdersRun`, both `GameGoesOn`,
  `RejoinEnds` and the rest).
- The disconnect beyond one crash: `InStep` and `DropInTime` with several crashes of
  three slots, and with an outage alone. They do not hold of every game (section 5),
  so that a theorem would have to say which several failures go well.
- The rejoin with more than one restart, of which `InStep` and `JoinNamed` do not hold.

TLC checks the properties that are proved as well, on the instances of section 3.

## 5. Findings

Each is a run that ends in a counterexample.

1. `membership_commits`. The first `pump` after a bind, if it comes before every
   slot has bound, encodes a membership that is not a partition of the mask;
   `hold()` puts a silent slot in `held` and leaves it in `active`, so the next
   `pump` encodes masks that overlap. `valid()` refuses both and the authority
   fails for good (`RL/RelayCanonicalAuthority.cpp:234` and `:72`). The run shows
   the first, which is shorter; with both slots bound, the second follows in one
   tick. NET-SYNC.md says a held slot cannot stall the beat.
2. `rejoined_client`. A restarted client's cursor starts at record 1, and its
   channel carries only the records after the rejoin (`GN/Network.cpp:508`).
3. `refused_send`. Order and beat ids are consumed before the send; one refused
   send leaves a gap, after which the relay refuses every id of the slot
   (`GN/Network.cpp:521`).
4. `client_ack`. The client's ACK packets reach the relay without their envelope
   and are dropped, so the relay's window for that client fills and never reopens
   (`GN/Transport.cpp:528`).
5. `second_rejoin`. The log's reader gives a REJOIN to the first incarnation of
   the slot that has none (`GN/RelayLog.cpp:939`), the others take back the newest
   (`Network::applyRejoin`). After a process that bound and stopped before it was
   taken back, the two differ: the log names no join frame for the latest
   incarnation, against the comment at `GN/NetGameSession.cpp:547`, and the player
   who waits for one gives up after a minute while the others wait for it.

Seen while modelling and not among the runs:

- After a membership that could not be encoded, `finish()` appends the empty
  record left in the outbox and the End record behind it
  (`RL/RelayCanonicalAuthority.cpp:149`).
- HELLO takes a ticket of any later generation, the cursor only the next
  (`RL/RelayCore.cpp:617`, `GN/RelayMembership.cpp:151`).
- NET-SYNC.md describes version 1 of the bundle header (18 bytes) where the code
  writes version 2 (22 bytes).
- Two crashes can freeze a game for the player who is left, in two ways; the run
  therefore asks `GameGoesOn` of games with one crash, and only safety of games with
  several (`engine/tests/test_mpdrop1_disconnect.cpp:2` says that a crash must never
  freeze an online game). First, a decider must hold every other slot before it in
  the fallback order gone (`Network::dropClaims`, `GN/Network.cpp:1442`): when the
  two players before it both stop, it may drop neither because of the other.
  Second, the frame of a drop is the highest any slot announced, silent and dropped
  slots included (`getMaxDisconnectFrame`, `GN/DisconnectManager.cpp:397`): when the
  second player to stop had run, and announced, a frame more than the survivor, the
  survivor drops both at that frame and waits on the one before for commands that
  nobody can send again.
- A peer that does not hear one of the others leaves it out of "all on the same
  frame" (`allOnSameFrame`, `GN/DisconnectManager.cpp:191`). When two peers cannot
  reach each other while a third stops, both may decide, at different frames; no
  game of the run combines an outage with a crash.
- Two players of four who stop at the same moment can leave the others out of step.
  The decider drops both in one `update`, with two DISCONNECTPLAYER commands for one
  frame. The other survivor applies the first and with it releases its announcement
  (end of `applyPendingDrops`, `GN/DisconnectManager.cpp:1000`). When
  the second command comes in a later packet, and the commands of the second player
  for that frame are there, the survivor runs the frame with that player before it
  reads the command, and then refuses it because its frame has passed; the decider
  ran the frame without. TLC finds it with four slots of which the first and the
  last stop, two frames and run-ahead 1, against `DropInTime` first and `InStep`
  next, and also when no bar runs down before every survivor has noticed the
  silence. With three slots no second survivor is left.
- Commands the relay logged and did not deliver before the drop: a player who
  returns reads them and runs frames that the others ran without them. The
  comparison of CRCs then ends the rejoin. The model assumes they were delivered.
- With two restarts `InStep` of the rejoin can fail as well as `JoinNamed`. A process
  that goes live between the issue of its REJOIN and its application announces
  frames; when it crashes there and the next process binds, the others apply the
  REJOIN for the newest generation they have seen (`Network::applyRejoin`), while the
  reader of the log gives those frames to the older one. The theorems are therefore
  stated for one restart.
- A log that holds only the first of two rejoins of a slot gives the second
  process the join frame of the first (`GN/NetGameSession.cpp:548`).
- `rejoinRequested` stays set when a newer generation of the slot is seen
  (`GN/Network.cpp:593` and `:1767`).

## 6. Plan

Done: the clock, builder and scheduler, with the proofs of their stamps and of
their audit; the channel, its abstract specification and the proof of the
refinement; the cursor; the composed canonical game; the disconnect
manager, with the proof that one slot that stops is dropped in step; the
rejoin, with the proof that a player who restarts once runs in step; the job system
and the logic worker with their proofs; the proof that the canonical log is read as
it was written and that a fetched log is its beginning.

What is left, in this order:

1. The rest of classic lockstep: the adaptive run-ahead (a frame skipped or filled
   when it falls), the CRC comparison, pause and leaving; in the disconnect
   manager a process that hangs and comes back, and the expiry of claims.
2. The sliding replay window of the relay's authentication, word by word against a
   set of counters, with a proof that no counter is accepted twice.
3. The life cycle of a game log (the `.part` file, its rename and upload, with a
   stop between any two steps), then the launcher's install and recovery, and the
   lobby's tickets.
4. Both directions of the channel with a rebinding, and the composition of the
   disconnect with the hold and the rejoin.
5. Proofs: the disconnect of games with an outage and no crash, and with crashes
   one of which comes after the drop of the other.

## 7. Running

    tlc -workers 2 -config RelayFrameScheduler.cfg MCRelayFrameScheduler.tla
    tlc -workers 2 -config Rejoin.cfg Rejoin.tla
    tlapm RelayFrameScheduler_proofs.tla

`RelayFrameScheduler.cfg`, `RelayBundleChannel.cfg` and `RelayBundleChannel_client.cfg`,
`RelayCanonicalAuthority.cfg` and the three `RelayCanonicalAuthority_*.cfg`,
`DisconnectManager.cfg` and `JobSystem.cfg` go with the `MC` module of that name;
`Rejoin.cfg` and `Rejoin_second.cfg` with `Rejoin`, `LogicWorker.cfg` with
`LogicWorker`. The longest, `disconnect` and `rejoin`, take two to three minutes.
The proofs are in `RelayFrameScheduler_proofs`, `RelayBundleChannel_proofs`,
`RelayCanonicalAuthority_proofs`, `Rejoin_proofs`, `DisconnectManager_proofs`,
`JobSystem_proofs` and `LogicWorker_proofs`, with lemmas of `InductionLemmas`. That of the
disconnect manager takes a quarter of an hour, the others less.
`PROJECT.json` maps every definition to the lines it models, lists the hazards at
their lines with the properties that watch them, and names for every property an
altered definition (`Mutant_...` in the modules) that violates it.
