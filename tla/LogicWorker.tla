------------------------------ MODULE LogicWorker ------------------------------
(***************************************************************************)
(* LiveGame's render thread and logic worker (engine/src/GameClient): the  *)
(* queue of requested frames, the client window in which the render thread *)
(* may touch the live logic, the input it issues there, the waits for the  *)
(* idle worker and the switch of the worker.                               *)
(*                                                                         *)
(* One action is one region of m_pubMutex, or the unlocked code between    *)
(* two of them.  A frame driver (the lockstep, a replay) is external: it   *)
(* takes what is pumped and hands it out with its next batch.  The         *)
(* snapshots, events and statistics the frames publish are left out.       *)
(***************************************************************************)
EXTENDS Integers, Sequences

CONSTANTS
    Driven,         \* whether a frame driver is installed: a subset of BOOLEAN to choose from
    MaxBatches,     \* kMaxQueuedBatches
    MaxDue,         \* maxFramesPerAdvance
    MaxFrames,      \* bound of the frames requested
    MaxInputs,      \* bound of the input issued
    MaxSwitches,    \* bound of the times the worker is switched off
    MayThrow        \* whether a frame may throw

ASSUME WorkerAssumption ==
    /\ Driven \subseteq BOOLEAN /\ MayThrow \in BOOLEAN
    /\ MaxBatches \in Nat \ {0} /\ MaxDue \in Nat
    /\ MaxFrames \in Nat /\ MaxInputs \in Nat /\ MaxSwitches \in Nat

VARIABLES
    \* guarded by m_pubMutex
    work,           \* m_work: the input of each requested frame
    running,        \* m_running
    stop,           \* m_stop
    error,          \* m_workerError is set
    windowOpen,     \* m_windowOpen
    windowWanted,   \* m_windowWanted
    \* the simulation owner's
    commands,       \* m_commands: the input the next frame executes
    frames,         \* the frames that ran
    executed,       \* the input executed, in order, each with its frame
    worker,         \* where the worker is
    item,           \* the input of the frame the worker took
    \* the render thread's
    render,         \* where the render thread is
    goal,           \* what it waits for the idle worker for
    lifted,         \* waitIdle lifted the window
    due,            \* the frames this advance still requests
    pending,        \* m_pendingInput
    requested,      \* the frames requested or run inline (m_dueFrame, m_nextBatchFrame)
    protocolFrame,  \* m_protocolFrame: the frames whose completion was consumed
    threaded,       \* m_threaded
    driven,         \* m_frameDriver is set
    pumped,         \* the input the driver holds for its next batch
    issued,         \* for each input, the frames requested when it was issued
    switches        \* how often the worker was switched off

sharedVars == <<work, running, stop, error, windowOpen, windowWanted>>
ownerVars == <<commands, frames, executed>>
workerVars == <<worker, item>>
waitVars == <<goal, lifted>>
inputVars == <<pending, pumped, issued>>
gameVars == <<due, requested, protocolFrame, threaded, driven, switches>>
vars == <<sharedVars, ownerVars, workerVars, render, waitVars, inputVars, gameVars>>

-----------------------------------------------------------------------------

\* notify_all, as it finds each thread.
Notified(w) == IF w \in {"asleep", "parked"} THEN "looking" ELSE w
Woken(r) == IF r = "asleep" THEN "woken" ELSE r

Idle == work = <<>> /\ ~running

\* logicHeld, holdLogic
LogicHeld == ~threaded \/ windowOpen \/ Idle

\* stashHeldCommandsLocked
Stash ==
    /\ pending' = pending \o commands
    /\ commands' = <<>>

\* A frame over a list of input.
Executes(input) ==
    /\ frames' = frames + 1
    /\ executed' = executed \o [i \in 1 .. Len(input) |-> [input |-> input[i], frame |-> frames + 1]]

-----------------------------------------------------------------------------
\* workerLoop

\* The worker does not look at the window.
Mutant_MayTake == work # <<>> /\ ~error

MayTake == work # <<>> /\ ~error /\ ~windowOpen

\* The last test of the loop: a frame is taken, or the worker sleeps.
Take ==
    /\ MayTake
    /\ item' = Head(work) /\ work' = Tail(work)
    /\ running' = TRUE
    /\ worker' = "frame"

Sleep ==
    /\ ~MayTake
    /\ worker' = "asleep"
    /\ UNCHANGED <<item, work, running>>

Look ==
    /\ worker = "looking"
    /\ \/ stop /\ worker' = "exited" /\ UNCHANGED <<item, work, running>>
       \/ ~stop /\ windowWanted /\ ~windowOpen /\ worker' = "parked"
          /\ UNCHANGED <<item, work, running>>
       \/ ~stop /\ ~(windowWanted /\ ~windowOpen) /\ (Take \/ Sleep)
    /\ UNCHANGED <<stop, error, windowOpen, windowWanted, ownerVars, render, waitVars,
                   inputVars, gameVars>>

\* The park time begins anew.
Mutant_RunOn == worker' = "looking" /\ UNCHANGED <<item, work, running, windowWanted>>

\* The render frame came later than m_parkMs: the window is asked for again.
RunOn ==
    /\ windowWanted' = (windowWanted /\ windowOpen)
    /\ Take \/ Sleep

ParkExpires ==
    /\ worker = "parked"
    /\ \/ stop /\ worker' = "exited" /\ UNCHANGED <<item, work, running, windowWanted>>
       \/ ~stop /\ RunOn
    /\ UNCHANGED <<stop, error, windowOpen, ownerVars, render, waitVars, inputVars, gameVars>>

\* runFrameOwned: a driver's batch replaces what the command list holds.
RunFrame ==
    /\ worker = "frame"
    /\ Executes(IF driven THEN item ELSE commands \o item)
    /\ commands' = <<>> /\ item' = <<>>
    /\ worker' = "ran"
    /\ UNCHANGED <<sharedVars, render, waitVars, inputVars, gameVars>>

FrameThrows ==
    /\ worker = "frame" /\ MayThrow
    /\ worker' = "threw" /\ item' = <<>>
    /\ UNCHANGED <<sharedVars, ownerVars, render, waitVars, inputVars, gameVars>>

RecordError ==
    /\ worker = "threw"
    /\ error' = TRUE
    /\ worker' = "ran"
    /\ UNCHANGED <<work, running, stop, windowOpen, windowWanted, item, ownerVars, render,
                   waitVars, inputVars, gameVars>>

FrameDone ==
    /\ worker = "ran"
    /\ running' = FALSE
    /\ worker' = "looking"
    /\ render' = Woken(render)
    /\ UNCHANGED <<work, stop, error, windowOpen, windowWanted, item, ownerVars, waitVars,
                   inputVars, gameVars>>

Worker == Look \/ ParkExpires \/ RunFrame \/ FrameThrows \/ RecordError \/ FrameDone

-----------------------------------------------------------------------------
\* The render thread: one render frame is "begin", "client", an advance or
\* none, "draw".

\* A window of the frame before is taken over.
Mutant_EndUnended == UNCHANGED <<pending, commands, windowOpen, worker>>

\* It ends, and this render frame gets none.
EndUnended == Stash /\ windowOpen' = FALSE /\ worker' = Notified(worker)

\* beginClientWindow
BeginWindow ==
    /\ render = "begin" /\ threaded
    /\ render' = "client"
    /\ \/ /\ windowOpen /\ EndUnended
          /\ UNCHANGED windowWanted
       \/ /\ ~windowOpen /\ running
          /\ windowWanted' = TRUE
          /\ UNCHANGED <<windowOpen, pending, commands, worker>>
       \/ /\ ~windowOpen /\ ~running
          /\ windowOpen' = TRUE /\ windowWanted' = FALSE
          /\ UNCHANGED <<pending, commands, worker>>
    /\ UNCHANGED <<work, running, stop, error, frames, executed, item, waitVars, pumped,
                   issued, gameVars>>

BeginInline ==
    /\ render = "begin" /\ ~threaded
    /\ render' = "client"
    /\ UNCHANGED <<sharedVars, ownerVars, workerVars, waitVars, inputVars, gameVars>>

\* The client work that needs the live logic finds it held, or goes without.
UseLogic ==
    /\ render = "client" /\ LogicHeld
    /\ render' = "using"
    /\ UNCHANGED <<sharedVars, ownerVars, workerVars, waitVars, inputVars, gameVars>>

\* It reads, or issues input.
Used ==
    /\ render = "using"
    /\ render' = "client"
    /\ \/ UNCHANGED <<commands, issued>>
       \/ /\ Len(issued) < MaxInputs
          /\ commands' = Append(commands, Len(issued) + 1)
          /\ issued' = Append(issued, requested)
    /\ UNCHANGED <<sharedVars, frames, executed, workerVars, waitVars, pending, pumped, gameVars>>

\* waitIdle, by an accessor outside the window or before the worker stops.
\* The wait lasts while the worker is not idle, unless it failed.
WaitOver == Idle \/ error

\* A failure is thrown to a caller without a failure handler.
Returns(g) == {IF g = "stop" THEN "stop" ELSE "using"} \cup (IF error THEN {"client"} ELSE {})

\* The window's input stays in the command list.
Mutant_Lift ==
    /\ worker' = IF windowOpen THEN Notified(worker) ELSE worker
    /\ UNCHANGED <<pending, commands>>

\* The caller's own window is lifted and its input put aside first.
Lift ==
    IF windowOpen THEN Stash /\ worker' = Notified(worker)
    ELSE UNCHANGED <<pending, commands, worker>>

WaitIdle(g) ==
    /\ render = "client" /\ threaded
    /\ g = "stop" => switches < MaxSwitches
    /\ switches' = IF g = "stop" THEN switches + 1 ELSE switches
    /\ Lift
    /\ goal' = g
    /\ IF WaitOver
       THEN render' \in Returns(g) /\ UNCHANGED <<windowOpen, lifted>>
       ELSE render' = "unlocked" /\ windowOpen' = FALSE /\ lifted' = windowOpen
    /\ UNCHANGED <<work, running, stop, error, windowWanted, frames, executed, item, pumped,
                   issued, due, requested, protocolFrame, threaded, driven>>

\* The condition variable's test, after the detail of the site was asked for
\* without the mutex or after a notification.
WaitTest ==
    /\ render \in {"unlocked", "woken"}
    /\ IF WaitOver
       THEN render' \in Returns(goal) /\ windowOpen' = lifted /\ lifted' = FALSE
       ELSE render' = "asleep" /\ UNCHANGED <<windowOpen, lifted>>
    /\ UNCHANGED <<work, running, stop, error, windowWanted, ownerVars, workerVars, goal,
                   inputVars, gameVars>>

\* setLogicThread
StopWorker ==
    /\ render = "stop"
    /\ stop' = TRUE /\ windowOpen' = FALSE /\ windowWanted' = FALSE
    /\ worker' = Notified(worker)
    /\ render' = "joining"
    /\ UNCHANGED <<work, running, error, ownerVars, item, waitVars, inputVars, gameVars>>

JoinWorker ==
    /\ render = "joining" /\ worker = "exited"
    /\ threaded' = FALSE
    /\ commands' = pending \o commands /\ pending' = <<>>
    /\ render' = "client"
    /\ UNCHANGED <<sharedVars, frames, executed, workerVars, waitVars, pumped, issued, due,
                   requested, protocolFrame, driven, switches>>

StartWorker ==
    /\ render = "client" /\ ~threaded
    /\ stop' = FALSE /\ work' = <<>> /\ running' = FALSE
    /\ threaded' = TRUE /\ worker' = "looking"
    /\ UNCHANGED <<error, windowOpen, windowWanted, ownerVars, item, render, waitVars,
                   inputVars, due, requested, protocolFrame, driven, switches>>

-----------------------------------------------------------------------------
\* advance, of a game whose logic did not fail.

\* stashHeldCommands
StashHeld ==
    IF windowOpen \/ Idle THEN Stash ELSE UNCHANGED <<pending, commands>>

\* d frames are due.
Advance(d) ==
    /\ render = "client" /\ threaded /\ ~error
    /\ requested + d <= MaxFrames
    /\ due' = d
    /\ IF driven
       THEN /\ protocolFrame' = frames
            /\ render' = "stashing"
            /\ UNCHANGED <<pending, commands, worker>>
       ELSE /\ StashHeld
            /\ render' = IF d > 0 THEN "pushing" ELSE "ending"
            /\ worker' = IF d > 0 THEN worker ELSE Notified(worker)
            /\ UNCHANGED protocolFrame
    /\ UNCHANGED <<sharedVars, frames, executed, item, waitVars, pumped, issued, requested,
                   threaded, driven, switches>>

\* No driver: the first frame carries the pending input.
Push ==
    /\ render = "pushing"
    /\ work' = work \o <<pending>> \o [i \in 1 .. due - 1 |-> <<>>]
    /\ pending' = <<>>
    /\ requested' = requested + due /\ due' = 0
    /\ worker' = Notified(worker)
    /\ render' = "ending"
    /\ UNCHANGED <<running, stop, error, windowOpen, windowWanted, ownerVars, item, waitVars,
                   pumped, issued, protocolFrame, threaded, driven, switches>>

\* advanceWithDriver, behind consumeCompletions.
DriverStash ==
    /\ render = "stashing"
    /\ StashHeld
    /\ render' = "pumping"
    /\ UNCHANGED <<sharedVars, frames, executed, workerVars, waitVars, pumped, issued, gameVars>>

\* Input that waits does not keep the next batch.
Mutant_InputWaits == FALSE

InputWaits == ~Idle /\ pending # <<>>

Pump ==
    /\ render = "pumping"
    /\ IF Idle THEN pumped' = pumped \o pending /\ pending' = <<>>
       ELSE UNCHANGED <<pumped, pending>>
    /\ render' = IF due = 0 \/ InputWaits THEN "ending" ELSE "acquiring"
    /\ UNCHANGED <<sharedVars, ownerVars, workerVars, waitVars, issued, gameVars>>

\* One batch too many.
Mutant_Backpressure == Len(work) > MaxBatches

Backpressure == Len(work) >= MaxBatches

AcquireBatch ==
    /\ render = "acquiring" /\ ~Backpressure
    /\ work' = Append(work, pumped) /\ pumped' = <<>>
    /\ requested' = requested + 1 /\ due' = due - 1
    /\ worker' = Notified(worker)
    /\ render' = IF due = 1 THEN "ending" ELSE "acquiring"
    /\ UNCHANGED <<running, stop, error, windowOpen, windowWanted, ownerVars, item, waitVars,
                   pending, issued, protocolFrame, threaded, driven, switches>>

\* The queue is full, or the driver's next batch is not complete.
AcquireNone ==
    /\ render = "acquiring"
    /\ render' = "ending" /\ due' = 0
    /\ UNCHANGED <<sharedVars, ownerVars, workerVars, waitVars, inputVars, requested,
                   protocolFrame, threaded, driven, switches>>

\* Without a worker the frames run here; a driver may have fewer complete.
AdvanceInline(d) ==
    /\ render = "client" /\ ~threaded /\ ~error
    /\ requested + d <= MaxFrames
    /\ LET input == IF driven THEN pumped \o commands ELSE commands
       IN  /\ frames' = frames + d /\ requested' = requested + d
           /\ executed' = IF d = 0 THEN executed
                          ELSE executed \o [i \in 1 .. Len(input) |->
                                               [input |-> input[i], frame |-> frames + 1]]
           /\ commands' = IF driven \/ d > 0 THEN <<>> ELSE commands
           /\ pumped' = IF d > 0 THEN <<>> ELSE IF driven THEN input ELSE pumped
    /\ protocolFrame' = IF driven THEN frames' ELSE protocolFrame
    /\ render' = "draw"
    /\ UNCHANGED <<sharedVars, workerVars, waitVars, pending, issued, due, threaded, driven,
                   switches>>

\* endWindowForPresent at the end of advance, and endClientWindow before the
\* frame is drawn.
CloseWindow ==
    IF windowOpen
    THEN Stash /\ windowOpen' = FALSE /\ worker' = Notified(worker)
    ELSE UNCHANGED <<pending, commands, windowOpen, worker>>

EndAdvance ==
    /\ render = "ending" /\ render' = "draw"
    /\ CloseWindow
    /\ UNCHANGED <<work, running, stop, error, windowWanted, frames, executed, item, waitVars,
                   pumped, issued, gameVars>>

\* A game that is paused, or that failed, is not advanced.
NoAdvance ==
    /\ render = "client" /\ render' = "draw"
    /\ UNCHANGED <<sharedVars, ownerVars, workerVars, waitVars, inputVars, gameVars>>

\* A frame that is not drawn leaves the window open.
Draw ==
    /\ render = "draw" /\ render' = "begin"
    /\ CloseWindow \/ UNCHANGED <<pending, commands, windowOpen, worker>>
    /\ UNCHANGED <<work, running, stop, error, windowWanted, frames, executed, item, waitVars,
                   pumped, issued, gameVars>>

Leave == (\E d \in 0 .. MaxDue : Advance(d) \/ AdvanceInline(d)) \/ NoAdvance
Go ==
    BeginWindow \/ BeginInline \/ Used \/ WaitTest \/ StopWorker \/ JoinWorker \/ Push
    \/ DriverStash \/ Pump \/ AcquireBatch \/ AcquireNone \/ EndAdvance \/ Draw
Render == Go \/ Leave \/ UseLogic \/ WaitIdle("use") \/ WaitIdle("stop") \/ StartWorker

-----------------------------------------------------------------------------

Init ==
    /\ work = <<>> /\ running = FALSE /\ stop = FALSE /\ error = FALSE
    /\ windowOpen = FALSE /\ windowWanted = FALSE
    /\ commands = <<>> /\ frames = 0 /\ executed = <<>>
    /\ worker = "looking" /\ item = <<>>
    /\ render = "begin" /\ goal = "use" /\ lifted = FALSE
    /\ due = 0 /\ pending = <<>> /\ requested = 0 /\ protocolFrame = 0
    /\ threaded = TRUE /\ driven \in Driven /\ pumped = <<>> /\ issued = <<>> /\ switches = 0

Next == Worker \/ Render

Spec == Init /\ [][Next]_vars

\* Both threads run.  The client work of a render frame ends, and between two
\* client windows, while a frame is drawn, the worker gets at the mutex.
FairSpec ==
    /\ Spec
    /\ WF_vars(Worker) /\ WF_vars(Go)
    /\ SF_vars(Leave)
    /\ SF_vars(Worker /\ running' # running)

-----------------------------------------------------------------------------
\* Properties

Inputs == 1 .. MaxInputs

TypeOK ==
    /\ work \in Seq(Seq(Inputs))
    /\ driven => Len(work) <= MaxBatches
    /\ {running, stop, error, windowOpen, windowWanted, lifted, threaded, driven} \subseteq BOOLEAN
    /\ {commands, pending, pumped, item} \subseteq Seq(Inputs)
    /\ frames \in 0 .. requested /\ requested \in 0 .. MaxFrames
    /\ protocolFrame \in 0 .. frames /\ due \in 0 .. MaxDue
    /\ executed \in Seq([input : Inputs, frame : 1 .. frames])
    /\ worker \in {"looking", "asleep", "parked", "frame", "threw", "ran", "exited"}
    /\ render \in {"begin", "client", "using", "unlocked", "asleep", "woken", "stop", "joining",
                   "pushing", "stashing", "pumping", "acquiring", "ending", "draw"}
    /\ goal \in {"use", "stop"}
    /\ issued \in Seq(0 .. MaxFrames) /\ Len(issued) <= MaxInputs
    /\ switches \in 0 .. MaxSwitches

\* The worker does not run a frame while the render thread has a window or is
\* using the live logic it was told it holds (LiveGame.h: "the worker does not
\* start a frame while the window is open").
LogicExclusive == windowOpen \/ render = "using" => worker # "frame"

\* Input runs once, in the order it was issued, in the first frame requested
\* after it was, and whole: neither the wait that lifts a window, nor frames
\* queued before it, nor a switch of the worker move it.
InputInItsFrame ==
    /\ \A i \in 1 .. Len(executed) :
        /\ executed[i].input = i
        /\ executed[i].frame = issued[i] + 1
    /\ \A i \in 1 .. Len(issued) : issued[i] < frames /\ ~error => i <= Len(executed)

\* A wait of the render thread for the worker ends, whatever park, window or
\* failure it meets, and so does the join of a worker that is to stop.
RenderThreadReturns ==
    render \in {"unlocked", "asleep", "woken", "stop", "joining"} ~> render = "client" \/ render = "using"

\* The windows do not starve the worker: what was requested runs.
RequestedFramesRun == requested > frames ~> requested = frames \/ error


=============================================================================
