-------------------------- MODULE LogicWorker_proofs --------------------------
(***************************************************************************)
(* The live logic has one user at a time: the worker that runs a frame, or *)
(* the render thread in its window or behind its wait.  For any bounds,    *)
(* with and without a frame driver, whether or not a frame throws.         *)
(***************************************************************************)
EXTENDS LogicWorker, TLAPS

\* m_running tells where the worker is; a worker that was joined is gone; a
\* frame that threw is the last one.
WorkerState ==
    /\ {running, stop, error, windowOpen, windowWanted, lifted, threaded} \subseteq BOOLEAN
    /\ running <=> worker \in {"frame", "threw", "ran"}
    /\ ~threaded => worker = "exited"
    /\ error => worker \notin {"frame", "threw"}

\* The render thread was told it holds the logic, and the reason still stands.
Held == ~threaded \/ windowOpen \/ Idle \/ error

IInv ==
    /\ WorkerState
    /\ windowOpen => worker # "frame"
    /\ render = "using" => Held

-----------------------------------------------------------------------------

LEMMA InitHolds == Init => IInv
BY DEF Init, IInv, WorkerState

\* While the render thread uses the logic no frame is taken.
LEMMA NoTake == ASSUME IInv, MayTake, worker # "exited" PROVE render # "using"
BY DEF IInv, WorkerState, Held, MayTake, Idle

LEMMA WorkerKeeps == ASSUME IInv, Worker PROVE IInv'
<1> USE DEF IInv, WorkerState, Held, Idle
<1>1. CASE Look
  <2>1. CASE stop
    BY <1>1, <2>1 DEF Look, ownerVars, waitVars, inputVars, gameVars
  <2>2. CASE ~stop /\ windowWanted /\ ~windowOpen
    BY <1>1, <2>2 DEF Look, ownerVars, waitVars, inputVars, gameVars
  <2>3. CASE ~stop /\ ~(windowWanted /\ ~windowOpen)
    <3>1. CASE Take
      BY <1>1, <2>3, <3>1, NoTake DEF Look, Take, MayTake, ownerVars, waitVars, inputVars, gameVars
    <3>2. CASE Sleep
      BY <1>1, <2>3, <3>2 DEF Look, Sleep, ownerVars, waitVars, inputVars, gameVars
    <3> QED BY <1>1, <2>3, <3>1, <3>2 DEF Look
  <2> QED BY <2>1, <2>2, <2>3
<1>2. CASE ParkExpires
  <2>1. CASE stop
    BY <1>2, <2>1 DEF ParkExpires, ownerVars, waitVars, inputVars, gameVars
  <2>2. CASE ~stop /\ Take
    BY <1>2, <2>2, NoTake DEF ParkExpires, RunOn, Take, MayTake, ownerVars, waitVars, inputVars, gameVars
  <2>3. CASE ~stop /\ Sleep
    BY <1>2, <2>3 DEF ParkExpires, RunOn, Sleep, ownerVars, waitVars, inputVars, gameVars
  <2> QED BY <1>2, <2>1, <2>2, <2>3 DEF ParkExpires, RunOn
<1>3. CASE RunFrame
  BY <1>3 DEF RunFrame, sharedVars, waitVars, inputVars, gameVars
<1>4. CASE FrameThrows
  BY <1>4 DEF FrameThrows, sharedVars, ownerVars, waitVars, inputVars, gameVars
<1>5. CASE RecordError
  BY <1>5 DEF RecordError, ownerVars, waitVars, inputVars, gameVars
<1>6. CASE FrameDone
  BY <1>6 DEF FrameDone, Woken, ownerVars, waitVars, inputVars, gameVars
<1> QED BY <1>1, <1>2, <1>3, <1>4, <1>5, <1>6 DEF Worker

-----------------------------------------------------------------------------
\* What a notification leaves of where the worker is.
LEMMA NotifiedKeeps ==
    ASSUME IInv, worker' = Notified(worker) \/ worker' = worker, running' = running,
           threaded' = threaded, error' = error,
           {stop', windowOpen', windowWanted', lifted'} \subseteq BOOLEAN
    PROVE  WorkerState' /\ (worker' = "frame" <=> worker = "frame")
BY DEF IInv, WorkerState, Notified

\* The window opens over a worker that runs no frame and closes at any time.
LEMMA WindowKeeps == ASSUME IInv, BeginWindow \/ EndAdvance \/ Draw PROVE IInv'
<1>1. CASE BeginWindow
  <2>1. {stop', windowOpen', windowWanted', lifted'} \subseteq BOOLEAN
    BY <1>1 DEF BeginWindow, EndUnended, IInv, WorkerState, waitVars
  <2>2. WorkerState' /\ (worker' = "frame" <=> worker = "frame")
    BY <1>1, <2>1, NotifiedKeeps DEF BeginWindow, EndUnended, gameVars
  <2> QED BY <1>1, <2>2 DEF BeginWindow, EndUnended, IInv, WorkerState
<1>2. CASE EndAdvance \/ Draw
  <2>1. {stop', windowOpen', windowWanted', lifted'} \subseteq BOOLEAN
    BY <1>2 DEF EndAdvance, Draw, CloseWindow, IInv, WorkerState, waitVars
  <2>2. WorkerState' /\ (worker' = "frame" <=> worker = "frame")
    BY <1>2, <2>1, NotifiedKeeps DEF EndAdvance, Draw, CloseWindow, gameVars
  <2> QED BY <1>2, <2>2 DEF EndAdvance, Draw, CloseWindow, IInv
<1> QED BY <1>1, <1>2

\* A wait for the idle worker ends with the logic held, or with a failure.
LEMMA WaitKeeps ==
    ASSUME IInv, WaitTest \/ \E g \in {"use", "stop"} : WaitIdle(g) PROVE IInv'
<1>1. CASE WaitTest
  <2>1. WorkerState'
    BY <1>1 DEF WaitTest, IInv, WorkerState, workerVars, gameVars
  <2>2. worker' = worker /\ running' = running /\ work' = work /\ error' = error
    BY <1>1 DEF WaitTest, workerVars
  <2>3. windowOpen' => worker' # "frame"
    BY <1>1, <2>2 DEF WaitTest, WaitOver, Idle, IInv, WorkerState
  <2>4. render' = "using" => Held'
    BY <1>1, <2>2 DEF WaitTest, WaitOver, Idle, Held
  <2> QED BY <2>1, <2>3, <2>4 DEF IInv
<1>2. ASSUME NEW g \in {"use", "stop"}, WaitIdle(g) PROVE IInv'
  <2>1. {stop', windowOpen', windowWanted', lifted'} \subseteq BOOLEAN
    BY <1>2 DEF WaitIdle, IInv, WorkerState
  <2>2. worker' = Notified(worker) \/ worker' = worker
    BY <1>2 DEF WaitIdle, Lift
  <2>3. WorkerState' /\ (worker' = "frame" <=> worker = "frame")
    BY <1>2, <2>1, <2>2, NotifiedKeeps DEF WaitIdle
  <2>4. windowOpen' => windowOpen
    BY <1>2 DEF WaitIdle, IInv, WorkerState
  <2>5. render' = "using" => Held'
    BY <1>2 DEF WaitIdle, WaitOver, Idle, Held
  <2> QED BY <2>3, <2>4, <2>5 DEF IInv
<1> QED BY <1>1, <1>2

\* The worker is started and stopped only outside the use of the logic.
LEMMA SwitchKeeps == ASSUME IInv, StopWorker \/ JoinWorker \/ StartWorker PROVE IInv'
<1>1. CASE StopWorker
  <2>1. {stop', windowOpen', windowWanted', lifted'} \subseteq BOOLEAN
    BY <1>1 DEF StopWorker, IInv, WorkerState, waitVars
  <2>2. WorkerState'
    BY <1>1, <2>1, NotifiedKeeps DEF StopWorker, gameVars
  <2> QED BY <1>1, <2>2 DEF StopWorker, IInv, WorkerState
<1>2. CASE JoinWorker
  BY <1>2 DEF JoinWorker, IInv, WorkerState, sharedVars, workerVars, waitVars
<1>3. CASE StartWorker
  BY <1>3 DEF StartWorker, IInv, WorkerState, waitVars
<1> QED BY <1>1, <1>2, <1>3

\* The steps of a render frame that touch neither window nor worker, or notify it.
LEMMA FrameKeeps ==
    ASSUME IInv,
           BeginInline \/ UseLogic \/ Used \/ NoAdvance \/ Push \/ DriverStash \/ Pump
           \/ AcquireBatch \/ AcquireNone \/ \E d \in 0 .. MaxDue : Advance(d) \/ AdvanceInline(d)
    PROVE  IInv'
<1>1. CASE BeginInline \/ NoAdvance \/ Used
  BY <1>1 DEF BeginInline, NoAdvance, Used, IInv, WorkerState, sharedVars, workerVars, waitVars, gameVars
<1>2. CASE UseLogic
  BY <1>2 DEF UseLogic, LogicHeld, Held, Idle, IInv, WorkerState, sharedVars, workerVars, waitVars, gameVars
<1>3. CASE DriverStash \/ Pump \/ AcquireNone
  BY <1>3 DEF DriverStash, Pump, AcquireNone, IInv, WorkerState, sharedVars, workerVars, waitVars, gameVars
<1>4. CASE Push \/ AcquireBatch
  <2>1. WorkerState' /\ (worker' = "frame" <=> worker = "frame")
    BY <1>4, NotifiedKeeps DEF Push, AcquireBatch, IInv, WorkerState, waitVars
  <2> QED BY <1>4, <2>1 DEF Push, AcquireBatch, IInv
<1>5. ASSUME NEW d \in 0 .. MaxDue, Advance(d) PROVE IInv'
  <2>1. worker' = Notified(worker) \/ worker' = worker
    BY <1>5 DEF Advance
  <2>2. WorkerState' /\ (worker' = "frame" <=> worker = "frame")
    BY <1>5, <2>1, NotifiedKeeps DEF Advance, IInv, WorkerState, sharedVars, waitVars
  <2> QED BY <1>5, <2>2 DEF Advance, IInv, sharedVars
<1>6. ASSUME NEW d \in 0 .. MaxDue, AdvanceInline(d) PROVE IInv'
  BY <1>6 DEF AdvanceInline, IInv, WorkerState, sharedVars, workerVars, waitVars
<1> QED BY <1>1, <1>2, <1>3, <1>4, <1>5, <1>6

\* What holds of the two threads wherever they are.
THEOREM WorkerInductive == Spec => []IInv
<1>1. Init => IInv
  BY InitHolds
<1>2. IInv /\ [Next]_vars => IInv'
  <2> SUFFICES ASSUME IInv, [Next]_vars PROVE IInv'
    OBVIOUS
  <2>1. CASE Worker
    BY <2>1, WorkerKeeps
  <2>2. CASE Render
    BY <2>2, WindowKeeps, WaitKeeps, SwitchKeeps, FrameKeeps DEF Render, Go, Leave
  <2>3. CASE UNCHANGED vars
    BY <2>3 DEF vars, sharedVars, workerVars, waitVars, gameVars, IInv, WorkerState, Held, Idle
  <2> QED BY <2>1, <2>2, <2>3 DEF Next
<1> QED BY <1>1, <1>2, PTL DEF Spec

\* No frame runs while the render thread has a window or uses the live logic:
\* the one condition of the render thread's unlocked accesses (LiveGame.h).
THEOREM LogicIsExclusive == Spec => []LogicExclusive
<1>1. IInv => LogicExclusive
  BY DEF IInv, WorkerState, Held, Idle, LogicExclusive
<1> QED BY <1>1, WorkerInductive, PTL

-----------------------------------------------------------------------------
\* Types, and how many frames are where.

\* The frame the worker took and did not run.
Taken == IF worker = "frame" THEN 1 ELSE 0

\* The places of the render thread inside an advance with a worker, and inside
\* a wait for the idle worker.
Advancing == {"pushing", "stashing", "pumping", "acquiring"}
Waits == {"unlocked", "asleep", "woken", "stop"}

\* No more frames run and wait than were requested, and an advance has room for
\* what it still requests.
TypeInv ==
    /\ TypeOK
    /\ frames + Taken + Len(work) <= requested
    /\ render \in Advancing => requested + due <= MaxFrames
    /\ render \in {"pushing", "acquiring"} => due > 0
    /\ render = "pushing" => ~driven
    /\ render \in Advancing \ {"pushing"} => driven

LEMMA TypesAtInit == Init => TypeInv
<1> SUFFICES ASSUME Init PROVE TypeInv
  OBVIOUS
<1>1. driven \in BOOLEAN
  BY WorkerAssumption DEF Init
<1>2. \A S : <<>> \in Seq(S)
  OBVIOUS
<1>3. TypeOK
  <2>1. /\ work \in Seq(Seq(Inputs)) /\ {commands, pending, pumped, item} \subseteq Seq(Inputs)
        /\ executed \in Seq([input : Inputs, frame : 1 .. frames]) /\ issued \in Seq(0 .. MaxFrames)
    BY <1>2 DEF Init
  <2>2. {running, stop, error, windowOpen, windowWanted, lifted, threaded, driven} \subseteq BOOLEAN
    BY <1>1 DEF Init
  <2>3. Len(work) = 0 /\ Len(issued) = 0
    BY DEF Init
  <2>4. /\ frames \in 0 .. requested /\ requested \in 0 .. MaxFrames /\ protocolFrame \in 0 .. frames
        /\ due \in 0 .. MaxDue /\ switches \in 0 .. MaxSwitches
    BY WorkerAssumption DEF Init
  <2>5. worker = "looking" /\ render = "begin" /\ goal = "use"
    BY DEF Init
  <2> QED BY <2>1, <2>2, <2>3, <2>4, <2>5, WorkerAssumption DEF TypeOK
<1> QED BY <1>3, WorkerAssumption DEF Init, TypeInv, Taken, Advancing

LEMMA JoinedSeq ==
    ASSUME NEW S, NEW s \in Seq(S), NEW t \in Seq(S)
    PROVE  s \o t \in Seq(S) /\ Len(s \o t) = Len(s) + Len(t)
OBVIOUS

LEMMA JoinAt ==
    ASSUME NEW S, NEW s \in Seq(S), NEW T, NEW t \in Seq(T)
    PROVE  /\ Len(s \o t) = Len(s) + Len(t)
           /\ \A i \in 1 .. Len(s) : (s \o t)[i] = s[i]
           /\ \A i \in 1 .. Len(t) : (s \o t)[Len(s) + i] = t[i]
<1> Len(s) \in Nat /\ Len(t) \in Nat
  OBVIOUS
<1> QED OBVIOUS

LEMMA WiderSeq == ASSUME NEW S, NEW T, S \subseteq T, NEW s \in Seq(S) PROVE s \in Seq(T)
<1>1. \A i \in 1 .. Len(s) : s[i] \in T
  OBVIOUS
<1>2. Len(s) \in Nat /\ s = [i \in 1 .. Len(s) |-> s[i]]
  OBVIOUS
<1> QED BY <1>1, <1>2

\* A list of frames is one whatever later frames there are.
LEMMA LaterFrames ==
    ASSUME NEW m \in Nat, NEW n \in Nat, m <= n, NEW s \in Seq([input : Inputs, frame : 1 .. m])
    PROVE  s \in Seq([input : Inputs, frame : 1 .. n])
<1>1. [input : Inputs, frame : 1 .. m] \subseteq [input : Inputs, frame : 1 .. n]
  OBVIOUS
<1> QED BY <1>1, WiderSeq

\* The executed input of one more frame.
LEMMA RunsInput ==
    ASSUME NEW m \in Nat, NEW s \in Seq([input : Inputs, frame : 1 .. m]), NEW n \in Nat, m < n,
           NEW input \in Seq(Inputs)
    PROVE  s \o [i \in 1 .. Len(input) |-> [input |-> input[i], frame |-> m + 1]]
               \in Seq([input : Inputs, frame : 1 .. n])
<1> DEFINE F == [input : Inputs, frame : 1 .. n]
           t == [i \in 1 .. Len(input) |-> [input |-> input[i], frame |-> m + 1]]
<1>1. s \in Seq(F)
  BY LaterFrames, m \in Nat, n \in Nat, m <= n
<1>2. t \in Seq(F)
  <2>1. \A i \in 1 .. Len(input) : [input |-> input[i], frame |-> m + 1] \in F
    OBVIOUS
  <2>2. Len(input) \in Nat
    OBVIOUS
  <2> HIDE DEF F
  <2> QED BY <2>1, <2>2
<1> HIDE DEF F, t
<1>3. s \o t \in Seq(F)
  BY <1>1, <1>2
<1> QED BY <1>3 DEF F, t

\* What a notification, a stash and a lift keep of the types.
LEMMA NotifiedType ==
    ASSUME TypeInv, worker' = Notified(worker) \/ worker' = worker
    PROVE  /\ worker' \in {"looking", "asleep", "parked", "frame", "threw", "ran", "exited"}
           /\ Taken' = Taken
BY DEF TypeInv, TypeOK, Notified, Taken

LEMMA StashType ==
    ASSUME TypeInv, Stash \/ UNCHANGED <<pending, commands>>
    PROVE  pending' \in Seq(Inputs) /\ commands' \in Seq(Inputs)
<1>1. pending \in Seq(Inputs) /\ commands \in Seq(Inputs)
  BY DEF TypeInv, TypeOK
<1>2. pending \o commands \in Seq(Inputs) /\ <<>> \in Seq(Inputs)
  BY <1>1
<1> QED BY <1>1, <1>2 DEF Stash

LEMMA TypesOfWorker == ASSUME TypeInv, Worker PROVE TypeInv'
<1> USE DEF TypeInv, Taken, Advancing
<1>1. CASE (Look \/ ParkExpires) /\ Take
  <2>1. work \in Seq(Seq(Inputs)) /\ work # <<>>
    BY <1>1 DEF Take, MayTake, TypeOK
  <2>2. item' \in Seq(Inputs) /\ work' \in Seq(Seq(Inputs)) /\ Len(work') = Len(work) - 1
    BY <1>1, <2>1 DEF Take
  <2>3. worker \in {"looking", "parked"} /\ worker' = "frame"
    BY <1>1 DEF Look, ParkExpires, Take
  <2>4. UNCHANGED <<render, ownerVars, waitVars, inputVars, gameVars, stop, error, windowOpen>>
    BY <1>1 DEF Look, ParkExpires
  <2>5. running' \in BOOLEAN /\ windowWanted' \in BOOLEAN
    BY <1>1 DEF Look, ParkExpires, RunOn, Take, TypeOK
  <2>6. TypeOK'
    BY <2>1, <2>2, <2>3, <2>4, <2>5, WorkerAssumption DEF TypeOK, ownerVars, waitVars, inputVars, gameVars
  <2>7. Len(work) \in Nat /\ frames \in Nat /\ requested \in Nat
    BY <2>1 DEF TypeOK
  <2> QED BY <2>2, <2>3, <2>4, <2>6, <2>7 DEF ownerVars, gameVars
<1>2. CASE (Look \/ ParkExpires) /\ ~Take
  <2>1. UNCHANGED <<item, work, running, render, ownerVars, waitVars, inputVars, gameVars, stop,
                    error, windowOpen>>
    BY <1>2 DEF Look, ParkExpires, RunOn, Sleep
  <2>2. worker \in {"looking", "parked"} /\ worker' \in {"looking", "parked", "asleep", "exited"}
    BY <1>2 DEF Look, ParkExpires, RunOn, Sleep
  <2>3. windowWanted' \in BOOLEAN
    BY <1>2 DEF Look, ParkExpires, RunOn, TypeOK
  <2>4. TypeOK'
    BY <2>1, <2>2, <2>3 DEF TypeOK, ownerVars, waitVars, inputVars, gameVars
  <2> QED BY <2>1, <2>2, <2>4 DEF ownerVars, gameVars
<1>3. CASE RunFrame
  <2>1. frames + 1 <= requested /\ frames' = frames + 1 /\ frames \in Nat /\ requested \in Nat
    BY <1>3 DEF RunFrame, Executes, TypeOK
  <2>2. PICK input \in Seq(Inputs) :
          executed' = executed \o [i \in 1 .. Len(input) |-> [input |-> input[i], frame |-> frames + 1]]
    <3>1. item \in Seq(Inputs) /\ commands \in Seq(Inputs)
      BY DEF TypeOK
    <3>2. (IF driven THEN item ELSE commands \o item) \in Seq(Inputs)
      BY <3>1
    <3> QED BY <1>3, <3>2 DEF RunFrame, Executes
  <2>3. executed' \in Seq([input : Inputs, frame : 1 .. frames'])
    <3>1. frames' \in Nat /\ frames < frames' /\ executed \in Seq([input : Inputs, frame : 1 .. frames])
      BY <2>1 DEF TypeOK
    <3> QED BY <2>1, <2>2, <3>1, RunsInput
  <2>4. commands' \in Seq(Inputs) /\ item' \in Seq(Inputs)
    BY <1>3 DEF RunFrame
  <2>5. TypeOK'
    BY <1>3, <2>1, <2>3, <2>4 DEF RunFrame, TypeOK, sharedVars, waitVars, inputVars, gameVars
  <2> QED BY <1>3, <2>1, <2>5 DEF RunFrame, TypeOK, sharedVars, waitVars, inputVars, gameVars
<1>4. CASE FrameThrows
  <2>1. item' \in Seq(Inputs)
    BY <1>4 DEF FrameThrows
  <2>2. TypeOK'
    BY <1>4, <2>1 DEF FrameThrows, TypeOK, sharedVars, ownerVars, waitVars, inputVars, gameVars
  <2> QED BY <1>4, <2>2 DEF FrameThrows, TypeOK, sharedVars, ownerVars, waitVars, inputVars, gameVars
<1>5. CASE RecordError
  <2>1. TypeOK'
    BY <1>5 DEF RecordError, TypeOK, ownerVars, waitVars, inputVars, gameVars
  <2> QED BY <1>5, <2>1 DEF RecordError, ownerVars, waitVars, inputVars, gameVars
<1>6. CASE FrameDone
  <2>1. TypeOK'
    BY <1>6 DEF FrameDone, Woken, TypeOK, ownerVars, waitVars, inputVars, gameVars
  <2> QED BY <1>6, <2>1 DEF FrameDone, Woken, ownerVars, waitVars, inputVars, gameVars
<1> QED BY <1>1, <1>2, <1>3, <1>4, <1>5, <1>6 DEF Worker

\* The steps at the beginning and the end of a render frame, the use of the
\* logic and the switch of the worker.
LEMMA TypesOfWindow ==
    ASSUME TypeInv,
           BeginWindow \/ BeginInline \/ UseLogic \/ Used \/ EndAdvance \/ NoAdvance \/ Draw
    PROVE  TypeInv'
<1>1. CASE BeginWindow \/ EndAdvance \/ Draw
  <2>1. worker' = Notified(worker) \/ worker' = worker
    BY <1>1 DEF BeginWindow, EndUnended, EndAdvance, Draw, CloseWindow
  <2>2. Stash \/ UNCHANGED <<pending, commands>>
    BY <1>1 DEF BeginWindow, EndUnended, EndAdvance, Draw, CloseWindow
  <2>3. /\ worker' \in {"looking", "asleep", "parked", "frame", "threw", "ran", "exited"}
        /\ Taken' = Taken /\ pending' \in Seq(Inputs) /\ commands' \in Seq(Inputs)
    BY <2>1, <2>2, NotifiedType, StashType
  <2>4. /\ windowOpen' \in BOOLEAN /\ windowWanted' \in BOOLEAN
        /\ render' \in {"client", "draw", "begin"}
        /\ UNCHANGED <<work, running, stop, error, frames, executed, item, waitVars, pumped, issued,
                       gameVars>>
    BY <1>1 DEF BeginWindow, EndUnended, EndAdvance, Draw, CloseWindow, TypeInv, TypeOK
  <2>5. TypeOK'
    BY <2>3, <2>4 DEF TypeInv, TypeOK, waitVars, gameVars
  <2> QED BY <2>3, <2>4, <2>5 DEF TypeInv, Advancing, gameVars
<1>2. CASE BeginInline \/ UseLogic \/ NoAdvance
  <2>1. /\ render' \in {"client", "using", "draw"}
        /\ UNCHANGED <<sharedVars, ownerVars, workerVars, waitVars, inputVars, gameVars>>
    BY <1>2 DEF BeginInline, UseLogic, NoAdvance
  <2>2. TypeOK'
    BY <2>1 DEF TypeInv, TypeOK, sharedVars, ownerVars, workerVars, waitVars, inputVars, gameVars
  <2> QED BY <2>1, <2>2 DEF TypeInv, Taken, Advancing, sharedVars, ownerVars, workerVars, gameVars
<1>3. CASE Used
  <2>1. commands' \in Seq(Inputs) /\ issued' \in Seq(0 .. MaxFrames) /\ Len(issued') <= MaxInputs
    <3>1. /\ commands \in Seq(Inputs) /\ issued \in Seq(0 .. MaxFrames) /\ Len(issued) <= MaxInputs
          /\ requested \in 0 .. MaxFrames
      BY DEF TypeInv, TypeOK
    <3>2. CASE UNCHANGED <<commands, issued>>
      BY <3>1, <3>2
    <3>3. CASE /\ Len(issued) < MaxInputs
               /\ commands' = Append(commands, Len(issued) + 1)
               /\ issued' = Append(issued, requested)
      <4>1. Len(issued) + 1 \in Inputs
        BY <3>1, <3>3, WorkerAssumption DEF Inputs
      <4>2. commands' \in Seq(Inputs)
        BY <3>1, <3>3, <4>1
      <4> QED BY <3>1, <3>3, <4>2, WorkerAssumption
    <3> QED BY <1>3, <3>2, <3>3 DEF Used
  <2>2. /\ render' = "client"
        /\ UNCHANGED <<sharedVars, frames, executed, workerVars, waitVars, pending, pumped, gameVars>>
    BY <1>3 DEF Used
  <2>3. TypeOK'
    BY <2>1, <2>2 DEF TypeInv, TypeOK, sharedVars, workerVars, waitVars, gameVars
  <2> QED BY <2>2, <2>3 DEF TypeInv, Taken, Advancing, sharedVars, workerVars, gameVars
<1> QED BY <1>1, <1>2, <1>3

LEMMA TypesOfWaits ==
    ASSUME TypeInv,
           WaitTest \/ (\E g \in {"use", "stop"} : WaitIdle(g)) \/ StopWorker \/ JoinWorker
           \/ StartWorker
    PROVE  TypeInv'
<1>1. CASE WaitTest
  <2>1. /\ render' \in {"stop", "using", "client", "asleep"}
        /\ windowOpen' \in BOOLEAN /\ lifted' \in BOOLEAN
        /\ UNCHANGED <<work, running, stop, error, windowWanted, ownerVars, workerVars, goal,
                       inputVars, gameVars>>
    BY <1>1 DEF WaitTest, Returns, TypeInv, TypeOK
  <2>2. TypeOK'
    BY <2>1 DEF TypeInv, TypeOK, ownerVars, workerVars, inputVars, gameVars
  <2> QED BY <2>1, <2>2 DEF TypeInv, Taken, Advancing, ownerVars, workerVars, gameVars
<1>2. ASSUME NEW g \in {"use", "stop"}, WaitIdle(g) PROVE TypeInv'
  <2>1. worker' = Notified(worker) \/ worker' = worker
    BY <1>2 DEF WaitIdle, Lift
  <2>2. Stash \/ UNCHANGED <<pending, commands>>
    BY <1>2 DEF WaitIdle, Lift
  <2>3. /\ worker' \in {"looking", "asleep", "parked", "frame", "threw", "ran", "exited"}
        /\ Taken' = Taken /\ pending' \in Seq(Inputs) /\ commands' \in Seq(Inputs)
    BY <2>1, <2>2, NotifiedType, StashType
  <2>4. switches' \in 0 .. MaxSwitches
    BY <1>2, WorkerAssumption DEF WaitIdle, TypeInv, TypeOK
  <2>5. render' \in {"stop", "using", "client", "unlocked"} /\ goal' \in {"use", "stop"}
    BY <1>2 DEF WaitIdle, Returns
  <2>6. /\ windowOpen' \in BOOLEAN /\ lifted' \in BOOLEAN
        /\ UNCHANGED <<work, running, stop, error, windowWanted, frames, executed, item, pumped,
                       issued, due, requested, protocolFrame, threaded, driven>>
    BY <1>2 DEF WaitIdle, TypeInv, TypeOK
  <2>7. TypeOK'
    BY <2>3, <2>4, <2>5, <2>6 DEF TypeInv, TypeOK
  <2> QED BY <2>3, <2>5, <2>6, <2>7 DEF TypeInv, Advancing
<1>3. CASE StopWorker
  <2>1. /\ worker' \in {"looking", "asleep", "parked", "frame", "threw", "ran", "exited"}
        /\ Taken' = Taken
    BY <1>3, NotifiedType DEF StopWorker
  <2>2. TypeOK'
    BY <1>3, <2>1 DEF StopWorker, TypeInv, TypeOK, ownerVars, waitVars, inputVars, gameVars
  <2> QED BY <1>3, <2>1, <2>2 DEF StopWorker, TypeInv, Advancing, ownerVars, gameVars
<1>4. CASE JoinWorker
  <2>1. commands' \in Seq(Inputs) /\ pending' \in Seq(Inputs)
    BY <1>4 DEF JoinWorker, TypeInv, TypeOK
  <2>2. TypeOK'
    BY <1>4, <2>1 DEF JoinWorker, TypeInv, TypeOK, sharedVars, workerVars, waitVars
  <2> QED BY <1>4, <2>2 DEF JoinWorker, TypeInv, Taken, Advancing, sharedVars, workerVars
<1>5. CASE StartWorker
  <2>1. work' \in Seq(Seq(Inputs)) /\ Len(work') = 0
    BY <1>5 DEF StartWorker
  <2>2. {running', stop', error', windowOpen', windowWanted', lifted', threaded', driven'} \subseteq BOOLEAN
    BY <1>5 DEF StartWorker, TypeInv, TypeOK, waitVars
  <2>3. TypeOK'
    BY <1>5, <2>1, <2>2, WorkerAssumption
       DEF StartWorker, TypeInv, TypeOK, ownerVars, waitVars, inputVars
  <2> QED BY <1>5, <2>1, <2>3 DEF StartWorker, TypeInv, TypeOK, Taken, Advancing, ownerVars
<1> QED BY <1>1, <1>2, <1>3, <1>4, <1>5

LEMMA TypesOfAdvance ==
    ASSUME TypeInv,
           (\E d \in 0 .. MaxDue : Advance(d) \/ AdvanceInline(d)) \/ Push \/ DriverStash \/ Pump
           \/ AcquireBatch \/ AcquireNone
    PROVE  TypeInv'
<1>1. ASSUME NEW d \in 0 .. MaxDue, Advance(d) PROVE TypeInv'
  <2>1. worker' = Notified(worker) \/ worker' = worker
    BY <1>1 DEF Advance
  <2>2. Stash \/ UNCHANGED <<pending, commands>>
    BY <1>1 DEF Advance, StashHeld
  <2>3. /\ worker' \in {"looking", "asleep", "parked", "frame", "threw", "ran", "exited"}
        /\ Taken' = Taken /\ pending' \in Seq(Inputs) /\ commands' \in Seq(Inputs)
    BY <2>1, <2>2, NotifiedType, StashType
  <2>4. /\ protocolFrame' \in 0 .. frames /\ due' = d /\ requested + d <= MaxFrames
        /\ render' = IF driven THEN "stashing" ELSE IF d > 0 THEN "pushing" ELSE "ending"
        /\ UNCHANGED <<sharedVars, frames, executed, item, waitVars, pumped, issued, requested,
                       threaded, driven, switches>>
    BY <1>1 DEF Advance, TypeInv, TypeOK
  <2>5. TypeOK'
    <3>1. /\ work' \in Seq(Seq(Inputs)) /\ {commands', pending', pumped', item'} \subseteq Seq(Inputs)
          /\ executed' \in Seq([input : Inputs, frame : 1 .. frames'])
          /\ issued' \in Seq(0 .. MaxFrames) /\ Len(issued') <= MaxInputs
      BY <2>3, <2>4 DEF TypeInv, TypeOK, sharedVars, waitVars
    <3>2. /\ {running', stop', error', windowOpen', windowWanted', lifted', threaded', driven'} \subseteq BOOLEAN
          /\ worker' \in {"looking", "asleep", "parked", "frame", "threw", "ran", "exited"}
          /\ render' \in {"begin", "client", "using", "unlocked", "asleep", "woken", "stop", "joining",
                          "pushing", "stashing", "pumping", "acquiring", "ending", "draw"}
          /\ goal' \in {"use", "stop"}
      BY <2>3, <2>4 DEF TypeInv, TypeOK, sharedVars, waitVars
    <3>3. /\ frames' \in 0 .. requested' /\ requested' \in 0 .. MaxFrames
          /\ protocolFrame' \in 0 .. frames' /\ due' \in 0 .. MaxDue /\ switches' \in 0 .. MaxSwitches
          /\ driven' => Len(work') <= MaxBatches
      BY <2>3, <2>4, WorkerAssumption DEF TypeInv, TypeOK, sharedVars, waitVars
    <3> QED BY <3>1, <3>2, <3>3 DEF TypeOK
  <2> QED BY <2>3, <2>4, <2>5, WorkerAssumption DEF TypeInv, Advancing, sharedVars
<1>2. ASSUME NEW d \in 0 .. MaxDue, AdvanceInline(d) PROVE TypeInv'
  <2>1. /\ frames \in Nat /\ requested \in Nat /\ frames <= requested
        /\ requested + d <= MaxFrames /\ d \in Nat
        /\ commands \in Seq(Inputs) /\ pumped \in Seq(Inputs)
        /\ executed \in Seq([input : Inputs, frame : 1 .. frames])
    BY <1>2, WorkerAssumption DEF AdvanceInline, TypeInv, TypeOK
  <2>2. /\ frames' = frames + d /\ requested' = requested + d
        /\ UNCHANGED <<sharedVars, workerVars, waitVars, pending, issued, due, threaded, driven,
                       switches>>
        /\ render' = "draw" /\ protocolFrame' \in {frames', protocolFrame}
    BY <1>2 DEF AdvanceInline
  <2>3. commands' \in Seq(Inputs) /\ pumped' \in Seq(Inputs)
    <3>1. pumped \o commands \in Seq(Inputs) /\ <<>> \in Seq(Inputs)
      BY <2>1
    <3> QED BY <1>2, <2>1, <3>1 DEF AdvanceInline
  <2>4. executed' \in Seq([input : Inputs, frame : 1 .. frames'])
    <3>1. CASE d = 0
      BY <1>2, <2>1, <3>1 DEF AdvanceInline
    <3>2. CASE d > 0
      <4>1. PICK input \in Seq(Inputs) :
              executed' = executed \o [i \in 1 .. Len(input) |->
                                           [input |-> input[i], frame |-> frames + 1]]
        <5>1. pumped \o commands \in Seq(Inputs)
          BY <2>1
        <5>2. (IF driven THEN pumped \o commands ELSE commands) \in Seq(Inputs)
          BY <2>1, <5>1
        <5>3. executed' =
                LET input == IF driven THEN pumped \o commands ELSE commands
                IN  executed \o [i \in 1 .. Len(input) |-> [input |-> input[i], frame |-> frames + 1]]
          <6>1. d # 0
            BY <3>2
          <6> QED BY <1>2, <6>1 DEF AdvanceInline
        <5> QED BY <5>2, <5>3
      <4>2. frames' \in Nat /\ frames < frames'
        BY <2>1, <2>2, <3>2
      <4> QED BY <2>1, <4>1, <4>2, RunsInput
    <3> QED BY <2>1, <3>1, <3>2
  <2>5. TypeOK'
    <3>1. /\ work' \in Seq(Seq(Inputs)) /\ {commands', pending', pumped', item'} \subseteq Seq(Inputs)
          /\ executed' \in Seq([input : Inputs, frame : 1 .. frames'])
          /\ issued' \in Seq(0 .. MaxFrames) /\ Len(issued') <= MaxInputs
      BY <2>1, <2>2, <2>3, <2>4 DEF TypeInv, TypeOK, sharedVars, workerVars, waitVars
    <3>2. /\ {running', stop', error', windowOpen', windowWanted', lifted', threaded', driven'} \subseteq BOOLEAN
          /\ worker' \in {"looking", "asleep", "parked", "frame", "threw", "ran", "exited"}
          /\ render' \in {"begin", "client", "using", "unlocked", "asleep", "woken", "stop", "joining",
                          "pushing", "stashing", "pumping", "acquiring", "ending", "draw"}
          /\ goal' \in {"use", "stop"}
      BY <2>1, <2>2, <2>3, <2>4 DEF TypeInv, TypeOK, sharedVars, workerVars, waitVars
    <3>3. /\ frames' \in 0 .. requested' /\ requested' \in 0 .. MaxFrames
          /\ protocolFrame' \in 0 .. frames' /\ due' \in 0 .. MaxDue /\ switches' \in 0 .. MaxSwitches
          /\ driven' => Len(work') <= MaxBatches
      <4>1. switches' = switches /\ due' = due /\ work' = work /\ driven' = driven
        BY <2>2 DEF sharedVars
      <4>2. /\ protocolFrame \in 0 .. frames /\ switches \in 0 .. MaxSwitches /\ due \in 0 .. MaxDue
            /\ driven => Len(work) <= MaxBatches
        BY DEF TypeInv, TypeOK
      <4>3. frames' \in 0 .. requested' /\ requested' \in 0 .. MaxFrames /\ protocolFrame' \in 0 .. frames'
        BY <2>1, <2>2, <4>2, WorkerAssumption
      <4> QED BY <4>1, <4>2, <4>3
    <3> QED BY <3>1, <3>2, <3>3 DEF TypeOK
  <2>6. frames' + Taken' + Len(work') <= requested'
    <3>1. work' = work /\ Taken' = Taken
      BY <2>2 DEF Taken, sharedVars, workerVars
    <3>2. frames + Taken + Len(work) <= requested /\ Taken \in Nat /\ Len(work) \in Nat
      BY DEF TypeInv, TypeOK, Taken
    <3> QED BY <2>1, <2>2, <3>1, <3>2
  <2> QED BY <2>2, <2>5, <2>6 DEF TypeInv, Advancing
<1>3. CASE Push
  <2> DEFINE rest == [i \in 1 .. due - 1 |-> <<>>]
  <2>1. /\ work \in Seq(Seq(Inputs)) /\ pending \in Seq(Inputs) /\ due \in Nat /\ due > 0 /\ ~driven
        /\ requested + due <= MaxFrames /\ requested \in Nat /\ frames \in Nat
    BY <1>3, WorkerAssumption DEF Push, TypeInv, TypeOK, Advancing
  <2>2. rest \in Seq(Seq(Inputs)) /\ Len(rest) = due - 1
    BY <2>1
  <2>3. work' \in Seq(Seq(Inputs)) /\ Len(work') = Len(work) + due
    <3>1. work \o <<pending>> \in Seq(Seq(Inputs)) /\ Len(work \o <<pending>>) = Len(work) + 1
      BY <2>1
    <3> DEFINE first == work \o <<pending>>
    <3> HIDE DEF rest, first
    <3>2. work' = first \o rest
      BY <1>3 DEF Push, rest, first
    <3>3. first \in Seq(Seq(Inputs)) /\ Len(first) = Len(work) + 1 /\ Len(work) \in Nat
      BY <2>1, <3>1 DEF first
    <3>4. first \o rest \in Seq(Seq(Inputs)) /\ Len(first \o rest) = Len(first) + Len(rest)
      BY <2>2, <3>3, JoinedSeq
    <3> QED BY <2>1, <2>2, <3>2, <3>3, <3>4
  <2>4. /\ worker' \in {"looking", "asleep", "parked", "frame", "threw", "ran", "exited"}
        /\ Taken' = Taken
    BY <1>3, NotifiedType DEF Push
  <2>5. /\ pending' = <<>> /\ requested' = requested + due /\ due' = 0 /\ render' = "ending"
        /\ UNCHANGED <<running, stop, error, windowOpen, windowWanted, ownerVars, item, waitVars,
                       pumped, issued, protocolFrame, threaded, driven, switches>>
    BY <1>3 DEF Push
  <2>6. TypeOK'
    <3>1. /\ work' \in Seq(Seq(Inputs)) /\ {commands', pending', pumped', item'} \subseteq Seq(Inputs)
          /\ executed' \in Seq([input : Inputs, frame : 1 .. frames'])
          /\ issued' \in Seq(0 .. MaxFrames) /\ Len(issued') <= MaxInputs
      BY <2>1, <2>3, <2>4, <2>5 DEF TypeInv, TypeOK, ownerVars, waitVars
    <3>2. /\ {running', stop', error', windowOpen', windowWanted', lifted', threaded', driven'} \subseteq BOOLEAN
          /\ worker' \in {"looking", "asleep", "parked", "frame", "threw", "ran", "exited"}
          /\ render' \in {"begin", "client", "using", "unlocked", "asleep", "woken", "stop", "joining",
                          "pushing", "stashing", "pumping", "acquiring", "ending", "draw"}
          /\ goal' \in {"use", "stop"}
      BY <2>1, <2>3, <2>4, <2>5 DEF TypeInv, TypeOK, ownerVars, waitVars
    <3>3. /\ frames' \in 0 .. requested' /\ requested' \in 0 .. MaxFrames
          /\ protocolFrame' \in 0 .. frames' /\ due' \in 0 .. MaxDue /\ switches' \in 0 .. MaxSwitches
          /\ driven' => Len(work') <= MaxBatches
      <4>1. /\ frames' = frames /\ protocolFrame' = protocolFrame /\ switches' = switches
            /\ requested' = requested + due /\ due' = 0 /\ ~driven'
        BY <2>1, <2>5 DEF ownerVars
      <4>2. frames \in 0 .. requested /\ protocolFrame \in 0 .. frames /\ switches \in 0 .. MaxSwitches
        BY DEF TypeInv, TypeOK
      <4>3. requested' \in 0 .. MaxFrames /\ due' \in 0 .. MaxDue
        BY <2>1, <4>1, WorkerAssumption
      <4> QED BY <2>1, <4>1, <4>2, <4>3
    <3> QED BY <3>1, <3>2, <3>3 DEF TypeOK
  <2>7. frames' + Taken' + Len(work') <= requested'
    BY <2>1, <2>3, <2>4, <2>5 DEF TypeInv, TypeOK, Taken, ownerVars
  <2> QED BY <2>5, <2>6, <2>7 DEF TypeInv, Advancing
<1>4. CASE DriverStash
  <2>1. pending' \in Seq(Inputs) /\ commands' \in Seq(Inputs)
    BY <1>4, StashType DEF DriverStash, StashHeld
  <2>2. TypeOK'
    BY <1>4, <2>1 DEF DriverStash, TypeInv, TypeOK, sharedVars, workerVars, waitVars, gameVars
  <2> QED BY <1>4, <2>2 DEF DriverStash, TypeInv, Taken, Advancing, sharedVars, workerVars, gameVars
<1>5. CASE Pump
  <2>1. pending' \in Seq(Inputs) /\ pumped' \in Seq(Inputs)
    <3>1. /\ pending \in Seq(Inputs) /\ pumped \in Seq(Inputs) /\ pumped \o pending \in Seq(Inputs)
          /\ <<>> \in Seq(Inputs)
      BY DEF TypeInv, TypeOK
    <3> QED BY <1>5, <3>1 DEF Pump
  <2>2. TypeOK'
    BY <1>5, <2>1 DEF Pump, TypeInv, TypeOK, sharedVars, ownerVars, workerVars, waitVars, gameVars
  <2>3. render' = "acquiring" => due' > 0
    BY <1>5 DEF Pump, TypeInv, TypeOK, gameVars
  <2> QED BY <1>5, <2>2, <2>3
          DEF Pump, TypeInv, Taken, Advancing, sharedVars, ownerVars, workerVars, gameVars
<1>6. CASE AcquireBatch
  <2>1. /\ work \in Seq(Seq(Inputs)) /\ pumped \in Seq(Inputs) /\ due \in Nat /\ due > 0 /\ driven
        /\ requested + due <= MaxFrames /\ requested \in Nat /\ frames \in Nat /\ due <= MaxDue
    BY <1>6, WorkerAssumption DEF AcquireBatch, TypeInv, TypeOK, Advancing
  <2>2. work' \in Seq(Seq(Inputs)) /\ Len(work') = Len(work) + 1 /\ Len(work') <= MaxBatches
    BY <1>6, <2>1, WorkerAssumption DEF AcquireBatch, Backpressure
  <2>3. /\ worker' \in {"looking", "asleep", "parked", "frame", "threw", "ran", "exited"}
        /\ Taken' = Taken
    BY <1>6, NotifiedType DEF AcquireBatch
  <2>4. /\ pumped' = <<>> /\ requested' = requested + 1 /\ due' = due - 1
        /\ render' = (IF due = 1 THEN "ending" ELSE "acquiring")
        /\ UNCHANGED <<running, stop, error, windowOpen, windowWanted, ownerVars, item, waitVars,
                       pending, issued, protocolFrame, threaded, driven, switches>>
    BY <1>6 DEF AcquireBatch
  <2>5. TypeOK'
    <3>1. /\ work' \in Seq(Seq(Inputs)) /\ {commands', pending', pumped', item'} \subseteq Seq(Inputs)
          /\ executed' \in Seq([input : Inputs, frame : 1 .. frames'])
          /\ issued' \in Seq(0 .. MaxFrames) /\ Len(issued') <= MaxInputs
      BY <2>1, <2>2, <2>3, <2>4 DEF TypeInv, TypeOK, ownerVars, waitVars
    <3>2. /\ {running', stop', error', windowOpen', windowWanted', lifted', threaded', driven'} \subseteq BOOLEAN
          /\ worker' \in {"looking", "asleep", "parked", "frame", "threw", "ran", "exited"}
          /\ render' \in {"begin", "client", "using", "unlocked", "asleep", "woken", "stop", "joining",
                          "pushing", "stashing", "pumping", "acquiring", "ending", "draw"}
          /\ goal' \in {"use", "stop"}
      BY <2>1, <2>2, <2>3, <2>4 DEF TypeInv, TypeOK, ownerVars, waitVars
    <3>3. /\ frames' \in 0 .. requested' /\ requested' \in 0 .. MaxFrames
          /\ protocolFrame' \in 0 .. frames' /\ due' \in 0 .. MaxDue /\ switches' \in 0 .. MaxSwitches
          /\ driven' => Len(work') <= MaxBatches
      <4>1. /\ frames' = frames /\ protocolFrame' = protocolFrame /\ switches' = switches
            /\ requested' = requested + 1 /\ due' = due - 1
        BY <2>4 DEF ownerVars
      <4>2. frames \in 0 .. requested /\ protocolFrame \in 0 .. frames /\ switches \in 0 .. MaxSwitches
        BY DEF TypeInv, TypeOK
      <4>3. requested' \in 0 .. MaxFrames /\ due' \in 0 .. MaxDue
        BY <2>1, <4>1, WorkerAssumption
      <4> QED BY <2>1, <2>2, <4>1, <4>2, <4>3
    <3> QED BY <3>1, <3>2, <3>3 DEF TypeOK
  <2>6. frames' + Taken' + Len(work') <= requested'
    BY <2>1, <2>2, <2>3, <2>4 DEF TypeInv, TypeOK, Taken, ownerVars
  <2> QED BY <2>1, <2>4, <2>5, <2>6 DEF TypeInv, Advancing
<1>7. CASE AcquireNone
  <2>1. TypeOK'
    BY <1>7, WorkerAssumption
       DEF AcquireNone, TypeInv, TypeOK, sharedVars, ownerVars, workerVars, waitVars, inputVars
  <2> QED BY <1>7, <2>1
          DEF AcquireNone, TypeInv, Taken, Advancing, sharedVars, ownerVars, workerVars
<1> QED BY <1>1, <1>2, <1>3, <1>4, <1>5, <1>6, <1>7

LEMMA TypesInductive == Spec => []TypeInv
<1>1. Init => TypeInv
  BY TypesAtInit
<1>2. TypeInv /\ [Next]_vars => TypeInv'
  <2> SUFFICES ASSUME TypeInv, [Next]_vars PROVE TypeInv'
    OBVIOUS
  <2>1. CASE Worker
    BY <2>1, TypesOfWorker
  <2>2. CASE Render
    BY <2>2, TypesOfWindow, TypesOfWaits, TypesOfAdvance DEF Render, Go, Leave
  <2>3. CASE UNCHANGED vars
    BY <2>3 DEF vars, sharedVars, ownerVars, workerVars, waitVars, inputVars, gameVars, TypeInv,
                TypeOK, Taken, Advancing
  <2> QED BY <2>1, <2>2, <2>3 DEF Next
<1> QED BY <1>1, <1>2, PTL DEF Spec

\* Every variable has its type, no frame runs that was not requested, and a
\* frame driver's queue keeps its limit (kMaxQueuedBatches).
THEOREM WorkerTypes == Spec => []TypeOK
<1>1. TypeInv => TypeOK
  BY DEF TypeInv
<1> QED BY <1>1, TypesInductive, PTL

-----------------------------------------------------------------------------
\* Where input may wait.

\* Input outlives the hold it was issued under only where nothing can overtake
\* it: the command list is empty whenever the worker runs, outside a window.
PlaceInv ==
    /\ ~threaded => pending = <<>> /\ ~windowOpen /\ (Idle \/ error)
    /\ render \in Waits \cup Advancing \cup {"joining"} => threaded
    /\ render \in {"stop", "joining"} => Idle \/ error
    /\ render = "joining" => ~windowOpen
    /\ commands # <<>> => ~threaded \/ windowOpen \/ Idle \/ error
    /\ commands # <<>> /\ render \in Waits => Idle \/ error
    /\ render \in {"pushing", "pumping", "acquiring"} => commands = <<>> \/ error
    /\ render = "acquiring" => pending = <<>>
    /\ ~driven => pumped = <<>>

LEMMA PlacesAtInit == Init => PlaceInv
BY DEF Init, PlaceInv, Idle, Waits, Advancing

LEMMA PlacesOfWorker == ASSUME IInv, PlaceInv, Worker PROVE PlaceInv'
<1> USE DEF PlaceInv, Idle, Waits, Advancing
<1>1. UNCHANGED <<threaded, pending, windowOpen, driven, pumped>>
  BY DEF Worker, Look, ParkExpires, RunFrame, FrameThrows, RecordError, FrameDone, sharedVars,
         waitVars, inputVars, gameVars
<1>2. (error => error') /\ (Idle => Idle')
  <2>1. error => error'
    BY DEF Worker, Look, ParkExpires, RunFrame, FrameThrows, RecordError, FrameDone, sharedVars
  <2>2. Idle => Idle'
    BY DEF Worker, Look, ParkExpires, RunOn, Take, Sleep, MayTake, RunFrame, FrameThrows,
           RecordError, FrameDone, sharedVars
  <2> QED BY <2>1, <2>2
<1>3. render' = render \/ (render = "asleep" /\ render' = "woken")
  BY DEF Worker, Look, ParkExpires, RunFrame, FrameThrows, RecordError, FrameDone, Woken
<1>4. commands' = commands \/ commands' = <<>>
  BY DEF Worker, Look, ParkExpires, RunFrame, FrameThrows, RecordError, FrameDone, ownerVars
<1> QED BY <1>1, <1>2, <1>3, <1>4

LEMMA PlacesOfWindow ==
    ASSUME IInv, PlaceInv,
           BeginWindow \/ BeginInline \/ UseLogic \/ Used \/ EndAdvance \/ NoAdvance \/ Draw
    PROVE  PlaceInv'
<1> USE DEF PlaceInv, Idle, Waits, Advancing
<1>1. CASE BeginWindow
  BY <1>1 DEF BeginWindow, EndUnended, Stash, gameVars
<1>2. CASE EndAdvance \/ Draw
  BY <1>2 DEF EndAdvance, Draw, CloseWindow, Stash, gameVars
<1>3. CASE BeginInline \/ UseLogic \/ NoAdvance
  BY <1>3 DEF BeginInline, UseLogic, NoAdvance, sharedVars, ownerVars, inputVars, gameVars
<1>4. CASE Used
  BY <1>4 DEF Used, IInv, Held, sharedVars, gameVars
<1> QED BY <1>1, <1>2, <1>3, <1>4

LEMMA PlacesOfWaits ==
    ASSUME IInv, PlaceInv,
           WaitTest \/ (\E g \in {"use", "stop"} : WaitIdle(g)) \/ StopWorker \/ JoinWorker
           \/ StartWorker
    PROVE  PlaceInv'
<1> USE DEF PlaceInv, Idle, Waits, Advancing
<1>1. CASE WaitTest
  BY <1>1 DEF WaitTest, WaitOver, Returns, ownerVars, workerVars, inputVars, gameVars
<1>2. ASSUME NEW g \in {"use", "stop"}, WaitIdle(g) PROVE PlaceInv'
  BY <1>2 DEF WaitIdle, Lift, Stash, WaitOver, Returns
<1>3. CASE StopWorker
  BY <1>3 DEF StopWorker, ownerVars, inputVars, gameVars
<1>4. CASE JoinWorker
  BY <1>4 DEF JoinWorker, sharedVars
<1>5. CASE StartWorker
  BY <1>5 DEF StartWorker, ownerVars, inputVars
<1> QED BY <1>1, <1>2, <1>3, <1>4, <1>5

LEMMA PlacesOfAdvance ==
    ASSUME IInv, TypeInv, PlaceInv,
           (\E d \in 0 .. MaxDue : Advance(d) \/ AdvanceInline(d)) \/ Push \/ DriverStash \/ Pump
           \/ AcquireBatch \/ AcquireNone
    PROVE  PlaceInv'
<1> USE DEF PlaceInv, Idle, Waits, Advancing
<1>1. ASSUME NEW d \in 0 .. MaxDue, Advance(d) PROVE PlaceInv'
  BY <1>1 DEF Advance, StashHeld, Stash, sharedVars
<1>2. ASSUME NEW d \in 0 .. MaxDue, AdvanceInline(d) PROVE PlaceInv'
  BY <1>2 DEF AdvanceInline, sharedVars
<1>3. CASE Push
  <2>1. ~driven
    BY <1>3 DEF Push, TypeInv
  <2> QED BY <1>3, <2>1 DEF Push, ownerVars
<1>4. CASE DriverStash
  BY <1>4 DEF DriverStash, StashHeld, Stash, sharedVars, gameVars
<1>5. CASE Pump
  <2>1. driven
    BY <1>5 DEF Pump, TypeInv
  <2> QED BY <1>5, <2>1 DEF Pump, InputWaits, sharedVars, ownerVars, gameVars
<1>6. CASE AcquireBatch
  BY <1>6 DEF AcquireBatch, ownerVars
<1>7. CASE AcquireNone
  BY <1>7 DEF AcquireNone, sharedVars, ownerVars, inputVars
<1> QED BY <1>1, <1>2, <1>3, <1>4, <1>5, <1>6, <1>7

-----------------------------------------------------------------------------
\* The input in the order of its issue.

\* The input issued after the a-th up to the b-th, in order.
Run(a, b) == [i \in 1 .. b - a |-> a + i]

\* What no requested frame holds yet, oldest first.
Unsent == pumped \o pending \o commands

\* cut[f]: how many inputs were issued before more than f frames were requested.
Cuts(cut) ==
    /\ cut \in [0 .. requested -> 0 .. Len(issued)]
    /\ \A i \in 1 .. Len(issued) : issued[i] <= requested
    /\ \A f \in 0 .. requested : \A i \in 1 .. Len(issued) : issued[i] < f <=> i <= cut[f]

\* The first n inputs ran, in their order and in their frames.
Past(n) ==
    /\ Len(executed) = n /\ n <= Len(issued)
    /\ \A i \in 1 .. n : executed[i] = [input |-> i, frame |-> issued[i] + 1]

\* Each frame that was taken or waits holds the input of that frame, and the
\* rest of the input waits for the next one.
Queued(cut) ==
    LET n == frames + Taken
    IN  /\ item = Run(cut[frames], cut[n])
        /\ n + Len(work) = requested
        /\ \A k \in 1 .. Len(work) : work[k] = Run(cut[n + k - 1], cut[n + k])
        /\ Unsent = Run(cut[requested], Len(issued))

Flows(cut) == Cuts(cut) /\ Past(cut[frames]) /\ (worker # "threw" => Queued(cut))

\* After a failure what ran stays; until then every input is where it belongs.
Flow ==
    /\ Past(Len(executed))
    /\ error \/ \E cut : Flows(cut)

LEMMA RunType ==
    ASSUME NEW a \in Nat, NEW b \in Nat, a <= b
    PROVE  Run(a, b) \in Seq(Nat) /\ Len(Run(a, b)) = b - a /\ Run(a, a) = <<>>
BY DEF Run

LEMMA RunNone == ASSUME NEW a \in Nat PROVE Run(a, a) = <<>>
BY DEF Run

LEMMA RunGrows ==
    ASSUME NEW a \in Nat, NEW b \in Nat, a <= b
    PROVE  Append(Run(a, b), b + 1) = Run(a, b + 1)
BY DEF Run

LEMMA JoinsJoin ==
    ASSUME NEW S, NEW s \in Seq(S), NEW t \in Seq(S), NEW u \in Seq(S)
    PROVE  /\ (s \o t) \o u = s \o (t \o u)
           /\ s \o <<>> = s /\ <<>> \o s = s
OBVIOUS

LEMMA AppendJoins ==
    ASSUME NEW S, NEW s \in Seq(S), NEW t \in Seq(S), NEW x \in S
    PROVE  s \o Append(t, x) = Append(s \o t, x)
OBVIOUS

\* A stash, the pump and the end of the worker move input without reordering it.
LEMMA UnsentStays ==
    ASSUME TypeInv,
           \/ UNCHANGED <<pumped, pending, commands>>
           \/ Stash /\ UNCHANGED pumped
           \/ pumped' = pumped \o pending /\ pending' = <<>> /\ UNCHANGED commands
           \/ commands' = pending \o commands /\ pending' = <<>> /\ UNCHANGED pumped
    PROVE  Unsent' = Unsent
<1>1. /\ pumped \in Seq(Inputs) /\ pending \in Seq(Inputs) /\ commands \in Seq(Inputs)
      /\ pending \o commands \in Seq(Inputs) /\ pumped \o pending \in Seq(Inputs)
      /\ <<>> \in Seq(Inputs)
  BY DEF TypeInv, TypeOK
<1> DEFINE P == pumped
           Q == pending
           R == commands
<1>0. (P \o Q) \o R = P \o (Q \o R) /\ P \o <<>> = P
  <2> HIDE DEF P, Q, R
  <2>1. P \in Seq(Inputs) /\ Q \in Seq(Inputs) /\ R \in Seq(Inputs)
    BY <1>1 DEF P, Q, R
  <2> QED BY <2>1, JoinsJoin
<1>2. CASE UNCHANGED <<pumped, pending, commands>>
  BY <1>2 DEF Unsent
<1>3. CASE Stash /\ UNCHANGED pumped
  <2>1. Unsent' = (pumped \o (pending \o commands)) \o <<>>
    BY <1>3 DEF Stash, Unsent
  <2>2. @ = pumped \o (pending \o commands)
    BY <1>1, JoinedSeq, JoinsJoin
  <2> QED BY <1>0, <2>1, <2>2 DEF Unsent
<1>4. CASE pumped' = pumped \o pending /\ pending' = <<>> /\ UNCHANGED commands
  BY <1>1, <1>4, JoinsJoin DEF Unsent
<1>5. CASE commands' = pending \o commands /\ pending' = <<>> /\ UNCHANGED pumped
  <2>1. Unsent' = (pumped \o <<>>) \o (pending \o commands)
    BY <1>5 DEF Unsent
  <2> QED BY <1>0, <2>1 DEF Unsent
<1> QED BY <1>2, <1>3, <1>4, <1>5

\* A step that moves neither frames nor input keeps the order.
LEMMA FlowStays ==
    ASSUME Flow, UNCHANGED <<requested, frames, executed, issued, item, work, error>>,
           Taken' = Taken, worker' = "threw" <=> worker = "threw", Unsent' = Unsent
    PROVE  Flow'
BY DEF Flow, Flows, Cuts, Past, Queued

LEMMA FlowAtInit == Init => Flow
<1> SUFFICES ASSUME Init PROVE Flow
  OBVIOUS
<1> DEFINE cut == [f \in 0 .. 0 |-> 0]
<1>1. /\ requested = 0 /\ frames = 0 /\ issued = <<>> /\ executed = <<>> /\ item = <<>>
      /\ work = <<>> /\ pumped = <<>> /\ pending = <<>> /\ commands = <<>> /\ worker = "looking"
  BY DEF Init
<1>2. Len(issued) = 0 /\ Len(work) = 0 /\ Len(executed) = 0 /\ Taken = 0
  BY <1>1 DEF Taken
<1>3. Past(0)
  BY <1>2 DEF Past
<1>4. Run(0, 0) = <<>>
  BY RunType
<1>5. Unsent = <<>>
  BY <1>1 DEF Unsent
<1>6. Cuts(cut) /\ Queued(cut)
  BY <1>1, <1>2, <1>4, <1>5 DEF Cuts, Queued
<1>7. Flows(cut)
  BY <1>1, <1>3, <1>6 DEF Flows
<1> QED BY <1>2, <1>3, <1>7 DEF Flow

\* The types the steps below reason with.
LEMMA FlowNumbers ==
    ASSUME TypeInv
    PROVE  /\ frames \in Nat /\ requested \in Nat /\ Len(work) \in Nat /\ Len(issued) \in Nat
           /\ Len(executed) \in Nat /\ Len(item) \in Nat
           /\ Taken \in {0, 1} /\ (Taken = 1 <=> worker = "frame")
           /\ frames + Taken + Len(work) <= requested
BY WorkerAssumption DEF TypeInv, TypeOK, Taken

LEMMA FlowTypes ==
    ASSUME TypeInv
    PROVE  /\ issued \in Seq(Nat) /\ work \in Seq(Seq(Inputs)) /\ item \in Seq(Inputs)
           /\ pumped \in Seq(Inputs) /\ pending \in Seq(Inputs) /\ commands \in Seq(Inputs)
           /\ executed \in Seq([input : Inputs, frame : 1 .. frames])
<1>1. 0 .. MaxFrames \subseteq Nat
  OBVIOUS
<1>2. issued \in Seq(Nat)
  BY <1>1, WiderSeq DEF TypeInv, TypeOK
<1> QED BY <1>2 DEF TypeInv, TypeOK

\* When an input was issued.
LEMMA IssuedAt == ASSUME TypeInv, NEW i \in 1 .. Len(issued) PROVE issued[i] \in Nat
<1>1. issued \in Seq(Nat)
  BY FlowTypes
<1> QED BY <1>1

\* The cut points grow with the frames.
LEMMA CutsGrow ==
    ASSUME TypeInv, NEW cut, Cuts(cut), NEW f \in 0 .. requested, NEW g \in 0 .. requested, f <= g
    PROVE  /\ cut[f] \in Nat /\ cut[g] \in Nat /\ cut[f] <= cut[g] /\ cut[g] <= Len(issued)
<1>1. cut[f] \in 0 .. Len(issued) /\ cut[g] \in 0 .. Len(issued)
  BY DEF Cuts
<1>2. Len(issued) \in Nat
  BY FlowNumbers
<1>3. cut[f] <= cut[g]
  <2> SUFFICES ASSUME cut[f] > cut[g] PROVE FALSE
    BY <1>1, <1>2
  <2>1. cut[f] \in 1 .. Len(issued)
    BY <1>1, <1>2
  <2>2. issued[cut[f]] \in Nat
    BY <2>1, IssuedAt
  <2>3. issued[cut[f]] < f /\ ~(issued[cut[f]] < g)
    BY <1>1, <2>1 DEF Cuts
  <2> QED BY <2>2, <2>3
<1> QED BY <1>1, <1>2, <1>3

\* The worker takes the oldest frame with its input.
LEMMA FlowTakes == ASSUME TypeInv, IInv, Flow, Look \/ ParkExpires PROVE Flow'
<1>1. CASE ~Take
  <2>1. UNCHANGED <<requested, frames, executed, issued, item, work, error, commands, pending, pumped>>
    BY <1>1 DEF Look, ParkExpires, RunOn, Sleep, ownerVars, inputVars, gameVars
  <2>2. worker \notin {"frame", "threw"} /\ worker' \notin {"frame", "threw"}
    BY <1>1 DEF Look, ParkExpires, RunOn, Sleep
  <2>3. Unsent' = Unsent /\ Taken' = Taken
    BY <2>1, <2>2 DEF Unsent, Taken
  <2> QED BY <2>1, <2>2, <2>3, FlowStays
<1>2. CASE Take
  <2>1. UNCHANGED <<requested, frames, executed, issued, error, commands, pending, pumped>>
    BY DEF Look, ParkExpires, ownerVars, inputVars, gameVars
  <2>2. /\ work # <<>> /\ ~error /\ item' = Head(work) /\ work' = Tail(work)
        /\ worker \notin {"frame", "threw"} /\ worker' = "frame"
    BY <1>2 DEF Take, MayTake, Look, ParkExpires
  <2>3. PICK cut : Flows(cut)
    BY <2>2 DEF Flow
  <2>4. Queued(cut) /\ Taken = 0 /\ Taken' = 1
    BY <2>2, <2>3 DEF Flows, Taken
  <2>5. /\ Len(work) \in Nat \ {0} /\ Len(work') = Len(work) - 1 /\ item' = work[1]
        /\ \A k \in 1 .. Len(work') : work'[k] = work[k + 1]
    BY <2>2, FlowTypes
  <2>6. frames + Len(work) = requested /\ Unsent = Run(cut[requested], Len(issued))
    BY <2>4, FlowNumbers DEF Queued
  <2>7. \A k \in 1 .. Len(work) : work[k] = Run(cut[frames + k - 1], cut[frames + k])
    BY <2>4, FlowNumbers DEF Queued
  <2>8. item' = Run(cut[frames], cut[frames + 1])
    <3>1. work[1] = Run(cut[frames + 1 - 1], cut[frames + 1])
      BY <2>5, <2>7
    <3>2. frames + 1 - 1 = frames
      BY FlowNumbers
    <3> QED BY <2>5, <3>1, <3>2
  <2>9. \A k \in 1 .. Len(work') : work'[k] = Run(cut[frames + 1 + k - 1], cut[frames + 1 + k])
    <3> TAKE k \in 1 .. Len(work')
    <3>1. k + 1 \in 1 .. Len(work) /\ work'[k] = work[k + 1]
      BY <2>5
    <3>2. work[k + 1] = Run(cut[frames + (k + 1) - 1], cut[frames + (k + 1)])
      BY <2>7, <3>1
    <3>3. frames + (k + 1) - 1 = frames + 1 + k - 1 /\ frames + (k + 1) = frames + 1 + k
      <4>1. frames \in Nat /\ k \in Nat
        BY <2>5, FlowNumbers
      <4> QED BY <4>1
    <3> QED BY <3>1, <3>2, <3>3
  <2>10. Queued(cut)'
    BY <2>1, <2>4, <2>5, <2>6, <2>8, <2>9, FlowNumbers DEF Queued, Unsent
  <2>11. Flows(cut)'
    BY <2>1, <2>3, <2>10 DEF Flows, Cuts, Past
  <2> QED BY <2>1, <2>11 DEF Flow, Past
<1> QED BY <1>1, <1>2

\* What a step adds to the executed input, if it is the input of the frame.
LEMMA PastGrows ==
    ASSUME TypeInv, NEW a \in Nat, NEW b \in Nat, a <= b, b <= Len(issued), Past(a),
           \A i \in a + 1 .. b : issued[i] = frames, issued' = issued,
           NEW input, input = Run(a, b),
           executed' = executed \o [i \in 1 .. Len(input) |-> [input |-> input[i], frame |-> frames + 1]]
    PROVE  Past(b)'
<1> DEFINE more == [i \in 1 .. Len(input) |-> [input |-> input[i], frame |-> frames + 1]]
<1>2. a \in Nat /\ b \in Nat /\ a <= b /\ b <= Len(issued)
  OBVIOUS
<1>3. Len(input) = b - a /\ \A i \in 1 .. b - a : input[i] = a + i
  BY <1>2, RunType DEF Run
<1>4. Len(executed) = a /\ \A i \in 1 .. a : executed[i] = [input |-> i, frame |-> issued[i] + 1]
  BY DEF Past
<1>5. \A i \in a + 1 .. b : issued[i] = frames
  OBVIOUS
<1>6. /\ Len(more) = b - a
      /\ Len(executed \o more) = Len(executed) + Len(more)
      /\ \A i \in 1 .. Len(executed) : (executed \o more)[i] = executed[i]
      /\ \A i \in 1 .. Len(more) : (executed \o more)[Len(executed) + i] = more[i]
  <2> DEFINE F == [input : Inputs, frame : 1 .. frames]
             G == [input : Nat, frame : Nat]
  <2>1. executed \in Seq(F)
    BY FlowTypes
  <2>2. Len(input) \in Nat /\ Len(more) = Len(input)
    BY <1>2, <1>3
  <2>3. \A i \in 1 .. Len(input) : [input |-> input[i], frame |-> frames + 1] \in G
    <3>1. frames + 1 \in Nat
      BY FlowNumbers
    <3>2. \A i \in 1 .. Len(input) : input[i] \in Nat
      BY <1>2, <1>3
    <3> QED BY <3>1, <3>2
  <2> HIDE DEF F, G
  <2>4. more \in Seq(G)
    BY <2>2, <2>3
  <2> HIDE DEF more
  <2> QED BY <1>3, <2>1, <2>2, <2>4, JoinAt
<1>7. Len(executed') = b
  BY <1>2, <1>4, <1>6
<1>8. \A i \in 1 .. b : executed'[i] = [input |-> i, frame |-> issued[i] + 1]
  <2> TAKE i \in 1 .. b
  <2>1. CASE i <= a
    BY <1>2, <1>4, <1>6, <2>1
  <2>2. CASE i > a
    <3>1. i - a \in 1 .. Len(input) /\ i - a \in 1 .. Len(more) /\ i \in a + 1 .. b /\ i = a + (i - a)
      BY <1>2, <1>3, <1>6, <2>2
    <3>2. executed'[i] = more[i - a]
      <4> HIDE DEF more
      <4>1. (executed \o more)[a + (i - a)] = more[i - a]
        BY <1>4, <1>6, <3>1
      <4> QED BY <3>1, <4>1 DEF more
    <3>3. more[i - a] = [input |-> i, frame |-> frames + 1]
      BY <1>2, <1>3, <3>1
    <3>4. issued[i] = frames
      BY <1>5, <3>1
    <3> HIDE DEF more
    <3> QED BY <3>2, <3>3, <3>4, FlowNumbers
  <2>3. i <= a \/ i > a
    BY <1>2
  <2> QED BY ONLY <2>1, <2>2, <2>3
<1> QED BY <1>2, <1>7, <1>8 DEF Past

\* The frame executes the input it was queued with, and nothing else is in the
\* command list.
LEMMA FlowRuns == ASSUME TypeInv, IInv, PlaceInv, Flow, RunFrame PROVE Flow'
<1>1. worker = "frame" /\ worker' = "ran" /\ Taken = 1 /\ Taken' = 0
  BY DEF RunFrame, Taken
<1>2. ~error /\ commands = <<>>
  BY <1>1 DEF IInv, WorkerState, PlaceInv, Idle
<1>3. PICK cut : Flows(cut)
  BY <1>2 DEF Flow
<1>4. Queued(cut) /\ Cuts(cut) /\ Past(cut[frames])
  BY <1>1, <1>3 DEF Flows
<1>5. /\ UNCHANGED <<requested, issued, error, work, pending, pumped, commands>>
      /\ frames' = frames + 1 /\ item' = <<>>
      /\ executed' = executed \o [i \in 1 .. Len(item) |-> [input |-> item[i], frame |-> frames + 1]]
  <2>1. (IF driven THEN item ELSE commands \o item) = item
    BY <1>2, FlowTypes, JoinsJoin
  <2> QED BY <1>2, <2>1 DEF RunFrame, Executes, sharedVars, inputVars, gameVars
<1>6. frames < requested /\ frames + 1 + Len(work) = requested
  BY <1>1, <1>4, FlowNumbers DEF Queued
<1>7. item = Run(cut[frames], cut[frames + 1])
  BY <1>1, <1>4 DEF Queued
<1>8. PICK b : b = cut[frames + 1]
  OBVIOUS
<1>9. Past(b)'
  <2>1. PICK a : a = cut[frames]
    OBVIOUS
  <2>2. frames \in 0 .. requested /\ frames + 1 \in 0 .. requested
    BY <1>6, FlowNumbers
  <2>3. a \in Nat /\ b \in Nat /\ a <= b /\ b <= Len(issued)
    BY <1>4, <1>8, <2>1, <2>2, CutsGrow, FlowNumbers
  <2>4. ASSUME NEW i \in a + 1 .. b PROVE issued[i] = frames
    <3>1. i \in 1 .. Len(issued)
      BY <2>3, FlowNumbers
    <3>2. issued[i] \in Nat
      BY <3>1, IssuedAt
    <3>3. issued[i] < frames + 1 /\ ~(issued[i] < frames)
      BY <1>4, <1>8, <2>1, <2>2, <2>3, <3>1 DEF Cuts
    <3> QED BY <3>2, <3>3, FlowNumbers
  <2> QED BY <1>4, <1>5, <1>7, <1>8, <2>1, <2>3, <2>4, PastGrows
<1>10. Queued(cut)'
  <2>1. item' = Run(cut[frames'], cut[frames' + Taken'])
    <3>1. frames' + Taken' = frames' /\ cut[frames'] = b
      BY <1>1, <1>5, <1>8, FlowNumbers
    <3>2. Run(b, b) = <<>>
      <4>1. b \in Nat
        BY <1>4, <1>6, <1>8, FlowNumbers DEF Cuts
      <4> QED BY <4>1, RunType
    <3>3. item' = <<>>
      BY <1>5
    <3> QED BY <3>1, <3>2, <3>3
  <2>2. frames' + Taken' = frames + Taken /\ Unsent' = Unsent
    BY <1>1, <1>5, FlowNumbers DEF Unsent
  <2> QED BY <1>4, <1>5, <1>6, <2>1, <2>2 DEF Queued
<1>11. Flows(cut)'
  <2>1. Past(cut[frames])' /\ Cuts(cut)'
    BY <1>4, <1>5, <1>8, <1>9 DEF Cuts
  <2> QED BY <1>10, <2>1 DEF Flows
<1>12. Past(Len(executed))'
  BY <1>9 DEF Past
<1> QED BY <1>11, <1>12 DEF Flow

LEMMA FlowOfWorker == ASSUME TypeInv, IInv, PlaceInv, Flow, Worker PROVE Flow'
<1>1. CASE Look \/ ParkExpires
  BY <1>1, FlowTakes
<1>2. CASE RunFrame
  BY <1>2, FlowRuns
<1>3. CASE FrameThrows
  <2>1. /\ UNCHANGED <<requested, frames, executed, issued, error>> /\ worker = "frame"
        /\ worker' = "threw"
    BY <1>3 DEF FrameThrows, sharedVars, ownerVars, inputVars, gameVars
  <2>2. \A cut : Flows(cut) => Flows(cut)'
    BY <2>1 DEF Flows, Cuts, Past
  <2> QED BY <2>1, <2>2 DEF Flow, Past
<1>4. CASE RecordError
  BY <1>4 DEF RecordError, Flow, Past, ownerVars, inputVars
<1>5. CASE FrameDone
  <2>1. /\ UNCHANGED <<requested, frames, executed, issued, item, work, error, pumped, pending,
                       commands>>
        /\ worker = "ran" /\ worker' = "looking"
    BY <1>5 DEF FrameDone, ownerVars, inputVars, gameVars
  <2>2. Taken' = Taken /\ Unsent' = Unsent
    BY <2>1 DEF Taken, Unsent
  <2> QED BY <2>1, <2>2, FlowStays
<1> QED BY <1>1, <1>2, <1>3, <1>4, <1>5 DEF Worker

\* The worker threw whether or not it was notified.
LEMMA NotifiedThrew ==
    ASSUME worker' = Notified(worker) \/ worker' = worker
    PROVE  (worker' = "threw" <=> worker = "threw") /\ Taken' = Taken
BY DEF Notified, Taken

\* Input is only moved along by the window, the waits, a stash and the pump.
LEMMA FlowOfMoves ==
    ASSUME TypeInv, IInv, PlaceInv, Flow,
           BeginWindow \/ BeginInline \/ UseLogic \/ EndAdvance \/ NoAdvance \/ Draw
           \/ WaitTest \/ (\E g \in {"use", "stop"} : WaitIdle(g)) \/ StopWorker \/ JoinWorker
           \/ (\E d \in 0 .. MaxDue : Advance(d)) \/ DriverStash \/ Pump \/ AcquireNone
    PROVE  Flow'
<1> DEFINE Still == UNCHANGED <<requested, frames, executed, issued, item, work, error>>
           Moves == \/ UNCHANGED <<pumped, pending, commands>>
                    \/ Stash /\ UNCHANGED pumped
                    \/ pumped' = pumped \o pending /\ pending' = <<>> /\ UNCHANGED commands
                    \/ commands' = pending \o commands /\ pending' = <<>> /\ UNCHANGED pumped
           Wakes == worker' = Notified(worker) \/ worker' = worker
<1>1. Still
  BY DEF BeginWindow, BeginInline, UseLogic, EndAdvance, NoAdvance, Draw, WaitTest, WaitIdle,
         StopWorker, JoinWorker, Advance, DriverStash, Pump, AcquireNone, sharedVars, ownerVars,
         workerVars, inputVars, gameVars
<1>2. Wakes
  BY DEF BeginWindow, EndUnended, CloseWindow, Lift, BeginInline, UseLogic, EndAdvance, NoAdvance,
         Draw, WaitTest, WaitIdle, StopWorker, JoinWorker, Advance, DriverStash, Pump, AcquireNone,
         workerVars
<1>3. Moves
  <2>1. CASE BeginWindow \/ EndAdvance \/ Draw
    BY <2>1 DEF BeginWindow, EndUnended, EndAdvance, Draw, CloseWindow
  <2>2. CASE \/ BeginInline \/ UseLogic \/ NoAdvance \/ WaitTest \/ StopWorker \/ AcquireNone
    BY <2>2 DEF BeginInline, UseLogic, NoAdvance, WaitTest, StopWorker, AcquireNone, ownerVars, inputVars
  <2>3. ASSUME NEW g \in {"use", "stop"}, WaitIdle(g) PROVE Moves
    BY <2>3 DEF WaitIdle, Lift
  <2>4. CASE JoinWorker
    BY <2>4 DEF JoinWorker
  <2>5. ASSUME NEW d \in 0 .. MaxDue, Advance(d) PROVE Moves
    BY <2>5 DEF Advance, StashHeld
  <2>6. CASE DriverStash
    BY <2>6 DEF DriverStash, StashHeld
  <2>7. CASE Pump
    BY <2>7 DEF Pump, ownerVars
  <2> QED BY <2>1, <2>2, <2>3, <2>4, <2>5, <2>6, <2>7
<1> HIDE DEF Still, Moves, Wakes
<1>4. (worker' = "threw" <=> worker = "threw") /\ Taken' = Taken
  BY <1>2, NotifiedThrew DEF Wakes
<1>5. Unsent' = Unsent
  BY <1>3, UnsentStays DEF Moves
<1> QED BY <1>1, <1>4, <1>5, FlowStays DEF Still

LEMMA FlowOfStart == ASSUME TypeInv, IInv, PlaceInv, Flow, StartWorker PROVE Flow'
<1>1. /\ UNCHANGED <<requested, frames, executed, issued, item, error, pumped, pending, commands>>
      /\ worker = "exited" /\ worker' = "looking" /\ work' = <<>>
  BY DEF StartWorker, IInv, WorkerState, ownerVars, inputVars
<1>2. CASE error
  BY <1>1, <1>2 DEF Flow, Past
<1>3. CASE ~error
  <2>1. work = <<>>
    BY <1>3 DEF StartWorker, PlaceInv, Idle
  <2>2. Taken' = Taken /\ Unsent' = Unsent
    BY <1>1 DEF Taken, Unsent
  <2> QED BY <1>1, <2>1, <2>2, FlowStays
<1> QED BY <1>2, <1>3

\* Input is issued behind all other input and for the next requested frame.
LEMMA FlowOfUsed == ASSUME TypeInv, Flow, Used PROVE Flow'
<1>1. UNCHANGED <<requested, frames, executed, item, work, error, worker, pumped, pending>>
  BY DEF Used, sharedVars, workerVars, gameVars
<1>2. Taken' = Taken
  BY <1>1 DEF Taken
<1>3. CASE UNCHANGED <<commands, issued>>
  <2>1. Unsent' = Unsent
    BY <1>1, <1>3 DEF Unsent
  <2> QED BY <1>1, <1>2, <1>3, <2>1, FlowStays
<1>4. CASE /\ commands' = Append(commands, Len(issued) + 1)
           /\ issued' = Append(issued, requested) /\ Len(issued) < MaxInputs
  <2>1. /\ Len(issued) \in Nat /\ Len(issued') = Len(issued) + 1 /\ requested \in Nat
        /\ issued'[Len(issued) + 1] = requested
        /\ \A i \in 1 .. Len(issued) : issued'[i] = issued[i]
    BY <1>4, FlowTypes, FlowNumbers
  <2>2. \A n : Past(n) => Past(n)'
    <3> TAKE n
    <3> SUFFICES ASSUME Past(n) PROVE Past(n)'
      OBVIOUS
    <3>1. n \in Nat /\ n <= Len(issued)
      BY FlowNumbers DEF Past
    <3> QED BY <1>1, <2>1, <3>1 DEF Past
  <2>3. Past(Len(executed))'
    BY <1>1, <2>2 DEF Flow, Past
  <2>4. ASSUME NEW cut, Flows(cut) PROVE Flows(cut)'
    <3>1. Cuts(cut)'
      <4>1. Cuts(cut)
        BY <2>4 DEF Flows
      <4>2. cut \in [0 .. requested -> 0 .. Len(issued)]
        BY <4>1 DEF Cuts
      <4>3. cut \in [0 .. requested' -> 0 .. Len(issued')]
        <5>1. 0 .. Len(issued) \subseteq 0 .. Len(issued') /\ requested' = requested
          BY <1>1, <2>1
        <5> QED BY <4>2, <5>1
      <4>4. \A i \in 1 .. Len(issued') : issued'[i] <= requested'
        <5> TAKE i \in 1 .. Len(issued')
        <5>1. CASE i <= Len(issued)
          BY <1>1, <2>1, <4>1, <5>1 DEF Cuts
        <5>2. CASE i > Len(issued)
          BY <1>1, <2>1, <5>2
        <5> QED BY <2>1, <5>1, <5>2
      <4>5. ASSUME NEW f \in 0 .. requested, NEW i \in 1 .. Len(issued')
            PROVE  issued'[i] < f <=> i <= cut[f]
        <5>1. cut[f] \in 0 .. Len(issued)
          BY <4>2
        <5>2. CASE i <= Len(issued)
          <6>1. i \in 1 .. Len(issued) /\ issued'[i] = issued[i]
            BY <2>1, <5>2
          <6> QED BY <4>1, <6>1 DEF Cuts
        <5>3. CASE i > Len(issued)
          BY <2>1, <5>1, <5>3
        <5> QED BY <2>1, <5>2, <5>3
      <4> QED BY <1>1, <4>3, <4>4, <4>5 DEF Cuts
    <3>2. Past(cut[frames])'
      BY <1>1, <2>2, <2>4 DEF Flows
    <3>3. ASSUME Queued(cut) PROVE Queued(cut)'
      <4>1. Unsent' = Append(Unsent, Len(issued) + 1)
        <5>1. /\ pumped \in Seq(Inputs) /\ pending \in Seq(Inputs) /\ commands \in Seq(Inputs)
          BY FlowTypes
        <5>2. pumped \o pending \in Seq(Inputs)
          BY <5>1
        <5>3. Len(issued) + 1 \in Inputs
          BY <1>4, <2>1, WorkerAssumption DEF Inputs
        <5>4. (pumped \o pending) \o Append(commands, Len(issued) + 1)
                = Append((pumped \o pending) \o commands, Len(issued) + 1)
          BY <5>1, <5>2, <5>3, AppendJoins
        <5> QED BY <1>1, <1>4, <5>4 DEF Unsent
      <4>2. Unsent = Run(cut[requested], Len(issued))
        BY <3>3 DEF Queued
      <4>3. cut[requested] \in Nat /\ cut[requested] <= Len(issued)
        BY <2>1, <2>4 DEF Flows, Cuts
      <4>4. Unsent' = Run(cut[requested], Len(issued) + 1)
        BY <2>1, <4>1, <4>2, <4>3, RunGrows
      <4> QED BY <1>1, <1>2, <2>1, <3>3, <4>4 DEF Queued
    <3> QED BY <1>1, <2>4, <3>1, <3>2, <3>3 DEF Flows
  <2> QED BY <1>1, <2>3, <2>4 DEF Flow
<1> QED BY <1>3, <1>4 DEF Used

\* d more frames are requested, and the input issued up to now is theirs.
Longer(cut, d) == [f \in 0 .. requested + d |-> IF f <= requested THEN cut[f] ELSE Len(issued)]

LEMMA CutsLonger ==
    ASSUME TypeInv, NEW cut, Cuts(cut), NEW d \in Nat, requested' = requested + d, issued' = issued,
           NEW new, new = Longer(cut, d)
    PROVE  /\ Cuts(new)'
           /\ \A f \in 0 .. requested : new[f] = cut[f]
           /\ \A f \in requested + 1 .. requested + d : new[f] = Len(issued)
<1>1. /\ requested \in Nat /\ Len(issued) \in Nat
      /\ \A f \in 0 .. requested : cut[f] \in 0 .. Len(issued)
  BY FlowNumbers DEF Cuts
<1>2. /\ \A f \in 0 .. requested : new[f] = cut[f]
      /\ \A f \in requested + 1 .. requested + d : new[f] = Len(issued)
  BY <1>1 DEF Longer
<1>3. new \in [0 .. requested + d -> 0 .. Len(issued)]
  BY <1>1 DEF Longer
<1>4. \A i \in 1 .. Len(issued) : issued[i] \in Nat /\ issued[i] <= requested
  BY IssuedAt DEF Cuts
<1>5. ASSUME NEW f \in 0 .. requested + d, NEW i \in 1 .. Len(issued)
      PROVE  issued[i] < f <=> i <= new[f]
  <2>1. CASE f <= requested
    <3>1. f \in 0 .. requested
      BY <1>1, <2>1
    <3> QED BY <1>2, <3>1 DEF Cuts
  <2>2. CASE f > requested
    <3>1. new[f] = Len(issued)
      BY <1>1, <1>2, <2>2
    <3> QED BY <1>1, <1>4, <2>2, <3>1
  <2> QED BY <1>1, <2>1, <2>2
<1> QED BY <1>1, <1>2, <1>3, <1>4, <1>5 DEF Cuts

\* The first of the requested frames carries the input that waits, the others
\* none.
LEMMA FlowRequests ==
    ASSUME TypeInv, Flow, ~error, UNCHANGED <<frames, executed, issued, item, error>>,
           NEW d \in Nat \ {0}, requested' = requested + d,
           Taken' = Taken, worker' = "threw" <=> worker = "threw",
           Len(work') = Len(work) + d,
           \A k \in 1 .. Len(work) : work'[k] = work[k],
           work'[Len(work) + 1] = Unsent,
           \A k \in Len(work) + 2 .. Len(work) + d : work'[k] = <<>>,
           Unsent' = <<>>
    PROVE  Flow'
<1>1. PICK cut : Flows(cut)
  BY DEF Flow
<1>2. PICK new : new = Longer(cut, d)
  OBVIOUS
<1>3. Cuts(cut) /\ Past(cut[frames])
  BY <1>1 DEF Flows
<1>4. /\ Cuts(new)'
      /\ \A f \in 0 .. requested : new[f] = cut[f]
      /\ \A f \in requested + 1 .. requested + d : new[f] = Len(issued)
  BY <1>2, <1>3, CutsLonger
<1>5. /\ frames \in Nat /\ requested \in Nat /\ Len(work) \in Nat /\ Len(issued) \in Nat
      /\ Taken \in {0, 1} /\ frames + Taken + Len(work) <= requested
  BY FlowNumbers
<1>6. Past(new[frames])'
  <2>1. new[frames] = cut[frames]
    BY <1>4, <1>5
  <2> QED BY <1>3, <2>1 DEF Past
<1>7. ASSUME worker # "threw" PROVE Queued(new)'
  <2> DEFINE n == frames + Taken
  <2>1. /\ item = Run(cut[frames], cut[n]) /\ n + Len(work) = requested
        /\ \A k \in 1 .. Len(work) : work[k] = Run(cut[n + k - 1], cut[n + k])
        /\ Unsent = Run(cut[requested], Len(issued))
    BY <1>1, <1>7 DEF Flows, Queued
  <2>2. n' = n /\ n + Len(work') = requested'
    BY <1>5, <2>1
  <2>0. n \in Nat /\ n + Len(work) = requested
    BY <1>5, <2>1
  <2>3. item' = Run(new[frames], new[n])
    BY <1>4, <1>5, <2>1
  <2>4. ASSUME NEW k \in 1 .. Len(work') PROVE work'[k] = Run(new[n + k - 1], new[n + k])
    <3> HIDE DEF n
    <3>1. CASE k <= Len(work)
      <4>1. k \in 1 .. Len(work) /\ n + k - 1 \in 0 .. requested /\ n + k \in 0 .. requested
        BY <1>5, <2>0, <3>1
      <4>2. new[n + k - 1] = cut[n + k - 1] /\ new[n + k] = cut[n + k]
        BY <1>4, <4>1
      <4> QED BY <2>1, <4>1, <4>2
    <3>2. CASE k = Len(work) + 1
      <4>1. n + k - 1 = requested /\ n + k = requested + 1
        BY <1>5, <2>0, <3>2
      <4>2. new[n + k - 1] = cut[requested] /\ new[n + k] = Len(issued)
        BY <1>4, <1>5, <4>1
      <4> QED BY <2>1, <3>2, <4>2
    <3>3. CASE k > Len(work) + 1
      <4>1. /\ k \in Len(work) + 2 .. Len(work) + d
            /\ n + k - 1 \in requested + 1 .. requested + d
            /\ n + k \in requested + 1 .. requested + d
        BY <1>5, <2>0, <3>3
      <4>2. new[n + k - 1] = Len(issued) /\ new[n + k] = Len(issued)
        BY <1>4, <4>1
      <4>3. work'[k] = <<>> /\ Run(Len(issued), Len(issued)) = <<>>
        BY <1>5, <4>1, RunType
      <4> QED BY <4>2, <4>3
    <3> QED BY <1>5, <3>1, <3>2, <3>3
  <2>5. Unsent' = Run(new[requested'], Len(issued))
    <3>1. new[requested'] = Len(issued) /\ Run(Len(issued), Len(issued)) = <<>>
      BY <1>4, <1>5, RunType
    <3> QED BY <3>1
  <2> QED BY <2>2, <2>3, <2>4, <2>5 DEF Queued
<1>8. Flows(new)'
  BY <1>4, <1>6, <1>7 DEF Flows
<1> QED BY <1>8 DEF Flow, Past

LEMMA FlowOfPush == ASSUME TypeInv, IInv, PlaceInv, Flow, Push PROVE Flow'
<1>1. UNCHANGED <<frames, executed, issued, item, error, pumped, commands>> /\ pending' = <<>>
  BY DEF Push, ownerVars
<1>2. CASE error
  BY <1>1, <1>2 DEF Flow, Past
<1>3. CASE ~error
  <2>1. commands = <<>> /\ pumped = <<>>
    BY <1>3 DEF Push, PlaceInv, TypeInv
  <2>2. Unsent = pending /\ Unsent' = <<>>
    <3>1. (<<>> \o pending) \o <<>> = pending /\ (<<>> \o <<>>) \o <<>> = <<>>
      BY FlowTypes
    <3> QED BY <1>1, <2>1, <3>1 DEF Unsent
  <2>3. due \in Nat \ {0} /\ requested' = requested + due
    BY WorkerAssumption DEF Push, TypeInv, TypeOK
  <2>4. (worker' = "threw" <=> worker = "threw") /\ Taken' = Taken
    BY NotifiedThrew DEF Push
  <2> DEFINE first == work \o <<pending>>
             rest == [i \in 1 .. due - 1 |-> <<>>]
  <2>5. work' = first \o rest
    BY DEF Push
  <2>6. /\ first \in Seq(Seq(Inputs)) /\ Len(first) = Len(work) + 1 /\ first[Len(work) + 1] = pending
        /\ \A k \in 1 .. Len(work) : first[k] = work[k]
    BY FlowTypes
  <2>7. /\ rest \in Seq(Seq(Inputs)) /\ Len(rest) = due - 1
        /\ \A k \in 1 .. Len(rest) : rest[k] = <<>>
    BY <2>3
  <2> HIDE DEF first, rest
  <2>8. /\ Len(first \o rest) = Len(first) + Len(rest)
        /\ \A k \in 1 .. Len(first) : (first \o rest)[k] = first[k]
        /\ \A k \in 1 .. Len(rest) : (first \o rest)[Len(first) + k] = rest[k]
    <3> DEFINE S == Seq(Inputs)
    <3>1. first \in Seq(S) /\ rest \in Seq(S)
      BY <2>6, <2>7
    <3> HIDE DEF S
    <3> QED BY <3>1, JoinAt
  <2>9. Len(work) \in Nat
    BY FlowNumbers
  <2>10. /\ Len(work') = Len(work) + due
         /\ \A k \in 1 .. Len(work) : work'[k] = work[k]
         /\ work'[Len(work) + 1] = Unsent
    BY <2>2, <2>3, <2>5, <2>6, <2>7, <2>8, <2>9
  <2>11. ASSUME NEW k \in Len(work) + 2 .. Len(work) + due PROVE work'[k] = <<>>
    <3>1. k - Len(first) \in 1 .. Len(rest) /\ k = Len(first) + (k - Len(first))
      BY <2>3, <2>6, <2>7, <2>9
    <3>2. (first \o rest)[Len(first) + (k - Len(first))] = <<>>
      BY <2>7, <2>8, <3>1
    <3> QED BY <2>5, <3>1, <3>2
  <2> QED BY <1>1, <1>3, <2>2, <2>3, <2>4, <2>10, <2>11, FlowRequests
<1> QED BY <1>2, <1>3

LEMMA FlowOfBatch == ASSUME TypeInv, IInv, PlaceInv, Flow, AcquireBatch PROVE Flow'
<1>1. UNCHANGED <<frames, executed, issued, item, error, pending, commands>> /\ pumped' = <<>>
  BY DEF AcquireBatch, ownerVars
<1>2. CASE error
  BY <1>1, <1>2 DEF Flow, Past
<1>3. CASE ~error
  <2>1. commands = <<>> /\ pending = <<>>
    BY <1>3 DEF AcquireBatch, PlaceInv
  <2>2. Unsent = pumped /\ Unsent' = <<>>
    <3>1. (pumped \o <<>>) \o <<>> = pumped /\ (<<>> \o <<>>) \o <<>> = <<>>
      BY FlowTypes
    <3> QED BY <1>1, <2>1, <3>1 DEF Unsent
  <2>3. requested' = requested + 1
    BY DEF AcquireBatch
  <2>4. (worker' = "threw" <=> worker = "threw") /\ Taken' = Taken
    BY NotifiedThrew DEF AcquireBatch
  <2>5. /\ Len(work') = Len(work) + 1 /\ Len(work) \in Nat
        /\ \A k \in 1 .. Len(work) : work'[k] = work[k]
        /\ work'[Len(work) + 1] = Unsent
    BY <2>2, FlowTypes, FlowNumbers DEF AcquireBatch
  <2>6. \A k \in Len(work) + 2 .. Len(work) + 1 : work'[k] = <<>>
    BY <2>5
  <2>7. 1 \in Nat \ {0}
    OBVIOUS
  <2> QED BY <1>1, <1>3, <2>2, <2>3, <2>4, <2>5, <2>6, <2>7, FlowRequests
<1> QED BY <1>2, <1>3

\* Without a worker the frames run at once, the first with all the input.
LEMMA FlowOfInline ==
    ASSUME TypeInv, IInv, PlaceInv, Flow, NEW d \in 0 .. MaxDue, AdvanceInline(d) PROVE Flow'
<1> DEFINE input == IF driven THEN pumped \o commands ELSE commands
<1>1. ~threaded /\ ~error /\ worker = "exited" /\ work = <<>> /\ pending = <<>>
  BY DEF AdvanceInline, IInv, WorkerState, PlaceInv, Idle
<1>2. /\ UNCHANGED <<work, item, error, worker, issued, pending>> /\ d \in Nat
      /\ frames' = frames + d /\ requested' = requested + d
  BY WorkerAssumption DEF AdvanceInline, sharedVars, workerVars
<1>3. PICK cut : Flows(cut)
  BY <1>1 DEF Flow
<1>4. Cuts(cut) /\ Past(cut[frames]) /\ Queued(cut)
  BY <1>1, <1>3 DEF Flows
<1>5. /\ Taken = 0 /\ Taken' = 0 /\ Len(work) = 0 /\ Len(work') = 0 /\ frames = requested
      /\ frames \in Nat /\ Len(issued) \in Nat
  BY <1>1, <1>2, <1>4, FlowNumbers DEF Taken, Queued
<1>6. Unsent = input
  <2>1. driven => Unsent = pumped \o commands
    BY <1>1, FlowTypes, JoinsJoin DEF Unsent
  <2>2. ~driven => Unsent = commands
    <3>1. (<<>> \o <<>>) \o commands = commands
      BY FlowTypes
    <3> QED BY <1>1, <3>1 DEF Unsent, PlaceInv
  <2> QED BY <2>1, <2>2
<1>7. input = Run(cut[frames], Len(issued))
  BY <1>4, <1>5, <1>6 DEF Queued
<1>8. CASE d = 0
  <2>1. executed' = executed /\ requested' = requested /\ frames' = frames
    BY <1>2, <1>5, <1>8 DEF AdvanceInline
  <2>2. Unsent' = Unsent
    <3>1. /\ pumped' = (IF driven THEN input ELSE pumped)
          /\ commands' = (IF driven THEN <<>> ELSE commands)
      BY <1>8 DEF AdvanceInline
    <3>2. CASE driven
      <4>1. Unsent' = ((pumped \o commands) \o <<>>) \o <<>>
        BY <1>1, <1>2, <3>1, <3>2 DEF Unsent
      <4>2. pumped \o commands \in Seq(Inputs)
        BY FlowTypes, JoinedSeq
      <4> QED BY <1>6, <3>2, <4>1, <4>2, JoinsJoin
    <3>3. CASE ~driven
      BY <1>1, <1>2, <3>1, <3>3 DEF Unsent
    <3> QED BY <3>2, <3>3
  <2> QED BY <1>2, <1>5, <2>1, <2>2, FlowStays
<1>9. CASE d > 0
  <2>1. executed' = executed \o [i \in 1 .. Len(input) |-> [input |-> input[i], frame |-> frames + 1]]
    <3>1. d # 0
      BY <1>9
    <3> QED BY <3>1 DEF AdvanceInline
  <2>2. Unsent' = <<>>
    <3>1. pumped' = <<>> /\ commands' = <<>> /\ pending' = <<>>
      BY <1>1, <1>2, <1>9 DEF AdvanceInline
    <3>2. (<<>> \o <<>>) \o <<>> = <<>>
      OBVIOUS
    <3> QED BY <3>1, <3>2 DEF Unsent
  <2> HIDE DEF input
  <2>3. PICK new : new = Longer(cut, d)
    OBVIOUS
  <2>4. /\ Cuts(new)'
        /\ \A f \in 0 .. requested : new[f] = cut[f]
        /\ \A f \in requested + 1 .. requested + d : new[f] = Len(issued)
    BY <1>2, <1>4, <2>3, CutsLonger
  <2>5. PICK last : last = Len(issued)
    OBVIOUS
  <2>6. new[frames'] = last /\ new[requested'] = last /\ frames' = requested'
    BY <1>2, <1>5, <1>9, <2>4, <2>5
  <2>7. Past(last)'
    <3>1. PICK a : a = cut[frames]
      OBVIOUS
    <3>2. a \in Nat /\ last \in Nat /\ a <= last /\ last <= Len(issued)
      BY <1>4, <1>5, <2>5, <3>1 DEF Cuts
    <3>3. ASSUME NEW i \in a + 1 .. last PROVE issued[i] = frames
      <4>1. i \in 1 .. Len(issued)
        BY <1>5, <3>2
      <4>2. issued[i] \in Nat
        BY <4>1, IssuedAt
      <4>3. issued[i] <= requested /\ ~(issued[i] < frames)
        BY <1>4, <1>5, <3>1, <3>2, <4>1 DEF Cuts
      <4> QED BY <1>5, <4>2, <4>3
    <3> QED BY <1>2, <1>4, <1>7, <2>1, <2>5, <3>1, <3>2, <3>3, PastGrows
  <2>8. Run(last, last) = <<>>
    BY <1>5, <2>5, RunType
  <2>9. Queued(new)'
    <3>1. item' = Run(new[frames'], new[frames' + Taken'])
      <4>1. item = Run(cut[frames], cut[frames])
        BY <1>4, <1>5 DEF Queued
      <4>2. cut[frames] \in Nat
        BY <1>4, <1>5 DEF Cuts
      <4>3. item' = <<>>
        <5>1. Run(cut[frames], cut[frames]) = <<>>
          BY <4>2, RunNone
        <5> QED BY <1>2, <4>1, <5>1
      <4>4. frames' + Taken' = frames'
        BY <1>2, <1>5
      <4> QED BY <2>6, <2>8, <4>3, <4>4
    <3>2. frames' + Taken' + Len(work') = requested'
      BY <1>2, <1>5
    <3>3. \A k \in 1 .. Len(work') : work'[k] = Run(new[frames' + Taken' + k - 1], new[frames' + Taken' + k])
      BY <1>5
    <3>4. Unsent' = Run(new[requested'], Len(issued'))
      BY <1>2, <2>2, <2>5, <2>6, <2>8
    <3> QED BY <3>1, <3>2, <3>3, <3>4 DEF Queued
  <2>10. Flows(new)'
    BY <2>4, <2>6, <2>7, <2>9 DEF Flows
  <2> QED BY <2>7, <2>10 DEF Flow, Past
<1> QED BY <1>2, <1>8, <1>9

LEMMA OrderInductive == Spec => [](PlaceInv /\ Flow)
<1>1. Init => PlaceInv /\ Flow
  BY PlacesAtInit, FlowAtInit
<1>2. TypeInv /\ IInv /\ PlaceInv /\ Flow /\ [Next]_vars => PlaceInv' /\ Flow'
  <2> SUFFICES ASSUME TypeInv, IInv, PlaceInv, Flow, [Next]_vars PROVE PlaceInv' /\ Flow'
    OBVIOUS
  <2>1. CASE Worker
    BY <2>1, PlacesOfWorker, FlowOfWorker
  <2>2. CASE Render
    <3>1. PlaceInv'
      BY <2>2, PlacesOfWindow, PlacesOfWaits, PlacesOfAdvance DEF Render, Go, Leave
    <3>2. Flow'
      BY <2>2, FlowOfMoves, FlowOfStart, FlowOfUsed, FlowOfPush, FlowOfBatch, FlowOfInline
         DEF Render, Go, Leave
    <3> QED BY <3>1, <3>2
  <2>3. CASE UNCHANGED vars
    <3>1. PlaceInv'
      BY <2>3 DEF vars, sharedVars, ownerVars, inputVars, gameVars, PlaceInv, Idle
    <3>2. Flow'
      BY <2>3 DEF vars, sharedVars, ownerVars, workerVars, inputVars, gameVars, Flow, Flows, Cuts,
                  Past, Queued, Unsent, Taken
    <3> QED BY <3>1, <3>2
  <2> QED BY <2>1, <2>2, <2>3 DEF Next
<1> QED BY <1>1, <1>2, TypesInductive, WorkerInductive, PTL DEF Spec

\* Input runs once, in the order of its issue, whole and in the first frame
\* requested after it, however windows, waits, queued frames and switches of the
\* worker fall between (pushFrameLocked, stashHeldCommandsLocked, setLogicThread).
THEOREM InputRunsInItsFrame == Spec => []InputInItsFrame
<1>1. TypeInv /\ Flow => InputInItsFrame
  <2> SUFFICES ASSUME TypeInv, Flow PROVE InputInItsFrame
    OBVIOUS
  <2>1. \A i \in 1 .. Len(executed) : executed[i].input = i /\ executed[i].frame = issued[i] + 1
    <3> TAKE i \in 1 .. Len(executed)
    <3>1. executed[i] = [input |-> i, frame |-> issued[i] + 1]
      BY DEF Flow, Past
    <3> QED BY <3>1
  <2>2. ASSUME NEW i \in 1 .. Len(issued), issued[i] < frames, ~error PROVE i <= Len(executed)
    <3>1. PICK cut : Cuts(cut) /\ Past(cut[frames])
      BY <2>2 DEF Flow, Flows
    <3>2. frames \in 0 .. requested
      BY FlowNumbers
    <3> QED BY <2>2, <3>1, <3>2 DEF Cuts, Past
  <2> QED BY <2>1, <2>2 DEF InputInItsFrame
<1> QED BY <1>1, OrderInductive, TypesInductive, PTL
=============================================================================
