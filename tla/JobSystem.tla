------------------------------ MODULE JobSystem ------------------------------
(***************************************************************************)
(* JobSystem (engine/src/Common/JobSystem.h, System/JobSystem.cpp): the    *)
(* pool of threads that runs the data-parallel loops of the simulation.    *)
(* One caller at a time publishes a job to the workers and takes chunks    *)
(* with them; a caller that finds the pool busy runs its job alone.        *)
(*                                                                         *)
(* A section under m_mutex is one action; what is read or written outside  *)
(* it (the counter of chunks, the fields of the job) is an action of its   *)
(* own.  `sleeping` holds the threads in a wait of a condition variable    *)
(* that nothing has notified since: workers wait for m_wake, callers for   *)
(* m_done.                                                                 *)
(*                                                                         *)
(* A chunk's fate is what its body does: it may throw, and it may leave    *)
(* another floating-point environment behind.  A body that dispatches to   *)
(* its own pool runs that job inside its chunk (t_runningPool), which is   *)
(* part of the body here.                                                  *)
(***************************************************************************)
EXTENDS Integers, FiniteSets

CONSTANTS
    Caller,       \* the threads that call parallelFor
    Worker,       \* the threads a pool can start
    Crew,         \* the sets of them it runs with, one for each thread count
    None,
    Job,          \* the calls: a number of chunks, each one's fate, and whether
                  \* the caller is in the canonical environment
    Simulation,   \* m_fp = FloatingPoint::Simulation
    MaxCalls,     \* bounds of the calls ...
    MaxResizes    \* ... and of the changes of the thread count

Fate == {"ok", "throws", "leaves", "both"}

ASSUME JobAssumption ==
    /\ Caller \intersect Worker = {} /\ None \notin Caller
    /\ IsFiniteSet(Worker) /\ Crew \subseteq SUBSET Worker
    /\ Job # {}
    /\ \A j \in Job : /\ j.count \in Nat \ {0}
                      /\ j.fate \in [0 .. j.count - 1 -> Fate]
                      /\ j.clean \in BOOLEAN
    /\ Simulation \in BOOLEAN
    /\ MaxCalls \in Nat /\ MaxResizes \in Nat

Thread == Caller \union Worker

VARIABLES
    hired,        \* m_workers: m_threads - 1 of the workers
    dispatcher,   \* who holds m_dispatchMutex
    open,         \* m_open
    generation,   \* m_generation
    joined,       \* m_joined
    next,         \* m_nextChunk
    chunks,       \* m_chunks
    body,         \* m_fn and m_body: the caller whose job is published
    error,        \* m_error and m_failedChunk
    stop,         \* m_stop
    pc,           \* where each thread is
    sleeping,     \* the threads waiting for a notification
    seen,         \* workerMain's seen
    chunk,        \* the chunk each thread took last
    serving,      \* the caller whose body each thread runs
    job,          \* each caller's call
    ran,          \* the chunks of it that ran
    result,       \* what it returned: no error or the one it throws
    calls, resizes

poolVars == <<hired, dispatcher, open, generation, joined, next, chunks, body, error, stop>>
threadVars == <<pc, sleeping, seen, chunk, serving>>
callVars == <<job, ran, result, calls, resizes>>
vars == <<poolVars, threadVars, callVars>>

-----------------------------------------------------------------------------

Error == [chunk : Nat, kind : {"none", "thrown", "environment"}]
NoError == [chunk |-> 0, kind |-> "none"]

\* The job of a thread that is in no call.
NoCall == CHOOSE j \in Job : TRUE

\* What one thread makes of a chunk: an environment error replaces the
\* exception of its own chunk.
ErrorOf(fate) ==
    IF Simulation /\ fate \in {"leaves", "both"} THEN "environment"
    ELSE IF fate \in {"throws", "both"} THEN "thrown"
    ELSE "none"

\* (The Mutant_ operators are slips a change of the code could make.)
\* The first error to be reported stays.
Mutant_Recorded(e, replaces) == IF error.kind = "none" \/ replaces THEN e ELSE error

\* fail: the lowest failing chunk's error stays.
Recorded(e, replaces) ==
    IF \/ error.kind = "none"
       \/ e.chunk < error.chunk
       \/ replaces /\ e.chunk = error.chunk
    THEN e ELSE error

Resizing == \E t \in Caller : pc[t] \in {"Stop", "Join"}

-----------------------------------------------------------------------------
\* parallelFor and dispatch, up to the hand-over.

\* A pool that is in use is used again.
Mutant_RunsInline(j) == hired = {} \/ j.count = 1

RunsInline(j) == hired = {} \/ j.count = 1 \/ dispatcher # None

\* The header's condition: nobody calls while the thread count changes.
Call(t) ==
    /\ pc[t] = "Idle" /\ ~Resizing
    /\ calls < MaxCalls /\ calls' = calls + 1
    /\ \E j \in Job :
        /\ job' = [job EXCEPT ![t] = j]
        /\ IF RunsInline(j)
           THEN /\ pc' = [pc EXCEPT ![t] = "Inline"]
                /\ UNCHANGED dispatcher
           ELSE /\ pc' = [pc EXCEPT ![t] = "Publish"]
                /\ dispatcher' = t
    /\ UNCHANGED <<hired, open, generation, joined, next, chunks, body, error, stop,
                   sleeping, seen, chunk, serving, ran, result, resizes>>

\* runInline: the chunks in order, up to the first that fails.
InlineChunk(t) ==
    LET c == chunk[t]
        outside == Simulation /\ ~job[t].clean
        failure == IF outside THEN "environment" ELSE ErrorOf(job[t].fate[c])
    IN  /\ pc[t] = "Inline"
        /\ ran' = IF outside THEN ran ELSE [ran EXCEPT ![t] = @ \union {c}]
        /\ chunk' = [chunk EXCEPT ![t] = c + 1]
        /\ result' = IF failure = "none" THEN result
                     ELSE [result EXCEPT ![t] = [chunk |-> c, kind |-> failure]]
        /\ pc' = IF failure # "none" \/ c + 1 = job[t].count
                 THEN [pc EXCEPT ![t] = "Return"] ELSE pc
        /\ UNCHANGED <<poolVars, sleeping, seen, serving, job, calls, resizes>>

\* A caller outside the canonical environment lets the pool go and throws.
RefuseCaller(t) ==
    /\ pc[t] = "Publish" /\ Simulation /\ ~job[t].clean
    /\ result' = [result EXCEPT ![t] = [chunk |-> 0, kind |-> "environment"]]
    /\ pc' = [pc EXCEPT ![t] = "Return"]
    /\ UNCHANGED <<poolVars, sleeping, seen, chunk, serving, job, ran, calls, resizes>>

Publish(t) ==
    /\ pc[t] = "Publish" /\ (Simulation => job[t].clean)
    /\ body' = t
    /\ chunks' = job[t].count
    /\ next' = 0
    /\ error' = NoError
    /\ open' = TRUE
    /\ generation' = generation + 1
    /\ pc' = [pc EXCEPT ![t] = "Wake"]
    /\ UNCHANGED <<hired, dispatcher, joined, stop, sleeping, seen, chunk, serving, callVars>>

Wake(t) ==
    /\ pc[t] = "Wake"
    /\ sleeping' = sleeping \ Worker
    /\ pc' = [pc EXCEPT ![t] = "Take"]
    /\ UNCHANGED <<poolVars, seen, chunk, serving, callVars>>

-----------------------------------------------------------------------------
\* runChunks, on the caller and on the workers that joined.

Take(x) ==
    /\ pc[x] = "Take"
    /\ chunk' = [chunk EXCEPT ![x] = next]
    /\ next' = next + 1
    /\ pc' = [pc EXCEPT ![x] = "Taken"]
    /\ UNCHANGED <<hired, dispatcher, open, generation, joined, chunks, body, error, stop,
                   sleeping, seen, serving, callVars>>

Begin(x) ==
    /\ pc[x] = "Taken"
    /\ IF chunk[x] >= chunks
       THEN /\ pc' = [pc EXCEPT ![x] = IF x \in Caller THEN "Close" ELSE "Leave"]
            /\ chunk' = [chunk EXCEPT ![x] = 0]
            /\ serving' = [serving EXCEPT ![x] = None]
       ELSE /\ pc' = [pc EXCEPT ![x] = "Body"]
            /\ serving' = [serving EXCEPT ![x] = body]
            /\ UNCHANGED chunk
    /\ UNCHANGED <<poolVars, sleeping, seen, callVars>>

FateOf(x) == job[serving[x]].fate[chunk[x]]

End(x) ==
    /\ pc[x] = "Body"
    /\ ran' = [ran EXCEPT ![serving[x]] = @ \union {chunk[x]}]
    /\ pc' = [pc EXCEPT ![x] =
            IF FateOf(x) \in {"throws", "both"} THEN "Fail"
            ELSE IF Simulation /\ FateOf(x) = "leaves" THEN "Left"
            ELSE "Take"]
    /\ UNCHANGED <<poolVars, sleeping, seen, chunk, serving, job, result, calls, resizes>>

Fail(x) ==
    /\ pc[x] = "Fail"
    /\ error' = Recorded([chunk |-> chunk[x], kind |-> "thrown"], FALSE)
    /\ pc' = [pc EXCEPT ![x] = IF Simulation /\ FateOf(x) = "both" THEN "Left" ELSE "Take"]
    /\ UNCHANGED <<hired, dispatcher, open, generation, joined, next, chunks, body, stop,
                   sleeping, seen, chunk, serving, callVars>>

Left(x) ==
    /\ pc[x] = "Left"
    /\ error' = Recorded([chunk |-> chunk[x], kind |-> "environment"], TRUE)
    /\ pc' = [pc EXCEPT ![x] = "Take"]
    /\ UNCHANGED <<hired, dispatcher, open, generation, joined, next, chunks, body, stop,
                   sleeping, seen, chunk, serving, callVars>>

-----------------------------------------------------------------------------
\* The end of a dispatch.

\* The workers inside are not waited for.
Mutant_Drained(t) ==
    /\ result' = [result EXCEPT ![t] = error]
    /\ error' = NoError
    /\ body' = None
    /\ pc' = [pc EXCEPT ![t] = "Return"]
    /\ UNCHANGED sleeping

\* The caller waits until no worker is inside, then takes the error.
Drained(t) ==
    IF joined = 0
    THEN /\ result' = [result EXCEPT ![t] = error]
         /\ error' = NoError
         /\ body' = None
         /\ pc' = [pc EXCEPT ![t] = "Return"]
         /\ UNCHANGED sleeping
    ELSE /\ sleeping' = sleeping \union {t}
         /\ pc' = [pc EXCEPT ![t] = "Drain"]
         /\ UNCHANGED <<result, error, body>>

Close(t) ==
    /\ pc[t] = "Close"
    /\ open' = FALSE
    /\ Drained(t)
    /\ UNCHANGED <<hired, dispatcher, generation, joined, next, chunks, stop,
                   seen, chunk, serving, job, ran, calls, resizes>>

Drain(t) ==
    /\ pc[t] = "Drain" /\ t \notin sleeping
    /\ Drained(t)
    /\ UNCHANGED <<hired, dispatcher, open, generation, joined, next, chunks, stop,
                   seen, chunk, serving, job, ran, calls, resizes>>

\* Leaving parallelFor, which lets the pool go if the call held it.
Return(t) ==
    /\ pc[t] = "Return"
    /\ dispatcher' = IF dispatcher = t THEN None ELSE dispatcher
    /\ pc' = [pc EXCEPT ![t] = "Idle"]
    /\ chunk' = [chunk EXCEPT ![t] = 0]
    /\ job' = [job EXCEPT ![t] = NoCall]
    /\ ran' = [ran EXCEPT ![t] = {}]
    /\ result' = [result EXCEPT ![t] = NoError]
    /\ UNCHANGED <<hired, open, generation, joined, next, chunks, body, error, stop,
                   sleeping, seen, serving, calls, resizes>>

-----------------------------------------------------------------------------
\* workerMain.

Start(w) ==
    /\ pc[w] = "New"
    /\ seen' = [seen EXCEPT ![w] = generation]
    /\ pc' = [pc EXCEPT ![w] = "Look"]
    /\ UNCHANGED <<poolVars, sleeping, chunk, serving, callVars>>

\* A worker runs chunks without being counted.
Mutant_Joined == joined

\* Only an open job is joined.
Joined == IF open THEN joined + 1 ELSE joined

\* The test of the wait and what follows it: leave, sleep, pass over a job
\* that is closed, or join an open one.
Look(w) ==
    /\ pc[w] = "Look" /\ w \notin sleeping
    /\ \/ /\ stop
          /\ pc' = [pc EXCEPT ![w] = "Off"]
          /\ UNCHANGED <<sleeping, seen, joined>>
       \/ /\ ~stop /\ generation = seen[w]
          /\ sleeping' = sleeping \union {w}
          /\ UNCHANGED <<pc, seen, joined>>
       \/ /\ ~stop /\ generation # seen[w]
          /\ seen' = [seen EXCEPT ![w] = generation]
          /\ pc' = IF open THEN [pc EXCEPT ![w] = "Take"] ELSE pc
          /\ joined' = Joined
          /\ UNCHANGED sleeping
    /\ UNCHANGED <<hired, dispatcher, open, generation, next, chunks, body, error, stop,
                   chunk, serving, callVars>>

\* The last worker to leave does not notify the caller.
Mutant_Leave(w) ==
    /\ pc[w] = "Leave"
    /\ joined' = joined - 1
    /\ pc' = [pc EXCEPT ![w] = "Look"]
    /\ UNCHANGED <<hired, dispatcher, open, generation, next, chunks, body, error, stop,
                   sleeping, seen, chunk, serving, callVars>>

Leave(w) ==
    /\ pc[w] = "Leave"
    /\ joined' = joined - 1
    /\ sleeping' = IF joined' = 0 THEN sleeping \ Caller ELSE sleeping
    /\ pc' = [pc EXCEPT ![w] = "Look"]
    /\ UNCHANGED <<hired, dispatcher, open, generation, next, chunks, body, error, stop,
                   seen, chunk, serving, callVars>>

-----------------------------------------------------------------------------
\* setThreadCount, between dispatches only.

StopWorkers(t) ==
    /\ \A u \in Caller : pc[u] = "Idle"
    /\ dispatcher = None /\ dispatcher' = t
    /\ resizes < MaxResizes /\ resizes' = resizes + 1
    /\ stop' = TRUE
    /\ pc' = [pc EXCEPT ![t] = "Stop"]
    /\ UNCHANGED <<hired, open, generation, joined, next, chunks, body, error,
                   sleeping, seen, chunk, serving, job, ran, result, calls>>

WakeToStop(t) ==
    /\ pc[t] = "Stop"
    /\ sleeping' = sleeping \ Worker
    /\ pc' = [pc EXCEPT ![t] = "Join"]
    /\ UNCHANGED <<poolVars, seen, chunk, serving, callVars>>

\* The old workers are joined, new ones start.
StartWorkers(t) ==
    /\ pc[t] = "Join"
    /\ \A w \in hired : pc[w] = "Off"
    /\ \E started \in Crew :
        /\ hired' = started
        /\ pc' = [x \in Thread |-> IF x = t THEN "Idle" ELSE IF x \in started THEN "New" ELSE pc[x]]
    /\ stop' = FALSE
    /\ dispatcher' = None
    /\ UNCHANGED <<open, generation, joined, next, chunks, body, error,
                   sleeping, seen, chunk, serving, callVars>>

-----------------------------------------------------------------------------

Init ==
    /\ hired \in Crew
    /\ dispatcher = None /\ open = FALSE /\ generation = 0 /\ joined = 0
    /\ next = 0 /\ chunks = 0 /\ body = None /\ error = NoError /\ stop = FALSE
    /\ pc = [x \in Thread |-> IF x \in Caller THEN "Idle" ELSE IF x \in hired THEN "New" ELSE "Off"]
    /\ sleeping = {}
    /\ seen = [w \in Worker |-> 0]
    /\ chunk = [x \in Thread |-> 0]
    /\ serving = [x \in Thread |-> None]
    /\ job = [t \in Caller |-> NoCall]
    /\ ran = [t \in Caller |-> {}]
    /\ result = [t \in Caller |-> NoError]
    /\ calls = 0 /\ resizes = 0

RunChunks(x) == Take(x) \/ Begin(x) \/ End(x) \/ Fail(x) \/ Left(x)

CallerStep(t) ==
    \/ InlineChunk(t) \/ RefuseCaller(t) \/ Publish(t) \/ Wake(t) \/ RunChunks(t)
    \/ Close(t) \/ Drain(t) \/ Return(t)
    \/ WakeToStop(t) \/ StartWorkers(t)

WorkerStep(w) == Start(w) \/ Look(w) \/ RunChunks(w) \/ Leave(w)

\* A wait of a condition variable may return without a notification.
SpuriousWake(x) ==
    /\ x \in sleeping
    /\ sleeping' = sleeping \ {x}
    /\ UNCHANGED <<poolVars, pc, seen, chunk, serving, callVars>>

Next ==
    \/ \E t \in Caller : Call(t) \/ StopWorkers(t) \/ CallerStep(t)
    \/ \E w \in Worker : WorkerStep(w)
    \/ \E x \in Thread : SpuriousWake(x)

Spec == Init /\ [][Next]_vars

\* Every thread runs; no wait is relied on to return unnotified.
FairSpec ==
    /\ Spec
    /\ \A t \in Caller : WF_vars(CallerStep(t))
    /\ \A w \in Worker : WF_vars(WorkerStep(w))

-----------------------------------------------------------------------------
\* Properties

InJob == {"Take", "Taken", "Body", "Fail", "Left"}
CallerAt == {"Idle", "Inline", "Publish", "Wake", "Close", "Drain", "Return",
             "Stop", "Join"} \union InJob
WorkerAt == {"New", "Look", "Leave", "Off"} \union InJob

PoolType ==
    /\ hired \in Crew
    /\ dispatcher \in Caller \union {None} /\ body \in Caller \union {None}
    /\ open \in BOOLEAN /\ stop \in BOOLEAN
    /\ generation \in Nat /\ joined \in Nat /\ next \in Nat /\ chunks \in Nat
    /\ error \in Error

PcType ==
    /\ pc \in [Thread -> CallerAt \union WorkerAt]
    /\ \A t \in Caller : pc[t] \in CallerAt
    /\ \A w \in Worker : pc[w] \in WorkerAt

CallType ==
    /\ sleeping \in SUBSET Thread
    /\ seen \in [Worker -> Nat]
    /\ chunk \in [Thread -> Nat]
    /\ serving \in [Thread -> Caller \union {None}]
    /\ job \in [Caller -> Job]
    /\ ran \in [Caller -> SUBSET Nat]
    /\ result \in [Caller -> Error]
    /\ calls \in Nat /\ resizes \in Nat

TypeOK == PoolType /\ PcType /\ CallType

\* A body is a closure on its caller's stack: while any thread runs a chunk
\* of it, its caller is inside the dispatch that published it.
BodyAlive ==
    \A x \in Thread : pc[x] \in {"Body", "Fail", "Left"} =>
        /\ serving[x] \in Caller
        /\ pc[serving[x]] \in InJob \union {"Wake", "Close", "Drain"}
        /\ body = serving[x]

\* No chunk of a job runs twice, on one thread or on two, whatever jobs came
\* before it.
ChunkOnce ==
    \A x \in Thread : pc[x] = "Body" =>
        /\ chunk[x] \in 0 .. job[serving[x]].count - 1
        /\ chunk[x] \notin ran[serving[x]]
        /\ \A y \in Thread \ {x} : pc[y] = "Body" => chunk[y] # chunk[x]

\* The determinism contract: a call returns or throws what a pool of one
\* thread would, and if it returns every chunk ran.
Chunks(j) == 0 .. j.count - 1
Failing(j) == {c \in Chunks(j) : ErrorOf(j.fate[c]) # "none"}
SequentialError(j, e) ==
    IF Simulation /\ ~j.clean THEN e = [chunk |-> 0, kind |-> "environment"]
    ELSE IF Failing(j) = {} THEN e = NoError
    ELSE /\ e.chunk \in Failing(j) /\ \A c \in Failing(j) : e.chunk <= c
         /\ e.kind = ErrorOf(j.fate[e.chunk])

SameAsSequential ==
    \A t \in Caller : pc[t] = "Return" =>
        /\ SequentialError(job[t], result[t])
        /\ result[t] = NoError => ran[t] = Chunks(job[t])

\* No call and no change of the thread count waits for ever: no
\* notification is lost between a worker's test and its sleep.
CallsReturn == \A t \in Caller : pc[t] # "Idle" ~> pc[t] = "Idle"

=============================================================================
