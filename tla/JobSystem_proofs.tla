---------------------------- MODULE JobSystem_proofs ----------------------------
(***************************************************************************)
(* What holds of a pool for every number of callers and workers, every     *)
(* size of job, every fate of its chunks and both kinds of pool.           *)
(***************************************************************************)
EXTENDS JobSystem, TLAPS, FiniteSetTheorems

-----------------------------------------------------------------------------
\* The inductive invariant.

Inside == {w \in Worker : pc[w] \in InJob \union {"Leave"}}

\* The caller's body is in the workers' hands.
Handed(t) == pc[t] \in InJob \union {"Wake", "Close", "Drain"}

\* A chunk is taken, its body has not ended; it has, and is to be reported.
Holds(x) == pc[x] \in {"Taken", "Body"}
Reports(x) == pc[x] \in {"Fail", "Left"}

\* One call has the pool; the job a worker is inside is that call's.
Ownership ==
    /\ \A t \in Caller : Handed(t) \/ pc[t] \in {"Publish", "Stop", "Join"} => dispatcher = t
    /\ \A t \in Caller : Handed(t) => body = t /\ chunks = job[t].count /\ (Simulation => job[t].clean)
    /\ open \/ Inside # {} => body \in Caller /\ Handed(body)
    /\ \A t \in Caller : pc[t] = "Drain" => ~open
    /\ joined = Cardinality(Inside)

\* Every chunk below the counter belongs to one thread or has run.
Claims ==
    /\ \A x \in Thread : Holds(x) \/ Reports(x) => chunk[x] < next
    /\ \A x \in Thread : pc[x] = "Body" \/ Reports(x) => serving[x] = body /\ chunk[x] < chunks
    /\ \A x, y \in Thread : Holds(x) /\ Holds(y) /\ chunk[x] = chunk[y] => x = y
    /\ \A t \in Caller : Handed(t) =>
        /\ ran[t] \subseteq {c \in Chunks(job[t]) : c < next}
        /\ \A x \in Thread : Holds(x) => chunk[x] \notin ran[t]
        /\ \A x \in Thread : Reports(x) => chunk[x] \in ran[t]

\* The error kept is the one of the lowest failing chunk reported so far.
Kept(t) ==
    /\ \A c \in Chunks(job[t]) : c < next => c \in ran[t] \/ \E x \in Thread : Holds(x) /\ chunk[x] = c
    /\ \A c \in ran[t] \intersect Failing(job[t]) :
        \/ error.kind # "none" /\ error.chunk <= c
        \/ \E x \in Thread : Reports(x) /\ chunk[x] = c
    /\ error.kind # "none" =>
        /\ error.chunk \in ran[t] \intersect Failing(job[t])
        /\ \/ error.kind = ErrorOf(job[t].fate[error.chunk])
           \/ \E x \in Thread : pc[x] = "Left" /\ chunk[x] = error.chunk
    /\ error.kind = "none" => error = NoError
    /\ \A x \in Thread : pc[x] = "Fail" => job[t].fate[chunk[x]] \in {"throws", "both"}
    /\ \A x \in Thread : pc[x] = "Left" => Simulation /\ job[t].fate[chunk[x]] \in {"leaves", "both"}
    /\ pc[t] \in {"Close", "Drain"} => next >= chunks

\* A job that runs inline has had no failure yet.
Alone(t) ==
    /\ result[t] = NoError
    /\ chunk[t] < job[t].count
    /\ ran[t] = {c \in Chunks(job[t]) : c < chunk[t]}
    /\ \A c \in ran[t] : ErrorOf(job[t].fate[c]) = "none"
    /\ Simulation /\ ~job[t].clean => chunk[t] = 0

Recording == \A t \in Caller : Handed(t) => Kept(t)

\* A thread outside a job starts anew; one that leaves has the contract's result.
Settled(t) ==
    /\ pc[t] \in {"Idle", "Stop", "Join", "Publish"} => ran[t] = {}
    /\ pc[t] \in {"Idle", "Stop", "Join"} => chunk[t] = 0 /\ result[t] = NoError
    /\ pc[t] = "Inline" => Alone(t)
    /\ pc[t] = "Return" =>
        /\ SequentialError(job[t], result[t])
        /\ result[t] = NoError => ran[t] = Chunks(job[t])

Calls == \A t \in Caller : Settled(t)

IInv == TypeOK /\ Ownership /\ Claims /\ Recording /\ Calls

-----------------------------------------------------------------------------
\* Types.

LEMMA InsideFinite == IsFiniteSet(Inside) /\ Inside \subseteq Worker
<1>1. Inside \subseteq Worker
  BY DEF Inside
<1> QED BY <1>1, JobAssumption, FS_Subset

LEMMA Data ==
    /\ NoCall \in Job
    /\ NoError \in Error
    /\ \A j \in Job : /\ j.count \in Nat \ {0}
                      /\ j.fate \in [Chunks(j) -> Fate]
                      /\ Chunks(j) \subseteq Nat
                      /\ 0 \in Chunks(j)
                      /\ \A c \in Nat : c \in Chunks(j) <=> c < j.count
                      /\ Failing(j) \subseteq Chunks(j)
<1>1. NoCall \in Job
  BY JobAssumption DEF NoCall
<1>2. NoError \in Error
  BY DEF NoError, Error
<1> QED BY <1>1, <1>2, JobAssumption DEF Chunks, Failing

LEMMA ErrorKinds ==
    ASSUME NEW fate, NEW c \in Nat
    PROVE  /\ ErrorOf(fate) \in {"none", "thrown", "environment"}
           /\ [chunk |-> c, kind |-> ErrorOf(fate)] \in Error
           /\ [chunk |-> c, kind |-> "thrown"] \in Error
           /\ [chunk |-> c, kind |-> "environment"] \in Error
BY DEF ErrorOf, Error

\* One thread moves.
LEMMA Moves ==
    ASSUME PcType, NEW x \in Thread, NEW l, pc' = [pc EXCEPT ![x] = l],
           x \in Caller => l \in CallerAt, x \in Worker => l \in WorkerAt
    PROVE  /\ PcType'
           /\ pc'[x] = l
           /\ \A y \in Thread : y # x => pc'[y] = pc[y]
BY JobAssumption DEF PcType, Thread

LEMMA TypeInit == Init => TypeOK
<1> SUFFICES ASSUME Init PROVE TypeOK
  OBVIOUS
<1> USE DEF Init
<1>1. PoolType
  BY Data DEF PoolType
<1>2. PcType
  BY JobAssumption DEF PcType, CallerAt, WorkerAt, Thread
<1>3. CallType
  BY Data DEF CallType, Thread
<1> QED BY <1>1, <1>2, <1>3 DEF TypeOK

LEMMA TypeStep == TypeOK /\ joined = Cardinality(Inside) /\ [Next]_vars => TypeOK'
<1> SUFFICES ASSUME TypeOK, joined = Cardinality(Inside), [Next]_vars PROVE TypeOK'
  OBVIOUS
<1> USE DEF TypeOK
<1>0. Caller \subseteq Thread /\ Worker \subseteq Thread /\ None \notin Caller
      /\ \A t \in Caller : t \notin Worker
  BY JobAssumption DEF Thread
<1>1. ASSUME NEW t \in Caller, Call(t) PROVE TypeOK'
  <2>0. PICK j \in Job :
          /\ job' = [job EXCEPT ![t] = j]
          /\ \/ pc' = [pc EXCEPT ![t] = "Inline"] /\ UNCHANGED dispatcher
             \/ pc' = [pc EXCEPT ![t] = "Publish"] /\ dispatcher' = t
    BY <1>1 DEF Call
  <2>1. PcType'
    BY <1>0, <2>0, Moves DEF CallerAt
  <2>2. PoolType'
    BY <1>1, <2>0 DEF Call, PoolType
  <2>3. CallType'
    BY <1>1, <2>0 DEF Call, CallType
  <2> QED BY <2>1, <2>2, <2>3
<1>2. ASSUME NEW t \in Caller, InlineChunk(t) PROVE TypeOK'
  <2>1. PcType'
    <3>1. CASE pc' = pc
      BY <3>1 DEF PcType
    <3>2. CASE pc' = [pc EXCEPT ![t] = "Return"]
      BY <1>0, <3>2, Moves DEF CallerAt
    <3> QED BY <1>2, <3>1, <3>2 DEF InlineChunk
  <2>2. PoolType'
    BY <1>2 DEF InlineChunk, PoolType, poolVars
  <2>3. CallType'
    <3> DEFINE outside == Simulation /\ ~job[t].clean
               failure == IF outside THEN "environment" ELSE ErrorOf(job[t].fate[chunk[t]])
    <3>1. chunk[t] \in Nat
      BY <1>0 DEF CallType
    <3>2. [chunk |-> chunk[t], kind |-> failure] \in Error
      BY <3>1, ErrorKinds
    <3>3. result' \in [Caller -> Error]
      BY <1>2, <3>2 DEF InlineChunk, CallType
    <3>4. ran' \in [Caller -> SUBSET Nat]
      <4>1. CASE ran' = ran
        BY <4>1 DEF CallType
      <4>2. CASE ran' = [ran EXCEPT ![t] = @ \union {chunk[t]}]
        BY <3>1, <4>2 DEF CallType
      <4> QED BY <1>2, <4>1, <4>2 DEF InlineChunk
    <3>5. chunk' \in [Thread -> Nat]
      <4>1. chunk' = [chunk EXCEPT ![t] = chunk[t] + 1]
        BY <1>2 DEF InlineChunk
      <4>2. chunk[t] + 1 \in Nat
        BY <3>1
      <4> QED BY <1>0, <4>1, <4>2 DEF CallType
    <3> QED BY <1>2, <3>3, <3>4, <3>5 DEF InlineChunk, CallType
  <2> QED BY <2>1, <2>2, <2>3
<1>3. ASSUME NEW t \in Caller, RefuseCaller(t) PROVE TypeOK'
  <2>1. PcType'
    BY <1>3, <1>0, Moves DEF RefuseCaller, CallerAt, InJob
  <2>2. PoolType'
    BY <1>3 DEF RefuseCaller, PoolType, poolVars
  <2>3. CallType'
    BY <1>3, ErrorKinds DEF RefuseCaller, CallType
  <2> QED BY <2>1, <2>2, <2>3
<1>4. ASSUME NEW t \in Caller, Publish(t) PROVE TypeOK'
  <2>1. PcType'
    BY <1>4, <1>0, Moves DEF Publish, CallerAt, InJob
  <2>2. PoolType'
    BY <1>4, <1>0, Data DEF Publish, PoolType, CallType
  <2>3. CallType'
    BY <1>4 DEF Publish, CallType, callVars
  <2> QED BY <2>1, <2>2, <2>3
<1>5. ASSUME NEW t \in Caller, Wake(t) PROVE TypeOK'
  <2>1. PcType'
    BY <1>5, <1>0, Moves DEF Wake, CallerAt, InJob
  <2>2. PoolType'
    BY <1>5 DEF Wake, PoolType, poolVars
  <2>3. CallType'
    BY <1>5 DEF Wake, CallType, callVars
  <2> QED BY <2>1, <2>2, <2>3
<1>6. ASSUME NEW x \in Thread, Take(x) PROVE TypeOK'
  <2>1. PcType'
    BY <1>6, <1>0, Moves DEF Take, CallerAt, WorkerAt, InJob
  <2>2. PoolType'
    BY <1>6 DEF Take, PoolType, poolVars
  <2>3. CallType'
    BY <1>6 DEF Take, CallType, PoolType, callVars
  <2> QED BY <2>1, <2>2, <2>3
<1>7. ASSUME NEW x \in Thread, Begin(x) PROVE TypeOK'
  <2>1. PcType'
    BY <1>7, <1>0, Moves DEF Begin, CallerAt, WorkerAt, InJob
  <2>2. PoolType'
    BY <1>7 DEF Begin, PoolType, poolVars
  <2>3. CallType'
    BY <1>7 DEF Begin, CallType, PoolType, callVars
  <2> QED BY <2>1, <2>2, <2>3
<1>8. ASSUME NEW x \in Thread, End(x) PROVE TypeOK'
  <2>1. PcType'
    BY <1>8, <1>0, Moves DEF End, CallerAt, WorkerAt, InJob
  <2>2. PoolType'
    BY <1>8 DEF End, PoolType, poolVars
  <2>3. CallType'
    <3>1. ran' \in [Caller -> SUBSET Nat]
      BY <1>8, ZenonT(40) DEF End, CallType
    <3> QED BY <1>8, <3>1 DEF End, CallType
  <2> QED BY <2>1, <2>2, <2>3
<1>9. ASSUME NEW x \in Thread, Fail(x) PROVE TypeOK'
  <2>1. PcType'
    BY <1>9, <1>0, Moves DEF Fail, CallerAt, WorkerAt, InJob
  <2>2. PoolType'
    <3>1. chunk[x] \in Nat
      BY DEF CallType
    <3>2. error' \in Error
      BY <1>9, <3>1, ErrorKinds DEF Fail, Recorded, PoolType
    <3> QED BY <1>9, <3>2 DEF Fail, PoolType
  <2>3. CallType'
    BY <1>9 DEF Fail, CallType, callVars
  <2> QED BY <2>1, <2>2, <2>3
<1>10. ASSUME NEW x \in Thread, Left(x) PROVE TypeOK'
  <2>1. PcType'
    BY <1>10, <1>0, Moves DEF Left, CallerAt, WorkerAt, InJob
  <2>2. PoolType'
    <3>1. chunk[x] \in Nat
      BY DEF CallType
    <3>2. error' \in Error
      BY <1>10, <3>1, ErrorKinds DEF Left, Recorded, PoolType
    <3> QED BY <1>10, <3>2 DEF Left, PoolType
  <2>3. CallType'
    BY <1>10 DEF Left, CallType, callVars
  <2> QED BY <2>1, <2>2, <2>3
<1>11. ASSUME NEW t \in Caller, Close(t) PROVE TypeOK'
  <2>1. PcType'
    BY <1>11, <1>0, Moves DEF Close, Drained, CallerAt
  <2>2. PoolType'
    BY <1>11, Data DEF Close, Drained, PoolType
  <2>3. CallType'
    BY <1>11, <1>0 DEF Close, Drained, CallType, PoolType
  <2> QED BY <2>1, <2>2, <2>3
<1>12. ASSUME NEW t \in Caller, Drain(t) PROVE TypeOK'
  <2>1. PcType'
    BY <1>12, <1>0, Moves DEF Drain, Drained, CallerAt
  <2>2. PoolType'
    BY <1>12, Data DEF Drain, Drained, PoolType
  <2>3. CallType'
    BY <1>12, <1>0 DEF Drain, Drained, CallType, PoolType
  <2> QED BY <2>1, <2>2, <2>3
<1>13. ASSUME NEW t \in Caller, Return(t) PROVE TypeOK'
  <2>1. PcType'
    BY <1>13, <1>0, Moves DEF Return, CallerAt, InJob
  <2>2. PoolType'
    BY <1>13 DEF Return, PoolType, poolVars
  <2>3. CallType'
    BY <1>13, Data DEF Return, CallType
  <2> QED BY <2>1, <2>2, <2>3
<1>14. ASSUME NEW w \in Worker, Start(w) PROVE TypeOK'
  <2>1. PcType'
    BY <1>14, <1>0, Moves DEF Start, WorkerAt, InJob
  <2>2. PoolType'
    BY <1>14 DEF Start, PoolType, poolVars
  <2>3. CallType'
    BY <1>14 DEF Start, CallType, PoolType, callVars
  <2> QED BY <2>1, <2>2, <2>3
<1>15. ASSUME NEW w \in Worker, Look(w) PROVE TypeOK'
  <2>1. PcType'
    <3>1. CASE pc' = pc
      BY <3>1 DEF PcType
    <3>2. CASE pc' # pc
      BY <1>15, <1>0, <3>2, Moves DEF Look, WorkerAt, InJob
    <3> QED BY <3>1, <3>2
  <2>2. PoolType'
    BY <1>15 DEF Look, Joined, PoolType
  <2>3. CallType'
    BY <1>15, <1>0 DEF Look, CallType, PoolType, callVars
  <2> QED BY <2>1, <2>2, <2>3
<1>16. ASSUME NEW w \in Worker, Leave(w) PROVE TypeOK'
  <2>1. PcType'
    BY <1>16, <1>0, Moves DEF Leave, WorkerAt, InJob
  <2>2. PoolType'
    <3>1. w \in Inside
      BY <1>16 DEF Leave, Inside
    <3>2. Cardinality(Inside) # 0
      BY <3>1, InsideFinite, FS_EmptySet
    <3>3. joined' \in Nat
      BY <1>16, <3>2 DEF Leave, PoolType
    <3> QED BY <1>16, <3>3 DEF Leave, PoolType
  <2>3. CallType'
    BY <1>16 DEF Leave, CallType, callVars
  <2> QED BY <2>1, <2>2, <2>3
<1>17. ASSUME NEW t \in Caller, StopWorkers(t) PROVE TypeOK'
  <2>1. PcType'
    BY <1>17, <1>0, Moves DEF StopWorkers, CallerAt, InJob
  <2>2. PoolType'
    BY <1>17 DEF StopWorkers, PoolType, poolVars
  <2>3. CallType'
    BY <1>17 DEF StopWorkers, CallType, callVars
  <2> QED BY <2>1, <2>2, <2>3
<1>18. ASSUME NEW t \in Caller, WakeToStop(t) PROVE TypeOK'
  <2>1. PcType'
    BY <1>18, <1>0, Moves DEF WakeToStop, CallerAt, InJob
  <2>2. PoolType'
    BY <1>18 DEF WakeToStop, PoolType, poolVars
  <2>3. CallType'
    BY <1>18 DEF WakeToStop, CallType, callVars
  <2> QED BY <2>1, <2>2, <2>3
<1>19. ASSUME NEW t \in Caller, StartWorkers(t) PROVE TypeOK'
  <2>0. PICK started \in Crew :
          /\ hired' = started
          /\ pc' = [x \in Thread |-> IF x = t THEN "Idle" ELSE IF x \in started THEN "New" ELSE pc[x]]
    BY <1>19 DEF StartWorkers
  <2>1. PcType'
    BY <1>0, <2>0, JobAssumption DEF PcType, CallerAt, WorkerAt, Thread
  <2>2. PoolType'
    BY <1>19, <2>0 DEF StartWorkers, PoolType
  <2>3. CallType'
    BY <1>19 DEF StartWorkers, CallType, callVars
  <2> QED BY <2>1, <2>2, <2>3
<1>20. ASSUME NEW x \in Thread, SpuriousWake(x) PROVE TypeOK'
  <2>1. PcType'
    BY <1>20 DEF SpuriousWake, PcType
  <2>2. PoolType'
    BY <1>20 DEF SpuriousWake, PoolType, poolVars
  <2>3. CallType'
    BY <1>20 DEF SpuriousWake, CallType, callVars
  <2> QED BY <2>1, <2>2, <2>3
<1>21. CASE UNCHANGED vars
  BY <1>21 DEF vars, poolVars, threadVars, callVars, PoolType, PcType, CallType
<1> QED
  BY <1>0, <1>1, <1>2, <1>3, <1>4, <1>5, <1>6, <1>7, <1>8, <1>9, <1>10, <1>11, <1>12, <1>13, <1>14, <1>15, <1>16, <1>17, <1>18, <1>19, <1>20, <1>21
  DEF Next, CallerStep, WorkerStep, RunChunks

-----------------------------------------------------------------------------
\* Who has the pool.

LEMMA CallerMoves ==
    ASSUME PcType, NEW t \in Caller, NEW l \in CallerAt, pc' = [pc EXCEPT ![t] = l]
    PROVE  /\ Inside' = Inside
           /\ pc'[t] = l
           /\ \A x \in Thread : x # t => pc'[x] = pc[x]
           /\ \A u \in Caller : u # t => pc'[u] = pc[u]
           /\ \A w \in Worker : pc'[w] = pc[w]
<1>1. t \in Thread /\ t \notin Worker /\ Worker \subseteq Thread /\ Caller \subseteq Thread
  BY JobAssumption DEF Thread
<1>2. pc'[t] = l /\ \A x \in Thread : x # t => pc'[x] = pc[x]
  BY <1>1, Moves
<1>3. \A w \in Worker : pc'[w] = pc[w]
  BY <1>1, <1>2
<1>4. Inside' = Inside
  BY <1>3 DEF Inside
<1> QED BY <1>1, <1>2, <1>3, <1>4

LEMMA WorkerMoves ==
    ASSUME PcType, NEW w \in Worker, NEW l \in WorkerAt, pc' = [pc EXCEPT ![w] = l]
    PROVE  /\ pc'[w] = l
           /\ \A x \in Thread : x # w => pc'[x] = pc[x]
           /\ \A t \in Caller : pc'[t] = pc[t]
           /\ l \in InJob \union {"Leave"} => Inside' = Inside \union {w}
           /\ l \notin InJob \union {"Leave"} => Inside' = Inside \ {w}
<1>1. w \in Thread /\ w \notin Caller /\ Worker \subseteq Thread /\ Caller \subseteq Thread
  BY JobAssumption DEF Thread
<1>2. pc'[w] = l /\ \A x \in Thread : x # w => pc'[x] = pc[x]
  BY <1>1, Moves
<1>3. \A t \in Caller : pc'[t] = pc[t]
  BY <1>1, <1>2
<1>4. l \in InJob \union {"Leave"} => Inside' = Inside \union {w}
  BY <1>1, <1>2 DEF Inside
<1>5. l \notin InJob \union {"Leave"} => Inside' = Inside \ {w}
  BY <1>1, <1>2 DEF Inside
<1> QED BY <1>2, <1>3, <1>4, <1>5

\* Between the chunks of a job.
LEMMA ChunkMoves ==
    ASSUME PcType, NEW x \in Thread, pc[x] \in InJob,
           NEW l \in InJob \union {IF x \in Caller THEN "Close" ELSE "Leave"},
           pc' = [pc EXCEPT ![x] = l]
    PROVE  /\ Inside' = Inside
           /\ pc'[x] = l
           /\ \A y \in Thread : y # x => pc'[y] = pc[y]
           /\ \A u \in Caller : pc'[u] # pc[u] => u = x
           /\ PcType'
<1>0. Caller \subseteq Thread /\ Worker \subseteq Thread /\ \A t \in Caller : t \notin Worker
  BY JobAssumption DEF Thread
<1>1. /\ PcType'
      /\ pc'[x] = l
      /\ \A y \in Thread : y # x => pc'[y] = pc[y]
  BY <1>0, Moves DEF CallerAt, WorkerAt
<1>2. \A w \in Worker : pc'[w] \in InJob \union {"Leave"} <=> pc[w] \in InJob \union {"Leave"}
  <2> SUFFICES ASSUME NEW w \in Worker
               PROVE  pc'[w] \in InJob \union {"Leave"} <=> pc[w] \in InJob \union {"Leave"}
    OBVIOUS
  <2>1. CASE w = x
    BY <1>0, <1>1, <2>1
  <2>2. CASE w # x
    BY <1>0, <1>1, <2>2
  <2> QED BY <2>1, <2>2
<1>3. Inside' = Inside
  BY <1>2 DEF Inside
<1> QED BY <1>0, <1>1, <1>3

LEMMA OwnershipInit == Init => Ownership
<1> SUFFICES ASSUME Init PROVE Ownership
  OBVIOUS
<1>1. /\ \A t \in Caller : pc[t] = "Idle"
      /\ Inside = {}
  BY JobAssumption DEF Init, Thread, Inside, InJob
<1>2. joined = Cardinality(Inside)
  BY <1>1, FS_EmptySet DEF Init
<1> QED BY <1>1, <1>2 DEF Init, Ownership, Handed, InJob

LEMMA OwnershipStep == TypeOK /\ Ownership /\ [Next]_vars => Ownership'
<1> SUFFICES ASSUME TypeOK, Ownership, [Next]_vars PROVE Ownership'
  OBVIOUS
<1> USE DEF TypeOK, Ownership
<1>0. Caller \subseteq Thread /\ Worker \subseteq Thread /\ None \notin Caller
      /\ \A t \in Caller : t \notin Worker
  BY JobAssumption DEF Thread
<1>1. ASSUME NEW t \in Caller, Call(t) PROVE Ownership'
  <2>0. PICK j \in Job :
          /\ job' = [job EXCEPT ![t] = j]
          /\ \/ pc' = [pc EXCEPT ![t] = "Inline"] /\ UNCHANGED dispatcher
             \/ pc' = [pc EXCEPT ![t] = "Publish"] /\ dispatcher = None /\ dispatcher' = t
    BY <1>1 DEF Call, RunsInline
  <2>1. Inside' = Inside /\ \A u \in Caller : u # t => pc'[u] = pc[u]
    BY <2>0, CallerMoves DEF CallerAt
  <2>2. pc'[t] \in {"Inline", "Publish"} /\ pc[t] = "Idle"
    BY <1>1, <2>0, CallerMoves DEF Call, CallerAt
  <2>3. CASE pc'[t] = "Inline"
    <3>1. UNCHANGED dispatcher
      BY <2>0, <2>3, CallerMoves DEF CallerAt
    <3> QED BY <1>1, <2>0, <2>1, <2>2, <2>3, <3>1 DEF Call, Handed, InJob, CallType
  <2>4. CASE pc'[t] = "Publish"
    <3>1. dispatcher = None /\ dispatcher' = t
      BY <2>0, <2>4, CallerMoves DEF CallerAt
    <3> QED BY <1>1, <1>0, <2>0, <2>1, <2>2, <2>4, <3>1 DEF Call, Handed, InJob, CallType
  <2> QED BY <2>2, <2>3, <2>4
<1>2. ASSUME NEW t \in Caller, InlineChunk(t) PROVE Ownership'
  <2>1. /\ Inside' = Inside /\ pc[t] = "Inline" /\ pc'[t] \in {"Inline", "Return"}
        /\ \A u \in Caller : u # t => pc'[u] = pc[u]
    <3>0. pc[t] = "Inline"
      BY <1>2 DEF InlineChunk
    <3>1. CASE pc' = pc
      BY <3>0, <3>1 DEF Inside
    <3>2. CASE pc' = [pc EXCEPT ![t] = "Return"]
      BY <3>0, <3>2, CallerMoves DEF CallerAt
    <3> QED BY <1>2, <3>1, <3>2 DEF InlineChunk
  <2>2. UNCHANGED <<poolVars, job>>
    BY <1>2 DEF InlineChunk
  <2> QED BY <2>1, <2>2 DEF Handed, InJob, poolVars
<1>3. ASSUME NEW t \in Caller, RefuseCaller(t) PROVE Ownership'
  <2>1. pc' = [pc EXCEPT ![t] = "Return"]
    BY <1>3 DEF RefuseCaller
  <2>2. /\ Inside' = Inside /\ pc'[t] = "Return"
        /\ \A u \in Caller : u # t => pc'[u] = pc[u]
    BY <2>1, CallerMoves DEF CallerAt, InJob
  <2> QED BY <1>3, <1>0, <2>2 DEF RefuseCaller, Handed, InJob, PoolType, CallType, poolVars, callVars
<1>4. ASSUME NEW t \in Caller, Publish(t) PROVE Ownership'
  <2>1. pc' = [pc EXCEPT ![t] = "Wake"]
    BY <1>4 DEF Publish
  <2>2. /\ Inside' = Inside /\ pc'[t] = "Wake"
        /\ \A u \in Caller : u # t => pc'[u] = pc[u]
    BY <2>1, CallerMoves DEF CallerAt, InJob
  <2> QED BY <1>4, <1>0, <2>2 DEF Publish, Handed, InJob, PoolType, CallType, poolVars, callVars
<1>5. ASSUME NEW t \in Caller, Wake(t) PROVE Ownership'
  <2>1. pc' = [pc EXCEPT ![t] = "Take"]
    BY <1>5 DEF Wake
  <2>2. /\ Inside' = Inside /\ pc'[t] = "Take"
        /\ \A u \in Caller : u # t => pc'[u] = pc[u]
    BY <2>1, CallerMoves DEF CallerAt, InJob
  <2> QED BY <1>5, <1>0, <2>2 DEF Wake, Handed, InJob, PoolType, CallType, poolVars, callVars
<1>6. ASSUME NEW x \in Thread, Take(x) PROVE Ownership'
  <2>1. PICK l \in InJob \union {IF x \in Caller THEN "Close" ELSE "Leave"} :
          pc[x] \in InJob /\ pc' = [pc EXCEPT ![x] = l]
    BY <1>6 DEF Take, InJob
  <2>2. /\ Inside' = Inside
        /\ \A u \in Caller : pc'[u] # pc[u] => Handed(u) /\ Handed(u)' /\ (pc'[u] = "Drain" <=> pc[u] = "Drain")
    <3>1. /\ Inside' = Inside /\ pc'[x] = l
          /\ \A u \in Caller : pc'[u] # pc[u] => u = x
      BY <2>1, ChunkMoves
    <3> QED BY <2>1, <3>1 DEF Handed, InJob
  <2>3. UNCHANGED <<dispatcher, open, joined, chunks, body, job>>
    BY <1>6 DEF Take, poolVars, callVars
  <2> QED BY <2>2, <2>3 DEF Handed, InJob
<1>7. ASSUME NEW x \in Thread, Begin(x) PROVE Ownership'
  <2>1. PICK l \in InJob \union {IF x \in Caller THEN "Close" ELSE "Leave"} :
          pc[x] \in InJob /\ pc' = [pc EXCEPT ![x] = l]
    BY <1>7 DEF Begin, InJob
  <2>2. /\ Inside' = Inside
        /\ \A u \in Caller : pc'[u] # pc[u] => Handed(u) /\ Handed(u)' /\ (pc'[u] = "Drain" <=> pc[u] = "Drain")
    <3>1. /\ Inside' = Inside /\ pc'[x] = l
          /\ \A u \in Caller : pc'[u] # pc[u] => u = x
      BY <2>1, ChunkMoves
    <3> QED BY <2>1, <3>1 DEF Handed, InJob
  <2>3. UNCHANGED <<dispatcher, open, joined, chunks, body, job>>
    BY <1>7 DEF Begin, poolVars, callVars
  <2> QED BY <2>2, <2>3 DEF Handed, InJob
<1>8. ASSUME NEW x \in Thread, End(x) PROVE Ownership'
  <2>1. PICK l \in InJob \union {IF x \in Caller THEN "Close" ELSE "Leave"} :
          pc[x] \in InJob /\ pc' = [pc EXCEPT ![x] = l]
    BY <1>8 DEF End, InJob
  <2>2. /\ Inside' = Inside
        /\ \A u \in Caller : pc'[u] # pc[u] => Handed(u) /\ Handed(u)' /\ (pc'[u] = "Drain" <=> pc[u] = "Drain")
    <3>1. /\ Inside' = Inside /\ pc'[x] = l
          /\ \A u \in Caller : pc'[u] # pc[u] => u = x
      BY <2>1, ChunkMoves
    <3> QED BY <2>1, <3>1 DEF Handed, InJob
  <2>3. UNCHANGED <<dispatcher, open, joined, chunks, body, job>>
    BY <1>8 DEF End, poolVars, callVars
  <2> QED BY <2>2, <2>3 DEF Handed, InJob
<1>9. ASSUME NEW x \in Thread, Fail(x) PROVE Ownership'
  <2>1. PICK l \in InJob \union {IF x \in Caller THEN "Close" ELSE "Leave"} :
          pc[x] \in InJob /\ pc' = [pc EXCEPT ![x] = l]
    BY <1>9 DEF Fail, InJob
  <2>2. /\ Inside' = Inside
        /\ \A u \in Caller : pc'[u] # pc[u] => Handed(u) /\ Handed(u)' /\ (pc'[u] = "Drain" <=> pc[u] = "Drain")
    <3>1. /\ Inside' = Inside /\ pc'[x] = l
          /\ \A u \in Caller : pc'[u] # pc[u] => u = x
      BY <2>1, ChunkMoves
    <3> QED BY <2>1, <3>1 DEF Handed, InJob
  <2>3. UNCHANGED <<dispatcher, open, joined, chunks, body, job>>
    BY <1>9 DEF Fail, poolVars, callVars
  <2> QED BY <2>2, <2>3 DEF Handed, InJob
<1>10. ASSUME NEW x \in Thread, Left(x) PROVE Ownership'
  <2>1. PICK l \in InJob \union {IF x \in Caller THEN "Close" ELSE "Leave"} :
          pc[x] \in InJob /\ pc' = [pc EXCEPT ![x] = l]
    BY <1>10 DEF Left, InJob
  <2>2. /\ Inside' = Inside
        /\ \A u \in Caller : pc'[u] # pc[u] => Handed(u) /\ Handed(u)' /\ (pc'[u] = "Drain" <=> pc[u] = "Drain")
    <3>1. /\ Inside' = Inside /\ pc'[x] = l
          /\ \A u \in Caller : pc'[u] # pc[u] => u = x
      BY <2>1, ChunkMoves
    <3> QED BY <2>1, <3>1 DEF Handed, InJob
  <2>3. UNCHANGED <<dispatcher, open, joined, chunks, body, job>>
    BY <1>10 DEF Left, poolVars, callVars
  <2> QED BY <2>2, <2>3 DEF Handed, InJob
<1>11. ASSUME NEW t \in Caller, Close(t) PROVE Ownership'
  <2>1. /\ Inside' = Inside /\ pc[t] = "Close" /\ pc'[t] \in {"Return", "Drain"}
        /\ \A u \in Caller : u # t => pc'[u] = pc[u]
        /\ pc'[t] = "Return" => joined = 0
        /\ pc'[t] = "Drain" => UNCHANGED body
    BY <1>11, CallerMoves DEF Close, Drained, CallerAt
  <2>2. UNCHANGED <<dispatcher, joined, chunks, job>> /\ ~open'
    BY <1>11 DEF Close
  <2>3. CASE pc'[t] = "Drain"
    BY <2>1, <2>2, <2>3 DEF Handed, InJob
  <2>4. CASE pc'[t] = "Return"
    <3>1. Inside = {}
      BY <2>1, <2>4, InsideFinite, FS_EmptySet
    <3>2. \A u \in Caller : u # t => ~Handed(u)
      BY <2>1 DEF Handed, InJob
    <3> QED BY <2>1, <2>2, <2>4, <3>1, <3>2 DEF Handed, InJob
  <2> QED BY <2>1, <2>3, <2>4
<1>12. ASSUME NEW t \in Caller, Drain(t) PROVE Ownership'
  <2>1. /\ Inside' = Inside /\ pc[t] = "Drain" /\ pc'[t] \in {"Return", "Drain"}
        /\ \A u \in Caller : u # t => pc'[u] = pc[u]
        /\ pc'[t] = "Return" => joined = 0
        /\ pc'[t] = "Drain" => UNCHANGED body
    BY <1>12, CallerMoves DEF Drain, Drained, CallerAt
  <2>2. UNCHANGED <<dispatcher, joined, chunks, job>> /\ ~open'
    BY <1>12 DEF Drain
  <2>3. CASE pc'[t] = "Drain"
    BY <2>1, <2>2, <2>3 DEF Handed, InJob
  <2>4. CASE pc'[t] = "Return"
    <3>1. Inside = {}
      BY <2>1, <2>4, InsideFinite, FS_EmptySet
    <3>2. \A u \in Caller : u # t => ~Handed(u)
      BY <2>1 DEF Handed, InJob
    <3> QED BY <2>1, <2>2, <2>4, <3>1, <3>2 DEF Handed, InJob
  <2> QED BY <2>1, <2>3, <2>4
<1>13. ASSUME NEW t \in Caller, Return(t) PROVE Ownership'
  <2>1. pc' = [pc EXCEPT ![t] = "Idle"]
    BY <1>13 DEF Return
  <2>2. /\ Inside' = Inside /\ pc'[t] = "Idle"
        /\ \A u \in Caller : u # t => pc'[u] = pc[u]
    BY <2>1, CallerMoves DEF CallerAt, InJob
  <2> QED BY <1>13, <1>0, <2>2 DEF Return, Handed, InJob, PoolType, CallType, poolVars, callVars
<1>14. ASSUME NEW w \in Worker, Start(w) PROVE Ownership'
  <2>0. w \notin Inside
    BY <1>14 DEF Start, Inside, InJob
  <2>1. Inside' = Inside \ {w} /\ \A u \in Caller : pc'[u] = pc[u]
    BY <1>14, WorkerMoves, ZenonT(40) DEF Start, WorkerAt, InJob
  <2> QED BY <1>14, <2>0, <2>1 DEF Start, Handed, poolVars, callVars
<1>15. ASSUME NEW w \in Worker, Look(w) PROVE Ownership'
  <2>1. w \notin Inside
    BY <1>15 DEF Look, Inside, InJob
  <2>2. UNCHANGED <<dispatcher, open, chunks, body, job>>
    BY <1>15 DEF Look, callVars
  <2>3. CASE open /\ pc' = [pc EXCEPT ![w] = "Take"] /\ joined' = joined + 1
    <3>1. Inside' = Inside \union {w} /\ \A u \in Caller : pc'[u] = pc[u]
      BY <2>3, WorkerMoves DEF WorkerAt, InJob
    <3>2. joined' = Cardinality(Inside')
      BY <2>1, <2>3, <3>1, InsideFinite, FS_AddElement
    <3> QED BY <2>2, <2>3, <3>1, <3>2 DEF Handed
  <2>4. CASE pc' \in {pc, [pc EXCEPT ![w] = "Off"]} /\ UNCHANGED joined
    <3>1. Inside' = Inside /\ \A u \in Caller : pc'[u] = pc[u]
      BY <2>1, <2>4, WorkerMoves DEF WorkerAt, InJob, Inside
    <3> QED BY <2>2, <2>4, <3>1 DEF Handed
  <2> QED BY <1>15, <2>3, <2>4 DEF Look, Joined
<1>16. ASSUME NEW w \in Worker, Leave(w) PROVE Ownership'
  <2>0. w \in Inside
    BY <1>16 DEF Leave, Inside
  <2>1. /\ Inside' = Inside \ {w}
        /\ \A u \in Caller : pc'[u] = pc[u]
    BY <1>16, WorkerMoves DEF Leave, WorkerAt, InJob
  <2>2. UNCHANGED <<dispatcher, open, chunks, body, job>> /\ joined' = joined - 1
    BY <1>16 DEF Leave, callVars
  <2>3. joined' = Cardinality(Inside')
    BY <2>0, <2>1, <2>2, InsideFinite, FS_RemoveElement
  <2> QED BY <2>1, <2>2, <2>3 DEF Handed
<1>17. ASSUME NEW t \in Caller, StopWorkers(t) PROVE Ownership'
  <2>1. pc' = [pc EXCEPT ![t] = "Stop"]
    BY <1>17 DEF StopWorkers
  <2>2. /\ Inside' = Inside /\ pc'[t] = "Stop"
        /\ \A u \in Caller : u # t => pc'[u] = pc[u]
    BY <2>1, CallerMoves DEF CallerAt, InJob
  <2> QED BY <1>17, <1>0, <2>2 DEF StopWorkers, Handed, InJob, PoolType, CallType, poolVars, callVars
<1>18. ASSUME NEW t \in Caller, WakeToStop(t) PROVE Ownership'
  <2>1. pc' = [pc EXCEPT ![t] = "Join"]
    BY <1>18 DEF WakeToStop
  <2>2. /\ Inside' = Inside /\ pc'[t] = "Join"
        /\ \A u \in Caller : u # t => pc'[u] = pc[u]
    BY <2>1, CallerMoves DEF CallerAt, InJob
  <2> QED BY <1>18, <1>0, <2>2 DEF WakeToStop, Handed, InJob, PoolType, CallType, poolVars, callVars
<1>19. ASSUME NEW t \in Caller, StartWorkers(t) PROVE Ownership'
  <2>0. PICK started \in Crew :
          pc' = [x \in Thread |-> IF x = t THEN "Idle" ELSE IF x \in started THEN "New" ELSE pc[x]]
    BY <1>19 DEF StartWorkers
  <2>1. Inside = {} /\ ~open
    BY <1>19 DEF StartWorkers, Handed, InJob
  <2>2. /\ Inside' = {} /\ pc'[t] = "Idle"
        /\ \A u \in Caller : u # t => pc'[u] = pc[u]
    BY <1>0, <2>0, <2>1, JobAssumption DEF Inside, InJob
  <2>3. UNCHANGED <<open, joined, chunks, body, job>>
    BY <1>19 DEF StartWorkers, callVars
  <2>4. \A u \in Caller : ~Handed(u) /\ (u # t => pc[u] \notin {"Publish", "Stop", "Join"})
    BY <1>19 DEF StartWorkers, Handed, InJob
  <2> QED BY <1>19, <2>1, <2>2, <2>3, <2>4 DEF Handed, InJob
<1>20. ASSUME NEW x \in Thread, SpuriousWake(x) PROVE Ownership'
  <2>1. UNCHANGED <<poolVars, pc, job>>
    BY <1>20 DEF SpuriousWake, callVars
  <2> QED BY <2>1 DEF Handed, Inside, poolVars
<1>21. CASE UNCHANGED vars
  BY <1>21 DEF vars, poolVars, threadVars, callVars, Handed, Inside
<1> QED
  BY <1>0, <1>1, <1>2, <1>3, <1>4, <1>5, <1>6, <1>7, <1>8, <1>9, <1>10, <1>11, <1>12, <1>13, <1>14, <1>15, <1>16, <1>17, <1>18, <1>19, <1>20, <1>21
  DEF Next, CallerStep, WorkerStep, RunChunks

-----------------------------------------------------------------------------
\* Who has which chunk.

\* A thread inside a job: the pool has been handed the body of one call.
LEMMA Busy ==
    ASSUME TypeOK, Ownership, NEW x \in Thread, pc[x] \in InJob \union {"Leave"}
    PROVE  /\ body \in Caller
           /\ Handed(body)
           /\ \A u \in Caller : Handed(u) => u = body
<1>1. CASE x \in Caller
  <2>1. Handed(x)
    BY <1>1 DEF Handed, TypeOK, PcType, CallerAt, InJob
  <2> QED BY <1>1, <2>1 DEF Ownership
<1>2. CASE x \in Worker
  <2>1. x \in Inside
    BY <1>2 DEF Inside
  <2> QED BY <2>1 DEF Ownership
<1> QED BY <1>1, <1>2 DEF Thread

\* A step that takes no chunk and publishes no job.
LEMMA QuietClaims ==
    ASSUME TypeOK, Claims, next' = next,
           \A x \in Thread : Holds(x)' => Holds(x),
           \A x \in Thread : Reports(x)' => Reports(x),
           \A x \in Thread : pc'[x] = "Body" => pc[x] = "Body",
           \A u \in Caller : Handed(u)' => Handed(u),
           \A x \in Thread : Holds(x) \/ Reports(x) =>
               chunk'[x] = chunk[x] /\ serving'[x] = serving[x] /\ body' = body /\ chunks' = chunks,
           \A u \in Caller : Handed(u) => ran'[u] = ran[u] /\ job'[u] = job[u]
    PROVE  Claims'
<1>1. /\ \A x \in Thread : (Holds(x) \/ Reports(x))' => chunk'[x] < next'
      /\ \A x \in Thread : pc'[x] = "Body" \/ Reports(x)' => serving'[x] = body' /\ chunk'[x] < chunks'
      /\ \A x, y \in Thread : Holds(x)' /\ Holds(y)' /\ chunk'[x] = chunk'[y] => x = y
  BY DEF Claims, Holds
<1>2. ASSUME NEW u \in Caller, Handed(u)'
      PROVE  /\ ran'[u] \subseteq {c \in Chunks(job'[u]) : c < next'}
             /\ \A x \in Thread : Holds(x)' => chunk'[x] \notin ran'[u]
             /\ \A x \in Thread : Reports(x)' => chunk'[x] \in ran'[u]
  BY <1>2 DEF Claims
<1> QED BY <1>1, <1>2 DEF Claims

LEMMA ClaimsStep == TypeOK /\ Ownership /\ Claims /\ Calls /\ [Next]_vars => Claims'
<1> SUFFICES ASSUME TypeOK, Ownership, Claims, Calls, [Next]_vars PROVE Claims'
  OBVIOUS
<1>0. Caller \subseteq Thread /\ Worker \subseteq Thread /\ None \notin Caller
      /\ \A t \in Caller : t \notin Worker
  BY JobAssumption DEF Thread
<1>a. PcType
  BY DEF TypeOK
<1>1. ASSUME NEW t \in Caller, Call(t) PROVE Claims'
  <2>1. /\ pc[t] \notin {"Taken", "Body", "Fail", "Left"}
        /\ pc'[t] \notin {"Taken", "Body", "Fail", "Left"}
        /\ t \in Caller /\ Handed(t)' => Handed(t)
        /\ \A x \in Thread : x # t => pc'[x] = pc[x]
    BY <1>1, <1>0, <1>a, CallerMoves DEF Call, CallerAt, InJob, Handed
  <2>2. /\ next' = next
        /\ \A x \in Thread : Holds(x) \/ Reports(x) =>
               chunk'[x] = chunk[x] /\ serving'[x] = serving[x] /\ body' = body /\ chunks' = chunks
    BY <1>1, <1>0, <2>1 DEF Call, Holds, Reports, poolVars, callVars, TypeOK, CallType
  <2>3. \A u \in Caller : Handed(u) => ran'[u] = ran[u] /\ job'[u] = job[u]
    BY <1>1, <1>0, <2>1, SMTT(20) DEF Call, Handed, InJob, callVars, TypeOK, CallType
  <2> QED BY <1>0, <2>1, <2>2, <2>3, QuietClaims DEF Holds, Reports, Handed
<1>2. ASSUME NEW t \in Caller, InlineChunk(t) PROVE Claims'
  <2>1. /\ pc[t] \notin {"Taken", "Body", "Fail", "Left"}
        /\ pc'[t] \notin {"Taken", "Body", "Fail", "Left"}
        /\ t \in Caller /\ Handed(t)' => Handed(t)
        /\ \A x \in Thread : x # t => pc'[x] = pc[x]
    BY <1>2, <1>0, <1>a, CallerMoves, ZenonT(60) DEF InlineChunk, CallerAt, InJob, Handed
  <2>2. /\ next' = next
        /\ \A x \in Thread : Holds(x) \/ Reports(x) =>
               chunk'[x] = chunk[x] /\ serving'[x] = serving[x] /\ body' = body /\ chunks' = chunks
    BY <1>2, <1>0, <2>1 DEF InlineChunk, Holds, Reports, poolVars, callVars, TypeOK, CallType
  <2>3. \A u \in Caller : Handed(u) => ran'[u] = ran[u] /\ job'[u] = job[u]
    BY <1>2, <1>0, <2>1 DEF InlineChunk, Handed, InJob, callVars, TypeOK, CallType
  <2> QED BY <1>0, <2>1, <2>2, <2>3, QuietClaims DEF Holds, Reports, Handed
<1>3. ASSUME NEW t \in Caller, RefuseCaller(t) PROVE Claims'
  <2>1. /\ pc[t] \notin {"Taken", "Body", "Fail", "Left"}
        /\ pc'[t] \notin {"Taken", "Body", "Fail", "Left"}
        /\ t \in Caller /\ Handed(t)' => Handed(t)
        /\ \A x \in Thread : x # t => pc'[x] = pc[x]
    BY <1>3, <1>0, <1>a, CallerMoves DEF RefuseCaller, CallerAt, InJob, Handed
  <2>2. /\ next' = next
        /\ \A x \in Thread : Holds(x) \/ Reports(x) =>
               chunk'[x] = chunk[x] /\ serving'[x] = serving[x] /\ body' = body /\ chunks' = chunks
    BY <1>3, <1>0, <2>1 DEF RefuseCaller, Holds, Reports, poolVars, callVars, TypeOK, CallType
  <2>3. \A u \in Caller : Handed(u) => ran'[u] = ran[u] /\ job'[u] = job[u]
    BY <1>3, <1>0, <2>1 DEF RefuseCaller, Handed, InJob, callVars, TypeOK, CallType
  <2> QED BY <1>0, <2>1, <2>2, <2>3, QuietClaims DEF Holds, Reports, Handed
<1>4. ASSUME NEW t \in Caller, Publish(t) PROVE Claims'
  <2>1. /\ pc'[t] = "Wake" /\ \A x \in Thread : x # t => pc'[x] = pc[x]
    BY <1>4, <1>a, CallerMoves DEF Publish, CallerAt
  <2>2. pc[t] = "Publish" /\ dispatcher = t
    BY <1>4 DEF Publish, Ownership
  <2>3. \A u \in Caller : ~Handed(u)
    BY <2>2 DEF Ownership, Handed, InJob
  <2>4. \A x \in Thread : ~Holds(x)' /\ ~Reports(x)'
    BY <2>1, <2>2, <2>3, Busy DEF Holds, Reports, InJob
  <2>5. \A u \in Caller : Handed(u)' => u = t
    BY <1>0, <2>1, <2>3 DEF Handed
  <2>6. ran'[t] = {}
    BY <1>4, <2>2 DEF Publish, callVars, Calls, Settled
  <2> QED BY <2>4, <2>5, <2>6 DEF Claims, Holds, Reports
<1>5. ASSUME NEW t \in Caller, Wake(t) PROVE Claims'
  <2>1. /\ pc[t] \notin {"Taken", "Body", "Fail", "Left"}
        /\ pc'[t] \notin {"Taken", "Body", "Fail", "Left"}
        /\ t \in Caller /\ Handed(t)' => Handed(t)
        /\ \A x \in Thread : x # t => pc'[x] = pc[x]
    BY <1>5, <1>0, <1>a, CallerMoves DEF Wake, CallerAt, InJob, Handed
  <2>2. /\ next' = next
        /\ \A x \in Thread : Holds(x) \/ Reports(x) =>
               chunk'[x] = chunk[x] /\ serving'[x] = serving[x] /\ body' = body /\ chunks' = chunks
    BY <1>5, <1>0, <2>1 DEF Wake, Holds, Reports, poolVars, callVars, TypeOK, CallType
  <2>3. \A u \in Caller : Handed(u) => ran'[u] = ran[u] /\ job'[u] = job[u]
    BY <1>5, <1>0, <2>1 DEF Wake, Handed, InJob, callVars, TypeOK, CallType
  <2> QED BY <1>0, <2>1, <2>2, <2>3, QuietClaims DEF Holds, Reports, Handed
<1>6. ASSUME NEW x \in Thread, Take(x) PROVE Claims'
  <2>0. pc[x] = "Take" /\ pc' = [pc EXCEPT ![x] = "Taken"]
    BY <1>6 DEF Take
  <2>1. pc'[x] = "Taken" /\ \A y \in Thread : y # x => pc'[y] = pc[y]
    BY <1>a, <2>0, ChunkMoves DEF InJob
  <2>2. /\ chunk'[x] = next /\ \A y \in Thread : y # x => chunk'[y] = chunk[y]
        /\ next' = next + 1 /\ next \in Nat
        /\ UNCHANGED <<body, chunks, serving, ran, job>>
    BY <1>6 DEF Take, callVars, TypeOK, CallType, PoolType
  <2>3. chunk \in [Thread -> Nat] /\ job \in [Caller -> Job]
    BY DEF TypeOK, CallType
  <2>4. \A u \in Caller : Handed(u)' <=> Handed(u)
    BY <1>0, <2>0, <2>1 DEF Handed, InJob
  <2>5. \A y \in Thread : (Holds(y)' <=> Holds(y) \/ y = x) /\ (Reports(y)' <=> Reports(y))
    BY <2>0, <2>1 DEF Holds, Reports
  <2>6. \A y \in Thread : (Holds(y) \/ Reports(y)) /\ y # x => chunk'[y] < next
    BY <2>2 DEF Claims
  <2>7. \A y \in Thread : (Holds(y) \/ Reports(y))' => chunk'[y] < next'
    BY <2>0, <2>2, <2>3, <2>5, <2>6 DEF Reports
  <2>8. \A y \in Thread : pc'[y] = "Body" \/ Reports(y)' => serving'[y] = body' /\ chunk'[y] < chunks'
    BY <2>0, <2>1, <2>2, <2>5 DEF Claims, Reports
  <2>9. \A y, z \in Thread : Holds(y)' /\ Holds(z)' /\ chunk'[y] = chunk'[z] => y = z
    BY <2>2, <2>5, <2>6 DEF Claims
  <2>10. ASSUME NEW u \in Caller, Handed(u)'
         PROVE  /\ ran'[u] \subseteq {c \in Chunks(job'[u]) : c < next'}
                /\ \A y \in Thread : Holds(y)' => chunk'[y] \notin ran'[u]
                /\ \A y \in Thread : Reports(y)' => chunk'[y] \in ran'[u]
    <3>1. ran[u] \subseteq {c \in Chunks(job[u]) : c < next} /\ Chunks(job[u]) \subseteq Nat
      BY <2>3, <2>4, <2>10, Data DEF Claims
    <3>2. ran'[u] \subseteq {c \in Chunks(job'[u]) : c < next'}
      BY <2>2, <3>1
    <3>3. \A y \in Thread : Holds(y)' => chunk'[y] \notin ran'[u]
      BY <2>2, <2>4, <2>5, <2>10, <3>1 DEF Claims
    <3>4. \A y \in Thread : Reports(y)' => chunk'[y] \in ran'[u]
      BY <2>0, <2>2, <2>4, <2>5, <2>10 DEF Claims, Reports
    <3> QED BY <3>2, <3>3, <3>4
  <2> QED BY <2>7, <2>8, <2>9, <2>10 DEF Claims
<1>7. ASSUME NEW x \in Thread, Begin(x) PROVE Claims'
  <2>0. pc[x] = "Taken" /\ UNCHANGED <<next, body, chunks, ran, job>>
    BY <1>7 DEF Begin, poolVars, callVars
  <2>1. CASE chunk[x] >= chunks
    <3>1. pc' = [pc EXCEPT ![x] = IF x \in Caller THEN "Close" ELSE "Leave"]
      BY <1>7, <2>1 DEF Begin
    <3>2. pc'[x] \in {"Close", "Leave"} /\ \A y \in Thread : y # x => pc'[y] = pc[y]
      BY <1>a, <2>0, <3>1, ChunkMoves DEF InJob
    <3>3. \A y \in Thread : y # x => chunk'[y] = chunk[y] /\ serving'[y] = serving[y]
      BY <1>7, <2>1 DEF Begin, TypeOK, CallType
    <3>4. /\ ~Holds(x)' /\ ~Reports(x)' /\ Holds(x) /\ ~Reports(x)
          /\ \A u \in Caller : Handed(u)' => Handed(u)
      BY <1>0, <2>0, <3>2 DEF Holds, Reports, Handed, InJob
    <3>5. \A y \in Thread : y # x => (Holds(y)' <=> Holds(y)) /\ (Reports(y)' <=> Reports(y))
      BY <3>2 DEF Holds, Reports
    <3>6. /\ \A y \in Thread : (Holds(y) \/ Reports(y))' => chunk'[y] < next'
          /\ \A y \in Thread : pc'[y] = "Body" \/ Reports(y)' => serving'[y] = body' /\ chunk'[y] < chunks'
          /\ \A y, z \in Thread : Holds(y)' /\ Holds(z)' /\ chunk'[y] = chunk'[z] => y = z
      BY <2>0, <3>2, <3>3, <3>4, <3>5 DEF Claims
    <3>7. ASSUME NEW u \in Caller, Handed(u)'
          PROVE  /\ ran'[u] \subseteq {c \in Chunks(job'[u]) : c < next'}
                 /\ \A y \in Thread : Holds(y)' => chunk'[y] \notin ran'[u]
                 /\ \A y \in Thread : Reports(y)' => chunk'[y] \in ran'[u]
      BY <2>0, <3>3, <3>4, <3>5, <3>7 DEF Claims
    <3> QED BY <3>6, <3>7 DEF Claims
  <2>2. CASE ~(chunk[x] >= chunks)
    <3>1. /\ pc' = [pc EXCEPT ![x] = "Body"] /\ UNCHANGED chunk
          /\ serving' = [serving EXCEPT ![x] = body]
      BY <1>7, <2>2 DEF Begin
    <3>2. pc'[x] = "Body" /\ \A y \in Thread : y # x => pc'[y] = pc[y]
      BY <1>a, <2>0, <3>1, ChunkMoves DEF InJob
    <3>3. serving'[x] = body /\ \A y \in Thread : y # x => serving'[y] = serving[y]
      BY <3>1 DEF TypeOK, CallType
    <3>4. chunk[x] < chunks
      BY <2>2 DEF TypeOK, CallType, PoolType
    <3>5. /\ \A y \in Thread : (Holds(y)' <=> Holds(y)) /\ (Reports(y)' <=> Reports(y))
          /\ \A u \in Caller : Handed(u)' <=> Handed(u)
      BY <1>0, <2>0, <3>2 DEF Holds, Reports, Handed, InJob
    <3>6. \A y \in Thread : pc'[y] = "Body" \/ Reports(y)' => serving'[y] = body' /\ chunk'[y] < chunks'
      BY <2>0, <3>1, <3>2, <3>3, <3>4 DEF Claims, Reports
    <3>7. /\ \A y \in Thread : (Holds(y) \/ Reports(y))' => chunk'[y] < next'
          /\ \A y, z \in Thread : Holds(y)' /\ Holds(z)' /\ chunk'[y] = chunk'[z] => y = z
      BY <2>0, <3>1, <3>5 DEF Claims
    <3>8. ASSUME NEW u \in Caller, Handed(u)'
          PROVE  /\ ran'[u] \subseteq {c \in Chunks(job'[u]) : c < next'}
                 /\ \A y \in Thread : Holds(y)' => chunk'[y] \notin ran'[u]
                 /\ \A y \in Thread : Reports(y)' => chunk'[y] \in ran'[u]
      BY <2>0, <3>1, <3>5, <3>8 DEF Claims
    <3> QED BY <3>6, <3>7, <3>8 DEF Claims
  <2> QED BY <2>1, <2>2
<1>8. ASSUME NEW x \in Thread, End(x) PROVE Claims'
  <2>0. /\ pc[x] = "Body" /\ UNCHANGED <<next, body, chunks, chunk, serving, job>>
        /\ ran' = [ran EXCEPT ![serving[x]] = @ \union {chunk[x]}]
    BY <1>8 DEF End, poolVars
  <2>1. PICK l \in {"Fail", "Left", "Take"} : pc' = [pc EXCEPT ![x] = l]
    BY <1>8 DEF End
  <2>2. pc'[x] = l /\ \A y \in Thread : y # x => pc'[y] = pc[y]
    BY <1>a, <2>0, <2>1, ChunkMoves DEF InJob
  <2>3. /\ body \in Caller /\ Handed(body) /\ serving[x] = body
        /\ \A u \in Caller : Handed(u) => u = body
        /\ chunk[x] < chunks /\ chunks = job[body].count /\ chunk[x] < next
    BY <2>0, Busy DEF InJob, Claims, Ownership, Holds
  <2>4. /\ chunk[x] \in Nat /\ job[body] \in Job
        /\ ran'[body] = ran[body] \union {chunk[x]}
    BY <2>0, <2>3 DEF TypeOK, CallType
  <2>5. chunk[x] \in Chunks(job[body])
    BY <2>3, <2>4, Data
  <2>6. /\ \A y \in Thread : (Holds(y)' <=> Holds(y) /\ y # x) /\ (y # x => (Reports(y)' <=> Reports(y)))
        /\ \A u \in Caller : Handed(u)' => Handed(u)
    BY <1>0, <2>0, <2>1, <2>2 DEF Holds, Reports, Handed, InJob
  <2>7. \A y \in Thread : pc'[y] = "Body" \/ Reports(y)' => serving'[y] = body' /\ chunk'[y] < chunks'
    BY <2>0, <2>1, <2>2, <2>3 DEF Claims, Reports
  <2>8. /\ \A y \in Thread : (Holds(y) \/ Reports(y))' => chunk'[y] < next'
        /\ \A y, z \in Thread : Holds(y)' /\ Holds(z)' /\ chunk'[y] = chunk'[z] => y = z
    BY <2>0, <2>3, <2>6 DEF Claims
  <2>9. ASSUME NEW u \in Caller, Handed(u)'
        PROVE  /\ ran'[u] \subseteq {c \in Chunks(job'[u]) : c < next'}
               /\ \A y \in Thread : Holds(y)' => chunk'[y] \notin ran'[u]
               /\ \A y \in Thread : Reports(y)' => chunk'[y] \in ran'[u]
    <3>1. u = body
      BY <2>3, <2>6, <2>9
    <3>2. ran'[u] \subseteq {c \in Chunks(job'[u]) : c < next'}
      BY <2>0, <2>3, <2>4, <2>5, <3>1 DEF Claims
    <3>3. \A y \in Thread : Holds(y)' => chunk'[y] \notin ran'[u]
      BY <2>0, <2>3, <2>4, <2>6, <3>1 DEF Claims, Holds
    <3>4. \A y \in Thread : Reports(y)' => chunk'[y] \in ran'[u]
      BY <2>0, <2>3, <2>4, <2>6, <3>1 DEF Claims
    <3> QED BY <3>2, <3>3, <3>4
  <2> QED BY <2>7, <2>8, <2>9 DEF Claims
<1>9. ASSUME NEW x \in Thread, Fail(x) PROVE Claims'
  <2>0. pc[x] = "Fail" /\ UNCHANGED <<next, body, chunks, chunk, serving, job, ran>>
    BY <1>9 DEF Fail, callVars
  <2>1. PICK l \in {"Left", "Take"} : pc' = [pc EXCEPT ![x] = l]
    BY <1>9 DEF Fail
  <2>2. pc'[x] = l /\ \A y \in Thread : y # x => pc'[y] = pc[y]
    BY <1>a, <2>0, <2>1, ChunkMoves DEF InJob
  <2>3. /\ \A y \in Thread : Holds(y)' => Holds(y)
        /\ \A y \in Thread : Reports(y)' => Reports(y)
        /\ \A y \in Thread : pc'[y] = "Body" => pc[y] = "Body"
        /\ \A u \in Caller : Handed(u)' => Handed(u)
    BY <1>0, <2>0, <2>1, <2>2 DEF Holds, Reports, Handed, InJob
  <2> QED BY <2>0, <2>3, QuietClaims
<1>10. ASSUME NEW x \in Thread, Left(x) PROVE Claims'
  <2>0. pc[x] = "Left" /\ UNCHANGED <<next, body, chunks, chunk, serving, job, ran>>
    BY <1>10 DEF Left, callVars
  <2>1. PICK l \in {"Left", "Take"} : pc' = [pc EXCEPT ![x] = l]
    BY <1>10 DEF Left
  <2>2. pc'[x] = l /\ \A y \in Thread : y # x => pc'[y] = pc[y]
    BY <1>a, <2>0, <2>1, ChunkMoves DEF InJob
  <2>3. /\ \A y \in Thread : Holds(y)' => Holds(y)
        /\ \A y \in Thread : Reports(y)' => Reports(y)
        /\ \A y \in Thread : pc'[y] = "Body" => pc[y] = "Body"
        /\ \A u \in Caller : Handed(u)' => Handed(u)
    BY <1>0, <2>0, <2>1, <2>2 DEF Holds, Reports, Handed, InJob
  <2> QED BY <2>0, <2>3, QuietClaims
<1>11. ASSUME NEW t \in Caller, Close(t) PROVE Claims'
  <2>1. /\ pc[t] = "Close" /\ pc'[t] \in {"Return", "Drain"}
        /\ \A x \in Thread : x # t => pc'[x] = pc[x]
        /\ UNCHANGED <<next, chunks, chunk, serving, job, ran>>
    BY <1>11, <1>a, CallerMoves DEF Close, Drained, CallerAt
  <2>2. body' = body \/ Inside = {}
    BY <1>11, InsideFinite, FS_EmptySet DEF Close, Drained, Ownership
  <2>3. ASSUME NEW x \in Thread, Holds(x) \/ Reports(x) PROVE body' = body
    <3>1. CASE x \in Caller
      <4>1. Handed(x) /\ Handed(t)
        BY <2>1, <2>3 DEF Handed, Holds, Reports, InJob
      <4>2. x = t
        BY <3>1, <4>1 DEF Ownership
      <4> QED BY <2>1, <2>3, <4>2 DEF Holds, Reports
    <3>2. CASE x \in Worker
      BY <2>2, <2>3, <3>2 DEF Holds, Reports, InJob, Inside
    <3> QED BY <3>1, <3>2 DEF Thread
  <2>4. /\ \A x \in Thread : Holds(x)' => Holds(x)
        /\ \A x \in Thread : Reports(x)' => Reports(x)
        /\ \A x \in Thread : pc'[x] = "Body" => pc[x] = "Body"
        /\ \A u \in Caller : Handed(u)' => Handed(u)
    BY <1>0, <2>1 DEF Holds, Reports, Handed, InJob
  <2> QED BY <2>1, <2>3, <2>4, QuietClaims
<1>12. ASSUME NEW t \in Caller, Drain(t) PROVE Claims'
  <2>1. /\ pc[t] = "Drain" /\ pc'[t] \in {"Return", "Drain"}
        /\ \A x \in Thread : x # t => pc'[x] = pc[x]
        /\ UNCHANGED <<next, chunks, chunk, serving, job, ran>>
    BY <1>12, <1>a, CallerMoves DEF Drain, Drained, CallerAt
  <2>2. body' = body \/ Inside = {}
    BY <1>12, InsideFinite, FS_EmptySet DEF Drain, Drained, Ownership
  <2>3. ASSUME NEW x \in Thread, Holds(x) \/ Reports(x) PROVE body' = body
    <3>1. CASE x \in Caller
      <4>1. Handed(x) /\ Handed(t)
        BY <2>1, <2>3 DEF Handed, Holds, Reports, InJob
      <4>2. x = t
        BY <3>1, <4>1 DEF Ownership
      <4> QED BY <2>1, <2>3, <4>2 DEF Holds, Reports
    <3>2. CASE x \in Worker
      BY <2>2, <2>3, <3>2 DEF Holds, Reports, InJob, Inside
    <3> QED BY <3>1, <3>2 DEF Thread
  <2>4. /\ \A x \in Thread : Holds(x)' => Holds(x)
        /\ \A x \in Thread : Reports(x)' => Reports(x)
        /\ \A x \in Thread : pc'[x] = "Body" => pc[x] = "Body"
        /\ \A u \in Caller : Handed(u)' => Handed(u)
    BY <1>0, <2>1 DEF Holds, Reports, Handed, InJob
  <2> QED BY <2>1, <2>3, <2>4, QuietClaims
<1>13. ASSUME NEW t \in Caller, Return(t) PROVE Claims'
  <2>1. /\ pc[t] \notin {"Taken", "Body", "Fail", "Left"}
        /\ pc'[t] \notin {"Taken", "Body", "Fail", "Left"}
        /\ t \in Caller /\ Handed(t)' => Handed(t)
        /\ \A x \in Thread : x # t => pc'[x] = pc[x]
    BY <1>13, <1>0, <1>a, CallerMoves DEF Return, CallerAt, InJob, Handed
  <2>2. /\ next' = next
        /\ \A x \in Thread : Holds(x) \/ Reports(x) =>
               chunk'[x] = chunk[x] /\ serving'[x] = serving[x] /\ body' = body /\ chunks' = chunks
    BY <1>13, <1>0, <2>1 DEF Return, Holds, Reports, poolVars, callVars, TypeOK, CallType
  <2>3. \A u \in Caller : Handed(u) => ran'[u] = ran[u] /\ job'[u] = job[u]
    BY <1>13, <1>0, <2>1 DEF Return, Handed, InJob, callVars, TypeOK, CallType
  <2> QED BY <1>0, <2>1, <2>2, <2>3, QuietClaims DEF Holds, Reports, Handed
<1>14. ASSUME NEW w \in Worker, Start(w) PROVE Claims'
  <2>1. /\ pc[w] \notin {"Taken", "Body", "Fail", "Left"}
        /\ pc'[w] \notin {"Taken", "Body", "Fail", "Left"}
        /\ w \in Caller /\ Handed(w)' => Handed(w)
        /\ \A x \in Thread : x # w => pc'[x] = pc[x]
    BY <1>14, <1>0, <1>a, WorkerMoves DEF Start, WorkerAt, InJob, Handed
  <2>2. /\ next' = next
        /\ \A x \in Thread : Holds(x) \/ Reports(x) =>
               chunk'[x] = chunk[x] /\ serving'[x] = serving[x] /\ body' = body /\ chunks' = chunks
    BY <1>14, <1>0, <2>1 DEF Start, Holds, Reports, poolVars, callVars, TypeOK, CallType
  <2>3. \A u \in Caller : Handed(u) => ran'[u] = ran[u] /\ job'[u] = job[u]
    BY <1>14, <1>0, <2>1 DEF Start, Handed, InJob, callVars, TypeOK, CallType
  <2> QED BY <1>0, <2>1, <2>2, <2>3, QuietClaims DEF Holds, Reports, Handed
<1>15. ASSUME NEW w \in Worker, Look(w) PROVE Claims'
  <2>1. /\ pc[w] = "Look" /\ pc'[w] \in {"Look", "Off", "Take"}
        /\ \A x \in Thread : x # w => pc'[x] = pc[x]
    <3>1. CASE pc' = pc
      BY <1>15, <3>1 DEF Look
    <3>2. CASE pc' # pc
      BY <1>15, <1>0, <1>a, <3>2, WorkerMoves DEF Look, WorkerAt, InJob
    <3> QED BY <3>1, <3>2
  <2>2. UNCHANGED <<next, body, chunks, chunk, serving, job, ran>>
    BY <1>15 DEF Look, callVars
  <2>3. /\ \A x \in Thread : Holds(x)' => Holds(x)
        /\ \A x \in Thread : Reports(x)' => Reports(x)
        /\ \A x \in Thread : pc'[x] = "Body" => pc[x] = "Body"
        /\ \A u \in Caller : Handed(u)' => Handed(u)
    BY <1>0, <2>1 DEF Holds, Reports, Handed, InJob
  <2> QED BY <2>2, <2>3, QuietClaims
<1>16. ASSUME NEW w \in Worker, Leave(w) PROVE Claims'
  <2>1. /\ pc[w] \notin {"Taken", "Body", "Fail", "Left"}
        /\ pc'[w] \notin {"Taken", "Body", "Fail", "Left"}
        /\ w \in Caller /\ Handed(w)' => Handed(w)
        /\ \A x \in Thread : x # w => pc'[x] = pc[x]
    BY <1>16, <1>0, <1>a, WorkerMoves DEF Leave, WorkerAt, InJob, Handed
  <2>2. /\ next' = next
        /\ \A x \in Thread : Holds(x) \/ Reports(x) =>
               chunk'[x] = chunk[x] /\ serving'[x] = serving[x] /\ body' = body /\ chunks' = chunks
    BY <1>16, <1>0, <2>1 DEF Leave, Holds, Reports, poolVars, callVars, TypeOK, CallType
  <2>3. \A u \in Caller : Handed(u) => ran'[u] = ran[u] /\ job'[u] = job[u]
    BY <1>16, <1>0, <2>1 DEF Leave, Handed, InJob, callVars, TypeOK, CallType
  <2> QED BY <1>0, <2>1, <2>2, <2>3, QuietClaims DEF Holds, Reports, Handed
<1>17. ASSUME NEW t \in Caller, StopWorkers(t) PROVE Claims'
  <2>1. pc[t] = "Idle" /\ pc' = [pc EXCEPT ![t] = "Stop"]
    BY <1>17 DEF StopWorkers
  <2>2. pc'[t] = "Stop" /\ \A x \in Thread : x # t => pc'[x] = pc[x]
    BY <1>a, <2>1, CallerMoves DEF CallerAt
  <2>3. UNCHANGED <<next, body, chunks, chunk, serving, job, ran>>
    BY <1>17 DEF StopWorkers
  <2>4. /\ \A x \in Thread : Holds(x)' => Holds(x)
        /\ \A x \in Thread : Reports(x)' => Reports(x)
        /\ \A x \in Thread : pc'[x] = "Body" => pc[x] = "Body"
        /\ \A u \in Caller : Handed(u)' => Handed(u)
    BY <1>0, <2>1, <2>2 DEF Holds, Reports, Handed, InJob
  <2> QED BY <2>3, <2>4, QuietClaims
<1>18. ASSUME NEW t \in Caller, WakeToStop(t) PROVE Claims'
  <2>1. /\ pc[t] \notin {"Taken", "Body", "Fail", "Left"}
        /\ pc'[t] \notin {"Taken", "Body", "Fail", "Left"}
        /\ t \in Caller /\ Handed(t)' => Handed(t)
        /\ \A x \in Thread : x # t => pc'[x] = pc[x]
    BY <1>18, <1>0, <1>a, CallerMoves DEF WakeToStop, CallerAt, InJob, Handed
  <2>2. /\ next' = next
        /\ \A x \in Thread : Holds(x) \/ Reports(x) =>
               chunk'[x] = chunk[x] /\ serving'[x] = serving[x] /\ body' = body /\ chunks' = chunks
    BY <1>18, <1>0, <2>1 DEF WakeToStop, Holds, Reports, poolVars, callVars, TypeOK, CallType
  <2>3. \A u \in Caller : Handed(u) => ran'[u] = ran[u] /\ job'[u] = job[u]
    BY <1>18, <1>0, <2>1 DEF WakeToStop, Handed, InJob, callVars, TypeOK, CallType
  <2> QED BY <1>0, <2>1, <2>2, <2>3, QuietClaims DEF Holds, Reports, Handed
<1>19. ASSUME NEW t \in Caller, StartWorkers(t) PROVE Claims'
  <2>0. PICK started \in Crew :
          pc' = [x \in Thread |-> IF x = t THEN "Idle" ELSE IF x \in started THEN "New" ELSE pc[x]]
    BY <1>19 DEF StartWorkers
  <2>1. UNCHANGED <<next, body, chunks, chunk, serving, job, ran>>
    BY <1>19 DEF StartWorkers, callVars
  <2>2. \A x \in Thread : pc'[x] = pc[x] \/ pc'[x] \in {"Idle", "New"}
    BY <2>0
  <2>3. /\ \A x \in Thread : Holds(x)' => Holds(x)
        /\ \A x \in Thread : Reports(x)' => Reports(x)
        /\ \A x \in Thread : pc'[x] = "Body" => pc[x] = "Body"
        /\ \A u \in Caller : Handed(u)' => Handed(u)
    BY <1>0, <2>2 DEF Holds, Reports, Handed, InJob
  <2> QED BY <2>1, <2>3, QuietClaims
<1>20. ASSUME NEW x \in Thread, SpuriousWake(x) PROVE Claims'
  <2>1. UNCHANGED <<next, body, chunks, chunk, serving, job, ran, pc>>
    BY <1>20 DEF SpuriousWake, callVars, poolVars
  <2> QED BY <2>1 DEF Claims, Holds, Reports, Handed
<1>21. CASE UNCHANGED vars
  <2>1. UNCHANGED <<next, body, chunks, chunk, serving, job, ran, pc>>
    BY <1>21 DEF vars, poolVars, threadVars, callVars
  <2> QED BY <2>1 DEF Claims, Holds, Reports, Handed
<1> QED
  BY <1>0, <1>1, <1>2, <1>3, <1>4, <1>5, <1>6, <1>7, <1>8, <1>9, <1>10, <1>11, <1>12, <1>13, <1>14, <1>15, <1>16, <1>17, <1>18, <1>19, <1>20, <1>21
  DEF Next, CallerStep, WorkerStep, RunChunks

-----------------------------------------------------------------------------
\* What each call has and returns.

\* A call that a step leaves alone.
LEMMA CalmCall ==
    ASSUME NEW u \in Caller, Settled(u), pc'[u] = pc[u], chunk'[u] = chunk[u],
           job'[u] = job[u], ran'[u] = ran[u], result'[u] = result[u]
    PROVE  Settled(u)'
BY DEF Settled, Alone

\* A call whose body is in the workers' hands is not asked anything here.
LEMMA HandedCall ==
    ASSUME NEW u \in Caller, Handed(u)'
    PROVE  Settled(u)'
BY DEF Settled, Handed, InJob

\* A job that runs inline: one chunk more, or the end of it.
LEMMA InlineSettled ==
    ASSUME TypeOK, NEW t \in Caller, Settled(t), InlineChunk(t)
    PROVE  Settled(t)'
<1> DEFINE j == job[t]
           c == chunk[t]
           outside == Simulation /\ ~j.clean
           failure == IF outside THEN "environment" ELSE ErrorOf(j.fate[c])
<1>0. /\ pc[t] = "Inline" /\ Alone(t)
      /\ j \in Job /\ c \in Nat /\ job'[t] = j /\ t \in Thread
  BY DEF InlineChunk, Settled, TypeOK, CallType, Thread
<1>1. /\ c \in Chunks(j) /\ Chunks(j) \subseteq Nat /\ j.count \in Nat
      /\ \A d \in Nat : d \in Chunks(j) <=> d < j.count
      /\ Failing(j) \subseteq Chunks(j)
  BY <1>0, Data DEF Alone
<1>2. chunk'[t] = c + 1
  BY <1>0 DEF InlineChunk, TypeOK, CallType
<1>3. pc'[t] = IF failure # "none" \/ c + 1 = j.count THEN "Return" ELSE "Inline"
  <2>1. CASE failure # "none" \/ c + 1 = j.count
    <3>1. pc' = [pc EXCEPT ![t] = "Return"]
      BY <2>1 DEF InlineChunk
    <3> QED BY <2>1, <3>1, CallerMoves DEF TypeOK, CallerAt
  <2>2. CASE ~(failure # "none" \/ c + 1 = j.count)
    <3>1. pc' = pc
      BY <2>2 DEF InlineChunk
    <3> QED BY <1>0, <2>2, <3>1
  <2> QED BY <2>1, <2>2
<1>4. result'[t] = IF failure = "none" THEN NoError ELSE [chunk |-> c, kind |-> failure]
  <2>1. CASE failure = "none"
    <3>1. result' = result
      BY <2>1 DEF InlineChunk
    <3> QED BY <1>0, <2>1, <3>1 DEF Alone
  <2>2. CASE failure # "none"
    <3>1. result' = [result EXCEPT ![t] = [chunk |-> c, kind |-> failure]]
      BY <2>2 DEF InlineChunk
    <3> QED BY <2>2, <3>1 DEF TypeOK, CallType
  <2> QED BY <2>1, <2>2
<1>5. CASE outside
  <2>1. failure = "environment" /\ c = 0
    BY <1>0, <1>5 DEF Alone
  <2>2. pc'[t] = "Return" /\ result'[t] = [chunk |-> 0, kind |-> "environment"]
    BY <1>3, <1>4, <2>1
  <2> HIDE DEF failure
  <2> QED BY <1>0, <1>5, <2>2 DEF Settled, SequentialError, NoError
<1>6. CASE ~outside
  <2>1. failure = ErrorOf(j.fate[c])
    BY <1>6
  <2>2. ran'[t] = ran[t] \union {c}
    BY <1>6 DEF InlineChunk, TypeOK, CallType
  <2>3. ran[t] = {d \in Chunks(j) : d < c} /\ \A d \in ran[t] : ErrorOf(j.fate[d]) = "none"
    BY <1>0 DEF Alone
  <2> HIDE DEF failure, outside, c, j
  <2>4. ran'[t] = {d \in Chunks(j) : d < c + 1}
    BY <1>0, <1>1, <2>2, <2>3
  <2>5. CASE failure # "none"
    <3>1. c \in Failing(j)
      BY <1>1, <2>1, <2>5 DEF Failing
    <3>2. \A d \in Failing(j) : c <= d
      BY <1>0, <1>1, <2>3 DEF Failing
    <3>3. /\ pc'[t] = "Return" /\ result'[t] = [chunk |-> c, kind |-> ErrorOf(j.fate[c])]
      BY <1>3, <1>4, <2>1, <2>5
    <3>4. SequentialError(j, result'[t])
      BY <1>6, <3>1, <3>2, <3>3 DEF SequentialError, outside
    <3>5. result'[t] # NoError
      BY <2>1, <2>5, <3>3 DEF NoError
    <3> QED BY <1>0, <3>3, <3>4, <3>5 DEF Settled
  <2>6. CASE failure = "none"
    <3>1. \A d \in ran'[t] : ErrorOf(j.fate[d]) = "none"
      BY <2>1, <2>2, <2>3, <2>6
    <3>2. result'[t] = NoError
      BY <1>4, <2>6
    <3>3. CASE c + 1 = j.count
      <4>1. ran'[t] = Chunks(j)
        BY <1>0, <1>1, <2>4, <3>3
      <4>2. Failing(j) = {}
        BY <3>1, <4>1 DEF Failing
      <4>3. SequentialError(j, result'[t])
        BY <1>6, <3>2, <4>2 DEF SequentialError, outside
      <4> QED BY <1>0, <1>3, <3>2, <3>3, <4>1, <4>3 DEF Settled
    <3>4. CASE c + 1 # j.count
      <4>1. c + 1 < j.count
        BY <1>0, <1>1, <3>4
      <4>2. pc'[t] = "Inline"
        BY <1>3, <2>6, <3>4
      <4>3. Alone(t)'
        BY <1>0, <1>2, <1>6, <2>4, <3>1, <3>2, <4>1 DEF Alone, outside
      <4> QED BY <4>2, <4>3 DEF Settled
    <3> QED BY <3>3, <3>4
  <2> QED BY <2>5, <2>6
<1> QED BY <1>5, <1>6

\* The end of a dispatch: no worker is inside, so every chunk has run and the
\* error kept is the lowest one's.
LEMMA DrainedSettled ==
    ASSUME TypeOK, Ownership, Claims, Recording, NEW t \in Caller,
           pc[t] \in {"Close", "Drain"}, joined = 0,
           pc'[t] = "Return", job'[t] = job[t], ran'[t] = ran[t], result'[t] = error
    PROVE  Settled(t)'
<1> DEFINE j == job[t]
<1>1. Handed(t) /\ Kept(t)
  BY DEF Handed, Recording
<1>2. /\ j \in Job /\ chunks = j.count /\ (Simulation => j.clean) /\ next >= chunks
      /\ next \in Nat
  BY <1>1 DEF Ownership, Kept, TypeOK, PoolType, CallType
<1>3. /\ Chunks(j) \subseteq Nat /\ j.count \in Nat
      /\ \A d \in Nat : d \in Chunks(j) <=> d < j.count
      /\ Failing(j) \subseteq Chunks(j)
  BY <1>2, Data
<1>4. \A x \in Thread : pc[x] \notin InJob
  <2> SUFFICES ASSUME NEW x \in Thread, pc[x] \in InJob PROVE FALSE
    OBVIOUS
  <2>1. CASE x \in Caller
    <3>1. x = t
      BY <1>1, <2>1 DEF Handed, Ownership
    <3> QED BY <3>1 DEF InJob
  <2>2. CASE x \in Worker
    <3>1. x \in Inside
      BY <2>2 DEF Inside
    <3> QED BY <3>1, InsideFinite, FS_EmptySet DEF Ownership
  <2> QED BY <2>1, <2>2 DEF Thread
<1>5. \A x \in Thread : ~Holds(x) /\ ~Reports(x) /\ pc[x] # "Left"
  BY <1>4 DEF Holds, Reports, InJob
<1>6. ran[t] = Chunks(j)
  <2>1. ran[t] \subseteq Chunks(j)
    BY <1>1 DEF Claims
  <2>2. \A c \in Chunks(j) : c < next
    BY <1>2, <1>3
  <2>3. \A c \in Chunks(j) : c \in ran[t]
    BY <1>1, <1>5, <2>2 DEF Kept
  <2> QED BY <2>1, <2>3
<1>7. \A c \in Failing(j) : error.kind # "none" /\ error.chunk <= c
  BY <1>1, <1>3, <1>5, <1>6 DEF Kept
<1>8. error.kind # "none" => error.chunk \in Failing(j) /\ error.kind = ErrorOf(j.fate[error.chunk])
  BY <1>1, <1>5 DEF Kept
<1>9. error.kind = "none" => error = NoError
  BY <1>1 DEF Kept
<1>10. SequentialError(j, error)
  <2>1. CASE Failing(j) = {}
    BY <1>2, <1>8, <1>9, <2>1 DEF SequentialError
  <2>2. CASE Failing(j) # {}
    BY <1>2, <1>7, <1>8, <2>2 DEF SequentialError
  <2> QED BY <2>1, <2>2
<1> QED BY <1>6, <1>10 DEF Settled

LEMMA CallsInit == Init => Calls
<1> SUFFICES ASSUME Init, NEW u \in Caller PROVE Settled(u)
  BY DEF Calls
<1>1. pc[u] = "Idle" /\ ran[u] = {} /\ chunk[u] = 0 /\ result[u] = NoError
  BY DEF Init, Thread
<1> QED BY <1>1 DEF Settled

LEMMA CallsStep ==
    TypeOK /\ Ownership /\ Claims /\ Recording /\ Calls /\ [Next]_vars => Calls'
<1> SUFFICES ASSUME TypeOK, Ownership, Claims, Recording, Calls, [Next]_vars, NEW u \in Caller
             PROVE  Settled(u)'
  BY DEF Calls
<1>0. Caller \subseteq Thread /\ Worker \subseteq Thread /\ None \notin Caller
      /\ \A t \in Caller : t \notin Worker
  BY JobAssumption DEF Thread
<1>a. PcType /\ Settled(u)
  BY DEF TypeOK, Calls
<1>1. ASSUME NEW t \in Caller, Call(t) PROVE Settled(u)'
  <2>1. pc'[t] \in {"Inline", "Publish"} /\ \A x \in Caller : x # t => pc'[x] = pc[x]
    BY <1>1, <1>a, CallerMoves DEF Call, CallerAt, InJob
  <2>2. CASE u # t
    <3>1. UNCHANGED <<chunk[u], job[u], ran[u], result[u]>>
      BY <1>1, <1>0, <2>2 DEF Call, callVars, TypeOK, CallType
    <3> QED BY <1>a, <2>1, <2>2, <3>1, CalmCall
  <2>3. CASE u = t
    <3>1. pc[t] = "Idle" /\ chunk[t] = 0 /\ result[t] = NoError /\ ran[t] = {}
      BY <1>1, <1>a, <2>3 DEF Call, Settled
    <3>2. job'[t] \in Job /\ chunk'[t] = 0 /\ result'[t] = NoError /\ ran'[t] = {}
      BY <1>1, <3>1 DEF Call, TypeOK, CallType
    <3>3. Alone(t)'
      <4> DEFINE j == job'[t]
      <4>1. j.count \in Nat \ {0} /\ Chunks(j) \subseteq Nat
        BY <3>2, Data
      <4>2. {c \in Chunks(j) : c < 0} = {}
        BY <4>1
      <4> HIDE DEF j
      <4>3. 0 < j.count
        BY <4>1
      <4> QED BY <3>2, <4>2, <4>3 DEF Alone, j
    <3> QED BY <2>1, <2>3, <3>2, <3>3 DEF Settled
  <2> QED BY <2>2, <2>3
<1>2. ASSUME NEW t \in Caller, InlineChunk(t) PROVE Settled(u)'
  <2>1. CASE u # t
    <3>1. pc'[u] = pc[u]
      <4>1. CASE pc' = pc
        BY <4>1
      <4>2. CASE pc' = [pc EXCEPT ![t] = "Return"]
        BY <1>a, <2>1, <4>2, CallerMoves DEF CallerAt
      <4> QED BY <1>2, <4>1, <4>2 DEF InlineChunk
    <3>2. UNCHANGED <<chunk[u], job[u]>>
      BY <1>2, <1>0, <2>1 DEF InlineChunk, TypeOK, CallType
    <3>3. UNCHANGED ran[u]
      <4>1. CASE ran' = ran
        BY <4>1
      <4>2. CASE ran' = [ran EXCEPT ![t] = @ \union {chunk[t]}]
        BY <2>1, <4>2 DEF TypeOK, CallType
      <4> QED BY <1>2, <4>1, <4>2 DEF InlineChunk
    <3>4. UNCHANGED result[u]
      <4>1. PICK e : result' \in {result, [result EXCEPT ![t] = e]}
        BY <1>2 DEF InlineChunk
      <4> QED BY <2>1, <4>1 DEF TypeOK, CallType
    <3> QED BY <1>a, <3>1, <3>2, <3>3, <3>4, CalmCall
  <2>2. CASE u = t
    BY <1>2, <1>a, <2>2, InlineSettled
  <2> QED BY <2>1, <2>2
<1>3. ASSUME NEW t \in Caller, RefuseCaller(t) PROVE Settled(u)'
  <2>1. pc'[t] = "Return" /\ \A x \in Caller : x # t => pc'[x] = pc[x]
    BY <1>3, <1>a, CallerMoves DEF RefuseCaller, CallerAt, InJob
  <2>2. CASE u # t
    <3>1. UNCHANGED <<chunk[u], job[u], ran[u], result[u]>>
      BY <1>3, <1>0, <2>2 DEF RefuseCaller, callVars, TypeOK, CallType
    <3> QED BY <1>a, <2>1, <2>2, <3>1, CalmCall
  <2>3. CASE u = t
    <3>1. /\ Simulation /\ ~job[t].clean /\ job' = job
          /\ result'[t] = [chunk |-> 0, kind |-> "environment"]
      BY <1>3 DEF RefuseCaller, TypeOK, CallType
    <3> QED BY <2>1, <2>3, <3>1 DEF Settled, SequentialError, NoError
  <2> QED BY <2>2, <2>3
<1>4. ASSUME NEW t \in Caller, Publish(t) PROVE Settled(u)'
  <2>1. pc'[t] = "Wake" /\ \A x \in Caller : x # t => pc'[x] = pc[x]
    BY <1>4, <1>a, CallerMoves DEF Publish, CallerAt, InJob
  <2>2. CASE u # t
    <3>1. UNCHANGED <<chunk[u], job[u], ran[u], result[u]>>
      BY <1>4, <1>0, <2>2 DEF Publish, callVars, TypeOK, CallType
    <3> QED BY <1>a, <2>1, <2>2, <3>1, CalmCall
  <2>3. CASE u = t
    BY <2>1, <2>3, HandedCall DEF Handed, InJob
  <2> QED BY <2>2, <2>3
<1>5. ASSUME NEW t \in Caller, Wake(t) PROVE Settled(u)'
  <2>1. pc'[t] = "Take" /\ \A x \in Caller : x # t => pc'[x] = pc[x]
    BY <1>5, <1>a, CallerMoves DEF Wake, CallerAt, InJob
  <2>2. CASE u # t
    <3>1. UNCHANGED <<chunk[u], job[u], ran[u], result[u]>>
      BY <1>5, <1>0, <2>2 DEF Wake, callVars, TypeOK, CallType
    <3> QED BY <1>a, <2>1, <2>2, <3>1, CalmCall
  <2>3. CASE u = t
    BY <2>1, <2>3, HandedCall DEF Handed, InJob
  <2> QED BY <2>2, <2>3
<1>6. ASSUME NEW x \in Thread, Take(x) PROVE Settled(u)'
  <2>1. PICK l \in InJob \union {IF x \in Caller THEN "Close" ELSE "Leave"} :
          pc[x] \in InJob /\ pc' = [pc EXCEPT ![x] = l]
    BY <1>6 DEF Take, InJob
  <2>2. pc'[x] = l /\ \A y \in Thread : y # x => pc'[y] = pc[y]
    BY <1>a, <2>1, ChunkMoves
  <2>3. CASE u # x
    <3>1. pc'[u] = pc[u]
      BY <1>0, <2>2, <2>3
    <3>2. UNCHANGED <<chunk[u], job[u], ran[u], result[u]>>
      BY <1>6, <1>0, <2>3 DEF Take, callVars, TypeOK, CallType
    <3> QED BY <1>a, <3>1, <3>2, CalmCall
  <2>4. CASE u = x
    BY <2>1, <2>2, <2>4, HandedCall DEF Handed
  <2> QED BY <2>3, <2>4
<1>7. ASSUME NEW x \in Thread, Begin(x) PROVE Settled(u)'
  <2>1. PICK l \in InJob \union {IF x \in Caller THEN "Close" ELSE "Leave"} :
          pc[x] \in InJob /\ pc' = [pc EXCEPT ![x] = l]
    BY <1>7 DEF Begin, InJob
  <2>2. pc'[x] = l /\ \A y \in Thread : y # x => pc'[y] = pc[y]
    BY <1>a, <2>1, ChunkMoves
  <2>3. CASE u # x
    <3>1. pc'[u] = pc[u]
      BY <1>0, <2>2, <2>3
    <3>2. UNCHANGED <<chunk[u], job[u], ran[u], result[u]>>
      BY <1>7, <1>0, <2>3 DEF Begin, callVars, TypeOK, CallType
    <3> QED BY <1>a, <3>1, <3>2, CalmCall
  <2>4. CASE u = x
    BY <2>1, <2>2, <2>4, HandedCall DEF Handed
  <2> QED BY <2>3, <2>4
<1>8. ASSUME NEW x \in Thread, End(x) PROVE Settled(u)'
  <2>1. PICK l \in InJob \union {IF x \in Caller THEN "Close" ELSE "Leave"} :
          pc[x] \in InJob /\ pc' = [pc EXCEPT ![x] = l]
    BY <1>8 DEF End, InJob
  <2>2. pc'[x] = l /\ \A y \in Thread : y # x => pc'[y] = pc[y]
    BY <1>a, <2>1, ChunkMoves
  <2>3. CASE u # x
    <3>1. pc'[u] = pc[u]
      BY <1>0, <2>2, <2>3
    <3>2. UNCHANGED <<chunk[u], job[u], result[u]>>
      BY <1>8 DEF End
    <3>3. CASE u = body
      BY <2>1, <3>1, <3>3, Busy, HandedCall DEF Handed
    <3>4. CASE u # body
      <4>1. serving[x] = body /\ ran' = [ran EXCEPT ![serving[x]] = @ \union {chunk[x]}]
        BY <1>8 DEF End, Claims
      <4>2. ran'[u] = ran[u]
        BY <3>4, <4>1 DEF TypeOK, CallType
      <4> QED BY <1>a, <3>1, <3>2, <4>2, CalmCall
    <3> QED BY <3>3, <3>4
  <2>4. CASE u = x
    BY <2>1, <2>2, <2>4, HandedCall DEF Handed
  <2> QED BY <2>3, <2>4
<1>9. ASSUME NEW x \in Thread, Fail(x) PROVE Settled(u)'
  <2>1. PICK l \in InJob \union {IF x \in Caller THEN "Close" ELSE "Leave"} :
          pc[x] \in InJob /\ pc' = [pc EXCEPT ![x] = l]
    BY <1>9 DEF Fail, InJob
  <2>2. pc'[x] = l /\ \A y \in Thread : y # x => pc'[y] = pc[y]
    BY <1>a, <2>1, ChunkMoves
  <2>3. CASE u # x
    <3>1. pc'[u] = pc[u]
      BY <1>0, <2>2, <2>3
    <3>2. UNCHANGED <<chunk[u], job[u], ran[u], result[u]>>
      BY <1>9, <1>0, <2>3 DEF Fail, callVars, TypeOK, CallType
    <3> QED BY <1>a, <3>1, <3>2, CalmCall
  <2>4. CASE u = x
    BY <2>1, <2>2, <2>4, HandedCall DEF Handed
  <2> QED BY <2>3, <2>4
<1>10. ASSUME NEW x \in Thread, Left(x) PROVE Settled(u)'
  <2>1. PICK l \in InJob \union {IF x \in Caller THEN "Close" ELSE "Leave"} :
          pc[x] \in InJob /\ pc' = [pc EXCEPT ![x] = l]
    BY <1>10 DEF Left, InJob
  <2>2. pc'[x] = l /\ \A y \in Thread : y # x => pc'[y] = pc[y]
    BY <1>a, <2>1, ChunkMoves
  <2>3. CASE u # x
    <3>1. pc'[u] = pc[u]
      BY <1>0, <2>2, <2>3
    <3>2. UNCHANGED <<chunk[u], job[u], ran[u], result[u]>>
      BY <1>10, <1>0, <2>3 DEF Left, callVars, TypeOK, CallType
    <3> QED BY <1>a, <3>1, <3>2, CalmCall
  <2>4. CASE u = x
    BY <2>1, <2>2, <2>4, HandedCall DEF Handed
  <2> QED BY <2>3, <2>4
<1>11. ASSUME NEW t \in Caller, Close(t) PROVE Settled(u)'
  <2>1. pc'[t] \in {"Return", "Drain"} /\ \A x \in Caller : x # t => pc'[x] = pc[x]
    BY <1>11, <1>a, CallerMoves DEF Close, CallerAt, InJob, Drained
  <2>2. CASE u # t
    <3>1. UNCHANGED <<chunk[u], job[u], ran[u], result[u]>>
      BY <1>11, <1>0, <2>2 DEF Close, callVars, TypeOK, CallType, Drained
    <3> QED BY <1>a, <2>1, <2>2, <3>1, CalmCall
  <2>3. CASE u = t
    <3>1. CASE pc'[t] = "Drain"
      BY <2>3, <3>1, HandedCall DEF Handed
    <3>2. CASE pc'[t] = "Return"
      <4>1. joined = 0 /\ result'[t] = error
        <5>1. joined = 0
          <6>1. CASE joined # 0
            <7>1. pc' = [pc EXCEPT ![t] = "Drain"]
              BY <1>11, <6>1 DEF Close, Drained
            <7>2. pc'[t] = "Drain"
              BY <1>a, <7>1, CallerMoves DEF CallerAt
            <7> QED BY <3>2, <7>2
          <6> QED BY <6>1
        <5> QED BY <1>11, <5>1 DEF Close, Drained, TypeOK, CallType
      <4>2. pc[t] = "Close" /\ UNCHANGED <<job, ran>>
        BY <1>11 DEF Close
      <4> QED BY <2>3, <3>2, <4>1, <4>2, DrainedSettled
    <3> QED BY <2>1, <3>1, <3>2
  <2> QED BY <2>2, <2>3
<1>12. ASSUME NEW t \in Caller, Drain(t) PROVE Settled(u)'
  <2>1. pc'[t] \in {"Return", "Drain"} /\ \A x \in Caller : x # t => pc'[x] = pc[x]
    BY <1>12, <1>a, CallerMoves DEF Drain, CallerAt, InJob, Drained
  <2>2. CASE u # t
    <3>1. UNCHANGED <<chunk[u], job[u], ran[u], result[u]>>
      BY <1>12, <1>0, <2>2 DEF Drain, callVars, TypeOK, CallType, Drained
    <3> QED BY <1>a, <2>1, <2>2, <3>1, CalmCall
  <2>3. CASE u = t
    <3>1. CASE pc'[t] = "Drain"
      BY <2>3, <3>1, HandedCall DEF Handed
    <3>2. CASE pc'[t] = "Return"
      <4>1. joined = 0 /\ result'[t] = error
        <5>1. joined = 0
          <6>1. CASE joined # 0
            <7>1. pc' = [pc EXCEPT ![t] = "Drain"]
              BY <1>12, <6>1 DEF Drain, Drained
            <7>2. pc'[t] = "Drain"
              BY <1>a, <7>1, CallerMoves DEF CallerAt
            <7> QED BY <3>2, <7>2
          <6> QED BY <6>1
        <5> QED BY <1>12, <5>1 DEF Drain, Drained, TypeOK, CallType
      <4>2. pc[t] = "Drain" /\ UNCHANGED <<job, ran>>
        BY <1>12 DEF Drain
      <4> QED BY <2>3, <3>2, <4>1, <4>2, DrainedSettled
    <3> QED BY <2>1, <3>1, <3>2
  <2> QED BY <2>2, <2>3
<1>13. ASSUME NEW t \in Caller, Return(t) PROVE Settled(u)'
  <2>1. pc'[t] = "Idle" /\ \A x \in Caller : x # t => pc'[x] = pc[x]
    BY <1>13, <1>a, CallerMoves DEF Return, CallerAt, InJob
  <2>2. CASE u # t
    <3>1. UNCHANGED <<chunk[u], job[u], ran[u], result[u]>>
      BY <1>13, <1>0, <2>2 DEF Return, callVars, TypeOK, CallType
    <3> QED BY <1>a, <2>1, <2>2, <3>1, CalmCall
  <2>3. CASE u = t
    <3>1. ran'[t] = {} /\ chunk'[t] = 0 /\ result'[t] = NoError
      BY <1>13, <1>0 DEF Return, TypeOK, CallType
    <3> QED BY <2>1, <2>3, <3>1 DEF Settled
  <2> QED BY <2>2, <2>3
<1>14. ASSUME NEW w \in Worker, Start(w) PROVE Settled(u)'
  <2>1. pc'[u] = pc[u]
    <3>1. CASE pc' = pc
      BY <3>1
    <3>2. CASE pc' # pc
      BY <1>14, <1>a, <3>2, WorkerMoves DEF Start, WorkerAt, InJob
    <3> QED BY <3>1, <3>2
  <2>2. UNCHANGED <<chunk[u], job[u], ran[u], result[u]>>
    BY <1>14, <1>0 DEF Start, callVars
  <2> QED BY <1>a, <2>1, <2>2, CalmCall
<1>15. ASSUME NEW w \in Worker, Look(w) PROVE Settled(u)'
  <2>1. pc'[u] = pc[u]
    <3>1. CASE pc' = pc
      BY <3>1
    <3>2. CASE pc' # pc
      BY <1>15, <1>a, <3>2, WorkerMoves DEF Look, WorkerAt, InJob
    <3> QED BY <3>1, <3>2
  <2>2. UNCHANGED <<chunk[u], job[u], ran[u], result[u]>>
    BY <1>15, <1>0 DEF Look, callVars
  <2> QED BY <1>a, <2>1, <2>2, CalmCall
<1>16. ASSUME NEW w \in Worker, Leave(w) PROVE Settled(u)'
  <2>1. pc'[u] = pc[u]
    <3>1. CASE pc' = pc
      BY <3>1
    <3>2. CASE pc' # pc
      BY <1>16, <1>a, <3>2, WorkerMoves DEF Leave, WorkerAt, InJob
    <3> QED BY <3>1, <3>2
  <2>2. UNCHANGED <<chunk[u], job[u], ran[u], result[u]>>
    BY <1>16, <1>0 DEF Leave, callVars
  <2> QED BY <1>a, <2>1, <2>2, CalmCall
<1>17. ASSUME NEW t \in Caller, StopWorkers(t) PROVE Settled(u)'
  <2>1. pc[t] = "Idle" /\ pc[u] = "Idle" /\ pc' = [pc EXCEPT ![t] = "Stop"]
    BY <1>17 DEF StopWorkers
  <2>2. pc'[u] \in {"Idle", "Stop"}
    BY <1>a, <2>1, CallerMoves DEF CallerAt
  <2>3. UNCHANGED <<chunk, job, ran, result>>
    BY <1>17 DEF StopWorkers
  <2> QED BY <1>a, <2>1, <2>2, <2>3 DEF Settled
<1>18. ASSUME NEW t \in Caller, WakeToStop(t) PROVE Settled(u)'
  <2>1. pc[t] = "Stop" /\ pc' = [pc EXCEPT ![t] = "Join"]
    BY <1>18 DEF WakeToStop
  <2>2. pc'[t] = "Join" /\ (u # t => pc'[u] = pc[u])
    BY <1>a, <2>1, CallerMoves DEF CallerAt
  <2>3. UNCHANGED <<chunk, job, ran, result>>
    BY <1>18 DEF WakeToStop, callVars
  <2>4. CASE u = t
    BY <1>a, <2>1, <2>2, <2>3, <2>4 DEF Settled
  <2>5. CASE u # t
    BY <1>a, <2>2, <2>3, <2>5, CalmCall
  <2> QED BY <2>4, <2>5
<1>19. ASSUME NEW t \in Caller, StartWorkers(t) PROVE Settled(u)'
  <2>0. PICK started \in Crew :
          pc' = [x \in Thread |-> IF x = t THEN "Idle" ELSE IF x \in started THEN "New" ELSE pc[x]]
    BY <1>19 DEF StartWorkers
  <2>1. pc[t] = "Join" /\ pc'[t] = "Idle" /\ (u # t => pc'[u] = pc[u])
    BY <1>19, <1>0, <2>0, JobAssumption DEF StartWorkers
  <2>2. UNCHANGED <<chunk, job, ran, result>>
    BY <1>19 DEF StartWorkers, callVars
  <2>3. CASE u = t
    BY <1>a, <2>1, <2>2, <2>3 DEF Settled
  <2>4. CASE u # t
    BY <1>a, <2>1, <2>2, <2>4, CalmCall
  <2> QED BY <2>3, <2>4
<1>20. ASSUME NEW x \in Thread, SpuriousWake(x) PROVE Settled(u)'
  <2>1. UNCHANGED <<pc, chunk, job, ran, result>>
    BY <1>20 DEF SpuriousWake, callVars
  <2> QED BY <1>a, <2>1, CalmCall
<1>21. CASE UNCHANGED vars
  <2>1. UNCHANGED <<pc, chunk, job, ran, result>>
    BY <1>21 DEF vars, poolVars, threadVars, callVars
  <2> QED BY <1>a, <2>1, CalmCall
<1> QED
  BY <1>0, <1>1, <1>2, <1>3, <1>4, <1>5, <1>6, <1>7, <1>8, <1>9, <1>10, <1>11, <1>12, <1>13, <1>14, <1>15, <1>16, <1>17, <1>18, <1>19, <1>20, <1>21
  DEF Next, CallerStep, WorkerStep, RunChunks

-----------------------------------------------------------------------------
\* The error that is kept.

LEMMA RecordedIs ==
    ASSUME error \in Error, NEW e \in Error, e.kind # "none", NEW replaces \in BOOLEAN
    PROVE  /\ Recorded(e, replaces).kind # "none"
           /\ Recorded(e, replaces).chunk <= e.chunk
           /\ error.kind # "none" => Recorded(e, replaces).chunk <= error.chunk
           /\ \/ Recorded(e, replaces) = e
              \/ /\ Recorded(e, replaces) = error /\ error.kind # "none"
                 /\ replaces => error.chunk < e.chunk
<1>1. error.chunk \in Nat /\ e.chunk \in Nat
  BY DEF Error
<1> QED BY <1>1 DEF Recorded

\* A step between the chunks.
LEMMA QuietKept ==
    ASSUME NEW u \in Caller, Kept(u), next' = next, error' = error, chunks' = chunks,
           job'[u] = job[u], ran'[u] = ran[u],
           \A x \in Thread : Holds(x)' <=> Holds(x),
           \A x \in Thread : pc'[x] = "Fail" <=> pc[x] = "Fail",
           \A x \in Thread : pc'[x] = "Left" <=> pc[x] = "Left",
           \A x \in Thread : Holds(x) \/ Reports(x) => chunk'[x] = chunk[x],
           pc'[u] \in {"Close", "Drain"} => next >= chunks
    PROVE  Kept(u)'
<1>1. \A x \in Thread : Reports(x)' <=> Reports(x)
  BY DEF Reports
<1> QED BY <1>1 DEF Kept, Reports

\* The report of one chunk.
LEMMA ReportKept ==
    ASSUME TypeOK, Ownership, Claims, Recording, NEW x \in Thread, Fail(x) \/ Left(x),
           NEW u \in Caller, Handed(u)
    PROVE  Kept(u)'
<1> DEFINE c == chunk[x]
           j == job[u]
           replaces == pc[x] = "Left"
           e == [chunk |-> c, kind |-> IF replaces THEN "environment" ELSE "thrown"]
<1>1. /\ pc[x] \in {"Fail", "Left"} /\ Reports(x) /\ Kept(u)
      /\ UNCHANGED <<next, chunks, chunk, job, ran>>
  BY DEF Fail, Left, Reports, Recording, callVars
<1>2. /\ c \in Nat /\ j \in Job /\ c \in ran[u] /\ ran[u] \subseteq Nat /\ error \in Error
  BY <1>1 DEF TypeOK, CallType, PoolType, Claims
<1>3. /\ serving[x] = u
      /\ pc[x] = "Fail" => j.fate[c] \in {"throws", "both"}
      /\ pc[x] = "Left" => Simulation /\ j.fate[c] \in {"leaves", "both"}
  BY <1>1 DEF Kept, Claims, Ownership
<1>4. error' = Recorded(e, replaces)
  BY DEF Fail, Left
<1>5. PICK l \in {"Left", "Take"} :
        /\ pc' = [pc EXCEPT ![x] = l]
        /\ l = "Left" <=> pc[x] = "Fail" /\ Simulation /\ j.fate[c] = "both"
  BY <1>3 DEF Fail, Left, FateOf
<1>6. pc'[x] = l /\ \A y \in Thread : y # x => pc'[y] = pc[y]
  BY <1>1, <1>5, ChunkMoves DEF InJob, TypeOK
<1>7. c \in Failing(j)
  <2>1. ErrorOf(j.fate[c]) # "none"
    BY <1>1, <1>3 DEF ErrorOf
  <2>2. c \in Chunks(j)
    BY <1>1, <1>2 DEF Claims
  <2> QED BY <2>1, <2>2 DEF Failing
<1>8. e \in Error /\ e.kind # "none" /\ e.chunk = c /\ replaces \in BOOLEAN
  BY <1>2 DEF Error
<1> DEFINE r == Recorded(e, replaces)
<1>9. /\ r.kind # "none" /\ r.chunk <= c
      /\ error.kind # "none" => r.chunk <= error.chunk
      /\ \/ r = e
         \/ r = error /\ error.kind # "none" /\ (replaces => error.chunk < c)
  BY <1>2, <1>8, RecordedIs
<1>10. /\ \A y \in Thread : Holds(y)' <=> Holds(y)
       /\ \A y \in Thread : y # x => (Reports(y)' <=> Reports(y))
  BY <1>1, <1>5, <1>6 DEF Holds, Reports
<1>11. r.chunk \in Nat /\ error.chunk \in Nat
  BY <1>2, <1>8, <1>9 DEF Error
<1> HIDE DEF r, j, c
<1>12. error' = r
  BY <1>4 DEF r
<1>13. \A d \in Chunks(job'[u]) :
          d < next' => d \in ran'[u] \/ \E y \in Thread : Holds(y)' /\ chunk'[y] = d
  BY <1>1, <1>10 DEF Kept
<1>14. \A d \in ran'[u] \intersect Failing(job'[u]) :
          \/ error'.kind # "none" /\ error'.chunk <= d
          \/ \E y \in Thread : Reports(y)' /\ chunk'[y] = d
  <2> SUFFICES ASSUME NEW d \in ran[u] \intersect Failing(job[u])
               PROVE  \/ error'.kind # "none" /\ error'.chunk <= d
                      \/ \E y \in Thread : Reports(y)' /\ chunk'[y] = d
    BY <1>1
  <2>0. d \in Nat
    BY <1>2
  <2>1. CASE error.kind # "none" /\ error.chunk <= d
    BY <1>9, <1>11, <1>12, <2>0, <2>1
  <2>2. CASE \E y \in Thread : Reports(y) /\ chunk[y] = d
    <3>1. PICK y \in Thread : Reports(y) /\ chunk[y] = d
      BY <2>2
    <3>2. CASE y = x
      BY <1>9, <1>12, <3>1, <3>2 DEF c
    <3>3. CASE y # x
      BY <1>1, <1>10, <3>1, <3>3
    <3> QED BY <3>2, <3>3
  <2> QED BY <1>1, <2>1, <2>2 DEF Kept
<1>15. /\ error'.chunk \in ran'[u] \intersect Failing(job'[u])
       /\ \/ error'.kind = ErrorOf(job'[u].fate[error'.chunk])
          \/ \E y \in Thread : pc'[y] = "Left" /\ chunk'[y] = error'.chunk
  <2>1. CASE r = e
    <3>1. error'.chunk = c /\ error'.kind = IF replaces THEN "environment" ELSE "thrown"
      BY <1>8, <1>12, <2>1
    <3>2. CASE pc[x] = "Left"
      <4>1. ErrorOf(j.fate[c]) = "environment"
        BY <1>3, <3>2 DEF ErrorOf
      <4> QED BY <1>1, <1>2, <1>7, <3>1, <3>2, <4>1 DEF j
    <3>3. CASE pc[x] = "Fail"
      <4>1. CASE Simulation /\ j.fate[c] = "both"
        BY <1>1, <1>2, <1>5, <1>6, <1>7, <3>1, <3>3, <4>1 DEF j, c
      <4>2. CASE ~(Simulation /\ j.fate[c] = "both")
        <5>1. ErrorOf(j.fate[c]) = "thrown"
          BY <1>3, <3>3, <4>2 DEF ErrorOf
        <5> QED BY <1>1, <1>2, <1>7, <3>1, <3>3, <5>1 DEF j
      <4> QED BY <4>1, <4>2
    <3> QED BY <1>1, <3>2, <3>3
  <2>2. CASE r = error /\ error.kind # "none" /\ (replaces => error.chunk < c)
    <3>1. error.chunk \in ran[u] \intersect Failing(job[u])
      BY <1>1, <2>2 DEF Kept
    <3>2. CASE error.kind = ErrorOf(job[u].fate[error.chunk])
      BY <1>1, <1>12, <2>2, <3>1, <3>2
    <3>3. CASE \E y \in Thread : pc[y] = "Left" /\ chunk[y] = error.chunk
      <4>1. PICK y \in Thread : pc[y] = "Left" /\ chunk[y] = error.chunk
        BY <3>3
      <4>2. y # x
        BY <1>2, <1>11, <2>2, <4>1 DEF c
      <4> QED BY <1>1, <1>6, <1>12, <2>2, <3>1, <4>1, <4>2
    <3> QED BY <1>1, <2>2, <3>2, <3>3 DEF Kept
  <2> QED BY <1>9, <2>1, <2>2
<1>16. \A y \in Thread : pc'[y] = "Fail" => job'[u].fate[chunk'[y]] \in {"throws", "both"}
  BY <1>1, <1>5, <1>6 DEF Kept
<1>17. \A y \in Thread : pc'[y] = "Left" => Simulation /\ job'[u].fate[chunk'[y]] \in {"leaves", "both"}
  BY <1>1, <1>5, <1>6 DEF Kept, j, c
<1>18. pc'[u] \in {"Close", "Drain"} => next' >= chunks'
  BY <1>1, <1>5, <1>6 DEF Kept, Thread
<1> QED BY <1>9, <1>12, <1>13, <1>14, <1>15, <1>16, <1>17, <1>18 DEF Kept

LEMMA RecordingInit == Init => Recording
<1> SUFFICES ASSUME Init, NEW u \in Caller PROVE ~Handed(u)
  BY DEF Recording
<1> QED BY DEF Init, Handed, InJob, Thread

LEMMA RecordingStep ==
    TypeOK /\ Ownership /\ Claims /\ Recording /\ Calls /\ [Next]_vars => Recording'
<1> SUFFICES ASSUME TypeOK, Ownership, Claims, Recording, Calls, [Next]_vars,
                    NEW u \in Caller, Handed(u)'
             PROVE  Kept(u)'
  BY DEF Recording
<1>0. Caller \subseteq Thread /\ Worker \subseteq Thread /\ None \notin Caller
      /\ \A t \in Caller : t \notin Worker
  BY JobAssumption DEF Thread
<1>a. PcType
  BY DEF TypeOK
<1>1. ASSUME NEW t \in Caller, Call(t) PROVE Kept(u)'
  <2>1. /\ pc[t] = "Idle" /\ pc'[t] \in {"Inline", "Publish"}
        /\ \A x \in Thread : x # t => pc'[x] = pc[x]
    BY <1>1, <1>a, CallerMoves DEF Call, CallerAt
  <2>2. Handed(u) /\ Kept(u) /\ u # t
    BY <1>0, <2>1 DEF Handed, Recording, InJob
  <2>3. UNCHANGED <<next, error, chunks, chunk, ran>> /\ job'[u] = job[u]
    BY <1>1, <2>2 DEF Call, TypeOK, CallType
  <2> QED BY <1>0, <2>1, <2>2, <2>3, QuietKept DEF Holds, Kept
<1>2. ASSUME NEW t \in Caller, InlineChunk(t) PROVE Kept(u)'
  <2>1. /\ pc[t] = "Inline" /\ pc'[t] \in {"Inline", "Return"}
        /\ \A x \in Thread : x # t => pc'[x] = pc[x]
    <3>0. pc[t] = "Inline"
      BY <1>2 DEF InlineChunk
    <3>1. CASE pc' = pc
      BY <3>0, <3>1
    <3>2. CASE pc' = [pc EXCEPT ![t] = "Return"]
      BY <1>a, <3>0, <3>2, CallerMoves DEF CallerAt
    <3> QED BY <1>2, <3>1, <3>2 DEF InlineChunk
  <2>2. Handed(u) /\ Kept(u) /\ u # t
    BY <1>0, <2>1 DEF Handed, Recording, InJob
  <2>3. UNCHANGED <<next, error, chunks, job>> /\ \A x \in Thread : x # t => chunk'[x] = chunk[x]
    BY <1>2 DEF InlineChunk, poolVars, TypeOK, CallType
  <2>4. ran'[u] = ran[u]
    <3>1. CASE ran' = ran
      BY <3>1
    <3>2. CASE ran' = [ran EXCEPT ![t] = @ \union {chunk[t]}]
      BY <2>2, <3>2 DEF TypeOK, CallType
    <3> QED BY <1>2, <3>1, <3>2 DEF InlineChunk
  <2> QED BY <1>0, <2>1, <2>2, <2>3, <2>4, QuietKept DEF Holds, Reports, Kept
<1>3. ASSUME NEW t \in Caller, RefuseCaller(t) PROVE Kept(u)'
  <2>1. /\ pc[t] \notin {"Taken", "Body", "Fail", "Left"}
        /\ pc'[t] \notin {"Taken", "Body", "Fail", "Left", "Close"}
        /\ t \in Caller => (Handed(t)' => Handed(t))
        /\ pc'[t] = "Drain" => pc[t] \in {"Close", "Drain"}
        /\ \A x \in Thread : x # t => pc'[x] = pc[x]
    BY <1>3, <1>0, <1>a, CallerMoves DEF RefuseCaller, CallerAt, InJob, Handed
  <2>2. Handed(u) /\ Kept(u) /\ (pc'[u] \in {"Close", "Drain"} => pc[u] \in {"Close", "Drain"})
    BY <1>0, <2>1 DEF Handed, Recording
  <2>3. /\ next' = next /\ error' = error /\ chunks' = chunks
        /\ \A x \in Thread : Holds(x) \/ Reports(x) => chunk'[x] = chunk[x]
    BY <1>3, <1>0, <2>1 DEF RefuseCaller, Holds, Reports, poolVars, callVars, TypeOK, CallType
  <2>4. ran'[u] = ran[u] /\ job'[u] = job[u]
    BY <1>3, <2>1, <2>2 DEF RefuseCaller, Handed, InJob, callVars, TypeOK, CallType
  <2>5. \A x \in Thread : pc'[x] # pc[x] => x = t
    BY <2>1
  <2> QED BY <2>1, <2>2, <2>3, <2>4, <2>5, QuietKept DEF Holds, Kept
<1>4. ASSUME NEW t \in Caller, Publish(t) PROVE Kept(u)'
  <2>1. /\ pc'[t] = "Wake" /\ \A x \in Thread : x # t => pc'[x] = pc[x]
    BY <1>4, <1>a, CallerMoves DEF Publish, CallerAt
  <2>2. pc[t] = "Publish" /\ dispatcher = t
    BY <1>4 DEF Publish, Ownership
  <2>3. \A v \in Caller : ~Handed(v)
    BY <2>2 DEF Ownership, Handed, InJob
  <2>4. \A x \in Thread : ~Holds(x)' /\ pc'[x] \notin {"Fail", "Left"}
    BY <2>1, <2>2, <2>3, Busy DEF Holds, InJob
  <2>5. u = t
    BY <1>0, <2>1, <2>3 DEF Handed
  <2>6. ran'[u] = {} /\ next' = 0 /\ error' = NoError /\ job'[u] \in Job
    BY <1>4, <2>2, <2>5 DEF Publish, callVars, Calls, Settled, TypeOK, CallType
  <2>7. \A c \in Chunks(job'[u]) : ~(c < next')
    BY <2>6, Data
  <2> QED BY <2>1, <2>4, <2>5, <2>6, <2>7 DEF Kept, NoError
<1>5. ASSUME NEW t \in Caller, Wake(t) PROVE Kept(u)'
  <2>1. /\ pc[t] \notin {"Taken", "Body", "Fail", "Left"}
        /\ pc'[t] \notin {"Taken", "Body", "Fail", "Left", "Close"}
        /\ t \in Caller => (Handed(t)' => Handed(t))
        /\ pc'[t] = "Drain" => pc[t] \in {"Close", "Drain"}
        /\ \A x \in Thread : x # t => pc'[x] = pc[x]
    BY <1>5, <1>0, <1>a, CallerMoves DEF Wake, CallerAt, InJob, Handed
  <2>2. Handed(u) /\ Kept(u) /\ (pc'[u] \in {"Close", "Drain"} => pc[u] \in {"Close", "Drain"})
    BY <1>0, <2>1 DEF Handed, Recording
  <2>3. /\ next' = next /\ error' = error /\ chunks' = chunks
        /\ \A x \in Thread : Holds(x) \/ Reports(x) => chunk'[x] = chunk[x]
    BY <1>5, <1>0, <2>1 DEF Wake, Holds, Reports, poolVars, callVars, TypeOK, CallType
  <2>4. ran'[u] = ran[u] /\ job'[u] = job[u]
    BY <1>5, <2>1, <2>2 DEF Wake, Handed, InJob, callVars, TypeOK, CallType
  <2>5. \A x \in Thread : pc'[x] # pc[x] => x = t
    BY <2>1
  <2> QED BY <2>1, <2>2, <2>3, <2>4, <2>5, QuietKept DEF Holds, Kept
<1>6. ASSUME NEW x \in Thread, Take(x) PROVE Kept(u)'
  <2>0. pc[x] = "Take" /\ pc' = [pc EXCEPT ![x] = "Taken"]
    BY <1>6 DEF Take
  <2>1. pc'[x] = "Taken" /\ \A y \in Thread : y # x => pc'[y] = pc[y]
    BY <1>a, <2>0, ChunkMoves DEF InJob
  <2>2. /\ chunk'[x] = next /\ \A y \in Thread : y # x => chunk'[y] = chunk[y]
        /\ next' = next + 1 /\ next \in Nat /\ chunks \in Nat
        /\ UNCHANGED <<body, chunks, error, ran, job>>
    BY <1>6 DEF Take, callVars, TypeOK, CallType, PoolType
  <2>3. Handed(u) /\ Kept(u) /\ job[u] \in Job
    BY <1>0, <2>0, <2>1 DEF Handed, InJob, Recording, TypeOK, CallType
  <2>4. \A y \in Thread : /\ Holds(y)' <=> Holds(y) \/ y = x
                          /\ Reports(y)' <=> Reports(y)
                          /\ pc'[y] = "Fail" <=> pc[y] = "Fail"
                          /\ pc'[y] = "Left" <=> pc[y] = "Left"
    BY <2>0, <2>1 DEF Holds, Reports
  <2>5. ~Reports(x) /\ ~Holds(x)
    BY <2>0 DEF Reports, Holds
  <2>6. ASSUME NEW c \in Chunks(job'[u]), c < next'
        PROVE  c \in ran'[u] \/ \E y \in Thread : Holds(y)' /\ chunk'[y] = c
    <3>1. c \in Nat /\ (c < next \/ c = next)
      BY <2>2, <2>3, <2>6, Data
    <3>2. CASE c = next
      BY <2>2, <2>4, <3>2
    <3>3. CASE c < next
      BY <2>2, <2>3, <2>4, <2>5, <3>3 DEF Kept
    <3> QED BY <3>1, <3>2, <3>3
  <2>7. \A c \in ran'[u] \intersect Failing(job'[u]) :
          \/ error'.kind # "none" /\ error'.chunk <= c
          \/ \E y \in Thread : Reports(y)' /\ chunk'[y] = c
    BY <2>2, <2>3, <2>4, <2>5 DEF Kept
  <2>8. error'.kind # "none" =>
          /\ error'.chunk \in ran'[u] \intersect Failing(job'[u])
          /\ \/ error'.kind = ErrorOf(job'[u].fate[error'.chunk])
             \/ \E y \in Thread : pc'[y] = "Left" /\ chunk'[y] = error'.chunk
    BY <2>0, <2>2, <2>3, <2>4 DEF Kept
  <2>9. /\ error'.kind = "none" => error' = NoError
        /\ \A y \in Thread : pc'[y] = "Fail" => job'[u].fate[chunk'[y]] \in {"throws", "both"}
        /\ \A y \in Thread : pc'[y] = "Left" => Simulation /\ job'[u].fate[chunk'[y]] \in {"leaves", "both"}
    BY <2>0, <2>2, <2>3, <2>4 DEF Kept
  <2>10. pc'[u] \in {"Close", "Drain"} => next' >= chunks'
    <3>1. pc'[u] \in {"Close", "Drain"} => next >= chunks
      BY <1>0, <2>1, <2>3 DEF Kept
    <3> QED BY <2>2, <3>1
  <2> QED BY <2>6, <2>7, <2>8, <2>9, <2>10 DEF Kept
<1>7. ASSUME NEW x \in Thread, Begin(x) PROVE Kept(u)'
  <2>0. pc[x] = "Taken" /\ UNCHANGED <<next, body, chunks, error, ran, job>>
    BY <1>7 DEF Begin, poolVars, callVars
  <2>1. CASE chunk[x] >= chunks
    <3>1. pc' = [pc EXCEPT ![x] = IF x \in Caller THEN "Close" ELSE "Leave"]
      BY <1>7, <2>1 DEF Begin
    <3>2. pc'[x] \in {"Close", "Leave"} /\ \A y \in Thread : y # x => pc'[y] = pc[y]
      BY <1>a, <2>0, <3>1, ChunkMoves DEF InJob
    <3>3. \A y \in Thread : y # x => chunk'[y] = chunk[y]
      BY <1>7, <2>1 DEF Begin, TypeOK, CallType
    <3>4. Handed(u) /\ Kept(u) /\ job[u] \in Job /\ chunks = job[u].count
      BY <1>0, <2>0, <3>2 DEF Handed, InJob, Recording, TypeOK, CallType, Ownership
    <3>5. \A y \in Thread : /\ y # x => (Holds(y)' <=> Holds(y))
                            /\ Reports(y)' <=> Reports(y)
                            /\ pc'[y] = "Fail" <=> pc[y] = "Fail"
                            /\ pc'[y] = "Left" <=> pc[y] = "Left"
      BY <2>0, <3>2 DEF Holds, Reports
    <3>6. /\ chunk[x] < next /\ chunk[x] \in Nat /\ next \in Nat /\ chunks \in Nat /\ ~Reports(x)
      BY <2>0 DEF Claims, Holds, Reports, TypeOK, CallType, PoolType
    <3>7. chunk[x] \notin Chunks(job[u])
      BY <2>1, <3>4, <3>6, Data
    <3>8. \A c \in Chunks(job'[u]) :
            c < next' => c \in ran'[u] \/ \E y \in Thread : Holds(y)' /\ chunk'[y] = c
      BY <2>0, <3>3, <3>4, <3>5, <3>7 DEF Kept
    <3>9. /\ \A c \in ran'[u] \intersect Failing(job'[u]) :
               \/ error'.kind # "none" /\ error'.chunk <= c
               \/ \E y \in Thread : Reports(y)' /\ chunk'[y] = c
          /\ error'.kind # "none" =>
               /\ error'.chunk \in ran'[u] \intersect Failing(job'[u])
               /\ \/ error'.kind = ErrorOf(job'[u].fate[error'.chunk])
                  \/ \E y \in Thread : pc'[y] = "Left" /\ chunk'[y] = error'.chunk
      BY <2>0, <3>3, <3>4, <3>5, <3>6 DEF Kept
    <3>10. /\ error'.kind = "none" => error' = NoError
           /\ \A y \in Thread : pc'[y] = "Fail" => job'[u].fate[chunk'[y]] \in {"throws", "both"}
           /\ \A y \in Thread : pc'[y] = "Left" => Simulation /\ job'[u].fate[chunk'[y]] \in {"leaves", "both"}
      BY <2>0, <3>3, <3>4, <3>5 DEF Kept
    <3>11. pc'[u] \in {"Close", "Drain"} => next' >= chunks'
      <4>1. next >= chunks
        BY <2>1, <3>6
      <4> QED BY <2>0, <4>1
    <3> QED BY <3>8, <3>9, <3>10, <3>11 DEF Kept
  <2>2. CASE ~(chunk[x] >= chunks)
    <3>1. pc' = [pc EXCEPT ![x] = "Body"] /\ UNCHANGED chunk
      BY <1>7, <2>2 DEF Begin
    <3>2. pc'[x] = "Body" /\ \A y \in Thread : y # x => pc'[y] = pc[y]
      BY <1>a, <2>0, <3>1, ChunkMoves DEF InJob
    <3>3. Handed(u) /\ Kept(u) /\ (pc'[u] \in {"Close", "Drain"} => pc[u] \in {"Close", "Drain"})
      BY <1>0, <2>0, <3>2 DEF Handed, InJob, Recording
    <3>4. \A y \in Thread : /\ Holds(y)' <=> Holds(y)
                            /\ pc'[y] = "Fail" <=> pc[y] = "Fail"
                            /\ pc'[y] = "Left" <=> pc[y] = "Left"
      BY <2>0, <3>2 DEF Holds
    <3> QED BY <2>0, <3>1, <3>3, <3>4, QuietKept DEF Kept
  <2> QED BY <2>1, <2>2
<1>8. ASSUME NEW x \in Thread, End(x) PROVE Kept(u)'
  <2>0. /\ pc[x] = "Body" /\ UNCHANGED <<next, body, chunks, chunk, error, job>>
        /\ ran' = [ran EXCEPT ![serving[x]] = @ \union {chunk[x]}]
    BY <1>8 DEF End, poolVars
  <2>1. PICK l \in {"Fail", "Left", "Take"} : pc' = [pc EXCEPT ![x] = l]
    BY <1>8 DEF End
  <2>2. pc'[x] = l /\ \A y \in Thread : y # x => pc'[y] = pc[y]
    BY <1>a, <2>0, <2>1, ChunkMoves DEF InJob
  <2>3. Handed(u) /\ Kept(u)
    BY <1>0, <2>0, <2>1, <2>2 DEF Handed, InJob, Recording
  <2>4. serving[x] = u /\ ran'[u] = ran[u] \union {chunk[x]}
    <3>1. serving[x] = u
      BY <2>0, <2>3 DEF Claims, Ownership
    <3> QED BY <2>0, <3>1 DEF TypeOK, CallType
  <2>5. l = IF job[u].fate[chunk[x]] \in {"throws", "both"} THEN "Fail"
            ELSE IF Simulation /\ job[u].fate[chunk[x]] = "leaves" THEN "Left"
            ELSE "Take"
    <3>1. pc'[x] = IF FateOf(x) \in {"throws", "both"} THEN "Fail"
                   ELSE IF Simulation /\ FateOf(x) = "leaves" THEN "Left"
                   ELSE "Take"
      BY <1>8 DEF End, TypeOK, PcType
    <3> QED BY <2>2, <2>4, <3>1 DEF FateOf
  <2>6. \A y \in Thread : /\ y # x => (Holds(y)' <=> Holds(y))
                          /\ y # x => (Reports(y)' <=> Reports(y))
                          /\ y # x => pc'[y] = pc[y]
    BY <2>0, <2>2 DEF Holds, Reports
  <2>7. Holds(x) /\ ~Reports(x) /\ pc[x] # "Left"
    BY <2>0 DEF Holds, Reports
  <2>8. \A c \in Chunks(job'[u]) :
          c < next' => c \in ran'[u] \/ \E y \in Thread : Holds(y)' /\ chunk'[y] = c
    BY <2>0, <2>3, <2>4, <2>6 DEF Kept
  <2>9. ASSUME NEW c \in ran'[u] \intersect Failing(job'[u])
        PROVE  \/ error'.kind # "none" /\ error'.chunk <= c
               \/ \E y \in Thread : Reports(y)' /\ chunk'[y] = c
    <3>1. CASE c \in ran[u]
      BY <2>0, <2>3, <2>6, <2>7, <2>9, <3>1 DEF Kept
    <3>2. CASE c = chunk[x]
      <4>1. ErrorOf(job[u].fate[c]) # "none"
        BY <2>0, <2>9 DEF Failing
      <4>2. l \in {"Fail", "Left"}
        BY <2>5, <3>2, <4>1 DEF ErrorOf
      <4>3. Reports(x)'
        BY <2>2, <4>2 DEF Reports
      <4> QED BY <2>0, <3>2, <4>3
    <3> QED BY <2>4, <2>9, <3>1, <3>2
  <2>10. error'.kind # "none" =>
           /\ error'.chunk \in ran'[u] \intersect Failing(job'[u])
           /\ \/ error'.kind = ErrorOf(job'[u].fate[error'.chunk])
              \/ \E y \in Thread : pc'[y] = "Left" /\ chunk'[y] = error'.chunk
    BY <2>0, <2>3, <2>4, <2>6, <2>7 DEF Kept
  <2>11. /\ error'.kind = "none" => error' = NoError
         /\ \A y \in Thread : pc'[y] = "Fail" => job'[u].fate[chunk'[y]] \in {"throws", "both"}
    BY <2>0, <2>2, <2>3, <2>5, <2>6 DEF Kept
  <2>12. \A y \in Thread : pc'[y] = "Left" => Simulation /\ job'[u].fate[chunk'[y]] \in {"leaves", "both"}
    BY <2>0, <2>2, <2>3, <2>5, <2>6 DEF Kept
  <2>13. pc'[u] \in {"Close", "Drain"} => next' >= chunks'
    BY <1>0, <2>0, <2>1, <2>2, <2>3 DEF Kept
  <2> QED BY <2>8, <2>9, <2>10, <2>11, <2>12, <2>13 DEF Kept
<1>9. ASSUME NEW x \in Thread, Fail(x) PROVE Kept(u)'
  <2>1. PICK l \in {"Left", "Take"} : pc[x] = "Fail" /\ pc' = [pc EXCEPT ![x] = l]
    BY <1>9 DEF Fail
  <2>2. pc'[x] = l /\ \A y \in Thread : y # x => pc'[y] = pc[y]
    BY <1>a, <2>1, ChunkMoves DEF InJob
  <2>3. Handed(u)
    BY <1>0, <2>1, <2>2 DEF Handed, InJob
  <2> QED BY <1>9, <2>3, ReportKept
<1>10. ASSUME NEW x \in Thread, Left(x) PROVE Kept(u)'
  <2>1. PICK l \in {"Left", "Take"} : pc[x] = "Left" /\ pc' = [pc EXCEPT ![x] = l]
    BY <1>10 DEF Left
  <2>2. pc'[x] = l /\ \A y \in Thread : y # x => pc'[y] = pc[y]
    BY <1>a, <2>1, ChunkMoves DEF InJob
  <2>3. Handed(u)
    BY <1>0, <2>1, <2>2 DEF Handed, InJob
  <2> QED BY <1>10, <2>3, ReportKept
<1>11. ASSUME NEW t \in Caller, Close(t) PROVE Kept(u)'
  <2>1. /\ pc[t] = "Close" /\ pc'[t] \in {"Return", "Drain"}
        /\ \A x \in Thread : x # t => pc'[x] = pc[x]
    BY <1>11, <1>a, CallerMoves DEF Close, Drained, CallerAt
  <2>2. Handed(t) /\ \A v \in Caller : Handed(v) => v = t
    BY <2>1 DEF Handed, Ownership
  <2>3. u = t /\ Handed(u) /\ Kept(u)
    BY <1>0, <2>1, <2>2 DEF Handed, Recording
  <2>4. pc'[t] = "Drain"
    BY <2>1, <2>3 DEF Handed, InJob
  <2>5. error' = error
    <3>1. CASE joined = 0
      <4>1. pc' = [pc EXCEPT ![t] = "Return"]
        BY <1>11, <3>1 DEF Close, Drained
      <4>2. pc'[t] = "Return"
        BY <1>a, <4>1, CallerMoves DEF CallerAt
      <4> QED BY <2>4, <4>2
    <3>2. CASE joined # 0
      BY <1>11, <3>2 DEF Close, Drained
    <3> QED BY <3>1, <3>2
  <2>6. UNCHANGED <<next, chunks, chunk, ran, job>>
    BY <1>11 DEF Close
  <2> QED BY <1>0, <2>1, <2>3, <2>4, <2>5, <2>6, QuietKept DEF Holds, Kept
<1>12. ASSUME NEW t \in Caller, Drain(t) PROVE Kept(u)'
  <2>1. /\ pc[t] = "Drain" /\ pc'[t] \in {"Return", "Drain"}
        /\ \A x \in Thread : x # t => pc'[x] = pc[x]
    BY <1>12, <1>a, CallerMoves DEF Drain, Drained, CallerAt
  <2>2. Handed(t) /\ \A v \in Caller : Handed(v) => v = t
    BY <2>1 DEF Handed, Ownership
  <2>3. u = t /\ Handed(u) /\ Kept(u)
    BY <1>0, <2>1, <2>2 DEF Handed, Recording
  <2>4. pc'[t] = "Drain"
    BY <2>1, <2>3 DEF Handed, InJob
  <2>5. error' = error
    <3>1. CASE joined = 0
      <4>1. pc' = [pc EXCEPT ![t] = "Return"]
        BY <1>12, <3>1 DEF Drain, Drained
      <4>2. pc'[t] = "Return"
        BY <1>a, <4>1, CallerMoves DEF CallerAt
      <4> QED BY <2>4, <4>2
    <3>2. CASE joined # 0
      BY <1>12, <3>2 DEF Drain, Drained
    <3> QED BY <3>1, <3>2
  <2>6. UNCHANGED <<next, chunks, chunk, ran, job>>
    BY <1>12 DEF Drain
  <2> QED BY <1>0, <2>1, <2>3, <2>4, <2>5, <2>6, QuietKept DEF Holds, Kept
<1>13. ASSUME NEW t \in Caller, Return(t) PROVE Kept(u)'
  <2>1. /\ pc[t] \notin {"Taken", "Body", "Fail", "Left"}
        /\ pc'[t] \notin {"Taken", "Body", "Fail", "Left", "Close"}
        /\ t \in Caller => (Handed(t)' => Handed(t))
        /\ pc'[t] = "Drain" => pc[t] \in {"Close", "Drain"}
        /\ \A x \in Thread : x # t => pc'[x] = pc[x]
    BY <1>13, <1>0, <1>a, CallerMoves DEF Return, CallerAt, InJob, Handed
  <2>2. Handed(u) /\ Kept(u) /\ (pc'[u] \in {"Close", "Drain"} => pc[u] \in {"Close", "Drain"})
    BY <1>0, <2>1 DEF Handed, Recording
  <2>3. /\ next' = next /\ error' = error /\ chunks' = chunks
        /\ \A x \in Thread : Holds(x) \/ Reports(x) => chunk'[x] = chunk[x]
    BY <1>13, <1>0, <2>1 DEF Return, Holds, Reports, poolVars, callVars, TypeOK, CallType
  <2>4. ran'[u] = ran[u] /\ job'[u] = job[u]
    BY <1>13, <2>1, <2>2 DEF Return, Handed, InJob, callVars, TypeOK, CallType
  <2>5. \A x \in Thread : pc'[x] # pc[x] => x = t
    BY <2>1
  <2> QED BY <2>1, <2>2, <2>3, <2>4, <2>5, QuietKept DEF Holds, Kept
<1>14. ASSUME NEW w \in Worker, Start(w) PROVE Kept(u)'
  <2>1. /\ pc[w] \notin {"Taken", "Body", "Fail", "Left"}
        /\ pc'[w] \notin {"Taken", "Body", "Fail", "Left", "Close"}
        /\ w \in Caller => (Handed(w)' => Handed(w))
        /\ pc'[w] = "Drain" => pc[w] \in {"Close", "Drain"}
        /\ \A x \in Thread : x # w => pc'[x] = pc[x]
    BY <1>14, <1>0, <1>a, WorkerMoves DEF Start, WorkerAt, InJob, Handed
  <2>2. Handed(u) /\ Kept(u) /\ (pc'[u] \in {"Close", "Drain"} => pc[u] \in {"Close", "Drain"})
    BY <1>0, <2>1 DEF Handed, Recording
  <2>3. /\ next' = next /\ error' = error /\ chunks' = chunks
        /\ \A x \in Thread : Holds(x) \/ Reports(x) => chunk'[x] = chunk[x]
    BY <1>14, <1>0, <2>1 DEF Start, Holds, Reports, poolVars, callVars, TypeOK, CallType
  <2>4. ran'[u] = ran[u] /\ job'[u] = job[u]
    BY <1>14, <2>1, <2>2 DEF Start, Handed, InJob, callVars, TypeOK, CallType
  <2>5. \A x \in Thread : pc'[x] # pc[x] => x = w
    BY <2>1
  <2> QED BY <2>1, <2>2, <2>3, <2>4, <2>5, QuietKept DEF Holds, Kept
<1>15. ASSUME NEW w \in Worker, Look(w) PROVE Kept(u)'
  <2>1. /\ pc[w] = "Look"
        /\ pc'[w] \in {"Look", "Off", "Take"}
        /\ \A x \in Thread : x # w => pc'[x] = pc[x]
    <3>1. CASE pc' = pc
      BY <1>15, <3>1 DEF Look
    <3>2. CASE pc' # pc
      BY <1>15, <1>0, <1>a, <3>2, WorkerMoves DEF Look, WorkerAt, InJob
    <3> QED BY <3>1, <3>2
  <2>2. Handed(u) /\ Kept(u) /\ (pc'[u] \in {"Close", "Drain"} => pc[u] \in {"Close", "Drain"})
    BY <1>0, <2>1 DEF Handed, Recording
  <2>3. /\ next' = next /\ error' = error /\ chunks' = chunks
        /\ \A x \in Thread : Holds(x) \/ Reports(x) => chunk'[x] = chunk[x]
    BY <1>15, <1>0, <2>1 DEF Look, Holds, Reports, poolVars, callVars, TypeOK, CallType
  <2>4. ran'[u] = ran[u] /\ job'[u] = job[u]
    BY <1>15, <2>1, <2>2 DEF Look, Handed, InJob, callVars, TypeOK, CallType
  <2>5. \A x \in Thread : pc'[x] # pc[x] => x = w
    BY <2>1
  <2> QED BY <2>1, <2>2, <2>3, <2>4, <2>5, QuietKept DEF Holds, Kept
<1>16. ASSUME NEW w \in Worker, Leave(w) PROVE Kept(u)'
  <2>1. /\ pc[w] \notin {"Taken", "Body", "Fail", "Left"}
        /\ pc'[w] \notin {"Taken", "Body", "Fail", "Left", "Close"}
        /\ w \in Caller => (Handed(w)' => Handed(w))
        /\ pc'[w] = "Drain" => pc[w] \in {"Close", "Drain"}
        /\ \A x \in Thread : x # w => pc'[x] = pc[x]
    BY <1>16, <1>0, <1>a, WorkerMoves DEF Leave, WorkerAt, InJob, Handed
  <2>2. Handed(u) /\ Kept(u) /\ (pc'[u] \in {"Close", "Drain"} => pc[u] \in {"Close", "Drain"})
    BY <1>0, <2>1 DEF Handed, Recording
  <2>3. /\ next' = next /\ error' = error /\ chunks' = chunks
        /\ \A x \in Thread : Holds(x) \/ Reports(x) => chunk'[x] = chunk[x]
    BY <1>16, <1>0, <2>1 DEF Leave, Holds, Reports, poolVars, callVars, TypeOK, CallType
  <2>4. ran'[u] = ran[u] /\ job'[u] = job[u]
    BY <1>16, <2>1, <2>2 DEF Leave, Handed, InJob, callVars, TypeOK, CallType
  <2>5. \A x \in Thread : pc'[x] # pc[x] => x = w
    BY <2>1
  <2> QED BY <2>1, <2>2, <2>3, <2>4, <2>5, QuietKept DEF Holds, Kept
<1>17. ASSUME NEW t \in Caller, StopWorkers(t) PROVE Kept(u)'
  <2>1. pc[t] = "Idle" /\ pc[u] = "Idle" /\ pc' = [pc EXCEPT ![t] = "Stop"]
    BY <1>17 DEF StopWorkers
  <2>2. pc'[u] \in {"Idle", "Stop"}
    BY <1>a, <2>1, CallerMoves DEF CallerAt
  <2> QED BY <2>2 DEF Handed, InJob
<1>18. ASSUME NEW t \in Caller, WakeToStop(t) PROVE Kept(u)'
  <2>1. pc[t] = "Stop" /\ pc' = [pc EXCEPT ![t] = "Join"]
    BY <1>18 DEF WakeToStop
  <2>2. pc'[t] = "Join" /\ \A x \in Thread : x # t => pc'[x] = pc[x]
    BY <1>a, <2>1, CallerMoves DEF CallerAt
  <2>3. Handed(u) /\ dispatcher = t /\ u # t
    BY <1>0, <2>1, <2>2 DEF Handed, InJob, Ownership
  <2> QED BY <2>3 DEF Ownership
<1>19. ASSUME NEW t \in Caller, StartWorkers(t) PROVE Kept(u)'
  <2>0. PICK started \in Crew :
          pc' = [x \in Thread |-> IF x = t THEN "Idle" ELSE IF x \in started THEN "New" ELSE pc[x]]
    BY <1>19 DEF StartWorkers
  <2>1. pc[t] = "Join" /\ pc'[t] = "Idle" /\ (u # t => pc'[u] = pc[u])
    BY <1>19, <1>0, <2>0, JobAssumption DEF StartWorkers
  <2>2. Handed(u) /\ dispatcher = t /\ u # t
    BY <2>1 DEF Handed, InJob, Ownership
  <2> QED BY <2>2 DEF Ownership
<1>20. ASSUME NEW x \in Thread, SpuriousWake(x) PROVE Kept(u)'
  <2>1. UNCHANGED <<pc, chunk, job, ran, next, error, chunks>>
    BY <1>20 DEF SpuriousWake, callVars, poolVars
  <2>2. Kept(u)
    BY <2>1 DEF Recording, Handed
  <2> QED BY <2>1, <2>2, QuietKept DEF Holds, Kept
<1>21. CASE UNCHANGED vars
  <2>1. UNCHANGED <<pc, chunk, job, ran, next, error, chunks>>
    BY <1>21 DEF vars, poolVars, threadVars, callVars
  <2>2. Kept(u)
    BY <2>1 DEF Recording, Handed
  <2> QED BY <2>1, <2>2, QuietKept DEF Holds, Kept
<1> QED
  BY <1>0, <1>1, <1>2, <1>3, <1>4, <1>5, <1>6, <1>7, <1>8, <1>9, <1>10, <1>11, <1>12, <1>13, <1>14, <1>15, <1>16, <1>17, <1>18, <1>19, <1>20, <1>21
  DEF Next, CallerStep, WorkerStep, RunChunks

-----------------------------------------------------------------------------
\* The theorems.

LEMMA ClaimsInit == Init => Claims
<1> SUFFICES ASSUME Init PROVE Claims
  OBVIOUS
<1>1. \A x \in Thread : pc[x] \in {"Idle", "New", "Off"}
  BY DEF Init
<1>2. /\ \A x \in Thread : ~Holds(x) /\ ~Reports(x) /\ pc[x] # "Body"
      /\ \A t \in Caller : ~Handed(t)
  BY <1>1 DEF Holds, Reports, Handed, InJob, Thread
<1> QED BY <1>2 DEF Claims

THEOREM JobInductive == Spec => []IInv
<1>1. Init => IInv
  BY TypeInit, OwnershipInit, ClaimsInit, RecordingInit, CallsInit DEF IInv
<1>2. IInv /\ [Next]_vars => IInv'
  <2> SUFFICES ASSUME IInv, [Next]_vars PROVE IInv'
    OBVIOUS
  <2> USE DEF IInv
  <2>1. TypeOK'
    BY TypeStep DEF Ownership
  <2>2. Ownership'
    BY OwnershipStep
  <2>3. Claims'
    BY ClaimsStep
  <2>4. Recording'
    BY RecordingStep
  <2>5. Calls'
    BY CallsStep
  <2> QED BY <2>1, <2>2, <2>3, <2>4, <2>5
<1> QED BY <1>1, <1>2, PTL DEF Spec

\* The state of the pool, the threads and the calls keeps its types.
THEOREM JobTypes == Spec => []TypeOK
<1>1. IInv => TypeOK
  BY DEF IInv
<1> QED BY <1>1, JobInductive, PTL

\* No thread runs a body whose caller has left the dispatch (dispatch's wait
\* for m_joined, workerMain's test of m_open).
THEOREM BodiesOutlive == Spec => []BodyAlive
<1>1. IInv => BodyAlive
  <2> SUFFICES ASSUME IInv, NEW x \in Thread, pc[x] \in {"Body", "Fail", "Left"}
               PROVE  /\ serving[x] \in Caller
                      /\ pc[serving[x]] \in InJob \union {"Wake", "Close", "Drain"}
                      /\ body = serving[x]
    BY DEF BodyAlive
  <2>1. serving[x] = body
    BY DEF IInv, Claims, Reports
  <2>2. body \in Caller /\ Handed(body)
    BY Busy DEF IInv, InJob
  <2> QED BY <2>1, <2>2 DEF Handed
<1> QED BY <1>1, JobInductive, PTL

\* Every chunk is given out once, whatever the workers of earlier jobs still
\* do when the next one is published (m_nextChunk, m_generation).
THEOREM ChunksAreUnique == Spec => []ChunkOnce
<1>1. IInv => ChunkOnce
  <2> SUFFICES ASSUME IInv, NEW x \in Thread, pc[x] = "Body"
               PROVE  /\ chunk[x] \in 0 .. job[serving[x]].count - 1
                      /\ chunk[x] \notin ran[serving[x]]
                      /\ \A y \in Thread \ {x} : pc[y] = "Body" => chunk[y] # chunk[x]
    BY DEF ChunkOnce
  <2>1. serving[x] = body /\ chunk[x] < chunks /\ Holds(x)
    BY DEF IInv, Claims, Holds
  <2>2. body \in Caller /\ Handed(body) /\ chunks = job[body].count
    BY Busy DEF IInv, InJob, Ownership
  <2>3. chunk[x] \in Nat /\ job[body] \in Job
    BY <2>2 DEF IInv, TypeOK, CallType
  <2>4. chunk[x] \in 0 .. job[body].count - 1
    BY <2>1, <2>2, <2>3, Data
  <2>5. chunk[x] \notin ran[body]
    BY <2>1, <2>2 DEF IInv, Claims
  <2>6. \A y \in Thread \ {x} : pc[y] = "Body" => chunk[y] # chunk[x]
    BY <2>1 DEF IInv, Claims, Holds
  <2> QED BY <2>1, <2>4, <2>5, <2>6
<1> QED BY <1>1, JobInductive, PTL

\* The determinism contract of JobSystem.h: on a pool of any size, busy or
\* not, a call returns or throws what one thread would, and runs every chunk
\* if it returns.
THEOREM PoolIsSequential == Spec => []SameAsSequential
<1>1. IInv => SameAsSequential
  BY DEF IInv, Calls, Settled, SameAsSequential
<1> QED BY <1>1, JobInductive, PTL

=============================================================================
