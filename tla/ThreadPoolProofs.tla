-------------------------- MODULE ThreadPoolProofs --------------------------
(***************************************************************************)
(* Theorems about ThreadPool, for any number of jobs and threads.          *)
(***************************************************************************)
EXTENDS ThreadPool, FiniteSetTheorems, TLAPS

USE ThreadPoolAssumption

-----------------------------------------------------------------------------
(* Counting.                                                                *)

(* The threads in the pool, and all threads, can be counted.                *)
LEMMA Countable ==
  /\ IsFiniteSet(Pool) /\ Cardinality(Pool) \in Nat
  /\ IsFiniteSet(Alive) /\ Cardinality(Alive) \in Nat
<1>1. Pool \in SUBSET Threads /\ Alive \in SUBSET Threads
  BY DEF Pool, Alive
<1>2. IsFiniteSet(Pool) /\ IsFiniteSet(Alive)
  BY <1>1, FS_Subset
<1> QED BY <1>2, FS_CardinalityType

(* What a step of one thread does to the pool.                              *)
LEMMA PoolSteps ==
  ASSUME TypeOK, NEW t \in Threads, NEW s \in ThreadStates,
         thread' = [thread EXCEPT ![t] = s]
  PROVE  /\ s \in Suspended /\ thread[t] \in Suspended =>
              Cardinality(Pool') = Cardinality(Pool)
         /\ s \in Suspended /\ thread[t] \notin Suspended =>
              Cardinality(Pool') = Cardinality(Pool) + 1
         /\ s \notin Suspended /\ thread[t] \in Suspended =>
              /\ Cardinality(Pool') = Cardinality(Pool) - 1
              /\ Cardinality(Pool) > 0
         /\ s \notin Suspended /\ thread[t] \notin Suspended =>
              Cardinality(Pool') = Cardinality(Pool)
<1>1. thread \in [Threads -> ThreadStates]
  BY DEF TypeOK
<1>2. IsFiniteSet(Pool) /\ Cardinality(Pool) \in Nat
  BY Countable
<1>3. s \in Suspended => Pool' = Pool \cup {t}
  BY <1>1 DEF Pool
<1>4. s \notin Suspended => Pool' = Pool \ {t}
  BY <1>1 DEF Pool
<1>5. t \in Pool <=> thread[t] \in Suspended
  BY DEF Pool
<1>6. Cardinality(Pool \cup {t}) =
        IF t \in Pool THEN Cardinality(Pool) ELSE Cardinality(Pool) + 1
  BY <1>2, FS_AddElement
<1>7. Cardinality(Pool \ {t}) =
        IF t \in Pool THEN Cardinality(Pool) - 1 ELSE Cardinality(Pool)
  BY <1>2, FS_RemoveElement
<1>8. t \in Pool => Cardinality(Pool) > 0
  BY <1>2, FS_EmptySet
<1>9. CASE s \in Suspended
  BY <1>9, <1>3, <1>5, <1>6
<1>10. CASE s \notin Suspended
  BY <1>10, <1>4, <1>5, <1>7, <1>8
<1> QED BY <1>9, <1>10

(* What a step of one thread does to the number of threads.                 *)
LEMMA AliveSteps ==
  ASSUME TypeOK, NEW t \in Threads, NEW s \in ThreadStates,
         thread' = [thread EXCEPT ![t] = s]
  PROVE  /\ s # "none" /\ thread[t] # "none" =>
              Cardinality(Alive') = Cardinality(Alive)
         /\ s # "none" /\ thread[t] = "none" =>
              Cardinality(Alive') = Cardinality(Alive) + 1
         /\ s = "none" /\ thread[t] # "none" =>
              /\ Cardinality(Alive') = Cardinality(Alive) - 1
              /\ Cardinality(Alive) > 0
<1>1. thread \in [Threads -> ThreadStates]
  BY DEF TypeOK
<1>2. IsFiniteSet(Alive) /\ Cardinality(Alive) \in Nat
  BY Countable
<1>3. s # "none" => Alive' = Alive \cup {t}
  BY <1>1 DEF Alive
<1>4. s = "none" => Alive' = Alive \ {t}
  BY <1>1 DEF Alive
<1>5. t \in Alive <=> thread[t] # "none"
  BY DEF Alive
<1>6. Cardinality(Alive \cup {t}) =
        IF t \in Alive THEN Cardinality(Alive) ELSE Cardinality(Alive) + 1
  BY <1>2, FS_AddElement
<1>7. Cardinality(Alive \ {t}) =
        IF t \in Alive THEN Cardinality(Alive) - 1 ELSE Cardinality(Alive)
  BY <1>2, FS_RemoveElement
<1>8. t \in Alive => Cardinality(Alive) > 0
  BY <1>2, FS_EmptySet
<1>9. CASE s # "none"
  BY <1>9, <1>3, <1>5, <1>6
<1>10. CASE s = "none"
  BY <1>10, <1>4, <1>5, <1>7, <1>8
<1> QED BY <1>9, <1>10

(* The same of the pool after a step.                                       *)
LEMMA CountableAfter ==
  /\ IsFiniteSet(Pool') /\ Cardinality(Pool') \in Nat
  /\ IsFiniteSet(Alive') /\ Cardinality(Alive') \in Nat
<1>1. Pool' \in SUBSET Threads /\ Alive' \in SUBSET Threads
  BY DEF Pool, Alive
<1>2. IsFiniteSet(Pool') /\ IsFiniteSet(Alive')
  BY <1>1, FS_Subset
<1> QED BY <1>2, FS_CardinalityType

-----------------------------------------------------------------------------
(* A signal of data_empty wakes one caller that waits, and nothing else.    *)
LEMMA SignalWakes ==
  ASSUME NEW calls \in [Jobs -> CallStates], SignalEmpty(calls)
  PROVE  /\ call' \in [Jobs -> CallStates]
         /\ \A k \in Jobs : call'[k] = calls[k] \/
              (calls[k] = "waiting" /\ call'[k] = "woken")
  BY DEF SignalEmpty, CallStates

(* Types and counts together: that a thread which leaves the pool finds     *)
(* pool_count above zero is known from the threads it counts.               *)
Typed == TypeOK /\ CountsTrue

(* At first no thread is counted.                                           *)
LEMMA TypedInit == Init => Typed
<1> SUFFICES ASSUME Init PROVE Typed
  OBVIOUS
<1>1. Pool = {} /\ Alive = {}
  BY DEF Init, Pool, Alive, Suspended
<1>2. CountsTrue
  BY <1>1, FS_EmptySet DEF Init, CountsTrue
<1>3. TypeOK
  BY DEF Init, TypeOK, CallStates, ThreadStates
<1> QED BY <1>2, <1>3 DEF Typed

(* A step of create_new_thread keeps types and counts.                      *)
LEMMA TypedCreate ==
  ASSUME Typed, NEW j \in Jobs, CreateNewThread(j)
  PROVE  Typed'
<1> USE DEF Typed
<1>1. TypeOK /\ CountsTrue
  OBVIOUS
<1>2. CASE AwaitEmpty(j) \/ EmptyWaitEnds(j)
  <2>1. TypeOK'
    BY <1>2 DEF AwaitEmpty, EmptyWaitEnds, Answers, TypeOK, counts, CallStates
  <2>2. CountsTrue'
    BY <1>2 DEF AwaitEmpty, EmptyWaitEnds, CountsTrue, Pool, Alive, counts
  <2> QED BY <2>1, <2>2
<1>3. CASE SpawnFails(j)
  <2>1. Answers(j, "false") \in [Jobs -> CallStates]
    BY DEF Answers, TypeOK, CallStates
  <2>2. call' \in [Jobs -> CallStates]
    BY <1>3, <2>1, SignalWakes DEF SpawnFails
  <2>3. TypeOK'
    BY <1>3, <2>2 DEF SpawnFails, TypeOK, counts
  <2>4. CountsTrue'
    BY <1>3 DEF SpawnFails, CountsTrue, Pool, Alive, counts
  <2> QED BY <2>3, <2>4
<1>4. CASE PutAndSpawn(j)
  <2>1. PICK t \in Threads : /\ thread[t] = "none"
                             /\ thread' = [thread EXCEPT ![t] = "spawned"]
    BY <1>4 DEF PutAndSpawn
  <2>2. "spawned" \in ThreadStates /\ "spawned" \notin Suspended
        /\ thread[t] \notin Suspended
    BY <2>1 DEF ThreadStates, Suspended
  <2>3. Cardinality(Pool') = Cardinality(Pool)
    BY <2>1, <2>2, PoolSteps
  <2>4. Cardinality(Alive') = Cardinality(Alive) + 1
    BY <2>1, <2>2, AliveSteps
  <2>5. CountsTrue'
    BY <1>4, <2>3, <2>4 DEF PutAndSpawn, CountsTrue
  <2>6. TypeOK'
    BY <1>4, <2>1, <2>2 DEF PutAndSpawn, Answers, TypeOK, CallStates
  <2> QED BY <2>5, <2>6
<1>5. CASE PutAndWake(j)
  <2>1. TypeOK' /\ Pool' = Pool /\ Alive' = Alive
    <3>1. CASE UNCHANGED thread
      BY <1>5, <3>1
         DEF PutAndWake, Answers, TypeOK, CallStates, counts, Pool, Alive
    <3>2. CASE \E t \in Threads :
                 /\ thread[t] = "waiting"
                 /\ thread' = [thread EXCEPT ![t] = "woken"]
      <4>1. PICK t \in Threads : /\ thread[t] = "waiting"
                                 /\ thread' = [thread EXCEPT ![t] = "woken"]
        BY <3>2
      <4>2. thread \in [Threads -> ThreadStates]
        BY DEF TypeOK
      <4>3. Pool' = Pool
        BY <4>1, <4>2 DEF Pool, Suspended
      <4>4. Alive' = Alive
        BY <4>1, <4>2 DEF Alive
      <4>5. TypeOK'
        BY <1>5, <4>1 DEF PutAndWake, Answers, TypeOK, CallStates, counts,
                          ThreadStates, Suspended
      <4> QED BY <4>3, <4>4, <4>5
    <3> QED BY <1>5, <3>1, <3>2 DEF PutAndWake
  <2>2. CountsTrue'
    BY <1>5, <2>1 DEF PutAndWake, CountsTrue, counts
  <2> QED BY <2>1, <2>2
<1> QED BY <1>2, <1>3, <1>4, <1>5 DEF CreateNewThread

(* A step of thread_starter keeps types and counts.                         *)
LEMMA TypedThread ==
  ASSUME Typed, NEW t \in Threads, ThreadStarter(t)
  PROVE  Typed'
<1> USE DEF Typed
<1>1. /\ TypeOK /\ CountsTrue /\ thread \in [Threads -> ThreadStates]
      /\ thread[t] \in ThreadStates
  BY DEF TypeOK
<1>2. /\ Cardinality(Pool) \in Nat /\ Cardinality(Alive) \in Nat
      /\ Cardinality(Pool') \in Nat /\ Cardinality(Alive') \in Nat
  BY Countable, CountableAfter
<1>3. CASE TakeJob(t)
  <2>1. /\ thread' = [thread EXCEPT ![t] = "working"] /\ thread[t] # "none"
        /\ "working" \in ThreadStates \ Suspended
    BY <1>3 DEF TakeJob, ThreadStates, Suspended
  <2>2. Cardinality(Pool') = poolCount'
    <3>1. poolCount = Cardinality(Pool) /\ poolCount' = Entered(t) - 1
      BY <1>1, <1>3 DEF TakeJob, CountsTrue
    <3>2. CASE thread[t] \in Suspended
      <4>1. Cardinality(Pool') = Cardinality(Pool) - 1
        BY <1>1, <2>1, <3>2, PoolSteps
      <4>2. Entered(t) = poolCount
        BY <3>2 DEF Entered
      <4> QED BY <1>2, <3>1, <4>1, <4>2
    <3>3. CASE thread[t] \notin Suspended
      <4>1. Cardinality(Pool') = Cardinality(Pool)
        BY <1>1, <2>1, <3>3, PoolSteps
      <4>2. Entered(t) = poolCount + 1
        BY <3>3 DEF Entered
      <4> QED BY <1>2, <3>1, <4>1, <4>2
    <3> QED BY <3>2, <3>3
  <2>3. Cardinality(Alive') = totalCount'
    BY <1>1, <1>3, <2>1, AliveSteps DEF TakeJob, CountsTrue
  <2>4. call' \in [Jobs -> CallStates]
    BY <1>3, SignalWakes DEF TakeJob, TypeOK
  <2>5. TypeOK'
    BY <1>2, <1>3, <2>1, <2>2, <2>3, <2>4 DEF TakeJob, TypeOK
  <2> QED BY <2>2, <2>3, <2>5 DEF CountsTrue
<1>4. CASE FunctionReturns(t)
  <2>1. /\ thread' = [thread EXCEPT ![t] = "returned"] /\ thread[t] = "working"
        /\ "returned" \in ThreadStates \ Suspended /\ "working" \notin Suspended
    BY <1>4 DEF FunctionReturns, ThreadStates, Suspended
  <2>2. Cardinality(Pool') = poolCount'
    BY <1>1, <1>4, <2>1, PoolSteps DEF FunctionReturns, counts, CountsTrue
  <2>3. Cardinality(Alive') = totalCount'
    BY <1>1, <1>4, <2>1, AliveSteps DEF FunctionReturns, counts, CountsTrue
  <2>4. doing[t] \in Jobs
    BY <2>1 DEF TypeOK
  <2>5. TypeOK'
    BY <1>4, <2>1, <2>4 DEF FunctionReturns, TypeOK, counts
  <2> QED BY <2>2, <2>3, <2>5 DEF CountsTrue
<1>5. CASE AwaitReady(t)
  <2>1. /\ thread' = [thread EXCEPT ![t] = "waiting"]
        /\ thread[t] \notin {"none", "working"}
        /\ "waiting" \in ThreadStates /\ "waiting" \in Suspended
    BY <1>5 DEF AwaitReady, ThreadStates, Suspended
  <2>2. Cardinality(Pool') = poolCount'
    BY <1>1, <1>5, <2>1, PoolSteps DEF AwaitReady, Entered, CountsTrue
  <2>3. Cardinality(Alive') = totalCount'
    BY <1>1, <1>5, <2>1, AliveSteps DEF AwaitReady, CountsTrue
  <2>4. TypeOK'
    BY <1>2, <1>5, <2>1, <2>2 DEF AwaitReady, TypeOK
  <2> QED BY <2>2, <2>3, <2>4 DEF CountsTrue
<1>6. CASE WaitEnds(t)
  <2>1. PICK s \in {"woken", "timedOut"} : thread' = [thread EXCEPT ![t] = s]
    BY <1>6 DEF WaitEnds
  <2>2. /\ thread[t] = "waiting" /\ s \in ThreadStates /\ s # "none"
        /\ s \in Suspended /\ thread[t] \in Suspended
    BY <1>6, <2>1 DEF WaitEnds, ThreadStates, Suspended
  <2>3. Cardinality(Pool') = poolCount'
    BY <1>1, <1>6, <2>1, <2>2, PoolSteps DEF WaitEnds, counts, CountsTrue
  <2>4. Cardinality(Alive') = totalCount'
    BY <1>1, <1>6, <2>1, <2>2, AliveSteps DEF WaitEnds, counts, CountsTrue
  <2>5. TypeOK'
    BY <1>6, <2>1, <2>2 DEF WaitEnds, TypeOK, counts
  <2> QED BY <2>3, <2>4, <2>5 DEF CountsTrue
<1>7. CASE ThreadEnds(t)
  <2>1. /\ thread' = [thread EXCEPT ![t] = "none"]
        /\ thread[t] \notin {"none", "working"}
        /\ "none" \in ThreadStates \ Suspended
    BY <1>7 DEF ThreadEnds, ThreadStates, Suspended
  <2>2. Cardinality(Pool') = poolCount'
    <3>1. poolCount = Cardinality(Pool) /\ poolCount' = Entered(t) - 1
      BY <1>1, <1>7 DEF ThreadEnds, CountsTrue
    <3>2. CASE thread[t] \in Suspended
      <4>1. Cardinality(Pool') = Cardinality(Pool) - 1
        BY <1>1, <2>1, <3>2, PoolSteps
      <4>2. Entered(t) = poolCount
        BY <3>2 DEF Entered
      <4> QED BY <1>2, <3>1, <4>1, <4>2
    <3>3. CASE thread[t] \notin Suspended
      <4>1. Cardinality(Pool') = Cardinality(Pool)
        BY <1>1, <2>1, <3>3, PoolSteps
      <4>2. Entered(t) = poolCount + 1
        BY <3>3 DEF Entered
      <4> QED BY <1>2, <3>1, <4>1, <4>2
    <3> QED BY <3>2, <3>3
  <2>3. Cardinality(Alive') = totalCount'
    BY <1>1, <1>7, <2>1, AliveSteps DEF ThreadEnds, CountsTrue
  <2>4. TypeOK'
    BY <1>2, <1>7, <2>1, <2>2, <2>3 DEF ThreadEnds, TypeOK
  <2> QED BY <2>2, <2>3, <2>4 DEF CountsTrue
<1> QED BY <1>3, <1>4, <1>5, <1>6, <1>7 DEF ThreadStarter

(* exit() keeps types and counts.                                           *)
LEMMA TypedDestruct ==
  ASSUME Typed, DestructIfReady
  PROVE  Typed'
<1>1. /\ TypeOK /\ CountsTrue
      /\ thread \in [Threads -> ThreadStates]
  BY DEF Typed, TypeOK
<1>2. thread' \in [Threads -> ThreadStates]
  BY <1>1 DEF DestructIfReady, ThreadStates, Suspended
<1>3. \A t \in Threads : /\ thread'[t] = "none" <=> thread[t] = "none"
                         /\ thread'[t] = "working" <=> thread[t] = "working"
                         /\ thread'[t] \in Suspended <=> thread[t] \in Suspended
  BY <1>1 DEF DestructIfReady, Suspended
<1>4. Pool' = Pool /\ Alive' = Alive
  BY <1>3 DEF Pool, Alive
<1>5. CountsTrue'
  BY <1>1, <1>4 DEF DestructIfReady, CountsTrue, counts
<1>6. TypeOK'
  BY <1>1, <1>2, <1>3 DEF DestructIfReady, TypeOK, counts
<1> QED BY <1>5, <1>6 DEF Typed

(* Types and counts are kept together by every step.                        *)
LEMMA TypedNext == Typed /\ [Next]_vars => Typed'
<1> SUFFICES ASSUME Typed, [Next]_vars PROVE Typed'
  OBVIOUS
<1>1. CASE UNCHANGED vars
  BY <1>1 DEF vars, counts, Typed, TypeOK, CountsTrue, Pool, Alive
<1> QED BY <1>1, TypedCreate, TypedThread, TypedDestruct DEF Next

(* Every variable of the pool keeps its type.                               *)
THEOREM PoolTypeCorrect == Spec => []TypeOK
<1>1. Spec => []Typed
  BY TypedInit, TypedNext, PTL DEF Spec
<1> QED BY <1>1, PTL DEF Typed

(* pool_count and total_count count the suspended threads and all threads   *)
(* (CountsTrue), whatever times out, fails or is signalled.                 *)
THEOREM PoolCountsTrue == Spec => []CountsTrue
<1>1. Spec => []Typed
  BY TypedInit, TypedNext, PTL DEF Spec
<1> QED BY <1>1, PTL DEF Typed

-----------------------------------------------------------------------------
(* The slot.                                                                *)

(* A step that leaves a job in the slot leaves a thread on its way to it:   *)
(* one that leaves finds the job first, one that is signalled counts.       *)
LEMMA SlotWatchedNext ==
  ASSUME Typed, SlotWatched, [Next]_vars
  PROVE  SlotWatched'
<1> DEFINE Bound(th) == th \in {"spawned", "woken", "timedOut"}
<1>1. /\ TypeOK /\ CountsTrue
      /\ thread \in [Threads -> ThreadStates]
  BY DEF Typed, TypeOK
<1>2. SUFFICES ASSUME slot' # NoJob, ~destruct'
               PROVE  \E t \in Threads : Bound(thread'[t])
  BY DEF SlotWatched
<1>3. CASE slot # NoJob /\ ~destruct
  <2>1. PICK w \in Threads : Bound(thread[w])
    BY <1>3 DEF SlotWatched
  <2>2. CASE \E j \in Jobs : CreateNewThread(j)
    BY <1>3, <2>1, <2>2 DEF CreateNewThread, AwaitEmpty, EmptyWaitEnds,
       PutAndSpawn, SpawnFails, PutAndWake
  <2>3. ASSUME NEW t \in Threads, ThreadStarter(t)
        PROVE  Bound(thread'[w])
    BY <1>1, <1>2, <1>3, <2>1, <2>3 DEF ThreadStarter, TakeJob,
       FunctionReturns, AwaitReady, WaitEnds, ThreadEnds
  <2>4. CASE DestructIfReady
    BY <1>2, <2>4 DEF DestructIfReady
  <2>5. CASE UNCHANGED vars
    BY <2>1, <2>5 DEF vars
  <2> QED BY <2>1, <2>2, <2>3, <2>4, <2>5 DEF Next
<1>4. CASE ~(slot # NoJob /\ ~destruct)
  <2>1. PICK j \in Jobs : PutAndSpawn(j) \/ PutAndWake(j)
    BY <1>2, <1>4 DEF Next, vars, CreateNewThread, AwaitEmpty, EmptyWaitEnds, SpawnFails,
       ThreadStarter, TakeJob, FunctionReturns, AwaitReady, WaitEnds,
       ThreadEnds, DestructIfReady
  <2>2. CASE PutAndSpawn(j)
    BY <1>1, <2>2 DEF PutAndSpawn
  <2>3. CASE PutAndWake(j) /\ UNCHANGED thread
    <3>1. (\A t \in Threads : thread[t] # "waiting")
          \/ (\E t \in Threads : /\ thread[t] = "waiting"
                                 /\ thread' = [thread EXCEPT ![t] = "woken"])
      BY <2>3 DEF PutAndWake
    <3>2. \A t \in Threads : thread[t] # "waiting"
      BY <1>1, <2>3, <3>1
    <3>3. Pool # {}
      BY <1>1, <2>3, FS_EmptySet DEF PutAndWake, CountsTrue
    <3>4. PICK t \in Threads : thread[t] \in Suspended
      BY <3>3 DEF Pool
    <3>5. Bound(thread'[t])
      BY <2>3, <3>2, <3>4 DEF Suspended
    <3> QED BY <3>5
  <2>4. CASE PutAndWake(j) /\ ~UNCHANGED thread
    BY <1>1, <2>4 DEF PutAndWake
  <2> QED BY <2>1, <2>2, <2>3, <2>4
<1> QED BY <1>3, <1>4

(* A job in the slot is never left without a thread bound to look at it     *)
(* (SlotWatched), however timeouts and signals race.                        *)
THEOREM SlotIsWatched == Spec => []SlotWatched
<1>1. Init => SlotWatched
  BY DEF Init, SlotWatched
<1>2. Typed /\ SlotWatched /\ [Next]_vars => SlotWatched'
  BY SlotWatchedNext
<1>3. Spec => []Typed
  BY TypedInit, TypedNext, PTL DEF Spec
<1> QED BY <1>1, <1>2, <1>3, PTL DEF Spec

-----------------------------------------------------------------------------
(* Every job at one place.                                                  *)

(* create_new_thread puts a job nowhere but into the slot, and takes it     *)
(* out again when it answers false.                                         *)
LEMMA OnePlaceCreate ==
  ASSUME Typed, JobsAtOnePlace, NEW j \in Jobs, CreateNewThread(j)
  PROVE  JobsAtOnePlace'
<1>1. TypeOK
  BY DEF Typed
<1>2. CASE AwaitEmpty(j) \/ EmptyWaitEnds(j)
  BY <1>1, <1>2 DEF AwaitEmpty, EmptyWaitEnds, Calling, Answers, TypeOK, JobsAtOnePlace
<1>3. CASE SpawnFails(j)
  <2>1. Answers(j, "false") \in [Jobs -> CallStates]
    BY <1>1 DEF Answers, TypeOK, CallStates
  <2>2. \A k \in Jobs : call'[k] = "true" <=> Answers(j, "false")[k] = "true"
    BY <1>3, <2>1, SignalWakes DEF SpawnFails
  <2>3. \A k \in Jobs : call'[k] = "true" <=> call[k] = "true"
    BY <1>1, <1>3, <2>2 DEF Answers, SpawnFails, Calling, TypeOK
  <2> QED BY <1>3, <2>3 DEF SpawnFails, JobsAtOnePlace
<1>4. CASE PutAndSpawn(j) \/ PutAndWake(j)
  <2>1. /\ slot = NoJob /\ slot' = j /\ call[j] # "true"
        /\ call' = [call EXCEPT ![j] = "true"]
        /\ UNCHANGED <<doing, finished>>
    BY <1>4 DEF PutAndSpawn, PutAndWake, Calling, Answers
  <2>2. j \notin finished /\ \A t \in Threads : doing[t] # j
    BY <2>1 DEF JobsAtOnePlace
  <2> QED BY <1>1, <2>1, <2>2 DEF JobsAtOnePlace, TypeOK
<1> QED BY <1>2, <1>3, <1>4 DEF CreateNewThread

(* thread_starter moves a job from the slot to itself, and then to finished.*)
LEMMA OnePlaceThread ==
  ASSUME Typed, JobsAtOnePlace, NEW t \in Threads, ThreadStarter(t)
  PROVE  JobsAtOnePlace'
<1>1. TypeOK
  BY DEF Typed
<1>2. CASE TakeJob(t)
  <2>1. \A k \in Jobs : call'[k] = "true" <=> call[k] = "true"
    BY <1>1, <1>2, SignalWakes DEF TakeJob, TypeOK
  <2>2. doing[t] = NoJob
    BY <1>1, <1>2 DEF TakeJob, TypeOK
  <2>3. /\ slot \in Jobs /\ slot' = NoJob /\ finished' = finished
        /\ doing' = [doing EXCEPT ![t] = slot]
        /\ doing \in [Threads -> Jobs \cup {NoJob}]
        /\ NoJob \notin finished
    BY <1>1, <1>2 DEF TakeJob, TypeOK
  <2>4. \A j \in Jobs :
          (slot' = j \/ (\E u \in Threads : doing'[u] = j) \/ j \in finished')
          <=> (slot = j \/ (\E u \in Threads : doing[u] = j) \/ j \in finished)
    BY <2>2, <2>3
  <2>5. \A u \in Threads :
          doing'[u] # NoJob => doing'[u] # slot' /\ doing'[u] \notin finished'
    BY <2>3 DEF JobsAtOnePlace
  <2>6. \A v, u \in Threads : doing'[v] = doing'[u] /\ v # u => doing'[v] = NoJob
    BY <2>3 DEF JobsAtOnePlace
  <2> QED BY <2>1, <2>3, <2>4, <2>5, <2>6 DEF JobsAtOnePlace
<1>3. CASE FunctionReturns(t)
  BY <1>1, <1>3 DEF FunctionReturns, JobsAtOnePlace, TypeOK
<1>4. CASE AwaitReady(t) \/ WaitEnds(t) \/ ThreadEnds(t)
  BY <1>4 DEF AwaitReady, WaitEnds, ThreadEnds, JobsAtOnePlace
<1> QED BY <1>2, <1>3, <1>4 DEF ThreadStarter

(* Every step keeps jobs at one place.                                      *)
LEMMA OnePlaceNext ==
  ASSUME Typed, JobsAtOnePlace, [Next]_vars
  PROVE  JobsAtOnePlace'
<1>1. CASE DestructIfReady \/ UNCHANGED vars
  BY <1>1 DEF DestructIfReady, vars, JobsAtOnePlace
<1> QED BY <1>1, OnePlaceCreate, OnePlaceThread DEF Next

(* At first every job is at none.                                           *)
LEMMA OnePlaceInit == Init => JobsAtOnePlace
  BY DEF Init, JobsAtOnePlace

(* No job is lost between the slot and the threads, none is taken twice, and *)
(* none is run after its call answered false.                               *)
THEOREM JobsStayAtOnePlace == Spec => []JobsAtOnePlace
<1>1. Spec => []Typed
  BY TypedInit, TypedNext, PTL DEF Spec
<1>2. Typed /\ JobsAtOnePlace /\ [Next]_vars => JobsAtOnePlace'
  BY OnePlaceNext
<1> QED BY <1>1, <1>2, OnePlaceInit, PTL DEF Spec

-----------------------------------------------------------------------------
(* The pool implements Executor.                                            *)

JobView == [j \in Jobs |-> JobState(j)]

(* A step that leaves what is seen of each job alone is a stutter.          *)
LEMMA Stutters ==
  ASSUME \A j \in Jobs : JobState(j)' = JobState(j)
  PROVE  JobView' = JobView
  BY DEF JobView

(* A step that moves one job is a step of the promise.                      *)
LEMMA Moves ==
  ASSUME NEW j \in Jobs, NEW to,
         JobState(j)' = to,
         \A k \in Jobs \ {j} : JobState(k)' = JobState(k)
  PROVE  JobView' = [JobView EXCEPT ![j] = to]
<1>1. \A k \in Jobs : JobView'[k] = IF k = j THEN to ELSE JobView[k]
  BY DEF JobView
<1>2. JobView' = [k \in Jobs |-> JobView'[k]]
  BY DEF JobView
<1>3. JobView = [k \in Jobs |-> JobView[k]]
  BY DEF JobView
<1>4. [JobView EXCEPT ![j] = to]
        = [k \in Jobs |-> IF k = j THEN to ELSE JobView[k]]
  BY <1>3
<1> QED BY <1>1, <1>2, <1>4

(* What is seen of a job that is at its place.                              *)
LEMMA JobStates ==
  ASSUME Typed, JobsAtOnePlace, NEW j \in Jobs
  PROVE  /\ call[j] \in {"none", "waiting", "woken"} => JobState(j) = "new"
         /\ slot = j => JobState(j) = "accepted"
         /\ \A t \in Threads : doing[t] = j => JobState(j) = "running"
         /\ j \in finished => JobState(j) = "done"
  BY DEF Typed, TypeOK, JobsAtOnePlace, JobState

(* A step of the pool is one of Executor, or leaves what Executor sees.     *)
LEMMA StepImplements ==
  ASSUME Typed, JobsAtOnePlace, Next
  PROVE  Promise!Next \/ UNCHANGED JobView
<1>1. TypeOK
  BY DEF Typed
<1>2. Typed' /\ JobsAtOnePlace'
  BY TypedNext, OnePlaceNext
<1>3. ASSUME NEW j \in Jobs, AwaitEmpty(j) \/ EmptyWaitEnds(j)
      PROVE  UNCHANGED JobView
  <2>1. \A k \in Jobs : JobState(k)' = JobState(k)
    BY <1>1, <1>3 DEF AwaitEmpty, EmptyWaitEnds, Calling, Answers, JobState, TypeOK
  <2> QED BY <2>1, Stutters
<1>4. ASSUME NEW j \in Jobs, SpawnFails(j)
      PROVE  Promise!Refuse(j)
  <2>1. Answers(j, "false") \in [Jobs -> CallStates]
    BY <1>1 DEF Answers, TypeOK, CallStates
  <2>2. \A k \in Jobs : call'[k] = Answers(j, "false")[k] \/
          (Answers(j, "false")[k] = "waiting" /\ call'[k] = "woken")
    BY <1>4, <2>1, SignalWakes DEF SpawnFails
  <2>3. \A k \in Jobs \ {j} : call'[k] = call[k] \/
          (call[k] = "waiting" /\ call'[k] = "woken")
    BY <1>1, <2>2 DEF Answers, TypeOK
  <2>4. call'[j] = "false"
    BY <1>1, <2>2 DEF Answers, TypeOK
  <2>5. JobState(j)' = "refused"
    BY <2>4 DEF JobState
  <2>6. \A k \in Jobs \ {j} : JobState(k)' = JobState(k)
    BY <1>4, <2>3 DEF SpawnFails, JobState
  <2>7. JobState(j) = "new"
    BY <1>4, JobStates DEF SpawnFails, Calling
  <2> QED BY <2>5, <2>6, <2>7, Moves
          DEF Promise!Refuse, Promise!Move, JobView
<1>5. ASSUME NEW j \in Jobs, PutAndSpawn(j) \/ PutAndWake(j)
      PROVE  Promise!Accept(j)
  <2>1. /\ slot' = j /\ call' = [call EXCEPT ![j] = "true"]
        /\ call[j] \in {"none", "woken"}
        /\ UNCHANGED <<doing, finished>>
    BY <1>5 DEF PutAndSpawn, PutAndWake, Calling, Answers
  <2>2. JobState(j)' = "accepted"
    <3>1. j \notin finished' /\ \A t \in Threads : doing'[t] # j
      BY <1>1, <2>1 DEF JobsAtOnePlace
    <3>2. call'[j] = "true"
      BY <1>1, <2>1 DEF TypeOK
    <3> QED BY <3>1, <3>2 DEF JobState
  <2>3. \A k \in Jobs \ {j} : JobState(k)' = JobState(k)
    BY <1>1, <2>1 DEF JobState, TypeOK
  <2>4. JobState(j) = "new"
    BY <2>1, JobStates
  <2> QED BY <2>2, <2>3, <2>4, Moves
          DEF Promise!Accept, Promise!Move, JobView
<1>6. ASSUME NEW t \in Threads, TakeJob(t), NEW j \in Jobs, slot = j
      PROVE  Promise!Start(j)
  <2>1. \A k \in Jobs : call'[k] = call[k] \/
          (call[k] = "waiting" /\ call'[k] = "woken")
    BY <1>1, <1>6, SignalWakes DEF TakeJob, TypeOK
  <2>2. /\ doing[t] = NoJob /\ finished' = finished
        /\ doing' = [doing EXCEPT ![t] = j]
        /\ doing \in [Threads -> Jobs \cup {NoJob}]
    BY <1>1, <1>6 DEF TakeJob, TypeOK
  <2>3. JobState(j) = "accepted"
    BY <1>6, JobStates
  <2>4. call'[j] = "true" /\ doing'[t] = j
    BY <1>6, <2>1, <2>2 DEF JobsAtOnePlace
  <2>5. JobState(j)' = "running"
    BY <2>4 DEF JobState
  <2>6. \A k \in Jobs \ {j} : JobState(k)' = JobState(k)
    <3> SUFFICES ASSUME NEW k \in Jobs \ {j}
                 PROVE  JobState(k)' = JobState(k)
      OBVIOUS
    <3>1. (\E u \in Threads : doing'[u] = k) <=> (\E u \in Threads : doing[u] = k)
      BY <2>2
    <3>2. call'[k] = call[k] \/ (call[k] = "waiting" /\ call'[k] = "woken")
      BY <2>1
    <3> QED BY <2>2, <3>1, <3>2 DEF JobState
  <2> QED BY <2>3, <2>5, <2>6, Moves
          DEF Promise!Start, Promise!Move, JobView
<1>7. ASSUME NEW t \in Threads, FunctionReturns(t), NEW j \in Jobs, doing[t] = j
      PROVE  Promise!End(j)
  <2>1. /\ doing' = [doing EXCEPT ![t] = NoJob]
        /\ finished' = finished \cup {j} /\ call' = call
        /\ doing \in [Threads -> Jobs \cup {NoJob}]
    BY <1>1, <1>7 DEF FunctionReturns, TypeOK
  <2>2. \A u \in Threads : doing'[u] # j
    BY <1>7, <2>1 DEF JobsAtOnePlace
  <2>3. call'[j] = "true"
    BY <1>7, <2>1 DEF JobsAtOnePlace
  <2>4. JobState(j)' = "done"
    BY <2>1, <2>2, <2>3 DEF JobState
  <2>5. JobState(j) = "running"
    BY <1>7, JobStates
  <2>6. \A k \in Jobs \ {j} : JobState(k)' = JobState(k)
    <3> SUFFICES ASSUME NEW k \in Jobs \ {j}
                 PROVE  JobState(k)' = JobState(k)
      OBVIOUS
    <3>1. (\E u \in Threads : doing'[u] = k) <=> (\E u \in Threads : doing[u] = k)
      BY <1>7, <2>1
    <3> QED BY <2>1, <3>1 DEF JobState
  <2> QED BY <2>4, <2>5, <2>6, Moves
          DEF Promise!End, Promise!Move, JobView
<1>8. ASSUME NEW t \in Threads, AwaitReady(t) \/ WaitEnds(t) \/ ThreadEnds(t)
      PROVE  UNCHANGED JobView
  BY <1>8 DEF AwaitReady, WaitEnds, ThreadEnds, JobView, JobState
<1>9. CASE DestructIfReady
  BY <1>9 DEF DestructIfReady, JobView, JobState
<1>10. ASSUME NEW j \in Jobs, CreateNewThread(j)
       PROVE  Promise!Next \/ UNCHANGED JobView
  BY <1>3, <1>4, <1>5, <1>10 DEF CreateNewThread, Promise!Next
<1>11. ASSUME NEW t \in Threads, ThreadStarter(t)
       PROVE  Promise!Next \/ UNCHANGED JobView
  <2>1. TakeJob(t) => slot \in Jobs
    BY <1>1 DEF TakeJob, TypeOK
  <2>2. FunctionReturns(t) => doing[t] \in Jobs
    BY <1>1 DEF FunctionReturns, TypeOK
  <2> QED BY <1>6, <1>7, <1>8, <1>11, <2>1, <2>2
          DEF ThreadStarter, Promise!Next
<1> QED BY <1>9, <1>10, <1>11 DEF Next

(* create_new_thread keeps what Executor says it promises, for any number   *)
(* of jobs and threads.                                                     *)
THEOREM PoolImplementsExecutor == Spec => ImplementsExecutor
<1>1. Init => Promise!Init
  <2> SUFFICES ASSUME Init PROVE Promise!Init
    OBVIOUS
  <2>1. \A j \in Jobs : JobState(j) = "new"
    BY DEF Init, JobState
  <2> QED BY <2>1 DEF Promise!Init
<1>2. Typed /\ JobsAtOnePlace /\ [Next]_vars => [Promise!Next]_JobView
  <2>1. Typed /\ JobsAtOnePlace /\ Next => [Promise!Next]_JobView
    BY StepImplements
  <2>2. UNCHANGED vars => UNCHANGED JobView
    BY DEF vars, JobView, JobState
  <2> QED BY <2>1, <2>2
<1>3. Spec => []Typed
  BY TypedInit, TypedNext, PTL DEF Spec
<1>4. Spec => []JobsAtOnePlace
  BY JobsStayAtOnePlace
<1> QED BY <1>1, <1>2, <1>3, <1>4, PTL
        DEF Spec, ImplementsExecutor, Promise!Spec, JobView
=============================================================================
