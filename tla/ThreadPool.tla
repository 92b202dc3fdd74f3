----------------------------- MODULE ThreadPool -----------------------------
(***************************************************************************)
(* dlib's thread pool (threads_kernel_shared.cpp): create_new_thread puts  *)
(* a job into the one slot and wakes an idle thread or spawns one;         *)
(* thread_starter is the life of a thread, which waits for the next job    *)
(* and ends when none comes for DLIB_THREAD_POOL_TIMEOUT.  The server runs *)
(* its listener and every connection in it.                                *)
(*                                                                         *)
(* All of the state is guarded by data_mutex: an action is what a thread   *)
(* does from getting that mutex to giving it up, by unlocking or by        *)
(* waiting for a condition.                                                *)
(***************************************************************************)
EXTENDS Naturals, FiniteSets

CONSTANTS
  Jobs,     \* calls of create_new_thread
  Threads,  \* the threads there can be at a time
  NoJob

ASSUME ThreadPoolAssumption == NoJob \notin Jobs /\ IsFiniteSet(Threads)

VARIABLES
  slot,        \* function_pointer and parameter: the job put, not yet taken
  poolCount,   \* pool_count
  totalCount,  \* total_count
  destruct,    \* destruct
  call,        \* job -> the state of its call of create_new_thread
  thread,      \* thread -> where it is in thread_starter
  doing,       \* thread -> the job whose function it runs
  finished     \* the jobs whose functions have returned

counts == <<poolCount, totalCount>>
vars == <<slot, counts, destruct, call, thread, doing, finished>>

CallStates == {"none", "waiting", "woken", "true", "false"}
\* Suspended in data_ready.wait_or_timeout, or on the way out of it.
Suspended == {"waiting", "woken", "timedOut"}
ThreadStates == {"none", "spawned", "working", "returned"} \cup Suspended

Pool  == {t \in Threads : thread[t] \in Suspended}
Alive == {t \in Threads : thread[t] # "none"}

Init ==
  /\ slot = NoJob /\ poolCount = 0 /\ totalCount = 0 /\ destruct = FALSE
  /\ call = [j \in Jobs |-> "none"]
  /\ thread = [t \in Threads |-> "none"]
  /\ doing = [t \in Threads |-> NoJob]
  /\ finished = {}

-----------------------------------------------------------------------------
(* create_new_thread *)

Answers(j, answer) == [call EXCEPT ![j] = answer]

\* Mutant: nobody is told that the slot is empty.
SignalNobody(calls) == call' = calls

\* data_empty.signal() beside what a step makes of the calls otherwise: one
\* of the callers that wait is woken, if there are any.
SignalEmpty(calls) ==
  \/ /\ \A k \in Jobs : calls[k] # "waiting"
     /\ call' = calls
  \/ \E k \in Jobs :
       calls[k] = "waiting" /\ call' = [calls EXCEPT ![k] = "woken"]

Calling(j) == ~destruct /\ call[j] \in {"none", "woken"}

AwaitEmpty(j) ==
  /\ Calling(j) /\ slot # NoJob
  /\ call' = Answers(j, "waiting")
  /\ UNCHANGED <<slot, counts, destruct, thread, doing, finished>>

\* data_empty.wait() ends without a signal: the caller looks again.
EmptyWaitEnds(j) ==
  /\ call[j] = "waiting"
  /\ call' = Answers(j, "woken")
  /\ UNCHANGED <<slot, counts, destruct, thread, doing, finished>>

PutAndSpawn(j) ==
  /\ Calling(j) /\ slot = NoJob /\ poolCount = 0
  /\ \E t \in Threads :
       thread[t] = "none" /\ thread' = [thread EXCEPT ![t] = "spawned"]
  /\ slot' = j
  /\ totalCount' = totalCount + 1
  /\ call' = Answers(j, "true")
  /\ UNCHANGED <<poolCount, destruct, doing, finished>>

\* Mutant: the slot is not cleared when there is no thread for it.
SpawnFailsLeavesJob(j) ==
  /\ Calling(j) /\ slot = NoJob /\ poolCount = 0
  /\ slot' = j
  /\ SignalEmpty(Answers(j, "false"))
  /\ UNCHANGED <<counts, destruct, thread, doing, finished>>

SpawnFails(j) ==
  /\ Calling(j) /\ slot = NoJob /\ poolCount = 0
  /\ SignalEmpty(Answers(j, "false"))
  /\ UNCHANGED <<slot, counts, destruct, thread, doing, finished>>

\* Mutant: data_ready is not signalled.
PutQuietly(j) ==
  /\ Calling(j) /\ slot = NoJob /\ poolCount > 0
  /\ slot' = j
  /\ call' = Answers(j, "true")
  /\ UNCHANGED <<counts, destruct, thread, doing, finished>>

PutAndWake(j) ==
  /\ Calling(j) /\ slot = NoJob /\ poolCount > 0
  /\ \/ /\ \A t \in Threads : thread[t] # "waiting"
        /\ UNCHANGED thread
     \/ \E t \in Threads :
          thread[t] = "waiting" /\ thread' = [thread EXCEPT ![t] = "woken"]
  /\ slot' = j
  /\ call' = Answers(j, "true")
  /\ UNCHANGED <<counts, destruct, doing, finished>>

CreateNewThread(j) ==
  \/ AwaitEmpty(j) \/ EmptyWaitEnds(j)
  \/ PutAndSpawn(j) \/ SpawnFails(j) \/ PutAndWake(j)

-----------------------------------------------------------------------------
(* thread_starter *)

\* pool_count in t's critical section, once t has counted itself in.
Entered(t) ==
  IF thread[t] \in Suspended THEN poolCount ELSE poolCount + 1

\* Mutant: function_pointer is not reset when the job is taken.
TakeJobKeepsSlot(t) ==
  /\ slot # NoJob
  /\ \/ thread[t] = "returned"
     \/ ~destruct /\ thread[t] \in {"spawned", "woken", "timedOut"}
  /\ poolCount' = Entered(t) - 1
  /\ thread' = [thread EXCEPT ![t] = "working"]
  /\ doing' = [doing EXCEPT ![t] = slot]
  /\ SignalEmpty(call)
  /\ UNCHANGED <<slot, totalCount, destruct, finished>>

\* The outer loop asks for destruct, the loop around the job does not.
TakeJob(t) ==
  /\ slot # NoJob
  /\ \/ thread[t] = "returned"
     \/ ~destruct /\ thread[t] \in {"spawned", "woken", "timedOut"}
  /\ poolCount' = Entered(t) - 1
  /\ thread' = [thread EXCEPT ![t] = "working"]
  /\ doing' = [doing EXCEPT ![t] = slot]
  /\ slot' = NoJob
  /\ SignalEmpty(call)
  /\ UNCHANGED <<totalCount, destruct, finished>>

\* Mutant: the thread keeps its parameter after the function has returned.
FunctionReturnsHolding(t) ==
  /\ thread[t] = "working"
  /\ thread' = [thread EXCEPT ![t] = "returned"]
  /\ finished' = finished \cup {doing[t]}
  /\ UNCHANGED <<slot, counts, destruct, call, doing>>

FunctionReturns(t) ==
  /\ thread[t] = "working"
  /\ thread' = [thread EXCEPT ![t] = "returned"]
  /\ doing' = [doing EXCEPT ![t] = NoJob]
  /\ finished' = finished \cup {doing[t]}
  /\ UNCHANGED <<slot, counts, destruct, call>>

\* Mutant: a thread that comes back does not count itself in.
AwaitReadyUncounted(t) ==
  /\ slot = NoJob /\ ~destruct
  /\ thread[t] \in {"spawned", "woken", "returned"}
  /\ thread' = [thread EXCEPT ![t] = "waiting"]
  /\ UNCHANGED <<slot, counts, destruct, call, doing, finished>>

AwaitReady(t) ==
  /\ slot = NoJob /\ ~destruct
  /\ thread[t] \in {"spawned", "woken", "returned"}
  /\ poolCount' = Entered(t)
  /\ thread' = [thread EXCEPT ![t] = "waiting"]
  /\ UNCHANGED <<slot, totalCount, destruct, call, doing, finished>>

\* The wait ends without a signal: after the timeout, or spuriously.
WaitEnds(t) ==
  /\ thread[t] = "waiting"
  /\ \E s \in {"woken", "timedOut"} : thread' = [thread EXCEPT ![t] = s]
  /\ UNCHANGED <<slot, counts, destruct, call, doing, finished>>

\* Mutant: a thread that timed out leaves without a look at the slot.
ThreadEndsHeedless(t) ==
  /\ \/ thread[t] = "timedOut"
     \/ destruct /\ thread[t] \in {"spawned", "woken"}
     \/ slot = NoJob /\ destruct /\ thread[t] = "returned"
  /\ poolCount' = Entered(t) - 1
  /\ totalCount' = totalCount - 1
  /\ thread' = [thread EXCEPT ![t] = "none"]
  /\ UNCHANGED <<slot, destruct, call, doing, finished>>

ThreadEnds(t) ==
  /\ \/ destruct /\ thread[t] \in {"spawned", "woken", "timedOut"}
     \/ slot = NoJob /\ thread[t] = "timedOut"
     \/ slot = NoJob /\ destruct /\ thread[t] = "returned"
  /\ poolCount' = Entered(t) - 1
  /\ totalCount' = totalCount - 1
  /\ thread' = [thread EXCEPT ![t] = "none"]
  /\ UNCHANGED <<slot, destruct, call, doing, finished>>

ThreadStarter(t) ==
  \/ TakeJob(t) \/ FunctionReturns(t) \/ AwaitReady(t) \/ WaitEnds(t)
  \/ ThreadEnds(t)

-----------------------------------------------------------------------------
\* exit() in a process whose pool is idle: destruct_if_ready and ~threader.
\* The threads outside the pool that call create_new_thread (main, in boot)
\* are not in a call then.
DestructIfReady ==
  /\ ~destruct /\ totalCount = poolCount
  /\ \A j \in Jobs : call[j] \notin {"waiting", "woken"}
  /\ destruct' = TRUE
  /\ thread' = [t \in Threads |->
                  IF thread[t] = "waiting" THEN "woken" ELSE thread[t]]
  /\ UNCHANGED <<slot, counts, call, doing, finished>>

Next ==
  \/ \E j \in Jobs : CreateNewThread(j)
  \/ \E t \in Threads : ThreadStarter(t)
  \/ DestructIfReady

Spec == Init /\ [][Next]_vars

\* Whoever asks for data_mutex gets it.  Nothing is assumed of the functions
\* the pool runs: they need never return.
FairSpec ==
  /\ Spec
  /\ WF_vars(\E t \in Threads : TakeJob(t))
  /\ \A t \in Threads : WF_vars(ThreadEnds(t))
  /\ \A j \in Jobs : WF_vars(call[j] = "woken" /\ CreateNewThread(j))

-----------------------------------------------------------------------------
(* Every variable keeps its type; a thread runs a function exactly while it *)
(* is out of the pool (thread_starter).                                     *)
TypeOK ==
  /\ slot \in Jobs \cup {NoJob} /\ destruct \in BOOLEAN
  /\ poolCount \in Nat /\ totalCount \in Nat
  /\ call \in [Jobs -> CallStates]
  /\ thread \in [Threads -> ThreadStates]
  /\ doing \in [Threads -> Jobs \cup {NoJob}]
  /\ \A t \in Threads : doing[t] # NoJob <=> thread[t] = "working"
  /\ finished \subseteq Jobs

(* The convention of threads_kernel_shared.h:93-95: pool_count is the number *)
(* of suspended threads, total_count the number of all, whatever timeouts,  *)
(* signals and failed spawns there were.                                    *)
CountsTrue ==
  /\ poolCount = Cardinality(Pool)
  /\ totalCount = Cardinality(Alive)

(* A job in the slot is never left to nobody: some thread is bound to come  *)
(* into its critical section and take it.  This is what a timeout that      *)
(* races a signal (thread_starter, wait_or_timeout) could break.            *)
SlotWatched ==
  slot # NoJob /\ ~destruct =>
    \E t \in Threads : thread[t] \in {"spawned", "woken", "timedOut"}

(* A job accepted is in the slot, running or finished, at one place only:   *)
(* no job is lost, run twice, or run after its call answered false.         *)
JobsAtOnePlace ==
  /\ \A j \in Jobs :
       call[j] = "true" <=>
         slot = j \/ (\E t \in Threads : doing[t] = j) \/ j \in finished
  /\ slot \notin finished
  /\ \A t \in Threads :
       doing[t] # NoJob => doing[t] # slot /\ doing[t] \notin finished
  /\ \A t, u \in Threads : doing[t] = doing[u] /\ t # u => doing[t] = NoJob

\* What a caller of create_new_thread sees of job j.
JobState(j) ==
  IF call[j] = "false" THEN "refused"
  ELSE IF \E t \in Threads : doing[t] = j THEN "running"
  ELSE IF j \in finished THEN "done"
  ELSE IF call[j] = "true" THEN "accepted" ELSE "new"

Promise == INSTANCE Executor WITH job <- [j \in Jobs |-> JobState(j)]

(* The pool keeps create_new_thread's promise: true means run once, in a    *)
(* thread of its own, false means never.                                    *)
ImplementsExecutor == Promise!Spec

(* A job accepted is run, however long the functions of the others take,    *)
(* unless the process exits.                                                *)
JobsStart ==
  \A j \in Jobs :
    call[j] = "true" ~> destruct \/ JobState(j) \in {"running", "done"}

(* A caller that waits for the slot gets its answer.                        *)
CallersAnswered ==
  \A j \in Jobs : call[j] = "waiting" ~> call[j] \in {"true", "false"}

=============================================================================
