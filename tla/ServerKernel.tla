---------------------------- MODULE ServerKernel ----------------------------
(***************************************************************************)
(* dlib's server (server_kernel.cpp), on which paint_server runs: callers  *)
(* that start and clear it, the listener thread that accepts connections,  *)
(* and one thread per connection.  The threads of connections are what     *)
(* Executor, implemented by ThreadPool, promises of create_new_thread.     *)
(*                                                                         *)
(* An action is one critical section (of cons_mutex, thread_count_mutex,   *)
(* running_mutex or shutting_down_mutex) with what its thread does alone   *)
(* before it.  running_mutex is recursive and start_async keeps it while   *)
(* it waits for another thread: starter is who does.                       *)
(*                                                                         *)
(* paint_server never calls set_max_connections, so the limit is a         *)
(* constant: what clear() resets it to is what it was.                     *)
(***************************************************************************)
EXTENDS Integers, FiniteSets

CONSTANTS
  Arrivals,        \* how many connections clients open
  Callers,         \* threads that call start_async and clear
  Listeners,       \* names for the threads of async_start_thread
  MaxConnections,  \* max_connections; 0 is no limit
  Nobody           \* no connection, caller or listener

Conns == 1 .. Arrivals  \* in the order in which they come

ASSUME ServerKernelAssumption ==
  /\ Nobody \notin Conns \cup Callers \cup Listeners
  /\ Callers \cap Listeners = {}
  /\ IsFiniteSet(Listeners)
  /\ Arrivals \in Nat /\ MaxConnections \in Nat

VARIABLES
  job,           \* connection -> its thread, as in Executor
  stage,         \* connection -> what has become of it
  cons,          \* cons
  shut,          \* the connections clear() has shut down
  threadCount,   \* thread_count, an int
  running,       \* running
  shuttingDown,  \* shutting_down
  starter,       \* who is in start_async with running_mutex
  current,       \* the listener async_start_thread holds
  old,           \* the one it held before, to be joined
  pc,            \* caller or listener -> what it does next
  got,           \* listener -> the connection it has accepted
  late           \* history: connections still served when a clear() returned

conVars  == <<job, stage>>
runVars  == <<running, starter, current, old>>
vars == <<conVars, cons, shut, threadCount, runVars, shuttingDown, pc, got, late>>

Pool == INSTANCE Executor WITH Jobs <- Conns

\* A connection is held by the listener, then talks (on_connect), is closed
\* after it was taken out of cons, and counted off; or the listener drops it.
Stages == {"none", "held", "talking", "closing", "gone", "dropped", "leaked"}
ClearSteps == {"shutting", "disconnect", "threads", "threadsWait",
               "listener", "listenerWait", "finish"}
AcceptSteps == {"open", "accept", "add", "spawn", "count", "limit",
                "limitWait", "limitWoken", "close", "closeFailed"}

Threads == {c \in Conns : job[c] \in {"accepted", "running"}}

Init ==
  /\ Pool!Init
  /\ stage = [c \in Conns |-> "none"]
  /\ cons = {} /\ shut = {} /\ late = {}
  /\ threadCount = 0
  /\ running = FALSE /\ shuttingDown = FALSE
  /\ starter = Nobody /\ current = Nobody /\ old = Nobody
  /\ pc = [p \in Callers \cup Listeners |->
             IF p \in Callers THEN "idle" ELSE "off"]
  /\ got = [l \in Listeners |-> Nobody]

Goto(p, step) == pc' = [pc EXCEPT ![p] = step]

\* Broadcasts: those asleep at a condition are awake again.
Awake == [threadsWait |-> "threads", listenerWait |-> "listener",
          limitWait |-> "limitWoken"]
Broadcast(at, asleep) ==
  pc' = [p \in DOMAIN pc |-> IF at[p] \in asleep THEN Awake[at[p]] ELSE at[p]]

SpuriousWakeup(p) ==
  /\ pc[p] \in DOMAIN Awake
  /\ Goto(p, Awake[pc[p]])
  /\ UNCHANGED <<conVars, cons, shut, threadCount, runVars, shuttingDown, got, late>>

-----------------------------------------------------------------------------
(* start_async *)

\* A running server, or a port that is taken, leave everything as it is.
StartAsync(p) ==
  /\ pc[p] = "idle" /\ starter = Nobody /\ ~running
  /\ running' = TRUE
  /\ \E l \in Listeners \ {current} :
       /\ pc[l] = "off"
       /\ pc' = [pc EXCEPT ![p] = "joining", ![l] = "open"]
       /\ current' = l
  /\ old' = current
  /\ starter' = p
  /\ UNCHANGED <<conVars, cons, shut, threadCount, shuttingDown, got, late>>

\* No thread for the listener: the exception leaves running set.
StartThreadFails(p) ==
  /\ pc[p] = "idle" /\ starter = Nobody /\ ~running
  /\ running' = TRUE
  /\ UNCHANGED <<conVars, cons, shut, threadCount, starter, current, old,
                 shuttingDown, pc, got, late>>

\* Mutant: running_mutex is given up before the wait.
JoinedUnlocked(p) ==
  /\ pc[p] = "joining" /\ starter = p
  /\ starter' = Nobody /\ old' = Nobody
  /\ UNCHANGED <<conVars, cons, shut, threadCount, running, current,
                 shuttingDown, pc, got, late>>

\* async_start_thread.reset() has waited for the listener of before.
Joined(p) ==
  /\ pc[p] = "joining"
  /\ old # Nobody => pc[old] = "off"
  /\ starter' = Nobody /\ old' = Nobody
  /\ Goto(p, "idle")
  /\ UNCHANGED <<conVars, cons, shut, threadCount, running, current,
                 shuttingDown, got, late>>

-----------------------------------------------------------------------------
(* start_accepting_connections *)

Open(l) ==
  /\ pc[l] = "open" /\ starter = Nobody
  /\ running' = TRUE
  /\ Goto(l, "accept")
  /\ UNCHANGED <<conVars, cons, shut, threadCount, starter, current, old,
                 shuttingDown, got, late>>

\* accept() answers with c, the first in the backlog.
Arrives(c, as) ==
  /\ stage[c] = "none" /\ \A d \in Conns : d < c => stage[d] # "none"
  /\ stage' = [stage EXCEPT ![c] = as]

Accept(l, c) ==
  /\ pc[l] = "accept" /\ ~shuttingDown
  /\ Arrives(c, "held")
  /\ got' = [got EXCEPT ![l] = c]
  /\ Goto(l, "add")
  /\ UNCHANGED <<job, cons, shut, threadCount, runVars, shuttingDown, late>>

\* accept() times out or answers with a connection, which is deleted.
AcceptStops(l) ==
  /\ pc[l] = "accept" /\ shuttingDown
  /\ \/ UNCHANGED stage
     \/ \E c \in Conns : Arrives(c, "dropped")
  /\ Goto(l, "close")
  /\ UNCHANGED <<job, cons, shut, threadCount, runVars, shuttingDown, got, late>>

AcceptFails(l) ==
  /\ pc[l] = "accept"
  /\ Goto(l, "closeFailed")
  /\ UNCHANGED <<conVars, cons, shut, threadCount, runVars, shuttingDown, got, late>>

Add(l) ==
  /\ pc[l] = "add"
  /\ cons' = cons \cup {got[l]}
  /\ Goto(l, "spawn")
  /\ UNCHANGED <<conVars, shut, threadCount, runVars, shuttingDown, got, late>>

\* The listener deletes the connection and gives up.
Drop(l, as) ==
  /\ stage' = [stage EXCEPT ![got[l]] = as]
  /\ got' = [got EXCEPT ![l] = Nobody]
  /\ Goto(l, "closeFailed")
  /\ UNCHANGED <<job, shut, threadCount, runVars, shuttingDown, late>>

AddFails(l)   == pc[l] = "add" /\ Drop(l, "dropped") /\ UNCHANGED cons
\* new param throws: the connection is deleted and stays in cons.
ParamFails(l) == pc[l] = "spawn" /\ Drop(l, "leaked") /\ UNCHANGED cons
SpawnFails(l) == pc[l] = "spawn" /\ Drop(l, "dropped") /\ cons' = cons \ {got[l]}

Spawn(l) ==
  /\ pc[l] = "spawn"
  /\ Pool!Accept(got[l])
  /\ Goto(l, "count")
  /\ UNCHANGED <<stage, cons, shut, threadCount, runVars, shuttingDown, got, late>>

\* Mutant: a thread started while the server shuts down is not counted.
CountUnlessShutting(l) ==
  /\ pc[l] = "count"
  /\ threadCount' = IF shuttingDown THEN threadCount ELSE threadCount + 1
  /\ got' = [got EXCEPT ![l] = Nobody]
  /\ Goto(l, "limit")
  /\ UNCHANGED <<conVars, cons, shut, runVars, shuttingDown, late>>

Count(l) ==
  /\ pc[l] = "count"
  /\ threadCount' = threadCount + 1
  /\ got' = [got EXCEPT ![l] = Nobody]
  /\ Broadcast([pc EXCEPT ![l] = "limit"],
               IF threadCount' = 0 THEN {"threadsWait"} ELSE {})
  /\ UNCHANGED <<conVars, cons, shut, runVars, shuttingDown, late>>

\* Mutant: one connection too many.
AboveLimit == MaxConnections # 0 /\ threadCount > MaxConnections

AtLimit == MaxConnections # 0 /\ threadCount >= MaxConnections

CheckLimit(l) ==
  /\ pc[l] = "limit"
  /\ Goto(l, IF AtLimit THEN "limitWait" ELSE "accept")
  /\ UNCHANGED <<conVars, cons, shut, threadCount, runVars, shuttingDown, got, late>>

LimitWoken(l) ==
  /\ pc[l] = "limitWoken"
  /\ Goto(l, IF shuttingDown THEN "close"
             ELSE IF AtLimit THEN "limitWait" ELSE "accept")
  /\ UNCHANGED <<conVars, cons, shut, threadCount, runVars, shuttingDown, got, late>>

\* Mutant: clear() is not told that the listener has closed.
CloseQuietly(l) ==
  /\ pc[l] \in {"close", "closeFailed"} /\ starter = Nobody
  /\ running' = FALSE
  /\ Goto(l, IF pc[l] = "close" THEN "off" ELSE "shutting")
  /\ UNCHANGED <<conVars, cons, shut, threadCount, starter, current, old,
                 shuttingDown, got, late>>

\* The listener that failed goes on with clear() before it throws.
Close(l) ==
  /\ pc[l] \in {"close", "closeFailed"} /\ starter = Nobody
  /\ running' = FALSE
  /\ Broadcast([pc EXCEPT ![l] = IF @ = "close" THEN "off" ELSE "shutting"],
               {"listenerWait"})
  /\ UNCHANGED <<conVars, cons, shut, threadCount, starter, current, old,
                 shuttingDown, got, late>>

ListenerStep(l) ==
  \/ Open(l) \/ AcceptStops(l) \/ Add(l) \/ Spawn(l) \/ Count(l)
  \/ CheckLimit(l) \/ LimitWoken(l) \/ Close(l)

ListenerFails(l) ==
  AcceptFails(l) \/ AddFails(l) \/ ParamFails(l) \/ SpawnFails(l)

-----------------------------------------------------------------------------
(* service_connection *)

OnConnect(c) ==
  /\ Pool!Start(c)
  /\ stage' = [stage EXCEPT ![c] = "talking"]
  /\ UNCHANGED <<cons, shut, threadCount, runVars, shuttingDown, pc, got, late>>

\* Mutant: the connection is closed first.
LeaveInCons(c) ==
  /\ stage[c] = "talking" /\ stage' = [stage EXCEPT ![c] = "closing"]
  /\ UNCHANGED <<job, cons, shut, threadCount, runVars, shuttingDown, pc, got, late>>

\* on_connect returns and the connection is taken out of cons.
Leave(c) ==
  /\ stage[c] = "talking" /\ stage' = [stage EXCEPT ![c] = "closing"]
  /\ cons' = cons \ {c}
  /\ UNCHANGED <<job, shut, threadCount, runVars, shuttingDown, pc, got, late>>

\* Mutant: only the last thread signals.
UncountLastSignals(c) ==
  /\ stage[c] = "closing" /\ stage' = [stage EXCEPT ![c] = "gone"]
  /\ Pool!End(c)
  /\ threadCount' = threadCount - 1
  /\ Broadcast(pc, IF threadCount' = 0 THEN {"limitWait", "threadsWait"} ELSE {})
  /\ UNCHANGED <<cons, shut, runVars, shuttingDown, got, late>>

\* close_gracefully has deleted the connection.
Uncount(c) ==
  /\ stage[c] = "closing" /\ stage' = [stage EXCEPT ![c] = "gone"]
  /\ Pool!End(c)
  /\ threadCount' = threadCount - 1
  /\ Broadcast(pc, {"limitWait"} \cup
                   IF threadCount' = 0 THEN {"threadsWait"} ELSE {})
  /\ UNCHANGED <<cons, shut, runVars, shuttingDown, got, late>>

ServiceConnection(c) == OnConnect(c) \/ Leave(c) \/ Uncount(c)

-----------------------------------------------------------------------------
(* clear *)

ClearBegins(p) ==
  /\ pc[p] = "idle" /\ Goto(p, "shutting")
  /\ UNCHANGED <<conVars, cons, shut, threadCount, runVars, shuttingDown, got, late>>

SetShuttingDown(p) ==
  /\ pc[p] = "shutting" /\ Goto(p, "disconnect")
  /\ shuttingDown' = TRUE
  /\ UNCHANGED <<conVars, cons, shut, threadCount, runVars, got, late>>

\* What shutdown() of a leaked connection does is undefined; the model has
\* the outcome in which nothing more happens.
ShutdownConnections(p) ==
  /\ pc[p] = "disconnect" /\ Goto(p, "threads")
  /\ shut' = shut \cup cons
  /\ cons' = {}
  /\ UNCHANGED <<conVars, threadCount, runVars, shuttingDown, got, late>>

\* Mutant: clear() waits for the listener only.
AwaitNoThreads(p) ==
  /\ pc[p] = "threads" /\ Goto(p, "listener")
  /\ UNCHANGED <<conVars, cons, shut, threadCount, runVars, shuttingDown, got, late>>

AwaitThreads(p) ==
  /\ pc[p] = "threads"
  /\ Goto(p, IF threadCount > 0 THEN "threadsWait" ELSE "listener")
  /\ UNCHANGED <<conVars, cons, shut, threadCount, runVars, shuttingDown, got, late>>

AwaitListener(p) ==
  /\ pc[p] = "listener" /\ starter = Nobody
  /\ Goto(p, IF running THEN "listenerWait" ELSE "finish")
  /\ UNCHANGED <<conVars, cons, shut, threadCount, runVars, shuttingDown, got, late>>

ClearReturns(p) ==
  /\ pc[p] = "finish" /\ Goto(p, IF p \in Callers THEN "idle" ELSE "off")
  /\ shuttingDown' = FALSE
  /\ late' = late \cup Threads
  /\ UNCHANGED <<conVars, cons, shut, threadCount, runVars, got>>

ClearStep(p) ==
  \/ SetShuttingDown(p) \/ ShutdownConnections(p) \/ AwaitThreads(p)
  \/ AwaitListener(p) \/ ClearReturns(p)

-----------------------------------------------------------------------------
Next ==
  \/ \E p \in Callers : StartAsync(p) \/ StartThreadFails(p) \/ Joined(p) \/ ClearBegins(p)
  \/ \E p \in Callers \cup Listeners : ClearStep(p) \/ SpuriousWakeup(p)
  \/ \E l \in Listeners : ListenerStep(l) \/ ListenerFails(l) \/ \E c \in Conns : Accept(l, c)
  \/ \E c \in Conns : ServiceConnection(c)

Spec == Init /\ [][Next]_vars

\* Threads run and mutexes are given.  Clients connect and hang up when they
\* like: only a connection that was shut down makes on_connect return
\* (server_kernel_abstract.h:281).
FairSpec ==
  /\ Spec
  /\ \A p \in Callers : WF_vars(Joined(p))
  /\ \A p \in Callers \cup Listeners : WF_vars(ClearStep(p))
  /\ \A l \in Listeners : WF_vars(ListenerStep(l))
  /\ \A c \in Conns : /\ WF_vars(OnConnect(c)) /\ WF_vars(Uncount(c))
                      /\ WF_vars(c \in shut /\ Leave(c))

-----------------------------------------------------------------------------
CallerSteps   == {"idle", "joining"} \cup ClearSteps
ListenerSteps == {"off"} \cup AcceptSteps \cup ClearSteps
Holding       == {"add", "spawn", "count"}

ConnsTyped ==
  /\ job \in [Conns -> Pool!States] /\ stage \in [Conns -> Stages]
  /\ \A c \in Conns : /\ stage[c] = "none" => job[c] = "new"
                      /\ job[c] = "accepted" => stage[c] = "held"
                      /\ job[c] = "running" <=> stage[c] \in {"talking", "closing"}

SharedTyped ==
  /\ cons \subseteq Conns /\ shut \subseteq Conns /\ late \subseteq Conns
  /\ threadCount \in Int
  /\ running \in BOOLEAN /\ shuttingDown \in BOOLEAN
  /\ starter \in Callers \cup {Nobody}
  /\ current \in Listeners \cup {Nobody} /\ old \in Listeners \cup {Nobody}

StepsTyped ==
  /\ pc \in [Callers \cup Listeners -> CallerSteps \cup ListenerSteps]
  /\ \A p \in Callers : pc[p] \in CallerSteps /\ (starter = p <=> pc[p] = "joining")
  /\ \A l \in Listeners : pc[l] \in ListenerSteps
  /\ got \in [Listeners -> Conns \cup {Nobody}]
  /\ \A l \in Listeners : got[l] # Nobody <=> pc[l] \in Holding

(* Every variable keeps its type; a connection that has a thread is not     *)
(* deleted under it, a listener holds a connection until it has counted its *)
(* thread, and running_mutex is kept exactly while start_async joins.       *)
TypeOK == ConnsTyped /\ SharedTyped /\ StepsTyped

(* thread_count is the number of connection threads but for the one the     *)
(* listener has started and not counted yet (server_kernel.h:69), although  *)
(* that one may have counted itself off before.                             *)
CountIsThreads ==
  threadCount = Cardinality(Threads)
                  - Cardinality({l \in Listeners : pc[l] = "count"})

(* Nobody sleeps at a condition that has come true: the broadcasts of       *)
(* service_connection, of the listener's count and of its end are enough.   *)
NoMissedWakeup ==
  \A p \in Callers \cup Listeners :
    /\ pc[p] = "limitWait" => AtLimit
    /\ pc[p] = "threadsWait" => threadCount > 0
    /\ pc[p] = "listenerWait" => running

(* No connection that was deleted is in cons, where clear() would shut it   *)
(* down (server_kernel.cpp:118-124), but one whose parameter could not be   *)
(* allocated.                                                               *)
ConsAlive == \A c \in cons : stage[c] \in {"held", "talking", "leaked"}

(* There are never more connections served than max_connections             *)
(* (server_kernel_abstract.h:54-57), not counting those a clear() has left. *)
LimitKept == MaxConnections # 0 => Cardinality(Threads \ late) <= MaxConnections

(* clear() leaves at most one connection thread: the one the listener was   *)
(* about to start when the connections were shut down.                      *)
ClearLeavesAtMostOne == [][Cardinality(late' \ late) <= 1]_vars

(* "clear() does not return until all calls to on_connect() have finished"  *)
(* (server_kernel_abstract.h:49).                                           *)
ClearWaits ==
  [][\A p \in Callers : ClearReturns(p) => \A c \in Threads : stage[c] = "closing"]_vars

(* What a clear() may wait for in vain: a connection accepted too late for  *)
(* it to be shut down, while it talks.                                      *)
TooLate(p) ==
  /\ pc[p] \in {"threads", "threadsWait"}
  /\ \E c \in Threads : c \notin shut /\ stage[c] = "talking"

\* A listener that start_async could not create.
NoListener(p) ==
  /\ pc[p] \in {"listener", "listenerWait"}
  /\ running /\ \A l \in Listeners : pc[l] \notin AcceptSteps

\* start_async, which keeps running_mutex until the very listener that calls
\* this clear() has ended.
JoinsIt(p) == p = old /\ pc[p] = "listener" /\ starter # Nobody

(* A clear() returns, unless from some time on it waits for one of these for *)
(* ever (server_kernel.cpp:109-145): nothing else keeps it, whatever         *)
(* connections come and go and whether the listener closes or fails.         *)
ClearsReturn ==
  \A p \in Callers \cup Listeners :
    pc[p] = "shutting" ~>
      \/ pc[p] \in {"idle", "off"}
      \/ []TooLate(p) \/ []NoListener(p) \/ []JoinsIt(p)
=============================================================================
