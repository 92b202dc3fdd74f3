------------------------- MODULE ServerKernelProofs -------------------------
(***************************************************************************)
(* Theorems about ServerKernel, for any number of connections, callers and *)
(* listeners, and any limit.                                               *)
(***************************************************************************)
EXTENDS ServerKernel, FiniteSetTheorems, TLAPS

USE ServerKernelAssumption

People == Callers \cup Listeners
Steps  == CallerSteps \cup ListenerSteps
Asleep == {"threadsWait", "listenerWait", "limitWait"}

\* A connection a listener holds is in nobody else's hands, and has no
\* thread before Spawn.
Held ==
  /\ \A l \in Listeners :
       /\ got[l] # Nobody => stage[got[l]] # "none"
       /\ pc[l] \in {"add", "spawn"} =>
            stage[got[l]] = "held" /\ job[got[l]] = "new"
  /\ \A l, m \in Listeners : got[l] = got[m] /\ got[l] # Nobody => l = m

Typed == TypeOK /\ Held

-----------------------------------------------------------------------------
(* Goto and Broadcast.                                                      *)

(* What a broadcast makes of the steps at: it moves who sleeps there.       *)
LEMMA Wakes ==
  ASSUME StepsTyped, NEW at \in [People -> Steps], NEW asleep \in SUBSET Asleep,
         Broadcast(at, asleep)
  PROVE  /\ pc' \in [People -> Steps]
         /\ \A p \in People : at[p] \notin asleep => pc'[p] = at[p]
         /\ \A p \in People : at[p] \in asleep =>
              \/ at[p] = "threadsWait" /\ pc'[p] = "threads"
              \/ at[p] = "listenerWait" /\ pc'[p] = "listener"
              \/ at[p] = "limitWait" /\ pc'[p] = "limitWoken"
<1>1. DOMAIN pc = People
  BY DEF StepsTyped, People
<1>2. /\ Awake["threadsWait"] = "threads" /\ Awake["listenerWait"] = "listener"
      /\ Awake["limitWait"] = "limitWoken"
  BY DEF Awake
<1>3. pc' = [p \in People |-> IF at[p] \in asleep THEN Awake[at[p]] ELSE at[p]]
  BY <1>1 DEF Broadcast
<1>4. ASSUME NEW p \in People, at[p] \in asleep
      PROVE  \/ at[p] = "threadsWait" /\ pc'[p] = "threads"
             \/ at[p] = "listenerWait" /\ pc'[p] = "listener"
             \/ at[p] = "limitWait" /\ pc'[p] = "limitWoken"
  BY <1>2, <1>3, <1>4 DEF Asleep
<1>5. \A p \in People : at[p] \notin asleep => pc'[p] = at[p]
  BY <1>3
<1>6. \A p \in People : pc'[p] \in Steps
  BY <1>4, <1>5 DEF Steps, CallerSteps, ListenerSteps, ClearSteps, AcceptSteps
<1>7. pc' \in [People -> Steps]
  BY <1>3, <1>6
<1> QED BY <1>4, <1>5, <1>7

(* The steps stay well typed when one person takes one that its role allows *)
(* and some who sleep wake up.                                              *)
LEMMA StepsKept ==
  ASSUME StepsTyped, NEW p \in People, NEW s, NEW asleep \in SUBSET Asleep,
         Broadcast([pc EXCEPT ![p] = s], asleep),
         p \in Callers => s \in CallerSteps /\ (starter' = p <=> s = "joining"),
         p \in Listeners => s \in ListenerSteps /\ (got'[p] # Nobody <=> s \in Holding),
         \A q \in Callers \ {p} : starter' = q <=> starter = q,
         \A m \in Listeners \ {p} : got'[m] = got[m],
         got' \in [Listeners -> Conns \cup {Nobody}]
  PROVE  /\ StepsTyped'
         /\ pc'[p] \in Holding => pc'[p] = s
         /\ \A q \in People \ {p} : pc'[q] \in Holding => pc'[q] = pc[q]
<1> DEFINE at == [pc EXCEPT ![p] = s]
<1>1. pc \in [People -> Steps]
  BY DEF StepsTyped, People, Steps
<1>2. s \in Steps
  BY DEF People, Steps
<1>3. at \in [People -> Steps] /\ at[p] = s /\ \A q \in People \ {p} : at[q] = pc[q]
  BY <1>1, <1>2
<1>4. Broadcast(at, asleep)
  OBVIOUS
<1> HIDE DEF at
<1>5. /\ pc' \in [People -> Steps]
      /\ \A q \in People : at[q] \notin asleep => pc'[q] = at[q]
      /\ \A q \in People : at[q] \in asleep =>
              \/ at[q] = "threadsWait" /\ pc'[q] = "threads"
              \/ at[q] = "listenerWait" /\ pc'[q] = "listener"
              \/ at[q] = "limitWait" /\ pc'[q] = "limitWoken"
  BY <1>3, <1>4, Wakes
<1>6. ASSUME NEW q \in Callers
      PROVE  pc'[q] \in CallerSteps /\ (starter' = q <=> pc'[q] = "joining")
  <2>1. at[q] \in CallerSteps /\ (starter' = q <=> at[q] = "joining")
    BY <1>3 DEF StepsTyped, People
  <2> QED BY <1>5, <2>1 DEF People, CallerSteps, ClearSteps
<1>7. ASSUME NEW m \in Listeners
      PROVE  pc'[m] \in ListenerSteps /\ (got'[m] # Nobody <=> pc'[m] \in Holding)
  <2>1. at[m] \in ListenerSteps /\ (got'[m] # Nobody <=> at[m] \in Holding)
    BY <1>3 DEF StepsTyped, People
  <2> QED BY <1>5, <2>1 DEF People, ListenerSteps, ClearSteps, AcceptSteps, Holding
<1>8. \A q \in People : pc'[q] \in Holding => pc'[q] = at[q]
  BY <1>5 DEF Holding
<1> QED BY <1>3, <1>5, <1>6, <1>7, <1>8 DEF StepsTyped, People, Steps

(* A step without a broadcast is a broadcast to nobody.                     *)
LEMMA Silently ==
  ASSUME StepsTyped, NEW p \in People, NEW s, Goto(p, s)
  PROVE  Broadcast([pc EXCEPT ![p] = s], {})
  BY DEF Goto, Broadcast, StepsTyped

-----------------------------------------------------------------------------
(* Types.                                                                   *)

(* The first state is well typed.                                           *)
LEMMA TypedInit == Init => Typed
<1> SUFFICES ASSUME Init PROVE Typed
  OBVIOUS
<1>1. ConnsTyped
  <2>1. job = [c \in Conns |-> "new"] /\ stage = [c \in Conns |-> "none"]
    BY DEF Init, Pool!Init
  <2>2. job \in [Conns -> Pool!States] /\ stage \in [Conns -> Stages]
    BY <2>1 DEF Pool!States, Stages
  <2>3. \A c \in Conns : job[c] = "new" /\ stage[c] = "none"
    BY <2>1
  <2> QED BY <2>2, <2>3 DEF ConnsTyped
<1>2. SharedTyped
  <2>1. /\ cons = {} /\ shut = {} /\ late = {} /\ threadCount = 0
        /\ starter = Nobody /\ current = Nobody /\ old = Nobody
    BY DEF Init
  <2>2. running \in BOOLEAN /\ shuttingDown \in BOOLEAN
    BY DEF Init
  <2> QED BY <2>1, <2>2 DEF SharedTyped
<1>3. pc = [p \in Callers \cup Listeners |-> IF p \in Callers THEN "idle" ELSE "off"]
      /\ got = [l \in Listeners |-> Nobody]
  BY DEF Init
<1>4. /\ \A p \in Callers : pc[p] = "idle"
      /\ \A l \in Listeners : pc[l] = "off" /\ got[l] = Nobody
  BY <1>3
<1>5. StepsTyped
  BY <1>3, <1>4 DEF Init, StepsTyped, CallerSteps, ListenerSteps, Holding
<1>6. Held
  BY <1>4 DEF Held
<1> QED BY <1>1, <1>2, <1>5, <1>6 DEF Typed, TypeOK

(* Steps that touch no connection and take none into a listener's hands.    *)
LEMMA QuietStep ==
  ASSUME Typed, NEW p \in People, NEW s, NEW asleep \in SUBSET Asleep,
         Broadcast([pc EXCEPT ![p] = s], asleep),
         p \in Callers => s \in CallerSteps /\ (starter' = p <=> s = "joining"),
         p \in Listeners => /\ s \in ListenerSteps
                            /\ pc[p] \in Holding <=> s \in Holding
                            /\ s \in {"add", "spawn"} => pc[p] \in {"add", "spawn"},
         \A q \in Callers \ {p} : starter' = q <=> starter = q,
         UNCHANGED <<job, stage, got>>, SharedTyped'
  PROVE  Typed'
<1>1. ConnsTyped /\ StepsTyped /\ Held
  BY DEF Typed, TypeOK
<1>2. got' = got /\ got' \in [Listeners -> Conns \cup {Nobody}]
  BY <1>1 DEF StepsTyped
<1>3. p \in Listeners => s \in ListenerSteps /\ (got'[p] # Nobody <=> s \in Holding)
  BY <1>1, <1>2 DEF StepsTyped
<1>4. /\ StepsTyped'
      /\ pc'[p] \in Holding => pc'[p] = s
      /\ \A q \in People \ {p} : pc'[q] \in Holding => pc'[q] = pc[q]
  BY <1>1, <1>2, <1>3, StepsKept
<1>5. ConnsTyped'
  BY <1>1 DEF ConnsTyped
<1>6. ASSUME NEW l \in Listeners, pc'[l] \in {"add", "spawn"}
      PROVE  pc[l] \in {"add", "spawn"}
  <2>1. l \in People /\ pc'[l] \in Holding
    BY <1>6 DEF People, Holding
  <2>2. CASE l = p
    BY <2>1, <2>2, <1>4, <1>6
  <2>3. CASE l # p
    BY <2>1, <2>3, <1>4, <1>6
  <2> QED BY <2>2, <2>3
<1>7. Held'
  BY <1>1, <1>6 DEF Held
<1> QED BY <1>4, <1>5, <1>7 DEF Typed, TypeOK

(* The steps of clear() and the spurious wake-ups.                          *)
LEMMA TypedClear ==
  ASSUME Typed, NEW p \in People, ClearStep(p) \/ SpuriousWakeup(p)
  PROVE  Typed'
<1>1. StepsTyped /\ SharedTyped
  BY DEF Typed, TypeOK
<1>2. pc[p] \in DOMAIN Awake \cup ClearSteps
  BY DEF ClearStep, SetShuttingDown, ShutdownConnections, AwaitThreads,
         AwaitListener, ClearReturns, SpuriousWakeup, ClearSteps
<1>3. PICK s : /\ Goto(p, s)
               /\ p \in Callers => s \in CallerSteps \ {"joining"} /\ pc[p] # "joining"
               /\ p \in Listeners => s \in ListenerSteps \ Holding /\ pc[p] \notin Holding
  <2>1. CASE ClearReturns(p)
    BY <2>1, <1>1 DEF ClearReturns, CallerSteps, ListenerSteps, Holding, ClearSteps, AcceptSteps, StepsTyped
  <2>2. CASE SpuriousWakeup(p)
    BY <2>2, <1>1 DEF SpuriousWakeup, Awake, CallerSteps, ListenerSteps, Holding, ClearSteps, AcceptSteps, StepsTyped
  <2>3. CASE SetShuttingDown(p) \/ ShutdownConnections(p) \/ AwaitThreads(p) \/ AwaitListener(p)
    BY <2>3 DEF SetShuttingDown, ShutdownConnections, AwaitThreads, AwaitListener,
                CallerSteps, ListenerSteps, Holding, ClearSteps, AcceptSteps
  <2> QED BY <2>1, <2>2, <2>3 DEF ClearStep
<1>4. Broadcast([pc EXCEPT ![p] = s], {})
  BY <1>1, <1>3, Silently
<1>5. UNCHANGED <<job, stage, got, starter>>
  BY DEF ClearStep, SetShuttingDown, ShutdownConnections, AwaitThreads,
         AwaitListener, ClearReturns, SpuriousWakeup, conVars, runVars
<1>6. SharedTyped'
  BY <1>1 DEF ClearStep, SetShuttingDown, ShutdownConnections, AwaitThreads,
         AwaitListener, ClearReturns, SpuriousWakeup, conVars, runVars, SharedTyped, Threads
<1>7. p \in Callers => s \in CallerSteps /\ (starter' = p <=> s = "joining")
  BY <1>1, <1>3, <1>5 DEF StepsTyped
<1>8. p \in Listeners => s \notin {"add", "spawn"}
  BY <1>3 DEF Holding
<1>9. {} \in SUBSET Asleep
  OBVIOUS
<1> QED BY <1>3, <1>4, <1>5, <1>6, <1>7, <1>8, <1>9, QuietStep

(* The steps of start_async and the quiet ones of its caller.               *)
LEMMA TypedCaller ==
  ASSUME Typed, NEW p \in Callers,
         StartAsync(p) \/ StartThreadFails(p) \/ Joined(p) \/ ClearBegins(p)
  PROVE  Typed'
<1>1. ConnsTyped /\ StepsTyped /\ SharedTyped /\ Held /\ p \in People /\ p \notin Listeners
  BY DEF Typed, TypeOK, People
<1>2. {} \in SUBSET Asleep
  OBVIOUS
<1>3. CASE StartAsync(p)
  <2>1. PICK l \in Listeners : pc[l] = "off" /\ pc' = [pc EXCEPT ![p] = "joining", ![l] = "open"]
                              /\ current' = l
    BY <1>3 DEF StartAsync
  <2>2. /\ UNCHANGED <<job, stage, cons, shut, threadCount, shuttingDown, got, late>>
        /\ old' = current /\ starter' = p /\ running' = TRUE /\ starter = Nobody
    BY <1>3 DEF StartAsync, conVars
  <2>3. p # l /\ pc \in [People -> Steps]
    BY <1>1 DEF StepsTyped, People, Steps
  <2>4. /\ pc' \in [People -> Steps] /\ pc'[p] = "joining" /\ pc'[l] = "open"
        /\ \A q \in People \ {p, l} : pc'[q] = pc[q]
    BY <2>1, <2>3 DEF Steps, CallerSteps, ListenerSteps, AcceptSteps, People
  <2>5. ConnsTyped' /\ SharedTyped'
    BY <1>1, <2>1, <2>2 DEF ConnsTyped, SharedTyped
  <2>6. \A q \in Callers : pc'[q] \in CallerSteps /\ (starter' = q <=> pc'[q] = "joining")
    BY <1>1, <2>2, <2>4 DEF StepsTyped, People, CallerSteps
  <2>7. \A m \in Listeners : pc'[m] \in ListenerSteps /\ (got'[m] # Nobody <=> pc'[m] \in Holding)
    BY <1>1, <2>1, <2>2, <2>4 DEF StepsTyped, People, ListenerSteps, AcceptSteps, Holding
  <2>8. StepsTyped'
    BY <1>1, <2>2, <2>4, <2>6, <2>7 DEF StepsTyped, People, Steps
  <2>9. \A m \in Listeners : pc'[m] \in {"add", "spawn"} => pc[m] \in {"add", "spawn"}
    BY <1>1, <2>4 DEF People
  <2>10. Held'
    BY <1>1, <2>2, <2>9 DEF Held
  <2> QED BY <2>5, <2>8, <2>10 DEF Typed, TypeOK
<1>4. CASE StartThreadFails(p)
  BY <1>1, <1>4 DEF StartThreadFails, conVars, Typed, TypeOK, ConnsTyped, StepsTyped, SharedTyped, Held
<1>5. CASE Joined(p)
  <2>1. Broadcast([pc EXCEPT ![p] = "idle"], {})
    BY <1>1, <1>5, Silently DEF Joined
  <2>2. SharedTyped' /\ UNCHANGED <<job, stage, got>> /\ starter' = Nobody /\ starter = p
    BY <1>1, <1>5 DEF Joined, conVars, SharedTyped, StepsTyped
  <2>3. "idle" \in CallerSteps
    BY DEF CallerSteps
  <2> QED BY <1>1, <1>2, <2>1, <2>2, <2>3, QuietStep
<1>6. CASE ClearBegins(p)
  <2>1. Broadcast([pc EXCEPT ![p] = "shutting"], {})
    BY <1>1, <1>6, Silently DEF ClearBegins
  <2>2. SharedTyped' /\ UNCHANGED <<job, stage, got, starter>> /\ starter # p
    BY <1>1, <1>6 DEF ClearBegins, conVars, runVars, SharedTyped, StepsTyped
  <2>3. "shutting" \in CallerSteps
    BY DEF CallerSteps, ClearSteps
  <2> QED BY <1>1, <1>2, <2>1, <2>2, <2>3, QuietStep
<1> QED BY <1>3, <1>4, <1>5, <1>6

(* The listener's steps in which no connection changes hands.               *)
LEMMA TypedQuietListener ==
  ASSUME Typed, NEW l \in Listeners,
         Open(l) \/ AcceptFails(l) \/ Add(l) \/ CheckLimit(l) \/ LimitWoken(l) \/ Close(l)
  PROVE  Typed'
<1>1. StepsTyped /\ SharedTyped /\ l \in People /\ l \notin Callers
  BY DEF Typed, TypeOK, People
<1>2. UNCHANGED <<job, stage, got, starter>>
  BY DEF Open, AcceptFails, Add, CheckLimit, LimitWoken, Close, conVars, runVars
<1>3. SharedTyped'
  <2>1. Add(l) => got[l] \in Conns
    BY <1>1 DEF Add, StepsTyped, Holding
  <2> QED BY <1>1, <2>1 DEF Open, AcceptFails, Add, CheckLimit, LimitWoken, Close,
              conVars, runVars, SharedTyped
<1>4. {} \in SUBSET Asleep /\ {"listenerWait"} \in SUBSET Asleep
  BY DEF Asleep
<1>5. CASE Open(l) \/ AcceptFails(l) \/ CheckLimit(l) \/ LimitWoken(l)
  <2>1. PICK s : Goto(l, s) /\ s \in ListenerSteps \ Holding /\ pc[l] \notin Holding
    BY <1>5 DEF Open, AcceptFails, CheckLimit, LimitWoken, ListenerSteps, AcceptSteps, Holding
  <2>2. Broadcast([pc EXCEPT ![l] = s], {})
    BY <1>1, <2>1, Silently
  <2>3. s \notin {"add", "spawn"}
    BY <2>1 DEF Holding
  <2> QED BY <1>1, <1>2, <1>3, <1>4, <2>1, <2>2, <2>3, QuietStep
<1>6. CASE Add(l)
  <2>1. Goto(l, "spawn") /\ pc[l] = "add"
    BY <1>6 DEF Add
  <2>2. Broadcast([pc EXCEPT ![l] = "spawn"], {})
    BY <1>1, <2>1, Silently
  <2>3. "spawn" \in ListenerSteps /\ "spawn" \in Holding /\ "add" \in Holding
    BY DEF ListenerSteps, AcceptSteps, Holding
  <2> QED BY <1>1, <1>2, <1>3, <1>4, <2>1, <2>2, <2>3, QuietStep
<1>7. CASE Close(l)
  <2>1. PICK s \in {"off", "shutting"} : Broadcast([pc EXCEPT ![l] = s], {"listenerWait"})
    BY <1>7 DEF Close
  <2>2. /\ pc[l] \notin Holding /\ s \in ListenerSteps /\ s \notin Holding
        /\ s \notin {"add", "spawn"}
    BY <1>7, <2>1 DEF Close, Holding, ListenerSteps, ClearSteps
  <2> QED BY <1>1, <1>2, <1>3, <1>4, <2>1, <2>2, QuietStep
<1> QED BY <1>5, <1>6, <1>7


(* The steps in which the listener takes a connection or lets go of one.    *)
LEMMA TypedHandling ==
  ASSUME Typed, NEW l \in Listeners, NEW s, NEW c \in Conns \cup {Nobody},
         NEW asleep \in SUBSET Asleep,
         Broadcast([pc EXCEPT ![l] = s], asleep), s \in ListenerSteps,
         got' = [got EXCEPT ![l] = c],
         c # Nobody <=> s \in Holding,
         c # Nobody => /\ stage'[c] # "none"
                       /\ c = got[l] \/ stage[c] = "none",
         s \in {"add", "spawn"} => stage'[c] = "held" /\ job'[c] = "new",
         \A d \in Conns : /\ stage[d] # "none" => stage'[d] # "none"
                          /\ d # got[l] /\ stage[d] # "none" =>
                               stage'[d] = stage[d] /\ job'[d] = job[d],
         starter' = starter, ConnsTyped', SharedTyped'
  PROVE  Typed'
<1>1. StepsTyped /\ Held /\ l \in People /\ l \notin Callers
  BY DEF Typed, TypeOK, People
<1>2. /\ got' \in [Listeners -> Conns \cup {Nobody}] /\ got'[l] = c
      /\ \A m \in Listeners \ {l} : got'[m] = got[m]
  BY <1>1 DEF StepsTyped
<1>3. /\ StepsTyped'
      /\ pc'[l] \in Holding => pc'[l] = s
      /\ \A q \in People \ {l} : pc'[q] \in Holding => pc'[q] = pc[q]
  BY <1>1, <1>2, StepsKept
<1>4. ASSUME NEW m \in Listeners, m # l, got[m] # Nobody
      PROVE  got[m] \in Conns /\ got[m] # got[l] /\ got[m] # c /\ stage[got[m]] # "none"
  BY <1>1, <1>4 DEF StepsTyped, Held
<1>5. ASSUME NEW m \in Listeners
      PROVE  /\ got'[m] # Nobody => stage'[got'[m]] # "none"
             /\ pc'[m] \in {"add", "spawn"} =>
                  stage'[got'[m]] = "held" /\ job'[got'[m]] = "new"
  <2>1. CASE m = l
    BY <2>1, <1>2, <1>3 DEF Holding
  <2>2. CASE m # l
    <3>1. got'[m] = got[m]
      BY <2>2, <1>2
    <3>2. got[m] # Nobody => /\ stage'[got[m]] = stage[got[m]] /\ job'[got[m]] = job[got[m]]
                             /\ stage[got[m]] # "none"
      BY <2>2, <1>4
    <3>3. pc'[m] \in {"add", "spawn"} => pc[m] = pc'[m] /\ got[m] # Nobody
      BY <2>2, <1>1, <1>3 DEF Holding, StepsTyped, People
    <3> QED BY <3>1, <3>2, <3>3, <1>1 DEF Held
  <2> QED BY <2>1, <2>2
<1>6. ASSUME NEW m \in Listeners, NEW n \in Listeners, got'[m] = got'[n], got'[m] # Nobody
      PROVE  m = n
  BY <1>1, <1>2, <1>4, <1>6 DEF Held
<1>7. Held'
  BY <1>5, <1>6 DEF Held
<1> QED BY <1>3, <1>7 DEF Typed, TypeOK

(* The steps of a connection's thread.                                      *)
LEMMA TypedService ==
  ASSUME Typed, NEW c \in Conns, ServiceConnection(c)
  PROVE  Typed'
<1>1. ConnsTyped /\ StepsTyped /\ SharedTyped /\ Held
  BY DEF Typed, TypeOK
<1>2. /\ job[c] \in {"accepted", "running"}
      /\ job' \in [Conns -> Pool!States] /\ stage' \in [Conns -> Stages]
      /\ stage'[c] # "none"
      /\ \/ job'[c] = "running" /\ stage'[c] \in {"talking", "closing"}
         \/ job'[c] = "done" /\ stage'[c] = "gone"
      /\ \A d \in Conns \ {c} : job'[d] = job[d] /\ stage'[d] = stage[d]
  BY <1>1 DEF ServiceConnection, OnConnect, Leave, Uncount, ConnsTyped, Stages,
              Pool!States, Pool!Start, Pool!End, Pool!Move
<1>3. ConnsTyped'
  BY <1>1, <1>2 DEF ConnsTyped
<1>4. SharedTyped'
  BY <1>1 DEF ServiceConnection, OnConnect, Leave, Uncount, SharedTyped, runVars
<1>5. got' = got /\ starter' = starter
  BY DEF ServiceConnection, OnConnect, Leave, Uncount, runVars
<1>6. /\ pc' \in [People -> Steps]
      /\ \A q \in People : \/ pc'[q] = pc[q]
                           \/ /\ pc[q] \in Asleep /\ pc'[q] \in {"threads", "listener", "limitWoken"}
                              /\ pc'[q] = "limitWoken" => pc[q] = "limitWait"
  <2>1. pc \in [People -> Steps]
    BY <1>1 DEF StepsTyped, People, Steps
  <2>2. CASE Uncount(c)
    <3> DEFINE woken == {"limitWait"} \cup IF threadCount' = 0 THEN {"threadsWait"} ELSE {}
    <3>1. Broadcast(pc, woken)
      BY <2>2 DEF Uncount
    <3>2. woken \in SUBSET Asleep
      BY DEF Asleep
    <3> HIDE DEF woken
    <3>3. /\ pc' \in [People -> Steps]
          /\ \A q \in People : pc[q] \notin woken => pc'[q] = pc[q]
          /\ \A q \in People : pc[q] \in woken =>
               \/ pc[q] = "threadsWait" /\ pc'[q] = "threads"
               \/ pc[q] = "listenerWait" /\ pc'[q] = "listener"
               \/ pc[q] = "limitWait" /\ pc'[q] = "limitWoken"
      BY <1>1, <2>1, <3>1, <3>2, Wakes
    <3> QED BY <3>2, <3>3 DEF Asleep
  <2>3. CASE OnConnect(c) \/ Leave(c)
    BY <2>1, <2>3 DEF OnConnect, Leave
  <2>4. Uncount(c) \/ OnConnect(c) \/ Leave(c)
    BY DEF ServiceConnection
  <2> QED BY <2>2, <2>3, <2>4
<1>7. StepsTyped'
  <2>1. ASSUME NEW q \in Callers
        PROVE  pc'[q] \in CallerSteps /\ (starter' = q <=> pc'[q] = "joining")
    <3>1. pc[q] \in CallerSteps /\ (starter = q <=> pc[q] = "joining")
      BY <1>1 DEF StepsTyped
    <3>2. CASE pc'[q] = pc[q]
      BY <1>5, <3>1, <3>2
    <3>3. CASE /\ pc[q] \in Asleep /\ pc'[q] \in {"threads", "listener", "limitWoken"}
               /\ pc'[q] = "limitWoken" => pc[q] = "limitWait"
      <4>1. pc'[q] # "limitWoken"
        BY <3>1, <3>3 DEF CallerSteps, ClearSteps
      <4> QED BY <1>5, <3>1, <3>3, <4>1 DEF Asleep, CallerSteps, ClearSteps
    <3> QED BY <1>6, <3>2, <3>3 DEF People
  <2>2. ASSUME NEW m \in Listeners
        PROVE  pc'[m] \in ListenerSteps /\ (got'[m] # Nobody <=> pc'[m] \in Holding)
    <3>1. pc[m] \in ListenerSteps /\ (got[m] # Nobody <=> pc[m] \in Holding)
      BY <1>1 DEF StepsTyped
    <3> QED BY <1>5, <1>6, <3>1
            DEF People, Asleep, ListenerSteps, ClearSteps, AcceptSteps, Holding
  <2> QED BY <1>1, <1>5, <1>6, <2>1, <2>2 DEF StepsTyped, People, Steps
<1>8. \A l \in Listeners : pc'[l] \in {"add", "spawn"} => pc'[l] = pc[l]
  BY <1>6 DEF People
<1>9. \A l \in Listeners : pc[l] \in {"add", "spawn"} => got[l] \in Conns /\ got[l] # c
  BY <1>1, <1>2 DEF StepsTyped, Holding, Held
<1>10. \A l \in Listeners : got[l] # Nobody => got[l] \in Conns
  BY <1>1 DEF StepsTyped
<1>11. Held'
  BY <1>1, <1>2, <1>5, <1>8, <1>9, <1>10 DEF Held
<1> QED BY <1>3, <1>4, <1>7, <1>11 DEF Typed, TypeOK

(* Every step of the listener.                                              *)
LEMMA TypedListener ==
  ASSUME Typed, NEW l \in Listeners,
         ListenerStep(l) \/ ListenerFails(l) \/ \E c \in Conns : Accept(l, c)
  PROVE  Typed'
<1>1. ConnsTyped /\ StepsTyped /\ SharedTyped /\ Held
  BY DEF Typed, TypeOK
<1>2. {} \in SUBSET Asleep /\ l \in People /\ pc \in [People -> Steps]
  BY <1>1 DEF People, Steps, StepsTyped
<1>3. pc[l] \in Holding => got[l] \in Conns /\ stage[got[l]] # "none"
  BY <1>1 DEF StepsTyped, Held
<1>4. CASE AcceptStops(l)
  <2>1. Broadcast([pc EXCEPT ![l] = "close"], {})
    BY <1>1, <1>2, <1>4, Silently DEF AcceptStops
  <2>2. /\ job' = job /\ got' = got /\ starter' = starter /\ pc[l] = "accept"
        /\ stage' \in [Conns -> Stages]
        /\ \A d \in Conns : stage[d] # "none" => stage'[d] = stage[d]
        /\ \A d \in Conns : stage[d] = "none" => stage'[d] \in {"none", "dropped"}
    BY <1>1, <1>4 DEF AcceptStops, Arrives, ConnsTyped, Stages, runVars
  <2>3. got' = [got EXCEPT ![l] = Nobody]
    BY <1>1, <2>2 DEF StepsTyped, Holding
  <2>4. ConnsTyped'
    BY <1>1, <2>2 DEF ConnsTyped
  <2>5. SharedTyped'
    BY <1>1, <1>4 DEF AcceptStops, SharedTyped, runVars
  <2>6. "close" \in ListenerSteps /\ "close" \notin Holding /\ "close" \notin {"add", "spawn"}
    BY DEF ListenerSteps, AcceptSteps, Holding
  <2> QED BY <1>1, <1>2, <2>1, <2>2, <2>3, <2>4, <2>5, <2>6, TypedHandling
<1>5. CASE AddFails(l) \/ ParamFails(l) \/ SpawnFails(l)
  <2>1. PICK as \in {"dropped", "leaked"} : Drop(l, as)
    BY <1>5 DEF AddFails, ParamFails, SpawnFails
  <2>2. /\ pc[l] \in Holding /\ stage[got[l]] = "held" /\ job[got[l]] = "new"
        /\ cons' \subseteq cons
    BY <1>1, <1>5 DEF AddFails, ParamFails, SpawnFails, Holding, Held
  <2>3. Broadcast([pc EXCEPT ![l] = "closeFailed"], {})
    BY <1>1, <1>2, <2>1, Silently DEF Drop
  <2>4. /\ job' = job /\ got' = [got EXCEPT ![l] = Nobody] /\ starter' = starter
        /\ stage' = [stage EXCEPT ![got[l]] = as]
    BY <2>1 DEF Drop, runVars
  <2>5. ConnsTyped'
    BY <1>1, <1>3, <2>2, <2>4 DEF ConnsTyped, Stages
  <2>6. SharedTyped'
    BY <1>1, <2>1, <2>2 DEF Drop, SharedTyped, runVars
  <2>7. \A d \in Conns : /\ stage[d] # "none" => stage'[d] # "none"
                         /\ d # got[l] /\ stage[d] # "none" =>
                              stage'[d] = stage[d] /\ job'[d] = job[d]
    BY <1>1, <2>4 DEF ConnsTyped
  <2>8. "closeFailed" \in ListenerSteps /\ "closeFailed" \notin Holding
        /\ "closeFailed" \notin {"add", "spawn"}
    BY DEF ListenerSteps, AcceptSteps, Holding
  <2> QED BY <1>1, <1>2, <2>3, <2>4, <2>5, <2>6, <2>7, <2>8, TypedHandling
<1>6. CASE Spawn(l)
  <2>1. /\ pc[l] = "spawn" /\ Pool!Accept(got[l]) /\ Goto(l, "count")
        /\ stage' = stage /\ got' = got /\ starter' = starter
    BY <1>6 DEF Spawn, runVars
  <2>2. got[l] \in Conns /\ stage[got[l]] = "held" /\ job[got[l]] = "new"
    BY <1>1, <1>3, <2>1 DEF Held, Holding
  <2>3. job' = [job EXCEPT ![got[l]] = "accepted"]
    BY <2>1 DEF Pool!Accept, Pool!Move
  <2>4. ConnsTyped'
    BY <1>1, <2>1, <2>2, <2>3 DEF ConnsTyped, Pool!States
  <2>5. SharedTyped'
    BY <1>1, <1>6 DEF Spawn, SharedTyped, runVars
  <2>6. Broadcast([pc EXCEPT ![l] = "count"], {})
    BY <1>1, <1>2, <2>1, Silently
  <2>7. got' = [got EXCEPT ![l] = got[l]] /\ got[l] # Nobody
    BY <1>1, <2>1, <2>2 DEF StepsTyped
  <2>8. \A d \in Conns : /\ stage[d] # "none" => stage'[d] # "none"
                         /\ d # got[l] /\ stage[d] # "none" =>
                              stage'[d] = stage[d] /\ job'[d] = job[d]
    BY <1>1, <2>1, <2>3 DEF ConnsTyped
  <2>9. "count" \in ListenerSteps /\ "count" \in Holding /\ "count" \notin {"add", "spawn"}
    BY DEF ListenerSteps, AcceptSteps, Holding
  <2>10. stage'[got[l]] # "none"
    BY <2>1, <2>2
  <2> QED BY <1>1, <1>2, <2>1, <2>2, <2>4, <2>5, <2>6, <2>7, <2>8, <2>9, <2>10, TypedHandling
<1>7. CASE Count(l)
  <2> DEFINE woken == IF threadCount' = 0 THEN {"threadsWait"} ELSE {}
  <2>1. Broadcast([pc EXCEPT ![l] = "limit"], woken)
    BY <1>7 DEF Count
  <2>2. woken \in SUBSET Asleep
    BY DEF Asleep
  <2> HIDE DEF woken
  <2>3. /\ got' = [got EXCEPT ![l] = Nobody] /\ starter' = starter
        /\ job' = job /\ stage' = stage
    BY <1>7 DEF Count, conVars, runVars
  <2>4. ConnsTyped' /\ SharedTyped'
    BY <1>1, <1>7 DEF Count, conVars, runVars, ConnsTyped, SharedTyped
  <2>5. "limit" \in ListenerSteps /\ "limit" \notin Holding /\ "limit" \notin {"add", "spawn"}
    BY DEF ListenerSteps, AcceptSteps, Holding
  <2> QED BY <1>1, <1>2, <2>1, <2>2, <2>3, <2>4, <2>5, TypedHandling
<1>8. ASSUME NEW c \in Conns, Accept(l, c)
      PROVE  Typed'
  <2>1. /\ stage[c] = "none" /\ stage' = [stage EXCEPT ![c] = "held"]
        /\ got' = [got EXCEPT ![l] = c] /\ job' = job /\ starter' = starter
        /\ Goto(l, "add")
    BY <1>8 DEF Accept, Arrives, runVars
  <2>2. ConnsTyped'
    BY <1>1, <2>1 DEF ConnsTyped, Stages
  <2>3. SharedTyped'
    BY <1>1, <1>8 DEF Accept, SharedTyped, runVars
  <2>4. Broadcast([pc EXCEPT ![l] = "add"], {})
    BY <1>1, <1>2, <2>1, Silently
  <2>5. stage'[c] = "held" /\ \A d \in Conns \ {c} : stage'[d] = stage[d]
    BY <1>1, <2>1 DEF ConnsTyped
  <2>6. job'[c] = "new"
    BY <1>1, <2>1 DEF ConnsTyped
  <2>7. "add" \in ListenerSteps /\ "add" \in Holding /\ c # Nobody
    BY DEF ListenerSteps, AcceptSteps, Holding
  <2> QED BY <1>1, <1>2, <2>1, <2>2, <2>3, <2>4, <2>5, <2>6, <2>7, TypedHandling
<1> QED BY <1>4, <1>5, <1>6, <1>7, <1>8, TypedQuietListener DEF ListenerStep, ListenerFails

(* Every step keeps the types, and what a listener holds.                   *)
LEMMA TypedNext == Typed /\ [Next]_vars => Typed'
<1>1. ASSUME Typed, Next PROVE Typed'
  <2>1. CASE \E p \in Callers : StartAsync(p) \/ StartThreadFails(p) \/ Joined(p) \/ ClearBegins(p)
    BY <1>1, <2>1, TypedCaller
  <2>2. CASE \E p \in Callers \cup Listeners : ClearStep(p) \/ SpuriousWakeup(p)
    BY <1>1, <2>2, TypedClear DEF People
  <2>3. CASE \E l \in Listeners : ListenerStep(l) \/ ListenerFails(l) \/ \E c \in Conns : Accept(l, c)
    BY <1>1, <2>3, TypedListener
  <2>4. CASE \E c \in Conns : ServiceConnection(c)
    BY <1>1, <2>4, TypedService
  <2> QED BY <1>1, <2>1, <2>2, <2>3, <2>4 DEF Next
<1>2. ASSUME Typed, UNCHANGED vars PROVE Typed'
  BY <1>2 DEF vars, conVars, runVars, Typed, TypeOK, Held, ConnsTyped, SharedTyped, StepsTyped
<1> QED BY <1>1, <1>2

(* For any number of connections and threads the variables keep their       *)
(* types, and no connection that has a thread is deleted under it.          *)
THEOREM KernelTypeCorrect == Spec => []TypeOK
<1>1. Typed => TypeOK
  BY DEF Typed
<1> QED BY <1>1, TypedInit, TypedNext, PTL DEF Spec

-----------------------------------------------------------------------------
(* Wake-ups.                                                                *)

(* No one sleeps in vain after a broadcast if no one would at the steps at  *)
(* but those it wakes.                                                      *)
LEMMA WakesAll ==
  ASSUME StepsTyped, NEW at \in [People -> Steps], NEW asleep \in SUBSET Asleep,
         Broadcast(at, asleep),
         \A q \in People :
           at[q] \notin asleep =>
             /\ at[q] = "limitWait" => AtLimit'
             /\ at[q] = "threadsWait" => threadCount' > 0
             /\ at[q] = "listenerWait" => running'
  PROVE  NoMissedWakeup'
<1>1. /\ \A p \in People : at[p] \notin asleep => pc'[p] = at[p]
      /\ \A p \in People : at[p] \in asleep => pc'[p] \in {"threads", "listener", "limitWoken"}
  BY Wakes
<1> QED BY <1>1 DEF NoMissedWakeup, People

(* The same for a step of p that broadcasts to nobody.                      *)
LEMMA WakesNone ==
  ASSUME StepsTyped, NoMissedWakeup, NEW p \in People, NEW s \in Steps, Goto(p, s),
         s = "limitWait" => AtLimit', s = "threadsWait" => threadCount' > 0,
         s = "listenerWait" => running',
         threadCount' = threadCount, running => running'
  PROVE  NoMissedWakeup'
<1>1. /\ pc'[p] = s
      /\ \A q \in People \ {p} : pc'[q] = pc[q]
  BY DEF Goto, StepsTyped, People
<1>2. AtLimit' = AtLimit
  BY DEF AtLimit
<1>3. ASSUME NEW q \in People
      PROVE  /\ pc'[q] = "limitWait" => AtLimit'
             /\ pc'[q] = "threadsWait" => threadCount' > 0
             /\ pc'[q] = "listenerWait" => running'
  <2>1. CASE q = p
    BY <1>1, <2>1
  <2>2. CASE q # p
    BY <1>1, <1>2, <2>2 DEF NoMissedWakeup, People
  <2> QED BY <2>1, <2>2
<1> QED BY <1>3 DEF NoMissedWakeup, People

(* A step of a caller, or of clear().                                       *)
LEMMA WakeupsClear ==
  ASSUME Typed, NoMissedWakeup, NEW p \in People, ClearStep(p) \/ SpuriousWakeup(p)
  PROVE  NoMissedWakeup'
<1>1. StepsTyped
  BY DEF Typed, TypeOK
<1>2. PICK s \in Steps : /\ Goto(p, s) /\ s # "limitWait"
                         /\ s = "threadsWait" => threadCount > 0
                         /\ s = "listenerWait" => running
  <2>1. CASE SpuriousWakeup(p)
    <3>1. Goto(p, Awake[pc[p]]) /\ Awake[pc[p]] \in {"threads", "listener", "limitWoken"}
      BY <2>1 DEF SpuriousWakeup, Awake
    <3> QED BY <3>1 DEF Steps, ListenerSteps, ClearSteps, AcceptSteps
  <2>2. CASE SetShuttingDown(p) \/ ShutdownConnections(p) \/ ClearReturns(p)
    <3>1. \E s \in {"disconnect", "threads", "idle", "off"} : Goto(p, s)
      BY <2>2 DEF SetShuttingDown, ShutdownConnections, ClearReturns
    <3> QED BY <3>1 DEF Steps, CallerSteps, ListenerSteps, ClearSteps
  <2>3. CASE AwaitThreads(p)
    BY <2>3 DEF AwaitThreads, Steps, CallerSteps, ClearSteps
  <2>4. CASE AwaitListener(p)
    BY <2>4 DEF AwaitListener, Steps, CallerSteps, ClearSteps
  <2> QED BY <2>1, <2>2, <2>3, <2>4 DEF ClearStep
<1>3. threadCount' = threadCount /\ running' = running
  BY DEF ClearStep, SetShuttingDown, ShutdownConnections, AwaitThreads, AwaitListener,
         ClearReturns, SpuriousWakeup, runVars
<1> QED BY <1>1, <1>2, <1>3, WakesNone

(* A step of a caller.                                                      *)
LEMMA WakeupsCaller ==
  ASSUME Typed, NoMissedWakeup, NEW p \in Callers,
         StartAsync(p) \/ StartThreadFails(p) \/ Joined(p) \/ ClearBegins(p)
  PROVE  NoMissedWakeup'
<1>1. StepsTyped /\ p \in People
  BY DEF Typed, TypeOK, People
<1>2. CASE StartAsync(p)
  <2>1. PICK l \in Listeners : pc' = [pc EXCEPT ![p] = "joining", ![l] = "open"]
    BY <1>2 DEF StartAsync
  <2>2. threadCount' = threadCount /\ running' = TRUE
    BY <1>2 DEF StartAsync
  <2>3. \A q \in People : pc'[q] = pc[q] \/ pc'[q] \in {"joining", "open"}
    BY <1>1, <2>1 DEF StepsTyped, People
  <2> QED BY <2>2, <2>3 DEF NoMissedWakeup, People, AtLimit
<1>3. CASE StartThreadFails(p)
  BY <1>3 DEF StartThreadFails, NoMissedWakeup, AtLimit
<1>4. CASE Joined(p) \/ ClearBegins(p)
  <2>1. \E s \in {"idle", "shutting"} : Goto(p, s)
    BY <1>4 DEF Joined, ClearBegins
  <2>2. threadCount' = threadCount /\ running' = running
    BY <1>4 DEF Joined, ClearBegins, runVars
  <2> QED BY <1>1, <2>1, <2>2, WakesNone DEF Steps, CallerSteps, ClearSteps
<1> QED BY <1>2, <1>3, <1>4

(* A step of the listener.                                                  *)
LEMMA WakeupsListener ==
  ASSUME Typed, NoMissedWakeup, NEW l \in Listeners,
         ListenerStep(l) \/ ListenerFails(l) \/ \E c \in Conns : Accept(l, c)
  PROVE  NoMissedWakeup'
<1>1. StepsTyped /\ SharedTyped /\ l \in People /\ pc \in [People -> Steps]
  BY DEF Typed, TypeOK, People, StepsTyped, Steps
<1>2. CASE Count(l)
  <2> DEFINE woken == IF threadCount' = 0 THEN {"threadsWait"} ELSE {}
             at == [pc EXCEPT ![l] = "limit"]
  <2>1. Broadcast(at, woken) /\ woken \in SUBSET Asleep
    BY <1>2 DEF Count, Asleep
  <2>2. at \in [People -> Steps] /\ \A q \in People : at[q] = pc[q] \/ at[q] = "limit"
    BY <1>1 DEF Steps, ListenerSteps, AcceptSteps
  <2>3. threadCount' = threadCount + 1 /\ running' = running /\ threadCount \in Int
    BY <1>1, <1>2 DEF Count, runVars, SharedTyped
  <2>4. AtLimit => AtLimit'
    BY <2>3 DEF AtLimit
  <2>5. threadCount > 0 => threadCount' > 0
    BY <2>3
  <2> HIDE DEF woken, at
  <2>6. \A q \in People : /\ at[q] = "limitWait" => AtLimit'
                          /\ at[q] = "threadsWait" => threadCount' > 0
                          /\ at[q] = "listenerWait" => running'
    BY <2>2, <2>3, <2>4, <2>5 DEF NoMissedWakeup, People
  <2> QED BY <1>1, <2>1, <2>2, <2>6, WakesAll
<1>3. CASE Close(l)
  <2>1. PICK s \in {"off", "shutting"} : Broadcast([pc EXCEPT ![l] = s], {"listenerWait"})
    BY <1>3 DEF Close
  <2> DEFINE at == [pc EXCEPT ![l] = s]
  <2>2. at \in [People -> Steps] /\ \A q \in People : at[q] = pc[q] \/ at[q] = s
    BY <1>1, <2>1 DEF Steps, CallerSteps, ListenerSteps, ClearSteps
  <2>3. threadCount' = threadCount /\ AtLimit' = AtLimit
    BY <1>3 DEF Close, AtLimit
  <2>4. Broadcast(at, {"listenerWait"}) /\ {"listenerWait"} \in SUBSET Asleep
    BY <2>1 DEF Asleep
  <2> HIDE DEF at
  <2>5. \A q \in People : at[q] \notin {"listenerWait"} =>
                          /\ at[q] = "limitWait" => AtLimit'
                          /\ at[q] = "threadsWait" => threadCount' > 0
                          /\ at[q] = "listenerWait" => running'
    BY <2>1, <2>2, <2>3 DEF NoMissedWakeup, People
  <2> QED BY <1>1, <2>2, <2>4, <2>5, WakesAll
<1>4. CASE CheckLimit(l) \/ LimitWoken(l)
  <2>1. PICK s \in {"limitWait", "accept", "close"} : Goto(l, s) /\ (s = "limitWait" => AtLimit)
    BY <1>4 DEF CheckLimit, LimitWoken
  <2>2. threadCount' = threadCount /\ running' = running /\ AtLimit' = AtLimit
    BY <1>4 DEF CheckLimit, LimitWoken, runVars, AtLimit
  <2>3. s \in Steps
    BY DEF Steps, ListenerSteps, AcceptSteps
  <2> QED BY <1>1, <2>1, <2>2, <2>3, WakesNone
<1>5. CASE \/ Open(l) \/ AcceptStops(l) \/ Add(l) \/ Spawn(l) \/ ListenerFails(l)
           \/ \E c \in Conns : Accept(l, c)
  <2>1. PICK s \in {"accept", "close", "spawn", "count", "closeFailed", "add"} : Goto(l, s)
    BY <1>5 DEF Open, AcceptStops, Add, Spawn, ListenerFails, AcceptFails, AddFails,
                ParamFails, SpawnFails, Drop, Accept
  <2>2. threadCount' = threadCount /\ (running => running')
    BY <1>5 DEF Open, AcceptStops, Add, Spawn, ListenerFails, AcceptFails, AddFails,
                ParamFails, SpawnFails, Drop, Accept, runVars
  <2>3. s \in Steps
    BY DEF Steps, ListenerSteps, AcceptSteps
  <2> QED BY <1>1, <2>1, <2>2, <2>3, WakesNone
<1> QED BY <1>2, <1>3, <1>4, <1>5 DEF ListenerStep

(* A step of a connection's thread.                                         *)
LEMMA WakeupsService ==
  ASSUME Typed, NoMissedWakeup, NEW c \in Conns, ServiceConnection(c)
  PROVE  NoMissedWakeup'
<1>1. StepsTyped /\ SharedTyped /\ pc \in [People -> Steps]
  BY DEF Typed, TypeOK, People, StepsTyped, Steps
<1>2. CASE Uncount(c)
  <2> DEFINE woken == {"limitWait"} \cup IF threadCount' = 0 THEN {"threadsWait"} ELSE {}
  <2>1. Broadcast(pc, woken) /\ woken \in SUBSET Asleep
    BY <1>2 DEF Uncount, Asleep
  <2>2. threadCount' = threadCount - 1 /\ running' = running /\ threadCount \in Int
    BY <1>1, <1>2 DEF Uncount, runVars, SharedTyped
  <2>3. ASSUME NEW q \in People, pc[q] \notin woken
        PROVE  /\ pc[q] = "limitWait" => AtLimit'
               /\ pc[q] = "threadsWait" => threadCount' > 0
               /\ pc[q] = "listenerWait" => running'
    <3>1. pc[q] # "limitWait" /\ (pc[q] = "threadsWait" => threadCount' # 0)
      BY <2>3
    <3>2. /\ pc[q] = "threadsWait" => threadCount > 0
          /\ pc[q] = "listenerWait" => running
      BY DEF NoMissedWakeup, People
    <3> QED BY <2>2, <3>1, <3>2
  <2> HIDE DEF woken
  <2> QED BY <1>1, <2>1, <2>3, WakesAll
<1>3. CASE OnConnect(c) \/ Leave(c)
  BY <1>3 DEF OnConnect, Leave, NoMissedWakeup, runVars, AtLimit
<1>4. Uncount(c) \/ OnConnect(c) \/ Leave(c)
  BY DEF ServiceConnection
<1> QED BY <1>2, <1>3, <1>4

(* No one waits for a condition that has come true: no wake-up is missed,   *)
(* whoever waits and whatever the order of the steps.                       *)
THEOREM KernelMissesNoWakeup == Spec => []NoMissedWakeup
<1>1. Init => NoMissedWakeup
  BY DEF Init, NoMissedWakeup
<1>2. Typed /\ NoMissedWakeup /\ [Next]_vars => NoMissedWakeup'
  <2>1. ASSUME Typed, NoMissedWakeup, Next PROVE NoMissedWakeup'
    <3>1. CASE \E p \in Callers : StartAsync(p) \/ StartThreadFails(p) \/ Joined(p) \/ ClearBegins(p)
      BY <2>1, <3>1, WakeupsCaller
    <3>2. CASE \E p \in Callers \cup Listeners : ClearStep(p) \/ SpuriousWakeup(p)
      BY <2>1, <3>2, WakeupsClear DEF People
    <3>3. CASE \E l \in Listeners : ListenerStep(l) \/ ListenerFails(l) \/ \E c \in Conns : Accept(l, c)
      BY <2>1, <3>3, WakeupsListener
    <3>4. CASE \E c \in Conns : ServiceConnection(c)
      BY <2>1, <3>4, WakeupsService
    <3> QED BY <2>1, <3>1, <3>2, <3>3, <3>4 DEF Next
  <2>2. ASSUME NoMissedWakeup, UNCHANGED vars PROVE NoMissedWakeup'
    BY <2>2 DEF vars, runVars, NoMissedWakeup, AtLimit
  <2> QED BY <2>1, <2>2
<1> QED BY <1>1, <1>2, TypedInit, TypedNext, PTL DEF Spec

-----------------------------------------------------------------------------
(* What is in cons is alive.                                                *)

\* A listener adds a connection once.
NotYetIn == \A l \in Listeners : pc[l] = "add" => got[l] \notin cons

(* A step of the listener.                                                  *)
LEMMA AliveListener ==
  ASSUME Typed, ConsAlive, NotYetIn, NEW l \in Listeners,
         ListenerStep(l) \/ ListenerFails(l) \/ \E c \in Conns : Accept(l, c)
  PROVE  ConsAlive' /\ NotYetIn'
<1>1. ConnsTyped /\ StepsTyped /\ SharedTyped /\ Held /\ pc \in [People -> Steps]
      /\ l \in People
  BY DEF Typed, TypeOK, StepsTyped, People, Steps
<1>2. pc[l] \in {"add", "spawn"} =>
        /\ got[l] \in Conns /\ got[l] # Nobody /\ stage[got[l]] = "held"
        /\ \A m \in Listeners : got[m] = got[l] => m = l
  BY <1>1 DEF Held, StepsTyped, Holding
<1>3. CASE Add(l)
  <2>1. /\ cons' = cons \cup {got[l]} /\ stage' = stage /\ got' = got
        /\ pc[l] = "add" /\ pc' = [pc EXCEPT ![l] = "spawn"]
    BY <1>3 DEF Add, conVars, Goto
  <2>2. ConsAlive'
    BY <1>2, <2>1 DEF ConsAlive
  <2>3. NotYetIn'
    BY <1>1, <1>2, <2>1 DEF NotYetIn, StepsTyped
  <2> QED BY <2>2, <2>3
<1>4. CASE AddFails(l) \/ ParamFails(l) \/ SpawnFails(l)
  <2>1. PICK as \in {"dropped", "leaked"} :
          /\ stage' = [stage EXCEPT ![got[l]] = as]
          /\ got' = [got EXCEPT ![l] = Nobody]
          /\ pc' = [pc EXCEPT ![l] = "closeFailed"]
          /\ cons' \subseteq cons
          /\ as = "dropped" => got[l] \notin cons'
    BY <1>4 DEF AddFails, ParamFails, SpawnFails, Drop, Goto, NotYetIn
  <2>2. \A c \in cons' : c \in Conns /\ c \in cons
    BY <1>1, <2>1 DEF SharedTyped
  <2>3. got[l] \in Conns
    BY <1>2, <1>4 DEF AddFails, ParamFails, SpawnFails
  <2>4. \A c \in Conns : stage'[c] = IF c = got[l] THEN as ELSE stage[c]
    BY <1>1, <2>1, <2>3 DEF ConnsTyped
  <2>5. ConsAlive'
    BY <2>1, <2>2, <2>4 DEF ConsAlive
  <2>6. NotYetIn'
    BY <1>1, <2>1, <2>2 DEF NotYetIn, StepsTyped
  <2> QED BY <2>5, <2>6
<1>5. ASSUME NEW c \in Conns, Accept(l, c)
      PROVE  ConsAlive' /\ NotYetIn'
  <2>1. /\ stage[c] = "none" /\ stage' = [stage EXCEPT ![c] = "held"] /\ cons' = cons
        /\ got' = [got EXCEPT ![l] = c] /\ pc' = [pc EXCEPT ![l] = "add"]
    BY <1>5 DEF Accept, Arrives, Goto
  <2>2. c \notin cons
    BY <2>1 DEF ConsAlive
  <2>3. \A d \in cons : stage'[d] = stage[d]
    BY <1>1, <2>1, <2>2 DEF ConnsTyped, SharedTyped
  <2>4. NotYetIn'
    BY <1>1, <2>1, <2>2 DEF NotYetIn, StepsTyped
  <2> QED BY <2>1, <2>3, <2>4 DEF ConsAlive
<1>6. CASE AcceptStops(l)
  <2>1. /\ cons' = cons /\ got' = got /\ pc' = [pc EXCEPT ![l] = "close"]
        /\ \A c \in Conns : stage[c] # "none" => stage'[c] = stage[c]
    BY <1>1, <1>6 DEF AcceptStops, Arrives, Goto, ConnsTyped
  <2>2. \A c \in cons : stage'[c] = stage[c]
    BY <1>1, <2>1 DEF ConsAlive, SharedTyped
  <2> QED BY <1>1, <2>1, <2>2 DEF ConsAlive, NotYetIn
<1>7. CASE Open(l) \/ Spawn(l) \/ CheckLimit(l) \/ LimitWoken(l) \/ AcceptFails(l)
  <2>1. stage' = stage /\ cons' = cons /\ got' = got
    BY <1>7 DEF Open, Spawn, CheckLimit, LimitWoken, AcceptFails, conVars
  <2>2. PICK s \in {"accept", "count", "limitWait", "close", "closeFailed"} :
          pc' = [pc EXCEPT ![l] = s]
    BY <1>7 DEF Open, Spawn, CheckLimit, LimitWoken, AcceptFails, Goto
  <2> QED BY <1>1, <2>1, <2>2 DEF ConsAlive, NotYetIn
<1>8. CASE Count(l) \/ Close(l)
  <2>1. stage' = stage /\ cons' = cons /\ \A m \in Listeners \ {l} : got'[m] = got[m]
    BY <1>1, <1>8 DEF Count, Close, conVars, StepsTyped
  <2>2. PICK s \in {"limit", "off", "shutting"}, asleep \in SUBSET Asleep :
          Broadcast([pc EXCEPT ![l] = s], asleep)
    <3>1. {"threadsWait"} \in SUBSET Asleep /\ {"listenerWait"} \in SUBSET Asleep
          /\ {} \in SUBSET Asleep
      BY DEF Asleep
    <3>2. CASE Count(l)
      <4> DEFINE woken == IF threadCount' = 0 THEN {"threadsWait"} ELSE {}
      <4>1. Broadcast([pc EXCEPT ![l] = "limit"], woken)
        BY <3>2 DEF Count
      <4>2. woken \in SUBSET Asleep
        BY <3>1
      <4> HIDE DEF woken
      <4> QED BY <4>1, <4>2
    <3>3. CASE Close(l)
      BY <3>1, <3>3 DEF Close
    <3> QED BY <1>8, <3>2, <3>3
  <2> DEFINE at == [pc EXCEPT ![l] = s]
  <2>3. at \in [People -> Steps] /\ at[l] = s /\ \A q \in People \ {l} : at[q] = pc[q]
    BY <1>1, <2>2 DEF Steps, CallerSteps, ListenerSteps, ClearSteps, AcceptSteps
  <2> HIDE DEF at
  <2>4. \A q \in People : pc'[q] = at[q] \/ pc'[q] \in {"threads", "listener", "limitWoken"}
    <3>1. Broadcast(at, asleep)
      BY <2>2 DEF at
    <3> QED BY <1>1, <2>3, <3>1, Wakes
  <2>5. \A m \in Listeners : pc'[m] = "add" => pc[m] = "add" /\ m # l
    BY <2>2, <2>3, <2>4 DEF People
  <2> QED BY <2>1, <2>5 DEF ConsAlive, NotYetIn
<1> QED BY <1>3, <1>4, <1>5, <1>6, <1>7, <1>8 DEF ListenerStep, ListenerFails

(* Steps of the others.                                                     *)
LEMMA AliveOthers ==
  ASSUME Typed, ConsAlive, NotYetIn,
         \/ \E p \in Callers : StartAsync(p) \/ StartThreadFails(p) \/ Joined(p) \/ ClearBegins(p)
         \/ \E p \in Callers \cup Listeners : ClearStep(p) \/ SpuriousWakeup(p)
         \/ \E c \in Conns : ServiceConnection(c)
  PROVE  ConsAlive' /\ NotYetIn'
<1>1. ConnsTyped /\ StepsTyped /\ SharedTyped /\ pc \in [People -> Steps]
  BY DEF Typed, TypeOK, StepsTyped, People, Steps
<1>2. cons' \subseteq cons /\ got' = got
  BY DEF StartAsync, StartThreadFails, Joined, ClearBegins, ClearStep, SetShuttingDown,
         ShutdownConnections, AwaitThreads, AwaitListener, ClearReturns, SpuriousWakeup,
         ServiceConnection, OnConnect, Leave, Uncount
<1>3. \A l \in Listeners : pc'[l] = "add" => pc[l] = "add"
  <2>1. CASE \E p \in Callers : StartAsync(p)
    BY <1>1, <2>1 DEF StartAsync, People
  <2>2. CASE \E p \in Callers : StartThreadFails(p)
    BY <2>2 DEF StartThreadFails
  <2>3. CASE \E p \in Callers : Joined(p) \/ ClearBegins(p)
    BY <1>1, <2>3 DEF Joined, ClearBegins, Goto, People
  <2>4. CASE \E p \in Callers \cup Listeners : ClearStep(p)
    <3>1. PICK p \in People : ClearStep(p)
      BY <2>4 DEF People
    <3>2. PICK s \in {"disconnect", "threads", "threadsWait", "listener", "listenerWait",
                      "finish", "idle", "off"} : Goto(p, s)
      BY <3>1 DEF ClearStep, SetShuttingDown, ShutdownConnections, AwaitThreads,
                  AwaitListener, ClearReturns
    <3> QED BY <1>1, <3>2 DEF Goto, People
  <2>5. CASE \E p \in Callers \cup Listeners : SpuriousWakeup(p)
    <3>1. PICK p \in People, s \in {"threads", "listener", "limitWoken"} : Goto(p, s)
      BY <2>5 DEF SpuriousWakeup, Awake, People
    <3> QED BY <1>1, <3>1 DEF Goto, People
  <2>6. CASE \E c \in Conns : OnConnect(c) \/ Leave(c)
    BY <2>6 DEF OnConnect, Leave
  <2>7. CASE \E c \in Conns : Uncount(c)
    <3> DEFINE woken == {"limitWait"} \cup IF threadCount' = 0 THEN {"threadsWait"} ELSE {}
    <3>1. Broadcast(pc, woken) /\ woken \in SUBSET Asleep
      BY <2>7 DEF Uncount, Asleep
    <3> HIDE DEF woken
    <3>2. \A q \in People : pc'[q] = pc[q] \/ pc'[q] \in {"threads", "listener", "limitWoken"}
      BY <1>1, <3>1, Wakes
    <3> QED BY <3>2 DEF People
  <2> QED BY <2>1, <2>2, <2>3, <2>4, <2>5, <2>6, <2>7 DEF ServiceConnection
<1>4. \A c \in cons' : stage'[c] \in {"held", "talking", "leaked"}
  <2>1. CASE \E c \in Conns : ServiceConnection(c)
    <3>1. PICK c \in Conns : ServiceConnection(c)
      BY <2>1
    <3>2. \A d \in Conns \ {c} : stage'[d] = stage[d]
      BY <1>1, <3>1 DEF ServiceConnection, OnConnect, Leave, Uncount, ConnsTyped
    <3>3. CASE OnConnect(c)
      BY <1>1, <1>2, <3>2, <3>3 DEF OnConnect, ConsAlive, ConnsTyped, SharedTyped
    <3>4. CASE Leave(c)
      BY <1>1, <1>2, <3>2, <3>4 DEF Leave, ConsAlive, SharedTyped
    <3>5. CASE Uncount(c)
      <4>1. c \notin cons
        BY <3>5 DEF Uncount, ConsAlive
      <4> QED BY <1>1, <1>2, <3>2, <4>1 DEF ConsAlive, SharedTyped
    <3> QED BY <3>1, <3>3, <3>4, <3>5 DEF ServiceConnection
  <2>2. CASE \/ \E p \in Callers : StartAsync(p) \/ StartThreadFails(p) \/ Joined(p) \/ ClearBegins(p)
             \/ \E p \in Callers \cup Listeners : ClearStep(p) \/ SpuriousWakeup(p)
    <3>1. stage' = stage
      BY <2>2 DEF StartAsync, StartThreadFails, Joined, ClearBegins, ClearStep, SetShuttingDown,
         ShutdownConnections, AwaitThreads, AwaitListener, ClearReturns, SpuriousWakeup, conVars
    <3> QED BY <1>2, <3>1 DEF ConsAlive
  <2> QED BY <2>1, <2>2
<1> QED BY <1>2, <1>3, <1>4 DEF ConsAlive, NotYetIn

(* clear() never shuts down a connection that was deleted, but a leaked one. *)
THEOREM ConsHoldsNoDeleted == Spec => []ConsAlive
<1>1. Init => ConsAlive /\ NotYetIn
  BY DEF Init, ConsAlive, NotYetIn
<1>2. Typed /\ ConsAlive /\ NotYetIn /\ [Next]_vars => ConsAlive' /\ NotYetIn'
  <2>1. ASSUME Typed, ConsAlive, NotYetIn, Next PROVE ConsAlive' /\ NotYetIn'
    BY <2>1, AliveListener, AliveOthers DEF Next
  <2>2. ASSUME ConsAlive, NotYetIn, UNCHANGED vars PROVE ConsAlive' /\ NotYetIn'
    BY <2>2 DEF vars, conVars, ConsAlive, NotYetIn
  <2> QED BY <2>1, <2>2
<1> QED BY <1>1, <1>2, TypedInit, TypedNext, PTL DEF Spec

-----------------------------------------------------------------------------
(* Counting.                                                                *)

Counting == {l \in Listeners : pc[l] = "count"}

(* Connection threads and listeners can be counted.                         *)
LEMMA Countable ==
  /\ IsFiniteSet(Threads) /\ Cardinality(Threads) \in Nat
  /\ IsFiniteSet(Counting) /\ Cardinality(Counting) \in Nat
<1>1. IsFiniteSet(Conns)
  BY FS_Interval DEF Conns
<1>2. Threads \in SUBSET Conns /\ Counting \in SUBSET Listeners
  BY DEF Threads, Counting
<1>3. IsFiniteSet(Threads) /\ IsFiniteSet(Counting)
  BY <1>1, <1>2, FS_Subset
<1> QED BY <1>3, FS_CardinalityType

(* Who counts does not change with a step that neither starts a thread nor  *)
(* counts one.                                                              *)
LEMMA CountingKept ==
  ASSUME Typed,
         \/ \E p \in Callers : StartAsync(p) \/ StartThreadFails(p) \/ Joined(p) \/ ClearBegins(p)
         \/ \E p \in Callers \cup Listeners : ClearStep(p) \/ SpuriousWakeup(p)
         \/ \E c \in Conns : ServiceConnection(c)
         \/ \E l \in Listeners : \/ Open(l) \/ AcceptStops(l) \/ Add(l) \/ CheckLimit(l)
                                 \/ LimitWoken(l) \/ Close(l) \/ ListenerFails(l)
                                 \/ \E c \in Conns : Accept(l, c)
  PROVE  Counting' = Counting
<1>1. StepsTyped /\ pc \in [People -> Steps] /\ Listeners \subseteq People
      /\ Callers \subseteq People
  BY DEF Typed, TypeOK, StepsTyped, People, Steps
<1>2. SUFFICES \A l \in Listeners : pc'[l] = "count" <=> pc[l] = "count"
  BY DEF Counting
<1>3. CASE \E p \in Callers : StartAsync(p)
  BY <1>1, <1>3 DEF StartAsync, People
<1>4. CASE \E p \in Callers : StartThreadFails(p)
  BY <1>4 DEF StartThreadFails
<1>5. CASE \E p \in People, s \in Steps : Goto(p, s) /\ pc[p] # "count" /\ s # "count"
  BY <1>1, <1>5 DEF Goto
<1>6. CASE \E p \in Callers : Joined(p) \/ ClearBegins(p)
  BY <1>1, <1>5, <1>6 DEF Joined, ClearBegins, Steps, CallerSteps, ClearSteps
<1>7. CASE \E p \in Callers \cup Listeners : ClearStep(p)
  <2>1. PICK p \in People : ClearStep(p)
    BY <1>7 DEF People
  <2>2. PICK s \in {"disconnect", "threads", "threadsWait", "listener", "listenerWait",
                    "finish", "idle", "off"} : Goto(p, s)
    BY <2>1 DEF ClearStep, SetShuttingDown, ShutdownConnections, AwaitThreads,
                AwaitListener, ClearReturns
  <2>3. pc[p] # "count"
    BY <2>1 DEF ClearStep, SetShuttingDown, ShutdownConnections, AwaitThreads,
                AwaitListener, ClearReturns
  <2> QED BY <1>5, <2>2, <2>3 DEF Steps, CallerSteps, ListenerSteps, ClearSteps
<1>8. CASE \E p \in Callers \cup Listeners : SpuriousWakeup(p)
  <2>1. PICK p \in People, s \in {"threads", "listener", "limitWoken"} :
          Goto(p, s) /\ pc[p] # "count"
    BY <1>8 DEF SpuriousWakeup, Awake, People
  <2> QED BY <1>5, <2>1 DEF Steps, CallerSteps, ListenerSteps, ClearSteps, AcceptSteps
<1>9. CASE \E c \in Conns : OnConnect(c) \/ Leave(c)
  BY <1>9 DEF OnConnect, Leave
<1>10. ASSUME NEW at \in [People -> Steps], NEW asleep \in SUBSET Asleep, Broadcast(at, asleep)
       PROVE  \A l \in Listeners : pc'[l] = "count" <=> at[l] = "count"
  <2>1. /\ \A p \in People : at[p] \notin asleep => pc'[p] = at[p]
        /\ \A p \in People : at[p] \in asleep => pc'[p] \in {"threads", "listener", "limitWoken"}
    BY <1>1, <1>10, Wakes
  <2> QED BY <1>1, <2>1 DEF Asleep
<1>11. CASE \E c \in Conns : Uncount(c)
  <2> DEFINE woken == {"limitWait"} \cup IF threadCount' = 0 THEN {"threadsWait"} ELSE {}
  <2>1. Broadcast(pc, woken) /\ woken \in SUBSET Asleep
    BY <1>11 DEF Uncount, Asleep
  <2> HIDE DEF woken
  <2> QED BY <1>1, <1>10, <2>1
<1>12. CASE \E l \in Listeners : Close(l)
  <2>1. PICK l \in Listeners, s \in {"off", "shutting"} :
          Broadcast([pc EXCEPT ![l] = s], {"listenerWait"}) /\ pc[l] # "count"
    BY <1>12 DEF Close
  <2>2. [pc EXCEPT ![l] = s] \in [People -> Steps]
    BY <1>1, <2>1 DEF Steps, CallerSteps, ListenerSteps, ClearSteps
  <2>3. {"listenerWait"} \in SUBSET Asleep
    BY DEF Asleep
  <2>4. \A m \in Listeners : pc'[m] = "count" <=> [pc EXCEPT ![l] = s][m] = "count"
    BY <1>10, <2>1, <2>2, <2>3
  <2> QED BY <1>1, <2>1, <2>4
<1>13. CASE \E l \in Listeners : \/ Open(l) \/ AcceptStops(l) \/ Add(l) \/ CheckLimit(l)
                                 \/ LimitWoken(l) \/ ListenerFails(l)
                                 \/ \E c \in Conns : Accept(l, c)
  <2>1. PICK l \in Listeners, s \in {"accept", "close", "spawn", "limitWait", "closeFailed", "add"} :
          Goto(l, s) /\ pc[l] # "count"
    BY <1>13 DEF Open, AcceptStops, Add, CheckLimit, LimitWoken, ListenerFails,
                 AcceptFails, AddFails, ParamFails, SpawnFails, Drop, Accept
  <2> QED BY <1>1, <1>5, <2>1 DEF Steps, ListenerSteps, AcceptSteps
<1> QED BY <1>3, <1>4, <1>6, <1>7, <1>8, <1>9, <1>11, <1>12, <1>13 DEF ServiceConnection

(* A thread that is started: its listener has yet to count it.              *)
LEMMA CountSpawn ==
  ASSUME Typed, CountIsThreads, NEW l \in Listeners, Spawn(l)
  PROVE  CountIsThreads'
<1>1. ConnsTyped /\ StepsTyped /\ Held
  BY DEF Typed, TypeOK
<1>2. /\ threadCount' = threadCount /\ pc' = [pc EXCEPT ![l] = "count"]
      /\ job' = [job EXCEPT ![got[l]] = "accepted"]
      /\ pc[l] = "spawn" /\ job[got[l]] = "new" /\ got[l] \in Conns
  BY <1>1 DEF Spawn, Goto, Pool!Accept, Pool!Move, Held, StepsTyped, Holding
<1>3. Threads' = Threads \cup {got[l]} /\ got[l] \notin Threads
  BY <1>1, <1>2 DEF Threads, ConnsTyped
<1>4. Counting' = Counting \cup {l} /\ l \notin Counting
  BY <1>1, <1>2 DEF Counting, StepsTyped
<1>5. /\ Cardinality(Threads') = Cardinality(Threads) + 1
      /\ Cardinality(Counting') = Cardinality(Counting) + 1
  BY <1>3, <1>4, Countable, FS_AddElement
<1> QED BY <1>2, <1>5, Countable DEF CountIsThreads, Counting

(* A thread that is counted.                                                *)
LEMMA CountCount ==
  ASSUME Typed, CountIsThreads, NEW l \in Listeners, Count(l)
  PROVE  CountIsThreads'
<1>1. StepsTyped /\ pc \in [People -> Steps] /\ Listeners \subseteq People
  BY DEF Typed, TypeOK, StepsTyped, People, Steps
<1>2. threadCount' = threadCount + 1 /\ job' = job /\ pc[l] = "count"
  BY DEF Count, conVars
<1>3. Counting' = Counting \ {l} /\ l \in Counting
  <2> DEFINE woken == IF threadCount' = 0 THEN {"threadsWait"} ELSE {}
             at == [pc EXCEPT ![l] = "limit"]
  <2>1. Broadcast(at, woken) /\ woken \in SUBSET Asleep
    BY DEF Count, Asleep
  <2>2. at \in [People -> Steps] /\ at[l] = "limit" /\ \A q \in People \ {l} : at[q] = pc[q]
    BY <1>1 DEF Steps, ListenerSteps, AcceptSteps
  <2> HIDE DEF woken, at
  <2>3. /\ \A p \in People : at[p] \notin woken => pc'[p] = at[p]
        /\ \A p \in People : at[p] \in woken => pc'[p] \in {"threads", "listener", "limitWoken"}
    BY <1>1, <2>1, <2>2, Wakes
  <2>4. \A m \in Listeners : pc'[m] = "count" <=> pc[m] = "count" /\ m # l
    BY <1>1, <2>1, <2>2, <2>3 DEF Asleep
  <2> QED BY <1>2, <2>4 DEF Counting
<1>4. Threads' = Threads
  BY <1>2 DEF Threads
<1>5. Cardinality(Counting') = Cardinality(Counting) - 1
  BY <1>3, Countable, FS_RemoveElement
<1> QED BY <1>2, <1>4, <1>5, Countable DEF CountIsThreads, Counting

(* A thread that ends.                                                      *)
LEMMA CountUncount ==
  ASSUME Typed, CountIsThreads, NEW c \in Conns, Uncount(c)
  PROVE  CountIsThreads'
<1>1. ConnsTyped
  BY DEF Typed, TypeOK
<1>2. threadCount' = threadCount - 1 /\ job[c] = "running" /\ job' = [job EXCEPT ![c] = "done"]
  BY DEF Uncount, Pool!End, Pool!Move
<1>3. Threads' = Threads \ {c} /\ c \in Threads
  BY <1>1, <1>2 DEF Threads, ConnsTyped
<1>4. Cardinality(Threads') = Cardinality(Threads) - 1
  BY <1>3, Countable, FS_RemoveElement
<1>5. Counting' = Counting
  BY CountingKept DEF ServiceConnection
<1>6. Cardinality(Counting') = Cardinality(Counting)
  BY <1>5
<1> QED BY <1>2, <1>4, <1>6, Countable DEF CountIsThreads, Counting

(* Any other step: no thread starts, ends or is counted.                    *)
LEMMA CountOthers ==
  ASSUME Typed, CountIsThreads, threadCount' = threadCount,
         Counting' = Counting, Threads' = Threads
  PROVE  CountIsThreads'
  BY DEF CountIsThreads, Counting

(* No thread was started yet.                                               *)
LEMMA CountInit == Init => CountIsThreads
<1> SUFFICES ASSUME Init PROVE CountIsThreads
  OBVIOUS
<1>1. Threads = {}
  BY DEF Init, Pool!Init, Threads
<1>2. pc = [p \in Callers \cup Listeners |-> IF p \in Callers THEN "idle" ELSE "off"]
  BY DEF Init
<1>3. Counting = {}
  BY <1>2 DEF Counting
<1> QED BY <1>1, <1>3, FS_EmptySet DEF Init, CountIsThreads, Counting

(* Every step keeps the count.                                              *)
LEMMA CountNext == Typed /\ CountIsThreads /\ [Next]_vars => CountIsThreads'
<1>1. ASSUME Typed, CountIsThreads, Next PROVE CountIsThreads'
  <2>0. ConnsTyped
    BY <1>1 DEF Typed, TypeOK
  <2>1. CASE \E p \in Callers : StartAsync(p) \/ StartThreadFails(p) \/ Joined(p) \/ ClearBegins(p)
    <3>1. threadCount' = threadCount /\ job' = job
      BY <2>1 DEF StartAsync, StartThreadFails, Joined, ClearBegins, conVars
    <3> QED BY <1>1, <2>1, <3>1, CountingKept, CountOthers DEF Threads
  <2>2. CASE \E p \in Callers \cup Listeners : ClearStep(p) \/ SpuriousWakeup(p)
    <3>1. threadCount' = threadCount /\ job' = job
      BY <2>2 DEF ClearStep, SetShuttingDown, ShutdownConnections, AwaitThreads,
                  AwaitListener, ClearReturns, SpuriousWakeup, conVars
    <3> QED BY <1>1, <2>2, <3>1, CountingKept, CountOthers DEF Threads
  <2>3. CASE \E l \in Listeners : \/ Open(l) \/ AcceptStops(l) \/ Add(l) \/ CheckLimit(l)
                                  \/ LimitWoken(l) \/ Close(l) \/ ListenerFails(l)
                                  \/ \E c \in Conns : Accept(l, c)
    <3>1. threadCount' = threadCount /\ job' = job
      BY <2>3 DEF Open, AcceptStops, Add, CheckLimit, LimitWoken, Close, ListenerFails,
                  AcceptFails, AddFails, ParamFails, SpawnFails, Drop, Accept, conVars
    <3> QED BY <1>1, <2>3, <3>1, CountingKept, CountOthers DEF Threads
  <2>4. CASE \E l \in Listeners : Spawn(l) \/ Count(l)
    BY <1>1, <2>4, CountSpawn, CountCount
  <2>5. CASE \E c \in Conns : Uncount(c)
    BY <1>1, <2>5, CountUncount
  <2>6. CASE \E c \in Conns : OnConnect(c) \/ Leave(c)
    <3>1. threadCount' = threadCount
      BY <2>6 DEF OnConnect, Leave
    <3>2. Threads' = Threads
      BY <2>0, <2>6 DEF OnConnect, Leave, Threads, ConnsTyped, Pool!Start, Pool!Move
    <3>3. Counting' = Counting
      BY <1>1, <2>6, CountingKept DEF ServiceConnection
    <3> QED BY <1>1, <3>1, <3>2, <3>3, CountOthers
  <2> QED BY <1>1, <2>1, <2>2, <2>3, <2>4, <2>5, <2>6
          DEF Next, ListenerStep, ServiceConnection
<1>2. ASSUME CountIsThreads, UNCHANGED vars PROVE CountIsThreads'
  BY <1>2 DEF vars, conVars, CountIsThreads, Threads
<1> QED BY <1>1, <1>2

(* thread_count counts the connection threads, but for those whose listener *)
(* is about to count them.                                                  *)
THEOREM KernelCountsThreads == Spec => []CountIsThreads
BY CountInit, CountNext, TypedInit, TypedNext, PTL DEF Spec

-----------------------------------------------------------------------------
(* Who may move where.                                                      *)

Past   == {"listener", "listenerWait", "finish"}  \* clear() has seen no thread
During == {"disconnect", "threads", "threadsWait"} \cup Past
Adding == {"add", "spawn"}                  \* its connection gets a thread yet
Full   == {"count", "limit", "limitWait", "limitWoken"}

\* Unmoved, or woken.
Rests(q) ==
  \/ pc'[q] = pc[q]
  \/ pc[q] = "threadsWait" /\ pc'[q] = "threads"
  \/ pc[q] = "listenerWait" /\ pc'[q] = "listener"
  \/ pc[q] = "limitWait" /\ pc'[q] = "limitWoken"

\* The only ways into, or out of, these sets of steps.
Moves(q) ==
  /\ pc[q] = "off" => pc'[q] = "off"
  /\ pc[q] = "open" => pc'[q] = "open" \/ Open(q)
  /\ pc'[q] \in AcceptSteps => pc[q] \in AcceptSteps
  /\ pc'[q] \in Adding => pc[q] \in Adding \/ \E c \in Conns : Accept(q, c)
  /\ pc[q] \in Full => pc'[q] \in Full \/ CheckLimit(q) \/ LimitWoken(q)
  /\ pc'[q] \in Past => pc[q] \in Past \/ AwaitThreads(q)
  /\ pc'[q] \in During => pc[q] \in During \/ SetShuttingDown(q)

(* Goto moves one, a broadcast wakes the others.                            *)
LEMMA GotoMoves ==
  ASSUME StepsTyped, NEW p \in People, NEW s, Goto(p, s)
  PROVE  pc'[p] = s /\ \A q \in People \ {p} : Rests(q)
BY DEF Goto, StepsTyped, People, Rests

(* A broadcast after a step of p.                                           *)
LEMMA BroadcastMoves ==
  ASSUME StepsTyped, NEW p \in People, NEW s \in Steps \ Asleep,
         NEW asleep \in SUBSET Asleep, Broadcast([pc EXCEPT ![p] = s], asleep)
  PROVE  pc'[p] = s /\ \A q \in People \ {p} : Rests(q)
<1> DEFINE at == [pc EXCEPT ![p] = s]
<1>1. /\ at \in [People -> Steps] /\ at[p] = s
      /\ \A q \in People \ {p} : at[q] = pc[q]
  BY DEF StepsTyped, People, Steps
<1>2. Broadcast(at, asleep)
  OBVIOUS
<1> HIDE DEF at
<1>3. /\ \A q \in People : at[q] \notin asleep => pc'[q] = at[q]
      /\ \A q \in People : at[q] \in asleep =>
              \/ at[q] = "threadsWait" /\ pc'[q] = "threads"
              \/ at[q] = "listenerWait" /\ pc'[q] = "listener"
              \/ at[q] = "limitWait" /\ pc'[q] = "limitWoken"
  BY <1>1, <1>2, Wakes
<1> QED BY <1>1, <1>3 DEF Rests

(* Who rests leaves none of these sets and enters none.                     *)
LEMMA RestsMoves == \A q : Rests(q) => Moves(q)
BY DEF Rests, Moves, AcceptSteps, Adding, Full, Past, During

(* Every step but start_async's.                                            *)
LEMMA AllMove ==
  ASSUME Typed, Next, \A p \in Callers : ~StartAsync(p)
  PROVE  \A q \in People : Moves(q)
<1>1. StepsTyped /\ Callers \subseteq People /\ Listeners \subseteq People
  BY DEF Typed, TypeOK, People
<1>2. ASSUME NEW p \in People, Moves(p), \A q \in People \ {p} : Rests(q)
      PROVE  \A q \in People : Moves(q)
  BY <1>2, RestsMoves
<1>3. CASE \A q \in People : Rests(q)
  BY <1>3, RestsMoves
<1>4. CASE \E p \in Callers : StartThreadFails(p)
  BY <1>3, <1>4 DEF StartThreadFails, Rests
<1>5. ASSUME NEW p \in Callers, Joined(p) \/ ClearBegins(p)
      PROVE  \A q \in People : Moves(q)
  <2>1. PICK s \in {"idle", "shutting"} : Goto(p, s)
    BY <1>5 DEF Joined, ClearBegins
  <2>2. pc'[p] = s /\ pc[p] \in {"idle", "joining"} /\ \A q \in People \ {p} : Rests(q)
    BY <1>1, <1>5, <2>1, GotoMoves DEF Joined, ClearBegins
  <2>3. Moves(p)
    BY <2>2 DEF Moves, AcceptSteps, Adding, Full, Past, During
  <2> QED BY <1>1, <1>2, <2>2, <2>3
<1>6. ASSUME NEW p \in People, ClearStep(p)
      PROVE  \A q \in People : Moves(q)
  <2>1. \E s : Goto(p, s)
    BY <1>6 DEF ClearStep, SetShuttingDown, ShutdownConnections, AwaitThreads,
                AwaitListener, ClearReturns
  <2>2. \A q \in People \ {p} : Rests(q)
    BY <1>1, <2>1, GotoMoves
  <2>3. CASE SetShuttingDown(p)
    <3>1. pc[p] = "shutting" /\ pc'[p] = "disconnect"
      BY <1>1, <2>3, GotoMoves DEF SetShuttingDown
    <3> QED BY <1>2, <2>2, <2>3, <3>1 DEF Moves, AcceptSteps, Adding, Full, Past, During
  <2>4. CASE ShutdownConnections(p)
    <3>1. pc[p] = "disconnect" /\ pc'[p] = "threads"
      BY <1>1, <2>4, GotoMoves DEF ShutdownConnections
    <3> QED BY <1>2, <2>2, <3>1 DEF Moves, AcceptSteps, Adding, Full, Past, During
  <2>5. CASE AwaitThreads(p)
    <3>1. pc[p] = "threads" /\ pc'[p] \in {"threadsWait", "listener"}
      BY <1>1, <2>5, GotoMoves DEF AwaitThreads
    <3> QED BY <1>2, <2>2, <2>5, <3>1 DEF Moves, AcceptSteps, Adding, Full, Past, During
  <2>6. CASE AwaitListener(p)
    <3>1. pc[p] = "listener" /\ pc'[p] \in {"listenerWait", "finish"}
      BY <1>1, <2>6, GotoMoves DEF AwaitListener
    <3> QED BY <1>2, <2>2, <3>1 DEF Moves, AcceptSteps, Adding, Full, Past, During
  <2>7. CASE ClearReturns(p)
    <3>1. pc[p] = "finish" /\ pc'[p] \in {"idle", "off"}
      BY <1>1, <2>7, GotoMoves DEF ClearReturns
    <3> QED BY <1>2, <2>2, <3>1 DEF Moves, AcceptSteps, Adding, Full, Past, During
  <2> QED BY <1>6, <2>3, <2>4, <2>5, <2>6, <2>7 DEF ClearStep
<1>7. ASSUME NEW p \in People, SpuriousWakeup(p)
      PROVE  \A q \in People : Moves(q)
  <2>1. Rests(p)
    BY <1>1, <1>7, GotoMoves DEF SpuriousWakeup, Awake, Rests
  <2> QED BY <1>1, <1>3, <1>7, <2>1, GotoMoves DEF SpuriousWakeup
<1>8. ASSUME NEW l \in Listeners, CheckLimit(l) \/ LimitWoken(l)
      PROVE  \A q \in People : Moves(q)
  <2>1. PICK s \in {"limitWait", "accept", "close"} : Goto(l, s)
    BY <1>8 DEF CheckLimit, LimitWoken
  <2>2. pc'[l] = s /\ pc[l] \in {"limit", "limitWoken"} /\ \A q \in People \ {l} : Rests(q)
    BY <1>1, <1>8, <2>1, GotoMoves DEF CheckLimit, LimitWoken
  <2>3. Moves(l)
    BY <1>8, <2>2 DEF Moves, AcceptSteps, Adding, Full, Past, During
  <2> QED BY <1>1, <1>2, <2>2, <2>3
<1>9. ASSUME NEW l \in Listeners, NEW c \in Conns, Accept(l, c)
      PROVE  \A q \in People : Moves(q)
  <2>1. pc'[l] = "add" /\ pc[l] = "accept" /\ \A q \in People \ {l} : Rests(q)
    BY <1>1, <1>9, GotoMoves DEF Accept
  <2>2. Moves(l)
    BY <1>9, <2>1 DEF Moves, AcceptSteps, Adding, Full, Past, During
  <2> QED BY <1>1, <1>2, <2>1, <2>2
<1>10. ASSUME NEW l \in Listeners, Open(l)
       PROVE  \A q \in People : Moves(q)
  <2>1. pc'[l] = "accept" /\ pc[l] = "open" /\ \A q \in People \ {l} : Rests(q)
    BY <1>1, <1>10, GotoMoves DEF Open
  <2>2. Moves(l)
    BY <1>10, <2>1 DEF Moves, AcceptSteps, Adding, Full, Past, During
  <2> QED BY <1>1, <1>2, <2>1, <2>2
<1>11. ASSUME NEW l \in Listeners, Add(l) \/ Spawn(l)
       PROVE  \A q \in People : Moves(q)
  <2>1. PICK s \in {"spawn", "count"} : Goto(l, s)
    BY <1>11 DEF Add, Spawn
  <2>2. pc'[l] = s /\ pc[l] \in Adding /\ \A q \in People \ {l} : Rests(q)
    BY <1>1, <1>11, <2>1, GotoMoves DEF Add, Spawn, Adding
  <2>3. Moves(l)
    BY <2>2 DEF Moves, AcceptSteps, Adding, Full, Past, During
  <2> QED BY <1>1, <1>2, <2>2, <2>3
<1>12. ASSUME NEW l \in Listeners, AcceptStops(l) \/ ListenerFails(l)
       PROVE  \A q \in People : Moves(q)
  <2>1. PICK s \in {"close", "closeFailed"} : Goto(l, s)
    BY <1>12 DEF AcceptStops, ListenerFails, AcceptFails, AddFails, ParamFails, SpawnFails, Drop
  <2>2. pc[l] \in {"accept", "add", "spawn"}
    BY <1>12 DEF AcceptStops, ListenerFails, AcceptFails, AddFails, ParamFails, SpawnFails
  <2>3. pc'[l] = s /\ \A q \in People \ {l} : Rests(q)
    BY <1>1, <2>1, GotoMoves
  <2>4. Moves(l)
    BY <2>2, <2>3 DEF Moves, AcceptSteps, Adding, Full, Past, During
  <2> QED BY <1>1, <1>2, <2>3, <2>4
<1>13. ASSUME NEW l \in Listeners, Count(l)
       PROVE  \A q \in People : Moves(q)
  <2> DEFINE woken == IF threadCount' = 0 THEN {"threadsWait"} ELSE {}
  <2>1. Broadcast([pc EXCEPT ![l] = "limit"], woken) /\ woken \in SUBSET Asleep /\ pc[l] = "count"
    BY <1>13 DEF Count, Asleep
  <2>2. "limit" \in Steps \ Asleep
    BY DEF Steps, ListenerSteps, AcceptSteps, Asleep
  <2> HIDE DEF woken
  <2>3. pc'[l] = "limit" /\ \A q \in People \ {l} : Rests(q)
    BY <1>1, <2>1, <2>2, BroadcastMoves
  <2>4. Moves(l)
    BY <2>1, <2>3 DEF Moves, AcceptSteps, Adding, Full, Past, During
  <2> QED BY <1>1, <1>2, <2>3, <2>4
<1>14. ASSUME NEW l \in Listeners, Close(l)
       PROVE  \A q \in People : Moves(q)
  <2>1. PICK s \in {"off", "shutting"} :
          Broadcast([pc EXCEPT ![l] = s], {"listenerWait"}) /\ pc[l] \in {"close", "closeFailed"}
    BY <1>14 DEF Close
  <2>2. s \in Steps \ Asleep /\ {"listenerWait"} \in SUBSET Asleep
    BY DEF Steps, ListenerSteps, ClearSteps, Asleep
  <2>3. pc'[l] = s /\ \A q \in People \ {l} : Rests(q)
    BY <1>1, <2>1, <2>2, BroadcastMoves
  <2>4. Moves(l)
    BY <2>1, <2>3 DEF Moves, AcceptSteps, Adding, Full, Past, During
  <2> QED BY <1>1, <1>2, <2>3, <2>4
<1>15. ASSUME NEW c \in Conns, ServiceConnection(c)
       PROVE  \A q \in People : Moves(q)
  <2>1. CASE OnConnect(c) \/ Leave(c)
    BY <1>3, <2>1 DEF OnConnect, Leave, Rests
  <2>2. CASE Uncount(c)
    <3> DEFINE woken == {"limitWait"} \cup IF threadCount' = 0 THEN {"threadsWait"} ELSE {}
    <3>1. Broadcast(pc, woken) /\ woken \in SUBSET Asleep /\ pc \in [People -> Steps]
      BY <1>1, <2>2 DEF Uncount, Asleep, StepsTyped, People, Steps
    <3> HIDE DEF woken
    <3>2. \A q \in People : Rests(q)
      BY <1>1, <3>1, Wakes DEF Rests
    <3> QED BY <1>3, <3>2
  <2> QED BY <1>15, <2>1, <2>2 DEF ServiceConnection
<1> QED BY <1>4, <1>5, <1>6, <1>7, <1>8, <1>9, <1>10, <1>11, <1>12, <1>13, <1>14, <1>15
        DEF Next, ListenerStep, People

(* What only some steps do to what everybody shares.                        *)
LEMMA Sharing ==
  ASSUME Typed, Next
  PROVE  /\ Threads' \subseteq Threads \/ \E l \in Listeners : Spawn(l)
         /\ late' = late \/ \E p \in People : ClearReturns(p)
         /\ \/ shuttingDown' = shuttingDown
            \/ \E p \in People : SetShuttingDown(p)
            \/ \E p \in People : ClearReturns(p)
         /\ running => running' \/ \E l \in Listeners : Close(l)
         /\ \/ UNCHANGED <<starter, current, old>>
            \/ \E p \in Callers : StartAsync(p) \/ Joined(p)
<1>1. CASE \E p \in Callers : StartAsync(p) \/ StartThreadFails(p) \/ Joined(p) \/ ClearBegins(p)
  BY <1>1 DEF StartAsync, StartThreadFails, Joined, ClearBegins, conVars, runVars, Threads
<1>2. ASSUME NEW p \in People, ClearStep(p) \/ SpuriousWakeup(p)
      PROVE  /\ Threads' = Threads /\ runVars' = runVars
             /\ late' = late \/ ClearReturns(p)
             /\ shuttingDown' = shuttingDown \/ SetShuttingDown(p) \/ ClearReturns(p)
  BY <1>2 DEF ClearStep, SpuriousWakeup, SetShuttingDown, ShutdownConnections, AwaitThreads,
              AwaitListener, ClearReturns, conVars, runVars, Threads
<1>3. ASSUME NEW l \in Listeners, \/ ListenerStep(l) \/ ListenerFails(l)
                                  \/ \E c \in Conns : Accept(l, c)
      PROVE  /\ Threads' = Threads \/ Spawn(l)
             /\ UNCHANGED <<late, shuttingDown, starter, current, old>>
             /\ running => running' \/ Close(l)
  BY <1>3 DEF ListenerStep, ListenerFails, Open, AcceptStops, Add, Count, Spawn,
       CheckLimit, LimitWoken, Close, AcceptFails, AddFails, ParamFails, SpawnFails, Drop, Accept,
       conVars, runVars, Threads
<1>4. ASSUME NEW c \in Conns, ServiceConnection(c)
      PROVE  Threads' \subseteq Threads /\ UNCHANGED <<late, shuttingDown, runVars>>
  <2>1. UNCHANGED <<late, shuttingDown, runVars>>
    BY <1>4 DEF ServiceConnection, OnConnect, Leave, Uncount
  <2>2. CASE Uncount(c) \/ Leave(c)
    BY <2>2 DEF Uncount, Leave, Pool!End, Pool!Move, Threads, Typed, TypeOK, ConnsTyped
  <2>3. CASE OnConnect(c)
    BY <2>3 DEF OnConnect, Pool!Start, Pool!Move, Threads, Typed, TypeOK, ConnsTyped
  <2> QED BY <1>4, <2>1, <2>2, <2>3 DEF ServiceConnection
<1>5. CASE \E p \in Callers \cup Listeners : ClearStep(p) \/ SpuriousWakeup(p)
  BY <1>2, <1>5 DEF People, runVars
<1>6. CASE \E l \in Listeners : ListenerStep(l) \/ ListenerFails(l) \/ \E c \in Conns : Accept(l, c)
  BY <1>3, <1>6
<1>7. CASE \E c \in Conns : ServiceConnection(c)
  BY <1>4, <1>7 DEF runVars
<1> QED BY <1>1, <1>5, <1>6, <1>7 DEF Next

-----------------------------------------------------------------------------
(* One listener accepts at a time: start_async needs running to be FALSE    *)
(* and keeps running_mutex until the listener before is off.                *)

OneListens ==
  /\ \A l \in Listeners : pc[l] # "off" => l = current \/ l = old
  /\ starter = Nobody => old = Nobody
  /\ starter # Nobody => current # Nobody /\ pc[current] = "open"
  /\ old # Nobody => pc[old] \notin AcceptSteps
  /\ \A l \in Listeners : pc[l] \in AcceptSteps => l = current /\ running

(* No listener was created yet.                                             *)
LEMMA OneListensInit == Init => OneListens
<1> SUFFICES ASSUME Init PROVE OneListens
  OBVIOUS
<1>1. /\ starter = Nobody /\ old = Nobody
      /\ pc = [p \in Callers \cup Listeners |-> IF p \in Callers THEN "idle" ELSE "off"]
  BY DEF Init
<1>2. \A l \in Listeners : pc[l] = "off"
  BY <1>1
<1> QED BY <1>1, <1>2 DEF OneListens, AcceptSteps

(* start_async creates a listener, and only when nobody accepts.            *)
LEMMA OneStarts ==
  ASSUME Typed, OneListens, NEW p \in Callers, StartAsync(p)
  PROVE  /\ OneListens' /\ pc'[p] = "joining"
         /\ \E l \in Listeners : /\ pc[l] = "off" /\ pc'[l] = "open"
                                 /\ \A k \in Listeners \ {l} : pc'[k] = pc[k]
<1>1. StepsTyped /\ starter = Nobody /\ ~running /\ current \in Listeners \cup {Nobody}
  BY DEF StartAsync, Typed, TypeOK, SharedTyped
<1>2. PICK l \in Listeners \ {current} :
        /\ pc[l] = "off" /\ current' = l
        /\ pc' = [pc EXCEPT ![p] = "joining", ![l] = "open"]
  BY DEF StartAsync
<1>3. old' = current /\ starter' = p /\ running' = TRUE
  BY DEF StartAsync
<1>4. p # l /\ p # Nobody /\ l # Nobody
  BY DEF StartAsync
<1>5. /\ pc'[p] = "joining" /\ pc'[l] = "open"
      /\ \A k \in Listeners \ {l} : pc'[k] = pc[k]
  BY <1>1, <1>2, <1>4 DEF StepsTyped
<1>6. \A k \in Listeners : pc[k] \notin AcceptSteps
  BY <1>1 DEF OneListens
<1>7. \A k \in Listeners : pc[k] # "off" => k = current
  BY <1>1 DEF OneListens
<1>8. old' # Nobody => old' \in Listeners \ {l} /\ pc'[old'] \notin AcceptSteps
  BY <1>1, <1>2, <1>3, <1>5, <1>6
<1> QED BY <1>2, <1>3, <1>4, <1>5, <1>6, <1>7, <1>8 DEF OneListens

(* Every step keeps it so.                                                  *)
LEMMA OneListensNext == Typed /\ OneListens /\ [Next]_vars => OneListens'
<1>1. ASSUME OneListens, UNCHANGED vars PROVE OneListens'
  BY <1>1 DEF vars, runVars, OneListens
<1>2. ASSUME Typed, OneListens, Next, NEW p \in Callers, StartAsync(p) PROVE OneListens'
  BY <1>2, OneStarts
<1>3. ASSUME Typed, OneListens, Next, \A p \in Callers : ~StartAsync(p) PROVE OneListens'
  <2>1. /\ \A q \in Listeners : Moves(q) /\ q \in People
        /\ current \in Listeners \cup {Nobody} /\ old \in Listeners \cup {Nobody}
        /\ starter \in Callers \cup {Nobody} /\ running \in BOOLEAN
    BY <1>3, AllMove DEF People, Typed, TypeOK, SharedTyped
  <2>2. \A l \in Listeners :
          /\ pc'[l] # "off" => pc[l] # "off"
          /\ pc'[l] \in AcceptSteps => pc[l] \in AcceptSteps /\ l = current
    BY <1>3, <2>1 DEF Moves, OneListens
  <2>3. ASSUME NEW l \in Listeners, pc'[l] \in AcceptSteps PROVE running'
    <3>1. running
      BY <1>3, <2>2, <2>3 DEF OneListens
    <3>2. ASSUME NEW k \in Listeners, Close(k) PROVE FALSE
      <4>1. pc[k] \in {"close", "closeFailed"}
        BY <3>2 DEF Close
      <4>2. k = current /\ l = current
        BY <1>3, <2>2, <2>3, <4>1 DEF OneListens, AcceptSteps
      <4>3. PICK s \in {"off", "shutting"} :
              Broadcast([pc EXCEPT ![l] = s], {"listenerWait"})
        BY <3>2, <4>2 DEF Close
      <4>4. s \in Steps \ Asleep /\ {"listenerWait"} \in SUBSET Asleep
        BY DEF Steps, ListenerSteps, ClearSteps, Asleep
      <4>5. pc'[l] = s
        BY <1>3, <2>1, <4>3, <4>4, BroadcastMoves DEF Typed, TypeOK
      <4> QED BY <2>3, <4>5 DEF AcceptSteps
    <3> QED BY <1>3, <3>1, <3>2, Sharing
  <2>4. CASE UNCHANGED <<starter, current, old>>
    <3>1. starter # Nobody => pc'[current] = "open"
      <4>1. SUFFICES ASSUME starter # Nobody PROVE pc'[current] = "open"
        OBVIOUS
      <4>2. current \in Listeners /\ pc[current] = "open"
        BY <1>3, <2>1, <4>1 DEF OneListens
      <4> QED BY <2>1, <4>1, <4>2 DEF Moves, Open
    <3>2. old # Nobody => pc'[old] \notin AcceptSteps
      BY <1>3, <2>1, <2>2 DEF OneListens
    <3> QED BY <1>3, <2>2, <2>3, <2>4, <3>1, <3>2 DEF OneListens
  <2>5. ASSUME NEW p \in Callers, Joined(p) PROVE OneListens'
    <3>1. /\ starter' = Nobody /\ old' = Nobody /\ current' = current
          /\ old # Nobody => pc[old] = "off"
      BY <2>5 DEF Joined
    <3>2. \A l \in Listeners : pc'[l] # "off" => l = current
      BY <1>3, <2>2, <3>1 DEF OneListens
    <3> QED BY <2>2, <2>3, <3>1, <3>2 DEF OneListens
  <2> QED BY <1>3, <2>4, <2>5, Sharing
<1> QED BY <1>1, <1>2, <1>3

-----------------------------------------------------------------------------
(* The limit.  There is room for a connection whenever one may be accepted  *)
(* or was; a listener may find the limit reached only after it has started  *)
(* a thread, and it then waits or closes.  While the server shuts down      *)
(* nothing is accepted, and when clear() returns no thread counts any more. *)

Served == Cardinality(Threads \ late)
Room   == MaxConnections # 0 => Served < MaxConnections

LimitTrue ==
  /\ MaxConnections # 0 => Served <= MaxConnections
  /\ \A l \in Listeners : pc[l] \in Adding => Room
  /\ shuttingDown \/ Room \/ \E l \in Listeners : pc[l] \in Full

(* Connections that are served can be counted, and a connection less is not *)
(* one more.                                                                *)
LEMMA ServedCountable ==
  ASSUME NEW T \in SUBSET Conns, NEW S \in SUBSET T
  PROVE  /\ IsFiniteSet(T) /\ Cardinality(T) \in Nat /\ Cardinality(S) \in Nat
         /\ Cardinality(S) <= Cardinality(T)
<1>1. IsFiniteSet(Conns)
  BY FS_Interval DEF Conns
<1>2. IsFiniteSet(T)
  BY <1>1, FS_Subset
<1>3. IsFiniteSet(S) /\ Cardinality(S) <= Cardinality(T)
  BY <1>2, FS_Subset
<1> QED BY <1>2, <1>3, FS_CardinalityType

(* A thread that ends, or that clear() leaves, is not served any more.      *)
LEMMA ServesLess ==
  ASSUME Threads' \subseteq Threads, late \subseteq late'
  PROVE  /\ Served \in Nat /\ Served' \in Nat /\ Served' <= Served
         /\ Room => Room'
<1>1. Threads \ late \in SUBSET Conns /\ Threads' \ late' \in SUBSET (Threads \ late)
  BY DEF Threads, Conns
<1>2. Served \in Nat /\ Served' \in Nat /\ Served' <= Served
  BY <1>1, ServedCountable DEF Served
<1> QED BY <1>2 DEF Room

(* A thread that is started is one more.                                    *)
LEMMA ServesMore ==
  ASSUME Typed, NEW l \in Listeners, Spawn(l)
  PROVE  /\ Served \in Nat /\ Served' \in Nat /\ Served' <= Served + 1
         /\ pc[l] = "spawn" /\ pc'[l] = "count"
         /\ Threads' = Threads \cup {got[l]} /\ got[l] \in Conns
         /\ UNCHANGED <<late, shuttingDown>>
<1>1. ConnsTyped /\ StepsTyped /\ l \in People
  BY DEF Typed, TypeOK, People
<1>2. /\ job' = [job EXCEPT ![got[l]] = "accepted"] /\ pc[l] = "spawn"
      /\ got[l] \in Conns /\ UNCHANGED <<late, shuttingDown>>
  BY <1>1 DEF Spawn, Pool!Accept, Pool!Move, StepsTyped, Holding
<1>3. pc'[l] = "count"
  BY <1>1, GotoMoves DEF Spawn
<1>4. Threads' = Threads \cup {got[l]}
  BY <1>1, <1>2 DEF Threads, ConnsTyped
<1> DEFINE T == Threads \ late
<1>5. T \in SUBSET Conns /\ T \cup {got[l]} \in SUBSET Conns
  BY <1>2 DEF Threads
<1>6. Threads' \ late' \in SUBSET (T \cup {got[l]})
  BY <1>2, <1>4
<1>7. /\ IsFiniteSet(T) /\ Cardinality(T) \in Nat
      /\ Cardinality(Threads' \ late') \in Nat
      /\ Cardinality(Threads' \ late') <= Cardinality(T \cup {got[l]})
      /\ Cardinality(T \cup {got[l]}) \in Nat
  <2> HIDE DEF T
  <2> QED BY <1>5, <1>6, ServedCountable
<1>8. Cardinality(T \cup {got[l]}) <= Cardinality(T) + 1
  <2> HIDE DEF T
  <2>1. Cardinality(T \cup {got[l]}) =
          IF got[l] \in T THEN Cardinality(T) ELSE Cardinality(T) + 1
    BY <1>7, FS_AddElement
  <2> QED BY <1>7, <2>1
<1> QED BY <1>2, <1>3, <1>4, <1>7, <1>8 DEF Served

(* Who checks the limit has counted its thread, and nobody else counts one. *)
LEMMA AllCounted ==
  ASSUME OneListens, CountIsThreads, NEW l \in Listeners,
         pc[l] \in AcceptSteps \ {"count"}
  PROVE  threadCount = Cardinality(Threads)
<1>1. Counting = {}
  BY DEF OneListens, Counting, AcceptSteps
<1>2. Cardinality(Counting) = 0
  BY <1>1, FS_EmptySet
<1> QED BY <1>2, Countable DEF CountIsThreads, Counting

(* No connection is served yet.                                             *)
LEMMA LimitInit == Init => LimitTrue
<1> SUFFICES ASSUME Init PROVE LimitTrue
  OBVIOUS
<1>1. Threads \ late = {}
  BY DEF Init, Pool!Init, Threads
<1>2. Served = 0
  BY <1>1, FS_EmptySet DEF Served
<1>3. Room
  BY <1>2 DEF Room
<1> QED BY <1>2, <1>3 DEF LimitTrue

(* Who starts a thread leaves at most as many served as the limit allows.   *)
LEMMA LimitSpawn ==
  ASSUME Typed, OneListens, LimitTrue, NEW l \in Listeners, Spawn(l), Next,
         \A q \in Listeners : Moves(q)
  PROVE  LimitTrue'
<1>1. /\ Served \in Nat /\ Served' \in Nat /\ Served' <= Served + 1
      /\ pc[l] = "spawn" /\ pc'[l] = "count"
  BY ServesMore
<1>2. MaxConnections # 0 => Served' <= MaxConnections
  BY <1>1 DEF LimitTrue, Adding, Room
<1>3. ASSUME NEW k \in Listeners, pc'[k] \in Adding PROVE FALSE
  <2>1. pc[k] \in Adding \/ pc[k] = "accept"
    BY <1>3 DEF Moves, Accept
  <2>2. k = l
    BY <1>1, <2>1 DEF OneListens, AcceptSteps, Adding
  <2> QED BY <1>1, <1>3, <2>2 DEF Adding
<1>4. pc'[l] \in Full
  BY <1>1 DEF Full
<1> QED BY <1>2, <1>3, <1>4 DEF LimitTrue

(* Every step keeps the limit.                                              *)
LEMMA LimitNext == Typed /\ CountIsThreads /\ OneListens /\ LimitTrue /\ [Next]_vars => LimitTrue'
<1>1. ASSUME LimitTrue, UNCHANGED vars PROVE LimitTrue'
  BY <1>1 DEF vars, conVars, LimitTrue, Room, Served, Threads
<1>2. ASSUME Typed, OneListens, LimitTrue, NEW p \in Callers, StartAsync(p) PROVE LimitTrue'
  <2>1. UNCHANGED <<job, late, shuttingDown>>
    BY <1>2 DEF StartAsync, conVars
  <2>2. Served' = Served /\ Room' = Room
    BY <2>1 DEF Served, Room, Threads
  <2>3. \A k \in Listeners : (pc'[k] \in Adding => pc[k] \in Adding)
                             /\ (pc[k] \in Full => pc'[k] \in Full)
    BY <1>2, OneStarts DEF Adding, Full
  <2> QED BY <1>2, <2>1, <2>2, <2>3 DEF LimitTrue
<1>3. ASSUME Typed, CountIsThreads, OneListens, LimitTrue, Next,
             \A p \in Callers : ~StartAsync(p)
      PROVE  LimitTrue'
  <2>1. \A q \in Listeners : Moves(q)
    BY <1>3, AllMove DEF People
  <2>2. CASE \E l \in Listeners : Spawn(l)
    BY <1>3, <2>1, <2>2, LimitSpawn
  <2>3. CASE \A l \in Listeners : ~Spawn(l)
    <3>1. Threads' \subseteq Threads /\ late \subseteq late'
      BY <1>3, <2>3, Sharing DEF ClearReturns
    <3>2. /\ Served \in Nat /\ Served' \in Nat /\ Served' <= Served
          /\ Room => Room'
      BY <3>1, ServesLess
    <3>3. MaxConnections # 0 => Served' <= MaxConnections
      BY <1>3, <3>2 DEF LimitTrue
    <3>4. ASSUME NEW l \in Listeners, pc'[l] \in Adding PROVE Room'
      <4>1. CASE pc[l] \in Adding
        BY <1>3, <3>2, <4>1 DEF LimitTrue
      <4>2. CASE \E c \in Conns : Accept(l, c)
        <5>1. pc[l] = "accept" /\ ~shuttingDown
          BY <4>2 DEF Accept
        <5>2. \A k \in Listeners : pc[k] \notin Full
          BY <1>3, <5>1 DEF OneListens, AcceptSteps, Full
        <5> QED BY <1>3, <3>2, <5>1, <5>2 DEF LimitTrue
      <4> QED BY <2>1, <3>4, <4>1, <4>2 DEF Moves
    <3>5. shuttingDown' \/ Room' \/ \E l \in Listeners : pc'[l] \in Full
      <4>1. CASE \E p \in People : ClearReturns(p)
        <5>1. Threads' = Threads /\ late' = late \cup Threads
          BY <4>1 DEF ClearReturns, conVars, Threads
        <5>2. Threads' \ late' = {}
          BY <5>1
        <5>3. Served' = 0
          BY <5>2, FS_EmptySet DEF Served
        <5> QED BY <5>3 DEF Room
      <4>2. CASE ~\E p \in People : ClearReturns(p)
        <5>1. shuttingDown => shuttingDown'
          BY <1>3, <4>2, Sharing DEF SetShuttingDown, Typed, TypeOK, SharedTyped
        <5>2. ASSUME NEW l \in Listeners, pc[l] \in Full, ~shuttingDown, pc'[l] \notin Full
              PROVE  Room'
          <6>1. CheckLimit(l) \/ LimitWoken(l)
            BY <2>1, <5>2 DEF Moves
          <6>2. pc[l] \in {"limit", "limitWoken"} /\ ~AtLimit
            <7>1. Typed /\ l \in People
              BY <1>3 DEF People
            <7>2. CASE CheckLimit(l)
              <8>1. Goto(l, IF AtLimit THEN "limitWait" ELSE "accept") /\ pc[l] = "limit"
                BY <7>2 DEF CheckLimit
              <8>2. pc'[l] = IF AtLimit THEN "limitWait" ELSE "accept"
                BY <7>1, <8>1, GotoMoves DEF Typed, TypeOK
              <8> QED BY <5>2, <8>1, <8>2 DEF Full
            <7>3. CASE LimitWoken(l)
              <8>1. Goto(l, IF AtLimit THEN "limitWait" ELSE "accept") /\ pc[l] = "limitWoken"
                BY <5>2, <7>3 DEF LimitWoken
              <8>2. pc'[l] = IF AtLimit THEN "limitWait" ELSE "accept"
                BY <7>1, <8>1, GotoMoves DEF Typed, TypeOK
              <8> QED BY <5>2, <8>1, <8>2 DEF Full
            <7> QED BY <6>1, <7>2, <7>3
          <6>3. threadCount = Cardinality(Threads)
            BY <1>3, <6>2, AllCounted DEF AcceptSteps
          <6>4. Served <= Cardinality(Threads) /\ Cardinality(Threads) \in Nat
            <7>1. Threads \in SUBSET Conns /\ Threads \ late \in SUBSET Threads
              BY DEF Threads
            <7> QED BY <7>1, ServedCountable DEF Served
          <6>5. Room
            BY <3>2, <6>2, <6>3, <6>4 DEF Room, AtLimit
          <6> QED BY <3>2, <6>5
        <5> QED BY <1>3, <3>2, <5>1, <5>2 DEF LimitTrue
      <4> QED BY <4>1, <4>2
    <3> QED BY <3>3, <3>4, <3>5 DEF LimitTrue
  <2> QED BY <2>2, <2>3
<1> QED BY <1>1, <1>2, <1>3

(* No more connections are served at a time than max_connections, but for   *)
(* those of which a clear() has returned, however many threads start and    *)
(* clear the server, fail or wake up for no reason.                         *)
THEOREM KernelKeepsLimit == Spec => []LimitKept
<1>1. LimitTrue => LimitKept
  BY DEF LimitTrue, LimitKept, Served
<1> DEFINE Inv == Typed /\ CountIsThreads /\ OneListens /\ LimitTrue
<1>2. Init => Inv
  BY TypedInit, CountInit, OneListensInit, LimitInit
<1>3. Inv /\ [Next]_vars => Inv'
  BY TypedNext, CountNext, OneListensNext, LimitNext
<1>4. Inv => LimitKept
  BY <1>1
<1> QED BY <1>2, <1>3, <1>4, PTL DEF Spec

-----------------------------------------------------------------------------
(* What a clear() leaves, when one thread starts and clears the server.     *)
(* Having seen thread_count at 0 it can only have missed the thread the     *)
(* listener is starting; nothing else is accepted until it returns.         *)

LeavesOne ==
  /\ \A p \in Callers, l \in Listeners :
       pc[p] \in During /\ pc[l] \in AcceptSteps => shuttingDown
  /\ \A p \in Callers : pc[p] \in Past =>
       /\ Cardinality(Threads) <= 1
       /\ \A l \in Listeners : pc[l] \in Adding => Threads = {}
  /\ \A l \in Listeners : pc[l] \in Past => Threads = {}

(* Nothing is cleared yet.                                                  *)
LEMMA LeavesInit == Init => LeavesOne
<1> SUFFICES ASSUME Init PROVE LeavesOne
  OBVIOUS
<1>1. pc = [p \in Callers \cup Listeners |-> IF p \in Callers THEN "idle" ELSE "off"]
  BY DEF Init
<1>2. /\ \A p \in Callers : pc[p] = "idle"
      /\ \A l \in Listeners : pc[l] = "off"
  BY <1>1
<1> QED BY <1>2 DEF LeavesOne, During, Past, AcceptSteps

(* A listener that clears is not yet off: none after it accepts.            *)
LEMMA ClearsAlone ==
  ASSUME Typed, OneListens, NEW l \in Listeners, pc[l] \in ClearSteps,
         NEW k \in Listeners, pc[k] \in AcceptSteps
  PROVE  pc[k] = "open" /\ \E p \in Callers : starter = p /\ pc[p] = "joining"
<1>1. l # k /\ k = current /\ pc[l] # "off"
  BY DEF OneListens, ClearSteps, AcceptSteps
<1>2. starter # Nobody
  BY <1>1 DEF OneListens
<1> QED BY <1>1, <1>2 DEF OneListens, Typed, TypeOK, SharedTyped, StepsTyped

(* Every step keeps it so.                                                  *)
LEMMA LeavesNext ==
  ASSUME NEW main, Callers = {main}
  PROVE  Typed /\ CountIsThreads /\ OneListens /\ LeavesOne /\ [Next]_vars => LeavesOne'
<1>1. ASSUME LeavesOne, UNCHANGED vars PROVE LeavesOne'
  BY <1>1 DEF vars, conVars, LeavesOne, Threads
<1>2. ASSUME Typed, OneListens, LeavesOne, NEW p \in Callers, StartAsync(p) PROVE LeavesOne'
  <2>1. p = main /\ pc'[main] = "joining"
    BY <1>2, OneStarts
  <2>2. Threads' = Threads
    BY <1>2 DEF StartAsync, conVars, Threads
  <2>3. \A k \in Listeners : pc'[k] \in Past => pc[k] \in Past
    BY <1>2, OneStarts DEF Past
  <2> QED BY <1>2, <2>1, <2>2, <2>3 DEF LeavesOne, During, Past
<1>3. ASSUME Typed, CountIsThreads, OneListens, LeavesOne, Next,
             \A p \in Callers : ~StartAsync(p)
      PROVE  LeavesOne'
  <2>1. /\ \A q \in Listeners : Moves(q) /\ q \in People
        /\ Moves(main) /\ main \in People
    BY <1>3, AllMove DEF People
  <2>2. ASSUME NEW l \in Listeners, pc'[main] \in During, pc'[l] \in AcceptSteps
        PROVE  shuttingDown'
    <3>1. pc[l] \in AcceptSteps
      BY <2>1, <2>2 DEF Moves
    <3>2. CASE \E p \in People : SetShuttingDown(p)
      BY <3>2 DEF SetShuttingDown
    <3>3. ASSUME NEW p \in People, ClearReturns(p) PROVE FALSE
      <4>1. Goto(p, IF p \in Callers THEN "idle" ELSE "off") /\ pc[p] = "finish"
        BY <3>3 DEF ClearReturns
      <4>2. CASE p = main
        <5>1. pc'[main] = "idle"
          BY <1>3, <2>1, <4>1, <4>2, GotoMoves DEF Typed, TypeOK
        <5> QED BY <2>2, <5>1 DEF During, Past
      <4>3. CASE p \in Listeners
        <5>1. pc[main] = "joining"
          BY <1>3, <3>1, <4>1, <4>3, ClearsAlone DEF ClearSteps
        <5> QED BY <2>1, <2>2, <5>1 DEF Moves, SetShuttingDown, During, Past
      <4> QED BY <4>2, <4>3 DEF People
    <3>4. CASE shuttingDown' = shuttingDown /\ ~\E p \in People : SetShuttingDown(p)
      <4>1. pc[main] \in During
        BY <2>1, <2>2, <3>4 DEF Moves
      <4> QED BY <1>3, <3>1, <3>4, <4>1 DEF LeavesOne
    <3> QED BY <1>3, <3>2, <3>3, <3>4, Sharing
  <2>3. ASSUME NEW l \in Listeners, pc'[l] \in Past PROVE Threads' = {}
    <3>1. pc[l] \in ClearSteps
      BY <2>1, <2>3 DEF Moves, AwaitThreads, Past, ClearSteps
    <3>2. \A k \in Listeners : pc[k] \in AcceptSteps => pc[k] = "open"
      BY <1>3, <3>1, ClearsAlone
    <3>3. Threads' \subseteq Threads
      BY <1>3, <3>2, Sharing DEF Spawn, AcceptSteps
    <3>4. Threads = {}
      <4>1. CASE pc[l] \in Past
        BY <1>3, <4>1 DEF LeavesOne
      <4>2. CASE AwaitThreads(l) /\ pc[l] \notin Past
        <5>1. Goto(l, IF threadCount > 0 THEN "threadsWait" ELSE "listener")
          BY <4>2 DEF AwaitThreads
        <5>2. pc'[l] = IF threadCount > 0 THEN "threadsWait" ELSE "listener"
          BY <1>3, <2>1, <5>1, GotoMoves DEF Typed, TypeOK
        <5>3. threadCount <= 0
          BY <1>3, <2>3, <5>2 DEF Past, Typed, TypeOK, SharedTyped
        <5>4. Counting = {}
          BY <3>2 DEF Counting, AcceptSteps
        <5>5. Cardinality(Counting) = 0
          BY <5>4, FS_EmptySet
        <5>6. Cardinality(Threads) = 0
          BY <1>3, <5>3, <5>5, Countable DEF CountIsThreads, Counting
        <5> QED BY <5>6, Countable, FS_EmptySet
      <4> QED BY <2>1, <2>3, <4>1, <4>2 DEF Moves
    <3> QED BY <3>3, <3>4
  <2>4. ASSUME pc'[main] \in Past
        PROVE  /\ Cardinality(Threads') <= 1
               /\ \A l \in Listeners : pc'[l] \in Adding => Threads' = {}
    <3>1. CASE AwaitThreads(main) /\ pc[main] \notin Past
      <4>1. /\ Goto(main, IF threadCount > 0 THEN "threadsWait" ELSE "listener")
            /\ Threads' = Threads
        BY <3>1 DEF AwaitThreads, conVars, Threads
      <4>2. /\ pc'[main] = IF threadCount > 0 THEN "threadsWait" ELSE "listener"
            /\ \A q \in People \ {main} : Rests(q)
        BY <1>3, <2>1, <4>1, GotoMoves DEF Typed, TypeOK
      <4>3. threadCount <= 0 /\ threadCount \in Int
        BY <1>3, <2>4, <4>2 DEF Past, Typed, TypeOK, SharedTyped
      <4>4. Cardinality(Threads) <= Cardinality(Counting)
        BY <1>3, <4>3, Countable DEF CountIsThreads, Counting
      <4>5. Counting = {} \/ \E l : Counting = {l}
        BY <1>3 DEF Counting, OneListens, AcceptSteps
      <4>6. Cardinality(Counting) <= 1
        <5>1. Cardinality({}) = 0 /\ \A x : Cardinality({x}) = 1
          BY FS_EmptySet, FS_Singleton
        <5>2. Cardinality(Counting) \in {0, 1}
          BY <4>5, <5>1, Zenon
        <5> QED BY <5>2
      <4>7. ASSUME NEW l \in Listeners, pc'[l] \in Adding PROVE Threads' = {}
        <5>1. l # main /\ pc[l] \in Adding
          BY <2>1, <4>2, <4>7 DEF Rests, Adding
        <5>2. Counting = {}
          BY <1>3, <5>1 DEF Counting, OneListens, AcceptSteps, Adding
        <5>3. Cardinality(Counting) = 0
          BY <5>2, FS_EmptySet
        <5>4. Cardinality(Threads) = 0
          BY <4>4, <5>3, Countable
        <5> QED BY <4>1, <5>4, Countable, FS_EmptySet
      <4>8. Cardinality(Threads) <= 1
        BY <4>4, <4>6, Countable
      <4> QED BY <4>1, <4>7, <4>8
    <3>2. CASE pc[main] \in Past
      <4>1. /\ Cardinality(Threads) <= 1
            /\ \A l \in Listeners : pc[l] \in Adding => Threads = {}
            /\ \A l \in Listeners : pc[l] \in AcceptSteps => shuttingDown
        BY <1>3, <3>2 DEF LeavesOne, During
      <4>2. \A l \in Listeners : pc'[l] \in Adding => pc[l] \in Adding
        BY <2>1, <4>1 DEF Moves, Accept, AcceptSteps
      <4>3. ASSUME NEW l \in Listeners, Spawn(l)
            PROVE  /\ Cardinality(Threads') <= 1
                   /\ \A k \in Listeners : pc'[k] \notin Adding
        <5>1. Threads' = Threads \cup {got[l]} /\ pc[l] = "spawn" /\ pc'[l] = "count"
          BY <1>3, <4>3, ServesMore
        <5>2. Threads' = {got[l]}
          BY <4>1, <5>1 DEF Adding
        <5>3. \A x : Cardinality({x}) = 1
          BY FS_Singleton
        <5>4. Cardinality(Threads') = 1
          BY <5>2, <5>3
        <5>5. \A k \in Listeners : pc[k] \in Adding => k = l
          BY <1>3, <5>1 DEF OneListens, AcceptSteps, Adding
        <5> QED BY <4>2, <5>1, <5>4, <5>5 DEF Adding
      <4>4. CASE Threads' \subseteq Threads
        <5>1. Threads \in SUBSET Conns /\ Threads' \in SUBSET Threads
          BY <4>4 DEF Threads
        <5>2. /\ Cardinality(Threads') <= Cardinality(Threads)
              /\ Cardinality(Threads') \in Nat /\ Cardinality(Threads) \in Nat
          BY <5>1, ServedCountable
        <5>3. Cardinality(Threads') <= 1
          BY <4>1, <5>2
        <5> QED BY <4>1, <4>2, <4>4, <5>3
      <4> QED BY <1>3, <4>3, <4>4, Sharing
    <3> QED BY <2>1, <2>4, <3>1, <3>2 DEF Moves
  <2> QED BY <2>2, <2>3, <2>4 DEF LeavesOne
<1> QED BY <1>1, <1>2, <1>3

(* When one thread starts and clears the server, as in paint_server, a      *)
(* clear() returns with one connection thread left at most, whoever else -  *)
(* a listener that failed - clears it at the same time.                     *)
THEOREM ClearLeavesOne ==
  ASSUME NEW main, Callers = {main}
  PROVE  Spec => ClearLeavesAtMostOne
<1> DEFINE Inv == Typed /\ CountIsThreads /\ OneListens /\ LeavesOne
<1>1. Init => Inv
  BY TypedInit, CountInit, OneListensInit, LeavesInit
<1>2. Inv /\ [Next]_vars => Inv'
  BY TypedNext, CountNext, OneListensNext, LeavesNext
<1>3. ASSUME Inv, [Next]_vars PROVE Cardinality(late' \ late) <= 1
  <2>1. CASE \E p \in People : ClearReturns(p)
    <3>1. PICK p \in People : pc[p] = "finish" /\ late' = late \cup Threads
      BY <2>1 DEF ClearReturns
    <3>2. Cardinality(Threads) <= 1
      <4>1. CASE p = main
        BY <1>3, <3>1, <4>1 DEF LeavesOne, Past
      <4>2. CASE p \in Listeners
        <5>1. Threads = {}
          BY <1>3, <3>1, <4>2 DEF LeavesOne, Past
        <5>2. Cardinality(Threads) = 0
          BY <5>1, FS_EmptySet
        <5> QED BY <5>2
      <4> QED BY <4>1, <4>2 DEF People
    <3>3. Threads \in SUBSET Conns /\ late' \ late \in SUBSET Threads
      BY <3>1 DEF Threads
    <3>4. /\ Cardinality(late' \ late) <= Cardinality(Threads)
          /\ Cardinality(late' \ late) \in Nat /\ Cardinality(Threads) \in Nat
      BY <3>3, ServedCountable
    <3> QED BY <3>2, <3>4
  <2>2. CASE late' = late
    <3>1. late' \ late = {}
      BY <2>2
    <3>2. Cardinality(late' \ late) = 0
      BY <3>1, FS_EmptySet
    <3> QED BY <3>2
  <2>3. Next \/ UNCHANGED vars
    BY <1>3
  <2> QED BY <1>3, <2>1, <2>2, <2>3, Sharing DEF vars
<1>4. Inv /\ [Next]_vars => [Cardinality(late' \ late) <= 1]_vars
  BY <1>3
<1> QED BY <1>1, <1>2, <1>4, PTL DEF Spec, ClearLeavesAtMostOne
=============================================================================
