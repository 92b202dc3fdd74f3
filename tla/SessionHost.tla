---------------------------- MODULE SessionHost ----------------------------
(***************************************************************************)
(* The session store of the paint server (Session.cxx, Session.hxx): for   *)
(* every session name the batches of drawing commands posted so far        *)
(* (data) and the time it was last kept alive (timestamp), both guarded by *)
(* one timed mutex (locky_thingy), and the cron thread that deletes the    *)
(* sessions nobody keeps alive.                                            *)
(*                                                                         *)
(* A connection thread runs one call at a time.  A call is one or two      *)
(* critical sections: "stamp" is the body of keepAlive, "push", "range",   *)
(* "at" and "depth" are those of dequeue, the two getQueue and             *)
(* getQueueDepth.  The code polls the mutex with try_lock_for until it     *)
(* gets it, so that waiting has no other outcome than Acquire.             *)
(***************************************************************************)
EXTENDS Integers, Sequences, FiniteSets, Functions

CONSTANTS
  Sessions,         \* the names clients use
  Texts,            \* the batches that are not empty
  NoText,           \* the empty string: an empty batch, or the reply ""
  Threads,          \* the connection threads that call the store
  Cron,             \* the cron thread
  None,             \* no thread; no call
  SessionTimeout,   \* SESSION_TIMEOUT
  ClockModulus,     \* 2^64: the expiry test is unsigned arithmetic
  Operations,       \* the operations the callers use
  Indices,          \* the indices the callers ask for
  Faults,           \* what may go wrong inside a critical section
  ClockMayStepBack, \* may system_clock be set back while the server runs?
  MaxClock,         \* bound: the last instant modelled
  MaxArrival,       \* bound: the first instant at which no call begins any more
  MaxDepth          \* bound: batches in a session when one more is posted

AllOperations == {"dequeue", "keepAlive", "getRange", "getAt", "getDepth"}

\* "badAlloc": an allocation throws.  "signal": a signal comes, to end the
\* process.  The others are what reading one past the end of a vector
\* (undefined behaviour) comes to: some string, an exception thrown by
\* copying the garbage, a segmentation fault.
AllFaults == {"badAlloc", "pastEndGarbage", "pastEndThrow", "pastEndCrash", "signal"}

ASSUME SessionHostAssumption ==
  /\ NoText \notin Texts
  /\ Cron \notin Threads /\ None \notin Threads /\ None # Cron
  /\ SessionTimeout \in Nat /\ MaxArrival \in Nat
  /\ MaxClock \in Nat /\ ClockModulus \in Nat /\ MaxClock < ClockModulus
  /\ MaxDepth \in Nat
  /\ Operations \subseteq AllOperations
  /\ Indices \subseteq Nat /\ 0 \in Indices
  /\ Faults \subseteq AllFaults
  /\ "getAt" \in Operations =>
       Faults \cap {"pastEndGarbage", "pastEndThrow", "pastEndCrash"} # {}
  /\ ClockMayStepBack \in BOOLEAN

VARIABLES
  now,        \* system_clock, in the unit of SessionTimeout
  alive,      \* the process runs
  owner,      \* the thread that holds locky_thingy
  data,       \* session name -> its batches, in the order they were pushed
  timestamp,  \* session name -> when it was last kept alive
  call,       \* what each thread was asked to do
  phase,      \* where each thread is in its call
  section,    \* the critical section it is at
  result,     \* what it is about to return
  cronPhase,  \* where the cron thread is in its loop
  toScan,     \* the entries of timestamp it has yet to look at
  del         \* the sessions it found expired and has yet to erase

clock == <<now, alive>>
store == <<data, timestamp>>
callers == <<call, phase, section, result>>
cronVars == <<cronPhase, toScan, del>>
vars == <<clock, owner, store, callers, cronVars>>

Anything == Texts \cup {NoText}

\* A call: sess, and the queue or the index where the operation takes one.
Calls ==
  {c \in [op : Operations, ses : Sessions, text : Anything, index : Indices] :
     /\ c.op # "dequeue" => c.text = NoText
     /\ c.op \notin {"getRange", "getAt"} => c.index = 0}

Phases == {"idle", "wait", "inside", "returned", "thrown"}
Sections == {"stamp", "push", "range", "at", "depth"}
FirstSection == [dequeue |-> "stamp", keepAlive |-> "stamp",
                 getRange |-> "range", getAt |-> "at", getDepth |-> "depth"]

(***************************************************************************)
(* The containers.  operator[] of an (unordered_)map creates the entry it  *)
(* does not find: Batches is what data[s] evaluates to, Touched the map    *)
(* after it was evaluated.                                                 *)
(***************************************************************************)
Batches(s) == IF s \in DOMAIN data THEN data[s] ELSE << >>
Assigned(m, s, v) == [k \in DOMAIN m \cup {s} |-> IF k = s THEN v ELSE m[k]]
Touched(s) == Assigned(data, s, Batches(s))
Erased(m, s) == Restrict(m, DOMAIN m \ {s})

\* Mutant: expired when the timeout is reached, not when it has passed.
ExpiredEarly(s) == (now - timestamp[s]) % ClockModulus >= SessionTimeout

\* curtm - curval > SESSION_TIMEOUT, all of it in u_int64_t
Expired(s) == (now - timestamp[s]) % ClockModulus > SessionTimeout

-----------------------------------------------------------------------------
(* A caller: process_request calls the store from a connection thread.     *)

Invoke(t) ==
  /\ alive /\ phase[t] = "idle" /\ now < MaxArrival
  /\ \E c \in Calls :
       /\ c.op = "dequeue" => Len(Batches(c.ses)) < MaxDepth
       /\ call' = [call EXCEPT ![t] = c]
       /\ section' = [section EXCEPT ![t] = FirstSection[c.op]]
  /\ phase' = [phase EXCEPT ![t] = "wait"]
  /\ UNCHANGED <<clock, owner, store, result, cronVars>>

\* Mutant: one try_lock_for whose result is ignored, as RAMFS.cxx:51 does it.
AcquireAnyway(t) ==
  /\ alive /\ phase[t] = "wait"
  /\ owner' = t
  /\ phase' = [phase EXCEPT ![t] = "inside"]
  /\ UNCHANGED <<clock, store, call, section, result, cronVars>>

\* while(!locky_thingy.try_lock_for(...)) {}
Acquire(t) ==
  /\ alive /\ phase[t] = "wait"
  /\ owner = None
  /\ owner' = t
  /\ phase' = [phase EXCEPT ![t] = "inside"]
  /\ UNCHANGED <<clock, store, call, section, result, cronVars>>

InSection(t, x) == alive /\ phase[t] = "inside" /\ section[t] = x

\* locky_thingy.unlock(), then return r
UnlockAndReturn(t, r) ==
  /\ owner' = None
  /\ phase' = [phase EXCEPT ![t] = "returned"]
  /\ result' = [result EXCEPT ![t] = r]
  /\ UNCHANGED section

\* Mutant: dequeue does not return early on an empty batch.
StampAndPush(t) ==
  /\ InSection(t, "stamp")
  /\ timestamp' = Assigned(timestamp, call[t].ses, now)
  /\ owner' = None
  /\ phase' = [phase EXCEPT ![t] = "wait"]
  /\ section' = [section EXCEPT ![t] = "push"]
  /\ UNCHANGED <<clock, data, call, result, cronVars>>

\* keepAlive, alone or as the first thing dequeue does; dequeue goes on to
\* wait for the mutex again unless the batch is empty.
Stamp(t) ==
  /\ InSection(t, "stamp")
  /\ timestamp' = Assigned(timestamp, call[t].ses, now)
  /\ \/ /\ call[t].text = NoText
        /\ UnlockAndReturn(t, NoText)
     \/ /\ call[t].text # NoText
        /\ owner' = None
        /\ phase' = [phase EXCEPT ![t] = "wait"]
        /\ section' = [section EXCEPT ![t] = "push"]
        /\ UNCHANGED result
  /\ UNCHANGED <<clock, data, call, cronVars>>

\* Mutant: the batch replaces the session's batches.
PushOnly(t) ==
  /\ InSection(t, "push")
  /\ data' = Assigned(data, call[t].ses, <<call[t].text>>)
  /\ UnlockAndReturn(t, NoText)
  /\ UNCHANGED <<clock, timestamp, call, cronVars>>

Push(t) ==
  /\ InSection(t, "push")
  /\ data' = Assigned(data, call[t].ses,
                      Append(Batches(call[t].ses), call[t].text))
  /\ UnlockAndReturn(t, NoText)
  /\ UNCHANGED <<clock, timestamp, call, cronVars>>

\* The three reads evaluate data[sess] and so create the session's entry.
Read(t, x, r) ==
  /\ InSection(t, x)
  /\ data' = Touched(call[t].ses)
  /\ UnlockAndReturn(t, r)
  /\ UNCHANGED <<clock, timestamp, call, cronVars>>

\* getQueue(sess, index): every batch from index on, concatenated
GetRange(t) ==
  Read(t, "range", SubSeq(Batches(call[t].ses), call[t].index + 1,
                          Len(Batches(call[t].ses))))

GetDepth(t) == Read(t, "depth", Len(Batches(call[t].ses)))

\* getQueue(sess, indl, x): the guard is indl > size(), so that indl =
\* size() reads the element past the end.
GetAt(t) ==
  LET b == Batches(call[t].ses)
      i == call[t].index
  IN  /\ InSection(t, "at")
      /\ \/ i > Len(b) /\ Read(t, "at", NoText)
         \/ i < Len(b) /\ Read(t, "at", b[i + 1])
         \/ /\ i = Len(b) /\ "pastEndGarbage" \in Faults
            /\ \E r \in Anything : Read(t, "at", r)

\* The caller gets the result, or the exception propagates out of the call.
Return(t) ==
  /\ alive /\ phase[t] \in {"returned", "thrown"}
  /\ phase' = [phase EXCEPT ![t] = "idle"]
  /\ call' = [call EXCEPT ![t] = None]
  /\ result' = [result EXCEPT ![t] = NoText]
  /\ UNCHANGED <<clock, owner, store, section, cronVars>>

-----------------------------------------------------------------------------
(* Failures inside a critical section.  The mutex is locked and unlocked by *)
(* plain calls: an exception on the way leaves it locked.                   *)

ThrowInside(t) ==
  /\ alive /\ phase[t] = "inside"
  /\ phase' = [phase EXCEPT ![t] = "thrown"]
  /\ UNCHANGED <<clock, owner, timestamp, call, section, result, cronVars>>

ReadsPastEnd(t) ==
  InSection(t, "at") /\ call[t].index = Len(Batches(call[t].ses))

BadAlloc(t) ==
  /\ "badAlloc" \in Faults
  /\ ThrowInside(t)
  /\ \/ UNCHANGED data
     \/ section[t] # "stamp" /\ data' = Touched(call[t].ses)

PastEndThrow(t) ==
  /\ "pastEndThrow" \in Faults
  /\ ReadsPastEnd(t)
  /\ ThrowInside(t) /\ data' = Touched(call[t].ses)

\* getQueue(sess, index) builds its reply after it has unlocked the mutex.
ReplyBadAlloc(t) ==
  /\ "badAlloc" \in Faults
  /\ InSection(t, "range")
  /\ owner' = None
  /\ phase' = [phase EXCEPT ![t] = "thrown"]
  /\ data' = Touched(call[t].ses)
  /\ UNCHANGED <<clock, timestamp, call, section, result, cronVars>>

Crash ==
  /\ alive /\ alive' = FALSE
  /\ UNCHANGED <<now, owner, store, callers, cronVars>>

\* Whatever the threads do, a signal may end the process: its handler
\* (main.cpp) exits.  The other two get there by their faults.
Signal == "signal" \in Faults /\ Crash
PastEndCrash(t) ==
  "pastEndCrash" \in Faults /\ ReadsPastEnd(t) /\ Crash
CronBadAlloc ==
  "badAlloc" \in Faults /\ cronPhase = "scan" /\ toScan # {} /\ Crash

-----------------------------------------------------------------------------
(* The cron thread.                                                         *)

CronWake ==
  /\ alive /\ cronPhase = "sleep"
  /\ cronPhase' = "wait"
  /\ UNCHANGED <<clock, owner, store, callers, toScan, del>>

CronLock ==
  /\ alive /\ cronPhase = "wait"
  /\ owner = None
  /\ owner' = Cron
  /\ cronPhase' = "scan"
  /\ toScan' = DOMAIN timestamp
  /\ del' = {}
  /\ UNCHANGED <<clock, store, callers>>

CronScan(s) ==
  /\ alive /\ cronPhase = "scan" /\ s \in toScan
  /\ toScan' = toScan \ {s}
  /\ del' = IF Expired(s) THEN del \cup {s} ELSE del
  /\ UNCHANGED <<clock, owner, store, callers, cronPhase>>

\* Mutant: the mutex is given up between the two loops.
CronScannedUnlocks ==
  /\ alive /\ cronPhase = "scan" /\ toScan = {}
  /\ cronPhase' = "erase"
  /\ owner' = None
  /\ UNCHANGED <<clock, store, callers, toScan, del>>

CronScanned ==
  /\ alive /\ cronPhase = "scan" /\ toScan = {}
  /\ cronPhase' = "erase"
  /\ UNCHANGED <<clock, owner, store, callers, toScan, del>>

\* Mutant: only the batches are erased.
CronEraseData(s) ==
  /\ alive /\ cronPhase = "erase" /\ s \in del
  /\ data' = Erased(data, s)
  /\ del' = del \ {s}
  /\ UNCHANGED <<clock, owner, timestamp, callers, cronPhase, toScan>>

CronErase(s) ==
  /\ alive /\ cronPhase = "erase" /\ s \in del
  /\ timestamp' = Erased(timestamp, s)
  /\ data' = Erased(data, s)
  /\ del' = del \ {s}
  /\ UNCHANGED <<clock, owner, callers, cronPhase, toScan>>

\* Mutant: the loop goes round without unlocking.
CronKeepsLock ==
  /\ alive /\ cronPhase = "erase" /\ del = {}
  /\ cronPhase' = "scan"
  /\ toScan' = DOMAIN timestamp
  /\ UNCHANGED <<clock, owner, store, callers, del>>

CronUnlock ==
  /\ alive /\ cronPhase = "erase" /\ del = {}
  /\ owner' = None
  /\ cronPhase' = "sleep"
  /\ UNCHANGED <<clock, store, callers, toScan, del>>

CronStep ==
  \/ CronLock \/ CronScanned \/ CronUnlock
  \/ \E s \in Sessions : CronScan(s) \/ CronErase(s)

-----------------------------------------------------------------------------
(* The clock.  From MaxArrival on it moves only while nobody is in a call,  *)
(* so that every stamp has its timeout before MaxClock.                     *)

Tick ==
  /\ now < MaxClock
  /\ now < MaxArrival \/ \A t \in Threads : phase[t] = "idle"
  /\ now' = now + 1
  /\ UNCHANGED <<alive, owner, store, callers, cronVars>>

ClockStepBack ==
  /\ ClockMayStepBack
  /\ now' \in 0 .. (now - 1)
  /\ UNCHANGED <<alive, owner, store, callers, cronVars>>

-----------------------------------------------------------------------------
Init ==
  /\ now = 0 /\ alive = TRUE /\ owner = None
  /\ data = [s \in {} |-> << >>]
  /\ timestamp = [s \in {} |-> 0]
  /\ call = [t \in Threads |-> None]
  /\ phase = [t \in Threads |-> "idle"]
  /\ section = [t \in Threads |-> "stamp"]
  /\ result = [t \in Threads |-> NoText]
  /\ cronPhase = "sleep" /\ toScan = {} /\ del = {}

Body(t) == Stamp(t) \/ Push(t) \/ GetRange(t) \/ GetAt(t) \/ GetDepth(t)
Fault(t) ==
  BadAlloc(t) \/ PastEndThrow(t) \/ ReplyBadAlloc(t) \/ PastEndCrash(t)

Next ==
  \/ \E t \in Threads :
       Invoke(t) \/ Acquire(t) \/ Body(t) \/ Return(t) \/ Fault(t)
  \/ CronWake \/ CronStep \/ CronBadAlloc \/ Signal
  \/ Tick \/ ClockStepBack

Spec == Init /\ [][Next]_vars

(***************************************************************************)
(* Scheduling.  A running thread keeps running; the mutex promises no      *)
(* order, but a thread that polls it for ever while it is free again and   *)
(* again gets it in the end, and so does cron; time goes on.               *)
(***************************************************************************)
Fairness ==
  /\ \A t \in Threads :
       /\ SF_vars(Acquire(t))
       /\ WF_vars(Body(t)) /\ WF_vars(Return(t))
  /\ WF_vars(CronWake) /\ SF_vars(CronLock) /\ WF_vars(CronStep)
  /\ SF_vars(Tick)

FairSpec == Spec /\ Fairness

-----------------------------------------------------------------------------
(* Every variable keeps to its type; a thread that is in a call has one and  *)
(* waits for, or is in, a critical section of that call.                     *)
TypeOK ==
  /\ now \in 0 .. MaxClock /\ alive \in BOOLEAN
  /\ owner \in Threads \cup {Cron, None}
  /\ DOMAIN data \subseteq Sessions /\ data \in [DOMAIN data -> Seq(Texts)]
  /\ DOMAIN timestamp \subseteq Sessions
  /\ timestamp \in [DOMAIN timestamp -> 0 .. MaxClock]
  /\ phase \in [Threads -> Phases] /\ section \in [Threads -> Sections]
  /\ call \in [Threads -> Calls \cup {None}]
  /\ \A t \in Threads :
       /\ phase[t] # "idle" => call[t] \in Calls
       /\ phase[t] \in {"wait", "inside"} =>
            \/ section[t] = FirstSection[call[t].op]
            \/ section[t] = "push" /\ call[t].text \in Texts
  /\ result \in [Threads -> Anything \cup Nat \cup Seq(Texts)]
  /\ cronPhase \in {"sleep", "wait", "scan", "erase"}
  /\ toScan \subseteq Sessions /\ del \subseteq Sessions

(* The timed mutex serialises every access to the two maps (the lock loops  *)
(* of Session.cxx:27, 36, 61, 77, 93, 150): whoever runs a critical section *)
(* holds it, so no two threads, nor a thread and cron, run one at a time.   *)
MutualExclusion ==
  /\ \A t \in Threads : phase[t] = "inside" => owner = t
  /\ cronPhase \in {"scan", "erase"} <=> owner = Cron

ErasesOnlyExpired ==
  \A s \in DOMAIN data :
    \/ /\ s \in DOMAIN data'
       /\ SubSeq(data'[s], 1, Len(data[s])) = data[s]
    \/ s \in DOMAIN timestamp /\ now - timestamp[s] > SessionTimeout

(* No step takes a batch away from a session unless its last keep-alive is  *)
(* older than the timeout at that very step (Session.cxx:117-137): cron     *)
(* finds the expired sessions in one loop and erases them in another.       *)
NoLiveErase == [][ErasesOnlyExpired]_vars

(* What cron found expired stays so until it has erased it, and what it has *)
(* yet to look at stays in the map (Session.cxx:93-144): nothing is stamped *)
(* between its two loops.  Holds while the clock is not set back.           *)
CronFindingsStand ==
  /\ \A s \in DOMAIN timestamp : timestamp[s] <= now
  /\ cronPhase = "scan" => toScan \subseteq DOMAIN timestamp
  /\ cronPhase \in {"scan", "erase"} =>
       \A s \in del :
         s \in DOMAIN timestamp /\ now - timestamp[s] > SessionTimeout

(* A call on the store returns: nobody polls the mutex for ever.            *)
(* definitions.hxx:4-5 on MUTEX_TIMEOUT: "Stuck threads bothering you? Set  *)
(* this timeout wisely and then the mutex will expire after X number of     *)
(* milliseconds".                                                           *)
CallsReturn ==
  \A t \in Threads : phase[t] # "idle" ~> phase[t] = "idle" \/ ~alive

(* A session that was kept alive is deleted once its presenter stops        *)
(* (Session.cxx:83-146).                                                    *)
StampedSessionsGo ==
  \A s \in Sessions : s \in DOMAIN timestamp ~> s \notin DOMAIN timestamp

(* definitions.hxx:8 on SESSION_TIMEOUT: "How long a session should last    *)
(* before deletion.  60 seconds is good."  Once nobody calls any more, no   *)
(* session is left in the store.                                            *)
UnusedSessionsGo == <>[](DOMAIN data = {})

-----------------------------------------------------------------------------
(* The store implements Board: a session without an entry has an empty log, *)
(* a call is pending while it waits for the mutex or holds it, and takes    *)
(* effect in its last critical section.                                     *)
StatusOf == [idle |-> "idle", wait |-> "pending", inside |-> "pending",
             returned |-> "answered", thrown |-> "failed"]

ABoard == INSTANCE Board WITH
  up <- alive,
  log <- [s \in Sessions |-> Batches(s)],
  status <- [t \in Threads |-> StatusOf[phase[t]]],
  answer <- result

(* Every behaviour of the store, locks, sections, faults and cron included, *)
(* is one of Board: no batch lost, doubled or reordered by the two maps,    *)
(* the two-section dequeue or a call that fails (Session.cxx:18-81).        *)
ImplementsBoard == ABoard!Spec
=============================================================================
