------------------------- MODULE SessionHostProofs -------------------------
(***************************************************************************)
(* Theorems about SessionHost, for any sessions, batches, threads, faults  *)
(* and bounds; the last is that SessionHost implements Board.              *)
(***************************************************************************)
EXTENDS SessionHost, TLAPS

USE SessionHostAssumption

(* What data[s] evaluates to is a sequence of batches.                      *)
LEMMA BatchesType ==
  ASSUME data \in [DOMAIN data -> Seq(Texts)], NEW s
  PROVE  Batches(s) \in Seq(Texts)
  BY DEF Batches

(* Evaluating data[s] keeps the type of data and every session's batches.   *)
LEMMA TouchedType ==
  ASSUME data \in [DOMAIN data -> Seq(Texts)], NEW s
  PROVE  /\ DOMAIN Touched(s) = DOMAIN data \cup {s}
         /\ Touched(s) \in [DOMAIN data \cup {s} -> Seq(Texts)]
         /\ \A k \in DOMAIN data : Touched(s)[k] = data[k]
         /\ Touched(s)[s] = Batches(s)
<1>1. Batches(s) \in Seq(Texts)
  BY BatchesType
<1>2. /\ DOMAIN Touched(s) = DOMAIN data \cup {s}
      /\ Touched(s) \in [DOMAIN data \cup {s} -> Seq(Texts)]
      /\ Touched(s)[s] = Batches(s)
      /\ \A k \in DOMAIN data : k # s => Touched(s)[k] = data[k]
  BY <1>1 DEF Touched, Assigned
<1> QED BY <1>2 DEF Batches

(* What the fields of a call are, and that no call begins with its push.    *)
LEMMA CallType ==
  ASSUME NEW c \in Calls
  PROVE  /\ c.op \in Operations /\ c.ses \in Sessions
         /\ c.text \in Anything /\ c.index \in Indices
         /\ c.op # "dequeue" => c.text = NoText
         /\ FirstSection[c.op] \in Sections \ {"push"}
<1>1. /\ c.op \in Operations /\ c.ses \in Sessions
      /\ c.text \in Anything /\ c.index \in Indices
      /\ c.op # "dequeue" => c.text = NoText
  BY DEF Calls
<1>2. c.op \in AllOperations
  BY <1>1
<1>3. FirstSection[c.op] \in Sections \ {"push"}
  BY <1>2 DEF FirstSection, Sections, AllOperations
<1> QED BY <1>1, <1>3

-----------------------------------------------------------------------------
(* The variables keep to their types (TypeOK), whatever goes wrong.         *)
LEMMA TypeOKInit == Init => TypeOK
  BY DEF Init, TypeOK, Phases, Sections, Anything

(* Only dequeue, and only with a batch that is not empty, gets to push.      *)
LEMMA PushesText ==
  ASSUME TypeOK, NEW t \in Threads, phase[t] \in {"wait", "inside"},
         section[t] = "push"
  PROVE  call[t] \in Calls /\ call[t].text \in Texts /\ call[t].op = "dequeue"
<1>1. call[t] \in Calls
  BY DEF TypeOK
<1>2. FirstSection[call[t].op] # "push"
  BY <1>1, CallType
<1>3. call[t].text \in Texts
  BY <1>2 DEF TypeOK
<1> QED BY <1>1, <1>3, CallType

(* A critical section that reads, and may touch an entry, keeps the types.  *)
LEMMA TypeOKReads ==
  ASSUME TypeOK, NEW t \in Threads, NEW x, NEW r \in Anything \cup Nat \cup Seq(Texts),
         Read(t, x, r)
  PROVE  TypeOK'
<1>1. call[t] \in Calls
  BY DEF Read, InSection, TypeOK
<1>2. call[t].ses \in Sessions
  BY <1>1, CallType
<1>3. /\ DOMAIN data' \subseteq Sessions
      /\ data' \in [DOMAIN data' -> Seq(Texts)]
  <2>1. /\ DOMAIN Touched(call[t].ses) = DOMAIN data \cup {call[t].ses}
        /\ Touched(call[t].ses) \in [DOMAIN data \cup {call[t].ses} -> Seq(Texts)]
    BY TouchedType DEF TypeOK
  <2> QED BY <2>1, <1>2 DEF Read, TypeOK
<1> QED
  BY <1>3 DEF TypeOK, Read, InSection, UnlockAndReturn, clock, cronVars, Phases

(* TypeOK is inductive as it stands.                                        *)
LEMMA TypeOKStep == TypeOK /\ [Next]_vars => TypeOK'
<1> SUFFICES ASSUME TypeOK, [Next]_vars PROVE TypeOK'
  OBVIOUS
<1>1. ASSUME NEW t \in Threads, Invoke(t) PROVE TypeOK'
  <2>1. PICK c \in Calls : /\ call' = [call EXCEPT ![t] = c]
                           /\ section' = [section EXCEPT ![t] = FirstSection[c.op]]
    BY <1>1 DEF Invoke
  <2>2. FirstSection[c.op] \in Sections \ {"push"}
    BY <2>1, CallType
  <2> QED
    BY <1>1, <2>1, <2>2 DEF TypeOK, Invoke, clock, store, cronVars, Phases
<1>2. ASSUME NEW t \in Threads, Acquire(t) PROVE TypeOK'
  BY <1>2 DEF TypeOK, Acquire, clock, store, cronVars, Phases
<1>3. ASSUME NEW t \in Threads, Stamp(t) PROVE TypeOK'
  <2>1. call[t] \in Calls
    BY <1>3 DEF Stamp, InSection, TypeOK
  <2>2. call[t].ses \in Sessions /\ call[t].text \in Anything
    BY <2>1, CallType
  <2>3. /\ DOMAIN timestamp' \subseteq Sessions
        /\ timestamp' \in [DOMAIN timestamp' -> 0 .. MaxClock]
    <3>1. /\ DOMAIN Assigned(timestamp, call[t].ses, now) = DOMAIN timestamp \cup {call[t].ses}
          /\ Assigned(timestamp, call[t].ses, now)
               \in [DOMAIN timestamp \cup {call[t].ses} -> 0 .. MaxClock]
      BY DEF TypeOK, Assigned
    <3> QED BY <3>1, <2>2, <1>3 DEF Stamp, TypeOK
  <2>4. CASE call[t].text = NoText
    BY <1>3, <2>3, <2>4 DEF TypeOK, Stamp, InSection, UnlockAndReturn, clock,
                            cronVars, Phases, Sections, Anything
  <2>5. CASE call[t].text # NoText
    BY <1>3, <2>2, <2>3, <2>5 DEF TypeOK, Stamp, InSection, clock, cronVars,
                                  Phases, Sections, Anything
  <2> QED BY <2>4, <2>5
<1>4. ASSUME NEW t \in Threads, Push(t) PROVE TypeOK'
  <2> DEFINE s == call[t].ses
             b == Append(Batches(s), call[t].text)
  <2>1. call[t] \in Calls /\ call[t].text \in Texts
    BY <1>4, PushesText DEF Push, InSection
  <2>2. s \in Sessions
    BY <2>1, CallType
  <2>3. b \in Seq(Texts)
    BY <2>1, BatchesType DEF TypeOK
  <2>4. /\ DOMAIN Assigned(data, s, b) = DOMAIN data \cup {s}
        /\ Assigned(data, s, b) \in [DOMAIN data \cup {s} -> Seq(Texts)]
    BY <2>3 DEF TypeOK, Assigned
  <2>5. /\ DOMAIN data' \subseteq Sessions
        /\ data' \in [DOMAIN data' -> Seq(Texts)]
    BY <1>4, <2>2, <2>4 DEF Push, TypeOK
  <2> QED
    BY <1>4, <2>5 DEF TypeOK, Push, InSection, UnlockAndReturn, clock, cronVars,
                      Phases, Anything
<1>5. ASSUME NEW t \in Threads, GetRange(t) PROVE TypeOK'
  <2> DEFINE b == Batches(call[t].ses)
             r == SubSeq(b, call[t].index + 1, Len(b))
  <2>1. call[t] \in Calls
    BY <1>5 DEF GetRange, Read, InSection, TypeOK
  <2>2. b \in Seq(Texts) /\ call[t].index \in Nat
    BY <2>1, CallType, BatchesType DEF TypeOK
  <2>3. r \in Seq(Texts)
    BY <2>2
  <2> QED BY <1>5, <2>3, TypeOKReads DEF GetRange
<1>6. ASSUME NEW t \in Threads, GetDepth(t) PROVE TypeOK'
  <2>1. Len(Batches(call[t].ses)) \in Nat
    BY BatchesType DEF TypeOK
  <2> QED BY <1>6, <2>1, TypeOKReads DEF GetDepth
<1>7. ASSUME NEW t \in Threads, GetAt(t) PROVE TypeOK'
  <2> DEFINE b == Batches(call[t].ses)
             i == call[t].index
  <2>1. call[t] \in Calls
    BY <1>7 DEF GetAt, InSection, TypeOK
  <2>2. b \in Seq(Texts) /\ i \in Nat
    BY <2>1, CallType, BatchesType DEF TypeOK
  <2>3. PICK r \in Anything : Read(t, "at", r)
    <3>1. i < Len(b) => b[i + 1] \in Anything
      BY <2>2 DEF Anything
    <3>2. NoText \in Anything
      BY DEF Anything
    <3> QED BY <1>7, <3>1, <3>2 DEF GetAt
  <2> QED BY <2>3, TypeOKReads
<1>8. ASSUME NEW t \in Threads, Return(t) PROVE TypeOK'
  BY <1>8 DEF TypeOK, Return, clock, store, cronVars, Phases, Anything
<1>9. ASSUME NEW t \in Threads, Fault(t) PROVE TypeOK'
  <2>1. CASE PastEndCrash(t)
    BY <2>1 DEF PastEndCrash, Crash, TypeOK, store, callers, cronVars
  <2>2. CASE ~PastEndCrash(t)
    <3>1. /\ phase[t] = "inside" /\ phase' = [phase EXCEPT ![t] = "thrown"]
          /\ owner' \in {owner, None}
          /\ data' \in {data, Touched(call[t].ses)}
          /\ UNCHANGED <<clock, timestamp, call, section, result, cronVars>>
      BY <1>9, <2>2 DEF Fault, BadAlloc, PastEndThrow, ReplyBadAlloc, ReadsPastEnd,
                        ThrowInside, InSection
    <3>2. call[t].ses \in Sessions
      BY <3>1, CallType DEF TypeOK
    <3>3. /\ DOMAIN Touched(call[t].ses) = DOMAIN data \cup {call[t].ses}
          /\ Touched(call[t].ses) \in [DOMAIN data \cup {call[t].ses} -> Seq(Texts)]
      BY TouchedType DEF TypeOK
    <3>4. /\ DOMAIN data' \subseteq Sessions
          /\ data' \in [DOMAIN data' -> Seq(Texts)]
      BY <3>1, <3>2, <3>3 DEF TypeOK
    <3> QED BY <3>1, <3>4 DEF TypeOK, clock, cronVars, Phases
  <2> QED BY <2>1, <2>2
<1>10. CASE CronWake
  BY <1>10 DEF TypeOK, CronWake, clock, store, callers
<1>11. CASE CronLock
  BY <1>11 DEF TypeOK, CronLock, clock, store, callers
<1>12. ASSUME NEW s \in Sessions, CronScan(s) PROVE TypeOK'
  BY <1>12 DEF TypeOK, CronScan, clock, store, callers
<1>13. CASE CronScanned
  BY <1>13 DEF TypeOK, CronScanned, clock, store, callers
<1>14. ASSUME NEW s \in Sessions, CronErase(s) PROVE TypeOK'
  <2>1. /\ DOMAIN Erased(data, s) = DOMAIN data \ {s}
        /\ Erased(data, s) \in [DOMAIN data \ {s} -> Seq(Texts)]
        /\ DOMAIN Erased(timestamp, s) = DOMAIN timestamp \ {s}
        /\ Erased(timestamp, s) \in [DOMAIN timestamp \ {s} -> 0 .. MaxClock]
    BY DEF TypeOK, Erased, Restrict
  <2>2. /\ DOMAIN data' \subseteq Sessions /\ data' \in [DOMAIN data' -> Seq(Texts)]
        /\ DOMAIN timestamp' \subseteq Sessions
        /\ timestamp' \in [DOMAIN timestamp' -> 0 .. MaxClock]
    BY <1>14, <2>1 DEF CronErase, TypeOK
  <2> QED BY <1>14, <2>2 DEF TypeOK, CronErase, clock, callers
<1>15. CASE CronUnlock
  BY <1>15 DEF TypeOK, CronUnlock, clock, store, callers
<1>16. CASE CronBadAlloc \/ Signal
  BY <1>16 DEF TypeOK, CronBadAlloc, Signal, Crash, store, callers, cronVars
<1>17. CASE Tick
  BY <1>17 DEF TypeOK, Tick, store, callers, cronVars
<1>18. CASE ClockStepBack
  BY <1>18 DEF TypeOK, ClockStepBack, store, callers, cronVars
<1>19. CASE UNCHANGED vars
  BY <1>19 DEF TypeOK, vars, clock, store, callers, cronVars
<1> QED
  BY <1>1, <1>2, <1>3, <1>4, <1>5, <1>6, <1>7, <1>8, <1>9, <1>10, <1>11, <1>12,
     <1>13, <1>14, <1>15, <1>16, <1>17, <1>18, <1>19 DEF Next, Body, CronStep

(* The type invariant holds of the store whatever the callers do, whatever  *)
(* fails and however the clock is set.                                      *)
THEOREM TypeCorrect == Spec => []TypeOK
  BY TypeOKInit, TypeOKStep, PTL DEF Spec
-----------------------------------------------------------------------------
(* Every critical section holds the mutex.  It is inductive together with   *)
(* TypeOK, by which a connection thread is not the cron thread.             *)
LEMMA MutualExclusionStep ==
  TypeOK /\ MutualExclusion /\ [Next]_vars => MutualExclusion'
<1> SUFFICES ASSUME TypeOK, MutualExclusion, [Next]_vars PROVE MutualExclusion'
  OBVIOUS
<1> USE DEF MutualExclusion
<1>1. ASSUME NEW t \in Threads, Invoke(t) PROVE MutualExclusion'
  BY <1>1 DEF TypeOK, Invoke, cronVars
<1>2. ASSUME NEW t \in Threads, Acquire(t) PROVE MutualExclusion'
  BY <1>2 DEF TypeOK, Acquire, cronVars
<1>3. ASSUME NEW t \in Threads, Body(t) PROVE MutualExclusion'
  <2>1. /\ phase[t] = "inside" /\ owner' = None
        /\ \E p \in {"wait", "returned"} : phase' = [phase EXCEPT ![t] = p]
        /\ UNCHANGED cronVars
    BY <1>3 DEF Body, Stamp, Push, GetRange, GetAt, GetDepth, Read, InSection,
                UnlockAndReturn
  <2> QED BY <2>1 DEF TypeOK, cronVars
<1>4. ASSUME NEW t \in Threads, Return(t) PROVE MutualExclusion'
  BY <1>4 DEF TypeOK, Return, cronVars
<1>5. ASSUME NEW t \in Threads, Fault(t) PROVE MutualExclusion'
  <2>1. CASE PastEndCrash(t)
    BY <2>1 DEF PastEndCrash, Crash, callers, cronVars
  <2>2. CASE ~PastEndCrash(t)
    <3>1. /\ phase[t] = "inside" /\ phase' = [phase EXCEPT ![t] = "thrown"]
          /\ owner' \in {owner, None}
          /\ UNCHANGED cronVars
      BY <1>5, <2>2 DEF Fault, BadAlloc, PastEndThrow, ReplyBadAlloc, ReadsPastEnd,
                        ThrowInside, InSection
    <3> QED BY <3>1 DEF TypeOK, cronVars
  <2> QED BY <2>1, <2>2
<1>6. CASE CronWake
  BY <1>6 DEF CronWake, callers
<1>7. CASE CronStep
  BY <1>7 DEF TypeOK, CronStep, CronLock, CronScan, CronScanned, CronErase,
              CronUnlock, callers
<1>8. CASE CronBadAlloc \/ Signal \/ Tick \/ ClockStepBack \/ UNCHANGED vars
  BY <1>8 DEF CronBadAlloc, Signal, Crash, Tick, ClockStepBack, vars, callers, cronVars
<1> QED
  BY <1>1, <1>2, <1>3, <1>4, <1>5, <1>6, <1>7, <1>8 DEF Next

(* No two critical sections of the store ever run at once, cron's included, *)
(* whatever fails: an exception can leave the mutex locked for ever, but    *)
(* never lets a second thread in.                                           *)
THEOREM SectionsExclude == Spec => []MutualExclusion
<1>1. Init => MutualExclusion
  BY DEF Init, MutualExclusion
<1> QED BY <1>1, TypeCorrect, MutualExclusionStep, PTL DEF Spec

-----------------------------------------------------------------------------
(* Deletion.  The invariant says that what cron found in its first loop     *)
(* still holds in the second, which is where the mutex is needed.           *)
StoreInv == TypeOK /\ MutualExclusion /\ CronFindingsStand

(* The unsigned subtraction is the signed one while stamps lie in the past. *)
LEMMA NoWrap ==
  ASSUME NEW x \in 0 .. MaxClock PROVE x % ClockModulus = x
  OBVIOUS

(* Where no stamp is later than the clock the unsigned difference of        *)
(* cron (Session.cxx:55) does not wrap, and compares ages.                  *)
LEMMA ExpiredMeans ==
  ASSUME StoreInv, NEW s \in DOMAIN timestamp
  PROVE  Expired(s) <=> now - timestamp[s] > SessionTimeout
<1>1. now - timestamp[s] \in 0 .. MaxClock
  BY DEF StoreInv, TypeOK, CronFindingsStand
<1> QED BY <1>1, NoWrap DEF Expired

(* What cron found stays expired: nobody stamps while cron owns the mutex.  *)
LEMMA FindingsStep ==
  ASSUME ~ClockMayStepBack, StoreInv, [Next]_vars
  PROVE  CronFindingsStand'
<1> USE DEF StoreInv
<1>1. CASE UNCHANGED <<now, timestamp, cronVars>>
  BY <1>1 DEF CronFindingsStand, cronVars
<1>2. ASSUME NEW t \in Threads, Stamp(t) PROVE CronFindingsStand'
  <2>1. cronPhase \notin {"scan", "erase"}
    BY <1>2 DEF Stamp, InSection, MutualExclusion
  <2>2. \A s \in DOMAIN timestamp' : timestamp'[s] <= now'
    BY <1>2 DEF Stamp, Assigned, CronFindingsStand, TypeOK, clock
  <2> QED BY <1>2, <2>1, <2>2 DEF Stamp, CronFindingsStand, cronVars
<1>3. CASE CronWake
  BY <1>3 DEF CronWake, CronFindingsStand, clock, store
<1>4. CASE CronLock
  BY <1>4 DEF CronLock, CronFindingsStand, clock, store
<1>5. ASSUME NEW s \in Sessions, CronScan(s) PROVE CronFindingsStand'
  <2>1. s \in DOMAIN timestamp
    BY <1>5 DEF CronScan, CronFindingsStand
  <2>2. Expired(s) => now - timestamp[s] > SessionTimeout
    BY <2>1, ExpiredMeans
  <2> QED BY <1>5, <2>1, <2>2 DEF CronScan, CronFindingsStand, clock, store
<1>6. CASE CronScanned
  BY <1>6 DEF CronScanned, CronFindingsStand, clock, store
<1>7. ASSUME NEW s \in Sessions, CronErase(s) PROVE CronFindingsStand'
  <2>1. /\ DOMAIN timestamp' = DOMAIN timestamp \ {s}
        /\ \A k \in DOMAIN timestamp' : timestamp'[k] = timestamp[k]
    BY <1>7 DEF CronErase, Erased, Restrict
  <2> QED BY <1>7, <2>1 DEF CronErase, CronFindingsStand, clock
<1>8. CASE CronUnlock
  BY <1>8 DEF CronUnlock, CronFindingsStand, clock, store
<1>9. CASE Tick
  BY <1>9 DEF Tick, CronFindingsStand, TypeOK, store, cronVars
<1>10. ASSUME NEW t \in Threads,
              \/ Invoke(t) \/ Acquire(t) \/ Return(t) \/ Fault(t)
              \/ Push(t) \/ GetRange(t) \/ GetAt(t) \/ GetDepth(t)
       PROVE  UNCHANGED <<now, timestamp, cronVars>>
  BY <1>10 DEF Invoke, Acquire, Return, Fault, BadAlloc, PastEndThrow, ThrowInside,
               ReplyBadAlloc, PastEndCrash, Crash, Push, GetRange, GetAt, GetDepth,
               Read, clock, store, cronVars
<1>11. CronBadAlloc \/ Signal \/ UNCHANGED vars => UNCHANGED <<now, timestamp, cronVars>>
  BY DEF CronBadAlloc, Signal, Crash, vars, clock, store, cronVars
<1>12. ~ClockStepBack
  BY DEF ClockStepBack
<1> QED
  BY <1>1, <1>2, <1>3, <1>4, <1>5, <1>6, <1>7, <1>8, <1>9, <1>10, <1>11, <1>12
     DEF Next, Body, CronStep

(* The three invariants together, where the clock is not set back.          *)
LEMMA StoreInvariant == ~ClockMayStepBack => (Spec => []StoreInv)
<1>1. Init => CronFindingsStand
  BY DEF Init, CronFindingsStand
<1>2. ~ClockMayStepBack /\ StoreInv /\ [Next]_vars => CronFindingsStand'
  BY FindingsStep
<1>3. StoreInv <=> TypeOK /\ MutualExclusion /\ CronFindingsStand
  BY DEF StoreInv
<1>4. ASSUME ~ClockMayStepBack PROVE Spec => []StoreInv
  <2>1. StoreInv /\ [Next]_vars => CronFindingsStand'
    BY <1>2, <1>4
  <2> QED BY <1>1, <1>3, <2>1, TypeCorrect, SectionsExclude, PTL DEF Spec
<1> QED BY <1>4

(* What cron found expired is still expired when it erases it, provided     *)
(* nobody sets the clock back.                                              *)
THEOREM FindingsStand == ~ClockMayStepBack => (Spec => []CronFindingsStand)
<1>1. StoreInv => CronFindingsStand
  BY DEF StoreInv
<1> QED BY <1>1, StoreInvariant, PTL

(* A log is a prefix of itself and of itself with one batch more.           *)
LEMMA GrowsOnly ==
  ASSUME NEW b \in Seq(Texts), NEW x \in Texts
  PROVE  /\ SubSeq(b, 1, Len(b)) = b
         /\ SubSeq(Append(b, x), 1, Len(b)) = b
  OBVIOUS

(* A session's batches leave the store only when its last keep-alive is     *)
(* older than the timeout, provided nobody sets the clock back.             *)
THEOREM NothingLiveErased == ~ClockMayStepBack => (Spec => NoLiveErase)
<1> SUFFICES ASSUME ~ClockMayStepBack PROVE Spec => NoLiveErase
  OBVIOUS
<1>1. ASSUME StoreInv, [Next]_vars PROVE ErasesOnlyExpired
  <2> SUFFICES ASSUME NEW s \in DOMAIN data PROVE
        \/ /\ s \in DOMAIN data'
           /\ SubSeq(data'[s], 1, Len(data[s])) = data[s]
        \/ s \in DOMAIN timestamp /\ now - timestamp[s] > SessionTimeout
    BY DEF ErasesOnlyExpired
  <2>1. data[s] \in Seq(Texts)
    BY <1>1 DEF StoreInv, TypeOK
  <2>2. CASE s \in DOMAIN data' /\ data'[s] = data[s]
    BY <2>1, <2>2, GrowsOnly
  <2>3. ASSUME NEW t \in Threads, Push(t), call[t].ses = s
        PROVE  /\ s \in DOMAIN data'
               /\ SubSeq(data'[s], 1, Len(data[s])) = data[s]
    <3>1. call[t].text \in Texts
      BY <2>3, <1>1, PushesText DEF Push, InSection, StoreInv
    <3>2. s \in DOMAIN data' /\ data'[s] = Append(data[s], call[t].text)
      BY <2>3 DEF Push, Assigned, Batches
    <3> QED BY <2>1, <3>1, <3>2, GrowsOnly
  <2>4. ASSUME NEW t \in Threads, Push(t), call[t].ses # s
        PROVE  s \in DOMAIN data' /\ data'[s] = data[s]
    BY <2>4 DEF Push, Assigned
  <2>5. ASSUME NEW t \in Threads, \/ GetRange(t) \/ GetAt(t) \/ GetDepth(t)
                                  \/ BadAlloc(t) \/ PastEndThrow(t)
                                  \/ ReplyBadAlloc(t)
        PROVE  s \in DOMAIN data' /\ data'[s] = data[s]
    <3>1. data' \in {data, Touched(call[t].ses)}
      BY <2>5 DEF GetRange, GetAt, GetDepth, Read, BadAlloc, PastEndThrow,
                  ReplyBadAlloc
    <3>2. \A k \in DOMAIN data : Touched(call[t].ses)[k] = data[k]
      BY TouchedType, <1>1 DEF StoreInv, TypeOK
    <3>3. DOMAIN Touched(call[t].ses) = DOMAIN data \cup {call[t].ses}
      BY TouchedType, <1>1 DEF StoreInv, TypeOK
    <3> QED BY <3>1, <3>2, <3>3
  <2>6. ASSUME NEW k \in Sessions, CronErase(k)
        PROVE  \/ s \in DOMAIN data' /\ data'[s] = data[s]
               \/ s \in DOMAIN timestamp /\ now - timestamp[s] > SessionTimeout
    <3>1. CASE k = s
      BY <2>6, <3>1, <1>1 DEF CronErase, StoreInv, CronFindingsStand
    <3>2. CASE k # s
      BY <2>6, <3>2 DEF CronErase, Erased, Restrict
    <3> QED BY <3>1, <3>2
  <2>7. ASSUME NEW t \in Threads,
               Invoke(t) \/ Acquire(t) \/ Return(t) \/ Stamp(t) \/ PastEndCrash(t)
        PROVE  data' = data
    BY <2>7 DEF Invoke, Acquire, Return, Stamp, PastEndCrash, Crash, store
  <2>8. ASSUME NEW k \in Sessions,
               \/ CronWake \/ CronLock \/ CronScan(k) \/ CronScanned
               \/ CronUnlock \/ CronBadAlloc \/ Signal \/ Tick \/ ClockStepBack
               \/ UNCHANGED vars
        PROVE  data' = data
    BY <2>8 DEF CronWake, CronLock, CronScan, CronScanned, CronUnlock, CronBadAlloc,
                Signal, Crash, Tick, ClockStepBack, vars, store
  <2>9. s \in Sessions
    BY <1>1 DEF StoreInv, TypeOK
  <2> QED
    BY <1>1, <2>2, <2>3, <2>4, <2>5, <2>6, <2>7, <2>8, <2>9
       DEF Next, Body, Fault, CronStep
<1>2. StoreInv /\ [Next]_vars => [ErasesOnlyExpired]_vars
  BY <1>1
<1>3. Spec => []StoreInv
  BY StoreInvariant
<1> QED BY <1>2, <1>3, PTL DEF Spec, NoLiveErase
-----------------------------------------------------------------------------
(* SessionHost implements Board: each step of the store is a step of Board  *)
(* or a stutter.                                                            *)

BoardLog == [s \in Sessions |-> Batches(s)]
BoardStatus == [t \in Threads |-> StatusOf[phase[t]]]
BoardVars == <<alive, BoardLog, call, BoardStatus, result>>

(* What changes no data changes no log of Board.                            *)
LEMMA SameLog ==
  ASSUME data' = data PROVE BoardLog' = BoardLog
  BY DEF BoardLog, Batches

(* Evaluating data[s] leaves every log as it is.                            *)
LEMMA TouchedLog ==
  ASSUME TypeOK, NEW s, data' = Touched(s) PROVE BoardLog' = BoardLog
<1>1. /\ DOMAIN Touched(s) = DOMAIN data \cup {s}
      /\ \A k \in DOMAIN data : Touched(s)[k] = data[k]
      /\ Touched(s)[s] = Batches(s)
  BY TouchedType DEF TypeOK
<1>2. ASSUME NEW k \in Sessions PROVE Batches(k)' = Batches(k)
  BY <1>1 DEF Batches
<1> QED BY <1>2 DEF BoardLog

(* A step that moves one thread between phases moves its status.            *)
LEMMA MovedStatus ==
  ASSUME TypeOK, NEW t \in Threads, NEW p \in Phases,
         phase' = [phase EXCEPT ![t] = p]
  PROVE  BoardStatus' = [BoardStatus EXCEPT ![t] = StatusOf[p]]
  BY DEF TypeOK, BoardStatus

(* While a thread is in a section of a read, its call is that read.         *)
LEMMA SectionCall ==
  ASSUME TypeOK, NEW t \in Threads, phase[t] = "inside"
  PROVE  /\ call[t] \in Calls /\ call[t].ses \in Sessions
         /\ section[t] = "range" => call[t].op = "getRange"
         /\ section[t] = "at" => call[t].op = "getAt"
         /\ section[t] = "depth" => call[t].op = "getDepth"
         /\ section[t] = "stamp" => call[t].op \in {"dequeue", "keepAlive"}
<1>1. call[t] \in Calls
  BY DEF TypeOK
<1>2. call[t].op \in AllOperations /\ call[t].ses \in Sessions
  BY <1>1, CallType
<1>3. section[t] # "push" => section[t] = FirstSection[call[t].op]
  BY DEF TypeOK
<1> QED BY <1>1, <1>2, <1>3 DEF FirstSection, AllOperations

(* A call's last critical section is where it is answered.                  *)
LEMMA BoardAnswered ==
  ASSUME TypeOK, NEW t \in Threads, NEW x, NEW r,
         InSection(t, x), UnlockAndReturn(t, r), UNCHANGED <<clock, call>>
  PROVE  /\ alive /\ BoardStatus[t] = "pending"
         /\ BoardStatus' = [BoardStatus EXCEPT ![t] = "answered"]
         /\ result' = [result EXCEPT ![t] = r]
         /\ UNCHANGED <<alive, call>>
<1>1. BoardStatus' = [BoardStatus EXCEPT ![t] = StatusOf["returned"]]
  BY MovedStatus DEF UnlockAndReturn, Phases
<1> QED BY <1>1 DEF InSection, UnlockAndReturn, BoardStatus, StatusOf, clock

(* The store begins as Board does.                                          *)
LEMMA BoardInit == Init => ABoard!Init
  BY DEF Init, ABoard!Init, Batches, StatusOf

(* Every step of the store is one of Board, or leaves what Board sees.      *)
LEMMA BoardStep == TypeOK /\ [Next]_vars => [ABoard!Next]_(ABoard!vars)
<1> SUFFICES ASSUME TypeOK, [Next]_vars
             PROVE  ABoard!Next \/ UNCHANGED BoardVars
  BY DEF ABoard!vars, BoardVars, BoardLog, BoardStatus
<1> USE DEF BoardLog, BoardStatus
<1>1. ASSUME NEW t \in Threads, Invoke(t) PROVE ABoard!Ask(t)
  <2>1. BoardStatus' = [BoardStatus EXCEPT ![t] = StatusOf["wait"]]
    BY <1>1, MovedStatus DEF Invoke, Phases
  <2>2. BoardLog' = BoardLog
    BY <1>1, SameLog DEF Invoke, store
  <2>3. PICK c \in Calls : call' = [call EXCEPT ![t] = c]
    BY <1>1 DEF Invoke
  <2>4. alive /\ BoardStatus[t] = "idle" /\ UNCHANGED <<alive, result>>
    BY <1>1 DEF Invoke, StatusOf, clock
  <2> QED BY <2>1, <2>2, <2>3, <2>4 DEF ABoard!Ask, StatusOf
<1>2. ASSUME NEW t \in Threads, Acquire(t) PROVE UNCHANGED BoardVars
  <2>1. BoardStatus' = [BoardStatus EXCEPT ![t] = StatusOf["inside"]]
    BY <1>2, MovedStatus DEF Acquire, Phases
  <2>2. BoardStatus[t] = StatusOf["inside"]
    BY <1>2 DEF Acquire, StatusOf
  <2>3. BoardStatus' = BoardStatus
    BY <2>1, <2>2
  <2>4. BoardLog' = BoardLog
    BY <1>2, SameLog DEF Acquire, store
  <2> QED BY <1>2, <2>3, <2>4 DEF Acquire, BoardVars, clock
<1>3. ASSUME NEW t \in Threads, Stamp(t)
      PROVE  ABoard!KeepAlive(t) \/ UNCHANGED BoardVars
  <2>1. BoardLog' = BoardLog
    BY <1>3, SameLog DEF Stamp
  <2>2. CASE call[t].text = NoText
    <3>1. call[t].op \in {"dequeue", "keepAlive"}
      BY <1>3, SectionCall DEF Stamp, InSection
    <3>2. /\ InSection(t, "stamp") /\ UnlockAndReturn(t, NoText)
          /\ UNCHANGED <<clock, call>>
      BY <1>3, <2>2 DEF Stamp
    <3> QED BY <2>1, <2>2, <3>1, <3>2, BoardAnswered
            DEF ABoard!KeepAlive, ABoard!Pending, ABoard!Answered
  <2>3. CASE call[t].text # NoText
    <3>1. BoardStatus' = [BoardStatus EXCEPT ![t] = StatusOf["wait"]]
      BY <1>3, <2>3, MovedStatus DEF Stamp, Phases
    <3>2. BoardStatus[t] = StatusOf["wait"]
      BY <1>3 DEF Stamp, InSection, StatusOf
    <3>3. BoardStatus' = BoardStatus
      BY <3>1, <3>2
    <3> QED BY <1>3, <2>1, <2>3, <3>3 DEF Stamp, BoardVars, clock
  <2> QED BY <2>2, <2>3
<1>4. ASSUME NEW t \in Threads, Push(t) PROVE ABoard!Post(t)
  <2>1. /\ call[t].op = "dequeue" /\ call[t].text \in Texts
        /\ call[t].ses \in Sessions
    BY <1>4, PushesText, CallType DEF Push, InSection
  <2>2. BoardLog' = [BoardLog EXCEPT ![call[t].ses] = Append(@, call[t].text)]
    <3>1. ASSUME NEW k \in Sessions
          PROVE  Batches(k)' = IF k = call[t].ses
                                 THEN Append(Batches(k), call[t].text)
                                 ELSE Batches(k)
      BY <1>4 DEF Push, Assigned, Batches
    <3> QED BY <3>1, <2>1
  <2>3. /\ InSection(t, "push") /\ UnlockAndReturn(t, NoText)
        /\ UNCHANGED <<clock, call>>
    BY <1>4 DEF Push
  <2> QED BY <2>1, <2>2, <2>3, BoardAnswered
          DEF ABoard!Post, ABoard!Pending, ABoard!Answered
<1>5. ASSUME NEW t \in Threads, NEW x, NEW r, Read(t, x, r)
      PROVE  /\ BoardLog' = BoardLog /\ call[t].ses \in Sessions
             /\ phase[t] = "inside" /\ section[t] = x
             /\ alive /\ BoardStatus[t] = "pending"
             /\ BoardStatus' = [BoardStatus EXCEPT ![t] = "answered"]
             /\ result' = [result EXCEPT ![t] = r]
             /\ UNCHANGED <<alive, call>>
  <2>1. BoardLog' = BoardLog
    BY <1>5, TouchedLog DEF Read
  <2>2. /\ InSection(t, x) /\ UnlockAndReturn(t, r) /\ UNCHANGED <<clock, call>>
    BY <1>5 DEF Read
  <2>3. call[t].ses \in Sessions
    BY <2>2, SectionCall DEF InSection
  <2>4. /\ alive /\ BoardStatus[t] = "pending"
        /\ BoardStatus' = [BoardStatus EXCEPT ![t] = "answered"]
        /\ result' = [result EXCEPT ![t] = r]
        /\ UNCHANGED <<alive, call>>
    BY <2>2, BoardAnswered
  <2>5. phase[t] = "inside" /\ section[t] = x
    BY <2>2 DEF InSection
  <2> HIDE DEF BoardLog, BoardStatus
  <2> QED BY <2>1, <2>3, <2>4, <2>5
<1>6. ASSUME NEW t \in Threads, GetRange(t) PROVE ABoard!Range(t)
  <2> DEFINE b == Batches(call[t].ses)
  <2>1. PICK r : Read(t, "range", r) /\ r = SubSeq(b, call[t].index + 1, Len(b))
    BY <1>6 DEF GetRange
  <2>2. Read(t, "range", r)
    BY <2>1
  <2>3. /\ UNCHANGED BoardLog /\ call[t].ses \in Sessions
        /\ alive /\ BoardStatus[t] = "pending"
        /\ BoardStatus' = [BoardStatus EXCEPT ![t] = "answered"]
        /\ result' = [result EXCEPT ![t] = r]
        /\ UNCHANGED <<alive, call>>
    BY <1>5, <2>2
  <2>4. BoardLog[call[t].ses] = b
    BY <2>3
  <2>5. call[t].op = "getRange"
    BY <2>2, SectionCall DEF Read, InSection
  <2>6. ABoard!Pending(t, {"getRange"}) /\ ABoard!Answered(t, r)
    BY <2>3, <2>5 DEF ABoard!Pending, ABoard!Answered
  <2>7. r = SubSeq(BoardLog[call[t].ses], call[t].index + 1, Len(BoardLog[call[t].ses]))
    <3> HIDE DEF BoardLog
    <3> QED BY <2>1, <2>4
  <2> QED BY <2>3, <2>6, <2>7 DEF ABoard!Range, ABoard!Answered
<1>7. ASSUME NEW t \in Threads, GetDepth(t) PROVE ABoard!Depth(t)
  <2> DEFINE b == Batches(call[t].ses)
  <2>1. PICK r : Read(t, "depth", r) /\ r = Len(b)
    BY <1>7 DEF GetDepth
  <2>2. Read(t, "depth", r)
    BY <2>1
  <2>3. /\ UNCHANGED BoardLog /\ call[t].ses \in Sessions
        /\ alive /\ BoardStatus[t] = "pending"
        /\ BoardStatus' = [BoardStatus EXCEPT ![t] = "answered"]
        /\ result' = [result EXCEPT ![t] = r]
        /\ UNCHANGED <<alive, call>>
    BY <1>5, <2>2
  <2>4. BoardLog[call[t].ses] = b
    BY <2>3
  <2>5. call[t].op = "getDepth"
    BY <2>2, SectionCall DEF Read, InSection
  <2>6. ABoard!Pending(t, {"getDepth"}) /\ ABoard!Answered(t, r)
    BY <2>3, <2>5 DEF ABoard!Pending, ABoard!Answered
  <2>7. r = Len(BoardLog[call[t].ses])
    <3> HIDE DEF BoardLog
    <3> QED BY <2>1, <2>4
  <2> QED BY <2>3, <2>6, <2>7 DEF ABoard!Depth, ABoard!Answered
<1>8. ASSUME NEW t \in Threads, GetAt(t) PROVE ABoard!Fetch(t)
  <2> DEFINE b == Batches(call[t].ses)
             i == call[t].index
  <2>1. call[t] \in Calls /\ b \in Seq(Texts) /\ i \in Nat
    BY <1>8, SectionCall, CallType, BatchesType DEF GetAt, InSection, TypeOK
  <2>2. PICK r \in Anything : /\ Read(t, "at", r)
                              /\ i < Len(b) => r = b[i + 1]
                              /\ i > Len(b) => r = NoText
    <3>1. i < Len(b) => b[i + 1] \in Anything
      BY <2>1 DEF Anything
    <3>2. NoText \in Anything
      BY DEF Anything
    <3>3. Len(b) \in Nat
      BY <2>1
    <3> QED BY <1>8, <2>1, <3>1, <3>2, <3>3 DEF GetAt
  <2>3. /\ UNCHANGED BoardLog /\ call[t].ses \in Sessions
        /\ alive /\ BoardStatus[t] = "pending"
        /\ BoardStatus' = [BoardStatus EXCEPT ![t] = "answered"]
        /\ result' = [result EXCEPT ![t] = r]
        /\ UNCHANGED <<alive, call>>
    BY <1>5, <2>2
  <2>4. BoardLog[call[t].ses] = b
    BY <2>3
  <2>5. call[t].op = "getAt"
    BY <2>2, SectionCall DEF Read, InSection
  <2>6. ABoard!Pending(t, {"getAt"}) /\ ABoard!Answered(t, r)
    BY <2>3, <2>5 DEF ABoard!Pending, ABoard!Answered
  <2> QED
    BY <2>2, <2>3, <2>4, <2>6 DEF Anything, ABoard!Fetch, ABoard!Pending
<1>9. ASSUME NEW t \in Threads, Return(t) PROVE ABoard!Hear(t)
  <2>1. BoardStatus' = [BoardStatus EXCEPT ![t] = StatusOf["idle"]]
    BY <1>9, MovedStatus DEF Return, Phases
  <2>2. BoardLog' = BoardLog
    BY <1>9, SameLog DEF Return, store
  <2> QED BY <1>9, <2>1, <2>2 DEF Return, ABoard!Hear, StatusOf, clock
<1>10. ASSUME Crash PROVE ABoard!GoDown
  <2>1. BoardLog' = BoardLog /\ BoardStatus' = BoardStatus
    BY <1>10, SameLog DEF Crash, store, callers
  <2> QED BY <1>10, <2>1 DEF Crash, ABoard!GoDown, callers
<1>11. ASSUME NEW t \in Threads, Fault(t) PROVE ABoard!Fail(t) \/ ABoard!GoDown
  <2>1. CASE PastEndCrash(t)
    BY <1>10, <2>1 DEF PastEndCrash
  <2>2. CASE ~PastEndCrash(t)
    <3>1. /\ alive /\ phase[t] = "inside" /\ phase' = [phase EXCEPT ![t] = "thrown"]
          /\ data' \in {data, Touched(call[t].ses)}
          /\ UNCHANGED <<alive, call, result>>
      BY <1>11, <2>2 DEF Fault, BadAlloc, PastEndThrow, ReplyBadAlloc, ReadsPastEnd,
                         ThrowInside, InSection, clock
    <3>2. BoardLog' = BoardLog
      BY <3>1, SameLog, TouchedLog
    <3>3. BoardStatus' = [BoardStatus EXCEPT ![t] = StatusOf["thrown"]]
      BY <3>1, MovedStatus DEF Phases
    <3> QED BY <3>1, <3>2, <3>3 DEF ABoard!Fail, StatusOf
  <2> QED BY <2>1, <2>2
<1>12. ASSUME NEW s \in Sessions, CronErase(s) PROVE ABoard!Expire(s)
  <2>1. ASSUME NEW k \in Sessions
        PROVE  Batches(k)' = IF k = s THEN << >> ELSE Batches(k)
    BY <1>12 DEF CronErase, Erased, Restrict, Batches
  <2>2. BoardStatus' = BoardStatus
    BY <1>12 DEF CronErase, callers
  <2> QED BY <1>12, <2>1, <2>2 DEF CronErase, ABoard!Expire, clock, callers
<1>13. ASSUME \/ CronWake \/ CronLock \/ CronScanned \/ CronUnlock
              \/ \E s \in Sessions : CronScan(s)
              \/ Tick \/ ClockStepBack \/ UNCHANGED vars
       PROVE  UNCHANGED BoardVars
  <2>1. UNCHANGED <<alive, data, callers>>
    BY <1>13 DEF CronWake, CronLock, CronScan, CronScanned, CronUnlock, Tick,
                 ClockStepBack, vars, clock, store
  <2> QED BY <2>1, SameLog DEF BoardVars, callers
<1> QED
  BY <1>1, <1>2, <1>3, <1>4, <1>6, <1>7, <1>8, <1>9, <1>10, <1>11, <1>12, <1>13
     DEF Next, Body, CronStep, CronBadAlloc, Signal, ABoard!Next

(* The store implements the log of batches per session that Board           *)
(* describes, under every interleaving of calls, faults and deletions.      *)
THEOREM StoreImplementsBoard == Spec => ImplementsBoard
  BY BoardInit, BoardStep, TypeCorrect, PTL DEF Spec, ImplementsBoard, ABoard!Spec
=============================================================================
