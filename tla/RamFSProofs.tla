----------------------------- MODULE RamFSProofs -----------------------------
(***************************************************************************)
(* Theorems about RamFS, for any number of threads, files and edits, with  *)
(* cache and without.                                                      *)
(***************************************************************************)
EXTENDS RamFS, TLAPS

USE RamFSAssumption

Stages == Waits \cup InLock \cup {"idle", "read", "answered", "lost"}
Calls  == [file : Files, data : Contents \cup {NoEntry},
           answer : Contents, since : SUBSET Contents]
Stores == [Files -> Contents \cup {NoEntry}]

\* What a thread knows of its call at each stage, the mutex or not.
KnowsOf(t) ==
  /\ pc[t] \in {"put", "put in"} => caching /\ call[t].data \in past[File(t)]
  /\ pc[t] = "get in" => caching
  /\ pc[t] \in {"get", "get in"} /\ caching /\ ~broken => Cached(t) # NoEntry
  /\ pc[t] # "idle" /\ ~caching => disk[File(t)] \in call[t].since
Knows == \A t \in Threads : KnowsOf(t)

\* What is in the map until it breaks.
EntryOf(f) ==
  /\ disk[f] \in past[f]
  /\ ~broken => store[f] = NoEntry \/ store[f] \in past[f]
Entries == \A f \in Files : EntryOf(f)

AnswerOf(t) ==
  pc[t] = "answered" =>
    IF caching THEN broken \/ call[t].answer \in past[File(t)]
               ELSE call[t].answer \in call[t].since

IInv == TypeOK /\ Knows /\ Entries /\ AnswersAreFiles

(* The types, in the words of this module.                                  *)
LEMMA Types ==
  ASSUME TypeOK
  PROVE  /\ caching \in BOOLEAN /\ up \in BOOLEAN /\ expired \in BOOLEAN /\ broken \in BOOLEAN
         /\ disk \in [Files -> Contents] /\ past \in [Files -> SUBSET Contents]
         /\ store \in Stores /\ owner \in Threads \cup {Free}
         /\ pc \in [Threads -> Stages] /\ call \in [Threads -> Calls]
         /\ \A t \in Threads :
              /\ call[t] \in Calls /\ File(t) \in Files
              /\ Cached(t) \in Contents \cup {NoEntry} /\ disk[File(t)] \in Contents
         /\ 0 \in Contents /\ NoEntry \notin Contents
BY DEF TypeOK, Stages, Calls, Stores, Contents, NoEntry, File, Cached

-----------------------------------------------------------------------------
(* The first state.                                                         *)
LEMMA InitHolds == Init => IInv
<1> SUFFICES ASSUME Init PROVE IInv
  OBVIOUS
<1>1. NoCall(1) \in Calls
  BY DEF NoCall, Calls, Contents, NoEntry, Files
<1>2. \A f \in Files : f \in Contents
  BY DEF Files, Contents
<1>3. /\ disk \in [Files -> Contents] /\ past \in [Files -> SUBSET Contents]
      /\ store \in Stores /\ edition \in NumFiles .. NumFiles + MaxEdits
  BY <1>2 DEF Init, Stores
<1>4. \A t \in Threads : pc[t] = "idle" /\ owner # t
  BY DEF Init
<1>5. TypeOK
  BY <1>1, <1>3, <1>4 DEF Init, TypeOK, Calls, Stores, Waits, InLock
<1>6. Entries
  BY DEF Init, Entries, EntryOf
<1> QED BY <1>4, <1>5, <1>6 DEF IInv, Knows, KnowsOf, AnswersAreFiles

-----------------------------------------------------------------------------
(* The types, kept by steps of a thread in its call.                        *)

(* What a step of one thread may change.                                    *)
LEMMA ThreadTypes ==
  ASSUME TypeOK, NEW t \in Threads, NEW at \in Stages, Goto(t, at),
         call' \in [Threads -> Calls], store' \in Stores, owner' \in Threads \cup {Free},
         UNCHANGED <<caching, up, files, terminal>>,
         expired' \in BOOLEAN, broken' \in BOOLEAN,
         ~expired' =>
           /\ ~expired /\ ~broken'
           /\ at \in InLock <=> owner' = t
           /\ \A u \in Threads \ {t} : owner' = u <=> owner = u
  PROVE  TypeOK'
<1>1. pc \in [Threads -> Stages]
  BY Types
<1>2. pc' \in [Threads -> Stages] /\ pc'[t] = at /\ \A u \in Threads \ {t} : pc'[u] = pc[u]
  BY <1>1 DEF Goto
<1>3. ~expired' => \A u \in Threads : pc'[u] \in InLock <=> owner' = u
  BY <1>2 DEF TypeOK
<1> QED BY <1>2, <1>3 DEF TypeOK, Calls, Stages, Stores, files

(* Unlocking gives the mutex back if the thread has it.                     *)
LEMMA Unlocks ==
  ASSUME TypeOK, NEW t \in Threads, pc[t] \in InLock, NEW at \in Stages \ InLock,
         Unlock(t, at)
  PROVE  /\ owner' \in Threads \cup {Free}
         /\ Goto(t, at)
         /\ ~expired => /\ ~broken /\ owner' # t
                        /\ \A u \in Threads \ {t} : owner' = u <=> owner = u
BY DEF Unlock, TypeOK

(* A thread outside the mutex that changes its call only.                   *)
LEMMA OutsideTypes ==
  ASSUME TypeOK, NEW t \in Threads, pc[t] \notin InLock, NEW at \in Stages \ InLock,
         Goto(t, at), call' \in [Threads -> Calls],
         UNCHANGED <<caching, up, files, store, owner, terminal, expired, broken>>
  PROVE  TypeOK'
<1>1. ~expired => ~broken /\ owner # t
  BY DEF TypeOK
<1>2. store' \in Stores /\ owner' \in Threads \cup {Free}
      /\ expired' \in BOOLEAN /\ broken' \in BOOLEAN /\ UNCHANGED <<caching, up, files, terminal>>
  BY Types
<1>3. at \in Stages
  OBVIOUS
<1>4. ~expired' => /\ ~expired /\ ~broken'
                   /\ at \in InLock <=> owner' = t
                   /\ \A u \in Threads \ {t} : owner' = u <=> owner = u
  BY <1>1
<1> QED BY <1>2, <1>3, <1>4, ThreadTypes

(* A step of a call keeps the types.                                        *)
LEMMA TypeCall ==
  ASSUME IInv, NEW t \in Threads, CallStep(t)
  PROVE  TypeOK'
<1>1. TypeOK
  BY DEF IInv
<1>2. /\ store \in Stores /\ owner \in Threads \cup {Free}
      /\ pc \in [Threads -> Stages] /\ call \in [Threads -> Calls]
      /\ call[t] \in Calls /\ File(t) \in Files /\ disk[File(t)] \in Contents
      /\ Cached(t) \in Contents \cup {NoEntry} /\ 0 \in Contents
      /\ expired \in BOOLEAN /\ broken \in BOOLEAN
  BY <1>1, Types
<1>3. CASE TryLockFor(t)
  <2>1. PICK at \in InLock : Goto(t, at)
    <3>1. pc[t] \in {"stat", "put", "get"} /\ Goto(t, Inside[pc[t]])
      BY <1>3 DEF TryLockFor, Waits
    <3>2. Inside["stat"] = "stat in" /\ Inside["put"] = "put in" /\ Inside["get"] = "get in"
      BY DEF Inside
    <3>3. Inside[pc[t]] \in InLock
      BY <3>1, <3>2 DEF InLock
    <3> QED BY <3>1, <3>3
  <2>2. owner' \in Threads \cup {Free} /\ expired' \in BOOLEAN /\ broken' \in BOOLEAN
    BY <1>2, <1>3 DEF TryLockFor
  <2>3. ASSUME ~expired'
        PROVE  ~expired /\ ~broken' /\ owner' = t /\ owner = Free
    <3>1. ~expired /\ owner' = t /\ owner = Free
      BY <1>3, <2>3 DEF TryLockFor
    <3>2. ~broken /\ \A u \in Threads : pc[u] \notin InLock
      BY <1>1, <3>1 DEF TypeOK
    <3>3. ~broken'
      BY <1>3, <3>2 DEF TryLockFor, Race
    <3> QED BY <3>1, <3>3
  <2>4. call' = call /\ store' = store /\ UNCHANGED <<caching, up, files, terminal>>
    BY <1>3 DEF TryLockFor
  <2>5. at \in Stages
    BY DEF Stages
  <2> QED BY <1>1, <1>2, <2>1, <2>2, <2>3, <2>4, <2>5, ThreadTypes
<1>4. CASE StatHid(t)
  <2>1. PICK at \in {"read", "get"} : Unlock(t, at)
    BY <1>4 DEF StatHid
  <2>2. pc[t] \in InLock /\ at \in Stages \ InLock
    BY <1>4 DEF StatHid, InLock, Stages, Waits
  <2>3. UNCHANGED <<caching, up, files, store, call, terminal, expired, broken>>
    BY <1>4 DEF StatHid
  <2> QED BY <1>1, <1>2, <2>1, <2>2, <2>3, Unlocks, ThreadTypes
<1>5. CASE ReadFile(t)
  <2>1. PICK at \in {"put", "get"} : Goto(t, at)
    BY <1>5 DEF ReadFile
  <2>2. pc[t] \notin InLock /\ at \in Stages \ InLock
    BY <1>5 DEF ReadFile, InLock, Stages, Waits
  <2>3. call' = [call EXCEPT ![t].data = disk[File(t)]]
        /\ UNCHANGED <<caching, up, files, store, owner, terminal, expired, broken>>
    BY <1>5 DEF ReadFile
  <2>4. call' \in [Threads -> Calls]
    BY <1>2, <2>3 DEF Calls
  <2> QED BY <1>1, <2>1, <2>2, <2>3, <2>4, OutsideTypes
<1>6. CASE Put(t)
  <2>1. Unlock(t, "get") /\ pc[t] \in InLock /\ "get" \in Stages \ InLock
    BY <1>6 DEF Put, InLock, Stages, Waits
  <2>2. UNCHANGED <<caching, up, files, call, terminal, expired, broken>>
        /\ store' = [store EXCEPT ![File(t)] = call[t].data]
    BY <1>6 DEF Put
  <2>3. store' \in Stores
    BY <1>2, <2>2 DEF Calls, Stores
  <2> QED BY <1>1, <1>2, <2>1, <2>2, <2>3, Unlocks, ThreadTypes
<1>7. CASE Get(t)
  <2>1. Unlock(t, "answered") /\ pc[t] \in InLock /\ "answered" \in Stages \ InLock
    BY <1>7 DEF Get, InLock, Stages, Waits
  <2>2. UNCHANGED <<caching, up, files, terminal, expired, broken>>
        /\ store' = [store EXCEPT ![File(t)] = Entry(t)]
    BY <1>7 DEF Get
  <2>3. Entry(t) \in Contents
    BY <1>2 DEF Entry
  <2>4. PICK found \in Contents : call' = [call EXCEPT ![t].answer = found]
    BY <1>7, <2>3 DEF Get
  <2>5. store' \in Stores
    BY <1>2, <2>2, <2>3 DEF Stores
  <2>6. call' \in [Threads -> Calls]
    BY <1>2, <2>4 DEF Calls
  <2> QED BY <1>1, <1>2, <2>1, <2>2, <2>5, <2>6, Unlocks, ThreadTypes
<1>8. CASE GetUncached(t)
  <2>1. pc[t] \notin InLock /\ Goto(t, "answered") /\ "answered" \in Stages \ InLock
    BY <1>8 DEF GetUncached, InLock, Stages, Waits
  <2>2. call' = [call EXCEPT ![t].answer = disk[File(t)]]
        /\ UNCHANGED <<caching, up, files, store, owner, terminal, expired, broken>>
    BY <1>8 DEF GetUncached
  <2>3. call' \in [Threads -> Calls]
    BY <1>2, <2>2 DEF Calls
  <2> QED BY <1>1, <2>1, <2>2, <2>3, OutsideTypes
<1>9. CASE Answered(t)
  <2>1. pc[t] \notin InLock /\ Goto(t, "idle") /\ "idle" \in Stages \ InLock
    BY <1>9 DEF Answered, InLock, Stages, Waits
  <2>2. call' = [call EXCEPT ![t] = NoCall(1)]
        /\ UNCHANGED <<caching, up, files, store, owner, terminal, expired, broken>>
    BY <1>9 DEF Answered
  <2>3. NoCall(1) \in Calls
    BY <1>2 DEF NoCall, Calls, Files
  <2>4. call' \in [Threads -> Calls]
    BY <1>2, <2>2, <2>3
  <2> QED BY <1>1, <2>1, <2>2, <2>4, OutsideTypes
<1>10. CASE Corrupted(t)
  <2>1. broken /\ expired /\ up' \in BOOLEAN
        /\ UNCHANGED <<caching, files, store, owner, call, terminal, expired, broken>>
    BY <1>1, <1>10, Types DEF Corrupted, TypeOK
  <2>2. pc' \in [Threads -> Stages]
    BY <1>2, <1>10 DEF Corrupted, Goto, Stages
  <2> QED BY <1>1, <2>1, <2>2 DEF TypeOK, Stages, files
<1> QED BY <1>3, <1>4, <1>5, <1>6, <1>7, <1>8, <1>9, <1>10 DEF CallStep

-----------------------------------------------------------------------------
(* What a thread knows and what is in the map.                              *)

(* A step of a call leaves the files and the other calls alone, and the     *)
(* call goes on about its file.                                             *)
LEMMA CallLeaves ==
  ASSUME TypeOK, NEW t \in Threads, CallStep(t)
  PROVE  /\ caching' = caching /\ disk' = disk /\ past' = past
         /\ broken => broken'
         /\ \A u \in Threads \ {t} : /\ pc'[u] = pc[u] /\ call'[u] = call[u]
                                     /\ File(u)' = File(u)
         /\ pc'[t] # "idle" => /\ pc[t] # "idle" /\ File(t)' = File(t)
                               /\ call'[t].since = call[t].since
<1>1. pc \in [Threads -> Stages] /\ call \in [Threads -> Calls] /\ call[t] \in Calls
  BY Types
<1>2. /\ caching' = caching /\ disk' = disk /\ past' = past
      /\ broken => broken'
      /\ \A u \in Threads \ {t} : pc'[u] = pc[u] /\ call'[u] = call[u]
  <2>1. caching' = caching /\ disk' = disk /\ past' = past /\ (broken => broken')
    <3>1. UNCHANGED <<caching, files>> /\ (broken' = broken \/ TryLockFor(t))
      <4>1. CASE TryLockFor(t)
        BY <4>1 DEF TryLockFor
      <4>2. CASE StatHid(t)
        BY <4>2, Zenon DEF StatHid
      <4>3. CASE ReadFile(t)
        BY <4>3, Zenon DEF ReadFile
      <4>4. CASE Put(t)
        BY <4>4, Zenon DEF Put
      <4>5. CASE Get(t)
        BY <4>5, Zenon DEF Get
      <4>6. CASE GetUncached(t)
        BY <4>6, Zenon DEF GetUncached
      <4>7. CASE Answered(t)
        BY <4>7, Zenon DEF Answered
      <4>8. CASE Corrupted(t)
        BY <4>8, Zenon DEF Corrupted
      <4> QED BY <4>1, <4>2, <4>3, <4>4, <4>5, <4>6, <4>7, <4>8, Zenon DEF CallStep
    <3>2. TryLockFor(t) => (broken => broken')
      BY Zenon DEF TryLockFor
    <3>3. caching' = caching /\ disk' = disk /\ past' = past
      BY <3>1 DEF files
    <3>4. broken => broken'
      BY <3>1, <3>2, Zenon
    <3> QED BY <3>3, <3>4, Zenon
  <2>2. pc' = pc \/ \E at : Goto(t, at)
    BY DEF CallStep, TryLockFor, StatHid, ReadFile, Put, Get, GetUncached, Answered,
           Corrupted, Unlock
  <2>3. call' = call \/ \E new : call' = [call EXCEPT ![t] = new]
    <3>1. CASE Get(t)
      BY <3>1 DEF Get
    <3>2. CASE ReadFile(t)
      BY <3>2 DEF ReadFile
    <3>3. CASE GetUncached(t)
      BY <3>3 DEF GetUncached
    <3>4. CASE Answered(t)
      BY <3>4 DEF Answered
    <3>5. CASE TryLockFor(t) \/ StatHid(t) \/ Put(t) \/ Corrupted(t)
      BY <3>5 DEF TryLockFor, StatHid, Put, Corrupted
    <3> QED BY <3>1, <3>2, <3>3, <3>4, <3>5 DEF CallStep
  <2> QED BY <1>1, <2>1, <2>2, <2>3 DEF Goto
<1>3. pc'[t] # "idle" => /\ pc[t] # "idle" /\ call'[t].file = call[t].file
                         /\ call'[t].since = call[t].since
  <2>1. CASE TryLockFor(t) \/ StatHid(t) \/ Put(t) \/ Corrupted(t)
    <3>1. call' = call
      BY <2>1, Zenon DEF TryLockFor, StatHid, Put, Corrupted
    <3>2. pc[t] \in Waits \cup {"stat in", "put in"} \cup InLock
      <4>1. CASE Corrupted(t)
        BY <4>1 DEF Corrupted
      <4>2. CASE TryLockFor(t)
        BY <4>2 DEF TryLockFor
      <4>3. CASE StatHid(t) \/ Put(t)
        BY <4>3 DEF StatHid, Put
      <4> QED BY <2>1, <4>1, <4>2, <4>3
    <3> QED BY <3>1, <3>2 DEF Waits, InLock
  <2>2. CASE ReadFile(t)
    BY <1>1, <2>2 DEF ReadFile, Calls
  <2>3. CASE Get(t)
    <3>1. PICK found : call' = [call EXCEPT ![t].answer = found]
      BY <2>3, Zenon DEF Get
    <3>2. call'[t] = [call[t] EXCEPT !.answer = found]
      BY <1>1, <3>1
    <3>3. call'[t].file = call[t].file /\ call'[t].since = call[t].since
      BY <1>1, <3>2 DEF Calls
    <3>4. pc[t] = "get in"
      BY <2>3, Zenon DEF Get
    <3> QED BY <3>3, <3>4
  <2>4. CASE GetUncached(t)
    BY <1>1, <2>4 DEF GetUncached, Calls
  <2>5. CASE Answered(t)
    BY <1>1, <2>5 DEF Answered, Goto
  <2> QED BY <2>1, <2>2, <2>3, <2>4, <2>5, Zenon DEF CallStep
<1> QED BY <1>2, <1>3 DEF File

(* The map gets entries of what files contained, and loses none.            *)
LEMMA EntriesCall ==
  ASSUME IInv, NEW t \in Threads, CallStep(t)
  PROVE  /\ Entries'
         /\ \A f \in Files : store[f] # NoEntry => store'[f] # NoEntry
<1>1. TypeOK /\ Knows /\ Entries
  BY DEF IInv
<1>2. /\ store \in Stores /\ past \in [Files -> SUBSET Contents]
      /\ File(t) \in Files /\ NoEntry \notin Contents /\ call[t] \in Calls
      /\ disk' = disk /\ past' = past /\ (broken => broken')
  BY <1>1, Types, CallLeaves
<1>3. CASE store' = store
  BY <1>1, <1>2, <1>3 DEF Entries, EntryOf
<1>4. CASE Put(t)
  <2>1. call[t].data \in past[File(t)] /\ call[t].data # NoEntry
    BY <1>1, <1>2, <1>4 DEF Put, Knows, KnowsOf
  <2>2. store' = [store EXCEPT ![File(t)] = call[t].data] /\ broken' = broken
    BY <1>4 DEF Put
  <2> QED BY <1>1, <1>2, <2>1, <2>2 DEF Entries, EntryOf, Stores
<1>5. CASE Get(t)
  <2>1. store' = [store EXCEPT ![File(t)] = Entry(t)] /\ broken' = broken
    BY <1>5 DEF Get
  <2>2. Entry(t) # NoEntry /\ (Cached(t) # NoEntry => Entry(t) = store[File(t)])
    BY <1>2 DEF Entry, Cached, NoEntry
  <2>3. ~broken => Cached(t) # NoEntry
    BY <1>1, <1>5 DEF Get, Knows, KnowsOf
  <2> QED BY <1>1, <1>2, <2>1, <2>2, <2>3 DEF Entries, EntryOf, Stores
<1> QED BY <1>3, <1>4, <1>5 DEF CallStep, TryLockFor, StatHid, ReadFile, GetUncached,
                                Answered, Corrupted

(* A step of its own call keeps what a thread knows, and does not touch     *)
(* what others know.                                                        *)
LEMMA KnowsCall ==
  ASSUME IInv, NEW t \in Threads, CallStep(t)
  PROVE  Knows' /\ AnswersAreFiles'
<1>1. TypeOK /\ Knows /\ Entries /\ \A u \in Threads : AnswerOf(u)
  BY DEF IInv, AnswersAreFiles, AnswerOf
<1>2. /\ pc \in [Threads -> Stages] /\ call \in [Threads -> Calls] /\ call[t] \in Calls
      /\ store \in Stores /\ \A u \in Threads : File(u) \in Files
  BY <1>1, Types
<1>3. /\ caching' = caching /\ disk' = disk /\ past' = past
      /\ broken => broken'
      /\ \A u \in Threads \ {t} : /\ pc'[u] = pc[u] /\ call'[u] = call[u]
                                  /\ File(u)' = File(u)
      /\ pc'[t] # "idle" => /\ pc[t] # "idle" /\ File(t)' = File(t)
                            /\ call'[t].since = call[t].since
  BY <1>1, CallLeaves
<1>4. \A u \in Threads : File(u)' = File(u) /\ Cached(u) # NoEntry => Cached(u)' # NoEntry
  BY <1>2, EntriesCall DEF Cached
<1>5. ASSUME NEW u \in Threads, u # t
      PROVE  KnowsOf(u)' /\ AnswerOf(u)'
  BY <1>1, <1>3, <1>4, <1>5 DEF Knows, KnowsOf, AnswerOf
<1>6. pc'[t] # "idle" /\ ~caching' => disk'[File(t)'] \in call'[t].since
  BY <1>1, <1>3 DEF Knows, KnowsOf
<1>7. /\ pc'[t] \in {"put", "put in"} => caching' /\ call'[t].data \in past'[File(t)']
      /\ pc'[t] = "get in" => caching'
      /\ pc'[t] \in {"get", "get in"} /\ caching' /\ ~broken' => Cached(t)' # NoEntry
      /\ AnswerOf(t)'
  <2>1. CASE TryLockFor(t)
    <3>1. /\ pc[t] \in {"stat", "put", "get"} /\ pc' = [pc EXCEPT ![t] = Inside[pc[t]]]
          /\ pc[t] = "get" => caching
          /\ call' = call /\ store' = store
      BY <2>1 DEF TryLockFor, Waits, Goto
    <3>2. Inside["stat"] = "stat in" /\ Inside["put"] = "put in" /\ Inside["get"] = "get in"
      BY DEF Inside
    <3> QED BY <1>1, <1>2, <1>3, <1>4, <3>1, <3>2 DEF Knows, KnowsOf, AnswerOf
  <2>2. CASE StatHid(t)
    <3>1. /\ \/ pc'[t] = "read"
             \/ pc'[t] = "get" /\ (broken \/ Cached(t) # NoEntry)
      BY <1>2, <2>2 DEF StatHid, Unlock, Goto
    <3> QED BY <1>3, <1>4, <3>1 DEF AnswerOf
  <2>3. CASE ReadFile(t)
    <3>1. /\ pc[t] = "read" /\ pc'[t] = IF caching THEN "put" ELSE "get"
          /\ call'[t].data = disk[File(t)]
      BY <1>2, <2>3 DEF ReadFile, Goto, Calls
    <3>2. disk[File(t)] \in past[File(t)]
      BY <1>1, <1>2 DEF Entries, EntryOf
    <3> QED BY <1>3, <3>1, <3>2 DEF AnswerOf
  <2>4. CASE Put(t)
    <3>1. pc'[t] = "get" /\ pc[t] = "put in" /\ store'[File(t)] = call[t].data
      BY <1>2, <2>4 DEF Put, Unlock, Goto, Stores
    <3>2. call[t].data \in Contents
      BY <1>1, <1>2, <3>1, Types DEF Knows, KnowsOf
    <3>3. Cached(t)' # NoEntry
      BY <1>1, <1>3, <3>1, <3>2, Types DEF Cached
    <3> QED BY <3>1, <3>3 DEF AnswerOf
  <2>5. CASE Get(t)
    <3>1. /\ pc'[t] = "answered" /\ pc[t] = "get in" /\ broken' = broken
          /\ ~broken => call'[t].answer = Entry(t)
      <4>1. pc'[t] = "answered" /\ pc[t] = "get in" /\ broken' = broken
        BY <1>2, <2>5 DEF Get, Unlock, Goto
      <4>2. PICK found \in IF broken THEN Contents ELSE {Entry(t)} :
              call' = [call EXCEPT ![t].answer = found]
        BY <2>5 DEF Get
      <4>3. call'[t].answer = found
        BY <1>2, <4>2 DEF Calls
      <4> QED BY <4>1, <4>2, <4>3
    <3>2. caching /\ (~broken => Cached(t) # NoEntry)
      BY <1>1, <3>1 DEF Knows, KnowsOf
    <3>3. ~broken => Entry(t) \in past[File(t)]
      BY <1>1, <1>2, <3>2 DEF Entries, EntryOf, Entry, Cached
    <3> QED BY <1>3, <3>1, <3>2, <3>3 DEF AnswerOf
  <2>6. CASE GetUncached(t)
    <3>1. /\ pc'[t] = "answered" /\ pc[t] = "get" /\ ~caching
          /\ call'[t].answer = disk[File(t)]
      BY <1>2, <2>6 DEF GetUncached, Goto, Calls
    <3>2. disk[File(t)] \in call[t].since
      BY <1>1, <3>1 DEF Knows, KnowsOf
    <3> QED BY <1>3, <3>1, <3>2 DEF AnswerOf
  <2>7. CASE Answered(t)
    <3>1. pc'[t] = "idle"
      BY <1>2, <2>7 DEF Answered, Goto
    <3> QED BY <3>1 DEF AnswerOf
  <2>8. CASE Corrupted(t)
    <3>1. broken /\ pc[t] \in InLock /\ pc'[t] \in {"lost", pc[t]} /\ call' = call
      BY <1>2, <2>8 DEF Corrupted, Goto
    <3> QED BY <1>1, <1>3, <3>1 DEF Knows, KnowsOf, AnswerOf, InLock
  <2> QED BY <2>1, <2>2, <2>3, <2>4, <2>5, <2>6, <2>7, <2>8 DEF CallStep
<1>8. \A u \in Threads : KnowsOf(u)' /\ AnswerOf(u)'
  BY <1>5, <1>6, <1>7 DEF KnowsOf
<1> QED BY <1>8 DEF Knows, AnswersAreFiles, AnswerOf

-----------------------------------------------------------------------------
(* Steps of others.                                                         *)

(* A call begins.                                                           *)
LEMMA BeginHolds ==
  ASSUME IInv, NEW t \in Threads, NEW f \in Files, GetFileAutocache(t, f)
  PROVE  IInv'
<1>1. /\ TypeOK /\ call \in [Threads -> Calls] /\ pc \in [Threads -> Stages]
      /\ disk[f] \in Contents /\ pc[t] = "idle"
  BY Types DEF IInv, GetFileAutocache
<1> DEFINE new == [NoCall(f) EXCEPT !.since = IF caching THEN {} ELSE {disk[f]}]
<1>2. new \in Calls /\ new.file = f /\ (~caching => disk[f] \in new.since)
  BY <1>1 DEF NoCall, Calls, Contents
<1>3. /\ call' = [call EXCEPT ![t] = new] /\ Goto(t, "stat")
      /\ UNCHANGED <<caching, up, files, store, owner, terminal, expired, broken>>
  BY DEF GetFileAutocache
<1> HIDE DEF new
<1>4. /\ call' \in [Threads -> Calls] /\ call'[t] = new
      /\ \A u \in Threads \ {t} : call'[u] = call[u] /\ pc'[u] = pc[u]
      /\ pc'[t] = "stat"
  BY <1>1, <1>2, <1>3 DEF Goto
<1>5. TypeOK'
  <2>1. pc[t] \notin InLock /\ "stat" \in Stages \ InLock
    BY <1>1 DEF InLock, Stages, Waits
  <2> QED BY <1>1, <1>3, <1>4, <2>1, OutsideTypes
<1>6. disk' = disk /\ past' = past
  BY <1>3 DEF files
<1>7. Knows'
  BY <1>2, <1>3, <1>4, <1>6 DEF IInv, Knows, KnowsOf, Cached, File
<1>8. AnswersAreFiles'
  BY <1>3, <1>4, <1>6 DEF IInv, AnswersAreFiles, File
<1>9. Entries'
  BY <1>3, <1>6 DEF IInv, Entries, EntryOf
<1> QED BY <1>5, <1>7, <1>8, <1>9 DEF IInv

(* A file has another content.                                              *)
LEMMA ContentHolds ==
  ASSUME IInv, NEW f \in Files, NEW content \in Contents, Contains(f, content),
         edition' \in NumFiles .. NumFiles + MaxEdits
  PROVE  IInv'
<1>1. /\ TypeOK /\ call \in [Threads -> Calls] /\ disk \in [Files -> Contents]
      /\ past \in [Files -> SUBSET Contents] /\ \A t \in Threads : File(t) \in Files
  BY Types DEF IInv
<1>2. /\ disk' = [disk EXCEPT ![f] = content]
      /\ past' = [past EXCEPT ![f] = @ \cup {content}]
      /\ UNCHANGED <<caching, up, store, owner, pc, terminal, expired, broken>>
  BY DEF Contains
<1>3. ASSUME NEW t \in Threads
      PROVE  /\ call'[t] \in Calls
             /\ call'[t].file = call[t].file /\ call'[t].data = call[t].data
             /\ call'[t].answer = call[t].answer
             /\ call[t].since \subseteq call'[t].since
             /\ pc[t] # "idle" /\ ~caching /\ File(t) = f => content \in call'[t].since
  <2>1. call[t] \in Calls
    BY <1>1
  <2> DEFINE new == [call[t] EXCEPT !.since = @ \cup {content}]
  <2>2. /\ new \in Calls /\ new.file = call[t].file /\ new.data = call[t].data
        /\ new.answer = call[t].answer /\ new.since = call[t].since \cup {content}
    BY <2>1 DEF Calls
  <2>3. call'[t] = IF ~caching /\ pc[t] # "idle" /\ File(t) = f THEN new ELSE call[t]
    BY DEF Contains
  <2> HIDE DEF new
  <2>4. CASE ~caching /\ pc[t] # "idle" /\ File(t) = f
    BY <2>2, <2>3, <2>4
  <2>5. CASE ~(~caching /\ pc[t] # "idle" /\ File(t) = f)
    BY <2>1, <2>3, <2>5
  <2> QED BY <2>4, <2>5
<1>4. call' \in [Threads -> Calls]
  <2>1. call' = [t \in Threads |-> call'[t]]
    BY DEF Contains
  <2> QED BY <1>3, <2>1
<1>5. /\ disk' \in [Files -> Contents] /\ past' \in [Files -> SUBSET Contents]
      /\ \A g \in Files : past[g] \subseteq past'[g]
      /\ disk'[f] = content /\ content \in past'[f]
      /\ \A g \in Files \ {f} : disk'[g] = disk[g]
  BY <1>1, <1>2
<1>6. TypeOK'
  BY <1>1, <1>2, <1>4, <1>5 DEF TypeOK, Calls
<1>7. \A t \in Threads : File(t)' = File(t) /\ Cached(t)' = Cached(t)
  BY <1>2, <1>3 DEF File, Cached
<1>8. Knows'
  <2> SUFFICES ASSUME NEW t \in Threads PROVE KnowsOf(t)'
    BY DEF Knows
  <2>1. KnowsOf(t)
    BY DEF IInv, Knows
  <2>2. pc[t] # "idle" /\ ~caching => disk'[File(t)] \in call'[t].since
    BY <1>1, <1>3, <1>5, <2>1 DEF KnowsOf
  <2>3. past[File(t)] \subseteq past'[File(t)]
    BY <1>1, <1>5
  <2> QED BY <1>2, <1>3, <1>7, <2>1, <2>2, <2>3 DEF KnowsOf
<1>9. Entries'
  BY <1>2, <1>5 DEF IInv, Entries, EntryOf
<1>10. AnswersAreFiles'
  <2> SUFFICES ASSUME NEW t \in Threads PROVE AnswerOf(t)'
    BY DEF AnswersAreFiles, AnswerOf
  <2>1. AnswerOf(t)
    BY DEF IInv, AnswersAreFiles, AnswerOf
  <2>2. past[File(t)] \subseteq past'[File(t)]
    BY <1>1, <1>5
  <2> QED BY <1>2, <1>3, <1>7, <2>1, <2>2 DEF AnswerOf
<1> QED BY <1>6, <1>8, <1>9, <1>10 DEF IInv

(* Every step keeps it all.                                                 *)
LEMMA NextHolds == IInv /\ [Next]_vars => IInv'
<1>1. ASSUME IInv, NEW t \in Threads, CallStep(t) PROVE IInv'
  BY <1>1, TypeCall, KnowsCall, EntriesCall DEF IInv
<1>2. ASSUME IInv, NEW f \in Files, Truncate(f) PROVE IInv'
  <2>1. 0 \in Contents /\ Contains(f, 0) /\ edition' \in NumFiles .. NumFiles + MaxEdits
    BY <1>2 DEF Truncate, Contents, IInv, TypeOK
  <2> QED BY <1>2, <2>1, ContentHolds
<1>3. ASSUME IInv, NEW f \in Files, Save(f) PROVE IInv'
  <2>1. edition \in NumFiles .. NumFiles + MaxEdits
    BY <1>3 DEF IInv, TypeOK
  <2>2. /\ edition + 1 \in NumFiles .. NumFiles + MaxEdits /\ edition + 1 \in Contents
        /\ edition' = edition + 1 /\ Contains(f, edition + 1)
    BY <1>3, <2>1 DEF Save, MayEdit, Contents
  <2> QED BY <1>3, <2>2, ContentHolds
<1>4. ASSUME IInv, Recache \/ SyncEnds \/ ShellEnds PROVE IInv'
  <2>1. /\ UNCHANGED <<caching, files, store, owner, pc, call, expired, broken>>
        /\ terminal' \in {"prompt", "sync", "shell"} /\ up' \in BOOLEAN
    BY <1>4 DEF Recache, SyncEnds, ShellEnds, TerminalGoes, IInv, TypeOK
  <2>2. TypeOK'
    BY <1>4, <2>1 DEF IInv, TypeOK, files
  <2>3. Knows' /\ AnswersAreFiles' /\ Entries'
    BY <1>4, <2>1 DEF IInv, Knows, KnowsOf, AnswersAreFiles, Entries, EntryOf, Cached, File, files
  <2> QED BY <2>2, <2>3 DEF IInv
<1>5. ASSUME IInv, UNCHANGED vars PROVE IInv'
  BY <1>5 DEF vars, IInv, TypeOK, Knows, KnowsOf, Entries, EntryOf, AnswersAreFiles, Cached, File
<1> QED BY <1>1, <1>2, <1>3, <1>4, <1>5, BeginHolds DEF Next

-----------------------------------------------------------------------------
(* The types are kept, and until a try_lock_for fails there is one thread   *)
(* at a time in the map, which is not broken.                               *)
THEOREM RamFSTypeCorrect == Spec => []TypeOK
<1>1. IInv => TypeOK
  BY DEF IInv
<1> QED BY <1>1, InitHolds, NextHolds, PTL DEF Spec

(* Every answer is what its own file contained: while the request was       *)
(* served in a build without cache, whatever locks have failed; with a      *)
(* cache at some time, as the entry that get() looks for is there and holds *)
(* what was read from that file, until the map is broken.                   *)
THEOREM AnswersStayFiles == Spec => []AnswersAreFiles
<1>1. IInv => AnswersAreFiles
  BY DEF IInv
<1> QED BY <1>1, InitHolds, NextHolds, PTL DEF Spec

(* An entry is for ever, whoever edits or recaches.                         *)
THEOREM CachedStaysForEver == Spec => CachedForEver
<1>1. IInv /\ [Next]_vars =>
        [\A f \in Files :
           /\ store[f] # NoEntry /\ ~broken
           /\ \A t \in Threads : File(t) = f => pc[t] \notin {"read", "put", "put in"}
           => store'[f] = store[f]]_vars
  <2> SUFFICES ASSUME IInv, Next, NEW f \in Files, store[f] # NoEntry,
                      \A t \in Threads : File(t) = f => pc[t] \notin {"read", "put", "put in"}
               PROVE  store'[f] = store[f]
    OBVIOUS
  <2>1. store \in Stores /\ \A t \in Threads : File(t) \in Files
    BY Types DEF IInv
  <2>2. ASSUME NEW t \in Threads, Put(t) PROVE store'[f] = store[f]
    <3>1. File(t) # f /\ store' = [store EXCEPT ![File(t)] = call[t].data]
      BY <2>2 DEF Put
    <3> QED BY <2>1, <3>1 DEF Stores
  <2>3. ASSUME NEW t \in Threads, Get(t) PROVE store'[f] = store[f]
    BY <2>1, <2>3 DEF Get, Stores, Entry, Cached
  <2>4. CASE store' = store
    BY <2>4
  <2> QED BY <2>2, <2>3, <2>4 DEF Next, CallStep, TryLockFor, StatHid, ReadFile, GetUncached,
             Answered, Corrupted, GetFileAutocache, Truncate, Save, Contains, TerminalGoes,
             Recache, SyncEnds, ShellEnds, files
<1> QED BY <1>1, InitHolds, NextHolds, PTL DEF Spec, CachedForEver
=============================================================================
