-------------------------------- MODULE RamFS --------------------------------
(***************************************************************************)
(* ramfs (RAMFS.cxx): the cache of the files in res/, which connection     *)
(* threads ask by get_file_autocache while somebody edits the files and    *)
(* somebody types recache at the terminal.                                 *)
(*                                                                         *)
(* What try_lock_for returns is ignored: a thread that has waited too long *)
(* goes on as if it had the mutex, and unlocks it.  With glibc that frees  *)
(* the mutex, whoever has it.  Two threads may then be in the map at once; *)
(* if one of them writes, the map is (broken): whatever is read there is   *)
(* arbitrary, and a thread may stay in it for ever or the process end.     *)
(***************************************************************************)
EXTENDS Integers

CONSTANTS
  Threads,   \* connection threads
  Stuck,     \* those that may stay for ever where they are
  NumFiles,  \* number of paths
  MaxEdits,  \* bound on the editions that are saved
  Builds,    \* with cache or without, the builds to look at
  Free       \* nobody has the mutex

ASSUME RamFSAssumption ==
  /\ Free \notin Threads /\ Stuck \subseteq Threads /\ Builds \subseteq BOOLEAN
  /\ NumFiles \in Nat \ {0} /\ MaxEdits \in Nat

VARIABLES
  caching,  \* DISABLE_FILECACHE is not defined in this build
  up,       \* the process runs
  disk,     \* file -> its content
  edition,  \* the last content that was saved
  store,    \* filesystem of server.cxx: file -> cached content
  owner,    \* who has its mtx
  pc, call, \* thread -> where it is, and in which call of get_file_autocache
  terminal, \* where the terminal is: at its prompt, in sync(), in system()
  past,     \* history: file -> what it has contained
  expired,  \* history: a try_lock_for has failed
  broken    \* history: a thread wrote in the map while another was in it

vars == <<caching, up, disk, edition, store, owner, pc, call, terminal,
          past, expired, broken>>
files == <<disk, edition, past>>

Files    == 1 .. NumFiles
NoEntry  == -1
\* No two files ever have the same content, except 0: empty, or not there.
Contents == 0 .. NumFiles + MaxEdits

Waits  == {"stat", "put", "get"}           \* before try_lock_for
Inside == [stat |-> "stat in", put |-> "put in", get |-> "get in"]
InLock == {"stat in", "put in", "get in"}  \* with the mutex, or so they think

\* since: in a build without cache, what the file has contained since the
\* call began.
NoCall(f) == [file |-> f, data |-> NoEntry, answer |-> 0, since |-> {}]

\* definitions.hxx:6 defines DISABLE_FILECACHE: the build as it is committed
\* has no cache.
Init ==
  /\ caching \in Builds
  /\ up = TRUE /\ terminal = "prompt"
  /\ disk = [f \in Files |-> f] /\ edition = NumFiles
  /\ store = [f \in Files |-> NoEntry]
  /\ owner = Free
  /\ pc = [t \in Threads |-> "idle"] /\ call = [t \in Threads |-> NoCall(1)]
  /\ past = [f \in Files |-> {f}]
  /\ expired = FALSE /\ broken = FALSE

Goto(t, at) == pc' = [pc EXCEPT ![t] = at]
File(t)     == call[t].file
Cached(t)   == store[File(t)]

-----------------------------------------------------------------------------
(* get_file_autocache *)

GetFileAutocache(t, f) ==
  /\ up /\ pc[t] = "idle" /\ Goto(t, "stat")
  /\ call' = [call EXCEPT ![t] =
       [NoCall(f) EXCEPT !.since = IF caching THEN {} ELSE {disk[f]}]]
  /\ UNCHANGED <<caching, up, files, store, owner, terminal, expired, broken>>

\* Mutant: lock() in place of try_lock_for().
Lock(t) ==
  /\ pc[t] \in Waits /\ owner = Free
  /\ owner' = t
  /\ Goto(t, Inside[pc[t]])
  /\ UNCHANGED <<caching, up, files, store, call, terminal, expired, broken>>

\* Two threads in the map of which one writes: get() always finds its entry.
Race(t) ==
  \E u \in Threads \ {t} : /\ pc[u] \in InLock
                           /\ pc[t] = "put" \/ pc[u] = "put in"

\* After MUTEX_TIMEOUT the thread goes on without the mutex.
TryLockFor(t) ==
  /\ pc[t] \in Waits /\ (pc[t] = "get" => caching)
  /\ owner' = IF owner = Free THEN t ELSE owner
  /\ expired' = (expired \/ owner # Free)
  /\ broken' = (broken \/ Race(t))
  /\ Goto(t, Inside[pc[t]])
  /\ UNCHANGED <<caching, up, files, store, call, terminal>>

Unlock(t, at) == owner' = Free /\ Goto(t, at)

\* Mutant: what is not there is not put.
StatHidOnly(t) ==
  /\ pc[t] = "stat in" /\ Unlock(t, IF caching THEN "get" ELSE "read")
  /\ UNCHANGED <<caching, up, files, store, call, terminal, expired, broken>>

StatHid(t) ==
  /\ pc[t] = "stat in"
  /\ \/ (broken \/ Cached(t) = NoEntry) /\ Unlock(t, "read")
     \/ (broken \/ Cached(t) # NoEntry) /\ Unlock(t, "get")
  /\ UNCHANGED <<caching, up, files, store, call, terminal, expired, broken>>

\* put() does nothing in a build without cache.
ReadFile(t) ==
  /\ pc[t] = "read" /\ Goto(t, IF caching THEN "put" ELSE "get")
  /\ call' = [call EXCEPT ![t].data = disk[File(t)]]
  /\ UNCHANGED <<caching, up, files, store, owner, terminal, expired, broken>>

\* Mutant: the mutex is not unlocked.
PutKeepsLock(t) ==
  /\ pc[t] = "put in" /\ Goto(t, "get")
  /\ store' = [store EXCEPT ![File(t)] = call[t].data]
  /\ UNCHANGED <<caching, up, files, owner, call, terminal, expired, broken>>

Put(t) ==
  /\ pc[t] = "put in" /\ Unlock(t, "get")
  /\ store' = [store EXCEPT ![File(t)] = call[t].data]
  /\ UNCHANGED <<caching, up, files, call, terminal, expired, broken>>

\* filesystem[file_location] makes an empty entry if there is none.
Entry(t) == IF Cached(t) = NoEntry THEN 0 ELSE Cached(t)

\* Mutant: the answer is moved out of the map.
GetMoves(t) ==
  /\ pc[t] = "get in" /\ Unlock(t, "answered")
  /\ call' = [call EXCEPT ![t].answer = Entry(t)]
  /\ store' = [store EXCEPT ![File(t)] = 0]
  /\ UNCHANGED <<caching, up, files, terminal, expired, broken>>

Get(t) ==
  /\ pc[t] = "get in" /\ Unlock(t, "answered")
  /\ \E found \in IF broken THEN Contents ELSE {Entry(t)} :
       call' = [call EXCEPT ![t].answer = found]
  /\ store' = [store EXCEPT ![File(t)] = Entry(t)]
  /\ UNCHANGED <<caching, up, files, terminal, expired, broken>>

GetUncached(t) ==
  /\ pc[t] = "get" /\ ~caching /\ Goto(t, "answered")
  /\ call' = [call EXCEPT ![t].answer = disk[File(t)]]
  /\ UNCHANGED <<caching, up, files, store, owner, terminal, expired, broken>>

\* The answer is sent, and the thread serves another request.
Answered(t) ==
  /\ pc[t] = "answered" /\ Goto(t, "idle")
  /\ call' = [call EXCEPT ![t] = NoCall(1)]
  /\ UNCHANGED <<caching, up, files, store, owner, terminal, expired, broken>>

\* A broken map: the thread finds no end of a chain, or the process crashes.
Corrupted(t) ==
  /\ broken /\ pc[t] \in InLock
  /\ \/ Goto(t, "lost") /\ up' = up
     \/ pc' = pc /\ up' = FALSE
  /\ UNCHANGED <<caching, files, store, owner, call, terminal, expired, broken>>

CallStep(t) ==
  /\ up
  /\ \/ TryLockFor(t) \/ StatHid(t) \/ ReadFile(t) \/ Put(t) \/ Get(t)
     \/ GetUncached(t) \/ Answered(t) \/ Corrupted(t)

-----------------------------------------------------------------------------
(* Editors *)

\* f has another content, which calls that run may find.
Contains(f, content) ==
  /\ up
  /\ disk' = [disk EXCEPT ![f] = content]
  /\ past' = [past EXCEPT ![f] = @ \cup {content}]
  /\ call' = [t \in Threads |->
       IF ~caching /\ pc[t] # "idle" /\ File(t) = f
       THEN [call[t] EXCEPT !.since = @ \cup {content}]
       ELSE call[t]]
  /\ UNCHANGED <<caching, up, store, owner, pc, terminal, expired, broken>>

\* An editor empties the file before it saves it, or does not.
MayEdit == edition < NumFiles + MaxEdits

Truncate(f) == MayEdit /\ disk[f] # 0 /\ Contains(f, 0) /\ UNCHANGED edition

Save(f) ==
  /\ MayEdit
  /\ edition' = edition + 1
  /\ Contains(f, edition + 1)

-----------------------------------------------------------------------------
(* The terminal *)

TerminalGoes(from, to) ==
  /\ up /\ terminal = from /\ terminal' = to
  /\ UNCHANGED <<caching, files, store, owner, pc, call, expired, broken>>

Recache == TerminalGoes("prompt", "sync") /\ UNCHANGED up

\* The object filesystem is static in a header: sync() goes through the one
\* of Terminal.cxx, where nothing is ever put, and no file is read again.
\* Then recache is handed to the shell, as any other command is.
SyncEnds == TerminalGoes("sync", "shell") /\ UNCHANGED up

\* At the end of the command SIGCHLD comes, and its handler exits; unless no
\* child could be started.
ShellEnds == TerminalGoes("shell", "prompt") /\ up' \in BOOLEAN

-----------------------------------------------------------------------------
Next ==
  \/ \E t \in Threads : CallStep(t) \/ \E f \in Files : GetFileAutocache(t, f)
  \/ \E f \in Files : Truncate(f) \/ Save(f)
  \/ Recache \/ SyncEnds \/ ShellEnds

Spec == Init /\ [][Next]_vars

\* A thread that is not stuck is run: it owes nothing to the others.
FairSpec == Spec /\ \A t \in Threads \ Stuck : WF_vars(CallStep(t))

-----------------------------------------------------------------------------
(* Every variable keeps its type; until a try_lock_for fails the mutex is   *)
(* with the one thread that is inside.                                      *)
TypeOK ==
  /\ caching \in BOOLEAN /\ up \in BOOLEAN
  /\ disk \in [Files -> Contents] /\ edition \in NumFiles .. NumFiles + MaxEdits
  /\ store \in [Files -> Contents \cup {NoEntry}]
  /\ owner \in Threads \cup {Free}
  /\ pc \in [Threads -> Waits \cup InLock \cup {"idle", "read", "answered", "lost"}]
  /\ call \in [Threads -> [file : Files, data : Contents \cup {NoEntry},
                           answer : Contents, since : SUBSET Contents]]
  /\ terminal \in {"prompt", "sync", "shell"}
  /\ past \in [Files -> SUBSET Contents]
  /\ expired \in BOOLEAN /\ broken \in BOOLEAN
  /\ ~expired => ~broken /\ \A t \in Threads : pc[t] \in InLock <=> owner = t

(* A page is what its file contained: in a build without cache while the    *)
(* request was served, failed locks or not; in one with cache at some time, *)
(* unless failed locks have broken the map.  It is never another file's,    *)
(* nor the empty string that filesystem[...] makes up for a file it has no  *)
(* entry of, although the entry is looked up in a critical section other    *)
(* than the one that found it there (RAMFS.cxx:149-156).                    *)
AnswersAreFiles ==
  \A t \in Threads : pc[t] = "answered" =>
    IF caching THEN broken \/ call[t].answer \in past[File(t)]
               ELSE call[t].answer \in call[t].since

(* What is cached stays as it is for the life of the process, once the      *)
(* calls that found nothing have put what they read: no edit and no recache *)
(* changes it, unless failed locks have broken the map.                     *)
CachedForEver ==
  [][\A f \in Files :
       /\ store[f] # NoEntry /\ ~broken
       /\ \A t \in Threads : File(t) = f => pc[t] \notin {"read", "put", "put in"}
       => store'[f] = store[f]]_vars

(* A request is answered even if other threads stay for ever where they     *)
(* are, in the mutex too: that is what the timeout is for                   *)
(* (definitions.hxx:4).  With a cache it may break the map instead.         *)
CallsReturn ==
  \A t \in Threads \ Stuck :
    pc[t] # "idle" ~> pc[t] = "answered" \/ broken \/ ~up
=============================================================================
