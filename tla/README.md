# DrawingPad in TLA+

DrawingPad ("Chalkboard") is a whiteboard in the browser: a *presenter* draws,
a small C++ server keeps what was drawn per session name, and *viewers* poll
the server and draw it again. This directory holds TLA+ specifications of its
parts, TLC configurations that check them on small instances, and TLAPS proofs
about them. All paths below are relative to `src/DrawingPad/`.

## 1. The system

| part | state | operations | talks to |
|---|---|---|---|
| session store, `source/Session.cxx` | `data` (name → batches), `timestamp` (name → last keep-alive), one `std::timed_mutex` | `keepAlive`, `dequeue` (push a batch), two `getQueue`, `getQueueDepth`, the `cron` thread | called by every connection thread |
| request dispatch, `source/server.cxx` | none of its own | one route per path: `/project`, `/fetch`, `/numqueues`, `/keepalive`, static files, `/r?i=`, `/halt` | store, file cache, signals |
| presenter page, `res/presenter.js` | session name box, `isDown`, `send` (drawn, not posted), the canvas | mouse handlers, `clearBoard`, `sendRequest`, `sesbox_change`, keep-alive timer | posts to the server |
| viewer page, `res/viewer.js` | session name box, `curqd` (batches asked for), the canvas, requests under way | `render` (timer), its two callbacks, `parseRequest`, `sesname_change` | polls the server |
| file cache, `source/RAMFS.cxx` | a map and a timed mutex, one object per translation unit that includes the header | `get_file_autocache`, `sync` (the others are called by nothing) | disk; dispatch, terminal |
| boot and signals, `main.cpp` | `dat/pid.dat`, signal dispositions | `boot` with AUTOKILL, `sighandle` | other processes in the directory |
| terminal and telnet, `source/Terminal.cxx` | none | `exit`, `terminate`, `recache`, shell commands | signals, file cache |
| dlib server kernel, `dlib/server/server_kernel.cpp` | connections, thread count, `running`, `shutting_down` | `start_async`, accept loop, `service_connection`, `clear` | calls dispatch from one thread per connection |
| dlib thread pool, `dlib/threads/threads_kernel_shared.cpp` | one slot for a job, `pool_count`, `total_count`, `destruct` | `create_new_thread`, `thread_starter` | runs the listener and the connections of the kernel |
| dlib http, `dlib/server/server_http.cpp`, `server_iostream.cpp` | per connection | read a request, call `on_request`, write the answer | server kernel |

Behaviours that are hard to get right, and to test:

* connection threads and cron share two maps; `dequeue` is *two* critical
  sections; cron decides in one loop and erases in another; its expiry test is
  unsigned; an exception leaves the mutex locked;
* reads create entries (`operator[]`) that cron does not know of, and the guard
  of `getQueue` lets an index equal to the size through to the vector;
* the pages are asynchronous: requests of one page run side by side, are
  handled and heard in any order, time out and are never repeated; every answer
  of `/numqueues` and `/fetch` is heard twice, since `if(xhr.readyState = 4)`
  is always true; the session name can change while requests are under way;
* the text of a batch is drawn by a context that keeps its path and its colours
  between batches, and is reset when the canvas is resized at the first stroke;
* server start and stop: the accept loop, connection threads that are counted
  after they were started, the connection limit, `clear()`;
* the thread pool hands jobs over by one slot, and its threads time out;
* two processes booted in one directory, signals that interrupt `boot` or the
  handler at any step, the end of a shell command;
* the presenter may draw without a session name: the text is dropped, the path
  of the context is not;
* locks whose timeout is ignored, files that are edited while they are read,
  a cache that exists twice, and not at all in the build as committed.

What makes each part correct: the store is one log per session (no batch lost,
doubled or reordered, no live session deleted, every call returns, every dead
session goes); the presenter's batches draw what the presenter sees; a viewer
asks for no batch that is not there and for none twice, and in the end shows the
board, in its colours; a file is answered by what that file contained;
one server at a time owns the port and the pid file names it and no process
that has left; a job given to the pool is run once or refused; the kernel
counts its threads, keeps its limit, and `clear()` returns and leaves as little
behind as it can.

`PROJECT.json` lists the hazards at their lines, with the properties that cover
them.

## 2. Modules

```
Board  <--implements--  SessionHost  <--  SessionHostProofs
                            ^
                       MCSessionHost

Canvas  <--  Presenter  <--+
   ^                       +--  Whiteboard  <--  WhiteboardProofs  --uses-->  Folding
   +-------  Viewer  <-----+        ^
                               MCWhiteboard

Drawing  <--  DrawingProofs  --uses-->  Folding
(the text and the contexts behind Canvas)

Executor  <--implements--  ThreadPool    <--  ThreadPoolProofs
    ^
    +--------- uses -----  ServerKernel  <--  ServerKernelProofs

BootPid  <--  BootPidProofs              RamFS  <--  RamFSProofs
```

`Board` and `Executor` are where the parts meet: SessionHost is shown to
implement the one, and Whiteboard is built on it; ThreadPool is shown to
implement the other, and ServerKernel starts its connection threads by the
actions of Executor.

### Board
What the store promises to `process_request`: one log per session; a call takes
effect at one instant between being made and being answered, or fails and has
changed no log; a session's log may be deleted as a whole. About `/fetch` of
the index right after the last batch it promises nothing but *some* answer.

### SessionHost
The store, one action per critical section.

| code | model |
|---|---|
| `data`, `timestamp` | functions over the names that have an entry; `operator[]` is `Touched`/`Assigned`, `erase` is `Erased` |
| `locky_thingy` | `owner`; `while(!try_lock_for(...)) {}` is `Acquire`: its time-out has no outcome but polling again |
| a call of `process_request` | `Invoke`, then per critical section `Acquire` and the body (`Stamp`, `Push`, `GetRange`, `GetAt`, `GetDepth`), then `Return` |
| `dequeue` | `Stamp`, give up the mutex, `Acquire`, `Push`; `Stamp` alone for an empty batch |
| `cron` | `CronWake`, `CronLock` (takes the list of entries), `CronScan` per entry, `CronScanned`, `CronErase` per entry, `CronUnlock` |
| `curtm - curval > SESSION_TIMEOUT` | `Expired`: difference modulo `ClockModulus`, since `u_int64_t - long` is unsigned |
| an allocation that throws | `BadAlloc` (mutex stays locked), `ReplyBadAlloc` (after the unlock of `getQueue`), `CronBadAlloc` (an exception out of a thread ends the process) |
| reading the element past the end | `GetAt` with any string, `PastEndThrow`, `PastEndCrash`: undefined behaviour as a choice of outcomes |
| `sighandle` | `Crash`: the process exits, after a segmentation fault or an exception of cron, or at any step by a signal (`Signal`) |

In debug builds (the default, `definitions.hxx:34-45`) `/project` calls `getQueue(ses, 0)` and `getQueueDepth(ses)`
after `dequeue`. A thread of the model makes any sequence of calls, that one
included.

### Canvas, Presenter, Viewer
A batch is the sequence of its *marks*: the dot a stroke begins with, the line
through its points, or a clear. A canvas is the set of marks that show.
`Painted` is `parseRequest`, mark by mark (`Paint`). Presenter and Viewer each have the page's
variables and one action per handler. The page's HTTP requests are `posts`,
`polls` and `fetches`. The two phases of the name box are two actions: a key
changes the text at once (`TypeTitle`, `TypeName`), the `onkeyup` handler
makes it upper case and, for the viewer, resets the page.

`if(xhr.readyState = 4)` assigns to a read-only property: the condition is
always true and the callback runs at every `readystatechange`. While there is
no body, its argument is `""`, which does nothing (`parseInt("")` is NaN,
`parseRequest("")` finds no command). It has an effect at LOADING and again at
DONE: stage `"answered"`, then `"loaded"`. A body that arrives in several
pieces (more than one LOADING) is not modelled.

### Whiteboard
One presenter, one viewer and the server between them, which is the log of
Board: each request takes effect at an instant, as `StoreImplementsBoard`
justifies. The network loses (`MayLose`), reorders (`~Ordered`) and delays;
`Expire` is cron, or a server started anew.

### Drawing
What Canvas leaves out: a batch as the text it is. The presenter's handlers
append words to `send` and draw on `pen`; `parseRequest` reads them and draws on
`screen`. The code walks the words by an index that each command moves on; here
`Read` takes one word more, and carries out a command (`Command`) when it has as
many words as the code takes for it (`Words`), the skipped ones included. A
context is a record of its styles, its path (lines, first and last point) and
its canvas (shape → colour). Batches come in order, each heard twice. The name
box holds the name of the one session or is empty (`TypeName`).

| code | model |
|---|---|
| `send + " begpath " + ...` (`presenter.js:185`) | the words appended in `MouseDown`; tool, sizes and radius are words of which only the number matters |
| `lineTo`, `closePath`, `stroke` of the browser | `LineTo`, `ClosePath`, `Stroke`: external, as both pages use them |
| `if(!heightSet) ... else i = i + 2` (`viewer.js:124-135`) | `PastSize` and `Resized`: setting the size empties the canvas and resets the context |
| the order: `beginPath`, styles, size, `moveTo`, `fillRect` | `Begpath` |
| `sendRequest` without a session name (`presenter.js:105-112`) | the other branch of `SendRequest`: nothing is posted, `send` is emptied and the canvas cleared, the path stays |

Three variables remember what that branch did: `cut`, text was dropped since the
path was begun; `torn`, a stroke went on after that; `wiped`, the canvas was
cleared when batches had been posted. A torn stroke is where the code fails its
audience: button down without a name, *Clear* (which drops the text but not the
path), the name typed, and on with the stroke: the presenter's `stroke()` draws
the whole path again, the post has the new point only. `NothingMissing` exempts
these strokes, and what TLC answers without that is in section 3.

### Executor and ThreadPool
Executor is `create_new_thread` for its caller: true, and the function is run
once, in a thread of its own; or false, and it never is. ThreadPool has the
slot, the two counts, and each thread's place in `thread_starter`; every
variable is guarded by `data_mutex`, so an action is what a thread does between
getting and giving up that mutex.

| code | model |
|---|---|
| `function_pointer`, `parameter` | `slot` |
| `data_empty.wait()` / `signal()` | `AwaitEmpty`, and `EmptyWaitEnds` without a signal / `SignalEmpty` |
| `spawn_thread`, or its failure; `data_ready.signal()` | `PutAndSpawn`, `SpawnFails`; `PutAndWake` |
| `while(function_pointer != 0)` around the job | `TakeJob`, `FunctionReturns` |
| `wait_or_timeout` | `AwaitReady`; `WaitEnds` lets it end at any time, by the timeout or spuriously |
| leaving the loops | `ThreadEnds` |
| `exit()`: `destruct_if_ready`, `~threader` | `DestructIfReady` |

### ServerKernel
Callers that call `start_async` and `clear`, listeners (a new thread for each
start), and one thread per connection, which is a job of Executor. An action is
one critical section. `running_mutex` is recursive and kept by `start_async`
while it joins the listener of before: `starter`.

| code | model |
|---|---|
| `start_async` | `StartAsync`, `Joined`; `StartThreadFails` |
| the accept loop | `Open`, `Accept` or `AcceptStops`, `Add`, `Spawn`, `Count`, `CheckLimit`, `LimitWoken`, `Close` |
| its failures, each of which ends in `clear()` of the listener itself | `AcceptFails`, `AddFails`, `ParamFails`, `SpawnFails` |
| `service_connection` | `OnConnect`, `Leave`, `Uncount` |
| `clear` | `SetShuttingDown`, `ShutdownConnections`, `AwaitThreads`, `AwaitListener`, `ClearReturns` |
| the three conditions | the steps `limitWait`, `threadsWait`, `listenerWait`; `Broadcast`, `SpuriousWakeup` |

What the specification makes plain:
a connection accepted before `shutting_down` is set may be started after
`clear()` has shut the others down, and counted later still, so `clear()` may
return while it talks (`ClearWaits`; section 3 has what TLC answers), or wait for it
for as long as its client likes (`TooLate`);
`start_async` may wait for ever for a failed listener that is in `clear()` and
wants `running_mutex` (`JoinsIt`); when the listener's
thread cannot be created `running` stays true, and `clear()` waits for ever
(`NoListener`). `ClearsReturn` says that a `clear()` that does not return is
from some time on in one of these three waits *for ever*. Being in one of them
for a while does not excuse it, and TLC refutes the property when any of the
three is left out: so within the bounds of the run these are the waits, and there are
no others. None of them bites DrawingPad as it is: it starts one server and
ends by `exit()` in the signal handler, which runs no destructor of it.

### BootPid
Processes of the program, started in one directory, each of which takes the
next step of `boot` or of `sighandle` when it likes. The state is where each
process is, the pid it read, the file (a pid, letters, or empty), the port,
and the SIGINTs under way.

| code | model |
|---|---|
| AUTOKILL (`main.cpp:128-151`) | `ReadPid`, `KillOld`, `Deliver` |
| `ofstream fout("dat/pid.dat")`, `<< getpid()` | `OpenPidFile` (truncates), `WritePid` |
| `start_async` on a port that is taken: an exception nobody catches, SIGABRT | `StartServer`, into the handler |
| `sighandle` | `HandlerOpens`, `HandlerWrites`, `Exit`; `HandledAgain` for `abort()` and for a signal that interrupts it |
| signals with a handler; without one | `Raise`; `Crash` |
| `system(cmd)` of the terminal | `Shell` (SIGINT is ignored meanwhile), `ShellEnds` (SIGCHLD ends the server) |

A boot that ends early, for want of the port or by a signal, has overwritten
the living server's pid, and its handler overwrites it with letters: then no
later boot finds that server. `hurried` remembers that a process wrote the
file in the way of another. A SIGHUP is said to be survived
(`main.cpp:46`) but has no handler registered, so it is a `Crash`.

### RamFS
`get_file_autocache` as the critical sections it consists of, for several
threads and files that are edited meanwhile, and the terminal's `recache`.
`caching` is the build: `definitions.hxx:6` defines `DISABLE_FILECACHE`, so the
build as it is committed has no cache (`caching = FALSE`), and each answer is
read from the disk; a comment next to it says how to have the other one. The
run looks at both.

| code | model |
|---|---|
| `mtx.try_lock_for(...)`, result ignored | `TryLockFor`: with or without the mutex; `expired` remembers a failure |
| `mtx.unlock()` | `Unlock`, whoever has it: undefined for a thread that has not, and with glibc it frees the mutex |
| `stat_hid`, `read_file`, `put`, `get` | `StatHid`, `ReadFile`, `Put`, `Get` (whose `operator[]` makes an entry), `GetUncached` |
| a write to the `unordered_map` while another thread is in it | `Race` makes the map `broken`: from then on `StatHid` may find anything, `Get` reads any content, and a thread in the map may stay there for ever or the process crash (`Corrupted`) |
| `static ramfs filesystem` in a header | `store` is the object of `server.cxx`. The one of `Terminal.cxx`, which `sync` goes through, has no entry ever: `SyncEnds` changes no file |
| `recache` of the terminal | `Recache`, `SyncEnds`; then it is handed to `system()`, like any other line, and `ShellEnds` with the SIGCHLD of the shell, whose handler exits: what is announced as "Recaching all files!" (`Terminal.cxx:33`) reads no file again and ends the server |
| an editor that saves | `Truncate`, `Save`: external |

No two files ever have the same content, so that an answer tells whose it is;
0 is the empty one. Threads in `Stuck` may stay for ever where they are, in the
mutex too. In a build without cache two threads never write to the map, and it
cannot break. `CachedForEver` has a dark side: a file that was read while an
editor had truncated it stays empty in the cache, and of two threads that found
nothing the one that read the older content may put last.

### Symmetry
`MCSessionHost` declares sessions, batches and threads symmetric, `MCWhiteboard`
the polls. None of them is distinguished by an action, and no run with a
liveness property uses symmetry.

## 3. Runs

Names of properties in `code`. Passing runs (times on two workers):

| run | checks | instance |
|---|---|---|
| `session_board` | `MutualExclusion`, `ImplementsBoard` | 1 session, 2 callers, all operations and faults, signals, clock that steps back, indices 0..2 around a log of up to 2 (a third batch when two calls pass the bound at once); 799 thousand states |
| `session_live` | `TypeOK`, `CronFindingsStand`, `NoLiveErase`, `CallsReturn`, `StampedSessionsGo` | 2 sessions, 2 callers of `dequeue` and cron, no faults, clock not set back; 119 thousand states |
| `whiteboard_ordered` | `ViewersSeeBoard`, `BroadcastsWhatIsDrawn` | 2 strokes, 3 posts, clears, 2 polls at a time, requests in order; 1.6 million states |
| `whiteboard_live` | `RendersLoad`, `FetchInRange` | 1 stroke, 2 posts, any order, no losses, no expiry or retitling, 2 polls at a time; 75 thousand states |
| `whiteboard_anything` | `TypeOK`, `AskedOnce` | everything on: expiry, name changes of both pages, losses, any order, 2 polls, 1 post; 1.7 million states |
| `whiteboard_posted` | `PostedOnce` | 2 strokes, 3 posts to 2 sessions: losses, any order, expiry, renaming, clears; the viewer, who changes no place of a mark, is idle; 1.3 million states |
| `drawing` | `NothingMissing`, `NothingAdded`, `SameColours` | 2 colours, 4 mouse events that draw, 2 batches, the name typed and taken away at any time; 1.1 million states |
| `thread_pool` | `TypeOK`, `CountsTrue`, `SlotWatched`, `JobsAtOnePlace`, `ImplementsExecutor`, `JobsStart`, `CallersAnswered` | 4 jobs, 3 threads; 36 thousand states |
| `server_kernel` | `TypeOK`, `CountIsThreads`, `NoMissedWakeup`, `ConsAlive`, `LimitKept`, `ClearLeavesAtMostOne`, `ClearsReturn` | 3 connections, a limit of 2, 1 caller, 2 listeners; 286 thousand states, 2 minutes |
| `boot_pid` | `TypeOK`, `NeverNamesExited`, `ServerNamed` | 3 processes; 138 thousand states (4 processes also hold: over 13 million) |
| `ramfs` | `TypeOK`, `AnswersAreFiles`, `CachedForEver`, `CallsReturn` | 2 threads of which one may be stuck, 2 files, 1 edit, both builds; 2.4 million states, 2 to 3 minutes |

The bounds are the smallest at which the cases meet.
*SessionHost*: two callers and cron are three parties for one mutex; two
sessions let cron find one expired and keep the other; `SessionTimeout` is
zero, so that a stamp is young at its own instant and expired at the next.
`MaxArrival` and `MaxClock` bound the clock: from `MaxArrival` on no call
begins, and time moves only while nobody is in a call, so that the liveness
properties speak of sessions nobody uses any more.
*Whiteboard*: two polls with one batch answer with the same depth; three posts
are a stroke, a clear and a stroke, or, for `PostedOnce`, a stroke that goes on
over a clear and a change of the name while the first two batches are on their way.
*Drawing*: four points are two strokes of two points, or one that goes on over
a clear; two batches are the first, which resizes, and one that finds the path
and the colours of another.
*ThreadPool*: four jobs are one in the slot, one running, and two callers that
wait; three threads are one that runs, one that waits and one that leaves.
*ServerKernel*: three connections with a limit of two fill the server and keep
the listener waiting; two listeners are one that failed and one that is started
after it.
*BootPid*: a server, the process that replaces it, and one that comes between.
*RamFS*: two threads are enough for one to be in the mutex of the other and for
the map to break; two files for an answer to be another file's; one edit for a
content to be old.

Deadlock is not checked where the system may stop: in `drawing` the presenter
runs into its bound and all is heard; in `boot_pid` each process boots once; in
`thread_pool` all jobs are done and the pool has been destroyed; in
`session_board` the process has gone down, or a fault has left the mutex
locked; in `server_kernel` no connection is left to come and `start_async` and
`clear()` are in each other's way, as said above; in `ramfs` the map broke or
the terminal ended the server.

A run that shows a disagreement between what the repository says and what the
code does (it expects a violation; the text is quoted in `PROJECT.json`):

| run | property | what happens |
|---|---|---|
| `whiteboard_expiry` | `NothingMissed` | after an expiry `curqd` is beyond the log and the next batches are skipped |

Several properties hold under conditions. What TLC answers without them, when
the constants are changed as said:

| change | refuted | because |
|---|---|---|
| `ClockMayStepBack = TRUE`, timeout 1, in `SessionHost_live.cfg` | `NoLiveErase` | the unsigned difference wraps, and cron deletes a session that has just been stamped |
| `Faults = {"badAlloc"}` there | `CallsReturn` | an exception in a critical section leaves the mutex locked for ever |
| `PROPERTY UnusedSessionsGo` there, with `"getDepth"` in `Operations`; or with a `dequeue` that waits longer than the timeout between its sections | `UnusedSessionsGo` | a read creates an entry without a timestamp; the batch is pushed into a session cron has deleted: cron sees neither |
| `Ordered = FALSE` in `Whiteboard_ordered.cfg` | `BroadcastsWhatIsDrawn`, `ViewersSeeBoard` | a clear overtakes a stroke on its way to the server; fetched batches are drawn in the order they arrive, and twice |
| `MayLose = TRUE`, `MayExpire = FALSE` in `Whiteboard_expiry.cfg` | `NothingMissed` | a fetch that timed out is not repeated |
| `MayRetitle`, `MayRename` TRUE, two names, `MaxVisits = 1`, no expiry there | `NothingMissed` | the answer to a poll of the former session advances `curqd` of the new one |
| `FetchInRange` without its conditions, `MayExpire = TRUE` in `Whiteboard_live.cfg` | `FetchInRange` | a session is deleted while a fetch is under way: it reads index 0 of an empty vector, past its end |
| the same, `MayRetitle = TRUE`, two names, `MaxVisits = 1`; with `Ordered = TRUE` too | `FetchInRange` | the depth of the former session is heard after the name was changed (`viewer.js:170-209`): a fetch of index 0 of a session that is still empty (`Session.cxx:62-69`) |
| `NothingMissing` without `~torn` | `NothingMissing` | a stroke whose beginning was dropped for want of a name goes on: the presenter draws all of it again, the viewer gets the last point |
| `NothingAdded` without `NoOrphans` | `NothingAdded` | a stroke released outside the canvas, cleared, and gone on with: its batch begins with a point, and heard twice draws the line that closes it |
| `NothingAdded` without `~wiped` | `NothingAdded` | a batch was posted, the name taken away, and the button released: only the presenter's canvas is cleared |
| `ClearsReturn` without any one of `TooLate`, `NoListener`, `JoinsIt` | `ClearsReturn` | each of these is a wait for ever |
| `PROPERTY ClearWaits` in `ServerKernel.cfg`, or with 1 connection, 1 caller and 1 listener | `ClearWaits` | the listener has accepted a connection and not yet counted it when `clear()` finds the count zero; `clear()` returns while that connection is served. `server_kernel_abstract.h:49`: "the clear() function does not return until all calls to on_connect() have finished" |
| `ConsAlive` without `"leaked"` | `ConsAlive` | `delete client` at `server_kernel.cpp:358` leaves it in `cons`, "a set containing all open connections" (`server_kernel.h:58`), and `clear()` shuts it down |
| `SameColours` without `~repicked` | `SameColours` | a colour picked within a stroke: the presenter draws the rest in it, the viewer in that of the beginning |
| `ServerNamed` without `~hurried` | `ServerNamed` | a boot overtakes the end of the one before, is interrupted, or ends without the port |
| `~broken => up` as an invariant in `RamFS.cfg`, `Builds = {FALSE}` | itself | `recache` ends the server, as said in section 2 |

So what holds of the whiteboard holds under conditions, and the runs say which:
the viewer's picture is right when requests stay in order, none is lost, the
session lives, the viewer keeps to it, strokes begin and end on the canvas, and
the presenter draws under a name.

### Fairness
*SessionHost*: a thread that runs keeps running (weak fairness of the bodies,
`Return`, `CronWake`, cron's steps). `std::timed_mutex` promises no order among
its waiters, so getting it needs strong fairness (`Acquire`, `CronLock`): a
thread that polls it for ever, while it is free again and again, gets it. That
is an assumption about the scheduler; the code has no queue that would give it.
Time goes on (strong fairness of `Tick`, which the model disables while calls
are under way). Nothing is assumed of `Invoke`, the faults or the clock being
set back.
*Whiteboard*: the interval timer fires (`Render`), the server answers, the
browser runs callbacks. The presenter owes nobody a stroke, and no fairness is
assumed of losses or expiry.
*ThreadPool*: some thread takes the job (weak fairness of `TakeJob` by any of
them), a thread that is to end ends, a caller that was woken goes on. Nothing
is assumed of the functions the pool runs, nor of timeouts.
*ServerKernel*: threads run and mutexes are given (weak fairness of each
thread's steps); a connection ends when it was shut down
(`server_kernel_abstract.h:281`), and need not otherwise. Nothing is assumed of
clients, failures or spurious wakeups.
*RamFS*: weak fairness of the threads that are not in `Stuck`; those that are may
stop anywhere, in the mutex too. `TryLockFor` is never blocked for good, which
is what the timeout is for.
*SessionHost* and signals: the run with liveness has no faults and no signal;
its properties speak of a process that goes on.

## 4. Proofs

All theorems hold for every value of the constants that satisfies the named
assumptions (`SessionHostAssumption`, `CanvasAssumption`, ...), that is for any
number of sessions, threads, batches, polls, clock values, jobs, connections,
processes and files.

* **SessionHostProofs**
  * `TypeCorrect`: `Spec => []TypeOK`. `TypeOK` is inductive as it stands,
    because it ties a thread's section to its call.
  * `SectionsExclude`: `Spec => []MutualExclusion`, inductive as stated: the
    conjunct about cron is an equivalence, so `Acquire` cannot take a mutex
    cron holds. Faults are included: a thread that has thrown still owns it.
  * `FindingsStand`: without `ClockStepBack`, `[]CronFindingsStand`. It is
    relative to `TypeOK` and `MutualExclusion`: only the owner changes
    `timestamp`, cron owns the mutex while it scans and erases, stamps are
    never later than the clock (so that the subtraction does not wrap:
    `NoWrap`, from `MaxClock < ClockModulus`), and time only adds to an age.
  * `NothingLiveErased`: without `ClockStepBack`, `NoLiveErase`. From the three
    invariants: `CronErase` erases what is in `del`, which is expired at that
    step; every other action keeps or extends each log.
  * `StoreImplementsBoard`: `Spec => ImplementsBoard`, with all faults and
    clocks that step back. The mapping: a session without entry has an empty
    log, waiting and being inside are "pending", and a call takes effect in its
    last critical section. One step per action under `TypeOK` and
    `MutualExclusion`; touching an entry, cron's bookkeeping and the first
    section of a `dequeue` with a batch are stutters.
* **WhiteboardProofs**: `FetchesInRange`, `Spec => []FetchInRange`; the
  property says itself that it is about sessions that are not deleted and a
  viewer who does not change names. It is not inductive: the index of a fetch comes from the depth in an answer that may be
  old. `CountsTrue` says that every answer and every fetch under way is of the
  session watched and within its log *as it is now*, which stays true because
  logs only grow (`ProjectGrows`). It needs the batches typed (`DrawingTrue`,
  with `isDown` only after a stroke was begun) for logs to be sequences.

  `BatchesAskedOnce`, `[]AskedOnce`, without any such condition. `AskedTrue`
  adds to it that every request is of this visit or an earlier one: a poll's
  callback asks for `curqd`, which no request of this visit has, and counts it
  in the same step; a new visit has a number no request has.

  `ViewersSee`, `[]ViewersSeeBoard`, on a network that keeps the order and
  loses nothing, while sessions are not deleted and the viewer keeps to one:
  what `whiteboard_ordered` checks, for any strokes, batches and polls.
  `HeardTrue` says that the viewer's canvas is what the first `h` batches of the
  log draw, and that the requests under way are, in their order, for the next
  ones, the first of them perhaps drawn once already. Drawing a batch again
  right after itself changes nothing (`PaintedTwice`: the last clear in it, or
  the lack of one, decides), so the second callback leaves the canvas.

  `AudienceGetsDrawing`, `[]BroadcastsWhatIsDrawn`, on such a network while the
  presenter keeps its name. `DrawnTrue` says that there is a sequence of
  batches on their way, numbered as they were posted, and that the log, these,
  and then the unsent marks draw the presenter's canvas.

  `TypesKept`, `[]TypeOK`, without conditions. The length of a log is bounded
  only together with the posts on their way (`Counted`).

  `StrokesPostedOnce`, `[]PostedOnce`, without conditions. The dot of a stroke
  is at one place at most (`AtOnePlace`): unsent, in one post, or at one index
  of one log; that of a stroke not begun, at none; and no two posts have the
  same number, so that serving one takes no other away.
* **DrawingProofs**: `ShapesArrive`, `TwiceAddsNothing` and `TwiceColours`, the
  three invariants of Drawing, for any colours, points and batches. They rest on
  three layers of lemmas: what the operations of a context do to its path and
  canvas; what reading a text does to *any* context (`Whole`, `ReadsBegpath`,
  `ReadsPoint`, `ReadsOne`: a text that is read to the end of its last command,
  lengthened by one more); what a step does on both sides (`DownIs`, `MoveIs`,
  `PostedIs`). The invariant compares the pen not with the screen, which lags
  behind, but with what the viewer will have when it has heard the log twice
  and the unsent text once (`Ahead`): it has every shape and every line of the
  path (`Follows`), and reading the text again takes nothing away (`Keeps`) and
  leaves the path where the pen is, since the text either begins a path
  (`Fresh`) or goes on with one (`GoesOn`). After text was dropped the two paths
  differ (`cut`) until the next stroke begins, and what shows is the same unless
  the old path is drawn again (`torn`). Where every batch begins its own
  path, reading the text adds the same shapes to *any* canvas, in the pen's
  colours (`Adds`), which is why a second hearing, and a first one on a canvas
  without a size, are put right. `HeardTrue` ties the screen to the log.
* **Folding**: what `FoldLeft` computes, for any operator, the one folded being
  a constant of the module. The library's induction theorem takes a predicate
  and cannot be instantiated here; `Induction` is about a *set* of naturals and
  follows from well-foundedness, whose theorem takes a set. `FoldExists` then
  gives for each sequence the function `FoldLeft` chooses, and `FoldAppend`
  the equation the proofs use.
* **ThreadPoolProofs**: the four invariants and `PoolImplementsExecutor`.
  `SlotWatched` is not inductive alone: it needs `CountsTrue`, since
  `create_new_thread` decides by `pool_count` whether to spawn or to signal,
  and so that a count above zero means a thread that can be signalled or is on
  its way; counting needs `TypeOK` and the finiteness of `Threads`. The
  refinement takes a step each from `PutAndSpawn`/`PutAndWake`, `SpawnFails`,
  `TakeJob` and `FunctionReturns`; it rests on `JobsAtOnePlace`.
* **ServerKernelProofs**: `KernelTypeCorrect`, `KernelMissesNoWakeup`,
  `ConsHoldsNoDeleted`, `KernelCountsThreads`. Types need to know who holds
  what: two listeners never hold the same connection, and one that a listener
  is about to start has no thread (`Held`). `ConsAlive` needs that a listener
  about to add a connection has it not in `cons` yet (`NotYetIn`). The count is
  by cases on whether a step moves a thread, a listener to or from its count, or
  both; a connection's thread may end before the listener has counted it, so
  that the count is below zero for a while, and the equation still holds.

  `KernelKeepsLimit`, `[]LimitKept`. The listener waits below the limit, accepts
  and then counts, so the limit holds because no other listener accepts
  meanwhile: `OneListens`, which holds since `start_async` begins only when
  `running` is false and keeps `running_mutex` while it joins the listener
  before. `LimitTrue` says that a listener about to add a connection has room.

  `ClearLeavesOne`, `ClearLeavesAtMostOne`, where one thread calls the server
  (`Callers = {main}`), which is what `main.cpp:177` does: while it is in
  `clear()`, a listener that can still accept sees `shutting_down`
  (`LeavesOne`). With two callers TLC refutes it: a second `clear()` that
  returns resets `shutting_down` under the first.
* **BootPidProofs**: `BootTypeCorrect`, `ExitedStayUnnamed`,
  `ServerStaysNamed`. The last is not inductive: `Alone` says that from
  `opened` to the end of serving, and as long as nobody hurried, the process
  has the file to itself, every other one being before its opening of the file,
  in its handler without the port, or gone.
* **RamFSProofs**: `RamFSTypeCorrect`, `AnswersStayFiles`, `CachedStaysForEver`.
  The invariant adds `Knows`: without cache, what the disk has now is among what
  a request may be answered with; with cache, what a thread is about to put was
  in its own file once, and a thread that goes to `get` has an entry to find
  there, which no other thread takes away as long as the map is whole. `Entries`
  says that an entry is what its file once contained. A broken map is excepted:
  nothing can be said of it.

Every invariant and action property of the passing runs is proved. Some are
proved under conditions their runs have too: `ViewersSeeBoard`
and `BroadcastsWhatIsDrawn` under those on the network and the names,
`NoLiveErase` and `CronFindingsStand` under that on the clock; and
`ClearLeavesAtMostOne` for one caller. Only model-checked are the liveness
properties (`CallsReturn` of both modules, `StampedSessionsGo`, `RendersLoad`,
`JobsStart`, `CallersAnswered`, `ClearsReturn`), since the prover has neither
ENABLED nor fairness.

## 5. Not modelled

* Most of the repository is dlib, vendored whole: machine learning, image
  processing, linear algebra, widgets, compression. DrawingPad compiles it in
  and calls its http server only; what that rests on and what has state between
  requests (the server kernel, the thread pool) is modelled, the rest is not
  reached by the program. The share of all source lines that the map covers is
  small for that reason.
* The text of HTTP and url coding (`server_http.cpp`), which keeps no state:
  among others, the pages encode with `encodeURI`, so a session name with `&`,
  `+` or `#` reaches the store as another name than the one typed. The models
  take names as the store sees them. `server_iostream.cpp` adds stream buffers
  around a connection, nothing that outlives it.
* `telnet_server`, which is never started; `put_file`, `put_file_async`,
  `write_file`, `write_file_async`, `cache_file`, `cache_list`, which nothing
  calls; `Pixel.hxx`, which nothing uses; `jquery.js`.
* Tools, radius, line density, coordinates and pixels as values; status lights,
  message boxes, full screen; the content of static pages. A body that arrives
  in several pieces.
* What a shell command of the terminal does; log files; `preboot`; the fork,
  which the build of this commit undefines.
* pids of different lengths in BootPid (one written over a longer one would
  leave its last digits); that a system may give a pid again.
* The store, the kernel and the boot are not composed into one state machine:
  they meet at the calls that Board and Executor specify, at `exit()` (`Crash`
  of SessionHost, `Exit` of BootPid), and their product is out of TLC's reach.
