------------------------------- MODULE BootPid -------------------------------
(***************************************************************************)
(* boot() and sighandle() of main.cpp: processes of the program started in *)
(* one directory, the pid file dat/pid.dat by which a new one ends the one *)
(* before it (AUTOKILL), and the port that only one of them gets.          *)
(*                                                                         *)
(* The pid file is read, truncated and written in steps of their own, and  *)
(* any process may take its next step at any time: the 100 ms that boot()  *)
(* waits after a kill may be too short.  All pids have the same number of  *)
(* digits, so that one written over another leaves no mixture; the file of *)
(* a program that never ran is empty here, as boot() treats them alike.    *)
(***************************************************************************)
CONSTANTS
  Procs,  \* processes, by their pids, in no order; each boots once
  None    \* no process

ASSUME BootPidAssumption ==
  None \notin Procs /\ {"empty", "letters"} \cap Procs = {}

VARIABLES
  at,        \* process -> where it is in boot() or in sighandle()
  target,    \* process -> the pid it has read in the file
  file,      \* dat/pid.dat: "empty", at least 8 characters, or a pid
  port,      \* who listens on PORTNO_PAINTSERVER
  signalled, \* the processes that have a SIGINT coming
  hurried    \* history: a process wrote the file in the way of another

vars == <<at, target, file, port, signalled, hurried>>

Boots    == {"reading", "killing", "waiting", "ready", "opened", "saved"}
Serves   == {"serving", "shell"}
Handles  == {"handling", "emptied", "lettered"}
Gone     == {"off", "left", "crashed"}

Alive(p) == at[p] \notin Gone
Goto(p, stage) == at' = [at EXCEPT ![p] = stage]

\* Another process is there when p opens the file for writing.
InTheWay(p) == \E q \in Procs \ {p} : Alive(q)

Init ==
  /\ at = [p \in Procs |-> "off"]
  /\ target = [p \in Procs |-> None]
  /\ file = "empty"
  /\ port = None
  /\ signalled = {}
  /\ hurried = FALSE

-----------------------------------------------------------------------------
(* boot *)

Boot(p) ==
  /\ at[p] = "off" /\ Goto(p, "reading")
  /\ UNCHANGED <<target, file, port, signalled, hurried>>

ReadPid(p) ==
  /\ at[p] = "reading"
  /\ IF file \in Procs
     THEN target' = [target EXCEPT ![p] = file] /\ Goto(p, "killing")
     ELSE target' = target /\ Goto(p, "ready")
  /\ UNCHANGED <<file, port, signalled, hurried>>

\* While system() runs a command, SIGINT is ignored.
KillOld(p) ==
  /\ at[p] = "killing" /\ Goto(p, "waiting")
  /\ signalled' = IF Alive(target[p]) /\ at[target[p]] # "shell"
                  THEN signalled \cup {target[p]} ELSE signalled
  /\ UNCHANGED <<target, file, port, hurried>>

OpenPidFile(p) ==
  /\ at[p] \in {"waiting", "ready"} /\ Goto(p, "opened")
  /\ file' = "empty"
  /\ hurried' = (hurried \/ InTheWay(p))
  /\ UNCHANGED <<target, port, signalled>>

\* Mutant: the pid stays in the buffer of fout.
WritePidUnflushed(p) ==
  /\ at[p] = "opened" /\ Goto(p, "saved")
  /\ UNCHANGED <<target, file, port, signalled, hurried>>

\* A pid over the letters of another is no pid for boot(): it is too long.
WritePid(p) ==
  /\ at[p] = "opened" /\ Goto(p, "saved")
  /\ file' = IF file = "letters" THEN "letters" ELSE p
  /\ UNCHANGED <<target, port, signalled, hurried>>

\* Mutant: the exception of start_async is caught.
StartServerAnyway(p) ==
  /\ at[p] = "saved" /\ Goto(p, "serving")
  /\ port' = IF port = None THEN p ELSE port
  /\ UNCHANGED <<target, file, signalled, hurried>>

\* Nobody catches the exception of start_async: SIGABRT.
StartServer(p) ==
  /\ at[p] = "saved"
  /\ IF port = None THEN port' = p /\ Goto(p, "serving")
                    ELSE port' = port /\ Goto(p, "handling")
  /\ UNCHANGED <<target, file, signalled, hurried>>

-----------------------------------------------------------------------------
(* Signals *)

\* Ctrl-C, /halt, exit and terminate at the terminal, a fault; SIGCHLD too.
Raise(p) ==
  /\ at[p] \in Boots \cup {"serving"} /\ Goto(p, "handling")
  /\ UNCHANGED <<target, file, port, signalled, hurried>>

\* The SIGINT of KillOld.
Deliver(p) ==
  /\ p \in signalled /\ signalled' = signalled \ {p}
  /\ at' = [at EXCEPT ![p] = IF @ \in Boots \cup {"serving"} THEN "handling" ELSE @]
  /\ UNCHANGED <<target, file, port, hurried>>

\* The terminal hands a command to system(); at its end SIGCHLD goes to some
\* thread that does not block it, unless no child could be started.
Shell(p) ==
  /\ at[p] = "serving" /\ Goto(p, "shell")
  /\ UNCHANGED <<target, file, port, signalled, hurried>>

ShellEnds(p) ==
  /\ at[p] = "shell" /\ (Goto(p, "handling") \/ Goto(p, "serving"))
  /\ UNCHANGED <<target, file, port, signalled, hurried>>

\* Mutant: exit without a word in the pid file.
HandlerExits(p) ==
  /\ at[p] = "handling" /\ Goto(p, "left")
  /\ port' = IF port = p THEN None ELSE port
  /\ UNCHANGED <<target, file, signalled, hurried>>

\* A process that has not got the port may overwrite the pid of one that has.
HandlerOpens(p) ==
  /\ at[p] = "handling" /\ Goto(p, "emptied")
  /\ file' = "empty"
  /\ hurried' = (hurried \/ (port # p /\ InTheWay(p)))
  /\ UNCHANGED <<target, port, signalled>>

HandlerWrites(p) ==
  /\ at[p] = "emptied" /\ Goto(p, "lettered")
  /\ file' = "letters"
  /\ UNCHANGED <<target, port, signalled, hurried>>

Exit(p) ==
  /\ at[p] = "lettered" /\ Goto(p, "left")
  /\ port' = IF port = p THEN None ELSE port
  /\ UNCHANGED <<target, file, signalled, hurried>>

\* Another signal interrupts the handler and is handled first; so is the
\* SIGABRT of the abort() that ends the handling of SIGSEGV.
HandledAgain(p) ==
  /\ at[p] \in {"emptied", "lettered"} /\ Goto(p, "handling")
  /\ UNCHANGED <<target, file, port, signalled, hurried>>

\* SIGKILL, and every signal that has no handler: SIGHUP, SIGTERM.
Crash(p) ==
  /\ Alive(p) /\ Goto(p, "crashed")
  /\ port' = IF port = p THEN None ELSE port
  /\ UNCHANGED <<target, file, signalled, hurried>>

-----------------------------------------------------------------------------
BootStep(p) ==
  \/ Boot(p) \/ ReadPid(p) \/ KillOld(p) \/ OpenPidFile(p) \/ WritePid(p)
  \/ StartServer(p)

Signal(p) ==
  \/ Raise(p) \/ Deliver(p) \/ Shell(p) \/ ShellEnds(p) \/ Crash(p)
  \/ HandlerOpens(p) \/ HandlerWrites(p) \/ HandledAgain(p) \/ Exit(p)

Next == \E p \in Procs : BootStep(p) \/ Signal(p)

Spec == Init /\ [][Next]_vars

-----------------------------------------------------------------------------
(* Every variable keeps its type; a process serves exactly when it has the  *)
(* port, which it keeps through its handler: no second server goes on       *)
(* without one (main.cpp:174-198).                                          *)
TypeOK ==
  /\ at \in [Procs -> Boots \cup Serves \cup Handles \cup Gone]
  /\ target \in [Procs -> Procs \cup {None}]
  /\ \A p \in Procs : at[p] = "killing" => target[p] \in Procs
  /\ file \in {"empty", "letters"} \cup Procs
  /\ port \in Procs \cup {None}
  /\ \A p \in Procs : /\ at[p] \in Serves => port = p
                      /\ port = p => at[p] \in Serves \cup Handles
  /\ signalled \subseteq Procs
  /\ hurried \in BOOLEAN

(* A process that has left through its handler is not named by the pid file *)
(* any more, however many were started meanwhile: AUTOKILL (main.cpp:141)   *)
(* signals no stranger that got its pid.                                    *)
NeverNamesExited ==
  \A p \in Procs : at[p] \in {"emptied", "lettered", "left"} => file # p

(* The pid file names the server while it serves, so that the next boot     *)
(* finds it (main.cpp:128), as long as no boot overtook the process it was  *)
(* to end, and none ended early without the port.  A process that died      *)
(* without its handler does no harm to this.                                *)
ServerNamed ==
  ~hurried => \A p \in Procs : at[p] \in Serves => file = p
=============================================================================
