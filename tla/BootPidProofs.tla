---------------------------- MODULE BootPidProofs ----------------------------
(***************************************************************************)
(* Theorems about BootPid, for any number of processes.                    *)
(***************************************************************************)
EXTENDS BootPid, TLAPS

USE BootPidAssumption

\* Where a process has the pid file to itself if nobody hurries.
Owns == {"opened", "saved"} \cup Serves

\* Beside the owner there are processes that have not opened the file and
\* processes that are gone; what is in the file is the owner's doing.
Alone ==
  ~hurried =>
    \A p \in Procs : at[p] \in Owns =>
      /\ file = IF at[p] = "opened" THEN "empty" ELSE p
      /\ \A q \in Procs \ {p} :
           /\ at[q] \in {"reading", "killing", "waiting", "ready", "handling"} \cup Gone
           /\ port # q

-----------------------------------------------------------------------------
(* The first state is well typed.                                           *)
LEMMA TypeInit == Init => TypeOK
  BY DEF Init, TypeOK, Gone, Serves, Boots, Handles

(* Every step of a process keeps the types.                                 *)
LEMMA TypeStep ==
  ASSUME TypeOK, NEW p \in Procs, BootStep(p) \/ Signal(p)
  PROVE  TypeOK'
<1> USE DEF TypeOK, Goto, Boots, Serves, Handles, Gone
<1>1. CASE Boot(p)
  BY <1>1 DEF Boot
<1>2. CASE ReadPid(p)
  BY <1>2 DEF ReadPid
<1>3. CASE KillOld(p)
  BY <1>3 DEF KillOld
<1>4. CASE OpenPidFile(p)
  BY <1>4 DEF OpenPidFile
<1>5. CASE WritePid(p)
  BY <1>5 DEF WritePid
<1>6. CASE StartServer(p)
  BY <1>6 DEF StartServer
<1>7. CASE Raise(p)
  BY <1>7 DEF Raise
<1>8. CASE Deliver(p)
  BY <1>8 DEF Deliver
<1>9. CASE Shell(p)
  BY <1>9 DEF Shell
<1>10. CASE ShellEnds(p)
  BY <1>10 DEF ShellEnds
<1>11. CASE Crash(p)
  BY <1>11 DEF Crash
<1>12. CASE HandlerOpens(p)
  BY <1>12 DEF HandlerOpens
<1>13. CASE HandlerWrites(p)
  BY <1>13 DEF HandlerWrites
<1>14. CASE Exit(p)
  BY <1>14 DEF Exit
<1>15. CASE HandledAgain(p)
  BY <1>15 DEF HandledAgain
<1> QED BY <1>1, <1>2, <1>3, <1>4, <1>5, <1>6, <1>7, <1>8, <1>9, <1>10, <1>11,
           <1>12, <1>13, <1>14, <1>15 DEF BootStep, Signal

(* The types are kept.                                                      *)
LEMMA TypeNext == TypeOK /\ [Next]_vars => TypeOK'
<1>1. ASSUME TypeOK, Next PROVE TypeOK'
  BY <1>1, TypeStep DEF Next
<1>2. ASSUME TypeOK, UNCHANGED vars PROVE TypeOK'
  BY <1>2 DEF TypeOK, vars
<1> QED BY <1>1, <1>2

(* However many processes are started, one serves exactly when it has the   *)
(* port.                                                                    *)
THEOREM BootTypeCorrect == Spec => []TypeOK
BY TypeInit, TypeNext, PTL DEF Spec

-----------------------------------------------------------------------------
(* No process that left through its handler is named by the pid file.       *)
THEOREM ExitedStayUnnamed == Spec => []NeverNamesExited
<1>1. Init => NeverNamesExited
  BY DEF Init, NeverNamesExited
<1>2. TypeOK /\ NeverNamesExited /\ [Next]_vars => NeverNamesExited'
  <2>1. ASSUME TypeOK, NeverNamesExited, NEW p \in Procs, BootStep(p) \/ Signal(p)
        PROVE  NeverNamesExited'
    <3>1. \A q \in Procs \ {p} : at'[q] = at[q]
      BY <2>1 DEF TypeOK, BootStep, Signal, Boot, ReadPid, KillOld, OpenPidFile,
         WritePid, StartServer, Raise, Deliver, Shell, ShellEnds, Crash,
         HandlerOpens, HandlerWrites, HandledAgain, Exit, Goto
    <3>2. \/ file' = file
          \/ file' \in {"empty", "letters"}
          \/ file' = p /\ at'[p] = "saved"
      BY <2>1 DEF TypeOK, BootStep, Signal, Boot, ReadPid, KillOld, OpenPidFile,
         WritePid, StartServer, Raise, Deliver, Shell, ShellEnds, Crash,
         HandlerOpens, HandlerWrites, HandledAgain, Exit, Goto
    <3>3. at'[p] \in {"emptied", "lettered", "left"} =>
            file' \in {"empty", "letters"} \/
              (file' = file /\ at[p] \in {"emptied", "lettered", "left"})
      BY <2>1 DEF TypeOK, BootStep, Signal, Boot, ReadPid, KillOld, OpenPidFile,
         WritePid, StartServer, Raise, Deliver, Shell, ShellEnds, Crash,
         HandlerOpens, HandlerWrites, HandledAgain, Exit, Goto
    <3> QED BY <2>1, <3>1, <3>2, <3>3 DEF NeverNamesExited
  <2>2. ASSUME NeverNamesExited, UNCHANGED vars PROVE NeverNamesExited'
    BY <2>2 DEF NeverNamesExited, vars
  <2> QED BY <2>1, <2>2 DEF Next
<1> QED BY <1>1, <1>2, TypeInit, TypeNext, PTL DEF Spec

-----------------------------------------------------------------------------
(* Each step of a process p leaves the owner of the pid file alone, or is   *)
(* hurried.                                                                 *)
LEMMA AloneStep ==
  ASSUME TypeOK, Alone, NEW p \in Procs, BootStep(p) \/ Signal(p)
  PROVE  Alone'
<1> SUFFICES ASSUME ~hurried', NEW o \in Procs, at'[o] \in Owns
             PROVE  /\ file' = IF at'[o] = "opened" THEN "empty" ELSE o
                    /\ \A q \in Procs \ {o} :
                         /\ at'[q] \in {"reading", "killing", "waiting", "ready", "handling"} \cup Gone
                         /\ port' # q
  BY DEF Alone
<1>1. ~hurried
  BY DEF TypeOK, BootStep, Signal, Boot, ReadPid, KillOld, OpenPidFile,
         WritePid, StartServer, Raise, Deliver, Shell, ShellEnds, Crash,
         HandlerOpens, HandlerWrites, HandledAgain, Exit
<1>2. \A q \in Procs : at[q] \in Boots \cup Serves \cup Handles \cup Gone
  BY DEF TypeOK
<1>3. at[o] \in Owns => 
        /\ file = IF at[o] = "opened" THEN "empty" ELSE o
        /\ \A q \in Procs \ {o} :
             /\ at[q] \in {"reading", "killing", "waiting", "ready", "handling"} \cup Gone
             /\ port # q
  BY <1>1 DEF Alone
<1> USE DEF Owns, Boots, Serves, Handles, Gone, Goto, TypeOK
<1>4. CASE Boot(p)
  BY <1>3, <1>4 DEF Boot
<1>5. CASE ReadPid(p)
  BY <1>3, <1>5 DEF ReadPid
<1>6. CASE KillOld(p)
  BY <1>3, <1>6 DEF KillOld
<1>7. CASE OpenPidFile(p)
  <2>1. \A q \in Procs \ {p} : at[q] \in Gone /\ port # q
    BY <1>7 DEF OpenPidFile, InTheWay, Alive
  <2>2. o = p
    BY <1>7, <2>1 DEF OpenPidFile
  <2> QED BY <1>7, <2>1, <2>2 DEF OpenPidFile
<1>8. CASE WritePid(p)
  BY <1>3, <1>8 DEF WritePid
<1>9. CASE StartServer(p)
  BY <1>3, <1>9 DEF StartServer
<1>10. CASE Raise(p)
  BY <1>3, <1>10 DEF Raise
<1>11. CASE Deliver(p)
  BY <1>3, <1>11 DEF Deliver
<1>12. CASE Shell(p)
  BY <1>3, <1>12 DEF Shell
<1>13. CASE ShellEnds(p)
  BY <1>3, <1>13 DEF ShellEnds
<1>14. CASE Crash(p)
  BY <1>3, <1>14 DEF Crash
<1>15. CASE HandlerOpens(p)
  <2>1. o # p /\ at[o] \in Owns
    BY <1>15 DEF HandlerOpens
  <2>2. port # p /\ InTheWay(p)
    BY <1>3, <2>1 DEF InTheWay, Alive
  <2> QED BY <1>15, <2>2 DEF HandlerOpens
<1>16. CASE HandlerWrites(p)
  BY <1>3, <1>16 DEF HandlerWrites
<1>17. CASE Exit(p)
  BY <1>3, <1>17 DEF Exit
<1>18. CASE HandledAgain(p)
  BY <1>3, <1>18 DEF HandledAgain
<1> QED BY <1>4, <1>5, <1>6, <1>7, <1>8, <1>9, <1>10, <1>11, <1>12, <1>13, <1>14,
           <1>15, <1>16, <1>17, <1>18 DEF BootStep, Signal

(* Unless a boot was hurried the pid file names the server.                 *)
THEOREM ServerStaysNamed == Spec => []ServerNamed
<1>1. Init => Alone
  BY DEF Init, Alone, Owns, Serves
<1>2. TypeOK /\ Alone /\ [Next]_vars => Alone'
  <2>1. ASSUME TypeOK, Alone, Next PROVE Alone'
    BY <2>1, AloneStep DEF Next
  <2>2. ASSUME Alone, UNCHANGED vars PROVE Alone'
    BY <2>2 DEF Alone, vars
  <2> QED BY <2>1, <2>2
<1>3. Alone => ServerNamed
  BY DEF Alone, ServerNamed, Owns, Serves
<1> QED BY <1>1, <1>2, <1>3, TypeInit, TypeNext, PTL DEF Spec
=============================================================================
