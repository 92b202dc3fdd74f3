------------------------------ MODULE Executor ------------------------------
(***************************************************************************)
(* What dlib's create_new_thread(funct, param) promises its caller: it     *)
(* answers true or false; the function of a call that answers true is run  *)
(* in a thread of its own, once, and that of a call that answers false     *)
(* never.  A job is one call.                                              *)
(***************************************************************************)
CONSTANT Jobs
VARIABLE job   \* job -> how far it is

States == {"new", "refused", "accepted", "running", "done"}

Init == job = [j \in Jobs |-> "new"]

Move(j, from, to) == job[j] = from /\ job' = [job EXCEPT ![j] = to]

Accept(j) == Move(j, "new", "accepted")   \* the call answers true
Refuse(j) == Move(j, "new", "refused")    \* the call answers false
Start(j)  == Move(j, "accepted", "running")
End(j)    == Move(j, "running", "done")

Next == \E j \in Jobs : Accept(j) \/ Refuse(j) \/ Start(j) \/ End(j)

Spec == Init /\ [][Next]_job
=============================================================================
