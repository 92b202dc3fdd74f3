------------------------------- MODULE Viewer -------------------------------
(***************************************************************************)
(* The viewer's page (viewer.js).  Every 200 ms render asks for the number *)
(* of batches of the session named in the sesname box; the callback        *)
(* fetches the batch after the last one it asked for, curqd, and the       *)
(* callback of that draws it.                                              *)
(*                                                                         *)
(* "if(xhr.readyState = 4)" is an assignment, to a property that is read-  *)
(* only, and always true: a callback runs at every readystatechange.  With *)
(* no body yet it does nothing ("" is neither a number nor a command); it  *)
(* has its effect twice, at LOADING, when the body is there, and at DONE.  *)
(* inProgress and fetching are reset by the code that sets them and hold   *)
(* nothing back.                                                           *)
(***************************************************************************)
EXTENDS Canvas

CONSTANTS
  MayRetitle,  \* is the session name changed while watching?
  Polls,       \* bound: /numqueues requests that run at a time
  MaxVisits    \* bound: changes of the session name

ASSUME ViewerAssumption == MayRetitle \in BOOLEAN /\ MaxVisits \in Nat

VARIABLES
  watching,  \* the value of the sesname box
  curqd,     \* the batches asked for so far
  visit,     \* how often the name was changed: tells requests apart
  polls,     \* the /numqueues requests
  fetches,   \* the /fetch requests
  picture    \* the marks on the viewer's canvas

viewerVars == <<watching, curqd, visit, polls, fetches, picture>>

\* A request is sent, answered by the server, and heard at LOADING, then DONE.
NoPoll == [stage |-> "none", ses |-> NoName, depth |-> 0]

\* The page opened from a share link, or once a name has been typed.
ViewerInit ==
  /\ watching \in Names
  /\ curqd = 0 /\ visit = 0 /\ picture = {}
  /\ polls = [k \in Polls |-> NoPoll] /\ fetches = {}

\* render, called by the interval timer
Render(k) ==
  /\ watching # NoName
  /\ polls[k].stage = "none"
  /\ polls' = [polls EXCEPT ![k] = [stage |-> "sent", ses |-> watching,
                                    depth |-> 0]]
  /\ UNCHANGED <<watching, curqd, visit, fetches, picture>>

\* A request for the batch after the last one asked for
NextFetch == [visit |-> visit, ses |-> watching, index |-> curqd,
              stage |-> "sent", batch |-> << >>]

\* Mutants: the loop runs to and including newqd; it stops one short; it
\* counts twice, in its body and in its head; in its head only, which break
\* skips.
FetchToDepth(newqd) ==
  IF curqd <= newqd
    THEN fetches' = fetches \cup {NextFetch} /\ curqd' = curqd + 1
    ELSE UNCHANGED <<fetches, curqd>>
FetchShort(newqd) ==
  IF curqd + 1 < newqd
    THEN fetches' = fetches \cup {NextFetch} /\ curqd' = curqd + 1
    ELSE UNCHANGED <<fetches, curqd>>
FetchEveryOther(newqd) ==
  IF curqd < newqd
    THEN fetches' = fetches \cup {NextFetch} /\ curqd' = curqd + 2
    ELSE UNCHANGED <<fetches, curqd>>
FetchUncounted(newqd) ==
  IF curqd < newqd
    THEN fetches' = fetches \cup {NextFetch} /\ UNCHANGED curqd
    ELSE UNCHANGED <<fetches, curqd>>

\* The callback of /numqueues: one batch per call, since its loop breaks,
\* for the session whose name is in the box by now.
FetchNext(newqd) ==
  IF curqd < newqd
    THEN fetches' = fetches \cup {NextFetch} /\ curqd' = curqd + 1
    ELSE UNCHANGED <<fetches, curqd>>

HearDepth(k) ==
  /\ polls[k].stage \in {"answered", "loaded"}
  /\ FetchNext(polls[k].depth)
  /\ polls' = [polls EXCEPT ![k] =
                 IF @.stage = "answered" THEN [@ EXCEPT !.stage = "loaded"]
                                         ELSE NoPoll]
  /\ UNCHANGED <<watching, visit, picture>>

\* The callback of /fetch: parseRequest on whatever session is shown by now
HearBatch(f) ==
  /\ f.stage \in {"answered", "loaded"}
  /\ picture' = Painted(picture, f.batch)
  /\ fetches' = (fetches \ {f}) \cup
       (IF f.stage = "answered" THEN {[f EXCEPT !.stage = "loaded"]} ELSE {})
  /\ UNCHANGED <<watching, curqd, visit, polls>>

\* A timeout or an error: the callback runs once more, with "".
LosePoll(k) ==
  /\ polls[k].stage # "none"
  /\ polls' = [polls EXCEPT ![k] = NoPoll]
  /\ UNCHANGED <<watching, curqd, visit, fetches, picture>>

LoseFetch(f) ==
  /\ fetches' = fetches \ {f}
  /\ UNCHANGED <<watching, curqd, visit, polls, picture>>

\* A key goes down in the sesname box, ...
TypeName(n) ==
  /\ MayRetitle /\ visit < MaxVisits
  /\ watching' = n
  /\ UNCHANGED <<curqd, visit, polls, fetches, picture>>

\* ... and up again: sesname_change, which leaves the requests running
SesnameChange ==
  /\ MayRetitle /\ visit < MaxVisits
  /\ watching' = Upper[watching]
  /\ picture' = {}
  /\ curqd' = 0
  /\ visit' = visit + 1
  /\ UNCHANGED <<polls, fetches>>

Watch ==
  \/ \E k \in Polls : Render(k)
  \/ \E n \in Names \cup {NoName} : TypeName(n)
  \/ SesnameChange
=============================================================================
