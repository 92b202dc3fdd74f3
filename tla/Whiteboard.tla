----------------------------- MODULE Whiteboard -----------------------------
(***************************************************************************)
(* A presenter, a viewer and the server between them.  The server is the   *)
(* log of batches per session that Board promises and SessionHost          *)
(* implements: a request takes effect on it at one instant.  Between pages *)
(* and server requests run side by side, each on a connection of its own,  *)
(* so they are handled and heard in any order unless Ordered.              *)
(***************************************************************************)
EXTENDS Presenter, Viewer

CONSTANTS
  Ordered,    \* a network and server that keep each page's requests in order
  MayLose,    \* may a request time out?
  MayExpire   \* may cron delete the session?

ASSUME WhiteboardAssumption ==
  Ordered \in BOOLEAN /\ MayLose \in BOOLEAN /\ MayExpire \in BOOLEAN

VARIABLE log  \* session name -> its batches

vars == <<presenterVars, viewerVars, log>>

Init ==
  /\ PresenterInit /\ ViewerInit
  /\ log = [s \in Names \cup {NoName} |-> << >>]

\* Ordered: nothing sent earlier is still under way.
FirstPost(p) == Ordered => \A q \in posts : p.n <= q.n
FirstFetch(f) ==
  Ordered => \A g \in fetches :
    f.visit < g.visit \/ (f.visit = g.visit /\ f.index <= g.index)

\* /project: dequeue
Project(p) ==
  /\ FirstPost(p)
  /\ log' = [log EXCEPT ![p.ses] = Append(@, p.batch)]
  /\ posts' = posts \ {p}
  /\ UNCHANGED <<presenting, isDown, send, canvas, strokes, posted, viewerVars>>

\* /numqueues: getQueueDepth
NumQueues(k) ==
  /\ polls[k].stage = "sent"
  /\ polls' = [polls EXCEPT ![k].stage = "answered",
                            ![k].depth = Len(log[polls[k].ses])]
  /\ UNCHANGED <<presenterVars, watching, curqd, visit, fetches, picture, log>>

\* /fetch: getQueue(ses, index, false).  Right after the last batch it reads
\* past the end of the vector: any string that is or was in memory.
Replies(s, i) ==
  IF i < Len(log[s]) THEN {log[s][i + 1]}
  ELSE IF i > Len(log[s]) THEN {<< >>}
  ELSE {<< >>} \cup UNION {ToSet(log[n]) : n \in Names}

Fetch(f) ==
  /\ f.stage = "sent"
  /\ \E b \in Replies(f.ses, f.index) :
       fetches' = (fetches \ {f}) \cup
                    {[f EXCEPT !.stage = "answered", !.batch = b]}
  /\ UNCHANGED <<presenterVars, watching, curqd, visit, polls, picture, log>>

Hear ==
  /\ \/ \E k \in Polls : HearDepth(k)
     \/ \E f \in fetches : FirstFetch(f) /\ HearBatch(f)
  /\ UNCHANGED <<presenterVars, log>>

Lose ==
  /\ MayLose
  /\ \/ \E p \in posts :
          /\ posts' = posts \ {p}
          /\ UNCHANGED <<presenting, isDown, send, canvas, strokes, posted,
                         viewerVars>>
     \/ /\ \/ \E k \in Polls : LosePoll(k)
           \/ \E f \in fetches : LoseFetch(f)
        /\ UNCHANGED presenterVars
  /\ UNCHANGED log

\* cron, or the server started anew: the batches of a session are gone.
Expire(s) ==
  /\ MayExpire
  /\ log' = [log EXCEPT ![s] = << >>]
  /\ UNCHANGED <<presenterVars, viewerVars>>

Serve ==
  \/ \E p \in posts : Project(p)
  \/ \E k \in Polls : NumQueues(k)
  \/ \E f \in fetches : Fetch(f)

Next ==
  \/ Present /\ UNCHANGED <<viewerVars, log>>
  \/ Watch /\ UNCHANGED <<presenterVars, log>>
  \/ Serve \/ Hear \/ Lose
  \/ \E s \in Names : Expire(s)

Spec == Init /\ [][Next]_vars

(***************************************************************************)
(* The interval timer runs for ever, the server answers and the browser    *)
(* runs its callbacks; the presenter owes nobody a stroke.                 *)
(***************************************************************************)
Fairness ==
  /\ WF_vars(\E p \in posts : Project(p))
  /\ WF_vars(\E f \in fetches : Fetch(f))
  /\ WF_vars(\E f \in fetches :
               FirstFetch(f) /\ HearBatch(f) /\ UNCHANGED <<presenterVars, log>>)
  /\ \A k \in Polls :
       /\ WF_vars(Render(k) /\ UNCHANGED <<presenterVars, log>>)
       /\ WF_vars(NumQueues(k))
       /\ WF_vars(HearDepth(k) /\ UNCHANGED <<presenterVars, log>>)

FairSpec == Spec /\ Fairness

-----------------------------------------------------------------------------
Batch == Seq(Marks \cup {Clear})
Sessions == Names \cup {NoName}

(* Every variable keeps to its type.                                        *)
TypeOK ==
  /\ presenting \in Sessions /\ isDown \in BOOLEAN /\ send \in Batch
  /\ canvas \subseteq Marks /\ strokes \in 0 .. MaxStrokes
  /\ \A p \in posts : p.n \in 1 .. posted /\ p.ses \in Names /\ p.batch \in Batch
  /\ posted \in 0 .. MaxPosts
  /\ watching \in Sessions /\ curqd \in Nat /\ visit \in 0 .. MaxVisits
  /\ \A k \in Polls :
       /\ polls[k].stage \in {"none", "sent", "answered", "loaded"}
       /\ polls[k].ses \in Sessions /\ polls[k].depth \in 0 .. MaxPosts
  /\ \A f \in fetches :
       /\ f.stage \in {"sent", "answered", "loaded"}
       /\ f.visit \in 0 .. visit /\ f.ses \in Sessions /\ f.index \in Nat
       /\ f.batch \in Batch
  /\ picture \subseteq Marks
  /\ log \in [Sessions -> Seq(Batch)]

(* While no session is deleted and the viewer keeps to one session name, a  *)
(* /fetch never asks for more than there is, so that getQueue does not read *)
(* past the end of its vector (Session.cxx:62-69, viewer.js:193-210): the   *)
(* viewer's count, taken from an earlier answer, is still within the log    *)
(* when the fetch arrives, however polls, posts and their answers overtake  *)
(* one another.  Both conditions are needed: a deletion while the fetch is  *)
(* under way, or a depth heard after the name was changed, makes it read    *)
(* past the end.                                                            *)
FetchInRange ==
  ~MayExpire /\ ~MayRetitle =>
    \A f \in fetches : f.stage = "sent" => f.index < Len(log[f.ses])

(* Within a visit no batch is asked for twice, whatever the polls that run  *)
(* side by side answer and however often they are heard (viewer.js:193-210).*)
AskedOnce ==
  \A f, g \in fetches :
    /\ f.visit = visit => f.index < curqd
    /\ f.visit = g.visit /\ f.index = g.index => f = g

\* Where a mark waits or is kept.
Places(mark) ==
  (IF Contains(send, mark) THEN {<<"send", 0>>} ELSE {})
    \cup {<<"post", p.n>> : p \in {q \in posts : Contains(q.batch, mark)}}
    \cup UNION {{<<s, i>> : i \in {j \in DOMAIN log[s] : Contains(log[s][j], mark)}} :
                s \in Names}

(* A stroke begins in one batch of one session at most, though requests may *)
(* be lost or overtake one another and the session be renamed or deleted    *)
(* within a stroke (presenter.js:103-125): what is posted is not posted     *)
(* again, neither by the next button released or board cleared nor to the   *)
(* session of the new name.                                                 *)
PostedOnce == \A n \in 1 .. MaxStrokes : Cardinality(Places(Dot(n))) <= 1

\* The viewer has heard all it asked for and, by its count, all there is, of
\* a session whose name it will not change any more.
AllHeard ==
  fetches = {} /\ curqd >= Len(log[watching]) /\ visit = MaxVisits

(* index.dev:21: "You can have as many users logged into the generated      *)
(* stream. They will all get to watch you paint along!"  A viewer who has   *)
(* heard every batch of the session sees what the batches draw.             *)
ViewersSeeBoard == AllHeard => picture = Shown(log[watching])

(* index.dev:21 again, and instructions_viewer.dev:3 on entering a session  *)
(* name: "Momentarilly, the previous renders will start loading."  A viewer *)
(* who asks for nothing more lacks none of what the batches draw.           *)
NothingMissed == AllHeard => Shown(log[watching]) \subseteq picture

(* instructions_presenter.dev:3: "The presenter allows you to create a      *)
(* session and broadcast what you draw to your audience."  When everything  *)
(* drawn has been posted and handled, the batches of the session draw what  *)
(* the presenter sees.                                                      *)
BroadcastsWhatIsDrawn ==
  posts = {} /\ send = << >> => Shown(log[presenting]) = canvas

(* Every batch of the session is fetched and heard in the end, by polling   *)
(* alone (viewer.js:178-216).                                               *)
RendersLoad ==
  \A i \in 1 .. MaxPosts :
    Len(log[watching]) >= i ~>
      curqd >= i /\ \A f \in fetches : f.index >= i
=============================================================================
