-------------------------- MODULE WhiteboardProofs --------------------------
(***************************************************************************)
(* Theorems about Whiteboard, for any names, numbers of strokes, posts and *)
(* polls, with or without lost requests and in whatever order they are     *)
(* handled.                                                                *)
(***************************************************************************)
EXTENDS Whiteboard, SequenceTheorems, FiniteSetTheorems, TLAPS

USE CanvasAssumption, PresenterAssumption, ViewerAssumption, WhiteboardAssumption

-----------------------------------------------------------------------------
(* The inductive invariant.  Logs only grow, so what was once true of the   *)
(* depth of one stays true; and while the name is not changed every answer  *)
(* under way is of the session watched.                                     *)

DrawingTrue ==
  /\ presenting \in Sessions /\ send \in Batch
  /\ strokes \in 0 .. MaxStrokes /\ (isDown => strokes > 0)

PostsTrue == \A p \in posts : p.ses \in Names /\ p.batch \in Batch

LogsTrue == log \in [Sessions -> Seq(Batch)]

Watching == watching \in Sessions /\ curqd \in Nat

Stages == {"none", "sent", "answered", "loaded"}

PollsTrue ==
  /\ polls \in [Polls -> [stage : Stages, ses : Sessions, depth : Nat]]
  /\ \A k \in Polls : polls[k].stage # "none" =>
       polls[k].ses = watching /\ polls[k].depth <= Len(log[watching])

FetchRecords == [visit : Nat, ses : Sessions, index : Nat, stage : Stages,
                 batch : Batch]

FetchesTrue ==
  /\ visit \in Nat /\ fetches \subseteq FetchRecords
  /\ \A f \in fetches : f.ses = watching /\ f.index < Len(log[watching])

CountsTrue ==
  /\ DrawingTrue /\ PostsTrue /\ LogsTrue
  /\ Watching /\ PollsTrue /\ FetchesTrue

-----------------------------------------------------------------------------
(* The marks of a stroke and a clear are what batches are made of.          *)
LEMMA MarksInBatches ==
  /\ Clear \in Marks \cup {Clear} /\ << >> \in Batch
  /\ \A n \in 1 .. MaxStrokes : Dot(n) \in Marks /\ Line(n) \in Marks
  /\ \A b \in Batch, m \in Marks \cup {Clear} : Append(b, m) \in Batch
BY DEF Marks, Dot, Line, Clear, Batch

(* sendRequest keeps the batch typed, whatever the canvas becomes.          *)
LEMMA SendRequestTypes ==
  ASSUME DrawingTrue, PostsTrue, NEW batch \in Batch, NEW c,
         SendRequest(batch, c)
  PROVE  send' \in Batch /\ PostsTrue'
<1>1. send' = << >> /\ send' \in Batch
  BY MarksInBatches DEF SendRequest
<1>2. CASE presenting = NoName
  BY <1>1, <1>2 DEF SendRequest, PostsTrue
<1>3. CASE presenting # NoName
  <2>1. presenting \in Names
    BY <1>3 DEF DrawingTrue, Sessions
  <2>2. posts' = posts \cup
          {[n |-> posted', ses |-> presenting, batch |-> batch]}
    BY <1>3 DEF SendRequest
  <2> QED BY <1>1, <2>1, <2>2 DEF PostsTrue
<1> QED BY <1>2, <1>3

(* No handler of the presenter's page puts anything but marks and clears    *)
(* into a batch.                                                            *)
LEMMA PresentTypes ==
  ASSUME DrawingTrue, PostsTrue, Present
  PROVE  DrawingTrue' /\ PostsTrue'
<1>1. CASE MouseDown
  <2>1. strokes' \in 1 .. MaxStrokes
    BY <1>1 DEF MouseDown, DrawingTrue
  <2>2. send' \in Batch
    BY <1>1, <2>1, MarksInBatches DEF MouseDown, DrawingTrue
  <2> QED BY <1>1, <2>1, <2>2 DEF MouseDown, DrawingTrue, PostsTrue
<1>2. CASE MouseMove
  <2>1. strokes \in 1 .. MaxStrokes
    BY <1>2 DEF MouseMove, DrawingTrue
  <2>2. send' \in Batch
    BY <1>2, <2>1, MarksInBatches DEF MouseMove, DrawingTrue
  <2> QED BY <1>2, <2>1, <2>2 DEF MouseMove, DrawingTrue, PostsTrue
<1>3. CASE MouseUp
  <2>1. send' \in Batch /\ PostsTrue'
    BY <1>3, SendRequestTypes DEF MouseUp, DrawingTrue
  <2> QED BY <1>3, <2>1 DEF MouseUp, DrawingTrue
<1>4. CASE ClearBoard
  <2>1. Append(send, Clear) \in Batch
    BY MarksInBatches DEF DrawingTrue
  <2>2. send' \in Batch /\ PostsTrue'
    BY <1>4, <2>1, SendRequestTypes DEF ClearBoard
  <2> QED BY <1>4, <2>2 DEF ClearBoard, DrawingTrue
<1>5. ASSUME NEW n \in Names \cup {NoName}, TypeTitle(n)
      PROVE  DrawingTrue' /\ PostsTrue'
  BY <1>5 DEF TypeTitle, DrawingTrue, PostsTrue, Sessions
<1>6. CASE SesboxChange
  BY <1>6 DEF SesboxChange, DrawingTrue, PostsTrue, Sessions
<1> QED BY <1>1, <1>2, <1>3, <1>4, <1>5, <1>6 DEF Present

(* A session's log is never shorter after a batch was pushed.               *)
LEMMA ProjectGrows ==
  ASSUME LogsTrue, PostsTrue, NEW p \in posts, Project(p)
  PROVE  LogsTrue' /\ \A s \in Sessions : Len(log'[s]) >= Len(log[s])
<1>1. p.ses \in Sessions /\ p.batch \in Batch
  BY DEF PostsTrue, Sessions
<1>2. log' = [log EXCEPT ![p.ses] = Append(@, p.batch)]
  BY DEF Project
<1>3. log[p.ses] \in Seq(Batch)
  BY <1>1 DEF LogsTrue
<1>4. /\ Append(log[p.ses], p.batch) \in Seq(Batch)
      /\ Len(Append(log[p.ses], p.batch)) = Len(log[p.ses]) + 1
      /\ Len(log[p.ses]) \in Nat
  BY <1>1, <1>3
<1>5. LogsTrue'
  BY <1>1, <1>2, <1>4 DEF LogsTrue
<1>6. ASSUME NEW s \in Sessions PROVE Len(log'[s]) >= Len(log[s])
  <2>1. CASE s = p.ses
    <3>1. log'[s] = Append(log[p.ses], p.batch)
      BY <1>1, <1>2, <2>1 DEF LogsTrue
    <3> QED BY <1>4, <2>1, <3>1
  <2>2. CASE s # p.ses
    <3>1. log'[s] = log[s] /\ Len(log[s]) \in Nat
      BY <1>1, <1>2, <2>2 DEF LogsTrue
    <3> QED BY <3>1
  <2> QED BY <2>1, <2>2
<1> QED BY <1>5, <1>6

(* What /fetch answers is a batch, past the end of the vector included.     *)
LEMMA RepliesAreBatches ==
  ASSUME LogsTrue, NEW s \in Sessions, NEW i \in Nat
  PROVE  Replies(s, i) \subseteq Batch
<1>1. << >> \in Batch
  BY MarksInBatches
<1>2. \A n \in Sessions : log[n] \in Seq(Batch)
  BY DEF LogsTrue
<1>3. \A n \in Names : ToSet(log[n]) \subseteq Batch
  BY <1>2 DEF ToSet, Sessions
<1>4. i < Len(log[s]) => log[s][i + 1] \in Batch
  <2>1. log[s] \in Seq(Batch) /\ Len(log[s]) \in Nat
    BY <1>2
  <2>2. i < Len(log[s]) => i + 1 \in 1 .. Len(log[s])
    BY <2>1
  <2> QED BY <2>1, <2>2
<1>5. UNION {ToSet(log[n]) : n \in Names} \subseteq Batch
  BY <1>3
<1> QED BY <1>1, <1>4, <1>5 DEF Replies

(* What was true of the answers under way stays true while logs only grow.  *)
LEMMA CountsStand ==
  ASSUME LogsTrue, LogsTrue', Watching, UNCHANGED viewerVars,
         \A s \in Sessions : Len(log'[s]) >= Len(log[s])
  PROVE  Watching' /\ (PollsTrue => PollsTrue') /\ (FetchesTrue => FetchesTrue')
<1>1. /\ watching' = watching /\ curqd' = curqd /\ visit' = visit
      /\ polls' = polls /\ fetches' = fetches
  BY DEF viewerVars
<1>2. /\ Len(log[watching]) \in Nat /\ Len(log'[watching]) \in Nat
      /\ Len(log'[watching]) >= Len(log[watching])
  BY DEF Watching, LogsTrue
<1>3. Watching'
  BY <1>1 DEF Watching
<1>4. PollsTrue => PollsTrue'
  BY <1>1, <1>2 DEF PollsTrue
<1>5. FetchesTrue => FetchesTrue'
  BY <1>1, <1>2 DEF FetchesTrue, FetchRecords
<1> QED BY <1>3, <1>4, <1>5

(* The callback of /numqueues asks for a batch that is there.               *)
LEMMA FetchNextInRange ==
  ASSUME LogsTrue, Watching, FetchesTrue,
         NEW d \in Nat, d <= Len(log[watching]), FetchNext(d),
         UNCHANGED <<watching, visit, log>>
  PROVE  Watching' /\ FetchesTrue'
<1>1. Len(log[watching]) \in Nat
  BY DEF LogsTrue, Watching
<1>2. CASE curqd < d
  <2>1. NextFetch \in FetchRecords
    BY MarksInBatches DEF NextFetch, FetchRecords, Watching, FetchesTrue, Stages
  <2>2. NextFetch.ses = watching /\ NextFetch.index < Len(log[watching])
    BY <1>1, <1>2 DEF NextFetch, Watching
  <2>3. fetches' = fetches \cup {NextFetch} /\ curqd' = curqd + 1
    BY <1>2 DEF FetchNext
  <2> QED BY <2>1, <2>2, <2>3 DEF Watching, FetchesTrue
<1>3. CASE ~(curqd < d)
  BY <1>3 DEF FetchNext, Watching, FetchesTrue
<1> QED BY <1>2, <1>3

(* A /fetch that is answered, or heard for the first time, is of the same   *)
(* session and batch as before.                                             *)
LEMMA FetchMoves ==
  ASSUME FetchesTrue, NEW f \in fetches, NEW x \in Stages, NEW b \in Batch,
         UNCHANGED <<watching, visit, log>>,
         fetches' \subseteq fetches \cup
           {[f EXCEPT !.stage = x, !.batch = b], [f EXCEPT !.stage = x]}
  PROVE  FetchesTrue'
<1>1. f \in FetchRecords /\ f.ses = watching /\ f.index < Len(log[watching])
  BY DEF FetchesTrue
<1>2. ASSUME NEW g \in {[f EXCEPT !.stage = x, !.batch = b],
                        [f EXCEPT !.stage = x]}
      PROVE  g \in FetchRecords /\ g.ses = f.ses /\ g.index = f.index
  BY <1>1 DEF FetchRecords
<1>3. ASSUME NEW g \in fetches'
      PROVE  g \in FetchRecords /\ g.ses = watching
             /\ g.index < Len(log[watching])
  BY <1>1, <1>2, <1>3 DEF FetchesTrue
<1> QED BY <1>3 DEF FetchesTrue

(* A request that is answered is still of the session it was made for.      *)
LEMMA AnsweredPoll ==
  ASSUME NEW S, NEW T, NEW D, NEW r \in [stage : S, ses : T, depth : D],
         NEW x \in S, NEW d \in D
  PROVE  LET q == [r EXCEPT !.stage = x, !.depth = d]
         IN  /\ q \in [stage : S, ses : T, depth : D]
             /\ q.ses = r.ses /\ q.depth = d
OBVIOUS

-----------------------------------------------------------------------------
(* Nothing was drawn or asked for yet.                                      *)
LEMMA CountsInit == Init => CountsTrue
<1> SUFFICES ASSUME Init PROVE CountsTrue
  OBVIOUS
<1>1. DrawingTrue /\ PostsTrue
  BY MarksInBatches
  DEF Init, PresenterInit, DrawingTrue, PostsTrue, Sessions
<1>2. LogsTrue
  BY DEF Init, LogsTrue, Sessions
<1>3. Watching /\ PollsTrue /\ FetchesTrue
  BY DEF Init, ViewerInit, Watching, PollsTrue, FetchesTrue, NoPoll, Stages,
         Sessions
<1> QED BY <1>1, <1>2, <1>3 DEF CountsTrue

(* Every action keeps CountsTrue while no session is deleted and no name is *)
(* changed.                                                                 *)
LEMMA CountsStep ==
  ASSUME ~MayExpire, ~MayRetitle
  PROVE  CountsTrue /\ [Next]_vars => CountsTrue'
<1> SUFFICES ASSUME CountsTrue, [Next]_vars PROVE CountsTrue'
  OBVIOUS
<1> USE DEF CountsTrue
<1>1. CASE Present /\ UNCHANGED <<viewerVars, log>>
  <2>1. DrawingTrue' /\ PostsTrue'
    BY <1>1, PresentTypes
  <2>2. LogsTrue' /\ \A s \in Sessions : Len(log'[s]) >= Len(log[s])
    BY <1>1 DEF LogsTrue
  <2> QED BY <1>1, <2>1, <2>2, CountsStand
<1>2. ASSUME NEW k \in Polls, Render(k), UNCHANGED <<presenterVars, log>>
      PROVE  CountsTrue'
  <2>1. DrawingTrue' /\ PostsTrue' /\ LogsTrue'
    BY <1>2 DEF presenterVars, DrawingTrue, PostsTrue, LogsTrue
  <2>2. Watching' /\ FetchesTrue'
    BY <1>2 DEF Render, Watching, FetchesTrue
  <2>3. Len(log[watching]) \in Nat
    BY DEF LogsTrue, Watching
  <2>4. PollsTrue'
    BY <1>2, <2>3 DEF Render, PollsTrue, Watching, Stages
  <2> QED BY <2>1, <2>2, <2>4
<1>3. ASSUME NEW p \in posts, Project(p)
      PROVE  CountsTrue'
  <2>1. DrawingTrue' /\ PostsTrue'
    BY <1>3 DEF Project, DrawingTrue, PostsTrue
  <2>2. LogsTrue' /\ \A s \in Sessions : Len(log'[s]) >= Len(log[s])
    BY <1>3, ProjectGrows
  <2>3. UNCHANGED viewerVars
    BY <1>3 DEF Project
  <2> QED BY <2>1, <2>2, <2>3, CountsStand
<1>4. ASSUME NEW k \in Polls, NumQueues(k)
      PROVE  CountsTrue'
  <2>1. DrawingTrue' /\ PostsTrue' /\ LogsTrue'
    BY <1>4 DEF NumQueues, presenterVars, DrawingTrue, PostsTrue, LogsTrue
  <2>2. Watching' /\ FetchesTrue'
    BY <1>4 DEF NumQueues, Watching, FetchesTrue
  <2>3. polls[k].ses = watching /\ Len(log[watching]) \in Nat
    BY <1>4 DEF NumQueues, PollsTrue, LogsTrue, Watching
  <2> DEFINE answered == [polls[k] EXCEPT !.stage = "answered",
                                          !.depth = Len(log[watching])]
  <2>4. polls' = [polls EXCEPT ![k] = answered]
    BY <1>4, <2>3 DEF NumQueues, PollsTrue
  <2>5. UNCHANGED <<watching, log>>
    BY <1>4 DEF NumQueues
  <2>6. polls[k] \in [stage : Stages, ses : Sessions, depth : Nat]
    BY DEF PollsTrue
  <2>7. /\ answered \in [stage : Stages, ses : Sessions, depth : Nat]
        /\ answered.ses = watching /\ answered.depth = Len(log[watching])
    BY <2>3, <2>6, AnsweredPoll DEF Stages
  <2>8. PollsTrue'
    <3> HIDE DEF answered
    <3> QED BY <2>3, <2>4, <2>5, <2>7 DEF PollsTrue
  <2> QED BY <2>1, <2>2, <2>8
<1>5. ASSUME NEW f \in fetches, Fetch(f)
      PROVE  CountsTrue'
  <2>1. DrawingTrue' /\ PostsTrue' /\ LogsTrue'
    BY <1>5 DEF Fetch, presenterVars, DrawingTrue, PostsTrue, LogsTrue
  <2>2. Watching' /\ PollsTrue'
    BY <1>5 DEF Fetch, Watching, PollsTrue
  <2>3. f.ses \in Sessions /\ f.index \in Nat
    BY DEF FetchesTrue, FetchRecords
  <2>4. PICK b \in Replies(f.ses, f.index) :
          fetches' = (fetches \ {f}) \cup
                       {[f EXCEPT !.stage = "answered", !.batch = b]}
    BY <1>5 DEF Fetch
  <2>5. b \in Batch
    BY <2>3, <2>4, RepliesAreBatches
  <2>6. UNCHANGED <<watching, visit, log>>
    BY <1>5 DEF Fetch
  <2>7. "answered" \in Stages
    BY DEF Stages
  <2>8. fetches' \subseteq fetches \cup
          {[f EXCEPT !.stage = "answered", !.batch = b],
           [f EXCEPT !.stage = "answered"]}
    BY <2>4
  <2>9. FetchesTrue'
    BY <2>5, <2>6, <2>7, <2>8, FetchMoves
  <2> QED BY <2>1, <2>2, <2>9
<1>6. ASSUME NEW k \in Polls, HearDepth(k), UNCHANGED <<presenterVars, log>>
      PROVE  CountsTrue'
  <2>1. DrawingTrue' /\ PostsTrue' /\ LogsTrue'
    BY <1>6 DEF presenterVars, DrawingTrue, PostsTrue, LogsTrue
  <2>2. polls[k].depth \in Nat /\ polls[k].depth <= Len(log[watching])
    BY <1>6 DEF HearDepth, PollsTrue
  <2>3. UNCHANGED <<watching, visit, log>> /\ FetchNext(polls[k].depth)
    BY <1>6 DEF HearDepth
  <2>4. Watching' /\ FetchesTrue'
    BY <2>2, <2>3, FetchNextInRange
  <2>5. Len(log[watching]) \in Nat
    BY DEF LogsTrue, Watching
  <2>6. polls' = [polls EXCEPT ![k] =
                    IF polls[k].stage = "answered"
                      THEN [polls[k] EXCEPT !.stage = "loaded"] ELSE NoPoll]
    BY <1>6 DEF HearDepth
  <2>7. PollsTrue'
    BY <2>2, <2>3, <2>5, <2>6 DEF PollsTrue, NoPoll, Stages, Sessions
  <2> QED BY <2>1, <2>4, <2>7
<1>7. ASSUME NEW f \in fetches, HearBatch(f), UNCHANGED <<presenterVars, log>>
      PROVE  CountsTrue'
  <2>1. DrawingTrue' /\ PostsTrue' /\ LogsTrue'
    BY <1>7 DEF presenterVars, DrawingTrue, PostsTrue, LogsTrue
  <2>2. Watching' /\ PollsTrue' /\ UNCHANGED <<watching, visit, log>>
    BY <1>7 DEF HearBatch, Watching, PollsTrue
  <2>3. "loaded" \in Stages /\ << >> \in Batch
    BY MarksInBatches DEF Stages
  <2>4. fetches' \subseteq fetches \cup
          {[f EXCEPT !.stage = "loaded", !.batch = << >>],
           [f EXCEPT !.stage = "loaded"]}
    BY <1>7 DEF HearBatch
  <2>5. FetchesTrue'
    BY <2>2, <2>3, <2>4, FetchMoves
  <2> QED BY <2>1, <2>2, <2>5
<1>8. CASE Lose
  <2>1. ASSUME NEW p \in posts, posts' = posts \ {p},
               UNCHANGED <<presenting, isDown, send, canvas, strokes, posted,
                           viewerVars>>
        PROVE  CountsTrue'
    <3>1. log' = log
      BY <1>8 DEF Lose
    <3>2. LogsTrue' /\ \A s \in Sessions : Len(log'[s]) >= Len(log[s])
      BY <3>1 DEF LogsTrue
    <3>3. DrawingTrue' /\ PostsTrue'
      BY <2>1 DEF DrawingTrue, PostsTrue
    <3> QED BY <2>1, <3>2, <3>3, CountsStand
  <2>2. ASSUME NEW k \in Polls, LosePoll(k), UNCHANGED <<presenterVars, log>>
        PROVE  CountsTrue'
    <3>1. DrawingTrue' /\ PostsTrue' /\ LogsTrue'
      BY <2>2 DEF presenterVars, DrawingTrue, PostsTrue, LogsTrue
    <3>2. Watching' /\ FetchesTrue' /\ PollsTrue'
      BY <2>2
      DEF LosePoll, Watching, FetchesTrue, PollsTrue, NoPoll, Stages, Sessions
    <3> QED BY <3>1, <3>2
  <2>3. ASSUME NEW f \in fetches, LoseFetch(f), UNCHANGED <<presenterVars, log>>
        PROVE  CountsTrue'
    <3>1. DrawingTrue' /\ PostsTrue' /\ LogsTrue'
      BY <2>3 DEF presenterVars, DrawingTrue, PostsTrue, LogsTrue
    <3>2. Watching' /\ FetchesTrue' /\ PollsTrue'
      BY <2>3 DEF LoseFetch, Watching, FetchesTrue, PollsTrue
    <3> QED BY <3>1, <3>2
  <2> QED BY <1>8, <2>1, <2>2, <2>3 DEF Lose
<1>9. CASE UNCHANGED vars
  <2>1. UNCHANGED <<presenterVars, viewerVars, log>>
    BY <1>9 DEF vars
  <2>2. DrawingTrue' /\ PostsTrue'
    BY <2>1 DEF presenterVars, DrawingTrue, PostsTrue
  <2>3. LogsTrue' /\ \A s \in Sessions : Len(log'[s]) >= Len(log[s])
    BY <2>1 DEF LogsTrue
  <2> QED BY <2>1, <2>2, <2>3, CountsStand
<1>10. CASE Watch /\ UNCHANGED <<presenterVars, log>>
  BY <1>2, <1>10 DEF Watch, TypeName, SesnameChange
<1>11. CASE Serve
  BY <1>3, <1>4, <1>5, <1>11 DEF Serve
<1>12. CASE Hear
  BY <1>6, <1>7, <1>12 DEF Hear
<1> QED BY <1>1, <1>8, <1>9, <1>10, <1>11, <1>12 DEF Next, Expire

(* FetchInRange states its conditions: as long as no session is deleted and *)
(* the viewer keeps to its session, no /fetch reaches the element past the  *)
(* end of getQueue's vector, however requests are reordered, repeated by    *)
(* double callbacks or lost.                                                *)
THEOREM FetchesInRange == Spec => []FetchInRange
<1>1. CASE ~MayExpire /\ ~MayRetitle
  <2>1. CountsTrue => FetchInRange
    BY DEF CountsTrue, FetchesTrue, FetchInRange
  <2>2. CountsTrue /\ [Next]_vars => CountsTrue'
    BY <1>1, CountsStep
  <2> QED BY <2>1, <2>2, CountsInit, PTL DEF Spec
<1>2. CASE MayExpire \/ MayRetitle
  <2>1. FetchInRange
    BY <1>2 DEF FetchInRange
  <2> QED BY <2>1, PTL
<1> QED BY <1>1, <1>2

-----------------------------------------------------------------------------
(* AskedOnce needs no such assumption: names may change and sessions go.    *)

IsFetch(f) ==
  \E v \in Nat, i \in Nat : \E s, g, b :
    f = [visit |-> v, ses |-> s, index |-> i, stage |-> g, batch |-> b]

AskedTrue ==
  /\ curqd \in Nat /\ visit \in Nat
  /\ \A f \in fetches :
       IsFetch(f) /\ f.visit <= visit /\ (f.visit = visit => f.index < curqd)
  /\ \A f, g \in fetches : f.visit = g.visit /\ f.index = g.index => f = g

(* A request that is answered, heard or lost is the same request.           *)
LEMMA SameRequest ==
  ASSUME AskedTrue, UNCHANGED <<curqd, visit>>, NEW f \in fetches, NEW g,
         IsFetch(g), g.visit = f.visit, g.index = f.index,
         fetches' \subseteq (fetches \ {f}) \cup {g}
  PROVE  AskedTrue'
BY DEF AskedTrue

(* A request whose stage changes is told apart as before, ...               *)
LEMMA StageIsNoName ==
  ASSUME NEW f, IsFetch(f), NEW x, NEW g, g = [f EXCEPT !.stage = x]
  PROVE  IsFetch(g) /\ g.visit = f.visit /\ g.index = f.index
<1>1. PICK v \in Nat, i \in Nat : \E s, k, c :
        f = [visit |-> v, ses |-> s, index |-> i, stage |-> k, batch |-> c]
  BY DEF IsFetch
<1>2. PICK s, k, c :
        f = [visit |-> v, ses |-> s, index |-> i, stage |-> k, batch |-> c]
  BY <1>1
<1>3. g = [visit |-> v, ses |-> s, index |-> i, stage |-> x, batch |-> c]
  BY <1>2
<1>4. IsFetch(g)
  BY <1>3 DEF IsFetch
<1> QED BY <1>2, <1>3, <1>4

(* ... and so is one that is given a batch.                                 *)
LEMMA BatchIsNoName ==
  ASSUME NEW f, IsFetch(f), NEW x, NEW g, g = [f EXCEPT !.batch = x]
  PROVE  IsFetch(g) /\ g.visit = f.visit /\ g.index = f.index
<1>1. PICK v \in Nat, i \in Nat : \E s, k, c :
        f = [visit |-> v, ses |-> s, index |-> i, stage |-> k, batch |-> c]
  BY DEF IsFetch
<1>2. PICK s, k, c :
        f = [visit |-> v, ses |-> s, index |-> i, stage |-> k, batch |-> c]
  BY <1>1
<1>3. g = [visit |-> v, ses |-> s, index |-> i, stage |-> k, batch |-> x]
  BY <1>2
<1>4. IsFetch(g)
  BY <1>3 DEF IsFetch
<1> QED BY <1>2, <1>3, <1>4

(* The callback of a poll asks for the batch at curqd and counts it.        *)
LEMMA NextIsNew ==
  ASSUME AskedTrue, NEW newqd, FetchNext(newqd), UNCHANGED visit
  PROVE  AskedTrue'
<1>1. CASE curqd < newqd
  <2>1. /\ fetches' = fetches \cup {NextFetch}
        /\ curqd' = curqd + 1 /\ visit' = visit
    BY <1>1 DEF FetchNext
  <2>2. /\ IsFetch(NextFetch)
        /\ NextFetch.visit = visit /\ NextFetch.index = curqd
    BY DEF NextFetch, IsFetch, AskedTrue
  <2>3. curqd' \in Nat /\ visit' \in Nat
    BY <2>1 DEF AskedTrue
  <2>4. ASSUME NEW f \in fetches'
        PROVE  IsFetch(f) /\ f.visit <= visit /\ (f.visit = visit => f.index < curqd')
    <3>1. CASE f \in fetches
      <4>1. PICK v \in Nat, i \in Nat : f.visit = v /\ f.index = i
        BY <3>1 DEF AskedTrue, IsFetch
      <4> QED BY <2>1, <3>1, <4>1 DEF AskedTrue
    <3>2. CASE f = NextFetch
      BY <2>1, <2>2, <3>2 DEF AskedTrue
    <3> QED BY <2>1, <3>1, <3>2
  <2>5. ASSUME NEW f \in fetches, f.visit = visit
        PROVE  f.index # curqd
    <3>1. f.index < curqd
      BY <2>5 DEF AskedTrue
    <3> QED BY <3>1 DEF AskedTrue
  <2>6. ASSUME NEW f \in fetches', NEW g \in fetches',
               f.visit = g.visit, f.index = g.index
        PROVE  f = g
    BY <2>1, <2>2, <2>5, <2>6 DEF AskedTrue
  <2> QED BY <2>1, <2>3, <2>4, <2>6 DEF AskedTrue
<1>2. CASE ~(curqd < newqd)
  BY <1>2 DEF FetchNext, AskedTrue
<1> QED BY <1>1, <1>2

(* Every step keeps the requests apart.                                     *)
LEMMA AskedStep ==
  ASSUME AskedTrue, [Next]_vars
  PROVE  AskedTrue'
<1>1. CASE UNCHANGED <<curqd, visit, fetches>>
  BY <1>1 DEF AskedTrue
<1>2. CASE SesnameChange
  <2>1. curqd' = 0 /\ visit' = visit + 1 /\ fetches' = fetches
    BY <1>2 DEF SesnameChange
  <2>2. ASSUME NEW f \in fetches PROVE f.visit <= visit' /\ f.visit # visit'
    <3>1. PICK v \in Nat : f.visit = v
      BY DEF AskedTrue, IsFetch
    <3> QED BY <2>1, <3>1 DEF AskedTrue
  <2> QED BY <2>1, <2>2 DEF AskedTrue
<1>3. ASSUME NEW f \in fetches, Fetch(f)
      PROVE  AskedTrue'
  <2>1. PICK b : fetches' = (fetches \ {f}) \cup
                   {[f EXCEPT !.stage = "answered", !.batch = b]}
    BY <1>3 DEF Fetch
  <2>2. UNCHANGED <<curqd, visit>>
    BY <1>3 DEF Fetch
  <2> DEFINE h == [f EXCEPT !.stage = "answered"]
             g == [h EXCEPT !.batch = b]
  <2>3. IsFetch(h) /\ h.visit = f.visit /\ h.index = f.index
    <3>1. IsFetch(f)
      BY DEF AskedTrue
    <3> QED BY <3>1, StageIsNoName
  <2>4. fetches' = (fetches \ {f}) \cup {g}
    BY <2>1
  <2> HIDE DEF h
  <2>5. IsFetch(g) /\ g.visit = f.visit /\ g.index = f.index
    BY <2>3, BatchIsNoName
  <2> HIDE DEF g
  <2> QED BY <2>2, <2>4, <2>5, SameRequest
<1>4. ASSUME NEW f \in fetches, HearBatch(f)
      PROVE  AskedTrue'
  <2> DEFINE g == [f EXCEPT !.stage = "loaded"]
  <2>1. fetches' \subseteq (fetches \ {f}) \cup {g}
    BY <1>4 DEF HearBatch
  <2>2. UNCHANGED <<curqd, visit>>
    BY <1>4 DEF HearBatch
  <2>3. IsFetch(g) /\ g.visit = f.visit /\ g.index = f.index
    <3>1. IsFetch(f)
      BY DEF AskedTrue
    <3> QED BY <3>1, StageIsNoName
  <2> HIDE DEF g
  <2> QED BY <2>1, <2>2, <2>3, SameRequest
<1>5. ASSUME NEW k \in Polls, HearDepth(k)
      PROVE  AskedTrue'
  BY <1>5, NextIsNew DEF HearDepth
<1>6. ASSUME NEW f \in fetches, LoseFetch(f)
      PROVE  AskedTrue'
  BY <1>6 DEF LoseFetch, AskedTrue
<1>7. CASE Present /\ UNCHANGED <<viewerVars, log>>
  BY <1>1, <1>7 DEF viewerVars
<1>8. CASE Watch
  BY <1>1, <1>2, <1>8 DEF Watch, Render, TypeName
<1>9. CASE Serve
  BY <1>1, <1>3, <1>9 DEF Serve, Project, NumQueues, viewerVars
<1>10. CASE Hear
  BY <1>4, <1>5, <1>10 DEF Hear
<1>11. CASE Lose
  BY <1>1, <1>6, <1>11 DEF Lose, LosePoll, viewerVars
<1>12. ASSUME NEW s \in Names, Expire(s)
       PROVE  AskedTrue'
  BY <1>1, <1>12 DEF Expire, viewerVars
<1>13. CASE UNCHANGED vars
  BY <1>1, <1>13 DEF vars, viewerVars
<1> QED BY <1>7, <1>8, <1>9, <1>10, <1>11, <1>12, <1>13 DEF Next

(* Whatever is lost, renamed, deleted or overtaken: no batch is asked for   *)
(* twice within a visit.                                                    *)
THEOREM BatchesAskedOnce == Spec => []AskedOnce
<1>1. Init => AskedTrue
  BY DEF Init, ViewerInit, AskedTrue
<1>2. AskedTrue => AskedOnce
  BY DEF AskedTrue, AskedOnce
<1>3. AskedTrue /\ [Next]_vars => AskedTrue'
  BY AskedStep
<1> QED BY <1>1, <1>2, <1>3, PTL DEF Spec

-----------------------------------------------------------------------------
(* What the marks of a batch, and the batches of a log, draw.               *)

PaintMarks   == INSTANCE Folding WITH Op <- Paint
PaintBatches == INSTANCE Folding WITH Op <- Painted

(* A batch is drawn mark by mark.                                           *)
LEMMA PaintedSteps ==
  /\ \A c : Painted(c, << >>) = c
  /\ \A c : \A b \in Batch, m \in Marks \cup {Clear} :
       Painted(c, Append(b, m)) = Paint(Painted(c, b), m)
<1>1. \A c, b : Painted(c, b) = PaintMarks!Fold(c, b)
  BY DEF Painted, FoldLeft, MapThenFoldSet, Max, PaintMarks!Fold,
         PaintMarks!FoldLeft, PaintMarks!MapThenFoldSet, PaintMarks!Max, Paint
<1>2. \A c : PaintMarks!Fold(c, << >>) = c
  BY PaintMarks!FoldEmpty
<1>3. ASSUME NEW c, NEW b \in Batch, NEW m \in Marks \cup {Clear}
      PROVE  PaintMarks!Fold(c, Append(b, m)) = Paint(PaintMarks!Fold(c, b), m)
  BY PaintMarks!FoldAppend DEF Batch
<1> QED BY <1>1, <1>2, <1>3

(* A log is drawn batch by batch.                                           *)
LEMMA ShownSteps ==
  /\ Shown(<< >>) = {}
  /\ \A l \in Seq(Batch), b \in Batch :
       Shown(Append(l, b)) = Painted(Shown(l), b)
<1>1. \A l : Shown(l) = PaintBatches!Fold({}, l)
  BY DEF Shown, FoldLeft, MapThenFoldSet, Max, PaintBatches!Fold,
         PaintBatches!FoldLeft, PaintBatches!MapThenFoldSet, PaintBatches!Max
<1>2. PaintBatches!Fold({}, << >>) = {}
  BY PaintBatches!FoldEmpty
<1>3. ASSUME NEW l \in Seq(Batch), NEW b \in Batch
      PROVE  PaintBatches!Fold({}, Append(l, b)) = Painted(PaintBatches!Fold({}, l), b)
  BY PaintBatches!FoldAppend
<1> QED BY <1>1, <1>2, <1>3

(* A batch either hides all there was or adds its marks to it; so it makes  *)
(* no difference whether it is drawn once or twice.                         *)
LEMMA PaintedTwice ==
  ASSUME NEW c, NEW b \in Batch
  PROVE  Painted(Painted(c, b), b) = Painted(c, b)
<1> DEFINE Hides(s) == \A x, y : Painted(x, s) = Painted(y, s)
           Adds(s)  == \E M : \A x : Painted(x, s) = x \cup M
           S == {s \in Batch : Hides(s) \/ Adds(s)}
<1>1. << >> \in S
  <2>1. \A x : Painted(x, << >>) = x \cup {}
    BY PaintedSteps
  <2>2. Adds(<< >>) /\ << >> \in Batch
    BY <2>1, MarksInBatches
  <2> QED BY <2>2
<1>2. ASSUME NEW s \in Batch, NEW m \in Marks \cup {Clear}, s \in S
      PROVE  Append(s, m) \in S
  <2>1. /\ Append(s, m) \in Batch
        /\ \A x : Painted(x, Append(s, m)) = Paint(Painted(x, s), m)
    BY MarksInBatches, PaintedSteps
  <2>2. CASE m = Clear \/ Hides(s)
    <3>1. Hides(Append(s, m))
      BY <2>1, <2>2 DEF Paint
    <3> QED BY <2>1, <3>1
  <2>3. CASE m # Clear /\ Adds(s)
    <3>1. PICK M : \A x : Painted(x, s) = x \cup M
      BY <2>3
    <3>2. \A x : Painted(x, Append(s, m)) = x \cup (M \cup {m})
      BY <2>1, <2>3, <3>1 DEF Paint
    <3>3. Adds(Append(s, m))
      BY <3>2
    <3> QED BY <2>1, <3>3
  <2> QED BY <1>2, <2>2, <2>3
<1>3. b \in S
  <2> HIDE DEF S
  <2>1. Seq(Marks \cup {Clear}) \subseteq S
    BY <1>1, <1>2, PaintMarks!SequenceInduction DEF Batch
  <2> QED BY <2>1 DEF Batch
<1> QED BY <1>3

(* Nothing but marks is drawn.                                              *)
LEMMA PaintedAreMarks ==
  ASSUME NEW c \in SUBSET Marks, NEW b \in Batch
  PROVE  Painted(c, b) \subseteq Marks
<1> DEFINE S == {s \in Batch : Painted(c, s) \subseteq Marks}
<1>1. << >> \in S
  BY PaintedSteps, MarksInBatches
<1>2. ASSUME NEW s \in Batch, NEW m \in Marks \cup {Clear}, s \in S
      PROVE  Append(s, m) \in S
  <2>1. /\ Append(s, m) \in Batch
        /\ Painted(c, Append(s, m)) = Paint(Painted(c, s), m)
    BY MarksInBatches, PaintedSteps
  <2> QED BY <1>2, <2>1 DEF Paint
<1> HIDE DEF S
<1>3. Seq(Marks \cup {Clear}) \subseteq S
  BY <1>1, <1>2, PaintMarks!SequenceInduction DEF Batch
<1> QED BY <1>3 DEF S, Batch

-----------------------------------------------------------------------------
(* What the viewer has heard, if every request of the visit is heard in     *)
(* order: the first h batches, of which the last may have to be heard once  *)
(* more.                                                                    *)

Upto(h) == SubSeq(log[watching], 1, h)

Heard(h) ==
  /\ h <= curqd /\ curqd <= Len(log[watching])
  /\ picture = Shown(Upto(h))
  /\ \A f \in fetches :
       /\ f.visit = visit
       /\ f.stage \in {"sent", "answered"} => f.index >= h
       /\ f.stage = "loaded" => f.index = h - 1
       /\ f.stage \in {"answered", "loaded"} => f.batch = log[watching][f.index + 1]
       /\ f.stage # "none"
  /\ \A i \in h .. curqd - 1 : \E f \in fetches : f.index = i

HeardTrue == \E h \in Nat : Heard(h)

(* One batch more of a log.                                                 *)
LEMMA UptoNext ==
  ASSUME NEW l \in Seq(Batch), NEW h \in Nat, h < Len(l)
  PROVE  /\ SubSeq(l, 1, h) \in Seq(Batch) /\ l[h + 1] \in Batch
         /\ SubSeq(l, 1, h + 1) = Append(SubSeq(l, 1, h), l[h + 1])
         /\ Shown(SubSeq(l, 1, h + 1)) = Painted(Shown(SubSeq(l, 1, h)), l[h + 1])
<1>1. /\ SubSeq(l, 1, h) \in Seq(Batch) /\ l[h + 1] \in Batch
      /\ SubSeq(l, 1, h + 1) = Append(SubSeq(l, 1, h), l[h + 1])
  OBVIOUS
<1> QED BY <1>1, ShownSteps

(* The callback of the first request: at LOADING one batch more is drawn,   *)
(* at DONE the same once more.                                              *)
LEMMA HeardNext ==
  ASSUME Ordered, CountsTrue, AskedTrue, HeardTrue, NEW f \in fetches,
         FirstFetch(f), HearBatch(f), UNCHANGED log
  PROVE  HeardTrue'
<1> DEFINE l == log[watching]
<1>1. PICK h \in Nat : Heard(h)
  BY DEF HeardTrue
<1>2. /\ l \in Seq(Batch) /\ Len(l) \in Nat /\ curqd \in Nat
      /\ \A g \in fetches : g \in FetchRecords /\ g.index \in Nat /\ g.index < Len(l)
  BY DEF CountsTrue, LogsTrue, Watching, FetchesTrue, FetchRecords
<1>3. \A g \in fetches : f.index <= g.index
  BY <1>1 DEF FirstFetch, Heard, FetchesTrue, CountsTrue
<1>4. /\ picture' = Painted(picture, f.batch)
      /\ UNCHANGED <<watching, curqd, visit, log>>
      /\ f.stage \in {"answered", "loaded"} /\ f.batch = l[f.index + 1]
  BY <1>1 DEF HearBatch, Heard
<1>5. \A g \in fetches : g.index = f.index => g = f
  BY <1>1 DEF AskedTrue, Heard
<1>6. CASE f.stage = "answered"
  <2>1. f.index = h
    <3>1. f.index >= h /\ f.index < curqd
      BY <1>1, <1>6 DEF Heard, AskedTrue
    <3>2. f.index > h => h \in h .. curqd - 1
      BY <1>2, <3>1
    <3> QED BY <1>1, <1>2, <1>3, <3>1, <3>2 DEF Heard
  <2>2. picture' = Shown(SubSeq(l, 1, h + 1))
    BY <1>1, <1>2, <1>4, <2>1, UptoNext DEF Heard, Upto
  <2> DEFINE g == [f EXCEPT !.stage = "loaded"]
  <2>3. fetches' = (fetches \ {f}) \cup {g}
    BY <1>6 DEF HearBatch
  <2>4. /\ g.visit = f.visit /\ g.index = f.index /\ g.stage = "loaded"
        /\ g.batch = f.batch
    BY <1>2 DEF FetchRecords
  <2> HIDE DEF g
  <2>5. ASSUME NEW e \in fetches'
        PROVE  /\ e.visit = visit
               /\ e.stage \in {"sent", "answered"} => e.index >= h + 1
               /\ e.stage = "loaded" => e.index = (h + 1) - 1
               /\ e.stage \in {"answered", "loaded"} => e.batch = l[e.index + 1]
               /\ e.stage # "none"
    <3>1. CASE e = g
      BY <1>1, <1>4, <2>1, <2>4, <3>1 DEF Heard
    <3>2. CASE e # g
      <4>1. e \in fetches /\ e # f /\ e.index # h /\ e.index >= h
        BY <1>2, <1>3, <1>5, <2>1, <2>3, <2>5, <3>2
      <4> QED BY <1>1, <1>2, <4>1 DEF Heard
    <3> QED BY <3>1, <3>2
  <2>6. ASSUME NEW i \in h + 1 .. curqd - 1
        PROVE  \E e \in fetches' : e.index = i
    <3>1. i \in h .. curqd - 1 /\ i # h
      BY <1>2
    <3>2. PICK e \in fetches : e.index = i
      BY <1>1, <3>1 DEF Heard
    <3> QED BY <2>1, <2>3, <3>1, <3>2
  <2>7. h + 1 <= curqd /\ h + 1 \in Nat
    BY <1>1, <1>2, <2>1 DEF Heard, AskedTrue
  <2>8. Heard(h + 1)'
    BY <1>1, <1>4, <2>2, <2>5, <2>6, <2>7 DEF Heard, Upto
  <2> QED BY <2>7, <2>8 DEF HeardTrue
<1>7. CASE f.stage = "loaded"
  <2>1. f.index = h - 1 /\ h - 1 \in Nat /\ (h - 1) + 1 = h
    BY <1>1, <1>2, <1>7 DEF Heard
  <2>2. picture' = picture
    <3>1. /\ SubSeq(l, 1, h - 1) \in Seq(Batch) /\ l[h] \in Batch
          /\ picture = Painted(Shown(SubSeq(l, 1, h - 1)), l[h])
      BY <1>1, <1>2, <2>1, UptoNext DEF Heard, Upto
    <3> QED BY <1>4, <2>1, <3>1, PaintedTwice
  <2>3. fetches' = fetches \ {f}
    BY <1>7 DEF HearBatch
  <2>4. \A i \in h .. curqd - 1 : \E e \in fetches' : e.index = i
    <3>1. SUFFICES ASSUME NEW i \in h .. curqd - 1
                   PROVE  \E e \in fetches' : e.index = i
      OBVIOUS
    <3>2. PICK e \in fetches : e.index = i
      BY <1>1 DEF Heard
    <3> QED BY <2>1, <2>3, <3>2
  <2>5. Heard(h)'
    BY <1>1, <1>4, <2>2, <2>3, <2>4 DEF Heard, Upto
  <2> QED BY <2>5 DEF HeardTrue
<1> QED BY <1>4, <1>6, <1>7

(* What was heard stays heard while the log only grows.                     *)
LEMMA HeardStays ==
  ASSUME CountsTrue, HeardTrue, NEW l \in Seq(Batch), log'[watching] = l,
         Len(l) >= Len(log[watching]),
         \A i \in 1 .. Len(log[watching]) : l[i] = log[watching][i],
         UNCHANGED <<watching, curqd, visit, fetches, picture>>
  PROVE  HeardTrue'
<1>1. PICK h \in Nat : Heard(h)
  BY DEF HeardTrue
<1>2. /\ log[watching] \in Seq(Batch) /\ Len(log[watching]) \in Nat /\ Len(l) \in Nat
      /\ curqd \in Nat
      /\ \A f \in fetches : f.index \in Nat /\ f.index < Len(log[watching])
  BY DEF CountsTrue, LogsTrue, Watching, FetchesTrue, FetchRecords
<1>3. h <= Len(log[watching])
  BY <1>1, <1>2 DEF Heard
<1>4. SubSeq(l, 1, h) = SubSeq(log[watching], 1, h)
  BY <1>2, <1>3
<1>5. \A f \in fetches : l[f.index + 1] = log[watching][f.index + 1]
  BY <1>2
<1>6. curqd <= Len(l)
  BY <1>1, <1>2 DEF Heard
<1>7. Heard(h)'
  BY <1>1, <1>4, <1>5, <1>6 DEF Heard, Upto
<1> QED BY <1>7 DEF HeardTrue

(* Nothing was asked for yet.                                               *)
LEMMA HeardInit == Init => HeardTrue
<1> SUFFICES ASSUME Init PROVE HeardTrue
  OBVIOUS
<1>1. /\ curqd = 0 /\ picture = {} /\ fetches = {} /\ watching \in Names
      /\ log = [s \in Names \cup {NoName} |-> << >>]
  BY DEF Init, ViewerInit
<1>2. log[watching] = << >> /\ Upto(0) = << >> /\ Len(log[watching]) = 0
  BY <1>1 DEF Upto
<1>3. Heard(0)
  BY <1>1, <1>2, ShownSteps DEF Heard
<1> QED BY <1>3 DEF HeardTrue

(* Every step keeps what was heard in order.                                *)
LEMMA HeardStep ==
  ASSUME Ordered, ~MayLose, ~MayExpire, ~MayRetitle
  PROVE  CountsTrue /\ AskedTrue /\ HeardTrue /\ [Next]_vars => HeardTrue'
<1> SUFFICES ASSUME CountsTrue, AskedTrue, HeardTrue, [Next]_vars PROVE HeardTrue'
  OBVIOUS
<1>1. /\ log[watching] \in Seq(Batch) /\ Len(log[watching]) \in Nat
      /\ curqd \in Nat /\ watching \in Sessions
      /\ \A f \in fetches : f \in FetchRecords /\ f.ses = watching
                            /\ f.index \in Nat /\ f.index < Len(log[watching])
  BY DEF CountsTrue, LogsTrue, Watching, FetchesTrue, FetchRecords
<1>2. CASE UNCHANGED <<log, watching, curqd, visit, fetches, picture>>
  <2>1. log'[watching] = log[watching]
    BY <1>2
  <2> QED BY <1>1, <1>2, <2>1, HeardStays
<1>3. ASSUME NEW p \in posts, Project(p)
      PROVE  HeardTrue'
  <2>1. /\ log' = [log EXCEPT ![p.ses] = Append(@, p.batch)]
        /\ UNCHANGED <<watching, curqd, visit, fetches, picture>>
    BY <1>3 DEF Project, viewerVars
  <2>2. p.batch \in Batch /\ log \in [Sessions -> Seq(Batch)]
    BY DEF CountsTrue, PostsTrue, LogsTrue
  <2>3. CASE p.ses = watching
    <3> DEFINE l == Append(log[watching], p.batch)
    <3>1. log'[watching] = l
      BY <1>1, <2>1, <2>2, <2>3
    <3>2. /\ l \in Seq(Batch) /\ Len(l) >= Len(log[watching])
          /\ \A i \in 1 .. Len(log[watching]) : l[i] = log[watching][i]
      BY <1>1, <2>2
    <3> HIDE DEF l
    <3> QED BY <2>1, <3>1, <3>2, HeardStays
  <2>4. CASE p.ses # watching
    <3> DEFINE l == log'[watching]
    <3>1. l = log[watching]
      BY <1>1, <2>1, <2>2, <2>4
    <3>2. /\ l \in Seq(Batch) /\ Len(l) >= Len(log[watching])
          /\ \A i \in 1 .. Len(log[watching]) : l[i] = log[watching][i]
      BY <1>1, <3>1
    <3> QED BY <2>1, <3>2, HeardStays
  <2> QED BY <2>3, <2>4
<1>4. ASSUME NEW f \in fetches, Fetch(f)
      PROVE  HeardTrue'
  <2>1. PICK h \in Nat : Heard(h)
    BY DEF HeardTrue
  <2>2. PICK b \in Replies(f.ses, f.index) :
          fetches' = (fetches \ {f}) \cup
                       {[f EXCEPT !.stage = "answered", !.batch = b]}
    BY <1>4 DEF Fetch
  <2>3. b = log[watching][f.index + 1]
    <3>1. f.ses = watching /\ f.index < Len(log[watching])
      BY <1>1
    <3>2. Replies(f.ses, f.index) = {log[watching][f.index + 1]}
      BY <3>1 DEF Replies
    <3> QED BY <2>2, <3>2
  <2> DEFINE g == [f EXCEPT !.stage = "answered", !.batch = b]
  <2>4. /\ g.visit = f.visit /\ g.index = f.index /\ g.stage = "answered"
        /\ g.batch = b
    BY <1>1 DEF FetchRecords
  <2>5. fetches' = (fetches \ {f}) \cup {g}
    BY <2>2
  <2> HIDE DEF g
  <2>6. /\ UNCHANGED <<log, watching, curqd, visit, picture>> /\ f.stage = "sent"
    BY <1>4 DEF Fetch
  <2>7. \A e \in fetches' :
          /\ e.visit = visit
          /\ e.stage \in {"sent", "answered"} => e.index >= h
          /\ e.stage = "loaded" => e.index = h - 1
          /\ e.stage \in {"answered", "loaded"} => e.batch = log[watching][e.index + 1]
          /\ e.stage # "none"
    BY <2>1, <2>3, <2>4, <2>5, <2>6 DEF Heard
  <2>8. \A i \in h .. curqd - 1 : \E e \in fetches' : e.index = i
    <3>1. SUFFICES ASSUME NEW i \in h .. curqd - 1
                   PROVE  \E e \in fetches' : e.index = i
      OBVIOUS
    <3>2. PICK e \in fetches : e.index = i
      BY <2>1 DEF Heard
    <3> QED BY <2>4, <2>5, <3>2
  <2>9. Heard(h)'
    BY <2>1, <2>6, <2>7, <2>8 DEF Heard, Upto
  <2> QED BY <2>9 DEF HeardTrue
<1>5. ASSUME NEW k \in Polls, HearDepth(k), UNCHANGED <<presenterVars, log>>
      PROVE  HeardTrue'
  <2>1. /\ FetchNext(polls[k].depth) /\ UNCHANGED <<watching, visit, picture, log>>
        /\ polls[k].depth \in Nat /\ polls[k].depth <= Len(log[watching])
    BY <1>5 DEF HearDepth, CountsTrue, PollsTrue
  <2>2. CASE curqd < polls[k].depth
    <3>1. PICK h \in Nat : Heard(h)
      BY DEF HeardTrue
    <3>2. fetches' = fetches \cup {NextFetch} /\ curqd' = curqd + 1
      BY <2>1, <2>2 DEF FetchNext
    <3>3. NextFetch.visit = visit /\ NextFetch.index = curqd /\ NextFetch.stage = "sent"
      BY DEF NextFetch
    <3>4. h <= curqd' /\ curqd' <= Len(log[watching])
      BY <1>1, <2>1, <2>2, <3>1, <3>2 DEF Heard
    <3>5. \A e \in fetches' :
            /\ e.visit = visit
            /\ e.stage \in {"sent", "answered"} => e.index >= h
            /\ e.stage = "loaded" => e.index = h - 1
            /\ e.stage \in {"answered", "loaded"} => e.batch = log[watching][e.index + 1]
            /\ e.stage # "none"
      BY <1>1, <3>1, <3>2, <3>3 DEF Heard
    <3>6. \A i \in h .. curqd' - 1 : \E e \in fetches' : e.index = i
      <4>1. SUFFICES ASSUME NEW i \in h .. curqd' - 1
                     PROVE  \E e \in fetches' : e.index = i
        OBVIOUS
      <4>2. CASE i = curqd
        BY <3>2, <3>3, <4>2
      <4>3. CASE i # curqd
        <5>1. i \in h .. curqd - 1
          BY <1>1, <3>2, <4>3
        <5> QED BY <3>1, <3>2, <5>1 DEF Heard
      <4> QED BY <4>2, <4>3
    <3>7. Heard(h)'
      BY <2>1, <3>1, <3>4, <3>5, <3>6 DEF Heard, Upto
    <3> QED BY <3>7 DEF HeardTrue
  <2>3. CASE ~(curqd < polls[k].depth)
    BY <1>2, <2>1, <2>3 DEF FetchNext
  <2> QED BY <2>2, <2>3
<1>6. ASSUME NEW f \in fetches, FirstFetch(f), HearBatch(f),
             UNCHANGED <<presenterVars, log>>
      PROVE  HeardTrue'
  BY <1>6, HeardNext
<1>7. CASE Present /\ UNCHANGED <<viewerVars, log>>
  BY <1>2, <1>7 DEF viewerVars
<1>8. CASE Watch /\ UNCHANGED <<presenterVars, log>>
  BY <1>2, <1>8 DEF Watch, Render, TypeName, SesnameChange
<1>9. CASE Serve
  <2>1. ASSUME NEW k \in Polls, NumQueues(k) PROVE HeardTrue'
    BY <1>2, <2>1 DEF NumQueues
  <2> QED BY <1>3, <1>4, <1>9, <2>1 DEF Serve
<1>10. CASE Hear
  BY <1>5, <1>6, <1>10 DEF Hear
<1>11. CASE UNCHANGED vars
  BY <1>2, <1>11 DEF vars, viewerVars
<1> QED BY <1>7, <1>8, <1>9, <1>10, <1>11 DEF Next, Lose, Expire

(* A viewer whose requests are handled and heard in order, of whose session *)
(* nothing is lost or deleted, and who keeps to it, sees what its batches   *)
(* draw once he has heard them all.                                         *)
THEOREM ViewersSee ==
  ASSUME Ordered, ~MayLose, ~MayExpire, ~MayRetitle
  PROVE  Spec => []ViewersSeeBoard
<1>1. CountsTrue /\ HeardTrue => ViewersSeeBoard
  <2> SUFFICES ASSUME CountsTrue, HeardTrue, AllHeard
               PROVE  picture = Shown(log[watching])
    BY DEF ViewersSeeBoard
  <2>1. PICK h \in Nat : Heard(h)
    BY DEF HeardTrue
  <2>2. /\ log[watching] \in Seq(Batch) /\ Len(log[watching]) \in Nat
        /\ curqd \in Nat
    BY DEF CountsTrue, LogsTrue, Watching
  <2>3. fetches = {} /\ curqd >= Len(log[watching])
    BY DEF AllHeard
  <2>4. h = curqd
    <3>1. h < curqd => h \in h .. curqd - 1
      BY <2>2
    <3> QED BY <2>1, <2>2, <2>3, <3>1 DEF Heard
  <2>5. h = Len(log[watching])
    BY <2>1, <2>2, <2>3, <2>4 DEF Heard
  <2>6. Upto(h) = log[watching]
    BY <2>2, <2>5 DEF Upto
  <2> QED BY <2>1, <2>6 DEF Heard
<1>2. Init => AskedTrue
  BY DEF Init, ViewerInit, AskedTrue
<1>3. AskedTrue /\ [Next]_vars => AskedTrue'
  BY AskedStep
<1>4. CountsTrue /\ [Next]_vars => CountsTrue'
  BY CountsStep
<1>5. CountsTrue /\ AskedTrue /\ HeardTrue /\ [Next]_vars => HeardTrue'
  BY HeardStep
<1> QED BY <1>1, <1>2, <1>3, <1>4, <1>5, CountsInit, HeardInit, PTL DEF Spec

-----------------------------------------------------------------------------
(* Batches stay typed whatever is lost, renamed or deleted.                 *)
Written == DrawingTrue /\ PostsTrue /\ LogsTrue

(* Nothing is written yet.                                                 *)
LEMMA WrittenInit == Init => Written
BY CountsInit DEF CountsTrue, Written

(* Every action keeps batches typed.                                       *)
LEMMA WrittenStep == Written /\ [Next]_vars => Written'
<1> SUFFICES ASSUME Written, [Next]_vars PROVE Written'
  OBVIOUS
<1> USE DEF Written
<1>1. CASE UNCHANGED <<presenterVars, log>>
  BY <1>1 DEF presenterVars, DrawingTrue, PostsTrue, LogsTrue
<1>2. CASE Present /\ UNCHANGED <<viewerVars, log>>
  BY <1>2, PresentTypes DEF LogsTrue
<1>3. ASSUME NEW p \in posts, Project(p)
      PROVE  Written'
  BY <1>3, ProjectGrows DEF Project, DrawingTrue, PostsTrue
<1>4. ASSUME NEW p \in posts, posts' = posts \ {p}, UNCHANGED log,
             UNCHANGED <<presenting, isDown, send, canvas, strokes, posted>>
      PROVE  Written'
  BY <1>4 DEF DrawingTrue, PostsTrue, LogsTrue
<1>5. ASSUME NEW s \in Names, Expire(s)
      PROVE  Written'
  <2>1. UNCHANGED presenterVars /\ log' = [log EXCEPT ![s] = << >>]
    BY <1>5 DEF Expire
  <2>2. << >> \in Seq(Batch)
    OBVIOUS
  <2> QED BY <2>1, <2>2 DEF presenterVars, DrawingTrue, PostsTrue, LogsTrue
<1>6. CASE Watch /\ UNCHANGED <<presenterVars, log>>
  BY <1>1, <1>6
<1>7. CASE Serve
  BY <1>1, <1>3, <1>7 DEF Serve, NumQueues, Fetch
<1>8. CASE Hear
  BY <1>1, <1>8 DEF Hear
<1>9. CASE Lose
  BY <1>1, <1>4, <1>9 DEF Lose
<1>10. CASE UNCHANGED vars
  BY <1>1, <1>10 DEF vars
<1> QED BY <1>2, <1>5, <1>6, <1>7, <1>8, <1>9, <1>10 DEF Next

-----------------------------------------------------------------------------
(* What is drawn and not yet in the log: the batches q that were posted and *)
(* not handled, numbered up to posted, and send.                            *)

Pending(q) ==
  /\ Len(q) <= posted
  /\ \A p \in posts : /\ p.n \in posted - Len(q) + 1 .. posted
                      /\ p.ses = presenting
                      /\ p.batch = q[p.n - (posted - Len(q))]
  /\ \A i \in posted - Len(q) + 1 .. posted : \E p \in posts : p.n = i
  /\ \A p, r \in posts : p.n = r.n => p = r
  /\ canvas = Painted(Shown(log[presenting] \o q), send)

DrawnTrue ==
  /\ posted \in Nat /\ presenting \in Names
  /\ \E q \in Seq(Batch) : Pending(q)

(* Nothing is drawn yet.                                                   *)
LEMMA DrawnInit == Init => DrawnTrue
<1> SUFFICES ASSUME Init PROVE DrawnTrue
  OBVIOUS
<1>1. /\ posted = 0 /\ posts = {} /\ presenting \in Names /\ canvas = {} /\ send = << >>
      /\ log = [s \in Names \cup {NoName} |-> << >>]
  BY DEF Init, PresenterInit
<1>2. log[presenting] \o << >> = << >> /\ << >> \in Seq(Batch) /\ Len(<< >>) = 0
  BY <1>1
<1>3. Painted(Shown(<< >>), << >>) = {}
  BY PaintedSteps, ShownSteps
<1>4. Pending(<< >>)
  BY <1>1, <1>2, <1>3 DEF Pending
<1> QED BY <1>1, <1>2, <1>4 DEF DrawnTrue

(* A mark that is drawn is drawn by the next batch, too.                    *)
LEMMA DrawnMark ==
  ASSUME Written, DrawnTrue, NEW m \in Marks,
         send' = Append(send, m), canvas' = canvas \cup {m},
         UNCHANGED <<presenting, posts, posted, log>>
  PROVE  DrawnTrue'
<1>1. PICK q \in Seq(Batch) : Pending(q)
  BY DEF DrawnTrue
<1>2. send \in Batch /\ m # Clear
  BY DEF Written, DrawingTrue, Marks, Clear
<1>3. canvas' = Painted(Shown(log[presenting] \o q), send')
  <2> DEFINE b == Shown(log[presenting] \o q)
  <2>1. canvas = Painted(b, send)
    BY <1>1 DEF Pending
  <2> HIDE DEF b
  <2>2. Painted(b, Append(send, m)) = Paint(Painted(b, send), m)
    BY <1>2, PaintedSteps
  <2>3. canvas' = Painted(b, send')
    BY <1>2, <2>1, <2>2 DEF Paint
  <2> QED BY <2>3 DEF b
<1>4. Pending(q)'
  BY <1>1, <1>3 DEF Pending
<1> QED BY <1>4 DEF DrawnTrue

(* What is appended to the end of q is at the end of both.                  *)
LEMMA AppendLast ==
  ASSUME NEW T, NEW l \in Seq(T), NEW q \in Seq(T), NEW e \in T
  PROVE  /\ l \o Append(q, e) = Append(l \o q, e)
         /\ l \o q \in Seq(T)
<1> DEFINE a == l \o Append(q, e)
           b == Append(l \o q, e)
<1>1. /\ Append(q, e) \in Seq(T) /\ Len(Append(q, e)) = Len(q) + 1
      /\ \A i \in 1 .. Len(q) : Append(q, e)[i] = q[i]
      /\ Append(q, e)[Len(q) + 1] = e
  OBVIOUS
<1>2. /\ l \o q \in Seq(T) /\ Len(l \o q) = Len(l) + Len(q)
      /\ \A i \in 1 .. Len(l) : (l \o q)[i] = l[i]
      /\ \A i \in 1 .. Len(q) : (l \o q)[Len(l) + i] = q[i]
  OBVIOUS
<1>3. /\ a \in Seq(T) /\ Len(a) = Len(l) + Len(q) + 1
      /\ b \in Seq(T) /\ Len(b) = Len(l) + Len(q) + 1
  BY <1>1, <1>2
<1>4. ASSUME NEW i \in 1 .. Len(l) + Len(q) + 1
      PROVE  a[i] = b[i]
  BY <1>1, <1>2
<1> HIDE DEF a, b
<1>5. a = b
  BY <1>3, <1>4
<1> QED BY <1>2, <1>5 DEF a, b

(* sendRequest moves what is in send to the end of what is posted.          *)
LEMMA DrawnSend ==
  ASSUME Written, DrawnTrue, NEW b \in Batch, NEW c, SendRequest(b, c),
         \A x : canvas = Painted(x, send) => c = Painted(x, b),
         UNCHANGED <<presenting, log>>
  PROVE  DrawnTrue'
<1>1. PICK q \in Seq(Batch) : Pending(q)
  BY DEF DrawnTrue
<1> DEFINE l == log[presenting]
           q1 == Append(q, b)
           d == posted - Len(q)
<1>2. /\ posted \in Nat /\ presenting \in Names /\ presenting # NoName
      /\ l \in Seq(Batch)
  BY DEF DrawnTrue, Written, LogsTrue, Sessions
<1> DEFINE p1 == [n |-> posted + 1, ses |-> presenting, batch |-> b]
<1>3. /\ send' = << >> /\ canvas' = c /\ posted' = posted + 1
      /\ posts' = posts \cup {p1}
  <2>1. posted' = posted + 1
    BY <1>2 DEF SendRequest
  <2> QED BY <1>2, <2>1 DEF SendRequest
<1>4. p1.n = posted + 1 /\ p1.ses = presenting /\ p1.batch = b
  OBVIOUS
<1> HIDE DEF p1
<1>5. /\ q1 \in Seq(Batch) /\ Len(q) \in Nat /\ Len(q1) = Len(q) + 1
      /\ \A i \in 1 .. Len(q) : q1[i] = q[i]
      /\ q1[Len(q) + 1] = b
  OBVIOUS
<1>6. l \o q1 = Append(l \o q, b) /\ l \o q \in Seq(Batch)
  BY <1>2, AppendLast
<1> HIDE DEF q1
<1>7. d \in Nat /\ posted' - Len(q1) = d
  BY <1>1, <1>2, <1>3, <1>5 DEF Pending
<1>8. /\ \A p \in posts : p.n \in d + 1 .. posted /\ p.ses = presenting
                          /\ p.batch = q[p.n - d]
      /\ \A i \in d + 1 .. posted : \E p \in posts : p.n = i
      /\ \A p, r \in posts : p.n = r.n => p = r
      /\ canvas = Painted(Shown(l \o q), send) /\ posted = d + Len(q)
  BY <1>1, <1>2, <1>5 DEF Pending
<1> HIDE DEF d, l
<1>9. \A p \in posts' : /\ p.n \in d + 1 .. posted' /\ p.ses = presenting'
                        /\ p.batch = q1[p.n - d]
  <2>1. ASSUME NEW p \in posts
        PROVE  p.n \in d + 1 .. posted' /\ p.batch = q1[p.n - d]
    <3>1. p.n \in d + 1 .. posted /\ p.n - d \in 1 .. Len(q)
      BY <1>2, <1>5, <1>7, <1>8
    <3>2. p.batch = q[p.n - d]
      BY <1>8
    <3>3. q1[p.n - d] = q[p.n - d]
      BY <1>5, <3>1
    <3>4. p.n \in d + 1 .. posted'
      BY <1>2, <1>3, <3>1
    <3> QED BY <3>2, <3>3, <3>4
  <2>2. p1.n \in d + 1 .. posted' /\ p1.n - d = Len(q) + 1
    BY <1>2, <1>3, <1>4, <1>5, <1>7, <1>8
  <2> QED BY <1>3, <1>4, <1>5, <1>8, <2>1, <2>2
<1>10. \A i \in d + 1 .. posted' : \E p \in posts' : p.n = i
  <2>1. SUFFICES ASSUME NEW i \in d + 1 .. posted' PROVE \E p \in posts' : p.n = i
    OBVIOUS
  <2>2. CASE i = posted + 1
    BY <1>3, <1>4, <2>2
  <2>3. CASE i # posted + 1
    <3>1. i \in d + 1 .. posted
      BY <1>2, <1>3, <1>7, <2>3
    <3>2. PICK p \in posts : p.n = i
      BY <1>8, <3>1
    <3> QED BY <1>3, <3>2
  <2> QED BY <2>2, <2>3
<1>11. \A p, r \in posts' : p.n = r.n => p = r
  <2>1. \A p \in posts : p.n # posted + 1
    BY <1>2, <1>7, <1>8
  <2> QED BY <1>3, <1>4, <1>8, <2>1
<1>12. canvas' = Painted(Shown(l \o q1), send')
  <2>1. c = Painted(Shown(l \o q), b)
    BY <1>8
  <2>2. Shown(l \o q1) = Painted(Shown(l \o q), b)
    BY <1>6, ShownSteps
  <2> QED BY <1>3, <2>1, <2>2, PaintedSteps
<1>13. Len(q1) <= posted' /\ posted' \in Nat
  BY <1>2, <1>3, <1>5, <1>7
<1>14. Pending(q1)'
  BY <1>3, <1>7, <1>9, <1>10, <1>11, <1>12, <1>13 DEF Pending, l
<1> QED BY <1>2, <1>5, <1>13, <1>14 DEF DrawnTrue

(* The first of q goes to the end of l: together they stay as they were.    *)
LEMMA HeadMoves ==
  ASSUME NEW T, NEW l \in Seq(T), NEW q \in Seq(T), Len(q) >= 1
  PROVE  Append(l, q[1]) \o Tail(q) = l \o q
<1> DEFINE a == Append(l, q[1]) \o Tail(q)
           b == l \o q
<1>1. /\ Append(l, q[1]) \in Seq(T) /\ Len(Append(l, q[1])) = Len(l) + 1
      /\ \A i \in 1 .. Len(l) : Append(l, q[1])[i] = l[i]
      /\ Append(l, q[1])[Len(l) + 1] = q[1]
  OBVIOUS
<1>2. /\ Tail(q) \in Seq(T) /\ Len(Tail(q)) = Len(q) - 1
      /\ \A i \in 1 .. Len(q) - 1 : Tail(q)[i] = q[i + 1]
  OBVIOUS
<1>3. /\ a \in Seq(T) /\ Len(a) = Len(l) + Len(q)
      /\ b \in Seq(T) /\ Len(b) = Len(l) + Len(q)
  BY <1>1, <1>2
<1>4. ASSUME NEW i \in 1 .. Len(l) + Len(q)
      PROVE  a[i] = b[i]
  BY <1>1, <1>2
<1> HIDE DEF a, b
<1>5. a = b
  BY <1>3, <1>4
<1> QED BY <1>5 DEF a, b

(* The first of the batches posted becomes the last of the log.             *)
LEMMA DrawnProject ==
  ASSUME Ordered, Written, DrawnTrue, NEW p \in posts, Project(p)
  PROVE  DrawnTrue'
<1>1. PICK q \in Seq(Batch) : Pending(q)
  BY DEF DrawnTrue
<1> DEFINE l == log[presenting]
           d == posted - Len(q)
           q1 == Tail(q)
<1>2. /\ posted \in Nat /\ presenting \in Names /\ l \in Seq(Batch)
      /\ log \in [Sessions -> Seq(Batch)] /\ presenting \in Sessions
      /\ Len(q) \in Nat
  BY DEF DrawnTrue, Written, LogsTrue, Sessions
<1>3. /\ \A r \in posts : p.n <= r.n
      /\ posts' = posts \ {p} /\ log' = [log EXCEPT ![p.ses] = Append(@, p.batch)]
      /\ UNCHANGED <<presenting, send, canvas, posted>>
  BY DEF Project, FirstPost
<1>4. /\ \A r \in posts : r.n \in d + 1 .. posted /\ r.ses = presenting
                          /\ r.batch = q[r.n - d]
      /\ \A i \in d + 1 .. posted : \E r \in posts : r.n = i
      /\ \A r, s \in posts : r.n = s.n => r = s
      /\ canvas = Painted(Shown(l \o q), send) /\ posted = d + Len(q) /\ d \in Nat
  BY <1>1, <1>2 DEF Pending
<1> HIDE DEF d
<1>5. p.n = d + 1 /\ Len(q) >= 1
  <2>1. p.n \in d + 1 .. posted
    BY <1>4
  <2>2. d + 1 \in d + 1 .. posted
    BY <1>2, <1>4, <2>1
  <2>3. PICK r \in posts : r.n = d + 1
    BY <1>4, <2>2
  <2> QED BY <1>2, <1>3, <1>4, <2>1, <2>3
<1>6. p.ses = presenting /\ p.batch = q[1]
  <2>1. p.n - d = 1
    BY <1>4, <1>5
  <2> QED BY <1>4, <2>1
<1>7. log'[presenting'] = Append(l, q[1])
  BY <1>2, <1>3, <1>6
<1>8. /\ q1 \in Seq(Batch) /\ Len(q1) = Len(q) - 1
      /\ \A i \in 1 .. Len(q1) : q1[i] = q[i + 1]
      /\ q[1] \in Batch
  BY <1>5
<1>9. Append(l, q[1]) \o q1 = l \o q
  BY <1>2, <1>5, HeadMoves
<1> HIDE DEF q1, l
<1>10. posted' - Len(q1) = d + 1 /\ Len(q1) <= posted'
  BY <1>2, <1>3, <1>4, <1>5, <1>8
<1>11. \A r \in posts' : /\ r.n \in (d + 1) + 1 .. posted' /\ r.ses = presenting'
                         /\ r.batch = q1[r.n - (d + 1)]
  <2>1. SUFFICES ASSUME NEW r \in posts, r # p
                 PROVE  r.n \in (d + 1) + 1 .. posted /\ r.batch = q1[r.n - (d + 1)]
    BY <1>3, <1>4
  <2>2. r.n \in d + 1 .. posted /\ r.n # d + 1 /\ r.batch = q[r.n - d]
    BY <1>4, <1>5, <2>1
  <2>3. r.n - (d + 1) \in 1 .. Len(q1) /\ (r.n - (d + 1)) + 1 = r.n - d
    BY <1>2, <1>4, <1>8, <2>2
  <2>4. q1[r.n - (d + 1)] = q[r.n - d]
    BY <1>8, <2>3
  <2> QED BY <1>2, <1>4, <2>2, <2>4
<1>12. \A i \in (d + 1) + 1 .. posted' : \E r \in posts' : r.n = i
  <2>1. SUFFICES ASSUME NEW i \in (d + 1) + 1 .. posted PROVE \E r \in posts' : r.n = i
    BY <1>3
  <2>2. i \in d + 1 .. posted /\ i # d + 1
    BY <1>2, <1>4
  <2>3. PICK r \in posts : r.n = i
    BY <1>4, <2>2
  <2> QED BY <1>3, <1>5, <2>2, <2>3
<1>13. canvas' = Painted(Shown(log'[presenting'] \o q1), send')
  BY <1>3, <1>4, <1>7, <1>9
<1>14. Pending(q1)'
  BY <1>3, <1>4, <1>10, <1>11, <1>12, <1>13 DEF Pending
<1> QED BY <1>2, <1>3, <1>8, <1>14 DEF DrawnTrue

(* Every step keeps the log, what is posted and send in agreement with what *)
(* the presenter sees.                                                      *)
LEMMA DrawnStep ==
  ASSUME Ordered, ~MayLose, ~MayExpire, ~MayRename
  PROVE  Written /\ DrawnTrue /\ [Next]_vars => DrawnTrue'
<1> SUFFICES ASSUME Written, DrawnTrue, [Next]_vars PROVE DrawnTrue'
  OBVIOUS
<1>1. CASE UNCHANGED <<presenting, send, canvas, posts, posted, log>>
  BY <1>1 DEF DrawnTrue, Pending
<1>2. CASE MouseDown /\ UNCHANGED log
  <2>1. strokes' \in 1 .. MaxStrokes
    BY <1>2 DEF MouseDown, Written, DrawingTrue
  <2> QED BY <1>2, <2>1, MarksInBatches, DrawnMark DEF MouseDown
<1>3. CASE MouseMove /\ UNCHANGED log
  <2>1. strokes \in 1 .. MaxStrokes
    BY <1>3 DEF MouseMove, Written, DrawingTrue
  <2> QED BY <1>3, <2>1, MarksInBatches, DrawnMark DEF MouseMove
<1>4. CASE MouseUp /\ UNCHANGED log
  <2>1. send \in Batch
    BY DEF Written, DrawingTrue
  <2>2. SendRequest(send, canvas) /\ UNCHANGED <<presenting, log>>
    BY <1>4 DEF MouseUp
  <2> QED BY <2>1, <2>2, DrawnSend
<1>5. CASE ClearBoard /\ UNCHANGED log
  <2> DEFINE b == Append(send, Clear)
  <2>1. send \in Batch /\ b \in Batch
    BY MarksInBatches DEF Written, DrawingTrue
  <2>2. \A x : Painted(x, b) = {}
    BY <2>1, PaintedSteps, MarksInBatches DEF Paint
  <2>3. SendRequest(b, {}) /\ UNCHANGED <<presenting, log>>
    BY <1>5 DEF ClearBoard
  <2> HIDE DEF b
  <2> QED BY <2>1, <2>2, <2>3, DrawnSend
<1>6. CASE Present /\ UNCHANGED <<viewerVars, log>>
  BY <1>2, <1>3, <1>4, <1>5, <1>6 DEF Present, TypeTitle, SesboxChange
<1>7. CASE Watch /\ UNCHANGED <<presenterVars, log>>
  BY <1>1, <1>7 DEF presenterVars
<1>8. CASE Serve
  BY <1>1, <1>8, DrawnProject DEF Serve, NumQueues, Fetch, presenterVars
<1>9. CASE Hear
  BY <1>1, <1>9 DEF Hear, presenterVars
<1>10. CASE UNCHANGED vars
  BY <1>1, <1>10 DEF vars, presenterVars
<1> QED BY <1>6, <1>7, <1>8, <1>9, <1>10 DEF Next, Lose, Expire

(* With each page's requests handled in order, none lost, no session        *)
(* deleted and the name left alone: once everything drawn was posted and    *)
(* handled, the batches of the session draw what the presenter sees.        *)
THEOREM AudienceGetsDrawing ==
  ASSUME Ordered, ~MayLose, ~MayExpire, ~MayRename
  PROVE  Spec => []BroadcastsWhatIsDrawn
<1>1. Written /\ DrawnTrue => BroadcastsWhatIsDrawn
  <2> SUFFICES ASSUME Written, DrawnTrue, posts = {}, send = << >>
               PROVE  Shown(log[presenting]) = canvas
    BY DEF BroadcastsWhatIsDrawn
  <2>1. PICK q \in Seq(Batch) : Pending(q)
    BY DEF DrawnTrue
  <2>2. posted \in Nat /\ presenting \in Sessions /\ log[presenting] \in Seq(Batch)
    BY DEF DrawnTrue, Written, LogsTrue, Sessions
  <2>3. q = << >>
    <3>1. Len(q) \in Nat /\ Len(q) <= posted
      BY <2>1 DEF Pending
    <3>2. Len(q) > 0 => posted \in posted - Len(q) + 1 .. posted
      BY <2>2, <3>1
    <3>3. Len(q) = 0
      BY <2>1, <3>1, <3>2 DEF Pending
    <3> QED BY <3>3
  <2>4. log[presenting] \o q = log[presenting]
    BY <2>2, <2>3
  <2> QED BY <2>1, <2>4, PaintedSteps DEF Pending
<1>2. Written /\ DrawnTrue /\ [Next]_vars => DrawnTrue'
  BY DrawnStep
<1> QED BY <1>1, <1>2, WrittenInit, WrittenStep, DrawnInit, PTL DEF Spec

-----------------------------------------------------------------------------
(* The types of everything else.  That no more batches were handled than    *)
(* were posted bounds what /numqueues answers: every batch posted is still  *)
(* under way, in one log or gone.                                           *)

Counted ==
  /\ posted \in 0 .. MaxPosts
  /\ \A p \in posts : p.n \in 1 .. posted
  /\ IsFiniteSet(posts)
  /\ \A s \in Sessions : Len(log[s]) + Cardinality(posts) <= posted

PollRecords == [stage : Stages, ses : Sessions, depth : 0 .. MaxPosts]

AskedRecords == [visit : 0 .. visit, ses : Sessions, index : Nat,
                 stage : Stages \ {"none"}, batch : Batch]

ViewerTyped ==
  /\ watching \in Sessions /\ curqd \in Nat /\ visit \in 0 .. MaxVisits
  /\ polls \in [Polls -> PollRecords]
  /\ fetches \subseteq AskedRecords
  /\ picture \subseteq Marks

CanvasTyped == isDown \in BOOLEAN /\ canvas \subseteq Marks

Typed == Written /\ Counted /\ CanvasTyped /\ ViewerTyped

(* The pages as they were opened.                                          *)
LEMMA TypedInit == Init => Typed
<1> SUFFICES ASSUME Init PROVE Typed
  OBVIOUS
<1>1. Counted
  <2>1. /\ posted = 0 /\ posts = {}
        /\ log = [s \in Names \cup {NoName} |-> << >>]
    BY DEF Init, PresenterInit
  <2>2. IsFiniteSet(posts) /\ Cardinality(posts) = 0
    BY <2>1, FS_EmptySet
  <2> QED BY <2>1, <2>2 DEF Counted, Sessions
<1>2. CanvasTyped
  BY DEF Init, PresenterInit, CanvasTyped
<1>3. NoPoll \in PollRecords
  BY DEF NoPoll, PollRecords, Stages, Sessions
<1>4. ViewerTyped
  BY <1>3 DEF Init, ViewerInit, ViewerTyped, Sessions
<1> QED BY <1>1, <1>2, <1>4, WrittenInit DEF Typed

(* sendRequest counts what it posts.                                        *)
LEMMA SendCounts ==
  ASSUME Written, Counted, NEW b \in Batch, NEW c \in SUBSET Marks,
         SendRequest(b, c), UNCHANGED log
  PROVE  Counted' /\ canvas' \subseteq Marks
<1>1. CASE presenting = NoName
  BY <1>1 DEF SendRequest, Counted
<1>2. CASE presenting # NoName
  <2> DEFINE p == [n |-> posted', ses |-> presenting, batch |-> b]
  <2>1. /\ posted < MaxPosts /\ posted' = posted + 1
        /\ posts' = posts \cup {p} /\ canvas' = c
    BY <1>2 DEF SendRequest
  <2>2. p.n = posted'
    OBVIOUS
  <2> HIDE DEF p
  <2>3. /\ IsFiniteSet(posts') /\ Cardinality(posts') <= Cardinality(posts) + 1
        /\ Cardinality(posts) \in Nat /\ Cardinality(posts') \in Nat
    <3>1. IsFiniteSet(posts) /\ Cardinality(posts) \in Nat
      BY FS_CardinalityType DEF Counted
    <3>2. /\ IsFiniteSet(posts')
          /\ Cardinality(posts') =
               IF p \in posts THEN Cardinality(posts) ELSE Cardinality(posts) + 1
      BY <2>1, <3>1, FS_AddElement
    <3> QED BY <3>1, <3>2
  <2>4. \A s \in Sessions : Len(log'[s]) \in Nat /\ log'[s] = log[s]
    BY DEF Written, LogsTrue
  <2>5. posted \in Nat /\ posted' \in 0 .. MaxPosts /\ posted' >= 1
    BY <2>1 DEF Counted
  <2>6. \A q \in posts' : q.n \in 1 .. posted'
    BY <2>1, <2>2, <2>5 DEF Counted
  <2>7. \A s \in Sessions : Len(log'[s]) + Cardinality(posts') <= posted'
    BY <2>1, <2>3, <2>4, <2>5 DEF Counted
  <2> QED BY <2>1, <2>3, <2>5, <2>6, <2>7 DEF Counted
<1> QED BY <1>1, <1>2

(* What the presenter does is counted, and what is drawn are marks.         *)
LEMMA PresentCounts ==
  ASSUME Written, Counted, CanvasTyped, Present, UNCHANGED log
  PROVE  Counted' /\ CanvasTyped'
<1> USE DEF CanvasTyped
<1>1. CASE MouseDown
  <2>1. strokes' \in 1 .. MaxStrokes
    BY <1>1 DEF MouseDown, Written, DrawingTrue
  <2> QED BY <1>1, <2>1, MarksInBatches DEF MouseDown, Counted
<1>2. CASE MouseMove
  <2>1. strokes \in 1 .. MaxStrokes
    BY <1>2 DEF MouseMove, Written, DrawingTrue
  <2> QED BY <1>2, <2>1, MarksInBatches DEF MouseMove, Counted
<1>3. CASE MouseUp
  BY <1>3, SendCounts DEF MouseUp, Written, DrawingTrue
<1>4. CASE ClearBoard
  <2>1. Append(send, Clear) \in Batch
    BY MarksInBatches DEF Written, DrawingTrue
  <2> QED BY <1>4, <2>1, SendCounts DEF ClearBoard
<1>5. ASSUME NEW n \in Names \cup {NoName}, TypeTitle(n)
      PROVE  Counted' /\ CanvasTyped'
  BY <1>5 DEF TypeTitle, Counted
<1>6. CASE SesboxChange
  BY <1>6 DEF SesboxChange, Counted
<1> QED BY <1>1, <1>2, <1>3, <1>4, <1>5, <1>6 DEF Present

(* A request that is handled or lost is not under way any more.             *)
LEMMA OneLess ==
  ASSUME Counted, NEW p \in posts, posts' = posts \ {p}
  PROVE  /\ IsFiniteSet(posts') /\ Cardinality(posts') \in Nat
         /\ Cardinality(posts') + 1 = Cardinality(posts)
<1>1. IsFiniteSet(posts)
  BY DEF Counted
<1>2. /\ IsFiniteSet(posts')
      /\ Cardinality(posts') = Cardinality(posts) - 1
  BY <1>1, FS_RemoveElement
<1>3. Cardinality(posts) \in Nat /\ Cardinality(posts') \in Nat
  BY <1>1, <1>2, FS_CardinalityType
<1> QED BY <1>2, <1>3

(* Its batch goes to the end of one log, or nowhere.                        *)
LEMMA ServeCounts ==
  ASSUME Written, Counted, NEW p \in posts,
         posts' = posts \ {p} /\ UNCHANGED posted,
         \/ log' = [log EXCEPT ![p.ses] = Append(@, p.batch)]
         \/ UNCHANGED log
  PROVE  Counted'
<1>1. /\ IsFiniteSet(posts') /\ Cardinality(posts') \in Nat
      /\ Cardinality(posts') + 1 = Cardinality(posts)
  BY OneLess
<1>2. ASSUME NEW s \in Sessions
      PROVE  Len(log[s]) \in Nat /\ Len(log'[s]) \in Nat
             /\ Len(log'[s]) <= Len(log[s]) + 1
  <2>1. log \in [Sessions -> Seq(Batch)] /\ p.batch \in Batch
    BY DEF Written, LogsTrue, PostsTrue
  <2>2. CASE s = p.ses /\ log' # log
    <3>1. log'[s] = Append(log[s], p.batch)
      BY <2>1, <2>2
    <3> QED BY <2>1, <3>1
  <2>3. CASE s # p.ses \/ log' = log
    <3>1. log'[s] = log[s]
      BY <2>1, <2>3
    <3> QED BY <2>1, <3>1
  <2> QED BY <2>2, <2>3
<1>3. \A s \in Sessions : Len(log'[s]) + Cardinality(posts') <= posted'
  BY <1>1, <1>2 DEF Counted
<1> QED BY <1>1, <1>3 DEF Counted

(* Nothing of the viewer's page depends on anything but its own state and   *)
(* the logs.                                                                *)
LEMMA ViewerStands ==
  ASSUME ViewerTyped, UNCHANGED viewerVars
  PROVE  ViewerTyped'
BY DEF viewerVars, ViewerTyped, AskedRecords

(* A request that is answered or heard asks for what it asked for.          *)
LEMMA FetchTyped ==
  ASSUME ViewerTyped, NEW f \in fetches, NEW x \in Stages \ {"none"},
         NEW b \in Batch
  PROVE  /\ [f EXCEPT !.stage = x, !.batch = b] \in AskedRecords
         /\ [f EXCEPT !.stage = x] \in AskedRecords
<1>1. f \in AskedRecords
  BY DEF ViewerTyped
<1> QED BY <1>1 DEF AskedRecords

(* The callback of /numqueues keeps the requests typed.                     *)
LEMMA NextTyped ==
  ASSUME ViewerTyped, NEW d \in Nat, FetchNext(d), UNCHANGED <<watching, visit>>
  PROVE  curqd' \in Nat /\ fetches' \subseteq AskedRecords /\ AskedRecords' = AskedRecords
<1>1. NextFetch \in AskedRecords
  BY MarksInBatches DEF NextFetch, AskedRecords, ViewerTyped, Stages
<1>2. AskedRecords' = AskedRecords
  BY DEF AskedRecords
<1>3. CASE curqd < d
  BY <1>1, <1>2, <1>3 DEF FetchNext, ViewerTyped
<1>4. CASE ~(curqd < d)
  BY <1>2, <1>4 DEF FetchNext, ViewerTyped
<1> QED BY <1>2, <1>3, <1>4

(* No handler of the viewer's page breaks its types.                        *)
LEMMA WatchTyped ==
  ASSUME ViewerTyped, Watch
  PROVE  ViewerTyped'
<1>1. ASSUME NEW k \in Polls, Render(k)
      PROVE  ViewerTyped'
  <2>1. [stage |-> "sent", ses |-> watching, depth |-> 0] \in PollRecords
    BY DEF PollRecords, ViewerTyped, Stages
  <2>2. polls' \in [Polls -> PollRecords]
    BY <1>1, <2>1 DEF Render, ViewerTyped
  <2> QED BY <1>1, <2>2 DEF Render, ViewerTyped, AskedRecords, PollRecords
<1>2. ASSUME NEW n \in Names \cup {NoName}, TypeName(n)
      PROVE  ViewerTyped'
  BY <1>2 DEF TypeName, ViewerTyped, AskedRecords, Sessions
<1>3. CASE SesnameChange
  <2>1. /\ watching' \in Sessions /\ picture' \subseteq Marks /\ curqd' \in Nat
        /\ visit \in Nat /\ visit' = visit + 1 /\ visit' \in 0 .. MaxVisits
        /\ UNCHANGED <<polls, fetches>>
    BY <1>3 DEF SesnameChange, ViewerTyped, Sessions
  <2>2. 0 .. visit \subseteq 0 .. visit'
    BY <2>1
  <2>3. AskedRecords \subseteq AskedRecords'
    BY <2>2 DEF AskedRecords
  <2> QED BY <2>1, <2>3 DEF ViewerTyped
<1> QED BY <1>1, <1>2, <1>3 DEF Watch

(* Every action keeps Typed.                                                *)
LEMMA TypedStep == Typed /\ [Next]_vars => Typed'
<1> SUFFICES ASSUME Typed, [Next]_vars PROVE Typed'
  OBVIOUS
<1>1. Written /\ Counted /\ CanvasTyped /\ ViewerTyped /\ Written'
  BY WrittenStep DEF Typed
<1> SUFFICES Counted' /\ CanvasTyped' /\ ViewerTyped'
  BY <1>1 DEF Typed
<1>2. ASSUME UNCHANGED <<presenterVars, log>>
      PROVE  Counted' /\ CanvasTyped'
  BY <1>1, <1>2 DEF presenterVars, Counted, CanvasTyped
<1>3. CASE Present /\ UNCHANGED <<viewerVars, log>>
  BY <1>1, <1>3, PresentCounts, ViewerStands
<1>4. CASE Watch /\ UNCHANGED <<presenterVars, log>>
  BY <1>1, <1>2, <1>4, WatchTyped
<1>5. ASSUME NEW p \in posts, Project(p)
      PROVE  Counted' /\ CanvasTyped' /\ ViewerTyped'
  <2>1. /\ posts' = posts \ {p} /\ log' = [log EXCEPT ![p.ses] = Append(@, p.batch)]
        /\ UNCHANGED <<posted, isDown, canvas, viewerVars>>
    BY <1>5 DEF Project
  <2> QED BY <1>1, <2>1, ServeCounts, ViewerStands DEF CanvasTyped
<1>6. ASSUME NEW k \in Polls, NumQueues(k)
      PROVE  Counted' /\ CanvasTyped' /\ ViewerTyped'
  <2> DEFINE d == Len(log[polls[k].ses])
             answered == [polls[k] EXCEPT !.stage = "answered", !.depth = d]
  <2>1. polls[k] \in PollRecords /\ polls[k].ses \in Sessions
    BY <1>1 DEF ViewerTyped, PollRecords
  <2>2. d \in 0 .. MaxPosts
    <3>1. /\ d \in Nat /\ Cardinality(posts) \in Nat
          /\ d + Cardinality(posts) <= posted /\ posted \in 0 .. MaxPosts
      BY <1>1, <2>1, FS_CardinalityType DEF Counted, Written, LogsTrue
    <3> QED BY <3>1
  <2> HIDE DEF d
  <2>3. answered \in PollRecords
    BY <2>1, <2>2, AnsweredPoll DEF PollRecords, Stages
  <2>4. polls' = [polls EXCEPT ![k] = answered]
    BY <1>1, <1>6 DEF NumQueues, ViewerTyped, d
  <2>5. UNCHANGED <<presenterVars, watching, curqd, visit, fetches, picture, log>>
    BY <1>6 DEF NumQueues
  <2> HIDE DEF answered
  <2>6. ViewerTyped'
    BY <1>1, <2>3, <2>4, <2>5 DEF ViewerTyped, AskedRecords, PollRecords
  <2> QED BY <1>2, <2>5, <2>6
<1>7. ASSUME NEW f \in fetches, Fetch(f)
      PROVE  Counted' /\ CanvasTyped' /\ ViewerTyped'
  <2>1. f.ses \in Sessions /\ f.index \in Nat
    BY <1>1 DEF ViewerTyped, AskedRecords
  <2>2. PICK b \in Replies(f.ses, f.index) :
          fetches' = (fetches \ {f}) \cup
                       {[f EXCEPT !.stage = "answered", !.batch = b]}
    BY <1>7 DEF Fetch
  <2>3. b \in Batch
    BY <1>1, <2>1, <2>2, RepliesAreBatches DEF Written
  <2>4. [f EXCEPT !.stage = "answered", !.batch = b] \in AskedRecords
    BY <1>1, <2>3, FetchTyped DEF Stages
  <2>5. UNCHANGED <<presenterVars, watching, curqd, visit, polls, picture, log>>
    BY <1>7 DEF Fetch
  <2>6. AskedRecords' = AskedRecords
    BY <2>5 DEF AskedRecords
  <2>7. ViewerTyped'
    BY <1>1, <2>2, <2>4, <2>5, <2>6 DEF ViewerTyped
  <2> QED BY <1>2, <2>5, <2>7
<1>8. ASSUME NEW k \in Polls, HearDepth(k), UNCHANGED <<presenterVars, log>>
      PROVE  Counted' /\ CanvasTyped' /\ ViewerTyped'
  <2>1. /\ FetchNext(polls[k].depth) /\ UNCHANGED <<watching, visit, picture>>
        /\ polls' = [polls EXCEPT ![k] =
                       IF polls[k].stage = "answered"
                         THEN [polls[k] EXCEPT !.stage = "loaded"] ELSE NoPoll]
    BY <1>8 DEF HearDepth
  <2>2. polls[k] \in PollRecords /\ polls[k].depth \in Nat
    BY <1>1 DEF ViewerTyped, PollRecords
  <2>3. NoPoll \in PollRecords /\ [polls[k] EXCEPT !.stage = "loaded"] \in PollRecords
    BY <2>2 DEF NoPoll, PollRecords, Stages, Sessions
  <2>4. polls' \in [Polls -> PollRecords]
    BY <1>1, <2>1, <2>3 DEF ViewerTyped
  <2>5. curqd' \in Nat /\ fetches' \subseteq AskedRecords /\ AskedRecords' = AskedRecords
    BY <1>1, <2>1, <2>2, NextTyped
  <2>6. ViewerTyped'
    BY <1>1, <2>1, <2>4, <2>5 DEF ViewerTyped, PollRecords
  <2> QED BY <1>2, <1>8, <2>6
<1>9. ASSUME NEW f \in fetches, HearBatch(f), UNCHANGED <<presenterVars, log>>
      PROVE  Counted' /\ CanvasTyped' /\ ViewerTyped'
  <2>1. /\ picture' = Painted(picture, f.batch)
        /\ fetches' \subseteq fetches \cup {[f EXCEPT !.stage = "loaded"]}
        /\ UNCHANGED <<watching, curqd, visit, polls>>
    BY <1>9 DEF HearBatch
  <2>2. f.batch \in Batch /\ picture \subseteq Marks
    BY <1>1 DEF ViewerTyped, AskedRecords
  <2>3. picture' \subseteq Marks
    BY <2>1, <2>2, PaintedAreMarks
  <2>4. [f EXCEPT !.stage = "loaded"] \in AskedRecords
    BY <1>1, <2>2, FetchTyped DEF Stages
  <2>5. AskedRecords' = AskedRecords
    BY <2>1 DEF AskedRecords
  <2>6. ViewerTyped'
    BY <1>1, <2>1, <2>3, <2>4, <2>5 DEF ViewerTyped
  <2> QED BY <1>2, <1>9, <2>6
<1>10. ASSUME NEW p \in posts, posts' = posts \ {p}, UNCHANGED log,
              UNCHANGED <<isDown, canvas, posted, viewerVars>>
       PROVE  Counted' /\ CanvasTyped' /\ ViewerTyped'
  BY <1>1, <1>10, ServeCounts, ViewerStands DEF CanvasTyped
<1>11. ASSUME NEW k \in Polls, LosePoll(k)
       PROVE  ViewerTyped'
  <2>1. NoPoll \in PollRecords
    BY DEF NoPoll, PollRecords, Stages, Sessions
  <2> QED BY <1>1, <1>11, <2>1 DEF LosePoll, ViewerTyped, AskedRecords, PollRecords
<1>12. ASSUME NEW f \in fetches, LoseFetch(f)
       PROVE  ViewerTyped'
  BY <1>1, <1>12 DEF LoseFetch, ViewerTyped, AskedRecords
<1>13. CASE Lose
  BY <1>2, <1>10, <1>11, <1>12, <1>13 DEF Lose
<1>14. ASSUME NEW s \in Names, Expire(s)
       PROVE  Counted' /\ CanvasTyped' /\ ViewerTyped'
  <2>1. /\ log' = [log EXCEPT ![s] = << >>] /\ UNCHANGED <<presenterVars, viewerVars>>
    BY <1>14 DEF Expire
  <2>2. ASSUME NEW r \in Sessions
        PROVE  Len(log'[r]) + Cardinality(posts) <= posted
    <3>1. log'[r] = IF r = s THEN << >> ELSE log[r]
      BY <1>1, <2>1 DEF Written, LogsTrue
    <3>2. /\ Len(log[r]) \in Nat /\ Cardinality(posts) \in Nat
          /\ Len(log[r]) + Cardinality(posts) <= posted /\ posted \in Nat
      BY <1>1, FS_CardinalityType DEF Written, LogsTrue, Counted
    <3> QED BY <3>1, <3>2
  <2>3. Counted'
    BY <1>1, <2>1, <2>2 DEF Counted, presenterVars
  <2> QED BY <1>1, <2>1, <2>3, ViewerStands DEF CanvasTyped, presenterVars
<1>15. CASE Serve
  BY <1>5, <1>6, <1>7, <1>15 DEF Serve
<1>16. CASE Hear
  BY <1>8, <1>9, <1>16 DEF Hear
<1>17. CASE UNCHANGED vars
  BY <1>1, <1>2, <1>17, ViewerStands DEF vars
<1> QED BY <1>3, <1>4, <1>13, <1>14, <1>15, <1>16, <1>17 DEF Next

(* Every variable of the pages and of the server keeps to its type, and     *)
(* /numqueues never answers more than was posted, whatever is lost,         *)
(* renamed, deleted or overtaken.                                           *)
THEOREM TypesKept == Spec => []TypeOK
<1>1. Typed => TypeOK
  BY DEF Typed, Written, DrawingTrue, PostsTrue, LogsTrue, Counted, CanvasTyped,
         ViewerTyped, PollRecords, AskedRecords, Stages, TypeOK
<1>2. Typed /\ [Next]_vars => Typed'
  BY TypedStep
<1> QED BY <1>1, <1>2, TypedInit, PTL DEF Spec

-----------------------------------------------------------------------------
(* Where the beginning of a stroke may be: in send, in one request under    *)
(* way or in one batch of one log; nowhere as long as it was not drawn.     *)

Logged(s, i, m) == i \in DOMAIN log[s] /\ Contains(log[s][i], m)
NotPosted(m) == \A p \in posts : ~Contains(p.batch, m)
NotLogged(m) == \A s \in Names : \A i \in Nat : ~Logged(s, i, m)

AtOnePlace(m) ==
  /\ Contains(send, m) => NotPosted(m) /\ NotLogged(m)
  /\ ~NotPosted(m) => NotLogged(m)
  /\ \A p, q \in posts : Contains(p.batch, m) /\ Contains(q.batch, m) => p = q
  /\ \A s, t \in Names : \A i, j \in Nat :
       Logged(s, i, m) /\ Logged(t, j, m) => s = t /\ i = j

AtNoPlace(m) == ~Contains(send, m) /\ NotPosted(m) /\ NotLogged(m)

StrokesTrue ==
  \A n \in 1 .. MaxStrokes :
    AtOnePlace(Dot(n)) /\ (n > strokes => AtNoPlace(Dot(n)))

PostsApart == \A p, q \in posts : p.n = q.n => p = q

OnceTrue == PostsApart /\ StrokesTrue

(* A batch one mark longer has that mark more.                              *)
LEMMA LongerContains ==
  ASSUME NEW b \in Batch, NEW e \in Marks \cup {Clear}, NEW m
  PROVE  /\ Contains(Append(b, e), m) <=> Contains(b, m) \/ e = m
         /\ ~Contains(<< >>, m)
<1>1. /\ Len(Append(b, e)) = Len(b) + 1 /\ Len(b) \in Nat
      /\ \A i \in 1 .. Len(b) : Append(b, e)[i] = b[i]
      /\ Append(b, e)[Len(b) + 1] = e
  BY DEF Batch
<1> DEFINE a == Append(b, e)
<1> HIDE DEF a
<1>2. Contains(a, m) => Contains(b, m) \/ e = m
  BY <1>1 DEF Contains, a
<1>3. Contains(b, m) \/ e = m => Contains(a, m)
  BY <1>1 DEF Contains, a
<1> QED BY <1>2, <1>3 DEF Contains, a

(* A dot is neither a line nor a clear, nor that of another stroke.         *)
LEMMA DotsDiffer ==
  \A n, k : Dot(n) # Line(k) /\ Dot(n) # Clear /\ (Dot(n) = Dot(k) => n = k)
BY DEF Dot, Line, Clear

(* Nothing is drawn yet.                                                    *)
LEMMA OnceInit == Init => OnceTrue
<1> SUFFICES ASSUME Init PROVE OnceTrue
  OBVIOUS
<1>1. /\ send = << >> /\ posts = {}
      /\ log = [s \in Names \cup {NoName} |-> << >>]
  BY DEF Init, PresenterInit
<1>2. \A m : ~Contains(send, m)
  BY <1>1 DEF Contains
<1>3. \A s \in Names : DOMAIN log[s] = {}
  BY <1>1
<1>4. \A m : AtNoPlace(m) /\ AtOnePlace(m)
  BY <1>1, <1>2, <1>3 DEF AtNoPlace, AtOnePlace, NotPosted, NotLogged, Logged
<1> QED BY <1>1, <1>4 DEF OnceTrue, PostsApart, StrokesTrue

(* What is lost or deleted is nowhere.                                      *)
LEMMA OnceLess ==
  ASSUME OnceTrue, UNCHANGED strokes, posts' \subseteq posts,
         \A n \in 1 .. MaxStrokes : Contains(send', Dot(n)) => Contains(send, Dot(n)),
         \A s \in Names : log'[s] = log[s] \/ log'[s] = << >>
  PROVE  OnceTrue'
<1>1. ASSUME NEW m, NEW s \in Names, NEW i \in Nat, Logged(s, i, m)'
      PROVE  Logged(s, i, m)
  BY <1>1 DEF Logged
<1>2. \A m : NotLogged(m) => NotLogged(m)'
  BY <1>1 DEF NotLogged
<1>3. \A m : NotPosted(m) => NotPosted(m)'
  BY DEF NotPosted
<1>4. ASSUME NEW n \in 1 .. MaxStrokes
      PROVE  AtOnePlace(Dot(n))' /\ (n > strokes => AtNoPlace(Dot(n))')
  <2> DEFINE m == Dot(n)
  <2>1. /\ AtOnePlace(m) /\ (n > strokes => AtNoPlace(m))
        /\ Contains(send', m) => Contains(send, m)
    BY DEF OnceTrue, StrokesTrue
  <2> HIDE DEF m
  <2>2. /\ \A p, q \in posts' : Contains(p.batch, m) /\ Contains(q.batch, m) => p = q
        /\ ~NotPosted(m)' => ~NotPosted(m)
    BY <2>1, <1>3 DEF AtOnePlace
  <2>3. \A s, t \in Names : \A i, j \in Nat :
          Logged(s, i, m)' /\ Logged(t, j, m)' => s = t /\ i = j
    BY <1>1, <2>1 DEF AtOnePlace
  <2>4. AtOnePlace(m)'
    BY <1>2, <1>3, <2>1, <2>2, <2>3 DEF AtOnePlace
  <2>5. n > strokes => AtNoPlace(m)'
    BY <1>2, <1>3, <2>1 DEF AtNoPlace
  <2> QED BY <2>4, <2>5 DEF m
<1> QED BY <1>4 DEF OnceTrue, PostsApart, StrokesTrue

(* A stroke begins where none of it was.                                    *)
LEMMA OnceMouseDown ==
  ASSUME Written, OnceTrue, MouseDown, UNCHANGED log
  PROVE  OnceTrue'
<1>1. /\ strokes' = strokes + 1 /\ strokes' \in 1 .. MaxStrokes /\ strokes \in Nat
      /\ send' = Append(send, Dot(strokes')) /\ UNCHANGED <<posts, log>>
      /\ send \in Batch
  BY DEF MouseDown, Written, DrawingTrue
<1>2. \A m : NotPosted(m)' = NotPosted(m)
  BY <1>1 DEF NotPosted
<1>3. \A m, s, i : Logged(s, i, m)' = Logged(s, i, m)
  BY <1>1 DEF Logged
<1>4. \A m : NotLogged(m)' = NotLogged(m)
  BY <1>3 DEF NotLogged
<1>5. \A m : Contains(send', m) <=> Contains(send, m) \/ Dot(strokes') = m
  BY <1>1, LongerContains, MarksInBatches
<1>6. ASSUME NEW n \in 1 .. MaxStrokes
      PROVE  AtOnePlace(Dot(n))' /\ (n > strokes' => AtNoPlace(Dot(n))')
  <2> DEFINE m == Dot(n)
  <2>1. /\ AtOnePlace(m) /\ (n > strokes => AtNoPlace(m))
        /\ Contains(send', m) <=> Contains(send, m) \/ n = strokes'
    BY <1>5, DotsDiffer DEF OnceTrue, StrokesTrue
  <2> HIDE DEF m
  <2>2. Contains(send', m) => NotPosted(m) /\ NotLogged(m)
    BY <1>1, <2>1 DEF AtOnePlace, AtNoPlace
  <2>3. AtOnePlace(m)'
    BY <1>1, <1>2, <1>3, <1>4, <2>1, <2>2 DEF AtOnePlace
  <2>4. n > strokes' => AtNoPlace(m)'
    BY <1>1, <1>2, <1>4, <2>1 DEF AtNoPlace
  <2> QED BY <2>3, <2>4 DEF m
<1> QED BY <1>1, <1>6 DEF OnceTrue, PostsApart, StrokesTrue

(* sendRequest moves what is in send into the request, or drops it.         *)
LEMMA OnceSend ==
  ASSUME Typed, OnceTrue, NEW b \in Batch, NEW c, SendRequest(b, c),
         \A n \in 1 .. MaxStrokes : Contains(b, Dot(n)) => Contains(send, Dot(n)),
         UNCHANGED <<strokes, log>>
  PROVE  OnceTrue'
<1>1. send' = << >> /\ \A m : ~Contains(send', m)
  BY DEF SendRequest, Contains
<1>2. CASE presenting = NoName
  <2>1. UNCHANGED posts
    BY <1>2 DEF SendRequest
  <2> QED BY <1>1, <2>1, OnceLess
<1>3. CASE presenting # NoName
  <2> DEFINE p1 == [n |-> posted', ses |-> presenting, batch |-> b]
  <2>1. posted' = posted + 1 /\ posts' = posts \cup {p1}
    BY <1>3 DEF SendRequest
  <2>2. p1.n = posted' /\ p1.batch = b
    OBVIOUS
  <2> HIDE DEF p1
  <2>3. PostsApart'
    <3>1. \A p \in posts : p.n # posted'
      BY <2>1 DEF Typed, Counted
    <3> QED BY <2>1, <2>2, <3>1 DEF OnceTrue, PostsApart
  <2>4. \A m, s, i : Logged(s, i, m)' = Logged(s, i, m)
    BY DEF Logged
  <2>5. \A m : NotLogged(m)' = NotLogged(m)
    BY <2>4 DEF NotLogged
  <2>6. \A m : NotPosted(m)' <=> NotPosted(m) /\ ~Contains(b, m)
    BY <2>1, <2>2 DEF NotPosted
  <2>7. ASSUME NEW n \in 1 .. MaxStrokes
        PROVE  AtOnePlace(Dot(n))' /\ (n > strokes => AtNoPlace(Dot(n))')
    <3> DEFINE m == Dot(n)
    <3>1. /\ AtOnePlace(m) /\ (n > strokes => AtNoPlace(m))
          /\ Contains(b, m) => Contains(send, m)
      BY DEF OnceTrue, StrokesTrue
    <3> HIDE DEF m
    <3>2. \A p, q \in posts' : Contains(p.batch, m) /\ Contains(q.batch, m) => p = q
      BY <2>1, <2>2, <3>1 DEF AtOnePlace, NotPosted
    <3>3. ~NotPosted(m)' => NotLogged(m)'
      BY <2>5, <2>6, <3>1 DEF AtOnePlace
    <3>4. AtOnePlace(m)'
      BY <1>1, <2>4, <3>1, <3>2, <3>3 DEF AtOnePlace
    <3>5. n > strokes => AtNoPlace(m)'
      BY <1>1, <2>5, <2>6, <3>1 DEF AtNoPlace
    <3> QED BY <3>4, <3>5 DEF m
  <2> QED BY <2>3, <2>7 DEF OnceTrue, StrokesTrue
<1> QED BY <1>2, <1>3

(* /project moves a batch from the request to the end of one log.           *)
LEMMA OnceProject ==
  ASSUME Typed, OnceTrue, NEW p \in posts, Project(p)
  PROVE  OnceTrue'
<1>1. /\ posts' = posts \ {p} /\ log' = [log EXCEPT ![p.ses] = Append(@, p.batch)]
      /\ UNCHANGED <<send, strokes>>
  BY DEF Project
<1>2. /\ p.ses \in Names /\ p.batch \in Batch /\ Names \subseteq Sessions
      /\ log \in [Sessions -> Seq(Batch)]
  BY DEF Typed, Written, PostsTrue, LogsTrue, Sessions
<1> DEFINE l == log[p.ses]
           k == Len(l) + 1
<1>3. k \in Nat /\ k \notin DOMAIN l
  BY <1>2
<1>4. ASSUME NEW m, NEW s \in Names, NEW i \in Nat
      PROVE  Logged(s, i, m)' <=>
               Logged(s, i, m) \/ (s = p.ses /\ i = k /\ Contains(p.batch, m))
  <2>1. CASE s # p.ses
    BY <1>1, <1>2, <2>1 DEF Logged
  <2>2. CASE s = p.ses
    <3> DEFINE a == Append(l, p.batch)
    <3>1. log'[s] = a
      BY <1>1, <1>2, <2>2
    <3>2. /\ DOMAIN a = (DOMAIN l) \cup {k} /\ a[k] = p.batch
          /\ \A j \in DOMAIN l : a[j] = l[j]
      BY <1>2
    <3> HIDE DEF a, k
    <3>3. Logged(s, i, m)' <=> i \in DOMAIN a /\ Contains(a[i], m)
      BY <3>1 DEF Logged
    <3>4. Logged(s, i, m) <=> i \in DOMAIN l /\ Contains(l[i], m)
      BY <2>2 DEF Logged
    <3> QED BY <1>3, <2>2, <3>2, <3>3, <3>4
  <2> QED BY <2>1, <2>2
<1> HIDE DEF k, l
<1>5. ASSUME NEW n \in 1 .. MaxStrokes
      PROVE  AtOnePlace(Dot(n))' /\ (n > strokes' => AtNoPlace(Dot(n))')
  <2> DEFINE m == Dot(n)
  <2>1. AtOnePlace(m) /\ (n > strokes => AtNoPlace(m))
    BY DEF OnceTrue, StrokesTrue
  <2> HIDE DEF m
  <2>2. CASE Contains(p.batch, m)
    <3>1. ~Contains(send, m) /\ NotLogged(m) /\ NotPosted(m)' /\ ~NotPosted(m)
      BY <1>1, <2>1, <2>2 DEF AtOnePlace, NotPosted
    <3>2. \A s \in Names, i \in Nat : Logged(s, i, m)' => s = p.ses /\ i = k
      BY <1>4, <3>1 DEF NotLogged
    <3>3. AtOnePlace(m)'
      BY <1>1, <3>1, <3>2 DEF AtOnePlace, NotPosted
    <3>4. ~(n > strokes')
      BY <1>1, <2>1, <3>1 DEF AtNoPlace
    <3> QED BY <3>3, <3>4 DEF m
  <2>3. CASE ~Contains(p.batch, m)
    <3>1. \A s \in Names, i \in Nat : Logged(s, i, m)' <=> Logged(s, i, m)
      BY <1>4, <2>3
    <3>2. NotLogged(m)' <=> NotLogged(m)
      BY <3>1 DEF NotLogged
    <3>3. NotPosted(m)' <=> NotPosted(m)
      BY <1>1, <2>3 DEF NotPosted
    <3>4. AtOnePlace(m)'
      BY <1>1, <2>1, <3>1, <3>2, <3>3 DEF AtOnePlace
    <3>5. n > strokes' => AtNoPlace(m)'
      BY <1>1, <2>1, <3>2, <3>3 DEF AtNoPlace
    <3> QED BY <3>4, <3>5 DEF m
  <2> QED BY <2>2, <2>3
<1>6. PostsApart'
  BY <1>1 DEF OnceTrue, PostsApart
<1> QED BY <1>5, <1>6 DEF OnceTrue, StrokesTrue

(* Every action keeps a stroke's beginning in one place.                    *)
LEMMA OnceStep == Typed /\ OnceTrue /\ [Next]_vars => OnceTrue'
<1> SUFFICES ASSUME Typed, OnceTrue, [Next]_vars PROVE OnceTrue'
  OBVIOUS
<1>1. Written /\ send \in Batch
  BY DEF Typed, Written, DrawingTrue
<1>2. CASE UNCHANGED <<send, posts, strokes, log>>
  BY <1>2, OnceLess
<1>3. CASE MouseDown /\ UNCHANGED log
  BY <1>1, <1>3, OnceMouseDown
<1>4. CASE MouseMove /\ UNCHANGED log
  <2>1. strokes \in 1 .. MaxStrokes
    BY <1>1, <1>4 DEF MouseMove, Written, DrawingTrue
  <2>2. \A n : Contains(send', Dot(n)) => Contains(send, Dot(n))
    BY <1>1, <1>4, <2>1, LongerContains, MarksInBatches, DotsDiffer DEF MouseMove
  <2> QED BY <1>4, <2>2, OnceLess DEF MouseMove
<1>5. CASE MouseUp /\ UNCHANGED log
  BY <1>1, <1>5, OnceSend DEF MouseUp
<1>6. CASE ClearBoard /\ UNCHANGED log
  <2> DEFINE b == Append(send, Clear)
  <2>1. b \in Batch /\ \A n : Contains(b, Dot(n)) => Contains(send, Dot(n))
    BY <1>1, LongerContains, MarksInBatches, DotsDiffer
  <2>2. SendRequest(b, {}) /\ UNCHANGED <<strokes, log>>
    BY <1>6 DEF ClearBoard
  <2> HIDE DEF b
  <2> QED BY <2>1, <2>2, OnceSend
<1>7. CASE Present /\ UNCHANGED <<viewerVars, log>>
  BY <1>2, <1>3, <1>4, <1>5, <1>6, <1>7 DEF Present, TypeTitle, SesboxChange
<1>8. CASE UNCHANGED <<presenterVars, log>>
  BY <1>2, <1>8 DEF presenterVars
<1>9. ASSUME NEW p \in posts, posts' = posts \ {p}, UNCHANGED <<send, strokes, log>>
      PROVE  OnceTrue'
  BY <1>9, OnceLess
<1>10. ASSUME NEW s \in Names, Expire(s)
       PROVE  OnceTrue'
  <2>1. log' = [log EXCEPT ![s] = << >>] /\ UNCHANGED <<send, posts, strokes>>
    BY <1>10 DEF Expire, presenterVars
  <2>2. \A r \in Names : log'[r] = log[r] \/ log'[r] = << >>
    BY <1>1, <2>1 DEF Written, LogsTrue, Sessions
  <2> QED BY <2>1, <2>2, OnceLess
<1>11. CASE Serve
  BY <1>8, <1>11, OnceProject DEF Serve, NumQueues, Fetch
<1>12. CASE Lose
  BY <1>8, <1>9, <1>12 DEF Lose
<1> QED BY <1>7, <1>8, <1>10, <1>11, <1>12 DEF Next, Hear, vars

(* Whatever is lost, renamed, deleted or overtaken: the beginning of a      *)
(* stroke waits or is kept in one place at most.                            *)
THEOREM StrokesPostedOnce == Spec => []PostedOnce
<1>1. Typed /\ OnceTrue => PostedOnce
  <2> SUFFICES ASSUME Typed, OnceTrue, NEW n \in 1 .. MaxStrokes
               PROVE  Cardinality(Places(Dot(n))) <= 1
    BY DEF PostedOnce
  <2> DEFINE m == Dot(n)
  <2>1. AtOnePlace(m)
    BY DEF OnceTrue, StrokesTrue
  <2>2. \A s \in Names : DOMAIN log[s] \subseteq Nat
    <3>1. \A s \in Names : log[s] \in Seq(Batch)
      BY DEF Typed, Written, LogsTrue, Sessions
    <3> QED BY <3>1
  <2> HIDE DEF m
  <2>3. ASSUME NEW x \in Places(m)
        PROVE  \/ Contains(send, m) /\ x = <<"send", 0>>
               \/ \E p \in posts : Contains(p.batch, m) /\ x = <<"post", p.n>>
               \/ \E s \in Names, i \in Nat : Logged(s, i, m) /\ x = <<s, i>>
    <3> DEFINE A == IF Contains(send, m) THEN {<<"send", 0>>} ELSE {}
               B == {<<"post", p.n>> : p \in {q \in posts : Contains(q.batch, m)}}
               C(s) == {<<s, i>> : i \in {j \in DOMAIN log[s] : Contains(log[s][j], m)}}
    <3>1. x \in A \/ x \in B \/ \E s \in Names : x \in C(s)
      BY DEF Places
    <3>2. x \in A => Contains(send, m) /\ x = <<"send", 0>>
      OBVIOUS
    <3>3. x \in B => \E p \in posts : Contains(p.batch, m) /\ x = <<"post", p.n>>
      OBVIOUS
    <3>4. ASSUME NEW s \in Names, x \in C(s)
          PROVE  \E i \in Nat : Logged(s, i, m) /\ x = <<s, i>>
      BY <2>2, <3>4 DEF Logged
    <3> HIDE DEF A, B, C
    <3> QED BY <3>1, <3>2, <3>3, <3>4
  <2>4. \A x, y \in Places(m) : x = y
    <3>1. SUFFICES ASSUME NEW x \in Places(m), NEW y \in Places(m) PROVE x = y
      OBVIOUS
    <3>2. CASE Contains(send, m)
      BY <2>1, <2>3, <3>2 DEF AtOnePlace, NotPosted, NotLogged
    <3>3. CASE ~Contains(send, m) /\ ~NotPosted(m)
      <4>1. \A z \in Places(m) : \E p \in posts : Contains(p.batch, m) /\ z = <<"post", p.n>>
        BY <2>1, <2>3, <3>3 DEF AtOnePlace, NotLogged
      <4> QED BY <2>1, <4>1 DEF AtOnePlace
    <3>4. CASE ~Contains(send, m) /\ NotPosted(m)
      <4>1. \A z \in Places(m) : \E s \in Names, i \in Nat : Logged(s, i, m) /\ z = <<s, i>>
        BY <2>3, <3>4 DEF NotPosted
      <4> QED BY <2>1, <4>1 DEF AtOnePlace
    <3> QED BY <3>2, <3>3, <3>4
  <2>5. Places(m) = {} \/ \E x : Places(m) = {x}
    BY <2>4
  <2>6. Cardinality(Places(m)) <= 1
    <3>1. Cardinality({}) = 0 /\ \A x : Cardinality({x}) = 1
      BY FS_EmptySet, FS_Singleton
    <3>2. Cardinality(Places(m)) \in {0, 1}
      BY <2>5, <3>1, Zenon
    <3> QED BY <3>2
  <2> QED BY <2>6 DEF m
<1>2. Typed /\ [Next]_vars => Typed'
  BY TypedStep
<1>3. Typed /\ OnceTrue /\ [Next]_vars => OnceTrue'
  BY OnceStep
<1> QED BY <1>1, <1>2, <1>3, TypedInit, OnceInit, PTL DEF Spec
=============================================================================
