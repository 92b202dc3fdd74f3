----------------------------- MODULE Presenter -----------------------------
(***************************************************************************)
(* The presenter's page (presenter.js): what is drawn is collected in      *)
(* send, and posted to the session named in the sesname box when the mouse *)
(* button is released or the board is cleared.  Requests run concurrently  *)
(* and are never repeated.                                                 *)
(*                                                                         *)
(* mouseup is only heard over the canvas: a button released elsewhere      *)
(* leaves isDown TRUE and send unsent.  The keep-alive timer changes       *)
(* nothing here: what it does to the store is Stamp of SessionHost.        *)
(***************************************************************************)
EXTENDS Canvas

CONSTANTS
  MayRename,  \* is the name changed in the course of the session?
  MayClear,   \* is the board ever cleared?
  MaxPosts    \* bound: batches posted

ASSUME PresenterAssumption ==
  /\ MayRename \in BOOLEAN /\ MayClear \in BOOLEAN
  /\ MaxPosts \in Nat

VARIABLES
  presenting,  \* the value of the sesname box
  isDown,      \* the mouse button is believed to be down
  send,        \* drawn and not yet posted
  canvas,      \* the marks on the presenter's own canvas
  strokes,     \* strokes begun so far: names the marks
  posts,       \* /project requests the server has not handled
  posted       \* requests made so far: orders them

presenterVars == <<presenting, isDown, send, canvas, strokes, posts, posted>>

\* The page once its name has been typed and before anything was drawn.
PresenterInit ==
  /\ presenting \in Names
  /\ isDown = FALSE /\ send = << >> /\ canvas = {} /\ strokes = 0
  /\ posts = {} /\ posted = 0

\* Mutant: send is not reset when it was posted.
SendAgain(batch, c) ==
  IF presenting = NoName
    THEN send' = << >> /\ canvas' = {} /\ UNCHANGED <<posts, posted>>
    ELSE /\ posted < MaxPosts
         /\ posted' = posted + 1
         /\ posts' = posts \cup
              {[n |-> posted', ses |-> presenting, batch |-> batch]}
         /\ canvas' = c /\ send' = batch

\* sendRequest, with batch in send and the marks of c on the canvas: without
\* a session name everything drawn is dropped.
SendRequest(batch, c) ==
  /\ send' = << >>
  /\ IF presenting = NoName
       THEN canvas' = {} /\ UNCHANGED <<posts, posted>>
       ELSE /\ posted < MaxPosts
            /\ posted' = posted + 1
            /\ posts' = posts \cup
                 {[n |-> posted', ses |-> presenting, batch |-> batch]}
            /\ canvas' = c

MouseDown ==
  /\ strokes < MaxStrokes
  /\ isDown' = TRUE
  /\ strokes' = strokes + 1
  /\ canvas' = canvas \cup {Dot(strokes')}
  /\ send' = Append(send, Dot(strokes'))
  /\ UNCHANGED <<presenting, posts, posted>>

\* Mutant: the handler does not ask whether the button is down.
MouseMoveUnasked ==
  /\ ~Contains(send, Line(strokes))
  /\ canvas' = canvas \cup {Line(strokes)}
  /\ send' = Append(send, Line(strokes))
  /\ UNCHANGED <<presenting, isDown, strokes, posts, posted>>

\* A move that liney % lineyness lets through.  The points of one stroke in
\* one batch are one mark.
MouseMove ==
  /\ isDown
  /\ ~Contains(send, Line(strokes))
  /\ canvas' = canvas \cup {Line(strokes)}
  /\ send' = Append(send, Line(strokes))
  /\ UNCHANGED <<presenting, isDown, strokes, posts, posted>>

MouseUp ==
  /\ isDown' = FALSE
  /\ SendRequest(send, canvas)
  /\ UNCHANGED <<presenting, strokes>>

\* Mutant: the canvas is cleared, but not the boards of the viewers.
ClearCanvasOnly ==
  /\ MayClear
  /\ SendRequest(send, {})
  /\ UNCHANGED <<presenting, isDown, strokes>>

ClearBoard ==
  /\ MayClear
  /\ SendRequest(Append(send, Clear), {})
  /\ UNCHANGED <<presenting, isDown, strokes>>

\* A key goes down in the sesname box, ...
TypeTitle(n) ==
  /\ MayRename
  /\ presenting' = n
  /\ UNCHANGED <<isDown, send, canvas, strokes, posts, posted>>

\* ... and up again: sesbox_change
SesboxChange ==
  /\ MayRename
  /\ presenting' = Upper[presenting]
  /\ UNCHANGED <<isDown, send, canvas, strokes, posts, posted>>

Present ==
  \/ MouseDown \/ MouseMove \/ MouseUp \/ ClearBoard
  \/ \E n \in Names \cup {NoName} : TypeTitle(n)
  \/ SesboxChange
=============================================================================
