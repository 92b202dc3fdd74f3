------------------------------- MODULE Drawing -------------------------------
(***************************************************************************)
(* What Canvas leaves out: the text of a batch, how the presenter's mouse  *)
(* handlers write it and parseRequest of the viewer reads it, and the two  *)
(* drawing contexts with their path, colours and state between batches.    *)
(* Batches arrive in order; each is heard twice, as Viewer explains.  The  *)
(* presenter's name box holds the name of the one session or is empty.     *)
(*                                                                         *)
(* A text is the sequence of its words.  Spaces, and the words of which    *)
(* only the number matters (tool, size of the canvas, radius), have no     *)
(* content.  A point is its two coordinates, and no two events of the      *)
(* mouse have the same.                                                    *)
(***************************************************************************)
EXTENDS Integers, Sequences, SequencesExt

CONSTANTS
  Colours,    \* what may be in the penCol input
  Black,      \* the colour of a context that was not given one
  MaxPoints,  \* bound: mouse events that draw
  MaxPosts    \* bound: batches

ASSUME DrawingAssumption == Black \notin Colours /\ MaxPoints \in Nat

VARIABLES
  colour,    \* the value of penCol
  named,     \* there is a name in the sesname box
  isDown,    \* the mouse button is believed to be down
  points,    \* events so far: names their points
  pen,       \* the presenter's context and canvas
  send,      \* the text drawn and not yet posted
  log,       \* the batches of the session
  heard,     \* callbacks of /fetch so far, two for each batch
  screen,    \* the viewer's context and canvas
  repicked,  \* history: another colour was picked within a stroke
  cut,       \* history: text was dropped since the path was begun
  torn,      \* history: a stroke went on whose beginning was dropped
  wiped      \* history: text was dropped after a batch was posted

vars == <<colour, named, isDown, points, pen, send, log, heard, screen,
          repicked, cut, torn, wiped>>

-----------------------------------------------------------------------------
(* A context: its styles, the lines and the ends of its path, and what is   *)
(* on the canvas, shape -> colour.  sized is heightSet of the viewer.       *)

NoPoint == << >>
Nothing == [s \in {} |-> Black]
Blank == [fill |-> Black, stroke |-> Black, lines |-> {}, first |-> NoPoint,
          last |-> NoPoint, canvas |-> Nothing, sized |-> FALSE]

BeginPath(c) == [c EXCEPT !.lines = {}, !.first = NoPoint, !.last = NoPoint]
MoveTo(c, p) == [c EXCEPT !.first = p, !.last = p]

\* Without a path lineTo is moveTo.  A line of no length does not show.
LineTo(c, p) ==
  IF c.last = NoPoint THEN MoveTo(c, p)
  ELSE [c EXCEPT !.lines = @ \cup ({{c.last, p}} \ {{p}}), !.last = p]

ClosePath(c) == IF c.last = NoPoint THEN c ELSE LineTo(c, c.first)

Painted(c, shapes, style) ==
  [c EXCEPT !.canvas = [s \in shapes \cup DOMAIN @ |->
                          IF s \in shapes THEN style ELSE @[s]]]
Stroke(c)      == Painted(c, {<<"line", l>> : l \in c.lines}, c.stroke)
FillRect(c, p) == Painted(c, {<<"dot", p>>}, c.fill)
ClearRect(c)   == [c EXCEPT !.canvas = Nothing]

-----------------------------------------------------------------------------
(* The presenter *)

NextPoint == <<ToString(points + 1), ToString(points + 1)>>

\* sendRequest, with text in send and c the context.  Without a name what was
\* drawn is dropped and the canvas cleared, but the path of the context stays.
SendRequest(text, c) ==
  /\ send' = << >>
  /\ IF named
       THEN /\ Len(log) < MaxPosts
            /\ log' = Append(log, text)
            /\ pen' = c
       ELSE /\ pen' = ClearRect(c)
            /\ UNCHANGED log
  /\ cut' = (cut \/ ~named)
  /\ wiped' = (wiped \/ (~named /\ log # << >>))
  /\ UNCHANGED torn

MouseDown ==
  /\ points < MaxPoints /\ points' = points + 1
  /\ isDown' = TRUE
  /\ pen' = FillRect([MoveTo(BeginPath(pen), NextPoint) EXCEPT !.fill = colour],
                     NextPoint)
  /\ send' = send \o <<"begpath", "tool", colour, "width", "height">>
                  \o NextPoint \o <<"radius">>
  /\ cut' = FALSE
  /\ UNCHANGED <<colour, named, log, heard, screen, repicked, torn, wiped>>

MouseMove ==
  /\ isDown
  /\ points < MaxPoints /\ points' = points + 1
  /\ pen' = Stroke(LineTo([pen EXCEPT !.stroke = colour], NextPoint))
  /\ send' = send \o <<"point">> \o NextPoint
  /\ torn' = (torn \/ cut)
  /\ UNCHANGED <<colour, named, isDown, log, heard, screen, repicked, cut, wiped>>

\* Heard over the canvas only.
MouseUp ==
  /\ isDown' = FALSE
  /\ SendRequest(Append(send, "endpath"), ClosePath(pen))
  /\ UNCHANGED <<colour, named, points, heard, screen, repicked>>

ClearBoard ==
  /\ SendRequest(Append(send, "clear"), ClearRect(pen))
  /\ UNCHANGED <<colour, named, isDown, points, heard, screen, repicked>>

PickColour(c) ==
  /\ c # colour /\ colour' = c
  /\ repicked' = (repicked \/ isDown)
  /\ UNCHANGED <<named, isDown, points, pen, send, log, heard, screen, cut, torn, wiped>>

\* The name is typed, or the box emptied.
TypeName ==
  /\ named' = ~named
  /\ UNCHANGED <<colour, isDown, points, pen, send, log, heard, screen, repicked,
                 cut, torn, wiped>>

-----------------------------------------------------------------------------
(* The viewer *)

\* Mutant: the branch that does not read the size skips one word.
PastSizeShort(v, i) == IF v.sized THEN i + 1 ELSE i + 2

\* The index of the word of the height, from that of the colour.
PastSize(v, i) == i + 2

\* Setting the size of a canvas empties it and resets its context, so that
\* the colours given just before are lost.
Resized(v) == IF v.sized THEN v ELSE [Blank EXCEPT !.sized = TRUE]

\* Mutant: beginPath is not called.
BegpathContinues(v, cmd) ==
  LET styled == [v EXCEPT !.fill = cmd[3], !.stroke = cmd[3]]
      h == PastSize(v, 3)
      p == <<cmd[h + 1], cmd[h + 2]>>
  IN FillRect(MoveTo(Resized(styled), p), p)

Begpath(v, cmd) ==
  LET styled == [BeginPath(v) EXCEPT !.fill = cmd[3], !.stroke = cmd[3]]
      h == PastSize(v, 3)
      p == <<cmd[h + 1], cmd[h + 2]>>
  IN FillRect(MoveTo(Resized(styled), p), p)

\* How many words the command takes that begins with this one, and what it
\* does with them.
Words(v, word) ==
  CASE word = "begpath" -> PastSize(v, 3) + 3
    [] word = "point"   -> 3
    [] OTHER            -> 1
Command(v, cmd) ==
  CASE cmd[1] = "begpath" -> Begpath(v, cmd)
    [] cmd[1] = "point"   -> Stroke(LineTo(v, <<cmd[2], cmd[3]>>))
    [] cmd[1] = "endpath" -> ClosePath(v)
    [] cmd[1] = "clear"   -> ClearRect(v)
    [] OTHER              -> v

\* One word on; r.cmd is what was read of a command that needs more.
Read(r, word) ==
  LET cmd == Append(r.cmd, word)
  IN IF Len(cmd) < Words(r.view, cmd[1]) THEN [r EXCEPT !.cmd = cmd]
     ELSE [view |-> Command(r.view, cmd), cmd |-> << >>]

Begin(v) == [view |-> v, cmd |-> << >>]
ParseRequest(v, text) == FoldLeft(Read, Begin(v), text).view

\* Mutant: readyState is compared with 4, and the callback runs once.
HearOnce ==
  /\ heard < 2 * Len(log) /\ heard' = heard + 2
  /\ screen' = ParseRequest(screen, log[(heard \div 2) + 1])
  /\ UNCHANGED <<colour, named, isDown, points, pen, send, log, repicked, cut, torn,
                 wiped>>

Hear ==
  /\ heard < 2 * Len(log) /\ heard' = heard + 1
  /\ screen' = ParseRequest(screen, log[(heard \div 2) + 1])
  /\ UNCHANGED <<colour, named, isDown, points, pen, send, log, repicked, cut, torn,
                 wiped>>

-----------------------------------------------------------------------------
Init ==
  /\ colour \in Colours /\ named = FALSE /\ isDown = FALSE /\ points = 0
  /\ pen = Blank /\ send = << >> /\ log = << >>
  /\ heard = 0 /\ screen = Blank /\ repicked = FALSE
  /\ cut = FALSE /\ torn = FALSE /\ wiped = FALSE

Next ==
  \/ MouseDown \/ MouseMove \/ MouseUp \/ ClearBoard
  \/ \E c \in Colours : PickColour(c)
  \/ TypeName
  \/ Hear

Spec == Init /\ [][Next]_vars

-----------------------------------------------------------------------------
\* All that was drawn is posted and heard.
Caught == send = << >> /\ heard = 2 * Len(log)

\* A batch that goes on with the path of the batch before.
Orphans(text) ==
  \E i \in DOMAIN text :
    text[i] = "point" /\ \A j \in 1 .. i : text[j] # "begpath"
NoOrphans == \A n \in DOMAIN log : ~Orphans(log[n])

Shapes(c) == DOMAIN c.canvas

(* Every shape on the presenter's canvas is on the viewer's, also of a      *)
(* stroke that went on over a clear (viewer.js:109-168), since the path of  *)
(* a context is kept from one batch to the next on both sides; unless a     *)
(* stroke went on whose beginning was dropped for want of a session name    *)
(* (presenter.js:105-112): the presenter draws all of it again, and posts   *)
(* only the point.                                                          *)
NothingMissing == Caught /\ ~torn => Shapes(pen) \subseteq Shapes(screen)

(* The viewer shows nothing else, although it draws every batch twice, if   *)
(* every batch begins its own path, and the presenter's canvas was not      *)
(* cleared for want of a name once something was posted.                    *)
NothingAdded ==
  Caught /\ NoOrphans /\ ~wiped => Shapes(screen) \subseteq Shapes(pen)

(* And in the presenter's colours, unless one was picked within a stroke:   *)
(* the first stroke too, which is drawn black (viewer.js:124-131) and then  *)
(* again.                                                                   *)
SameColours ==
  Caught /\ NoOrphans /\ ~wiped /\ ~repicked => screen.canvas = pen.canvas
=============================================================================
