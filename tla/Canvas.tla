------------------------------- MODULE Canvas -------------------------------
(***************************************************************************)
(* What the two web pages share: the names of sessions and what is drawn.  *)
(*                                                                         *)
(* The text of a batch is a list of commands (" begpath ...", " point ...",*)
(* " endpath ", " clear "); what of it shows on a canvas are marks: the    *)
(* dot a stroke begins with and the line drawn through its points.  A      *)
(* canvas is the set of marks to be seen on it, a batch the sequence of    *)
(* its marks and clears ("endpath" leaves no mark).  Colours, coordinates  *)
(* and which mark covers which are left out.                               *)
(***************************************************************************)
EXTENDS Integers, Sequences, SequencesExt

CONSTANTS
  Names, NoName,  \* what may be in a sesname box; the empty box
  Upper,          \* name -> the name in upper case
  MaxStrokes      \* bound: strokes the presenter begins

ASSUME CanvasAssumption ==
  /\ NoName \notin Names
  /\ Upper \in [Names \cup {NoName} -> Names \cup {NoName}]
  /\ Upper[NoName] = NoName
  /\ MaxStrokes \in Nat

Dot(n) == <<"dot", n>>
Line(n) == <<"line", n>>
Clear == <<"clear", 0>>
Marks == {"dot", "line"} \X (1 .. MaxStrokes)

\* parseRequest, and the presenter's own drawing: the canvas after a mark or
\* a clear, and after a batch
Paint(canvas, m) == IF m = Clear THEN {} ELSE canvas \cup {m}
Painted(canvas, batch) == FoldLeft(Paint, canvas, batch)

\* The canvas of one who draws a whole log of batches, in order.
Shown(log) == FoldLeft(Painted, {}, log)
=============================================================================
