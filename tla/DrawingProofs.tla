---------------------------- MODULE DrawingProofs ----------------------------
(***************************************************************************)
(* What the viewer draws of the presenter's texts, for any colours, points *)
(* and numbers of batches: NothingMissing, NothingAdded and SameColours.   *)
(***************************************************************************)
EXTENDS Drawing, TLAPS

USE DrawingAssumption

-----------------------------------------------------------------------------
(* What the variables hold.  Words are what a text is made of; ToString is  *)
(* not looked into.                                                         *)

Word     == {"begpath", "point", "endpath", "clear", "tool", "width", "height", "radius"}
              \cup Colours \cup {ToString(n) : n \in Nat}
Points   == {NoPoint} \cup (Word \X Word)
Styles   == Word \cup {Black}
ShapeSet == ({"line"} \X SUBSET Points) \cup ({"dot"} \X Points)
Canvases == UNION {[S -> Styles] : S \in SUBSET ShapeSet}
Contexts == [fill : Styles, stroke : Styles, lines : SUBSET SUBSET Points,
             first : Points, last : Points, canvas : Canvases, sized : BOOLEAN]

-----------------------------------------------------------------------------
(* The operations of a context.                                             *)

(* The shapes of a path.                                                    *)
Lined(ls) == {<<"line", l>> : l \in ls}

(* d is c with these shapes painted over it in one colour.                  *)
Over(c, d, S, style) ==
  /\ d \in Contexts
  /\ Shapes(d) = Shapes(c) \cup S
  /\ \A s \in S : d.canvas[s] = style
  /\ \A s \in Shapes(c) \ S : d.canvas[s] = c.canvas[s]

(* d has the path of c with a line to p.                                    *)
Further(c, d, p) ==
  /\ d.last = p
  /\ d.first = (IF c.last = NoPoint THEN p ELSE c.first)
  /\ d.lines = (IF c.last = NoPoint THEN c.lines
                ELSE c.lines \cup ({{c.last, p}} \ {{p}}))

(* d has the path, the styles and the size of c.                            *)
SamePath(c, d) == d.lines = c.lines /\ d.first = c.first /\ d.last = c.last
SameStyle(c, d) == d.fill = c.fill /\ d.stroke = c.stroke /\ d.sized = c.sized

(* A canvas shows shapes, each in one colour.                               *)
LEMMA CanvasShapes ==
  ASSUME NEW c \in Contexts
  PROVE  /\ Shapes(c) \in SUBSET ShapeSet
         /\ c.canvas \in [Shapes(c) -> Styles]
<1>1. c.canvas \in Canvases
  BY DEF Contexts
<1>2. PICK S \in SUBSET ShapeSet : c.canvas \in [S -> Styles]
  BY <1>1 DEF Canvases
<1>3. Shapes(c) = S
  BY <1>2 DEF Shapes
<1> QED BY <1>2, <1>3

(* A context with another canvas.                                           *)
LEMMA CanvasType ==
  ASSUME NEW S \in SUBSET ShapeSet, NEW f \in [S -> Styles]
  PROVE  f \in Canvases
  BY DEF Canvases

(* A new context draws nothing yet.                                         *)
LEMMA BlankIs ==
  /\ Blank \in Contexts /\ Shapes(Blank) = {} /\ Nothing \in Canvases
  /\ Blank.fill = Black /\ Blank.stroke = Black /\ Blank.canvas = Nothing
  /\ Blank.lines = {} /\ Blank.first = NoPoint /\ Blank.last = NoPoint
  /\ Blank.sized = FALSE
<1>1. Nothing \in [{} -> Styles] /\ DOMAIN Nothing = {}
  BY DEF Nothing
<1>2. Nothing \in Canvases
  BY <1>1, CanvasType
<1> QED BY <1>1, <1>2 DEF Blank, Contexts, Styles, Points, Shapes

(* What is painted covers what was there; nothing else is painted over.     *)
LEMMA PaintedIs ==
  ASSUME NEW c \in Contexts, NEW S \in SUBSET ShapeSet, NEW style \in Styles
  PROVE  LET d == Painted(c, S, style)
         IN Over(c, d, S, style) /\ SamePath(c, d) /\ SameStyle(c, d)
<1> DEFINE d == Painted(c, S, style)
           T == S \cup Shapes(c)
           f == [s \in T |-> IF s \in S THEN style ELSE c.canvas[s]]
<1>1. d = [c EXCEPT !.canvas = f]
  BY DEF Painted, Shapes
<1>3. f \in [T -> Styles] /\ T \in SUBSET ShapeSet
  BY CanvasShapes
<1>4. f \in Canvases
  BY <1>3, CanvasType
<1>7. \A s \in T : f[s] = IF s \in S THEN style ELSE c.canvas[s]
  OBVIOUS
<1> HIDE DEF f
<1>5. d \in Contexts /\ d.canvas = f
  BY <1>1, <1>4 DEF Contexts
<1>6. Shapes(d) = T
  BY <1>3, <1>5 DEF Shapes
<1>8. /\ d.fill = c.fill /\ d.stroke = c.stroke /\ d.lines = c.lines
      /\ d.first = c.first /\ d.last = c.last /\ d.sized = c.sized
  BY <1>1 DEF Contexts
<1> HIDE DEF d
<1> QED BY <1>5, <1>6, <1>7, <1>8 DEF d, Over, SamePath, SameStyle

(* A path begun anew, and moved to a point.                                 *)
LEMMA MovedIs ==
  ASSUME NEW c \in Contexts
  PROVE  /\ LET d == BeginPath(c)
            IN /\ d \in Contexts /\ d.lines = {}
               /\ d.fill = c.fill /\ d.stroke = c.stroke
               /\ d.canvas = c.canvas /\ d.sized = c.sized
         /\ \A p \in Points :
              LET d == MoveTo(c, p)
              IN /\ d \in Contexts /\ d.first = p /\ d.last = p
                 /\ d.fill = c.fill /\ d.stroke = c.stroke /\ d.lines = c.lines
                 /\ d.canvas = c.canvas /\ d.sized = c.sized
<1> DEFINE b == BeginPath(c)
<1>1. /\ b = [c EXCEPT !.lines = {}, !.first = NoPoint, !.last = NoPoint]
      /\ NoPoint \in Points /\ {} \in SUBSET SUBSET Points
  BY DEF BeginPath, Points
<1> HIDE DEF b
<1>2. /\ b \in Contexts /\ b.lines = {}
      /\ b.fill = c.fill /\ b.stroke = c.stroke
      /\ b.canvas = c.canvas /\ b.sized = c.sized
  BY <1>1 DEF Contexts
<1>3. ASSUME NEW p \in Points
      PROVE  LET d == MoveTo(c, p)
             IN /\ d \in Contexts /\ d.first = p /\ d.last = p
                /\ d.fill = c.fill /\ d.stroke = c.stroke /\ d.lines = c.lines
                /\ d.canvas = c.canvas /\ d.sized = c.sized
  <2> DEFINE d == MoveTo(c, p)
  <2>1. d = [c EXCEPT !.first = p, !.last = p]
    BY DEF MoveTo
  <2> HIDE DEF d
  <2>2. /\ d \in Contexts /\ d.first = p /\ d.last = p
        /\ d.fill = c.fill /\ d.stroke = c.stroke /\ d.lines = c.lines
        /\ d.canvas = c.canvas /\ d.sized = c.sized
    BY <2>1 DEF Contexts
  <2> QED BY <2>2 DEF d
<1> QED BY <1>2, <1>3 DEF b

(* A line more of the path, or where it begins.                             *)
LEMMA LineToIs ==
  ASSUME NEW c \in Contexts, NEW p \in Points
  PROVE  LET d == LineTo(c, p)
         IN /\ d \in Contexts /\ Further(c, d, p) /\ SameStyle(c, d)
            /\ d.canvas = c.canvas
<1> DEFINE d == LineTo(c, p)
           n == c.lines \cup ({{c.last, p}} \ {{p}})
<1>1. c.last \in Points /\ c.lines \in SUBSET SUBSET Points
  BY DEF Contexts
<1>2. n \in SUBSET SUBSET Points
  BY <1>1
<1>3. CASE c.last = NoPoint
  <2>1. d = [c EXCEPT !.first = p, !.last = p]
    BY <1>3 DEF LineTo, MoveTo
  <2> HIDE DEF d
  <2>2. /\ d \in Contexts /\ d.last = p /\ d.first = p /\ d.lines = c.lines
        /\ d.fill = c.fill /\ d.stroke = c.stroke
        /\ d.canvas = c.canvas /\ d.sized = c.sized
    BY <2>1 DEF Contexts
  <2> QED BY <1>3, <2>2 DEF d, Further, SameStyle
<1>4. CASE c.last # NoPoint
  <2>1. d = [c EXCEPT !.lines = n, !.last = p]
    BY <1>4 DEF LineTo
  <2> HIDE DEF n, d
  <2>2. /\ d \in Contexts /\ d.last = p /\ d.first = c.first /\ d.lines = n
        /\ d.fill = c.fill /\ d.stroke = c.stroke
        /\ d.canvas = c.canvas /\ d.sized = c.sized
    BY <1>2, <2>1 DEF Contexts
  <2> QED BY <1>4, <2>2 DEF n, d, Further, SameStyle
<1> QED BY <1>3, <1>4

(* A line drawn, with the whole path.                                       *)
LEMMA StrokeLineIs ==
  ASSUME NEW c \in Contexts, NEW p \in Points
  PROVE  LET d == Stroke(LineTo(c, p))
         IN /\ Over(c, d, Lined(d.lines), c.stroke) /\ Further(c, d, p)
            /\ d.sized = c.sized /\ d.stroke = c.stroke
<1> DEFINE e == LineTo(c, p)
           d == Stroke(e)
<1>1. /\ e \in Contexts /\ Further(c, e, p)
      /\ e.stroke = c.stroke /\ e.canvas = c.canvas /\ e.sized = c.sized
  BY LineToIs DEF SameStyle
<1> HIDE DEF e
<1>2. /\ e.lines \in SUBSET SUBSET Points /\ e.stroke \in Styles
      /\ Shapes(e) = Shapes(c)
  BY <1>1 DEF Contexts, Shapes
<1>3. Lined(e.lines) \in SUBSET ShapeSet
  BY <1>2 DEF Lined, ShapeSet
<1>4. d = Painted(e, Lined(e.lines), e.stroke)
  BY DEF Stroke, Lined
<1> HIDE DEF d
<1>5. Over(e, d, Lined(e.lines), e.stroke) /\ SamePath(e, d) /\ SameStyle(e, d)
  BY <1>1, <1>2, <1>3, <1>4, PaintedIs
<1>6. Over(c, d, Lined(d.lines), c.stroke)
  BY <1>1, <1>2, <1>5 DEF Over, SamePath
<1>7. Further(c, d, p)
  BY <1>1, <1>5 DEF Further, SamePath
<1> QED BY <1>1, <1>5, <1>6, <1>7 DEF d, e, SameStyle

(* The presenter's line, in the colour that is picked.                      *)
LEMMA PenMovesIs ==
  ASSUME NEW c \in Contexts, NEW p \in Points, NEW col \in Styles
  PROVE  LET d == Stroke(LineTo([c EXCEPT !.stroke = col], p))
         IN Over(c, d, Lined(d.lines), col) /\ Further(c, d, p)
<1> DEFINE e == [c EXCEPT !.stroke = col]
           d == Stroke(LineTo(e, p))
<1>1. /\ e \in Contexts /\ e.stroke = col /\ e.canvas = c.canvas
      /\ e.lines = c.lines /\ e.first = c.first /\ e.last = c.last
  BY DEF Contexts
<1> HIDE DEF e
<1>2. Over(e, d, Lined(d.lines), e.stroke) /\ Further(e, d, p)
  BY <1>1, StrokeLineIs
<1> HIDE DEF d
<1>3. Over(c, d, Lined(d.lines), col) /\ Further(c, d, p)
  BY <1>1, <1>2 DEF Over, Further, Shapes
<1> QED BY <1>3 DEF d, e

(* A path that begins and ends at p.                                        *)
AtPoint(d, p) == d.lines = {} /\ d.first = p /\ d.last = p

(* The dot of a stroke, and where its path begins.                          *)
LEMMA DotIs ==
  ASSUME NEW c \in Contexts, NEW p \in Points
  PROVE  LET d == FillRect(MoveTo(c, p), p)
         IN /\ Over(c, d, {<<"dot", p>>}, c.fill)
            /\ d.first = p /\ d.last = p /\ d.lines = c.lines
            /\ d.sized = c.sized /\ d.stroke = c.stroke
<1> DEFINE e == MoveTo(c, p)
           d == FillRect(e, p)
<1>1. /\ e \in Contexts /\ e.fill = c.fill /\ e.stroke = c.stroke
      /\ e.canvas = c.canvas /\ e.sized = c.sized /\ e.lines = c.lines
      /\ e.first = p /\ e.last = p
  BY MovedIs
<1> HIDE DEF e
<1>2. e.fill \in Styles /\ {<<"dot", p>>} \in SUBSET ShapeSet
  BY <1>1 DEF Contexts, ShapeSet
<1>3. d = Painted(e, {<<"dot", p>>}, e.fill)
  BY DEF FillRect
<1> HIDE DEF d
<1>4. Over(e, d, {<<"dot", p>>}, e.fill) /\ SamePath(e, d) /\ SameStyle(e, d)
  BY <1>1, <1>2, <1>3, PaintedIs
<1>5. Over(c, d, {<<"dot", p>>}, c.fill)
  BY <1>1, <1>4 DEF Over, Shapes
<1> QED BY <1>1, <1>4, <1>5 DEF d, e, SamePath, SameStyle

(* The presenter's dot.                                                     *)
LEMMA PenDownIs ==
  ASSUME NEW c \in Contexts, NEW p \in Points, NEW col \in Styles
  PROVE  LET d == FillRect([MoveTo(BeginPath(c), p) EXCEPT !.fill = col], p)
         IN Over(c, d, {<<"dot", p>>}, col) /\ AtPoint(d, p)
<1> DEFINE b == [BeginPath(c) EXCEPT !.fill = col]
           e == [MoveTo(BeginPath(c), p) EXCEPT !.fill = col]
           d == FillRect(e, p)
<1>1. BeginPath(c) \in Contexts /\ BeginPath(c).canvas = c.canvas /\ BeginPath(c).lines = {}
  BY MovedIs
<1>2. b \in Contexts /\ b.fill = col /\ b.canvas = c.canvas /\ b.lines = {}
  BY <1>1 DEF Contexts
<1>3. e = MoveTo(b, p)
  BY <1>1 DEF MoveTo, Contexts
<1> HIDE DEF b, e
<1>4. /\ Over(b, d, {<<"dot", p>>}, b.fill)
      /\ d.first = p /\ d.last = p /\ d.lines = b.lines
  BY <1>2, <1>3, DotIs
<1> HIDE DEF d
<1>5. Over(c, d, {<<"dot", p>>}, col) /\ AtPoint(d, p)
  BY <1>2, <1>4 DEF Over, AtPoint, Shapes
<1> QED BY <1>5 DEF d, e

(* u with a dot at p, and a path that begins there.                         *)
DotDrawn(u, d, p, col) ==
  /\ d \in Contexts /\ AtPoint(d, p) /\ d.sized
  /\ u.sized => Over(u, d, {<<"dot", p>>}, col) /\ d.stroke = col
  /\ ~u.sized => Shapes(d) = {<<"dot", p>>}

(* The viewer's dot: in black, on an empty canvas, if it is the first.      *)
LEMMA BegpathIs ==
  ASSUME NEW v \in Contexts, NEW x \in Word, NEW y \in Word, NEW col \in Word,
         NEW cmd, cmd[3] = col, cmd[6] = x, cmd[7] = y
  PROVE  DotDrawn(v, Begpath(v, cmd), <<x, y>>, col)
<1> DEFINE p == <<x, y>>
           b == [BeginPath(v) EXCEPT !.fill = cmd[3], !.stroke = cmd[3]]
           e == Resized(b)
           d == FillRect(MoveTo(e, p), p)
<1>1. /\ BeginPath(v) \in Contexts /\ BeginPath(v).canvas = v.canvas
      /\ BeginPath(v).lines = {} /\ BeginPath(v).sized = v.sized
  BY MovedIs
<1>2. /\ b \in Contexts /\ b.fill = col /\ b.stroke = col /\ b.canvas = v.canvas
      /\ b.lines = {} /\ b.sized = v.sized
  BY <1>1 DEF Contexts, Styles
<1>3. p = <<x, y>> /\ p \in Points
  BY DEF Points
<1>4. Begpath(v, cmd) = d
  BY <1>3 DEF Begpath, PastSize
<1> HIDE DEF b, p
<1>5. /\ e \in Contexts /\ e.lines = {} /\ e.sized = TRUE
      /\ v.sized => e = b
      /\ ~v.sized => Shapes(e) = {}
  <2>1. CASE v.sized
    BY <1>2, <2>1 DEF Resized, Contexts
  <2>2. CASE ~v.sized
    <3>1. e = [Blank EXCEPT !.sized = TRUE]
      BY <1>2, <2>2 DEF Resized
    <3>2. e \in Contexts /\ e.lines = {} /\ e.sized = TRUE /\ e.canvas = Blank.canvas
      BY <3>1, BlankIs DEF Contexts
    <3> QED BY <2>2, <3>2, BlankIs DEF Shapes
  <2> QED BY <2>1, <2>2
<1> HIDE DEF e
<1>6. /\ Over(e, d, {<<"dot", p>>}, e.fill)
      /\ d.first = p /\ d.last = p /\ d.lines = e.lines
      /\ d.sized = e.sized /\ d.stroke = e.stroke
  BY <1>3, <1>5, DotIs
<1> HIDE DEF d
<1>7. d \in Contexts /\ AtPoint(d, p) /\ d.sized
  BY <1>5, <1>6 DEF AtPoint, Over
<1>8. ASSUME v.sized PROVE Over(v, d, {<<"dot", p>>}, col) /\ d.stroke = col
  BY <1>2, <1>5, <1>6, <1>8 DEF Over, Shapes
<1>9. ~v.sized => Shapes(d) = {<<"dot", p>>}
  BY <1>5, <1>6 DEF Over
<1> QED BY <1>4, <1>7, <1>8, <1>9 DEF DotDrawn, p

(* The end of a path leads back to its beginning, and does not show.        *)
LEMMA ClosePathIs ==
  ASSUME NEW c \in Contexts
  PROVE  LET d == ClosePath(c)
         IN /\ d \in Contexts
            /\ c.last = NoPoint => d = c
            /\ c.last # NoPoint => Further(c, d, c.first)
            /\ d.first = c.first /\ d.canvas = c.canvas /\ d.sized = c.sized
<1>1. c.first \in Points
  BY DEF Contexts
<1>2. CASE c.last = NoPoint
  BY <1>2 DEF ClosePath
<1>3. CASE c.last # NoPoint
  <2>1. ClosePath(c) = LineTo(c, c.first)
    BY <1>3 DEF ClosePath
  <2> DEFINE d == LineTo(c, c.first)
  <2>2. d \in Contexts /\ Further(c, d, c.first) /\ SameStyle(c, d) /\ d.canvas = c.canvas
    BY <1>1, LineToIs
  <2>3. d.first = c.first /\ d.sized = c.sized
    BY <1>3, <2>2 DEF Further, SameStyle
  <2> QED BY <1>3, <2>1, <2>2, <2>3
<1> QED BY <1>2, <1>3

(* A canvas that is cleared shows nothing; its path is kept.                *)
LEMMA ClearRectIs ==
  ASSUME NEW c \in Contexts
  PROVE  LET d == ClearRect(c)
         IN /\ d \in Contexts /\ d.canvas = Nothing /\ Shapes(d) = {}
            /\ d.lines = c.lines /\ d.first = c.first /\ d.last = c.last
            /\ d.sized = c.sized
<1>1. ClearRect(c) = [c EXCEPT !.canvas = Nothing]
  BY DEF ClearRect
<1>2. Nothing \in Canvases /\ DOMAIN Nothing = {}
  BY BlankIs DEF Nothing
<1> DEFINE d == ClearRect(c)
<1> HIDE DEF d
<1>3. /\ d \in Contexts /\ d.canvas = Nothing
      /\ d.lines = c.lines /\ d.first = c.first /\ d.last = c.last
      /\ d.sized = c.sized
  BY <1>1, <1>2 DEF Contexts, d
<1> QED BY <1>2, <1>3 DEF d, Shapes

-----------------------------------------------------------------------------
(* Reading a text word by word.                                             *)

Reading == INSTANCE Folding WITH Op <- Read

(* What is read of the words s, in a context v.                             *)
ReadIn(v, s) == FoldLeft(Read, Begin(v), s)

(* A text that is read to the end of its last command, in any context.      *)
Whole(text) ==
  \A v \in Contexts : /\ ReadIn(v, text) = Begin(ParseRequest(v, text))
                      /\ ParseRequest(v, text) \in Contexts

(* A text is read word by word.                                             *)
LEMMA ReadSteps ==
  ASSUME NEW v
  PROVE  /\ ReadIn(v, << >>) = Begin(v)
         /\ \A s \in Seq(Word), w \in Word :
              ReadIn(v, Append(s, w)) = Read(ReadIn(v, s), w)
<1>1. \A s : ReadIn(v, s) = Reading!Fold(Begin(v), s)
  BY DEF ReadIn, FoldLeft, MapThenFoldSet, Max, Reading!Fold,
         Reading!FoldLeft, Reading!MapThenFoldSet, Reading!Max, Read
<1>2. Reading!Fold(Begin(v), << >>) = Begin(v)
  BY Reading!FoldEmpty
<1>3. ASSUME NEW s \in Seq(Word), NEW w \in Word
      PROVE  Reading!Fold(Begin(v), Append(s, w)) = Read(Reading!Fold(Begin(v), s), w)
  BY Reading!FoldAppend
<1> QED BY <1>1, <1>2, <1>3

(* Of the words s some are left that begin a command, c.                    *)
Left(v, s, u, c) == ReadIn(v, s) = [view |-> u, cmd |-> c]

(* k words are left, of a command that begins with this one.                *)
Held(v, s, u, c, k, word) ==
  /\ s \in Seq(Word) /\ c \in Seq(Word) /\ Len(c) = k /\ c[1] = word
  /\ Left(v, s, u, c)

(* A sequence and one element more.                                         *)
LEMMA OneLonger ==
  ASSUME NEW s \in Seq(Word), NEW w \in Word, NEW k \in Nat, Len(s) = k
  PROVE  /\ Append(s, w) \in Seq(Word) /\ Len(Append(s, w)) = k + 1
         /\ Append(s, w)[k + 1] = w
         /\ \A i \in 1 .. k : Append(s, w)[i] = s[i]
  OBVIOUS

(* A word of a command that needs more.                                     *)
LEMMA ReadsMore ==
  ASSUME NEW v, NEW u, NEW s, NEW c, NEW k \in Nat, NEW word, NEW w \in Word,
         NEW m \in Nat, m = k + 1,
         Held(v, s, u, c, k, word), 0 < k, m < Words(u, word)
  PROVE  Held(v, Append(s, w), u, Append(c, w), m, word)
<1>1. /\ s \in Seq(Word) /\ c \in Seq(Word) /\ Len(c) = k /\ c[1] = word
      /\ Left(v, s, u, c)
  BY DEF Held
<1>2. /\ Append(s, w) \in Seq(Word) /\ Append(c, w) \in Seq(Word)
      /\ Len(Append(c, w)) = m /\ Append(c, w)[1] = word
  <2>1. 1 \in 1 .. k
    OBVIOUS
  <2> QED BY <1>1, <2>1, OneLonger
<1>3. ReadIn(v, Append(s, w)) = Read([view |-> u, cmd |-> c], w)
  BY <1>1, ReadSteps DEF Left
<1>4. Len(Append(c, w)) < Words(u, Append(c, w)[1])
  BY <1>2
<1>5. Left(v, Append(s, w), u, Append(c, w))
  BY <1>3, <1>4 DEF Read, Left
<1> QED BY <1>2, <1>5 DEF Held

(* The first word of a command that needs more.                             *)
LEMMA ReadsFirst ==
  ASSUME NEW v \in Contexts, NEW s \in Seq(Word), Whole(s), NEW w \in Word,
         1 < Words(ParseRequest(v, s), w)
  PROVE  Held(v, Append(s, w), ParseRequest(v, s), Append(<< >>, w), 1, w)
<1> DEFINE u == ParseRequest(v, s)
           n == Append(<< >>, w)
<1>1. Append(s, w) \in Seq(Word) /\ n \in Seq(Word) /\ Len(n) = 1 /\ n[1] = w
  OBVIOUS
<1>2. ReadIn(v, Append(s, w)) = Read([view |-> u, cmd |-> << >>], w)
  <2>1. ReadIn(v, s) = [view |-> u, cmd |-> << >>]
    BY DEF Whole, Begin
  <2> QED BY <2>1, ReadSteps
<1>3. Len(n) < Words(u, n[1])
  BY <1>1
<1>4. Left(v, Append(s, w), u, n)
  BY <1>2, <1>3 DEF Read, Left
<1> QED BY <1>1, <1>4 DEF Held

(* The last word of a command.                                              *)
LEMMA ReadsLast ==
  ASSUME NEW v, NEW u, NEW s, NEW c, NEW k \in Nat, NEW word, NEW w \in Word,
         Held(v, s, u, c, k, word), 0 < k, k + 1 = Words(u, word)
  PROVE  ReadIn(v, Append(s, w)) = Begin(Command(u, Append(c, w)))
<1>1. /\ s \in Seq(Word) /\ c \in Seq(Word) /\ Len(c) = k /\ c[1] = word
      /\ Left(v, s, u, c)
  BY DEF Held
<1>2. Len(Append(c, w)) = k + 1 /\ Append(c, w)[1] = word
  <2>1. 1 \in 1 .. k
    OBVIOUS
  <2> QED BY <1>1, <2>1, OneLonger
<1>3. ReadIn(v, Append(s, w)) = Read([view |-> u, cmd |-> c], w)
  BY <1>1, ReadSteps DEF Left
<1>4. ~(Len(Append(c, w)) < Words(u, Append(c, w)[1]))
  BY <1>2
<1> QED BY <1>3, <1>4 DEF Read, Begin

(* What was read ends a command.                                            *)
LEMMA ParsedIs ==
  ASSUME NEW v, NEW t, NEW u, ReadIn(v, t) = Begin(u)
  PROVE  ParseRequest(v, t) = u
  BY DEF ReadIn, ParseRequest, Begin

(* Nothing is a whole text.                                                 *)
LEMMA WholeEmpty ==
  Whole(<< >>) /\ \A v \in Contexts : ParseRequest(v, << >>) = v
<1> SUFFICES ASSUME NEW v \in Contexts
             PROVE  ReadIn(v, << >>) = Begin(v) /\ ParseRequest(v, << >>) = v
  BY DEF Whole
<1> QED BY ReadSteps, ParsedIs

(* Commands of one word.                                                    *)
LEMMA ReadsOne ==
  ASSUME NEW s \in Seq(Word), Whole(s)
  PROVE  /\ Whole(Append(s, "endpath")) /\ Whole(Append(s, "clear"))
         /\ \A v \in Contexts :
              /\ ParseRequest(v, Append(s, "endpath")) = ClosePath(ParseRequest(v, s))
              /\ ParseRequest(v, Append(s, "clear")) = ClearRect(ParseRequest(v, s))
<1>1. SUFFICES ASSUME NEW v \in Contexts, NEW w \in {"endpath", "clear"}
               PROVE  ReadIn(v, Append(s, w)) = Begin(Command(ParseRequest(v, s), <<w>>))
  <2>1. ASSUME NEW v \in Contexts
        PROVE  /\ Command(ParseRequest(v, s), <<"endpath">>) = ClosePath(ParseRequest(v, s))
               /\ Command(ParseRequest(v, s), <<"clear">>) = ClearRect(ParseRequest(v, s))
               /\ ClosePath(ParseRequest(v, s)) \in Contexts
               /\ ClearRect(ParseRequest(v, s)) \in Contexts
    <3>1. ParseRequest(v, s) \in Contexts
      BY DEF Whole
    <3>2. /\ Command(ParseRequest(v, s), <<"endpath">>) = ClosePath(ParseRequest(v, s))
          /\ Command(ParseRequest(v, s), <<"clear">>) = ClearRect(ParseRequest(v, s))
      BY DEF Command
    <3> QED BY <3>1, <3>2, ClosePathIs, ClearRectIs
  <2>2. ASSUME NEW v \in Contexts
        PROVE  /\ ReadIn(v, Append(s, "endpath")) = Begin(ClosePath(ParseRequest(v, s)))
               /\ ReadIn(v, Append(s, "clear")) = Begin(ClearRect(ParseRequest(v, s)))
    BY <1>1, <2>1
  <2>3. ASSUME NEW v \in Contexts
        PROVE  /\ ParseRequest(v, Append(s, "endpath")) = ClosePath(ParseRequest(v, s))
               /\ ParseRequest(v, Append(s, "clear")) = ClearRect(ParseRequest(v, s))
    BY <2>2, ParsedIs
  <2> QED BY <2>1, <2>2, <2>3 DEF Whole
<1> DEFINE u == ParseRequest(v, s)
           n == Append(<< >>, w)
<1>2. w \in Word /\ ReadIn(v, s) = [view |-> u, cmd |-> << >>]
  BY DEF Word, Whole, Begin
<1>3. ReadIn(v, Append(s, w)) = Read([view |-> u, cmd |-> << >>], w)
  BY <1>2, ReadSteps
<1>4. n = <<w>> /\ n[1] = w /\ Len(n) = 1
  OBVIOUS
<1>5. ~(Len(n) < Words(u, n[1]))
  BY <1>4 DEF Words
<1>6. ReadIn(v, Append(s, w)) = Begin(Command(u, n))
  BY <1>3, <1>5 DEF Read, Begin
<1> QED BY <1>4, <1>6

(* What the mouse handlers add to a text.                                   *)
AddPoint(s, x, y) == s \o <<"point">> \o <<x, y>>
AddPath(s, col, x, y) ==
  s \o <<"begpath", "tool", col, "width", "height">> \o <<x, y>> \o <<"radius">>

(* A point.                                                                 *)
LEMMA ReadsPoint ==
  ASSUME NEW s \in Seq(Word), Whole(s), NEW x \in Word, NEW y \in Word,
         NEW t, t = AddPoint(s, x, y)
  PROVE  /\ t \in Seq(Word) /\ Whole(t)
         /\ t # << >> /\ t[1] = IF s = << >> THEN "point" ELSE s[1]
         /\ \A v \in Contexts :
              ParseRequest(v, t) = Stroke(LineTo(ParseRequest(v, s), <<x, y>>))
<1> DEFINE s1 == Append(s, "point")
           s2 == Append(s1, x)
           c1 == Append(<< >>, "point")
           c2 == Append(c1, x)
           c3 == Append(c2, y)
<1>1. "point" \in Word /\ <<x, y>> \in Points
  BY DEF Word, Points
<1>2. t = Append(s2, y)
  BY <1>1 DEF AddPoint
<1>3. s1 \in Seq(Word) /\ s2 \in Seq(Word) /\ Append(s2, y) \in Seq(Word)
  BY <1>1
<1>4. c3[1] = "point" /\ c3[2] = x /\ c3[3] = y
  BY <1>1
<1>5. t # << >> /\ t[1] = IF s = << >> THEN "point" ELSE s[1]
  BY <1>1, <1>2
<1> HIDE DEF s1, s2, c1, c2, c3
<1>6. ASSUME NEW v \in Contexts
      PROVE  ReadIn(v, t) = Begin(Stroke(LineTo(ParseRequest(v, s), <<x, y>>)))
  <2> DEFINE u == ParseRequest(v, s)
  <2>1. Words(u, "point") = 3
    BY DEF Words
  <2>2. Held(v, s1, u, c1, 1, "point")
    BY <1>1, <2>1, ReadsFirst DEF s1, c1
  <2> HIDE DEF u
  <2>3. ASSUME NEW t1, NEW d1, NEW k \in Nat, 0 < k, k + 1 < 3,
               Held(v, t1, u, d1, k, "point"), NEW w \in Word
         PROVE  Held(v, Append(t1, w), u, Append(d1, w), k + 1, "point")
    BY <2>1, <2>3, ReadsMore
  <2>4. Held(v, s2, u, c2, 2, "point")
    BY <2>2, <2>3 DEF s2, c2
  <2>5. ReadIn(v, Append(s2, y)) = Begin(Command(u, c3))
    BY <2>1, <2>4, ReadsLast DEF c3
  <2>6. Command(u, c3) = Stroke(LineTo(u, <<x, y>>))
    BY <1>4 DEF Command
  <2> QED BY <1>2, <2>5, <2>6 DEF u
<1>7. ASSUME NEW v \in Contexts
      PROVE  /\ ParseRequest(v, t) = Stroke(LineTo(ParseRequest(v, s), <<x, y>>))
             /\ Stroke(LineTo(ParseRequest(v, s), <<x, y>>)) \in Contexts
  <2>1. ParseRequest(v, s) \in Contexts
    BY DEF Whole
  <2>2. ParseRequest(v, t) = Stroke(LineTo(ParseRequest(v, s), <<x, y>>))
    BY <1>6, ParsedIs
  <2> DEFINE u == ParseRequest(v, s)
             d == Stroke(LineTo(u, <<x, y>>))
  <2>3. Over(u, d, Lined(d.lines), u.stroke)
    BY <1>1, <2>1, StrokeLineIs
  <2>4. d \in Contexts
    BY <2>3 DEF Over
  <2> QED BY <2>2, <2>4
<1> QED BY <1>2, <1>3, <1>5, <1>6, <1>7 DEF Whole

(* What the words are that were added one by one.                           *)
LEMMA EightWords ==
  ASSUME NEW a \in Word, NEW b \in Word, NEW c \in Word, NEW d \in Word,
         NEW e \in Word, NEW f \in Word, NEW g \in Word, NEW h \in Word
  PROVE  LET cmd == Append(Append(Append(Append(Append(Append(Append(Append(
                      << >>, a), b), c), d), e), f), g), h)
         IN cmd[1] = a /\ cmd[3] = c /\ cmd[6] = f /\ cmd[7] = g
  OBVIOUS

(* What t has more than s begins a path at x, y.                            *)
Begins(s, t, col, x, y) ==
  \E cmd : /\ cmd[3] = col /\ cmd[6] = x /\ cmd[7] = y
           /\ \A v \in Contexts :
                ParseRequest(v, t) = Begpath(ParseRequest(v, s), cmd)

(* And t is a whole text.                                                   *)
PathBegun(s, t, col, x, y) ==
  /\ t \in Seq(Word) /\ Whole(t)
  /\ t # << >> /\ t[1] = IF s = << >> THEN "begpath" ELSE s[1]
  /\ Begins(s, t, col, x, y)

(* The beginning of a path: the words after the size are its point.         *)
LEMMA ReadsBegpath ==
  ASSUME NEW s \in Seq(Word), Whole(s), NEW col \in Word, NEW x \in Word, NEW y \in Word
  PROVE  PathBegun(s, AddPath(s, col, x, y), col, x, y)
<1> DEFINE t == AddPath(s, col, x, y)
           s1 == Append(s, "begpath")
           s2 == Append(s1, "tool")
           s3 == Append(s2, col)
           s4 == Append(s3, "width")
           s5 == Append(s4, "height")
           s6 == Append(s5, x)
           s7 == Append(s6, y)
           s8 == Append(s7, "radius")
           c1 == Append(<< >>, "begpath")
           c2 == Append(c1, "tool")
           c3 == Append(c2, col)
           c4 == Append(c3, "width")
           c5 == Append(c4, "height")
           c6 == Append(c5, x)
           c7 == Append(c6, y)
           c8 == Append(c7, "radius")
<1>1. /\ "begpath" \in Word /\ "tool" \in Word /\ "width" \in Word
      /\ "height" \in Word /\ "radius" \in Word
  BY DEF Word
<1>2. t = s8
  <2>1. s \o <<"begpath", "tool", col, "width", "height">> = s5
    BY <1>1
  <2>2. s5 \in Seq(Word)
    BY <1>1
  <2>3. t = s5 \o <<x, y>> \o <<"radius">>
    BY <2>1 DEF AddPath
  <2> HIDE DEF s5
  <2> QED BY <1>1, <2>2, <2>3
<1> HIDE DEF t
<1>3. /\ s1 \in Seq(Word) /\ s2 \in Seq(Word) /\ s3 \in Seq(Word) /\ s4 \in Seq(Word)
      /\ s5 \in Seq(Word) /\ s6 \in Seq(Word) /\ s7 \in Seq(Word) /\ s8 \in Seq(Word)
  BY <1>1
<1>6. c8[1] = "begpath" /\ c8[3] = col /\ c8[6] = x /\ c8[7] = y
  BY <1>1, EightWords
<1> HIDE DEF c1, c2, c3, c4, c5, c6, c7, c8
<1>7. t # << >> /\ t[1] = IF s = << >> THEN "begpath" ELSE s[1]
  <2> HIDE DEF s1, s2, s3, s4, s5, s6, s7, s8
  <2>1. Len(s1) > 0 /\ s1[1] = IF s = << >> THEN "begpath" ELSE s[1]
    BY <1>1 DEF s1
  <2>2. Len(s2) > 0 /\ s2[1] = s1[1]
    BY <1>1, <1>3, <2>1 DEF s2
  <2>3. Len(s3) > 0 /\ s3[1] = s1[1]
    BY <1>3, <2>2 DEF s3
  <2>4. Len(s4) > 0 /\ s4[1] = s1[1]
    BY <1>1, <1>3, <2>3 DEF s4
  <2>5. Len(s5) > 0 /\ s5[1] = s1[1]
    BY <1>1, <1>3, <2>4 DEF s5
  <2>6. Len(s6) > 0 /\ s6[1] = s1[1]
    BY <1>3, <2>5 DEF s6
  <2>7. Len(s7) > 0 /\ s7[1] = s1[1]
    BY <1>3, <2>6 DEF s7
  <2>8. Len(s8) > 0 /\ s8[1] = s1[1]
    BY <1>1, <1>3, <2>7 DEF s8
  <2> QED BY <1>2, <2>1, <2>8
<1> HIDE DEF s1, s2, s3, s4, s5, s6, s7, s8
<1>8. ASSUME NEW v \in Contexts
      PROVE  ReadIn(v, t) = Begin(Begpath(ParseRequest(v, s), c8))
  <2> DEFINE u == ParseRequest(v, s)
  <2>1. Words(u, "begpath") = 8
    BY DEF Words, PastSize
  <2>2. Held(v, s1, u, c1, 1, "begpath")
    BY <1>1, <2>1, ReadsFirst DEF s1, c1
  <2> HIDE DEF u
  <2>3. ASSUME NEW t1, NEW d1, NEW k \in 1 .. 6,
               Held(v, t1, u, d1, k, "begpath"), NEW w \in Word
        PROVE  Held(v, Append(t1, w), u, Append(d1, w), k + 1, "begpath")
    BY <2>1, <2>3, ReadsMore
  <2>4. Held(v, s2, u, c2, 2, "begpath")
    BY <1>1, <2>3, <2>2, ReadsMore DEF s2, c2
  <2>5. Held(v, s3, u, c3, 3, "begpath")
    BY <2>3, <2>4, ReadsMore DEF s3, c3
  <2>6. Held(v, s4, u, c4, 4, "begpath")
    BY <1>1, <2>3, <2>5, ReadsMore DEF s4, c4
  <2>7. Held(v, s5, u, c5, 5, "begpath")
    BY <1>1, <2>3, <2>6, ReadsMore DEF s5, c5
  <2>8. Held(v, s6, u, c6, 6, "begpath")
    BY <2>3, <2>7, ReadsMore DEF s6, c6
  <2>9. Held(v, s7, u, c7, 7, "begpath")
    BY <2>3, <2>8, ReadsMore DEF s7, c7
  <2>10. ReadIn(v, s8) = Begin(Command(u, c8))
    BY <1>1, <2>1, <2>9, ReadsLast, 7 + 1 = 8 DEF s8, c8
  <2>11. Command(u, c8) = Begpath(u, c8)
    BY <1>6 DEF Command
  <2> QED BY <1>2, <2>10, <2>11 DEF u
<1>9. ASSUME NEW v \in Contexts
      PROVE  /\ ParseRequest(v, t) = Begpath(ParseRequest(v, s), c8)
             /\ Begpath(ParseRequest(v, s), c8) \in Contexts
  <2>1. ParseRequest(v, s) \in Contexts
    BY DEF Whole
  <2>2. ParseRequest(v, t) = Begpath(ParseRequest(v, s), c8)
    BY <1>8, ParsedIs
  <2>3. Begpath(ParseRequest(v, s), c8) \in Contexts
    <3>1. DotDrawn(ParseRequest(v, s), Begpath(ParseRequest(v, s), c8), <<x, y>>, col)
      BY <1>6, <2>1, BegpathIs
    <3> QED BY <3>1 DEF DotDrawn
  <2> QED BY <2>2, <2>3
<1>10. Whole(t)
  BY <1>8, <1>9 DEF Whole
<1>11. Begins(s, t, col, x, y)
  BY <1>6, <1>9 DEF Begins
<1> QED BY <1>2, <1>3, <1>7, <1>10, <1>11 DEF PathBegun, t

-----------------------------------------------------------------------------
(* What the viewer shows when it has heard a whole log, every batch twice.  *)

HeardTwice(v, text) == ParseRequest(ParseRequest(v, text), text)
After(l) == FoldLeft(HeardTwice, Blank, l)

Viewed == After(log)                     \* of what is posted
Ahead  == ParseRequest(Viewed, send)     \* of what is drawn, but for its end

Hearing == INSTANCE Folding WITH Op <- HeardTwice

(* A log is heard batch by batch.                                           *)
LEMMA AfterSteps ==
  /\ After(<< >>) = Blank
  /\ \A l \in Seq(Seq(Word)), t \in Seq(Word) :
       After(Append(l, t)) = HeardTwice(After(l), t)
<1>1. \A l : After(l) = Hearing!Fold(Blank, l)
  BY DEF After, FoldLeft, MapThenFoldSet, Max, Hearing!Fold,
         Hearing!FoldLeft, Hearing!MapThenFoldSet, Hearing!Max, HeardTwice
<1>2. Hearing!Fold(Blank, << >>) = Blank
  BY Hearing!FoldEmpty
<1>3. ASSUME NEW l \in Seq(Seq(Word)), NEW t \in Seq(Word)
      PROVE  Hearing!Fold(Blank, Append(l, t)) = HeardTwice(Hearing!Fold(Blank, l), t)
  BY Hearing!FoldAppend
<1> QED BY <1>1, <1>2, <1>3

Typed ==
  /\ colour \in Colours /\ isDown \in BOOLEAN /\ points \in Nat
  /\ cut \in BOOLEAN /\ torn \in BOOLEAN /\ wiped \in BOOLEAN
  /\ pen \in Contexts /\ Viewed \in Contexts
  /\ send \in Seq(Word) /\ Whole(send)
  /\ log \in Seq(Seq(Word))

(* Colours are words and styles, and the next point is one.                 *)
LEMMA InputsAre ==
  ASSUME Typed
  PROVE  /\ colour \in Word /\ colour \in Styles
         /\ ToString(points + 1) \in Word
         /\ NextPoint \in Points /\ NextPoint # NoPoint
<1>1. colour \in Word /\ points + 1 \in Nat
  BY DEF Typed, Word
<1>2. ToString(points + 1) \in Word
  BY <1>1 DEF Word
<1>3. NextPoint \in Word \X Word /\ NextPoint # << >>
  BY <1>2 DEF NextPoint
<1> QED BY <1>1, <1>2, <1>3 DEF Styles, Points, NoPoint

(* u with a line to p.                                                      *)
LineDrawn(u, d, p) ==
  /\ Over(u, d, Lined(d.lines), u.stroke) /\ Further(u, d, p)
  /\ d.sized = u.sized /\ d.stroke = u.stroke

(* A stroke begins on both sides.                                           *)
LEMMA DownIs ==
  ASSUME Typed, MouseDown
  PROVE  LET p == NextPoint
         IN /\ Over(pen, pen', {<<"dot", p>>}, colour) /\ AtPoint(pen', p)
            /\ send' \in Seq(Word) /\ Whole(send)' /\ send' # << >>
            /\ send'[1] = IF send = << >> THEN "begpath" ELSE send[1]
            /\ \A v \in Contexts :
                 DotDrawn(ParseRequest(v, send), ParseRequest(v, send'), p, colour)
<1> DEFINE p == NextPoint
           x == ToString(points + 1)
<1>1. /\ pen' = FillRect([MoveTo(BeginPath(pen), p) EXCEPT !.fill = colour], p)
      /\ send' = AddPath(send, colour, x, x)
  BY DEF MouseDown, NextPoint, AddPath
<1>2. /\ colour \in Word /\ colour \in Styles /\ x \in Word /\ p \in Points
      /\ p = <<x, x>> /\ pen \in Contexts /\ send \in Seq(Word) /\ Whole(send)
  BY InputsAre DEF Typed, NextPoint
<1> HIDE DEF p, x
<1>3. Over(pen, pen', {<<"dot", p>>}, colour) /\ AtPoint(pen', p)
  BY <1>1, <1>2, PenDownIs
<1>4. /\ send' \in Seq(Word) /\ Whole(send') /\ send' # << >>
      /\ send'[1] = IF send = << >> THEN "begpath" ELSE send[1]
      /\ Begins(send, send', colour, x, x)
  BY <1>1, <1>2, ReadsBegpath DEF PathBegun
<1>5. ASSUME NEW v \in Contexts
      PROVE  DotDrawn(ParseRequest(v, send), ParseRequest(v, send'), p, colour)
  <2>1. PICK cmd : /\ cmd[3] = colour /\ cmd[6] = x /\ cmd[7] = x
                   /\ \A w \in Contexts :
                        ParseRequest(w, send') = Begpath(ParseRequest(w, send), cmd)
    BY <1>4 DEF Begins
  <2>2. ParseRequest(v, send) \in Contexts
    BY <1>2 DEF Whole
  <2>3. ParseRequest(v, send') = Begpath(ParseRequest(v, send), cmd)
    BY <2>1
  <2>4. DotDrawn(ParseRequest(v, send), Begpath(ParseRequest(v, send), cmd),
                 <<x, x>>, colour)
    BY <1>2, <2>1, <2>2, BegpathIs
  <2> QED BY <1>2, <2>3, <2>4
<1>6. Whole(send)'
  BY <1>4 DEF Whole
<1> QED BY <1>3, <1>4, <1>5, <1>6 DEF p

(* A stroke goes on on both sides.                                          *)
LEMMA MoveIs ==
  ASSUME Typed, MouseMove
  PROVE  LET p == NextPoint
         IN /\ Over(pen, pen', Lined(pen'.lines), colour) /\ Further(pen, pen', p)
            /\ send' \in Seq(Word) /\ Whole(send)' /\ send' # << >>
            /\ send'[1] = IF send = << >> THEN "point" ELSE send[1]
            /\ \A v \in Contexts :
                 LineDrawn(ParseRequest(v, send), ParseRequest(v, send'), p)
<1> DEFINE p == NextPoint
           x == ToString(points + 1)
<1>1. /\ pen' = Stroke(LineTo([pen EXCEPT !.stroke = colour], p))
      /\ send' = AddPoint(send, x, x)
  BY DEF MouseMove, NextPoint, AddPoint
<1>2. /\ colour \in Styles /\ x \in Word /\ p \in Points
      /\ p = <<x, x>> /\ pen \in Contexts /\ send \in Seq(Word) /\ Whole(send)
  BY InputsAre DEF Typed, NextPoint
<1> HIDE DEF p, x
<1>3. Over(pen, pen', Lined(pen'.lines), colour) /\ Further(pen, pen', p)
  BY <1>1, <1>2, PenMovesIs
<1>4. /\ send' \in Seq(Word) /\ Whole(send') /\ send' # << >>
      /\ send'[1] = IF send = << >> THEN "point" ELSE send[1]
      /\ \A v \in Contexts :
           ParseRequest(v, send') = Stroke(LineTo(ParseRequest(v, send), p))
  BY <1>1, <1>2, ReadsPoint
<1>5. ASSUME NEW v \in Contexts
      PROVE  LineDrawn(ParseRequest(v, send), ParseRequest(v, send'), p)
  <2> DEFINE u == ParseRequest(v, send)
             d == Stroke(LineTo(u, p))
  <2>1. u \in Contexts /\ ParseRequest(v, send') = d
    BY <1>2, <1>4 DEF Whole
  <2> HIDE DEF u
  <2>2. /\ Over(u, d, Lined(d.lines), u.stroke) /\ Further(u, d, p)
        /\ d.sized = u.sized /\ d.stroke = u.stroke
    BY <1>2, <2>1, StrokeLineIs
  <2> HIDE DEF d
  <2> QED BY <2>1, <2>2 DEF LineDrawn, u
<1>6. Whole(send)'
  BY <1>4 DEF Whole
<1> QED BY <1>3, <1>4, <1>5, <1>6 DEF p

(* A batch is posted, and will be heard twice.                              *)
LEMMA PostedIs ==
  ASSUME Typed, NEW w \in {"endpath", "clear"}, NEW c,
         SendRequest(Append(send, w), c), named
  PROVE  LET t == Append(send, w)
         IN /\ t \in Seq(Word) /\ Whole(t) /\ log' = Append(log, t)
            /\ log' \in Seq(Seq(Word))
            /\ send' = << >> /\ Whole(send)' /\ Ahead' = Viewed'
            /\ Viewed' = ParseRequest(ParseRequest(Viewed, t), t)
            /\ Viewed' \in Contexts
            /\ pen' = c /\ cut' = cut /\ torn' = torn /\ wiped' = wiped
<1> DEFINE t == Append(send, w)
<1>1. send \in Seq(Word) /\ Whole(send) /\ log \in Seq(Seq(Word)) /\ Viewed \in Contexts
  BY DEF Typed
<1>2. w \in Word
  BY DEF Word
<1>3. t \in Seq(Word) /\ Whole(t)
  BY <1>1, <1>2, ReadsOne
<1>4. log' = Append(log, t) /\ send' = << >>
  BY DEF SendRequest
<1> HIDE DEF t
<1>5. Viewed' = ParseRequest(ParseRequest(Viewed, t), t)
  <2>1. Viewed' = After(log')
    BY DEF Viewed, After
  <2> QED BY <1>1, <1>3, <1>4, <2>1, AfterSteps DEF Viewed, HeardTwice
<1>6. Viewed' \in Contexts
  BY <1>1, <1>3, <1>5 DEF Whole
<1>7. Whole(send)' /\ Ahead' = Viewed'
  <2>1. Ahead' = ParseRequest(Viewed', send')
    BY DEF Ahead, ParseRequest
  <2> QED BY <1>4, <1>6, <2>1, WholeEmpty DEF Whole
<1>8. log' \in Seq(Seq(Word))
  BY <1>1, <1>3, <1>4
<1>9. pen' = c /\ cut' = cut /\ torn' = torn /\ wiped' = wiped
  BY DEF SendRequest, Typed
<1> QED BY <1>3, <1>4, <1>5, <1>6, <1>7, <1>8, <1>9 DEF t

-----------------------------------------------------------------------------
(* The inductive invariant.                                                 *)

(* The viewer has heard the first batches of the log, the last of them      *)
(* perhaps only once.                                                       *)
HeardTrue ==
  \E h \in 0 .. Len(log) :
    \/ heard = 2 * h /\ screen = After(SubSeq(log, 1, h))
    \/ /\ heard = 2 * h + 1 /\ h < Len(log)
       /\ screen = ParseRequest(After(SubSeq(log, 1, h)), log[h + 1])

(* Before the first stroke there is nothing; after it both have begun,      *)
(* unless its beginning was dropped, and then nothing shows.                *)
Begun ==
  /\ pen.last = NoPoint => pen.canvas = Nothing /\ send = << >> /\ ~isDown
  /\ pen.last # NoPoint => pen.first # NoPoint /\ (~cut => Ahead.sized)
  /\ ~torn /\ ~Ahead.sized => pen.canvas = Nothing
  /\ NoOrphans => Viewed.sized \/ Viewed.canvas = Nothing

(* The path of c is part of that of d, and ends where it ends.              *)
SubPath(c, d) ==
  c.lines \subseteq d.lines /\ c.first = d.first /\ c.last = d.last

(* The viewer will have every shape, and every line of the path as long as  *)
(* none of its text was dropped.                                            *)
Follows ==
  /\ ~torn => Shapes(pen) \subseteq Shapes(Ahead)
  /\ ~cut => SubPath(pen, Ahead)

(* What is drawn takes nothing from a canvas: it may be drawn again.        *)
Keeps ==
  \A v \in Contexts : v.sized =>
    /\ ParseRequest(v, send).sized
    /\ Shapes(v) \subseteq Shapes(ParseRequest(v, send))

(* What is drawn begins a path, the pen's, whatever path there was...       *)
Fresh ==
  \A v \in Contexts : /\ ParseRequest(v, send).sized
                      /\ SamePath(pen, ParseRequest(v, send))

(* ... or goes on with the path there is.                                   *)
GoesOn ==
  /\ pen.last # NoPoint
  /\ \A v \in Contexts : v.last # NoPoint =>
       LET w == ParseRequest(v, send)
       IN w.last = pen.last /\ w.first = v.first /\ v.lines \subseteq w.lines

PathTrue == send = << >> \/ Fresh \/ GoesOn

(* Every batch, also the one being drawn, begins its own path.              *)
Own == NoOrphans /\ (send # << >> => send[1] # "point")

(* What is drawn adds the shapes D, in the colours of the pen's canvas, to  *)
(* any canvas, and has added them to the pen's.                             *)
Adds(D) ==
  /\ D \subseteq Shapes(pen)
  /\ ~wiped => Shapes(pen) = Shapes(Viewed) \cup D
  /\ ~wiped /\ ~repicked =>
       \A s \in Shapes(Viewed) \ D : pen.canvas[s] = Viewed.canvas[s]
  /\ \A v \in Contexts : v.sized \/ v.canvas = Nothing =>
       LET w == ParseRequest(v, send)
       IN /\ Shapes(w) = Shapes(v) \cup D
          /\ \A s \in Shapes(v) \ D : w.canvas[s] = v.canvas[s]
          /\ v.sized /\ ~repicked =>
               /\ \A s \in D : w.canvas[s] = pen.canvas[s]
               /\ isDown => w.stroke = colour

(* Both show the same, as far as nothing was dropped.                       *)
Agree ==
  /\ ~cut => SamePath(pen, Viewed)
  /\ ~wiped => /\ Shapes(Viewed) = Shapes(pen)
               /\ ~repicked => Viewed.canvas = pen.canvas

OwnTrue ==
  Own => IF send = << >> THEN Agree ELSE Fresh /\ \E D : Adds(D)

Inv == /\ Typed /\ HeardTrue /\ Begun /\ Follows /\ Keeps
       /\ PathTrue /\ OwnTrue

-----------------------------------------------------------------------------
(* Closing a path twice is closing it once; equal paths are closed alike,   *)
(* and a path that is part of another stays so.                             *)
LEMMA ClosedPaths ==
  ASSUME NEW c \in Contexts, NEW d \in Contexts
  PROVE  /\ SamePath(ClosePath(c), ClosePath(ClosePath(c)))
         /\ SamePath(c, d) => SamePath(ClosePath(c), ClosePath(d))
         /\ SubPath(c, d) => SubPath(ClosePath(c), ClosePath(d))
<1> DEFINE e == ClosePath(c)
           f == ClosePath(d)
           g == ClosePath(e)
<1>1. /\ e \in Contexts /\ e.first = c.first
      /\ c.last = NoPoint => e = c
      /\ c.last # NoPoint => Further(c, e, c.first)
  BY ClosePathIs
<1>2. /\ f.first = d.first
      /\ d.last = NoPoint => f = d
      /\ d.last # NoPoint => Further(d, f, d.first)
  BY ClosePathIs
<1>3. /\ g.first = e.first
      /\ e.last = NoPoint => g = e
      /\ e.last # NoPoint => Further(e, g, e.first)
  BY <1>1, ClosePathIs
<1> HIDE DEF e, f, g
<1>4. SamePath(e, g)
  BY <1>1, <1>3 DEF SamePath, Further
<1>5. SamePath(c, d) => SamePath(e, f)
  BY <1>1, <1>2 DEF SamePath, Further
<1>6. SubPath(c, d) => SubPath(e, f)
  BY <1>1, <1>2 DEF SubPath, Further
<1> QED BY <1>4, <1>5, <1>6 DEF e, f, g

(* What is posted, and what the viewer draws of it, is changed by posting.  *)
LEMMA SameLog ==
  ASSUME log' = log
  PROVE  Viewed' = Viewed /\ Ahead' = ParseRequest(Viewed, send') /\ NoOrphans' = NoOrphans
<1>1. Viewed' = Viewed
  BY DEF Viewed, After
<1>2. Ahead' = ParseRequest(Viewed', send')
  BY DEF Ahead, ParseRequest
<1> QED BY <1>1, <1>2 DEF NoOrphans, Orphans

(* A step without a callback, and posting, leave what was heard.            *)
LEMMA HeardKept ==
  ASSUME HeardTrue, heard' = heard, screen' = screen, log \in Seq(Seq(Word)),
         \/ log' = log
         \/ \E t \in Seq(Word) : log' = Append(log, t)
  PROVE  HeardTrue'
<1>1. PICK h \in 0 .. Len(log) :
        \/ heard = 2 * h /\ screen = After(SubSeq(log, 1, h))
        \/ /\ heard = 2 * h + 1 /\ h < Len(log)
           /\ screen = ParseRequest(After(SubSeq(log, 1, h)), log[h + 1])
  BY DEF HeardTrue
<1>2. /\ Len(log) \in Nat /\ Len(log') \in Nat /\ Len(log) <= Len(log')
      /\ \A i \in 1 .. Len(log) : log'[i] = log[i]
      /\ log' \in Seq(Seq(Word))
  <2>1. CASE log' = log
    BY <2>1
  <2>2. ASSUME NEW t \in Seq(Word), log' = Append(log, t)
        PROVE  /\ Len(log') = Len(log) + 1 /\ log' \in Seq(Seq(Word))
               /\ \A i \in 1 .. Len(log) : log'[i] = log[i]
    BY <2>2
  <2> QED BY <2>1, <2>2
<1>3. SubSeq(log', 1, h) = SubSeq(log, 1, h)
  BY <1>2
<1>4. h < Len(log) => log'[h + 1] = log[h + 1]
  BY <1>2
<1>5. h \in 0 .. Len(log')
  BY <1>2
<1>6. CASE heard = 2 * h /\ screen = After(SubSeq(log, 1, h))
  <2>1. heard' = 2 * h /\ screen' = After(SubSeq(log', 1, h))
    BY <1>3, <1>6
  <2>2. (heard = 2 * h /\ screen = After(SubSeq(log, 1, h)))'
    BY <2>1 DEF After
  <2> QED BY <1>5, <2>2 DEF HeardTrue
<1>7. CASE /\ heard = 2 * h + 1 /\ h < Len(log)
           /\ screen = ParseRequest(After(SubSeq(log, 1, h)), log[h + 1])
  <2>1. heard' = 2 * h + 1 /\ h < Len(log')
    BY <1>2, <1>7
  <2>2. screen' = ParseRequest(After(SubSeq(log', 1, h)), log'[h + 1])
    BY <1>3, <1>4, <1>7
  <2>3. (/\ heard = 2 * h + 1 /\ h < Len(log)
         /\ screen = ParseRequest(After(SubSeq(log, 1, h)), log[h + 1]))'
    BY <2>1, <2>2 DEF After, ParseRequest
  <2> QED BY <1>5, <2>3 DEF HeardTrue
<1> QED BY <1>1, <1>6, <1>7

-----------------------------------------------------------------------------
(* Every action keeps the invariant.                                        *)

(* mousedown: a dot on both sides; what is drawn begins a path.             *)
LEMMA DownKeeps ==
  ASSUME Inv, MouseDown
  PROVE  Inv'
<1>0. PICK p : p = NextPoint
  OBVIOUS
<1> DEFINE P(v) == ParseRequest(v, send)
           Q(v) == ParseRequest(v, send')
           dot == <<"dot", p>>
<1>1. /\ Typed /\ HeardTrue /\ Begun /\ Follows /\ Keeps /\ PathTrue /\ OwnTrue
      /\ Viewed \in Contexts /\ log \in Seq(Seq(Word)) /\ Whole(send)
  BY DEF Inv, Typed
<1>2. /\ isDown' = TRUE /\ log' = log /\ heard' = heard /\ screen' = screen
      /\ colour' = colour /\ repicked' = repicked /\ points' = points + 1
      /\ cut' = FALSE /\ torn' = torn /\ wiped' = wiped
  BY DEF MouseDown
<1>3. /\ Over(pen, pen', {dot}, colour) /\ AtPoint(pen', p)
      /\ send' \in Seq(Word) /\ Whole(send)' /\ send' # << >>
      /\ send'[1] = IF send = << >> THEN "begpath" ELSE send[1]
      /\ \A v \in Contexts : DotDrawn(P(v), Q(v), p, colour)
  BY <1>0, <1>1, DownIs
<1>4. /\ Viewed' = Viewed /\ Ahead' = Q(Viewed) /\ NoOrphans' = NoOrphans
  BY <1>2, SameLog
<1>5. p # NoPoint
  BY <1>0, <1>1, InputsAre
<1>6. Ahead = P(Viewed)
  BY DEF Ahead
<1>7. \A v \in Contexts : P(v) \in Contexts
  BY <1>1 DEF Whole
<1>8. send = << >> => \A v \in Contexts : P(v) = v
  BY WholeEmpty
<1> HIDE DEF P, Q
<1>10. Typed'
  <2>1. points' \in Nat
    BY <1>1, <1>2 DEF Typed
  <2> QED BY <1>1, <1>2, <1>3, <1>4, <2>1 DEF Typed, Over
<1>11. HeardTrue'
  BY <1>1, <1>2, HeardKept
<1>12. DotDrawn(Ahead, Ahead', p, colour)
  BY <1>1, <1>3, <1>4, <1>6
<1>13. Begun'
  BY <1>1, <1>3, <1>4, <1>5, <1>12 DEF Begun, AtPoint, DotDrawn
<1>14. Follows'
  <2>1. SubPath(pen', Ahead')
    BY <1>3, <1>12 DEF SubPath, AtPoint, DotDrawn
  <2>2. Shapes(pen') = Shapes(pen) \cup {dot}
    BY <1>3 DEF Over
  <2>3. ASSUME ~torn, Ahead.sized PROVE Shapes(pen') \subseteq Shapes(Ahead')
    BY <1>1, <1>12, <2>2, <2>3 DEF Follows, DotDrawn, Over
  <2>4. ASSUME ~torn, ~Ahead.sized PROVE Shapes(pen') \subseteq Shapes(Ahead')
    <3>1. Shapes(pen) = {}
      BY <1>1, <2>4, BlankIs DEF Begun, Shapes, Blank
    <3>2. Shapes(Ahead') = {dot}
      BY <1>12, <2>4 DEF DotDrawn
    <3> QED BY <2>2, <3>1, <3>2
  <2> QED BY <1>2, <2>1, <2>3, <2>4 DEF Follows, Shapes, SubPath
<1>15. Keeps'
  <2>1. ASSUME NEW v \in Contexts, v.sized
        PROVE  Q(v).sized /\ Shapes(v) \subseteq Shapes(Q(v))
    <3>1. P(v).sized /\ Shapes(v) \subseteq Shapes(P(v))
      BY <1>1, <2>1 DEF Keeps, P
    <3> QED BY <1>3, <3>1 DEF DotDrawn, Over
  <2> QED BY <2>1 DEF Keeps, Q, ParseRequest, Shapes
<1>16. Fresh'
  BY <1>3 DEF Fresh, DotDrawn, AtPoint, SamePath, Q
<1>17. ASSUME Own' PROVE Own
  BY <1>3, <1>4, <1>17 DEF Own
<1>18. ASSUME Own' PROVE \E D : Adds(D)'
  <2>1. CASE send = << >>
    <3>1. Agree
      BY <1>1, <1>17, <1>18, <2>1 DEF OwnTrue
    <3>2. \A v \in Contexts : DotDrawn(v, Q(v), p, colour)
      BY <1>3, <1>8, <2>1
    <3>3. dot \in Shapes(pen') /\ (~wiped => Shapes(pen') = Shapes(Viewed) \cup {dot})
      BY <1>3, <3>1 DEF Agree, Over
    <3>4. ~wiped /\ ~repicked =>
            \A s \in Shapes(Viewed) \ {dot} : pen'.canvas[s] = Viewed.canvas[s]
      BY <1>3, <3>1 DEF Agree, Over
    <3>5. ASSUME NEW v \in Contexts, v.sized \/ v.canvas = Nothing
          PROVE  /\ Shapes(Q(v)) = Shapes(v) \cup {dot}
                 /\ \A s \in Shapes(v) \ {dot} : Q(v).canvas[s] = v.canvas[s]
                 /\ v.sized => Q(v).canvas[dot] = pen'.canvas[dot] /\ Q(v).stroke = colour
      <4>1. CASE v.sized
        BY <1>3, <3>2, <4>1 DEF DotDrawn, Over
      <4>2. CASE ~v.sized
        <5>1. Shapes(v) = {}
          BY <3>5, <4>2, BlankIs DEF Shapes, Blank
        <5> QED BY <3>2, <4>2, <5>1 DEF DotDrawn
      <4> QED BY <4>1, <4>2
    <3>6. Adds({dot})'
      BY <1>2, <1>4, <3>3, <3>4, <3>5 DEF Adds, Q, Shapes, ParseRequest
    <3> QED BY <3>6
  <2>2. CASE send # << >>
    <3>1. PICK D : Fresh /\ Adds(D)
      BY <1>1, <1>17, <1>18, <2>2 DEF OwnTrue
    <3> DEFINE E == D \cup {dot}
    <3>2. \A v \in Contexts : Over(P(v), Q(v), {dot}, colour) /\ Q(v).stroke = colour
      BY <1>3, <3>1 DEF DotDrawn, Fresh, P
    <3>3. E \subseteq Shapes(pen') /\ (~wiped => Shapes(pen') = Shapes(Viewed) \cup E)
      BY <1>3, <3>1 DEF Adds, Over
    <3>4. ~wiped /\ ~repicked =>
            \A s \in Shapes(Viewed) \ E : pen'.canvas[s] = Viewed.canvas[s]
      BY <1>3, <3>1 DEF Adds, Over
    <3>5. ASSUME NEW v \in Contexts, v.sized \/ v.canvas = Nothing
          PROVE  /\ Shapes(Q(v)) = Shapes(v) \cup E
                 /\ \A s \in Shapes(v) \ E : Q(v).canvas[s] = v.canvas[s]
                 /\ v.sized /\ ~repicked =>
                      /\ \A s \in E : Q(v).canvas[s] = pen'.canvas[s]
                      /\ Q(v).stroke = colour
      BY <1>3, <3>1, <3>2, <3>5 DEF Adds, Over, P
    <3>6. Adds(E)'
      BY <1>2, <1>4, <3>3, <3>4, <3>5 DEF Adds, Q, Shapes, ParseRequest
    <3> QED BY <3>6
  <2> QED BY <2>1, <2>2
<1>19. OwnTrue'
  BY <1>3, <1>16, <1>18 DEF OwnTrue
<1> QED BY <1>10, <1>11, <1>13, <1>14, <1>15, <1>16, <1>19 DEF Inv, PathTrue

(* mousemove: the path goes on, and is drawn with all its lines.            *)
LEMMA MoveKeeps ==
  ASSUME Inv, MouseMove
  PROVE  Inv'
<1>0. PICK p : p = NextPoint
  OBVIOUS
<1> DEFINE P(v) == ParseRequest(v, send)
           Q(v) == ParseRequest(v, send')
           L == Lined(pen'.lines)
<1>1. /\ Typed /\ HeardTrue /\ Begun /\ Follows /\ Keeps /\ PathTrue /\ OwnTrue
      /\ Viewed \in Contexts /\ log \in Seq(Seq(Word)) /\ Whole(send)
  BY DEF Inv, Typed
<1>2. /\ isDown = TRUE /\ isDown' = isDown /\ log' = log /\ heard' = heard
      /\ screen' = screen /\ colour' = colour /\ repicked' = repicked
      /\ points' = points + 1
      /\ cut' = cut /\ torn' = (torn \/ cut) /\ wiped' = wiped
  BY <1>1 DEF MouseMove, Typed
<1>3. /\ Over(pen, pen', L, colour) /\ Further(pen, pen', p)
      /\ send' \in Seq(Word) /\ Whole(send)' /\ send' # << >>
      /\ send'[1] = IF send = << >> THEN "point" ELSE send[1]
      /\ \A v \in Contexts : LineDrawn(P(v), Q(v), p)
  BY <1>0, <1>1, MoveIs
<1>4. /\ Viewed' = Viewed /\ Ahead' = Q(Viewed) /\ NoOrphans' = NoOrphans
  BY <1>2, SameLog
<1>5. p # NoPoint
  BY <1>0, <1>1, InputsAre
<1>6. Ahead = P(Viewed)
  BY DEF Ahead
<1>7. pen.last # NoPoint /\ pen.first # NoPoint /\ (~cut => Ahead.sized)
  BY <1>1, <1>2 DEF Begun
<1>8. send = << >> => \A v \in Contexts : P(v) = v
  BY WholeEmpty
<1> HIDE DEF P, Q
<1>9. Typed'
  BY <1>1, <1>2, <1>3, <1>4 DEF Typed, Over
<1>10. HeardTrue'
  BY <1>1, <1>2, HeardKept
<1>11. LineDrawn(Ahead, Ahead', p)
  BY <1>1, <1>3, <1>4, <1>6
<1>12. Begun'
  BY <1>1, <1>2, <1>3, <1>4, <1>5, <1>7, <1>11 DEF Begun, Further, LineDrawn
<1>13. Follows'
  <2>0. SUFFICES ASSUME ~cut
                 PROVE  /\ ~torn => Shapes(pen') \subseteq Shapes(Ahead')
                        /\ SubPath(pen', Ahead')
    BY <1>2 DEF Follows, Shapes, SubPath
  <2>1. SubPath(pen', Ahead')
    BY <1>1, <1>3, <1>11, <2>0 DEF Follows, SubPath, Further, LineDrawn
  <2>2. L \subseteq Lined(Ahead'.lines)
    BY <2>1 DEF SubPath, Lined
  <2>3. Shapes(pen') = Shapes(pen) \cup L
    BY <1>3 DEF Over
  <2>4. Shapes(Ahead') = Shapes(Ahead) \cup Lined(Ahead'.lines)
    BY <1>11 DEF LineDrawn, Over
  <2>5. ~torn => Shapes(pen') \subseteq Shapes(Ahead')
    BY <1>1, <2>2, <2>3, <2>4 DEF Follows
  <2> QED BY <2>1, <2>5
<1>14. Keeps'
  <2>1. ASSUME NEW v \in Contexts, v.sized
        PROVE  Q(v).sized /\ Shapes(v) \subseteq Shapes(Q(v))
    <3>1. P(v).sized /\ Shapes(v) \subseteq Shapes(P(v))
      BY <1>1, <2>1 DEF Keeps, P
    <3> QED BY <1>3, <3>1 DEF LineDrawn, Over
  <2> QED BY <2>1 DEF Keeps, Q, ParseRequest, Shapes
<1>15. Fresh => Fresh'
  <2>1. ASSUME Fresh, NEW v \in Contexts
        PROVE  Q(v).sized /\ SamePath(pen', Q(v))
    <3>1. P(v).sized /\ SamePath(pen, P(v))
      BY <2>1 DEF Fresh, P
    <3>2. Further(P(v), Q(v), p) /\ Q(v).sized = P(v).sized
      BY <1>3, <2>1 DEF LineDrawn
    <3>3. SamePath(pen', Q(v))
      BY <1>3, <1>7, <3>1, <3>2 DEF Further, SamePath
    <3> QED BY <3>1, <3>2, <3>3
  <2> QED BY <2>1 DEF Fresh, Q, ParseRequest, SamePath
<1>16. PathTrue'
  <2>1. ASSUME send = << >> \/ GoesOn, NEW v \in Contexts, v.last # NoPoint
        PROVE  Q(v).last = pen'.last /\ Q(v).first = v.first /\ v.lines \subseteq Q(v).lines
    <3>1. P(v).last # NoPoint /\ P(v).first = v.first /\ v.lines \subseteq P(v).lines
      BY <1>7, <1>8, <2>1 DEF GoesOn, P
    <3> QED BY <1>3, <3>1 DEF LineDrawn, Further
  <2>2. pen'.last # NoPoint
    BY <1>3, <1>5 DEF Further
  <2>3. ASSUME send = << >> \/ GoesOn PROVE GoesOn'
    BY <2>1, <2>2, <2>3 DEF GoesOn, Q, ParseRequest
  <2> QED BY <1>1, <1>15, <2>3 DEF PathTrue
<1>17. ASSUME Own' PROVE Own /\ send # << >>
  BY <1>3, <1>4, <1>17 DEF Own
<1>18. ASSUME Own' PROVE Fresh' /\ \E D : Adds(D)'
  <2>1. PICK D : Fresh /\ Adds(D)
    BY <1>1, <1>17, <1>18 DEF OwnTrue
  <2> DEFINE E == D \cup L
  <2>2. \A v \in Contexts : P(v).sized /\ SamePath(pen', Q(v))
    BY <1>15, <2>1 DEF Fresh, P, Q, SamePath, ParseRequest
  <2>3. \A v \in Contexts : Over(P(v), Q(v), L, P(v).stroke) /\ Q(v).stroke = P(v).stroke
    BY <1>3, <2>2 DEF LineDrawn, SamePath
  <2> HIDE DEF L
  <2>4. E \subseteq Shapes(pen') /\ (~wiped => Shapes(pen') = Shapes(Viewed) \cup E)
    BY <1>3, <2>1 DEF Adds, Over
  <2>5. ~wiped /\ ~repicked =>
          \A s \in Shapes(Viewed) \ E : pen'.canvas[s] = Viewed.canvas[s]
    BY <1>3, <2>1 DEF Adds, Over
  <2>6. ASSUME NEW v \in Contexts, v.sized \/ v.canvas = Nothing
        PROVE  /\ Shapes(Q(v)) = Shapes(v) \cup E
               /\ \A s \in Shapes(v) \ E : Q(v).canvas[s] = v.canvas[s]
               /\ v.sized /\ ~repicked =>
                    /\ \A s \in E : Q(v).canvas[s] = pen'.canvas[s]
                    /\ Q(v).stroke = colour
    BY <1>2, <1>3, <2>1, <2>3, <2>6 DEF Adds, Over, P
  <2> HIDE DEF E
  <2>7. PICK F : F = E
    OBVIOUS
  <2>8. Adds(F)'
    BY <1>2, <1>4, <2>4, <2>5, <2>6, <2>7 DEF Adds, Q, Shapes, ParseRequest
  <2> QED BY <1>15, <2>1, <2>8
<1>19. OwnTrue'
  BY <1>3, <1>18 DEF OwnTrue
<1> QED BY <1>9, <1>10, <1>12, <1>13, <1>14, <1>16, <1>19 DEF Inv

(* A posted batch that begins with a path of its own, as those before it.   *)
LEMMA OwnPosted ==
  ASSUME Typed, NEW w \in {"endpath", "clear"}, NEW c,
         SendRequest(Append(send, w), c), named, Own'
  PROVE  Own
<1> DEFINE t == Append(send, w)
           n == Len(log) + 1
<1>1. send \in Seq(Word) /\ log \in Seq(Seq(Word)) /\ w \in Word /\ w # "point"
  BY DEF Typed, Word
<1>2. log' = Append(log, t) /\ t \in Seq(Word)
  BY <1>1 DEF SendRequest
<1>3. \A i \in DOMAIN log' : ~Orphans(log'[i])
  BY DEF Own, NoOrphans, Orphans
<1>4. /\ n \in DOMAIN log' /\ log'[n] = t
      /\ \A i \in DOMAIN log : i \in DOMAIN log' /\ log'[i] = log[i]
  BY <1>1, <1>2
<1>5. NoOrphans /\ ~Orphans(t)
  BY <1>3, <1>4 DEF NoOrphans
<1>6. ASSUME send # << >> PROVE send[1] # "point"
  <2>1. 1 \in DOMAIN t /\ t[1] = send[1]
    BY <1>1, <1>6
  <2>2. send[1] = "point" => \A j \in 1 .. 1 : t[j] # "begpath"
    BY <2>1
  <2> QED BY <1>5, <2>1, <2>2 DEF Orphans
<1> QED BY <1>5, <1>6 DEF Own

(* mouseup: the path is closed and the text posted.  X and Y are the screen *)
(* after the first hearing, and after the second but for its last word.     *)
LEMMA UpPosts ==
  ASSUME Inv, MouseUp, named
  PROVE  Inv'
<1> DEFINE P(v) == ParseRequest(v, send)
           X == ClosePath(Ahead)
           Y == P(X)
<1>1. /\ Typed /\ HeardTrue /\ Begun /\ Follows /\ Keeps /\ PathTrue /\ OwnTrue
      /\ Viewed \in Contexts /\ log \in Seq(Seq(Word)) /\ send \in Seq(Word)
      /\ pen \in Contexts /\ Whole(send)
  BY DEF Inv, Typed
<1>2. /\ isDown' = FALSE /\ heard' = heard
      /\ screen' = screen /\ colour' = colour /\ repicked' = repicked
      /\ points' = points /\ SendRequest(Append(send, "endpath"), ClosePath(pen))
  BY DEF MouseUp
<1>3. /\ Append(send, "endpath") \in Seq(Word) /\ log' = Append(log, Append(send, "endpath"))
      /\ log' \in Seq(Seq(Word)) /\ send' = << >> /\ Whole(send)' /\ Ahead' = Viewed'
      /\ Viewed' = ParseRequest(ParseRequest(Viewed, Append(send, "endpath")),
                                Append(send, "endpath"))
      /\ Viewed' \in Contexts /\ pen' = ClosePath(pen)
      /\ cut' = cut /\ torn' = torn /\ wiped' = wiped
  BY <1>1, <1>2, PostedIs
<1>4. \A v \in Contexts : P(v) \in Contexts
  BY <1>1 DEF Whole
<1>5. Ahead = P(Viewed) /\ Ahead \in Contexts
  BY <1>1, <1>4 DEF Ahead
<1>6. /\ X \in Contexts /\ X.first = Ahead.first
      /\ X.canvas = Ahead.canvas /\ X.sized = Ahead.sized
      /\ Ahead.last # NoPoint => Further(Ahead, X, Ahead.first)
  BY <1>5, ClosePathIs
<1>7. Y \in Contexts
  BY <1>4, <1>6
<1>8. Viewed' = ClosePath(Y)
  <2>1. \A v \in Contexts : ParseRequest(v, Append(send, "endpath")) = ClosePath(P(v))
    BY <1>1, ReadsOne
  <2> QED BY <1>1, <1>3, <1>5, <1>6, <2>1
<1>9. /\ Viewed'.first = Y.first /\ Viewed'.canvas = Y.canvas /\ Viewed'.sized = Y.sized
  BY <1>7, <1>8, ClosePathIs
<1>10. /\ pen' \in Contexts /\ pen'.first = pen.first /\ pen'.canvas = pen.canvas
       /\ pen.last = NoPoint => pen' = pen
       /\ pen.last # NoPoint => Further(pen, pen', pen.first)
  BY <1>1, <1>3, ClosePathIs
<1>11. send = << >> => Ahead = Viewed /\ Y = X
  BY <1>1, <1>5, <1>6, WholeEmpty
<1> HIDE DEF P, X, Y
<1>12. Typed'
  <2>1. colour' \in Colours /\ isDown' \in BOOLEAN /\ points' \in Nat
    BY <1>1, <1>2 DEF Typed
  <2>2. send' \in Seq(Word)
    BY <1>3
  <2> QED BY <1>1, <1>3, <1>10, <2>1, <2>2 DEF Typed
<1>13. HeardTrue'
  BY <1>1, <1>2, <1>3, HeardKept
<1>14. Ahead.sized => Viewed'.sized /\ Shapes(Ahead) \subseteq Shapes(Viewed')
  BY <1>1, <1>6, <1>9 DEF Keeps, P, Y, Shapes
<1>15. Begun'
  <2>1. ASSUME NoOrphans' PROVE Viewed'.sized \/ Viewed'.canvas = Nothing
    <3>1. Own'
      BY <1>3, <2>1 DEF Own
    <3>2. Own
      BY <1>1, <1>2, <3>1, OwnPosted
    <3>3. CASE send = << >>
      BY <1>1, <1>6, <1>9, <1>11, <3>2, <3>3 DEF Begun, Own
    <3>4. CASE send # << >>
      BY <1>1, <1>6, <1>9, <3>2, <3>4 DEF OwnTrue, Fresh, Y, P
    <3> QED BY <3>3, <3>4
  <2>2. pen'.last = NoPoint => pen'.canvas = Nothing
    BY <1>1, <1>10 DEF Begun, Further
  <2>3. pen'.last # NoPoint => pen'.first # NoPoint /\ (~cut => Viewed'.sized)
    BY <1>1, <1>10, <1>14 DEF Begun, Further
  <2>4. ~torn /\ ~Viewed'.sized => pen'.canvas = Nothing
    BY <1>1, <1>10, <1>14 DEF Begun
  <2> QED BY <1>2, <1>3, <2>1, <2>2, <2>3, <2>4 DEF Begun
<1>16. ASSUME ~cut PROVE SubPath(pen', Viewed')
  <2>1. CASE send = << >>
    <3>1. SubPath(pen', X)
      BY <1>1, <1>3, <1>5, <1>16, ClosedPaths DEF Follows, X
    <3>2. SamePath(X, Viewed')
      BY <1>5, <1>8, <1>11, <2>1, ClosedPaths DEF X
    <3> QED BY <3>1, <3>2 DEF SubPath, SamePath
  <2>2. CASE Fresh
    <3>1. SubPath(pen, Y)
      BY <1>6, <2>2 DEF Fresh, Y, P, SamePath, SubPath
    <3> QED BY <1>1, <1>3, <1>7, <1>8, <3>1, ClosedPaths
  <2>3. CASE GoesOn
    <3>1. pen.last # NoPoint /\ pen.first # NoPoint /\ SubPath(pen, Ahead)
      BY <1>1, <1>16, <2>3 DEF GoesOn, Begun, Follows
    <3>2. X.last = pen.first /\ X.first = pen.first /\ Ahead.lines \subseteq X.lines
      BY <1>6, <3>1 DEF SubPath, Further
    <3>3. Y.last = pen.last /\ Y.first = X.first /\ X.lines \subseteq Y.lines
      BY <1>6, <2>3, <3>1, <3>2 DEF GoesOn, Y, P
    <3>4. SubPath(pen, Y)
      BY <3>1, <3>2, <3>3 DEF SubPath
    <3> QED BY <1>1, <1>3, <1>7, <1>8, <3>4, ClosedPaths
  <2> QED BY <1>1, <2>1, <2>2, <2>3 DEF PathTrue
<1>17. Follows'
  <2>1. ASSUME ~torn PROVE Shapes(pen') \subseteq Shapes(Viewed')
    <3>1. CASE Ahead.sized
      BY <1>1, <1>10, <1>14, <2>1, <3>1 DEF Follows, Shapes
    <3>2. CASE ~Ahead.sized
      <4>1. Shapes(pen') = {}
        BY <1>1, <1>10, <2>1, <3>2, BlankIs DEF Begun, Shapes, Blank
      <4> QED BY <4>1
    <3> QED BY <3>1, <3>2
  <2> QED BY <1>3, <1>16, <2>1 DEF Follows, Shapes, SubPath
<1>18. Keeps'
  <2>1. \A v \in Contexts : ParseRequest(v, send') = v
    BY <1>3, WholeEmpty
  <2> QED BY <2>1 DEF Keeps, ParseRequest, Shapes
<1>19. PathTrue'
  BY <1>3 DEF PathTrue
<1>20. ASSUME Own' PROVE Agree'
  <2>1. Own
    BY <1>1, <1>2, <1>20, OwnPosted
  <2>2. CASE send = << >>
    <3>1. Agree
      BY <1>1, <2>1, <2>2 DEF OwnTrue
    <3>2. ~cut => SamePath(pen', X)
      BY <1>1, <1>3, <1>5, <1>11, <2>2, <3>1, ClosedPaths DEF Agree, X
    <3>3. SamePath(X, Viewed')
      BY <1>5, <1>8, <1>11, <2>2, ClosedPaths DEF X
    <3>4. ~cut => SamePath(pen', Viewed')
      BY <3>2, <3>3 DEF SamePath
    <3>5. Viewed'.canvas = Viewed.canvas /\ pen'.canvas = pen.canvas
      BY <1>6, <1>9, <1>10, <1>11, <2>2
    <3> QED BY <1>2, <1>3, <3>1, <3>4, <3>5 DEF Agree, SamePath, Shapes
  <2>3. CASE send # << >>
    <3>1. PICK D : Fresh /\ Adds(D)
      BY <1>1, <2>1, <2>3 DEF OwnTrue
    <3>2. /\ Shapes(Ahead) = Shapes(Viewed) \cup D
          /\ \A s \in Shapes(Viewed) \ D : Ahead.canvas[s] = Viewed.canvas[s]
      BY <1>1, <1>5, <2>1, <3>1 DEF Begun, Adds, P, Own
    <3>3. X.sized /\ Shapes(X) = Shapes(Ahead)
      BY <1>1, <1>5, <1>6, <3>1 DEF Fresh, P, Shapes
    <3>4. /\ Shapes(Y) = Shapes(X) \cup D
          /\ \A s \in Shapes(X) \ D : Y.canvas[s] = X.canvas[s]
          /\ ~repicked => \A s \in D : Y.canvas[s] = pen.canvas[s]
      BY <1>6, <3>1, <3>3 DEF Adds, Y, P
    <3>5. ~wiped => Shapes(Y) = Shapes(pen)
      BY <3>1, <3>2, <3>3, <3>4 DEF Adds
    <3>6. ASSUME ~wiped, ~repicked PROVE Y.canvas = pen.canvas
      <4>1. \A s \in Shapes(pen) : Y.canvas[s] = pen.canvas[s]
        BY <1>6, <3>1, <3>2, <3>3, <3>4, <3>5, <3>6 DEF Adds
      <4> QED BY <1>1, <1>7, <3>5, <3>6, <4>1, CanvasShapes
    <3>7. SamePath(pen', Viewed')
      <4>1. SamePath(pen, Y)
        BY <1>6, <3>1 DEF Fresh, Y, P
      <4> QED BY <1>1, <1>3, <1>7, <1>8, <4>1, ClosedPaths
    <3> QED BY <1>2, <1>3, <1>9, <1>10, <3>5, <3>6, <3>7 DEF Agree, SamePath, Shapes
  <2> QED BY <2>2, <2>3
<1>21. OwnTrue'
  BY <1>3, <1>20 DEF OwnTrue
<1> QED BY <1>12, <1>13, <1>15, <1>17, <1>18, <1>19, <1>21 DEF Inv

(* The clear button: the canvas is emptied, its path stays.                 *)
LEMMA ClearPosts ==
  ASSUME Inv, ClearBoard, named
  PROVE  Inv'
<1> DEFINE P(v) == ParseRequest(v, send)
           X == ClearRect(Ahead)
           Y == P(X)
<1>1. /\ Typed /\ HeardTrue /\ Begun /\ Follows /\ Keeps /\ PathTrue /\ OwnTrue
      /\ Viewed \in Contexts /\ log \in Seq(Seq(Word)) /\ send \in Seq(Word)
      /\ pen \in Contexts /\ Whole(send)
  BY DEF Inv, Typed
<1>2. /\ isDown' = isDown /\ heard' = heard
      /\ screen' = screen /\ colour' = colour /\ repicked' = repicked
      /\ points' = points /\ SendRequest(Append(send, "clear"), ClearRect(pen))
  BY DEF ClearBoard
<1>3. /\ Append(send, "clear") \in Seq(Word) /\ log' = Append(log, Append(send, "clear"))
      /\ log' \in Seq(Seq(Word)) /\ send' = << >> /\ Whole(send)' /\ Ahead' = Viewed'
      /\ Viewed' = ParseRequest(ParseRequest(Viewed, Append(send, "clear")),
                                Append(send, "clear"))
      /\ Viewed' \in Contexts /\ pen' = ClearRect(pen)
      /\ cut' = cut /\ torn' = torn /\ wiped' = wiped
  BY <1>1, <1>2, PostedIs
<1>4. \A v \in Contexts : P(v) \in Contexts
  BY <1>1 DEF Whole
<1>5. Ahead = P(Viewed) /\ Ahead \in Contexts
  BY <1>1, <1>4 DEF Ahead
<1>6. /\ X \in Contexts /\ X.sized = Ahead.sized
      /\ X.lines = Ahead.lines /\ X.first = Ahead.first /\ X.last = Ahead.last
  BY <1>5, ClearRectIs
<1>7. Y \in Contexts
  BY <1>4, <1>6
<1>8. Viewed' = ClearRect(Y)
  <2>1. \A v \in Contexts : ParseRequest(v, Append(send, "clear")) = ClearRect(P(v))
    BY <1>1, ReadsOne
  <2> QED BY <1>1, <1>3, <1>5, <1>6, <2>1
<1>9. /\ Viewed'.canvas = Nothing /\ Viewed'.sized = Y.sized /\ SamePath(Y, Viewed')
  BY <1>7, <1>8, ClearRectIs DEF SamePath
<1>10. pen' \in Contexts /\ pen'.canvas = Nothing /\ SamePath(pen, pen')
  BY <1>1, <1>3, ClearRectIs DEF SamePath
<1>11. send = << >> => Ahead = Viewed /\ Y = X
  BY <1>1, <1>5, <1>6, WholeEmpty
<1> HIDE DEF P, X, Y
<1>12. Typed'
  <2>1. colour' \in Colours /\ isDown' \in BOOLEAN /\ points' \in Nat
    BY <1>1, <1>2 DEF Typed
  <2>2. send' \in Seq(Word)
    BY <1>3
  <2> QED BY <1>1, <1>3, <1>10, <2>1, <2>2 DEF Typed
<1>13. HeardTrue'
  BY <1>1, <1>2, <1>3, HeardKept
<1>14. Ahead.sized => Viewed'.sized
  BY <1>1, <1>6, <1>9 DEF Keeps, P, Y
<1>15. Begun'
  BY <1>1, <1>2, <1>3, <1>9, <1>10, <1>14 DEF Begun, SamePath
<1>16. ASSUME ~cut PROVE SubPath(pen, Y)
  <2>1. CASE send = << >>
    BY <1>1, <1>6, <1>11, <1>16, <2>1 DEF Follows, SubPath
  <2>2. CASE Fresh
    BY <1>6, <2>2 DEF Fresh, Y, P, SamePath, SubPath
  <2>3. CASE GoesOn
    <3>1. pen.last # NoPoint /\ SubPath(pen, Ahead)
      BY <1>1, <1>16, <2>3 DEF GoesOn, Follows
    <3>2. Y.last = pen.last /\ Y.first = X.first /\ X.lines \subseteq Y.lines
      BY <1>6, <2>3, <3>1 DEF GoesOn, Y, P, SubPath
    <3> QED BY <1>6, <3>1, <3>2 DEF SubPath
  <2> QED BY <1>1, <2>1, <2>2, <2>3 DEF PathTrue
<1>17. Follows'
  <2>1. ~cut => SubPath(pen', Viewed')
    BY <1>9, <1>10, <1>16 DEF SubPath, SamePath
  <2>2. Shapes(pen') = Shapes(Viewed')
    BY <1>9, <1>10 DEF Shapes
  <2> QED BY <1>3, <2>1, <2>2 DEF Follows, Shapes, SubPath
<1>18. Keeps'
  <2>1. \A v \in Contexts : ParseRequest(v, send') = v
    BY <1>3, WholeEmpty
  <2> QED BY <2>1 DEF Keeps, ParseRequest, Shapes
<1>19. PathTrue'
  BY <1>3 DEF PathTrue
<1>20. ASSUME Own' PROVE Agree'
  <2>1. Own
    BY <1>1, <1>2, <1>20, OwnPosted
  <2>2. ASSUME ~cut PROVE SamePath(pen, Y)
    <3>1. CASE send = << >>
      BY <1>1, <1>6, <1>11, <2>1, <2>2, <3>1 DEF OwnTrue, Agree, SamePath
    <3>2. CASE send # << >>
      BY <1>1, <1>6, <2>1, <3>2 DEF OwnTrue, Fresh, Y, P
    <3> QED BY <3>1, <3>2
  <2>3. ~cut => SamePath(pen', Viewed')
    BY <1>9, <1>10, <2>2 DEF SamePath
  <2> QED BY <1>3, <1>9, <1>10, <2>3 DEF Agree, SamePath, Shapes
<1>21. OwnTrue'
  BY <1>3, <1>20 DEF OwnTrue
<1> QED BY <1>12, <1>13, <1>15, <1>17, <1>18, <1>19, <1>21 DEF Inv

(* Without a name: nothing is left to post, and nothing shows.              *)
LEMMA DropKeeps ==
  ASSUME Inv, NEW text, NEW c \in Contexts, SendRequest(text, c), ~named,
         c.first = pen.first, c.last = NoPoint => pen.last = NoPoint,
         pen.last = NoPoint => c.last = NoPoint,
         isDown' \in BOOLEAN, isDown' => isDown,
         UNCHANGED <<colour, points, heard, screen, repicked>>
  PROVE  Inv'
<1>1. /\ Typed /\ HeardTrue /\ Begun /\ OwnTrue /\ log \in Seq(Seq(Word))
      /\ Viewed \in Contexts
  BY DEF Inv, Typed
<1>2. /\ log' = log /\ send' = << >> /\ pen' = ClearRect(c)
      /\ cut' = TRUE /\ torn' = torn /\ wiped' = (wiped \/ log # << >>)
  BY DEF SendRequest
<1>3. /\ pen' \in Contexts /\ pen'.canvas = Nothing /\ Shapes(pen') = {}
      /\ pen'.first = pen.first /\ pen'.last = c.last
  BY <1>2, ClearRectIs
<1>4. \A v \in Contexts : ParseRequest(v, send') = v
  BY <1>2, WholeEmpty
<1>5. Viewed' = Viewed /\ NoOrphans' = NoOrphans /\ Ahead' = Viewed
  BY <1>1, <1>2, <1>4, SameLog
<1>6. Typed'
  <2>1. Whole(send)'
    <3>1. Whole(send')
      BY <1>2, WholeEmpty
    <3> QED BY <3>1 DEF Whole, ReadIn, ParseRequest
  <2>2. send' \in Seq(Word)
    BY <1>2
  <2> QED BY <1>1, <1>2, <1>3, <1>5, <2>1, <2>2 DEF Typed
<1>7. HeardTrue'
  BY <1>1, <1>2, HeardKept
<1>8. Begun'
  BY <1>1, <1>2, <1>3, <1>5 DEF Begun
<1>9. Follows'
  BY <1>2, <1>3 DEF Follows, Shapes
<1>10. Keeps' /\ PathTrue'
  BY <1>2, <1>4 DEF Keeps, PathTrue, ParseRequest, Shapes
<1>11. OwnTrue'
  <2>1. ASSUME log = << >> PROVE Shapes(Viewed) = {} /\ Viewed.canvas = Nothing
    BY <2>1, AfterSteps, BlankIs DEF Viewed
  <2>2. Agree'
    BY <1>2, <1>3, <1>5, <2>1 DEF Agree, Shapes
  <2> QED BY <1>2, <2>2 DEF OwnTrue
<1> QED BY <1>6, <1>7, <1>8, <1>9, <1>10, <1>11 DEF Inv

(* mouseup, and the clear button, with a name or without one.               *)
LEMMA SendKeeps ==
  ASSUME Inv, MouseUp \/ ClearBoard
  PROVE  Inv'
<1>1. /\ pen \in Contexts /\ isDown \in BOOLEAN
      /\ pen.last # NoPoint => pen.first # NoPoint
  BY DEF Inv, Typed, Begun
<1>2. CASE named
  BY <1>2, UpPosts, ClearPosts
<1>3. CASE ~named /\ MouseUp
  <2>1. /\ ClosePath(pen) \in Contexts /\ ClosePath(pen).first = pen.first
        /\ pen.last = NoPoint => ClosePath(pen) = pen
        /\ pen.last # NoPoint => ClosePath(pen).last # NoPoint
    BY <1>1, ClosePathIs DEF Further
  <2>2. /\ SendRequest(Append(send, "endpath"), ClosePath(pen)) /\ isDown' = FALSE
        /\ UNCHANGED <<colour, points, heard, screen, repicked>>
    BY <1>3 DEF MouseUp
  <2> QED BY <1>3, <2>1, <2>2, DropKeeps
<1>4. CASE ~named /\ ClearBoard
  <2>1. /\ ClearRect(pen) \in Contexts /\ ClearRect(pen).first = pen.first
        /\ ClearRect(pen).last = pen.last
    BY <1>1, ClearRectIs
  <2>2. /\ SendRequest(Append(send, "clear"), ClearRect(pen)) /\ isDown' = isDown
        /\ UNCHANGED <<colour, points, heard, screen, repicked>>
    BY <1>4 DEF ClearBoard
  <2> QED BY <1>1, <1>4, <2>1, <2>2, DropKeeps
<1> QED BY <1>2, <1>3, <1>4

(* Another colour is not that of the lines, if the button is down.          *)
LEMMA PickKeeps ==
  ASSUME Inv, NEW c \in Colours, PickColour(c)
  PROVE  Inv'
<1>1. /\ Typed /\ HeardTrue /\ Begun /\ Follows /\ Keeps /\ PathTrue /\ OwnTrue
      /\ log \in Seq(Seq(Word))
  BY DEF Inv, Typed
<1>2. /\ colour' = c /\ repicked' = (repicked \/ isDown) /\ isDown' = isDown
      /\ points' = points /\ pen' = pen /\ send' = send /\ log' = log
      /\ heard' = heard /\ screen' = screen
      /\ cut' = cut /\ torn' = torn /\ wiped' = wiped
  BY DEF PickColour
<1>3. Viewed' = Viewed /\ NoOrphans' = NoOrphans /\ Ahead' = Ahead
  BY <1>2, SameLog DEF Ahead
<1>4. Typed'
  BY <1>1, <1>2, <1>3 DEF Typed, Whole, ReadIn, ParseRequest
<1>5. HeardTrue'
  BY <1>1, <1>2, HeardKept
<1>6. Begun' /\ Follows' /\ Keeps'
  BY <1>1, <1>2, <1>3 DEF Begun, Follows, Keeps, SubPath, Shapes, ParseRequest
<1>7. Fresh' = Fresh /\ GoesOn' = GoesOn
  BY <1>2 DEF Fresh, GoesOn, SamePath, ParseRequest
<1>8. PathTrue'
  BY <1>1, <1>2, <1>7 DEF PathTrue
<1>9. Own' = Own
  BY <1>2, <1>3 DEF Own
<1>10. ASSUME NEW D, Adds(D) PROVE Adds(D)'
  BY <1>2, <1>3, <1>10 DEF Adds, Shapes, ParseRequest
<1>11. Agree => Agree'
  BY <1>2, <1>3 DEF Agree, SamePath, Shapes
<1>12. OwnTrue'
  BY <1>1, <1>2, <1>7, <1>9, <1>10, <1>11 DEF OwnTrue
<1> QED BY <1>4, <1>5, <1>6, <1>8, <1>12 DEF Inv

(* What was heard is one callback more.                                     *)
LEMMA HearHeard ==
  ASSUME Typed, HeardTrue, Hear
  PROVE  HeardTrue'
<1>1. log \in Seq(Seq(Word)) /\ log' = log
  BY DEF Typed, Hear
<1>2. /\ heard < 2 * Len(log) /\ heard' = heard + 1
      /\ screen' = ParseRequest(screen, log[(heard \div 2) + 1])
  BY DEF Hear
<1>3. PICK h \in 0 .. Len(log) :
        \/ heard = 2 * h /\ screen = After(SubSeq(log, 1, h))
        \/ /\ heard = 2 * h + 1 /\ h < Len(log)
           /\ screen = ParseRequest(After(SubSeq(log, 1, h)), log[h + 1])
  BY DEF HeardTrue
<1>4. heard \div 2 = h /\ h < Len(log) /\ Len(log) \in Nat
  <2>1. Len(log) \in Nat
    BY <1>1
  <2> DEFINE n == Len(log)
  <2> HIDE DEF n
  <2>2. h \in 0 .. n /\ n \in Nat /\ heard < 2 * n /\ (heard = 2 * h \/ heard = 2 * h + 1)
    BY <1>2, <1>3, <2>1 DEF n
  <2>3. heard \div 2 = h /\ h < n
    BY <2>2
  <2> QED BY <2>1, <2>3 DEF n
<1>5. CASE heard = 2 * h /\ screen = After(SubSeq(log, 1, h))
  <2>1. /\ heard' = 2 * h + 1 /\ h < Len(log')
        /\ screen' = ParseRequest(After(SubSeq(log', 1, h)), log'[h + 1])
    BY <1>1, <1>2, <1>4, <1>5
  <2>2. (/\ heard = 2 * h + 1 /\ h < Len(log)
         /\ screen = ParseRequest(After(SubSeq(log, 1, h)), log[h + 1]))'
    BY <2>1 DEF After, ParseRequest
  <2> QED BY <1>1, <2>2 DEF HeardTrue
<1>6. CASE /\ heard = 2 * h + 1 /\ h < Len(log)
           /\ screen = ParseRequest(After(SubSeq(log, 1, h)), log[h + 1])
  <2> DEFINE k == h + 1
  <2>1. k \in 0 .. Len(log) /\ heard' = 2 * k
    BY <1>2, <1>4, <1>6
  <2>2. /\ SubSeq(log, 1, h) \in Seq(Seq(Word)) /\ log[h + 1] \in Seq(Word)
        /\ SubSeq(log, 1, k) = Append(SubSeq(log, 1, h), log[h + 1])
    BY <1>1, <1>4
  <2>3. screen' = HeardTwice(After(SubSeq(log, 1, h)), log[h + 1])
    BY <1>2, <1>4, <1>6 DEF HeardTwice
  <2>4. screen' = After(SubSeq(log', 1, k))
    BY <1>1, <2>2, <2>3, AfterSteps
  <2> HIDE DEF k
  <2>5. (heard = 2 * k /\ screen = After(SubSeq(log, 1, k)))'
    BY <2>1, <2>4 DEF After
  <2> QED BY <1>1, <2>1, <2>5 DEF HeardTrue
<1> QED BY <1>3, <1>5, <1>6

(* A callback changes only what was heard, the name box only whether there  *)
(* is a name, and another step nothing.                                     *)
LEMMA OtherKeeps ==
  ASSUME Inv, Hear \/ TypeName \/ UNCHANGED vars
  PROVE  Inv'
<1>1. /\ Typed /\ HeardTrue /\ Begun /\ Follows /\ Keeps /\ PathTrue /\ OwnTrue
      /\ log \in Seq(Seq(Word))
  BY DEF Inv, Typed
<1>2. /\ colour' = colour /\ repicked' = repicked /\ isDown' = isDown
      /\ points' = points /\ pen' = pen /\ send' = send /\ log' = log
      /\ cut' = cut /\ torn' = torn /\ wiped' = wiped
  BY DEF Hear, TypeName, vars
<1>3. Viewed' = Viewed /\ NoOrphans' = NoOrphans /\ Ahead' = Ahead
  BY <1>2, SameLog DEF Ahead
<1>4. Typed'
  BY <1>1, <1>2, <1>3 DEF Typed, Whole, ReadIn, ParseRequest
<1>5. HeardTrue'
  BY <1>1, HearHeard, HeardKept DEF TypeName, vars
<1>6. Begun' /\ Follows' /\ Keeps'
  BY <1>1, <1>2, <1>3 DEF Begun, Follows, Keeps, SubPath, Shapes, ParseRequest
<1>7. Fresh' = Fresh /\ GoesOn' = GoesOn
  BY <1>2 DEF Fresh, GoesOn, SamePath, ParseRequest
<1>8. PathTrue'
  BY <1>1, <1>2, <1>7 DEF PathTrue
<1>9. Own' = Own
  BY <1>2, <1>3 DEF Own
<1>10. ASSUME NEW D, Adds(D) PROVE Adds(D)'
  BY <1>2, <1>3, <1>10 DEF Adds, Shapes, ParseRequest
<1>11. Agree => Agree'
  BY <1>2, <1>3 DEF Agree, SamePath, Shapes
<1>12. OwnTrue'
  BY <1>1, <1>2, <1>7, <1>9, <1>10, <1>11 DEF OwnTrue
<1> QED BY <1>4, <1>5, <1>6, <1>8, <1>12 DEF Inv

(* At first there is nothing on both sides.                                 *)
LEMMA InitInv ==
  ASSUME Init
  PROVE  Inv
<1>1. /\ colour \in Colours /\ isDown = FALSE /\ points = 0 /\ pen = Blank
      /\ send = << >> /\ log = << >> /\ heard = 0 /\ screen = Blank
      /\ cut = FALSE /\ torn = FALSE /\ wiped = FALSE
  BY DEF Init
<1>2. Viewed = Blank
  BY <1>1, AfterSteps DEF Viewed
<1>3. \A v \in Contexts : ParseRequest(v, send) = v
  BY <1>1, WholeEmpty
<1>4. Ahead = Blank
  BY <1>2, <1>3, BlankIs DEF Ahead
<1>5. Typed
  <2>1. send \in Seq(Word) /\ log \in Seq(Seq(Word))
    BY <1>1
  <2>2. Whole(send)
    BY <1>1, WholeEmpty
  <2> QED BY <1>1, <1>2, <2>1, <2>2, BlankIs DEF Typed
<1>6. HeardTrue
  <2>1. Len(log) = 0 /\ SubSeq(log, 1, 0) = << >>
    BY <1>1
  <2>2. screen = After(SubSeq(log, 1, 0))
    BY <1>1, <2>1, AfterSteps
  <2>3. 0 \in 0 .. Len(log) /\ heard = 2 * 0
    BY <1>1, <2>1
  <2> QED BY <2>2, <2>3 DEF HeardTrue
<1>7. Begun /\ Follows /\ Keeps /\ PathTrue
  BY <1>1, <1>2, <1>3, <1>4, BlankIs DEF Begun, Follows, SubPath, Keeps, PathTrue
<1>8. OwnTrue
  BY <1>1, <1>2, BlankIs DEF OwnTrue, Agree, SamePath
<1> QED BY <1>5, <1>6, <1>7, <1>8 DEF Inv

(* The invariant holds.                                                     *)
LEMMA InvHolds == Spec => []Inv
<1>1. Init => Inv
  BY InitInv
<1>2. Inv /\ [Next]_vars => Inv'
  <2> SUFFICES ASSUME Inv, [Next]_vars PROVE Inv'
    OBVIOUS
  <2>1. CASE MouseDown
    BY <2>1, DownKeeps
  <2>2. CASE MouseMove
    BY <2>2, MoveKeeps
  <2>3. CASE MouseUp
    BY <2>3, SendKeeps
  <2>4. CASE ClearBoard
    BY <2>4, SendKeeps
  <2>5. ASSUME NEW c \in Colours, PickColour(c) PROVE Inv'
    BY <2>5, PickKeeps
  <2>6. CASE Hear \/ TypeName \/ UNCHANGED vars
    BY <2>6, OtherKeeps
  <2> QED BY <2>1, <2>2, <2>3, <2>4, <2>5, <2>6 DEF Next
<1> QED BY <1>1, <1>2, PTL DEF Spec

-----------------------------------------------------------------------------
(* When all is posted and heard, the viewer shows what is posted.           *)
LEMMA CaughtShows ==
  ASSUME Inv, Caught
  PROVE  /\ send = << >> /\ screen = Viewed /\ Ahead = Viewed
         /\ NoOrphans => Agree
<1>1. /\ send = << >> /\ heard = 2 * Len(log) /\ log \in Seq(Seq(Word))
      /\ Viewed \in Contexts
  BY DEF Caught, Inv, Typed
<1>2. PICK h \in 0 .. Len(log) :
        \/ heard = 2 * h /\ screen = After(SubSeq(log, 1, h))
        \/ /\ heard = 2 * h + 1 /\ h < Len(log)
           /\ screen = ParseRequest(After(SubSeq(log, 1, h)), log[h + 1])
  BY DEF Inv, HeardTrue
<1>3. h = Len(log) /\ heard # 2 * h + 1
  <2> DEFINE n == Len(log)
  <2>1. n \in Nat
    BY <1>1
  <2>2. heard = 2 * n /\ h \in 0 .. n /\ (heard = 2 * h \/ heard = 2 * h + 1)
    BY <1>1, <1>2
  <2> HIDE DEF n
  <2>3. h = n /\ heard # 2 * h + 1
    BY <2>1, <2>2
  <2> QED BY <2>3 DEF n
<1>4. SubSeq(log, 1, h) = log
  BY <1>1, <1>3
<1>5. screen = Viewed
  BY <1>2, <1>3, <1>4 DEF Viewed
<1>6. Ahead = Viewed
  BY <1>1, WholeEmpty DEF Ahead
<1>7. NoOrphans => Agree
  BY <1>1 DEF Inv, OwnTrue, Own
<1> QED BY <1>1, <1>5, <1>6, <1>7

(* Whatever is drawn, in however many batches, and cleared at any moment:   *)
(* when all is posted and heard, the viewer has every shape the presenter   *)
(* has (viewer.js:109-168), also of strokes drawn after others were dropped *)
(* for want of a name (presenter.js:105-112); all but those that went on    *)
(* after their beginning was dropped.                                       *)
THEOREM ShapesArrive == Spec => []NothingMissing
<1>1. ASSUME Inv PROVE NothingMissing
  BY <1>1, CaughtShows DEF NothingMissing, Inv, Follows
<1> QED BY <1>1, InvHolds, PTL

(* Hearing every batch twice adds nothing, if every batch begins its own    *)
(* path.                                                                    *)
THEOREM TwiceAddsNothing == Spec => []NothingAdded
<1>1. ASSUME Inv PROVE NothingAdded
  BY <1>1, CaughtShows DEF NothingAdded, Agree
<1> QED BY <1>1, InvHolds, PTL

(* Nor does it leave a wrong colour: that of the first stroke, which is     *)
(* lost with the context when the canvas gets its size (viewer.js:124-131), *)
(* is painted over by the second hearing.                                   *)
THEOREM TwiceColours == Spec => []SameColours
<1>1. ASSUME Inv PROVE SameColours
  BY <1>1, CaughtShows DEF SameColours, Agree
<1> QED BY <1>1, InvHolds, PTL

=============================================================================
