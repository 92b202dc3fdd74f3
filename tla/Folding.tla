------------------------------ MODULE Folding ------------------------------
(***************************************************************************)
(* What FoldLeft computes, proved for any operator Op: the module is       *)
(* instantiated with the one that is folded.  Induction over the naturals  *)
(* is stated with a set, which the provers can instantiate.                *)
(***************************************************************************)
EXTENDS Integers, Sequences, SequencesExt, WellFoundedInduction, TLAPS

CONSTANT Op(_, _)

Fold(base, s) == FoldLeft(Op, base, s)

-----------------------------------------------------------------------------
(* A set of naturals that holds 0 and every successor holds them all.       *)
LEMMA Induction ==
  ASSUME NEW S, 0 \in S, \A n \in Nat : n \in S => n + 1 \in S
  PROVE  Nat \subseteq S
<1> DEFINE Missing == {n \in Nat : n \notin S}
           Less == {ss \in Nat \X Nat : ss[1] < ss[2]}
<1>1. SUFFICES ASSUME Missing # {} PROVE FALSE
  OBVIOUS
<1>2. IsWellFoundedOn(Less, Nat)
  BY NatLessThanWellFounded, Zenon DEF OpToRel
<1> HIDE DEF Less
<1>3. PICK n \in Missing : \A m \in Missing : <<m, n>> \notin Less
  <2> HIDE DEF Missing
  <2>1. Missing \subseteq Nat
    BY DEF Missing
  <2> QED BY <1>1, <1>2, <2>1, WFMin
<1>4. n \in Nat \ {0} /\ n - 1 \in Nat
  BY <1>3
<1>5. <<n - 1, n>> \in Less
  BY <1>4 DEF Less
<1>6. n - 1 \in S
  BY <1>3, <1>4, <1>5
<1>7. (n - 1) + 1 \in S
  BY <1>4, <1>6
<1> QED BY <1>4, <1>7

(* A set of sequences that holds the empty one and with every sequence      *)
(* those one element longer holds them all.                                 *)
LEMMA SequenceInduction ==
  ASSUME NEW T, NEW S, << >> \in S,
         \A s \in Seq(T), e \in T : s \in S => Append(s, e) \in S
  PROVE  Seq(T) \subseteq S
<1> DEFINE L == {n \in Nat : \A s \in Seq(T) : Len(s) = n => s \in S}
<1>1. 0 \in L
  <2>1. \A s \in Seq(T) : Len(s) = 0 => s = << >>
    OBVIOUS
  <2> QED BY <2>1
<1>2. ASSUME NEW n \in Nat, n \in L
      PROVE  n + 1 \in L
  <2>1. SUFFICES ASSUME NEW s \in Seq(T), Len(s) = n + 1 PROVE s \in S
    OBVIOUS
  <2> DEFINE front == SubSeq(s, 1, n)
  <2>2. /\ front \in Seq(T) /\ Len(front) = n /\ s[n + 1] \in T
        /\ s = Append(front, s[n + 1])
    BY <2>1
  <2>3. front \in S
    BY <1>2, <2>2
  <2> HIDE DEF front
  <2> QED BY <2>2, <2>3
<1> HIDE DEF L
<1>3. Nat \subseteq L
  BY <1>1, <1>2, Induction
<1> QED BY <1>3 DEF L

-----------------------------------------------------------------------------
(* The recursive function FoldLeft applies to the domain of s.              *)
IsFold(g, base, s, n) ==
  g = [t \in SUBSET (1 .. n) |->
         IF t = {} THEN base
         ELSE Op(g[t \ {Max(t)}], s[Max(t)])]

(* The greatest of 1 .. n and n + 1.                                        *)
LEMMA Greatest ==
  ASSUME NEW n \in Nat, NEW t \in SUBSET (1 .. n + 1), n + 1 \in t
  PROVE  Max(t) = n + 1
<1>1. n + 1 \in t /\ \A y \in t : n + 1 >= y
  OBVIOUS
<1>2. \A x \in t : (\A y \in t : x >= y) => x = n + 1
  OBVIOUS
<1> QED BY <1>1, <1>2 DEF Max

(* There is such a function.                                                *)
LEMMA FoldExists ==
  ASSUME NEW base, NEW s
  PROVE  \A n \in Nat : \E g : IsFold(g, base, s, n)
<1> DEFINE S == {n \in Nat : \E g : IsFold(g, base, s, n)}
<1>1. 0 \in S
  <2> DEFINE g == [t \in SUBSET (1 .. 0) |-> base]
  <2>1. \A t \in SUBSET (1 .. 0) : t = {}
    OBVIOUS
  <2>2. g = [t \in SUBSET (1 .. 0) |->
               IF t = {} THEN base ELSE Op(g[t \ {Max(t)}], s[Max(t)])]
    BY <2>1
  <2>3. IsFold(g, base, s, 0)
    BY <2>2 DEF IsFold
  <2> QED BY <2>3
<1>2. ASSUME NEW n \in Nat, n \in S
      PROVE  n + 1 \in S
  <2>1. PICK g : IsFold(g, base, s, n)
    BY <1>2
  <2> DEFINE h == [t \in SUBSET (1 .. n + 1) |->
                     IF n + 1 \in t THEN Op(g[t \ {n + 1}], s[n + 1]) ELSE g[t]]
  <2>2. ASSUME NEW t \in SUBSET (1 .. n + 1), n + 1 \notin t
        PROVE  t \in SUBSET (1 .. n)
    BY <2>2
  <2>3. ASSUME NEW t \in SUBSET (1 .. n + 1)
        PROVE  h[t] = IF t = {} THEN base ELSE Op(h[t \ {Max(t)}], s[Max(t)])
    <3>1. CASE n + 1 \in t
      <4>1. Max(t) = n + 1
        BY <3>1, Greatest
      <4>2. h[t \ {n + 1}] = g[t \ {n + 1}]
        OBVIOUS
      <4> QED BY <3>1, <4>1, <4>2
    <3>2. CASE n + 1 \notin t
      <4>1. t \in SUBSET (1 .. n) /\ t \ {Max(t)} \in SUBSET (1 .. n)
        BY <3>2, <2>2
      <4>2. h[t] = g[t] /\ h[t \ {Max(t)}] = g[t \ {Max(t)}]
        BY <3>2
      <4>3. g[t] = IF t = {} THEN base ELSE Op(g[t \ {Max(t)}], s[Max(t)])
        BY <2>1, <4>1 DEF IsFold
      <4> QED BY <4>2, <4>3
    <3> QED BY <3>1, <3>2
  <2>4. h = [t \in SUBSET (1 .. n + 1) |-> h[t]]
    OBVIOUS
  <2> HIDE DEF h
  <2>5. IsFold(h, base, s, n + 1)
    BY <2>3, <2>4 DEF IsFold
  <2> QED BY <2>5
<1> HIDE DEF S
<1>3. Nat \subseteq S
  BY <1>1, <1>2, Induction
<1> QED BY <1>3 DEF S

(* One step of the fold.                                                    *)
LEMMA FoldSteps ==
  ASSUME NEW g, NEW base, NEW s, NEW n \in Nat, IsFold(g, base, s, n)
  PROVE  /\ g[{}] = base
         /\ \A k \in 0 .. n - 1 : g[1 .. k + 1] = Op(g[1 .. k], s[k + 1])
<1>1. g[{}] = base
  BY DEF IsFold
<1>2. ASSUME NEW k \in 0 .. n - 1
      PROVE  g[1 .. k + 1] = Op(g[1 .. k], s[k + 1])
  <2>1. 1 .. k + 1 \in SUBSET (1 .. n) /\ k + 1 \in 1 .. k + 1
    OBVIOUS
  <2>2. Max(1 .. k + 1) = k + 1
    BY <2>1, Greatest
  <2>3. (1 .. k + 1) \ {k + 1} = 1 .. k
    OBVIOUS
  <2> QED BY <2>1, <2>2, <2>3 DEF IsFold
<1> QED BY <1>1, <1>2

(* FoldLeft is that function.                                               *)
LEMMA FoldIs ==
  ASSUME NEW base, NEW s, NEW n \in Nat, DOMAIN s = 1 .. n
  PROVE  \E g : IsFold(g, base, s, n) /\ Fold(base, s) = g[1 .. n]
<1> DEFINE G == CHOOSE g : IsFold(g, base, s, n)
<1>1. IsFold(G, base, s, n)
  BY FoldExists
<1>2. Fold(base, s) = G[1 .. n]
  BY DEF Fold, FoldLeft, MapThenFoldSet, IsFold
<1> QED BY <1>1, <1>2

-----------------------------------------------------------------------------
(* Nothing to fold.                                                         *)
LEMMA FoldEmpty == \A base : Fold(base, << >>) = base
<1> SUFFICES ASSUME NEW base PROVE Fold(base, << >>) = base
  OBVIOUS
<1>1. DOMAIN << >> = 1 .. 0 /\ 1 .. 0 = {}
  OBVIOUS
<1>2. PICK g : IsFold(g, base, << >>, 0) /\ Fold(base, << >>) = g[1 .. 0]
  BY <1>1, FoldIs
<1> QED BY <1>1, <1>2, FoldSteps

(* One element more is folded last.                                         *)
LEMMA FoldLonger ==
  ASSUME NEW base, NEW s, NEW t, NEW n \in Nat,
         DOMAIN s = 1 .. n, DOMAIN t = 1 .. n + 1, \A i \in 1 .. n : s[i] = t[i]
  PROVE  Fold(base, t) = Op(Fold(base, s), t[n + 1])
<1>1. n + 1 \in Nat /\ n \in 0 .. (n + 1) - 1 /\ 0 .. n - 1 \subseteq 0 .. (n + 1) - 1
  OBVIOUS
<1>2. PICK g : IsFold(g, base, s, n) /\ Fold(base, s) = g[1 .. n]
  BY FoldIs
<1>3. PICK h : IsFold(h, base, t, n + 1) /\ Fold(base, t) = h[1 .. n + 1]
  BY <1>1, FoldIs
<1>4. /\ g[{}] = base
      /\ \A k \in 0 .. n - 1 : g[1 .. k + 1] = Op(g[1 .. k], s[k + 1])
  BY <1>2, FoldSteps
<1>5. /\ h[{}] = base
      /\ \A k \in 0 .. (n + 1) - 1 : h[1 .. k + 1] = Op(h[1 .. k], t[k + 1])
  BY <1>1, <1>3, FoldSteps
<1> DEFINE S == {k \in Nat : k <= n => g[1 .. k] = h[1 .. k]}
<1>6. 0 \in S
  <2>1. 1 .. 0 = {}
    OBVIOUS
  <2> QED BY <1>4, <1>5, <2>1
<1>7. ASSUME NEW k \in Nat, k \in S
      PROVE  k + 1 \in S
  <2>1. SUFFICES ASSUME k + 1 <= n PROVE g[1 .. k + 1] = h[1 .. k + 1]
    OBVIOUS
  <2>2. k \in 0 .. n - 1 /\ k \in 0 .. (n + 1) - 1 /\ k + 1 \in 1 .. n
    BY <2>1
  <2>3. g[1 .. k] = h[1 .. k]
    BY <1>7, <2>2
  <2> QED BY <1>4, <1>5, <2>2, <2>3
<1>8. g[1 .. n] = h[1 .. n]
  <2> HIDE DEF S
  <2>1. Nat \subseteq S
    BY <1>6, <1>7, Induction
  <2> QED BY <2>1 DEF S
<1> QED BY <1>1, <1>2, <1>3, <1>5, <1>8

(* One element more is one application of Op more.                          *)
LEMMA FoldAppend ==
  ASSUME NEW T, NEW base, NEW s \in Seq(T), NEW e \in T
  PROVE  Fold(base, Append(s, e)) = Op(Fold(base, s), e)
<1> DEFINE n == Len(s)
           t == Append(s, e)
<1>1. /\ n \in Nat /\ DOMAIN s = 1 .. n /\ DOMAIN t = 1 .. n + 1
      /\ \A i \in 1 .. n : s[i] = t[i]
      /\ t[n + 1] = e
  OBVIOUS
<1> HIDE DEF n, t
<1>2. Fold(base, t) = Op(Fold(base, s), t[n + 1])
  BY <1>1, FoldLonger
<1> QED BY <1>1, <1>2 DEF t
=============================================================================
