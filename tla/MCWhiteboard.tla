---------------------------- MODULE MCWhiteboard ----------------------------
(***************************************************************************)
(* Whiteboard for TLC.  "s" is what is in the box before the key is up.    *)
(***************************************************************************)
EXTENDS Whiteboard

Symmetry == Permutations(Polls)

MCUpper == [n \in Names \cup {NoName} |-> IF n = "s" THEN "S" ELSE n]
=============================================================================
