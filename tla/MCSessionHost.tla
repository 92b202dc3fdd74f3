--------------------------- MODULE MCSessionHost ---------------------------
(***************************************************************************)
(* SessionHost for TLC: the operations and faults of each run are given in *)
(* its .cfg; names, batches and threads are model values.                  *)
(***************************************************************************)
EXTENDS SessionHost, TLC

Symmetry ==
  Permutations(Sessions) \cup Permutations(Texts) \cup Permutations(Threads)
=============================================================================
