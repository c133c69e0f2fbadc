----------------------------- MODULE MCOnceBox -----------------------------
(* OnceBox on small sets of threads, cells and boxes. *)
EXTENDS OnceBox, TLC

CONSTANTS t1, t2, t3, c1, c2, b1, b2, b3

Symmetry == Permutations(Threads) \cup Permutations(Cells) \cup Permutations(Boxes)
=============================================================================
