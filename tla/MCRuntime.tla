------------------------------ MODULE MCRuntime ------------------------------
(* Instances of Runtime for TLC. *)
EXTENDS Runtime, TLC
CONSTANTS w1, w2, f1, f2, d1, d2, t1, t2
FlowDocThreadSymmetry == Permutations(Flows) \cup Permutations(Docs) \cup Permutations(Threads)
=============================================================================
