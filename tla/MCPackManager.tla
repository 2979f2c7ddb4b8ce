---------------------------- MODULE MCPackManager ----------------------------
(* Instances of PackManager for TLC: the second pack requires the first. *)
EXTENDS PackManager, TLC
CONSTANTS c1, c2
RequiresFirst == [p \in Packs |-> IF p = 2 THEN {1} ELSE {}]
BrokenUpgrade == {<<2, 2>>}
NewestIsDirect == {<<1, 2>>}
ClientSymmetry == Permutations(Clients)
=============================================================================
