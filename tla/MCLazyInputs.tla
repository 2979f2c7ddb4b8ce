---------------------------- MODULE MCLazyInputs ----------------------------
(* Instances of LazyInputs small enough for TLC. *)
EXTENDS LazyInputs

\* Two switches, 3 and 4, that share an input, 2, computed from 1.
SwitchSources == (1 :> {} @@ 2 :> {1} @@ 3 :> {} @@ 4 :> {})
SwitchLazy == (1 :> {} @@ 2 :> {} @@ 3 :> {2} @@ 4 :> {2})
=============================================================================
