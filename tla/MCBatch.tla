------------------------------ MODULE MCBatch ------------------------------
(* Instances of Batch for TLC. *)
EXTENDS Batch, TLC
=============================================================================
