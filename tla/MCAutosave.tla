----------------------------- MODULE MCAutosave -----------------------------
(* Instances of Autosave for TLC: the configurations give numbers only. *)
EXTENDS Autosave
=============================================================================
