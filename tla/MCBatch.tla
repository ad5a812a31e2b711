------------------------------ MODULE MCBatch -------------------------------
(***************************************************************************)
(* Batch on small instances.  Events and callers are interchangeable.      *)
(***************************************************************************)
EXTENDS Batch, TLC

Symmetry == Permutations(Event) \cup Permutations(Caller)
=============================================================================
