---------------------------- MODULE MCIngestAuth ----------------------------
(***************************************************************************)
(* IngestAuth on two keys that share a prefix.                             *)
(***************************************************************************)
EXTENDS IngestAuth, TLC

CONSTANTS k1, k2

SamePrefix == k1 :> "p" @@ k2 :> "p"
Symmetry == Permutations(Call) \cup Permutations(Org) \cup Permutations(Key)
=============================================================================
