----------------------------- MODULE MCRawFiles -----------------------------
(* The parameters of RawFiles for TLC. *)
EXTENDS RawInvariant, TLC

Symmetry == Permutations(Worker)
=============================================================================
