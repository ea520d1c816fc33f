------------------------- MODULE MCProjectLifecycle -------------------------
(* The parameters of ProjectLifecycle for TLC. *)
EXTENDS ProjectInvariant
=============================================================================
