----------------------------- MODULE MCCollect ------------------------------
(* The parameters of Collect for TLC. *)
EXTENDS Collect, TLC

CONSTANTS i1, i2, f1, f2, r1, r2

MCFolderOf == i1 :> f1 @@ i2 :> f1
=============================================================================
