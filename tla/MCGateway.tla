------------------------------ MODULE MCGateway ------------------------------
(* Small instances of Gateway for TLC. *)
EXTENDS Gateway, TLC

CONSTANTS t1, t2, k1, k2

WorkerSymmetry == Permutations(Workers)
=============================================================================
