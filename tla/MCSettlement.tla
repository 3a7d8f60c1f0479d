---------------------------- MODULE MCSettlement ----------------------------
(* Small instances of Settlement for TLC. *)
EXTENDS Settlement, TLC

CONSTANTS i1, i2, w1, w2, w3

\* Two invoices of two units each: room for a part payment and a race.
MCTotal == [i \in Invoices |-> 2]
\* Every handler; the payment handlers; a payment against the dunning pass;
\* offline claims and their reviews.
EveryOp == AllOps
WorkerSymmetry == Permutations(Workers)
=============================================================================
