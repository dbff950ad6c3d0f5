------------------------------ MODULE MCTransfers ------------------------------
(* Instances of Transfers for TLC. *)
EXTENDS Transfers, TLC

CONSTANTS l1, l2, i1, i2, w1, w2

Same == Permutations({l1, l2}) \cup Permutations({i1, i2}) \cup Permutations({w1, w2})
===============================================================================
