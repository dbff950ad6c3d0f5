------------------------------ MODULE MCInventory ------------------------------
(* Instances of Inventory for TLC. *)
EXTENDS Inventory, TLC

CONSTANTS d1, d2, c1, c2

Same == Permutations({c1, c2})
===============================================================================
