------------------------------ MODULE MCWarehouse -----------------------------
(* An instance of Warehouse for TLC: two boxes, two places, two requests.      *)
EXTENDS Warehouse, TLC

CONSTANTS b1, b2, l1, l2, u1, u2

Same == Permutations(Box) \cup Permutations(Loc) \cup Permutations(User)
===============================================================================
