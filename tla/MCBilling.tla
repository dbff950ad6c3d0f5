------------------------------ MODULE MCBilling -------------------------------
(* An instance of Billing for TLC: one charge and one box, two price lists, and *)
(* two requests at a time; one month is billed.                                 *)
EXTENDS Billing, TLC

CONSTANTS c, b, l1, l2, u1, u2, n1, n2

MCTerms == {[rate |-> 0, fee |-> 0], [rate |-> 1, fee |-> 2]}
Requests == Permutations(User) \cup Permutations(Number)
===============================================================================
