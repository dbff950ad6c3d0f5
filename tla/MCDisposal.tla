------------------------------- MODULE MCDisposal -------------------------------
(* Instances of Disposal for TLC. *)
EXTENDS Disposal, TLC

CONSTANTS b1, b2, f1, f2, u1, u2, u3, list

Clients == Permutations({u1, u2, u3})

\* One hold target: the transfer list of both folders.
Covering == (list :> {f1, f2})
===============================================================================
