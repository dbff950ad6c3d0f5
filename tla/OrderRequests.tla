----------------------------- MODULE OrderRequests ----------------------------
(***************************************************************************)
(* The orders and the requests on them, as Orders and OrderAssignment      *)
(* share them: a handler reads, remembers what it read, and acts on it in  *)
(* a later step.                                                           *)
(***************************************************************************)
EXTENDS OrderMachine

CONSTANTS
  Order,  \* orders that can be created
  Worker  \* concurrent requests

VARIABLES
  status, \* orders.status
  req     \* what each request has read and where it is: a record with its step, pc

Idle == [pc |-> "idle"]
Goto(w, r) == req' = [req EXCEPT ![w] = r]
Done(w) == Goto(w, Idle)
===============================================================================
