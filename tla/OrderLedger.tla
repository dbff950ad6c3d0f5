------------------------------ MODULE OrderLedger -----------------------------
(***************************************************************************)
(* What the order module promises to its users: every order walks the      *)
(* table of legal status changes, and each request on it takes effect at   *)
(* one instant.  In particular the return of the last item out closes the  *)
(* order in the same instant, whatever else happens concurrently.          *)
(*                                                                         *)
(* Orders implements this specification: its handlers read first, check,   *)
(* and write later.  The two places where an item can slip in or stay      *)
(* unpicked are visible here: AddItem is possible in every status, and     *)
(* ChangeStatus to "ready" does not promise that the items were picked.    *)
(***************************************************************************)
EXTENDS OrderMachine

CONSTANTS Order, Item, TypeOf, OrderOf, Legacy

VARIABLES status, itemStatus

vars == <<status, itemStatus>>

ItemsOf(o) == {i \in Item : OrderOf[i] = o}
Exists(o) == status[o] \in OrderStatuses
DeliveredItems(o) == {i \in ItemsOf(o) : itemStatus[i] = "delivered"}

Init ==
  /\ status = [o \in Order |-> IF o \in Legacy THEN "ready" ELSE "absent"]
  /\ itemStatus = [i \in Item |-> IF OrderOf[i] \in Legacy THEN "pending" ELSE "absent"]

\* Items not handed over yet become s.
Settle(o, s) ==
  itemStatus' = [i \in Item |-> IF i \in ItemsOf(o) /\ itemStatus[i] \in {"pending", "picked"}
                                  THEN s ELSE itemStatus[i]]

Create(o, S) ==
  /\ status[o] = "absent"
  /\ S # {} /\ S \subseteq ItemsOf(o)
  /\ status' = [status EXCEPT ![o] = "draft"]
  /\ itemStatus' = [i \in Item |-> IF i \in S THEN "pending" ELSE itemStatus[i]]

AddItem(i) ==
  /\ Exists(OrderOf[i]) /\ itemStatus[i] = "absent"
  /\ itemStatus' = [itemStatus EXCEPT ![i] = "pending"]
  /\ UNCHANGED status

Pick(i, from, to) ==
  /\ {from, to} = {"pending", "picked"}
  /\ status[OrderOf[i]] = "in_progress" /\ TypeOf[OrderOf[i]] = "checkout"
  /\ itemStatus[i] = from
  /\ itemStatus' = [itemStatus EXCEPT ![i] = to]
  /\ UNCHANGED status

ChangeStatus(o, to) ==
  /\ Exists(o)
  /\ isValidTransition(status[o], to) /\ to \notin {"delivered", "completed"}
  /\ ~ (TypeOf[o] = "scan" /\ status[o] = "delivered")
  /\ status' = [status EXCEPT ![o] = to]
  /\ UNCHANGED itemStatus

Deliver(o) ==
  /\ status[o] = "ready"
  /\ status' = [status EXCEPT ![o] = "delivered"]
  /\ Settle(o, IF TypeOf[o] = "return_order" THEN "returned" ELSE "delivered")

Complete(o) ==
  /\ status[o] = "delivered"
  /\ status' = [status EXCEPT ![o] = "completed"]
  /\ Settle(o, "delivered")

Return(i) ==
  LET o == OrderOf[i] IN
  /\ TypeOf[o] = "checkout" /\ status[o] \in {"delivered", "completed"}
  /\ itemStatus[i] = "delivered"
  /\ itemStatus' = [itemStatus EXCEPT ![i] = "returned"]
  /\ status' = [status EXCEPT ![o] = IF DeliveredItems(o) = {i} THEN "completed" ELSE @]

Delete(o) ==
  /\ status[o] \in Terminal
  /\ status' = [status EXCEPT ![o] = "deleted"]
  /\ itemStatus' = [i \in Item |-> IF i \in ItemsOf(o) THEN "absent" ELSE itemStatus[i]]

Next ==
  \/ \E o \in Order, S \in SUBSET Item : Create(o, S)
  \/ \E i \in Item : AddItem(i) \/ Return(i)
  \/ \E i \in Item, from, to \in ItemStatuses : Pick(i, from, to)
  \/ \E o \in Order, to \in OrderStatuses : ChangeStatus(o, to)
  \/ \E o \in Order : Deliver(o) \/ Complete(o) \/ Delete(o)

Spec == Init /\ [][Next]_vars
===============================================================================
