----------------------------- MODULE OrderMachine -----------------------------
(***************************************************************************)
(* The pure rules of an order: its types and statuses, the table of legal  *)
(* status changes, and the predicates the services ask before acting       *)
(* (order-state-machine.ts, order-assignment.ts).  No state.               *)
(***************************************************************************)

OrderTypes == {"checkout", "return_order", "transfer", "disposal", "scan"}

OrderStatuses ==
  {"draft", "submitted", "approved", "rejected", "in_progress", "ready",
   "delivered", "completed", "cancelled"}

ItemStatuses == {"pending", "picked", "delivered", "returned"}

\* ORDER_TRANSITIONS, as the set of pairs <<from, to>> it allows.
ORDER_TRANSITIONS ==
  { <<"draft", "submitted">>,     <<"draft", "cancelled">>,
    <<"submitted", "approved">>,  <<"submitted", "rejected">>,
    <<"submitted", "cancelled">>,
    <<"approved", "in_progress">>, <<"approved", "cancelled">>,
    <<"rejected", "draft">>,
    <<"in_progress", "ready">>,   <<"in_progress", "cancelled">>,
    <<"ready", "delivered">>,     <<"ready", "cancelled">>,
    <<"delivered", "completed">>, <<"delivered", "in_progress">> }

isValidTransition(from, to) == <<from, to>> \in ORDER_TRANSITIONS

\* The statuses in which nobody works on the order any more.
Terminal == {"completed", "cancelled"}

\* Statuses is the set of item statuses of the order; it is empty exactly when
\* the order has no item.
canMarkReadyAfterPicking(type, statuses) ==
  \/ type # "checkout"
  \/ /\ statuses # {}
     /\ statuses \subseteq {"picked", "delivered", "returned"}

canAssignOrder(s) == s \notin {"delivered", "completed", "rejected", "cancelled"}
===============================================================================
