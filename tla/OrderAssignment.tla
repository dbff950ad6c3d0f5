---------------------------- MODULE OrderAssignment ----------------------------
(***************************************************************************)
(* Who handles an order: assign (order.service.ts) and the quick start     *)
(* that takes an unassigned order over (startProcessing, by way of         *)
(* getStatusUpdateData).  Module Orders leaves the column assignedTo out;  *)
(* here it is the subject, and the other status changes are one atomic     *)
(* step each, as module OrderLedger justifies.                             *)
(*                                                                         *)
(* assign reads the order twice: before its transaction and, in another    *)
(* statement, inside it; the write repeats what the second read saw.       *)
(* startProcessing decides once, on its read before the transaction.       *)
(***************************************************************************)
EXTENDS OrderRequests

CONSTANTS
  User,      \* the users who may process orders
  NoUser     \* assignedTo is null

ASSUME AssignmentAssumption == NoUser \notin User

VARIABLE assignee  \* orders.assignedTo

assignVars == <<status, assignee, req>>

AssignInit ==
  /\ status = [o \in Order |-> "draft"]
  /\ assignee = [o \in Order |-> NoUser]
  /\ req = [w \in Worker |-> Idle]

Refused(w) == Done(w) /\ UNCHANGED <<status, assignee>>

-------------------------------------------------------------------------------

\* Every status change but the start of processing.
ChangeStatus(o, to) ==
  /\ to # "in_progress" \/ status[o] = "delivered"
  /\ isValidTransition(status[o], to)
  /\ status' = [status EXCEPT ![o] = to]
  /\ UNCHANGED <<assignee, req>>

BeginStart(w, o, u) ==
  /\ req[w] = Idle
  /\ status[o] = "approved"
  /\ Goto(w, [pc |-> "start", order |-> o, user |-> u, take |-> assignee[o] = NoUser])
  /\ UNCHANGED <<status, assignee>>

StartTx(w) ==
  /\ req[w].pc = "start"
  /\ LET o == req[w].order IN
     \/ /\ status[o] = "approved"
        /\ status' = [status EXCEPT ![o] = "in_progress"]
        /\ assignee' = IF req[w].take THEN [assignee EXCEPT ![o] = req[w].user] ELSE assignee
        /\ Done(w)
     \/ status[o] # "approved" /\ Refused(w)

BeginAssign(w, o, u) ==
  /\ req[w] = Idle
  /\ canAssignOrder(status[o])
  /\ Goto(w, [pc |-> "assign", order |-> o, user |-> u])
  /\ UNCHANGED <<status, assignee>>

\* The read inside the transaction; nothing is written when u has the order already.
AssignRead(w) ==
  /\ req[w].pc = "assign"
  /\ LET o == req[w].order IN
     IF canAssignOrder(status[o]) /\ assignee[o] # req[w].user
       THEN Goto(w, [pc |-> "assignWrite", order |-> o, user |-> req[w].user,
                     sawStatus |-> status[o], sawAssignee |-> assignee[o]])
       ELSE Done(w)
  /\ UNCHANGED <<status, assignee>>

\* WHERE status = current.status AND assignedTo = current.assignedTo.
SameHandler(r) == assignee[r.order] = r.sawAssignee
StillAsRead(r) == status[r.order] = r.sawStatus /\ assignee[r.order] = r.sawAssignee

AssignWrite(w) ==
  /\ req[w].pc = "assignWrite"
  /\ \/ /\ StillAsRead(req[w])
        /\ assignee' = [assignee EXCEPT ![req[w].order] = req[w].user]
        /\ Done(w)
        /\ UNCHANGED status
     \/ ~ StillAsRead(req[w]) /\ Refused(w)

AssignNext ==
  \/ \E o \in Order, to \in OrderStatuses : ChangeStatus(o, to)
  \/ \E w \in Worker, o \in Order, u \in User : BeginStart(w, o, u) \/ BeginAssign(w, o, u)
  \/ \E w \in Worker : StartTx(w) \/ AssignRead(w) \/ AssignWrite(w)

-------------------------------------------------------------------------------
(* Properties *)

\* Nobody is made responsible for an order that is finished: an assignment begun
\* while the order was open and overtaken by its delivery or cancellation is
\* refused.
AssignedWhileOpen ==
  [][\A o \in Order : assignee'[o] # assignee[o] => canAssignOrder(status[o])]_assignVars
===============================================================================
