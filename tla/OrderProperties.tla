--------------------------- MODULE OrderProperties ----------------------------
(***************************************************************************)
(* What the order workflow of module Orders must guarantee.  The runs      *)
(* check each property in the workloads for which the code keeps it.       *)
(***************************************************************************)
EXTENDS Orders

Ledger == INSTANCE OrderLedger WITH status <- status, itemStatus <- itemStatus

\* Every variable has its type: in particular a request holds one of the local
\* states of its handler.
TypeOK ==
  /\ status \in [Order -> Lifecycle]
  /\ announced \in [Order -> Lifecycle \X Lifecycle]
  /\ itemStatus \in [Item -> ItemStatuses \cup {"absent"}]
  /\ scanned \subseteq Item
  /\ quote \in [Order -> SUBSET Item]
  /\ approved \subseteq Order
  /\ proof \subseteq Order
  /\ handovers \in [Item -> Counter]
  /\ returns \in [Item -> Counter]
  /\ billed \in [Item -> Counter]
  /\ box \in [Box -> BoxStatuses]
  /\ orderLock \in [Order -> Worker \cup {NoWorker}]
  /\ boxLock \in [Box -> Worker \cup {NoWorker}]
  /\ req \in [Worker -> Request]

-------------------------------------------------------------------------------
(* Safety *)

\* Two employees who return the same loaned item at the same time (or one who
\* clicks twice) write one return to the custody log, not two: the item is
\* returned exactly when its single return event exists.
ReturnRecordedOnce ==
  \A i \in Tracked : TypeOf[OrderOf[i]] = "checkout" =>
    /\ returns[i] <= 1
    /\ itemStatus[i] = "returned" => returns[i] = 1
    /\ itemStatus[i] \in {"pending", "picked", "delivered"} => returns[i] = 0

\* A scan order reaches the client only with an approved quote, and bills exactly
\* the items (their pages) of that quote, even when an item was added or a file
\* stored between the reads of deliver and its transaction.
ScanBilledAsQuoted ==
  \A o \in Order : TypeOf[o] = "scan" /\ status[o] \in {"delivered", "completed"} =>
    /\ o \in approved
    /\ \A i \in ItemsOf(o) : billed[i] = IF i \in quote[o] THEN 1 ELSE 0

\* A quote is approved only together with the scan files it counts, and while
\* the order is open nobody can change what was approved.
ApprovedQuoteBacked ==
  \A o \in approved : quote[o] # {} /\ quote[o] \subseteq Rows(o) \cap scanned

\* What was handed over was billed, once, and only what is billable: also when the
\* order was reopened and delivered again, or its items were settled by completing
\* it.  (Holds while nobody adds an item concurrently: addItem does not re-check the
\* status, so a row it inserts late is delivered unbilled.)
SettledIsBilled ==
  \A i \in Item : TypeOf[OrderOf[i]] # "scan" /\ itemStatus[i] \in {"delivered", "returned"} =>
    billed[i] = IF i \in Billable(OrderOf[i], {i}) THEN 1 ELSE 0

\* A box is marked as handed out exactly while a checkout that holds it as a whole
\* is out.  Two returns of the same box from two orders must not both believe that
\* the other loan is still open (the box would stay out for ever).
BoxOutIffOnLoan ==
  \A b \in Box : box[b] = "checked_out" <=> \E i \in OnLoan \cap WholeBox : BoxOf[i] = b

-------------------------------------------------------------------------------
(* Steps *)

\* The webhook events a step queues, for one order, are its status changes.
WebhookStep ==
  \A o \in Order :
    LET changes == status[o] \in OrderStatuses /\ status'[o] \in OrderStatuses \ {status[o]}
    IN  announced'[o] = IF changes THEN <<status[o], status'[o]>> ELSE announced[o]

\* Every status change of an order queues one webhook event with the status it
\* really left and the status it entered, in the same transaction; nothing else
\* queues one.  Deleting an order is silent.
WebhooksFollowStatus == [][WebhookStep]_vars

\* The handlers take effect one at a time: see OrderLedger.
ImplementsLedger == Ledger!Spec

-------------------------------------------------------------------------------
(* The inductive invariant behind the safety theorems of OrdersProofs *)

\* An insert on its way concerns a row that does not exist yet, and no two requests
\* insert the same row.
InsertIsFresh(w) ==
  req[w].pc = "addItem" =>
    /\ itemStatus[req[w].item] = "absent"
    /\ status[OrderOf[req[w].item]] # "absent"
    /\ \A v \in Worker \ {w} : req[v] # req[w]

\* A status change on its way is one that updateStatus allows.
UpdateIsLegal(w) ==
  req[w].pc = "updateStatus" =>
    /\ isValidTransition(req[w].from, req[w].to)
    /\ req[w].to # "delivered"
    /\ ~ (TypeOf[req[w].order] = "scan" /\ req[w].from = "delivered" /\ req[w].to = "in_progress")

DeliversItsItems(w) == req[w].pc = "deliver" => req[w].items \subseteq ItemsOf(req[w].order)

DeleteIsLegal(w) == req[w].pc = "delete" => status[req[w].order] \in Terminal \cup {"deleted"}

\* A return between its lock and its commit owns the order row, its item is still
\* on loan, and its count of the items out is still right.
ReturnHoldsOrder(w) ==
  LET o == OrderOf[req[w].item] IN
  /\ req[w].pc \in {"return", "returnCommit"} =>
       /\ TypeOf[o] = "checkout"
       /\ req[w].from = "completed" => status[o] \in {"completed", "deleted"}
  /\ req[w].pc = "returnCommit" =>
       /\ orderLock[o] = w
       /\ req[w].item \in OnLoan
       /\ req[w].last <=> {j \in ItemsOf(o) : itemStatus[j] = "delivered"} = {req[w].item}

\* Only the items of existing orders have rows, and an item without a row was never
\* returned unless its order was deleted since.
RowsHaveOrder ==
  \A i \in Item :
    /\ itemStatus[i] # "absent" => Exists(OrderOf[i])
    /\ itemStatus[i] = "absent" /\ TypeOf[OrderOf[i]] = "checkout" /\ status[OrderOf[i]] # "deleted"
         => returns[i] = 0

\* Whatever requests are under way, what each of them still has to write agrees
\* with the rows it will write to.
WorkflowInv ==
  /\ ReturnRecordedOnce
  /\ RowsHaveOrder
  /\ \A w \in Worker : /\ InsertIsFresh(w) /\ UpdateIsLegal(w) /\ DeliversItsItems(w)
                         /\ DeleteIsLegal(w) /\ ReturnHoldsOrder(w)

\* A quote counts rows that exist and have a file; an approved quote is never empty.
QuotesBacked ==
  \A o \in Order : /\ quote[o] \subseteq Rows(o) \cap scanned
                   /\ o \in approved => quote[o] # {}

\* The statuses of an order that was never delivered and still can be.
Undelivered == {"absent", "draft", "submitted", "approved", "rejected", "in_progress", "ready"}

\* Nothing of a scan order is billed before it is delivered.
ScanUnbilled ==
  \A i \in Item : LET o == OrderOf[i] IN
    TypeOf[o] = "scan" /\ status[o] \in Undelivered => billed[i] = 0

\* What a request about quotes read is still true when it writes, unless the order
\* was deleted since: a row, a file and a quote disappear with their order only.
ScanRequest(w) ==
  LET r == req[w]
      o == r.order
  IN
  /\ r.pc = "quote" => r.quoted # {}
  /\ r.pc \in {"quote", "updateStatus"} /\ status[o] # "deleted" =>
       r.quoted \subseteq Rows(o) \cap scanned
  /\ r.pc = "approveQuote" /\ status[o] # "deleted" => quote[o] # {}
  /\ r.pc = "deliver" /\ TypeOf[o] = "scan" /\ status[o] # "deleted" =>
       o \in approved /\ quote[o] = r.items

\* Every quote under way and every quote stored counts files that are there, and a
\* scan order is billed by its delivery alone.
ScanInv ==
  /\ QuotesBacked
  /\ ScanUnbilled
  /\ ScanBilledAsQuoted
  /\ \A w \in Worker : ScanRequest(w)

\* In this workload an order has all its items from the start.  (addItem checks the
\* status when it reads and not when it inserts, so its row can arrive at any time.)
NoLateInsert == "addItem" \notin Workload

\* While nobody inserts late, a delivery settles all the rows of its order: those it
\* read are those there are, and none is open afterwards.
DeliversAllRows(w) ==
  LET o == req[w].order IN
  /\ req[w].pc # "addItem"
  /\ req[w].pc = "deliver" =>
       status[o] = "deleted" \/ (Exists(o) /\ req[w].items = Rows(o))

NothingLeftOpen ==
  \A o \in Order : status[o] \in {"delivered", "completed"} => OpenItems(o) = {}

RowsInv == NothingLeftOpen /\ \A w \in Worker : DeliversAllRows(w)

\* An item that is not for billing is never billed, and none is billed twice.
BilledAtMostOnce ==
  \A i \in Item : TypeOf[OrderOf[i]] # "scan" =>
    billed[i] <= IF i \in Billable(OrderOf[i], {i}) THEN 1 ELSE 0

BillingInv == SettledIsBilled /\ BilledAtMostOnce

\* In this workload only loans and their returns move boxes: nobody sets a box's
\* status by hand, returns it by an order of its own, or takes a loan out of the
\* count by reopening or deleting its order.
OnlyLoansMoveBoxes ==
  /\ Workload \cap {"addItem", "reopen", "delete", "boxStatus"} = {}
  /\ \A o \in Order : TypeOf[o] # "return_order"

\* A status change on its way reopens nothing, and a return that holds its box still
\* knows whether another loan of that box is out.
ReturnHoldsBox(w) ==
  LET i == req[w].item IN
  /\ req[w].pc # "delete"
  /\ ~ (req[w].pc = "updateStatus" /\ req[w].from = "delivered" /\ req[w].to = "in_progress")
  /\ req[w].pc = "returnCommit" /\ i \in WholeBox =>
       /\ boxLock[BoxOf[i]] = w
       /\ req[w].releaseBox <=> {j \in OnLoan \cap WholeBox : BoxOf[j] = BoxOf[i]} \subseteq {i}

\* What leaves and comes back does so after the delivery of its order.
HandedOutByDelivery ==
  \A i \in Item : itemStatus[i] \in {"delivered", "returned"} =>
    status[OrderOf[i]] \in {"delivered", "completed"}

BoxesInv ==
  /\ BoxOutIffOnLoan
  /\ HandedOutByDelivery
  /\ \A w \in Worker : ReturnHoldsBox(w)

-------------------------------------------------------------------------------
(* Liveness *)

\* An accepted request is answered: no request waits for ever for the row locks
\* of another, also when that one fails or its process dies.
RequestsEnd == \A w \in Worker : req[w] # Idle ~> req[w] = Idle
===============================================================================
