-------------------------------- MODULE Orders --------------------------------
(***************************************************************************)
(* The order workflow of ArchiveCore (server/src/modules/orders): orders,  *)
(* their items, scan files and quotes, the custody log, the status of the  *)
(* boxes they hand out, the delivery billing events and the status-change  *)
(* webhooks, under concurrent HTTP requests.                               *)
(*                                                                         *)
(* A request is a worker w with a local record req[w].  A handler of the   *)
(* code reads the order outside any transaction and decides on what it     *)
(* read; later it runs a transaction (PostgreSQL, read committed) whose    *)
(* WHERE clauses re-check part of it.  The two are separate actions here:  *)
(* Begin...(w, ...) takes the snapshot and the early returns, ...Tx(w) is  *)
(* the transaction.  A transaction commits at one instant, except that of  *)
(* returnLoanItem, which locks rows, counts, and only then writes.         *)
(*                                                                         *)
(* Row locks matter through returnLoanItem's SELECT ... FOR UPDATE: a      *)
(* statement that writes a locked row waits until the lock is released.    *)
(***************************************************************************)
EXTENDS Integers, FiniteSets, OrderRequests

CONSTANTS
  Item,       \* order items (rows) that can be created
  Box,        \* boxes in the archive
  TypeOf,     \* TypeOf[o]: the type order o is created with
  OrderOf,    \* OrderOf[i]: the order item i belongs to
  BoxOf,      \* BoxOf[i]: the box of item i's target (getOrderItemBoxId), or NoBox
  WholeBox,   \* the items whose target is a box itself, not a part of its content
  Tracked,    \* the items with a custody target (all but a list position without folder)
  Legacy,     \* scan orders made ready before quotes existed
  Workload,   \* the operations users call in this instance
  MaxCount,   \* custody and billing counters saturate here
  NoBox, NoWorker

Operations ==
  {"create", "addItem", "submitted", "approved", "rejected", "in_progress",
   "reopen", "ready", "completed", "cancelled", "pick", "deliver", "return",
   "delete", "upload", "quote", "approveQuote", "boxStatus"}

ASSUME OrdersAssumption ==
  /\ TypeOf \in [Order -> OrderTypes]
  /\ OrderOf \in [Item -> Order]
  /\ BoxOf \in [Item -> Box \cup {NoBox}]
  /\ WholeBox \subseteq {i \in Item : BoxOf[i] # NoBox}
  /\ WholeBox \subseteq Tracked /\ Tracked \subseteq Item
  /\ Legacy \subseteq {o \in Order : TypeOf[o] = "scan"}
  /\ Workload \subseteq Operations
  /\ MaxCount \in Nat /\ MaxCount >= 2
  /\ NoBox \notin Box
  /\ NoWorker \notin Worker

VARIABLES
  announced,   \* the last status change queued for the webhooks: <<previous, new>>
  itemStatus,  \* order_items.itemStatus; "absent" when there is no such row
  scanned,     \* the items that have a row in order_scan_files
  quote,       \* order_scan_quotes.itemPages: the items quoted; {} when no quote
  approved,    \* the orders whose quote has approvedAt
  proof,       \* the orders with a row in order_handover_proofs
  handovers,   \* custody events of type handover written for an item
  returns,     \* custody events of type return_event written for an item
  billed,      \* billing events (order_delivery, item) written for an item
  box,         \* boxes.status
  orderLock,   \* the request holding FOR UPDATE on the order row
  boxLock      \* the request holding FOR UPDATE on the box row

orderVars == <<status, announced>>
quoteVars == <<quote, approved>>
custodyVars == <<proof, handovers, returns>>
db == <<orderVars, itemStatus, scanned, quoteVars, custodyVars, billed, box>>
locks == <<orderLock, boxLock>>
vars == <<status, announced, itemStatus, scanned, quote, approved, proof,
          handovers, returns, billed, box, orderLock, boxLock, req>>

-------------------------------------------------------------------------------
(* State *)

\* An order is "absent" before its creation, "deleted" after delete.
Lifecycle == OrderStatuses \cup {"absent", "deleted"}
BoxStatuses == {"active", "checked_out", "lost", "damaged"}
Request ==
  {Idle}
  \cup [pc : {"addItem", "upload"}, item : Item]
  \cup [pc : {"markReady", "delete", "approveQuote"}, order : Order]
  \cup [pc : {"updateStatus"}, order : Order, from : OrderStatuses,
        to : OrderStatuses, quoted : SUBSET Item]
  \cup [pc : {"deliver"}, order : Order, items : SUBSET Item, proof : BOOLEAN]
  \cup [pc : {"quote"}, order : Order, quoted : SUBSET Item]
  \cup [pc : {"return"}, item : Item, from : {"delivered", "completed"}]
  \cup [pc : {"returnCommit"}, item : Item, from : {"delivered", "completed"},
        last : BOOLEAN, releaseBox : BOOLEAN]

Counter == 0 .. MaxCount
Bump(count, S) ==
  [i \in Item |-> IF i \in S /\ count[i] < MaxCount THEN count[i] + 1 ELSE count[i]]

ItemsOf(o) == {i \in Item : OrderOf[i] = o}
Rows(o) == {i \in ItemsOf(o) : itemStatus[i] # "absent"}
Exists(o) == status[o] \in OrderStatuses

\* Items of o that a delivery or a completion still has to settle.
OpenItems(o) == {i \in ItemsOf(o) : itemStatus[i] \in {"pending", "picked"}}

\* Items handed out and not back, as returnLoanItem and getActiveLoans count them.
OnLoan == {i \in Item : /\ itemStatus[i] = "delivered"
                        /\ TypeOf[OrderOf[i]] = "checkout"
                        /\ status[OrderOf[i]] \in {"delivered", "completed"}}

\* scanQuoteMatchesItems and prepareScanQuote: page counts never change once a
\* scan is stored, so the pages of a quote are its set of scanned items.
SomeItem(S) == S # {}
AllScanned(S) == S # {} /\ S \subseteq scanned
AnyQuoteMatches(o) == quote[o] # {}
QuoteMatches(o) == AllScanned(Rows(o)) /\ quote[o] = Rows(o)

\* getDeliveryServiceCode: the items of o a delivery bills.
Billable(o, S) ==
  CASE TypeOf[o] = "transfer" -> {}
    [] TypeOf[o] = "disposal" -> S \cap WholeBox
    [] TypeOf[o] = "scan" -> S \cap scanned
    [] OTHER -> S

Init ==
  /\ status = [o \in Order |-> IF o \in Legacy THEN "ready" ELSE "absent"]
  /\ announced = [o \in Order |-> <<"absent", "absent">>]
  /\ itemStatus = [i \in Item |-> IF OrderOf[i] \in Legacy THEN "pending" ELSE "absent"]
  /\ scanned = {i \in Item : OrderOf[i] \in Legacy}
  /\ quote = [o \in Order |-> {}]
  /\ approved = {}
  /\ proof = {}
  /\ handovers = [i \in Item |-> 0]
  /\ returns = [i \in Item |-> 0]
  /\ billed = [i \in Item |-> 0]
  /\ box = [b \in Box |-> "active"]
  /\ orderLock = [o \in Order |-> NoWorker]
  /\ boxLock = [b \in Box |-> NoWorker]
  /\ req = [w \in Worker |-> Idle]

-------------------------------------------------------------------------------
(* Requests *)

Calls(w, operation) == operation \in Workload /\ req[w] = Idle
\* An error nobody translates into an answer.
Unanswered(w) == UNCHANGED <<db, locks, req>>

\* The request ends with an error (404, 409, a constraint violation): its
\* transaction is rolled back.
Conflict(w) == Done(w) /\ UNCHANGED <<db, locks>>

OrderRowFree(o) == orderLock[o] = NoWorker
BoxRowsFree(S) == \A b \in S : boxLock[b] = NoWorker

\* WHERE id = o AND status = s: the order is still in the status the request read.
StatusNotRechecked(o, s) == TRUE
StillIn(o, s) == status[o] = s

SetStatus(o, from, to) ==
  /\ status' = [status EXCEPT ![o] = to]
  /\ announced' = [announced EXCEPT ![o] = <<from, to>>]

-------------------------------------------------------------------------------
(* Creating orders and items *)

Create(w, o, S) ==
  /\ Calls(w, "create")
  /\ status[o] = "absent"
  /\ S # {} /\ S \subseteq ItemsOf(o)
  /\ TypeOf[o] = "scan" => S \cap WholeBox = {}
  /\ status' = [status EXCEPT ![o] = "draft"]
  /\ itemStatus' = [i \in Item |-> IF i \in S THEN "pending" ELSE itemStatus[i]]
  /\ UNCHANGED <<announced, scanned, quoteVars, custodyVars, billed, box, locks, req>>

BeginAddItem(w, i) ==
  LET o == OrderOf[i] IN
  /\ Calls(w, "addItem")
  /\ Exists(o)
  /\ status[o] \notin {"ready", "delivered", "completed", "cancelled"}
  /\ TypeOf[o] = "scan" => i \notin WholeBox
  /\ itemStatus[i] = "absent"
  /\ \A v \in Worker : req[v] # [pc |-> "addItem", item |-> i]
  /\ Goto(w, [pc |-> "addItem", item |-> i])
  /\ UNCHANGED <<db, locks>>

\* A plain INSERT: nothing re-checks the order's status.  Its foreign key needs
\* the order row, and waits for a FOR UPDATE lock on it.
AddItemTx(w) ==
  /\ req[w].pc = "addItem"
  /\ LET i == req[w].item IN
     /\ OrderRowFree(OrderOf[i])
     /\ \/ /\ Exists(OrderOf[i])
           /\ itemStatus' = [itemStatus EXCEPT ![i] = "pending"]
           /\ Done(w)
           /\ UNCHANGED <<orderVars, scanned, quoteVars, custodyVars, billed, box, locks>>
        \/ ~ Exists(OrderOf[i]) /\ Conflict(w)

\* updateItemStatus: one guarded UPDATE; the read before it adds no condition.
Pick(w, i, from, to) ==
  /\ Calls(w, "pick")
  /\ <<from, to>> \in {<<"pending", "picked">>, <<"picked", "pending">>}
  /\ TypeOf[OrderOf[i]] = "checkout"
  /\ StillIn(OrderOf[i], "in_progress")
  /\ itemStatus[i] = from
  /\ itemStatus' = [itemStatus EXCEPT ![i] = to]
  /\ UNCHANGED <<orderVars, scanned, quoteVars, custodyVars, billed, box, locks, req>>

-------------------------------------------------------------------------------
(* Status changes: submit, approve, reject, startProcessing, markReady,      *)
(* complete and cancel all go through updateStatus                           *)

\* What updateStatus refuses after its read.
MayUpdateStatus(o, to) ==
  /\ Exists(o)
  /\ isValidTransition(status[o], to)
  /\ ~ (TypeOf[o] = "scan" /\ status[o] = "delivered" /\ to = "in_progress")
  /\ (TypeOf[o] = "scan" /\ to = "ready") => AllScanned(Rows(o))

GotoUpdateStatus(w, o, to) ==
  Goto(w, [pc |-> "updateStatus", order |-> o, from |-> status[o], to |-> to,
           quoted |-> IF TypeOf[o] = "scan" /\ to = "ready" THEN Rows(o) ELSE {}])

BeginUpdateStatus(w, o, to) ==
  /\ to \in {"submitted", "approved", "rejected", "in_progress", "completed", "cancelled"}
  /\ IF to = "in_progress" /\ status[o] = "delivered" THEN Calls(w, "reopen")
                                                      ELSE Calls(w, to)
  /\ MayUpdateStatus(o, to)
  /\ GotoUpdateStatus(w, o, to)
  /\ UNCHANGED <<db, locks>>

\* markReady checks the files and the picking on its own read of the order ...
BeginMarkReady(w, o) ==
  /\ Calls(w, "ready")
  /\ Exists(o)
  /\ TypeOf[o] = "scan" => AllScanned(Rows(o))
  /\ status[o] = "in_progress" =>
       canMarkReadyAfterPicking(TypeOf[o], {itemStatus[i] : i \in Rows(o)})
  /\ Goto(w, [pc |-> "markReady", order |-> o])
  /\ UNCHANGED <<db, locks>>

\* ... and calls updateStatus, which reads it again.
MarkReadyRead(w) ==
  /\ req[w].pc = "markReady"
  /\ LET o == req[w].order IN
     IF MayUpdateStatus(o, "ready") THEN GotoUpdateStatus(w, o, "ready") ELSE Done(w)
  /\ UNCHANGED <<db, locks>>

UpdateStatusTx(w) ==
  /\ req[w].pc = "updateStatus"
  /\ LET r == req[w]
         o == r.order
     IN
     /\ OrderRowFree(o)
     /\ \/ /\ StillIn(o, r.from)
           /\ r.quoted # {} => quote[o] = {}
           /\ SetStatus(o, r.from, r.to)
           /\ quote' = IF r.quoted = {} THEN quote ELSE [quote EXCEPT ![o] = r.quoted]
           /\ itemStatus' = [i \in Item |->
                IF r.to = "completed" /\ i \in OpenItems(o) THEN "delivered"
                                                            ELSE itemStatus[i]]
           /\ Done(w)
           /\ UNCHANGED <<scanned, approved, custodyVars, billed, box, locks>>
        \/ /\ ~ (StillIn(o, r.from) /\ (r.quoted # {} => quote[o] = {}))
           /\ Conflict(w)

-------------------------------------------------------------------------------
(* Scan files and quotes *)

BeginUpload(w, i) ==
  /\ Calls(w, "upload")
  /\ itemStatus[i] # "absent"
  /\ TypeOf[OrderOf[i]] = "scan"
  /\ StillIn(OrderOf[i], "in_progress")
  /\ i \notin scanned
  /\ Goto(w, [pc |-> "upload", item |-> i])
  /\ UNCHANGED <<db, locks>>

\* After the object is stored: INSERT of the file row, one per item.
UploadTx(w) ==
  /\ req[w].pc = "upload"
  /\ LET i == req[w].item IN
     \/ /\ itemStatus[i] # "absent" /\ i \notin scanned
        /\ scanned' = scanned \cup {i}
        /\ Done(w)
        /\ UNCHANGED <<orderVars, itemStatus, quoteVars, custodyVars, billed, box, locks>>
     \/ (itemStatus[i] = "absent" \/ i \in scanned) /\ Conflict(w)

BeginPrepareQuote(w, o) ==
  /\ Calls(w, "quote")
  /\ TypeOf[o] = "scan" /\ status[o] = "ready"
  /\ AllScanned(Rows(o))
  /\ Goto(w, [pc |-> "quote", order |-> o, quoted |-> Rows(o)])
  /\ UNCHANGED <<db, locks>>

PrepareQuoteTx(w) ==
  /\ req[w].pc = "quote"
  /\ LET o == req[w].order IN
     /\ OrderRowFree(o)
     /\ \/ /\ StillIn(o, "ready") /\ quote[o] = {}
           /\ quote' = [quote EXCEPT ![o] = req[w].quoted]
           /\ Done(w)
           /\ UNCHANGED <<orderVars, itemStatus, scanned, approved, custodyVars, billed, box,
                          locks>>
        \/ ~ (StillIn(o, "ready") /\ quote[o] = {}) /\ Conflict(w)

BeginApproveQuote(w, o) ==
  /\ Calls(w, "approveQuote")
  /\ TypeOf[o] = "scan" /\ status[o] = "ready"
  /\ QuoteMatches(o)
  /\ Goto(w, [pc |-> "approveQuote", order |-> o])
  /\ UNCHANGED <<db, locks>>

ApproveQuoteTx(w) ==
  /\ req[w].pc = "approveQuote"
  /\ LET o == req[w].order IN
     /\ OrderRowFree(o)
     /\ \/ /\ StillIn(o, "ready") /\ o \notin approved
           /\ approved' = approved \cup {o}
           /\ Done(w)
           /\ UNCHANGED <<orderVars, itemStatus, scanned, quote, custodyVars, billed, box, locks>>
        \/ ~ (StillIn(o, "ready") /\ o \notin approved) /\ Conflict(w)

-------------------------------------------------------------------------------
(* Delivery *)

\* What deliver refuses after its reads of the order and of the quote.
MayDeliver(o) ==
  /\ Exists(o)
  /\ isValidTransition(status[o], "delivered")
  /\ TypeOf[o] = "scan" => o \in approved /\ QuoteMatches(o)

BeginDeliver(w, o, withProof) ==
  /\ Calls(w, "deliver")
  /\ MayDeliver(o)
  /\ withProof => TypeOf[o] \in {"checkout", "return_order"}
  /\ Goto(w, [pc |-> "deliver", order |-> o, items |-> Rows(o), proof |-> withProof])
  /\ UNCHANGED <<db, locks>>

\* The boxes whose status a delivery overwrites: the whole boxes among the items
\* it read, for a checkout or a return order.
BoxesMoved(o, S) ==
  IF TypeOf[o] \in {"checkout", "return_order"} THEN {BoxOf[i] : i \in S \cap WholeBox} ELSE {}

\* createMany with skipDuplicates on the unique key (order_delivery, item, service).
DuplicatesKept(S) == S
NotBilledYet(S) == {i \in S : billed[i] = 0}

\* Item rows are settled as they are now; custody, boxes and billing follow the
\* items read before the transaction.
DeliverTx(w) ==
  /\ req[w].pc = "deliver"
  /\ LET r == req[w]
         o == r.order
         back == TypeOf[o] = "return_order"
         moved == BoxesMoved(o, r.items)
         inCustody == IF TypeOf[o] = "scan" THEN {} ELSE r.items \cap Tracked
     IN
     /\ OrderRowFree(o)
     /\ \/ /\ StillIn(o, "ready")
           /\ r.proof => o \notin proof
           /\ BoxRowsFree(moved)
           /\ SetStatus(o, "ready", "delivered")
           /\ itemStatus' = [i \in Item |->
                IF i \in OpenItems(o) THEN IF back THEN "returned" ELSE "delivered"
                                      ELSE itemStatus[i]]
           /\ proof' = IF r.proof THEN proof \cup {o} ELSE proof
           /\ handovers' = IF back THEN handovers ELSE Bump(handovers, inCustody)
           /\ returns' = IF back THEN Bump(returns, inCustody) ELSE returns
           /\ box' = [b \in Box |-> IF b \notin moved THEN box[b]
                                    ELSE IF back THEN "active" ELSE "checked_out"]
           /\ billed' = Bump(billed, NotBilledYet(Billable(o, r.items)))
           /\ Done(w)
           /\ UNCHANGED <<scanned, quoteVars, locks>>
        \/ /\ ~ (StillIn(o, "ready") /\ (r.proof => o \notin proof))
           /\ Conflict(w)

-------------------------------------------------------------------------------
(* Returning one item of a checkout *)

BeginReturn(w, i) ==
  /\ Calls(w, "return")
  /\ i \in OnLoan
  /\ Goto(w, [pc |-> "return", item |-> i, from |-> status[OrderOf[i]]])
  /\ UNCHANGED <<db, locks>>

\* SELECT ... FOR UPDATE of the order, then of the item's box.
LockOrderOnly(w, i) ==
  /\ orderLock' = [orderLock EXCEPT ![OrderOf[i]] = w]
  /\ UNCHANGED boxLock
LockRows(w, i) ==
  /\ orderLock' = [orderLock EXCEPT ![OrderOf[i]] = w]
  /\ boxLock' = [b \in Box |-> IF b = BoxOf[i] THEN w ELSE boxLock[b]]

\* COMMIT or ROLLBACK.
UnlockRows(w) ==
  /\ orderLock' = [o \in Order |-> IF orderLock[o] = w THEN NoWorker ELSE orderLock[o]]
  /\ boxLock' = [b \in Box |-> IF boxLock[b] = w THEN NoWorker ELSE boxLock[b]]

\* WHERE itemStatus = 'delivered' AND order.status IN ('delivered', 'completed').
LoanNotRechecked(i) == itemStatus[i] # "absent"
StillOnLoan(i) == i \in OnLoan

\* With the rows locked: the guarded update of the item and the two counts.
ReturnLock(w) ==
  /\ req[w].pc = "return"
  /\ LET i == req[w].item
         o == OrderOf[i]
     IN
     /\ OrderRowFree(o) /\ BoxRowsFree({BoxOf[i]} \ {NoBox})
     /\ \/ /\ StillOnLoan(i)
           /\ LockRows(w, i)
           /\ Goto(w, [pc |-> "returnCommit", item |-> i, from |-> req[w].from,
                       last |-> {j \in ItemsOf(o) : itemStatus[j] = "delivered"} = {i},
                       releaseBox |-> {j \in OnLoan \cap WholeBox : BoxOf[j] = BoxOf[i]}
                                        \subseteq {i}])
           /\ UNCHANGED db
        \/ ~ StillOnLoan(i) /\ Conflict(w)

ReturnCommit(w) ==
  /\ req[w].pc = "returnCommit"
  /\ LET r == req[w]
         i == r.item
         o == OrderOf[i]
     IN
     /\ itemStatus' = [itemStatus EXCEPT ![i] = "returned"]
     /\ returns' = Bump(returns, {i} \cap Tracked)
     /\ IF r.last /\ StillIn(o, "delivered")
          THEN SetStatus(o, r.from, "completed")
          ELSE UNCHANGED orderVars
     /\ box' = [b \in Box |-> IF b = BoxOf[i] /\ i \in WholeBox /\ r.releaseBox
                                THEN "active" ELSE box[b]]
     /\ UnlockRows(w)
     /\ Done(w)
     /\ UNCHANGED <<scanned, quoteVars, proof, handovers, billed>>

-------------------------------------------------------------------------------
(* Deleting a closed order *)

BeginDelete(w, o) ==
  /\ Calls(w, "delete")
  /\ status[o] \in Terminal
  /\ Rows(o) \cap scanned = {}
  /\ Goto(w, [pc |-> "delete", order |-> o])
  /\ UNCHANGED <<db, locks>>

\* Items, quote and proof cascade; custody and billing events stay.  A scan file
\* stored since the check blocks the cascade.
DeleteTx(w) ==
  /\ req[w].pc = "delete"
  /\ LET o == req[w].order IN
     /\ OrderRowFree(o)
     /\ \/ /\ Exists(o) /\ Rows(o) \cap scanned = {}
           /\ status' = [status EXCEPT ![o] = "deleted"]
           /\ itemStatus' = [i \in Item |-> IF i \in ItemsOf(o) THEN "absent" ELSE itemStatus[i]]
           /\ quote' = [quote EXCEPT ![o] = {}]
           /\ approved' = approved \ {o}
           /\ proof' = proof \ {o}
           /\ Done(w)
           /\ UNCHANGED <<announced, scanned, handovers, returns, billed, box, locks>>
        \/ ~ (Exists(o) /\ Rows(o) \cap scanned = {}) /\ Conflict(w)

-------------------------------------------------------------------------------
(* The rest of the system *)

\* boxService.changeStatus: any status outside the disposal process.
ChangeBoxStatus(w, b, s) ==
  /\ Calls(w, "boxStatus")
  /\ boxLock[b] = NoWorker
  /\ box' = [box EXCEPT ![b] = s]
  /\ UNCHANGED <<orderVars, itemStatus, scanned, quoteVars, custodyVars, billed, locks, req>>

\* The server process or its connection dies: PostgreSQL rolls the transaction
\* back and releases its locks.
Crash(w) ==
  /\ req[w] # Idle
  /\ Done(w)
  /\ UnlockRows(w)
  /\ UNCHANGED db

Begin(w) ==
  \/ \E o \in Order, S \in SUBSET Item : Create(w, o, S)
  \/ \E i \in Item : BeginAddItem(w, i)
  \/ \E i \in Item, from, to \in ItemStatuses : Pick(w, i, from, to)
  \/ \E o \in Order, to \in OrderStatuses : BeginUpdateStatus(w, o, to)
  \/ \E o \in Order : BeginMarkReady(w, o)
  \/ \E i \in Item : BeginUpload(w, i)
  \/ \E o \in Order : BeginPrepareQuote(w, o)
  \/ \E o \in Order : BeginApproveQuote(w, o)
  \/ \E o \in Order, withProof \in BOOLEAN : BeginDeliver(w, o, withProof)
  \/ \E i \in Item : BeginReturn(w, i)
  \/ \E o \in Order : BeginDelete(w, o)
  \/ \E b \in Box, s \in BoxStatuses : ChangeBoxStatus(w, b, s)

\* What a request does by itself once it was accepted.
Step(w) ==
  \/ AddItemTx(w)
  \/ MarkReadyRead(w)
  \/ UpdateStatusTx(w)
  \/ UploadTx(w)
  \/ PrepareQuoteTx(w)
  \/ ApproveQuoteTx(w)
  \/ DeliverTx(w)
  \/ ReturnLock(w)
  \/ ReturnCommit(w)
  \/ DeleteTx(w)

Next == \E w \in Worker : Begin(w) \/ Step(w) \/ Crash(w)

Spec == Init /\ [][Next]_vars

\* Node runs an accepted request to its end, and PostgreSQL serves the waiters of
\* a row lock in the order they came, so none of them is passed over for ever.
FairSpec == Spec /\ \A w \in Worker : SF_vars(Step(w))
===============================================================================
