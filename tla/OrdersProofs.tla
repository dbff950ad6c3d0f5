----------------------------- MODULE OrdersProofs -----------------------------
(***************************************************************************)
(* Theorems about the order workflow, for every set of orders, items,      *)
(* boxes and concurrent requests, every assignment of types and boxes and  *)
(* every workload; and, at the end, about what the timers make of an order *)
(* and about who handles it.                                               *)
(***************************************************************************)
EXTENDS OrderProperties, OrderReminders, TLAPS

USE OrdersAssumption DEF Operations

-------------------------------------------------------------------------------
(* Types *)

\* A counter stays a counter, and no counter but those of S moves.
LEMMA BumpType ==
  ASSUME NEW count \in [Item -> Counter], NEW S
  PROVE  Bump(count, S) \in [Item -> Counter]
  BY DEF Bump, Counter

\* The rows of an order are items of it.
LEMMA RowsType ==
  ASSUME NEW o \in Order
  PROVE  Rows(o) \in SUBSET Item
  BY DEF Rows, ItemsOf

\* The empty archive, and the scan orders that predate quotes, are well-typed.
LEMMA InitTypeOK == Init => TypeOK
  BY DEF Init, TypeOK, Lifecycle, OrderStatuses, ItemStatuses, BoxStatuses, Counter, Request,
           Idle

\* The fields a request needs are there, and of the right sort, in every local state.
LEMMA RequestFields ==
  ASSUME NEW r \in Request
  PROVE  /\ r.pc \in {"addItem", "upload", "return", "returnCommit"} => r.item \in Item
         /\ r.pc \in {"markReady", "delete", "approveQuote", "updateStatus", "deliver", "quote"}
              => r.order \in Order
         /\ r.pc = "updateStatus" => /\ r.from \in OrderStatuses /\ r.to \in OrderStatuses
                                     /\ r.quoted \in SUBSET Item
         /\ r.pc = "quote" => r.quoted \in SUBSET Item
         /\ r.pc = "deliver" => r.items \in SUBSET Item /\ r.proof \in BOOLEAN
         /\ r.pc \in {"return", "returnCommit"} => r.from \in {"delivered", "completed"}
         /\ r.pc = "returnCommit" => r.last \in BOOLEAN /\ r.releaseBox \in BOOLEAN
  BY DEF Request, Idle

\* An insert on its way is known by its item.
LEMMA AddItemRequest ==
  ASSUME NEW r \in Request, r.pc = "addItem"
  PROVE  r.item \in Item /\ r = [pc |-> "addItem", item |-> r.item]
  BY DEF Request, Idle

\* A request that ends, or that goes on with a well-formed local state.
LEMMA GotoType ==
  ASSUME req \in [Worker -> Request], NEW w \in Worker, NEW r \in Request, Goto(w, r)
  PROVE  req' \in [Worker -> Request]
  BY DEF Goto

\* A worker without a request is well-typed.
LEMMA IdleType == Idle \in Request
  BY DEF Request

\* A status change keeps the statuses and the queued webhook events well-formed.
LEMMA SetStatusType ==
  ASSUME NEW o \in Order, NEW from \in OrderStatuses, NEW to \in OrderStatuses,
         status \in [Order -> Lifecycle], announced \in [Order -> Lifecycle \X Lifecycle],
         SetStatus(o, from, to)
  PROVE  status' \in [Order -> Lifecycle] /\ announced' \in [Order -> Lifecycle \X Lifecycle]
  BY DEF SetStatus, Lifecycle

\* An aborted request changes nothing but itself.
LEMMA ConflictTypeOK ==
  ASSUME TypeOK, NEW w \in Worker, Conflict(w)
  PROVE  TypeOK'
<1>1. req' \in [Worker -> Request]
  BY GotoType, IdleType DEF TypeOK, Conflict, Done
<1> QED
  BY <1>1 DEF TypeOK, Conflict, db, orderVars, quoteVars, custodyVars, locks

\* Every handler step, every transaction and every crash keeps the types.
LEMMA NextTypeOK == TypeOK /\ [Next]_vars => TypeOK'
<1> SUFFICES ASSUME TypeOK, [Next]_vars PROVE TypeOK'
    OBVIOUS
<1> USE DEF TypeOK, db, orderVars, quoteVars, custodyVars, locks
<1>1. CASE UNCHANGED vars
  BY <1>1 DEF vars
<1>2. ASSUME NEW w \in Worker, Begin(w) PROVE TypeOK'
  <2>1. ASSUME NEW o \in Order, NEW S \in SUBSET Item, Create(w, o, S) PROVE TypeOK'
    BY <2>1 DEF Create, Lifecycle, OrderStatuses, ItemStatuses
  <2>2. ASSUME NEW i \in Item, BeginAddItem(w, i) PROVE TypeOK'
    BY <2>2 DEF BeginAddItem, Goto, Request
  <2>3. ASSUME NEW i \in Item, NEW from \in ItemStatuses, NEW to \in ItemStatuses, Pick(w, i, from, to)
        PROVE  TypeOK'
    BY <2>3 DEF Pick, ItemStatuses
  <2>4. ASSUME NEW o \in Order, NEW to \in OrderStatuses, BeginUpdateStatus(w, o, to) PROVE TypeOK'
    BY <2>4, RowsType
         DEF BeginUpdateStatus, GotoUpdateStatus, MayUpdateStatus, Exists, Goto, Request
  <2>5. ASSUME NEW o \in Order, BeginMarkReady(w, o) PROVE TypeOK'
    BY <2>5 DEF BeginMarkReady, Goto, Request
  <2>6. ASSUME NEW i \in Item, BeginUpload(w, i) PROVE TypeOK'
    BY <2>6 DEF BeginUpload, Goto, Request
  <2>7. ASSUME NEW o \in Order, BeginPrepareQuote(w, o) PROVE TypeOK'
    BY <2>7, RowsType DEF BeginPrepareQuote, Goto, Request
  <2>8. ASSUME NEW o \in Order, BeginApproveQuote(w, o) PROVE TypeOK'
    BY <2>8 DEF BeginApproveQuote, Goto, Request
  <2>9. ASSUME NEW o \in Order, NEW withProof \in BOOLEAN, BeginDeliver(w, o, withProof) PROVE TypeOK'
    BY <2>9, RowsType DEF BeginDeliver, Goto, Request
  <2>10. ASSUME NEW i \in Item, BeginReturn(w, i) PROVE TypeOK'
    BY <2>10 DEF BeginReturn, OnLoan, Goto, Request
  <2>11. ASSUME NEW o \in Order, BeginDelete(w, o) PROVE TypeOK'
    BY <2>11 DEF BeginDelete, Goto, Request
  <2>12. ASSUME NEW b \in Box, NEW s \in BoxStatuses, ChangeBoxStatus(w, b, s) PROVE TypeOK'
    BY <2>12 DEF ChangeBoxStatus
  <2> QED
    BY <1>2, <2>1, <2>2, <2>3, <2>4, <2>5, <2>6, <2>7, <2>8, <2>9, <2>10, <2>11, <2>12 DEF Begin
<1>3. ASSUME NEW w \in Worker, Step(w) PROVE TypeOK'
  <2>1. req[w] \in Request
    OBVIOUS
  <2>2. Conflict(w) => TypeOK'
    BY ConflictTypeOK
  <2>3. Done(w) => req' \in [Worker -> Request]
    BY GotoType, IdleType DEF Done
  <2>4. CASE AddItemTx(w)
    BY <2>1, <2>2, <2>3, <2>4, RequestFields DEF AddItemTx, ItemStatuses
  <2>5. CASE MarkReadyRead(w)
    <3>1. req[w].order \in Order
      BY <2>1, <2>5, RequestFields DEF MarkReadyRead
    <3>2. req' \in [Worker -> Request]
      <4>1. CASE MayUpdateStatus(req[w].order, "ready")
        <5> DEFINE o == req[w].order
                   quoted == IF TypeOf[o] = "scan" THEN Rows(o) ELSE {}
                   r == [pc |-> "updateStatus", order |-> o, from |-> status[o], to |-> "ready",
                         quoted |-> quoted]
        <5>1. status[o] \in OrderStatuses /\ "ready" \in OrderStatuses /\ quoted \in SUBSET Item
          BY <3>1, <4>1, RowsType DEF MayUpdateStatus, Exists, OrderStatuses
        <5>2. r \in Request
          BY <3>1, <5>1 DEF Request
        <5>3. Goto(w, r)
          BY <2>5, <4>1 DEF MarkReadyRead, GotoUpdateStatus
        <5> QED
          BY <5>2, <5>3, GotoType
      <4>2. CASE ~ MayUpdateStatus(req[w].order, "ready")
        BY <2>3, <2>5, <4>2 DEF MarkReadyRead
      <4> QED
        BY <4>1, <4>2
    <3> QED
      BY <2>5, <3>2 DEF MarkReadyRead
  <2>6. CASE UpdateStatusTx(w)
    <3>1. /\ req[w].order \in Order /\ req[w].from \in OrderStatuses
          /\ req[w].to \in OrderStatuses /\ req[w].quoted \in SUBSET Item
      BY <2>1, <2>6, RequestFields DEF UpdateStatusTx
    <3>2. SUFFICES ASSUME ~ Conflict(w) PROVE TypeOK'
      BY <2>2
    <3>3. status' \in [Order -> Lifecycle] /\ announced' \in [Order -> Lifecycle \X Lifecycle]
      BY <2>6, <3>1, <3>2, SetStatusType DEF UpdateStatusTx
    <3>4. quote' \in [Order -> SUBSET Item] /\ itemStatus' \in [Item -> ItemStatuses \cup {"absent"}]
      BY <2>6, <3>1, <3>2 DEF UpdateStatusTx, ItemStatuses
    <3> QED
      BY <2>3, <2>6, <3>2, <3>3, <3>4 DEF UpdateStatusTx
  <2>7. CASE UploadTx(w)
    BY <2>1, <2>2, <2>3, <2>7, RequestFields DEF UploadTx
  <2>8. CASE PrepareQuoteTx(w)
    BY <2>1, <2>2, <2>3, <2>8, RequestFields DEF PrepareQuoteTx
  <2>9. CASE ApproveQuoteTx(w)
    BY <2>1, <2>2, <2>3, <2>9, RequestFields DEF ApproveQuoteTx
  <2>10. CASE DeliverTx(w)
    <3>1. req[w].order \in Order
      BY <2>1, <2>10, RequestFields DEF DeliverTx
    <3>2. SUFFICES ASSUME ~ Conflict(w) PROVE TypeOK'
      BY <2>2
    <3>3. /\ handovers' \in [Item -> Counter] /\ returns' \in [Item -> Counter]
          /\ billed' \in [Item -> Counter]
      <4>1. \A S : /\ Bump(handovers, S) \in [Item -> Counter] /\ Bump(returns, S) \in [Item -> Counter]
                   /\ Bump(billed, S) \in [Item -> Counter]
        BY BumpType
      <4> QED
        BY <2>10, <3>2, <4>1 DEF DeliverTx
    <3>4. status' \in [Order -> Lifecycle] /\ announced' \in [Order -> Lifecycle \X Lifecycle]
      BY <2>10, <3>1, <3>2, SetStatusType DEF DeliverTx, OrderStatuses
    <3>5. itemStatus' \in [Item -> ItemStatuses \cup {"absent"}]
      BY <2>10, <3>2 DEF DeliverTx, ItemStatuses
    <3>6. proof' \subseteq Order /\ box' \in [Box -> BoxStatuses]
      BY <2>10, <3>1, <3>2 DEF DeliverTx, BoxStatuses
    <3>7. UNCHANGED <<scanned, quote, approved, orderLock, boxLock>> /\ req' \in [Worker -> Request]
      BY <2>3, <2>10, <3>2 DEF DeliverTx
    <3> QED
      BY <3>3, <3>4, <3>5, <3>6, <3>7
  <2>11. CASE ReturnLock(w)
    <3>1. req[w].item \in Item /\ req[w].from \in {"delivered", "completed"}
      BY <2>1, <2>11, RequestFields DEF ReturnLock
    <3>2. SUFFICES ASSUME ~ Conflict(w) PROVE TypeOK'
      BY <2>2
    <3>3. req' \in [Worker -> Request]
      <4>1. PICK last \in BOOLEAN, releaseBox \in BOOLEAN :
              Goto(w, [pc |-> "returnCommit", item |-> req[w].item, from |-> req[w].from,
                       last |-> last, releaseBox |-> releaseBox])
        BY <2>11, <3>2 DEF ReturnLock
      <4>2. [pc |-> "returnCommit", item |-> req[w].item, from |-> req[w].from,
             last |-> last, releaseBox |-> releaseBox] \in Request
        BY <3>1 DEF Request
      <4> QED
        BY <4>1, <4>2, GotoType
    <3> QED
      <4>1. LockRows(w, req[w].item) /\ UNCHANGED db
        BY <2>11, <3>2 DEF ReturnLock
      <4>2. /\ orderLock' \in [Order -> Worker \cup {NoWorker}]
            /\ boxLock' \in [Box -> Worker \cup {NoWorker}]
        BY <3>1, <4>1 DEF LockRows
      <4> QED
        BY <3>3, <4>1, <4>2
  <2>12. CASE ReturnCommit(w)
    <3>1. req[w].item \in Item /\ req[w].from \in {"delivered", "completed"}
      BY <2>1, <2>12, RequestFields DEF ReturnCommit
    <3>2. returns' \in [Item -> Counter]
      BY <2>12, BumpType DEF ReturnCommit
    <3>3. status' \in [Order -> Lifecycle] /\ announced' \in [Order -> Lifecycle \X Lifecycle]
      <4>1. OrderOf[req[w].item] \in Order /\ "completed" \in OrderStatuses /\ req[w].from \in OrderStatuses
        BY <3>1 DEF OrderStatuses
      <4> QED
        BY <2>12, <4>1, SetStatusType DEF ReturnCommit
    <3>4. /\ itemStatus' \in [Item -> ItemStatuses \cup {"absent"}]
          /\ box' \in [Box -> BoxStatuses]
      BY <2>12, <3>1 DEF ReturnCommit, ItemStatuses, BoxStatuses
    <3>5. /\ orderLock' \in [Order -> Worker \cup {NoWorker}]
          /\ boxLock' \in [Box -> Worker \cup {NoWorker}]
      BY <2>12 DEF ReturnCommit, UnlockRows
    <3> QED
      BY <2>3, <2>12, <3>2, <3>3, <3>4, <3>5 DEF ReturnCommit
  <2>13. CASE DeleteTx(w)
    <3>1. req[w].order \in Order
      BY <2>1, <2>13, RequestFields DEF DeleteTx
    <3>2. SUFFICES ASSUME ~ Conflict(w) PROVE TypeOK'
      BY <2>2
    <3>3. status' \in [Order -> Lifecycle] /\ quote' \in [Order -> SUBSET Item]
      <4>1. /\ status' = [status EXCEPT ![req[w].order] = "deleted"]
            /\ quote' = [quote EXCEPT ![req[w].order] = {}]
        BY <2>13, <3>2 DEF DeleteTx
      <4> QED
        BY <3>1, <4>1 DEF Lifecycle, TypeOK
    <3>4. itemStatus' \in [Item -> ItemStatuses \cup {"absent"}]
      BY <2>13, <3>2 DEF DeleteTx
    <3> QED
      BY <2>3, <2>13, <3>2, <3>3, <3>4 DEF DeleteTx
  <2> QED
    BY <1>3, <2>4, <2>5, <2>6, <2>7, <2>8, <2>9, <2>10, <2>11, <2>12, <2>13 DEF Step
<1>4. ASSUME NEW w \in Worker, Crash(w) PROVE TypeOK'
  BY <1>4 DEF Crash, Done, Goto, UnlockRows, Request, Idle
<1> QED
  BY <1>1, <1>2, <1>3, <1>4 DEF Next

\* Every variable keeps its type in every run of the order module.
THEOREM TypeCorrect == Spec => []TypeOK
  BY InitTypeOK, NextTypeOK, PTL DEF Spec

-------------------------------------------------------------------------------
(* The workflow invariant *)

\* No request is under way at the start and nothing was returned yet.
LEMMA InitWorkflowInv == Init => WorkflowInv
  BY DEF Init, WorkflowInv, ReturnRecordedOnce, RowsHaveOrder, InsertIsFresh, UpdateIsLegal,
     DeliversItsItems, DeleteIsLegal, ReturnHoldsOrder, Exists, OrderStatuses, Idle

\* What a step of w must leave alone for the requests of the others to stay right.
OthersUndisturbed(w) ==
  /\ \A o \in Order : /\ status[o] # "absent" => status'[o] # "absent"
                      /\ status[o] \in Terminal \cup {"deleted"} => status'[o] \in {status[o], "deleted"}
  /\ \A v \in Worker \ {w} :
       /\ req'[v] = req[v]
       /\ req[v].pc = "addItem" => itemStatus'[req[v].item] = "absent" /\ req'[w] # req[v]
       /\ req[v].pc = "returnCommit" =>
            LET o == OrderOf[req[v].item] IN
            /\ status'[o] = status[o] /\ orderLock'[o] = orderLock[o]
            /\ \A i \in ItemsOf(o) : itemStatus'[i] = itemStatus[i]

RequestInv(w) ==
  /\ InsertIsFresh(w) /\ UpdateIsLegal(w) /\ DeliversItsItems(w)
  /\ DeleteIsLegal(w) /\ ReturnHoldsOrder(w)

\* A request that is not running keeps its part of the invariant when the running one
\* disturbs neither the rows it will write to nor the order row it holds.
LEMMA OthersKeepInv ==
  ASSUME TypeOK, WorkflowInv, NEW w \in Worker, OthersUndisturbed(w), NEW v \in Worker \ {w},
         InsertIsFresh(w)'
  PROVE  RequestInv(v)'
<1>1. RequestInv(v) /\ req'[v] = req[v] /\ req[v] \in Request
  BY DEF WorkflowInv, RequestInv, TypeOK, OthersUndisturbed
<1>2. InsertIsFresh(v)'
  <2> SUFFICES ASSUME req[v].pc = "addItem"
               PROVE  /\ itemStatus'[req[v].item] = "absent"
                      /\ status'[OrderOf[req[v].item]] # "absent"
                      /\ \A u \in Worker \ {v} : req'[u] # req[v]
    BY <1>1 DEF InsertIsFresh
  <2>1. req[v].item \in Item
    BY <1>1, RequestFields
  <2> QED
    BY <1>1, <2>1 DEF OthersUndisturbed, RequestInv, InsertIsFresh
<1>3. UpdateIsLegal(v)' /\ DeliversItsItems(v)'
  BY <1>1 DEF RequestInv, UpdateIsLegal, DeliversItsItems, ItemsOf
<1>4. DeleteIsLegal(v)'
  BY <1>1, RequestFields DEF RequestInv, DeleteIsLegal, OthersUndisturbed, Terminal
<1>5. ReturnHoldsOrder(v)'
  <2> DEFINE i == req[v].item
             o == OrderOf[i]
  <2> SUFFICES ASSUME req[v].pc \in {"return", "returnCommit"} PROVE ReturnHoldsOrder(v)'
    BY <1>1 DEF ReturnHoldsOrder
  <2>1. i \in Item /\ o \in Order
    BY <1>1, RequestFields
  <2>2. TypeOf[o] = "checkout" /\ (req[v].from = "completed" => status'[o] \in {"completed", "deleted"})
    BY <1>1, <2>1 DEF RequestInv, ReturnHoldsOrder, OthersUndisturbed, Terminal
  <2>3. CASE req[v].pc = "returnCommit"
    <3>1. /\ status'[o] = status[o] /\ orderLock'[o] = orderLock[o]
          /\ \A j \in ItemsOf(o) : itemStatus'[j] = itemStatus[j]
      BY <2>3 DEF OthersUndisturbed
    <3>2. /\ orderLock[o] = v /\ i \in OnLoan
          /\ req[v].last <=> {j \in ItemsOf(o) : itemStatus[j] = "delivered"} = {i}
      BY <1>1, <2>3 DEF RequestInv, ReturnHoldsOrder
    <3>3. i \in OnLoan'
      BY <2>1, <3>1, <3>2 DEF OnLoan, ItemsOf
    <3>4. {j \in ItemsOf(o) : itemStatus'[j] = "delivered"} = {j \in ItemsOf(o) : itemStatus[j] = "delivered"}
      BY <3>1
    <3> QED
      BY <1>1, <2>2, <3>1, <3>2, <3>3, <3>4 DEF ReturnHoldsOrder, ItemsOf
  <2> QED
    BY <1>1, <2>2, <2>3 DEF ReturnHoldsOrder
<1> QED
  BY <1>2, <1>3, <1>4, <1>5 DEF RequestInv

\* The invariant after a step of w: w itself, the others, and the rows.
LEMMA WorkflowInvStep ==
  ASSUME TypeOK, WorkflowInv, NEW w \in Worker, OthersUndisturbed(w), RequestInv(w)',
         ReturnRecordedOnce', RowsHaveOrder'
  PROVE  WorkflowInv'
  BY OthersKeepInv DEF WorkflowInv, RequestInv

\* A request that only reads and goes on.
LEMMA ReadKeepsInv ==
  ASSUME TypeOK, WorkflowInv, NEW w \in Worker, NEW r \in Request, Goto(w, r),
         UNCHANGED <<db, locks>>, RequestInv(w)'
  PROVE  WorkflowInv'
<1> USE DEF TypeOK, db, orderVars, quoteVars, custodyVars, locks
<1>1. OthersUndisturbed(w)
  BY DEF OthersUndisturbed, Goto, WorkflowInv, InsertIsFresh, RequestInv
<1>2. ReturnRecordedOnce' /\ RowsHaveOrder'
  BY DEF WorkflowInv, ReturnRecordedOnce, RowsHaveOrder, Exists
<1> QED
  BY <1>1, <1>2, WorkflowInvStep

\* A request that ends.
LEMMA EndedRequestInv ==
  ASSUME TypeOK, NEW w \in Worker, Done(w)
  PROVE  RequestInv(w)' /\ \A v \in Worker \ {w} : req'[v] = req[v]
  BY DEF TypeOK, Done, Goto, Idle, RequestInv, InsertIsFresh, UpdateIsLegal,
           DeliversItsItems, DeleteIsLegal, ReturnHoldsOrder

\* A request that is refused leaves the invariant alone.
LEMMA ConflictKeepsInv ==
  ASSUME TypeOK, WorkflowInv, NEW w \in Worker, Conflict(w)
  PROVE  WorkflowInv'
  BY ReadKeepsInv, EndedRequestInv, IdleType DEF Conflict, Done

\* The order whose row the returning request v holds: no other request can have
\* found that row free, and it is delivered or completed.
LEMMA HeldOrder ==
  ASSUME TypeOK, WorkflowInv, NEW v \in Worker, req[v].pc = "returnCommit"
  PROVE  LET o == OrderOf[req[v].item] IN
         /\ o \in Order /\ req[v].item \in Item
         /\ orderLock[o] = v /\ v # NoWorker
         /\ status[o] \in {"delivered", "completed"}
<1>1. req[v] \in Request
  BY DEF TypeOK
<1> QED
  BY <1>1, RequestFields DEF WorkflowInv, ReturnHoldsOrder, OnLoan

\* The requests whose own writes the invariant says nothing about.
LEMMA HarmlessRequestKeepsInv ==
  ASSUME TypeOK, WorkflowInv, NEW w \in Worker, NEW r \in Request, Goto(w, r),
         r.pc \in {"markReady", "upload", "quote", "approveQuote"},
         UNCHANGED <<db, locks>>
  PROVE  WorkflowInv'
<1>1. RequestInv(w)'
  BY DEF TypeOK, Goto, RequestInv, InsertIsFresh, UpdateIsLegal, DeliversItsItems,
           DeleteIsLegal, ReturnHoldsOrder
<1> QED
  BY <1>1, ReadKeepsInv

\* updateStatus goes on only with a change that its checks allow.
LEMMA UpdateRequestKeepsInv ==
  ASSUME TypeOK, WorkflowInv, NEW w \in Worker, NEW o \in Order, NEW to \in OrderStatuses,
         to # "delivered", MayUpdateStatus(o, to), GotoUpdateStatus(w, o, to), UNCHANGED <<db, locks>>
  PROVE  WorkflowInv'
<1> DEFINE quoted == IF TypeOf[o] = "scan" /\ to = "ready" THEN Rows(o) ELSE {}
           r == [pc |-> "updateStatus", order |-> o, from |-> status[o], to |-> to, quoted |-> quoted]
<1>1. r \in Request
  BY RowsType DEF MayUpdateStatus, Exists, Request
<1>2. Goto(w, r)
  BY DEF GotoUpdateStatus
<1>3. RequestInv(w)'
  BY <1>2
       DEF TypeOK, Goto, MayUpdateStatus, RequestInv, InsertIsFresh, UpdateIsLegal,
           DeliversItsItems, DeleteIsLegal,
     ReturnHoldsOrder
<1> QED
  BY <1>1, <1>2, <1>3, ReadKeepsInv

\* A transaction of w that touches neither orders nor items.
LEMMA OrdersOnlyDone ==
  ASSUME TypeOK, WorkflowInv, NEW w \in Worker, Done(w),
         UNCHANGED <<status, itemStatus, returns, orderLock>>
  PROVE  WorkflowInv'
<1>1. RequestInv(w)' /\ \A v \in Worker \ {w} : req'[v] = req[v]
  BY EndedRequestInv
<1>2. OthersUndisturbed(w)
  BY <1>1 DEF OthersUndisturbed, Done, Goto, Idle, TypeOK, WorkflowInv, InsertIsFresh
<1>3. ReturnRecordedOnce' /\ RowsHaveOrder'
  BY DEF WorkflowInv, ReturnRecordedOnce, RowsHaveOrder, Exists
<1> QED
  BY <1>1, <1>2, <1>3, WorkflowInvStep

\* A transaction of w that writes to one order, whose row it holds or found free, and
\* to its items: the requests of the others stay right.
LEMMA OrderTxKeepsInv ==
  ASSUME TypeOK, WorkflowInv, NEW w \in Worker, NEW o \in Order, Done(w),
         orderLock[o] \in {NoWorker, w},
         \A p \in Order : orderLock[p] \notin {NoWorker, w} => orderLock'[p] = orderLock[p],
         \A p \in Order : p # o => status'[p] = status[p],
         status[o] # "absent" => status'[o] # "absent",
         status[o] \in Terminal \cup {"deleted"} => status'[o] \in {status[o], "deleted"},
         \A i \in Item : OrderOf[i] # o => itemStatus'[i] = itemStatus[i],
         \A i \in Item : itemStatus[i] = "absent" /\ req[w] # [pc |-> "addItem", item |-> i]
                           => itemStatus'[i] = "absent",
         ReturnRecordedOnce', RowsHaveOrder'
  PROVE  WorkflowInv'
<1>1. RequestInv(w)' /\ \A v \in Worker \ {w} : req'[v] = req[v]
  BY EndedRequestInv
<1>2. req'[w] = Idle
  BY DEF Done, Goto, TypeOK
<1>3. OthersUndisturbed(w)
  <2>1. ASSUME NEW v \in Worker \ {w}, req[v].pc = "addItem"
        PROVE  itemStatus'[req[v].item] = "absent" /\ req'[w] # req[v]
    <3>1. req[v] \in Request
      BY DEF TypeOK
    <3>2. req[v].item \in Item /\ req[v] = [pc |-> "addItem", item |-> req[v].item]
      BY <2>1, <3>1, AddItemRequest
    <3>3. itemStatus[req[v].item] = "absent" /\ req[w] # req[v]
      BY <2>1 DEF WorkflowInv, InsertIsFresh
    <3> QED
      BY <1>2, <2>1, <3>2, <3>3 DEF Idle
  <2>2. ASSUME NEW v \in Worker \ {w}, req[v].pc = "returnCommit"
        PROVE  LET p == OrderOf[req[v].item] IN
               /\ status'[p] = status[p] /\ orderLock'[p] = orderLock[p]
               /\ \A i \in ItemsOf(p) : itemStatus'[i] = itemStatus[i]
    <3> DEFINE p == OrderOf[req[v].item]
    <3>1. p \in Order /\ orderLock[p] = v /\ v # NoWorker
      BY <2>2, HeldOrder
    <3>2. p # o
      BY <3>1
    <3> QED
      BY <3>1, <3>2 DEF ItemsOf
  <2> QED
    BY <1>1, <2>1, <2>2 DEF OthersUndisturbed
<1> QED
  BY <1>1, <1>3, WorkflowInvStep

\* The workflow invariant is inductive (given the types).
LEMMA NextWorkflowInv == TypeOK /\ WorkflowInv /\ [Next]_vars => WorkflowInv'
<1> SUFFICES ASSUME TypeOK, WorkflowInv, [Next]_vars PROVE WorkflowInv'
    OBVIOUS
<1>1. CASE UNCHANGED vars
  BY <1>1
       DEF vars, WorkflowInv, ReturnRecordedOnce, RowsHaveOrder, InsertIsFresh, UpdateIsLegal,
     DeliversItsItems, DeleteIsLegal, ReturnHoldsOrder, OnLoan, Exists
<1>2. ASSUME NEW w \in Worker, Begin(w) PROVE WorkflowInv'
  <2>1. ASSUME NEW o \in Order, NEW S \in SUBSET Item, Create(w, o, S) PROVE WorkflowInv'
    <3>1. /\ \A p \in Order : status'[p] = IF p = o THEN "draft" ELSE status[p]
          /\ status[o] = "absent" /\ S \subseteq ItemsOf(o)
          /\ \A i \in Item : itemStatus'[i] = IF i \in S THEN "pending" ELSE itemStatus[i]
          /\ UNCHANGED <<returns, orderLock, req>>
      BY <2>1 DEF Create, TypeOK, custodyVars, locks
    <3>2. OthersUndisturbed(w)
      <4>1. ASSUME NEW v \in Worker, req[v].pc = "returnCommit", NEW i \in ItemsOf(OrderOf[req[v].item])
            PROVE  i \notin S
        BY <3>1, <4>1, HeldOrder DEF ItemsOf
      <4>2. ASSUME NEW v \in Worker, req[v].pc = "addItem"
            PROVE  itemStatus'[req[v].item] = "absent"
        BY <3>1, <4>2, RequestFields DEF TypeOK, WorkflowInv, InsertIsFresh, ItemsOf
      <4>3. ASSUME NEW v \in Worker, NEW u \in Worker \ {v}, req[v].pc = "addItem"
            PROVE  req[u] # req[v]
        BY <4>3 DEF WorkflowInv, InsertIsFresh
      <4> QED
        BY <3>1, <4>1, <4>2, <4>3, HeldOrder DEF OthersUndisturbed, Terminal, ItemsOf
    <3>3. RequestInv(w)'
      BY <2>1, <3>1
           DEF Create, Calls, Idle, RequestInv, InsertIsFresh, UpdateIsLegal, DeliversItsItems,
               DeleteIsLegal,
         ReturnHoldsOrder
    <3>4. ReturnRecordedOnce' /\ RowsHaveOrder'
      <4>1. \A i \in S : OrderOf[i] = o /\ i \in Item
        BY <3>1 DEF ItemsOf
      <4>2. \A i \in Item : OrderOf[i] = o => itemStatus[i] = "absent"
        BY <3>1 DEF WorkflowInv, RowsHaveOrder, Exists, OrderStatuses
      <4>3. \A i \in Item : OrderOf[i] = o /\ TypeOf[o] = "checkout" => returns'[i] = 0
        BY <3>1, <4>2 DEF WorkflowInv, RowsHaveOrder
      <4>4. ReturnRecordedOnce'
        BY <3>1, <4>1, <4>3 DEF WorkflowInv, ReturnRecordedOnce
      <4>5. RowsHaveOrder'
        BY <3>1, <4>1, <4>3 DEF WorkflowInv, RowsHaveOrder, Exists, OrderStatuses
      <4> QED
        BY <4>4, <4>5
    <3> QED
      BY <3>2, <3>3, <3>4, WorkflowInvStep
  <2>2. ASSUME NEW i \in Item, BeginAddItem(w, i) PROVE WorkflowInv'
    <3>1. [pc |-> "addItem", item |-> i] \in Request
      BY DEF Request
    <3>2. RequestInv(w)'
      BY <2>2 DEF BeginAddItem, Goto, TypeOK, Exists, OrderStatuses, db, orderVars, RequestInv,
         InsertIsFresh, UpdateIsLegal, DeliversItsItems, DeleteIsLegal, ReturnHoldsOrder
    <3> QED
      BY <2>2, <3>1, <3>2, ReadKeepsInv DEF BeginAddItem
  <2>3. ASSUME NEW i \in Item, NEW from \in ItemStatuses, NEW to \in ItemStatuses, Pick(w, i, from, to)
        PROVE  WorkflowInv'
    <3>1. /\ status[OrderOf[i]] = "in_progress" /\ req[w] = Idle
          /\ itemStatus[i] \in {"pending", "picked"} /\ itemStatus'[i] \in {"pending", "picked"}
          /\ \A j \in Item : j # i => itemStatus'[j] = itemStatus[j]
          /\ UNCHANGED <<status, returns, orderLock, req>>
      BY <2>3 DEF Pick, Calls, StillIn, TypeOK, orderVars, custodyVars, locks
    <3>2. OthersUndisturbed(w)
      <4>1. ASSUME NEW v \in Worker, req[v].pc = "returnCommit", NEW j \in ItemsOf(OrderOf[req[v].item])
            PROVE  j # i /\ j \in Item
        BY <3>1, <4>1, HeldOrder DEF ItemsOf
      <4>2. ASSUME NEW v \in Worker, req[v].pc = "addItem"
            PROVE  itemStatus'[req[v].item] = "absent"
        BY <3>1, <4>2, RequestFields DEF TypeOK, WorkflowInv, InsertIsFresh
      <4>3. ASSUME NEW v \in Worker, NEW u \in Worker \ {v}, req[v].pc = "addItem"
            PROVE  req[u] # req[v]
        BY <4>3 DEF WorkflowInv, InsertIsFresh
      <4> QED
        BY <3>1, <4>1, <4>2, <4>3 DEF OthersUndisturbed
    <3>3. RequestInv(w)'
      BY <3>1
           DEF Idle, RequestInv, InsertIsFresh, UpdateIsLegal, DeliversItsItems, DeleteIsLegal,
               ReturnHoldsOrder
    <3>4. ReturnRecordedOnce' /\ RowsHaveOrder'
      BY <3>1 DEF WorkflowInv, ReturnRecordedOnce, RowsHaveOrder, Exists, OrderStatuses
    <3> QED
      BY <3>2, <3>3, <3>4, WorkflowInvStep
  <2>4. ASSUME NEW o \in Order, NEW to \in OrderStatuses, BeginUpdateStatus(w, o, to) PROVE WorkflowInv'
    BY <2>4, UpdateRequestKeepsInv DEF BeginUpdateStatus
  <2>5. ASSUME NEW o \in Order, BeginMarkReady(w, o) PROVE WorkflowInv'
    <3>1. [pc |-> "markReady", order |-> o] \in Request
      BY DEF Request
    <3> QED
      BY <2>5, <3>1, HarmlessRequestKeepsInv DEF BeginMarkReady
  <2>6. ASSUME NEW i \in Item, BeginUpload(w, i) PROVE WorkflowInv'
    <3>1. [pc |-> "upload", item |-> i] \in Request
      BY DEF Request
    <3> QED
      BY <2>6, <3>1, HarmlessRequestKeepsInv DEF BeginUpload
  <2>7. ASSUME NEW o \in Order, BeginPrepareQuote(w, o) PROVE WorkflowInv'
    <3>1. [pc |-> "quote", order |-> o, quoted |-> Rows(o)] \in Request
      BY RowsType DEF Request
    <3> QED
      BY <2>7, <3>1, HarmlessRequestKeepsInv DEF BeginPrepareQuote
  <2>8. ASSUME NEW o \in Order, BeginApproveQuote(w, o) PROVE WorkflowInv'
    <3>1. [pc |-> "approveQuote", order |-> o] \in Request
      BY DEF Request
    <3> QED
      BY <2>8, <3>1, HarmlessRequestKeepsInv DEF BeginApproveQuote
  <2>9. ASSUME NEW o \in Order, NEW withProof \in BOOLEAN, BeginDeliver(w, o, withProof)
        PROVE  WorkflowInv'
    <3>1. [pc |-> "deliver", order |-> o, items |-> Rows(o), proof |-> withProof] \in Request
      BY RowsType DEF Request
    <3>2. RequestInv(w)'
      BY <2>9 DEF BeginDeliver, Goto, TypeOK, Rows, RequestInv, InsertIsFresh, UpdateIsLegal,
         DeliversItsItems, DeleteIsLegal, ReturnHoldsOrder, ItemsOf
    <3> QED
      BY <2>9, <3>1, <3>2, ReadKeepsInv DEF BeginDeliver
  <2>10. ASSUME NEW i \in Item, BeginReturn(w, i) PROVE WorkflowInv'
    <3> DEFINE r == [pc |-> "return", item |-> i, from |-> status[OrderOf[i]]]
    <3>1. r \in Request
      BY <2>10 DEF BeginReturn, OnLoan, Request
    <3>2. RequestInv(w)'
      BY <2>10 DEF BeginReturn, OnLoan, Goto, TypeOK, db, orderVars, RequestInv, InsertIsFresh,
         UpdateIsLegal, DeliversItsItems, DeleteIsLegal, ReturnHoldsOrder
    <3> QED
      BY <2>10, <3>1, <3>2, ReadKeepsInv DEF BeginReturn
  <2>11. ASSUME NEW o \in Order, BeginDelete(w, o) PROVE WorkflowInv'
    <3>1. [pc |-> "delete", order |-> o] \in Request
      BY DEF Request
    <3>2. RequestInv(w)'
      BY <2>11 DEF BeginDelete, Goto, TypeOK, db, orderVars, RequestInv, InsertIsFresh,
         UpdateIsLegal, DeliversItsItems, DeleteIsLegal, ReturnHoldsOrder
    <3> QED
      BY <2>11, <3>1, <3>2, ReadKeepsInv DEF BeginDelete
  <2>12. ASSUME NEW b \in Box, NEW s \in BoxStatuses, ChangeBoxStatus(w, b, s) PROVE WorkflowInv'
    BY <2>12
         DEF ChangeBoxStatus, orderVars, custodyVars, locks, WorkflowInv, ReturnRecordedOnce,
       RowsHaveOrder, InsertIsFresh, UpdateIsLegal, DeliversItsItems, DeleteIsLegal, ReturnHoldsOrder, OnLoan, Exists
  <2> QED
    BY <1>2, <2>1, <2>2, <2>3, <2>4, <2>5, <2>6, <2>7, <2>8, <2>9, <2>10, <2>11, <2>12 DEF Begin
<1>3. ASSUME NEW w \in Worker, Step(w) PROVE WorkflowInv'
  <2>1. req[w] \in Request
    BY DEF TypeOK
  <2>2. Conflict(w) => WorkflowInv'
    BY ConflictKeepsInv
  <2>3. CASE AddItemTx(w)
    <3> DEFINE i == req[w].item
               o == OrderOf[i]
    <3>1. i \in Item /\ o \in Order /\ req[w] = [pc |-> "addItem", item |-> i]
      BY <2>1, <2>3, AddItemRequest DEF AddItemTx
    <3>2. SUFFICES ASSUME ~ Conflict(w) PROVE WorkflowInv'
      BY <2>2
    <3>3. /\ orderLock[o] = NoWorker /\ Exists(o) /\ Done(w)
          /\ itemStatus' = [itemStatus EXCEPT ![i] = "pending"]
          /\ UNCHANGED <<status, returns, orderLock>>
      BY <2>3, <3>2 DEF AddItemTx, OrderRowFree, orderVars, custodyVars, locks
    <3>4. itemStatus[i] = "absent" /\ (TypeOf[o] = "checkout" => returns[i] = 0)
      BY <2>3, <3>1, <3>3
           DEF AddItemTx, WorkflowInv, InsertIsFresh, RowsHaveOrder, Exists, OrderStatuses
    <3>5. ReturnRecordedOnce' /\ RowsHaveOrder'
      BY <3>1, <3>3, <3>4 DEF TypeOK, WorkflowInv, ReturnRecordedOnce, RowsHaveOrder, Exists
    <3> QED
      BY <3>1, <3>3, <3>5, OrderTxKeepsInv DEF TypeOK
  <2>4. CASE MarkReadyRead(w)
    <3>1. req[w].order \in Order /\ "ready" \in OrderStatuses
      BY <2>1, <2>4, RequestFields DEF MarkReadyRead, OrderStatuses
    <3>2. CASE MayUpdateStatus(req[w].order, "ready")
      BY <2>4, <3>1, <3>2, UpdateRequestKeepsInv DEF MarkReadyRead
    <3>3. CASE ~ MayUpdateStatus(req[w].order, "ready")
      BY <2>2, <2>4, <3>3 DEF MarkReadyRead, Conflict
    <3> QED
      BY <3>2, <3>3
  <2>5. CASE UpdateStatusTx(w)
    <3> DEFINE r == req[w]
               o == r.order
    <3>1. o \in Order /\ r.from \in OrderStatuses /\ r.to \in OrderStatuses
      BY <2>1, <2>5, RequestFields DEF UpdateStatusTx
    <3>2. SUFFICES ASSUME ~ Conflict(w) PROVE WorkflowInv'
      BY <2>2
    <3>3. /\ orderLock[o] = NoWorker /\ status[o] = r.from /\ Done(w)
          /\ status' = [status EXCEPT ![o] = r.to]
          /\ itemStatus' = [i \in Item |-> IF r.to = "completed" /\ i \in OpenItems(o)
                                             THEN "delivered" ELSE itemStatus[i]]
          /\ UNCHANGED <<returns, orderLock>>
      BY <2>5, <3>2 DEF UpdateStatusTx, StillIn, SetStatus, OrderRowFree, custodyVars, locks
    <3>4. r.from \notin Terminal \cup {"deleted"}
      BY <2>5
           DEF UpdateStatusTx, WorkflowInv, UpdateIsLegal, isValidTransition,
               ORDER_TRANSITIONS, Terminal
    <3>5. r.to # "deleted" /\ r.to # "absent" /\ status[o] # "deleted"
      BY <3>1, <3>3 DEF OrderStatuses
    <3>6. /\ \A i \in Item : itemStatus'[i] = itemStatus[i]
               \/ (itemStatus[i] \in {"pending", "picked"} /\ itemStatus'[i] = "delivered" /\ OrderOf[i] = o)
          /\ \A p \in Order : status'[p] = IF p = o THEN r.to ELSE status[p]
      <4>1. \A i \in OpenItems(o) : itemStatus[i] \in {"pending", "picked"} /\ OrderOf[i] = o
        BY DEF OpenItems, ItemsOf
      <4>2. \A i \in Item : i \in OpenItems(o) \/ itemStatus'[i] = itemStatus[i]
        BY <3>3
      <4>3. status \in [Order -> Lifecycle]
        BY DEF TypeOK
      <4> QED
        BY <3>1, <3>3, <4>1, <4>2, <4>3
    <3>7. ReturnRecordedOnce'
      BY <3>3, <3>6 DEF WorkflowInv, ReturnRecordedOnce
    <3>8. RowsHaveOrder'
      BY <3>1, <3>3, <3>5, <3>6 DEF WorkflowInv, RowsHaveOrder, Exists
    <3> QED
      BY <3>1, <3>3, <3>4, <3>5, <3>6, <3>7, <3>8, OrderTxKeepsInv
  <2>6. CASE UploadTx(w)
    BY <2>2, <2>6, OrdersOnlyDone DEF UploadTx, orderVars, custodyVars, locks
  <2>7. CASE PrepareQuoteTx(w)
    BY <2>2, <2>7, OrdersOnlyDone DEF PrepareQuoteTx, orderVars, custodyVars, locks
  <2>8. CASE ApproveQuoteTx(w)
    BY <2>2, <2>8, OrdersOnlyDone DEF ApproveQuoteTx, orderVars, custodyVars, locks
  <2>9. CASE DeliverTx(w)
    <3> DEFINE o == req[w].order
               s == IF TypeOf[o] = "return_order" THEN "returned" ELSE "delivered"
    <3>1. o \in Order
      BY <2>1, <2>9, RequestFields DEF DeliverTx
    <3>2. SUFFICES ASSUME ~ Conflict(w) PROVE WorkflowInv'
      BY <2>2
    <3>3. /\ orderLock[o] = NoWorker /\ status[o] = "ready" /\ Done(w)
          /\ status' = [status EXCEPT ![o] = "delivered"]
          /\ itemStatus' = [i \in Item |-> IF i \in OpenItems(o) THEN s ELSE itemStatus[i]]
          /\ TypeOf[o] # "return_order" => returns' = returns
          /\ UNCHANGED orderLock
      BY <2>9, <3>2 DEF DeliverTx, StillIn, SetStatus, OrderRowFree, locks
    <3>4. \A i \in Item : TypeOf[OrderOf[i]] = "checkout" => returns'[i] = returns[i]
      <4>1. CASE TypeOf[o] = "return_order"
        <5>1. returns' = Bump(returns, req[w].items \cap Tracked)
          BY <2>9, <3>2, <4>1 DEF DeliverTx
        <5>2. \A i \in req[w].items : OrderOf[i] = o
          BY <2>9 DEF DeliverTx, WorkflowInv, DeliversItsItems, ItemsOf
        <5> QED
          BY <4>1, <5>1, <5>2 DEF Bump, TypeOK
      <4> QED
        BY <3>3, <4>1
    <3>5. /\ \A i \in Item : itemStatus'[i] = itemStatus[i]
               \/ (itemStatus[i] \in {"pending", "picked"} /\ itemStatus'[i] = s /\ OrderOf[i] = o)
          /\ \A p \in Order : status'[p] = IF p = o THEN "delivered" ELSE status[p]
      <4>1. \A i \in OpenItems(o) : itemStatus[i] \in {"pending", "picked"} /\ OrderOf[i] = o
        BY DEF OpenItems, ItemsOf
      <4>2. \A i \in Item : i \in OpenItems(o) \/ itemStatus'[i] = itemStatus[i]
        BY <3>3
      <4>3. status \in [Order -> Lifecycle]
        BY DEF TypeOK
      <4> QED
        BY <3>1, <3>3, <4>1, <4>2, <4>3
    <3>6. ReturnRecordedOnce'
      BY <3>1, <3>4, <3>5 DEF WorkflowInv, ReturnRecordedOnce
    <3>7. RowsHaveOrder'
      BY <3>1, <3>3, <3>4, <3>5 DEF WorkflowInv, RowsHaveOrder, Exists, OrderStatuses
    <3> QED
      BY <3>1, <3>3, <3>5, <3>6, <3>7, OrderTxKeepsInv DEF Terminal
  <2>10. CASE ReturnLock(w)
    <3> DEFINE i == req[w].item
               o == OrderOf[i]
               last == {j \in ItemsOf(o) : itemStatus[j] = "delivered"} = {i}
    <3>1. i \in Item /\ o \in Order /\ req[w].from \in {"delivered", "completed"}
      BY <2>1, <2>10, RequestFields DEF ReturnLock
    <3>2. SUFFICES ASSUME ~ Conflict(w) PROVE WorkflowInv'
      BY <2>2
    <3>3. PICK releaseBox \in BOOLEAN :
            Goto(w, [pc |-> "returnCommit", item |-> i, from |-> req[w].from,
                     last |-> last, releaseBox |-> releaseBox])
      BY <2>10, <3>2 DEF ReturnLock
    <3>4. /\ req'[w].pc = "returnCommit" /\ req'[w].item = i /\ req'[w].from = req[w].from
          /\ req'[w].last = last
          /\ \A v \in Worker \ {w} : req'[v] = req[v]
      BY <3>3 DEF Goto, TypeOK
    <3>5. /\ orderLock[o] = NoWorker /\ i \in OnLoan
          /\ orderLock' = [orderLock EXCEPT ![o] = w]
          /\ UNCHANGED <<status, itemStatus, returns>>
      BY <2>10, <3>2
           DEF ReturnLock, OrderRowFree, StillOnLoan, LockRows, db, orderVars, custodyVars
    <3>6. RequestInv(w)'
      <4>1. InsertIsFresh(w)' /\ UpdateIsLegal(w)' /\ DeliversItsItems(w)' /\ DeleteIsLegal(w)'
        BY <3>4 DEF InsertIsFresh, UpdateIsLegal, DeliversItsItems, DeleteIsLegal
      <4>2. TypeOf[o] = "checkout" /\ (req[w].from = "completed" => status[o] \in {"completed", "deleted"})
        BY <2>10 DEF ReturnLock, WorkflowInv, ReturnHoldsOrder
      <4>3. orderLock'[o] = w /\ i \in OnLoan'
        BY <3>1, <3>5 DEF OnLoan, TypeOK
      <4>4. req'[w].last <=> {j \in ItemsOf(o) : itemStatus'[j] = "delivered"} = {i}
        <5>1. itemStatus' = itemStatus
          BY <3>5
        <5> QED
          BY <3>4, <5>1, Zenon
      <4>5. status'[o] = status[o]
        BY <3>5
      <4>6. ReturnHoldsOrder(w)'
        BY <3>4, <4>2, <4>3, <4>4, <4>5 DEF ReturnHoldsOrder, ItemsOf
      <4> QED
        BY <4>1, <4>6 DEF RequestInv
    <3>7. OthersUndisturbed(w)
      <4>1. ASSUME NEW v \in Worker \ {w}, req[v].pc = "returnCommit"
            PROVE  orderLock'[OrderOf[req[v].item]] = orderLock[OrderOf[req[v].item]]
        BY <3>1, <3>5, <4>1, HeldOrder DEF TypeOK
      <4>2. ASSUME NEW v \in Worker \ {w}, req[v].pc = "addItem"
            PROVE  itemStatus'[req[v].item] = "absent" /\ req'[w] # req[v]
        BY <3>4, <3>5, <4>2 DEF WorkflowInv, InsertIsFresh
      <4> QED
        BY <3>4, <3>5, <4>1, <4>2 DEF OthersUndisturbed
    <3>8. ReturnRecordedOnce' /\ RowsHaveOrder'
      BY <3>5 DEF WorkflowInv, ReturnRecordedOnce, RowsHaveOrder, Exists
    <3> QED
      BY <3>6, <3>7, <3>8, WorkflowInvStep
  <2>11. CASE ReturnCommit(w)
    <3> DEFINE i == req[w].item
               o == OrderOf[i]
    <3>1. i \in Item /\ o \in Order /\ orderLock[o] = w /\ status[o] \in {"delivered", "completed"}
      BY <2>1, <2>11, HeldOrder DEF ReturnCommit
    <3>2. TypeOf[o] = "checkout" /\ i \in OnLoan /\ itemStatus[i] = "delivered"
      BY <2>11 DEF ReturnCommit, WorkflowInv, ReturnHoldsOrder, OnLoan
    <3>3. /\ itemStatus' = [itemStatus EXCEPT ![i] = "returned"]
          /\ returns' = Bump(returns, {i} \cap Tracked)
          /\ Done(w) /\ UnlockRows(w)
          /\ status' = status \/ (status[o] = "delivered" /\ status' = [status EXCEPT ![o] = "completed"])
      <4>1. /\ itemStatus' = [itemStatus EXCEPT ![i] = "returned"]
            /\ returns' = Bump(returns, {i} \cap Tracked)
            /\ Done(w) /\ UnlockRows(w)
        BY <2>11 DEF ReturnCommit
      <4>2. \/ status' = status
            \/ StillIn(o, "delivered") /\ SetStatus(o, req[w].from, "completed")
        BY <2>11 DEF ReturnCommit, orderVars
      <4> QED
        BY <4>1, <4>2 DEF StillIn, SetStatus
    <3>4. \A p \in Order : orderLock[p] \notin {NoWorker, w} => orderLock'[p] = orderLock[p]
      BY <3>3 DEF UnlockRows
    <3>5. \A p \in Order : p # o => status'[p] = status[p]
      BY <3>1, <3>3 DEF TypeOK
    <3>6. status'[o] \in {"delivered", "completed"} /\ (status[o] = "completed" => status'[o] = "completed")
      BY <3>1, <3>3 DEF TypeOK
    <3>7. \A j \in Item : itemStatus'[j] = IF j = i THEN "returned" ELSE itemStatus[j]
      BY <3>1, <3>3 DEF TypeOK
    <3>8. \A j \in Item : returns'[j] = IF j = i /\ j \in Tracked THEN 1 ELSE returns[j]
      <4>1. i \in Tracked => returns[i] = 0
        BY <3>1, <3>2 DEF WorkflowInv, ReturnRecordedOnce
      <4> QED
        BY <3>1, <3>3, <4>1 DEF Bump, TypeOK, Counter
    <3>9. ReturnRecordedOnce'
      BY <3>7, <3>8 DEF WorkflowInv, ReturnRecordedOnce
    <3>10. RowsHaveOrder'
      BY <3>1, <3>5, <3>6, <3>7, <3>8 DEF WorkflowInv, RowsHaveOrder, Exists, OrderStatuses
    <3> QED
      BY <3>1, <3>2, <3>3, <3>4, <3>5, <3>6, <3>7, <3>9, <3>10, OrderTxKeepsInv DEF Terminal
  <2>12. CASE DeleteTx(w)
    <3> DEFINE o == req[w].order
    <3>1. o \in Order
      BY <2>1, <2>12, RequestFields DEF DeleteTx
    <3>2. SUFFICES ASSUME ~ Conflict(w) PROVE WorkflowInv'
      BY <2>2
    <3>3. /\ orderLock[o] = NoWorker /\ Done(w)
          /\ status' = [status EXCEPT ![o] = "deleted"]
          /\ itemStatus' = [i \in Item |-> IF i \in ItemsOf(o) THEN "absent" ELSE itemStatus[i]]
          /\ UNCHANGED <<returns, orderLock>>
      BY <2>12, <3>2 DEF DeleteTx, OrderRowFree, custodyVars, locks
    <3>4. /\ \A p \in Order : status'[p] = IF p = o THEN "deleted" ELSE status[p]
          /\ \A i \in Item : itemStatus'[i] = IF OrderOf[i] = o THEN "absent" ELSE itemStatus[i]
      BY <3>1, <3>3 DEF TypeOK, ItemsOf
    <3>5. ReturnRecordedOnce' /\ RowsHaveOrder'
      BY <3>1, <3>3, <3>4
           DEF WorkflowInv, ReturnRecordedOnce, RowsHaveOrder, Exists, OrderStatuses
    <3> QED
      BY <3>1, <3>3, <3>4, <3>5, OrderTxKeepsInv
  <2> QED
    BY <1>3, <2>3, <2>4, <2>5, <2>6, <2>7, <2>8, <2>9, <2>10, <2>11, <2>12 DEF Step
<1>4. ASSUME NEW w \in Worker, Crash(w) PROVE WorkflowInv'
  <2>1. /\ Done(w) /\ UNCHANGED <<status, itemStatus, returns>>
        /\ \A p \in Order : orderLock[p] \notin {NoWorker, w} => orderLock'[p] = orderLock[p]
    BY <1>4 DEF Crash, UnlockRows, db, orderVars, custodyVars
  <2>2. RequestInv(w)' /\ \A v \in Worker \ {w} : req'[v] = req[v]
    BY <2>1, EndedRequestInv
  <2>3. OthersUndisturbed(w)
    <3>1. ASSUME NEW v \in Worker \ {w}, req[v].pc = "returnCommit"
          PROVE  orderLock'[OrderOf[req[v].item]] = orderLock[OrderOf[req[v].item]]
      BY <2>1, <3>1, HeldOrder
    <3>2. ASSUME NEW v \in Worker \ {w}, req[v].pc = "addItem"
          PROVE  itemStatus'[req[v].item] = "absent" /\ req'[w] # req[v]
      BY <2>1, <3>2 DEF Done, Goto, Idle, TypeOK, WorkflowInv, InsertIsFresh
    <3> QED
      BY <2>1, <2>2, <3>1, <3>2 DEF OthersUndisturbed
  <2>4. ReturnRecordedOnce' /\ RowsHaveOrder'
    BY <2>1 DEF WorkflowInv, ReturnRecordedOnce, RowsHaveOrder, Exists
  <2> QED
    BY <2>2, <2>3, <2>4, WorkflowInvStep
<1> QED
  BY <1>1, <1>2, <1>3, <1>4 DEF Next

\* Whatever requests are under way, what each of them still has to write agrees with
\* the rows it will write to: the invariant behind the three theorems below.
THEOREM WorkflowInvariant == Spec => []WorkflowInv
  BY InitTypeOK, NextTypeOK, InitWorkflowInv, NextWorkflowInv, PTL DEF Spec

\* The custody log holds one return for every item that came back from a checkout,
\* whatever concurrent returns, deliveries, reopenings and crashes did.
THEOREM ReturnsRecordedOnce == Spec => []ReturnRecordedOnce
<1>1. WorkflowInv => ReturnRecordedOnce
  BY DEF WorkflowInv
<1> QED
  BY <1>1, WorkflowInvariant, PTL

-------------------------------------------------------------------------------
(* Webhooks *)

\* A step that sets no status queues nothing.
LEMMA SilentStep ==
  ASSUME TypeOK, UNCHANGED orderVars
  PROVE  WebhookStep
  BY DEF orderVars, WebhookStep

\* A step that changes a status announces the change it makes.
LEMMA AnnouncedStep ==
  ASSUME TypeOK, NEW o \in Order, NEW from \in OrderStatuses, NEW to \in OrderStatuses,
         status[o] = from, from # to, SetStatus(o, from, to)
  PROVE  WebhookStep
<1>1. \A p \in Order : p # o => status'[p] = status[p] /\ announced'[p] = announced[p]
  BY DEF TypeOK, SetStatus
<1>2. status'[o] = to /\ announced'[o] = <<from, to>>
  BY DEF TypeOK, SetStatus
<1> QED
  BY <1>1, <1>2 DEF WebhookStep

\* Every step of every request queues the webhook event of its status change, if any.
LEMMA NextWebhooks == TypeOK /\ WorkflowInv /\ [Next]_vars => [WebhookStep]_vars
<1> SUFFICES ASSUME TypeOK, WorkflowInv, NEW w \in Worker, Begin(w) \/ Step(w) \/ Crash(w)
             PROVE  WebhookStep
    BY DEF Next
<1> USE DEF db
<1>1. ASSUME NEW o \in Order, NEW S \in SUBSET Item, Create(w, o, S) PROVE WebhookStep
  BY <1>1 DEF Create, WebhookStep, TypeOK, OrderStatuses
<1>2. CASE UpdateStatusTx(w)
  <2> DEFINE o == req[w].order
  <2>1. o \in Order /\ req[w].from \in OrderStatuses /\ req[w].to \in OrderStatuses
    BY <1>2, RequestFields DEF UpdateStatusTx, TypeOK
  <2>2. req[w].from # req[w].to
    BY <1>2 DEF UpdateStatusTx, WorkflowInv, UpdateIsLegal, isValidTransition, ORDER_TRANSITIONS
  <2>3. CASE StillIn(o, req[w].from) /\ SetStatus(o, req[w].from, req[w].to)
    BY <2>1, <2>2, <2>3, AnnouncedStep DEF StillIn
  <2>4. CASE Conflict(w)
    BY <2>4, SilentStep DEF Conflict
  <2> QED
    BY <1>2, <2>3, <2>4 DEF UpdateStatusTx
<1>3. CASE DeliverTx(w)
  <2> DEFINE o == req[w].order
  <2>1. o \in Order /\ "ready" \in OrderStatuses /\ "delivered" \in OrderStatuses
    BY <1>3, RequestFields DEF DeliverTx, TypeOK, OrderStatuses
  <2>2. CASE StillIn(o, "ready") /\ SetStatus(o, "ready", "delivered")
    BY <2>1, <2>2, AnnouncedStep DEF StillIn
  <2>3. CASE Conflict(w)
    BY <2>3, SilentStep DEF Conflict
  <2> QED
    BY <1>3, <2>2, <2>3 DEF DeliverTx
<1>4. CASE ReturnCommit(w)
  <2> DEFINE o == OrderOf[req[w].item]
  <2>1. /\ o \in Order /\ "delivered" \in OrderStatuses /\ "completed" \in OrderStatuses
        /\ req[w].from \in {"delivered", "completed"}
    BY <1>4, RequestFields DEF ReturnCommit, TypeOK, OrderStatuses
  <2>2. CASE StillIn(o, "delivered") /\ SetStatus(o, req[w].from, "completed")
    <3>1. req[w].from = "completed" => status[o] \in {"completed", "deleted"}
      BY <1>4 DEF ReturnCommit, WorkflowInv, ReturnHoldsOrder
    <3>2. req[w].from = "delivered"
      BY <2>1, <2>2, <3>1 DEF StillIn
    <3> QED
      BY <2>1, <2>2, <3>2, AnnouncedStep DEF StillIn
  <2>3. CASE UNCHANGED orderVars
    BY <2>3, SilentStep
  <2> QED
    BY <1>4, <2>2, <2>3 DEF ReturnCommit
<1>5. CASE DeleteTx(w)
  <2>1. req[w].order \in Order
    BY <1>5, RequestFields DEF DeleteTx, TypeOK
  <2>2. CASE Conflict(w)
    BY <2>2, SilentStep DEF Conflict
  <2>3. CASE ~ Conflict(w)
    BY <1>5, <2>1, <2>3 DEF DeleteTx, WebhookStep, TypeOK, OrderStatuses
  <2> QED
    BY <2>2, <2>3
<1>6. CASE UNCHANGED orderVars
  BY <1>6, SilentStep
<1>7. Begin(w) => UNCHANGED orderVars \/ \E o \in Order, S \in SUBSET Item : Create(w, o, S)
  BY DEF Begin, BeginAddItem, Pick, BeginUpdateStatus, BeginMarkReady, BeginUpload,
           BeginPrepareQuote,
     BeginApproveQuote, BeginDeliver, BeginReturn, BeginDelete, ChangeBoxStatus
<1>8. Step(w) => UNCHANGED orderVars \/ UpdateStatusTx(w) \/ DeliverTx(w) \/ ReturnCommit(w) \/ DeleteTx(w)
  BY DEF Step, AddItemTx, MarkReadyRead, UploadTx, PrepareQuoteTx, ApproveQuoteTx,
           ReturnLock, Conflict
<1>9. Crash(w) => UNCHANGED orderVars
  BY DEF Crash
<1> QED
  BY <1>1, <1>2, <1>3, <1>4, <1>5, <1>6, <1>7, <1>8, <1>9

\* Subscribers see every status change of an order, once, with the status it really
\* left: also when the return that completes an order read it long before.
THEOREM WebhooksFollow == Spec => WebhooksFollowStatus
  BY TypeCorrect, WorkflowInvariant, NextWebhooks, PTL DEF Spec, WebhooksFollowStatus

-------------------------------------------------------------------------------
(* Refinement *)

\* The orders that exist at the start are those of the abstract specification.
LEMMA InitLedger == Init => Ledger!Init
  BY DEF Init, Ledger!Init

\* Every step of a request is one step of the abstract specification, or none.
LEMMA NextLedger == TypeOK /\ WorkflowInv /\ [Next]_vars => [Ledger!Next]_(Ledger!vars)
<1> SUFFICES ASSUME TypeOK, WorkflowInv, NEW w \in Worker, Begin(w) \/ Step(w) \/ Crash(w)
             PROVE  Ledger!Next \/ UNCHANGED <<status, itemStatus>>
    BY DEF Next, vars, Ledger!vars
<1> USE DEF db, orderVars
<1>1. ASSUME NEW o \in Order, NEW S \in SUBSET Item, Create(w, o, S) PROVE Ledger!Create(o, S)
  BY <1>1 DEF Create, Ledger!Create, ItemsOf, Ledger!ItemsOf
<1>2. ASSUME NEW i \in Item, NEW from \in ItemStatuses, NEW to \in ItemStatuses, Pick(w, i, from, to)
      PROVE  Ledger!Pick(i, from, to)
  BY <1>2 DEF Pick, StillIn, Ledger!Pick
<1>3. CASE AddItemTx(w)
  <2>1. req[w].item \in Item
    BY <1>3, RequestFields DEF AddItemTx, TypeOK
  <2>2. CASE Conflict(w)
    BY <2>2 DEF Conflict
  <2>3. CASE ~ Conflict(w)
    <3>1. /\ Exists(OrderOf[req[w].item]) /\ status' = status
          /\ itemStatus' = [itemStatus EXCEPT ![req[w].item] = "pending"]
      BY <1>3, <2>3 DEF AddItemTx
    <3>2. itemStatus[req[w].item] = "absent"
      BY <1>3 DEF AddItemTx, WorkflowInv, InsertIsFresh
    <3>3. Ledger!AddItem(req[w].item)
      BY <3>1, <3>2
           DEF Exists, Ledger!AddItem, Ledger!Exists, OrderStatuses, Ledger!OrderStatuses
    <3> QED
      BY <2>1, <3>3 DEF Ledger!Next
  <2> QED
    BY <2>2, <2>3
<1>4. CASE UpdateStatusTx(w)
  <2> DEFINE r == req[w]
             o == r.order
  <2>1. o \in Order /\ r.from \in OrderStatuses /\ r.to \in OrderStatuses
    BY <1>4, RequestFields DEF UpdateStatusTx, TypeOK
  <2>2. CASE Conflict(w)
    BY <2>2 DEF Conflict
  <2>3. CASE ~ Conflict(w)
    <3>1. /\ status[o] = r.from /\ status' = [status EXCEPT ![o] = r.to]
          /\ itemStatus' = [i \in Item |-> IF r.to = "completed" /\ i \in OpenItems(o)
                                             THEN "delivered" ELSE itemStatus[i]]
      BY <1>4, <2>3 DEF UpdateStatusTx, StillIn, SetStatus
    <3>2. /\ isValidTransition(r.from, r.to) /\ r.to # "delivered"
          /\ ~ (TypeOf[o] = "scan" /\ r.from = "delivered" /\ r.to = "in_progress")
      BY <1>4 DEF UpdateStatusTx, WorkflowInv, UpdateIsLegal
    <3>3. CASE r.to = "completed"
      <4>1. r.from = "delivered"
        BY <3>2, <3>3 DEF isValidTransition, ORDER_TRANSITIONS
      <4>2. Ledger!Complete(o)
        BY <3>1, <3>3, <4>1
             DEF Ledger!Complete, Ledger!Settle, Ledger!ItemsOf, OpenItems, ItemsOf
      <4> QED
        BY <2>1, <4>2 DEF Ledger!Next
    <3>4. CASE r.to # "completed"
      <4>1. itemStatus' = itemStatus
        BY <3>1, <3>4 DEF TypeOK
      <4>2. ~ (TypeOf[o] = "scan" /\ r.from = "delivered")
        BY <3>2, <3>4 DEF isValidTransition, ORDER_TRANSITIONS
      <4>3. Ledger!ChangeStatus(o, r.to)
        BY <2>1, <3>1, <3>2, <3>4, <4>1, <4>2 DEF Ledger!ChangeStatus, Ledger!Exists,
             isValidTransition, ORDER_TRANSITIONS, OrderStatuses, Ledger!isValidTransition,
             Ledger!ORDER_TRANSITIONS, Ledger!OrderStatuses
      <4> QED
        BY <2>1, <4>3 DEF Ledger!Next, OrderStatuses, Ledger!OrderStatuses
    <3> QED
      BY <3>3, <3>4
  <2> QED
    BY <2>2, <2>3
<1>5. CASE DeliverTx(w)
  <2> DEFINE o == req[w].order
             s == IF TypeOf[o] = "return_order" THEN "returned" ELSE "delivered"
  <2>1. o \in Order
    BY <1>5, RequestFields DEF DeliverTx, TypeOK
  <2>2. CASE Conflict(w)
    BY <2>2 DEF Conflict
  <2>3. CASE ~ Conflict(w)
    <3>1. /\ status[o] = "ready" /\ status' = [status EXCEPT ![o] = "delivered"]
          /\ itemStatus' = [i \in Item |-> IF i \in OpenItems(o) THEN s ELSE itemStatus[i]]
      BY <1>5, <2>3 DEF DeliverTx, StillIn, SetStatus
    <3>2. Ledger!Deliver(o)
      BY <3>1 DEF Ledger!Deliver, Ledger!Settle, Ledger!ItemsOf, OpenItems, ItemsOf
    <3> QED
      BY <2>1, <3>2 DEF Ledger!Next
  <2> QED
    BY <2>2, <2>3
<1>6. CASE ReturnCommit(w)
  <2> DEFINE r == req[w]
             i == r.item
             o == OrderOf[i]
             lent == {j \in ItemsOf(o) : itemStatus[j] = "delivered"}
  <2>1. i \in Item /\ o \in Order /\ status[o] \in {"delivered", "completed"}
    BY <1>6, HeldOrder DEF ReturnCommit
  <2>2. TypeOf[o] = "checkout" /\ itemStatus[i] = "delivered" /\ (r.last <=> lent = {i})
    BY <1>6 DEF ReturnCommit, WorkflowInv, ReturnHoldsOrder, OnLoan
  <2>3. /\ itemStatus' = [itemStatus EXCEPT ![i] = "returned"]
        /\ status' = IF r.last /\ status[o] = "delivered" THEN [status EXCEPT ![o] = "completed"]
                                                          ELSE status
    BY <1>6 DEF ReturnCommit, StillIn, SetStatus
  <2>4. status' = [status EXCEPT ![o] = IF lent = {i} THEN "completed" ELSE @]
    <3>1. CASE lent = {i} /\ status[o] = "delivered"
      BY <2>2, <2>3, <3>1
    <3>2. CASE ~ (lent = {i} /\ status[o] = "delivered")
      <4>1. status' = status
        BY <2>2, <2>3, <3>2
      <4> QED
        BY <2>1, <3>2, <4>1 DEF TypeOK
    <3> QED
      BY <3>1, <3>2
  <2>5. Ledger!Return(i)
    BY <2>1, <2>2, <2>3, <2>4 DEF Ledger!Return, Ledger!DeliveredItems, Ledger!ItemsOf, ItemsOf
  <2> QED
    BY <2>1, <2>5 DEF Ledger!Next
<1>7. CASE DeleteTx(w)
  <2> DEFINE o == req[w].order
  <2>1. o \in Order
    BY <1>7, RequestFields DEF DeleteTx, TypeOK
  <2>2. CASE Conflict(w)
    BY <2>2 DEF Conflict
  <2>3. CASE ~ Conflict(w)
    <3>1. /\ Exists(o) /\ status' = [status EXCEPT ![o] = "deleted"]
          /\ itemStatus' = [i \in Item |-> IF i \in ItemsOf(o) THEN "absent" ELSE itemStatus[i]]
      BY <1>7, <2>3 DEF DeleteTx
    <3>2. status[o] \in Terminal
      BY <1>7, <3>1 DEF DeleteTx, WorkflowInv, DeleteIsLegal, Exists, OrderStatuses
    <3>3. Ledger!Delete(o)
      BY <3>1, <3>2 DEF Ledger!Delete, Ledger!ItemsOf, ItemsOf, Terminal, Ledger!Terminal
    <3> QED
      BY <2>1, <3>3 DEF Ledger!Next
  <2> QED
    BY <2>2, <2>3
<1>8. CASE UNCHANGED <<status, itemStatus>>
  BY <1>8
<1>9. Begin(w) => \/ UNCHANGED <<status, itemStatus>>
                  \/ \E o \in Order, S \in SUBSET Item : Create(w, o, S)
                  \/ \E i \in Item, from, to \in ItemStatuses : Pick(w, i, from, to)
  BY DEF Begin, BeginAddItem, BeginUpdateStatus, BeginMarkReady, BeginUpload, BeginPrepareQuote,
     BeginApproveQuote, BeginDeliver, BeginReturn, BeginDelete, ChangeBoxStatus
<1>10. Step(w) => \/ UNCHANGED <<status, itemStatus>>
                  \/ AddItemTx(w) \/ UpdateStatusTx(w) \/ DeliverTx(w) \/ ReturnCommit(w) \/ DeleteTx(w)
  BY DEF Step, MarkReadyRead, UploadTx, PrepareQuoteTx, ApproveQuoteTx, ReturnLock, Conflict
<1>11. Crash(w) => UNCHANGED <<status, itemStatus>>
  BY DEF Crash
<1>12. ASSUME NEW o \in Order, NEW S \in SUBSET Item, Ledger!Create(o, S) PROVE Ledger!Next
  BY <1>12 DEF Ledger!Next
<1>13. ASSUME NEW i \in Item, NEW from \in ItemStatuses, NEW to \in ItemStatuses, Ledger!Pick(i, from, to)
       PROVE  Ledger!Next
  BY <1>13 DEF Ledger!Next, ItemStatuses, Ledger!ItemStatuses
<1> QED
  BY <1>1, <1>2, <1>3, <1>4, <1>5, <1>6, <1>7, <1>8, <1>9, <1>10, <1>11, <1>12, <1>13

\* The order module implements OrderLedger: its handlers, which read first and write
\* later, under concurrency and crashes, take effect one at a time.
THEOREM LedgerImplemented == Spec => ImplementsLedger
  BY TypeCorrect, WorkflowInvariant, InitLedger, NextLedger, PTL
       DEF Spec, ImplementsLedger, Ledger!Spec

-------------------------------------------------------------------------------
(* Quotes and the bill of a scan order *)

\* No quote is stored and nothing is billed at the start, also not for the scan
\* orders that were made ready before quotes existed.
LEMMA InitScanInv == Init => ScanInv
  BY DEF Init, ScanInv, QuotesBacked, ScanUnbilled, ScanBilledAsQuoted, ScanRequest, Rows, ItemsOf,
         Idle

\* Files are never removed, and rows, quotes and approvals go only with their order.
QuotesSurvive ==
  /\ scanned \subseteq scanned'
  /\ \A o \in Order :
       /\ status[o] = "deleted" => status'[o] = "deleted"
       /\ status'[o] # "deleted" =>
            /\ \A i \in ItemsOf(o) : itemStatus[i] # "absent" => itemStatus'[i] # "absent"
            /\ quote[o] # {} => quote'[o] = quote[o]
            /\ o \in approved => o \in approved'

\* No scan order is delivered in this step, and none goes back before its delivery.
NoScanDelivered ==
  /\ billed' = billed
  /\ \A o \in Order : TypeOf[o] = "scan" =>
       /\ status'[o] \in Undelivered => status[o] \in Undelivered
       /\ status'[o] \in {"delivered", "completed"} => status[o] \in {"delivered", "completed"}

\* What a waiting request knows about rows, files and quotes stays true.
LEMMA ScanRequestKept ==
  ASSUME TypeOK, ScanInv, QuotesSurvive, NEW v \in Worker, req'[v] = req[v]
  PROVE  ScanRequest(v)'
<1>1. ScanRequest(v) /\ req[v] \in Request
  BY DEF ScanInv, TypeOK
<1> DEFINE r == req[v]
           o == r.order
<1>2. CASE r.pc = "quote" \/ r.pc = "updateStatus"
  <2>1. o \in Order
    BY <1>1, <1>2, RequestFields
  <2>2. status'[o] # "deleted" => r.quoted \subseteq Rows(o)' \cap scanned'
    BY <1>1, <1>2, <2>1 DEF ScanRequest, QuotesSurvive, Rows, ItemsOf
  <2> QED
    BY <1>1, <1>2, <2>2 DEF ScanRequest
<1>3. CASE r.pc = "approveQuote" \/ r.pc = "deliver"
  <2>1. o \in Order
    BY <1>1, <1>3, RequestFields
  <2>2. o \in approved => quote[o] # {}
    BY <2>1 DEF ScanInv, QuotesBacked
  <2> QED
    BY <1>1, <1>3, <2>1, <2>2 DEF ScanRequest, QuotesSurvive
<1> QED
  BY <1>1, <1>2, <1>3 DEF ScanRequest

\* The bill of a delivered scan order stays what its quote says.
LEMMA ScanBillsKept ==
  ASSUME TypeOK, ScanInv, QuotesSurvive, NoScanDelivered
  PROVE  ScanUnbilled' /\ ScanBilledAsQuoted'
<1>1. ScanUnbilled'
  BY DEF ScanInv, ScanUnbilled, NoScanDelivered
<1>2. ASSUME NEW o \in Order, TypeOf[o] = "scan", status'[o] \in {"delivered", "completed"}
      PROVE  o \in approved' /\ \A i \in ItemsOf(o) : billed'[i] = IF i \in quote'[o] THEN 1 ELSE 0
  <2>1. o \in approved /\ \A i \in ItemsOf(o) : billed[i] = IF i \in quote[o] THEN 1 ELSE 0
    BY <1>2 DEF ScanInv, ScanBilledAsQuoted, NoScanDelivered
  <2>2. quote[o] # {}
    BY <2>1 DEF ScanInv, QuotesBacked
  <2> QED
    BY <1>2, <2>1, <2>2 DEF QuotesSurvive, NoScanDelivered
<1> QED
  BY <1>1, <1>2 DEF ScanBilledAsQuoted, ItemsOf

\* A step of w that delivers no scan order.
LEMMA ScanStep ==
  ASSUME TypeOK, ScanInv, NEW w \in Worker, QuotesSurvive, NoScanDelivered, QuotesBacked',
         ScanRequest(w)', \A v \in Worker \ {w} : req'[v] = req[v]
  PROVE  ScanInv'
  BY ScanRequestKept, ScanBillsKept DEF ScanInv

\* A step of w that writes neither quotes nor the status of a scan order.
LEMMA QuotesUntouched ==
  ASSUME TypeOK, ScanInv, NEW w \in Worker, scanned \subseteq scanned',
         UNCHANGED <<quote, approved, billed>>,
         \A i \in Item : itemStatus[i] # "absent" => itemStatus'[i] # "absent",
         \A o \in Order : status'[o] = status[o] \/
           /\ status[o] # "deleted" /\ status'[o] # "deleted"
           /\ TypeOf[o] # "scan" \/ (status[o] = "absent" /\ status'[o] = "draft"),
         ScanRequest(w)', \A v \in Worker \ {w} : req'[v] = req[v]
  PROVE  ScanInv'
<1>1. QuotesSurvive
  BY DEF QuotesSurvive, ItemsOf
<1>2. NoScanDelivered
  BY DEF NoScanDelivered, Undelivered
<1>3. QuotesBacked'
  BY DEF ScanInv, QuotesBacked, Rows, ItemsOf
<1> QED
  BY <1>1, <1>2, <1>3, ScanStep

\* A request that ends promises nothing about quotes any more.
LEMMA EndedScanRequest ==
  ASSUME TypeOK, NEW w \in Worker, Done(w)
  PROVE  ScanRequest(w)' /\ \A v \in Worker \ {w} : req'[v] = req[v]
  BY DEF TypeOK, Done, Goto, Idle, ScanRequest

\* A request that only reads.
LEMMA ScanRead ==
  ASSUME TypeOK, ScanInv, NEW w \in Worker, NEW r, Goto(w, r), UNCHANGED db, ScanRequest(w)'
  PROVE  ScanInv'
  BY QuotesUntouched DEF Goto, TypeOK, db, orderVars, quoteVars

\* A request that is refused.
LEMMA ScanConflict ==
  ASSUME TypeOK, ScanInv, NEW w \in Worker, Done(w), UNCHANGED db
  PROVE  ScanInv'
  BY ScanRead, EndedScanRequest DEF Done

\* updateStatus quotes, for a scan order, the rows it found, all of which have a file.
LEMMA ScanUpdateRequest ==
  ASSUME TypeOK, ScanInv, NEW w \in Worker, NEW o \in Order, NEW to, MayUpdateStatus(o, to),
         GotoUpdateStatus(w, o, to), UNCHANGED db
  PROVE  ScanInv'
<1> DEFINE quoted == IF TypeOf[o] = "scan" /\ to = "ready" THEN Rows(o) ELSE {}
           r == [pc |-> "updateStatus", order |-> o, from |-> status[o], to |-> to, quoted |-> quoted]
<1>1. Goto(w, r)
  BY DEF GotoUpdateStatus
<1>2. req'[w] = r
  BY <1>1 DEF Goto, TypeOK
<1>3. quoted \subseteq Rows(o) \cap scanned
  BY DEF MayUpdateStatus, AllScanned
<1>4. Rows(o)' = Rows(o) /\ scanned' = scanned
  BY DEF Rows, ItemsOf, db
<1>5. ScanRequest(w)'
  BY <1>2, <1>3, <1>4 DEF ScanRequest
<1> QED
  BY <1>1, <1>5, ScanRead

\* The scan invariant is inductive (given the types and the workflow invariant).
LEMMA NextScanInv == TypeOK /\ WorkflowInv /\ ScanInv /\ [Next]_vars => ScanInv'
<1> SUFFICES ASSUME TypeOK, WorkflowInv, ScanInv, [Next]_vars PROVE ScanInv'
    OBVIOUS
<1>1. CASE UNCHANGED vars
  BY <1>1 DEF vars, ScanInv, QuotesBacked, ScanUnbilled, ScanBilledAsQuoted, ScanRequest, Rows, ItemsOf
<1>2. ASSUME NEW w \in Worker, Begin(w) PROVE ScanInv'
  <2>1. ASSUME NEW o \in Order, NEW S \in SUBSET Item, Create(w, o, S) PROVE ScanInv'
    <3>1. /\ \A p \in Order : status'[p] = IF p = o THEN "draft" ELSE status[p]
          /\ status[o] = "absent" /\ req[w] = Idle
          /\ \A i \in Item : itemStatus'[i] = IF i \in S THEN "pending" ELSE itemStatus[i]
          /\ UNCHANGED <<scanned, quote, approved, billed, req>>
      BY <2>1 DEF Create, Calls, TypeOK, quoteVars
    <3>2. ScanRequest(w)'
      BY <3>1 DEF ScanRequest, Idle
    <3> QED
      BY <3>1, <3>2, QuotesUntouched
  <2>2. ASSUME NEW i \in Item, BeginAddItem(w, i) PROVE ScanInv'
    <3>1. ScanRequest(w)'
      BY <2>2 DEF BeginAddItem, Goto, TypeOK, ScanRequest
    <3> QED
      BY <2>2, <3>1, ScanRead DEF BeginAddItem
  <2>3. ASSUME NEW i \in Item, NEW from \in ItemStatuses, NEW to \in ItemStatuses, Pick(w, i, from, to)
        PROVE  ScanInv'
    <3>1. /\ \A j \in Item : itemStatus[j] # "absent" => itemStatus'[j] # "absent"
          /\ req[w] = Idle
          /\ UNCHANGED <<status, scanned, quote, approved, billed, req>>
      BY <2>3 DEF Pick, Calls, TypeOK, orderVars, quoteVars, ItemStatuses
    <3>2. ScanRequest(w)'
      BY <3>1 DEF ScanRequest, Idle
    <3> QED
      BY <3>1, <3>2, QuotesUntouched
  <2>4. ASSUME NEW o \in Order, NEW to \in OrderStatuses, BeginUpdateStatus(w, o, to) PROVE ScanInv'
    BY <2>4, ScanUpdateRequest DEF BeginUpdateStatus
  <2>5. ASSUME NEW o \in Order, BeginMarkReady(w, o) PROVE ScanInv'
    <3>1. ScanRequest(w)'
      BY <2>5 DEF BeginMarkReady, Goto, TypeOK, ScanRequest
    <3> QED
      BY <2>5, <3>1, ScanRead DEF BeginMarkReady
  <2>6. ASSUME NEW i \in Item, BeginUpload(w, i) PROVE ScanInv'
    <3>1. ScanRequest(w)'
      BY <2>6 DEF BeginUpload, Goto, TypeOK, ScanRequest
    <3> QED
      BY <2>6, <3>1, ScanRead DEF BeginUpload
  <2>7. ASSUME NEW o \in Order, BeginPrepareQuote(w, o) PROVE ScanInv'
    <3> DEFINE r == [pc |-> "quote", order |-> o, quoted |-> Rows(o)]
    <3>1. Goto(w, r) /\ UNCHANGED db /\ Rows(o) # {} /\ Rows(o) \subseteq scanned
      BY <2>7 DEF BeginPrepareQuote, AllScanned
    <3>2. req'[w] = r
      BY <3>1 DEF Goto, TypeOK
    <3>3. Rows(o)' = Rows(o) /\ scanned' = scanned
      BY <3>1 DEF Rows, ItemsOf, db
    <3>4. ScanRequest(w)'
      BY <3>1, <3>2, <3>3 DEF ScanRequest
    <3> QED
      BY <3>1, <3>4, ScanRead
  <2>8. ASSUME NEW o \in Order, BeginApproveQuote(w, o) PROVE ScanInv'
    <3> DEFINE r == [pc |-> "approveQuote", order |-> o]
    <3>1. Goto(w, r) /\ UNCHANGED db /\ quote[o] # {}
      BY <2>8 DEF BeginApproveQuote, QuoteMatches, AllScanned
    <3>2. req'[w] = r
      BY <3>1 DEF Goto, TypeOK
    <3>3. ScanRequest(w)'
      BY <3>1, <3>2 DEF ScanRequest, db, quoteVars
    <3> QED
      BY <3>1, <3>3, ScanRead
  <2>9. ASSUME NEW o \in Order, NEW withProof \in BOOLEAN, BeginDeliver(w, o, withProof)
        PROVE  ScanInv'
    <3> DEFINE r == [pc |-> "deliver", order |-> o, items |-> Rows(o), proof |-> withProof]
    <3>1. Goto(w, r) /\ UNCHANGED db /\ (TypeOf[o] = "scan" => o \in approved /\ quote[o] = Rows(o))
      BY <2>9 DEF BeginDeliver, MayDeliver, QuoteMatches
    <3>2. req'[w] = r
      BY <3>1 DEF Goto, TypeOK
    <3>3. ScanRequest(w)'
      BY <3>1, <3>2 DEF ScanRequest, db, quoteVars
    <3> QED
      BY <3>1, <3>3, ScanRead
  <2>10. ASSUME NEW i \in Item, BeginReturn(w, i) PROVE ScanInv'
    <3>1. ScanRequest(w)'
      BY <2>10 DEF BeginReturn, Goto, TypeOK, ScanRequest
    <3> QED
      BY <2>10, <3>1, ScanRead DEF BeginReturn
  <2>11. ASSUME NEW o \in Order, BeginDelete(w, o) PROVE ScanInv'
    <3>1. ScanRequest(w)'
      BY <2>11 DEF BeginDelete, Goto, TypeOK, ScanRequest
    <3> QED
      BY <2>11, <3>1, ScanRead DEF BeginDelete
  <2>12. ASSUME NEW b \in Box, NEW s \in BoxStatuses, ChangeBoxStatus(w, b, s) PROVE ScanInv'
    <3>1. req[w] = Idle /\ UNCHANGED <<status, itemStatus, scanned, quote, approved, billed, req>>
      BY <2>12 DEF ChangeBoxStatus, Calls, orderVars, quoteVars
    <3>2. ScanRequest(w)'
      BY <3>1 DEF ScanRequest, Idle
    <3> QED
      BY <3>1, <3>2, QuotesUntouched
  <2> QED
    BY <1>2, <2>1, <2>2, <2>3, <2>4, <2>5, <2>6, <2>7, <2>8, <2>9, <2>10, <2>11, <2>12 DEF Begin
<1>3. ASSUME NEW w \in Worker, Step(w) PROVE ScanInv'
  <2>1. req[w] \in Request
    BY DEF TypeOK
  <2>2. Conflict(w) => ScanInv'
    BY ScanConflict DEF Conflict
  <2>3. Done(w) => ScanRequest(w)' /\ \A v \in Worker \ {w} : req'[v] = req[v]
    BY EndedScanRequest
  <2> DEFINE r == req[w]
             o == r.order
  <2>4. CASE AddItemTx(w)
    <3>1. SUFFICES ASSUME ~ Conflict(w) PROVE ScanInv'
      BY <2>2
    <3>2. /\ Done(w) /\ UNCHANGED <<status, scanned, quote, approved, billed>>
          /\ itemStatus' = [itemStatus EXCEPT ![r.item] = "pending"]
      BY <2>4, <3>1 DEF AddItemTx, orderVars, quoteVars
    <3>3. \A i \in Item : itemStatus[i] # "absent" => itemStatus'[i] # "absent"
      BY <3>2 DEF TypeOK
    <3> QED
      BY <2>3, <3>2, <3>3, QuotesUntouched
  <2>5. CASE MarkReadyRead(w)
    <3>1. o \in Order
      BY <2>1, <2>5, RequestFields DEF MarkReadyRead
    <3>2. CASE MayUpdateStatus(o, "ready")
      BY <2>5, <3>1, <3>2, ScanUpdateRequest DEF MarkReadyRead
    <3>3. CASE ~ MayUpdateStatus(o, "ready")
      BY <2>2, <2>5, <3>3 DEF MarkReadyRead, Conflict
    <3> QED
      BY <3>2, <3>3
  <2>6. CASE UpdateStatusTx(w)
    <3>1. o \in Order /\ r.from \in OrderStatuses /\ r.to \in OrderStatuses /\ r.quoted \in SUBSET Item
      BY <2>1, <2>6, RequestFields DEF UpdateStatusTx
    <3>2. SUFFICES ASSUME ~ Conflict(w) PROVE ScanInv'
      BY <2>2
    <3>3. /\ status[o] = r.from /\ Done(w)
          /\ r.quoted # {} => quote[o] = {}
          /\ status' = [status EXCEPT ![o] = r.to]
          /\ quote' = IF r.quoted = {} THEN quote ELSE [quote EXCEPT ![o] = r.quoted]
          /\ itemStatus' = [i \in Item |-> IF r.to = "completed" /\ i \in OpenItems(o)
                                             THEN "delivered" ELSE itemStatus[i]]
          /\ UNCHANGED <<scanned, approved, billed>>
      BY <2>6, <3>2 DEF UpdateStatusTx, StillIn, SetStatus
    <3>4. /\ \A p \in Order : status'[p] = IF p = o THEN r.to ELSE status[p]
          /\ \A p \in Order : quote'[p] = IF p = o /\ r.quoted # {} THEN r.quoted ELSE quote[p]
          /\ \A i \in Item : itemStatus[i] # "absent" => itemStatus'[i] # "absent"
      BY <3>1, <3>3 DEF TypeOK
    <3>5. /\ isValidTransition(r.from, r.to) /\ r.to # "delivered"
          /\ ~ (TypeOf[o] = "scan" /\ r.from = "delivered" /\ r.to = "in_progress")
      BY <2>6 DEF UpdateStatusTx, WorkflowInv, UpdateIsLegal
    <3>6. r.quoted \subseteq Rows(o) \cap scanned
      <4>1. status[o] # "deleted"
        BY <3>1, <3>3 DEF OrderStatuses
      <4> QED
        BY <2>6, <4>1 DEF UpdateStatusTx, ScanInv, ScanRequest
    <3>7. QuotesSurvive
      <4>1. status[o] # "deleted"
        BY <3>1, <3>3 DEF OrderStatuses
      <4> QED
        BY <3>1, <3>3, <3>4, <4>1 DEF QuotesSurvive, ItemsOf
    <3>8. NoScanDelivered
      BY <3>1, <3>3, <3>4, <3>5
           DEF NoScanDelivered, Undelivered, isValidTransition, ORDER_TRANSITIONS
    <3>9. QuotesBacked'
      BY <3>1, <3>3, <3>4, <3>6 DEF ScanInv, QuotesBacked, Rows, ItemsOf
    <3> QED
      BY <2>3, <3>3, <3>7, <3>8, <3>9, ScanStep
  <2>7. CASE UploadTx(w)
    <3>1. SUFFICES ASSUME ~ Conflict(w) PROVE ScanInv'
      BY <2>2
    <3>2. /\ Done(w) /\ UNCHANGED <<status, itemStatus, quote, approved, billed>>
          /\ scanned \subseteq scanned'
      BY <2>7, <3>1 DEF UploadTx, orderVars, quoteVars
    <3> QED
      BY <2>3, <3>2, QuotesUntouched
  <2>8. CASE PrepareQuoteTx(w)
    <3>1. o \in Order /\ r.quoted \in SUBSET Item
      BY <2>1, <2>8, RequestFields DEF PrepareQuoteTx
    <3>2. SUFFICES ASSUME ~ Conflict(w) PROVE ScanInv'
      BY <2>2
    <3>3. /\ status[o] = "ready" /\ quote[o] = {} /\ Done(w)
          /\ quote' = [quote EXCEPT ![o] = r.quoted]
          /\ UNCHANGED <<status, itemStatus, scanned, approved, billed>>
      BY <2>8, <3>2 DEF PrepareQuoteTx, StillIn, orderVars
    <3>4. \A p \in Order : quote'[p] = IF p = o THEN r.quoted ELSE quote[p]
      BY <3>1, <3>3 DEF TypeOK
    <3>5. r.quoted # {} /\ r.quoted \subseteq Rows(o) \cap scanned
      BY <2>8, <3>3 DEF PrepareQuoteTx, ScanInv, ScanRequest
    <3>6. QuotesSurvive /\ NoScanDelivered
      BY <3>3, <3>4 DEF QuotesSurvive, NoScanDelivered
    <3>7. QuotesBacked'
      BY <3>1, <3>3, <3>4, <3>5 DEF ScanInv, QuotesBacked, Rows, ItemsOf
    <3> QED
      BY <2>3, <3>3, <3>6, <3>7, ScanStep
  <2>9. CASE ApproveQuoteTx(w)
    <3>1. o \in Order
      BY <2>1, <2>9, RequestFields DEF ApproveQuoteTx
    <3>2. SUFFICES ASSUME ~ Conflict(w) PROVE ScanInv'
      BY <2>2
    <3>3. /\ status[o] = "ready" /\ Done(w)
          /\ approved' = approved \cup {o}
          /\ UNCHANGED <<status, itemStatus, scanned, quote, billed>>
      BY <2>9, <3>2 DEF ApproveQuoteTx, StillIn, orderVars
    <3>4. quote[o] # {}
      BY <2>9, <3>3 DEF ApproveQuoteTx, ScanInv, ScanRequest
    <3>5. QuotesSurvive /\ NoScanDelivered
      BY <3>3 DEF QuotesSurvive, NoScanDelivered
    <3>6. QuotesBacked'
      BY <3>1, <3>3, <3>4 DEF ScanInv, QuotesBacked, Rows, ItemsOf
    <3> QED
      BY <2>3, <3>3, <3>5, <3>6, ScanStep
  <2>10. CASE DeliverTx(w)
    <3>1. o \in Order /\ r.items \in SUBSET Item
      BY <2>1, <2>10, RequestFields DEF DeliverTx
    <3>2. SUFFICES ASSUME ~ Conflict(w) PROVE ScanInv'
      BY <2>2
    <3>3. /\ status[o] = "ready" /\ Done(w)
          /\ status' = [status EXCEPT ![o] = "delivered"]
          /\ billed' = Bump(billed, NotBilledYet(Billable(o, r.items)))
          /\ UNCHANGED <<scanned, quote, approved>>
      BY <2>10, <3>2 DEF DeliverTx, StillIn, SetStatus, quoteVars
    <3>4. itemStatus' = [i \in Item |-> IF i \in OpenItems(o)
                           THEN IF TypeOf[o] = "return_order" THEN "returned" ELSE "delivered"
                           ELSE itemStatus[i]]
      BY <2>10, <3>2 DEF DeliverTx
    <3>5. /\ \A p \in Order : status'[p] = IF p = o THEN "delivered" ELSE status[p]
          /\ \A i \in Item : itemStatus[i] # "absent" => itemStatus'[i] # "absent"
      BY <3>1, <3>3, <3>4 DEF TypeOK
    <3>6. QuotesSurvive
      BY <3>3, <3>5 DEF QuotesSurvive, ItemsOf
    <3>7. QuotesBacked'
      BY <3>3, <3>5 DEF ScanInv, QuotesBacked, Rows, ItemsOf
    <3>8. \A i \in Item : i \notin r.items => billed'[i] = billed[i]
      <4>1. Billable(o, r.items) \subseteq r.items
        BY DEF Billable
      <4> QED
        BY <3>3, <4>1 DEF Bump, NotBilledYet
    <3>9. \A i \in Item : OrderOf[i] # o => billed'[i] = billed[i]
      <4>1. r.items \subseteq ItemsOf(o)
        BY <2>10 DEF DeliverTx, WorkflowInv, DeliversItsItems
      <4> QED
        BY <3>8, <4>1 DEF ItemsOf
    <3>10. ScanUnbilled'
      BY <3>5, <3>9 DEF ScanInv, ScanUnbilled, Undelivered
    <3>11. ScanBilledAsQuoted'
      <4>1. SUFFICES ASSUME NEW p \in Order, TypeOf[p] = "scan", status'[p] \in {"delivered", "completed"}
                     PROVE  p \in approved' /\ \A i \in ItemsOf(p) : billed'[i] = IF i \in quote'[p] THEN 1 ELSE 0
        BY DEF ScanBilledAsQuoted, ItemsOf
      <4>2. CASE p = o
        <5>1. o \in approved /\ quote[o] = r.items
          BY <2>10, <3>3, <4>1, <4>2 DEF DeliverTx, ScanInv, ScanRequest
        <5>2. r.items \subseteq scanned
          BY <3>1, <5>1 DEF ScanInv, QuotesBacked
        <5>3. \A i \in ItemsOf(o) : i \in Item /\ billed[i] = 0
          BY <3>1, <3>3, <4>1, <4>2 DEF ScanInv, ScanUnbilled, Undelivered, ItemsOf
        <5>4. Billable(o, r.items) = r.items
          BY <4>1, <4>2, <5>2 DEF Billable
        <5>5. \A i \in ItemsOf(o) : billed'[i] = IF i \in r.items THEN 1 ELSE 0
          BY <3>3, <5>3, <5>4 DEF Bump, NotBilledYet
        <5> QED
          BY <3>3, <4>2, <5>1, <5>5
      <4>3. CASE p # o
        <5>1. status[p] \in {"delivered", "completed"}
          BY <3>5, <4>1, <4>3
        <5> QED
          BY <3>3, <3>9, <4>1, <4>3, <5>1 DEF ScanInv, ScanBilledAsQuoted, ItemsOf
      <4> QED
        BY <4>2, <4>3
    <3> QED
      BY <2>3, <3>3, <3>6, <3>7, <3>10, <3>11, ScanRequestKept DEF ScanInv
  <2>11. CASE ReturnLock(w)
    <3>1. SUFFICES ASSUME ~ Conflict(w) PROVE ScanInv'
      BY <2>2
    <3>2. PICK last \in BOOLEAN, releaseBox \in BOOLEAN :
            Goto(w, [pc |-> "returnCommit", item |-> r.item, from |-> r.from,
                     last |-> last, releaseBox |-> releaseBox])
      BY <2>11, <3>1 DEF ReturnLock
    <3>3. ScanRequest(w)'
      BY <3>2 DEF Goto, TypeOK, ScanRequest
    <3> QED
      BY <2>11, <3>1, <3>2, <3>3, ScanRead DEF ReturnLock
  <2>12. CASE ReturnCommit(w)
    <3> DEFINE i == r.item
               p == OrderOf[i]
    <3>1. i \in Item /\ p \in Order /\ status[p] \in {"delivered", "completed"}
      BY <2>1, <2>12, HeldOrder DEF ReturnCommit
    <3>2. TypeOf[p] = "checkout"
      BY <2>12 DEF ReturnCommit, WorkflowInv, ReturnHoldsOrder
    <3>3. /\ itemStatus' = [itemStatus EXCEPT ![i] = "returned"]
          /\ Done(w) /\ UNCHANGED <<scanned, quote, approved, billed>>
          /\ status' = status \/ status' = [status EXCEPT ![p] = "completed"]
      BY <2>12 DEF ReturnCommit, SetStatus, orderVars, quoteVars
    <3>4. \A j \in Item : itemStatus[j] # "absent" => itemStatus'[j] # "absent"
      BY <3>3 DEF TypeOK
    <3>5. \A q \in Order : status'[q] = status[q] \/ (q = p /\ status'[q] = "completed")
      BY <3>1, <3>3 DEF TypeOK
    <3> QED
      BY <2>3, <3>1, <3>2, <3>3, <3>4, <3>5, QuotesUntouched
  <2>13. CASE DeleteTx(w)
    <3>1. o \in Order
      BY <2>1, <2>13, RequestFields DEF DeleteTx
    <3>2. SUFFICES ASSUME ~ Conflict(w) PROVE ScanInv'
      BY <2>2
    <3>3. /\ Done(w)
          /\ status' = [status EXCEPT ![o] = "deleted"]
          /\ itemStatus' = [i \in Item |-> IF i \in ItemsOf(o) THEN "absent" ELSE itemStatus[i]]
          /\ quote' = [quote EXCEPT ![o] = {}]
          /\ approved' = approved \ {o}
          /\ UNCHANGED <<scanned, billed>>
      BY <2>13, <3>2 DEF DeleteTx
    <3>4. /\ \A p \in Order : status'[p] = IF p = o THEN "deleted" ELSE status[p]
          /\ \A i \in Item : itemStatus'[i] = IF OrderOf[i] = o THEN "absent" ELSE itemStatus[i]
          /\ \A p \in Order : quote'[p] = IF p = o THEN {} ELSE quote[p]
      BY <3>1, <3>3 DEF TypeOK, ItemsOf
    <3>5. QuotesSurvive
      BY <3>3, <3>4 DEF QuotesSurvive, ItemsOf
    <3>6. NoScanDelivered
      BY <3>3, <3>4 DEF NoScanDelivered, Undelivered
    <3>7. QuotesBacked'
      BY <3>1, <3>3, <3>4 DEF ScanInv, QuotesBacked, Rows, ItemsOf
    <3> QED
      BY <2>3, <3>3, <3>5, <3>6, <3>7, ScanStep
  <2> QED
    BY <1>3, <2>4, <2>5, <2>6, <2>7, <2>8, <2>9, <2>10, <2>11, <2>12, <2>13 DEF Step
<1>4. ASSUME NEW w \in Worker, Crash(w) PROVE ScanInv'
  BY <1>4, ScanConflict DEF Crash
<1> QED
  BY <1>1, <1>2, <1>3, <1>4 DEF Next

\* Every quote under way or stored counts files that exist: the invariant behind the
\* next two theorems.
THEOREM ScanInvariant == Spec => []ScanInv
  BY InitTypeOK, NextTypeOK, InitWorkflowInv, NextWorkflowInv, InitScanInv, NextScanInv, PTL DEF Spec

\* A scan order reaches the client with an approved quote and bills that quote, in
\* every workload: whatever items were added and files stored in between.
THEOREM ScansBilledAsQuoted == Spec => []ScanBilledAsQuoted
<1>1. ScanInv => ScanBilledAsQuoted
  BY DEF ScanInv
<1> QED
  BY <1>1, ScanInvariant, PTL

\* What a client approved stays backed by rows and files until the order is deleted.
THEOREM ApprovedQuotesBacked == Spec => []ApprovedQuoteBacked
<1>1. TypeOK /\ ScanInv => ApprovedQuoteBacked
  BY DEF TypeOK, ScanInv, QuotesBacked, ApprovedQuoteBacked
<1> QED
  BY <1>1, TypeCorrect, ScanInvariant, PTL

-------------------------------------------------------------------------------
(* Deliveries without late inserts *)

\* No row is there but the pending ones of the old scan orders.
LEMMA InitRowsInv == Init => RowsInv
  BY DEF Init, RowsInv, NothingLeftOpen, DeliversAllRows, Idle

\* The rows of an order are fixed when it is created, until it is deleted.
RowsFixed ==
  \A o \in Order :
    /\ status[o] = "deleted" => status'[o] = "deleted"
    /\ Exists(o) => status'[o] = "deleted" \/ (Exists(o)' /\ Rows(o)' = Rows(o))

\* A step of w under which rows are fixed and settled orders stay settled.
LEMMA RowsStep ==
  ASSUME TypeOK, RowsInv, NEW w \in Worker, RowsFixed, NothingLeftOpen', DeliversAllRows(w)',
         \A v \in Worker \ {w} : req'[v] = req[v]
  PROVE  RowsInv'
<1>1. ASSUME NEW v \in Worker \ {w} PROVE DeliversAllRows(v)'
  <2>1. DeliversAllRows(v) /\ req[v] \in Request /\ req'[v] = req[v]
    BY DEF RowsInv, TypeOK
  <2>2. req[v].pc = "deliver" => req[v].order \in Order
    BY <2>1, RequestFields
  <2> QED
    BY <2>1, <2>2 DEF DeliversAllRows, RowsFixed
<1> QED
  BY <1>1 DEF RowsInv

\* A step of w that changes no row and no status.
LEMMA RowsUntouched ==
  ASSUME TypeOK, RowsInv, NEW w \in Worker, UNCHANGED <<status, itemStatus>>,
         DeliversAllRows(w)', \A v \in Worker \ {w} : req'[v] = req[v]
  PROVE  RowsInv'
<1>1. RowsFixed /\ NothingLeftOpen'
  BY DEF RowsFixed, Exists, Rows, RowsInv, NothingLeftOpen, OpenItems, ItemsOf
<1> QED
  BY <1>1, RowsStep

\* A request that ends delivers nothing any more.
LEMMA EndedDelivery ==
  ASSUME TypeOK, NEW w \in Worker, Done(w)
  PROVE  DeliversAllRows(w)' /\ \A v \in Worker \ {w} : req'[v] = req[v]
  BY DEF TypeOK, Done, Goto, Idle, DeliversAllRows

\* A request that goes on, and is neither an insert nor a delivery.
LEMMA OtherRequest ==
  ASSUME TypeOK, RowsInv, NEW w \in Worker, NEW r, Goto(w, r), r.pc \notin {"addItem", "deliver"},
         UNCHANGED <<status, itemStatus>>
  PROVE  RowsInv'
<1>1. DeliversAllRows(w)' /\ \A v \in Worker \ {w} : req'[v] = req[v]
  BY DEF TypeOK, Goto, DeliversAllRows
<1> QED
  BY <1>1, RowsUntouched

\* The rows invariant is inductive (given the types and the workflow invariant) in
\* every workload without inserts into existing orders.
LEMMA NextRowsInv ==
  NoLateInsert /\ TypeOK /\ WorkflowInv /\ RowsInv /\ [Next]_vars => RowsInv'
<1> SUFFICES ASSUME NoLateInsert, TypeOK, WorkflowInv, RowsInv, [Next]_vars PROVE RowsInv'
    OBVIOUS
<1>1. CASE UNCHANGED vars
  BY <1>1 DEF vars, RowsInv, NothingLeftOpen, DeliversAllRows, Exists, Rows, OpenItems, ItemsOf
<1>2. ASSUME NEW w \in Worker, Begin(w) PROVE RowsInv'
  <2> USE DEF db, orderVars
  <2>1. ASSUME NEW o \in Order, NEW S \in SUBSET Item, Create(w, o, S) PROVE RowsInv'
    <3>1. /\ \A p \in Order : status'[p] = IF p = o THEN "draft" ELSE status[p]
          /\ status[o] = "absent" /\ S \subseteq ItemsOf(o) /\ req' = req /\ req[w] = Idle
          /\ \A i \in Item : itemStatus'[i] = IF i \in S THEN "pending" ELSE itemStatus[i]
      BY <2>1 DEF Create, Calls, TypeOK
    <3>2. \A p \in Order : p # o => Rows(p)' = Rows(p) /\ OpenItems(p)' = OpenItems(p)
      BY <3>1 DEF Rows, OpenItems, ItemsOf
    <3>3. RowsFixed
      BY <3>1, <3>2 DEF RowsFixed, Exists, OrderStatuses
    <3>4. NothingLeftOpen'
      BY <3>1, <3>2 DEF RowsInv, NothingLeftOpen
    <3>5. DeliversAllRows(w)'
      BY <3>1 DEF DeliversAllRows, Idle
    <3> QED
      BY <3>1, <3>3, <3>4, <3>5, RowsStep
  <2>2. ASSUME NEW i \in Item, BeginAddItem(w, i) PROVE FALSE
    BY <2>2 DEF BeginAddItem, Calls, NoLateInsert
  <2>3. ASSUME NEW i \in Item, NEW from \in ItemStatuses, NEW to \in ItemStatuses, Pick(w, i, from, to)
        PROVE  RowsInv'
    <3>1. /\ status[OrderOf[i]] = "in_progress" /\ status' = status /\ req' = req /\ req[w] = Idle
          /\ itemStatus[i] # "absent" /\ itemStatus'[i] # "absent"
          /\ \A j \in Item : j # i => itemStatus'[j] = itemStatus[j]
      BY <2>3 DEF Pick, Calls, StillIn, TypeOK
    <3>2. RowsFixed
      BY <3>1 DEF RowsFixed, Exists, Rows, ItemsOf
    <3>3. NothingLeftOpen'
      BY <3>1 DEF RowsInv, NothingLeftOpen, OpenItems, ItemsOf
    <3>4. DeliversAllRows(w)'
      BY <3>1 DEF DeliversAllRows, Idle
    <3> QED
      BY <3>1, <3>2, <3>3, <3>4, RowsStep
  <2>4. ASSUME NEW o \in Order, NEW to \in OrderStatuses, BeginUpdateStatus(w, o, to) PROVE RowsInv'
    BY <2>4, OtherRequest DEF BeginUpdateStatus, GotoUpdateStatus
  <2>5. ASSUME NEW o \in Order, BeginMarkReady(w, o) PROVE RowsInv'
    BY <2>5, OtherRequest DEF BeginMarkReady
  <2>6. ASSUME NEW i \in Item, BeginUpload(w, i) PROVE RowsInv'
    BY <2>6, OtherRequest DEF BeginUpload
  <2>7. ASSUME NEW o \in Order, BeginPrepareQuote(w, o) PROVE RowsInv'
    BY <2>7, OtherRequest DEF BeginPrepareQuote
  <2>8. ASSUME NEW o \in Order, BeginApproveQuote(w, o) PROVE RowsInv'
    BY <2>8, OtherRequest DEF BeginApproveQuote
  <2>9. ASSUME NEW o \in Order, NEW withProof \in BOOLEAN, BeginDeliver(w, o, withProof)
        PROVE  RowsInv'
    <3>1. /\ Exists(o) /\ UNCHANGED <<status, itemStatus>>
          /\ Goto(w, [pc |-> "deliver", order |-> o, items |-> Rows(o), proof |-> withProof])
      BY <2>9 DEF BeginDeliver, MayDeliver
    <3>2. DeliversAllRows(w)' /\ \A v \in Worker \ {w} : req'[v] = req[v]
      BY <3>1 DEF DeliversAllRows, Goto, TypeOK, Exists, Rows, ItemsOf
    <3> QED
      BY <3>1, <3>2, RowsUntouched
  <2>10. ASSUME NEW i \in Item, BeginReturn(w, i) PROVE RowsInv'
    BY <2>10, OtherRequest DEF BeginReturn
  <2>11. ASSUME NEW o \in Order, BeginDelete(w, o) PROVE RowsInv'
    BY <2>11, OtherRequest DEF BeginDelete
  <2>12. ASSUME NEW b \in Box, NEW s \in BoxStatuses, ChangeBoxStatus(w, b, s) PROVE RowsInv'
    <3>1. req[w] = Idle /\ UNCHANGED <<status, itemStatus, req>>
      BY <2>12 DEF ChangeBoxStatus, Calls
    <3>2. DeliversAllRows(w)'
      BY <3>1 DEF DeliversAllRows, Idle
    <3> QED
      BY <3>1, <3>2, RowsUntouched
  <2> QED
    BY <1>2, <2>1, <2>2, <2>3, <2>4, <2>5, <2>6, <2>7, <2>8, <2>9, <2>10, <2>11, <2>12 DEF Begin
<1>3. ASSUME NEW w \in Worker, Step(w) PROVE RowsInv'
  <2> DEFINE r == req[w]
             o == r.order
  <2>1. req[w] \in Request
    BY DEF TypeOK
  <2>2. Done(w) => DeliversAllRows(w)' /\ \A v \in Worker \ {w} : req'[v] = req[v]
    BY EndedDelivery
  <2>3. Done(w) /\ UNCHANGED <<status, itemStatus>> => RowsInv'
    BY <2>2, RowsUntouched
  <2>4. Conflict(w) => RowsInv'
    BY <2>3 DEF Conflict, db, orderVars
  <2>5. CASE AddItemTx(w)
    BY <2>5 DEF AddItemTx, RowsInv, DeliversAllRows
  <2>6. CASE MarkReadyRead(w)
    <3>1. CASE MayUpdateStatus(o, "ready")
      BY <2>6, <3>1, OtherRequest DEF MarkReadyRead, GotoUpdateStatus, db, orderVars
    <3>2. CASE ~ MayUpdateStatus(o, "ready")
      BY <2>4, <2>6, <3>2 DEF MarkReadyRead, Conflict
    <3> QED
      BY <3>1, <3>2
  <2>7. CASE UpdateStatusTx(w)
    <3>1. o \in Order /\ r.from \in OrderStatuses /\ r.to \in OrderStatuses
      BY <2>1, <2>7, RequestFields DEF UpdateStatusTx
    <3>2. SUFFICES ASSUME ~ Conflict(w) PROVE RowsInv'
      BY <2>4
    <3>3. /\ status[o] = r.from /\ Done(w)
          /\ status' = [status EXCEPT ![o] = r.to]
          /\ itemStatus' = [i \in Item |-> IF r.to = "completed" /\ i \in OpenItems(o)
                                             THEN "delivered" ELSE itemStatus[i]]
      BY <2>7, <3>2 DEF UpdateStatusTx, StillIn, SetStatus
    <3>4. isValidTransition(r.from, r.to) /\ r.to # "delivered"
      BY <2>7 DEF UpdateStatusTx, WorkflowInv, UpdateIsLegal
    <3>5. r.to = "completed" => OpenItems(o) = {}
      <4>1. r.to = "completed" => r.from = "delivered"
        BY <3>4 DEF isValidTransition, ORDER_TRANSITIONS
      <4> QED
        BY <3>1, <3>3, <4>1 DEF RowsInv, NothingLeftOpen
    <3>6. \A i \in Item : itemStatus'[i] = itemStatus[i]
      BY <3>3, <3>5
    <3>7. \A p \in Order : status'[p] = IF p = o THEN r.to ELSE status[p]
      BY <3>1, <3>3 DEF TypeOK
    <3>8. RowsFixed
      BY <3>1, <3>3, <3>6, <3>7 DEF RowsFixed, Exists, Rows, ItemsOf, OrderStatuses
    <3>9. NothingLeftOpen'
      BY <3>1, <3>4, <3>5, <3>6, <3>7 DEF RowsInv, NothingLeftOpen, OpenItems, ItemsOf
    <3> QED
      BY <2>2, <3>3, <3>8, <3>9, RowsStep
  <2>8. CASE UploadTx(w)
    BY <2>3, <2>4, <2>8 DEF UploadTx, orderVars
  <2>9. CASE PrepareQuoteTx(w)
    BY <2>3, <2>4, <2>9 DEF PrepareQuoteTx, orderVars
  <2>10. CASE ApproveQuoteTx(w)
    BY <2>3, <2>4, <2>10 DEF ApproveQuoteTx, orderVars
  <2>11. CASE DeliverTx(w)
    <3> DEFINE s == IF TypeOf[o] = "return_order" THEN "returned" ELSE "delivered"
    <3>1. o \in Order
      BY <2>1, <2>11, RequestFields DEF DeliverTx
    <3>2. SUFFICES ASSUME ~ Conflict(w) PROVE RowsInv'
      BY <2>4
    <3>3. /\ status[o] = "ready" /\ Done(w)
          /\ status' = [status EXCEPT ![o] = "delivered"]
          /\ itemStatus' = [i \in Item |-> IF i \in OpenItems(o) THEN s ELSE itemStatus[i]]
      BY <2>11, <3>2 DEF DeliverTx, StillIn, SetStatus
    <3>4. /\ \A p \in Order : status'[p] = IF p = o THEN "delivered" ELSE status[p]
          /\ \A i \in Item : (itemStatus'[i] = "absent") <=> (itemStatus[i] = "absent")
          /\ \A i \in Item : OrderOf[i] # o => itemStatus'[i] = itemStatus[i]
          /\ \A i \in Item : OrderOf[i] = o => itemStatus'[i] \notin {"pending", "picked"}
      BY <3>1, <3>3 DEF TypeOK, OpenItems, ItemsOf
    <3>5. RowsFixed
      BY <3>1, <3>3, <3>4 DEF RowsFixed, Exists, Rows, ItemsOf, OrderStatuses
    <3>6. NothingLeftOpen'
      BY <3>4 DEF RowsInv, NothingLeftOpen, OpenItems, ItemsOf
    <3> QED
      BY <2>2, <3>3, <3>5, <3>6, RowsStep
  <2>12. CASE ReturnLock(w)
    <3>1. CASE Conflict(w)
      BY <2>4, <3>1
    <3>2. CASE ~ Conflict(w)
      BY <2>12, <3>2, OtherRequest DEF ReturnLock, db, orderVars
    <3> QED
      BY <3>1, <3>2
  <2>13. CASE ReturnCommit(w)
    <3> DEFINE i == r.item
               p == OrderOf[i]
    <3>1. i \in Item /\ p \in Order /\ status[p] \in {"delivered", "completed"}
      BY <2>1, <2>13, HeldOrder DEF ReturnCommit
    <3>2. itemStatus[i] = "delivered"
      BY <2>13 DEF ReturnCommit, WorkflowInv, ReturnHoldsOrder, OnLoan
    <3>3. /\ itemStatus' = [itemStatus EXCEPT ![i] = "returned"] /\ Done(w)
          /\ status' = status \/ status' = [status EXCEPT ![p] = "completed"]
      BY <2>13 DEF ReturnCommit, SetStatus, orderVars
    <3>4. /\ \A q \in Order : status'[q] = status[q] \/ (q = p /\ status'[q] = "completed")
          /\ \A j \in Item : itemStatus'[j] = IF j = i THEN "returned" ELSE itemStatus[j]
      BY <3>1, <3>3 DEF TypeOK
    <3>5. RowsFixed
      BY <3>1, <3>2, <3>4 DEF RowsFixed, Exists, Rows, ItemsOf, OrderStatuses
    <3>6. NothingLeftOpen'
      BY <3>1, <3>2, <3>4 DEF RowsInv, NothingLeftOpen, OpenItems, ItemsOf
    <3> QED
      BY <2>2, <3>3, <3>5, <3>6, RowsStep
  <2>14. CASE DeleteTx(w)
    <3>1. o \in Order
      BY <2>1, <2>14, RequestFields DEF DeleteTx
    <3>2. SUFFICES ASSUME ~ Conflict(w) PROVE RowsInv'
      BY <2>4
    <3>3. /\ Done(w) /\ status' = [status EXCEPT ![o] = "deleted"]
          /\ itemStatus' = [i \in Item |-> IF i \in ItemsOf(o) THEN "absent" ELSE itemStatus[i]]
      BY <2>14, <3>2 DEF DeleteTx
    <3>4. /\ \A p \in Order : status'[p] = IF p = o THEN "deleted" ELSE status[p]
          /\ \A i \in Item : itemStatus'[i] = IF OrderOf[i] = o THEN "absent" ELSE itemStatus[i]
      BY <3>1, <3>3 DEF TypeOK, ItemsOf
    <3>5. RowsFixed
      BY <3>4 DEF RowsFixed, Exists, Rows, ItemsOf, OrderStatuses
    <3>6. NothingLeftOpen'
      BY <3>4 DEF RowsInv, NothingLeftOpen, OpenItems, ItemsOf
    <3> QED
      BY <2>2, <3>3, <3>5, <3>6, RowsStep
  <2> QED
    BY <1>3, <2>5, <2>6, <2>7, <2>8, <2>9, <2>10, <2>11, <2>12, <2>13, <2>14 DEF Step
<1>4. ASSUME NEW w \in Worker, Crash(w) PROVE RowsInv'
  BY <1>4, EndedDelivery, RowsUntouched DEF Crash, db, orderVars
<1> QED
  BY <1>1, <1>2, <1>3, <1>4 DEF Next

\* While nobody inserts into an existing order, its delivery settles all its rows.
THEOREM RowsInvariant == NoLateInsert => (Spec => []RowsInv)
<1>1. SUFFICES ASSUME NoLateInsert PROVE Spec => []RowsInv
  OBVIOUS
<1>2. TypeOK /\ WorkflowInv /\ RowsInv /\ [Next]_vars => RowsInv'
  BY <1>1, NextRowsInv
<1> QED
  BY <1>2, InitTypeOK, NextTypeOK, InitWorkflowInv, NextWorkflowInv, InitRowsInv, PTL DEF Spec

-------------------------------------------------------------------------------
(* What was handed over is billed *)

\* Which items are billable depends on the scan files of scan orders alone.
LEMMA BillableFixed ==
  ASSUME NEW o \in Order, NEW S, TypeOf[o] # "scan"
  PROVE  Billable(o, S)' = Billable(o, S)
  BY DEF Billable

\* Whether an item is billable does not depend on what it is delivered with.
LEMMA BillableByItem ==
  ASSUME NEW o \in Order, NEW S, NEW i \in S
  PROVE  i \in Billable(o, S) <=> i \in Billable(o, {i})
  BY DEF Billable

\* Nothing is handed over or billed at the start.
LEMMA InitBillingInv == Init => BillingInv
  BY DEF Init, BillingInv, SettledIsBilled, BilledAtMostOnce, Billable

\* A step that hands nothing over and bills nothing.
LEMMA NothingHandedOver ==
  ASSUME TypeOK, BillingInv, billed' = billed,
         \A i \in Item : itemStatus'[i] \in {"delivered", "returned"}
                           => itemStatus[i] \in {"delivered", "returned"}
  PROVE  BillingInv'
<1>1. \A i \in Item : TypeOf[OrderOf[i]] # "scan" =>
        Billable(OrderOf[i], {i})' = Billable(OrderOf[i], {i})
  BY BillableFixed
<1> QED
  BY <1>1 DEF BillingInv, SettledIsBilled, BilledAtMostOnce

\* Only a delivery hands over or bills: completing an order finds nothing left to
\* settle, and only what was delivered is returned.
LEMMA HandedOverByDelivery ==
  ASSUME TypeOK, WorkflowInv, RowsInv, NEW w \in Worker, Begin(w) \/ Step(w) \/ Crash(w),
         ~ (DeliverTx(w) /\ ~ Conflict(w))
  PROVE  /\ billed' = billed
         /\ \A i \in Item : itemStatus'[i] \in {"delivered", "returned"}
                              => itemStatus[i] \in {"delivered", "returned"}
<1> USE DEF db
<1> DEFINE Goal == /\ billed' = billed
                   /\ \A i \in Item : itemStatus'[i] \in {"delivered", "returned"}
                                        => itemStatus[i] \in {"delivered", "returned"}
<1>1. UNCHANGED <<itemStatus, billed>> => Goal
  OBVIOUS
<1>2. ASSUME NEW o \in Order, NEW S \in SUBSET Item, Create(w, o, S) PROVE Goal
  BY <1>2 DEF Create, TypeOK
<1>3. ASSUME NEW i \in Item, NEW from \in ItemStatuses, NEW to \in ItemStatuses, Pick(w, i, from, to)
      PROVE  Goal
  BY <1>3 DEF Pick, TypeOK
<1>4. CASE AddItemTx(w)
  BY <1>4 DEF AddItemTx, RowsInv, DeliversAllRows
<1>5. CASE UpdateStatusTx(w)
  <2> DEFINE r == req[w]
             o == r.order
  <2>1. o \in Order
    BY <1>5, RequestFields DEF UpdateStatusTx, TypeOK
  <2>2. CASE Conflict(w)
    BY <2>2 DEF Conflict
  <2>3. CASE ~ Conflict(w)
    <3>1. /\ status[o] = r.from /\ billed' = billed
          /\ itemStatus' = [i \in Item |-> IF r.to = "completed" /\ i \in OpenItems(o)
                                             THEN "delivered" ELSE itemStatus[i]]
      BY <1>5, <2>3 DEF UpdateStatusTx, StillIn
    <3>2. r.to = "completed" => r.from = "delivered"
      BY <1>5 DEF UpdateStatusTx, WorkflowInv, UpdateIsLegal, isValidTransition, ORDER_TRANSITIONS
    <3>3. r.to = "completed" => OpenItems(o) = {}
      BY <2>1, <3>1, <3>2 DEF RowsInv, NothingLeftOpen
    <3> QED
      BY <3>1, <3>3
  <2> QED
    BY <2>2, <2>3
<1>6. CASE ReturnCommit(w)
  <2>1. itemStatus[req[w].item] = "delivered"
    BY <1>6 DEF ReturnCommit, WorkflowInv, ReturnHoldsOrder, OnLoan
  <2>2. itemStatus' = [itemStatus EXCEPT ![req[w].item] = "returned"] /\ billed' = billed
    BY <1>6 DEF ReturnCommit
  <2> QED
    BY <2>1, <2>2 DEF TypeOK
<1>7. CASE DeleteTx(w)
  <2>1. CASE Conflict(w)
    BY <2>1 DEF Conflict
  <2>2. CASE ~ Conflict(w)
    BY <1>7, <2>2 DEF DeleteTx
  <2> QED
    BY <2>1, <2>2
<1>8. DeliverTx(w) => UNCHANGED <<itemStatus, billed>>
  BY DEF Conflict
<1>9. Begin(w) => \/ UNCHANGED <<itemStatus, billed>>
                  \/ \E o \in Order, S \in SUBSET Item : Create(w, o, S)
                  \/ \E i \in Item, from, to \in ItemStatuses : Pick(w, i, from, to)
  BY DEF Begin, BeginAddItem, BeginUpdateStatus, BeginMarkReady, BeginUpload, BeginPrepareQuote,
     BeginApproveQuote, BeginDeliver, BeginReturn, BeginDelete, ChangeBoxStatus
<1>10. Step(w) => \/ UNCHANGED <<itemStatus, billed>>
                  \/ AddItemTx(w) \/ UpdateStatusTx(w) \/ DeliverTx(w) \/ ReturnCommit(w) \/ DeleteTx(w)
  BY DEF Step, MarkReadyRead, UploadTx, PrepareQuoteTx, ApproveQuoteTx, ReturnLock, Conflict
<1>11. Crash(w) => UNCHANGED <<itemStatus, billed>>
  BY DEF Crash
<1> QED
  BY <1>1, <1>2, <1>3, <1>4, <1>5, <1>6, <1>7, <1>8, <1>9, <1>10, <1>11

\* What a delivery that was not refused finds and does.
LEMMA DeliveryEffect ==
  ASSUME TypeOK, WorkflowInv, RowsInv, NEW w \in Worker, DeliverTx(w), ~ Conflict(w)
  PROVE  LET o == req[w].order
             S == req[w].items
             s == IF TypeOf[o] = "return_order" THEN "returned" ELSE "delivered"
         IN  /\ o \in Order /\ S = Rows(o) /\ status[o] = "ready"
             /\ \A p \in Order : status'[p] = IF p = o THEN "delivered" ELSE status[p]
             /\ \A i \in Item : itemStatus'[i] = IF i \in OpenItems(o) THEN s ELSE itemStatus[i]
             /\ billed' = Bump(billed, NotBilledYet(Billable(o, S)))
             /\ \A v \in Worker \ {w} : req'[v] = req[v]
             /\ req'[w] = Idle
             /\ UNCHANGED <<orderLock, boxLock>>
<1> DEFINE o == req[w].order
           S == req[w].items
           s == IF TypeOf[o] = "return_order" THEN "returned" ELSE "delivered"
<1>1. o \in Order
  BY RequestFields DEF DeliverTx, TypeOK
<1>2. /\ status[o] = "ready" /\ Done(w)
      /\ status' = [status EXCEPT ![o] = "delivered"]
      /\ itemStatus' = [i \in Item |-> IF i \in OpenItems(o) THEN s ELSE itemStatus[i]]
      /\ billed' = Bump(billed, NotBilledYet(Billable(o, S)))
      /\ UNCHANGED <<orderLock, boxLock>>
  BY DEF DeliverTx, StillIn, SetStatus, locks
<1>3. S = Rows(o)
  BY <1>2 DEF DeliverTx, RowsInv, DeliversAllRows
<1> QED
  BY <1>1, <1>2, <1>3 DEF TypeOK, Done, Goto

\* The billing invariant is inductive (given the others).
LEMMA NextBillingInv == TypeOK /\ WorkflowInv /\ RowsInv /\ BillingInv /\ [Next]_vars => BillingInv'
<1> SUFFICES ASSUME TypeOK, WorkflowInv, RowsInv, BillingInv, [Next]_vars PROVE BillingInv'
    OBVIOUS
<1>1. CASE UNCHANGED vars
  BY <1>1, NothingHandedOver DEF vars
<1>2. ASSUME NEW w \in Worker, Begin(w) \/ Step(w) \/ Crash(w), ~ (DeliverTx(w) /\ ~ Conflict(w))
      PROVE  BillingInv'
  BY <1>2, HandedOverByDelivery, NothingHandedOver
<1>3. ASSUME NEW w \in Worker, DeliverTx(w), ~ Conflict(w) PROVE BillingInv'
  <2> DEFINE o == req[w].order
             S == req[w].items
             s == IF TypeOf[o] = "return_order" THEN "returned" ELSE "delivered"
  <2>1. /\ o \in Order /\ S = Rows(o)
        /\ \A i \in Item : itemStatus'[i] = IF i \in OpenItems(o) THEN s ELSE itemStatus[i]
        /\ billed' = Bump(billed, NotBilledYet(Billable(o, S)))
    BY <1>3, DeliveryEffect
  <2>2. \A i \in Item : billed'[i] = IF i \in Billable(o, S) /\ billed[i] = 0 THEN 1 ELSE billed[i]
    BY <2>1 DEF Bump, NotBilledYet, TypeOK, Counter
  <2>3. Billable(o, S) \subseteq S
    BY DEF Billable
  <2>4. \A i \in Item : i \in S <=> OrderOf[i] = o /\ itemStatus[i] # "absent"
    BY <2>1 DEF Rows, ItemsOf
  <2>5. ASSUME NEW i \in Item, TypeOf[OrderOf[i]] # "scan"
        PROVE  /\ billed'[i] <= IF i \in Billable(OrderOf[i], {i})' THEN 1 ELSE 0
               /\ itemStatus'[i] \in {"delivered", "returned"} =>
                    billed'[i] = IF i \in Billable(OrderOf[i], {i})' THEN 1 ELSE 0
    <3>1. Billable(OrderOf[i], {i})' = Billable(OrderOf[i], {i})
      BY <2>5, BillableFixed
    <3>2. billed[i] \in Nat /\ billed[i] <= IF i \in Billable(OrderOf[i], {i}) THEN 1 ELSE 0
      BY <2>5 DEF BillingInv, BilledAtMostOnce, TypeOK, Counter
    <3>3. CASE i \in S
      <4>1. i \in Billable(o, S) <=> i \in Billable(OrderOf[i], {i})
        BY <2>1, <2>4, <3>3, BillableByItem
      <4> QED
        BY <2>2, <3>1, <3>2, <4>1
    <3>4. CASE i \notin S
      <4>1. i \notin OpenItems(o)
        BY <2>4, <3>4 DEF OpenItems, ItemsOf
      <4>2. itemStatus'[i] = itemStatus[i] /\ billed'[i] = billed[i]
        BY <2>1, <2>2, <2>3, <3>4, <4>1
      <4> QED
        BY <2>5, <3>1, <3>2, <4>2 DEF BillingInv, SettledIsBilled
    <3> QED
      BY <3>3, <3>4
  <2> QED
    BY <2>5 DEF BillingInv, SettledIsBilled, BilledAtMostOnce
<1> QED
  BY <1>1, <1>2, <1>3 DEF Next, Step

\* Whatever was handed over was billed, once, and only what is billable: also over
\* reopenings, second deliveries, returns and crashes, as long as no row is inserted
\* late.
THEOREM SettledBilled == NoLateInsert => (Spec => []SettledIsBilled)
<1>1. SUFFICES ASSUME NoLateInsert PROVE Spec => []SettledIsBilled
  OBVIOUS
<1>2. Spec => []RowsInv
  BY <1>1, RowsInvariant
<1>3. BillingInv => SettledIsBilled
  BY DEF BillingInv
<1> QED
  BY <1>2, <1>3, TypeCorrect, WorkflowInvariant, InitBillingInv, NextBillingInv, PTL DEF Spec

-------------------------------------------------------------------------------
(* Boxes and loans *)

USE DEF OnlyLoansMoveBoxes

\* No box is out and no item on loan at the start.
LEMMA InitBoxesInv == Init => BoxesInv
  BY DEF Init, BoxesInv, BoxOutIffOnLoan, HandedOutByDelivery, ReturnHoldsBox, OnLoan, Idle

\* A return that holds a box goes on knowing whether another loan of it is out, when a
\* step leaves the lock and the loans of that box alone.
LEMMA HeldBoxKept ==
  ASSUME TypeOK, BoxesInv, NEW v \in Worker, req'[v] = req[v],
         req[v].pc = "returnCommit" /\ req[v].item \in WholeBox =>
           LET b == BoxOf[req[v].item] IN
           boxLock'[b] = boxLock[b] /\ \A j \in WholeBox : BoxOf[j] = b => (j \in OnLoan' <=> j \in OnLoan)
  PROVE  ReturnHoldsBox(v)'
<1> DEFINE i == req[v].item
           b == BoxOf[i]
<1>1. ReturnHoldsBox(v) /\ req'[v] = req[v]
  BY DEF BoxesInv
<1>2. CASE req[v].pc = "returnCommit" /\ i \in WholeBox
  <2>1. {j \in OnLoan' \cap WholeBox : BoxOf[j] = b} = {j \in OnLoan \cap WholeBox : BoxOf[j] = b}
    BY <1>2
  <2>2. boxLock'[b] = v /\ (req[v].releaseBox <=> {j \in OnLoan \cap WholeBox : BoxOf[j] = b} \subseteq {i})
    BY <1>1, <1>2 DEF ReturnHoldsBox
  <2>3. req[v].releaseBox <=> {j \in OnLoan' \cap WholeBox : BoxOf[j] = b} \subseteq {i}
    BY <2>1, <2>2
  <2> QED
    BY <1>1, <1>2, <2>2, <2>3 DEF ReturnHoldsBox
<1> QED
  BY <1>1, <1>2 DEF ReturnHoldsBox

\* A step of w that moves no box and no loan, and releases no lock but its own.
LEMMA LoansUntouched ==
  ASSUME TypeOK, BoxesInv, NEW w \in Worker, box' = box, OnLoan' = OnLoan,
         \A b \in Box : boxLock[b] \in Worker \ {w} => boxLock'[b] = boxLock[b],
         HandedOutByDelivery', ReturnHoldsBox(w)', \A v \in Worker \ {w} : req'[v] = req[v]
  PROVE  BoxesInv'
<1>1. ASSUME NEW v \in Worker \ {w} PROVE ReturnHoldsBox(v)'
  <2>1. ASSUME req[v].pc = "returnCommit", req[v].item \in WholeBox
        PROVE  boxLock'[BoxOf[req[v].item]] = boxLock[BoxOf[req[v].item]]
    <3>1. BoxOf[req[v].item] \in Box
      BY <2>1
    <3>2. boxLock[BoxOf[req[v].item]] = v
      BY <2>1 DEF BoxesInv, ReturnHoldsBox
    <3> QED
      BY <3>1, <3>2
  <2> QED
    BY <2>1, HeldBoxKept
<1>2. BoxOutIffOnLoan'
  BY DEF BoxesInv, BoxOutIffOnLoan
<1> QED
  BY <1>1, <1>2 DEF BoxesInv

\* A request that ends holds no box.
LEMMA EndedHoldsNoBox ==
  ASSUME TypeOK, NEW w \in Worker, Done(w)
  PROVE  ReturnHoldsBox(w)' /\ \A v \in Worker \ {w} : req'[v] = req[v]
  BY DEF TypeOK, Done, Goto, Idle, ReturnHoldsBox

\* A request that only reads, and is neither a deletion nor a reopening.
LEMMA BoxRead ==
  ASSUME TypeOK, BoxesInv, NEW w \in Worker, NEW r, Goto(w, r), UNCHANGED <<db, locks>>,
         r.pc \notin {"delete", "returnCommit"},
         ~ (r.pc = "updateStatus" /\ r.from = "delivered" /\ r.to = "in_progress")
  PROVE  BoxesInv'
<1>1. ReturnHoldsBox(w)' /\ \A v \in Worker \ {w} : req'[v] = req[v]
  BY DEF TypeOK, Goto, ReturnHoldsBox
<1>2. UNCHANGED <<box, itemStatus, status, boxLock>>
  BY DEF db, orderVars, locks
<1>3. OnLoan' = OnLoan /\ HandedOutByDelivery'
  BY <1>2 DEF OnLoan, BoxesInv, HandedOutByDelivery
<1> QED
  BY <1>1, <1>2, <1>3, LoansUntouched

\* A request that ends without a change to boxes, orders and items.
LEMMA BoxEnded ==
  ASSUME TypeOK, BoxesInv, NEW w \in Worker, Done(w), UNCHANGED <<status, itemStatus, box>>,
         \A b \in Box : boxLock[b] \in Worker \ {w} => boxLock'[b] = boxLock[b]
  PROVE  BoxesInv'
<1>1. OnLoan' = OnLoan /\ HandedOutByDelivery'
  BY DEF OnLoan, BoxesInv, HandedOutByDelivery
<1> QED
  BY <1>1, EndedHoldsNoBox, LoansUntouched

\* A status change on its way is no reopening: nobody may reopen in this workload.
LEMMA BoxUpdateRequest ==
  ASSUME TypeOK, BoxesInv, NEW w \in Worker, NEW o \in Order, NEW to,
         GotoUpdateStatus(w, o, to), UNCHANGED <<db, locks>>,
         ~ (status[o] = "delivered" /\ to = "in_progress")
  PROVE  BoxesInv'
<1> DEFINE r == [pc |-> "updateStatus", order |-> o, from |-> status[o], to |-> to,
                 quoted |-> IF TypeOf[o] = "scan" /\ to = "ready" THEN Rows(o) ELSE {}]
<1>1. Goto(w, r)
  BY DEF GotoUpdateStatus
<1> QED
  BY <1>1, BoxRead

\* The box invariant is inductive (given the others) when only loans move boxes.
LEMMA NextBoxesInv ==
  OnlyLoansMoveBoxes /\ TypeOK /\ WorkflowInv /\ RowsInv /\ BoxesInv /\ [Next]_vars => BoxesInv'
<1> SUFFICES ASSUME OnlyLoansMoveBoxes, TypeOK, WorkflowInv, RowsInv, BoxesInv, [Next]_vars
             PROVE  BoxesInv'
    OBVIOUS
<1>1. CASE UNCHANGED vars
  BY <1>1 DEF vars, BoxesInv, BoxOutIffOnLoan, HandedOutByDelivery, ReturnHoldsBox, OnLoan
<1>2. ASSUME NEW w \in Worker, Begin(w) PROVE BoxesInv'
  <2>1. ASSUME NEW o \in Order, NEW S \in SUBSET Item, Create(w, o, S) PROVE BoxesInv'
    <3>1. /\ \A p \in Order : status'[p] = IF p = o THEN "draft" ELSE status[p]
          /\ status[o] = "absent" /\ S \subseteq ItemsOf(o) /\ req[w] = Idle
          /\ \A i \in Item : itemStatus'[i] = IF i \in S THEN "pending" ELSE itemStatus[i]
          /\ UNCHANGED <<box, boxLock, req>>
      BY <2>1 DEF Create, Calls, TypeOK, locks
    <3>2. \A i \in Item : OrderOf[i] = o => itemStatus[i] = "absent"
      BY <3>1 DEF WorkflowInv, RowsHaveOrder, Exists, OrderStatuses
    <3>3. OnLoan' = OnLoan
      BY <3>1, <3>2 DEF OnLoan, ItemsOf
    <3>4. HandedOutByDelivery'
      BY <3>1, <3>2 DEF BoxesInv, HandedOutByDelivery, ItemsOf
    <3>5. ReturnHoldsBox(w)'
      BY <3>1 DEF ReturnHoldsBox, Idle
    <3> QED
      BY <3>1, <3>3, <3>4, <3>5, LoansUntouched
  <2>2. ASSUME NEW i \in Item, BeginAddItem(w, i) PROVE FALSE
    BY <2>2 DEF BeginAddItem, Calls
  <2>3. ASSUME NEW i \in Item, NEW from \in ItemStatuses, NEW to \in ItemStatuses, Pick(w, i, from, to)
        PROVE  BoxesInv'
    <3>1. /\ itemStatus[i] # "delivered" /\ itemStatus'[i] \notin {"delivered", "returned"}
          /\ \A j \in Item : j # i => itemStatus'[j] = itemStatus[j]
          /\ req[w] = Idle
          /\ UNCHANGED <<status, box, boxLock, req>>
      BY <2>3 DEF Pick, Calls, TypeOK, orderVars, locks
    <3>2. OnLoan' = OnLoan
      BY <3>1 DEF OnLoan
    <3>3. HandedOutByDelivery'
      BY <3>1 DEF BoxesInv, HandedOutByDelivery
    <3>4. ReturnHoldsBox(w)'
      BY <3>1 DEF ReturnHoldsBox, Idle
    <3> QED
      BY <3>1, <3>2, <3>3, <3>4, LoansUntouched
  <2>4. ASSUME NEW o \in Order, NEW to \in OrderStatuses, BeginUpdateStatus(w, o, to) PROVE BoxesInv'
    <3>1. ~ (status[o] = "delivered" /\ to = "in_progress")
      BY <2>4 DEF BeginUpdateStatus, Calls
    <3> QED
      BY <2>4, <3>1, BoxUpdateRequest DEF BeginUpdateStatus
  <2>5. ASSUME NEW o \in Order, BeginMarkReady(w, o) PROVE BoxesInv'
    BY <2>5, BoxRead DEF BeginMarkReady
  <2>6. ASSUME NEW i \in Item, BeginUpload(w, i) PROVE BoxesInv'
    BY <2>6, BoxRead DEF BeginUpload
  <2>7. ASSUME NEW o \in Order, BeginPrepareQuote(w, o) PROVE BoxesInv'
    BY <2>7, BoxRead DEF BeginPrepareQuote
  <2>8. ASSUME NEW o \in Order, BeginApproveQuote(w, o) PROVE BoxesInv'
    BY <2>8, BoxRead DEF BeginApproveQuote
  <2>9. ASSUME NEW o \in Order, NEW withProof \in BOOLEAN, BeginDeliver(w, o, withProof)
        PROVE  BoxesInv'
    BY <2>9, BoxRead DEF BeginDeliver
  <2>10. ASSUME NEW i \in Item, BeginReturn(w, i) PROVE BoxesInv'
    BY <2>10, BoxRead DEF BeginReturn
  <2>11. ASSUME NEW o \in Order, BeginDelete(w, o) PROVE FALSE
    BY <2>11 DEF BeginDelete, Calls
  <2>12. ASSUME NEW b \in Box, NEW s \in BoxStatuses, ChangeBoxStatus(w, b, s) PROVE FALSE
    BY <2>12 DEF ChangeBoxStatus, Calls
  <2> QED
    BY <1>2, <2>1, <2>2, <2>3, <2>4, <2>5, <2>6, <2>7, <2>8, <2>9, <2>10, <2>11, <2>12 DEF Begin
<1>3. ASSUME NEW w \in Worker, Step(w) PROVE BoxesInv'
  <2> DEFINE r == req[w]
             o == r.order
  <2>1. req[w] \in Request
    BY DEF TypeOK
  <2>2. Done(w) /\ UNCHANGED <<status, itemStatus, box, boxLock>> => BoxesInv'
    BY BoxEnded
  <2>3. Conflict(w) => BoxesInv'
    BY <2>2 DEF Conflict, db, orderVars, locks
  <2>4. CASE AddItemTx(w)
    BY <2>4 DEF AddItemTx, RowsInv, DeliversAllRows
  <2>5. CASE MarkReadyRead(w)
    <3>1. o \in Order
      BY <2>1, <2>5, RequestFields DEF MarkReadyRead
    <3>2. CASE MayUpdateStatus(o, "ready")
      BY <2>5, <3>1, <3>2, BoxUpdateRequest DEF MarkReadyRead
    <3>3. CASE ~ MayUpdateStatus(o, "ready")
      BY <2>3, <2>5, <3>3 DEF MarkReadyRead, Conflict
    <3> QED
      BY <3>2, <3>3
  <2>6. CASE UpdateStatusTx(w)
    <3>1. o \in Order
      BY <2>1, <2>6, RequestFields DEF UpdateStatusTx
    <3>2. SUFFICES ASSUME ~ Conflict(w) PROVE BoxesInv'
      BY <2>3
    <3>3. /\ status[o] = r.from /\ Done(w)
          /\ status' = [status EXCEPT ![o] = r.to]
          /\ itemStatus' = [i \in Item |-> IF r.to = "completed" /\ i \in OpenItems(o)
                                             THEN "delivered" ELSE itemStatus[i]]
          /\ UNCHANGED <<box, boxLock>>
      BY <2>6, <3>2 DEF UpdateStatusTx, StillIn, SetStatus, locks
    <3>4. /\ r.to # "delivered"
          /\ r.to = "completed" => r.from = "delivered"
          /\ r.from = "delivered" => r.to = "completed"
          /\ r.from # "completed"
      <4>1. isValidTransition(r.from, r.to) /\ r.to # "delivered"
        BY <2>6 DEF UpdateStatusTx, WorkflowInv, UpdateIsLegal
      <4>2. ~ (r.from = "delivered" /\ r.to = "in_progress")
        BY <2>6 DEF UpdateStatusTx, BoxesInv, ReturnHoldsBox
      <4> QED
        BY <4>1, <4>2 DEF isValidTransition, ORDER_TRANSITIONS
    <3>5. \A i \in Item : itemStatus'[i] = itemStatus[i]
      <4>1. r.to = "completed" => OpenItems(o) = {}
        BY <3>1, <3>3, <3>4 DEF RowsInv, NothingLeftOpen
      <4> QED
        BY <3>3, <4>1
    <3>6. \A p \in Order : status'[p] \in {"delivered", "completed"} <=> status[p] \in {"delivered", "completed"}
      BY <3>1, <3>3, <3>4 DEF TypeOK
    <3>7. OnLoan' = OnLoan /\ HandedOutByDelivery'
      BY <3>5, <3>6 DEF OnLoan, BoxesInv, HandedOutByDelivery
    <3> QED
      BY <3>3, <3>7, EndedHoldsNoBox, LoansUntouched
  <2>7. CASE UploadTx(w)
    BY <2>2, <2>3, <2>7 DEF UploadTx, orderVars, locks
  <2>8. CASE PrepareQuoteTx(w)
    BY <2>2, <2>3, <2>8 DEF PrepareQuoteTx, orderVars, locks
  <2>9. CASE ApproveQuoteTx(w)
    BY <2>2, <2>3, <2>9 DEF ApproveQuoteTx, orderVars, locks
  <2>10. CASE DeliverTx(w)
    <3> DEFINE S == r.items
               moved == BoxesMoved(o, S)
               loan == TypeOf[o] = "checkout"
    <3>1. SUFFICES ASSUME ~ Conflict(w) PROVE BoxesInv'
      BY <2>3
    <3>2. /\ o \in Order /\ S = Rows(o) /\ status[o] = "ready" /\ TypeOf[o] # "return_order"
          /\ \A p \in Order : status'[p] = IF p = o THEN "delivered" ELSE status[p]
          /\ \A i \in Item : itemStatus'[i] = IF i \in OpenItems(o) THEN "delivered" ELSE itemStatus[i]
          /\ \A v \in Worker \ {w} : req'[v] = req[v]
          /\ req'[w] = Idle
          /\ boxLock' = boxLock
      BY <2>10, <3>1, DeliveryEffect
    <3>3. /\ \A b \in moved : boxLock[b] = NoWorker
          /\ \A b \in Box : box'[b] = IF b \in moved THEN "checked_out" ELSE box[b]
      BY <2>10, <3>1, <3>2 DEF DeliverTx, BoxRowsFree
    <3>4. \A i \in Item : i \in OpenItems(o) <=> i \in S
      <4>1. \A i \in Item : OrderOf[i] = o => itemStatus[i] \notin {"delivered", "returned"}
        BY <3>2 DEF BoxesInv, HandedOutByDelivery
      <4>2. \A i \in Item : itemStatus[i] \in ItemStatuses \cup {"absent"}
        BY DEF TypeOK
      <4> QED
        BY <3>2, <4>1, <4>2 DEF OpenItems, Rows, ItemsOf, ItemStatuses
    <3>5. \A i \in Item : i \in S => OrderOf[i] = o
      BY <3>2 DEF Rows, ItemsOf
    <3>6. \A i \in Item : i \in OnLoan' <=> i \in OnLoan \/ (loan /\ i \in S)
      <4>1. ASSUME NEW i \in Item, i \in S PROVE i \in OnLoan' <=> loan
        BY <3>2, <3>4, <3>5, <4>1 DEF OnLoan
      <4>2. ASSUME NEW i \in Item, i \in S PROVE i \notin OnLoan
        BY <3>2, <3>5, <4>2 DEF OnLoan
      <4>3. ASSUME NEW i \in Item, i \notin S PROVE i \in OnLoan' <=> i \in OnLoan
        <5>1. itemStatus'[i] = itemStatus[i]
          BY <3>2, <3>4, <4>3
        <5>2. CASE OrderOf[i] = o
          <6>1. itemStatus[i] = "absent"
            BY <3>2, <4>3, <5>2 DEF Rows, ItemsOf
          <6> QED
            BY <5>1, <6>1 DEF OnLoan
        <5>3. CASE OrderOf[i] # o
          BY <3>2, <5>1, <5>3 DEF OnLoan
        <5> QED
          BY <5>2, <5>3
      <4> QED
        BY <4>1, <4>2, <4>3
    <3>7. \A b : b \in moved <=> loan /\ \E i \in S \cap WholeBox : BoxOf[i] = b
      BY <3>2 DEF BoxesMoved
    <3>8. BoxOutIffOnLoan'
      <4>1. ASSUME NEW b \in Box
            PROVE  box'[b] = "checked_out" <=> \E i \in OnLoan' \cap WholeBox : BoxOf[i] = b
        <5>1. box[b] = "checked_out" <=> \E i \in OnLoan \cap WholeBox : BoxOf[i] = b
          BY DEF BoxesInv, BoxOutIffOnLoan
        <5>2. \A i \in WholeBox : i \in Item
          OBVIOUS
        <5> QED
          BY <3>3, <3>6, <3>7, <5>1, <5>2
      <4> QED
        BY <4>1 DEF BoxOutIffOnLoan
    <3>9. HandedOutByDelivery'
      BY <3>2, <3>4, <3>5 DEF BoxesInv, HandedOutByDelivery
    <3>10. ASSUME NEW v \in Worker PROVE ReturnHoldsBox(v)'
      <4>1. CASE v = w
        BY <3>2, <4>1 DEF ReturnHoldsBox, Idle
      <4>2. CASE v # w
        <5>1. ASSUME req[v].pc = "returnCommit", req[v].item \in WholeBox,
                     NEW j \in WholeBox, BoxOf[j] = BoxOf[req[v].item]
              PROVE  j \in OnLoan' <=> j \in OnLoan
          <6>1. boxLock[BoxOf[j]] = v
            BY <5>1 DEF BoxesInv, ReturnHoldsBox
          <6>2. BoxOf[j] \notin moved
            BY <3>3, <6>1
          <6>3. ~ (loan /\ j \in S)
            BY <3>7, <5>1, <6>2
          <6> QED
            BY <3>6, <6>3
        <5> QED
          BY <3>2, <4>2, <5>1, HeldBoxKept
      <4> QED
        BY <4>1, <4>2
    <3> QED
      BY <3>8, <3>9, <3>10 DEF BoxesInv
  <2>11. CASE ReturnLock(w)
    <3> DEFINE i == r.item
               b == BoxOf[i]
               lent == {j \in OnLoan \cap WholeBox : BoxOf[j] = b}
    <3>1. i \in Item
      BY <2>1, <2>11, RequestFields DEF ReturnLock
    <3>2. SUFFICES ASSUME ~ Conflict(w) PROVE BoxesInv'
      BY <2>3
    <3>3. PICK last \in BOOLEAN :
            Goto(w, [pc |-> "returnCommit", item |-> i, from |-> r.from, last |-> last,
                     releaseBox |-> lent \subseteq {i}])
      BY <2>11, <3>2 DEF ReturnLock
    <3>4. /\ req'[w].pc = "returnCommit" /\ req'[w].item = i
          /\ req'[w].releaseBox = (lent \subseteq {i})
          /\ \A v \in Worker \ {w} : req'[v] = req[v]
      BY <3>3 DEF Goto, TypeOK
    <3>5. /\ UNCHANGED <<box, status, itemStatus>>
          /\ BoxRowsFree({b} \ {NoBox})
          /\ \A c \in Box : boxLock'[c] = IF c = b THEN w ELSE boxLock[c]
      BY <2>11, <3>2 DEF ReturnLock, LockRows, db, orderVars
    <3>6. OnLoan' = OnLoan /\ HandedOutByDelivery'
      BY <3>5 DEF OnLoan, BoxesInv, HandedOutByDelivery
    <3>7. \A c \in Box : boxLock[c] \in Worker \ {w} => boxLock'[c] = boxLock[c]
      BY <3>5 DEF BoxRowsFree
    <3>8. ReturnHoldsBox(w)'
      <4>1. i \in WholeBox => boxLock'[b] = w
        BY <3>5
      <4>2. req'[w].releaseBox <=> {j \in OnLoan' \cap WholeBox : BoxOf[j] = b} \subseteq {i}
        <5>1. {j \in OnLoan' \cap WholeBox : BoxOf[j] = b} = lent
          BY <3>6
        <5>2. req'[w].releaseBox = (lent \subseteq {i})
          BY <3>4
        <5> QED
          BY <5>1, <5>2, Zenon
      <4> QED
        BY <3>4, <4>1, <4>2 DEF ReturnHoldsBox
    <3> QED
      BY <3>4, <3>5, <3>6, <3>7, <3>8, LoansUntouched
  <2>12. CASE ReturnCommit(w)
    <3> DEFINE i == r.item
               p == OrderOf[i]
    <3>1. i \in Item /\ p \in Order /\ status[p] \in {"delivered", "completed"}
      BY <2>1, <2>12, HeldOrder DEF ReturnCommit
    <3>2. i \in OnLoan
      BY <2>12 DEF ReturnCommit, WorkflowInv, ReturnHoldsOrder
    <3>3. /\ itemStatus' = [itemStatus EXCEPT ![i] = "returned"] /\ Done(w)
          /\ status' = status \/ status' = [status EXCEPT ![p] = "completed"]
          /\ \A b \in Box : box'[b] = IF b = BoxOf[i] /\ i \in WholeBox /\ r.releaseBox
                                        THEN "active" ELSE box[b]
          /\ \A b \in Box : boxLock'[b] = IF boxLock[b] = w THEN NoWorker ELSE boxLock[b]
      BY <2>12 DEF ReturnCommit, SetStatus, orderVars, UnlockRows
    <3>4. /\ \A q \in Order : status'[q] = status[q] \/ (q = p /\ status'[q] = "completed")
          /\ \A j \in Item : itemStatus'[j] = IF j = i THEN "returned" ELSE itemStatus[j]
      BY <3>1, <3>3 DEF TypeOK
    <3>5. \A j \in Item : j \in OnLoan' <=> j \in OnLoan /\ j # i
      BY <3>1, <3>4 DEF OnLoan
    <3>6. HandedOutByDelivery'
      BY <3>1, <3>4 DEF BoxesInv, HandedOutByDelivery
    <3>7. i \in WholeBox =>
            /\ boxLock[BoxOf[i]] = w
            /\ r.releaseBox <=> {j \in OnLoan \cap WholeBox : BoxOf[j] = BoxOf[i]} \subseteq {i}
      BY <2>12 DEF ReturnCommit, BoxesInv, ReturnHoldsBox
    <3>8. BoxOutIffOnLoan'
      <4>1. SUFFICES ASSUME NEW b \in Box
                     PROVE  box'[b] = "checked_out" <=> \E j \in OnLoan' \cap WholeBox : BoxOf[j] = b
        BY DEF BoxOutIffOnLoan
      <4>2. box[b] = "checked_out" <=> \E j \in OnLoan \cap WholeBox : BoxOf[j] = b
        BY DEF BoxesInv, BoxOutIffOnLoan
      <4>3. CASE i \in WholeBox /\ b = BoxOf[i]
        <5>1. r.releaseBox <=> ~ \E j \in OnLoan' \cap WholeBox : BoxOf[j] = b
          BY <3>5, <3>7, <4>3
        <5>2. box[b] = "checked_out"
          BY <3>2, <4>2, <4>3
        <5> QED
          BY <3>3, <4>3, <5>1, <5>2
      <4>4. CASE ~ (i \in WholeBox /\ b = BoxOf[i])
        BY <3>3, <3>5, <4>2, <4>4
      <4> QED
        BY <4>3, <4>4
    <3>9. ASSUME NEW v \in Worker \ {w} PROVE ReturnHoldsBox(v)'
      <4>1. ASSUME req[v].pc = "returnCommit", req[v].item \in WholeBox
            PROVE  LET b == BoxOf[req[v].item] IN
                   boxLock'[b] = boxLock[b] /\ \A j \in WholeBox : BoxOf[j] = b => (j \in OnLoan' <=> j \in OnLoan)
        <5> DEFINE b == BoxOf[req[v].item]
        <5>1. b \in Box /\ boxLock[b] = v
          BY <4>1 DEF BoxesInv, ReturnHoldsBox
        <5>2. i \in WholeBox => BoxOf[i] # b
          BY <3>7, <5>1
        <5> QED
          BY <3>3, <3>5, <5>1, <5>2
      <4>2. req'[v] = req[v]
        BY <3>3, EndedHoldsNoBox
      <4> QED
        BY <4>1, <4>2, HeldBoxKept
    <3> QED
      BY <3>3, <3>6, <3>8, <3>9, EndedHoldsNoBox DEF BoxesInv
  <2>13. CASE DeleteTx(w)
    BY <2>13 DEF DeleteTx, BoxesInv, ReturnHoldsBox
  <2> QED
    BY <1>3, <2>4, <2>5, <2>6, <2>7, <2>8, <2>9, <2>10, <2>11, <2>12, <2>13 DEF Step
<1>4. ASSUME NEW w \in Worker, Crash(w) PROVE BoxesInv'
  BY <1>4, BoxEnded DEF Crash, UnlockRows, db, orderVars
<1> QED
  BY <1>1, <1>2, <1>3, <1>4 DEF Next

\* A box is marked as handed out exactly while it is on loan as a whole, also when its
\* returns from several orders run at once, when only loans move boxes.
THEOREM BoxesOutIffOnLoan == OnlyLoansMoveBoxes => (Spec => []BoxOutIffOnLoan)
<1>1. SUFFICES ASSUME OnlyLoansMoveBoxes PROVE Spec => []BoxOutIffOnLoan
  OBVIOUS
<1>2. Spec => []RowsInv
  BY <1>1, RowsInvariant DEF NoLateInsert
<1>3. TypeOK /\ WorkflowInv /\ RowsInv /\ BoxesInv /\ [Next]_vars => BoxesInv'
  BY <1>1, NextBoxesInv
<1>4. BoxesInv => BoxOutIffOnLoan
  BY DEF BoxesInv
<1> QED
  BY <1>2, <1>3, <1>4, TypeCorrect, WorkflowInvariant, InitBoxesInv, PTL DEF Spec

-------------------------------------------------------------------------------
(* What time does to orders: module OrderReminders, with its own runs of the timers, on
   the columns that it shares with the workflow and those that it adds *)

TimedLists == [pc : {"sla", "returns"}, now : Nat, todo : SUBSET Order]
TimedOrders ==
  [pc : {"escalate"}, now : Nat, todo : SUBSET Order, order : Order, level : Level]
    \cup [pc : {"remind"}, now : Nat, todo : SUBSET Order, order : Order, kinds : SUBSET Kind]
    \cup [pc : {"ask"}, order : Order]

TimedTypes ==
  /\ now \in Nat
  /\ escalated \in [Order -> [Level -> Nat]]
  /\ asked \in [Order -> SUBSET Nat]
  /\ lock \in [Order -> Run \cup {Nobody}]
  /\ run \in [Run -> {Idle} \cup TimedLists \cup TimedOrders]

\* Who is about to send holds the row of the order, and what it read there still holds.
TimedHolds(s) ==
  LET r == run[s] IN
  /\ r.pc \in {"remind", "ask"} => lock[r.order] = s
  /\ r.pc = "remind" => IsOnLoan(r.order)
  /\ r.pc = "ask" => NotJustAsked(r.order)

\* Every level was announced once at most, by the unique key.
TimedInv ==
  /\ TimedTypes
  /\ EscalatedOnce
  /\ \A s \in Run : TimedHolds(s)

LEMMA TimedInitInv == ASSUME TimedInit PROVE TimedInv
<1>1. TimedTypes
  BY RemindersAssumption DEF TimedInit, TimedTypes
<1>2. EscalatedOnce
  BY DEF TimedInit, EscalatedOnce
<1>3. \A s \in Run : TimedHolds(s)
  BY DEF TimedInit, TimedHolds, Idle
<1> QED
  BY <1>1, <1>2, <1>3 DEF TimedInv

\* A run goes on, and the others wait.
LEMMA TimedGoesOn ==
  ASSUME TimedTypes, NEW s \in Run, NEW r, Becomes(s, r),
         r \in {Idle} \cup TimedLists \cup TimedOrders
  PROVE  /\ run' \in [Run -> {Idle} \cup TimedLists \cup TimedOrders]
         /\ run'[s] = r /\ \A t \in Run \ {s} : run'[t] = run[t]
  BY DEF TimedTypes, Becomes

LEMMA TimedContinues ==
  ASSUME TimedTypes, NEW s \in Run, NEW kind \in {"sla", "returns"}, NEW t \in Nat,
         NEW todo \in SUBSET Order, Continue(s, kind, t, todo)
  PROVE  /\ run' \in [Run -> {Idle} \cup TimedLists \cup TimedOrders]
         /\ run'[s].pc \notin {"remind", "ask"}
         /\ \A v \in Run \ {s} : run'[v] = run[v]
<1> DEFINE r == IF todo = {} THEN Idle ELSE [pc |-> kind, now |-> t, todo |-> todo]
<1>1. r \in {Idle} \cup TimedLists
  BY DEF TimedLists
<1>2. r.pc \notin {"remind", "ask"}
  BY DEF Idle
<1>3. Becomes(s, r)
  BY DEF Continue
<1> HIDE DEF r
<1> QED
  BY <1>1, <1>2, <1>3, TimedGoesOn

\* What a run has noted.
LEMMA TimedFields ==
  ASSUME TimedTypes, NEW s \in Run, run[s].pc # "idle"
  PROVE  /\ run[s].pc # "ask" => run[s].now \in Nat /\ run[s].todo \in SUBSET Order
         /\ run[s].pc \notin {"sla", "returns"} => run[s].order \in Order
         /\ run[s].pc = "escalate" => run[s].level \in Level
  BY DEF TimedTypes, TimedLists, TimedOrders, Idle

\* A run keeps what it holds while the order and its request are left alone.
LEMMA TimedKeeps ==
  ASSUME TimedTypes, NEW s \in Run, TimedHolds(s), run'[s] = run[s],
         run[s].pc \in {"remind", "ask"} =>
           LET o == run[s].order IN
           /\ lock'[o] = lock[o]
           /\ IsOnLoan(o) => IsOnLoan(o)'
           /\ NotJustAsked(o) => NotJustAsked(o)'
  PROVE  TimedHolds(s)'
  BY DEF TimedHolds

\* Two runs do not hold the row of one order.
LEMMA TimedAlone ==
  ASSUME TimedInv, NEW s \in Run, NEW t \in Run, s # t,
         run[s].pc \in {"remind", "ask"}, run[t].pc \in {"remind", "ask"}
  PROVE  run[s].order # run[t].order
  BY DEF TimedInv, TimedHolds

LEMMA TimedStep ==
  ASSUME TimedInv, [TimedNext]_allVars
  PROVE  TimedInv'
<1> DEFINE RunType == {Idle} \cup TimedLists \cup TimedOrders
           Waits(s) == \A t \in Run \ {s} : run'[t] = run[t]
<1>1. /\ TimedTypes /\ now \in Nat /\ asked \in [Order -> SUBSET Nat]
      /\ escalated \in [Order -> [Level -> Nat]] /\ EscalatedOnce
      /\ lock \in [Order -> Run \cup {Nobody}] /\ run \in [Run -> RunType]
      /\ \A s \in Run : TimedHolds(s)
  BY DEF TimedInv, TimedTypes
<1>2. /\ Nobody \notin Run /\ SlaRun \subseteq Run /\ ReturnRun \subseteq Run /\ Asker \subseteq Run
      /\ Cooldown \in Nat
  BY RemindersAssumption DEF Run
<1>3. \A s \in Run : run[s].pc \in {"remind", "ask"} => /\ run[s].order \in Order
                                                        /\ lock[run[s].order] = s
  BY <1>1, TimedFields DEF TimedHolds
<1> HIDE DEF RunType
<1>4. ASSUME run' = run, UNCHANGED <<escalated, asked, lock>>, now' \in Nat,
             \A s \in Run : run[s].pc \in {"remind", "ask"} =>
               /\ IsOnLoan(run[s].order) => IsOnLoan(run[s].order)'
               /\ NotJustAsked(run[s].order) => NotJustAsked(run[s].order)'
      PROVE  TimedInv'
  <2>1. \A s \in Run : TimedHolds(s)'
    BY <1>1, <1>4, TimedKeeps
  <2>2. TimedTypes' /\ (EscalatedOnce)'
    BY <1>1, <1>4 DEF TimedTypes, EscalatedOnce
  <2> QED
    BY <2>1, <2>2 DEF TimedInv
<1>5. CASE UNCHANGED allVars
  BY <1>1, <1>4, <1>5 DEF allVars, assignVars, messages, IsOnLoan, NotJustAsked
<1>6. CASE OrderStep
  <2>1. UNCHANGED <<run, escalated, asked, lock, now>>
    BY <1>6 DEF OrderStep, messages
  <2>2. ASSUME NEW s \in Run, run[s].pc \in {"remind", "ask"}
        PROVE  /\ IsOnLoan(run[s].order) => IsOnLoan(run[s].order)'
               /\ NotJustAsked(run[s].order) => NotJustAsked(run[s].order)'
    <3>1. status'[run[s].order] = status[run[s].order] /\ out \subseteq out'
      BY <1>2, <1>3, <1>6, <2>2 DEF OrderStep, Free
    <3> QED
      BY <2>1, <3>1 DEF IsOnLoan, NotJustAsked
  <2> QED
    BY <1>1, <1>4, <2>1, <2>2
<1>7. ASSUME NEW o \in Order, Return(o) PROVE TimedInv'
  <2>1. UNCHANGED <<run, escalated, asked, lock, now, status>> /\ out' = out \ {o} /\ lock[o] = Nobody
    BY <1>7 DEF Return, messages, assignVars, Free
  <2>2. \A s \in Run : run[s].pc \in {"remind", "ask"} => run[s].order # o
    BY <1>2, <1>3, <2>1
  <2> QED
    BY <1>1, <1>4, <2>1, <2>2 DEF IsOnLoan, NotJustAsked
<1>8. CASE Tick
  <2>1. UNCHANGED <<run, escalated, asked, lock, status, out>> /\ now' = now + 1
    BY <1>8 DEF Tick, messages, assignVars
  <2>2. ASSUME NEW s \in Run, run[s].pc \in {"remind", "ask"}
        PROVE  NotJustAsked(run[s].order) => NotJustAsked(run[s].order)'
    <3>1. asked[run[s].order] \in SUBSET Nat
      BY <1>1, <1>3, <2>2
    <3> QED
      BY <1>1, <1>2, <2>1, <3>1 DEF NotJustAsked
  <2> QED
    BY <1>1, <1>4, <2>1, <2>2 DEF IsOnLoan
\* One run goes on and holds what it says; the locks of the others stay.
<1>9. ASSUME NEW s \in Run, run' \in [Run -> RunType], Waits(s), UNCHANGED <<status, out, now>>,
             escalated' \in [Order -> [Level -> Nat]], EscalatedOnce',
             asked' \in [Order -> SUBSET Nat], lock' \in [Order -> Run \cup {Nobody}],
             \A o \in Order : lock[o] # s /\ lock[o] # Nobody => lock'[o] = lock[o] /\ asked'[o] = asked[o],
             TimedHolds(s)'
      PROVE  TimedInv'
  <2>1. ASSUME NEW t \in Run \ {s} PROVE TimedHolds(t)'
    <3>1. run'[t] = run[t] /\ TimedHolds(t)
      BY <1>1, <1>9
    <3>2. ASSUME run[t].pc \in {"remind", "ask"}
          PROVE  LET o == run[t].order IN lock'[o] = lock[o] /\ asked'[o] = asked[o]
      BY <1>2, <1>3, <1>9, <3>2
    <3> QED
      BY <1>1, <1>9, <3>1, <3>2, TimedKeeps DEF IsOnLoan, NotJustAsked
  <2>2. TimedTypes'
    BY <1>1, <1>9 DEF TimedTypes, RunType
  <2> QED
    BY <1>9, <2>1, <2>2 DEF TimedInv
<1>10. ASSUME NEW s \in Run, run' \in [Run -> RunType], Waits(s), run'[s].pc \notin {"remind", "ask"},
              UNCHANGED <<status, out, now, escalated, asked, lock>>
       PROVE  TimedInv'
  <2>1. TimedHolds(s)'
    BY <1>10 DEF TimedHolds
  <2>2. EscalatedOnce'
    BY <1>1, <1>10 DEF EscalatedOnce
  <2> QED
    BY <1>1, <1>9, <1>10, <2>1, <2>2
\* The same for a run that continues its list, or ends.
<1>11. ASSUME NEW s \in Run, NEW kind \in {"sla", "returns"}, NEW t \in Nat, NEW todo \in SUBSET Order,
              Continue(s, kind, t, todo)
       PROVE  run' \in [Run -> RunType] /\ Waits(s) /\ run'[s].pc \notin {"remind", "ask"}
  BY <1>1, <1>11, TimedContinues DEF RunType
<1>12. ASSUME NEW s \in Run, NEW r, Becomes(s, r),
              r \in {Idle} \cup TimedLists \cup TimedOrders
       PROVE  run' \in [Run -> RunType] /\ Waits(s) /\ run'[s] = r
  BY <1>1, <1>12, TimedGoesOn DEF RunType
<1>13. ASSUME NEW s \in Run, run[s].pc # "idle"
       PROVE  /\ run[s].pc # "ask" => run[s].now \in Nat /\ run[s].todo \in SUBSET Order
              /\ run[s].pc \notin {"sla", "returns"} => run[s].order \in Order
              /\ run[s].pc = "escalate" => run[s].level \in Level
  BY <1>1, <1>13, TimedFields
<1>14. ASSUME SameOrders PROVE UNCHANGED <<status, out, now>>
  BY <1>14 DEF SameOrders, assignVars
<1>15. ASSUME UNCHANGED messages PROVE UNCHANGED <<escalated, asked>>
  BY <1>15 DEF messages
<1>16. ASSUME NEW s \in SlaRun, ListSla(s) PROVE TimedInv'
  <2>1. PICK todo \in SUBSET Order : Continue(s, "sla", now, todo)
    BY <1>16 DEF ListSla, BeginRun
  <2> QED
    BY <1>1, <1>2, <1>10, <1>11, <1>14, <1>15, <1>16, <2>1 DEF ListSla
<1>17. ASSUME NEW s \in ReturnRun, ListReturns(s) PROVE TimedInv'
  <2>1. PICK todo \in SUBSET Order : Continue(s, "returns", now, todo)
    BY <1>17 DEF ListReturns, BeginRun
  <2> QED
    BY <1>1, <1>2, <1>10, <1>11, <1>14, <1>15, <1>17, <2>1 DEF ListReturns
<1>18. ASSUME NEW s \in SlaRun, NEW o \in Order, ReadSla(s, o) PROVE TimedInv'
  <2> DEFINE r == run[s]
             level == orderSlaLevel(o, r.now)
  <2>1. r.now \in Nat /\ r.todo \ {o} \in SUBSET Order
    BY <1>2, <1>13, <1>18 DEF ReadSla
  <2>2. UNCHANGED <<status, out, now, escalated, asked, lock>>
    BY <1>14, <1>15, <1>18 DEF ReadSla
  <2>3. CASE Unsaid(o, level)
    <3> DEFINE q == [pc |-> "escalate", now |-> r.now, todo |-> r.todo \ {o}, order |-> o, level |-> level]
    <3>1. level \in Level
      BY <2>3 DEF Unsaid, orderSlaLevel, Level
    <3>2. q \in TimedOrders /\ q.pc = "escalate"
      BY <2>1, <3>1 DEF TimedOrders
    <3>3. Becomes(s, q)
      BY <1>18, <2>3 DEF ReadSla
    <3> HIDE DEF q
    <3>4. run' \in [Run -> RunType] /\ Waits(s) /\ run'[s].pc \notin {"remind", "ask"}
      BY <1>2, <1>12, <3>2, <3>3
    <3> QED
      BY <1>2, <1>10, <2>2, <3>4
  <2>4. CASE ~ Unsaid(o, level)
    <3>1. Continue(s, "sla", r.now, r.todo \ {o})
      BY <1>18, <2>4 DEF ReadSla
    <3>2. run' \in [Run -> RunType] /\ Waits(s) /\ run'[s].pc \notin {"remind", "ask"}
      BY <1>2, <1>11, <2>1, <3>1
    <3> QED
      BY <1>2, <1>10, <2>2, <3>2
  <2> QED
    BY <2>3, <2>4
<1>19. ASSUME NEW s \in SlaRun, Escalate(s) PROVE TimedInv'
  <2> DEFINE r == run[s]
             o == run[s].order
             l == run[s].level
  <2>1. r.now \in Nat /\ r.todo \in SUBSET Order /\ o \in Order /\ l \in Level
    BY <1>2, <1>13, <1>19 DEF Escalate
  <2>2. Continue(s, "sla", r.now, r.todo)
    BY <1>19 DEF Escalate
  <2>3. run' \in [Run -> RunType] /\ Waits(s) /\ run'[s].pc \notin {"remind", "ask"}
    BY <1>2, <1>11, <2>1, <2>2
  <2>4. UNCHANGED <<status, out, now, asked, lock>>
    BY <1>14, <1>19 DEF Escalate
  <2>5. escalated' \in [Order -> [Level -> Nat]] /\ EscalatedOnce'
    <3>1. CASE escalated' = escalated
      BY <1>1, <3>1 DEF EscalatedOnce
    <3>2. CASE escalated' # escalated
      <4>1. ~ Has(o, l) /\ escalated' = [escalated EXCEPT ![o][l] = @ + 1]
        BY <1>19, <3>2 DEF Escalate, UniqueLevel
      <4>2. escalated[o][l] \in Nat /\ escalated[o][l] = 0
        BY <1>1, <2>1, <4>1 DEF Has
      <4>3. escalated' \in [Order -> [Level -> Nat]]
        BY <1>1, <2>1, <4>1
      <4>4. ASSUME NEW p \in Order, NEW k \in Level PROVE escalated'[p][k] <= 1
        <5>1. CASE p = o /\ k = l
          BY <1>1, <2>1, <4>1, <4>2, <5>1
        <5>2. CASE ~ (p = o /\ k = l)
          <6>1. escalated'[p][k] = escalated[p][k]
            BY <1>1, <2>1, <4>1, <5>2
          <6> QED
            BY <1>1, <6>1 DEF EscalatedOnce
        <5> QED
          BY <5>1, <5>2
      <4> QED
        BY <4>3, <4>4 DEF EscalatedOnce
    <3> QED
      BY <3>1, <3>2
  <2>6. TimedHolds(s)'
    BY <2>3 DEF TimedHolds
  <2> QED
    BY <1>1, <1>2, <1>9, <2>3, <2>4, <2>5, <2>6
<1>20. ASSUME NEW s \in ReturnRun, NEW o \in Order, LockReminder(s, o) PROVE TimedInv'
  <2> DEFINE r == run[s]
             kinds == returnReminderKind(r.now) \ reminded[o]
  <2>1. r.now \in Nat /\ r.todo \ {o} \in SUBSET Order /\ lock[o] = Nobody
    BY <1>2, <1>13, <1>20 DEF LockReminder, Free
  <2>2. UNCHANGED <<status, out, now, escalated, asked>>
    BY <1>14, <1>15, <1>20 DEF LockReminder
  <2>3. CASE IsOnLoan(o) /\ kinds # {}
    <3> DEFINE q == [pc |-> "remind", now |-> r.now, todo |-> r.todo \ {o}, order |-> o, kinds |-> kinds]
    <3>1. kinds \in SUBSET Kind
      BY DEF returnReminderKind, Kind
    <3> HIDE DEF kinds
    <3>2. q \in TimedOrders /\ q.pc = "remind" /\ q.order = o
      BY <2>1, <3>1 DEF TimedOrders
    <3>3. Becomes(s, q) /\ lock' = [lock EXCEPT ![o] = s]
      BY <1>20, <2>3 DEF LockReminder, kinds
    <3> HIDE DEF q
    <3>4. run' \in [Run -> RunType] /\ Waits(s) /\ run'[s] = q
      BY <1>2, <1>12, <3>2, <3>3
    <3>5. lock' \in [Order -> Run \cup {Nobody}] /\ lock'[o] = s /\ \A p \in Order \ {o} : lock'[p] = lock[p]
      BY <1>1, <1>2, <3>3
    <3>6. TimedHolds(s)'
      BY <2>2, <2>3, <3>2, <3>4, <3>5 DEF TimedHolds, IsOnLoan
    <3>7. escalated' \in [Order -> [Level -> Nat]] /\ EscalatedOnce' /\ asked' = asked
      BY <1>1, <2>2 DEF EscalatedOnce
    <3> QED
      BY <1>1, <1>2, <1>9, <2>1, <2>2, <3>4, <3>5, <3>6, <3>7
  <2>4. CASE ~ (IsOnLoan(o) /\ kinds # {})
    <3>1. Continue(s, "returns", r.now, r.todo \ {o}) /\ lock' = lock
      BY <1>20, <2>4 DEF LockReminder
    <3>2. run' \in [Run -> RunType] /\ Waits(s) /\ run'[s].pc \notin {"remind", "ask"}
      BY <1>2, <1>11, <2>1, <3>1
    <3> QED
      BY <1>2, <1>10, <2>2, <3>1, <3>2
  <2> QED
    BY <2>3, <2>4
\* A run that lets its order go.
<1>21. ASSUME NEW s \in Run, run[s].pc \in {"remind", "ask"}, run' \in [Run -> RunType], Waits(s),
              run'[s].pc \notin {"remind", "ask"}, UNCHANGED <<status, out, now, escalated>>,
              lock' = [lock EXCEPT ![run[s].order] = Nobody],
              asked' \in {asked, [asked EXCEPT ![run[s].order] = {now}]}
       PROVE  TimedInv'
  <2>1. run[s].order \in Order /\ lock[run[s].order] = s
    BY <1>3, <1>21
  <2>2. lock' \in [Order -> Run \cup {Nobody}] /\ asked' \in [Order -> SUBSET Nat]
    BY <1>1, <1>21, <2>1
  <2>3. \A p \in Order : lock[p] # s => lock'[p] = lock[p] /\ asked'[p] = asked[p]
    BY <1>1, <1>21, <2>1
  <2>4. TimedHolds(s)'
    BY <1>21 DEF TimedHolds
  <2>5. escalated' \in [Order -> [Level -> Nat]] /\ EscalatedOnce'
    BY <1>1, <1>21 DEF EscalatedOnce
  <2> QED
    BY <1>9, <1>21, <2>2, <2>3, <2>4, <2>5
<1>22. ASSUME NEW s \in ReturnRun, Remind(s) PROVE TimedInv'
  <2>1. /\ run[s].pc = "remind" /\ Continue(s, "returns", run[s].now, run[s].todo)
        /\ lock' = [lock EXCEPT ![run[s].order] = Nobody] /\ escalated' = escalated /\ asked' = asked
        /\ UNCHANGED <<status, out, now>>
    BY <1>14, <1>22 DEF Remind
  <2>2. run[s].now \in Nat /\ run[s].todo \in SUBSET Order
    BY <1>2, <1>13, <2>1
  <2>3. run' \in [Run -> RunType] /\ Waits(s) /\ run'[s].pc \notin {"remind", "ask"}
    BY <1>2, <1>11, <2>1, <2>2
  <2> QED
    BY <1>2, <1>21, <2>1, <2>3
<1>23. ASSUME NEW s \in Asker, NEW o \in Order, LockRequest(s, o) PROVE TimedInv'
  <2> DEFINE q == [pc |-> "ask", order |-> o]
  <2>1. q \in TimedOrders /\ q.pc = "ask" /\ q.order = o
    BY DEF TimedOrders
  <2>2. /\ Becomes(s, q) /\ lock' = [lock EXCEPT ![o] = s] /\ lock[o] = Nobody
        /\ NotJustAsked(o) /\ UNCHANGED <<status, out, now, escalated, asked>>
    BY <1>14, <1>15, <1>23 DEF LockRequest, StartRun, Free
  <2> HIDE DEF q
  <2>3. run' \in [Run -> RunType] /\ Waits(s) /\ run'[s] = q
    BY <1>2, <1>12, <2>1, <2>2
  <2>4. lock' \in [Order -> Run \cup {Nobody}] /\ lock'[o] = s /\ \A p \in Order \ {o} : lock'[p] = lock[p]
    BY <1>1, <1>2, <2>2
  <2>5. TimedHolds(s)'
    BY <2>1, <2>2, <2>3, <2>4 DEF TimedHolds, NotJustAsked
  <2>6. escalated' \in [Order -> [Level -> Nat]] /\ EscalatedOnce' /\ asked' = asked
    BY <1>1, <2>2 DEF EscalatedOnce
  <2> QED
    BY <1>1, <1>2, <1>9, <2>2, <2>3, <2>4, <2>5, <2>6
<1>24. ASSUME NEW s \in Asker, Ask(s) PROVE TimedInv'
  <2>1. /\ run[s].pc = "ask" /\ Becomes(s, Idle) /\ escalated' = escalated
        /\ lock' = [lock EXCEPT ![run[s].order] = Nobody]
        /\ asked' = [asked EXCEPT ![run[s].order] = {now}] /\ UNCHANGED <<status, out, now>>
    BY <1>14, <1>24 DEF Ask
  <2>2. run' \in [Run -> RunType] /\ Waits(s) /\ run'[s].pc \notin {"remind", "ask"}
    BY <1>2, <1>12, <2>1 DEF Idle
  <2> QED
    BY <1>2, <1>21, <2>1, <2>2
<1>25. ASSUME NEW s \in Run, Lose(s) PROVE TimedInv'
  <2>1. /\ Becomes(s, Idle) /\ lock' = Released(s)
        /\ UNCHANGED <<status, out, now, escalated, asked>>
    BY <1>14, <1>15, <1>25 DEF Lose
  <2>2. run' \in [Run -> RunType] /\ Waits(s) /\ run'[s].pc \notin {"remind", "ask"}
    BY <1>2, <1>12, <2>1 DEF Idle
  <2>3. /\ lock' \in [Order -> Run \cup {Nobody}]
        /\ \A p \in Order : lock[p] # s => lock'[p] = lock[p]
    BY <1>1, <2>1 DEF Released
  <2>4. TimedHolds(s)'
    BY <2>2 DEF TimedHolds
  <2>5. escalated' \in [Order -> [Level -> Nat]] /\ EscalatedOnce' /\ asked' = asked
    BY <1>1, <2>1 DEF EscalatedOnce
  <2> QED
    BY <1>1, <1>9, <2>1, <2>2, <2>3, <2>4, <2>5
<1>26. ASSUME TimedNext PROVE TimedInv'
  BY <1>6, <1>7, <1>8, <1>16, <1>17, <1>18, <1>19, <1>20, <1>22, <1>23, <1>24, <1>25, <1>26
     DEF TimedNext, SlaStep, ReturnsStep
<1> QED
  BY <1>5, <1>26

LEMMA TimedInvariant == TimedSpec => []TimedInv
<1>1. TimedInit => TimedInv
  BY TimedInitInv
<1>2. TimedInv /\ [TimedNext]_allVars => TimedInv'
  BY TimedStep
<1> QED
  BY <1>1, <1>2, PTL DEF TimedSpec

\* Two server processes check the deadlines at a time, are slow, and are lost and repeated:
\* each level of a delay is announced once.
THEOREM EscalationsAnnouncedOnce == TimedSpec => []EscalatedOnce
<1>1. TimedInv => EscalatedOnce
  BY DEF TimedInv
<1> QED
  BY <1>1, TimedInvariant, PTL

\* Only the holders of the rows write to what was sent.
LEMMA TimedSenders ==
  ASSUME [TimedNext]_allVars
  PROVE  /\ reminded' = reminded \/ \E s \in ReturnRun : Remind(s)
         /\ asked' = asked \/ \E s \in Asker : Ask(s)
  BY DEF TimedNext, allVars, messages, OrderStep, Tick, Return,
         LockRequest, Ask, ListSla, SlaStep, ReadSla, Escalate,
         ListReturns, ReturnsStep, LockReminder, Remind, Lose

\* A reminder and a return of the same loan exclude each other.
THEOREM RemindersStopAtReturn == TimedSpec => RemindedWhileOut
<1> DEFINE WhileOut == \A o \in Order : reminded'[o] # reminded[o] => IsOnLoan(o)
<1>1. TimedInv /\ [TimedNext]_allVars => [WhileOut]_allVars
  <2> SUFFICES ASSUME TimedInv, [TimedNext]_allVars, NEW o \in Order,
                      reminded'[o] # reminded[o]
               PROVE  IsOnLoan(o)
    OBVIOUS
  <2>1. PICK s \in ReturnRun : Remind(s)
    BY TimedSenders
  <2>2. run[s].pc = "remind" /\ reminded' = [reminded EXCEPT ![run[s].order] = @ \cup run[s].kinds]
    BY <2>1 DEF Remind
  <2>3. o = run[s].order
    BY <2>2
  <2> QED
    BY <2>2, <2>3 DEF TimedInv, TimedHolds, Run
<1> QED
  BY <1>1, TimedInvariant, PTL DEF TimedSpec, RemindedWhileOut

\* Whoever asks for the return of a loan has read, under the lock, when it was asked last.
THEOREM RequestsAskedApart == TimedSpec => AskedApart
<1> DEFINE Apart == \A o \in Order : asked'[o] # asked[o] =>
                      \A s \in asked[o], t \in asked'[o] : s + Cooldown < t
<1>1. TimedInv /\ [TimedNext]_allVars => [Apart]_allVars
  <2> SUFFICES ASSUME TimedInv, [TimedNext]_allVars, NEW o \in Order,
                      asked'[o] # asked[o]
               PROVE  \A s \in asked[o], t \in asked'[o] : s + Cooldown < t
    OBVIOUS
  <2>1. PICK v \in Asker : Ask(v)
    BY TimedSenders
  <2>2. run[v].pc = "ask" /\ asked' = [asked EXCEPT ![run[v].order] = {now}]
    BY <2>1 DEF Ask
  <2>3. o = run[v].order /\ asked \in [Order -> SUBSET Nat]
    BY <2>2 DEF TimedInv, TimedTypes
  <2>4. NotJustAsked(o)
    BY <2>2, <2>3 DEF TimedInv, TimedHolds, Run
  <2> QED
    BY <2>2, <2>3, <2>4 DEF NotJustAsked
<1> QED
  BY <1>1, TimedInvariant, PTL DEF TimedSpec, AskedApart

-------------------------------------------------------------------------------
(* Who handles an order *)

\* An assignment that is about to write had seen the order in a status that allows it.
AssignInv ==
  /\ assignee = [o \in Order |-> assignee[o]]
  /\ req = [w \in Worker |-> req[w]]
  /\ \A w \in Worker : req[w].pc = "assignWrite" => canAssignOrder(req[w].sawStatus)

LEMMA AssignStep == ASSUME AssignInv, [AssignNext]_assignVars PROVE AssignInv'
<1>1. req = [w \in Worker |-> req[w]] /\ assignee = [o \in Order |-> assignee[o]]
  BY DEF AssignInv
<1>2. ASSUME UNCHANGED <<assignee, req>> PROVE AssignInv'
  BY <1>2 DEF AssignInv
<1>3. ASSUME NEW w \in Worker, NEW r, Goto(w, r),
             r.pc = "assignWrite" => canAssignOrder(r.sawStatus),
             \/ assignee' = assignee \/ \E o, u : assignee' = [assignee EXCEPT ![o] = u]
      PROVE  AssignInv'
  <2>1. req' = [req EXCEPT ![w] = r]
    BY <1>3 DEF Goto
  <2>2. req' = [v \in Worker |-> req'[v]] /\ assignee' = [o \in Order |-> assignee'[o]]
    BY <1>1, <1>3, <2>1
  <2>3. \A v \in Worker : req'[v] = IF v = w THEN r ELSE req[v]
    BY <1>1, <2>1
  <2> QED
    BY <1>3, <2>2, <2>3 DEF AssignInv, canAssignOrder
<1>4. ASSUME NEW o \in Order, NEW to, ChangeStatus(o, to) PROVE AssignInv'
  BY <1>2, <1>4 DEF ChangeStatus
<1>5. ASSUME NEW w \in Worker, NEW o \in Order, NEW u, BeginStart(w, o, u) \/ BeginAssign(w, o, u)
      PROVE  AssignInv'
  <2>1. PICK r : Goto(w, r) /\ r.pc \in {"start", "assign"} /\ assignee' = assignee
    BY <1>5 DEF BeginStart, BeginAssign
  <2> QED
    BY <1>3, <2>1
<1>6. ASSUME NEW w \in Worker, StartTx(w) \/ AssignWrite(w) PROVE AssignInv'
  <2>1. Goto(w, Idle)
    BY <1>6 DEF StartTx, AssignWrite, Refused, Done
  <2>2. assignee' = assignee \/ \E o, u : assignee' = [assignee EXCEPT ![o] = u]
    BY <1>6 DEF StartTx, AssignWrite, Refused
  <2>3. Idle.pc # "assignWrite"
    BY DEF Idle
  <2> QED
    BY <1>3, <2>1, <2>2, <2>3
<1>7. ASSUME NEW w \in Worker, AssignRead(w) PROVE AssignInv'
  <2>1. assignee' = assignee
    BY <1>7 DEF AssignRead
  <2>2. CASE Done(w)
    BY <1>3, <2>1, <2>2 DEF Done, Idle
  <2>3. CASE ~ Done(w)
    <3>1. PICK r : Goto(w, r) /\ canAssignOrder(r.sawStatus)
      BY <1>7, <2>3 DEF AssignRead
    <3> QED
      BY <1>3, <2>1, <3>1
  <2> QED
    BY <2>2, <2>3
<1>8. CASE UNCHANGED assignVars
  BY <1>2, <1>8 DEF assignVars
<1> QED
  BY <1>4, <1>5, <1>6, <1>7, <1>8 DEF AssignNext

\* An assignment that was begun while the order was open, and overtaken by its delivery
\* or its cancellation, makes nobody responsible.
THEOREM OpenOrdersAssigned == TimedSpec => AssignedWhileOpen
<1> DEFINE WhileOpen == \A o \in Order : assignee'[o] # assignee[o] => canAssignOrder(status[o])
<1>1. TimedInit => AssignInv
  BY DEF TimedInit, AssignInit, AssignInv, Idle
<1>2. [TimedNext]_allVars => [AssignNext]_assignVars
  BY DEF TimedNext, allVars, OrderStep, Tick, Return, assignVars,
         LockRequest, Ask, ListSla, SlaStep, ReadSla, Escalate,
         ListReturns, ReturnsStep, LockReminder, Remind, Lose,
         SameOrders, assignVars
<1>3. AssignInv /\ [AssignNext]_assignVars => AssignInv'
  BY AssignStep
<1>4. AssignInv /\ [AssignNext]_assignVars => [WhileOpen]_assignVars
  <2> SUFFICES ASSUME AssignInv, [AssignNext]_assignVars, NEW o \in Order, assignee'[o] # assignee[o]
               PROVE  canAssignOrder(status[o])
    OBVIOUS
  <2>1. PICK w \in Worker : StartTx(w) \/ AssignWrite(w)
    BY DEF AssignNext, assignVars, ChangeStatus, BeginStart, BeginAssign, AssignRead
  <2>2. CASE StartTx(w)
    <3>1. status[req[w].order] = "approved" /\ assignee' = [assignee EXCEPT ![req[w].order] = req[w].user]
      BY <2>2 DEF StartTx, Refused
    <3> QED
      BY <3>1 DEF canAssignOrder
  <2>3. CASE AssignWrite(w)
    <3>1. /\ req[w].pc = "assignWrite" /\ status[req[w].order] = req[w].sawStatus
          /\ assignee' = [assignee EXCEPT ![req[w].order] = req[w].user]
      BY <2>3 DEF AssignWrite, Refused, StillAsRead
    <3> QED
      BY <3>1 DEF AssignInv
  <2> QED
    BY <2>1, <2>2, <2>3
<1> QED
  BY <1>1, <1>2, <1>3, <1>4, PTL DEF TimedSpec, AssignedWhileOpen

===============================================================================
