# A verification project for ArchiveCore

ArchiveCore manages the paper archives of several tenants: boxes and folders in a warehouse,
orders that hand them out or scan them, retention and disposal, billing, and the
integrations around them. It is a Node/Express server (`server/src`) over PostgreSQL
(Prisma), with a React client. This directory holds TLA+ modules translated from the server's
code, the TLC configurations that check them on small instances, and TLAPS proofs.

Paths below are relative to `server/src/modules` unless they start with another directory of
the repository.

Contents: [1 the system](#1-the-system), [2 how the code is modelled](#2-how-the-code-is-modelled),
[3 orders](#3-orders), [4 assignment, deadlines and reminders](#4-assignment-deadlines-and-reminders),
[5 disposal](#5-disposal), [6 the warehouse](#6-the-warehouse),
[7 repeated operations](#7-repeated-operations), [8 delivery queues](#8-delivery-queues),
[9 billing](#9-billing), [10 transfer lists](#10-transfer-lists), [11 inventory](#11-inventory),
[12 the runs](#12-the-runs), [13 what the properties leave out](#13-what-the-properties-leave-out),
[14 the proofs](#14-the-proofs), [15 what is not modelled](#15-what-is-not-modelled).

## 1 The system

One server process answers HTTP requests; while it is restarted, the old and the new
process overlap. Five timers run in it (`server/src/index.ts` 48-97): webhooks every 30 s,
order SLA every 60 s, SLA targets every 6 h, return reminders every hour, mails every 60 s.
All shared state is in PostgreSQL (files are in object storage). The components interact through rows
and through calls inside one transaction: an order that is delivered writes its items, its
boxes, the custody log, billing events and the webhook queue together.

What makes the code hard is its usual shape: a handler *reads* outside any transaction,
decides, and later *writes* in a transaction whose `WHERE` clauses re-check part of what it
read. Properties are about what happens between the two.

| Component | State it keeps | Operations | Interacts with | Hard behaviour | What makes it correct |
|---|---|---|---|---|---|
| Orders (`orders/order.service.ts`, `order-scan.service.ts`, `order-handover-photo.service.ts`) | order and item status, scan files, quote and approval, handover proof | create, addItem, submit, approve, reject, start, pick, markReady, createScanQuote, approveScanQuote, deliver, returnLoanItem, complete, reopen, cancel, delete | custody, boxes, billing, webhooks, object storage | decisions on stale reads; two returns at once; row locks; reopening | the status table is respected; a return is recorded once; the last return closes the order; the client pays for what was approved |
| Assignment (`orders/order.service.ts`) | the handler of an order | assign, quick start | orders | two managers at once; finish during assignment | only open orders are assigned; an assignment replaces only what it saw |
| Order SLA, reminders, SLA targets (`orders/order-sla.service.ts`, `orders/order-return-reminder.service.ts`, `reports/sla-target-alert.service.ts`, `orders/loan-return-request.service.ts`) | escalations and notifications, once per key | processDue, escalate, remind | orders, mails | two processes; a restart in the middle | nobody is alerted twice, nobody is forgotten |
| Custody log (`orders/custody.service.ts`) | append-only events | written by deliver and returnLoanItem; manual events | orders | late events | events agree with what is out |
| Disposal and retention (`retention/`) | disposal status and decisions of a box, legal holds, policies, evidence | propose, review, first and second client approval, reject, withdraw, complete, holds on box, folder, document, list and series | boxes, folders, transfer lists, orders | batches and their subsets, four eyes, cooling-off, holds between steps, moved content | nobody decides alone; a hold stops everything; nothing is destroyed early; destruction is final |
| Boxes and locations (`boxes/`, `locations/`) | status and location of boxes, counters of locations, idempotency records | create, update, move, bulkMove, bulkReceive, changeStatus, bulkChangeStatus, bulkDelete, setLegalHold | orders, disposal, inventory | concurrent moves; repeated bulk operations | counters equal contents; an operation is applied once |
| Folders and documents (`folders/`, `documents/`) | content of boxes, holds | create, update, changeStatus, reorder, delete | boxes, disposal, transfer lists | renumbering | content has one place |
| Transfer lists (`transfer-lists/`) | lists and their items, draft, confirmed, archived | create, update, items, import, bulkAssignBox, changeStatus, createFromReviewedScan, delete | folders, boxes, disposal | draft checks outside the transaction, repeated imports, holds during a deletion | an item and its folder agree; a scan is imported once; nothing held disappears |
| Inventory (`inventory/`) | sessions, expected and scanned boxes, resolutions | startSession, scanBox, undoScan, finishSession, recordResolution, resolveBox | boxes | scans while the session is finished, codes staged offline, a queue of codes | a box counts once; a finished count is final; no code is lost |
| Billing (`pricing/`) | billing events, monthly storage, periods, prices, invoices | delivery events, generateMonthlyStorage, exclude, restore, reprice, closePeriod | orders, boxes | period closed during a write; prices that change between two events | the bill of a closed month is what was announced; nothing on it lacks a price; an invoice takes it whole |
| Webhooks (`integrations/`) | endpoints, delivery queue | enqueueOrderStatus, processDue, deactivateEndpoint | orders, recipients | lease, slow calls, crash, retry | every event is sent, seldom twice; attempts are bounded |
| Mails (`notifications/email-delivery.service.ts`) | delivery queue | processDue, retryFailed | reminders, SMTP | the same, and outdated reminders | what is sent is final; no late reminder |
| Authentication (`auth/`) | refresh tokens, recovery codes, second factor | login, refreshToken, logout, changePassword, MFA setup | users | the same token used twice | a token is spent once |
| Attachments (`attachments/`) | rows and stored objects | upload, download, delete, scan batches | object storage, orders | two stores without a common transaction | no row without its object |
| Share links (`share-links/`) | links with expiry and access limit | create, findByToken, delete, revokeExpired | orders | concurrent use at the limit | the limit holds |
| Users, tenants, HR | rows | administration | all | little | |
| Search, reports, labels, audit, import and export | derived data, files | queries, parsing, rendering | all | none in the order of steps | |
| Client (`client/`) | user interface; pending operations, staged codes and tokens in the browser | calls the HTTP interface | server | lost answers, reloads, several tabs, a session of another user | a confirmed operation is done once and not forgotten |

`PROJECT.json` lists the components with their status, and under `hazards` what is hard to
test, each at its line.

## 2 How the code is modelled

* **A request with a read outside its transaction** is a worker `w` with a local record
  `req[w]`. `Begin...(w, ...)` takes the snapshot and the early returns; the transaction is an
  action of its own, with a disjunct for success and one (`Conflict`, `Refused`) for the
  `WHERE` clause that no longer matches. `updateMany` with a `where` decides and writes under the row
  lock, so check and write are one step.
* **A read-committed transaction** that decides with its own `WHERE` clauses, and **a
  serializable one**, is a single action. `returnLoanItem` is the exception in the order
  module: it takes `FOR UPDATE` locks, counts, then writes, and is split at these points.
* **A crash** (process or transaction time-out) sends the worker back to idle, rolls back
  what was not committed, and releases its locks.
* **Data** is kept as far as a property tells it apart: a page count is the set of items
  scanned, a tracked custody target is a set membership, a day or a lease is a small number.
* **Bounds** are constants (`MaxCount`, `MaxDay`, `MaxRows`, `MaxTrouble`) and listed with the
  runs. The proofs hold for every value of them that the named assumptions allow.
* **Weakened forms.** Beside some definitions stands a weaker or wrong form of it
  (`StatusNotRechecked` beside `StillIn`, `Unfenced` beside `OwnsRow`, ...). Nothing uses it: each is the bug that the
  property named in `PROJECT.json` (`mutants`) detects when it takes the place of the
  definition.

| Module | What it is |
|---|---|
| `OrderMachine` | the status table and its helpers (`orders/order-state-machine.ts`, `canAssignOrder`) |
| `OrderRequests` | the orders and the requests on them, shared by `Orders` and `OrderAssignment` |
| `Orders` | the order workflow as concurrent handlers |
| `OrderLedger` | its abstract specification: atomic orders |
| `OrderProperties` | the properties and the inductive invariants of `Orders` |
| `OrderAssignment` | who handles an order |
| `Disposal` | disposal process and legal holds |
| `DeliveryQueues` | the two delivery queues |
| `OrderReminders` | escalations, reminders and requests for a return; EXTENDS `OrderAssignment` |
| `Warehouse` | boxes, locations, their counters and the custody log |
| `Submissions` | a confirmed warehouse operation from the scanner to the database |
| `ExactlyOnce` | what its identifier promises: the abstract specification of `Submissions` |
| `Billing` | price lists, charges, months and invoices |
| `Transfers` | transfer lists, their items and the folders of the items |
| `Inventory` | an inventory session and the pages that scan it |
| `OrdersProofs`, `DisposalProofs`, `DeliveryQueuesProofs`, `WarehouseProofs`, `SubmissionsProofs`, `BillingProofs`, `TransfersProofs`, `InventoryProofs` | the theorems |
| `MC...` | constants of the TLC instances |

## 3 Orders

`Orders` EXTENDS `OrderRequests`, which EXTENDS `OrderMachine`. State: `status` and `announced` (the last webhook event queued), `itemStatus`,
`scanned`, `quote`/`approved`, `proof`, custody counters `handovers`/`returns`, `billed`,
`box` (box status), the row locks, and `req`. The workload of an instance is the constant
`Workload`, the operations its users call; `"in_progress"` from `"delivered"` is the operation `"reopen"`.

| Actions | Code (`orders/order.service.ts`) |
|---|---|
| `Create`; `BeginAddItem`, `AddItemTx` | `create`; `addItem` (checks 740-750, unconditional insert 751) |
| `BeginUpdateStatus`, `UpdateStatusTx` | `submit`, `approve`, `reject`, `startProcessing`, `complete`, `cancel` and reopening through `updateStatus` (784-860) |
| `BeginMarkReady`, `MarkReadyRead` | `markReady`: its own read (878), then that of `updateStatus` |
| `Pick` | `updateItemStatus` (1159) |
| `BeginDeliver`, `DeliverTx` | `deliver` (890-1042): items, boxes, custody, billing, webhook |
| `BeginReturn`, `ReturnLock`, `ReturnCommit` | `returnLoanItem` (1052-1150) with its row locks |
| `BeginDelete`, `DeleteTx` | `delete` (702-727) |
| `BeginUpload`, `UploadTx` | `upload` of `order-scan.service.ts` |
| `BeginPrepareQuote`, `PrepareQuoteTx`, `BeginApproveQuote`, `ApproveQuoteTx` | `prepareExistingScanQuote`, `approveScanQuote` (610-661); a new quote is written by `markReady`'s transaction |
| `ChangeBoxStatus` | `changeStatus` of `boxes/box.service.ts`, as it meets orders |
| `Crash` | the process or the connection is lost: PostgreSQL rolls back |

(The exact names and lines are in `PROJECT.json`, `map`.)

`OrderLedger` is what the module promises: every order walks the status table and each
request takes effect at one instant; in particular the return of the last item out closes
the order in that instant. `ImplementsLedger` (`INSTANCE OrderLedger` under the identity on
`status` and `itemStatus`) states that the read-check-write handlers implement it. The ledger
keeps two weaknesses of the code visible: `AddItem` is possible in every status, and
`ready` does not promise that everything was picked.

Properties: `ReturnRecordedOnce`, `BoxOutIffOnLoan`, `ScanBilledAsQuoted`,
`ApprovedQuoteBacked`, `SettledIsBilled`, `WebhooksFollowStatus`, `ImplementsLedger`,
`WorkflowInv` (the inductive invariant of the proofs; `ScanInv`, `RowsInv`, `BillingInv` and `BoxesInv`, beside it
in `OrderProperties`, serve one property each), `RequestsEnd`.

Fairness (`FairSpec`): strong fairness of each worker's next step. Node runs a request that
it accepted, PostgreSQL serves the queue of a row lock in order, and Prisma ends a
transaction that takes too long (`Crash`). No user action is fair. `RequestsEnd` is checked
with crashes enabled, which release the locks.

Assumptions of the model: `getById` is one read; a refusal for a legal hold, a missing price list, a
closed period, a missing recipient or photo is a request that never begins; `ReturnLock`
takes order and box row in one step (a deadlock between returns is resolved by PostgreSQL,
which aborts one of them: `Crash`); custody and billing survive the deletion of an order;
there is no route from `rejected` to `draft`; nothing sets an item to `issue`.

## 4 Assignment, deadlines and reminders

`OrderAssignment` has the column `assignedTo`, which `Orders` leaves out, with `assign`'s two reads and
its compare-and-set (1232), and the quick start (176), against all status changes as atomic
steps, which `ImplementsLedger` justifies.

`OrderReminders` EXTENDS it with a clock and what the timers do to its orders:

| Actions | Code |
|---|---|
| `ListSla`, `ReadSla`, `Escalate` | `processDue` and `escalate` of `orders/order-sla.service.ts`: list, then per order a transaction that reads it again; the unique key of order and level decides |
| `ListReturns`, `LockReminder`, `Remind` | `orders/order-return-reminder.service.ts`: lock the order, read, write |
| `LockRequest`, `Ask` | `orders/loan-return-request.service.ts`: lock, look for a request within the cooling time, write |
| `OrderStep`, `Return`, `Tick`, `Lose` | the orders, the clock, a run lost with the rest of its list |

Properties: `AssignedWhileOpen`, `EscalatedOnce` (two processes, and runs that are repeated), `RemindedWhileOut`,
`AskedApart`, and `EscalationArrives` (liveness). `TimedSpec` is weakly fair to the timers and to
each run that was started; `setInterval` keeps firing, and a run that was lost (at most `Losses`) is followed by
another. No step of a user is fair, and the clock stops at `LastTime`: the property asks only
about deadlines it has passed.

## 5 Disposal

`Disposal` has one action per operation of `retention/retention.service.ts` on a batch of
boxes (all or none), the holds of `boxes/box.service.ts` (660) and
`documentation-legal-hold.service.ts` (50), the hold of a JRWA series, and the writers
that meet them: manual status changes, orders, moved content, the clock. The decisions are
serializable transactions; the others decide with the conditions of the update itself under
its row locks, so each is one action. State: `status`, `decision` (the disposal columns of a
box), `proposer`, the three kinds of hold, `inBox`, `today`.

The process: propose (`Threshold` or more boxes need a second approval, 574), review, first
client approval by somebody other than the proposer, second approval by a third person,
each starting a cooling-off period, decision of the State Archives, completion. A hold or a
withdrawal puts the box back to `active` and clears its decisions.

Properties: `DisposedAsDecided` (every destroyed box had all decisions, by different people,
also when approvals covered other subsets than the proposal), `HeldLeavesDisposal`,
`DisposalInv` (the inductive invariant), `NothingHeldIsDestroyed` (also for held content moved
into an approved box, which placing the hold did not reach), `CoolingOffRespected`,
`DisposalIsFinal`.

Abstractions: every box is due and its policy allows disposal, so `disposalEligibility` has
only holds left to decide; `Movable` content may be moved by `bulkAssignBox`, which also
stands for content that is added; `Covers` says which content a hold on a folder, document or list reaches; the
assignment of a box to another policy is not modelled, nor evidence, protocols,
folder status and location counters at completion.

## 6 The warehouse

`Warehouse` has the boxes with location and status, `currentCount` of each location, and the last
place the custody log has for each box. A move, receipt or deletion reads the boxes, then writes
with an `updateMany` that names the locations it read, in one transaction with counters and log; it fails as a
whole when a box has moved (`ReadPlaces`/`Relocate`, `bulkReceive`/`Receive`, `bulkDelete`/`Delete`,
`update`/`WriteBack`, `create`/`CountCreated`, all of `boxes/box.service.ts`; `completeDisposal` of
`retention/retention.service.ts` 848).

Three paths are weaker: a box is created and counted in two steps (265-316), an update that keeps the
location writes it back as read (374), and a deletion recounts the locations it had read (651). History
variables say where that went wrong: `skewed` (locations) and `overwritten` (boxes). Properties:
`CountersAgree` (elsewhere the counter is the number of boxes, minus those still being created),
`CustodyTells`, `ReceiptFirst` (so that an intake is charged once).

## 7 Repeated operations

`Submissions` follows one confirmed bulk move or receipt: the page saves it under the user's key in
localStorage with a fresh identifier (`client/src/utils/warehouseSubmission.ts`), sends it, and repeats it until it is
answered or discarded; the server (`boxes/warehouse-operation.service.ts`) inserts the identifier under its unique key in the
transaction that executes it, and answers a repetition from the row. Tabs share localStorage and the
session cookie, but each has its own access token, which is renewed with the cookie
(`client/src/services/api.ts` 51) and may then be another user's. The row is also compared with the tenant, the
kind and the hash of the request (41-42): the identifier is stored with the last two and sent with them, and all requests are of one tenant, so
`SameUser` keeps the user.

Client actions: `start`, `retry`, `discardPending`, `Reopen`, `Reload`, `login`, `logout`, `renew`; server: `Replay`,
`Validate`, `Insert`, `Commit`, `Fail`; between them `Deliver`, `Disconnect`, `ServerDies`. `CloseDestination` makes a
repetition invalid. Repetitions, reloads and lost answers are not bounded; logins are.

Abstract specification: `ExactlyOnce`, with the rows as `done` and the successes on their way as
`answers`. Properties: `ImplementsExactlyOnce` (refinement), `NotForgotten`, `RepeatAnswered`. What an execution does to the
boxes is in `Warehouse`.

## 8 Delivery queues

Status webhooks and reminder mails share a pattern: `processDue` lists the rows that are due,
`processOne` claims each with a lease, sends, writes the result. They differ where it
matters, and `DeliveryQueues` keeps the differences:

| | Webhook (`webhook.service.ts`) | Mail (`email-delivery.service.ts`) |
|---|---|---|
| lease counts from | the claim (137) | the read of the list (180) |
| subject re-read after the claim | no, endpoint as listed (144) | the loan yes (188), the user no |
| result is written | by id (149, 159) | only by the attempt that owns the row (203, 224) |
| gives up | at the fifth attempt | when the server rejects the mail |
| retry by hand | no | `retryFailed` (82) |

Actions: `ReadDue`, `Claim`, `CheckMail`, `Send`, `AnswerLost` (the answer was good and its write
fails, so the catch block reschedules), `ReportWebhook`, `ReportMail`, `retryFailed`, `Disable`,
`EndLoan`, `Tick`, `Crash`. Time is relative: `wait[d]` runs down to the moment a row is due, `age[w]`
counts from a server's read. `Server` is a process: the flag `running` keeps a process from
overlapping with itself, and two processes overlap at a restart because shutdown only
clears the timers. Rows do not interact, so a server handles one at a time.

`Trouble` counts what goes wrong (time that passes while a server works, crashes, mail
errors, lost answers) up to `MaxTrouble`. Without a bound no delivery would have to end: a mail
server that is always down postpones its mails for ever. Two properties are stated with a
history variable: `lost` counts the attempts whose answer was lost (lease over, or write failed).

Properties: `OnceUnlessLost` (a recipient has a message more than once only as often as an answer was lost),
`AttemptsBounded`, `NoLateMail`, `SentIsFinal`, `DeliveriesEnd`. A webhook recorded as delivered can
be put back to `pending` by a slower earlier attempt (its write is by id): the properties say
that this leads to no more attempts than answers lost, not that it cannot happen.

Fairness (`FairSpec`): weak fairness of the clock, of the timer of each server and of its work:
`setInterval` keeps firing, requests and SMTP sessions time out, and after a crash the process
is started again.

## 9 Billing

`Billing` is the bill of one tenant. A charge is built (`BuildCharge`, which reads the month and the price
list) and written later with the delivery or the receipt (`WriteCharge`); storage is generated per month
(`ReadStorage`, `WriteStorage`); an event is excluded or restored (`CheckExclude`, `CheckRestore`, `WriteStatus`); a price list goes
from draft to archived (`create`, `update`, `remove`, `activate`, which reprices what has no price); a month is closed with its minimum fee
(`CountPeriod`, `ClosePeriod`) and invoiced (`CountInvoice`, `ConfirmInvoice`). Each request may be lost between its two steps.

Only closing and invoicing lock the row of a month. Everything else checks `assertPeriodOpen` (109) on a read and writes
later, so it may write into a month that was closed in between. The history variable `late` marks these events: 1 when written
after the counts of the closing, 2 after those of the invoice, *and only by a request that had seen the month open*. A request that had
not seen it open has no such excuse.

Properties: `BillAsClosed` (without late events, a closed month adds up to the total announced, at least the
minimum), `BilledHasPrice` (the export of a closed month never meets an event without a price), `InvoicedWhole`, `RateKept`. Foreign
keys matter here: a rate with events cannot be deleted, an event cannot refer to a rate that is gone (`Referable`). Sums are
cardinalities (`NetOf` counts units), so that they can be proved about without induction.

Abstractions: a date is a month, an event is of one service with quantity 1, 0 is a missing price; the order items and boxes of a charge
are its unique key; VAT, currency and rounding are left out.

## 10 Transfer lists

`Transfers` has lists with their status, items, and the folder of each item, which repeats box, title, dates and notes. Requests
check that the list is a draft on a read outside the transaction; deletions of items and lists, and holds, are serializable
transactions, and an item is linked to a list by a foreign key. Actions, one pair each: `changeStatus`, `deleteList`, `updateItem`,
`BulkAssignBox`, `EditFolder` (of `folders/folder.service.ts`), `deleteItems`, an import row by row (`ImportRow`, `SkipRow`), `createFromReviewedScan`, and `SetHold`.

Properties: `Mirrored` (what `server/scripts/check-data-integrity.cjs` looks for in the data), `ImportedOnce`,
`DeletedListWasEmpty` (the table would cascade), `HeldKeepsItems`.

A status is changed without looking again, so a confirmed list may go back to draft, and items may be added to a
list that was confirmed meanwhile. No property contradicts this; see section 13.

## 11 Inventory

`Inventory` is one control of a shelf, from its snapshot to the settling of its discrepancies. Server
(`inventory/inventory.service.ts`): every operation locks the row of the session (`Lock`), looks, and writes (`Record`, `Void`, `Complete`, `Resolve`). Pages
(`client/src/pages/InventoryPage.tsx`): one call at a time; codes wait in `SerialScanQueue`, whose loop (`Enqueue`, `ProcessCode`, `Continue`,
`DrainEnds`) is modelled with its generation counter as the flag `stale`; a code whose call was lost is staged in the browser
(`useOfflineWarehouseScans.ts`) and sent again by `Sync`. A call may be lost before it
is done or after, or be done long after the page gave it up (`Forget`, `GiveUp`). The page may turn to another client and
back at any time (`SwitchTenant`), which closes the session on it, or be loaded anew (`Reload`); while it shows none, a step that looks at the client may
find either.

`syncInventoryScans` awaits the session before it acts on it, so the two are separate steps: `SyncLook` checks the
client (239) and keeps what the server answers in `latest`; `SyncTold` removes the code, sends it again or leaves it by that
answer (243-253), without another look at client or session. When the call that sends it is lost (`GiveUp`), the page is told a second
time (`again`, 259-264) and then removes the code or leaves it. In between another page may undo the scan, finish the control, or record the box.

Properties: `ScannedOnce`, `CompletedIsFinal`, `QueueAwake` (no code waits in a queue nobody looks at), `StagedUntilRecorded`. When a
staged code is removed, an undo may already have taken its box out of the session, so the last property does not say that the session *has*
the box: it says that it has *had* it since the code was staged. The history variable `had`, which `Remember` adds to
every step, holds these codes; no action reads it. The mutant takes a finished control for a recorded box.

## 12 The runs

| Run | Instance | Distinct states | Question |
|---|---|---|---|
| `orders_loan_closing` | one checkout, a box and a list position (untracked), 2 requests, every operation a checkout knows | 81 608 | returns once, last return closes, webhooks follow, refinement |
| `orders_loans` | two checkouts of one box, 2 requests, fair | 79 117 | box out exactly while on loan; every request is answered |
| `orders_settling` | a return order (box) and a disposal order (box, folder), reopen and deletion | 436 194 | settled is billed once, and only the billable |
| `orders_scan` | a scan order with two items, and one from before quotes existed | 36 160 | the client pays what was approved |
| `handling` | one order, 2 users, 2 requests, 2 SLA runs, a reminder run, a request for its return, 4 times, 1 lost run, fair | 467 449 | only open orders are assigned; messages once, none after the return; a severe delay is announced |
| `disposal` | 2 boxes, 2 contents (one movable), 3 client users, threshold 2, cooling-off 1 day, 3 days | 696 444 | four eyes, holds, cooling-off |
| `deliveries` | one row of either queue, 2 servers, 2 attempts, lease and delay 1, 3 troubles, fair | 158 884 | once unless lost, bounded, not late, final, ends |
| `warehouse` | 2 boxes, 2 locations, 2 requests | 840 114 | counters and custody agree with the boxes; receipts first |
| `submissions` | 2 operations, 2 users, 2 tabs, 2 HTTP requests, 2 results, 2 logins | 719 210 | exactly once (refinement), never forgotten, repetitions answered |
| `billing` | one month and the next, a charge, a box, 2 price lists, 2 requests, 2 invoice numbers | 425 798 | bill as announced, priced, invoiced whole, rates kept |
| `transfers` | 2 lists, 2 items, one box, 2 contents, 2 requests | 1 089 964 | items and folders agree, imports once, deletions and holds |
| `inventory` | 2 boxes (one expected and present), 2 pages (one scans, the other undoes and settles), 2 calls, 2 scans, 2 settlements | 1 427 759 | counted once, finished is final, no code left or lost |

Type invariants are proved (section 14) rather than model-checked (that of `OrderReminders` is `TimedTypes`, in
`OrdersProofs`; `OrderAssignment` states none); so are the inductive invariants and the properties `DisposalIsFinal` and `InvoiceKept`.

Why the bounds are enough. Two requests suffice for every race of a read against a write, as
no handler waits for two others; a third would only repeat the second, and the proofs cover any number. Two items
distinguish "the last" from "not the last" item out; one box shared by two orders gives every conflict
on a box; counters saturate at 2, one more than allowed. In `disposal`, three users are the
smallest set in which proposer, first and second approver can all differ; threshold 2 with two boxes
has batches below and at it and subsets of a proposal (the code has 10 and 7 days,
`shared/src/constants/retention.ts` 2-3); three days have a time before, at and after the end
of a period and a restarted one. In `deliveries`, three troubles allow a lease to run out under one
server, another to die, and one late report. In `handling`, the clock passes warning, deadline and severe delay, and a loan becomes
due and overdue; orders are submitted at time 0 only (`LastSubmission`) and handled before the clock moves, which bounds the
schedules, not the races of the timers. In `billing`, terms without a rate and with rate 1 and fee 2 give unpriced events, a bill under the
minimum and one without a list; a second month to bill would share only the price lists. In `inventory`, two scans are one to void and one to repeat, a box is expected and another not.
A scan is undone from the page that does not scan: a page makes one call at a time, so what its own undo can do to it, also when it gave
the call up, the undo of the other page can do at the same moment, whose steps fall between any two of its own.
In `submissions`, two logins are a change of user in one browser.

Symmetry is used for workers, users, locations, operations and the like, in runs that check no liveness
property. Deadlock is checked in the runs on loans, on scans and on deliveries; the others may stop: all orders or boxes have reached
an end and nobody calls again, or a bound is reached.

Each property of a run has a mutant: a plausible bug in the code under which TLC finds
it violated under the same configuration.

## 13 What the properties leave out

Places where the code allows more than one may expect. The modules have these behaviours; the properties are
stated so that they hold with them.

* **Orders.** `markReady` checks picking on one read and the transition on another, and `addItem` inserts (751) without looking at the
  status again: a checkout can be ready with an item nobody picked, and a delivered scan order can get an unquoted item.
  An order that is partly returned, reopened and delivered again marks the box that came back as handed out (1027).
  A quick start overwrites the handler assigned between its read and its transaction (176). Orders write the status of their box
  without a condition, so that a destroyed box can be `checked_out` or `active` again (1027, 1144).
* **Deadlines.** An order that is submitted again keeps its escalation rows, so its levels are not announced
  again (hence `LastSubmission`). One unexpected error ends an SLA run; an order that fails every time keeps those behind it in the list from
  being handled, which is why `EscalationArrives` bounds the runs lost.
* **Delivery queues.** A recipient disabled after the list was read is contacted once more (`integrations/webhook.service.ts` 118, 144).
* **Warehouse.** The counters are wrong where `skewed` says, the location where `overwritten` says (section 6).
* **Billing.** A month may get events after it was closed (`late`), which then are on no invoice, or make `confirmInvoice` refuse.
* **Transfer lists.** An archived list can return to draft, and rows can be added to a list that was confirmed meanwhile (`changeStatus`
  reads outside its transaction and writes unconditionally). Two boxes can be created for one source box number, and ordinals repeat, in a race.
* **Inventory.** A code whose call fails while the page shows another client is neither recorded nor staged (`InventoryPage.tsx` 219);
  `syncInventoryScans` shows a session it read although the user has turned to another client, or it has changed since (242-262), and
  removes a staged code whose scan was undone between that read and the removal (245, 263): the undo wins, as over any scan.

## 14 The proofs

All theorems hold for every value of the constants that satisfies the `ASSUME` of the
module; TLC evaluates the assumptions in every instance. Each module of theorems proves the type invariant of its component first.

**Orders** (`OrdersProofs`). `TypeCorrect`: in particular a request record is one its handler can hold.
`WorkflowInvariant`: `ReturnRecordedOnce` is not inductive, since a request
between its read and its write carries an obligation. `WorkflowInv` says for each kind of request under
way that what it has still to write agrees with the rows: an insert is of a fresh row, a status
change is legal from what was read, a return between lock and commit owns the order's lock,
its item is still out, and its count of the items out is right. The step is proved
action by action; most actions change no row another request depends on
(`OthersKeepInv`, `ReadKeepsInv`, `OrderTxKeepsInv`). From it: `ReturnsRecordedOnce`, `WebhooksFollow`
(the action property), and `LedgerImplemented` (initial states map to initial states, every
step to a step of the ledger or a stutter).

Three more invariants rest on it. `ScanInv` follows the quote: each one under way or stored counts files that are there, a delivery
of a scan order has read an approved one, which is still the same when it bills. That gives `ScansBilledAsQuoted` and
`ApprovedQuotesBacked` for every workload. `RowsInv` (a delivery on its way has read all rows of its order, and no row is open afterwards)
and `BillingInv` (billed at most once, and only the billable) give `SettledBilled`; `BoxesInv` (a return that holds its box still knows
whether another loan of the box is out) gives `BoxesOutIffOnLoan`. These two have a hypothesis on the operations that users call, each
of which the code makes necessary:

* `NoLateInsert`: nobody calls `addItem`, whose insert (751) does not look at the status again, so that
  its row can arrive after the delivery has read its items and be delivered unbilled.
* `OnlyLoansMoveBoxes`: nobody adds an item (a late one is delivered while its box is not marked), sets a box's status by hand, returns a box by an
  order of its own, reopens or deletes an order with a loan out (the count of 1131 no longer sees the loan, and its box stays out).

**Assignment, deadlines and reminders** (end of `OrdersProofs`, on `TimedSpec`). `TimedInv`: a run that is about to
remind or to ask holds the row of the order, and what it read under the lock is still true (`TimedHolds`), because returns wait for that lock; the level of an
escalation is announced by the transaction whose row the unique key accepts. From it `EscalationsAnnouncedOnce`, `RemindersStopAtReturn`,
`RequestsAskedApart`. `AssignInv` (who is about to write an assignment had seen the order open) gives `OpenOrdersAssigned`; the write
compares the status with the one seen.

**Disposal** (`DisposalProofs`). `DisposalTypeCorrect`; `DisposalInvariant` (per box: a new proposal carries
no old decision, the batch size is remembered, approvals are by different people), split
in boxes of the batch and boxes that are untouched; `DecidedBeforeDisposal`; `HeldStaysOut`; and the action properties
`HeldIsNotDestroyed`, `CoolingOffKept`, `DisposalStaysFinal`, all from the fact that only the completion
destroys.

**Delivery queues** (`DeliveryQueuesProofs`). `QueuesTypeCorrect`; `JobInv` says what a server remembers of its
row: a listed row was pending or sending, an attempt that may send began while the loan was
open. From it `NoMailAfterReturn`, and `SentMailIsFinal`: a claim needs the status it listed,
a report needs the row to be sending, and a retry needs it to be failed.

`AcceptedOnceUnlessLost` and `WebhookAttemptsBounded` are potential arguments. `OnceInv` adds up, per row, the messages accepted, the servers whose attempt
may yet be accepted (`Busy`) and whether the row waits for another (`Again`): one acceptance is free, and the sum exceeds 1 by the answers
lost at most, since an attempt that reports a failure hands its place to the next. `BoundInv` says the same of the
attempts of a webhook beyond the fifth, which only an attempt that was taken over can cause; it needs `CountsRight`, that a server still finding its
row due adds 1 to the attempts stored now, although it read them with the list: whoever wrote the row since made it due later.

**Warehouse** (`WarehouseProofs`). `CountersAgree` is inductive with the types (`CountInv`), but each action changes the set of boxes at
several locations: the proof names the boxes that come to a location and those that leave it, and the cardinalities of the unions
and differences (`CountMore`, from the `FS_` facts of the library) are what the action adds or takes. `CustodyTrue` by `CustodyInv`: a box whose custody has begun is in a place
until it leaves for good. `ReceiptsFirst` follows from it and from what `Receivable` checks in the transaction.

**Repeated operations** (`SubmissionsProofs`). `Executions` says of each request how far its operation can be: one that executes finds no row
and is alone, an answer carries the row, a repetition gets no further than the look at the row. From it the refinement `OperationsExecutedOnce`,
`RepetitionsAnswered`, and `NothingForgotten`, in which a page clears the submission it has an answer for and no other.

**Billing** (`BillingProofs`). `BillsArePriced` by `PriceInv`: a request to restore an event with a price still finds one, and prices once given
stay. `RatesStay` by `RateInv`, from the lemma `ListStep`: a rate changes as its list is created, or when no event was priced with it. `InvoiceTakesAll` by
`InvoiceInv`: a month is closed by one request and before it is invoiced; who writes to a month had seen it open; and
an invoice under way leaves nothing without a price but what was written after its counts. Its step sorts what can happen to an event into five cases
(lemma `Fates`: unchanged, late, early, marks counted anew, taken by an invoice) and says who closes and who invoices a month (`MonthStep`). `InvoicesStay`.
`BillStaysAsClosed` by `BillInv`, over sums: while no event of the month is late, what is on the bill adds up to the total announced, and during the closing to the total
its request has read. From the moment it has read it, an event of the month that changes is late (`Accounted`), but for the
difference to the minimum fee, which `closePeriod` alone writes, together with the total (`BillCloses`).

**Transfer lists** (`TransfersProofs`). `ItemsMirrored` needs that the folders a box assignment has found are those of
the items it will write (`FoldersOfItems`); `ScanImportedOnce` by `ImportInv` (a scan was imported into lists that exist or existed); `EmptyListsDeleted`, `HeldItemsStay`.

**Inventory** (`InventoryProofs`). `RowLocked`: one call holds the row, and what it read is still true (`LockInv`). From it
`BoxesCountedOnce` and `FinishedStays`; `QueueNeverSleeps` needs no lock, only the order in which the loop looks and ends. `StagedKept` rests on
`SyncInv` (`PagesToldTruly`), as the page acts on an answer that may be out of date: each page waits for a call of its own that was not forgotten
(`CallsApart`); no code is staged while the staged ones are sent (`QueueRests`), or an answer from before would remove it; and what
the page was told (`ToldHad`) or its call has done (`SentHad`) the session has had.

**Model-checked only.** `RequestsEnd`, `DeliveriesEnd` and `EscalationArrives`: liveness under fairness is out of the prover's reach. Every other
property of a run is a theorem, and the runs show that their hypotheses are met by executions in which the interesting cases happen.

## 15 What is not modelled

* The monthly alert on SLA targets (`reports/sla-target-alert.service.ts`), and who receives a message.
* The location tree and its administration, box numbers, QR codes; creation and renumbering of folders, documents.
* `auth/`: rotation of refresh tokens (the revocation at `auth.service.ts` 180 is unconditional, so a token used twice at the same moment gives
  two), recovery codes, second factor; `Submissions` has only whose session a browser holds.
* Attachments and scan batches in object storage; the photo limit at `orders/order-handover-photo.service.ts` 53 is counted before the row is created.
* Share links; users, tenants, HR, integrations: single statements on rows without a protocol between them.
* Search, reports, labels, audit (they read, or append, in no order that matters); import and export parsing; the pages of the client
  that read and call once; scripts, migrations, deployment; wording, numbering and layout of documents; manual custody events; the administration of retention policies.

Next, in this order: object storage (a row and its object in two stores, with crashes between), refresh tokens, share links. Of the proofs, `SettledBilled` and
`BoxesOutIffOnLoan` could be stated per order or per box, so that one operation outside their hypotheses spoils only what it touches.
