--------------------------------- MODULE Billing --------------------------------
(***************************************************************************)
(* The monthly bill of one tenant (pricing/billing.service.ts,             *)
(* billing-invoice.service.ts, pricing.service.ts).  Charges are written   *)
(* while the month is open, unpriced when no price list has a rate; the    *)
(* storage of the boxes is charged once the month is chosen; the month is  *)
(* closed, then assigned to an invoice.                                    *)
(*                                                                         *)
(* Only the closing and the invoicing of a month lock its row: a charge, an *)
(* exclusion or a restoration reads the month, and writes later, so it may *)
(* write into a month that was closed in between.  `late` remembers those  *)
(* writes, and the properties say what holds of everything else.           *)
(*                                                                         *)
(* A date is a month, prices are small numbers, all charges are of one     *)
(* service, and 0 stands for a missing price, rate or minimum fee.         *)
(***************************************************************************)
EXTENDS Integers, FiniteSets

CONSTANTS
  Charge,    \* sources of a single charge: an order item delivered, a box taken in
  Box,       \* boxes in billable storage
  List,      \* price lists
  Current,   \* the list that may be active from the start; bound: the others are new
  User,      \* requests that run at the same time
  LastMonth, \* bound: the last month that is billed; the next one only passes
  Number,    \* invoice numbers
  Terms,     \* the rate and the minimum monthly fee a price list may have, 0: none
  None       \* no invoice, no price list

Month == 1 .. LastMonth
Date == 1 .. LastMonth + 1

\* The unique key of an event: its source, and for storage the month as well.
Minimum == "minimum"
Event == Charge \cup (Box \X Month) \cup ({Minimum} \X Month)

ASSUME BillingAssumption ==
  /\ LastMonth \in Nat \ {0}
  /\ Terms \subseteq [rate : Nat, fee : Nat]
  /\ None \notin Number /\ None \notin List /\ Current \in List
  /\ IsFiniteSet(Charge) /\ IsFiniteSet(Box)
  /\ Minimum \notin Box /\ Charge \cap ((Box \cup {Minimum}) \X Month) = {}

VARIABLES
  now,        \* the current month
  event,      \* billing events, absent until they are written
  list,       \* price lists
  period,     \* billing periods: generated, closed, and the invoice
  job,        \* what each request has read
  late,       \* 1 (2): written after its month was counted (invoiced) by a request
              \* that had seen the month open
  announced   \* the answer of closePeriod: the total, and the minimum fee it used

vars == <<now, event, list, period, job, late, announced>>

Idle == [pc |-> "idle"]
NoEvent == [status |-> "absent", month |-> 0, net |-> 0, list |-> None]
Forever == LastMonth + 2
NoList == [status |-> "absent", from |-> 0, to |-> 0, rate |-> 0, fee |-> 0]
NewList(status, from, t) ==
  [status |-> status, from |-> from, to |-> Forever, rate |-> t.rate, fee |-> t.fee]

Init ==
  /\ now = 1
  /\ event = [e \in Event |-> NoEvent]
  /\ \E t \in Terms : list \in {[l \in List |-> NoList],
                              [l \in List |-> IF l = Current THEN NewList("active", 1, t) ELSE NoList]}
  /\ period = [m \in Month |-> [generated |-> FALSE, closed |-> FALSE, invoice |-> None]]
  /\ job = [u \in User |-> Idle]
  /\ late = [e \in Event |-> 0]
  /\ announced = [m \in Month |-> [total |-> 0, fee |-> 0]]

Begin(u, j) == job[u] = Idle /\ job' = [job EXCEPT ![u] = j]
End(u) == job' = [job EXCEPT ![u] = Idle]

Of(m, statuses) == {e \in Event : event[e].month = m /\ event[e].status \in statuses}
\* A sum, as the number of the units it counts.
NetOf(S) == Cardinality(UNION {{e} \X (1 .. event[e].net) : e \in S})

\* closePeriod holds the row of its month from its update to its commit.
Closing(m) == \E u \in User : job[u].pc = "close" /\ job[u].month = m
Invoicing(m) == \E u \in User : job[u].pc = "invoice" /\ job[u].month = m
Stage(m) == IF period[m].invoice # None \/ Invoicing(m) THEN 2
            ELSE IF period[m].closed \/ Closing(m) THEN 1 ELSE 0

\* sawOpen: whether the request had found the month open.
Mark(S, m, sawOpen) ==
  late' = [e \in Event |-> IF e \in S /\ sawOpen /\ Stage(m) > 0 THEN Stage(m) ELSE late[e]]

-------------------------------------------------------------------------------
(* Price lists *)

\* The list that prices a date is the latest one that covers it.
Covers(l, m) ==
  list[l].status \in {"active", "archived"} /\ list[l].from <= m /\ m <= list[l].to
findPriceList(m) ==
  LET covering == {l \in List : Covers(l, m)} IN
  IF covering = {} THEN {None}
  ELSE {l \in covering : \A k \in covering : list[k].from <= list[l].from}

RateOf(l) == IF l = None THEN 0 ELSE list[l].rate
FeeOf(l) == IF l = None THEN 0 ELSE list[l].fee

\* A new event: without a rate it has no price.
Priced(m, l) == [status |-> IF RateOf(l) = 0 THEN "unpriced" ELSE "pending",
                 month |-> m, net |-> RateOf(l), list |-> l]

\* The foreign keys of an event: its list, and the rate of the list, exist as it is written.
Referable(row) ==
  row.list # None => list[row.list].status # "absent" /\ row.net \in {0, list[row.list].rate}

create(l, from, t) ==
  /\ list[l].status = "absent" /\ l # Current
  /\ list' = [list EXCEPT ![l] = NewList("draft", from, t)]
  /\ UNCHANGED <<now, event, period, job, late, announced>>

\* update, remove and activate check that the list is a draft before they write.
CheckDraft(u, l, pc) ==
  /\ list[l].status = "draft"
  /\ Begin(u, [pc |-> pc, list |-> l, from |-> list[l].from])
  /\ UNCHANGED <<now, event, list, period, late, announced>>

\* The rate of a list an event was priced with, or the list of any event, cannot be deleted.
Unprotected(l) == TRUE
UnreferencedRate(l) == ~ \E e \in Charge \cup (Box \X Month) : event[e].list = l /\ event[e].net # 0

update(u, from, t) ==
  LET l == job[u].list IN
  /\ job[u].pc = "update"
  /\ list' = IF list[l].status # "absent" /\ UnreferencedRate(l)
               THEN [list EXCEPT ![l] = [@ EXCEPT !.from = from, !.rate = t.rate, !.fee = t.fee]]
               ELSE list
  /\ End(u)
  /\ UNCHANGED <<now, event, period, late, announced>>

remove(u) ==
  LET l == job[u].list IN
  /\ job[u].pc = "remove"
  /\ list' = IF \E e \in Event : event[e].list = l THEN list ELSE [list EXCEPT ![l] = NoList]
  /\ End(u)
  /\ UNCHANGED <<now, event, period, late, announced>>

\* activate: a list whose time has come, and later than the current one.
CheckActivate(u, l) ==
  /\ list[l].from <= now
  /\ \A k \in List : list[k].status = "active" => list[k].from < list[l].from
  /\ CheckDraft(u, l, "activate")

\* repriceUnpricedForPriceList: what has no price gets one, if its month is not closed.
Repriceable(l) ==
  {e \in Event : /\ event[e].status = "unpriced" \/ (event[e].status = "excluded" /\ event[e].net = 0)
                 /\ list[l].from <= event[e].month
                 /\ ~ period[event[e].month].closed}
Repriced(e, l) ==
  [event[e] EXCEPT !.net = list[l].rate, !.list = l,
                   !.status = IF @ = "unpriced" THEN "pending" ELSE @]

activate(u) ==
  LET l == job[u].list
      S == IF list[l].rate = 0 THEN {} ELSE Repriceable(l)
  IN
  /\ job[u].pc = "activate"
  /\ IF list[l].status = "absent" THEN UNCHANGED <<list, event, late>>
     ELSE /\ list' = [k \in List |->
                        IF k = l THEN [list[k] EXCEPT !.status = "active", !.to = Forever]
                        ELSE IF list[k].status = "active"
                               THEN [list[k] EXCEPT !.status = "archived", !.to = job[u].from - 1]
                        ELSE list[k]]
          /\ event' = [e \in Event |-> IF e \in S THEN Repriced(e, l) ELSE event[e]]
          /\ late' = [e \in Event |-> IF e \in S /\ Closing(event[e].month) THEN 1 ELSE late[e]]
  /\ End(u)
  /\ UNCHANGED <<now, period, announced>>

-------------------------------------------------------------------------------
(* Charges *)

\* assertPeriodOpen.
AnyPeriod(m) == TRUE
PeriodOpen(m) == ~ period[m].closed

\* buildOrderDeliveryEvents, buildBoxIntakeEvents; the event is written with the rest
\* of the delivery, or of the intake.
BuildCharge(u, c, l) ==
  /\ event[c].status = "absent" /\ now \in Month
  /\ PeriodOpen(now)
  /\ l \in findPriceList(now)
  /\ Begin(u, [pc |-> "charge", event |-> c, row |-> Priced(now, l), sawOpen |-> ~ period[now].closed])
  /\ UNCHANGED <<now, event, list, period, late, announced>>

WriteCharge(u) ==
  LET j == job[u] IN
  /\ j.pc = "charge"
  /\ IF event[j.event].status = "absent" /\ Referable(j.row)
       THEN /\ event' = [event EXCEPT ![j.event] = j.row]
            /\ Mark({j.event}, j.row.month, j.sawOpen)
       ELSE UNCHANGED <<event, late>>
  /\ End(u)
  /\ UNCHANGED <<now, list, period, announced>>

\* generateMonthlyStorage; the boxes B were in billable storage in month m.
ReadStorage(u, m, B, l) ==
  /\ m <= now
  /\ PeriodOpen(m)
  /\ l \in findPriceList(m)
  /\ Begin(u, [pc |-> "storage", month |-> m, boxes |-> B, row |-> Priced(m, l),
               sawOpen |-> ~ period[m].closed])
  /\ UNCHANGED <<now, event, list, period, late, announced>>

\* The upsert of the month's row waits while closePeriod holds it.
WriteStorage(u) ==
  LET j == job[u]
      new == {e \in j.boxes \X {j.month} : event[e].status = "absent"}
  IN
  /\ j.pc = "storage"
  /\ ~ Closing(j.month) /\ (j.boxes # {} => Referable(j.row))
  /\ event' = [e \in Event |-> IF e \in new THEN j.row ELSE event[e]]
  /\ period' = [period EXCEPT ![j.month].generated = TRUE]
  /\ Mark(new, j.month, j.sawOpen)
  /\ End(u)
  /\ UNCHANGED <<now, list, announced>>

-------------------------------------------------------------------------------
(* exclude and restore: read the event and its month, check, and update by id *)

CheckExclude(u, e) ==
  /\ event[e].status \notin {"absent", "invoiced"}
  /\ PeriodOpen(event[e].month)
  /\ Begin(u, [pc |-> "exclude", event |-> e, sawOpen |-> ~ period[event[e].month].closed])
  /\ UNCHANGED <<now, event, list, period, late, announced>>

CheckRestore(u, e) ==
  /\ event[e].status = "excluded"
  /\ PeriodOpen(event[e].month)
  /\ Begin(u, [pc |-> "restore", event |-> e, sawOpen |-> ~ period[event[e].month].closed,
               priced |-> event[e].net # 0])
  /\ UNCHANGED <<now, event, list, period, late, announced>>

\* A restored event is unpriced when it had no price as it was read.
RestoredPending(j) == "pending"
Restored(j) == IF j.priced THEN "pending" ELSE "unpriced"

WriteStatus(u) ==
  LET j == job[u] IN
  /\ j.pc \in {"exclude", "restore"}
  /\ event' = [event EXCEPT ![j.event].status = IF j.pc = "exclude" THEN "excluded" ELSE Restored(j)]
  /\ Mark({j.event}, event[j.event].month, j.sawOpen)
  /\ End(u)
  /\ UNCHANGED <<now, list, period, announced>>

-------------------------------------------------------------------------------
(* Closing and invoicing *)

NoUnpriced(m) == Of(m, {"unpriced"}) = {}

\* closePeriod up to its sums; its commit comes later.
CountPeriod(u, m, l) ==
  /\ m < now
  /\ period[m].generated /\ ~ period[m].closed /\ ~ Closing(m)
  /\ NoUnpriced(m)
  /\ l \in findPriceList(m)
  /\ Begin(u, [pc |-> "close", month |-> m, total |-> NetOf(Of(m, {"pending"})),
               fee |-> FeeOf(l), list |-> l])
  /\ late' = [e \in Event |-> IF event[e].month = m THEN 0 ELSE late[e]]
  /\ UNCHANGED <<now, event, list, period, announced>>

\* The difference to the minimum fee is an event of its own.
Shortfall(j) == IF j.fee > j.total THEN j.fee - j.total ELSE 0

ClosePeriod(u) ==
  LET j == job[u] IN
  /\ j.pc = "close"
  /\ j.list # None => list[j.list].status # "absent"
  /\ period' = [period EXCEPT ![j.month].closed = TRUE]
  /\ event' = IF Shortfall(j) = 0 THEN event
              ELSE [event EXCEPT ![<<Minimum, j.month>>] =
                      [status |-> "pending", month |-> j.month, net |-> Shortfall(j), list |-> j.list]]
  /\ announced' = [announced EXCEPT ![j.month] = [total |-> j.total + Shortfall(j), fee |-> j.fee]]
  /\ End(u)
  /\ UNCHANGED <<now, list, late>>

\* confirmInvoice up to its counts.
CountInvoice(u, m, n) ==
  /\ period[m].closed /\ period[m].invoice = None
  /\ NoUnpriced(m) /\ Of(m, {"invoiced"}) = {} /\ Of(m, {"pending"}) # {}
  /\ Begin(u, [pc |-> "invoice", month |-> m, number |-> n, count |-> Cardinality(Of(m, {"pending"}))])
  /\ late' = [e \in Event |-> IF event[e].month = m /\ late[e] = 2 THEN 1 ELSE late[e]]
  /\ UNCHANGED <<now, event, list, period, announced>>

\* It takes the month if it has no invoice yet, and its events if they are as many as counted.
AsRead(j) ==
  period[j.month].invoice = None /\ Cardinality(Of(j.month, {"pending"})) = j.count

ConfirmInvoice(u) ==
  LET j == job[u] IN
  /\ j.pc = "invoice"
  /\ IF AsRead(j)
       THEN /\ period' = [period EXCEPT ![j.month].invoice = j.number]
            /\ event' = [e \in Event |-> IF e \in Of(j.month, {"pending"})
                                           THEN [event[e] EXCEPT !.status = "invoiced"] ELSE event[e]]
       ELSE UNCHANGED <<period, event>>
  /\ End(u)
  /\ UNCHANGED <<now, list, late, announced>>

-------------------------------------------------------------------------------

NextMonth == now + 1 \in Date /\ now' = now + 1 /\ UNCHANGED <<event, list, period, job, late, announced>>

\* The request is lost: the server stops, or the database rolls it back.
Abandon(u) == job[u] # Idle /\ End(u) /\ UNCHANGED <<now, event, list, period, late, announced>>

Pricing(u) ==
  \/ \E l \in List : CheckDraft(u, l, "update") \/ CheckDraft(u, l, "remove") \/ CheckActivate(u, l)
  \/ \E from \in Date, t \in Terms : update(u, from, t)
  \/ remove(u) \/ activate(u)

Charging(u) ==
  \/ \E l \in List \cup {None} :
       \/ \E c \in Charge : BuildCharge(u, c, l)
       \/ \E m \in Month, B \in SUBSET Box : ReadStorage(u, m, B, l)
  \/ \E e \in Event : CheckExclude(u, e) \/ CheckRestore(u, e)
  \/ WriteCharge(u) \/ WriteStorage(u) \/ WriteStatus(u)

Billed(u) ==
  \/ \E m \in Month, l \in List \cup {None} : CountPeriod(u, m, l)
  \/ \E m \in Month, n \in Number : CountInvoice(u, m, n)
  \/ ClosePeriod(u) \/ ConfirmInvoice(u)

Next ==
  \/ NextMonth
  \/ \E l \in List, from \in Date, t \in Terms : create(l, from, t)
  \/ \E u \in User : Pricing(u) \/ Charging(u) \/ Billed(u) \/ Abandon(u)

Spec == Init /\ [][Next]_vars

-------------------------------------------------------------------------------

Row == [status : {"absent", "unpriced", "pending", "excluded", "invoiced"},
        month : Month \cup {0}, net : Nat, list : List \cup {None}]
PriceList == [status : {"absent", "draft", "active", "archived"},
              from : Int, to : Int, rate : Nat, fee : Nat]

\* What a request has read, by what it is about to do.
Job ==
  [pc : {"idle"}]
    \cup [pc : {"update", "remove", "activate"}, list : List, from : Int]
    \cup [pc : {"charge"}, event : Charge, row : Row, sawOpen : BOOLEAN]
    \cup [pc : {"storage"}, month : Month, boxes : SUBSET Box, row : Row, sawOpen : BOOLEAN]
    \cup [pc : {"exclude"}, event : Event, sawOpen : BOOLEAN]
    \cup [pc : {"restore"}, event : Event, sawOpen : BOOLEAN, priced : BOOLEAN]
    \cup [pc : {"close"}, month : Month, total : Nat, fee : Nat, list : List \cup {None}]
    \cup [pc : {"invoice"}, month : Month, number : Number, count : Nat]

TypeOK ==
  /\ now \in Date
  /\ event \in [Event -> Row]
  /\ list \in [List -> PriceList]
  /\ period \in [Month -> [generated : BOOLEAN, closed : BOOLEAN, invoice : Number \cup {None}]]
  /\ job \in [User -> Job]
  /\ late \in [Event -> {0, 1, 2}]
  /\ announced \in [Month -> [total : Nat, fee : Nat]]

\* What is on a bill has a price: the export of a closed month, which refuses events
\* without one, never meets any, although a restoration, a change of rates and an
\* exclusion of the same event may overlap.
BilledHasPrice ==
  \A e \in Event : event[e].status \in {"pending", "invoiced"} => event[e].net > 0

\* The bill of a closed month is the total announced when it was closed, at least the
\* minimum fee, unless a request that had seen it open wrote to it since.
BillAsClosed ==
  \A m \in Month :
    period[m].closed /\ (\A e \in Event : event[e].month = m => late[e] = 0) =>
      /\ NetOf(Of(m, {"pending", "invoiced"})) = announced[m].total
      /\ announced[m].total >= announced[m].fee

\* An invoice takes the whole month: what is neither excluded nor invoiced was written
\* after it, and nothing is invoiced without an invoice.
InvoicedWhole ==
  \A e \in Event : LET m == event[e].month IN
    /\ event[e].status \in {"unpriced", "pending"} /\ period[m].invoice # None => late[e] = 2
    /\ event[e].status = "invoiced" => period[m].invoice # None

\* An event keeps the rate it was priced with: a price list that was activated while a
\* request was about to edit or delete the draft is not changed behind its events.
RateKept ==
  \A e \in Charge \cup (Box \X Month) :
    event[e].net # 0 => event[e].list # None /\ event[e].net = list[event[e].list].rate

\* A month that has an invoice number keeps it, whoever confirms another one meanwhile.
InvoiceKept ==
  [][\A m \in Month : period[m].invoice # None => period'[m].invoice = period[m].invoice]_vars
===============================================================================
