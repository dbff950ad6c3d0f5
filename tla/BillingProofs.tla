----------------------------- MODULE BillingProofs ------------------------------
(***************************************************************************)
(* Proofs about Billing, for any price lists, charges, boxes, months and   *)
(* concurrent requests.                                                    *)
(***************************************************************************)
EXTENDS Billing, FiniteSetTheorems, TLAPS

USE BillingAssumption

LEMMA Events ==
  /\ Month \subseteq Nat /\ Date \subseteq Nat /\ 0 \notin Month /\ Month \subseteq Date
  /\ Charge \subseteq Event
  /\ \A B \in SUBSET Box, m \in Month : B \X {m} \subseteq Event /\ <<Minimum, m>> \in Event
  /\ \A m \in Month : <<Minimum, m>> \notin Charge \cup (Box \X Month)
  BY DEF Month, Date, Event

(* There are finitely many events, and so a bill is a number. *)
LEMMA FiniteEvents == IsFiniteSet(Event)
<1>1. IsFiniteSet(Month)
  BY FS_Interval DEF Month
<1>2. IsFiniteSet(Box \X Month) /\ IsFiniteSet({Minimum} \X Month)
  BY <1>1, FS_Product, FS_Singleton
<1> QED BY <1>2, FS_Union DEF Event

(* The units a bill counts. *)
Units(e) == {e} \X (1 .. event[e].net)

LEMMA NetIsNat ==
  ASSUME TypeOK, NEW S \in SUBSET Event
  PROVE  IsFiniteSet(UNION {Units(e) : e \in S}) /\ NetOf(S) \in Nat
<1> DEFINE Family == {Units(e) : e \in S}
<1>1. \A e \in S : event[e].net \in Nat
  BY DEF TypeOK, Row
<1>2. \A e \in S : IsFiniteSet(Units(e))
  <2> TAKE e \in S
  <2>1. event[e].net \in Int
    BY <1>1
  <2>2. IsFiniteSet(1 .. event[e].net)
    BY <2>1, FS_Interval
  <2>3. IsFiniteSet({e})
    BY FS_Singleton
  <2> QED BY <2>2, <2>3, FS_Product DEF Units
<1>3. IsFiniteSet(S)
  BY FiniteEvents, FS_Subset
<1>4. IsFiniteSet(Family)
  <2>1. [e \in S |-> Units(e)] \in Surjection(S, Family)
    BY DEF Surjection
  <2> QED BY <1>3, <2>1, FS_Surjection
<1>5. IsFiniteSet(UNION Family)
  <2>1. \A U \in Family : IsFiniteSet(U)
    BY <1>2
  <2> HIDE DEF Family
  <2> QED BY <1>4, <2>1, FS_UNION
<1> QED BY <1>5, FS_CardinalityType DEF NetOf, Units

-------------------------------------------------------------------------------
(* Records *)

LEMMA JobFields ==
  ASSUME NEW j \in Job
  PROVE  /\ j.pc \in {"update", "remove", "activate"} => j.list \in List /\ j.from \in Int
         /\ j.pc \in {"charge", "storage"} => j.row \in Row
         /\ j.pc = "charge" => j.event \in Charge
         /\ j.pc \in {"storage", "close", "invoice"} => j.month \in Month
         /\ j.pc = "storage" => j.boxes \in SUBSET Box
         /\ j.pc \in {"charge", "storage", "exclude", "restore"} => j.sawOpen \in BOOLEAN
         /\ j.pc \in {"exclude", "restore"} => j.event \in Event
         /\ j.pc = "restore" => j.priced \in BOOLEAN
         /\ j.pc = "close" => j.total \in Nat /\ j.fee \in Nat /\ j.list \in List \cup {None}
         /\ j.pc = "invoice" => j.number \in Number
  BY DEF Job

LEMMA RowFields ==
  ASSUME NEW r \in Row
  PROVE  /\ r.status \in {"absent", "unpriced", "pending", "excluded", "invoiced"}
         /\ r.month \in Month \cup {0} /\ r.net \in Nat /\ r.list \in List \cup {None}
  BY DEF Row

LEMMA RowStatus ==
  ASSUME NEW r \in Row, NEW s \in {"unpriced", "pending", "excluded", "invoiced"}
  PROVE  LET p == [r EXCEPT !.status = s] IN
         p \in Row /\ p.status = s /\ p.month = r.month /\ p.net = r.net /\ p.list = r.list
  BY DEF Row

LEMMA ListFields ==
  ASSUME NEW p \in PriceList
  PROVE  /\ p.status \in {"absent", "draft", "active", "archived"}
         /\ p.from \in Int /\ p.to \in Int /\ p.rate \in Nat /\ p.fee \in Nat
  BY DEF PriceList

LEMMA ListActive ==
  ASSUME NEW p \in PriceList, NEW s \in {"active", "archived"}, NEW to \in Int
  PROVE  LET q == [p EXCEPT !.status = s, !.to = to] IN
         q \in PriceList /\ q.status = s /\ q.rate = p.rate
  BY DEF PriceList

LEMMA ListTerms ==
  ASSUME NEW p \in PriceList, NEW from \in Int, NEW t \in Terms
  PROVE  LET q == [p EXCEPT !.from = from, !.rate = t.rate, !.fee = t.fee] IN
         q \in PriceList /\ q.status = p.status
<1>1. t.rate \in Nat /\ t.fee \in Nat
  OBVIOUS
<1> QED BY <1>1 DEF PriceList

LEMMA NewListType ==
  ASSUME NEW s \in {"draft", "active"}, NEW from \in Int, NEW t \in Terms
  PROVE  NewList(s, from, t) \in PriceList /\ NewList(s, from, t).status = s
<1>1. t.rate \in Nat /\ t.fee \in Nat /\ Forever \in Int
  BY DEF Forever
<1> QED BY <1>1 DEF NewList, PriceList

(* A price that a list gives. *)
LEMMA PricedType ==
  ASSUME TypeOK, NEW m \in Month, NEW l \in List \cup {None}
  PROVE  /\ Priced(m, l) \in Row /\ Priced(m, l).month = m /\ Priced(m, l).list = l
         /\ Priced(m, l).status \in {"unpriced", "pending"}
         /\ Priced(m, l).status = "pending" <=> Priced(m, l).net # 0
         /\ l = None => Priced(m, l).net = 0
         /\ l # None => Priced(m, l).net = list[l].rate
         /\ FeeOf(l) \in Nat
<1>1. RateOf(l) \in Nat /\ FeeOf(l) \in Nat
  BY ListFields DEF RateOf, FeeOf, TypeOK
<1>2. (l = None => RateOf(l) = 0) /\ (l # None => RateOf(l) = list[l].rate)
  BY DEF RateOf
<1> QED BY <1>1, <1>2 DEF Priced, Row

-------------------------------------------------------------------------------
(* Types *)

LEMMA InitTypes == Init => TypeOK
<1> SUFFICES ASSUME Init PROVE TypeOK
  OBVIOUS
<1>1. NoEvent \in Row /\ NoList \in PriceList
  BY DEF NoEvent, Row, NoList, PriceList
<1>2. list \in [List -> PriceList]
  BY <1>1, NewListType DEF Init
<1>3. now \in Date
  BY DEF Init, Date
<1>4. job \in [User -> Job]
  BY DEF Init, Idle, Job
<1> QED BY <1>1, <1>2, <1>3, <1>4 DEF Init, TypeOK

(* A request that begins, and one that ends. *)
LEMMA BeginTypes ==
  ASSUME TypeOK, NEW u, NEW j \in Job, Begin(u, j)
  PROVE  job' \in [User -> Job]
  BY DEF Begin, TypeOK

LEMMA EndTypes ==
  ASSUME TypeOK, NEW u, End(u)
  PROVE  job' \in [User -> Job]
<1>1. Idle \in Job
  BY DEF Idle, Job
<1> QED BY <1>1 DEF End, TypeOK

LEMMA MarkTypes ==
  ASSUME TypeOK, NEW S, NEW m, NEW sawOpen, Mark(S, m, sawOpen)
  PROVE  late' \in [Event -> {0, 1, 2}]
<1>1. Stage(m) \in {0, 1, 2}
  BY DEF Stage
<1> QED BY <1>1 DEF Mark, TypeOK

LEMMA ReadTypes ==
  ASSUME TypeOK, NEW u \in User,
         \/ \E l \in List : CheckDraft(u, l, "update") \/ CheckDraft(u, l, "remove") \/ CheckActivate(u, l)
         \/ \E l \in List \cup {None} :
              \/ \E c \in Charge : BuildCharge(u, c, l)
              \/ \E m \in Month, B \in SUBSET Box : ReadStorage(u, m, B, l)
         \/ \E e \in Event : CheckExclude(u, e) \/ CheckRestore(u, e)
         \/ \E m \in Month, l \in List \cup {None} : CountPeriod(u, m, l)
         \/ \E m \in Month, n \in Number : CountInvoice(u, m, n)
         \/ Abandon(u)
  PROVE  TypeOK'
<1>1. ASSUME NEW l \in List, NEW pc \in {"update", "remove", "activate"}, CheckDraft(u, l, pc) PROVE TypeOK'
  <2>1. [pc |-> pc, list |-> l, from |-> list[l].from] \in Job
    BY ListFields DEF Job, TypeOK
  <2> QED BY <1>1, <2>1, BeginTypes DEF CheckDraft, TypeOK
<1>2. ASSUME NEW l \in List \cup {None}, NEW c \in Charge, BuildCharge(u, c, l) PROVE TypeOK'
  <2>1. [pc |-> "charge", event |-> c, row |-> Priced(now, l), sawOpen |-> ~ period[now].closed] \in Job
    BY <1>2, PricedType DEF BuildCharge, Job
  <2> QED BY <1>2, <2>1, BeginTypes DEF BuildCharge, TypeOK
<1>3. ASSUME NEW l \in List \cup {None}, NEW m \in Month, NEW B \in SUBSET Box, ReadStorage(u, m, B, l)
      PROVE  TypeOK'
  <2>1. [pc |-> "storage", month |-> m, boxes |-> B, row |-> Priced(m, l),
         sawOpen |-> ~ period[m].closed] \in Job
    BY PricedType DEF Job
  <2> QED BY <1>3, <2>1, BeginTypes DEF ReadStorage, TypeOK
<1>4. ASSUME NEW e \in Event, CheckExclude(u, e) \/ CheckRestore(u, e) PROVE TypeOK'
  <2>1. /\ [pc |-> "exclude", event |-> e, sawOpen |-> ~ period[event[e].month].closed] \in Job
        /\ [pc |-> "restore", event |-> e, sawOpen |-> ~ period[event[e].month].closed,
            priced |-> event[e].net # 0] \in Job
    BY DEF Job
  <2> QED BY <1>4, <2>1, BeginTypes DEF CheckExclude, CheckRestore, TypeOK
<1>5. ASSUME NEW m \in Month, NEW l \in List \cup {None}, CountPeriod(u, m, l) PROVE TypeOK'
  <2>1. NetOf(Of(m, {"pending"})) \in Nat
    BY NetIsNat DEF Of
  <2>2. [pc |-> "close", month |-> m, total |-> NetOf(Of(m, {"pending"})),
         fee |-> FeeOf(l), list |-> l] \in Job
    BY <2>1, PricedType DEF Job
  <2>3. late' \in [Event -> {0, 1, 2}]
    BY <1>5 DEF CountPeriod, TypeOK
  <2> QED BY <1>5, <2>2, <2>3, BeginTypes DEF CountPeriod, TypeOK
<1>6. ASSUME NEW m \in Month, NEW n \in Number, CountInvoice(u, m, n) PROVE TypeOK'
  <2>1. Cardinality(Of(m, {"pending"})) \in Nat
    BY FiniteEvents, FS_Subset, FS_CardinalityType DEF Of
  <2>2. [pc |-> "invoice", month |-> m, number |-> n, count |-> Cardinality(Of(m, {"pending"}))] \in Job
    BY <2>1 DEF Job
  <2>3. late' \in [Event -> {0, 1, 2}]
    BY <1>6 DEF CountInvoice, TypeOK
  <2> QED BY <1>6, <2>2, <2>3, BeginTypes DEF CountInvoice, TypeOK
<1>7. CASE Abandon(u)
  BY <1>7, EndTypes DEF Abandon, TypeOK
<1> QED BY <1>1, <1>2, <1>3, <1>4, <1>5, <1>6, <1>7 DEF CheckActivate

(* What a step does to an event, a list and a month. *)
LEMMA WriteTypes ==
  ASSUME TypeOK, NEW u \in User,
         \/ \E from \in Date, t \in Terms : update(u, from, t)
         \/ remove(u) \/ activate(u) \/ WriteCharge(u) \/ WriteStorage(u) \/ WriteStatus(u)
         \/ ClosePeriod(u) \/ ConfirmInvoice(u)
  PROVE  TypeOK'
<1> DEFINE j == job[u]
<1>1. j \in Job /\ event \in [Event -> Row] /\ list \in [List -> PriceList]
  BY DEF TypeOK
<1>2. ASSUME NEW from \in Date, NEW t \in Terms, update(u, from, t) PROVE TypeOK'
  <2>1. j.list \in List /\ list[j.list] \in PriceList
    BY <1>1, <1>2, JobFields DEF update
  <2>2. PICK q : q = [list[j.list] EXCEPT !.from = from, !.rate = t.rate, !.fee = t.fee]
    OBVIOUS
  <2>0. from \in Int
    BY Events
  <2>3. q \in PriceList
    BY <2>0, <2>1, <2>2, ListTerms
  <2>4. list' = list \/ list' = [list EXCEPT ![j.list] = q]
    BY <1>2, <2>2 DEF update
  <2>5. list' \in [List -> PriceList]
    BY <1>1, <2>3, <2>4
  <2> QED BY <1>2, <2>5, EndTypes DEF update, TypeOK
<1>3. CASE remove(u)
  <2>1. NoList \in PriceList
    BY DEF NoList, PriceList
  <2>2. list' \in [List -> PriceList]
    BY <1>1, <1>3, <2>1 DEF remove
  <2> QED BY <1>3, <2>2, EndTypes DEF remove, TypeOK
<1>4. CASE activate(u)
  <2> DEFINE l == j.list
             S == IF list[l].rate = 0 THEN {} ELSE Repriceable(l)
  <2>1. l \in List /\ j.from \in Int
    BY <1>1, <1>4, JobFields DEF activate
  <2>0. list[l].rate \in Nat /\ Forever \in Int
    BY <1>1, <2>1, ListFields DEF Forever
  <2>2. list' \in [List -> PriceList]
    <3>0. PICK to \in Int : to = j.from - 1
      BY <2>1
    <3> DEFINE N(k) == IF k = l THEN [list[k] EXCEPT !.status = "active", !.to = Forever]
                       ELSE IF list[k].status = "active"
                              THEN [list[k] EXCEPT !.status = "archived", !.to = to]
                       ELSE list[k]
    <3>1. ASSUME NEW k \in List PROVE N(k) \in PriceList
      <4>1. list[k] \in PriceList
        BY <1>1
      <4>2. [list[k] EXCEPT !.status = "active", !.to = Forever] \in PriceList
        BY <2>0, <4>1, ListActive
      <4>3. [list[k] EXCEPT !.status = "archived", !.to = to] \in PriceList
        BY <4>1, ListActive
      <4> QED BY <4>1, <4>2, <4>3
    <3>2. list' = list \/ list' = [k \in List |-> N(k)]
      BY <1>4, <3>0 DEF activate
    <3> HIDE DEF N
    <3> QED BY <1>1, <3>1, <3>2
  <2>3. event' \in [Event -> Row]
    <3> DEFINE N(e) == IF e \in S THEN Repriced(e, l) ELSE event[e]
    <3>1. ASSUME NEW e \in Event PROVE N(e) \in Row
      <4>1. event[e] \in Row
        BY <1>1
      <4>2. Repriced(e, l) \in Row
        BY <2>0, <2>1, <4>1 DEF Repriced, Row
      <4> QED BY <4>1, <4>2
    <3>2. event' = event \/ event' = [e \in Event |-> N(e)]
      BY <1>4 DEF activate
    <3> HIDE DEF N
    <3> QED BY <1>1, <3>1, <3>2
  <2>4. late' \in [Event -> {0, 1, 2}]
    BY <1>4 DEF activate, TypeOK
  <2> QED BY <1>4, <2>2, <2>3, <2>4, EndTypes DEF activate, TypeOK
<1>5. CASE WriteCharge(u)
  <2>1. j.event \in Event /\ j.row \in Row
    BY <1>1, <1>5, JobFields, Events DEF WriteCharge
  <2>2. event' \in [Event -> Row]
    BY <1>1, <1>5, <2>1 DEF WriteCharge
  <2>3. late' \in [Event -> {0, 1, 2}]
    BY <1>5, MarkTypes DEF WriteCharge, TypeOK
  <2> QED BY <1>5, <2>2, <2>3, EndTypes DEF WriteCharge, TypeOK
<1>6. CASE WriteStorage(u)
  <2>1. j.row \in Row /\ j.month \in Month
    BY <1>1, <1>6, JobFields DEF WriteStorage
  <2>2. event' \in [Event -> Row]
    BY <1>1, <1>6, <2>1 DEF WriteStorage
  <2>3. late' \in [Event -> {0, 1, 2}]
    BY <1>6, MarkTypes DEF WriteStorage
  <2>4. period' \in [Month -> [generated : BOOLEAN, closed : BOOLEAN, invoice : Number \cup {None}]]
    BY <1>6, <2>1 DEF WriteStorage, TypeOK
  <2> QED BY <1>6, <2>2, <2>3, <2>4, EndTypes DEF WriteStorage, TypeOK
<1>7. CASE WriteStatus(u)
  <2>1. j.event \in Event /\ event[j.event] \in Row
    BY <1>1, <1>7, JobFields DEF WriteStatus
  <2>2. event' \in [Event -> Row]
    BY <1>1, <1>7, <2>1 DEF WriteStatus, Restored, Row
  <2>3. late' \in [Event -> {0, 1, 2}]
    BY <1>7, MarkTypes DEF WriteStatus
  <2> QED BY <1>7, <2>2, <2>3, EndTypes DEF WriteStatus, TypeOK
<1>8. CASE ClosePeriod(u)
  <2>1. j.month \in Month /\ j.total \in Nat /\ j.fee \in Nat /\ j.list \in List \cup {None}
    BY <1>1, <1>8, JobFields DEF ClosePeriod
  <2>2. Shortfall(j) \in Nat
    BY <2>1 DEF Shortfall
  <2>3. [status |-> "pending", month |-> j.month, net |-> Shortfall(j), list |-> j.list] \in Row
    BY <2>1, <2>2 DEF Row
  <2>4. event' \in [Event -> Row]
    BY <1>1, <1>8, <2>3 DEF ClosePeriod
  <2>5. period' \in [Month -> [generated : BOOLEAN, closed : BOOLEAN, invoice : Number \cup {None}]]
    BY <1>8, <2>1 DEF ClosePeriod, TypeOK
  <2>6. announced' \in [Month -> [total : Nat, fee : Nat]]
    BY <1>8, <2>1, <2>2 DEF ClosePeriod, TypeOK
  <2> QED BY <1>8, <2>4, <2>5, <2>6, EndTypes DEF ClosePeriod, TypeOK
<1>9. CASE ConfirmInvoice(u)
  <2>1. j.month \in Month /\ j.number \in Number
    BY <1>1, <1>9, JobFields DEF ConfirmInvoice
  <2>2. event' \in [Event -> Row]
    <3>1. \A e \in Event : [event[e] EXCEPT !.status = "invoiced"] \in Row
      BY <1>1, RowStatus
    <3> QED BY <1>1, <1>9, <3>1 DEF ConfirmInvoice
  <2>3. period' \in [Month -> [generated : BOOLEAN, closed : BOOLEAN, invoice : Number \cup {None}]]
    BY <1>9, <2>1 DEF ConfirmInvoice, TypeOK
  <2> QED BY <1>9, <2>2, <2>3, EndTypes DEF ConfirmInvoice, TypeOK
<1> QED BY <1>2, <1>3, <1>4, <1>5, <1>6, <1>7, <1>8, <1>9

LEMMA StepTypes == TypeOK /\ [Next]_vars => TypeOK'
<1> SUFFICES ASSUME TypeOK, [Next]_vars PROVE TypeOK'
  OBVIOUS
<1>1. CASE UNCHANGED vars
  BY <1>1 DEF vars, TypeOK
<1>2. CASE NextMonth
  BY <1>2 DEF NextMonth, TypeOK
<1>3. ASSUME NEW l \in List, NEW from \in Date, NEW t \in Terms, create(l, from, t) PROVE TypeOK'
  <2>1. NewList("draft", from, t) \in PriceList
    BY NewListType, Events
  <2> QED BY <1>3, <2>1 DEF create, TypeOK
<1>4. ASSUME NEW u \in User, Pricing(u) \/ Charging(u) \/ Billed(u) \/ Abandon(u) PROVE TypeOK'
  BY <1>4, ReadTypes, WriteTypes DEF Pricing, Charging, Billed
<1> QED BY <1>1, <1>2, <1>3, <1>4 DEF Next

(* Events, price lists, months and requests keep their types; a bill is a number. *)
THEOREM BillingTypeCorrect == Spec => []TypeOK
<1>1. Init => TypeOK
  BY InitTypes
<1>2. TypeOK /\ [Next]_vars => TypeOK'
  BY StepTypes
<1> QED BY <1>1, <1>2, PTL DEF Spec

-------------------------------------------------------------------------------
(* What a step does *)

(* A request reads. *)
Reads(u) ==
  \/ \E l \in List : CheckDraft(u, l, "update") \/ CheckDraft(u, l, "remove") \/ CheckActivate(u, l)
  \/ \E l \in List \cup {None} :
       \/ \E c \in Charge : BuildCharge(u, c, l)
       \/ \E m \in Month, B \in SUBSET Box : ReadStorage(u, m, B, l)
  \/ \E e \in Event : CheckExclude(u, e) \/ CheckRestore(u, e)
  \/ \E m \in Month, l \in List \cup {None} : CountPeriod(u, m, l)
  \/ \E m \in Month, n \in Number : CountInvoice(u, m, n)

Writes(u) ==
  \/ \E from \in Date, t \in Terms : update(u, from, t)
  \/ remove(u) \/ activate(u) \/ WriteCharge(u) \/ WriteStorage(u) \/ WriteStatus(u)
  \/ ClosePeriod(u) \/ ConfirmInvoice(u)

LEMMA Steps ==
  ASSUME [Next]_vars
  PROVE  \/ UNCHANGED <<event, list, period, job, late>>
         \/ \E l \in List, from \in Date, t \in Terms : create(l, from, t)
         \/ \E u \in User : Reads(u) \/ Abandon(u) \/ Writes(u)
  BY DEF Next, NextMonth, vars, Pricing, Charging, Billed, Reads, Writes

LEMMA ReadsOnly ==
  ASSUME NEW u \in User, Reads(u) \/ Abandon(u)
  PROVE  UNCHANGED <<event, list, period>>
  BY DEF Reads, Abandon, CheckDraft, CheckActivate, BuildCharge, ReadStorage, CheckExclude, CheckRestore,
     CountPeriod, CountInvoice

LEMMA WritesEnd ==
  ASSUME NEW u \in User, Writes(u) \/ Abandon(u)
  PROVE  End(u)
  BY DEF Writes, Abandon, update, remove, activate, WriteCharge, WriteStorage, WriteStatus, ClosePeriod,
     ConfirmInvoice

(* A request goes on alone: it reads, or it ends. *)
LEMMA JobStep ==
  ASSUME TypeOK, [Next]_vars, NEW v \in User, job'[v] # job[v]
  PROVE  job'[v] = Idle \/ Reads(v)
<1>1. job \in [User -> Job]
  BY DEF TypeOK
<1>2. ASSUME NEW u \in User, Writes(u) \/ Abandon(u) PROVE job'[v] = Idle
  BY <1>1, <1>2, WritesEnd DEF End
<1>3. ASSUME NEW u \in User, Reads(u) PROVE Reads(v)
  <2>1. \E r : job' = [job EXCEPT ![u] = r]
    BY <1>3 DEF Reads, CheckDraft, CheckActivate, BuildCharge, ReadStorage, CheckExclude, CheckRestore,
       CountPeriod, CountInvoice, Begin
  <2>2. u = v
    BY <1>1, <2>1
  <2> QED BY <1>3, <2>2
<1>4. ASSUME NEW l, NEW from, NEW t, create(l, from, t) PROVE FALSE
  BY <1>4 DEF create
<1> QED BY <1>2, <1>3, <1>4, Steps

(* What request u does to event e. *)
Changes(u, e) ==
  LET j == job[u] IN
  \/ /\ j.pc \in {"charge", "storage"} /\ Referable(j.row)
     /\ e \in Charge \cup (Box \X Month)
     /\ event[e].status = "absent" /\ event'[e] = j.row /\ UNCHANGED list
  \/ /\ j.pc \in {"exclude", "restore"} /\ e = j.event
     /\ event'[e].status = IF j.pc = "exclude" THEN "excluded" ELSE Restored(j)
     /\ event'[e].net = event[e].net /\ event'[e].list = event[e].list
     /\ UNCHANGED list
  \/ /\ ClosePeriod(u) /\ e = <<Minimum, j.month>> /\ e \notin Charge \cup (Box \X Month)
     /\ event'[e].status = "pending" /\ event'[e].net # 0 /\ UNCHANGED list
  \/ /\ event[e].status = "pending" /\ event'[e].status = "invoiced"
     /\ event'[e].net = event[e].net /\ event'[e].list = event[e].list /\ UNCHANGED list
  \/ /\ activate(u) /\ event[e].status \in {"unpriced", "excluded"}
     /\ event'[e].net = list[j.list].rate /\ list[j.list].rate # 0
     /\ event'[e].list = j.list /\ j.list \in List
     /\ event'[e].status \in {"pending", "excluded"}

LEMMA EventStep ==
  ASSUME TypeOK, [Next]_vars, NEW e \in Event, event'[e] # event[e]
  PROVE  \E u \in User : Changes(u, e)
<1>1. event \in [Event -> Row] /\ event[e] \in Row
  BY DEF TypeOK
<1>2. PICK u \in User : Writes(u)
  BY Steps, ReadsOnly DEF create
<1> DEFINE j == job[u]
<1>3. j \in Job
  BY DEF TypeOK
<1>4. CASE WriteCharge(u)
  <2>1. j.event \in Charge /\ e = j.event
    BY <1>1, <1>3, <1>4, JobFields DEF WriteCharge
  <2> QED BY <1>1, <1>4, <2>1 DEF WriteCharge, Changes
<1>5. CASE WriteStorage(u)
  <2>1. e \in j.boxes \X {j.month} /\ event[e].status = "absent" /\ event'[e] = j.row
    BY <1>1, <1>5 DEF WriteStorage
  <2>2. j.boxes \in SUBSET Box /\ j.month \in Month
    BY <1>3, <1>5, JobFields DEF WriteStorage
  <2>3. Referable(j.row) /\ UNCHANGED list /\ j.pc = "storage"
    BY <1>5, <2>1 DEF WriteStorage
  <2> QED BY <2>1, <2>2, <2>3 DEF Changes
<1>6. CASE WriteStatus(u)
  <2>1. e = j.event /\ j.pc \in {"exclude", "restore"} /\ UNCHANGED list
    BY <1>1, <1>6 DEF WriteStatus
  <2> DEFINE s == IF j.pc = "exclude" THEN "excluded" ELSE Restored(j)
  <2>2. event' = [event EXCEPT ![e].status = s]
    BY <1>6, <2>1 DEF WriteStatus
  <2> HIDE DEF s
  <2>3. event'[e].status = s /\ event'[e].net = event[e].net /\ event'[e].list = event[e].list
    BY <1>1, <2>2 DEF Row
  <2> QED BY <2>1, <2>3 DEF s, Changes
<1>7. CASE ClosePeriod(u)
  <2>1. j.month \in Month
    BY <1>3, <1>7, JobFields DEF ClosePeriod
  <2>2. e = <<Minimum, j.month>> /\ Shortfall(j) # 0
    BY <1>1, <1>7 DEF ClosePeriod
  <2>3. event'[e] = [status |-> "pending", month |-> j.month, net |-> Shortfall(j), list |-> j.list]
    BY <1>1, <1>7, <2>2 DEF ClosePeriod
  <2>4. UNCHANGED list /\ e \notin Charge \cup (Box \X Month)
    BY <1>7, <2>1, <2>2, Events DEF ClosePeriod
  <2>5. event'[e].status = "pending" /\ event'[e].net # 0
    BY <2>2, <2>3
  <2> QED BY <1>7, <2>2, <2>4, <2>5 DEF Changes
<1>8. CASE ConfirmInvoice(u)
  <2>1. PICK r : r = [event[e] EXCEPT !.status = "invoiced"]
    OBVIOUS
  <2>2. r.net = event[e].net /\ r.list = event[e].list /\ r.status = "invoiced"
    BY <1>1, <2>1, RowStatus
  <2>3. e \in Of(j.month, {"pending"}) /\ event'[e] = r /\ UNCHANGED list
    BY <1>1, <1>8, <2>1 DEF ConfirmInvoice
  <2> QED BY <2>2, <2>3 DEF Of, Changes
<1>9. CASE activate(u)
  <2> DEFINE l == j.list
  <2>1. l \in List
    BY <1>3, <1>9, JobFields DEF activate
  <2>2. e \in Repriceable(l) /\ list[l].rate # 0 /\ event'[e] = Repriced(e, l)
    BY <1>1, <1>9 DEF activate
  <2>3. event[e].status \in {"unpriced", "excluded"}
    BY <2>2 DEF Repriceable
  <2>4. /\ Repriced(e, l).net = list[l].rate /\ Repriced(e, l).list = l
        /\ Repriced(e, l).status \in {"pending", "excluded"}
    BY <1>1, <2>3 DEF Repriced, Row
  <2> QED BY <1>9, <2>1, <2>2, <2>3, <2>4 DEF Changes
<1>10. CASE remove(u) \/ \E from \in Date, t \in Terms : update(u, from, t)
  BY <1>10 DEF remove, update
<1> QED BY <1>2, <1>4, <1>5, <1>6, <1>7, <1>8, <1>9, <1>10 DEF Writes

-------------------------------------------------------------------------------
(* Prices *)

(* A price, once there, stays; and a request that restores an event with a price, or writes
   one, still finds it so. *)
PriceInv ==
  /\ \A e \in Event : event[e].status \in {"pending", "invoiced"} => event[e].net # 0
  /\ \A e \in Event : event[e].status = "absent" => event[e].net = 0
  /\ \A u \in User : LET j == job[u] IN
       /\ j.pc \in {"charge", "storage"} =>
            /\ j.row.status \in {"unpriced", "pending"} /\ (j.row.status = "pending" => j.row.net # 0)
            /\ (j.row.list = None => j.row.net = 0)
       /\ j.pc = "restore" /\ j.priced => event[j.event].net # 0

LEMMA PriceInit == Init => PriceInv
  BY DEF Init, PriceInv, NoEvent, Idle

LEMMA NetStays ==
  ASSUME TypeOK, PriceInv, [Next]_vars, NEW e \in Event, event[e].net # 0
  PROVE  event'[e].net # 0
<1>1. event[e].status # "absent"
  BY DEF PriceInv
<1> QED BY <1>1, EventStep DEF Changes, PriceInv

LEMMA PriceStep ==
  ASSUME TypeOK, PriceInv, [Next]_vars
  PROVE  PriceInv'
<1>0. TypeOK'
  BY StepTypes
<1>1. ASSUME NEW e \in Event
      PROVE  /\ event'[e].status \in {"pending", "invoiced"} => event'[e].net # 0
             /\ event'[e].status = "absent" => event'[e].net = 0
  <2>1. CASE event'[e] = event[e]
    BY <2>1 DEF PriceInv
  <2>2. CASE event'[e] # event[e]
    <3>1. PICK u \in User : Changes(u, e)
      BY <2>2, EventStep
    <3> QED BY <3>1 DEF Changes, PriceInv, Restored
  <2> QED BY <2>1, <2>2
<1>2. ASSUME NEW v \in User, job'[v] = job[v]
      PROVE  /\ job'[v].pc \in {"charge", "storage"} =>
                  /\ job'[v].row.status \in {"unpriced", "pending"}
                  /\ (job'[v].row.status = "pending" => job'[v].row.net # 0)
                  /\ (job'[v].row.list = None => job'[v].row.net = 0)
             /\ job'[v].pc = "restore" /\ job'[v].priced => event'[job'[v].event].net # 0
  <2>1. job[v].pc = "restore" => job[v].event \in Event
    BY JobFields DEF TypeOK
  <2> QED BY <1>2, <2>1, NetStays DEF PriceInv
<1>3. ASSUME NEW v \in User, job'[v] # job[v]
      PROVE  /\ job'[v].pc \in {"charge", "storage"} =>
                  /\ job'[v].row.status \in {"unpriced", "pending"}
                  /\ (job'[v].row.status = "pending" => job'[v].row.net # 0)
                  /\ (job'[v].row.list = None => job'[v].row.net = 0)
             /\ job'[v].pc = "restore" /\ job'[v].priced => event'[job'[v].event].net # 0
  <2>1. job \in [User -> Job]
    BY DEF TypeOK
  <2>2. CASE job'[v] = Idle
    BY <2>2 DEF Idle
  <2>3. ASSUME NEW m \in Month, NEW l \in List \cup {None}, job'[v].row = Priced(m, l),
               job'[v].pc \in {"charge", "storage"}
        PROVE  /\ job'[v].row.status \in {"unpriced", "pending"}
               /\ (job'[v].row.status = "pending" => job'[v].row.net # 0)
               /\ (job'[v].row.list = None => job'[v].row.net = 0)
    BY <2>3, PricedType
  <2>4. CASE \E l \in List \cup {None} :
               \/ \E c \in Charge : BuildCharge(v, c, l)
               \/ \E m \in Month, B \in SUBSET Box : ReadStorage(v, m, B, l)
    <3>1. /\ job'[v].pc \in {"charge", "storage"}
          /\ \E m \in Month, l \in List \cup {None} : job'[v].row = Priced(m, l)
      BY <2>1, <2>4 DEF BuildCharge, ReadStorage, Begin
    <3> QED BY <2>3, <3>1
  <2>5. CASE \E e \in Event : CheckExclude(v, e) \/ CheckRestore(v, e)
    <3>1. CASE \E e \in Event : CheckExclude(v, e)
      BY <2>1, <3>1 DEF CheckExclude, Begin
    <3>2. ASSUME NEW e \in Event, CheckRestore(v, e)
          PROVE  /\ job'[v].pc = "restore" /\ job'[v].event = e /\ event' = event
                 /\ job'[v].priced = (event[e].net # 0)
      BY <2>1, <3>2 DEF CheckRestore, Begin
    <3> QED BY <2>5, <3>1, <3>2
  <2>6. CASE \/ \E l \in List : CheckDraft(v, l, "update") \/ CheckDraft(v, l, "remove") \/ CheckActivate(v, l)
             \/ \E m \in Month, l \in List \cup {None} : CountPeriod(v, m, l)
             \/ \E m \in Month, n \in Number : CountInvoice(v, m, n)
    BY <2>1, <2>6 DEF CheckDraft, CheckActivate, CountPeriod, CountInvoice, Begin
  <2> QED BY <1>3, <2>2, <2>4, <2>5, <2>6, JobStep DEF Reads
<1> QED BY <1>1, <1>2, <1>3 DEF PriceInv

LEMMA PricesInvariant == Spec => []PriceInv
<1>1. Init => PriceInv
  BY PriceInit
<1>2. TypeOK /\ PriceInv /\ [Next]_vars => PriceInv'
  BY PriceStep
<1> QED BY <1>1, <1>2, BillingTypeCorrect, PTL DEF Spec

(* Whatever restorations, exclusions and changes of rates overlap: nothing without a price
   is on a bill. *)
THEOREM BillsArePriced == Spec => []BilledHasPrice
<1>1. TypeOK /\ PriceInv => BilledHasPrice
  BY RowFields DEF TypeOK, PriceInv, BilledHasPrice
<1> QED BY <1>1, BillingTypeCorrect, PricesInvariant, PTL

-------------------------------------------------------------------------------
(* Rates *)

RateInv == RateKept /\ \A l \in List : list[l].status = "absent" => list[l].rate = 0

(* A rate changes as its list is created, or if no event was priced with it. *)
LEMMA ListStep ==
  ASSUME TypeOK, [Next]_vars, NEW l \in List
  PROVE  \/ list'[l].rate = list[l].rate /\ (list'[l].status = "absent" => list[l].status = "absent")
         \/ /\ list[l].status = "absent" \/ UnreferencedRate(l)
            /\ list'[l].status = "absent" => list'[l].rate = 0
            /\ UNCHANGED event
<1>1. list \in [List -> PriceList] /\ list[l] \in PriceList
  BY DEF TypeOK
<1>2. CASE UNCHANGED list
  BY <1>2
<1>3. ASSUME NEW k \in List, NEW from \in Date, NEW t \in Terms, create(k, from, t),
             list'[l] # list[l]
      PROVE  list[l].status = "absent" /\ list'[l].status = "draft" /\ UNCHANGED event
  <2>1. k = l /\ list'[l] = NewList("draft", from, t)
    BY <1>1, <1>3 DEF create
  <2> QED BY <1>3, <2>1 DEF create, NewList
<1>4. ASSUME NEW u \in User, NEW from \in Date, NEW t \in Terms, update(u, from, t), list'[l] # list[l]
      PROVE  UnreferencedRate(l) /\ list'[l].status = list[l].status /\ list[l].status # "absent"
             /\ UNCHANGED event
  <2>1. PICK q : q = [list[l] EXCEPT !.from = from, !.rate = t.rate, !.fee = t.fee]
    OBVIOUS
  <2>2. from \in Int
    BY Events
  <2>3. q.status = list[l].status
    BY <1>1, <2>1, <2>2, ListTerms
  <2>4. job[u].list = l
    BY <1>1, <1>4 DEF update
  <2>5. list'[l] = q
    BY <1>1, <1>4, <2>1, <2>4 DEF update
  <2> QED BY <1>4, <2>3, <2>4, <2>5 DEF update
<1>5. ASSUME NEW u \in User, remove(u), list'[l] # list[l]
      PROVE  UnreferencedRate(l) /\ list'[l].rate = 0 /\ UNCHANGED event
  <2>1. job[u].list = l /\ list'[l] = NoList /\ ~ \E e \in Event : event[e].list = l
    BY <1>1, <1>5 DEF remove
  <2> QED BY <1>5, <2>1, Events DEF remove, NoList, UnreferencedRate, Event
<1>6. ASSUME NEW u \in User, activate(u)
      PROVE  list'[l].rate = list[l].rate /\ (list'[l].status = "absent" => list[l].status = "absent")
  <2>1. job[u].from \in Int
    BY <1>6, JobFields DEF activate, TypeOK
  <2>2. PICK to \in Int : to = job[u].from - 1
    BY <2>1
  <2>3. Forever \in Int
    BY DEF Forever
  <2>4. PICK p : p = [list[l] EXCEPT !.status = "active", !.to = Forever]
    OBVIOUS
  <2>5. PICK q : q = [list[l] EXCEPT !.status = "archived", !.to = to]
    OBVIOUS
  <2>6. p.rate = list[l].rate /\ p.status = "active" /\ q.rate = list[l].rate /\ q.status = "archived"
    BY <1>1, <2>3, <2>4, <2>5, ListActive
  <2>7. list'[l] \in {p, q, list[l]}
    BY <1>6, <2>2, <2>4, <2>5 DEF activate
  <2> QED BY <2>6, <2>7
<1>7. ASSUME NEW u \in User, Reads(u) \/ Abandon(u) \/ WriteCharge(u) \/ WriteStorage(u)
                             \/ WriteStatus(u) \/ ClosePeriod(u) \/ ConfirmInvoice(u)
      PROVE  UNCHANGED list
  BY <1>7, ReadsOnly DEF WriteCharge, WriteStorage, WriteStatus, ClosePeriod, ConfirmInvoice
<1> QED BY <1>2, <1>3, <1>4, <1>5, <1>6, <1>7, Steps DEF Writes

LEMMA RateStep ==
  ASSUME TypeOK, PriceInv, RateInv, [Next]_vars
  PROVE  RateInv'
<1>1. ASSUME NEW l \in List, list'[l].status = "absent" PROVE list'[l].rate = 0
  BY <1>1, ListStep DEF RateInv
<1>2. ASSUME NEW e \in Charge \cup (Box \X Month), event'[e].net # 0
      PROVE  event'[e].list # None /\ event'[e].net = list'[event'[e].list].rate
  <2>1. e \in Event /\ event[e] \in Row
    BY DEF Event, TypeOK
  <2> DEFINE l == event[e].list
  <2>2. CASE event'[e] = event[e]
    <3>1. l \in List /\ event[e].net = list[l].rate
      BY <1>2, <2>1, <2>2, RowFields DEF RateInv, RateKept
    <3>2. list[l].status # "absent" /\ ~ UnreferencedRate(l)
      BY <1>2, <2>2, <3>1 DEF RateInv, UnreferencedRate
    <3>3. list'[l].rate = list[l].rate
      BY <3>1, <3>2, ListStep
    <3> QED BY <2>2, <3>1, <3>3
  <2>3. CASE event'[e] # event[e]
    <3>1. PICK u \in User : Changes(u, e)
      BY <2>1, <2>3, EventStep
    <3> DEFINE j == job[u]
    <3>2. CASE UNCHANGED list /\ event'[e].net = event[e].net /\ event'[e].list = event[e].list
      BY <1>2, <3>2 DEF RateInv, RateKept
    <3>3. CASE /\ j.pc \in {"charge", "storage"} /\ Referable(j.row)
               /\ event'[e] = j.row /\ UNCHANGED list
      <4>1. j.row.list # None
        BY <1>2, <3>3 DEF PriceInv
      <4> QED BY <1>2, <3>3, <4>1 DEF Referable
    <3>4. CASE /\ activate(u) /\ event'[e].net = list[j.list].rate /\ event'[e].list = j.list
               /\ j.list \in List
      <4>1. list[j.list].status # "absent" /\ ~ UNCHANGED event
        BY <1>2, <2>3, <3>4 DEF RateInv
      <4>2. list'[j.list].rate = list[j.list].rate
        BY <3>4, <4>1, ListStep
      <4> QED BY <3>4, <4>2
    <3> QED BY <3>1, <3>2, <3>3, <3>4 DEF Changes
  <2> QED BY <2>2, <2>3
<1> QED BY <1>1, <1>2 DEF RateInv, RateKept

(* An event keeps the rate it was priced with, and that rate stays in its list. *)
THEOREM RatesStay == Spec => []RateKept
<1>1. Init => RateInv
  <2> SUFFICES ASSUME Init PROVE RateInv
    OBVIOUS
  <2>1. \A e \in Charge \cup (Box \X Month) : e \in Event /\ event[e].net = 0
    BY DEF Init, NoEvent, Event
  <2>2. \A l \in List : list[l].status = "absent" => list[l].rate = 0
    BY DEF Init, NoList, NewList
  <2> QED BY <2>1, <2>2 DEF RateInv, RateKept
<1>2. TypeOK /\ PriceInv /\ RateInv /\ [Next]_vars => RateInv'
  BY RateStep
<1>3. RateInv => RateKept
  BY DEF RateInv
<1> QED BY <1>1, <1>2, <1>3, BillingTypeCorrect, PricesInvariant, PTL DEF Spec

-------------------------------------------------------------------------------
(* Invoices *)

(* A month that has an invoice number keeps it, whoever confirms another one meanwhile. *)
THEOREM InvoicesStay == Spec => InvoiceKept
<1> DEFINE Kept == \A m \in Month : period[m].invoice # None => period'[m].invoice = period[m].invoice
<1>1. TypeOK /\ [Next]_vars => [Kept]_vars
  <2> SUFFICES ASSUME TypeOK, [Next]_vars, NEW m \in Month, period[m].invoice # None
               PROVE  period'[m].invoice = period[m].invoice
    OBVIOUS
  <2>1. period \in [Month -> [generated : BOOLEAN, closed : BOOLEAN, invoice : Number \cup {None}]]
    BY DEF TypeOK
  <2>2. ASSUME NEW u \in User, Writes(u) PROVE period'[m].invoice = period[m].invoice
    <3>1. CASE WriteStorage(u)
      BY <2>1, <3>1 DEF WriteStorage
    <3>2. CASE ClosePeriod(u)
      BY <2>1, <3>2 DEF ClosePeriod
    <3>3. CASE ConfirmInvoice(u)
      <4>1. job[u].month = m => ~ AsRead(job[u])
        BY DEF AsRead
      <4> QED BY <2>1, <3>3, <4>1 DEF ConfirmInvoice
    <3>4. CASE \/ \E from \in Date, t \in Terms : update(u, from, t)
               \/ remove(u) \/ activate(u) \/ WriteCharge(u) \/ WriteStatus(u)
      BY <3>4 DEF update, remove, activate, WriteCharge, WriteStatus
    <3> QED BY <2>2, <3>1, <3>2, <3>3, <3>4 DEF Writes
  <2> QED BY <2>2, Steps, ReadsOnly DEF create
<1> QED BY <1>1, BillingTypeCorrect, PTL DEF Spec, InvoiceKept

Invoiced(m) == period[m].invoice # None \/ Invoicing(m)

EventOK(e) ==
  /\ event[e].status # "absent" => event[e].month \in Month
  /\ event[e].status \in {"unpriced", "pending"} /\ period[event[e].month].invoice # None => late[e] = 2
  /\ event[e].status = "invoiced" => period[event[e].month].invoice # None

(* Who writes to a month had seen it open. *)
JobOK(j) ==
  /\ j.pc \in {"charge", "storage", "exclude", "restore"} => j.sawOpen = TRUE
  /\ j.pc \in {"exclude", "restore"} => event[j.event].status # "absent"
  /\ j.pc \in {"charge", "storage"} => j.row.month \in Month /\ j.row.status \in {"unpriced", "pending"}
  /\ j.pc = "storage" => j.row.month = j.month
  /\ j.pc = "close" => ~ period[j.month].closed
  /\ j.pc = "invoice" => period[j.month].closed

(* A month is closed by one request, before it is invoiced; and an invoice under way leaves
   nothing out but what was written after its counts. *)
InvoiceInv ==
  /\ \A e \in Event : EventOK(e)
  /\ \A m \in Month : period[m].invoice # None => period[m].closed
  /\ \A u \in User : JobOK(job[u])
  /\ \A u \in User, v \in User :
       job[u].pc = "close" /\ job[v].pc = "close" /\ job[u].month = job[v].month => u = v
  /\ \A u \in User, e \in Event :
       job[u].pc = "invoice" /\ event[e].month = job[u].month /\ event[e].status = "unpriced" => late[e] = 2

LEMMA InvoiceInit == Init => InvoiceInv
<1> SUFFICES ASSUME Init PROVE InvoiceInv
  OBVIOUS
<1>1. \A e \in Event : event[e].status = "absent"
  BY DEF Init, NoEvent
<1>2. \A m \in Month : period[m].invoice = None
  BY DEF Init
<1>3. \A u \in User : job[u].pc = "idle"
  BY DEF Init, Idle
<1> QED BY <1>1, <1>2, <1>3 DEF InvoiceInv, EventOK, JobOK

(* A write to a month with an invoice, or about to have one, is late. *)
LEMMA MarkLate ==
  ASSUME NEW S, NEW m, Mark(S, m, TRUE), NEW e \in Event
  PROVE  /\ e \in S /\ Invoiced(m) => late'[e] = 2
         /\ e \notin S => late'[e] = late[e]
  BY DEF Mark, Stage, Invoiced

(* A month that is open has no invoice, nor one under way. *)
LEMMA OpenIsUnbilled ==
  ASSUME InvoiceInv, NEW m \in Month, ~ period[m].closed
  PROVE  ~ Invoiced(m)
  BY DEF InvoiceInv, JobOK, Invoiced, Invoicing

(* The month e belongs to may have changed; what becomes of its bill depends on m alone. *)
Same(e) == event'[e] = event[e] /\ late'[e] = late[e]
Late(e) ==
  /\ event'[e].status \in {"unpriced", "pending", "excluded"} /\ event'[e].month \in Month
  /\ Invoiced(event'[e].month) => late'[e] = 2
Early(e) ==
  /\ event'[e].status \in {"pending", "excluded"} /\ event'[e].month \in Month
  /\ ~ Invoiced(event'[e].month)
Recounted(e) ==
  /\ event'[e] = event[e] /\ event[e].month \in Month /\ period[event[e].month].invoice = None
  /\ event[e].status # "unpriced" \/ ~ Invoiced(event[e].month)
Taken(e) ==
  /\ event[e].status = "pending" /\ event'[e].status = "invoiced" /\ event'[e].month = event[e].month
  /\ \E u \in User : ConfirmInvoice(u) /\ AsRead(job[u]) /\ job[u].month = event[e].month

LEMMA Fates ==
  ASSUME TypeOK, InvoiceInv, [Next]_vars, NEW e \in Event
  PROVE  Same(e) \/ Late(e) \/ Early(e) \/ Recounted(e) \/ Taken(e)
<1>1. event \in [Event -> Row] /\ event[e] \in Row /\ late \in [Event -> {0, 1, 2}]
  BY DEF TypeOK
<1>2. CASE UNCHANGED <<event, late>>
  BY <1>2 DEF Same
<1>3. ASSUME NEW u \in User, NEW m \in Month, NEW l, CountPeriod(u, m, l)
      PROVE  Same(e) \/ Recounted(e)
  <2>1. ~ Invoiced(m)
    BY <1>3, OpenIsUnbilled DEF CountPeriod
  <2> QED BY <1>1, <1>3, <2>1 DEF CountPeriod, Same, Recounted, Invoiced
<1>4. ASSUME NEW u \in User, NEW m \in Month, NEW n, CountInvoice(u, m, n)
      PROVE  Same(e) \/ Recounted(e)
  <2>1. event[e].month = m => event[e].status # "unpriced"
    BY <1>4 DEF CountInvoice, NoUnpriced, Of
  <2> QED BY <1>1, <1>4, <2>1 DEF CountInvoice, Same, Recounted
<1>5. ASSUME NEW u \in User, Writes(u)
      PROVE  Same(e) \/ Late(e) \/ Early(e) \/ Taken(e)
  <2> DEFINE j == job[u]
  <2>1. j \in Job /\ JobOK(j)
    BY DEF TypeOK, InvoiceInv
  <2>2. CASE WriteCharge(u)
    <3>1. CASE UNCHANGED <<event, late>>
      BY <3>1 DEF Same
    <3>2. CASE Mark({j.event}, j.row.month, j.sawOpen) /\ event' = [event EXCEPT ![j.event] = j.row]
      <4>1. Mark({j.event}, j.row.month, TRUE)
        BY <2>1, <2>2, <3>2 DEF JobOK, WriteCharge
      <4>0. (e = j.event /\ Invoiced(j.row.month) => late'[e] = 2) /\ (e # j.event => late'[e] = late[e])
        BY <4>1 DEF Mark, Stage, Invoiced
      <4>2. CASE e = j.event
        <5>1. event'[e] = j.row
          BY <1>1, <3>2, <4>2
        <5> QED BY <2>1, <2>2, <4>0, <4>2, <5>1 DEF Late, JobOK, WriteCharge
      <4>3. CASE e # j.event
        BY <1>1, <3>2, <4>0, <4>3 DEF Same
      <4> QED BY <4>2, <4>3
    <3> QED BY <2>2, <3>1, <3>2 DEF WriteCharge
  <2>3. CASE WriteStorage(u)
    <3> DEFINE new == {a \in j.boxes \X {j.month} : event[a].status = "absent"}
    <3>1. Mark(new, j.row.month, TRUE)
      BY <2>1, <2>3 DEF JobOK, WriteStorage
    <3>2. event'[e] = IF e \in new THEN j.row ELSE event[e]
      BY <1>1, <2>3 DEF WriteStorage
    <3> HIDE DEF new
    <3>3. CASE e \in new
      BY <2>1, <2>3, <3>1, <3>2, <3>3, MarkLate DEF Late, JobOK, WriteStorage
    <3>4. CASE e \notin new
      BY <3>1, <3>2, <3>4, MarkLate DEF Same
    <3> QED BY <3>3, <3>4
  <2>4. CASE WriteStatus(u)
    <3> DEFINE s == IF j.pc = "exclude" THEN "excluded" ELSE Restored(j)
    <3>1. Mark({j.event}, event[j.event].month, TRUE) /\ event' = [event EXCEPT ![j.event].status = s]
      BY <2>1, <2>4 DEF JobOK, WriteStatus
    <3>0. (e = j.event /\ Invoiced(event[j.event].month) => late'[e] = 2)
          /\ (e # j.event => late'[e] = late[e])
      BY <3>1 DEF Mark, Stage, Invoiced
    <3>2. s \in {"excluded", "pending", "unpriced"}
      BY DEF Restored
    <3> HIDE DEF s
    <3>3. CASE e = j.event
      <4>1. event'[e].status = s /\ event'[e].month = event[e].month
        BY <1>1, <3>1, <3>3 DEF Row
      <4>2. event[e].month \in Month
        BY <2>1, <2>4, <3>3 DEF WriteStatus, JobOK, InvoiceInv, EventOK
      <4> QED BY <3>0, <3>2, <3>3, <4>1, <4>2 DEF Late
    <3>4. CASE e # j.event
      BY <1>1, <3>0, <3>1, <3>4 DEF Same
    <3> QED BY <3>3, <3>4
  <2>5. CASE ClosePeriod(u)
    <3>1. j.month \in Month /\ ~ Invoiced(j.month)
      BY <2>1, <2>5, JobFields, OpenIsUnbilled DEF ClosePeriod, JobOK
    <3>2. CASE event'[e] = event[e]
      BY <2>5, <3>2 DEF ClosePeriod, Same
    <3>3. CASE event'[e] # event[e]
      <4>1. event'[e] = [status |-> "pending", month |-> j.month, net |-> Shortfall(j), list |-> j.list]
        BY <1>1, <2>5, <3>3 DEF ClosePeriod
      <4> QED BY <3>1, <4>1 DEF Early
    <3> QED BY <3>2, <3>3
  <2>6. CASE ConfirmInvoice(u)
    <3>1. CASE event'[e] = event[e]
      BY <2>6, <3>1 DEF ConfirmInvoice, Same
    <3>2. CASE event'[e] # event[e]
      <4>1. PICK r : r = [event[e] EXCEPT !.status = "invoiced"]
        OBVIOUS
      <4>2. r.month = event[e].month /\ r.status = "invoiced"
        BY <1>1, <4>1, RowStatus
      <4>3. AsRead(j) /\ e \in Of(j.month, {"pending"}) /\ event'[e] = r
        BY <1>1, <2>6, <3>2, <4>1 DEF ConfirmInvoice
      <4> QED BY <2>6, <4>2, <4>3 DEF Of, Taken
    <3> QED BY <3>1, <3>2
  <2>7. CASE activate(u)
    <3> DEFINE l == j.list
               S == IF list[l].rate = 0 THEN {} ELSE Repriceable(l)
    <3>1. CASE UNCHANGED <<event, late>>
      BY <3>1 DEF Same
    <3>2. CASE /\ event' = [a \in Event |-> IF a \in S THEN Repriced(a, l) ELSE event[a]]
               /\ late' = [a \in Event |-> IF a \in S /\ Closing(event[a].month) THEN 1 ELSE late[a]]
      <4>1. CASE e \in S
        <5>1. event[e].status \in {"unpriced", "excluded"} /\ ~ period[event[e].month].closed
          BY <4>1 DEF Repriceable
        <5>2. event[e].month \in Month
          BY <5>1 DEF InvoiceInv, EventOK
        <5>3. ~ Invoiced(event[e].month)
          BY <5>1, <5>2, OpenIsUnbilled
        <5>4. Repriced(e, l).status \in {"pending", "excluded"} /\ Repriced(e, l).month = event[e].month
          BY <1>1, <5>1 DEF Repriced, Row
        <5>5. event'[e] = Repriced(e, l)
          BY <3>2, <4>1
        <5> QED BY <5>2, <5>3, <5>4, <5>5 DEF Early
      <4>2. CASE e \notin S
        <5> HIDE DEF S
        <5> QED BY <3>2, <4>2 DEF Same
      <4> QED BY <4>1, <4>2
    <3> QED BY <2>7, <3>1, <3>2 DEF activate
  <2>8. CASE remove(u) \/ \E from \in Date, t \in Terms : update(u, from, t)
    BY <2>8 DEF remove, update, Same
  <2> QED BY <1>5, <2>2, <2>3, <2>4, <2>5, <2>6, <2>7, <2>8 DEF Writes
<1>6. ASSUME NEW u \in User, Abandon(u) \/ Reads(u)
      PROVE  Same(e) \/ Recounted(e)
  BY <1>3, <1>4, <1>6 DEF Abandon, Reads, CheckDraft, CheckActivate, BuildCharge, ReadStorage, CheckExclude,
     CheckRestore, Same
<1>7. ASSUME NEW l, NEW from, NEW t, create(l, from, t) PROVE Same(e)
  BY <1>7 DEF create, Same
<1> QED BY <1>2, <1>5, <1>6, <1>7, Steps

(* A month is closed by the request that closes it, and gets its invoice from another. *)
LEMMA MonthStep ==
  ASSUME TypeOK, InvoiceInv, [Next]_vars, NEW m \in Month
  PROVE  /\ period[m].closed => period'[m].closed
         /\ \/ period'[m].closed = period[m].closed
            \/ \E u \in User : job[u].pc = "close" /\ job[u].month = m /\ job'[u] = Idle
         /\ \/ period'[m].invoice = period[m].invoice
            \/ /\ period[m].closed
               /\ \E u \in User : ConfirmInvoice(u) /\ AsRead(job[u]) /\ job[u].month = m
<1>1. period \in [Month -> [generated : BOOLEAN, closed : BOOLEAN, invoice : Number \cup {None}]]
      /\ job \in [User -> Job]
  BY DEF TypeOK
<1>2. CASE UNCHANGED period
  BY <1>2
<1>3. ASSUME NEW u \in User, WriteStorage(u)
      PROVE  period'[m].closed = period[m].closed /\ period'[m].invoice = period[m].invoice
  BY <1>1, <1>3 DEF WriteStorage
<1>4. ASSUME NEW u \in User, ClosePeriod(u)
      PROVE  /\ period'[m].invoice = period[m].invoice /\ (period[m].closed => period'[m].closed)
             /\ \/ period'[m].closed = period[m].closed
                \/ job[u].pc = "close" /\ job[u].month = m /\ job'[u] = Idle
  BY <1>1, <1>4 DEF ClosePeriod, End
<1>5. ASSUME NEW u \in User, ConfirmInvoice(u)
      PROVE  /\ period'[m].closed = period[m].closed
             /\ \/ period'[m].invoice = period[m].invoice
                \/ period[m].closed /\ AsRead(job[u]) /\ job[u].month = m
  <2>1. job[u].pc = "invoice" /\ period[job[u].month].closed
    BY <1>5 DEF ConfirmInvoice, InvoiceInv, JobOK
  <2> QED BY <1>1, <1>5, <2>1 DEF ConfirmInvoice
<1>6. ASSUME NEW u \in User, remove(u) \/ activate(u) \/ WriteCharge(u) \/ WriteStatus(u)
                             \/ \E from \in Date, t \in Terms : update(u, from, t)
      PROVE  UNCHANGED period
  BY <1>6 DEF remove, activate, WriteCharge, WriteStatus, update
<1>7. ASSUME NEW l, NEW from, NEW t, create(l, from, t) PROVE UNCHANGED period
  BY <1>7 DEF create
<1>8. ASSUME NEW u \in User, Writes(u) PROVE
         \/ UNCHANGED period \/ WriteStorage(u) \/ ClosePeriod(u) \/ ConfirmInvoice(u)
  BY <1>6, <1>8 DEF Writes
<1> QED BY <1>2, <1>3, <1>4, <1>5, <1>7, <1>8, Steps, ReadsOnly

LEMMA InvoicedEvents ==
  ASSUME TypeOK, InvoiceInv, [Next]_vars, NEW e \in Event
  PROVE  EventOK(e)'
<1> DEFINE m == event'[e].month
<1>1. EventOK(e)
  BY DEF InvoiceInv
<1>2. CASE m \in Month /\ period'[m].invoice = period[m].invoice
  <2>1. CASE Same(e)
    BY <1>1, <1>2, <2>1 DEF Same, EventOK
  <2>2. CASE Late(e)
    BY <1>2, <2>2 DEF Late, EventOK, Invoiced
  <2>3. CASE Early(e)
    BY <1>2, <2>3 DEF Early, EventOK, Invoiced
  <2>4. CASE Recounted(e)
    BY <1>1, <1>2, <2>4 DEF Recounted, EventOK
  <2>5. CASE Taken(e)
    <3>1. PICK u \in User : ConfirmInvoice(u) /\ AsRead(job[u]) /\ job[u].month = m
      BY <2>5 DEF Taken
    <3>2. period'[m].invoice = job[u].number /\ job[u].number \in Number
      BY <1>2, <3>1, JobFields DEF ConfirmInvoice, TypeOK
    <3> QED BY <1>2, <2>5, <3>2 DEF Taken, EventOK
  <2> QED BY <2>1, <2>2, <2>3, <2>4, <2>5, Fates
<1>3. CASE m \in Month /\ period'[m].invoice # period[m].invoice
  <2>1. PICK u \in User : ConfirmInvoice(u) /\ AsRead(job[u]) /\ job[u].month = m
    BY <1>3, MonthStep
  <2>2. period'[m].invoice = job[u].number /\ job[u].number # None
    BY <1>3, <2>1, JobFields DEF ConfirmInvoice, TypeOK
  <2>3. late' = late /\ event' = [a \in Event |-> IF a \in Of(m, {"pending"})
                                                     THEN [event[a] EXCEPT !.status = "invoiced"] ELSE event[a]]
    BY <2>1 DEF ConfirmInvoice
  <2>4. CASE e \in Of(m, {"pending"})
    <3>1. event[e] \in Row
      BY DEF TypeOK
    <3>2. PICK r : r = [event[e] EXCEPT !.status = "invoiced"]
      OBVIOUS
    <3>3. r.status = "invoiced"
      BY <3>1, <3>2, RowStatus
    <3>4. event'[e] = r
      BY <2>3, <2>4, <3>2
    <3> QED BY <1>3, <2>2, <3>3, <3>4 DEF EventOK
  <2>5. CASE e \notin Of(m, {"pending"})
    <3>1. event'[e] = event[e] /\ event[e].month = m
      BY <2>3, <2>5
    <3>2. event[e].status # "pending"
      BY <2>5, <3>1 DEF Of
    <3>3. event[e].status = "unpriced" => late[e] = 2
      BY <2>1, <3>1 DEF InvoiceInv, ConfirmInvoice
    <3> QED BY <1>1, <1>3, <2>2, <2>3, <3>1, <3>2, <3>3 DEF EventOK
  <2> QED BY <2>4, <2>5
<1>4. CASE m \notin Month
  <2>1. CASE Same(e)
    <3>1. event[e].status = "absent"
      BY <1>1, <1>4, <2>1 DEF Same, EventOK
    <3> QED BY <2>1, <3>1 DEF Same, EventOK
  <2>2. CASE Taken(e)
    BY <1>1, <1>4, <2>2 DEF Taken, EventOK
  <2> QED BY <1>4, <2>1, <2>2, Fates DEF Late, Early, Recounted
<1> QED BY <1>2, <1>3, <1>4

(* An event that is there stays there. *)
LEMMA Present ==
  ASSUME TypeOK, InvoiceInv, [Next]_vars, NEW e \in Event, event[e].status # "absent"
  PROVE  event'[e].status # "absent"
  BY Fates DEF Same, Late, Early, Recounted, Taken

(* A request that begins. *)
LEMMA Begun ==
  ASSUME TypeOK, InvoiceInv, [Next]_vars, NEW v \in User, Reads(v)
  PROVE  JobOK(job[v])'
<1>1. job \in [User -> Job] /\ UNCHANGED <<event, list, period>>
  BY ReadsOnly DEF TypeOK
<1>2. ASSUME NEW l \in List \cup {None}, NEW c \in Charge, BuildCharge(v, c, l) PROVE JobOK(job[v])'
  <2>1. /\ job'[v].pc = "charge" /\ job'[v].row = Priced(now, l) /\ now \in Month
        /\ job'[v].sawOpen = TRUE
    BY <1>1, <1>2 DEF BuildCharge, Begin, PeriodOpen
  <2> QED BY <2>1, PricedType DEF JobOK
<1>3. ASSUME NEW l \in List \cup {None}, NEW m \in Month, NEW B, ReadStorage(v, m, B, l) PROVE JobOK(job[v])'
  <2>1. /\ job'[v].pc = "storage" /\ job'[v].row = Priced(m, l) /\ job'[v].month = m
        /\ job'[v].sawOpen = TRUE
    BY <1>1, <1>3 DEF ReadStorage, Begin, PeriodOpen
  <2> QED BY <2>1, PricedType DEF JobOK
<1>4. ASSUME NEW e \in Event, CheckExclude(v, e) \/ CheckRestore(v, e) PROVE JobOK(job[v])'
  <2>1. job'[v].sawOpen = TRUE
    <3>1. CASE CheckExclude(v, e)
      BY <1>1, <3>1 DEF CheckExclude, Begin, PeriodOpen
    <3>2. CASE CheckRestore(v, e)
      BY <1>1, <3>2 DEF CheckRestore, Begin, PeriodOpen
    <3> QED BY <1>4, <3>1, <3>2
  <2>2. /\ job'[v].pc \in {"exclude", "restore"} /\ job'[v].event = e
        /\ event[e].status # "absent"
    <3>1. CASE CheckExclude(v, e)
      BY <1>1, <3>1 DEF CheckExclude, Begin
    <3>2. CASE CheckRestore(v, e)
      BY <1>1, <3>2 DEF CheckRestore, Begin
    <3> QED BY <1>4, <3>1, <3>2
  <2> QED BY <1>1, <2>1, <2>2 DEF JobOK
<1>5. ASSUME NEW l \in List, CheckDraft(v, l, "update") \/ CheckDraft(v, l, "remove") \/ CheckActivate(v, l)
      PROVE  JobOK(job[v])'
  <2>1. job'[v].pc \in {"update", "remove", "activate"}
    BY <1>1, <1>5 DEF CheckDraft, CheckActivate, Begin
  <2> QED BY <2>1 DEF JobOK
<1>6. ASSUME NEW m \in Month, NEW l, CountPeriod(v, m, l) PROVE JobOK(job[v])'
  <2>1. job'[v].pc = "close" /\ job'[v].month = m /\ ~ period[m].closed
    BY <1>1, <1>6 DEF CountPeriod, Begin
  <2> QED BY <1>1, <2>1 DEF JobOK
<1>7. ASSUME NEW m \in Month, NEW n, CountInvoice(v, m, n) PROVE JobOK(job[v])'
  <2>1. job'[v].pc = "invoice" /\ job'[v].month = m /\ period[m].closed
    BY <1>1, <1>7 DEF CountInvoice, Begin
  <2> QED BY <1>1, <2>1 DEF JobOK
<1> QED BY <1>2, <1>3, <1>4, <1>5, <1>6, <1>7 DEF Reads

LEMMA InvoicedJobs ==
  ASSUME TypeOK, InvoiceInv, [Next]_vars, NEW v \in User
  PROVE  JobOK(job[v])'
<1>1. CASE job'[v] = Idle
  BY <1>1 DEF Idle, JobOK
<1>2. CASE job'[v] = job[v] /\ job[v] # Idle
  <2> DEFINE j == job[v]
  <2>1. j \in Job /\ JobOK(j)
    BY DEF TypeOK, InvoiceInv
  <2>2. j.pc \in {"exclude", "restore"} => event'[j.event].status # "absent"
    BY <2>1, JobFields, Present DEF JobOK
  <2>3. j.pc = "invoice" => period'[j.month].closed
    BY <2>1, JobFields, MonthStep DEF JobOK
  <2>4. ASSUME j.pc = "close" PROVE ~ period'[j.month].closed
    <3>1. j.month \in Month /\ ~ period[j.month].closed
      BY <2>1, <2>4, JobFields DEF JobOK
    <3>2. ASSUME NEW u \in User, job[u].pc = "close", job[u].month = j.month, job'[u] = Idle PROVE FALSE
      <4>1. u = v
        BY <2>4, <3>2 DEF InvoiceInv
      <4> QED BY <1>2, <3>2, <4>1
    <3> QED BY <3>1, <3>2, MonthStep
  <2> QED BY <1>2, <2>1, <2>2, <2>3, <2>4 DEF JobOK
<1>3. CASE job'[v] # job[v] /\ job'[v] # Idle
  BY <1>3, Begun, JobStep
<1> QED BY <1>1, <1>2, <1>3

(* One request closes a month. *)
LEMMA OneCloses ==
  ASSUME TypeOK, InvoiceInv, [Next]_vars, NEW u \in User, NEW v \in User,
         job'[u].pc = "close", job'[v].pc = "close", job'[u].month = job'[v].month
  PROVE  u = v
<1>1. job \in [User -> Job]
  BY DEF TypeOK
<1>2. ASSUME NEW a \in User, NEW b \in User, job'[a].pc = "close", job'[b].pc = "close",
             job'[a].month = job'[b].month, job'[a] # job[a], a # b
      PROVE  FALSE
  <2>1. job'[a] # Idle
    BY <1>2 DEF Idle
  <2>2. Reads(a)
    BY <1>2, <2>1, JobStep
  <2>3. PICK m \in Month, l \in List \cup {None} : CountPeriod(a, m, l)
    BY <1>1, <1>2, <2>2 DEF Reads, CheckDraft, CheckActivate, BuildCharge, ReadStorage, CheckExclude, CheckRestore,
       CountInvoice, Begin
  <2>4. job'[b] = job[b] /\ job'[a].month = m /\ ~ Closing(m)
    BY <1>1, <1>2, <2>3 DEF CountPeriod, Begin
  <2> QED BY <1>2, <2>4 DEF Closing
<1>3. CASE job'[u] = job[u] /\ job'[v] = job[v]
  BY <1>3 DEF InvoiceInv
<1> QED BY <1>2, <1>3

LEMMA LeftOut ==
  ASSUME TypeOK, InvoiceInv, [Next]_vars, NEW v \in User, NEW e \in Event,
         job'[v].pc = "invoice", event'[e].month = job'[v].month, event'[e].status = "unpriced"
  PROVE  late'[e] = 2
<1>1. job \in [User -> Job]
  BY DEF TypeOK
<1>2. CASE job'[v] = job[v]
  <2> DEFINE m == job[v].month
  <2>1. Invoicing(m) /\ Invoiced(m)
    BY <1>2 DEF Invoicing, Invoiced
  <2>2. CASE Same(e)
    BY <1>2, <2>2 DEF Same, InvoiceInv
  <2>3. CASE Late(e)
    BY <1>2, <2>1, <2>3 DEF Late
  <2> QED BY <1>2, <2>1, <2>2, <2>3, Fates DEF Early, Recounted, Taken
<1>3. CASE job'[v] # job[v]
  <2>1. Reads(v)
    BY <1>3, JobStep DEF Idle
  <2>2. PICK m \in Month, n \in Number : CountInvoice(v, m, n)
    BY <1>1, <2>1 DEF Reads, CheckDraft, CheckActivate, BuildCharge, ReadStorage, CheckExclude, CheckRestore,
       CountPeriod, Begin
  <2>3. job'[v].month = m /\ event' = event /\ NoUnpriced(m)
    BY <1>1, <2>2 DEF CountInvoice, Begin
  <2> QED BY <2>3 DEF NoUnpriced, Of
<1> QED BY <1>2, <1>3

LEMMA InvoiceStep ==
  ASSUME TypeOK, InvoiceInv, [Next]_vars
  PROVE  InvoiceInv'
<1>1. ASSUME NEW m \in Month, period'[m].invoice # None PROVE period'[m].closed
  BY <1>1, MonthStep DEF InvoiceInv
<1> QED BY <1>1, InvoicedEvents, InvoicedJobs, OneCloses, LeftOut DEF InvoiceInv

LEMMA InvoicesInvariant == Spec => []InvoiceInv
<1>1. Init => InvoiceInv
  BY InvoiceInit
<1>2. TypeOK /\ InvoiceInv /\ [Next]_vars => InvoiceInv'
  BY InvoiceStep
<1> QED BY <1>1, <1>2, BillingTypeCorrect, PTL DEF Spec

(* An invoice takes the whole month: what is neither excluded nor invoiced was written after
   it, by a request that had seen the month open. *)
THEOREM InvoiceTakesAll == Spec => []InvoicedWhole
<1>1. InvoiceInv => InvoicedWhole
  BY DEF InvoiceInv, EventOK, InvoicedWhole
<1> QED BY <1>1, InvoicesInvariant, PTL

-------------------------------------------------------------------------------
(* The bill *)

(* What a closed month announced, nothing has been written to since. *)
Quiet(m) == \A e \in Event : event[e].month = m => late[e] = 0
Bill(m) == Of(m, {"pending", "invoiced"})

(* From the moment closePeriod has read its sums: an event of the month that changes is late,
   but for the difference to the minimum fee, which only closePeriod writes. *)
BillInv ==
  /\ \A e \in Event : event[e].status = "absent" => event[e].month = 0
  /\ \A m \in Month : event[<<Minimum, m>>].status # "absent" => period[m].closed
  /\ \A m \in Month : period[m].closed /\ Quiet(m) => NetOf(Bill(m)) = announced[m].total
  /\ \A m \in Month : announced[m].total >= announced[m].fee
  /\ \A u \in User : job[u].pc = "close" /\ Quiet(job[u].month) => NetOf(Bill(job[u].month)) = job[u].total

LEMMA BillInit == ASSUME Init PROVE BillInv
<1>1. \A e \in Event : event[e].status = "absent" /\ event[e].month = 0
  BY DEF Init, NoEvent
<1>2. \A m \in Month : ~ period[m].closed /\ announced[m].total = 0 /\ announced[m].fee = 0
  BY DEF Init
<1>3. \A u \in User : job[u].pc = "idle"
  BY DEF Init, Idle
<1> QED BY <1>1, <1>2, <1>3, Events DEF BillInv

(* The month has been closed, or is being closed. *)
Counted(m) == period[m].closed \/ Closing(m)

(* A request that had seen the month open writes to it. *)
LEMMA MarkCounted ==
  ASSUME TypeOK, NEW S, NEW m, Mark(S, m, TRUE), NEW e \in Event
  PROVE  /\ e \in S /\ Counted(m) => late'[e] # 0
         /\ e \notin S => late'[e] = late[e]
         /\ late[e] # 0 => late'[e] # 0
  BY DEF Mark, Stage, Counted, TypeOK

(* What may become of an event of a month that was counted. *)
Accounted(e, m) ==
  /\ event[e].month = m => event'[e].month = m /\ (late[e] # 0 => late'[e] # 0)
  /\ event'[e].month = m /\ late'[e] = 0 =>
       \/ event'[e] = event[e]
       \/ /\ event[e].status = "pending" /\ event'[e].status = "invoiced"
          /\ event'[e].month = event[e].month /\ event'[e].net = event[e].net
       \/ e = <<Minimum, m>> /\ \E u \in User : ClosePeriod(u) /\ job[u].month = m

LEMMA Kept ==
  ASSUME TypeOK, InvoiceInv, BillInv, [Next]_vars, NEW m \in Month, Counted(m), NEW e \in Event
  PROVE  Accounted(e, m)
<1>1. /\ event \in [Event -> Row] /\ event[e] \in Row /\ late \in [Event -> {0, 1, 2}]
      /\ m # 0 /\ (event[e].month = m => event[e].status # "absent")
  BY Events DEF TypeOK, BillInv
<1>2. CASE event'[e] = event[e] /\ (late[e] # 0 => late'[e] # 0)
  BY <1>2 DEF Accounted
<1>3. CASE late'[e] # 0 /\ (event[e].month = m => event'[e].month = m)
  BY <1>3 DEF Accounted
<1>4. CASE event[e].month # m /\ event'[e].month # m
  BY <1>4 DEF Accounted
<1>5. ASSUME NEW u \in User, NEW n \in Month, NEW l, CountPeriod(u, n, l) PROVE Accounted(e, m)
  <2>1. n # m
    BY <1>5 DEF CountPeriod, Counted
  <2>2. event' = event /\ (event[e].month = m => late'[e] = late[e])
    BY <1>1, <1>5, <2>1 DEF CountPeriod
  <2> QED BY <1>2, <1>4, <2>2
<1>6. ASSUME NEW u \in User, NEW n, NEW k, CountInvoice(u, n, k) PROVE Accounted(e, m)
  BY <1>1, <1>2, <1>6 DEF CountInvoice
<1>7. ASSUME NEW u \in User, Writes(u) PROVE Accounted(e, m)
  <2> DEFINE j == job[u]
  <2>1. j \in Job /\ JobOK(j)
    BY DEF TypeOK, InvoiceInv
  <2>2. CASE WriteCharge(u)
    <3>1. CASE UNCHANGED <<event, late>>
      BY <1>2, <3>1
    <3>2. CASE /\ Mark({j.event}, j.row.month, j.sawOpen) /\ event' = [event EXCEPT ![j.event] = j.row]
               /\ event[j.event].status = "absent"
      <4>1. Mark({j.event}, j.row.month, TRUE)
        BY <2>1, <2>2, <3>2 DEF JobOK, WriteCharge
      <4>2. CASE e = j.event
        <5>1. event'[e] = j.row /\ event[e].month # m
          BY <1>1, <3>2, <4>2
        <5>2. CASE j.row.month = m
          BY <1>3, <4>1, <4>2, <5>1, <5>2, MarkCounted
        <5> QED BY <1>4, <5>1, <5>2
      <4>3. CASE e # j.event
        <5>1. e \notin {j.event} /\ event'[e] = event[e]
          BY <1>1, <3>2, <4>3
        <5> QED BY <1>2, <4>1, <5>1, MarkCounted
      <4> QED BY <4>2, <4>3
    <3> QED BY <2>2, <3>1, <3>2 DEF WriteCharge
  <2>3. CASE WriteStorage(u)
    <3> DEFINE new == {a \in j.boxes \X {j.month} : event[a].status = "absent"}
    <3>1. Mark(new, j.row.month, TRUE)
      BY <2>1, <2>3 DEF JobOK, WriteStorage
    <3>2. event'[e] = IF e \in new THEN j.row ELSE event[e]
      BY <1>1, <2>3 DEF WriteStorage
    <3>3. e \in new => event[e].month # m
      BY <1>1
    <3> HIDE DEF new
    <3>4. CASE e \in new
      <4>1. CASE j.row.month = m
        BY <1>3, <3>1, <3>3, <3>4, <4>1, MarkCounted
      <4> QED BY <1>4, <3>2, <3>3, <3>4, <4>1
    <3>5. CASE e \notin new
      BY <1>2, <3>1, <3>2, <3>5, MarkCounted
    <3> QED BY <3>4, <3>5
  <2>4. CASE WriteStatus(u)
    <3> DEFINE s == IF j.pc = "exclude" THEN "excluded" ELSE Restored(j)
    <3>1. Mark({j.event}, event[j.event].month, TRUE) /\ event' = [event EXCEPT ![j.event].status = s]
      BY <2>1, <2>4 DEF JobOK, WriteStatus
    <3> HIDE DEF s
    <3>2. CASE e = j.event
      <4>1. event'[e].month = event[e].month
        BY <1>1, <3>1, <3>2 DEF Row
      <4>2. CASE event[e].month = m
        BY <1>3, <3>1, <3>2, <4>1, <4>2, MarkCounted
      <4> QED BY <1>4, <4>1, <4>2
    <3>3. CASE e # j.event
      <4>1. e \notin {j.event} /\ event'[e] = event[e]
        BY <1>1, <3>1, <3>3
      <4> QED BY <1>2, <3>1, <4>1, MarkCounted
    <3> QED BY <3>2, <3>3
  <2>5. CASE ClosePeriod(u)
    <3>1. j.month \in Month /\ ~ period[j.month].closed
      BY <2>1, <2>5, JobFields DEF ClosePeriod, JobOK
    <3>2. CASE event'[e] = event[e]
      BY <1>2, <2>5, <3>2 DEF ClosePeriod
    <3>3. CASE event'[e] # event[e]
      <4>1. e = <<Minimum, j.month>> /\ event'[e].month = j.month /\ late' = late
        BY <1>1, <2>5, <3>3 DEF ClosePeriod
      <4>2. event[e].status = "absent"
        BY <3>1, <4>1 DEF BillInv
      <4> QED BY <1>1, <2>5, <4>1, <4>2 DEF Accounted
    <3> QED BY <3>2, <3>3
  <2>6. CASE ConfirmInvoice(u)
    <3>1. CASE event'[e] = event[e]
      BY <1>2, <2>6, <3>1 DEF ConfirmInvoice
    <3>2. CASE event'[e] # event[e]
      <4>1. PICK r : r = [event[e] EXCEPT !.status = "invoiced"]
        OBVIOUS
      <4>2. r.month = event[e].month /\ r.status = "invoiced" /\ r.net = event[e].net
        BY <1>1, <4>1, RowStatus
      <4>3. e \in Of(j.month, {"pending"}) /\ event'[e] = r /\ late' = late
        BY <1>1, <2>6, <3>2, <4>1 DEF ConfirmInvoice
      <4> QED BY <4>2, <4>3 DEF Of, Accounted
    <3> QED BY <3>1, <3>2
  <2>7. CASE activate(u)
    <3> DEFINE l == j.list
               S == IF list[l].rate = 0 THEN {} ELSE Repriceable(l)
    <3>1. CASE UNCHANGED <<event, late>>
      BY <1>2, <3>1
    <3>2. CASE /\ event' = [a \in Event |-> IF a \in S THEN Repriced(a, l) ELSE event[a]]
               /\ late' = [a \in Event |-> IF a \in S /\ Closing(event[a].month) THEN 1 ELSE late[a]]
      <4>1. CASE e \in S
        <5>1. ~ period[event[e].month].closed
          BY <4>1 DEF Repriceable
        <5>2. PICK r : r = Repriced(e, l)
          OBVIOUS
        <5>3. r.month = event[e].month
          BY <1>1, <5>2 DEF Repriced, Row
        <5>4. event'[e] = r
          BY <3>2, <4>1, <5>2
        <5>5. CASE event[e].month = m
          <6>1. late'[e] = 1
            BY <3>2, <4>1, <5>1, <5>5 DEF Counted
          <6> QED BY <1>3, <5>3, <5>4, <6>1
        <5> QED BY <1>4, <5>3, <5>4, <5>5
      <4>2. CASE e \notin S
        <5> HIDE DEF S
        <5> QED BY <1>2, <3>2, <4>2
      <4> QED BY <4>1, <4>2
    <3> QED BY <2>7, <3>1, <3>2 DEF activate
  <2>8. CASE remove(u) \/ \E from \in Date, t \in Terms : update(u, from, t)
    BY <1>2, <2>8 DEF remove, update
  <2> QED BY <1>7, <2>2, <2>3, <2>4, <2>5, <2>6, <2>7, <2>8 DEF Writes
<1>8. ASSUME NEW u \in User, Abandon(u) \/ Reads(u) PROVE Accounted(e, m)
  BY <1>2, <1>5, <1>6, <1>8 DEF Abandon, Reads, CheckDraft, CheckActivate, BuildCharge, ReadStorage,
     CheckExclude, CheckRestore
<1>9. ASSUME NEW l, NEW from, NEW t, create(l, from, t) PROVE Accounted(e, m)
  BY <1>2, <1>9 DEF create
<1>10. CASE UNCHANGED <<event, list, period, job, late>>
  BY <1>2, <1>10
<1> QED BY <1>7, <1>8, <1>9, <1>10, Steps

(* Nothing late in the month now, nothing late in it before. *)
LEMMA QuietBefore ==
  ASSUME TypeOK, InvoiceInv, BillInv, [Next]_vars, NEW m \in Month, Counted(m), Quiet(m)'
  PROVE  Quiet(m)
<1> SUFFICES ASSUME NEW e \in Event, event[e].month = m, late[e] # 0 PROVE FALSE
  BY DEF Quiet
<1>1. Accounted(e, m)
  BY Kept
<1>2. event'[e].month = m /\ late'[e] # 0
  BY <1>1 DEF Accounted
<1> QED BY <1>2 DEF Quiet

(* A bill counts the same units as before, and those of an event that came to it. *)
LEMMA BillGrows ==
  ASSUME TypeOK, NEW S \in SUBSET Event, NEW k \in Event, k \notin S, event'[k].net \in Nat,
         \A e \in S : event'[e].net = event[e].net
  PROVE  NetOf(S \cup {k})' = NetOf(S) + event'[k].net
<1> DEFINE A == UNION {Units(e) : e \in S}
           B == {k} \X (1 .. event'[k].net)
<1>1. IsFiniteSet(A) /\ Cardinality(A) = NetOf(S)
  BY NetIsNat DEF NetOf, Units
<1>2. IsFiniteSet(B) /\ Cardinality(B) = event'[k].net
  <2>1. IsFiniteSet(1 .. event'[k].net) /\ Cardinality(1 .. event'[k].net) = event'[k].net
    BY FS_Interval
  <2>2. IsFiniteSet({k}) /\ Cardinality({k}) = 1
    BY FS_Singleton
  <2>3. Cardinality(B) = Cardinality({k}) * Cardinality(1 .. event'[k].net) /\ IsFiniteSet(B)
    BY <2>1, <2>2, FS_Product
  <2> QED BY <2>1, <2>2, <2>3
<1>3. A \cap B = {}
  BY DEF Units
<1>4. IsFiniteSet({}) /\ Cardinality({}) = 0
  BY FS_EmptySet
<1>5. Cardinality(A \cup B) = Cardinality(A) + Cardinality(B)
  <2> HIDE DEF A, B
  <2>1. Cardinality(A \cup B) = Cardinality(A) + Cardinality(B) - Cardinality(A \cap B)
    BY <1>1, <1>2, FS_Union
  <2>2. Cardinality(A) \in Nat /\ Cardinality(B) \in Nat
    BY <1>1, <1>2, FS_CardinalityType
  <2>3. Cardinality(A \cap B) = 0
    BY <1>3, <1>4
  <2> QED BY <2>1, <2>2, <2>3
<1>6. UNION {{e} \X (1 .. event'[e].net) : e \in S \cup {k}} = A \cup B
  BY DEF Units
<1>7. NetOf(S \cup {k})' = Cardinality(UNION {{e} \X (1 .. event'[e].net) : e \in S \cup {k}})
  BY DEF NetOf
<1> QED BY <1>1, <1>2, <1>5, <1>6, <1>7

LEMMA BillSame ==
  ASSUME NEW S \in SUBSET Event, \A e \in S : event'[e].net = event[e].net
  PROVE  NetOf(S)' = NetOf(S)
<1>1. UNION {{e} \X (1 .. event'[e].net) : e \in S} = UNION {{e} \X (1 .. event[e].net) : e \in S}
  OBVIOUS
<1> QED BY <1>1 DEF NetOf

LEMMA BillLater ==
  ASSUME NEW m, NEW S, Bill(m)' = S
  PROVE  NetOf(Bill(m))' = NetOf(S)'
  BY DEF NetOf

(* Every other step leaves the bill of a counted month alone, or is late: an invoice moves
   the events it takes from pending to invoiced. *)
LEMMA BillKept ==
  ASSUME TypeOK, InvoiceInv, BillInv, [Next]_vars, NEW m \in Month, Counted(m), Quiet(m)',
         ~ \E u \in User : ClosePeriod(u) /\ job[u].month = m
  PROVE  NetOf(Bill(m))' = NetOf(Bill(m))
<1>1. ASSUME NEW e \in Event
      PROVE  /\ e \in Bill(m) <=> e \in Bill(m)'
             /\ e \in Bill(m) => event'[e].net = event[e].net
  <2>1. Accounted(e, m)
    BY Kept
  <2>2. CASE event'[e].month = m
    <3>1. late'[e] = 0
      BY <2>2 DEF Quiet
    <3> QED BY <2>1, <2>2, <3>1 DEF Accounted, Bill, Of
  <2>3. CASE event'[e].month # m
    BY <2>1, <2>3 DEF Accounted, Bill, Of
  <2> QED BY <2>2, <2>3
<1>2. PICK S : S = Bill(m)
  OBVIOUS
<1>3. S \in SUBSET Event /\ Bill(m)' = S /\ \A e \in S : event'[e].net = event[e].net
  BY <1>1, <1>2 DEF Bill, Of
<1>4. NetOf(S)' = NetOf(S)
  BY <1>3, BillSame
<1> QED BY <1>2, <1>3, <1>4, BillLater

(* Closing a month adds the difference to the minimum fee to the bill it counted. *)
LEMMA BillCloses ==
  ASSUME TypeOK, InvoiceInv, BillInv, [Next]_vars, NEW u \in User, ClosePeriod(u),
         NEW m, m = job[u].month, Quiet(m)'
  PROVE  NetOf(Bill(m))' = job[u].total + Shortfall(job[u])
<1> DEFINE j == job[u]
           k == <<Minimum, m>>
<1>1. j \in Job /\ JobOK(j) /\ j.pc = "close"
  BY DEF TypeOK, InvoiceInv, ClosePeriod
<1>2. m \in Month /\ ~ period[m].closed /\ j.total \in Nat /\ j.fee \in Nat
  BY <1>1, JobFields DEF JobOK
<1>3. \A e \in Event : event'[e].month = m => late'[e] = 0
  BY DEF Quiet
<1>4. late' = late
  BY DEF ClosePeriod
<1>5. k \in Event /\ event[k].status = "absent" /\ event[k].month = 0
  BY <1>2, Events DEF BillInv
<1>6. event' = IF Shortfall(j) = 0 THEN event
               ELSE [event EXCEPT ![k] = [status |-> "pending", month |-> m, net |-> Shortfall(j), list |-> j.list]]
  BY DEF ClosePeriod
<1>7. event \in [Event -> Row] /\ m # 0
  BY <1>2, Events DEF TypeOK
<1>8. \A e \in Event \ {k} : event'[e] = event[e]
  BY <1>6, <1>7
<1>9. Quiet(m)
  BY <1>3, <1>4, <1>5, <1>7, <1>8 DEF Quiet
<1>10. NetOf(Bill(m)) = j.total
  BY <1>1, <1>9 DEF BillInv
<1>11. PICK S : S = Bill(m)
  OBVIOUS
<1>12. S \in SUBSET Event /\ k \notin S /\ \A e \in S : event'[e].net = event[e].net
  BY <1>5, <1>8, <1>11 DEF Bill, Of
<1>13. Shortfall(j) \in Nat
  BY <1>2 DEF Shortfall
<1>14. CASE Shortfall(j) = 0
  <2>1. Bill(m)' = S
    BY <1>6, <1>11, <1>14 DEF Bill, Of
  <2>2. NetOf(S)' = NetOf(S)
    BY <1>12, BillSame
  <2> QED BY <1>2, <1>10, <1>11, <1>14, <2>1, <2>2, BillLater
<1>15. CASE Shortfall(j) # 0
  <2>1. event'[k] = [status |-> "pending", month |-> m, net |-> Shortfall(j), list |-> j.list]
    BY <1>5, <1>6, <1>7, <1>15
  <2>2. event'[k].net = Shortfall(j) /\ event'[k].status = "pending" /\ event'[k].month = m
    BY <2>1
  <2>3. Bill(m)' = S \cup {k}
    BY <1>5, <1>8, <1>11, <2>2 DEF Bill, Of
  <2>4. NetOf(S \cup {k})' = NetOf(S) + event'[k].net
    BY <1>5, <1>12, <1>13, <2>2, BillGrows
  <2> QED BY <1>10, <1>11, <2>2, <2>3, <2>4, BillLater
<1> QED BY <1>14, <1>15

(* Who closes a month, and what is announced then. *)
LEMMA ClosingStep ==
  ASSUME TypeOK, InvoiceInv, [Next]_vars, NEW m \in Month
  PROVE  \/ period'[m].closed = period[m].closed /\ announced'[m] = announced[m]
         \/ \E u \in User :
              /\ ClosePeriod(u) /\ job[u].month = m /\ period'[m].closed
              /\ announced'[m] = [total |-> job[u].total + Shortfall(job[u]), fee |-> job[u].fee]
<1>1. /\ period \in [Month -> [generated : BOOLEAN, closed : BOOLEAN, invoice : Number \cup {None}]]
      /\ announced \in [Month -> [total : Nat, fee : Nat]]
  BY DEF TypeOK
<1>2. CASE UNCHANGED <<period, announced>>
  BY <1>2
<1>3. ASSUME NEW u \in User, WriteStorage(u)
      PROVE  period'[m].closed = period[m].closed /\ announced'[m] = announced[m]
  BY <1>1, <1>3 DEF WriteStorage
<1>4. ASSUME NEW u \in User, ConfirmInvoice(u)
      PROVE  period'[m].closed = period[m].closed /\ announced'[m] = announced[m]
  BY <1>1, <1>4 DEF ConfirmInvoice
<1>5. ASSUME NEW u \in User, ClosePeriod(u), job[u].month # m
      PROVE  period'[m].closed = period[m].closed /\ announced'[m] = announced[m]
  BY <1>1, <1>5 DEF ClosePeriod
<1>6. ASSUME NEW u \in User, ClosePeriod(u), job[u].month = m
      PROVE  /\ period'[m].closed
             /\ announced'[m] = [total |-> job[u].total + Shortfall(job[u]), fee |-> job[u].fee]
  BY <1>1, <1>6 DEF ClosePeriod
<1>7. ASSUME NEW u \in User, Pricing(u) \/ Charging(u) \/ Billed(u) \/ Abandon(u)
      PROVE  \/ UNCHANGED <<period, announced>> \/ WriteStorage(u) \/ ClosePeriod(u) \/ ConfirmInvoice(u)
  BY <1>7 DEF Pricing, Charging, Billed, Abandon, CheckDraft, CheckActivate, update, remove, activate,
     BuildCharge, ReadStorage, CheckExclude, CheckRestore, WriteCharge, WriteStatus, CountPeriod, CountInvoice
<1>8. \/ UNCHANGED <<period, announced>>
      \/ \E u \in User : Pricing(u) \/ Charging(u) \/ Billed(u) \/ Abandon(u)
  BY DEF Next, NextMonth, create, vars
<1> QED BY <1>2, <1>3, <1>4, <1>5, <1>6, <1>7, <1>8

LEMMA BillMonths ==
  ASSUME TypeOK, InvoiceInv, BillInv, [Next]_vars, NEW m \in Month
  PROVE  /\ event'[<<Minimum, m>>].status # "absent" => period'[m].closed
         /\ period'[m].closed /\ Quiet(m)' => NetOf(Bill(m))' = announced'[m].total
         /\ announced'[m].total >= announced'[m].fee
<1> DEFINE k == <<Minimum, m>>
<1>1. ASSUME NEW u \in User, ClosePeriod(u), job[u].month = m, period'[m].closed,
             announced'[m] = [total |-> job[u].total + Shortfall(job[u]), fee |-> job[u].fee]
      PROVE  /\ Quiet(m)' => NetOf(Bill(m))' = announced'[m].total
             /\ announced'[m].total >= announced'[m].fee
  <2>1. job[u].total \in Nat /\ job[u].fee \in Nat
    BY <1>1, JobFields DEF TypeOK, ClosePeriod
  <2>2. announced'[m].total = job[u].total + Shortfall(job[u]) /\ announced'[m].fee = job[u].fee
    BY <1>1
  <2>3. Quiet(m)' => NetOf(Bill(m))' = announced'[m].total
    BY <1>1, <2>2, BillCloses
  <2>4. job[u].total + Shortfall(job[u]) >= job[u].fee
    BY <2>1 DEF Shortfall
  <2> QED BY <2>2, <2>3, <2>4
<1>2. ASSUME period'[m].closed = period[m].closed, announced'[m] = announced[m]
      PROVE  /\ period'[m].closed /\ Quiet(m)' => NetOf(Bill(m))' = announced'[m].total
             /\ announced'[m].total >= announced'[m].fee
  <2>1. ASSUME period'[m].closed, Quiet(m)' PROVE NetOf(Bill(m))' = announced'[m].total
    <3>1. period[m].closed /\ Counted(m)
      BY <1>2, <2>1 DEF Counted
    <3>2. ~ \E u \in User : ClosePeriod(u) /\ job[u].month = m
      BY <3>1 DEF ClosePeriod, InvoiceInv, JobOK
    <3>3. NetOf(Bill(m))' = NetOf(Bill(m)) /\ Quiet(m)
      BY <2>1, <3>1, <3>2, BillKept, QuietBefore
    <3> QED BY <1>2, <3>1, <3>3 DEF BillInv
  <2> QED BY <1>2, <2>1 DEF BillInv
<1>3. event'[k].status # "absent" => period'[m].closed
  <2>1. k \in Event /\ k \notin Charge \cup (Box \X Month)
    BY Events
  <2>2. CASE event[k].status # "absent"
    BY <2>2, MonthStep DEF BillInv
  <2>3. CASE event[k].status = "absent" /\ event'[k].status # "absent"
    <3>1. PICK u \in User : Changes(u, k)
      BY <2>1, <2>3, EventStep
    <3>2. JobOK(job[u])
      BY DEF InvoiceInv
    <3>3. ClosePeriod(u) /\ job[u].month = m
      BY <2>1, <2>3, <3>1, <3>2 DEF Changes, JobOK
    <3>4. period \in [Month -> [generated : BOOLEAN, closed : BOOLEAN, invoice : Number \cup {None}]]
      BY DEF TypeOK
    <3> QED BY <3>3, <3>4 DEF ClosePeriod
  <2> QED BY <2>2, <2>3
<1> QED BY <1>1, <1>2, <1>3, ClosingStep

LEMMA BillJobs ==
  ASSUME TypeOK, InvoiceInv, BillInv, [Next]_vars, NEW v \in User, NEW m, NEW total,
         job'[v].pc = "close", m = job'[v].month, total = job'[v].total, Quiet(m)'
  PROVE  NetOf(Bill(m))' = total
<1>1. job \in [User -> Job]
  BY DEF TypeOK
<1>2. CASE job'[v] = job[v]
  <2>1. job[v] \in Job /\ job[v].pc = "close" /\ m = job[v].month /\ total = job[v].total /\ JobOK(job[v])
    BY <1>1, <1>2 DEF InvoiceInv
  <2>2. m \in Month /\ Counted(m)
    BY <2>1, JobFields DEF Counted, Closing
  <2>3. ~ \E u \in User : ClosePeriod(u) /\ job[u].month = m
    <3>1. ASSUME NEW u \in User, ClosePeriod(u), job[u].month = m PROVE FALSE
      <4>1. job[u].pc = "close" /\ job'[u] = Idle
        BY <1>1, <3>1 DEF ClosePeriod, End
      <4>2. u = v
        BY <2>1, <3>1, <4>1 DEF InvoiceInv
      <4> QED BY <1>2, <2>1, <4>1, <4>2 DEF Idle
    <3> QED BY <3>1
  <2>4. NetOf(Bill(m))' = NetOf(Bill(m)) /\ Quiet(m)
    BY <2>2, <2>3, BillKept, QuietBefore
  <2> QED BY <2>1, <2>4 DEF BillInv
<1>3. CASE job'[v] # job[v]
  <2>1. Reads(v)
    BY <1>3, JobStep DEF Idle
  <2>2. PICK n \in Month, l \in List \cup {None} : CountPeriod(v, n, l)
    BY <1>1, <2>1 DEF Reads, CheckDraft, CheckActivate, BuildCharge, ReadStorage, CheckExclude, CheckRestore,
       CountInvoice, Begin
  <2>3. m = n /\ total = NetOf(Of(m, {"pending"})) /\ event' = event /\ ~ period[m].closed
    BY <1>1, <2>2 DEF CountPeriod, Begin
  <2>4. PICK S : S = Of(m, {"pending"})
    OBVIOUS
  <2>5. \A e \in Event : event[e].month = m => event[e].status # "invoiced"
    BY <2>2, <2>3 DEF InvoiceInv, EventOK
  <2>6. Bill(m)' = S
    BY <2>3, <2>4, <2>5 DEF Bill, Of
  <2>7. S \in SUBSET Event /\ \A e \in S : event'[e].net = event[e].net
    BY <2>3, <2>4 DEF Of
  <2>8. NetOf(S)' = NetOf(S)
    BY <2>7, BillSame
  <2> QED BY <2>3, <2>4, <2>6, <2>8, BillLater
<1> QED BY <1>2, <1>3

LEMMA BillStep ==
  ASSUME TypeOK, InvoiceInv, BillInv, [Next]_vars
  PROVE  BillInv'
<1>1. ASSUME NEW e \in Event, event'[e].status = "absent" PROVE event'[e].month = 0
  <2>1. CASE event'[e] = event[e]
    BY <1>1, <2>1 DEF BillInv
  <2>2. CASE event'[e] # event[e]
    <3>1. event[e].status = "absent"
      BY <1>1, Present
    <3>2. ~ Same(e) /\ ~ Recounted(e)
      BY <2>2 DEF Same, Recounted
    <3> QED BY <1>1, <3>2, Fates DEF Late, Early, Taken
  <2> QED BY <2>1, <2>2
<1>2. ASSUME NEW u \in User, job'[u].pc = "close", Quiet(job[u].month)'
      PROVE  NetOf(Bill(job[u].month))' = job'[u].total
  <2>1. PICK m, total : m = job'[u].month /\ total = job'[u].total
    OBVIOUS
  <2>2. Quiet(m)'
    BY <1>2, <2>1 DEF Quiet
  <2>3. NetOf(Bill(m))' = total
    BY <1>2, <2>1, <2>2, BillJobs
  <2> QED BY <2>1, <2>3 DEF NetOf, Bill, Of
<1>3. /\ \A m \in Month : event'[<<Minimum, m>>].status # "absent" => period'[m].closed
      /\ \A m \in Month : period'[m].closed /\ Quiet(m)' => NetOf(Bill(m))' = announced'[m].total
      /\ \A m \in Month : announced'[m].total >= announced'[m].fee
  BY BillMonths
<1> QED BY <1>1, <1>2, <1>3 DEF BillInv

(* However requests overlap: the bill of a closed month is what was announced when it was
   closed, and not below the minimum fee, unless a request that had seen it open wrote to
   it since. *)
THEOREM BillStaysAsClosed == Spec => []BillAsClosed
<1>1. Init => BillInv
  BY BillInit
<1>2. TypeOK /\ InvoiceInv /\ BillInv /\ [Next]_vars => BillInv'
  BY BillStep
<1>3. BillInv => BillAsClosed
  BY DEF BillInv, BillAsClosed, Quiet, Bill
<1> QED BY <1>1, <1>2, <1>3, BillingTypeCorrect, InvoicesInvariant, PTL DEF Spec

===============================================================================
