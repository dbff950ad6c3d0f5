---------------------------- MODULE OrderReminders ----------------------------
(***************************************************************************)
(* What time does to orders: the escalations of an order that is late      *)
(* (order-sla.service.ts), the reminders of a loan that is due             *)
(* (order-return-reminder.service.ts) and the users' own requests for its  *)
(* return (loan-return-request.service.ts), on top of OrderAssignment,     *)
(* which changes the orders they read.  Who exactly receives a message is  *)
(* left out.                                                               *)
(*                                                                         *)
(* A timer of each server process starts a run, which notes the time,      *)
(* lists what is due and handles it order by order, each in a transaction  *)
(* that reads the order again.  An escalation locks nothing and relies on  *)
(* the unique key of order and level; a reminder and a request hold the    *)
(* order's row, as a return does.  Two processes may run at the same time, *)
(* and a run may die or be slower than the clock.                          *)
(*                                                                         *)
(* A schedule counts in units of the clock: the time of a warning, of the  *)
(* deadline and of the severe delay follow one after the other.            *)
(***************************************************************************)
EXTENDS OrderAssignment, Naturals

CONSTANTS
  SlaRun,    \* runs of the escalations, one of each server process
  ReturnRun, \* runs of the reminders, one of each server process
  Asker,     \* users who ask for a return at the same time
  LoanTime,  \* when a loan is due back
  Cooldown,  \* between two requests for a return
  LastSubmission,  \* bound: no order is submitted later
  LastTime,  \* bound: the clock stops here
  Losses,    \* bound: how many runs are lost
  Nobody

Time == 0 .. LastTime
Level == {80, 100, 120}
Kind == {"upcoming", "overdue"}
Run == SlaRun \cup ReturnRun \cup Asker

ASSUME RemindersAssumption ==
  /\ LastTime \in Nat /\ Losses \in Nat /\ Cooldown \in Nat
  /\ LastSubmission \in Time /\ LoanTime \in Time
  /\ Nobody \notin Run
  /\ SlaRun \cap ReturnRun = {} /\ SlaRun \cap Asker = {} /\ ReturnRun \cap Asker = {}

VARIABLES
  now,
  deadline,   \* slaDeadline, 0 before the order is submitted
  escalated,  \* how often each level of each order was notified, at most twice counted
  out,        \* loans that are out: delivered and not returned
  reminded,   \* the reminders of each order
  asked,      \* the time its return was last asked for, if it was
  lock,       \* who holds the row of an order
  losses,     \* runs lost so far
  run         \* what each run, and each request for a return, has read

messages == <<escalated, reminded, asked>>
allVars == <<status, assignee, req, now, deadline, out, messages, lock, losses, run>>

TimedInit ==
  /\ AssignInit
  /\ now = 0
  /\ deadline = [o \in Order |-> 0]
  /\ escalated = [o \in Order |-> [l \in Level |-> 0]]
  /\ out = {}
  /\ reminded = [o \in Order |-> {}]
  /\ asked = [o \in Order |-> {}]
  /\ lock = [o \in Order |-> Nobody]
  /\ losses = 0
  /\ run = [s \in Run |-> Idle]

-------------------------------------------------------------------------------
(* Orders, as time sees them *)

ACTIVE_SLA_STATUSES == {"submitted", "approved", "in_progress", "ready"}

Submitted(o) == status[o] # "submitted" /\ status'[o] = "submitted"

Unlocked(o) == TRUE
Free(o) == lock[o] = Nobody

\* Bound: orders are assigned and started before the clock moves.
Handling == \E w \in Worker : req[w] # Idle

\* A write waits for the lock.  Submitting sets the schedule, even of an order that was
\* escalated before.
OrderStep ==
  /\ AssignNext /\ (now > 0 => ~ Handling')
  /\ \A o \in Order :
       /\ Free(o) \/ (status'[o] = status[o] /\ assignee'[o] = assignee[o])
       /\ Submitted(o) => now <= LastSubmission
  /\ deadline' = [o \in Order |-> IF Submitted(o) THEN now + 2 ELSE deadline[o]]
  /\ out' = out \cup {o \in Order : status[o] = "ready" /\ status'[o] = "delivered"}
  /\ UNCHANGED <<now, messages, lock, losses, run>>

IsOnLoan(o) == o \in out /\ status[o] \in {"delivered", "completed"}

\* returnLoanItem, of the last item.
Return(o) ==
  /\ IsOnLoan(o) /\ Free(o)
  /\ out' = out \ {o}
  /\ UNCHANGED <<assignVars, now, deadline, messages, lock, losses, run>>

Tick ==
  /\ now < LastTime /\ ~ Handling
  /\ now' = now + 1
  /\ UNCHANGED <<assignVars, deadline, out, messages, lock, losses, run>>

Becomes(s, r) == run' = [run EXCEPT ![s] = r]
StartRun(s, r) == run[s] = Idle /\ Becomes(s, r)
\* A run with nothing left to do ends; one that finds nothing to do leaves no trace.
Continue(s, kind, t, todo) ==
  Becomes(s, IF todo = {} THEN Idle ELSE [pc |-> kind, now |-> t, todo |-> todo])
BeginRun(s, kind, todo) ==
  run[s] = Idle /\ todo # {} /\ Continue(s, kind, now, todo)
SameOrders == UNCHANGED <<assignVars, now, deadline, out>>

-------------------------------------------------------------------------------
(* Escalations *)

\* orderSlaLevel: 0 when nothing is due.
orderSlaLevel(o, t) ==
  IF status[o] \notin ACTIVE_SLA_STATUSES THEN 0
  ELSE IF t >= deadline[o] + 1 THEN 120
  ELSE IF t >= deadline[o] THEN 100
  ELSE IF t >= deadline[o] - 1 THEN 80
  ELSE 0

Has(o, level) == escalated[o][level] > 0
\* The orders a run looks at, and what still has to be said of one.
NeverEscalated(o) == \A l \in Level : ~ Has(o, l)
NotSevereYet(o) == ~ Has(o, 120)
Unsaid(o, level) == level # 0 /\ \A l \in Level : l >= level => ~ Has(o, l)

ListSla(s) ==
  /\ BeginRun(s, "sla", {o \in Order : NotSevereYet(o) /\ Unsaid(o, orderSlaLevel(o, now))})
  /\ SameOrders /\ UNCHANGED <<messages, lock, losses>>

\* escalate reads the order again, but counts with the time its run began.
ReadSla(s, o) ==
  LET r == run[s]
      level == orderSlaLevel(o, r.now)
  IN
  /\ r.pc = "sla" /\ o \in r.todo
  /\ IF Unsaid(o, level)
       THEN Becomes(s, [pc |-> "escalate", now |-> r.now, todo |-> r.todo \ {o},
                        order |-> o, level |-> level])
       ELSE Continue(s, "sla", r.now, r.todo \ {o})
  /\ SameOrders /\ UNCHANGED <<messages, lock, losses>>

\* There is always somebody to tell: a level without a recipient is tried again by the
\* next run.  A level that was said since is refused by its unique key.
AlsoAgain(o, level) == TRUE
UniqueLevel(o, level) == ~ Has(o, level)

Escalate(s) ==
  LET r == run[s] IN
  /\ r.pc = "escalate"
  /\ escalated' = IF UniqueLevel(r.order, r.level) /\ escalated[r.order][r.level] < 2
                    THEN [escalated EXCEPT ![r.order][r.level] = @ + 1] ELSE escalated
  /\ Continue(s, "sla", r.now, r.todo)
  /\ SameOrders /\ UNCHANGED <<reminded, asked, lock, losses>>

-------------------------------------------------------------------------------
(* Reminders of a return *)

returnReminderKind(t) ==
  IF t + 1 = LoanTime THEN {"upcoming"} ELSE IF t > LoanTime THEN {"overdue"} ELSE {}

ListReturns(s) ==
  /\ BeginRun(s, "returns",
              {o \in Order : IsOnLoan(o) /\ returnReminderKind(now) \ reminded[o] # {}})
  /\ SameOrders /\ UNCHANGED <<messages, lock, losses>>

\* remind locks the row first, and then reads.
LockReminder(s, o) ==
  LET r == run[s]
      kinds == returnReminderKind(r.now) \ reminded[o]
  IN
  /\ r.pc = "returns" /\ o \in r.todo /\ Free(o)
  /\ IF IsOnLoan(o) /\ kinds # {}
       THEN /\ lock' = [lock EXCEPT ![o] = s]
            /\ Becomes(s, [pc |-> "remind", now |-> r.now, todo |-> r.todo \ {o},
                           order |-> o, kinds |-> kinds])
       ELSE Continue(s, "returns", r.now, r.todo \ {o}) /\ UNCHANGED lock
  /\ SameOrders /\ UNCHANGED <<messages, losses>>

Remind(s) ==
  LET r == run[s] IN
  /\ r.pc = "remind"
  /\ reminded' = [reminded EXCEPT ![r.order] = @ \cup r.kinds]
  /\ lock' = [lock EXCEPT ![r.order] = Nobody]
  /\ Continue(s, "returns", r.now, r.todo)
  /\ SameOrders /\ UNCHANGED <<escalated, asked, losses>>

-------------------------------------------------------------------------------
(* A user asks for the return of a loan *)

Unasked(o) == TRUE
NotJustAsked(o) == \A at \in asked[o] : at + Cooldown < now

\* A request that waited for the row counts from before the wait, which refuses more.
LockRequest(s, o) ==
  /\ Free(o) /\ IsOnLoan(o) /\ NotJustAsked(o)
  /\ StartRun(s, [pc |-> "ask", order |-> o])
  /\ lock' = [lock EXCEPT ![o] = s]
  /\ SameOrders /\ UNCHANGED <<messages, losses>>

Ask(s) ==
  LET o == run[s].order IN
  /\ run[s].pc = "ask"
  /\ asked' = [asked EXCEPT ![o] = {now}]
  /\ lock' = [lock EXCEPT ![o] = Nobody]
  /\ Becomes(s, Idle)
  /\ SameOrders /\ UNCHANGED <<escalated, reminded, losses>>

-------------------------------------------------------------------------------

Released(s) == [o \in Order |-> IF lock[o] = s THEN Nobody ELSE lock[o]]

\* A run is lost, with the rest of its list: its process dies, or one order fails in a
\* way the run does not expect; its transaction is rolled back.
Lose(s) ==
  /\ run[s] # Idle
  /\ losses < Losses /\ losses' = losses + 1
  /\ Becomes(s, Idle)
  /\ lock' = Released(s)
  /\ SameOrders /\ UNCHANGED messages

SlaStep(s) == Escalate(s) \/ \E o \in Order : ReadSla(s, o)
ReturnsStep(s) == Remind(s) \/ \E o \in Order : LockReminder(s, o)

TimedNext ==
  \/ OrderStep \/ Tick
  \/ \E o \in Order : Return(o) \/ \E s \in Asker : LockRequest(s, o)
  \/ \E s \in Asker : Ask(s)
  \/ \E s \in SlaRun : ListSla(s) \/ SlaStep(s)
  \/ \E s \in ReturnRun : ListReturns(s) \/ ReturnsStep(s)
  \/ \E s \in Run : Lose(s)

\* The timers fire for ever, and a run that was started is carried on.
Timers ==
  /\ \A s \in SlaRun : WF_allVars(ListSla(s)) /\ WF_allVars(SlaStep(s))
  /\ \A s \in ReturnRun :
       WF_allVars(ListReturns(s)) /\ WF_allVars(ReturnsStep(s))
  /\ \A s \in Asker : WF_allVars(Ask(s))

TimedSpec == TimedInit /\ [][TimedNext]_allVars /\ Timers

-------------------------------------------------------------------------------
(* Properties *)

\* Two server processes check the deadlines at the same time, and a run that was
\* interrupted is repeated: each level of a delay is announced once all the same.
EscalatedOnce == \A o \in Order, l \in Level : escalated[o][l] <= 1

\* A borrower who has returned the loan is not reminded of it: a reminder and a return
\* of the same loan exclude each other, whichever came first.
RemindedWhileOut ==
  [][\A o \in Order : reminded'[o] # reminded[o] => IsOnLoan(o)]_allVars

\* However many people ask for the return of a loan at the same moment, its borrower is
\* not asked twice within the time a request is given.
AskedApart ==
  [][\A o \in Order : asked'[o] # asked[o] =>
       \A s \in asked[o], t \in asked'[o] : s + Cooldown < t]_allVars

\* A severe delay is announced in the end, whatever was announced before it, and
\* although runs were lost: unless the order is no longer open.
EscalationArrives ==
  \A o \in Order :
    (status[o] \in ACTIVE_SLA_STATUSES /\ now > deadline[o]) ~>
      (Has(o, 120) \/ status[o] \notin ACTIVE_SLA_STATUSES \/ now <= deadline[o])
===============================================================================
