----------------------------- MODULE DeliveryQueues -----------------------------
(***************************************************************************)
(* The two delivery queues in the database: status webhooks                *)
(* (integrations/webhook.service.ts) and reminder mails                    *)
(* (notifications/email-delivery.service.ts).  A timer of every server     *)
(* process reads the rows that are due, claims each with a lease, sends    *)
(* it, and writes the result.  An old and a new process overlap while the  *)
(* server is restarted, and a process may die at any step.                 *)
(*                                                                         *)
(* The queues share the claim and differ in the rest: a mail's result is   *)
(* written only by the attempt that owns the row, a webhook's by whoever   *)
(* has one; a mail re-reads its subject after the claim, a webhook is sent *)
(* on what was read with the list.  Rows do not interact, so a server      *)
(* looks at one row at a time here.                                        *)
(*                                                                         *)
(* Time is relative: wait[d] runs down to the moment row d is due, age[w]  *)
(* up from the moment server w read its list.                              *)
(***************************************************************************)
EXTENDS Integers, FiniteSets

CONSTANTS
  Delivery,     \* rows of both queues
  Webhook,      \* the rows of webhook_deliveries; the others are mails
  Server,       \* server processes that run at the same time
  MaxAttempts,  \* a webhook fails for good at this attempt
  Lease,        \* the time until another server may take a claimed row
  RetryDelay,   \* the time until a failed attempt is repeated
  MaxRows,      \* bound of the rows in the queues
  MaxTrouble    \* bound of the delays, crashes and mail errors of a behaviour

ASSUME QueueAssumption ==
  /\ Webhook \subseteq Delivery
  /\ MaxAttempts \in Nat \ {0} /\ Lease \in Nat \ {0} /\ RetryDelay \in Nat \ {0}
  /\ MaxRows \in Nat /\ MaxTrouble \in Nat

Mail == Delivery \ Webhook

VARIABLES
  status,     \* status of a row
  attempts,   \* attempts of a row
  wait,       \* time left until nextAttemptAt (pending) or leaseUntil (sending)
  addressee,  \* the rows whose endpoint is active, whose user may have the mail
  open,       \* the mails whose loan is open and whose notice fits its return date
  job,        \* what each server does: a record with its step, pc
  age,        \* time since the server read its list (its `now`)
  accepted,   \* how often a recipient answered that it has the message
  lost,       \* how often an answer was lost: to the end of a lease, or to a failed write
  trouble     \* delays, crashes and mail errors so far

row == <<status, attempts, wait>>
history == <<accepted, lost>>
vars == <<row, addressee, open, job, age, history, trouble>>

Idle == [pc |-> "idle"]

\* A row that is not used in a behaviour is "absent".
Statuses == {"absent", "pending", "sending", "delivered", "sent", "failed", "skipped"}
Queued(d) == status[d] \in {"pending", "sending"}

Init ==
  /\ status \in [Delivery -> {"absent", "pending"}]
  /\ Cardinality({d \in Delivery : Queued(d)}) <= MaxRows
  /\ attempts = [d \in Delivery |-> 0]
  /\ wait = [d \in Delivery |-> 0]
  /\ addressee = {d \in Delivery : Queued(d)}
  /\ open = {d \in Mail : Queued(d)}
  /\ job = [w \in Server |-> Idle]
  /\ age = [w \in Server |-> 0]
  /\ accepted = [d \in Delivery |-> 0]
  /\ lost = [d \in Delivery |-> 0]
  /\ trouble = 0

Goto(w, r) == job' = [job EXCEPT ![w] = r]
Trouble == trouble < MaxTrouble /\ trouble' = trouble + 1

-------------------------------------------------------------------------------
(* processDue and processOne *)

\* The list of rows that are due; a crash leaves rows that are sending.
DuePending(d) == status[d] = "pending" /\ wait[d] <= 0
Due(d) == Queued(d) /\ wait[d] <= 0

ReadDue(w, d) ==
  /\ job[w] = Idle
  /\ Due(d)
  /\ Goto(w, [pc |-> "claim", row |-> d, saw |-> status[d], attempt |-> attempts[d] + 1,
              addressee |-> d \in addressee])
  /\ age' = [age EXCEPT ![w] = 0]
  /\ UNCHANGED <<row, addressee, open, history, trouble>>

\* WHERE status = what was read AND the row was due at the time of the read.
ClaimById(w, j) == TRUE
StillDue(w, j) == status[j.row] = j.saw /\ wait[j.row] <= - age[w]

\* A mail's lease counts from the read of the list.
LeaseLeft(w, d) == IF d \in Webhook THEN Lease ELSE Lease - age[w]

\* current: whether the recipient, or the loan, was still good when the attempt began.
Claim(w) ==
  LET j == job[w]
      d == j.row
  IN
  /\ j.pc = "claim"
  /\ \/ /\ StillDue(w, j)
        /\ status' = [status EXCEPT ![d] = "sending"]
        /\ attempts' = [attempts EXCEPT ![d] = @ + 1]
        /\ wait' = [wait EXCEPT ![d] = LeaseLeft(w, d)]
        /\ lost' = [lost EXCEPT ![d] = IF status[d] = "sending" THEN @ + 1 ELSE @]
        /\ Goto(w, [pc |-> IF d \in Mail THEN "check" ELSE IF j.addressee THEN "send" ELSE "report",
                    row |-> d, attempt |-> j.attempt, addressee |-> j.addressee,
                    current |-> IF d \in Mail THEN d \in open ELSE d \in addressee,
                    outcome |-> "disabled"])
     \/ /\ ~ StillDue(w, j)
        /\ Goto(w, Idle)
        /\ UNCHANGED <<row, lost>>
  /\ UNCHANGED <<addressee, open, age, accepted, trouble>>

\* A mail is sent only when its loan, read now, is still open.
ListedUser(j) == j.addressee
StillWanted(j) == j.addressee /\ j.row \in open

CheckMail(w) ==
  /\ job[w].pc = "check"
  /\ Goto(w, [job[w] EXCEPT !.pc = IF StillWanted(job[w]) THEN "send" ELSE "report",
                            !.outcome = "skip"])
  /\ UNCHANGED <<row, addressee, open, age, history, trouble>>

\* An HTTP request, or an SMTP session, until its answer or its time-out.
Send(w, outcome) ==
  LET j == job[w] IN
  /\ j.pc = "send"
  /\ outcome \in {"ok", "error"} \cup (IF j.row \in Mail THEN {"rejected"} ELSE {})
  /\ Goto(w, [j EXCEPT !.pc = "report", !.outcome = outcome])
  /\ accepted' = [accepted EXCEPT ![j.row] = IF outcome = "ok" THEN @ + 1 ELSE @]
  /\ IF j.row \in Mail /\ outcome # "ok" THEN Trouble ELSE UNCHANGED trouble
  /\ UNCHANGED <<row, addressee, open, age, lost>>

Write(d, s, t) == status' = [status EXCEPT ![d] = s] /\ wait' = [wait EXCEPT ![d] = t]

\* The write of a good answer fails: the error handler takes the attempt for failed.
AnswerLost(w) ==
  LET j == job[w] IN
  /\ j.pc = "report" /\ j.outcome = "ok"
  /\ Trouble
  /\ lost' = [lost EXCEPT ![j.row] = @ + 1]
  /\ Goto(w, [j EXCEPT !.outcome = "error"])
  /\ UNCHANGED <<row, addressee, open, age, accepted>>

\* A fifth attempt that fails is the last.
GivesUpLate(j) == j.attempt > MaxAttempts
GivesUp(j) == j.attempt >= MaxAttempts

\* prisma.webhookDelivery.update by id, whatever happened to the row since.
ReportWebhook(w) ==
  LET j == job[w] IN
  /\ j.pc = "report" /\ j.row \in Webhook
  /\ IF j.outcome = "ok" THEN Write(j.row, "delivered", 0)
     ELSE IF GivesUp(j) \/ ~ j.addressee THEN Write(j.row, "failed", 0)
     ELSE Write(j.row, "pending", RetryDelay)
  /\ Goto(w, Idle)
  /\ UNCHANGED <<attempts, addressee, open, age, history, trouble>>

\* WHERE status = 'sending' AND attempts = the number of this attempt.
Unfenced(j) == TRUE
OwnsRow(j) == status[j.row] = "sending" /\ attempts[j.row] = j.attempt

ReportMail(w) ==
  LET j == job[w] IN
  /\ j.pc = "report" /\ j.row \in Mail
  /\ IF ~ OwnsRow(j) THEN UNCHANGED <<status, wait>>
     ELSE CASE j.outcome = "ok"       -> Write(j.row, "sent", 0)
            [] j.outcome = "skip"     -> Write(j.row, "skipped", 0)
            [] j.outcome = "rejected" -> Write(j.row, "failed", 0)
            [] OTHER                  -> Write(j.row, "pending", RetryDelay - age[w])
  /\ Goto(w, Idle)
  /\ UNCHANGED <<attempts, addressee, open, age, history, trouble>>

-------------------------------------------------------------------------------
(* Everything else *)

\* An administrator retries a mail that failed.
retryFailed(d) ==
  /\ d \in Mail /\ status[d] = "failed"
  /\ Write(d, IF d \in addressee \cap open THEN "pending" ELSE "skipped", 0)
  /\ UNCHANGED <<attempts, addressee, open, job, age, history, trouble>>

\* deactivateEndpoint; a user deactivated or moved to another tenant.
Disable(d) ==
  /\ d \in addressee
  /\ addressee' = addressee \ {d}
  /\ UNCHANGED <<row, open, job, age, history, trouble>>

\* The loan is returned, or gets another return date.
EndLoan(d) ==
  /\ d \in open
  /\ open' = open \ {d}
  /\ UNCHANGED <<row, addressee, job, age, history, trouble>>

\* Time passes: it is trouble while some server is at work.
Tick ==
  /\ IF \A w \in Server : job[w] = Idle THEN UNCHANGED trouble ELSE Trouble
  /\ wait' = [d \in Delivery |-> IF Queued(d) /\ wait[d] > - MaxTrouble THEN wait[d] - 1
                                                                          ELSE wait[d]]
  /\ age' = [w \in Server |-> IF job[w] = Idle THEN 0 ELSE age[w] + 1]
  /\ UNCHANGED <<status, attempts, addressee, open, job, history>>

\* The process dies, or its database fails it; its row keeps its lease.
Crash(w) ==
  /\ job[w] # Idle
  /\ Trouble
  /\ Goto(w, Idle)
  /\ UNCHANGED <<row, addressee, open, age, history>>

Work(w) == \/ Claim(w) \/ CheckMail(w) \/ ReportWebhook(w) \/ ReportMail(w)
           \/ \E outcome \in {"ok", "error", "rejected"} : Send(w, outcome)
Poll(w) == \E d \in Delivery : ReadDue(w, d)

Next ==
  \/ \E w \in Server : Poll(w) \/ Work(w) \/ AnswerLost(w) \/ Crash(w)
  \/ \E d \in Delivery : retryFailed(d) \/ Disable(d) \/ EndLoan(d)
  \/ Tick

Spec == Init /\ [][Next]_vars

\* The timers keep running, requests time out, and mail errors end (see Trouble).
FairSpec == /\ Spec
            /\ WF_vars(Tick)
            /\ \A w \in Server : WF_vars(Poll(w)) /\ WF_vars(Work(w))

-------------------------------------------------------------------------------

\* What a server knows of a row it has listed, and of one it has claimed.
Listed == [pc : {"claim"}, row : Delivery, saw : {"pending", "sending"}, attempt : Nat,
           addressee : BOOLEAN]
Attempt == [pc : {"check", "send", "report"}, row : Delivery, attempt : Nat,
            addressee : BOOLEAN, current : BOOLEAN,
            outcome : {"ok", "error", "rejected", "skip", "disabled"}]

TypeOK ==
  /\ status \in [Delivery -> Statuses]
  /\ \A d \in Webhook : status[d] \notin {"sent", "skipped"}
  /\ \A d \in Mail : status[d] # "delivered"
  /\ attempts \in [Delivery -> Nat] /\ accepted \in [Delivery -> Nat] /\ lost \in [Delivery -> Nat]
  /\ wait \in [Delivery -> Int]
  /\ addressee \subseteq Delivery /\ open \subseteq Mail
  /\ job \in [Server -> [pc : {"idle"}] \cup Listed \cup Attempt]
  /\ age \in [Server -> Nat] /\ trouble \in Nat

\* test-notification-email.mjs:114, "email is sent once": a message that a recipient
\* has accepted is sent again only when an answer was lost, because the lease ran out
\* under a server that was slow or died or because its write failed, and only once for
\* each answer lost.
OnceUnlessLost == \A d \in Delivery : accepted[d] <= 1 + lost[d]

\* A webhook is attempted five times; only attempts whose answer was lost add to that,
\* also when a slow attempt of long ago reports last.
AttemptsBounded == \A d \in Webhook : attempts[d] <= MaxAttempts + lost[d]

\* An attempt that begins after the loan was returned, or got another return date, sends
\* no mail, however old the list of the server is.
NoLateMail == \A w \in Server : job[w].pc = "send" /\ job[w].row \in Mail => job[w].current

\* What is recorded of a mail is final: a slow server whose row was taken over does
\* not bring a mail that was sent back into the queue.
SentIsFinal ==
  [][\A d \in Mail : status[d] \in {"sent", "skipped"} => status'[d] = status[d]]_vars

\* Every message that is queued is brought to an end, also when servers die in the
\* middle of it.
DeliveriesEnd == \A d \in Delivery : Queued(d) ~> ~ Queued(d)
===============================================================================
