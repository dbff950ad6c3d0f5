-------------------------- MODULE DeliveryQueuesProofs --------------------------
(***************************************************************************)
(* The safety of the two delivery queues, for any number of rows and of    *)
(* servers and whatever they meet: what is recorded of a mail is final, an *)
(* attempt that begins after the loan ended sends nothing, and repetitions *)
(* are paid for, one by one, with answers that were lost.                  *)
(***************************************************************************)
EXTENDS DeliveryQueues, FiniteSetTheorems, TLAPS

\* What a server remembers of its row: a listed row was due, and an attempt on a mail
\* whose loan is still open, or that was let through, began while it was open.
JobInv ==
  /\ status \in [Delivery -> Statuses]
  /\ job \in [Server -> [pc : {"idle"}] \cup Listed \cup Attempt]
  /\ attempts \in [Delivery -> Nat]
  /\ \A w \in Server :
       /\ job[w].pc = "check" /\ job[w].row \in open => job[w].current
       /\ job[w].pc = "send" /\ job[w].row \in Mail => job[w].current

LEMMA JobInvInit == ASSUME QueueAssumption, Init PROVE JobInv
<1>1. status \in [Delivery -> Statuses]
  BY DEF Init, Statuses
<1>2. attempts \in [Delivery -> Nat]
  BY DEF Init
<1>3. job = [w \in Server |-> [pc |-> "idle"]]
  BY DEF Init, Idle
<1>4. QED
  BY <1>1, <1>2, <1>3 DEF JobInv

LEMMA JobInvStep == ASSUME QueueAssumption, JobInv, [Next]_vars PROVE JobInv'
<1> USE DEF JobInv, Listed
<1>1. ASSUME NEW w \in Server, NEW d \in Delivery, ReadDue(w, d) PROVE JobInv'
  BY <1>1 DEF ReadDue, Due, Queued, Goto, row, Idle, Attempt
<1>2. ASSUME NEW w \in Server, Claim(w) PROVE JobInv'
  <2> DEFINE j == job[w]
             d == job[w].row
  <2>1. j \in Listed /\ d \in Delivery
    BY <1>2 DEF Claim, Attempt
  <2>2. CASE StillDue(w, j)
    <3>1. status' \in [Delivery -> Statuses] /\ attempts' \in [Delivery -> Nat]
      BY <1>2, <2>1, <2>2 DEF Claim, Statuses
    <3>2. job' = [job EXCEPT ![w] =
                   [pc |-> IF d \in Mail THEN "check" ELSE IF j.addressee THEN "send" ELSE "report",
                    row |-> d, attempt |-> j.attempt, addressee |-> j.addressee,
                    current |-> IF d \in Mail THEN d \in open ELSE d \in addressee,
                    outcome |-> "disabled"]]
      BY <1>2, <2>2 DEF Claim, Goto
    <3>3. open' = open
      BY <1>2 DEF Claim
    <3>4. (d \in open) \in BOOLEAN /\ (d \in addressee) \in BOOLEAN
      OBVIOUS
    <3>5. (IF d \in Mail THEN d \in open ELSE d \in addressee) \in BOOLEAN
      BY <3>4
    <3>6. QED
      BY <2>1, <3>1, <3>2, <3>3, <3>5 DEF Mail, Attempt
  <2>3. CASE ~ StillDue(w, j)
    BY <1>2, <2>3 DEF Claim, Goto, row, Idle, Attempt
  <2>4. QED
    BY <2>2, <2>3
<1>3. ASSUME NEW w \in Server, CheckMail(w) PROVE JobInv'
  <2> DEFINE r == [job[w] EXCEPT !.pc = IF StillWanted(job[w]) THEN "send" ELSE "report",
                                 !.outcome = "skip"]
  <2>1. job[w] \in Attempt
    BY <1>3 DEF CheckMail, Attempt
  <2>2. r \in Attempt /\ r.pc \in {"send", "report"}
    BY <2>1 DEF Attempt
  <2>3. r.pc = "send" => r.current
    BY <1>3, <2>1 DEF CheckMail, StillWanted, Attempt
  <2>4. job' = [job EXCEPT ![w] = r] /\ open' = open /\ status' = status /\ attempts' = attempts
    BY <1>3 DEF CheckMail, Goto, row
  <2> HIDE DEF r
  <2>5. QED
    BY <2>2, <2>3, <2>4 DEF Attempt
<1>4. ASSUME NEW w \in Server, NEW outcome \in {"ok", "error", "rejected"}, Send(w, outcome)
      PROVE JobInv'
  <2> DEFINE r == [job[w] EXCEPT !.pc = "report", !.outcome = outcome]
  <2>1. job[w] \in Attempt
    BY <1>4 DEF Send, Attempt
  <2>2. r \in Attempt /\ r.pc = "report"
    BY <2>1 DEF Attempt
  <2>3. job' = [job EXCEPT ![w] = r] /\ open' = open /\ status' = status /\ attempts' = attempts
    BY <1>4 DEF Send, Goto, row
  <2> HIDE DEF r
  <2>4. QED
    BY <2>2, <2>3 DEF Attempt
<1>5. ASSUME NEW w \in Server, AnswerLost(w) PROVE JobInv'
  <2> DEFINE r == [job[w] EXCEPT !.outcome = "error"]
  <2>1. job[w] \in Attempt
    BY <1>5 DEF AnswerLost, Attempt
  <2>2. r \in Attempt /\ r.pc = "report"
    BY <1>5, <2>1 DEF AnswerLost, Attempt
  <2>3. job' = [job EXCEPT ![w] = r] /\ open' = open /\ status' = status /\ attempts' = attempts
    BY <1>5 DEF AnswerLost, Goto, row
  <2> HIDE DEF r
  <2>4. QED
    BY <2>2, <2>3 DEF Attempt
<1>6. ASSUME NEW w \in Server, ReportWebhook(w) PROVE JobInv'
  BY <1>6 DEF ReportWebhook, Write, Goto, Idle, Statuses, Attempt
<1>7. ASSUME NEW w \in Server, ReportMail(w) PROVE JobInv'
  BY <1>7 DEF ReportMail, Write, Goto, Idle, Statuses, Attempt
<1>8. ASSUME NEW w \in Server, Crash(w) PROVE JobInv'
  BY <1>8 DEF Crash, Goto, Idle, row, Attempt
<1>9. ASSUME NEW d \in Delivery, retryFailed(d) PROVE JobInv'
  BY <1>9 DEF retryFailed, Write, Statuses
<1>10. ASSUME NEW d \in Delivery, Disable(d) PROVE JobInv'
  BY <1>10 DEF Disable, row
<1>11. ASSUME NEW d \in Delivery, EndLoan(d) PROVE JobInv'
  BY <1>11 DEF EndLoan, row
<1>12. CASE Tick
  BY <1>12 DEF Tick
<1>13. CASE UNCHANGED vars
  BY <1>13 DEF vars, row
<1>14. QED
  BY <1>1, <1>2, <1>3, <1>4, <1>5, <1>6, <1>7, <1>8, <1>9, <1>10, <1>11, <1>12, <1>13
     DEF Next, Poll, Work

LEMMA JobInvariant == ASSUME QueueAssumption PROVE Spec => []JobInv
<1>1. Init => JobInv
  BY JobInvInit
<1>2. JobInv /\ [Next]_vars => JobInv'
  BY JobInvStep
<1>3. QED
  BY <1>1, <1>2, PTL DEF Spec

\* The rest of the types.
LEMMA TypeStep ==
  ASSUME QueueAssumption, JobInv, JobInv', TypeOK, [Next]_vars
  PROVE  TypeOK'
<1> USE DEF QueueAssumption
<1> DEFINE Kinds == /\ \A d \in Webhook : status[d] \notin {"sent", "skipped"}
                    /\ \A d \in Mail : status[d] # "delivered"
           Counts == /\ accepted \in [Delivery -> Nat] /\ lost \in [Delivery -> Nat]
                     /\ wait \in [Delivery -> Int] /\ age \in [Server -> Nat] /\ trouble \in Nat
           Rest == Kinds /\ Counts /\ addressee \subseteq Delivery /\ open \subseteq Mail
<1>1. Rest
  BY DEF TypeOK
<1> SUFFICES Rest'
  BY DEF TypeOK, JobInv
<1> USE DEF Mail
<1>2. \A w \in Server : job[w].pc # "idle" => job[w].row \in Delivery
  BY DEF JobInv, Listed, Attempt
<1>3. ASSUME NEW w \in Server, NEW d \in Delivery, ReadDue(w, d) PROVE Rest'
  BY <1>1, <1>3 DEF ReadDue, Goto, row, history
<1>4. ASSUME NEW w \in Server, Claim(w) PROVE Rest'
  <2>1. job[w].row \in Delivery
    BY <1>2, <1>4 DEF Claim
  <2>2. LeaseLeft(w, job[w].row) \in Int
    BY <1>1 DEF LeaseLeft
  <2>3. CASE StillDue(w, job[w])
    <3>1. Kinds'
      BY <1>1, <1>4, <2>1, <2>3 DEF Claim, JobInv
    <3>2. accepted' = accepted /\ age' = age /\ trouble' = trouble
          /\ addressee' = addressee /\ open' = open
      BY <1>4 DEF Claim
    <3>3. wait' \in [Delivery -> Int]
      BY <1>1, <1>4, <2>2, <2>3 DEF Claim
    <3>4. lost' \in [Delivery -> Nat]
      BY <1>1, <1>4, <2>1, <2>3 DEF Claim
    <3> QED BY <1>1, <3>1, <3>2, <3>3, <3>4
  <2>4. CASE ~ StillDue(w, job[w])
    BY <1>1, <1>4, <2>4 DEF Claim, row
  <2> QED BY <2>3, <2>4
<1>5. ASSUME NEW w \in Server, CheckMail(w) PROVE Rest'
  BY <1>1, <1>5 DEF CheckMail, row, history
<1>6. ASSUME NEW w \in Server, NEW outcome \in {"ok", "error", "rejected"}, Send(w, outcome)
      PROVE Rest'
  BY <1>1, <1>2, <1>6 DEF Send, row, Trouble
<1>7. ASSUME NEW w \in Server, AnswerLost(w) PROVE Rest'
  BY <1>1, <1>2, <1>7 DEF AnswerLost, row, Trouble
<1>8. ASSUME NEW w \in Server, ReportWebhook(w) PROVE Rest'
  BY <1>1, <1>8 DEF ReportWebhook, Write, history, JobInv
<1>9. ASSUME NEW w \in Server, ReportMail(w) PROVE Rest'
  <2>1. CASE OwnsRow(job[w])
    <3>1. RetryDelay - age[w] \in Int
      BY <1>1
    <3>2. PICK s \in {"sent", "skipped", "failed", "pending"}, t \in Int : Write(job[w].row, s, t)
      BY <1>9, <2>1, <3>1 DEF ReportMail
    <3>3. job[w].row \in Mail
      BY <1>9 DEF ReportMail
    <3> QED BY <1>1, <1>9, <3>2, <3>3 DEF ReportMail, Write, history, JobInv
  <2>2. CASE ~ OwnsRow(job[w])
    BY <1>1, <1>9, <2>2 DEF ReportMail, history
  <2> QED BY <2>1, <2>2
<1>10. ASSUME NEW w \in Server, Crash(w) PROVE Rest'
  BY <1>1, <1>10 DEF Crash, row, history, Trouble
<1>11. ASSUME NEW d \in Delivery, retryFailed(d) PROVE Rest'
  BY <1>1, <1>11 DEF retryFailed, Write, history, JobInv
<1>12. ASSUME NEW d \in Delivery, Disable(d) \/ EndLoan(d) PROVE Rest'
  BY <1>1, <1>12 DEF Disable, EndLoan, row, history
<1>13. CASE Tick
  BY <1>1, <1>13 DEF Tick, Trouble, history, Queued
<1>14. CASE UNCHANGED vars
  BY <1>1, <1>14 DEF vars, row, history
<1> QED
  BY <1>3, <1>4, <1>5, <1>6, <1>7, <1>8, <1>9, <1>10, <1>11, <1>12, <1>13, <1>14
     DEF Next, Poll, Work

\* Rows, servers and counters keep their types.
THEOREM QueuesTypeCorrect == ASSUME QueueAssumption PROVE Spec => []TypeOK
<1>1. Init => TypeOK
  <2> SUFFICES ASSUME Init PROVE TypeOK
    OBVIOUS
  <2>1. /\ status \in [Delivery -> Statuses] /\ \A d \in Delivery : status[d] \in {"absent", "pending"}
    BY DEF Init, Statuses
  <2>2. job \in [Server -> [pc : {"idle"}] \cup Listed \cup Attempt]
    BY DEF Init, Idle
  <2> QED BY <2>1, <2>2 DEF Init, TypeOK, Mail, QueueAssumption
<1>2. JobInv /\ JobInv' /\ TypeOK /\ [Next]_vars => TypeOK'
  BY TypeStep
<1> QED BY <1>1, <1>2, JobInvariant, PTL DEF Spec

\* An attempt that begins after the loan was returned sends no mail, for any number of
\* servers and rows.
THEOREM NoMailAfterReturn == ASSUME QueueAssumption PROVE Spec => []NoLateMail
<1>1. JobInv => NoLateMail
  BY DEF JobInv, NoLateMail
<1>2. QED
  BY <1>1, JobInvariant, PTL

\* A mail that was sent, or skipped, stays so: every write to a row in these statuses is
\* refused by its own condition.
LEMMA SentStep ==
  ASSUME JobInv, [Next]_vars, NEW d \in Mail, status[d] \in {"sent", "skipped"}
  PROVE  status'[d] = status[d]
<1> USE DEF Mail
<1> SUFFICES ASSUME Next PROVE status'[d] = status[d]
  BY DEF vars, row
<1>1. ASSUME NEW w \in Server, NEW e \in Delivery, ReadDue(w, e) PROVE status'[d] = status[d]
  BY <1>1 DEF ReadDue, row
<1>2. ASSUME NEW w \in Server, Claim(w) PROVE status'[d] = status[d]
  <2>1. CASE StillDue(w, job[w])
    <3>1. job[w].saw \in {"pending", "sending"} /\ job[w].row \in Delivery
      BY <1>2 DEF Claim, JobInv, Listed, Attempt
    <3>2. job[w].row # d
      BY <2>1, <3>1 DEF StillDue
    <3>3. QED
      BY <1>2, <2>1, <3>1, <3>2 DEF Claim, JobInv
  <2>2. CASE ~ StillDue(w, job[w])
    BY <1>2, <2>2 DEF Claim, row
  <2>3. QED
    BY <2>1, <2>2
<1>3. ASSUME NEW w \in Server, CheckMail(w) PROVE status'[d] = status[d]
  BY <1>3 DEF CheckMail, row
<1>4. ASSUME NEW w \in Server, NEW outcome \in {"ok", "error", "rejected"}, Send(w, outcome)
      PROVE status'[d] = status[d]
  BY <1>4 DEF Send, row
<1>5. ASSUME NEW w \in Server, AnswerLost(w) PROVE status'[d] = status[d]
  BY <1>5 DEF AnswerLost, row
<1>6. ASSUME NEW w \in Server, ReportWebhook(w) PROVE status'[d] = status[d]
  <2>1. job[w].row # d
    BY <1>6 DEF ReportWebhook
  <2>2. QED
    BY <1>6, <2>1 DEF ReportWebhook, Write, JobInv
<1>7. ASSUME NEW w \in Server, ReportMail(w) PROVE status'[d] = status[d]
  <2>1. CASE OwnsRow(job[w])
    <3>1. job[w].row # d
      BY <2>1 DEF OwnsRow
    <3>2. QED
      BY <1>7, <3>1 DEF ReportMail, Write, JobInv
  <2>2. CASE ~ OwnsRow(job[w])
    BY <1>7, <2>2 DEF ReportMail
  <2>3. QED
    BY <2>1, <2>2
<1>8. ASSUME NEW w \in Server, Crash(w) PROVE status'[d] = status[d]
  BY <1>8 DEF Crash, row
<1>9. ASSUME NEW e \in Delivery, retryFailed(e) PROVE status'[d] = status[d]
  BY <1>9 DEF retryFailed, Write, JobInv
<1>10. ASSUME NEW e \in Delivery, Disable(e) \/ EndLoan(e) PROVE status'[d] = status[d]
  BY <1>10 DEF Disable, EndLoan, row
<1>11. CASE Tick
  BY <1>11 DEF Tick
<1>12. QED
  BY <1>1, <1>2, <1>3, <1>4, <1>5, <1>6, <1>7, <1>8, <1>9, <1>10, <1>11 DEF Next, Poll, Work

\* However many servers hold the row or lost it, what is recorded of a mail is final.
THEOREM SentMailIsFinal == ASSUME QueueAssumption PROVE Spec => SentIsFinal
<1>1. JobInv /\ [Next]_vars =>
        [\A d \in Mail : status[d] \in {"sent", "skipped"} => status'[d] = status[d]]_vars
  BY SentStep
<1>2. QED
  BY <1>1, JobInvariant, PTL DEF Spec, SentIsFinal

-------------------------------------------------------------------------------
(* How often a message is accepted, and a webhook attempted *)

One(P) == IF P THEN 1 ELSE 0

\* The servers whose attempt on row d was not answered well, so far: each of them may
\* still have it accepted, or put the row back for another attempt.
Busy(d) == {w \in Server : /\ job[w].pc \in {"check", "send", "report"} /\ job[w].row = d
                           /\ ~ (job[w].pc = "report" /\ job[w].outcome = "ok")}

\* The row waits for an attempt, or for somebody to ask for one.
Again(d) == One(status[d] = "pending" \/ (d \in Mail /\ status[d] = "failed"))

\* One acceptance is free.  Every other one, made or still possible, was paid for when
\* an answer was lost: an attempt that reports a failure gives its place to the next.
OnceInv ==
  \A d \in Delivery : /\ IsFiniteSet(Busy(d))
                      /\ accepted[d] + Cardinality(Busy(d)) + Again(d) <= 1 + lost[d]

\* The servers whose attempt on row d may put it back into the queue.
Early(d) == {w \in Server : /\ job[w].pc \in {"check", "send", "report"} /\ job[w].row = d
                            /\ job[w].attempt < MaxAttempts}

\* Once a webhook had all its attempts, it gets another only from an attempt that was
\* taken over while it could still put the row back.
EarlyInv ==
  \A d \in Webhook :
    /\ IsFiniteSet(Early(d))
    /\ Cardinality(Early(d)) + One(status[d] = "pending") <= 1 + lost[d]
    /\ attempts[d] >= MaxAttempts =>
         attempts[d] + Cardinality(Early(d)) + One(status[d] = "pending") <= MaxAttempts + lost[d]

\* A server that still finds its row due counts its attempt right: whoever wrote the
\* row since the list was read made it due later than that.
CountsRight(w) ==
  LET d == job[w].row IN
  job[w].pc = "claim" /\ d \in Webhook =>
    \/ job[w].attempt = attempts[d] + 1
    \/ ~ Queued(d)
    \/ wait[d] + age[w] > 0

BoundInv == EarlyInv /\ \A w \in Server : CountsRight(w)

\* Two sets that differ in one element at most.
LEMMA OneElement ==
  ASSUME NEW S, NEW T, NEW w, IsFiniteSet(S), S \ {w} = T \ {w}
  PROVE  /\ IsFiniteSet(T) /\ Cardinality(S) \in Nat /\ Cardinality(T) \in Nat
         /\ Cardinality(T) + One(w \in S) = Cardinality(S) + One(w \in T)
<1>1. ASSUME NEW R, IsFiniteSet(R)
      PROVE  /\ IsFiniteSet(R \ {w}) /\ Cardinality(R) \in Nat
             /\ Cardinality(R) = Cardinality(R \ {w}) + One(w \in R)
  <2>1. /\ IsFiniteSet(R \ {w})
        /\ Cardinality(R \ {w}) = IF w \in R THEN Cardinality(R) - 1 ELSE Cardinality(R)
    BY <1>1, FS_RemoveElement
  <2>2. Cardinality(R) \in Nat
    BY <1>1, FS_CardinalityType
  <2> QED
    BY <2>1, <2>2 DEF One
<1>2. IsFiniteSet(T)
  <2>1. IsFiniteSet((T \ {w}) \cup {w})
    BY <1>1, FS_AddElement
  <2> QED
    BY <2>1, FS_Subset
<1>3. /\ Cardinality(S) \in Nat
      /\ Cardinality(S) = Cardinality(S \ {w}) + One(w \in S)
  BY <1>1
<1>4. /\ Cardinality(T) \in Nat
      /\ Cardinality(T) = Cardinality(S \ {w}) + One(w \in T)
  BY <1>1, <1>2
<1>5. Cardinality(S \ {w}) \in Nat
  <2>1. IsFiniteSet(S \ {w})
    BY <1>1
  <2> QED
    BY <2>1, FS_CardinalityType
<1>6. One(w \in S) \in Nat /\ One(w \in T) \in Nat
  BY DEF One
<1> QED
  BY <1>2, <1>3, <1>4, <1>5, <1>6

\* A step of one server, at most, that pays for what it adds.
LEMMA OncePaid ==
  ASSUME TypeOK, OnceInv, NEW w, NEW d \in Delivery, accepted'[d] \in Nat, lost'[d] \in Nat,
         \A v \in Server \ {w} : job'[v] = job[v],
         accepted'[d] + One(w \in Busy(d)') + Again(d)' + lost[d]
           <= accepted[d] + One(w \in Busy(d)) + Again(d) + lost'[d]
  PROVE  IsFiniteSet(Busy(d)') /\ accepted'[d] + Cardinality(Busy(d)') + Again(d)' <= 1 + lost'[d]
<1>1. Busy(d) \ {w} = Busy(d)' \ {w}
  BY DEF Busy
<1>2. IsFiniteSet(Busy(d)) /\ accepted[d] + Cardinality(Busy(d)) + Again(d) <= 1 + lost[d]
  BY DEF OnceInv
<1>3. /\ IsFiniteSet(Busy(d)') /\ Cardinality(Busy(d)) \in Nat /\ Cardinality(Busy(d)') \in Nat
      /\ Cardinality(Busy(d)') + One(w \in Busy(d)) = Cardinality(Busy(d)) + One(w \in Busy(d)')
  BY <1>1, <1>2, OneElement
<1>4. Again(d) \in Nat /\ Again(d)' \in Nat /\ accepted[d] \in Nat /\ lost[d] \in Nat
  BY DEF Again, One, TypeOK
<1>5. One(w \in Busy(d)) \in Nat /\ One(w \in Busy(d)') \in Nat
  BY DEF One
<1> HIDE DEF Again, One
<1> QED
  BY <1>2, <1>3, <1>4, <1>5

\* No attempt is under way at the start, and every row waits at most.
LEMMA OnceInit == ASSUME Init PROVE OnceInv
<1> SUFFICES ASSUME NEW d \in Delivery
             PROVE  /\ IsFiniteSet(Busy(d))
                    /\ accepted[d] + Cardinality(Busy(d)) + Again(d) <= 1 + lost[d]
  BY DEF OnceInv
<1>1. Busy(d) = {}
  BY DEF Init, Busy, Idle
<1>2. IsFiniteSet(Busy(d)) /\ Cardinality(Busy(d)) = 0
  BY <1>1, FS_EmptySet
<1>3. accepted[d] = 0 /\ lost[d] = 0
  BY DEF Init
<1> QED
  BY <1>2, <1>3 DEF Again, One

LEMMA OnceStep == ASSUME QueueAssumption, TypeOK, TypeOK', OnceInv, [Next]_vars PROVE OnceInv'
<1> SUFFICES ASSUME NEW d \in Delivery
             PROVE  /\ IsFiniteSet(Busy(d)')
                    /\ accepted'[d] + Cardinality(Busy(d)') + Again(d)' <= 1 + lost'[d]
  BY DEF OnceInv
<1>1. /\ accepted[d] \in Nat /\ lost[d] \in Nat /\ accepted'[d] \in Nat /\ lost'[d] \in Nat
      /\ status[d] \in Statuses
      /\ status \in [Delivery -> Statuses] /\ accepted \in [Delivery -> Nat] /\ lost \in [Delivery -> Nat]
      /\ \A w \in Server : job[w] \in [pc : {"idle"}] \cup Listed \cup Attempt
      /\ \A w \in Server : job[w] \in Attempt => job[w].row \in Delivery
  BY DEF TypeOK, Attempt
<1>2. d \in Mail => d \notin Webhook
  BY DEF Mail
<1> DEFINE Paid(w) == accepted'[d] + One(w \in Busy(d)') + Again(d)' + lost[d]
                        <= accepted[d] + One(w \in Busy(d)) + Again(d) + lost'[d]
           Goal == /\ IsFiniteSet(Busy(d)')
                   /\ accepted'[d] + Cardinality(Busy(d)') + Again(d)' <= 1 + lost'[d]
<1>3. ASSUME NEW w, \A v \in Server \ {w} : job'[v] = job[v], Paid(w) PROVE Goal
  BY <1>1, <1>3, OncePaid
<1>4. ASSUME NEW w \in Server, NEW r, Goto(w, r)
      PROVE  job'[w] = r /\ \A v \in Server \ {w} : job'[v] = job[v]
  BY <1>4 DEF Goto, TypeOK
<1> HIDE DEF Goal
<1>5. ASSUME NEW w \in Server, NEW e \in Delivery, ReadDue(w, e) PROVE Goal
  <2>1. job'[w].pc = "claim" /\ job[w] = Idle /\ \A v \in Server \ {w} : job'[v] = job[v]
    BY <1>4, <1>5 DEF ReadDue
  <2>2. w \notin Busy(d) /\ w \notin Busy(d)'
    BY <2>1 DEF Busy, Idle
  <2>3. Paid(w)
    BY <1>1, <1>5, <2>2 DEF ReadDue, row, history, Again, One
  <2> QED
    BY <1>3, <2>1, <2>3
<1>6. ASSUME NEW w \in Server, Claim(w) PROVE Goal
  <2> DEFINE j == job[w]
             e == job[w].row
  <2>1. j.pc = "claim" /\ w \notin Busy(d) /\ accepted' = accepted
    BY <1>6 DEF Claim, Busy
  <2>2. CASE ~ StillDue(w, j)
    <3>1. Goto(w, Idle) /\ UNCHANGED <<row, lost>>
      BY <1>6, <2>2 DEF Claim
    <3>2. w \notin Busy(d)'
      BY <1>4, <3>1 DEF Busy, Idle
    <3>3. Paid(w)
      BY <1>1, <2>1, <3>1, <3>2 DEF row, Again, One
    <3> QED
      BY <1>3, <1>4, <3>1, <3>3
  <2>3. CASE StillDue(w, j)
    <3>1. PICK r : Goto(w, r) /\ r.row = e
      BY <1>6, <2>3 DEF Claim
    <3>2. /\ status' = [status EXCEPT ![e] = "sending"]
          /\ lost' = [lost EXCEPT ![e] = IF status[e] = "sending" THEN @ + 1 ELSE @]
      BY <1>6, <2>3 DEF Claim
    <3>3. status[e] \in {"pending", "sending"}
      BY <1>1, <2>1, <2>3 DEF StillDue, Listed, Attempt
    <3>4. job'[w].row = e
      BY <1>4, <3>1
    <3>5. CASE d = e
      BY <1>1, <2>1, <3>2, <3>3, <3>5, <1>3, <1>4, <3>1 DEF Again, One
    <3>6. CASE d # e
      <4>1. w \notin Busy(d)'
        BY <3>4, <3>6 DEF Busy
      <4>2. status'[d] = status[d] /\ lost'[d] = lost[d]
        BY <1>1, <3>2, <3>6
      <4>3. Paid(w)
        BY <1>1, <2>1, <4>1, <4>2 DEF Again, One
      <4> QED
        BY <1>3, <1>4, <3>1, <4>3
    <3> QED
      BY <3>5, <3>6
  <2> QED
    BY <2>2, <2>3
<1>7. ASSUME NEW w \in Server, CheckMail(w) PROVE Goal
  <2>1. job[w].pc = "check" /\ UNCHANGED <<row, history>>
    BY <1>7 DEF CheckMail
  <2>2. job[w] \in Attempt
    BY <1>1, <2>1 DEF Listed
  <2>3. PICK r : r = [job[w] EXCEPT !.pc = IF StillWanted(job[w]) THEN "send" ELSE "report",
                                    !.outcome = "skip"]
    OBVIOUS
  <2>4. r.row = job[w].row /\ r.outcome = "skip" /\ r.pc \in {"send", "report"}
    BY <2>2, <2>3 DEF Attempt
  <2>5. Goto(w, r)
    BY <1>7, <2>3 DEF CheckMail
  <2>6. w \in Busy(d) <=> w \in Busy(d)'
    BY <1>4, <2>1, <2>4, <2>5 DEF Busy
  <2>7. Paid(w)
    BY <1>1, <2>1, <2>6 DEF row, history, Again, One
  <2> QED
    BY <1>3, <1>4, <2>5, <2>7
<1>8. ASSUME NEW w \in Server, NEW outcome \in {"ok", "error", "rejected"}, Send(w, outcome) PROVE Goal
  <2> DEFINE e == job[w].row
  <2>1. /\ job[w].pc = "send" /\ UNCHANGED <<row, lost>>
        /\ accepted' = [accepted EXCEPT ![e] = IF outcome = "ok" THEN @ + 1 ELSE @]
    BY <1>8 DEF Send
  <2>2. job[w] \in Attempt
    BY <1>1, <2>1 DEF Listed
  <2>3. PICK r : r = [job[w] EXCEPT !.pc = "report", !.outcome = outcome]
    OBVIOUS
  <2>4. r.row = e /\ r.outcome = outcome /\ r.pc = "report"
    BY <2>2, <2>3 DEF Attempt
  <2>5. Goto(w, r)
    BY <1>8, <2>3 DEF Send
  <2>6. w \in Busy(d) <=> e = d
    BY <2>1 DEF Busy
  <2>7. w \in Busy(d)' <=> e = d /\ outcome # "ok"
    BY <1>4, <2>4, <2>5 DEF Busy
  <2>8. accepted'[d] = IF d = e /\ outcome = "ok" THEN accepted[d] + 1 ELSE accepted[d]
    BY <1>1, <2>1
  <2>9. Paid(w)
    BY <1>1, <2>1, <2>6, <2>7, <2>8 DEF row, Again, One
  <2> QED
    BY <1>3, <1>4, <2>5, <2>9
<1>9. ASSUME NEW w \in Server, AnswerLost(w) PROVE Goal
  <2> DEFINE e == job[w].row
  <2>1. /\ job[w].pc = "report" /\ job[w].outcome = "ok" /\ UNCHANGED <<row, accepted>>
        /\ lost' = [lost EXCEPT ![e] = @ + 1]
    BY <1>9 DEF AnswerLost
  <2>2. job[w] \in Attempt
    BY <1>1, <2>1 DEF Listed
  <2>3. PICK r : r = [job[w] EXCEPT !.outcome = "error"]
    OBVIOUS
  <2>4. r.row = e
    BY <2>2, <2>3 DEF Attempt
  <2>5. Goto(w, r)
    BY <1>9, <2>3 DEF AnswerLost
  <2>6. w \notin Busy(d) /\ (w \in Busy(d)' => e = d)
    BY <1>4, <2>1, <2>4, <2>5 DEF Busy
  <2>7. lost'[d] = IF d = e THEN lost[d] + 1 ELSE lost[d]
    BY <1>1, <2>1
  <2>8. Paid(w)
    BY <1>1, <2>1, <2>6, <2>7 DEF row, Again, One
  <2> QED
    BY <1>3, <1>4, <2>5, <2>8
<1>10. ASSUME NEW w \in Server, ReportWebhook(w) PROVE Goal
  <2> DEFINE e == job[w].row
             ok == job[w].outcome = "ok"
  <2>1. job[w].pc = "report" /\ e \in Webhook /\ Goto(w, Idle) /\ UNCHANGED history
    BY <1>10 DEF ReportWebhook
  <2>2. w \notin Busy(d)' /\ (w \in Busy(d) <=> d = e /\ ~ ok)
    BY <1>4, <2>1 DEF Busy, Idle
  <2>3. /\ d # e => status'[d] = status[d]
        /\ d = e /\ ok => status'[d] = "delivered"
        /\ d = e /\ ~ ok => status'[d] \in {"failed", "pending"}
    BY <1>1, <1>10 DEF ReportWebhook, Write
  <2>4. Paid(w)
    BY <1>1, <1>2, <2>1, <2>2, <2>3 DEF history, Again, One
  <2> QED
    BY <1>3, <1>4, <2>1, <2>4
<1>11. ASSUME NEW w \in Server, ReportMail(w) PROVE Goal
  <2> DEFINE e == job[w].row
             ok == job[w].outcome = "ok"
  <2>1. job[w].pc = "report" /\ e \in Mail /\ Goto(w, Idle) /\ UNCHANGED history
    BY <1>11 DEF ReportMail
  <2>2. w \notin Busy(d)' /\ (w \in Busy(d) <=> d = e /\ ~ ok)
    BY <1>4, <2>1 DEF Busy, Idle
  <2>3. \/ status'[d] = status[d]
        \/ d = e /\ ok /\ status'[d] = "sent"
        \/ d = e /\ ~ ok
    <3>1. CASE OwnsRow(job[w])
      <4>1. CASE ok
        BY <1>1, <1>11, <3>1, <4>1 DEF ReportMail, Write
      <4>2. CASE ~ ok
        <5>1. PICK s, t : Write(e, s, t)
          BY <1>11, <3>1, <4>2 DEF ReportMail
        <5> QED
          BY <1>1, <4>2, <5>1 DEF Write
      <4> QED
        BY <4>1, <4>2
    <3>2. CASE ~ OwnsRow(job[w])
      BY <1>11, <3>2 DEF ReportMail
    <3> QED
      BY <3>1, <3>2
  <2>4. Paid(w)
    BY <1>1, <2>1, <2>2, <2>3 DEF history, Again, One
  <2> QED
    BY <1>3, <1>4, <2>1, <2>4
<1>12. ASSUME NEW w \in Server, Crash(w) PROVE Goal
  <2>1. w \notin Busy(d)' /\ UNCHANGED <<row, history>> /\ Goto(w, Idle)
    BY <1>4, <1>12 DEF Crash, Busy, Idle
  <2>2. Paid(w)
    BY <1>1, <2>1 DEF row, history, Again, One
  <2> QED
    BY <1>3, <1>4, <2>1, <2>2
<1>13. ASSUME UNCHANGED <<accepted, lost, job>>, Again(d)' <= Again(d) PROVE Goal
  <2>1. Busy(d)' = Busy(d)
    BY <1>13 DEF Busy
  <2>2. \A w : Paid(w)
    BY <1>1, <1>13, <2>1 DEF Again, One
  <2> QED
    BY <1>3, <1>13, <2>2
<1>14. ASSUME NEW e \in Delivery, retryFailed(e) PROVE Goal
  <2>1. Again(d)' <= Again(d)
    BY <1>1, <1>14 DEF retryFailed, Write, Again, One
  <2> QED
    BY <1>13, <1>14, <2>1 DEF retryFailed, history
<1>15. ASSUME UNCHANGED <<status, accepted, lost, job>> PROVE Goal
  BY <1>13, <1>15 DEF Again, One
<1>16. ASSUME NEW e \in Delivery, Disable(e) \/ EndLoan(e) PROVE Goal
  BY <1>15, <1>16 DEF Disable, EndLoan, row, history
<1>17. CASE Tick
  <2>1. UNCHANGED <<status, accepted, lost, job>>
    BY <1>17 DEF Tick, history
  <2> QED
    BY <1>15, <2>1 DEF Goal
<1>18. CASE UNCHANGED vars
  <2>1. UNCHANGED <<status, accepted, lost, job>>
    BY <1>18 DEF vars, row, history
  <2> QED
    BY <1>15, <2>1 DEF Goal
<1> QED
  BY <1>5, <1>6, <1>7, <1>8, <1>9, <1>10, <1>11, <1>12, <1>14, <1>16, <1>17, <1>18
     DEF Next, Poll, Work, Goal

\* A message is accepted once, and once more at most for each answer that was lost: for
\* any number of servers, however slow they are and wherever they die.
THEOREM AcceptedOnceUnlessLost == ASSUME QueueAssumption PROVE Spec => []OnceUnlessLost
<1>1. Init => OnceInv
  BY OnceInit
<1>2. TypeOK /\ TypeOK' /\ OnceInv /\ [Next]_vars => OnceInv'
  BY OnceStep
<1>3. TypeOK /\ OnceInv => OnceUnlessLost
  <2> SUFFICES ASSUME TypeOK, OnceInv, NEW d \in Delivery PROVE accepted[d] <= 1 + lost[d]
    BY DEF OnceUnlessLost
  <2>1. IsFiniteSet(Busy(d)) /\ accepted[d] + Cardinality(Busy(d)) + Again(d) <= 1 + lost[d]
    BY DEF OnceInv
  <2>2. Cardinality(Busy(d)) \in Nat
    BY <2>1, FS_CardinalityType
  <2>3. Again(d) \in Nat /\ accepted[d] \in Nat /\ lost[d] \in Nat
    BY DEF Again, One, TypeOK
  <2> QED
    BY <2>1, <2>2, <2>3
<1> QED
  BY <1>1, <1>2, <1>3, QueuesTypeCorrect, PTL DEF Spec
-------------------------------------------------------------------------------
(* How often a webhook is attempted *)

\* One server at most comes or goes, and what it adds was paid for; the attempt after
\* the last one is paid for as well.
LEMMA EarlyPaid ==
  ASSUME QueueAssumption, TypeOK, TypeOK', EarlyInv, NEW w, NEW d \in Webhook,
         \A v \in Server \ {w} : job'[v] = job[v],
         attempts'[d] \in {attempts[d], attempts[d] + 1},
         One(w \in Early(d)') + One(status'[d] = "pending") + lost[d]
           <= One(w \in Early(d)) + One(status[d] = "pending") + lost'[d],
         attempts'[d] # attempts[d] /\ attempts'[d] >= MaxAttempts =>
           One(w \in Early(d)') + One(status'[d] = "pending") + lost[d] + 1
             <= One(w \in Early(d)) + One(status[d] = "pending") + lost'[d]
  PROVE  /\ IsFiniteSet(Early(d)')
         /\ Cardinality(Early(d)') + One(status'[d] = "pending") <= 1 + lost'[d]
         /\ attempts'[d] >= MaxAttempts =>
              attempts'[d] + Cardinality(Early(d)') + One(status'[d] = "pending")
                <= MaxAttempts + lost'[d]
<1>1. Early(d) \ {w} = Early(d)' \ {w}
  BY DEF Early
<1>2. /\ IsFiniteSet(Early(d))
      /\ Cardinality(Early(d)) + One(status[d] = "pending") <= 1 + lost[d]
      /\ attempts[d] >= MaxAttempts =>
           attempts[d] + Cardinality(Early(d)) + One(status[d] = "pending") <= MaxAttempts + lost[d]
  BY DEF EarlyInv
<1>3. /\ IsFiniteSet(Early(d)') /\ Cardinality(Early(d)) \in Nat /\ Cardinality(Early(d)') \in Nat
      /\ Cardinality(Early(d)') + One(w \in Early(d)) = Cardinality(Early(d)) + One(w \in Early(d)')
  BY <1>1, <1>2, OneElement
<1>4. /\ attempts[d] \in Nat /\ lost[d] \in Nat /\ attempts'[d] \in Nat /\ lost'[d] \in Nat
      /\ MaxAttempts \in Nat
  BY DEF TypeOK, QueueAssumption
<1>5. /\ One(w \in Early(d)) \in Nat /\ One(w \in Early(d)') \in Nat
      /\ One(status[d] = "pending") \in Nat /\ One(status'[d] = "pending") \in Nat
  BY DEF One
<1> HIDE DEF One
<1> QED
  BY <1>2, <1>3, <1>4, <1>5

LEMMA BoundInit == ASSUME QueueAssumption, Init PROVE BoundInv
<1>1. ASSUME NEW w \in Server PROVE CountsRight(w)
  BY DEF Init, CountsRight, Idle
<1>2. ASSUME NEW d \in Webhook
      PROVE  /\ IsFiniteSet(Early(d))
             /\ Cardinality(Early(d)) + One(status[d] = "pending") <= 1 + lost[d]
             /\ attempts[d] < MaxAttempts
  <2>1. Early(d) = {}
    BY DEF Init, Early, Idle
  <2>2. IsFiniteSet(Early(d)) /\ Cardinality(Early(d)) = 0
    BY <2>1, FS_EmptySet
  <2>3. attempts[d] = 0 /\ lost[d] = 0 /\ MaxAttempts \in Nat \ {0}
    BY DEF Init, QueueAssumption
  <2> QED
    BY <2>2, <2>3 DEF One
<1>3. \A d \in Webhook : attempts[d] = 0 /\ MaxAttempts \in Nat \ {0}
  BY DEF Init, QueueAssumption
<1> QED
  BY <1>1, <1>2, <1>3 DEF BoundInv, EarlyInv

\* The due time moves with the clock, and every write of a row of this queue puts it
\* past the list that was read before.
LEMMA CountsStep ==
  ASSUME QueueAssumption, TypeOK, TypeOK', [Next]_vars, NEW v \in Server, CountsRight(v)
  PROVE  CountsRight(v)'
<1> DEFINE d == job[v].row
           Goal == CountsRight(v)'
           Right == \/ job[v].attempt = attempts'[d] + 1
                    \/ status'[d] \notin {"pending", "sending"}
                    \/ wait'[d] + age'[v] > 0
<1>1. /\ \A e \in Delivery : /\ attempts[e] \in Nat /\ attempts'[e] \in Nat /\ wait[e] \in Int
                             /\ wait'[e] \in Int /\ status[e] \in Statuses
      /\ status \in [Delivery -> Statuses] /\ attempts \in [Delivery -> Nat]
      /\ wait \in [Delivery -> Int] /\ age \in [Server -> Nat] /\ age' \in [Server -> Nat]
      /\ \A w \in Server : job[w] \in [pc : {"idle"}] \cup Listed \cup Attempt
      /\ \A w \in Server : job[w] \in Listed \cup Attempt => job[w].row \in Delivery
  BY DEF TypeOK, Listed, Attempt
<1>2. Lease \in Nat \ {0} /\ RetryDelay \in Nat \ {0} /\ Webhook \subseteq Delivery /\ MaxTrouble \in Nat
  BY DEF QueueAssumption
<1>3. ASSUME job'[v].pc # "claim" PROVE Goal
  BY <1>3 DEF CountsRight
<1>4. ASSUME job'[v] = job[v], job[v].pc = "claim" /\ d \in Webhook => Right PROVE Goal
  BY <1>4 DEF CountsRight, Queued
<1>5. job[v].pc = "claim" /\ d \in Webhook =>
        \/ job[v].attempt = attempts[d] + 1
        \/ status[d] \notin {"pending", "sending"}
        \/ wait[d] + age[v] > 0
  BY DEF CountsRight, Queued
<1>6. ASSUME job'[v] = job[v], UNCHANGED <<row, age>> PROVE Goal
  BY <1>4, <1>5, <1>6 DEF row
<1>7. ASSUME NEW w \in Server, NEW r, Goto(w, r)
      PROVE  job'[w] = r /\ (w # v => job'[v] = job[v])
  BY <1>7 DEF Goto, TypeOK
<1> HIDE DEF Goal
<1>8. ASSUME NEW w \in Server, NEW e \in Delivery, ReadDue(w, e) PROVE Goal
  <2>1. CASE w = v
    <3>1. job'[v].row = e /\ job'[v].attempt = attempts[e] + 1 /\ attempts' = attempts
      BY <1>7, <1>8, <2>1 DEF ReadDue, row
    <3> QED
      BY <3>1 DEF Goal, CountsRight
  <2>2. CASE w # v
    <3>1. job'[v] = job[v] /\ UNCHANGED row /\ age'[v] = age[v]
      BY <1>1, <1>7, <1>8, <2>2 DEF ReadDue
    <3> QED
      BY <1>4, <1>5, <3>1 DEF row
  <2> QED
    BY <2>1, <2>2
<1>9. ASSUME NEW w \in Server, Claim(w) PROVE Goal
  <2> DEFINE e == job[w].row
  <2>1. job[w].pc = "claim" /\ job[w] \in Listed /\ e \in Delivery /\ UNCHANGED age
    BY <1>1, <1>9 DEF Claim, Attempt
  <2>2. CASE ~ StillDue(w, job[w])
    <3>1. Goto(w, Idle) /\ UNCHANGED row
      BY <1>9, <2>2 DEF Claim
    <3>2. CASE w = v
      BY <1>3, <1>7, <3>1, <3>2 DEF Idle
    <3>3. CASE w # v
      BY <1>6, <1>7, <2>1, <3>1, <3>3
    <3> QED
      BY <3>2, <3>3
  <2>3. CASE StillDue(w, job[w])
    <3>1. PICK r : Goto(w, r) /\ r.pc \in {"check", "send", "report"}
      BY <1>9, <2>3 DEF Claim
    <3>2. CASE w = v
      BY <1>3, <1>7, <3>1, <3>2
    <3>3. CASE w # v
      <4>1. /\ e = d /\ d \in Webhook => wait'[d] = Lease
            /\ e # d /\ d \in Delivery => status'[d] = status[d] /\ attempts'[d] = attempts[d] /\ wait'[d] = wait[d]
        BY <1>1, <1>9, <2>1, <2>3 DEF Claim, LeaseLeft
      <4>2. age'[v] \in Nat
        BY <1>1
      <4>3. job[v].pc = "claim" /\ d \in Webhook => Right
        BY <1>2, <1>5, <2>1, <4>1, <4>2
      <4> QED
        BY <1>4, <1>7, <3>1, <3>3, <4>3
    <3> QED
      BY <3>2, <3>3
  <2> QED
    BY <2>2, <2>3
<1>10. ASSUME NEW w \in Server, NEW r, Goto(w, r), r.pc # "claim", UNCHANGED <<row, age>> PROVE Goal
  BY <1>3, <1>6, <1>7, <1>10
<1>11. ASSUME NEW w \in Server, CheckMail(w) PROVE Goal
  <2>1. job[w].pc = "check" /\ UNCHANGED <<row, age>>
    BY <1>11 DEF CheckMail
  <2>2. job[w] \in Attempt
    BY <1>1, <2>1 DEF Listed
  <2>3. PICK r : r = [job[w] EXCEPT !.pc = IF StillWanted(job[w]) THEN "send" ELSE "report",
                                    !.outcome = "skip"]
    OBVIOUS
  <2>4. r.pc \in {"send", "report"}
    BY <2>2, <2>3 DEF Attempt
  <2>5. Goto(w, r)
    BY <1>11, <2>3 DEF CheckMail
  <2> QED
    BY <1>10, <2>1, <2>4, <2>5
<1>12. ASSUME NEW w \in Server, NEW outcome \in {"ok", "error", "rejected"}, Send(w, outcome) PROVE Goal
  <2>1. job[w].pc = "send" /\ UNCHANGED <<row, age>>
    BY <1>12 DEF Send
  <2>2. job[w] \in Attempt
    BY <1>1, <2>1 DEF Listed
  <2>3. PICK r : r = [job[w] EXCEPT !.pc = "report", !.outcome = outcome]
    OBVIOUS
  <2>4. r.pc = "report"
    BY <2>2, <2>3 DEF Attempt
  <2>5. Goto(w, r)
    BY <1>12, <2>3 DEF Send
  <2> QED
    BY <1>10, <2>1, <2>4, <2>5
<1>13. ASSUME NEW w \in Server, AnswerLost(w) PROVE Goal
  <2>1. job[w].pc = "report" /\ UNCHANGED <<row, age>>
    BY <1>13 DEF AnswerLost
  <2>2. job[w] \in Attempt
    BY <1>1, <2>1 DEF Listed
  <2>3. PICK r : r = [job[w] EXCEPT !.outcome = "error"]
    OBVIOUS
  <2>4. r.pc = "report"
    BY <2>1, <2>2, <2>3 DEF Attempt
  <2>5. Goto(w, r)
    BY <1>13, <2>3 DEF AnswerLost
  <2> QED
    BY <1>10, <2>1, <2>4, <2>5
<1>14. ASSUME NEW w \in Server, ReportWebhook(w) PROVE Goal
  <2> DEFINE e == job[w].row
  <2>1. e \in Webhook /\ Goto(w, Idle) /\ UNCHANGED <<attempts, age>>
    BY <1>14 DEF ReportWebhook
  <2>2. CASE w = v
    BY <1>3, <1>7, <2>1, <2>2 DEF Idle
  <2>3. CASE w # v
    <3>1. /\ e # d /\ d \in Delivery => status'[d] = status[d] /\ wait'[d] = wait[d]
          /\ e = d => status'[d] \in {"delivered", "failed"} \/ wait'[d] = RetryDelay
      BY <1>1, <1>2, <1>14, <2>1 DEF ReportWebhook, Write
    <3>2. age'[v] \in Nat
      BY <1>1
    <3>3. job[v].pc = "claim" /\ d \in Webhook => Right
      BY <1>2, <1>5, <2>1, <3>1, <3>2
    <3> QED
      BY <1>4, <1>7, <2>1, <2>3, <3>3
  <2> QED
    BY <2>2, <2>3
<1>15. ASSUME NEW w \in Server, ReportMail(w) PROVE Goal
  <2> DEFINE e == job[w].row
  <2>1. e \in Mail /\ Goto(w, Idle) /\ UNCHANGED <<attempts, age>>
    BY <1>15 DEF ReportMail
  <2>2. CASE w = v
    BY <1>3, <1>7, <2>1, <2>2 DEF Idle
  <2>3. CASE w # v
    <3>1. d \in Webhook => status'[d] = status[d] /\ wait'[d] = wait[d]
      <4>1. CASE OwnsRow(job[w])
        <5>1. PICK s, t : Write(e, s, t)
          BY <1>15, <4>1 DEF ReportMail
        <5> QED
          BY <1>1, <1>2, <2>1, <5>1 DEF Write, Mail
      <4>2. CASE ~ OwnsRow(job[w])
        BY <1>15, <4>2 DEF ReportMail
      <4> QED
        BY <4>1, <4>2
    <3>2. job[v].pc = "claim" /\ d \in Webhook => Right
      BY <1>5, <2>1, <3>1
    <3> QED
      BY <1>4, <1>7, <2>1, <2>3, <3>2
  <2> QED
    BY <2>2, <2>3
<1>16. ASSUME NEW w \in Server, Crash(w) PROVE Goal
  BY <1>10, <1>16 DEF Crash, Idle
<1>17. ASSUME NEW e \in Delivery, retryFailed(e) PROVE Goal
  <2>1. e \in Mail /\ UNCHANGED <<attempts, age, job>> /\ \E s : Write(e, s, 0)
    BY <1>17 DEF retryFailed
  <2>2. d \in Webhook => status'[d] = status[d] /\ wait'[d] = wait[d]
    BY <1>1, <1>2, <2>1 DEF Write, Mail
  <2>3. job[v].pc = "claim" /\ d \in Webhook => Right
    BY <1>5, <2>1, <2>2
  <2> QED
    BY <1>4, <2>1, <2>3
<1>18. ASSUME NEW e \in Delivery, Disable(e) \/ EndLoan(e) PROVE Goal
  BY <1>6, <1>18 DEF Disable, EndLoan
<1>19. CASE Tick
  <2>1. UNCHANGED <<status, attempts, job>>
    BY <1>19 DEF Tick
  <2>2. ASSUME job[v].pc = "claim", d \in Webhook PROVE Right
    <3>1. age'[v] = age[v] + 1
      BY <1>19, <2>2 DEF Tick, Idle
    <3>2. wait'[d] \in {wait[d] - 1, wait[d]}
      BY <1>2, <1>19, <2>2 DEF Tick
    <3>3. age[v] \in Nat /\ wait[d] \in Int
      BY <1>1, <1>2, <2>2
    <3> QED
      BY <1>5, <2>1, <2>2, <3>1, <3>2, <3>3
  <2> QED
    BY <1>4, <2>1, <2>2 DEF Goal
<1>20. CASE UNCHANGED vars
  <2>1. UNCHANGED <<row, job, age>>
    BY <1>20 DEF vars
  <2> QED
    BY <1>6, <2>1 DEF Goal
<1> QED
  BY <1>8, <1>9, <1>11, <1>12, <1>13, <1>14, <1>15, <1>16, <1>17, <1>18, <1>19, <1>20
     DEF Next, Poll, Work, Goal

LEMMA EarlyStep ==
  ASSUME QueueAssumption, TypeOK, TypeOK', BoundInv, [Next]_vars
  PROVE  EarlyInv'
<1> DEFINE Goal(d) ==
             /\ IsFiniteSet(Early(d)')
             /\ Cardinality(Early(d)') + One(status'[d] = "pending") <= 1 + lost'[d]
             /\ attempts'[d] >= MaxAttempts =>
                  attempts'[d] + Cardinality(Early(d)') + One(status'[d] = "pending")
                    <= MaxAttempts + lost'[d]
<1> SUFFICES ASSUME NEW d \in Webhook PROVE Goal(d)
  BY DEF EarlyInv
<1>1. /\ status \in [Delivery -> Statuses] /\ attempts \in [Delivery -> Nat] /\ lost \in [Delivery -> Nat]
      /\ d \in Delivery /\ attempts[d] \in Nat /\ lost[d] \in Nat /\ lost'[d] \in Nat
      /\ \A w \in Server : job[w] \in [pc : {"idle"}] \cup Listed \cup Attempt
      /\ \A w \in Server : job[w] \in Listed \cup Attempt => job[w].row \in Delivery
      /\ MaxAttempts \in Nat \ {0}
  BY DEF TypeOK, QueueAssumption, Listed, Attempt
<1>2. EarlyInv /\ \A w \in Server : CountsRight(w)
  BY DEF BoundInv
<1> DEFINE Paid(w) == One(w \in Early(d)') + One(status'[d] = "pending") + lost[d]
                        <= One(w \in Early(d)) + One(status[d] = "pending") + lost'[d]
<1>3. ASSUME NEW w, \A v \in Server \ {w} : job'[v] = job[v], attempts'[d] = attempts[d], Paid(w)
      PROVE  Goal(d)
  BY <1>2, <1>3, EarlyPaid
<1>4. ASSUME NEW w \in Server, NEW r, Goto(w, r)
      PROVE  job'[w] = r /\ \A v \in Server \ {w} : job'[v] = job[v]
  BY <1>4 DEF Goto, TypeOK
<1>5. EarlyInv /\ TypeOK /\ TypeOK' /\ QueueAssumption
  BY <1>2
<1> HIDE DEF Goal
<1>6. ASSUME NEW w \in Server, NEW r, Goto(w, r), w \in Early(d)' => w \in Early(d),
             status' = status, attempts' = attempts, lost'[d] >= lost[d]
      PROVE  Goal(d)
  <2>1. Paid(w)
    BY <1>1, <1>6 DEF One
  <2> QED
    BY <1>3, <1>4, <1>6, <2>1
<1>7. ASSUME NEW w \in Server, NEW e \in Delivery, ReadDue(w, e) PROVE Goal(d)
  <2>1. PICK r : Goto(w, r) /\ r.pc = "claim"
    BY <1>7 DEF ReadDue
  <2>2. w \notin Early(d)'
    BY <1>4, <2>1 DEF Early
  <2>3. status' = status /\ attempts' = attempts /\ lost' = lost
    BY <1>7 DEF ReadDue, row, history
  <2> QED
    BY <1>1, <1>6, <2>1, <2>2, <2>3
<1>8. ASSUME NEW w \in Server, Claim(w) PROVE Goal(d)
  <2> DEFINE e == job[w].row
  <2>1. job[w].pc = "claim" /\ job[w] \in Listed /\ e \in Delivery
    BY <1>1, <1>8 DEF Claim, Attempt
  <2>2. w \notin Early(d)
    BY <2>1 DEF Early
  <2>3. CASE ~ StillDue(w, job[w])
    <3>1. Goto(w, Idle) /\ UNCHANGED <<row, lost>>
      BY <1>8, <2>3 DEF Claim
    <3>2. w \notin Early(d)'
      BY <1>4, <3>1 DEF Early, Idle
    <3> QED
      BY <1>1, <1>6, <3>1, <3>2 DEF row
  <2>4. CASE StillDue(w, job[w])
    <3>1. PICK r : Goto(w, r) /\ r.row = e /\ r.attempt = job[w].attempt
      BY <1>8, <2>4 DEF Claim
    <3>2. /\ status' = [status EXCEPT ![e] = "sending"]
          /\ attempts' = [attempts EXCEPT ![e] = @ + 1]
          /\ lost' = [lost EXCEPT ![e] = IF status[e] = "sending" THEN @ + 1 ELSE @]
      BY <1>8, <2>4 DEF Claim
    <3>3. status[e] \in {"pending", "sending"}
      BY <2>1, <2>4 DEF StillDue, Listed
    <3>4. \A v \in Server \ {w} : job'[v] = job[v]
      BY <1>4, <3>1
    <3>5. CASE d # e
      <4>1. w \notin Early(d)'
        BY <1>4, <3>1, <3>5 DEF Early
      <4>2. status'[d] = status[d] /\ lost'[d] = lost[d] /\ attempts'[d] = attempts[d]
        BY <1>1, <3>2, <3>5
      <4>3. Paid(w)
        BY <1>1, <2>2, <4>1, <4>2 DEF One
      <4> QED
        BY <1>3, <3>4, <4>2, <4>3
    <3>6. CASE d = e
      <4>1. job[w].attempt = attempts[d] + 1
        <5>1. wait[d] \in Int /\ age[w] \in Nat /\ wait[d] <= - age[w]
          BY <1>1, <2>4, <3>6 DEF TypeOK, StillDue
        <5>2. \/ job[w].attempt = attempts[d] + 1
              \/ ~ Queued(d)
              \/ wait[d] + age[w] > 0
          BY <1>2, <2>1, <3>6 DEF CountsRight
        <5> QED
          BY <3>3, <3>6, <5>1, <5>2 DEF Queued
      <4>2. /\ status'[d] = "sending" /\ attempts'[d] = attempts[d] + 1
            /\ lost'[d] = lost[d] + One(status[d] = "sending")
        BY <1>1, <3>2, <3>6 DEF One
      <4>3. w \in Early(d)' => attempts'[d] < MaxAttempts
        BY <1>4, <3>1, <4>1, <4>2 DEF Early
      <4>4. Paid(w)
        BY <1>1, <2>2, <3>3, <3>6, <4>2 DEF One
      <4>5. One(w \in Early(d)') = 0 \/ attempts'[d] < MaxAttempts
        BY <4>3 DEF One
      <4>6. attempts'[d] >= MaxAttempts =>
              One(w \in Early(d)') + One(status'[d] = "pending") + lost[d] + 1
                <= One(w \in Early(d)) + One(status[d] = "pending") + lost'[d]
        <5>1. One(status'[d] = "pending") = 0 /\ One(w \in Early(d)) = 0
          BY <2>2, <4>2 DEF One
        <5>2. One(status[d] = "pending") + One(status[d] = "sending") = 1
          BY <3>3, <3>6 DEF One
        <5>3. One(status[d] = "pending") \in Nat /\ One(status[d] = "sending") \in Nat
          BY DEF One
        <5> HIDE DEF One
        <5> QED
          BY <1>1, <4>2, <4>5, <5>1, <5>2, <5>3
      <4> QED
        BY <1>5, <3>4, <4>2, <4>4, <4>6, EarlyPaid DEF Goal
    <3> QED
      BY <3>5, <3>6
  <2> QED
    BY <2>3, <2>4
<1>9. ASSUME NEW w \in Server, NEW r, Goto(w, r), job[w].pc \in {"check", "send", "report"},
             r.row = job[w].row, r.attempt = job[w].attempt,
             status' = status, attempts' = attempts, lost'[d] >= lost[d]
      PROVE  Goal(d)
  <2>1. w \in Early(d)' => w \in Early(d)
    BY <1>4, <1>9 DEF Early
  <2> QED
    BY <1>6, <1>9, <2>1
<1>10. ASSUME NEW w \in Server, CheckMail(w) PROVE Goal(d)
  <2>1. job[w].pc = "check" /\ status' = status /\ attempts' = attempts /\ lost' = lost
    BY <1>10 DEF CheckMail, row, history
  <2>2. job[w] \in Attempt
    BY <1>1, <2>1 DEF Listed
  <2>3. PICK r : r = [job[w] EXCEPT !.pc = IF StillWanted(job[w]) THEN "send" ELSE "report",
                                    !.outcome = "skip"]
    OBVIOUS
  <2>4. r.row = job[w].row /\ r.attempt = job[w].attempt
    BY <2>2, <2>3 DEF Attempt
  <2>5. Goto(w, r)
    BY <1>10, <2>3 DEF CheckMail
  <2> QED
    BY <1>1, <1>9, <2>1, <2>4, <2>5
<1>11. ASSUME NEW w \in Server, NEW outcome \in {"ok", "error", "rejected"}, Send(w, outcome)
       PROVE  Goal(d)
  <2>1. job[w].pc = "send" /\ status' = status /\ attempts' = attempts /\ lost' = lost
    BY <1>11 DEF Send, row
  <2>2. job[w] \in Attempt
    BY <1>1, <2>1 DEF Listed
  <2>3. PICK r : r = [job[w] EXCEPT !.pc = "report", !.outcome = outcome]
    OBVIOUS
  <2>4. r.row = job[w].row /\ r.attempt = job[w].attempt
    BY <2>2, <2>3 DEF Attempt
  <2>5. Goto(w, r)
    BY <1>11, <2>3 DEF Send
  <2> QED
    BY <1>1, <1>9, <2>1, <2>4, <2>5
<1>12. ASSUME NEW w \in Server, AnswerLost(w) PROVE Goal(d)
  <2>1. /\ job[w].pc = "report" /\ status' = status /\ attempts' = attempts
        /\ lost' = [lost EXCEPT ![job[w].row] = @ + 1]
    BY <1>12 DEF AnswerLost, row
  <2>2. job[w] \in Attempt
    BY <1>1, <2>1 DEF Listed
  <2>3. PICK r : r = [job[w] EXCEPT !.outcome = "error"]
    OBVIOUS
  <2>4. r.row = job[w].row /\ r.attempt = job[w].attempt
    BY <2>2, <2>3 DEF Attempt
  <2>5. Goto(w, r)
    BY <1>12, <2>3 DEF AnswerLost
  <2>6. lost'[d] >= lost[d]
    BY <1>1, <2>1
  <2> QED
    BY <1>9, <2>1, <2>4, <2>5, <2>6
<1>13. ASSUME NEW w \in Server, ReportWebhook(w) PROVE Goal(d)
  <2> DEFINE e == job[w].row
  <2>1. /\ job[w].pc = "report" /\ e \in Delivery /\ Goto(w, Idle)
        /\ attempts' = attempts /\ lost' = lost
    BY <1>1, <1>13 DEF ReportWebhook, history, QueueAssumption
  <2>2. w \notin Early(d)'
    BY <1>4, <2>1 DEF Early, Idle
  <2>3. \/ status'[d] = status[d]
        \/ status'[d] \in {"delivered", "failed"}
        \/ d = e /\ ~ GivesUp(job[w])
    BY <1>1, <1>13, <2>1 DEF ReportWebhook, Write
  <2>4. d = e /\ ~ GivesUp(job[w]) => w \in Early(d)
    <3>1. job[w] \in Attempt
      BY <1>1, <2>1 DEF Listed
    <3>2. job[w].attempt \in Nat
      BY <3>1 DEF Attempt
    <3> QED
      BY <1>1, <2>1, <3>2 DEF GivesUp, Early
  <2>5. Paid(w)
    BY <1>1, <2>1, <2>2, <2>3, <2>4 DEF One
  <2> QED
    BY <1>3, <1>4, <2>1, <2>5
<1>14. ASSUME NEW w \in Server, ReportMail(w) PROVE Goal(d)
  <2> DEFINE e == job[w].row
  <2>1. /\ job[w].pc = "report" /\ e \in Mail /\ Goto(w, Idle)
        /\ attempts' = attempts /\ lost' = lost
    BY <1>14 DEF ReportMail, history
  <2>2. w \notin Early(d)'
    BY <1>4, <2>1 DEF Early, Idle
  <2>3. status'[d] = status[d]
    <3>1. CASE OwnsRow(job[w])
      <4>1. PICK s, t : Write(e, s, t)
        BY <1>14, <3>1 DEF ReportMail
      <4> QED
        BY <1>1, <2>1, <4>1 DEF Write, Mail
    <3>2. CASE ~ OwnsRow(job[w])
      BY <1>14, <3>2 DEF ReportMail
    <3> QED
      BY <3>1, <3>2
  <2>4. Paid(w)
    BY <1>1, <2>1, <2>2, <2>3 DEF One
  <2> QED
    BY <1>3, <1>4, <2>1, <2>4
<1>15. ASSUME NEW w \in Server, Crash(w) PROVE Goal(d)
  <2>1. Goto(w, Idle) /\ status' = status /\ attempts' = attempts /\ lost' = lost
    BY <1>15 DEF Crash, row, history
  <2>2. w \notin Early(d)'
    BY <1>4, <2>1 DEF Early, Idle
  <2> QED
    BY <1>1, <1>6, <2>1, <2>2
<1>16. ASSUME job' = job, attempts' = attempts, lost' = lost, status'[d] = status[d] PROVE Goal(d)
  <2>1. Early(d)' = Early(d)
    BY <1>16 DEF Early
  <2>2. \A w : Paid(w)
    BY <1>1, <1>16, <2>1 DEF One
  <2> QED
    BY <1>3, <1>16, <2>2
<1>17. ASSUME NEW e \in Delivery, retryFailed(e) PROVE Goal(d)
  BY <1>1, <1>16, <1>17 DEF retryFailed, Write, Mail, history
<1>18. ASSUME NEW e \in Delivery, Disable(e) \/ EndLoan(e) PROVE Goal(d)
  BY <1>16, <1>18 DEF Disable, EndLoan, row, history
<1>19. CASE Tick
  BY <1>16, <1>19 DEF Tick, history
<1>20. CASE UNCHANGED vars
  BY <1>16, <1>20 DEF vars, row, history
<1> QED
  BY <1>7, <1>8, <1>10, <1>11, <1>12, <1>13, <1>14, <1>15, <1>17, <1>18, <1>19, <1>20
     DEF Next, Poll, Work

\* Five attempts, and one more at most for each that was taken over by another server or
\* whose answer could not be written: for any number of servers, and also when a slow
\* attempt reports long after the row was given up.
THEOREM WebhookAttemptsBounded == ASSUME QueueAssumption PROVE Spec => []AttemptsBounded
<1>1. Init => BoundInv
  BY BoundInit
<1>2. TypeOK /\ TypeOK' /\ BoundInv /\ [Next]_vars => BoundInv'
  BY EarlyStep, CountsStep DEF BoundInv
<1>3. TypeOK /\ BoundInv => AttemptsBounded
  <2> SUFFICES ASSUME TypeOK, BoundInv, NEW d \in Webhook PROVE attempts[d] <= MaxAttempts + lost[d]
    BY DEF AttemptsBounded
  <2>1. /\ IsFiniteSet(Early(d))
        /\ attempts[d] >= MaxAttempts =>
             attempts[d] + Cardinality(Early(d)) + One(status[d] = "pending") <= MaxAttempts + lost[d]
    BY DEF BoundInv, EarlyInv
  <2>2. Cardinality(Early(d)) \in Nat
    BY <2>1, FS_CardinalityType
  <2>3. One(status[d] = "pending") \in Nat
    BY DEF One
  <2>4. attempts[d] \in Nat /\ lost[d] \in Nat /\ MaxAttempts \in Nat
    BY DEF TypeOK, QueueAssumption
  <2> HIDE DEF One
  <2> QED
    BY <2>1, <2>2, <2>3, <2>4
<1> QED
  BY <1>1, <1>2, <1>3, QueuesTypeCorrect, PTL DEF Spec

===============================================================================
