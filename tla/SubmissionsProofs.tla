--------------------------- MODULE SubmissionsProofs --------------------------
(***************************************************************************)
(* Theorems about confirmed warehouse operations, for every set of users,  *)
(* tabs, operations and concurrent requests.                               *)
(***************************************************************************)
EXTENDS Submissions, TLAPS

USE SubmissionsAssumption

-------------------------------------------------------------------------------
(* Types *)

\* A request whose form is gone.
LEMMA Hidden ==
  ASSUME NEW q \in Request, NEW p, p = [q EXCEPT !.shown = FALSE]
  PROVE  /\ p \in Request /\ p.pc = q.pc /\ p.op = q.op /\ p.user = q.user
         /\ p.result = q.result /\ p.late = q.late
  BY DEF Request

\* A request that nobody waits for.
LEMMA Orphan ==
  ASSUME NEW q \in Request, NEW p, p = [q EXCEPT !.from = None, !.shown = FALSE]
  PROVE  /\ p \in Request /\ p.pc = q.pc /\ p.op = q.op /\ p.user = q.user
         /\ p.result = q.result /\ p.late = q.late
  BY DEF Request

\* A request that goes on.
LEMMA GoesOn ==
  ASSUME NEW q \in Request, NEW pc \in {"fresh", "valid", "executing"}, NEW p, p = [q EXCEPT !.pc = pc]
  PROVE  /\ p \in Request /\ p.pc = pc /\ p.op = q.op /\ p.user = q.user
         /\ p.result = q.result /\ p.late = q.late
  BY DEF Request

\* There is no request.
LEMMA NoRequest == NoReq \in Request /\ NoReq.pc = "idle" /\ NoReq.late = FALSE
  BY DEF NoReq, Request

\* What a step may do to a request: nothing but end it, forget its page, or move it on.
SameRequest(p, q) ==
  p.pc = q.pc /\ p.op = q.op /\ p.user = q.user /\ p.result = q.result /\ p.late = q.late
LessHeard(p, q) == p = NoReq \/ SameRequest(p, q)

LEMMA UnheardType ==
  ASSUME NEW q \in Request
  PROVE  Unheard(q) \in Request /\ LessHeard(Unheard(q), q)
  BY NoRequest, Orphan DEF Unheard, LessHeard, SameRequest

LEMMA UnmountedType ==
  ASSUME req \in [Req -> Request], NEW t, req' = Unmounted(t)
  PROVE  req' \in [Req -> Request] /\ \A r \in Req : SameRequest(req'[r], req[r])
<1>1. \A r \in Req : LET p == [req[r] EXCEPT !.shown = FALSE] IN p \in Request /\ SameRequest(p, req[r])
  BY Hidden DEF SameRequest
<1> QED
  BY <1>1 DEF Unmounted, SameRequest

\* What becomes of one request: it is forgotten, or it is at pc, with result x.
Becomes(r, p, pc, x) ==
  /\ p \in Request /\ req' = [req EXCEPT ![r] = p]
  /\ \/ p = NoReq
     \/ /\ p.pc = pc /\ p.op = req[r].op /\ p.user = req[r].user
        /\ p.result = x /\ p.late = req[r].late

LEMMA StepBecomes ==
  ASSUME req \in [Req -> Request], NEW r \in Req, NEW pc \in {"fresh", "valid", "executing"}, Step(r, pc)
  PROVE  \E p \in Request : Becomes(r, p, pc, req[r].result)
<1> DEFINE p == [req[r] EXCEPT !.pc = pc]
<1>1. p \in Request /\ p.pc = pc /\ p.op = req[r].op /\ p.user = req[r].user
      /\ p.result = req[r].result /\ p.late = req[r].late
  BY GoesOn
<1>2. req' = [req EXCEPT ![r] = p]
  BY DEF Step
<1> QED
  BY <1>1, <1>2 DEF Becomes

LEMMA ReplyBecomes ==
  ASSUME req \in [Req -> Request], NEW r \in Req, NEW pc \in {"answered", "refused"},
         NEW x \in Result \cup {None}, Reply(r, pc, x)
  PROVE  \E p \in Request : Becomes(r, p, pc, x)
<1> DEFINE q == [req[r] EXCEPT !.pc = pc, !.result = x]
           p == IF req[r].from = None THEN NoReq ELSE q
<1>1. q \in Request /\ q.pc = pc /\ q.op = req[r].op /\ q.user = req[r].user
      /\ q.result = x /\ q.late = req[r].late
  <2>1. req[r] \in Request
    OBVIOUS
  <2> QED
    BY <2>1 DEF Request
<1>2. req' = [req EXCEPT ![r] = p]
  BY DEF Reply
<1>3. CASE req[r].from = None
  <2>1. Becomes(r, NoReq, pc, x)
    BY <1>2, <1>3, NoRequest DEF Becomes
  <2> QED
    BY <2>1, NoRequest
<1>4. CASE req[r].from # None
  <2>1. req' = [req EXCEPT ![r] = q]
    BY <1>2, <1>4
  <2>2. Becomes(r, q, pc, x)
    BY <1>1, <2>1 DEF Becomes
  <2> QED
    BY <1>1, <2>2
<1> QED
  BY <1>3, <1>4

\* The stored answer, or a refusal.
LEMMA AnswerBecomes ==
  ASSUME TypeOK, NEW r \in Req, req[r].pc # "idle", Answer(r)
  PROVE  \E p \in Request :
           \/ SameUser(r) /\ Becomes(r, p, "answered", row[req[r].op].result)
           \/ ~ SameUser(r) /\ Becomes(r, p, "refused", None)
<1>1. row[req[r].op].result \in Result \cup {None}
  BY DEF TypeOK, Nothing
<1> QED
  BY <1>1, ReplyBecomes DEF Answer, TypeOK

\* A new request.
LEMMA SendBecomes ==
  ASSUME TypeOK, NEW t \in Tab, NEW o \in Op, NEW r \in Req, tab[t].token # None, Send(t, o, r)
  PROVE  \E p \in Request :
           /\ req' = [req EXCEPT ![r] = p] /\ req[r] = NoReq
           /\ p.pc = "sent" /\ p.op = o /\ p.user = tab[t].token /\ p.user \in User
           /\ p.late = (row[o].user = tab[t].token)
<1> DEFINE p == [NoReq EXCEPT !.pc = "sent", !.op = o, !.user = tab[t].token,
                              !.from = t, !.shown = TRUE, !.late = row[o].user = tab[t].token]
<1>1. /\ p.pc = "sent" /\ p.op = o /\ p.user = tab[t].token
      /\ p.late = (row[o].user = tab[t].token)
  BY DEF NoReq
<1>2. p \in Request
  BY DEF NoReq, Request, TypeOK
<1> QED
  BY <1>1, <1>2 DEF Send, TypeOK

\* Requests go on for the operation and the user they began with.
Kept == \A r \in Req : req'[r].pc # "idle" =>
          req[r].pc # "idle" /\ req'[r].op = req[r].op /\ req'[r].user = req[r].user

\* The server leaves the client as it is.
LEMMA ServerType ==
  ASSUME TypeOK, UNCHANGED client, active' \in BOOLEAN,
         row' \in [Op -> {Nothing} \cup [user : User, result : Result]],
         req' \in [Req -> Request], Kept
  PROVE  TypeOK'
  BY DEF TypeOK, client, Kept

LEMMA ServerBecomes ==
  ASSUME TypeOK, UNCHANGED <<client, active>>,
         row' \in [Op -> {Nothing} \cup [user : User, result : Result]],
         NEW r \in Req, NEW p, NEW pc, NEW x, req[r].pc # "idle", Becomes(r, p, pc, x)
  PROVE  TypeOK'
<1>1. Kept
  BY NoRequest DEF Becomes, Kept, TypeOK
<1>2. req' \in [Req -> Request]
  BY DEF Becomes, TypeOK
<1> QED
  BY <1>1, <1>2, ServerType DEF TypeOK

\* clear forgets, and nothing else.
LEMMA ClearType ==
  ASSUME TypeOK, NEW t, NEW u \in User, NEW o, NEW shown \in BOOLEAN, clear(t, u, o, shown)
  PROVE  /\ saved' \in [User -> Op \cup {None}]
         /\ tab' \in [Tab -> [user : User \cup {None}, token : User \cup {None}, pending : Op \cup {None}]]
         /\ \A v \in User : saved'[v] \in {saved[v], None}
         /\ \A s \in Tab : /\ tab'[s].user = tab[s].user /\ tab'[s].token = tab[s].token
                           /\ tab'[s].pending \in {tab[s].pending, None}
<1> DEFINE T == [user : User \cup {None}, token : User \cup {None}, pending : Op \cup {None}]
<1>1. ASSUME NEW q \in T PROVE LET p == [q EXCEPT !.pending = None] IN
        p \in T /\ p.user = q.user /\ p.token = q.token /\ p.pending = None
  OBVIOUS
<1>2. tab \in [Tab -> T]
  BY DEF TypeOK
<1>3. tab' = tab \/ tab' = [tab EXCEPT ![t] = [tab[t] EXCEPT !.pending = None]]
  BY DEF clear
<1>4. tab' \in [Tab -> T] /\
      \A s \in Tab : /\ tab'[s].user = tab[s].user /\ tab'[s].token = tab[s].token
                    /\ tab'[s].pending \in {tab[s].pending, None}
  BY <1>1, <1>2, <1>3
<1>5. /\ saved' \in [User -> Op \cup {None}]
      /\ \A v \in User : saved'[v] \in {saved[v], None}
  BY DEF clear, TypeOK
<1> QED
  BY <1>4, <1>5


\* Nobody is logged in, and nothing is requested.
LEMMA InitTypeOK == Init => TypeOK
  BY NoRequest DEF Init, TypeOK, NoTab

\* Every step of a tab, of a request and of the network keeps the types.
LEMMA NextTypeOK == TypeOK /\ [Next]_vars => TypeOK'
<1> SUFFICES ASSUME TypeOK, [Next]_vars PROVE TypeOK'
    OBVIOUS
<1>1. CASE UNCHANGED vars
  BY <1>1 DEF vars, client, TypeOK
<1>2. ASSUME NEW t \in Tab, Client(t) PROVE TypeOK'
  <2>1. ASSUME NEW u \in User, login(t, u) PROVE TypeOK'
    BY <2>1 DEF login, Stored, TypeOK
  <2>2. CASE logout(t)
    <3>1. req' \in [Req -> Request] /\ \A r \in Req : SameRequest(req'[r], req[r])
      BY <2>2, UnmountedType DEF logout, TypeOK
    <3> QED
      BY <2>2, <3>1 DEF logout, NoTab, Unexecuted, SameRequest, TypeOK
  <2>3. CASE renew(t)
    <3>1. req' \in [Req -> Request] /\ \A r \in Req : SameRequest(req'[r], req[r])
      BY <2>3, UnmountedType DEF renew, TypeOK, SameRequest
    <3>2. /\ tab' \in [Tab -> [user : User \cup {None}, token : User \cup {None}, pending : Op \cup {None}]]
          /\ \A s \in Tab :
               /\ tab'[s].user = None <=> tab'[s].token = None
               /\ tab'[s].pending # None => tab'[s].user # None /\ tab'[s].pending = tab[s].pending
      <4>1. ASSUME cookie # None, tab' = [tab EXCEPT ![t].token = cookie] PROVE <3>2!:
        <5> DEFINE p == [tab[t] EXCEPT !.token = cookie]
        <5>1. p \in [user : User \cup {None}, token : User \cup {None}, pending : Op \cup {None}]
              /\ p.user = tab[t].user /\ p.token = cookie /\ p.pending = tab[t].pending
          BY <4>1 DEF TypeOK
        <5>2. tab' = [tab EXCEPT ![t] = p]
          BY <4>1
        <5> HIDE DEF p
        <5> QED
          BY <2>3, <4>1, <5>1, <5>2 DEF renew, TypeOK
      <4>2. ASSUME tab' = [tab EXCEPT ![t] = NoTab] PROVE <3>2!:
        BY <4>2 DEF NoTab, TypeOK
      <4> QED
        BY <2>3, <4>1, <4>2 DEF renew, SessionExpired
    <3> QED
      BY <2>3, <3>1, <3>2 DEF renew, SameRequest, TypeOK
  <2>4. CASE Reopen(t)
    <3>1. req' \in [Req -> Request] /\ \A r \in Req : SameRequest(req'[r], req[r])
      BY <2>4, UnmountedType DEF Reopen, TypeOK
    <3> DEFINE p == [tab[t] EXCEPT !.pending = Stored(tab[t].user)]
    <3>2. p \in [user : User \cup {None}, token : User \cup {None}, pending : Op \cup {None}]
          /\ p.user = tab[t].user /\ p.token = tab[t].token /\ p.pending = saved[tab[t].user]
      BY <2>4 DEF Reopen, Stored, TypeOK
    <3>3. tab' = [tab EXCEPT ![t] = p]
      BY <2>4 DEF Reopen
    <3> HIDE DEF p
    <3> QED
      BY <2>4, <3>1, <3>2, <3>3 DEF Reopen, SameRequest, TypeOK
  <2>5. CASE Reload(t)
    <3>1. \A r \in Req : Unheard(req[r]) \in Request /\ LessHeard(Unheard(req[r]), req[r])
      BY UnheardType DEF TypeOK
    <3>2. req' \in [Req -> Request] /\ \A r \in Req : LessHeard(req'[r], req[r])
      BY <2>5, <3>1 DEF Reload, LessHeard, SameRequest, TypeOK
    <3> QED
      BY <2>5, <3>2, NoRequest DEF Reload, Stored, LessHeard, SameRequest, TypeOK
  <2>6. CASE discardPending(t)
    <3>1. tab[t].user \in User
      BY <2>6 DEF discardPending, TypeOK
    <3> QED
      BY <2>6, <3>1, ClearType DEF discardPending, Unexecuted, TypeOK
  <2>7. ASSUME NEW r \in Req, retry(t, r) PROVE TypeOK'
    <3>1. tab[t].token # None /\ tab[t].pending \in Op /\ owner[tab[t].pending] # None
      BY <2>7 DEF retry, TypeOK
    <3>2. PICK p \in Request : /\ req' = [req EXCEPT ![r] = p]
                             /\ p.op = tab[t].pending /\ p.user \in User
      BY <2>7, <3>1, SendBecomes DEF retry
    <3> QED
      BY <2>7, <3>1, <3>2 DEF retry, client, TypeOK
  <2>8. ASSUME NEW r \in Req, NEW o \in Op, start(t, o, r) PROVE TypeOK'
    <3>1. tab[t].token # None /\ tab[t].user \in User
      BY <2>8 DEF start, TypeOK
    <3>2. PICK p \in Request : /\ req' = [req EXCEPT ![r] = p]
                             /\ p.op = o /\ p.user \in User
      BY <2>8, <3>1, SendBecomes DEF start
    <3> DEFINE q == [tab[t] EXCEPT !.pending = o]
    <3>3. q \in [user : User \cup {None}, token : User \cup {None}, pending : Op \cup {None}]
          /\ q.user = tab[t].user /\ q.token = tab[t].token /\ q.pending = o
      BY DEF TypeOK
    <3>4. tab' = [tab EXCEPT ![t] = q]
      BY <2>8 DEF start
    <3> HIDE DEF q
    <3> QED
      BY <2>8, <3>1, <3>2, <3>3, <3>4 DEF start, TypeOK
  <2> QED
    BY <1>2, <2>1, <2>2, <2>3, <2>4, <2>5, <2>6, <2>7, <2>8 DEF Client
<1>3. ASSUME NEW r \in Req, Server(r) PROVE TypeOK'
  <2>1. CASE Replay(r)
    <3>1. \E p \in Request : \E pc, x : Becomes(r, p, pc, x)
      BY <2>1, AnswerBecomes, StepBecomes DEF Replay, Answer, TypeOK
    <3> QED
      BY <2>1, <3>1, ServerBecomes DEF Replay, ServerOnly, TypeOK
  <2>2. CASE Validate(r)
    <3>1. \E p \in Request : \E pc, x : Becomes(r, p, pc, x)
      BY <2>2, ReplyBecomes, StepBecomes DEF Validate, TypeOK
    <3> QED
      BY <2>2, <3>1, ServerBecomes DEF Validate, ServerOnly, TypeOK
  <2>3. CASE Insert(r)
    <3>1. \E p \in Request : \E pc, x : Becomes(r, p, pc, x)
      BY <2>3, AnswerBecomes, StepBecomes DEF Insert, TypeOK
    <3> QED
      BY <2>3, <3>1, ServerBecomes DEF Insert, ServerOnly, TypeOK
  <2>4. CASE Fail(r)
    <3>1. \E p \in Request : \E pc, x : Becomes(r, p, pc, x)
      BY <2>4, ReplyBecomes DEF Fail, TypeOK
    <3> QED
      BY <2>4, <3>1, ServerBecomes DEF Fail, ServerOnly, TypeOK
  <2>5. ASSUME NEW x \in Result, Commit(r, x) PROVE TypeOK'
    <3>1. \E p \in Request : \E pc, y : Becomes(r, p, pc, y)
      BY <2>5, ReplyBecomes DEF Commit, TypeOK
    <3>2. row' \in [Op -> {Nothing} \cup [user : User, result : Result]]
      BY <2>5 DEF Commit, TypeOK
    <3> QED
      BY <2>5, <3>1, <3>2, ServerBecomes DEF Commit, ServerOnly
  <2> QED
    BY <1>3, <2>1, <2>2, <2>3, <2>4, <2>5 DEF Server
<1>4. ASSUME NEW r \in Req, Deliver(r) PROVE TypeOK'
  <2>1. req' \in [Req -> Request] /\ \A q \in Req : req'[q] \in {req[q], NoReq}
    BY <1>4, NoRequest DEF Deliver, TypeOK
  <2>2. CASE UNCHANGED <<saved, tab>>
    BY <1>4, <2>1, <2>2, NoRequest DEF Deliver, TypeOK
  <2>3. CASE clear(req[r].from, owner[req[r].op], req[r].op, req[r].shown)
    <3>1. owner[req[r].op] \in User /\ req[r].shown \in BOOLEAN
      BY <1>4 DEF Deliver, TypeOK, Request
    <3>2. /\ saved' \in [User -> Op \cup {None}]
          /\ tab' \in [Tab -> [user : User \cup {None}, token : User \cup {None}, pending : Op \cup {None}]]
          /\ \A v \in User : saved'[v] \in {saved[v], None}
          /\ \A s \in Tab : /\ tab'[s].user = tab[s].user /\ tab'[s].token = tab[s].token
                            /\ tab'[s].pending \in {tab[s].pending, None}
      BY <2>3, <3>1, ClearType
    <3> QED
      BY <1>4, <2>1, <3>2, NoRequest DEF Deliver, TypeOK
  <2> QED
    BY <1>4, <2>2, <2>3 DEF Deliver
<1>5. ASSUME NEW r \in Req, Disconnect(r) PROVE TypeOK'
  <2>1. Unheard(req[r]) \in Request /\ LessHeard(Unheard(req[r]), req[r])
    BY UnheardType DEF TypeOK
  <2>2. Kept /\ req' \in [Req -> Request]
    BY <1>5, <2>1, NoRequest DEF Disconnect, Kept, LessHeard, SameRequest, TypeOK
  <2> QED
    BY <1>5, <2>2, ServerType DEF Disconnect, ServerOnly, TypeOK
<1>6. ASSUME NEW r \in Req, ServerDies(r) PROVE TypeOK'
  <2>1. Kept /\ req' \in [Req -> Request]
    BY <1>6, NoRequest DEF ServerDies, Kept, TypeOK
  <2> QED
    BY <1>6, <2>1, ServerType DEF ServerDies, ServerOnly, TypeOK
<1>7. CASE CloseDestination
  BY <1>7, ServerType DEF CloseDestination, Kept, TypeOK
<1> QED
  BY <1>1, <1>2, <1>3, <1>4, <1>5, <1>6, <1>7 DEF Next

\* Every reachable state of browser and server is well typed; in particular a request goes
\* on for a user, and for an operation that a user confirmed.
THEOREM SubmissionsTypeCorrect == Spec => []TypeOK
  BY InitTypeOK, NextTypeOK, PTL DEF Spec

-------------------------------------------------------------------------------
(* Executions *)

\* Only one request executes an operation, and only one that was not executed; a success
\* is that of the execution; a repetition is not past the look at what was executed.
Executions ==
  /\ \A r \in Req : req[r].pc = "executing" =>
       /\ row[req[r].op] = Nothing
       /\ \A q \in Req : req[q].pc = "executing" /\ req[q].op = req[r].op => q = r
  /\ \A r \in Req : req[r].pc = "answered" =>
       row[req[r].op].user = req[r].user /\ row[req[r].op].result = req[r].result
  /\ \A r \in Req : req[r].late =>
       row[req[r].op].user = req[r].user /\ req[r].pc \in {"sent", "answered"}

ExecutionInv == TypeOK /\ Executions

\* A step of the client or the network on requests that are there.
LEMMA LessHeardInv ==
  ASSUME ExecutionInv, TypeOK', UNCHANGED row, \A r \in Req : LessHeard(req'[r], req[r])
  PROVE  ExecutionInv'
  BY NoRequest DEF ExecutionInv, Executions, LessHeard, SameRequest

\* A request that was not executed by the server goes on, is refused, or gets the stored
\* answer.
LEMMA BecomesInv ==
  ASSUME ExecutionInv, TypeOK', UNCHANGED row, NEW r \in Req, NEW p, NEW pc, NEW x,
         req[r].pc # "idle", Becomes(r, p, pc, x),
         \/ pc \in {"fresh", "valid", "refused"} /\ ~ req[r].late
         \/ /\ pc = "executing" /\ ~ req[r].late /\ row[req[r].op] = Nothing
            /\ ~ \E q \in Req : req[q].pc = "executing" /\ req[q].op = req[r].op
         \/ pc = "answered" /\ row[req[r].op].user = req[r].user /\ x = row[req[r].op].result
  PROVE  ExecutionInv'
<1>1. req' = [req EXCEPT ![r] = p] /\ req \in [Req -> Request]
  BY DEF Becomes, ExecutionInv, TypeOK
<1>2. CASE p = NoReq
  BY <1>1, <1>2, NoRequest DEF ExecutionInv, Executions
<1>3. CASE p # NoReq
  <2>1. /\ p.pc = pc /\ p.op = req[r].op /\ p.user = req[r].user
        /\ p.result = x /\ p.late = req[r].late
    BY <1>3 DEF Becomes
  <2> QED
    BY <1>1, <2>1 DEF ExecutionInv, Executions
<1> QED
  BY <1>2, <1>3

\* A request that is sent.
LEMMA SendInv ==
  ASSUME ExecutionInv, TypeOK', UNCHANGED row, NEW t \in Tab, NEW o \in Op, NEW r \in Req,
         tab[t].token # None, Send(t, o, r)
  PROVE  ExecutionInv'
<1>1. PICK p \in Request :
        /\ req' = [req EXCEPT ![r] = p] /\ req[r] = NoReq
        /\ p.pc = "sent" /\ p.op = o /\ p.user = tab[t].token /\ p.user \in User
        /\ p.late = (row[o].user = tab[t].token)
  BY SendBecomes DEF ExecutionInv
<1>2. req \in [Req -> Request]
  BY DEF ExecutionInv, TypeOK
<1> QED
  BY <1>1, <1>2 DEF ExecutionInv, Executions

\* An answer that is stored is that of the user who executed the operation, or a refusal
\* for another one.
LEMMA AnswerInv ==
  ASSUME ExecutionInv, TypeOK', UNCHANGED row, NEW r \in Req, req[r].pc # "idle", Answer(r)
  PROVE  ExecutionInv'
<1>1. PICK p \in Request :
        \/ SameUser(r) /\ Becomes(r, p, "answered", row[req[r].op].result)
        \/ ~ SameUser(r) /\ Becomes(r, p, "refused", None)
  BY AnswerBecomes DEF ExecutionInv
<1>2. CASE SameUser(r) /\ Becomes(r, p, "answered", row[req[r].op].result)
  BY <1>2, BecomesInv DEF SameUser
<1>3. CASE ~ SameUser(r) /\ Becomes(r, p, "refused", None)
  <2>1. ~ req[r].late
    BY <1>3 DEF SameUser, ExecutionInv, Executions, TypeOK, Request
  <2> QED
    BY <1>3, <2>1, BecomesInv
<1> QED
  BY <1>1, <1>2, <1>3

LEMMA CommitInv ==
  ASSUME ExecutionInv, TypeOK', NEW r \in Req, NEW x \in Result, Commit(r, x)
  PROVE  ExecutionInv'
<1>1. PICK p \in Request : Becomes(r, p, "answered", x)
  BY ReplyBecomes DEF Commit, ExecutionInv, TypeOK
<1>2. req' = [req EXCEPT ![r] = p] /\ req \in [Req -> Request]
  BY <1>1 DEF Becomes, ExecutionInv, TypeOK
<1>3. row[req[r].op] = Nothing /\ row' = [row EXCEPT ![req[r].op] = [user |-> req[r].user, result |-> x]]
      /\ req[r].op \in Op /\ req[r].user \in User
  BY DEF Commit, ExecutionInv, Executions, TypeOK
<1>4. \A q \in Req : req[q].pc \in {"answered"} \/ req[q].late => req[q].op # req[r].op
  BY <1>3 DEF ExecutionInv, Executions, TypeOK, Nothing
<1>5. ~ req[r].late
  BY DEF Commit, ExecutionInv, Executions, TypeOK, Request
<1>6. row \in [Op -> {Nothing} \cup [user : User, result : Result]]
  BY DEF ExecutionInv, TypeOK
<1>7. CASE p = NoReq
  BY <1>2, <1>3, <1>4, <1>6, <1>7, NoRequest DEF Commit, ExecutionInv, Executions, TypeOK
<1>8. CASE p # NoReq
  <2>1. /\ p.pc = "answered" /\ p.op = req[r].op /\ p.user = req[r].user
        /\ p.result = x /\ p.late = FALSE
    BY <1>1, <1>5, <1>8 DEF Becomes, Request
  <2> QED
    BY <1>2, <1>3, <1>4, <1>6, <2>1 DEF Commit, ExecutionInv, Executions, TypeOK
<1> QED
  BY <1>7, <1>8

\* Every step keeps one execution of each operation, and the answers true.
LEMMA NextExecutionInv == ExecutionInv /\ [Next]_vars => ExecutionInv'
<1> SUFFICES ASSUME ExecutionInv, [Next]_vars PROVE ExecutionInv'
    OBVIOUS
<1>0. TypeOK /\ TypeOK'
  BY NextTypeOK DEF ExecutionInv
<1>1. ASSUME UNCHANGED <<row, req>> PROVE ExecutionInv'
  BY <1>0, <1>1 DEF ExecutionInv, Executions
<1>2. ASSUME NEW t \in Tab, Client(t) PROVE ExecutionInv'
  <2>1. ASSUME req' = Unmounted(t), UNCHANGED row PROVE ExecutionInv'
    BY <1>0, <2>1, UnmountedType, LessHeardInv DEF TypeOK, LessHeard
  <2>2. CASE Reload(t)
    <3>1. \A r \in Req : LessHeard(req'[r], req[r])
      BY <1>0, <2>2, UnheardType DEF Reload, LessHeard, SameRequest, TypeOK
    <3> QED
      BY <1>0, <2>2, <3>1, LessHeardInv DEF Reload
  <2>3. ASSUME NEW r \in Req, retry(t, r) PROVE ExecutionInv'
    BY <1>0, <2>3, SendInv DEF retry, TypeOK
  <2>4. ASSUME NEW r \in Req, NEW o \in Op, start(t, o, r) PROVE ExecutionInv'
    BY <1>0, <2>4, SendInv DEF start, TypeOK
  <2> QED
    BY <1>1, <1>2, <2>1, <2>2, <2>3, <2>4 DEF Client, login, logout, renew, Reopen, discardPending
<1>3. ASSUME NEW r \in Req, Server(r) PROVE ExecutionInv'
  <2>1. CASE Replay(r)
    <3>1. CASE Executed(req[r].op)
      BY <1>0, <2>1, <3>1, AnswerInv DEF Replay
    <3>2. CASE ~ Executed(req[r].op)
      <4>1. ~ req[r].late
        BY <1>0, <2>1, <3>2 DEF Replay, Executed, Nothing, ExecutionInv, Executions, TypeOK
      <4>2. PICK p \in Request : Becomes(r, p, "fresh", req[r].result)
        BY <1>0, <2>1, <3>2, StepBecomes DEF Replay, TypeOK
      <4> QED
        BY <1>0, <2>1, <4>1, <4>2, BecomesInv DEF Replay
    <3> QED
      BY <3>1, <3>2
  <2>2. CASE Validate(r)
    <3>1. ~ req[r].late
      BY <1>0, <2>2 DEF Validate, ExecutionInv, Executions, TypeOK, Request
    <3>2. PICK p \in Request : \E x : Becomes(r, p, "valid", x) \/ Becomes(r, p, "refused", x)
      BY <1>0, <2>2, StepBecomes, ReplyBecomes DEF Validate, TypeOK
    <3> QED
      BY <1>0, <2>2, <3>1, <3>2, BecomesInv DEF Validate
  <2>3. CASE Insert(r)
    <3>1. CASE KeyFree(req[r].op)
      <4>1. ~ req[r].late
        BY <1>0, <2>3 DEF Insert, ExecutionInv, Executions, TypeOK, Request
      <4>2. PICK p \in Request : Becomes(r, p, "executing", req[r].result)
        BY <1>0, <2>3, <3>1, StepBecomes DEF Insert, TypeOK
      <4> QED
        BY <1>0, <2>3, <3>1, <4>1, <4>2, BecomesInv DEF Insert, KeyFree
    <3>2. CASE ~ KeyFree(req[r].op)
      BY <1>0, <2>3, <3>2, AnswerInv DEF Insert
    <3> QED
      BY <3>1, <3>2
  <2>4. CASE Fail(r)
    <3>1. ~ req[r].late
      BY <1>0, <2>4 DEF Fail, ExecutionInv, Executions, TypeOK, Request
    <3>2. PICK p \in Request : Becomes(r, p, "refused", None)
      BY <1>0, <2>4, ReplyBecomes DEF Fail, TypeOK
    <3> QED
      BY <1>0, <2>4, <3>1, <3>2, BecomesInv DEF Fail
  <2>5. ASSUME NEW x \in Result, Commit(r, x) PROVE ExecutionInv'
    BY <1>0, <2>5, CommitInv
  <2> QED
    BY <1>3, <2>1, <2>2, <2>3, <2>4, <2>5 DEF Server
<1>4. ASSUME NEW r \in Req, Deliver(r) \/ Disconnect(r) \/ ServerDies(r) PROVE ExecutionInv'
  <2>1. \A q \in Req : LessHeard(req'[q], req[q])
    BY <1>0, <1>4, UnheardType DEF Deliver, Disconnect, ServerDies, LessHeard, SameRequest, TypeOK
  <2> QED
    BY <1>0, <1>4, <2>1, LessHeardInv DEF Deliver, Disconnect, ServerDies
<1> QED
  BY <1>1, <1>2, <1>3, <1>4 DEF Next, vars, CloseDestination

LEMMA InitExecutionInv == Init => ExecutionInv
  BY InitTypeOK, NoRequest DEF Init, ExecutionInv, Executions

\* A repeated request is answered even when the destination was deactivated since
\* (warehouse-operation.service.ts, executeWarehouseOperation).
THEOREM RepetitionsAnswered == Spec => []RepeatAnswered
<1>1. ExecutionInv => RepeatAnswered
  BY DEF ExecutionInv, Executions, RepeatAnswered
<1> QED
  BY <1>1, InitExecutionInv, NextExecutionInv, PTL DEF Spec

-------------------------------------------------------------------------------
(* The abstract specification *)

USE DEF Once!Nothing, Once!Success

\* Successes are forgotten, or arrive, but none is new.
LEMMA AnswersArrive ==
  ASSUME UNCHANGED row,
         \A r \in Req : req'[r].pc = "answered" =>
           /\ req[r].pc = "answered" /\ req'[r].op = req[r].op
           /\ req'[r].user = req[r].user /\ req'[r].result = req[r].result
  PROVE  Once!Arrive
<1>1. Answers' \subseteq Answers
  BY DEF Answers
<1> QED
  BY <1>1 DEF Once!Arrive

LEMMA LessHeardArrives ==
  ASSUME UNCHANGED row, \A r \in Req : LessHeard(req'[r], req[r])
  PROVE  Once!Arrive
  BY AnswersArrive, NoRequest DEF LessHeard, SameRequest

\* One more success, or none.
LEMMA OneMoreAnswer ==
  ASSUME TypeOK, NEW r \in Req, req[r].pc # "answered", NEW p, NEW x, Becomes(r, p, "answered", x)
  PROVE  Answers' \in {Answers, Answers \cup {[op |-> req[r].op, user |-> req[r].user, result |-> x]}}
<1>1. req' = [req EXCEPT ![r] = p] /\ req \in [Req -> Request]
  BY DEF Becomes, TypeOK
<1>2. ASSUME NEW q \in Req, q # r PROVE req'[q] = req[q]
  BY <1>1, <1>2
<1>3. req'[r] = p
  BY <1>1
<1>4. CASE p = NoReq
  <2>1. {q \in Req : req'[q].pc = "answered"} = {q \in Req : req[q].pc = "answered"}
    BY <1>2, <1>3, <1>4, NoRequest
  <2>2. Answers' = Answers
    BY <1>2, <2>1 DEF Answers
  <2> QED
    BY <2>2
<1>5. CASE p # NoReq
  <2>1. p.pc = "answered" /\ p.op = req[r].op /\ p.user = req[r].user /\ p.result = x
    BY <1>5 DEF Becomes
  <2>2. {q \in Req : req'[q].pc = "answered"} = {q \in Req : req[q].pc = "answered"} \cup {r}
    BY <1>2, <1>3, <2>1
  <2>3. Answers' = Answers \cup {[op |-> req[r].op, user |-> req[r].user, result |-> x]}
    BY <1>2, <1>3, <2>1, <2>2 DEF Answers
  <2> QED
    BY <2>3
<1> QED
  BY <1>4, <1>5

\* The stored answer is a success of the one execution.
LEMMA AnswerRefines ==
  ASSUME ExecutionInv, UNCHANGED row, NEW r \in Req, req[r].pc \notin {"idle", "answered"}, Answer(r)
  PROVE  Once!Next \/ Answers' = Answers
<1>1. PICK p \in Request :
        \/ SameUser(r) /\ Becomes(r, p, "answered", row[req[r].op].result)
        \/ ~ SameUser(r) /\ Becomes(r, p, "refused", None)
  BY AnswerBecomes DEF ExecutionInv
<1> DEFINE o == req[r].op
<1>2. o \in Op /\ req[r].user \in User
  BY DEF ExecutionInv, TypeOK
<1>3. CASE SameUser(r) /\ Becomes(r, p, "answered", row[o].result)
  <2>1. row[o] # Nothing /\ row[o].user = req[r].user
    BY <1>2, <1>3 DEF SameUser, Nothing
  <2>2. Answers' \in {Answers, Answers \cup {[op |-> o, user |-> row[o].user, result |-> row[o].result]}}
    BY <1>3, <2>1, OneMoreAnswer DEF ExecutionInv
  <2>3. Answers' = Answers \/ Once!Answer(o)
    BY <2>1, <2>2 DEF Once!Answer, Nothing
  <2> QED
    BY <1>2, <2>3 DEF Once!Next
<1>4. CASE Becomes(r, p, "refused", None)
  <2>1. Once!Arrive
    BY <1>4, AnswersArrive, NoRequest DEF Becomes, ExecutionInv, TypeOK
  <2> QED
    BY <2>1 DEF Once!Next
<1> QED
  BY <1>1, <1>3, <1>4

\* A commit is the execution.
LEMMA CommitRefines ==
  ASSUME ExecutionInv, NEW r \in Req, NEW x \in Result, Commit(r, x)
  PROVE  Once!Next
<1> DEFINE o == req[r].op
           u == req[r].user
<1>1. o \in Op /\ u \in User /\ row[o] = Nothing
      /\ row' = [row EXCEPT ![o] = [user |-> u, result |-> x]]
  BY DEF Commit, ExecutionInv, Executions, TypeOK
<1>2. PICK p \in Request : Becomes(r, p, "answered", x)
  BY ReplyBecomes DEF Commit, ExecutionInv, TypeOK
<1>3. Answers' \in {Answers, Answers \cup {[op |-> o, user |-> u, result |-> x]}}
  BY <1>2, OneMoreAnswer DEF Commit, ExecutionInv
<1>4. Once!Execute(o, u, x)
  BY <1>1, <1>3 DEF Once!Execute, Nothing
<1> QED
  BY <1>1, <1>4 DEF Once!Next

\* Every step is a step of the abstract specification, or none.
LEMMA NextRefines ==
  ExecutionInv /\ [Next]_vars => [Once!Next]_<<row, Answers>>
<1> SUFFICES ASSUME ExecutionInv, [Next]_vars PROVE Once!Next \/ UNCHANGED <<row, Answers>>
    OBVIOUS
<1>0. TypeOK
  BY DEF ExecutionInv
<1>1. ASSUME UNCHANGED <<row, req>> PROVE UNCHANGED <<row, Answers>>
  BY <1>1 DEF Answers
<1>2. ASSUME NEW r \in Req, NEW p, NEW pc \in {"fresh", "valid", "executing", "refused"}, NEW x,
             Becomes(r, p, pc, x), UNCHANGED row
      PROVE  Once!Next
  <2>1. Once!Arrive
    BY <1>0, <1>2, AnswersArrive, NoRequest DEF Becomes, TypeOK
  <2> QED
    BY <2>1 DEF Once!Next
<1>3. ASSUME NEW t \in Tab, NEW o \in Op, NEW r \in Req, tab[t].token # None, Send(t, o, r), UNCHANGED row
      PROVE  Once!Next
  <2>1. PICK p \in Request : req' = [req EXCEPT ![r] = p] /\ p.pc = "sent"
    BY <1>0, <1>3, SendBecomes
  <2>2. Once!Arrive
    BY <1>0, <1>3, <2>1, AnswersArrive DEF TypeOK
  <2> QED
    BY <2>2 DEF Once!Next
<1>4. ASSUME UNCHANGED row, \A r \in Req : LessHeard(req'[r], req[r]) PROVE Once!Next
  BY <1>4, LessHeardArrives DEF Once!Next
<1>5. ASSUME NEW t \in Tab, Client(t) PROVE Once!Next \/ UNCHANGED <<row, Answers>>
  <2>1. ASSUME req' = Unmounted(t), UNCHANGED row PROVE Once!Next
    BY <1>0, <1>4, <2>1, UnmountedType DEF TypeOK, LessHeard
  <2>2. CASE Reload(t)
    <3>1. \A r \in Req : LessHeard(req'[r], req[r])
      BY <1>0, <2>2, UnheardType DEF Reload, LessHeard, SameRequest, TypeOK
    <3> QED
      BY <1>4, <2>2, <3>1 DEF Reload
  <2>3. ASSUME NEW r \in Req, retry(t, r) PROVE Once!Next
    BY <1>0, <1>3, <2>3 DEF retry, TypeOK
  <2>4. ASSUME NEW r \in Req, NEW o \in Op, start(t, o, r) PROVE Once!Next
    BY <1>0, <1>3, <2>4 DEF start, TypeOK
  <2> QED
    BY <1>1, <1>5, <2>1, <2>2, <2>3, <2>4 DEF Client, login, logout, renew, Reopen, discardPending
<1>6. ASSUME NEW r \in Req, Server(r) PROVE Once!Next \/ UNCHANGED <<row, Answers>>
  <2>1. CASE Replay(r)
    <3>1. CASE Executed(req[r].op)
      BY <2>1, <3>1, AnswerRefines DEF Replay
    <3>2. CASE ~ Executed(req[r].op)
      <4>1. PICK p \in Request : Becomes(r, p, "fresh", req[r].result)
        BY <1>0, <2>1, <3>2, StepBecomes DEF Replay, TypeOK
      <4> QED
        BY <1>2, <2>1, <4>1 DEF Replay
    <3> QED
      BY <3>1, <3>2
  <2>2. CASE Validate(r)
    <3>1. PICK p \in Request : \E x : Becomes(r, p, "valid", x) \/ Becomes(r, p, "refused", x)
      BY <1>0, <2>2, StepBecomes, ReplyBecomes DEF Validate, TypeOK
    <3> QED
      BY <1>2, <2>2, <3>1 DEF Validate
  <2>3. CASE Insert(r)
    <3>1. CASE KeyFree(req[r].op)
      <4>1. PICK p \in Request : Becomes(r, p, "executing", req[r].result)
        BY <1>0, <2>3, <3>1, StepBecomes DEF Insert, TypeOK
      <4> QED
        BY <1>2, <2>3, <4>1 DEF Insert
    <3>2. CASE ~ KeyFree(req[r].op)
      BY <2>3, <3>2, AnswerRefines DEF Insert
    <3> QED
      BY <3>1, <3>2
  <2>4. CASE Fail(r)
    <3>1. PICK p \in Request : Becomes(r, p, "refused", None)
      BY <1>0, <2>4, ReplyBecomes DEF Fail, TypeOK
    <3> QED
      BY <1>2, <2>4, <3>1 DEF Fail
  <2>5. ASSUME NEW x \in Result, Commit(r, x) PROVE Once!Next
    BY <2>5, CommitRefines
  <2> QED
    BY <1>6, <2>1, <2>2, <2>3, <2>4, <2>5 DEF Server
<1>7. ASSUME NEW r \in Req, Deliver(r) \/ Disconnect(r) \/ ServerDies(r) PROVE Once!Next
  <2>1. \A q \in Req : LessHeard(req'[q], req[q])
    BY <1>0, <1>7, UnheardType DEF Deliver, Disconnect, ServerDies, LessHeard, SameRequest, TypeOK
  <2> QED
    BY <1>4, <1>7, <2>1 DEF Deliver, Disconnect, ServerDies
<1> QED
  BY <1>1, <1>5, <1>6, <1>7 DEF Next, vars, CloseDestination

\* What tabs, network and server do to a confirmed operation is what ExactlyOnce promises:
\* one execution, by one user, whose result every success carries
\* (warehouse-operation.service.ts, executeWarehouseOperation).
THEOREM OperationsExecutedOnce == Spec => ImplementsExactlyOnce
<1>1. Init => Once!Init
  <2> SUFFICES ASSUME Init PROVE Once!Init
      OBVIOUS
  <2>1. Answers = {}
    BY NoRequest DEF Init, Answers
  <2> QED
    BY <2>1 DEF Init, Once!Init, Nothing
<1> QED
  BY <1>1, InitExecutionInv, NextExecutionInv, NextRefines, PTL
     DEF Spec, ImplementsExactlyOnce, Once!Spec

-------------------------------------------------------------------------------
(* Confirmed requests *)

\* Once executed or given up, an operation stays so; only its owner's entry is cleared.
LEMMA NextNotForgotten == ExecutionInv /\ NotForgotten /\ [Next]_vars => NotForgotten'
<1> SUFFICES ASSUME ExecutionInv, NotForgotten, [Next]_vars PROVE NotForgotten'
    OBVIOUS
<1>0. TypeOK
  BY DEF ExecutionInv
<1>1. ASSUME UNCHANGED <<owner, row, saved, given>> PROVE NotForgotten'
  BY <1>1 DEF NotForgotten
<1>2. ASSUME NEW t \in Tab, logout(t) PROVE NotForgotten'
  BY <1>0, <1>2 DEF logout, Unexecuted, NotForgotten, TypeOK
<1>3. ASSUME NEW t \in Tab, discardPending(t) PROVE NotForgotten'
  <2>1. tab[t].user \in User /\ tab[t].pending \in Op
    BY <1>0, <1>3 DEF discardPending, TypeOK
  <2> QED
    BY <1>0, <1>3, <2>1 DEF discardPending, clear, Clears, Unexecuted, NotForgotten, TypeOK
<1>4. ASSUME NEW t \in Tab, NEW r \in Req, NEW o \in Op, start(t, o, r) PROVE NotForgotten'
  <2>1. tab[t].user \in User
    BY <1>0, <1>4 DEF start, TypeOK
  <2> QED
    BY <1>0, <1>4, <2>1 DEF start, Vacant, NotForgotten, TypeOK
<1>5. ASSUME NEW r \in Req, NEW x \in Result, Commit(r, x) PROVE NotForgotten'
  <2>1. \A o \in Op : row[o] # Nothing => row'[o] # Nothing
    BY <1>0, <1>5 DEF Commit, TypeOK, Nothing
  <2> QED
    BY <1>5, <2>1 DEF Commit, ServerOnly, client, NotForgotten
<1>6. ASSUME NEW r \in Req, Deliver(r) PROVE NotForgotten'
  <2>1. CASE clear(req[r].from, owner[req[r].op], req[r].op, req[r].shown) /\ req[r].pc = "answered"
    <3>1. req[r].op \in Op /\ owner[req[r].op] \in User /\ row[req[r].op] # Nothing
      BY <1>0, <2>1 DEF ExecutionInv, Executions, TypeOK, Nothing
    <3> QED
      BY <1>0, <1>6, <2>1, <3>1 DEF Deliver, clear, Clears, NotForgotten, TypeOK
  <2>2. CASE UNCHANGED <<saved, tab>>
    BY <1>1, <1>6, <2>2 DEF Deliver
  <2> QED
    BY <1>6, <2>1, <2>2 DEF Deliver
<1> QED
  BY <1>1, <1>2, <1>3, <1>4, <1>5, <1>6
     DEF Next, vars, client, Client, login, renew, Reopen, Reload, retry, Server, Replay, Validate,
         Insert, Fail, Disconnect, ServerDies, CloseDestination, ServerOnly

\* A confirmed request is executed, still saved, or given up by a user, whatever tabs are
\* reloaded, sessions expire and answers get lost (useWarehouseSubmission.ts).
THEOREM NothingForgotten == Spec => []NotForgotten
<1>1. Init => NotForgotten
  BY DEF Init, NotForgotten
<1> QED
  BY <1>1, InitExecutionInv, NextExecutionInv, NextNotForgotten, PTL DEF Spec
===============================================================================
