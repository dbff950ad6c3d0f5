------------------------------- MODULE Submissions -----------------------------
(***************************************************************************)
(* A confirmed bulk move or receipt on its way from the scanner to the     *)
(* database.  The client keeps the confirmed request in localStorage       *)
(* (client utils/warehouseSubmission.ts, hooks/useWarehouseSubmission.ts,  *)
(* the warehouse pages) and repeats it with the same operation identifier  *)
(* until it is answered or the user discards it; the server                *)
(* (boxes/warehouse-operation.service.ts) executes an identifier once and  *)
(* repeats the stored answer.                                              *)
(*                                                                         *)
(* Tabs share localStorage and the session cookie, but each has its own    *)
(* access token and its own copy of what is pending: a token is renewed    *)
(* with the cookie, which another tab may have changed to another user.    *)
(* Answers get lost, pages are left or reloaded while a request runs, and  *)
(* the server may die in it.                                               *)
(*                                                                         *)
(* One tenant and one kind of operation.  What an execution does to the    *)
(* boxes is in Warehouse; here it has a result, which depends on where the *)
(* boxes are at that time.                                                 *)
(***************************************************************************)
EXTENDS Naturals, FiniteSets

CONSTANTS
  Op,      \* operation identifiers: confirmed requests
  User, Tab,
  Req,     \* HTTP requests under way at the same time
  Result,  \* how many boxes had to be moved
  Logins,  \* bound: how often somebody logs in; reloads and renewals are free
  None

ASSUME SubmissionsAssumption == None \notin Op \cup User \cup Tab /\ Logins \in Nat

VARIABLES
  saved,    \* localStorage: the submission under each user's key
  tab,      \* user shown, user of the access token, and the pending submission on display
  logins,   \* logins so far
  cookie,   \* whose refresh token the browser holds
  owner,    \* who confirmed each operation
  given,    \* operations given up before they were executed: discarded, or cleared at logout
  active,   \* whether the destination can still take boxes
  row,      \* warehouse_operations: who executed it, and the stored answer
  req       \* requests at the server, and their answers

client == <<saved, tab, logins, cookie, owner, given>>
vars == <<saved, tab, logins, cookie, owner, given, active, row, req>>

Nothing == [user |-> None, result |-> None]
NoTab == [user |-> None, token |-> None, pending |-> None]
\* from: the page that waits for the answer; shown: the form is still on display.
NoReq == [pc |-> "idle", op |-> None, user |-> None, from |-> None, shown |-> FALSE,
          result |-> None, late |-> FALSE]

Init ==
  /\ saved = [u \in User |-> None]
  /\ tab = [t \in Tab |-> NoTab]
  /\ cookie = None /\ logins = 0
  /\ owner = [o \in Op |-> None]
  /\ given = {}
  /\ active = TRUE
  /\ row = [o \in Op |-> Nothing]
  /\ req = [r \in Req |-> NoReq]

\* readWarehouseSubmission; without a user there is no key.
Stored(u) == IF u = None THEN None ELSE saved[u]

Unexecuted(S) == {o \in S \cap Op : row[o] = Nothing}

Busy(t) == \E r \in Req : req[r].from = t /\ req[r].shown

\* The form of tab t is no longer on display; its requests go on.
Unmounted(t) == [r \in Req |-> IF req[r].from = t THEN [req[r] EXCEPT !.shown = FALSE] ELSE req[r]]

\* Nobody waits for the answer of q any more; the server does not notice.
Unheard(q) == IF q.pc \in {"answered", "refused"} THEN NoReq ELSE [q EXCEPT !.from = None, !.shown = FALSE]

-------------------------------------------------------------------------------
(* The session of a tab *)

login(t, u) ==
  /\ tab[t].user = None
  /\ logins < Logins /\ logins' = logins + 1
  /\ cookie' = u
  /\ tab' = [tab EXCEPT ![t] = [user |-> u, token |-> u, pending |-> Stored(u)]]
  /\ UNCHANGED <<saved, owner, given, active, row, req>>

\* logout: the token and the cookie are dropped, all submissions are cleared.
logout(t) ==
  /\ tab[t].user # None
  /\ cookie' = None
  /\ tab' = [tab EXCEPT ![t] = NoTab]
  /\ given' = given \cup Unexecuted({saved[u] : u \in User})
  /\ saved' = [u \in User |-> None]
  /\ req' = Unmounted(t)
  /\ UNCHANGED <<logins, owner, active, row>>

\* The session-expired event.
SessionExpired(t) == NoTab

\* An expired token is renewed for whoever the cookie belongs to; without one the
\* session has expired, and submissions stay.
renew(t) ==
  /\ tab[t].user # None /\ tab[t].token # cookie
  /\ IF cookie # None
       THEN tab' = [tab EXCEPT ![t].token = cookie] /\ UNCHANGED req
       ELSE tab' = [tab EXCEPT ![t] = SessionExpired(t)] /\ req' = Unmounted(t)
  /\ UNCHANGED <<saved, logins, cookie, owner, given, active, row>>

\* The user leaves the form and comes back to it.
Reopen(t) ==
  /\ tab[t].user # None
  /\ tab' = [tab EXCEPT ![t].pending = Stored(tab[t].user)]
  /\ req' = Unmounted(t)
  /\ UNCHANGED <<saved, logins, cookie, owner, given, active, row>>

\* The page is loaded again, by the user or after a crash: its requests lose their page.
Reload(t) ==
  /\ tab' = [tab EXCEPT ![t] = [user |-> cookie, token |-> cookie, pending |-> Stored(cookie)]]
  /\ req' = [r \in Req |-> IF req[r].from = t THEN Unheard(req[r]) ELSE req[r]]
  /\ UNCHANGED <<saved, logins, cookie, owner, given, active, row>>

-------------------------------------------------------------------------------
(* The submission *)

\* late: the operation had been executed, by the same user, before the request arrived.
Send(t, o, r) ==
  /\ req[r] = NoReq
  /\ req' = [req EXCEPT ![r] = [NoReq EXCEPT !.pc = "sent", !.op = o, !.user = tab[t].token,
                                  !.from = t, !.shown = TRUE, !.late = row[o].user = tab[t].token]]

\* saveWarehouseSubmission never replaces an entry.
Replaces(u) == TRUE
Vacant(u) == saved[u] = None

\* handleMove, receive: confirmed, saved, and sent.
start(t, o, r) ==
  LET u == tab[t].user IN
  /\ u # None /\ tab[t].pending = None /\ ~ Busy(t)
  /\ owner[o] = None /\ Vacant(u)
  /\ owner' = [owner EXCEPT ![o] = u]
  /\ saved' = [saved EXCEPT ![u] = o]
  /\ tab' = [tab EXCEPT ![t].pending = o]
  /\ Send(t, o, r)
  /\ UNCHANGED <<logins, cookie, given, active, row>>

retry(t, r) ==
  /\ tab[t].pending # None /\ ~ Busy(t)
  /\ Send(t, tab[t].pending, r)
  /\ UNCHANGED <<client, active, row>>

\* clearWarehouseSubmission, of its own entry only.
ClearsAny(u, o) == saved[u] # None
Clears(u, o) == saved[u] = o

\* The entry under the user's key is cleared, and then the form's copy.
clear(t, u, o, shown) ==
  IF Clears(u, o)
    THEN /\ saved' = [saved EXCEPT ![u] = None]
         /\ tab' = IF shown THEN [tab EXCEPT ![t].pending = None] ELSE tab
    ELSE UNCHANGED <<saved, tab>>

discardPending(t) ==
  LET u == tab[t].user
      o == tab[t].pending
  IN
  /\ o # None /\ ~ Busy(t)
  /\ clear(t, u, o, TRUE)
  /\ given' = given \cup Unexecuted({o})
  /\ UNCHANGED <<logins, cookie, owner, active, row, req>>

-------------------------------------------------------------------------------
(* executeWarehouseOperation *)

Step(r, pc) == req' = [req EXCEPT ![r].pc = pc]
Reply(r, pc, x) ==
  req' = [req EXCEPT ![r] = IF @.from = None THEN NoReq ELSE [@ EXCEPT !.pc = pc, !.result = x]]
ServerOnly == UNCHANGED <<client, active>>

\* The stored answer, for the user who executed the operation; others are refused.  Kind and
\* content, which are compared too, are stored with the identifier and sent with it unchanged,
\* and there is one client here: of what is compared only the user can differ.
SameUser(r) == row[req[r].op].user = req[r].user
Answer(r) ==
  IF SameUser(r) THEN Reply(r, "answered", row[req[r].op].result) ELSE Reply(r, "refused", None)

\* replay comes first: an executed operation is answered whatever has changed since.
StillValid(o) == row[o] # Nothing /\ active
Executed(o) == row[o] # Nothing

Replay(r) ==
  /\ req[r].pc = "sent"
  /\ IF Executed(req[r].op) THEN Answer(r) ELSE Step(r, "fresh")
  /\ UNCHANGED row /\ ServerOnly

Validate(r) ==
  /\ req[r].pc = "fresh"
  /\ IF active THEN Step(r, "valid") ELSE Reply(r, "refused", None)
  /\ UNCHANGED row /\ ServerOnly

\* The identifier is inserted first: a second insert waits for the first transaction,
\* and is refused by the unique key if that commits.
Unguarded(o) == TRUE
KeyFree(o) == row[o] = Nothing

Insert(r) ==
  LET o == req[r].op IN
  /\ req[r].pc = "valid"
  /\ ~ \E q \in Req : req[q].pc = "executing" /\ req[q].op = o
  /\ IF KeyFree(o) THEN Step(r, "executing") ELSE Answer(r)
  /\ UNCHANGED row /\ ServerOnly

Commit(r, x) ==
  /\ req[r].pc = "executing"
  /\ row' = [row EXCEPT ![req[r].op] = [user |-> req[r].user, result |-> x]]
  /\ Reply(r, "answered", x)
  /\ ServerOnly

\* The boxes are not as expected: the transaction, with its identifier, is rolled back.
Fail(r) ==
  /\ req[r].pc = "executing"
  /\ Reply(r, "refused", None)
  /\ UNCHANGED row /\ ServerOnly

-------------------------------------------------------------------------------
(* Answers and faults *)

\* The page clears its submission on success, and keeps it otherwise.
Deliver(r) ==
  LET q == req[r] IN
  /\ q.pc \in {"answered", "refused"}
  /\ IF q.pc = "answered"
       THEN clear(q.from, owner[q.op], q.op, q.shown) ELSE UNCHANGED <<saved, tab>>
  /\ req' = [req EXCEPT ![r] = NoReq]
  /\ UNCHANGED <<logins, cookie, owner, given, active, row>>

\* The connection breaks.
Disconnect(r) ==
  /\ req[r].from # None
  /\ req' = [req EXCEPT ![r] = Unheard(@)]
  /\ UNCHANGED row /\ ServerOnly

\* The server dies with the request.
ServerDies(r) ==
  /\ req[r].pc \notin {"idle", "answered", "refused"}
  /\ req' = [req EXCEPT ![r] = NoReq]
  /\ UNCHANGED row /\ ServerOnly

\* The destination is deactivated.  Bound: for good.
CloseDestination ==
  active /\ active' = FALSE /\ UNCHANGED <<client, row, req>>

Client(t) ==
  \/ \E u \in User : login(t, u)
  \/ logout(t) \/ renew(t) \/ Reopen(t) \/ Reload(t) \/ discardPending(t)
  \/ \E r \in Req : retry(t, r) \/ \E o \in Op : start(t, o, r)

Server(r) == Replay(r) \/ Validate(r) \/ Insert(r) \/ Fail(r) \/ \E x \in Result : Commit(r, x)

Next ==
  \/ \E t \in Tab : Client(t)
  \/ \E r \in Req : Server(r) \/ Deliver(r) \/ Disconnect(r) \/ ServerDies(r)
  \/ CloseDestination

Spec == Init /\ [][Next]_vars

-------------------------------------------------------------------------------

Request ==
  [pc : {"idle", "sent", "fresh", "valid", "executing", "answered", "refused"},
   op : Op \cup {None}, user : User \cup {None}, from : Tab \cup {None}, shown : BOOLEAN,
   result : Result \cup {None}, late : BOOLEAN]

\* What is pending or requested was confirmed by a user, and requested for one.
TypeOK ==
  /\ saved \in [User -> Op \cup {None}]
  /\ tab \in [Tab -> [user : User \cup {None}, token : User \cup {None}, pending : Op \cup {None}]]
  /\ logins \in 0 .. Logins /\ cookie \in User \cup {None}
  /\ owner \in [Op -> User \cup {None}]
  /\ given \subseteq Op /\ active \in BOOLEAN
  /\ row \in [Op -> {Nothing} \cup [user : User, result : Result]]
  /\ req \in [Req -> Request]
  /\ \A u \in User : saved[u] # None => owner[saved[u]] # None
  /\ \A t \in Tab :
       /\ tab[t].user = None <=> tab[t].token = None
       /\ tab[t].pending # None => tab[t].user # None /\ owner[tab[t].pending] # None
  /\ \A r \in Req : req[r].pc # "idle" =>
       req[r].op \in Op /\ req[r].user \in User /\ owner[req[r].op] # None

\* The successes on their way.
Answers == {[op |-> req[r].op, user |-> req[r].user, result |-> req[r].result] :
              r \in {q \in Req : req[q].pc = "answered"}}
Once == INSTANCE ExactlyOnce WITH done <- row, answers <- Answers

\* However often a request is repeated, from whichever tab, with whatever answers lost,
\* the operation is executed at most once, and a success is only reported to the user
\* who executed it, with the result of that execution.
ImplementsExactlyOnce == Once!Spec

\* A confirmed request is not forgotten: it was executed, or it is still saved for the
\* user who confirmed it, or a user gave it up.
NotForgotten ==
  \A o \in Op : owner[o] # None =>
    row[o] # Nothing \/ saved[owner[o]] = o \/ o \in given

\* A request for an operation that had been executed before it arrived is never refused,
\* not even when the destination has been deactivated since.
RepeatAnswered ==
  \A r \in Req : req[r].late => req[r].pc \in {"sent", "answered"}
===============================================================================
