------------------------------- MODULE Inventory -------------------------------
(***************************************************************************)
(* The control of a shelf: one inventory session (inventory.service.ts)    *)
(* and the pages of the devices that scan it (InventoryPage.tsx) with      *)
(* their scan queue (serialScanQueue.ts) and the codes they stage while    *)
(* they are offline (useOfflineWarehouseScans.ts).                         *)
(*                                                                         *)
(* Server: every change locks the row of the session, looks, and writes.   *)
(* Page: one call at a time (busyRef); codes that arrive meanwhile wait in *)
(* the queue.  A call may be lost before the server has done it or after,  *)
(* or be done by the server after the page gave it up.  A code whose call  *)
(* was lost is staged in the browser until the server is seen to have it.  *)
(*                                                                         *)
(* A page asks the server for the session before it sends a staged code    *)
(* again, and acts on what it was told: by then the session may be another *)
(* one, an undo of another device included.                                *)
(*                                                                         *)
(* A page handles no event between two codes of its queue: the steps of    *)
(* the queue are microtasks.  It may turn to another client at any time,   *)
(* which closes the session, and back: a step that looks which client the  *)
(* page is at may find either while no session is open.  A code is the box *)
(* it is printed on.  Left out: codes that start another session.          *)
(***************************************************************************)
EXTENDS Naturals, Sequences, SequencesExt

CONSTANTS
  Box,
  Expected,  \* boxes the session expects on the shelf when it starts
  Here,      \* boxes the system has on the shelf when they are scanned
  Device,    \* pages
  Handheld,  \* bound: pages that scan, lose calls, go offline or turn to another client;
             \* scans are undone and discrepancies settled on the others
  Call,      \* calls under way, those given up by their page included
  Nobody, NoBox,
  MaxScans,  \* bound: scans recorded, voided ones included
  MaxEvents  \* bound: resolution events, of one discrepancy

ASSUME InventoryAssumption ==
  /\ Expected \subseteq Box /\ Here \subseteq Box /\ Handheld \subseteq Device
  /\ NoBox \notin Box /\ Nobody \notin Call
  /\ MaxScans \in Nat /\ MaxEvents \in Nat

VARIABLES
  status,   \* inventory_sessions.status
  scans,    \* the scans that are not voided: id, in their order, and box
  made,     \* number of scans ever recorded
  events,   \* the resolution events of each box's discrepancy
  lock,     \* the call that holds the row of the session
  call,     \* each call: what it asks, how far it is, what it has read
  seen,     \* the session as a page shows it; Closed when it shows none
  waits,    \* what a page is doing, and the call it waits for
  staged,   \* codes in the browser's storage
  queue,    \* the scan queue of a page
  had       \* history: the staged codes whose box the session has had since they were staged

vars == <<status, scans, made, events, lock, call, seen, waits, staged, queue, had>>
session == <<status, scans, made, events>>

Idle == [pc |-> "idle"]
Scan == [id : Nat, box : Box]
CallState ==
  [pc : {"idle", "done", "refused"}]
    \cup [pc : {"sent", "locked"}, kind : {"scan", "resolved", "reopened"}, box : Box, id : Nat]
    \cup [pc : {"sent", "locked"}, kind : {"undo", "finish"}, box : {NoBox}, id : Nat]
SessionView == [status : {"closed", "in_progress", "completed"}, scans : SUBSET Scan]
PageState ==
  [pc : {"idle"}] \cup [pc : {"syncing"}, todo : SUBSET Box]
    \cup [pc : {"told"}, box : Box, todo : SUBSET Box, latest : SessionView, again : BOOLEAN]
    \cup [pc : {"waiting"}, for : {"sync"}, call : Call, box : Box, todo : SUBSET Box]
    \cup [pc : {"waiting"}, for : {"queue"}, call : Call, box : Box, todo : {{}}]
    \cup [pc : {"waiting"}, for : {"user"}, call : Call, box : {NoBox}, todo : {{}}]
ScanQueue ==
  [pending : Seq(Box), active : Box \cup {NoBox},
   drain : {"none", "started", "running"}, stale : BOOLEAN]
Closed == [status |-> "closed", scans |-> {}]
EmptyQueue == [pending |-> <<>>, active |-> NoBox, drain |-> "none", stale |-> FALSE]

Init ==
  /\ status = "in_progress" /\ scans = {} /\ made = 0
  /\ events = [b \in Box |-> <<>>]
  /\ lock = Nobody
  /\ call = [c \in Call |-> Idle]
  /\ seen = [d \in Device |-> Closed]
  /\ waits = [d \in Device |-> Idle]
  /\ staged = [d \in Device |-> {}]
  /\ queue = [d \in Device |-> EmptyQueue]
  /\ had = [d \in Device |-> {}]

-------------------------------------------------------------------------------
(* Reconciliation, of the expected boxes and the scanned ones *)

BoxesOf(ss) == {s.box : s \in ss}
\* The scan an undo takes back.
Latest(ss, id) == \E s \in ss : s.id = id /\ \A t \in ss : t.id <= id
missing(ss) == Expected \ BoxesOf(ss)
matched(ss) == {b \in BoxesOf(ss) : b \in Here /\ b \in Expected}
wrongLocation(ss) == {b \in BoxesOf(ss) : b \notin Here}
unexpected(ss) == {b \in BoxesOf(ss) : b \in Here /\ b \notin Expected}
Discrepant(ss) == missing(ss) \cup wrongLocation(ss) \cup unexpected(ss)

IsOpen(b) == events[b] = <<>> \/ Last(events[b]) = "reopened"

\* getSession; that it tells which discrepancies are open is left out.
Shown == [status |-> status, scans |-> scans]

-------------------------------------------------------------------------------
(* The server *)

Unlocked == TRUE
Free == lock = Nobody

\* Locks the row and reads; a call that may not do what it asks ends there.
Allowed(r) ==
  \/ /\ r.kind = "scan" /\ status = "in_progress"
     /\ r.box \notin BoxesOf(scans)
  \/ /\ r.kind = "undo" /\ status = "in_progress"
     /\ Latest(scans, r.id)
  \/ /\ r.kind = "finish" /\ status = "in_progress"
  \/ /\ r.kind \in {"resolved", "reopened"} /\ status = "completed"
     /\ r.box \in Discrepant(scans) /\ (IsOpen(r.box) <=> r.kind = "resolved")

Lock(c) ==
  /\ call[c].pc = "sent" /\ Free
  /\ IF Allowed(call[c])
       THEN lock' = c /\ call' = [call EXCEPT ![c].pc = "locked"]
       ELSE call' = [call EXCEPT ![c] = [pc |-> "refused"]] /\ UNCHANGED lock
  /\ UNCHANGED <<session, seen, waits, staged, queue>>

Record(r) ==
  /\ r.kind = "scan" /\ made < MaxScans
  /\ made' = made + 1 /\ scans' = scans \cup {[id |-> made, box |-> r.box]}
  /\ UNCHANGED <<status, events>>
Void(r) ==
  /\ r.kind = "undo"
  /\ scans' = {s \in scans : s.id # r.id} /\ UNCHANGED <<status, made, events>>
Complete(r) ==
  /\ r.kind = "finish"
  /\ status' = "completed" /\ UNCHANGED <<scans, made, events>>
Resolve(r) ==
  /\ r.kind \in {"resolved", "reopened"} /\ Len(events[r.box]) < MaxEvents
  /\ \A b \in Box \ {r.box} : events[b] = <<>>
  /\ events' = [events EXCEPT ![r.box] = Append(@, r.kind)] /\ UNCHANGED <<status, scans, made>>

Write(c) ==
  LET r == call[c] IN
  /\ r.pc = "locked"
  /\ Record(r) \/ Void(r) \/ Complete(r) \/ Resolve(r)
  /\ lock' = Nobody /\ call' = [call EXCEPT ![c] = [pc |-> "done"]]
  /\ UNCHANGED <<seen, waits, staged, queue>>

\* A transaction fails and is rolled back.
Abort(c) ==
  /\ call[c].pc = "locked"
  /\ lock' = Nobody /\ call' = [call EXCEPT ![c] = [pc |-> "refused"]]
  /\ UNCHANGED <<session, seen, waits, staged, queue>>

\* Nobody waits for the answer any more.
Forget(c) ==
  /\ call[c].pc \in {"done", "refused"}
  /\ \A d \in Device : waits[d].pc = "waiting" => waits[d].call # c
  /\ call' = [call EXCEPT ![c] = Idle]
  /\ UNCHANGED <<session, lock, seen, waits, staged, queue>>

-------------------------------------------------------------------------------
(* The scan queue *)

LeftAsleep(q) == "none"
Restart(q) == IF q.pending = <<>> THEN "none" ELSE "started"

\* No microtask of the page is due.
Quiet(d) == queue[d].drain = "none" \/ queue[d].active # NoBox
IsOpenPage(d) == seen[d] # Closed

\* A code is accepted while the page is free or its queue is at work.
Enqueue(d, b) ==
  LET q == queue[d] IN
  /\ d \in Handheld /\ Quiet(d) /\ (waits[d] = Idle \/ q.drain # "none")
  /\ b # q.active /\ b \notin Range(q.pending)
  /\ queue' = [queue EXCEPT ![d] = [q EXCEPT !.pending = Append(@, b),
                                             !.drain = IF @ = "none" THEN "started" ELSE @]]
  /\ UNCHANGED <<session, lock, call, seen, waits, staged>>

\* The queue's clear, when the page turns to another client; the session is closed.  Codes
\* that come after it are left to another drain.
SwitchTenant(d) ==
  LET q == queue[d] IN
  /\ d \in Handheld /\ Quiet(d) /\ IsOpenPage(d)
  /\ queue' = [queue EXCEPT ![d] = [@ EXCEPT !.pending = <<>>, !.stale = q.drain = "running"]]
  /\ seen' = [seen EXCEPT ![d] = Closed]
  /\ UNCHANGED <<session, lock, call, waits, staged>>

\* The end of a drain; codes that came after a clear start another one.
DrainEnds(d) ==
  LET q == queue[d] IN
  /\ q.drain = "running" /\ q.active = NoBox /\ (q.stale \/ q.pending = <<>>)
  /\ queue' = [queue EXCEPT ![d] = [q EXCEPT !.drain = Restart(q), !.stale = FALSE]]
  /\ UNCHANGED <<session, lock, call, seen, waits, staged>>

Send(c, kind, b, id) ==
  /\ call[c] = Idle
  /\ call' = [call EXCEPT ![c] = [pc |-> "sent", kind |-> kind, box |-> b, id |-> id]]
Stage(d, b) == staged' = [staged EXCEPT ![d] = @ \cup {b}]

\* The next code: sent, staged when the page is offline, or answered on the page, when no
\* session is open, it is over, or it shows the box already.
ProcessCode(d) ==
  LET q == queue[d]
      b == Head(q.pending)
      taken == [q EXCEPT !.pending = Tail(@), !.drain = "running"]
  IN
  /\ q.drain # "none" /\ q.active = NoBox /\ q.pending # <<>> /\ ~ q.stale
  /\ \/ /\ seen[d].status # "in_progress" \/ b \in BoxesOf(seen[d].scans)
        /\ queue' = [queue EXCEPT ![d] = taken] /\ UNCHANGED <<call, waits, staged>>
     \/ /\ seen[d].status = "in_progress" /\ b \notin BoxesOf(seen[d].scans)
        /\ \/ /\ d \in Handheld
              /\ Stage(d, b) /\ queue' = [queue EXCEPT ![d] = taken] /\ UNCHANGED <<call, waits>>
           \/ \E c \in Call :
                /\ Send(c, "scan", b, 0)
                /\ waits' = [waits EXCEPT ![d] = [pc |-> "waiting", for |-> "queue", call |-> c,
                                                  box |-> b, todo |-> {}]]
                /\ queue' = [queue EXCEPT ![d] = [taken EXCEPT !.active = b]]
                /\ UNCHANGED staged
  /\ UNCHANGED <<session, lock, seen>>

-------------------------------------------------------------------------------
(* The page *)

FreePage(d) == Quiet(d) /\ waits[d] = Idle /\ queue[d].drain = "none"
Waits(d, c) ==
  waits' = [waits EXCEPT ![d] = [pc |-> "waiting", for |-> "user", call |-> c, box |-> NoBox, todo |-> {}]]

\* openSession
Open(d) ==
  /\ FreePage(d)
  /\ seen' = [seen EXCEPT ![d] = Shown]
  /\ UNCHANGED <<session, lock, call, waits, staged, queue>>

\* undoLast, finishSession and saveResolution.  A page may be of any age, so a discrepancy
\* may look open or resolved on it.
Ask(d, c) ==
  /\ FreePage(d) /\ IsOpenPage(d)
  /\ \/ /\ d \notin Handheld
        /\ \E s \in seen[d].scans : Latest(seen[d].scans, s.id) /\ Send(c, "undo", NoBox, s.id)
     \/ /\ staged[d] = {} /\ seen[d].status = "in_progress"
        /\ Send(c, "finish", NoBox, 0)
     \/ \E b \in Box :
          /\ d \notin Handheld /\ seen[d].status = "completed" /\ b \in Discrepant(seen[d].scans)
          /\ \E action \in {"resolved", "reopened"} : Send(c, action, b, 0)
  /\ Waits(d, c)
  /\ UNCHANGED <<session, lock, seen, staged, queue>>

Syncing(d) ==
  waits[d].pc \in {"syncing", "told"} \/ (waits[d].pc = "waiting" /\ waits[d].for = "sync")

\* The user removes a staged code.
Discard(d, b) ==
  /\ b \in staged[d] /\ IsOpenPage(d) /\ ~ Syncing(d)
  /\ staged' = [staged EXCEPT ![d] = @ \ {b}]
  /\ UNCHANGED <<session, lock, call, seen, waits, queue>>

\* What the page does next: the next staged code, or nothing.
Continue(d, todo) ==
  /\ waits' = [waits EXCEPT ![d] = IF todo = {} THEN Idle ELSE [pc |-> "syncing", todo |-> todo]]
  /\ queue' = [queue EXCEPT ![d].active = IF waits[d].pc = "waiting" /\ waits[d].for = "queue"
                                             THEN NoBox ELSE @]

Sync(d) ==
  /\ FreePage(d) /\ IsOpenPage(d) /\ staged[d] # {}
  /\ Continue(d, staged[d])
  /\ UNCHANGED <<session, lock, call, seen, staged>>

BelievedRecorded(b, latest) == b \in BoxesOf(latest.scans) \/ latest.status # "in_progress"
Recorded(b, latest) == b \in BoxesOf(latest.scans)

\* The server answers with the session as it is now; the page acts on that later.
Told(d, b, todo, again) ==
  waits' = [waits EXCEPT ![d] = [pc |-> "told", box |-> b, todo |-> todo,
                                 latest |-> Shown, again |-> again]]

\* A page that shows the session still asks for it before it sends a staged code again.
SyncLook(d, b) ==
  LET todo == waits[d].todo \ {b} IN
  /\ waits[d].pc = "syncing" /\ b \in waits[d].todo
  /\ \/ IsOpenPage(d) /\ Told(d, b, todo, FALSE) /\ UNCHANGED queue
     \/ Continue(d, todo)  \* closed, or offline
  /\ UNCHANGED <<session, lock, call, seen, staged>>

\* Shows what it was told and removes the code, or sends it again, without looking which
\* client it is at by now; the server refuses what a page at another client sends.
SyncTold(d) ==
  LET r == waits[d] IN
  /\ r.pc = "told"
  /\ \/ /\ Recorded(r.box, r.latest)
        /\ seen' = [seen EXCEPT ![d] = r.latest]
        /\ staged' = [staged EXCEPT ![d] = @ \ {r.box}]
        /\ Continue(d, r.todo) /\ UNCHANGED call
     \/ \E c \in Call :
          /\ ~ Recorded(r.box, r.latest) /\ r.latest.status = "in_progress" /\ ~ r.again
          /\ Send(c, "scan", r.box, 0)
          /\ waits' = [waits EXCEPT ![d] = [pc |-> "waiting", for |-> "sync", call |-> c,
                                            box |-> r.box, todo |-> r.todo]]
          /\ UNCHANGED <<seen, staged, queue>>
     \/ /\ ~ Recorded(r.box, r.latest)
        /\ r.latest.status = "in_progress" => r.again \/ ~ IsOpenPage(d)
        /\ Continue(d, r.todo) /\ UNCHANGED <<call, seen, staged>>
  /\ UNCHANGED <<session, lock>>

\* The answer arrives.  That of a scan counts on a page that shows the session still, that
\* of the user's own call on one that is at this client.  The session it shows is the one
\* of now: until then the page does nothing that depends on it.
Answer(d) ==
  LET r == waits[d] IN
  /\ r.pc = "waiting" /\ Quiet(d) /\ call[r.call].pc \in {"done", "refused"}
  /\ \/ /\ call[r.call].pc = "done" /\ (IsOpenPage(d) \/ r.for = "user")
        /\ seen' = [seen EXCEPT ![d] = Shown]
     \/ /\ call[r.call].pc = "refused" \/ ~ IsOpenPage(d)
        /\ UNCHANGED seen
  /\ staged' = IF r.for = "sync" /\ call[r.call].pc = "done" /\ IsOpenPage(d)
                 THEN [staged EXCEPT ![d] = @ \ {r.box}] ELSE staged
  /\ call' = [call EXCEPT ![r.call] = Idle]
  /\ Continue(d, r.todo)
  /\ UNCHANGED <<session, lock>>

\* The call is lost.  Either it never reached the server, or only its answer is lost, or
\* the server is not done with it.  A scanned code is staged, unless the page is at another
\* client; about a staged one the page asks the server once more.
GiveUp(d) ==
  LET r == waits[d] IN
  /\ d \in Handheld /\ r.pc = "waiting" /\ Quiet(d)
  /\ \/ call[r.call].pc # "locked" /\ call' = [call EXCEPT ![r.call] = Idle]
     \/ call[r.call].pc \in {"sent", "locked"} /\ UNCHANGED call
  /\ \/ r.for = "sync" /\ Told(d, r.box, r.todo, TRUE) /\ UNCHANGED <<staged, queue>>
     \/ r.for = "queue" /\ Stage(d, r.box) /\ Continue(d, r.todo)
     \/ /\ r.for = "queue" => ~ IsOpenPage(d)
        /\ Continue(d, r.todo) /\ UNCHANGED staged
  /\ UNCHANGED <<session, lock, seen>>

\* The page is loaded anew, as when the user chooses another client and returns.
Reload(d) ==
  /\ d \in Handheld
  /\ seen' = [seen EXCEPT ![d] = Closed]
  /\ waits' = [waits EXCEPT ![d] = Idle]
  /\ queue' = [queue EXCEPT ![d] = EmptyQueue]
  /\ UNCHANGED <<session, lock, call, staged>>

-------------------------------------------------------------------------------

Remember == had' = [d \in Device |-> staged'[d] \cap (had[d] \cup BoxesOf(scans'))]

Next ==
  /\ \/ \E c \in Call : Lock(c) \/ Write(c) \/ Abort(c) \/ Forget(c)
     \/ \E d \in Device :
          \/ SwitchTenant(d) \/ DrainEnds(d) \/ ProcessCode(d) \/ Reload(d)
          \/ Open(d) \/ Sync(d) \/ SyncTold(d) \/ Answer(d) \/ GiveUp(d)
          \/ \E b \in Box : Enqueue(d, b) \/ Discard(d, b) \/ SyncLook(d, b)
          \/ \E c \in Call : Ask(d, c)
  /\ Remember

Spec == Init /\ [][Next]_vars

-------------------------------------------------------------------------------
(* Properties *)

TypeOK ==
  /\ status \in {"in_progress", "completed"}
  /\ scans \subseteq Scan /\ made \in Nat
  /\ events \in [Box -> Seq({"resolved", "reopened"})]
  /\ lock \in Call \cup {Nobody}
  /\ call \in [Call -> CallState]
  /\ seen \in [Device -> SessionView]
  /\ waits \in [Device -> PageState]
  /\ staged \in [Device -> SUBSET Box]
  /\ queue \in [Device -> ScanQueue]
  /\ had \in [Device -> SUBSET Box]

\* A box stands in the list once, however many devices scan it, and however often a code
\* is sent again because its answer was lost: so it has one verdict.
ScannedOnce == \A s, t \in scans : s.box = t.box => s = t

\* A code that waits is always about to be looked at, also when the queue was cleared
\* and filled again while the call of an earlier code was under way.
QueueAwake == \A d \in Device : queue[d].pending # <<>> => queue[d].drain # "none"

\* Nothing is scanned into a control, or taken out of it, after it was finished.
CompletedIsFinal ==
  [][status = "completed" => status' = "completed" /\ scans' = scans]_vars

\* A code leaves the browser's storage only when the server has had its box at some time
\* since the code was staged, or when the user removes it: however old the session is that
\* the page was told, and whatever became of the calls that carried the code.
StagedUntilRecorded ==
  [][\A d \in Device, b \in Box :
       b \in staged[d] /\ b \notin staged'[d] => b \in had[d] \/ Discard(d, b)]_vars
===============================================================================
