---------------------------- MODULE InventoryProofs ----------------------------
(***************************************************************************)
(* Proofs about Inventory: its variables keep their types; a box is        *)
(* counted once; a finished control stays as it is; the scan queue of a    *)
(* page never sleeps over a waiting code; a staged code is kept until its  *)
(* box has been recorded.                                                  *)
(*                                                                         *)
(* What a session may do rests on LockInv: what a call was allowed to do   *)
(* when it locked the row of the session it may still do when it writes.   *)
(* The last result rests on SyncInv: what a page was told, or its call has *)
(* done, the session has really had, though perhaps no longer has.         *)
(***************************************************************************)
EXTENDS Inventory, TLAPS

LEMMA NobodyApart == Nobody \notin Call /\ NoBox \notin Box
  BY InventoryAssumption

(* What a call that has been sent carries. *)
LEMMA SentCall ==
  ASSUME NEW r \in CallState, r.pc \in {"sent", "locked"}
  PROVE  /\ r.kind \in {"scan", "undo", "finish", "resolved", "reopened"}
         /\ r.kind \in {"scan", "resolved", "reopened"} => r.box \in Box
         /\ [r EXCEPT !.pc = "locked"] \in CallState
  BY DEF CallState

(* A call is on one of its states at a time. *)
LEMMA CallStates ==
  ASSUME NEW r \in CallState
  PROVE  r.pc \in {"idle", "done", "refused", "sent", "locked"}
  BY DEF CallState

LEMMA EndOfCall == \A pc \in {"idle", "done", "refused"} : [pc |-> pc] \in CallState
  BY DEF CallState

LEMMA NewCall ==
  \A id \in Nat :
    /\ \A kind \in {"scan", "resolved", "reopened"}, b \in Box :
         [pc |-> "sent", kind |-> kind, box |-> b, id |-> id] \in CallState
    /\ \A kind \in {"undo", "finish"} :
         [pc |-> "sent", kind |-> kind, box |-> NoBox, id |-> id] \in CallState
  BY DEF CallState

(* What a page does that waits for an answer, or sends its staged codes. *)
LEMMA WaitingPage ==
  ASSUME NEW w \in PageState
  PROVE  /\ w.pc \in {"idle", "syncing", "told", "waiting"}
         /\ w.pc = "syncing" => w.todo \in SUBSET Box
         /\ w.pc = "told" => w.box \in Box /\ w.todo \in SUBSET Box /\ w.latest \in SessionView
         /\ w.pc = "waiting" => /\ w.for \in {"queue", "user", "sync"} /\ w.call \in Call
                                /\ w.todo \in SUBSET Box
                                /\ w.for # "user" => w.box \in Box
                                /\ w.for # "sync" => w.todo = {}
  BY DEF PageState

LEMMA PageStates ==
  /\ Idle \in PageState
  /\ \A todo \in SUBSET Box : [pc |-> "syncing", todo |-> todo] \in PageState
  /\ \A b \in Box, todo \in SUBSET Box, latest \in SessionView, again \in BOOLEAN :
       [pc |-> "told", box |-> b, todo |-> todo, latest |-> latest, again |-> again] \in PageState
  /\ \A c \in Call, b \in Box, todo \in SUBSET Box :
       [pc |-> "waiting", for |-> "sync", call |-> c, box |-> b, todo |-> todo] \in PageState
  /\ \A c \in Call, b \in Box :
       [pc |-> "waiting", for |-> "queue", call |-> c, box |-> b, todo |-> {}] \in PageState
  /\ \A c \in Call :
       [pc |-> "waiting", for |-> "user", call |-> c, box |-> NoBox, todo |-> {}] \in PageState
  BY DEF PageState, Idle

LEMMA QueueFields ==
  ASSUME NEW q \in ScanQueue
  PROVE  /\ q.pending \in Seq(Box) /\ q.active \in Box \cup {NoBox}
         /\ q.drain \in {"none", "started", "running"} /\ q.stale \in BOOLEAN
  BY DEF ScanQueue

LEMMA ShownTypes ==
  ASSUME TypeOK
  PROVE  /\ Shown \in SessionView /\ Closed \in SessionView
         /\ BoxesOf(scans) \subseteq Box
         /\ \A d \in Device : BoxesOf(seen[d].scans) \subseteq Box
  BY DEF TypeOK, Shown, Closed, Scan, BoxesOf, SessionView

(* The variables but the history, which Remember adds to every step. *)
CoreTypes ==
  /\ status \in {"in_progress", "completed"}
  /\ scans \subseteq Scan /\ made \in Nat
  /\ events \in [Box -> Seq({"resolved", "reopened"})]
  /\ lock \in Call \cup {Nobody}
  /\ call \in [Call -> CallState]
  /\ seen \in [Device -> SessionView]
  /\ waits \in [Device -> PageState]
  /\ staged \in [Device -> SUBSET Box]
  /\ queue \in [Device -> ScanQueue]

-------------------------------------------------------------------------------
(* Types *)

LEMMA InitTypes == Init => TypeOK
  BY EndOfCall, PageStates
  DEF Init, TypeOK, Idle, Closed, EmptyQueue, ScanQueue, SessionView

LEMMA ServerTypes ==
  ASSUME TypeOK, NEW c \in Call, Lock(c) \/ Write(c) \/ Abort(c) \/ Forget(c)
  PROVE  CoreTypes'
<1>1. call[c] \in CallState
  BY DEF TypeOK
<1>2. CASE Lock(c)
  <2>1. [call[c] EXCEPT !.pc = "locked"] \in CallState
    BY <1>1, <1>2, SentCall DEF Lock
  <2>2. call' \in [Call -> CallState] /\ lock' \in Call \cup {Nobody}
    BY <1>2, <2>1, EndOfCall DEF Lock, TypeOK
  <2> QED BY <1>2, <2>2 DEF Lock, TypeOK, CoreTypes, session
<1>3. CASE Write(c)
  <2>1. /\ lock' \in Call \cup {Nobody} /\ call' \in [Call -> CallState]
        /\ UNCHANGED <<seen, waits, staged, queue>>
    BY <1>3, EndOfCall DEF Write, TypeOK
  <2>2. CASE Record(call[c])
    <3>1. call[c].box \in Box
      BY <1>1, <1>3, <2>2, SentCall DEF Write, Record
    <3>2. [id |-> made, box |-> call[c].box] \in Scan /\ scans \subseteq Scan /\ made + 1 \in Nat
      BY <3>1 DEF Scan, TypeOK
    <3> QED BY <2>1, <2>2, <3>2 DEF Record, TypeOK, CoreTypes
  <2>3. CASE Void(call[c])
    BY <2>1, <2>3 DEF Void, TypeOK, CoreTypes
  <2>4. CASE Complete(call[c])
    BY <2>1, <2>4 DEF Complete, TypeOK, CoreTypes
  <2>5. CASE Resolve(call[c])
    <3>1. call[c].box \in Box /\ call[c].kind \in {"resolved", "reopened"}
      BY <1>1, <1>3, <2>5, SentCall DEF Write, Resolve
    <3>2. Append(events[call[c].box], call[c].kind) \in Seq({"resolved", "reopened"})
      BY <3>1 DEF TypeOK
    <3>3. events' \in [Box -> Seq({"resolved", "reopened"})]
      BY <2>5, <3>1, <3>2 DEF Resolve, TypeOK
    <3> QED BY <2>1, <2>5, <3>3 DEF Resolve, TypeOK, CoreTypes
  <2> QED BY <1>3, <2>2, <2>3, <2>4, <2>5 DEF Write
<1>4. CASE Abort(c) \/ Forget(c)
  BY <1>4, EndOfCall DEF Abort, Forget, TypeOK, CoreTypes, session, Idle
<1> QED BY <1>2, <1>3, <1>4

(* A code joins the queue, or the queue is cleared, or a drain ends. *)
LEMMA QueueTypes ==
  ASSUME TypeOK, NEW d \in Device,
         SwitchTenant(d) \/ DrainEnds(d) \/ \E b \in Box : Enqueue(d, b)
  PROVE  CoreTypes'
<1>1. queue[d] \in ScanQueue /\ queue[d].pending \in Seq(Box)
  BY QueueFields DEF TypeOK
<1>2. CASE SwitchTenant(d)
  <2>1. [queue[d] EXCEPT !.pending = <<>>, !.stale = queue[d].drain = "running"] \in ScanQueue
    <3>1. <<>> \in Seq(Box)
      OBVIOUS
    <3> QED BY <1>1, <3>1 DEF ScanQueue
  <2>3. queue' \in [Device -> ScanQueue]
    BY <1>2, <2>1 DEF SwitchTenant, TypeOK
  <2>2. seen' \in [Device -> SessionView]
    BY <1>2, ShownTypes DEF SwitchTenant, TypeOK
  <2> QED BY <1>2, <2>2, <2>3 DEF SwitchTenant, TypeOK, CoreTypes, session
<1>3. CASE DrainEnds(d)
  <2>1. Restart(queue[d]) \in {"none", "started"}
    BY DEF Restart
  <2>2. [queue[d] EXCEPT !.drain = Restart(queue[d]), !.stale = FALSE] \in ScanQueue
    BY <1>1, <2>1 DEF ScanQueue
  <2>3. queue' \in [Device -> ScanQueue]
    BY <1>3, <2>2 DEF DrainEnds, TypeOK
  <2> QED BY <1>3, <2>3 DEF DrainEnds, TypeOK, CoreTypes, session
<1>4. ASSUME NEW b \in Box, Enqueue(d, b) PROVE CoreTypes'
  <2>1. Append(queue[d].pending, b) \in Seq(Box)
    BY <1>1
  <2>2. [queue[d] EXCEPT !.pending = Append(@, b),
                        !.drain = IF @ = "none" THEN "started" ELSE @] \in ScanQueue
    BY <1>1, <2>1 DEF ScanQueue
  <2>3. queue' \in [Device -> ScanQueue]
    BY <1>4, <2>2 DEF Enqueue, TypeOK
  <2> QED BY <1>4, <2>3 DEF Enqueue, TypeOK, CoreTypes, session
<1> QED BY <1>2, <1>3, <1>4

(* What a page has after it went on to the next staged code, or to nothing. *)
LEMMA ContinueTypes ==
  ASSUME TypeOK, NEW d \in Device, NEW todo \in SUBSET Box, Continue(d, todo)
  PROVE  waits' \in [Device -> PageState] /\ queue' \in [Device -> ScanQueue]
<1>1. waits' \in [Device -> PageState]
  <2>1. [pc |-> "syncing", todo |-> todo] \in PageState /\ Idle \in PageState
    BY PageStates
  <2>2. \E w \in PageState : waits' = [waits EXCEPT ![d] = w]
    BY <2>1 DEF Continue
  <2> QED BY <2>2 DEF TypeOK
<1>2. queue' \in [Device -> ScanQueue]
  <2>1. queue[d] \in ScanQueue
    BY DEF TypeOK
  <2>2. [queue[d] EXCEPT !.active = NoBox] \in ScanQueue /\ [queue[d] EXCEPT !.active = @] \in ScanQueue
    BY <2>1 DEF ScanQueue
  <2>3. \E q \in ScanQueue : queue' = [queue EXCEPT ![d] = q]
    BY <2>2 DEF Continue
  <2> QED BY <2>3 DEF TypeOK
<1> QED BY <1>1, <1>2

LEMMA ToldTypes ==
  ASSUME TypeOK, NEW d \in Device, NEW b \in Box, NEW todo \in SUBSET Box, NEW again \in BOOLEAN,
         Told(d, b, todo, again)
  PROVE  waits' \in [Device -> PageState]
  BY PageStates, ShownTypes DEF Told, TypeOK

LEMMA SendTypes ==
  ASSUME TypeOK, NEW c \in Call, NEW id \in Nat, NEW kind, NEW b, Send(c, kind, b, id),
         \/ kind \in {"scan", "resolved", "reopened"} /\ b \in Box
         \/ kind \in {"undo", "finish"} /\ b = NoBox
  PROVE  call' \in [Call -> CallState]
  BY NewCall DEF Send, TypeOK

LEMMA StageTypes ==
  ASSUME TypeOK, NEW d \in Device, NEW b \in Box, staged' = staged \/ Stage(d, b)
  PROVE  staged' \in [Device -> SUBSET Box]
<1>1. staged[d] \cup {b} \in SUBSET Box
  BY DEF TypeOK
<1>2. CASE Stage(d, b)
  BY <1>1, <1>2 DEF Stage, TypeOK
<1>3. CASE staged' = staged
  BY <1>3 DEF TypeOK
<1> QED BY <1>2, <1>3

(* The next code of the queue is one of its codes. *)
LEMMA ProcessCodeTypes ==
  ASSUME TypeOK, NEW d \in Device, ProcessCode(d)
  PROVE  CoreTypes'
<1> DEFINE q == queue[d]
           b == Head(q.pending)
           p == [q EXCEPT !.pending = Tail(@), !.drain = "running"]
<1>1. q \in ScanQueue /\ q.pending \in Seq(Box) /\ q.pending # <<>>
  BY QueueFields DEF TypeOK, ProcessCode
<1>2. b \in Box /\ Tail(q.pending) \in Seq(Box)
  BY <1>1
<1>3. p \in ScanQueue /\ [p EXCEPT !.active = b] \in ScanQueue
  BY <1>1, <1>2 DEF ScanQueue
<1>4. CASE UNCHANGED <<call, waits>> /\ (queue' = [queue EXCEPT ![d] = p])
           /\ (UNCHANGED staged \/ Stage(d, b))
  <2> HIDE DEF p, b
  <2>1. queue' \in [Device -> ScanQueue]
    BY <1>3, <1>4 DEF TypeOK
  <2>2. staged' \in [Device -> SUBSET Box]
    BY <1>2, <1>4, StageTypes
  <2> QED BY <1>4, <2>1, <2>2 DEF ProcessCode, TypeOK, CoreTypes, session
<1>5. CASE \E c \in Call : /\ Send(c, "scan", b, 0)
                           /\ waits' = [waits EXCEPT ![d] =
                                [pc |-> "waiting", for |-> "queue", call |-> c, box |-> b, todo |-> {}]]
                           /\ queue' = [queue EXCEPT ![d] = [p EXCEPT !.active = b]]
                           /\ UNCHANGED staged
  <2> DEFINE p2 == [p EXCEPT !.active = b]
  <2>1. p2 \in ScanQueue
    BY <1>3
  <2> HIDE DEF p2, b
  <2>2. call' \in [Call -> CallState]
    BY <1>2, <1>5, SendTypes
  <2>3. waits' \in [Device -> PageState]
    BY <1>2, <1>5, PageStates DEF TypeOK
  <2>4. queue' = [queue EXCEPT ![d] = p2]
    BY <1>5 DEF p2
  <2>5. queue' \in [Device -> ScanQueue]
    BY <2>1, <2>4 DEF TypeOK
  <2> QED BY <1>5, <2>2, <2>3, <2>5 DEF ProcessCode, TypeOK, CoreTypes, session
<1> QED BY <1>4, <1>5 DEF ProcessCode

(* The user. *)
LEMMA UserTypes ==
  ASSUME TypeOK, NEW d \in Device,
         Open(d) \/ Sync(d) \/ (\E c \in Call : Ask(d, c)) \/ (\E b \in Box : Discard(d, b))
  PROVE  CoreTypes'
<1>1. CASE Open(d)
  BY <1>1, ShownTypes DEF Open, TypeOK, CoreTypes, session
<1>2. CASE Sync(d)
  BY <1>2, ContinueTypes DEF Sync, TypeOK, CoreTypes, session
<1>3. ASSUME NEW c \in Call, Ask(d, c) PROVE CoreTypes'
  <2>1. waits' \in [Device -> PageState]
    <3>1. [pc |-> "waiting", for |-> "user", call |-> c, box |-> NoBox, todo |-> {}] \in PageState
      BY PageStates
    <3> QED BY <1>3, <3>1 DEF Ask, Waits, TypeOK
  <2>2. call' \in [Call -> CallState]
    <3>1. \A s \in seen[d].scans : s.id \in Nat
      BY DEF TypeOK, Scan, SessionView
    <3> QED BY <1>3, <3>1, SendTypes DEF Ask
  <2> QED BY <1>3, <2>1, <2>2 DEF Ask, TypeOK, CoreTypes, session
<1>4. CASE \E b \in Box : Discard(d, b)
  BY <1>4 DEF Discard, TypeOK, CoreTypes, session
<1> QED BY <1>1, <1>2, <1>3, <1>4

(* The page goes on. *)
LEMMA PageTypes ==
  ASSUME TypeOK, NEW d \in Device, Answer(d) \/ GiveUp(d)
  PROVE  CoreTypes'
<1>1. waits[d] \in PageState /\ waits[d].pc = "waiting"
  BY DEF TypeOK, Answer, GiveUp
<1>2. waits[d].todo \in SUBSET Box /\ waits[d].call \in Call
  BY <1>1, WaitingPage
<1>3. call' \in [Call -> CallState]
  BY <1>2, EndOfCall DEF Answer, GiveUp, TypeOK, Idle
<1>4. CASE Answer(d)
  <2>1. waits' \in [Device -> PageState] /\ queue' \in [Device -> ScanQueue]
    BY <1>2, <1>4, ContinueTypes DEF Answer
  <2>2. seen' \in [Device -> SessionView]
    BY <1>4, ShownTypes DEF Answer, TypeOK
  <2>3. staged' \in [Device -> SUBSET Box]
    BY <1>4 DEF Answer, TypeOK
  <2> QED BY <1>3, <1>4, <2>1, <2>2, <2>3 DEF Answer, TypeOK, CoreTypes, session
<1>5. CASE GiveUp(d) /\ waits[d].for = "sync" /\ Told(d, waits[d].box, waits[d].todo, TRUE)
           /\ UNCHANGED <<staged, queue>>
  <2>1. waits[d].box \in Box
    BY <1>1, <1>5, WaitingPage
  <2>2. waits' \in [Device -> PageState]
    BY <1>2, <1>5, <2>1, ToldTypes
  <2> QED BY <1>3, <1>5, <2>2 DEF GiveUp, TypeOK, CoreTypes, session
<1>6. CASE GiveUp(d) /\ Continue(d, waits[d].todo) /\ staged' \in [Device -> SUBSET Box]
  <2>1. waits' \in [Device -> PageState] /\ queue' \in [Device -> ScanQueue]
    BY <1>2, <1>6, ContinueTypes
  <2> QED BY <1>3, <1>6, <2>1 DEF GiveUp, TypeOK, CoreTypes, session
<1>7. CASE GiveUp(d)
  <2>1. CASE waits[d].for = "sync" /\ Told(d, waits[d].box, waits[d].todo, TRUE)
             /\ UNCHANGED <<staged, queue>>
    BY <1>5, <1>7, <2>1
  <2>2. CASE waits[d].for = "queue" /\ Stage(d, waits[d].box) /\ Continue(d, waits[d].todo)
    <3>1. waits[d].box \in Box
      BY <1>1, <2>2, WaitingPage
    <3>2. staged' \in [Device -> SUBSET Box]
      BY <2>2, <3>1, StageTypes
    <3> QED BY <1>6, <1>7, <2>2, <3>2
  <2>3. CASE Continue(d, waits[d].todo) /\ staged' = staged
    <3>1. staged' \in [Device -> SUBSET Box]
      BY <2>3 DEF TypeOK
    <3> QED BY <1>6, <1>7, <2>3, <3>1
  <2>4. \/ /\ waits[d].for = "sync" /\ Told(d, waits[d].box, waits[d].todo, TRUE)
           /\ UNCHANGED <<staged, queue>>
        \/ waits[d].for = "queue" /\ Stage(d, waits[d].box) /\ Continue(d, waits[d].todo)
        \/ Continue(d, waits[d].todo) /\ staged' = staged
    BY <1>7 DEF GiveUp
  <2> QED BY <2>1, <2>2, <2>3, <2>4
<1> QED BY <1>4, <1>7

(* The page goes through its staged codes. *)
LEMMA SyncTypes ==
  ASSUME TypeOK, NEW d \in Device, SyncTold(d) \/ \E b \in Box : SyncLook(d, b)
  PROVE  CoreTypes'
<1>1. waits[d] \in PageState
  BY DEF TypeOK
<1>2. ASSUME NEW b \in Box, SyncLook(d, b) PROVE CoreTypes'
  <2>1. waits[d].todo \ {b} \in SUBSET Box
    BY <1>1, <1>2, WaitingPage DEF SyncLook
  <2>2. waits' \in [Device -> PageState] /\ queue' \in [Device -> ScanQueue]
    BY <1>2, <2>1, ContinueTypes, ToldTypes DEF SyncLook, TypeOK
  <2> QED BY <1>2, <2>2 DEF SyncLook, TypeOK, CoreTypes, session
<1>3. CASE SyncTold(d)
  <2>1. /\ waits[d].box \in Box /\ waits[d].todo \in SUBSET Box
        /\ waits[d].latest \in SessionView
    BY <1>1, <1>3, WaitingPage DEF SyncTold
  <2>2. CASE Continue(d, waits[d].todo) /\ UNCHANGED call
    <3>1. waits' \in [Device -> PageState] /\ queue' \in [Device -> ScanQueue]
      BY <2>1, <2>2, ContinueTypes
    <3>2. seen' \in [Device -> SessionView]
      BY <1>3, <2>1 DEF SyncTold, TypeOK
    <3>3. staged' \in [Device -> SUBSET Box]
      BY <1>3 DEF SyncTold, TypeOK
    <3> QED BY <1>3, <2>2, <3>1, <3>2, <3>3 DEF SyncTold, TypeOK, CoreTypes, session
  <2>3. ASSUME NEW c \in Call, Send(c, "scan", waits[d].box, 0),
               waits' = [waits EXCEPT ![d] = [pc |-> "waiting", for |-> "sync", call |-> c,
                                              box |-> waits[d].box, todo |-> waits[d].todo]],
               UNCHANGED <<seen, staged, queue>>
        PROVE  CoreTypes'
    <3>1. call' \in [Call -> CallState]
      BY <2>1, <2>3, SendTypes
    <3>2. waits' \in [Device -> PageState]
      BY <2>1, <2>3, PageStates DEF TypeOK
    <3> QED BY <1>3, <2>3, <3>1, <3>2 DEF SyncTold, TypeOK, CoreTypes, session
  <2> QED BY <1>3, <2>2, <2>3 DEF SyncTold
<1> QED BY <1>2, <1>3

LEMMA ReloadTypes ==
  ASSUME TypeOK, NEW d \in Device, Reload(d)
  PROVE  CoreTypes'
<1>1. EmptyQueue \in ScanQueue
  BY DEF EmptyQueue, ScanQueue
<1>2. queue' \in [Device -> ScanQueue]
  BY <1>1 DEF Reload, TypeOK
<1>3. waits' \in [Device -> PageState] /\ seen' \in [Device -> SessionView]
  BY PageStates, ShownTypes DEF Reload, TypeOK
<1> QED BY <1>2, <1>3 DEF Reload, TypeOK, CoreTypes, session

LEMMA StepTypes == TypeOK /\ [Next]_vars => TypeOK'
<1> SUFFICES ASSUME TypeOK, [Next]_vars PROVE TypeOK'
  OBVIOUS
<1>1. CASE UNCHANGED vars
  BY <1>1 DEF vars, session, TypeOK
<1>2. CASE Next
  <2>1. CoreTypes'
    BY <1>2, ServerTypes, QueueTypes, ProcessCodeTypes, UserTypes, PageTypes, SyncTypes, ReloadTypes
    DEF Next
  <2>2. had' \in [Device -> SUBSET Box]
    BY <1>2, <2>1 DEF Next, Remember, CoreTypes
  <2> QED BY <2>1, <2>2 DEF CoreTypes, TypeOK
<1> QED BY <1>1, <1>2

(* Every variable of the session, its calls and its pages keeps its type. *)
THEOREM InventoryTypeCorrect == Spec => []TypeOK
<1>1. Init => TypeOK
  BY InitTypes
<1>2. TypeOK /\ [Next]_vars => TypeOK'
  BY StepTypes
<1> QED BY <1>1, <1>2, PTL DEF Spec

-------------------------------------------------------------------------------
(* The row lock *)

(* Only the call that holds the row is between its look and its write, and what it found
   when it looked holds still. *)
LockInv == \A c \in Call : call[c].pc = "locked" => lock = c /\ Allowed(call[c])

(* What a call finds depends on the session alone. *)
LEMMA AllowedStays ==
  ASSUME NEW r, UNCHANGED session, Allowed(r)
  PROVE  Allowed(r)'
  BY DEF Allowed, session, Latest, BoxesOf, Discrepant, missing, wrongLocation, unexpected, IsOpen

(* Steps after which no call is locked that was not before. *)
LEMMA NoNewLock ==
  ASSUME LockInv, UNCHANGED <<session, lock>>,
         \A c \in Call : call'[c].pc = "locked" => call'[c] = call[c]
  PROVE  LockInv'
<1> SUFFICES ASSUME NEW c \in Call, call'[c].pc = "locked" PROVE lock' = c /\ Allowed(call[c])'
  BY DEF LockInv
<1>1. lock = c /\ Allowed(call[c]) /\ call'[c] = call[c]
  BY DEF LockInv
<1> QED BY <1>1, AllowedStays


(* Only the holder of the row is locked. *)
LEMMA OneHolder ==
  ASSUME LockInv, NEW c \in Call, NEW e \in Call, lock \in {Nobody, c}, call[e].pc = "locked"
  PROVE  e = c /\ lock = c
  BY NobodyApart DEF LockInv

LEMMA InitLock == Init => LockInv
  BY DEF Init, LockInv, Idle

LEMMA ServerLock ==
  ASSUME TypeOK, LockInv, NEW c \in Call, Lock(c) \/ Write(c) \/ Abort(c) \/ Forget(c)
  PROVE  LockInv'
<1>1. CASE Lock(c) /\ Allowed(call[c])
  <2>0. PICK r : r = [call[c] EXCEPT !.pc = "locked"]
    OBVIOUS
  <2>1. /\ r.pc = "locked" /\ r.kind = call[c].kind /\ r.box = call[c].box /\ r.id = call[c].id
    <3>1. call[c] \in CallState /\ call[c].pc = "sent"
      BY <1>1 DEF Lock, TypeOK
    <3> QED BY <2>0, <3>1 DEF CallState
  <2>2. Allowed(r)
    BY <1>1, <2>1 DEF Allowed
  <2>3. Allowed(r)'
    <3>1. UNCHANGED session
      BY <1>1 DEF Lock
    <3> QED BY <2>2, <3>1, AllowedStays
  <2>4. lock' = c /\ call' = [call EXCEPT ![c] = r]
    BY <1>1, <2>0 DEF Lock
  <2>5. ASSUME NEW e \in Call, e # c PROVE call'[e].pc # "locked"
    BY <1>1, <2>4, <2>5, OneHolder DEF Lock, Free
  <2>6. call'[c] = r
    BY <2>4 DEF TypeOK
  <2> QED BY <2>3, <2>4, <2>5, <2>6 DEF LockInv
<1>2. CASE Lock(c) /\ ~ Allowed(call[c])
  <2>1. \A e \in Call : call'[e].pc = "locked" => call'[e] = call[e]
    BY <1>2 DEF Lock, TypeOK
  <2> QED BY <1>2, <2>1, NoNewLock DEF Lock
<1>3. CASE Write(c) \/ Abort(c)
  <2>1. \A e \in Call : call'[e].pc # "locked"
    BY <1>3, OneHolder DEF Write, Abort, TypeOK, LockInv
  <2> QED BY <2>1 DEF LockInv
<1>4. CASE Forget(c)
  <2>1. \A e \in Call : call'[e].pc = "locked" => call'[e] = call[e]
    BY <1>4 DEF Forget, Idle, TypeOK
  <2> QED BY <1>4, <2>1, NoNewLock DEF Forget
<1> QED BY <1>1, <1>2, <1>3, <1>4 DEF Lock

(* A page sends calls and forgets them, and neither locks. *)
LEMMA SendLock ==
  ASSUME TypeOK, LockInv, UNCHANGED <<session, lock>>, NEW c \in Call,
         NEW kind, NEW b, NEW id, Send(c, kind, b, id)
  PROVE  LockInv'
<1>1. \A e \in Call : call'[e].pc = "locked" => call'[e] = call[e]
  BY DEF Send, TypeOK
<1> QED BY <1>1, NoNewLock

(* The steps of a page. *)
PageStep(d) ==
  \/ SwitchTenant(d) \/ DrainEnds(d) \/ ProcessCode(d) \/ Reload(d)
  \/ Open(d) \/ Sync(d) \/ SyncTold(d) \/ Answer(d) \/ GiveUp(d)
  \/ \E b \in Box : Enqueue(d, b) \/ Discard(d, b) \/ SyncLook(d, b)
  \/ \E c \in Call : Ask(d, c)

LEMMA PageLock ==
  ASSUME TypeOK, LockInv, NEW d \in Device, PageStep(d)
  PROVE  LockInv'
<1>1. CASE UNCHANGED <<session, lock, call>>
  BY <1>1, NoNewLock
<1>2. CASE ProcessCode(d) \/ (\E c \in Call : Ask(d, c)) \/ SyncTold(d)
  BY <1>1, <1>2, SendLock DEF ProcessCode, Ask, SyncTold
<1>3. CASE Answer(d) \/ GiveUp(d)
  <2>1. call' = call \/ call' = [call EXCEPT ![waits[d].call] = Idle]
    BY <1>3 DEF Answer, GiveUp
  <2>2. \A e \in Call : call'[e].pc = "locked" => call'[e] = call[e]
    BY <2>1 DEF Idle, TypeOK
  <2>3. UNCHANGED <<session, lock>>
    BY <1>3 DEF Answer, GiveUp
  <2> QED BY <2>2, <2>3, NoNewLock
<1>4. CASE SwitchTenant(d) \/ DrainEnds(d) \/ Reload(d) \/ Open(d) \/ Sync(d)
           \/ \E b \in Box : Enqueue(d, b) \/ Discard(d, b) \/ SyncLook(d, b)
  BY <1>1, <1>4 DEF SwitchTenant, DrainEnds, Reload, Open, Sync, Enqueue, Discard, SyncLook
<1> QED BY <1>2, <1>3, <1>4 DEF PageStep

LEMMA StepLock == TypeOK /\ LockInv /\ [Next]_vars => LockInv'
<1> SUFFICES ASSUME TypeOK, LockInv, [Next]_vars PROVE LockInv'
  OBVIOUS
<1>1. CASE UNCHANGED vars
  BY <1>1, NoNewLock DEF vars, session
<1>2. CASE Next
  BY <1>2, ServerLock, PageLock DEF Next, PageStep
<1> QED BY <1>1, <1>2

THEOREM RowLocked == Spec => []LockInv
<1>1. Init => LockInv
  BY InitLock
<1>2. TypeOK /\ LockInv /\ [Next]_vars => LockInv'
  BY StepLock
<1> QED BY <1>1, <1>2, InventoryTypeCorrect, PTL DEF Spec

-------------------------------------------------------------------------------
(* The session *)

(* What a step does to the session is what a locked call may do. *)
LEMMA SessionStep ==
  ASSUME TypeOK, LockInv, [Next]_vars
  PROVE  \/ UNCHANGED session
         \/ \E c \in Call : Write(c) /\ Allowed(call[c])
<1>1. ASSUME NEW c \in Call, Lock(c) \/ Abort(c) \/ Forget(c) PROVE UNCHANGED session
  BY <1>1 DEF Lock, Abort, Forget
<1>2. ASSUME NEW c \in Call, Write(c) PROVE Allowed(call[c])
  BY <1>2 DEF Write, LockInv
<1>3. ASSUME NEW d \in Device, SwitchTenant(d) \/ DrainEnds(d) \/ ProcessCode(d) \/ Reload(d)
                                \/ Open(d) \/ Sync(d) \/ SyncTold(d) \/ Answer(d) \/ GiveUp(d)
      PROVE  UNCHANGED session
  BY <1>3 DEF SwitchTenant, DrainEnds, ProcessCode, Reload, Open, Sync, SyncTold, Answer, GiveUp
<1>4. ASSUME NEW d \in Device, \/ \E b \in Box : Enqueue(d, b) \/ Discard(d, b) \/ SyncLook(d, b)
                               \/ \E c \in Call : Ask(d, c)
      PROVE  UNCHANGED session
  BY <1>4 DEF Enqueue, Discard, SyncLook, Ask
<1>5. UNCHANGED vars => UNCHANGED session
  BY DEF vars, session
<1> QED BY <1>1, <1>2, <1>3, <1>4, <1>5 DEF Next

(* A call that writes a scan found the box free of one. *)
LEMMA StepOnce == TypeOK /\ LockInv /\ ScannedOnce /\ [Next]_vars => ScannedOnce'
<1> SUFFICES ASSUME TypeOK, LockInv, ScannedOnce, [Next]_vars PROVE ScannedOnce'
  OBVIOUS
<1>1. CASE UNCHANGED session
  BY <1>1 DEF session, ScannedOnce
<1>2. ASSUME NEW c \in Call, Write(c), Allowed(call[c]) PROVE ScannedOnce'
  <2>1. CASE Record(call[c])
    <3>1. call[c].box \notin BoxesOf(scans)
      BY <1>2, <2>1 DEF Allowed, Record
    <3>2. \A s \in scans : s.box # call[c].box
      BY <3>1 DEF BoxesOf
    <3> QED BY <2>1, <3>2 DEF Record, ScannedOnce
  <2>2. CASE Void(call[c])
    BY <2>2 DEF Void, ScannedOnce
  <2>3. CASE Complete(call[c]) \/ Resolve(call[c])
    BY <2>3 DEF Complete, Resolve, ScannedOnce
  <2> QED BY <1>2, <2>1, <2>2, <2>3 DEF Write
<1> QED BY <1>1, <1>2, SessionStep

(* However many devices scan a shelf, and however often they send a code again, no box is
   counted twice. *)
THEOREM BoxesCountedOnce == Spec => []ScannedOnce
<1>1. Init => ScannedOnce
  BY DEF Init, ScannedOnce
<1>2. TypeOK /\ LockInv /\ ScannedOnce /\ [Next]_vars => ScannedOnce'
  BY StepOnce
<1> QED BY <1>1, <1>2, InventoryTypeCorrect, RowLocked, PTL DEF Spec

(* After a control is finished nothing is scanned into it or taken out. *)
THEOREM FinishedStays == Spec => CompletedIsFinal
<1> DEFINE Stays == status = "completed" => status' = "completed" /\ scans' = scans
<1>1. TypeOK /\ LockInv /\ [Next]_vars => [Stays]_vars
  <2> SUFFICES ASSUME TypeOK, LockInv, [Next]_vars, status = "completed"
               PROVE  status' = "completed" /\ scans' = scans
    OBVIOUS
  <2>1. CASE UNCHANGED session
    BY <2>1 DEF session
  <2>2. ASSUME NEW c \in Call, Write(c), Allowed(call[c])
        PROVE  status' = "completed" /\ scans' = scans
    <3>1. call[c].kind \in {"resolved", "reopened"}
      BY <2>2 DEF Allowed
    <3>2. Resolve(call[c])
      BY <2>2, <3>1 DEF Write, Record, Void, Complete
    <3> QED BY <3>2 DEF Resolve
  <2> QED BY <2>1, <2>2, SessionStep
<1> QED BY <1>1, InventoryTypeCorrect, RowLocked, PTL DEF Spec, CompletedIsFinal

-------------------------------------------------------------------------------
(* The page *)

(* A drain that ends looks at the queue again. *)
LEMMA StepAwake == TypeOK /\ QueueAwake /\ [Next]_vars => QueueAwake'
<1> SUFFICES ASSUME TypeOK, QueueAwake, [Next]_vars, NEW e \in Device, queue'[e].pending # <<>>
             PROVE  queue'[e].drain # "none"
  BY DEF QueueAwake
<1>1. CASE queue'[e] = queue[e]
  BY <1>1 DEF QueueAwake
<1>2. queue[e] \in ScanQueue
  BY DEF TypeOK
<1>3. CASE SwitchTenant(e)
  <2>1. [queue[e] EXCEPT !.pending = <<>>, !.stale = queue[e].drain = "running"].pending = <<>>
    BY <1>2 DEF ScanQueue
  <2> QED BY <1>3, <2>1 DEF SwitchTenant, TypeOK
<1>4. CASE DrainEnds(e)
  <2> DEFINE q == [queue[e] EXCEPT !.drain = Restart(queue[e]), !.stale = FALSE]
  <2>1. q.pending = queue[e].pending /\ q.drain = Restart(queue[e])
    BY <1>2 DEF ScanQueue
  <2> HIDE DEF q
  <2>2. queue'[e] = q
    BY <1>4 DEF DrainEnds, TypeOK, q
  <2> QED BY <2>1, <2>2 DEF Restart
<1>5. ASSUME NEW b \in Box, Enqueue(e, b) PROVE queue'[e].drain # "none"
  <2> DEFINE q == [queue[e] EXCEPT !.pending = Append(@, b),
                                   !.drain = IF @ = "none" THEN "started" ELSE @]
  <2>1. q.drain = IF queue[e].drain = "none" THEN "started" ELSE queue[e].drain
    BY <1>2 DEF ScanQueue
  <2> HIDE DEF q
  <2>2. queue'[e] = q
    BY <1>5 DEF Enqueue, TypeOK, q
  <2> QED BY <2>1, <2>2
<1>6. CASE ProcessCode(e)
  <2> DEFINE q == queue[e]
             p == [q EXCEPT !.pending = Tail(@), !.drain = "running"]
             a == [p EXCEPT !.active = Head(q.pending)]
  <2>1. p.drain = "running" /\ a.drain = "running"
    BY <1>2 DEF ScanQueue
  <2>2. queue' = [queue EXCEPT ![e] = p] \/ queue' = [queue EXCEPT ![e] = a]
    BY <1>6 DEF ProcessCode
  <2> HIDE DEF p, a
  <2>3. queue'[e] = p \/ queue'[e] = a
    BY <2>2 DEF TypeOK
  <2> QED BY <2>1, <2>3
<1>7. ASSUME NEW todo, Continue(e, todo) PROVE queue'[e].drain # "none"
  <2>1. queue'[e].pending = queue[e].pending /\ queue'[e].drain = queue[e].drain
    BY <1>2, <1>7 DEF Continue, TypeOK, ScanQueue
  <2> QED BY <2>1 DEF QueueAwake
<1>8. ASSUME NEW d \in Device, d # e,
             \/ SwitchTenant(d) \/ DrainEnds(d) \/ ProcessCode(d) \/ \E b \in Box : Enqueue(d, b)
             \/ Reload(d) \/ \E todo : Continue(d, todo)
      PROVE  queue'[e] = queue[e]
  BY <1>8 DEF SwitchTenant, DrainEnds, ProcessCode, Enqueue, Reload, Continue, TypeOK
<1>9. ASSUME NEW d \in Device,
             Sync(d) \/ SyncTold(d) \/ Answer(d) \/ GiveUp(d) \/ \E b \in Box : SyncLook(d, b)
      PROVE  UNCHANGED queue \/ \E todo : Continue(d, todo)
  BY <1>9 DEF Sync, SyncTold, Answer, GiveUp, SyncLook
<1>10. ASSUME NEW d \in Device, Open(d) \/ (\E c \in Call : Ask(d, c)) \/ \E b \in Box : Discard(d, b)
       PROVE  UNCHANGED queue
  BY <1>10 DEF Open, Ask, Discard
<1>11. ASSUME NEW c \in Call, Lock(c) \/ Write(c) \/ Abort(c) \/ Forget(c) PROVE UNCHANGED queue
  BY <1>11 DEF Lock, Write, Abort, Forget
<1>12. UNCHANGED vars => UNCHANGED queue
  BY DEF vars
<1>13. CASE Reload(e)
  BY <1>13 DEF Reload, EmptyQueue, TypeOK
<1> QED BY <1>1, <1>3, <1>4, <1>5, <1>6, <1>7, <1>8, <1>9, <1>10, <1>11, <1>12, <1>13 DEF Next

(* A code that waits in the queue of a page is always about to be looked at. *)
THEOREM QueueNeverSleeps == Spec => []QueueAwake
<1>1. Init => QueueAwake
  BY DEF Init, QueueAwake, EmptyQueue
<1>2. TypeOK /\ QueueAwake /\ [Next]_vars => QueueAwake'
  BY StepAwake
<1> QED BY <1>1, <1>2, InventoryTypeCorrect, PTL DEF Spec

-------------------------------------------------------------------------------
(* The browser's storage *)

(* Each page waits for a call of its own, which has not been forgotten. *)
CallsApart ==
  \A d \in Device : waits[d].pc = "waiting" =>
    /\ call[waits[d].call].pc # "idle"
    /\ \A e \in Device : waits[e].pc = "waiting" /\ waits[e].call = waits[d].call => e = d

(* No code is staged while the staged ones are sent again. *)
QueueRests(d) == Syncing(d) => queue[d].drain = "none"

(* A staged box in the session a page was told of was in the session since it was staged. *)
ToldHad(d) ==
  waits[d].pc = "told" /\ Recorded(waits[d].box, waits[d].latest) /\ waits[d].box \in staged[d]
    => waits[d].box \in had[d]

(* So was the box of a staged code whose call the server has done. *)
SentHad(d) ==
  waits[d].pc = "waiting" /\ waits[d].for = "sync" =>
    LET r == call[waits[d].call] IN
    /\ r.pc \in {"sent", "locked"} => r.kind = "scan" /\ r.box = waits[d].box
    /\ r.pc = "done" /\ waits[d].box \in staged[d] => waits[d].box \in had[d]

SyncInv == CallsApart /\ \A d \in Device : QueueRests(d) /\ ToldHad(d) /\ SentHad(d)

LEMMA InitSync == Init => SyncInv
  BY DEF Init, Idle, SyncInv, CallsApart, QueueRests, Syncing, ToldHad, SentHad

(* What the session has had it will always have had. *)
LEMMA HadStays ==
  ASSUME TypeOK, Remember, NEW d \in Device
  PROVE  /\ \A b \in had[d] : b \in staged'[d] => b \in had'[d]
         /\ \A b \in BoxesOf(scans') : b \in staged'[d] => b \in had'[d]
  BY DEF Remember, TypeOK

(* Going on to the next code. *)
LEMMA Continues ==
  ASSUME TypeOK, NEW d \in Device, NEW todo, Continue(d, todo)
  PROVE  /\ waits'[d].pc \in {"idle", "syncing"} /\ (todo = {} => waits'[d].pc = "idle")
         /\ queue'[d].drain = queue[d].drain
         /\ \A e \in Device \ {d} : waits'[e] = waits[e] /\ queue'[e] = queue[e]
<1>1. waits'[d] = Idle \/ (waits'[d].pc = "syncing" /\ todo # {})
  BY DEF Continue, TypeOK
<1>2. queue[d] \in ScanQueue
  BY DEF TypeOK
<1>3. queue'[d].drain = queue[d].drain
  BY <1>2 DEF Continue, TypeOK, ScanQueue
<1>4. \A e \in Device \ {d} : waits'[e] = waits[e] /\ queue'[e] = queue[e]
  BY DEF Continue, TypeOK
<1> QED BY <1>1, <1>3, <1>4 DEF Idle

(* A page leaves the others alone. *)
LEMMA OthersStay ==
  ASSUME TypeOK, NEW d \in Device, PageStep(d), NEW e \in Device, e # d
  PROVE  waits'[e] = waits[e] /\ queue'[e] = queue[e] /\ staged'[e] = staged[e]
<1>1. ASSUME NEW todo, Continue(d, todo)
      PROVE  waits'[e] = waits[e] /\ queue'[e] = queue[e]
  BY <1>1, Continues
<1>2. ASSUME SwitchTenant(d) \/ DrainEnds(d) \/ Reload(d) \/ Open(d)
               \/ (\E b \in Box : Enqueue(d, b) \/ Discard(d, b)) \/ \E c \in Call : Ask(d, c)
      PROVE  waits'[e] = waits[e] /\ queue'[e] = queue[e] /\ staged'[e] = staged[e]
  BY <1>2 DEF SwitchTenant, DrainEnds, Reload, Open, Enqueue, Discard, Ask, Waits, TypeOK
<1>3. CASE ProcessCode(d)
  BY <1>3 DEF ProcessCode, Stage, TypeOK
<1>4. CASE Sync(d) \/ Answer(d)
  BY <1>1, <1>4 DEF Sync, Answer, TypeOK
<1>5. CASE GiveUp(d)
  BY <1>1, <1>5 DEF GiveUp, Told, Stage, TypeOK
<1>6. CASE SyncTold(d)
  BY <1>1, <1>6 DEF SyncTold, TypeOK
<1>7. CASE \E b \in Box : SyncLook(d, b)
  BY <1>1, <1>7 DEF SyncLook, Told, TypeOK
<1> QED BY <1>2, <1>3, <1>4, <1>5, <1>6, <1>7 DEF PageStep

(* A page sends one call, which is its own from then on, or forgets the one it waits for, or
   does nothing to any. *)
LEMMA OwnCall ==
  ASSUME TypeOK, NEW d \in Device, PageStep(d)
  PROVE  \/ /\ call' = call
            /\ waits'[d].pc = "waiting" => waits'[d] = waits[d]
         \/ \E c \in Call :
              /\ call[c].pc = "idle" /\ \A k \in Call \ {c} : call'[k] = call[k]
              /\ waits'[d].pc = "waiting" /\ waits'[d].call = c /\ call'[c].pc = "sent"
         \/ /\ waits[d].pc = "waiting" /\ waits'[d].pc # "waiting"
            /\ \A k \in Call \ {waits[d].call} : call'[k] = call[k]
<1>1. ASSUME NEW c \in Call, NEW kind, NEW b, NEW id, Send(c, kind, b, id)
      PROVE  call[c].pc = "idle" /\ call'[c].pc = "sent" /\ \A k \in Call \ {c} : call'[k] = call[k]
  BY <1>1 DEF Send, Idle, TypeOK
<1>2. (\E todo : Continue(d, todo)) => waits'[d].pc # "waiting"
  BY Continues
<1>3. (\E b, todo, again : Told(d, b, todo, again)) => waits'[d].pc # "waiting"
  BY DEF Told, TypeOK
<1>4. CASE SwitchTenant(d) \/ DrainEnds(d) \/ Open(d) \/ \E b \in Box : Enqueue(d, b) \/ Discard(d, b)
  BY <1>4 DEF SwitchTenant, DrainEnds, Open, Enqueue, Discard
<1>5. CASE Reload(d)
  BY <1>5 DEF Reload, Idle, TypeOK
<1>6. CASE Sync(d) \/ \E b \in Box : SyncLook(d, b)
  <2>1. call' = call
    BY <1>6 DEF Sync, SyncLook
  <2>2. waits'[d].pc # "waiting"
    BY <1>6, <1>2, <1>3 DEF Sync, SyncLook
  <2> QED BY <2>1, <2>2
<1>7. CASE Answer(d) \/ GiveUp(d)
  <2>1. waits[d].pc = "waiting" /\ (call' = call \/ call' = [call EXCEPT ![waits[d].call] = Idle])
    BY <1>7 DEF Answer, GiveUp
  <2>2. waits'[d].pc # "waiting"
    BY <1>7, <1>2, <1>3 DEF Answer, GiveUp
  <2>3. \A k \in Call \ {waits[d].call} : call'[k] = call[k]
    BY <2>1 DEF TypeOK
  <2> QED BY <2>1, <2>2, <2>3
<1>8. CASE ProcessCode(d)
  BY <1>1, <1>8 DEF ProcessCode, TypeOK
<1>9. CASE SyncTold(d)
  BY <1>1, <1>9, Continues DEF SyncTold, TypeOK
<1>10. ASSUME NEW c \in Call, Ask(d, c)
      PROVE  /\ call[c].pc = "idle" /\ \A k \in Call \ {c} : call'[k] = call[k]
             /\ waits'[d].pc = "waiting" /\ waits'[d].call = c /\ call'[c].pc = "sent"
  BY <1>1, <1>10 DEF Ask, Waits, TypeOK
<1> QED BY <1>4, <1>5, <1>6, <1>7, <1>8, <1>9, <1>10 DEF PageStep

(* A page that sends its staged codes again does not stage others, and acts on what it was
   told. *)
LEMMA OwnSync ==
  ASSUME TypeOK, SyncInv, Remember, NEW d \in Device, PageStep(d)
  PROVE  QueueRests(d)' /\ ToldHad(d)' /\ SentHad(d)'
<1>1. ~ Syncing(d)' => QueueRests(d)' /\ ToldHad(d)' /\ SentHad(d)'
  BY DEF Syncing, QueueRests, ToldHad, SentHad
<1>2. QueueRests(d) /\ ToldHad(d) /\ SentHad(d)
  BY DEF SyncInv
<1>3. ASSUME UNCHANGED <<session, queue>>, Syncing(d), NEW b, NEW todo, NEW again, Told(d, b, todo, again)
      PROVE  QueueRests(d)' /\ ToldHad(d)' /\ SentHad(d)'
  <2>1. waits'[d].pc = "told" /\ waits'[d].latest = Shown /\ waits'[d].box = b
    BY <1>3 DEF Told, TypeOK
  <2>2. Recorded(waits'[d].box, waits'[d].latest) => b \in BoxesOf(scans')
    BY <1>3, <2>1 DEF Recorded, Shown, session, BoxesOf
  <2> QED BY <1>2, <1>3, <2>1, <2>2, HadStays DEF QueueRests, ToldHad, SentHad
<1>4. ASSUME NEW todo, Continue(d, todo), todo = {} \/ Syncing(d)
      PROVE  QueueRests(d)' /\ ToldHad(d)' /\ SentHad(d)'
  BY <1>1, <1>2, <1>4, Continues DEF QueueRests, ToldHad, SentHad, Syncing
<1>5. waits[d].pc = "waiting" => Syncing(d) \/ waits[d].todo = {}
  BY WaitingPage DEF TypeOK, Syncing
<1>6. CASE SwitchTenant(d)
  <2>1. queue[d] \in ScanQueue
    BY DEF TypeOK
  <2>2. queue'[d].drain = queue[d].drain
    BY <1>6, <2>1 DEF SwitchTenant, TypeOK, ScanQueue
  <2>3. UNCHANGED <<waits, call, staged>>
    BY <1>6 DEF SwitchTenant
  <2> QED BY <1>2, <2>2, <2>3, HadStays DEF QueueRests, ToldHad, SentHad, Syncing
<1>7. CASE DrainEnds(d) \/ ProcessCode(d) \/ Reload(d) \/ Open(d)
           \/ (\E b \in Box : Enqueue(d, b) \/ Discard(d, b)) \/ \E c \in Call : Ask(d, c)
  <2>1. ~ Syncing(d)'
    <3>1. CASE DrainEnds(d) \/ \E b \in Box : Enqueue(d, b) \/ Discard(d, b)
      <4>1. ~ Syncing(d)
        <5>1. CASE \E b \in Box : Discard(d, b)
          BY <5>1 DEF Discard
        <5>2. CASE DrainEnds(d)
          BY <1>2, <5>2 DEF DrainEnds, QueueRests
        <5>3. CASE \E b \in Box : Enqueue(d, b)
          <6>1. waits[d] = Idle \/ queue[d].drain # "none"
            BY <5>3 DEF Enqueue
          <6> QED BY <1>2, <6>1 DEF QueueRests, Syncing, Idle
        <5> QED BY <3>1, <5>1, <5>2, <5>3
      <4>2. waits' = waits
        BY <3>1 DEF DrainEnds, Enqueue, Discard
      <4> QED BY <4>1, <4>2 DEF Syncing
    <3>2. CASE Reload(d) \/ Open(d)
      BY <3>2 DEF Reload, Open, FreePage, Syncing, Idle, TypeOK
    <3>3. CASE \E c \in Call : Ask(d, c)
      BY <3>3 DEF Ask, Waits, Syncing, TypeOK
    <3>4. CASE ProcessCode(d)
      <4>1. ~ Syncing(d)
        BY <1>2, <3>4 DEF ProcessCode, QueueRests
      <4>2. waits' = waits \/ (waits'[d].pc = "waiting" /\ waits'[d].for = "queue")
        BY <3>4 DEF ProcessCode, TypeOK
      <4> QED BY <4>1, <4>2 DEF Syncing
    <3> QED BY <1>7, <3>1, <3>2, <3>3, <3>4
  <2> QED BY <1>1, <2>1
<1>8. CASE Sync(d)
  <2>1. Continue(d, staged[d]) /\ queue[d].drain = "none"
    BY <1>8 DEF Sync, FreePage
  <2> QED BY <1>1, <2>1, Continues DEF QueueRests, ToldHad, SentHad, Syncing
<1>9. CASE Answer(d)
  BY <1>4, <1>5, <1>9 DEF Answer
<1>10. CASE GiveUp(d)
  <2>1. waits[d].pc = "waiting" /\ UNCHANGED session
    BY <1>10 DEF GiveUp
  <2>2. CASE waits[d].for = "sync" /\ Told(d, waits[d].box, waits[d].todo, TRUE)
             /\ UNCHANGED <<staged, queue>>
    <3>1. Syncing(d)
      BY <2>1, <2>2 DEF Syncing
    <3> QED BY <1>3, <2>1, <2>2, <3>1
  <2>3. CASE Continue(d, waits[d].todo)
    BY <1>4, <1>5, <2>1, <2>3
  <2> QED BY <1>10, <2>2, <2>3 DEF GiveUp
<1>11. ASSUME NEW b \in Box, SyncLook(d, b) PROVE QueueRests(d)' /\ ToldHad(d)' /\ SentHad(d)'
  <2>1. Syncing(d) /\ UNCHANGED session
    BY <1>11 DEF SyncLook, Syncing
  <2>2. CASE Told(d, b, waits[d].todo \ {b}, FALSE) /\ UNCHANGED queue
    BY <1>3, <2>1, <2>2
  <2>3. CASE Continue(d, waits[d].todo \ {b})
    BY <1>4, <2>1, <2>3
  <2> QED BY <1>11, <2>2, <2>3 DEF SyncLook
<1>12. CASE SyncTold(d)
  <2>1. Syncing(d)
    BY <1>12 DEF SyncTold, Syncing
  <2>2. CASE Continue(d, waits[d].todo)
    BY <1>4, <2>1, <2>2
  <2>3. ASSUME NEW c \in Call, Send(c, "scan", waits[d].box, 0),
               waits' = [waits EXCEPT ![d] = [pc |-> "waiting", for |-> "sync", call |-> c,
                                              box |-> waits[d].box, todo |-> waits[d].todo]],
               UNCHANGED queue
        PROVE  QueueRests(d)' /\ ToldHad(d)' /\ SentHad(d)'
    <3>1. /\ waits'[d].pc = "waiting" /\ waits'[d].call = c /\ waits'[d].box = waits[d].box
      BY <2>3 DEF TypeOK
    <3>2. call'[c].pc = "sent" /\ call'[c].kind = "scan" /\ call'[c].box = waits[d].box
      BY <2>3 DEF Send, TypeOK
    <3> QED BY <1>2, <2>1, <2>3, <3>1, <3>2 DEF QueueRests, ToldHad, SentHad
  <2> QED BY <1>12, <2>2, <2>3 DEF SyncTold
<1> QED BY <1>6, <1>7, <1>8, <1>9, <1>10, <1>11, <1>12 DEF PageStep

(* The other pages do not notice. *)
LEMMA OthersSync ==
  ASSUME TypeOK, SyncInv, Remember, NEW d \in Device, PageStep(d), NEW e \in Device, e # d
  PROVE  QueueRests(e)' /\ ToldHad(e)' /\ SentHad(e)'
<1>1. waits'[e] = waits[e] /\ queue'[e] = queue[e] /\ staged'[e] = staged[e]
  BY OthersStay
<1>2. waits[e].pc = "waiting" => call'[waits[e].call] = call[waits[e].call]
  <2>1. waits[e].pc = "waiting" => waits[e].call \in Call
    BY WaitingPage DEF TypeOK
  <2>2. waits[e].pc = "waiting" => call[waits[e].call].pc # "idle"
    BY DEF SyncInv, CallsApart
  <2>3. waits[e].pc = "waiting" /\ waits[d].pc = "waiting" => waits[d].call # waits[e].call
    BY DEF SyncInv, CallsApart
  <2> QED BY <2>1, <2>2, <2>3, OwnCall
<1>3. QueueRests(e) /\ ToldHad(e) /\ SentHad(e)
  BY DEF SyncInv
<1> QED BY <1>1, <1>2, <1>3, HadStays DEF QueueRests, ToldHad, SentHad, Syncing

LEMMA PageApart ==
  ASSUME TypeOK, SyncInv, NEW d \in Device, PageStep(d)
  PROVE  CallsApart'
<1>1. CallsApart
  BY DEF SyncInv
<1>2. \A e \in Device \ {d} : waits'[e] = waits[e]
  BY OthersStay
<1>3. \A e \in Device : waits[e].pc = "waiting" => waits[e].call \in Call
  BY WaitingPage DEF TypeOK
<1>4. CASE call' = call /\ (waits'[d].pc = "waiting" => waits'[d] = waits[d])
  BY <1>1, <1>2, <1>4 DEF CallsApart
<1>5. ASSUME NEW c \in Call, call[c].pc = "idle", \A k \in Call \ {c} : call'[k] = call[k],
             waits'[d].pc = "waiting", waits'[d].call = c, call'[c].pc = "sent"
      PROVE  CallsApart'
  <2>1. \A e \in Device \ {d} : waits[e].pc = "waiting" => waits[e].call # c
    BY <1>1, <1>5 DEF CallsApart
  <2> QED BY <1>1, <1>2, <1>3, <1>5, <2>1 DEF CallsApart
<1>6. CASE /\ waits[d].pc = "waiting" /\ waits'[d].pc # "waiting"
           /\ \A k \in Call \ {waits[d].call} : call'[k] = call[k]
  <2>1. \A e \in Device \ {d} : waits[e].pc = "waiting" => waits[e].call # waits[d].call
    BY <1>1, <1>6 DEF CallsApart
  <2> QED BY <1>1, <1>2, <1>3, <1>6, <2>1 DEF CallsApart
<1> QED BY <1>4, <1>5, <1>6, OwnCall

(* The server does a call: a scan that it records is in the session from then on. *)
LEMMA ServerSync ==
  ASSUME TypeOK, SyncInv, Remember, NEW c \in Call, Lock(c) \/ Write(c) \/ Abort(c) \/ Forget(c)
  PROVE  SyncInv'
<1>1. UNCHANGED <<waits, staged, queue>>
  BY DEF Lock, Write, Abort, Forget
<1>2. \A k \in Call \ {c} : call'[k] = call[k]
  BY DEF Lock, Write, Abort, Forget, TypeOK
<1>3. call[c] \in CallState
  BY DEF TypeOK
<1>4. \/ call'[c].pc = "refused"
      \/ call'[c].pc = "done" /\ Write(c)
      \/ call[c].pc = "sent" /\ call'[c].pc = "locked" /\ call'[c].kind = call[c].kind
           /\ call'[c].box = call[c].box
      \/ Forget(c) /\ call'[c].pc = "idle"
  <2>1. CASE Lock(c)
    BY <1>3, <2>1 DEF Lock, TypeOK, CallState
  <2>2. CASE Write(c) \/ Abort(c) \/ Forget(c)
    BY <2>2 DEF Write, Abort, Forget, TypeOK, Idle
  <2> QED BY <2>1, <2>2
<1>5. \A d \in Device : waits[d].pc = "waiting" => waits[d].call \in Call
  BY WaitingPage DEF TypeOK
<1>6. \A d \in Device : waits[d].pc = "waiting" /\ waits[d].call = c => ~ Forget(c)
  BY DEF Forget
<1>7. CallsApart'
  BY <1>1, <1>2, <1>4, <1>5, <1>6 DEF CallsApart, SyncInv
<1>8. ASSUME NEW d \in Device PROVE QueueRests(d)' /\ ToldHad(d)'
  BY <1>1, HadStays DEF QueueRests, ToldHad, Syncing, SyncInv
<1>9. ASSUME NEW d \in Device PROVE SentHad(d)'
  <2>1. SentHad(d)
    BY DEF SyncInv
  <2>2. CASE waits[d].pc = "waiting" /\ waits[d].for = "sync" /\ waits[d].call = c
    <3>1. CASE call'[c].pc = "done" /\ Write(c)
      <4>1. call[c].kind = "scan" /\ call[c].box = waits[d].box
        BY <2>1, <2>2, <3>1 DEF SentHad, Write
      <4>2. waits[d].box \in BoxesOf(scans')
        <5>1. Record(call[c])
          BY <3>1, <4>1 DEF Write, Void, Complete, Resolve
        <5>2. [id |-> made, box |-> waits[d].box] \in scans'
          BY <4>1, <5>1 DEF Record
        <5> QED BY <5>2 DEF BoxesOf
      <4> QED BY <1>1, <2>2, <3>1, <4>2, HadStays DEF SentHad
    <3>2. CASE call'[c].pc = "refused"
      BY <1>1, <2>2, <3>2 DEF SentHad
    <3>3. CASE call[c].pc = "sent" /\ call'[c].pc = "locked" /\ call'[c].kind = call[c].kind
               /\ call'[c].box = call[c].box
      BY <1>1, <2>1, <2>2, <3>3 DEF SentHad
    <3> QED BY <1>4, <1>6, <2>2, <3>1, <3>2, <3>3
  <2>3. CASE waits[d].pc = "waiting" /\ waits[d].call # c
    BY <1>1, <1>2, <1>5, <2>1, <2>3, HadStays DEF SentHad
  <2> QED BY <1>1, <2>2, <2>3 DEF SentHad
<1> QED BY <1>7, <1>8, <1>9 DEF SyncInv

LEMMA StepSync == TypeOK /\ SyncInv /\ [Next]_vars => SyncInv'
<1> SUFFICES ASSUME TypeOK, SyncInv, [Next]_vars PROVE SyncInv'
  OBVIOUS
<1>1. CASE UNCHANGED vars
  BY <1>1 DEF vars, SyncInv, CallsApart, QueueRests, ToldHad, SentHad, Syncing
<1>2. CASE Next
  <2>1. Remember
    BY <1>2 DEF Next
  <2>2. ASSUME NEW d \in Device, PageStep(d) PROVE SyncInv'
    <3>1. \A e \in Device : QueueRests(e)' /\ ToldHad(e)' /\ SentHad(e)'
      BY <2>1, <2>2, OwnSync, OthersSync
    <3> QED BY <2>2, <3>1, PageApart DEF SyncInv
  <2> QED BY <1>2, <2>1, <2>2, ServerSync DEF Next, PageStep
<1> QED BY <1>1, <1>2

(* What a page goes by when it removes a staged code the session has really had. *)
THEOREM PagesToldTruly == Spec => []SyncInv
<1>1. Init => SyncInv
  BY InitSync
<1>2. TypeOK /\ SyncInv /\ [Next]_vars => SyncInv'
  BY StepSync
<1> QED BY <1>1, <1>2, InventoryTypeCorrect, PTL DEF Spec

(* A code leaves the browser's storage only when the server has had its box at some time
   since the code was staged, or when the user removes it. *)
THEOREM StagedKept == Spec => StagedUntilRecorded
<1> DEFINE Kept == \A d \in Device, b \in Box :
                     b \in staged[d] /\ b \notin staged'[d] => b \in had[d] \/ Discard(d, b)
<1>1. TypeOK /\ SyncInv /\ [Next]_vars => [Kept]_vars
  <2> SUFFICES ASSUME TypeOK, SyncInv, [Next]_vars, NEW e \in Device, NEW b \in Box,
                      b \in staged[e], b \notin staged'[e]
               PROVE  b \in had[e] \/ Discard(e, b)
    OBVIOUS
  <2>1. staged \in [Device -> SUBSET Box] /\ staged' # staged
    BY DEF TypeOK
  <2>2. ASSUME NEW c \in Call, Lock(c) \/ Write(c) \/ Abort(c) \/ Forget(c) PROVE FALSE
    BY <2>1, <2>2 DEF Lock, Write, Abort, Forget
  <2>3. ASSUME NEW d \in Device, PageStep(d) PROVE d = e
    BY <2>3, OthersStay
  <2>4. CASE SwitchTenant(e) \/ DrainEnds(e) \/ Reload(e) \/ Open(e) \/ Sync(e)
              \/ (\E a \in Box : Enqueue(e, a) \/ SyncLook(e, a)) \/ \E c \in Call : Ask(e, c)
    BY <2>1, <2>4 DEF SwitchTenant, DrainEnds, Reload, Open, Sync, Enqueue, SyncLook, Ask
  <2>5. ~ \E a : Stage(e, a)
    BY <2>1 DEF Stage
  <2>6. CASE ProcessCode(e) \/ GiveUp(e)
    BY <2>1, <2>5, <2>6 DEF ProcessCode, GiveUp
  <2>7. ASSUME NEW a \in Box, Discard(e, a) PROVE Discard(e, b)
    <3>1. a = b
      BY <2>1, <2>7 DEF Discard
    <3> QED BY <2>7, <3>1
  <2>8. CASE SyncTold(e)
    <3>1. Recorded(waits[e].box, waits[e].latest) /\ waits[e].pc = "told" /\ waits[e].box = b
      BY <2>1, <2>8 DEF SyncTold
    <3> QED BY <3>1 DEF SyncInv, ToldHad
  <2>9. CASE Answer(e)
    <3>1. /\ waits[e].pc = "waiting" /\ waits[e].for = "sync" /\ waits[e].box = b
          /\ call[waits[e].call].pc = "done"
      BY <2>1, <2>9 DEF Answer
    <3> QED BY <3>1 DEF SyncInv, SentHad
  <2>10. Next
    BY <2>1 DEF vars
  <2>11. \E d \in Device : PageStep(d)
    BY <2>2, <2>10 DEF Next, PageStep
  <2> QED BY <2>3, <2>4, <2>6, <2>7, <2>8, <2>9, <2>11 DEF PageStep
<1> QED BY <1>1, InventoryTypeCorrect, PagesToldTruly, PTL DEF Spec, StagedUntilRecorded

===============================================================================
