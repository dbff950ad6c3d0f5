------------------------------- MODULE Warehouse ------------------------------
(***************************************************************************)
(* Where the boxes of a tenant are (boxes/box.service.ts, and the end of   *)
(* retention's completeDisposal): a box has a location, a location has a   *)
(* counter of its boxes, and the custody log has every move.               *)
(*                                                                         *)
(* A request reads the boxes, then writes them in a transaction whose      *)
(* update names the location that was read; it fails, as a whole, when a   *)
(* box has moved.  Three paths are weaker: a box is created and counted in  *)
(* two steps, an update that keeps the location writes it back without     *)
(* looking, and a deletion recounts the locations it had read.  `skewed`   *)
(* and `overwritten` remember where that went wrong, and the properties    *)
(* say what holds of everything else.                                      *)
(***************************************************************************)
EXTENDS Integers, FiniteSets

CONSTANTS
  Box,
  Loc,    \* shelves, levels and slots of the tenant
  User,   \* requests that run at the same time
  None

ASSUME WarehouseAssumption == None \notin Loc /\ IsFiniteSet(Box) /\ IsFiniteSet(User)

Place == Loc \cup {None}

VARIABLES
  box,         \* location and status; "other": checked out, lost or damaged,
               \* "proposed": in the disposal workflow
  count,       \* currentCount of each location
  custody,     \* the place the custody log has last for each box
  received,    \* boxes with a receipt in the custody log, and an intake charge
  job,         \* what each request has read
  skewed,      \* locations whose counter lost a box, or counted one twice
  overwritten  \* boxes moved back by an update that had read them before

vars == <<box, count, custody, received, job, skewed, overwritten>>

Idle == [pc |-> "idle"]
Absent == [at |-> None, status |-> "absent"]

Init ==
  /\ box = [b \in Box |-> Absent]
  /\ count = [l \in Loc |-> 0]
  /\ custody = [b \in Box |-> None]
  /\ received = {}
  /\ job = [u \in User |-> Idle]
  /\ skewed = {} /\ overwritten = {}

Begin(u, j) == job[u] = Idle /\ job' = [job EXCEPT ![u] = j]
End(u) == job' = [job EXCEPT ![u] = Idle]

Present(b) == box[b].status \notin {"absent", "deleted"}
Stored(b) == Present(b) /\ box[b].status # "disposed"
At(l) == {b \in Box : Stored(b) /\ box[b].at = l}

\* Requests that have written a box to l and not yet counted it there.
Creating(l) == {u \in User : job[u].pc = "create" /\ job[u].at = l}
Uncounted(l) == Cardinality(Creating(l))

Placed(S, l) == [b \in Box |-> IF b \in S THEN [box[b] EXCEPT !.at = l] ELSE box[b]]
LoggedFrom(S, l) == [b \in Box |-> IF b \in S THEN box[b].at ELSE custody[b]]
Logged(S, l) == [b \in Box |-> IF b \in S THEN l ELSE custody[b]]

-------------------------------------------------------------------------------
(* New boxes *)

\* The row is written, and then its location counts it.
create(u, b, l) ==
  /\ box[b] = Absent
  /\ box' = [box EXCEPT ![b] = [at |-> l, status |-> "active"]]
  /\ Begin(u, [pc |-> "create", at |-> l])
  /\ UNCHANGED <<count, custody, received, skewed, overwritten>>

CountCreated(u) ==
  /\ job[u].pc = "create"
  /\ count' = [count EXCEPT ![job[u].at] = @ + 1]
  /\ End(u)
  /\ UNCHANGED <<box, custody, received, skewed, overwritten>>

\* importBoxes, createBoxForSourceNumber: a box that is in no place yet.
import(b) ==
  /\ box[b] = Absent
  /\ box' = [box EXCEPT ![b].status = "active"]
  /\ UNCHANGED <<count, custody, received, job, skewed, overwritten>>

-------------------------------------------------------------------------------
(* Moving *)

\* What a move, or an update with a location, reads of its boxes B.
ReadPlaces(u, B, l) ==
  /\ B # {} /\ \A b \in B : Stored(b)
  /\ Begin(u, [pc |-> "place", from |-> [b \in B |-> box[b].at], to |-> l])
  /\ UNCHANGED <<box, count, custody, received, skewed, overwritten>>

move(u, b, l) == box[b].at # l /\ ReadPlaces(u, {b}, l)
bulkMove(u, B, l) == (\E b \in B : box[b].at # l) /\ ReadPlaces(u, B, l)

\* The update of the boxes M names the location each was read at.
StillStored(j, M) == \A b \in M : Stored(b)
Unmoved(j, M) == \A b \in M : Stored(b) /\ box[b].at = j.from[b]

Relocate(u) ==
  LET j == job[u]
      M == {b \in DOMAIN j.from : j.from[b] # j.to}
      Left(l) == Cardinality({b \in M : j.from[b] = l})
  IN
  /\ j.pc = "place" /\ M # {}
  /\ IF Unmoved(j, M)
       THEN /\ box' = Placed(M, j.to)
            /\ count' = [l \in Loc |-> count[l] - Left(l) + IF l = j.to THEN Cardinality(M) ELSE 0]
            /\ custody' = Logged(M, j.to)
       ELSE UNCHANGED <<box, count, custody>>
  /\ End(u)
  /\ UNCHANGED <<received, skewed, overwritten>>

\* update with the location it read: the box is written by its id.  Bound: this
\* goes wrong once, for a counter drifts each time.
update(u, b, l) == overwritten = {} /\ ReadPlaces(u, {b}, l)

WriteBack(u) ==
  LET j == job[u]
      b == CHOOSE c \in DOMAIN j.from : TRUE
  IN
  /\ j.pc = "place" /\ j.from[b] = j.to /\ DOMAIN j.from = {b}
  /\ box' = Placed({b}, j.to)
  /\ IF box[b].at = j.to THEN UNCHANGED <<skewed, overwritten>>
     ELSE /\ overwritten' = overwritten \cup {b}
          /\ skewed' = IF Stored(b) THEN skewed \cup ({box[b].at, j.to} \cap Loc) ELSE skewed
  /\ End(u)
  /\ UNCHANGED <<count, custody, received>>

-------------------------------------------------------------------------------
(* Receiving: boxes that are in no place and were never received, all or none *)

bulkReceive(u, B, l) ==
  /\ B # {} /\ \A b \in B : box[b] = [at |-> None, status |-> "active"] /\ b \notin received
  /\ Begin(u, [pc |-> "receive", boxes |-> B, to |-> l])
  /\ UNCHANGED <<box, count, custody, received, skewed, overwritten>>

\* The update demands it again, and an intake charge is unique.
StillActive(B) == \A b \in B : Stored(b) /\ b \notin received
Receivable(B) == \A b \in B : box[b] = [at |-> None, status |-> "active"] /\ b \notin received

Receive(u) ==
  LET j == job[u] IN
  /\ j.pc = "receive"
  /\ IF Receivable(j.boxes)
       THEN /\ box' = Placed(j.boxes, j.to)
            /\ count' = [count EXCEPT ![j.to] = @ + Cardinality(j.boxes)]
            /\ custody' = Logged(j.boxes, j.to)
            /\ received' = received \cup j.boxes
       ELSE UNCHANGED <<box, count, custody, received>>
  /\ End(u)
  /\ UNCHANGED <<skewed, overwritten>>

-------------------------------------------------------------------------------
(* Boxes that leave: the locations L are counted anew, in a serializable transaction *)

Recounted(L, S) ==
  [l \in Loc |-> IF l \in L THEN Cardinality(At(l) \ S) ELSE count[l]]
\* A box that is about to be counted is counted twice; `missed` were not counted anew.
Skewed(L, missed) ==
  ((skewed \ L) \cup {l \in L : Uncounted(l) > 0}) \cup (missed \ L)

LocationsOf(B) == {box[b].at : b \in B} \cap Loc

\* bulkDelete checks the boxes, and notes where they are, before its transaction.
bulkDelete(u, B) ==
  /\ B # {} /\ \A b \in B : Stored(b) /\ box[b].status # "proposed"
  /\ Begin(u, [pc |-> "delete", boxes |-> B, at |-> LocationsOf(B)])
  /\ UNCHANGED <<box, count, custody, received, skewed, overwritten>>

Deletable(B) == \A b \in B : Stored(b) /\ box[b].status # "proposed"

Delete(u) ==
  LET j == job[u] IN
  /\ j.pc = "delete"
  /\ IF Deletable(j.boxes)
       THEN /\ box' = [b \in Box |-> IF b \in j.boxes THEN [at |-> None, status |-> "deleted"] ELSE box[b]]
            /\ count' = Recounted(j.at, j.boxes)
            /\ skewed' = Skewed(j.at, LocationsOf(j.boxes))
       ELSE UNCHANGED <<box, count, skewed>>
  /\ End(u)
  /\ UNCHANGED <<custody, received, overwritten>>

\* completeDisposal reads the boxes in its transaction.
completeDisposal(B) ==
  LET L == LocationsOf(B) IN
  /\ B # {} /\ \A b \in B : box[b].status = "proposed"
  /\ box' = [b \in Box |-> IF b \in B THEN [at |-> None, status |-> "disposed"] ELSE box[b]]
  /\ count' = Recounted(L, B)
  /\ skewed' = Skewed(L, {})
  /\ UNCHANGED <<custody, received, job, overwritten>>

-------------------------------------------------------------------------------
(* Status changes: each is one conditional update *)

SetStatus(B, from, to) ==
  /\ B # {} /\ \A b \in B : box[b].status \in from
  /\ box' = [b \in Box |-> IF b \in B THEN [box[b] EXCEPT !.status = to] ELSE box[b]]
  /\ UNCHANGED <<count, custody, received, job, skewed, overwritten>>

changeStatus(b, s) == SetStatus({b}, {"active", "other"}, s)
bulkChangeStatus(B, s) == SetStatus(B, {"active", "other"}, s)
proposeForDisposal(B) == SetStatus(B, {"active"}, "proposed")
setLegalHold(b) == SetStatus({b}, {"proposed"}, "active")

-------------------------------------------------------------------------------

\* The server stops: a box that was written is never counted.
Crash(u) ==
  /\ job[u] # Idle
  /\ skewed' = IF job[u].pc = "create" THEN skewed \cup {job[u].at} ELSE skewed
  /\ End(u)
  /\ UNCHANGED <<box, count, custody, received, overwritten>>

Begins(u) ==
  \/ \E b \in Box, l \in Loc : create(u, b, l) \/ move(u, b, l) \/ update(u, b, l)
  \/ \E B \in SUBSET Box, l \in Loc : bulkMove(u, B, l) \/ bulkReceive(u, B, l)
  \/ \E B \in SUBSET Box : bulkDelete(u, B)

Writing(u) == CountCreated(u) \/ Relocate(u) \/ WriteBack(u) \/ Receive(u) \/ Delete(u)

Next ==
  \/ \E u \in User : Begins(u) \/ Writing(u) \/ Crash(u)
  \/ \E b \in Box : import(b) \/ setLegalHold(b) \/ \E s \in {"active", "other"} : changeStatus(b, s)
  \/ \E B \in SUBSET Box :
       completeDisposal(B) \/ proposeForDisposal(B) \/ \E s \in {"active", "other"} : bulkChangeStatus(B, s)

Spec == Init /\ [][Next]_vars

-------------------------------------------------------------------------------

\* The place each of some boxes was read at.
Readings == UNION {[B -> Place] : B \in SUBSET Box}

Job ==
  {Idle} \cup [pc : {"create"}, at : Loc]
  \cup [pc : {"place"}, from : Readings, to : Loc]
  \cup [pc : {"receive"}, boxes : SUBSET Box, to : Loc]
  \cup [pc : {"delete"}, boxes : SUBSET Box, at : SUBSET Loc]

BoxRow == [at : Place, status : {"absent", "active", "other", "proposed", "disposed", "deleted"}]

TypeOK ==
  /\ box \in [Box -> BoxRow]
  /\ count \in [Loc -> Int]
  /\ custody \in [Box -> Place]
  /\ received \subseteq Box /\ overwritten \subseteq Box /\ skewed \subseteq Loc
  /\ job \in [User -> Job]

\* However moves, receipts, deletions and disposals of the same boxes overlap, the
\* counter of a location is the number of boxes in it, except where a box was written
\* back, created and not counted, or deleted after it had moved.
CountersAgree ==
  \A l \in Loc \ skewed : count[l] + Uncounted(l) = Cardinality(At(l))

\* A box that was moved or received is where the custody log says, and one that left
\* is nowhere, unless an update wrote it back.
CustodyTells ==
  \A b \in Box \ overwritten :
    IF Stored(b) THEN custody[b] # None => box[b].at = custody[b] ELSE box[b].at = None

\* A receipt is the first entry of a box: a box that is in a place, or whose custody
\* has begun, is never received, so that its intake is charged once.
ReceiptFirst ==
  [][\A b \in Box : b \in received' \ received => box[b].at = None /\ custody[b] = None]_vars
===============================================================================
