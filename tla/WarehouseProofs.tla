---------------------------- MODULE WarehouseProofs ---------------------------
(***************************************************************************)
(* Theorems about where boxes are and what their locations count, for      *)
(* every set of boxes, locations and concurrent requests.                  *)
(***************************************************************************)
EXTENDS Warehouse, FiniteSetTheorems, TLAPS

USE WarehouseAssumption

-------------------------------------------------------------------------------
(* Types *)

\* The fields a request needs are there, and of the right sort.
LEMMA JobFields ==
  ASSUME NEW j \in Job
  PROVE  /\ j.pc = "create" => j.at \in Loc
         /\ j.pc = "place" => /\ j.to \in Loc /\ j.from \in Readings
         /\ j.pc = "receive" => j.boxes \in SUBSET Box /\ j.to \in Loc
         /\ j.pc = "delete" => j.boxes \in SUBSET Box /\ j.at \in SUBSET Loc
  BY DEF Job, Idle

LEMMA ReadPlace ==
  ASSUME NEW f \in Readings
  PROVE  DOMAIN f \subseteq Box /\ \A b \in DOMAIN f : f[b] \in Place
  BY DEF Readings

LEMMA PlaceJob ==
  ASSUME NEW j \in Job, j.pc = "place"
  PROVE  j.to \in Loc /\ DOMAIN j.from \subseteq Box /\ \A b \in DOMAIN j.from : j.from[b] \in Place
  BY JobFields, ReadPlace

\* A box that is put elsewhere, and one that changes its status.
LEMMA BoxMoves ==
  ASSUME NEW r \in BoxRow, NEW l \in Place
  PROVE  LET p == [r EXCEPT !.at = l] IN p \in BoxRow /\ p.at = l /\ p.status = r.status
  BY DEF BoxRow

LEMMA BoxChanges ==
  ASSUME NEW r \in BoxRow, NEW s, s \in {"active", "other", "proposed"}
  PROVE  LET p == [r EXCEPT !.status = s] IN p \in BoxRow /\ p.at = r.at /\ p.status = s
  BY DEF BoxRow

LEMMA PlacedBoxes ==
  ASSUME box \in [Box -> BoxRow], NEW S, NEW l \in Place
  PROVE  /\ Placed(S, l) \in [Box -> BoxRow]
         /\ \A b \in Box : /\ Placed(S, l)[b].status = box[b].status
                           /\ Placed(S, l)[b].at = IF b \in S THEN l ELSE box[b].at
<1>1. \A b \in Box : LET p == [box[b] EXCEPT !.at = l] IN
        p \in BoxRow /\ p.at = l /\ p.status = box[b].status
  BY BoxMoves
<1>2. \A b \in Box : Placed(S, l)[b] = IF b \in S THEN [box[b] EXCEPT !.at = l] ELSE box[b]
  BY DEF Placed
<1>3. Placed(S, l) = [b \in Box |-> Placed(S, l)[b]]
  BY DEF Placed
<1> HIDE DEF Placed
<1>4. \A b \in Box : /\ Placed(S, l)[b] \in BoxRow /\ Placed(S, l)[b].status = box[b].status
                     /\ Placed(S, l)[b].at = IF b \in S THEN l ELSE box[b].at
  BY <1>1, <1>2
<1> QED
  BY <1>3, <1>4

LEMMA SetStatusBoxes ==
  ASSUME box \in [Box -> BoxRow], NEW B, NEW from, NEW to \in {"active", "other", "proposed"},
         SetStatus(B, from, to)
  PROVE  /\ box' \in [Box -> BoxRow]
         /\ \A b \in Box : /\ box'[b].at = box[b].at
                           /\ box'[b].status = IF b \in B THEN to ELSE box[b].status
                           /\ b \in B => box[b].status \in from
<1>1. \A b \in Box : LET p == [box[b] EXCEPT !.status = to] IN
        p \in BoxRow /\ p.at = box[b].at /\ p.status = to
  BY BoxChanges
<1>2. box' = [b \in Box |-> IF b \in B THEN [box[b] EXCEPT !.status = to] ELSE box[b]]
  BY DEF SetStatus
<1>3. \A b \in Box : box'[b] = IF b \in B THEN [box[b] EXCEPT !.status = to] ELSE box[b]
  BY <1>2
<1>4. \A b \in Box : /\ box'[b] \in BoxRow /\ box'[b].at = box[b].at
                     /\ box'[b].status = IF b \in B THEN to ELSE box[b].status
  BY <1>1, <1>3
<1>5. box' \in [Box -> BoxRow]
  BY <1>2, <1>3, <1>4
<1> QED
  BY <1>4, <1>5 DEF SetStatus

LEMMA BeginType ==
  ASSUME TypeOK, NEW u \in User, NEW j \in Job, Begin(u, j)
  PROVE  job' \in [User -> Job]
  BY DEF Begin, TypeOK

LEMMA EndType ==
  ASSUME job \in [User -> Job], NEW u \in User, End(u)
  PROVE  job' \in [User -> Job]
  BY DEF End, Job

LEMMA InitTypeOK == Init => TypeOK
  BY DEF Init, TypeOK, Absent, BoxRow, Place, Job

\* What is counted is a number.
LEMMA RecountType ==
  ASSUME count \in [Loc -> Int], NEW L, NEW S
  PROVE  Recounted(L, S) \in [Loc -> Int]
<1>1. \A l \in Loc : IsFiniteSet(At(l) \ S) /\ Cardinality(At(l) \ S) \in Nat
  <2>1. \A l \in Loc : At(l) \ S \in SUBSET Box
    BY DEF At
  <2> QED
    BY <2>1, FS_Subset, FS_CardinalityType
<1> QED
  BY <1>1 DEF Recounted

\* What is read is a request's own.
LEMMA BeginsType ==
  ASSUME TypeOK, NEW u \in User, Begins(u)
  PROVE  TypeOK'
<1>1. ASSUME NEW b \in Box, NEW l \in Loc, create(u, b, l) PROVE TypeOK'
  <2>1. [pc |-> "create", at |-> l] \in Job /\ [at |-> l, status |-> "active"] \in BoxRow
    BY DEF Job, BoxRow, Place
  <2> QED
    BY <1>1, <2>1, BeginType DEF create, TypeOK
<1>2. ASSUME NEW B \in SUBSET Box, NEW l \in Loc, ReadPlaces(u, B, l) PROVE TypeOK'
  <2>1. \A b \in B : box[b].at \in Place
    BY DEF TypeOK, BoxRow
  <2>2. [b \in B |-> box[b].at] \in Readings
    BY <2>1 DEF Readings
  <2>3. [pc |-> "place", from |-> [b \in B |-> box[b].at], to |-> l] \in Job
    BY <2>2 DEF Job
  <2> QED
    BY <1>2, <2>3, BeginType DEF ReadPlaces, TypeOK
<1>3. ASSUME NEW B \in SUBSET Box, NEW l \in Loc, bulkReceive(u, B, l) PROVE TypeOK'
  <2>1. [pc |-> "receive", boxes |-> B, to |-> l] \in Job
    BY DEF Job
  <2> QED
    BY <1>3, <2>1, BeginType DEF bulkReceive, TypeOK
<1>4. ASSUME NEW B \in SUBSET Box, bulkDelete(u, B) PROVE TypeOK'
  <2>1. [pc |-> "delete", boxes |-> B, at |-> LocationsOf(B)] \in Job
    BY DEF Job, LocationsOf
  <2> QED
    BY <1>4, <2>1, BeginType DEF bulkDelete, TypeOK
<1> QED
  BY <1>1, <1>2, <1>3, <1>4 DEF Begins, move, update, bulkMove

\* A counter is counted up, down or anew.
LEMMA WritingType ==
  ASSUME TypeOK, NEW u \in User, Writing(u)
  PROVE  TypeOK'
<1>0. job[u] \in Job /\ \A S \in SUBSET Box : IsFiniteSet(S) /\ Cardinality(S) \in Int
  BY FS_Subset, FS_CardinalityType DEF TypeOK
<1>1. CASE CountCreated(u)
  <2>1. job[u].at \in Loc
    BY <1>0, <1>1, JobFields DEF CountCreated
  <2>2. count' \in [Loc -> Int]
    BY <1>1, <2>1 DEF CountCreated, TypeOK
  <2> QED
    BY <1>1, <2>2, EndType DEF CountCreated, TypeOK
<1>2. CASE Relocate(u)
  <2> DEFINE j == job[u]
             M == {b \in DOMAIN j.from : j.from[b] # j.to}
             Left(l) == Cardinality({b \in M : j.from[b] = l})
  <2>1. j.to \in Loc /\ M \subseteq Box
    BY <1>0, <1>2, PlaceJob DEF Relocate
  <2>2. Cardinality(M) \in Int /\ \A l : Left(l) \in Int
    BY <1>0, <2>1
  <2>3. CASE UNCHANGED <<box, count, custody>>
    BY <1>2, <2>3, EndType DEF Relocate, TypeOK
  <2>4. CASE box' = Placed(M, j.to) /\ custody' = Logged(M, j.to)
             /\ count' = [l \in Loc |-> count[l] - Left(l) + IF l = j.to THEN Cardinality(M) ELSE 0]
    <3>1. box' \in [Box -> BoxRow]
      BY <2>1, <2>4, PlacedBoxes DEF TypeOK, Place
    <3>2. custody' \in [Box -> Place]
      BY <2>1, <2>4 DEF Logged, TypeOK, Place
    <3> HIDE DEF Left, M
    <3>3. count' \in [Loc -> Int]
      BY <2>2, <2>4 DEF TypeOK
    <3> QED
      BY <1>2, <3>1, <3>2, <3>3, EndType DEF Relocate, TypeOK
  <2> QED
    BY <1>2, <2>3, <2>4 DEF Relocate
<1>3. CASE WriteBack(u)
  <2> DEFINE j == job[u]
             b == CHOOSE c \in DOMAIN j.from : TRUE
  <2>1. j.to \in Loc /\ b \in Box
    BY <1>0, <1>3, PlaceJob DEF WriteBack
  <2>2. box' \in [Box -> BoxRow]
    BY <1>3, <2>1, PlacedBoxes DEF WriteBack, TypeOK, Place
  <2> HIDE DEF b
  <2>3. overwritten' \subseteq Box /\ skewed' \subseteq Loc
    BY <1>3, <2>1 DEF WriteBack, TypeOK, b
  <2> QED
    BY <1>3, <2>2, <2>3, EndType DEF WriteBack, TypeOK
<1>4. CASE Receive(u)
  <2>1. job[u].boxes \in SUBSET Box /\ job[u].to \in Loc
    BY <1>0, <1>4, JobFields DEF Receive
  <2>2. Cardinality(job[u].boxes) \in Int
    BY <1>0, <2>1
  <2>3. box' \in [Box -> BoxRow]
    BY <1>4, <2>1, PlacedBoxes DEF Receive, TypeOK, Place
  <2>4. custody' \in [Box -> Place] /\ received' \subseteq Box
    BY <1>4, <2>1 DEF Receive, Logged, TypeOK, Place
  <2>5. count' \in [Loc -> Int]
    BY <1>4, <2>1, <2>2 DEF Receive, TypeOK
  <2> QED
    BY <1>4, <2>3, <2>4, <2>5, EndType DEF Receive, TypeOK
<1>5. CASE Delete(u)
  <2>1. job[u].boxes \in SUBSET Box /\ job[u].at \in SUBSET Loc
    BY <1>0, <1>5, JobFields DEF Delete
  <2>2. [at |-> None, status |-> "deleted"] \in BoxRow
    BY DEF BoxRow, Place
  <2>3. box' \in [Box -> BoxRow]
    BY <1>5, <2>2 DEF Delete, TypeOK
  <2>4. count' \in [Loc -> Int]
    BY <1>0, <1>5, RecountType DEF Delete, TypeOK
  <2>5. skewed' \subseteq Loc
    BY <1>5, <2>1 DEF Delete, Skewed, LocationsOf, TypeOK
  <2> QED
    BY <1>5, <2>3, <2>4, <2>5, EndType DEF Delete, TypeOK
<1> QED
  BY <1>1, <1>2, <1>3, <1>4, <1>5 DEF Writing

\* Every request, and every step of a stopped server, keeps the types.
LEMMA NextTypeOK == TypeOK /\ [Next]_vars => TypeOK'
<1> SUFFICES ASSUME TypeOK, [Next]_vars PROVE TypeOK'
    OBVIOUS
<1>1. CASE UNCHANGED vars
  BY <1>1 DEF vars, TypeOK
<1>2. ASSUME NEW u \in User, Begins(u) \/ Writing(u) PROVE TypeOK'
  BY <1>2, BeginsType, WritingType
<1>3. ASSUME NEW u \in User, Crash(u) PROVE TypeOK'
  <2>1. job[u].pc = "create" => job[u].at \in Loc
    BY JobFields DEF TypeOK
  <2> QED
    BY <1>3, <2>1, EndType DEF Crash, TypeOK
<1>4. ASSUME NEW b \in Box, import(b) PROVE TypeOK'
  <2>1. box' \in [Box -> BoxRow]
    BY <1>4, BoxChanges DEF import, TypeOK
  <2> QED
    BY <1>4, <2>1 DEF import, TypeOK
<1>5. ASSUME NEW B, NEW from, NEW to \in {"active", "other", "proposed"}, SetStatus(B, from, to) PROVE TypeOK'
  BY <1>5, SetStatusBoxes DEF SetStatus, TypeOK
<1>6. ASSUME NEW B \in SUBSET Box, completeDisposal(B) PROVE TypeOK'
  <2>1. [at |-> None, status |-> "disposed"] \in BoxRow
    BY DEF BoxRow, Place
  <2>2. box' \in [Box -> BoxRow]
    BY <1>6, <2>1 DEF completeDisposal, TypeOK
  <2>3. count' \in [Loc -> Int]
    BY <1>6, RecountType DEF completeDisposal, TypeOK
  <2>4. skewed' \subseteq Loc
    BY <1>6 DEF completeDisposal, Skewed, LocationsOf, TypeOK
  <2> QED
    BY <1>6, <2>2, <2>3, <2>4 DEF completeDisposal, TypeOK
<1> QED
  BY <1>1, <1>2, <1>3, <1>4, <1>5, <1>6
     DEF Next, changeStatus, bulkChangeStatus, proposeForDisposal, setLegalHold

\* Every reachable state of the warehouse is well typed: every request knows of its boxes
\* what its transaction needs.
THEOREM WarehouseTypeCorrect == Spec => []TypeOK
  BY InitTypeOK, NextTypeOK, PTL DEF Spec

-------------------------------------------------------------------------------
(* Custody *)

\* A box whose custody has begun is in a place until it leaves for good; one that is not
\* in the archive yet has no custody.
CustodyInv ==
  /\ TypeOK
  /\ CustodyTells
  /\ \A b \in Box :
       /\ box[b].status = "absent" => custody[b] = None
       /\ Stored(b) /\ custody[b] # None => box[b].at # None

LEMMA InitCustodyInv == Init => CustodyInv
  BY InitTypeOK DEF Init, CustodyInv, CustodyTells, Stored, Present, Absent

\* Boxes that are moved or received are put where the custody log says.
LEMMA LoggedInv ==
  ASSUME CustodyInv, TypeOK', NEW B \in SUBSET Box, NEW l \in Loc, \A b \in B : Stored(b),
         box' = Placed(B, l), custody' = Logged(B, l), UNCHANGED overwritten
  PROVE  CustodyInv'
<1>1. \A b \in Box : /\ box'[b].status = box[b].status
                     /\ box'[b].at = IF b \in B THEN l ELSE box[b].at
                     /\ custody'[b] = IF b \in B THEN l ELSE custody[b]
  BY PlacedBoxes DEF CustodyInv, TypeOK, Logged, Place
<1> QED
  BY <1>1 DEF CustodyInv, CustodyTells, Stored, Present

\* Boxes that leave are in no place.
LEMMA LeftInv ==
  ASSUME CustodyInv, TypeOK', NEW B \in SUBSET Box, NEW s \in {"disposed", "deleted"},
         box' = [b \in Box |-> IF b \in B THEN [at |-> None, status |-> s] ELSE box[b]],
         UNCHANGED <<custody, overwritten>>
  PROVE  CustodyInv'
  BY DEF CustodyInv, CustodyTells, Stored, Present

\* Every step leaves custody log and boxes in agreement.
LEMMA NextCustodyInv == CustodyInv /\ [Next]_vars => CustodyInv'
<1> SUFFICES ASSUME CustodyInv, [Next]_vars PROVE CustodyInv'
    OBVIOUS
<1>0. TypeOK /\ TypeOK'
  BY NextTypeOK DEF CustodyInv
<1>1. ASSUME UNCHANGED <<box, custody, overwritten>> PROVE CustodyInv'
  BY <1>0, <1>1 DEF CustodyInv, CustodyTells, Stored, Present
<1>2. ASSUME NEW u \in User, NEW b \in Box, NEW l \in Loc, create(u, b, l) PROVE CustodyInv'
  BY <1>0, <1>2 DEF create, Absent, CustodyInv, CustodyTells, Stored, Present, TypeOK
<1>3. ASSUME NEW b \in Box, import(b) PROVE CustodyInv'
  <2>1. \A c \in Box \ {b} : box'[c] = box[c]
    BY <1>0, <1>3 DEF import, TypeOK
  <2>2. custody[b] = None
    BY <1>3 DEF import, Absent, CustodyInv
  <2>3. box'[b].status = "active"
    BY <1>0, <1>3, BoxChanges DEF import, TypeOK
  <2> QED
    BY <1>0, <1>3, <2>1, <2>2, <2>3 DEF import, CustodyInv, CustodyTells, Stored, Present
<1>4. ASSUME NEW u \in User, Relocate(u) PROVE CustodyInv'
  <2> DEFINE j == job[u]
             M == {b \in DOMAIN j.from : j.from[b] # j.to}
  <2>1. j.to \in Loc /\ M \in SUBSET Box
    BY <1>0, <1>4, PlaceJob DEF Relocate, TypeOK
  <2>2. CASE UNCHANGED <<box, custody>>
    BY <1>1, <1>4, <2>2 DEF Relocate
  <2>3. CASE Unmoved(j, M) /\ box' = Placed(M, j.to) /\ custody' = Logged(M, j.to)
    BY <1>0, <1>4, <2>1, <2>3, LoggedInv DEF Relocate, Unmoved
  <2> QED
    BY <1>4, <2>2, <2>3 DEF Relocate
<1>5. ASSUME NEW u \in User, WriteBack(u) PROVE CustodyInv'
  <2> DEFINE b == CHOOSE c \in DOMAIN job[u].from : TRUE
             l == job[u].to
  <2>1. l \in Loc /\ b \in Box
    BY <1>0, <1>5, PlaceJob DEF WriteBack, TypeOK
  <2>2. box' = Placed({b}, l) /\ UNCHANGED custody
    BY <1>5 DEF WriteBack
  <2>3. overwritten' = IF box[b].at = l THEN overwritten ELSE overwritten \cup {b}
    BY <1>5 DEF WriteBack
  <2> HIDE DEF b, l
  <2>4. \A c \in Box : /\ box'[c].status = box[c].status
                       /\ box'[c].at = IF c = b THEN l ELSE box[c].at
    BY <1>0, <2>1, <2>2, PlacedBoxes DEF TypeOK, Place
  <2>5. \A c \in Box \ overwritten' : c \notin overwritten /\ box'[c].at = box[c].at
    BY <2>3, <2>4
  <2> QED
    BY <1>0, <2>1, <2>2, <2>4, <2>5 DEF CustodyInv, CustodyTells, Stored, Present
<1>6. ASSUME NEW u \in User, Receive(u) PROVE CustodyInv'
  <2>1. job[u].boxes \in SUBSET Box /\ job[u].to \in Loc
    BY <1>0, <1>6, JobFields DEF Receive, TypeOK
  <2>2. CASE UNCHANGED <<box, custody>>
    BY <1>1, <1>6, <2>2 DEF Receive
  <2>3. CASE Receivable(job[u].boxes)
    <3>1. \A b \in job[u].boxes : Stored(b)
      BY <2>3 DEF Receivable, Stored, Present
    <3> QED
      BY <1>0, <1>6, <2>1, <2>3, <3>1, LoggedInv DEF Receive
  <2> QED
    BY <1>6, <2>2, <2>3 DEF Receive
<1>7. ASSUME NEW u \in User, Delete(u) PROVE CustodyInv'
  <2>1. job[u].boxes \in SUBSET Box
    BY <1>0, <1>7, JobFields DEF Delete, TypeOK
  <2> QED
    BY <1>0, <1>1, <1>7, <2>1, LeftInv DEF Delete
<1>8. ASSUME NEW B \in SUBSET Box, completeDisposal(B) PROVE CustodyInv'
  BY <1>0, <1>8, LeftInv DEF completeDisposal
<1>9. ASSUME NEW B, NEW from \in SUBSET {"active", "other", "proposed"},
             NEW to \in {"active", "other", "proposed"}, SetStatus(B, from, to)
      PROVE  CustodyInv'
  <2>1. \A b \in Box : box'[b].at = box[b].at /\ Stored(b)' = Stored(b)
                      /\ (box'[b].status = "absent" => box[b].status = "absent")
    BY <1>0, <1>9, SetStatusBoxes DEF Stored, Present, TypeOK
  <2> QED
    BY <1>0, <1>9, <2>1 DEF SetStatus, CustodyInv, CustodyTells
<1> QED
  BY <1>1, <1>2, <1>3, <1>4, <1>5, <1>6, <1>7, <1>8, <1>9
     DEF Next, vars, Begins, move, bulkMove, update, ReadPlaces, bulkReceive, bulkDelete, Writing,
         CountCreated, Crash, changeStatus, bulkChangeStatus, proposeForDisposal, setLegalHold

\* A box is where its custody log says, however moves, receipts, deletions and disposals
\* overlap, and one that left is nowhere, unless an update wrote it back
\* (boxes/box.service.ts).
THEOREM CustodyTrue == Spec => []CustodyTells
<1>1. CustodyInv => CustodyTells
  BY DEF CustodyInv
<1> QED
  BY <1>1, InitCustodyInv, NextCustodyInv, PTL DEF Spec

\* No step receives a box that is in a place or in custody (box.service.ts, bulkReceive).
THEOREM ReceiptsFirst == Spec => ReceiptFirst
<1>1. CustodyInv /\ [Next]_vars =>
        [\A b \in Box : b \in received' \ received => box[b].at = None /\ custody[b] = None]_vars
  <2> SUFFICES ASSUME CustodyInv, Next, NEW b \in Box, b \in received' \ received
               PROVE  box[b].at = None /\ custody[b] = None
      OBVIOUS
  <2>1. ASSUME NEW u \in User, Receive(u) PROVE box[b].at = None /\ custody[b] = None
    <3>1. box[b].at = None /\ Stored(b)
      BY <2>1 DEF Receive, Receivable, Stored, Present
    <3> QED
      BY <3>1 DEF CustodyInv
  <2>2. ASSUME UNCHANGED received PROVE FALSE
    BY <2>2
  <2> QED
    BY <2>1, <2>2
       DEF Next, Begins, create, move, bulkMove, update, ReadPlaces, bulkReceive, bulkDelete, Writing,
           CountCreated, Relocate, WriteBack, Delete, Crash, import, completeDisposal, SetStatus,
           changeStatus, bulkChangeStatus, proposeForDisposal, setLegalHold
<1> QED
  BY <1>1, InitCustodyInv, NextCustodyInv, PTL DEF Spec, ReceiptFirst

-------------------------------------------------------------------------------
(* Counters *)

CountInv == TypeOK /\ CountersAgree

\* Sets of boxes and of requests can be counted.
LEMMA Countable ==
  ASSUME NEW S, S \in SUBSET Box \/ S \in SUBSET User
  PROVE  IsFiniteSet(S) /\ Cardinality(S) \in Nat
  BY FS_Subset, FS_CardinalityType

LEMMA AtType == \A l : At(l) \in SUBSET Box
  BY DEF At

LEMMA CreatingType == \A l : Creating(l) \in SUBSET User
  BY DEF Creating

\* Boxes that come to a location, and boxes that leave it.
LEMMA CountMore ==
  ASSUME NEW S, NEW T, S \in SUBSET Box, T \in SUBSET Box, S \cap T = {}
  PROVE  Cardinality(S \cup T) = Cardinality(S) + Cardinality(T)
<1>1. /\ IsFiniteSet(S) /\ Cardinality(S) \in Nat
      /\ IsFiniteSet(T) /\ Cardinality(T) \in Nat
  BY Countable
<1>2. Cardinality(S \cup T) = Cardinality(S) + Cardinality(T) - Cardinality(S \cap T)
  BY <1>1, FS_Union
<1>3. Cardinality(S \cap T) = 0
  BY FS_EmptySet, Zenon
<1> QED
  BY <1>1, <1>2, <1>3

LEMMA CountLess ==
  ASSUME NEW S, NEW T, S \in SUBSET Box, T \in SUBSET S
  PROVE  Cardinality(S \ T) = Cardinality(S) - Cardinality(T)
<1>1. S \cap T = T
  OBVIOUS
<1> QED
  BY <1>1, Countable, FS_Difference

\* A request that neither begins nor ends to create a box.
LEMMA CreatingStays ==
  ASSUME NEW u \in User, NEW j, job' = [job EXCEPT ![u] = j], job \in [User -> Job],
         job[u].pc # "create", j.pc # "create"
  PROVE  \A l : Creating(l)' = Creating(l) /\ Uncounted(l)' = Uncounted(l)
<1>1. \A l : Creating(l)' = Creating(l)
  BY DEF Creating
<1> QED
  BY <1>1 DEF Uncounted

LEMMA BeginsOther ==
  ASSUME TypeOK, NEW u \in User, NEW j, Begin(u, j), j.pc # "create"
  PROVE  \A l : Uncounted(l)' = Uncounted(l)
<1>1. /\ job' = [job EXCEPT ![u] = j] /\ job \in [User -> Job]
      /\ job[u].pc # "create"
  BY DEF Begin, TypeOK, Idle
<1> QED
  BY <1>1, CreatingStays

LEMMA EndsOther ==
  ASSUME TypeOK, NEW u \in User, End(u), job[u].pc # "create"
  PROVE  \A l : Uncounted(l)' = Uncounted(l)
<1>1. job' = [job EXCEPT ![u] = Idle] /\ Idle.pc # "create" /\ job \in [User -> Job]
  BY DEF End, TypeOK, Idle
<1> QED
  BY <1>1, CreatingStays

\* One less box is waiting to be counted.
LEMMA CreatingEnds ==
  ASSUME TypeOK, NEW u \in User, End(u), job[u].pc = "create"
  PROVE  \A l \in Loc : Uncounted(l)' = IF l = job[u].at THEN Uncounted(l) - 1 ELSE Uncounted(l)
<1>1. job' = [job EXCEPT ![u] = Idle] /\ Idle.pc # "create" /\ job \in [User -> Job]
  BY DEF End, Idle, TypeOK
<1>2. \A l \in Loc : Creating(l)' = IF l = job[u].at THEN Creating(l) \ {u} ELSE Creating(l)
  BY <1>1 DEF Creating
<1>3. u \in Creating(job[u].at)
  BY DEF Creating
<1>4. \A l \in Loc : IsFiniteSet(Creating(l))
  BY Countable, CreatingType
<1> QED
  BY <1>2, <1>3, <1>4, FS_RemoveElement DEF Uncounted

\* Nothing that is counted changes.
LEMMA CountStays ==
  ASSUME CountInv, TypeOK', \A b \in Box : Stored(b)' = Stored(b) /\ (Stored(b) => box'[b].at = box[b].at),
         \A l \in Loc : Uncounted(l)' = Uncounted(l), UNCHANGED count, skewed \subseteq skewed'
  PROVE  CountInv'
<1>1. \A l \in Loc : At(l)' = At(l)
  BY DEF At
<1> QED
  BY <1>1 DEF CountInv, CountersAgree

\* The locations L of boxes that leave are counted anew.
LEMMA RecountInv ==
  ASSUME CountInv, TypeOK', NEW B \in SUBSET Box, NEW s \in {"disposed", "deleted"},
         NEW L \in SUBSET Loc, NEW missed,
         box' = [b \in Box |-> IF b \in B THEN [at |-> None, status |-> s] ELSE box[b]],
         count' = Recounted(L, B), skewed' = Skewed(L, missed),
         LocationsOf(B) \subseteq L \cup missed,
         \A l \in Loc : Uncounted(l)' = Uncounted(l)
  PROVE  CountInv'
<1>1. \A l \in Loc : At(l)' = At(l) \ B
  BY DEF At, Stored, Present, CountInv, TypeOK
<1>2. \A l \in Loc : l \notin LocationsOf(B) => At(l) \ B = At(l)
  BY DEF At, LocationsOf
<1>3. ASSUME NEW l \in Loc \ skewed' PROVE count'[l] + Uncounted(l)' = Cardinality(At(l)')
  <2>1. CASE l \in L
    <3>1. ~ (Uncounted(l) > 0)
      BY <1>3, <2>1 DEF Skewed
    <3>2. Uncounted(l) = 0
      BY <3>1, Countable, CreatingType DEF Uncounted
    <3>3. count'[l] = Cardinality(At(l) \ B)
      BY <2>1 DEF Recounted
    <3>4. Cardinality(At(l) \ B) \in Nat
      BY Countable DEF At
    <3>5. Cardinality(At(l)') = Cardinality(At(l) \ B) /\ Uncounted(l)' = 0
      BY <1>1, <3>2, Zenon
    <3> QED
      BY <3>3, <3>4, <3>5
  <2>2. CASE l \notin L
    <3>1. l \notin skewed /\ l \notin LocationsOf(B)
      BY <1>3, <2>2 DEF Skewed
    <3>2. count'[l] = count[l]
      BY <2>2 DEF Recounted
    <3> QED
      BY <1>1, <1>2, <3>1, <3>2 DEF CountInv, CountersAgree
  <2> QED
    BY <2>1, <2>2
<1> QED
  BY <1>3 DEF CountInv, CountersAgree

\* Boxes that were all in no place come to l.
LEMMA ReceiveInv ==
  ASSUME CountInv, TypeOK', NEW B \in SUBSET Box, NEW l \in Loc, Receivable(B),
         box' = Placed(B, l), count' = [count EXCEPT ![l] = @ + Cardinality(B)],
         UNCHANGED skewed, \A k \in Loc : Uncounted(k)' = Uncounted(k)
  PROVE  CountInv'
<1>1. \A b \in Box : /\ box'[b].status = box[b].status
                     /\ box'[b].at = IF b \in B THEN l ELSE box[b].at
  BY PlacedBoxes DEF CountInv, TypeOK, Place
<1>2. \A b \in B : Stored(b) /\ box[b].at = None
  BY DEF Receivable, Stored, Present
<1>3. \A k \in Loc : At(k)' = IF k = l THEN At(k) \cup B ELSE At(k)
  BY <1>1, <1>2 DEF At, Stored, Present
<1>4. At(l) \cap B = {}
  BY <1>2 DEF At
<1>5. Cardinality(At(l) \cup B) = Cardinality(At(l)) + Cardinality(B)
  BY <1>4, AtType, CountMore
<1>6. \A k \in Loc : Cardinality(At(k)) \in Int /\ Uncounted(k) \in Int /\ count[k] \in Int
  BY AtType, CreatingType, Countable DEF Uncounted, CountInv, TypeOK
<1>7. Cardinality(B) \in Int /\ count \in [Loc -> Int]
  BY Countable DEF CountInv, TypeOK
<1>8. ASSUME NEW k \in Loc \ skewed PROVE count'[k] + Uncounted(k)' = Cardinality(At(k)')
  <2> DEFINE here == Cardinality(At(k))
             now == Cardinality(At(k)')
  <2>1. count[k] + Uncounted(k) = here
    BY <1>8 DEF CountInv, CountersAgree
  <2>2. here \in Int /\ count[k] \in Int /\ Uncounted(k) \in Int
        /\ Cardinality(B) \in Int /\ Uncounted(k)' = Uncounted(k)
    BY <1>6, <1>7
  <2>3. CASE k = l
    <3>1. now = here + Cardinality(B)
      BY <1>3, <1>5, <2>3, Zenon
    <3>2. count'[k] = count[k] + Cardinality(B)
      BY <1>7, <2>3
    <3> HIDE DEF here, now
    <3>3. count'[k] + Uncounted(k) = now
      BY <2>1, <2>2, <3>1, <3>2
    <3> QED
      BY <2>2, <3>3 DEF now
  <2>4. CASE k # l
    <3>1. now = here
      BY <1>3, <2>4, Zenon
    <3>2. count'[k] = count[k]
      BY <1>7, <2>4
    <3> QED
      BY <2>1, <2>2, <3>1, <3>2
  <2> QED
    BY <2>3, <2>4
<1> QED
  BY <1>8 DEF CountInv, CountersAgree

\* Boxes that are where the request had read them leave, each its own location, and come to
\* l together.
LEMMA MoveInv ==
  ASSUME CountInv, TypeOK', NEW M \in SUBSET Box, NEW l \in Loc, NEW from,
         \A b \in M : Stored(b) /\ box[b].at = from[b] /\ from[b] # l,
         box' = Placed(M, l),
         count' = [k \in Loc |-> count[k] - Cardinality({b \in M : from[b] = k})
                                  + IF k = l THEN Cardinality(M) ELSE 0],
         UNCHANGED skewed, \A k \in Loc : Uncounted(k)' = Uncounted(k)
  PROVE  CountInv'
<1> DEFINE Gone(k) == {b \in M : from[b] = k}
<1>1. \A b \in Box : /\ box'[b].status = box[b].status
                     /\ box'[b].at = IF b \in M THEN l ELSE box[b].at
  BY PlacedBoxes DEF CountInv, TypeOK, Place
<1>2. \A k \in Loc : Gone(k) \in SUBSET At(k)
  BY DEF At
<1>3. \A k \in Loc : At(k)' = IF k = l THEN At(k) \cup M ELSE At(k) \ Gone(k)
  BY <1>1 DEF At, Stored, Present
<1>4. Gone(l) = {} /\ At(l) \cap M = {}
  BY DEF At
<1>5. Cardinality(At(l) \cup M) = Cardinality(At(l)) + Cardinality(M)
  BY <1>4, AtType, CountMore
<1>6. \A k \in Loc : Cardinality(At(k) \ Gone(k)) = Cardinality(At(k)) - Cardinality(Gone(k))
  BY <1>2, AtType, CountLess
<1>7. \A k \in Loc : Cardinality(At(k)) \in Int /\ Uncounted(k) \in Int /\ count[k] \in Int
                    /\ Cardinality(Gone(k)) \in Int
  BY AtType, CreatingType, Countable DEF Uncounted, CountInv, TypeOK
<1>8. Cardinality(M) \in Int /\ Cardinality(Gone(l)) = 0
  BY <1>4, Countable, FS_EmptySet
<1>9. count' = [k \in Loc |-> count[k] - Cardinality(Gone(k)) + IF k = l THEN Cardinality(M) ELSE 0]
  OBVIOUS
<1> HIDE DEF Gone
<1>10. \A k \in Loc : count'[k] = count[k] - Cardinality(Gone(k)) + IF k = l THEN Cardinality(M) ELSE 0
  BY <1>9
<1>11. ASSUME NEW k \in Loc \ skewed PROVE count'[k] + Uncounted(k)' = Cardinality(At(k)')
  <2>1. count[k] + Uncounted(k) = Cardinality(At(k))
    BY <1>11 DEF CountInv, CountersAgree
  <2> DEFINE here == Cardinality(At(k))
             gone == Cardinality(Gone(k))
             now == Cardinality(At(k)')
  <2>2. here \in Int /\ gone \in Int /\ count[k] \in Int /\ Uncounted(k) \in Int
        /\ Cardinality(M) \in Int /\ Uncounted(k)' = Uncounted(k)
    BY <1>7, <1>8
  <2>3. CASE k = l
    <3>1. now = here + Cardinality(M) /\ gone = 0
      BY <1>3, <1>5, <1>8, <2>3, Zenon
    <3>2. count'[k] = count[k] - gone + Cardinality(M)
      BY <1>10, <2>3, Zenon
    <3> HIDE DEF here, gone, now
    <3>3. count'[k] + Uncounted(k) = now
      BY <2>1, <2>2, <3>1, <3>2 DEF here
    <3> QED
      BY <2>2, <3>3 DEF now
  <2>4. CASE k # l
    <3>1. now = here - gone
      BY <1>3, <1>6, <2>4, Zenon
    <3>2. count'[k] = count[k] - gone + 0
      BY <1>10, <2>4, Zenon
    <3> HIDE DEF here, gone, now
    <3>3. count'[k] + Uncounted(k) = now
      BY <2>1, <2>2, <3>1, <3>2 DEF here
    <3> QED
      BY <2>2, <3>3 DEF now
  <2> QED
    BY <2>3, <2>4
<1> QED
  BY <1>11 DEF CountInv, CountersAgree

LEMMA InitCountInv == Init => CountInv
<1> SUFFICES ASSUME Init PROVE CountInv
    OBVIOUS
<1>1. \A l \in Loc : At(l) = {} /\ Creating(l) = {} /\ count[l] = 0
  BY DEF Init, At, Creating, Stored, Present, Absent, Idle
<1>2. \A l \in Loc : Cardinality(At(l)) = 0 /\ Uncounted(l) = 0
  BY <1>1, FS_EmptySet DEF Uncounted
<1> QED
  BY <1>1, <1>2, InitTypeOK DEF CountInv, CountersAgree

\* The box is written, and waits to be counted.
LEMMA CreateInv ==
  ASSUME CountInv, TypeOK', NEW u \in User, NEW b \in Box, NEW l \in Loc, create(u, b, l)
  PROVE  CountInv'
<1>1. /\ box' = [box EXCEPT ![b] = [at |-> l, status |-> "active"]]
      /\ box[b].status = "absent" /\ box \in [Box -> BoxRow]
      /\ job' = [job EXCEPT ![u] = [pc |-> "create", at |-> l]]
      /\ job[u].pc # "create" /\ job \in [User -> Job]
      /\ UNCHANGED <<count, skewed>>
  BY DEF create, Absent, Begin, Idle, CountInv, TypeOK
<1>2. \A k \in Loc : At(k)' = IF k = l THEN At(k) \cup {b} ELSE At(k)
  BY <1>1 DEF At, Stored, Present
<1>3. \A k \in Loc : Creating(k)' = IF k = l THEN Creating(k) \cup {u} ELSE Creating(k)
  BY <1>1 DEF Creating
<1>4. b \notin At(l) /\ u \notin Creating(l)
  BY <1>1 DEF At, Stored, Present, Creating
<1>5. ASSUME NEW k \in Loc \ skewed PROVE count'[k] + Uncounted(k)' = Cardinality(At(k)')
  <2> DEFINE here == Cardinality(At(k))
             now == Cardinality(At(k)')
  <2>1. count[k] + Uncounted(k) = here /\ count'[k] = count[k]
    BY <1>1, <1>5 DEF CountInv, CountersAgree
  <2>2. here \in Int /\ count[k] \in Int /\ Uncounted(k) \in Int
        /\ IsFiniteSet(At(k)) /\ IsFiniteSet(Creating(k))
    BY AtType, CreatingType, Countable DEF Uncounted, CountInv, TypeOK
  <2>3. CASE k = l
    <3>1. now = here + 1
      BY <1>2, <1>4, <2>2, <2>3, FS_AddElement, Zenon
    <3>2. Uncounted(k)' = Uncounted(k) + 1
      BY <1>3, <1>4, <2>2, <2>3, FS_AddElement, Zenon DEF Uncounted
    <3> HIDE DEF here, now
    <3>3. count'[k] + (Uncounted(k) + 1) = now
      BY <2>1, <2>2, <3>1
    <3> QED
      BY <3>2, <3>3, Zenon DEF now
  <2>4. CASE k # l
    <3>1. now = here /\ Uncounted(k)' = Uncounted(k)
      BY <1>2, <1>3, <2>4, Zenon DEF Uncounted
    <3> QED
      BY <2>1, <3>1, Zenon
  <2> QED
    BY <2>3, <2>4
<1> QED
  BY <1>1, <1>5 DEF CountInv, CountersAgree

\* A box that was waiting to be counted is counted, or never will be.
LEMMA CountCreatedInv ==
  ASSUME CountInv, TypeOK', NEW u \in User, CountCreated(u)
  PROVE  CountInv'
<1>1. /\ job[u].pc = "create" /\ job[u].at \in Loc /\ UNCHANGED <<box, skewed>>
      /\ count' = [count EXCEPT ![job[u].at] = @ + 1] /\ count \in [Loc -> Int]
  BY JobFields DEF CountCreated, CountInv, TypeOK
<1>2. \A k \in Loc : Uncounted(k)' = IF k = job[u].at THEN Uncounted(k) - 1 ELSE Uncounted(k)
  BY CreatingEnds DEF CountCreated, CountInv
<1>3. \A k \in Loc : At(k)' = At(k) /\ Uncounted(k) \in Int
  BY <1>1, CreatingType, Countable DEF At, Stored, Present, Uncounted
<1>4. ASSUME NEW k \in Loc \ skewed PROVE count'[k] + Uncounted(k)' = Cardinality(At(k))
  <2>1. count[k] + Uncounted(k) = Cardinality(At(k))
    BY <1>4 DEF CountInv, CountersAgree
  <2>2. CASE k = job[u].at
    <3>1. count'[k] = count[k] + 1 /\ Uncounted(k)' = Uncounted(k) - 1
      BY <1>1, <1>2, <2>2
    <3> QED
      BY <1>1, <1>3, <2>1, <3>1
  <2>3. CASE k # job[u].at
    <3>1. count'[k] = count[k] /\ Uncounted(k)' = Uncounted(k)
      BY <1>1, <1>2, <2>3
    <3> QED
      BY <2>1, <3>1, Zenon
  <2> QED
    BY <2>2, <2>3
<1> QED
  BY <1>1, <1>3, <1>4, Zenon DEF CountInv, CountersAgree

LEMMA CrashInv ==
  ASSUME CountInv, TypeOK', NEW u \in User, Crash(u)
  PROVE  CountInv'
<1>1. UNCHANGED <<box, count>> /\ End(u)
  BY DEF Crash
<1>2. \A b \in Box : Stored(b)' = Stored(b) /\ box'[b].at = box[b].at
  BY <1>1 DEF Stored, Present
<1>3. CASE job[u].pc # "create"
  <2>1. \A k \in Loc : Uncounted(k)' = Uncounted(k)
    BY <1>1, <1>3, EndsOther DEF CountInv
  <2> QED
    BY <1>1, <1>2, <1>3, <2>1, CountStays DEF Crash
<1>4. CASE job[u].pc = "create"
  <2>1. skewed' = skewed \cup {job[u].at}
    BY <1>4 DEF Crash
  <2>2. \A k \in Loc \ skewed' : Uncounted(k)' = Uncounted(k)
    BY <1>1, <1>4, <2>1, CreatingEnds DEF CountInv
  <2>3. \A k \in Loc : At(k)' = At(k)
    BY <1>2 DEF At
  <2> QED
    BY <1>1, <2>1, <2>2, <2>3, Zenon DEF CountInv, CountersAgree
<1> QED
  BY <1>3, <1>4

\* Every step keeps the counters, but for those that are skewed.
LEMMA NextCountInv == CountInv /\ [Next]_vars => CountInv'
<1> SUFFICES ASSUME CountInv, [Next]_vars PROVE CountInv'
    OBVIOUS
<1>0. TypeOK /\ TypeOK'
  BY NextTypeOK DEF CountInv
<1>1. ASSUME UNCHANGED <<box, count, skewed>>, \A l \in Loc : Uncounted(l)' = Uncounted(l) PROVE CountInv'
  <2>1. \A b \in Box : Stored(b)' = Stored(b) /\ box'[b].at = box[b].at
    BY <1>1 DEF Stored, Present
  <2> QED
    BY <1>0, <1>1, <2>1, CountStays
<1>2. CASE UNCHANGED vars
  BY <1>1, <1>2 DEF vars, Uncounted, Creating
<1>3. ASSUME NEW u \in User, Begins(u) PROVE CountInv'
  <2>1. ASSUME NEW j, Begin(u, j), j.pc # "create", UNCHANGED <<box, count, skewed>> PROVE CountInv'
    BY <1>0, <1>1, <2>1, BeginsOther
  <2>2. ASSUME NEW B, NEW l, ReadPlaces(u, B, l) PROVE CountInv'
    BY <2>1, <2>2 DEF ReadPlaces
  <2>3. ASSUME NEW B, NEW l, bulkReceive(u, B, l) PROVE CountInv'
    BY <2>1, <2>3 DEF bulkReceive
  <2>4. ASSUME NEW B, bulkDelete(u, B) PROVE CountInv'
    BY <2>1, <2>4 DEF bulkDelete
  <2> QED
    BY <1>0, <1>3, <2>2, <2>3, <2>4, CreateInv DEF Begins, move, bulkMove, update
<1>4. ASSUME NEW u \in User, Relocate(u) PROVE CountInv'
  <2> DEFINE j == job[u]
             M == {b \in DOMAIN j.from : j.from[b] # j.to}
  <2>1. j.to \in Loc /\ M \in SUBSET Box
    BY <1>0, <1>4, PlaceJob DEF Relocate, TypeOK
  <2>2. \A l \in Loc : Uncounted(l)' = Uncounted(l)
    BY <1>0, <1>4, EndsOther DEF Relocate
  <2>3. CASE UNCHANGED <<box, count, custody>>
    BY <1>1, <1>4, <2>2, <2>3 DEF Relocate
  <2>4. CASE Unmoved(j, M) /\ box' = Placed(M, j.to)
             /\ count' = [l \in Loc |-> count[l] - Cardinality({b \in M : j.from[b] = l})
                                       + IF l = j.to THEN Cardinality(M) ELSE 0]
    <3>1. \A b \in M : Stored(b) /\ box[b].at = j.from[b] /\ j.from[b] # j.to
      BY <2>4 DEF Unmoved
    <3>2. UNCHANGED skewed
      BY <1>4 DEF Relocate
    <3> DEFINE f == j.from
               l == j.to
    <3>3. /\ l \in Loc /\ \A b \in M : Stored(b) /\ box[b].at = f[b] /\ f[b] # l
          /\ box' = Placed(M, l)
          /\ count' = [k \in Loc |-> count[k] - Cardinality({b \in M : f[b] = k})
                                    + IF k = l THEN Cardinality(M) ELSE 0]
      BY <2>1, <2>4, <3>1
    <3> HIDE DEF M, f, l
    <3> QED
      BY <1>0, <2>1, <2>2, <3>2, <3>3, MoveInv
  <2> QED
    BY <1>4, <2>3, <2>4 DEF Relocate
<1>5. ASSUME NEW u \in User, WriteBack(u) PROVE CountInv'
  <2> DEFINE b == CHOOSE c \in DOMAIN job[u].from : TRUE
             l == job[u].to
  <2>1. l \in Loc /\ b \in Box
    BY <1>0, <1>5, PlaceJob DEF WriteBack, TypeOK
  <2>2. /\ box' = Placed({b}, l) /\ UNCHANGED count
        /\ skewed' = IF box[b].at # l /\ Stored(b) THEN skewed \cup ({box[b].at, l} \cap Loc) ELSE skewed
    BY <1>5 DEF WriteBack
  <2>3. \A k \in Loc : Uncounted(k)' = Uncounted(k)
    BY <1>0, <1>5, EndsOther DEF WriteBack
  <2> HIDE DEF b, l
  <2>4. \A c \in Box : /\ box'[c].status = box[c].status
                       /\ box'[c].at = IF c = b THEN l ELSE box[c].at
    BY <1>0, <2>1, <2>2, PlacedBoxes DEF TypeOK, Place
  <2>5. \A k \in Loc \ skewed' : At(k)' = At(k)
    BY <2>1, <2>2, <2>4 DEF At, Stored, Present
  <2>6. skewed \subseteq skewed'
    BY <2>2
  <2> QED
    BY <1>0, <2>2, <2>3, <2>5, <2>6, Zenon DEF CountInv, CountersAgree
<1>6. ASSUME NEW u \in User, Receive(u) PROVE CountInv'
  <2>1. job[u].boxes \in SUBSET Box /\ job[u].to \in Loc
    BY <1>0, <1>6, JobFields DEF Receive, TypeOK
  <2>2. \A k \in Loc : Uncounted(k)' = Uncounted(k)
    BY <1>0, <1>6, EndsOther DEF Receive
  <2>3. CASE ~ Receivable(job[u].boxes)
    BY <1>1, <1>6, <2>2, <2>3 DEF Receive
  <2>4. CASE Receivable(job[u].boxes)
    BY <1>0, <1>6, <2>1, <2>2, <2>4, ReceiveInv DEF Receive
  <2> QED
    BY <2>3, <2>4
<1>7. ASSUME NEW u \in User, Delete(u) PROVE CountInv'
  <2> DEFINE B == job[u].boxes
             L == job[u].at
  <2>1. B \in SUBSET Box /\ L \in SUBSET Loc
    BY <1>0, <1>7, JobFields DEF Delete, TypeOK
  <2>2. \A k \in Loc : Uncounted(k)' = Uncounted(k)
    BY <1>0, <1>7, EndsOther DEF Delete
  <2>3. CASE UNCHANGED <<box, count, skewed>>
    BY <1>1, <2>2, <2>3
  <2>4. CASE box' = [b \in Box |-> IF b \in B THEN [at |-> None, status |-> "deleted"] ELSE box[b]]
             /\ count' = Recounted(L, B) /\ skewed' = Skewed(L, LocationsOf(B))
    BY <1>0, <2>1, <2>2, <2>4, RecountInv
  <2> QED
    BY <1>7, <2>3, <2>4 DEF Delete
<1>8. ASSUME NEW B \in SUBSET Box, completeDisposal(B) PROVE CountInv'
  <2>1. LocationsOf(B) \in SUBSET Loc
    BY DEF LocationsOf
  <2>2. \A k \in Loc : Uncounted(k)' = Uncounted(k)
    BY <1>8 DEF completeDisposal, Uncounted, Creating
  <2> QED
    BY <1>0, <1>8, <2>1, <2>2, RecountInv DEF completeDisposal
<1>9. ASSUME NEW B, NEW from \in SUBSET {"active", "other", "proposed"},
             NEW to \in {"active", "other", "proposed"}, SetStatus(B, from, to)
      PROVE  CountInv'
  <2>1. \A b \in Box : box'[b].at = box[b].at /\ Stored(b)' = Stored(b)
    BY <1>0, <1>9, SetStatusBoxes DEF Stored, Present, TypeOK
  <2>2. \A k \in Loc : Uncounted(k)' = Uncounted(k)
    BY <1>9 DEF SetStatus, Uncounted, Creating
  <2> QED
    BY <1>0, <1>9, <2>1, <2>2, CountStays DEF SetStatus
<1>10. ASSUME NEW b \in Box, import(b) PROVE CountInv'
  <2>1. \A c \in Box \ {b} : box'[c] = box[c]
    BY <1>0, <1>10 DEF import, TypeOK
  <2>2. ~ Stored(b) /\ box'[b].at = None
    BY <1>0, <1>10, BoxChanges DEF import, Absent, Stored, Present, TypeOK
  <2>3. \A l \in Loc : At(l)' = At(l)
    BY <2>1, <2>2 DEF At, Stored, Present
  <2>4. UNCHANGED <<count, job, skewed>>
    BY <1>10 DEF import
  <2>5. \A l \in Loc : Uncounted(l)' = Uncounted(l)
    BY <2>4 DEF Uncounted, Creating
  <2> QED
    BY <1>0, <2>3, <2>4, <2>5, Zenon DEF CountInv, CountersAgree
<1> QED
  BY <1>0, <1>2, <1>3, <1>4, <1>5, <1>6, <1>7, <1>8, <1>9, <1>10, CountCreatedInv, CrashInv
     DEF Next, Writing, changeStatus, bulkChangeStatus, proposeForDisposal, setLegalHold

\* The counter of a location is the number of boxes in it, for every set of boxes and
\* however many requests overlap, except where it is known to go wrong (box.service.ts).
THEOREM CountersKept == Spec => []CountersAgree
<1>1. CountInv => CountersAgree
  BY DEF CountInv
<1> QED
  BY <1>1, InitCountInv, NextCountInv, PTL DEF Spec
===============================================================================
