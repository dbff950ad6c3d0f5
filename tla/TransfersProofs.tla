---------------------------- MODULE TransfersProofs ---------------------------
(***************************************************************************)
(* Theorems about transfer lists, for every set of lists, items, boxes and *)
(* concurrent requests.                                                    *)
(***************************************************************************)
EXTENDS Transfers, TLAPS

USE TransfersAssumption

-------------------------------------------------------------------------------
(* Types *)

\* The fields a request needs are there, and of the right sort.
LEMMA RequestFields ==
  ASSUME NEW r \in Request
  PROVE  /\ r.pc = "changeStatus" => r.list \in List /\ r.to \in {"draft", "confirmed", "archived"}
         /\ r.pc = "deleteList" => r.list \in List
         /\ r.pc = "reviewedScan" => r.rows \in SUBSET Item /\ r.twice \in BOOLEAN
         /\ r.pc = "import" => r.list \in List /\ r.rows \in SUBSET Item
         /\ r.pc = "deleteItems" => r.list \in List /\ r.rows \in SUBSET Item
         /\ r.pc \in {"updateItem", "editFolder"} => r.item \in Item
         /\ r.pc = "assignBox" => /\ r.list \in List /\ r.rows \in SUBSET Item
                                  /\ r.folders \in SUBSET Item
  BY DEF Request, Idle

\* There is a record to start from.
LEMMA BlankType == Blank \in Record
<1>1. PICK d \in Data : TRUE
  OBVIOUS
<1>2. [box |-> NoBox, data |-> d] \in Record
  BY DEF Record, Boxed
<1> QED
  BY <1>2 DEF Blank

\* A request that begins is well-formed, and changes nothing.
LEMMA BeginType ==
  ASSUME TypeOK, NEW w \in Worker, NEW r \in Request, Begin(w, r)
  PROVE  TypeOK'
  BY DEF Begin, TypeOK, Live

\* A request that ends leaves no trace of what it had read.
LEMMA EndType ==
  ASSUME req \in [Worker -> Request], NEW w \in Worker, End(w)
  PROVE  req' \in [Worker -> Request]
  BY DEF End, Request

\* An import that has looked at a row is still an import, of fewer rows.
LEMMA NextRowType ==
  ASSUME req \in [Worker -> Request], NEW w \in Worker, NEW i, req[w].pc = "import", NextRow(w, i)
  PROVE  req' \in [Worker -> Request]
<1> DEFINE r == req[w]
<1>1. r \in [pc : {"import", "deleteItems"}, list : List, rows : SUBSET Item]
  BY DEF Request, Idle
<1>2. [r EXCEPT !.rows = r.rows \ {i}] \in Request
  BY <1>1 DEF Request
<1> QED
  BY <1>2 DEF NextRow, Request

\* Removed items are in no list, so that no list has to exist for them.
LEMMA RemoveType ==
  ASSUME TypeOK, NEW S, Remove(S)
  PROVE  /\ listOf' \in [Item -> List \cup {New, Gone}]
         /\ item' \in [Item -> Record] /\ folder' \in [Item -> Record]
         /\ held' \subseteq List \cup Item
         /\ \A i \in Item : listOf'[i] \in List => listOf'[i] = listOf[i]
  BY BlankType DEF TypeOK, Remove

\* In the empty archive nothing is in a list.
LEMMA InitTypeOK == Init => TypeOK
  BY BlankType DEF Init, TypeOK, ListStatus, Request

\* Every request and every transaction keeps the types, and the list of an item exists.
LEMMA NextTypeOK == TypeOK /\ [Next]_vars => TypeOK'
<1> SUFFICES ASSUME TypeOK, [Next]_vars PROVE TypeOK'
    OBVIOUS
<1>1. CASE UNCHANGED vars
  BY <1>1 DEF vars, TypeOK, Live
<1>2. ASSUME NEW l \in List, create(l) PROVE TypeOK'
  BY <1>2 DEF create, TypeOK, Live, ListStatus
<1>3. ASSUME NEW x \in List \cup Item, SetHold(x) PROVE TypeOK'
  BY <1>3 DEF SetHold, TypeOK, Live
<1>4. ASSUME NEW w \in Worker, NEW l \in List, BeginList(w, l) PROVE TypeOK'
  <2>1. ASSUME NEW to \in {"draft", "confirmed", "archived"}, BeginChangeStatus(w, l, to) PROVE TypeOK'
    BY <2>1, BeginType DEF BeginChangeStatus, Request
  <2>2. CASE BeginDeleteList(w, l)
    BY <2>2, BeginType DEF BeginDeleteList, Request
  <2>3. ASSUME NEW rows \in Rows, BeginImport(w, l, rows) PROVE TypeOK'
    BY <2>3, BeginType DEF BeginImport, Request, Rows
  <2>4. ASSUME NEW rows \in Rows, BeginDeleteItems(w, l, rows) PROVE TypeOK'
    BY <2>4, BeginType DEF BeginDeleteItems, Request, Rows
  <2>5. ASSUME NEW rows \in Rows, BeginAssignBox(w, l, rows) PROVE TypeOK'
    BY <2>5, BeginType DEF BeginAssignBox, Request, Rows, ItemsOf
  <2>6. ASSUME NEW i \in Item, BeginUpdateItem(w, l, i) PROVE TypeOK'
    BY <2>6, BeginType DEF BeginUpdateItem, Request
  <2>7. ASSUME NEW i \in Item, BeginEditFolder(w, l, i) PROVE TypeOK'
    BY <2>7, BeginType DEF BeginEditFolder, Request
  <2> QED
    BY <1>4, <2>1, <2>2, <2>3, <2>4, <2>5, <2>6, <2>7 DEF BeginList
<1>5. ASSUME NEW w \in Worker, NEW rows \in Rows, NEW twice \in BOOLEAN, BeginReviewedScan(w, rows, twice)
      PROVE  TypeOK'
  BY <1>5, BeginType DEF BeginReviewedScan, Request, Rows
<1>6. ASSUME NEW w \in Worker, NEW l \in List, NEW r \in Record, CreateFromReviewedScan(w, l, r)
      PROVE  TypeOK'
  BY <1>6, EndType DEF CreateFromReviewedScan, TypeOK, Live, ListStatus
<1>7. ASSUME NEW w \in Worker, NEW i \in Item, NEW r \in Record, ImportRow(w, i, r) PROVE TypeOK'
  <2>1. req[w].list \in List
    BY <1>7, RequestFields DEF ImportRow, TypeOK
  <2>2. req' \in [Worker -> Request]
    BY <1>7, NextRowType DEF ImportRow, TypeOK
  <2> QED
    BY <1>7, <2>1, <2>2 DEF ImportRow, ForeignKey, TypeOK, Live
<1>8. ASSUME NEW w \in Worker, NEW i \in Item, SkipRow(w, i) PROVE TypeOK'
  BY <1>8, NextRowType DEF SkipRow, TypeOK, Live
<1>9. ASSUME NEW w \in Worker, NEW r \in Record, UpdateItem(w, r) PROVE TypeOK'
  BY <1>9, EndType DEF UpdateItem, TypeOK, Live
<1>10. ASSUME NEW w \in Worker, NEW b \in Boxed, BulkAssignBox(w, b) PROVE TypeOK'
  <2>1. \A r \in Record : [r EXCEPT !.box = b] \in Record
    BY DEF Record
  <2> QED
    BY <1>10, <2>1, EndType DEF BulkAssignBox, TypeOK, Live
<1>11. ASSUME NEW w \in Worker, NEW d \in Data, EditFolder(w, d) PROVE TypeOK'
  <2>1. req[w].item \in Item
    BY <1>11, RequestFields DEF EditFolder, TypeOK
  <2>2. \A r \in Record : [r EXCEPT !.data = d] \in Record
    BY DEF Record
  <2> QED
    BY <1>11, <2>1, <2>2, EndType DEF EditFolder, TypeOK, Live
<1>12. ASSUME NEW w \in Worker, ChangeStatus(w) PROVE TypeOK'
  <2>1. req[w].list \in List /\ req[w].to \in {"draft", "confirmed", "archived"}
    BY <1>12, RequestFields DEF ChangeStatus, TypeOK
  <2> QED
    BY <1>12, <2>1, EndType DEF ChangeStatus, TypeOK, Live, ListStatus
<1>13. ASSUME NEW w \in Worker, DeleteList(w) PROVE TypeOK'
  <2>1. req[w].list \in List
    BY <1>13, RequestFields DEF DeleteList, TypeOK
  <2> QED
    BY <1>13, <2>1, EndType, RemoveType DEF DeleteList, StillEmpty, ItemsOf, TypeOK, Live, ListStatus
<1>14. ASSUME NEW w \in Worker, DeleteItems(w) PROVE TypeOK'
  BY <1>14, EndType, RemoveType DEF DeleteItems, TypeOK, Live
<1>15. ASSUME NEW w \in Worker, Fail(w) PROVE TypeOK'
  BY <1>15, EndType DEF Fail, TypeOK, Live
<1> QED
  BY <1>1, <1>2, <1>3, <1>4, <1>5, <1>6, <1>7, <1>8, <1>9, <1>10, <1>11, <1>12, <1>13, <1>14, <1>15
     DEF Next

\* Every reachable state is well typed, and every item in a list is in one that exists:
\* no deletion of a list leaves items behind (transfer-list.service.ts, delete).
THEOREM TransfersTypeCorrect == Spec => []TypeOK
  BY InitTypeOK, NextTypeOK, PTL DEF Spec

-------------------------------------------------------------------------------
(* Items and their folders *)

\* A request to assign a box has found the folders of exactly those of its items that were
\* in its list; an item that was ever in a list does not come into another one.
FoldersOfItems ==
  \A w \in Worker : req[w].pc = "assignBox" =>
    /\ req[w].folders \subseteq req[w].rows
    /\ \A i \in req[w].rows :
         /\ listOf[i] # New
         /\ listOf[i] = req[w].list <=> i \in req[w].folders /\ listOf[i] # Gone

\* The inductive invariant behind Mirrored.
MirrorInv == TypeOK /\ Mirrored /\ FoldersOfItems

\* An item that is in no list yet, or no longer, needs no folder.
LEMMA InitMirrorInv == Init => MirrorInv
  BY InitTypeOK DEF MirrorInv, Init, Mirrored, FoldersOfItems, Idle

\* What assignments have found stays true when items only enter lists for the first time,
\* or leave them, and assignments go on or end.
LEMMA FoldersStay ==
  ASSUME MirrorInv,
         \A i \in Item : listOf[i] # New => listOf'[i] \in {listOf[i], Gone},
         \A w \in Worker : req'[w].pc = "assignBox" => req'[w] = req[w]
  PROVE  FoldersOfItems'
<1>1. SUFFICES ASSUME NEW w \in Worker, req'[w].pc = "assignBox"
               PROVE  /\ req[w].folders \subseteq req[w].rows
                      /\ \A i \in req[w].rows :
                           /\ listOf'[i] # New
                           /\ listOf'[i] = req[w].list <=> i \in req[w].folders /\ listOf'[i] # Gone
  BY DEF FoldersOfItems
<1>2. req[w].pc = "assignBox" /\ req[w] \in Request
  BY <1>1 DEF MirrorInv, TypeOK
<1>3. req[w].list \in List /\ req[w].rows \subseteq Item
  BY <1>2, RequestFields
<1> QED
  BY <1>2, <1>3 DEF MirrorInv, FoldersOfItems

\* A request that begins, other than an assignment, and one that ends or fails.
LEMMA QuietStep ==
  ASSUME MirrorInv, TypeOK', NEW w \in Worker, NEW r, r.pc # "assignBox",
         req' = [req EXCEPT ![w] = r], UNCHANGED <<listOf, item, folder>>
  PROVE  MirrorInv'
<1>1. FoldersOfItems'
  BY FoldersStay DEF MirrorInv, TypeOK
<1> QED
  BY <1>1 DEF MirrorInv, Mirrored

\* Removed items are mirrored no more, the others as before.
LEMMA RemoveMirror ==
  ASSUME MirrorInv, TypeOK', NEW w \in Worker, End(w), NEW S, Remove(S)
  PROVE  MirrorInv'
<1>1. FoldersOfItems'
  BY FoldersStay DEF MirrorInv, TypeOK, End, Idle, Remove
<1> QED
  BY <1>1 DEF MirrorInv, Mirrored, Remove, TypeOK

\* A request that goes on importing was importing; the others are as they were.
LEMMA ImportGoesOn ==
  ASSUME req \in [Worker -> Request], NEW w \in Worker, NEW i, req[w].pc = "import", NextRow(w, i)
  PROVE  \A v \in Worker : req'[v].pc = "assignBox" => req'[v] = req[v]
<1> DEFINE r == req[w]
<1>1. r \in [pc : {"import", "deleteItems"}, list : List, rows : SUBSET Item]
  BY DEF Request, Idle
<1>2. [r EXCEPT !.rows = r.rows \ {i}].pc = "import"
  BY <1>1
<1>3. req'[w].pc # "assignBox"
  BY <1>2 DEF NextRow, Idle
<1> QED
  BY <1>3 DEF NextRow

\* Every step keeps items and folders alike.
LEMMA NextMirrorInv == MirrorInv /\ [Next]_vars => MirrorInv'
<1> SUFFICES ASSUME MirrorInv, [Next]_vars PROVE MirrorInv'
    OBVIOUS
<1>0. TypeOK /\ TypeOK'
  BY NextTypeOK DEF MirrorInv
<1>1. CASE UNCHANGED vars
  BY <1>0, <1>1 DEF vars, MirrorInv, Mirrored, FoldersOfItems
<1>2. ASSUME NEW l \in List, create(l) PROVE MirrorInv'
  BY <1>0, <1>2 DEF create, MirrorInv, Mirrored, FoldersOfItems
<1>3. ASSUME NEW x \in List \cup Item, SetHold(x) PROVE MirrorInv'
  BY <1>0, <1>3 DEF SetHold, MirrorInv, Mirrored, FoldersOfItems
<1>4. ASSUME NEW w \in Worker, NEW l \in List, BeginList(w, l) PROVE MirrorInv'
  <2>1. ASSUME NEW rows \in Rows, BeginAssignBox(w, l, rows) PROVE MirrorInv'
    <3>1. FoldersOfItems'
      BY <1>0, <2>1 DEF BeginAssignBox, Begin, MirrorInv, FoldersOfItems, Rows, ItemsOf, TypeOK
    <3> QED
      BY <1>0, <2>1, <3>1 DEF BeginAssignBox, Begin, MirrorInv, Mirrored
  <2>2. ASSUME NEW r, r.pc # "assignBox", Begin(w, r) PROVE MirrorInv'
    BY <1>0, <2>2, QuietStep DEF Begin
  <2> QED
    BY <1>4, <2>1, <2>2
       DEF BeginList, BeginChangeStatus, BeginDeleteList, BeginImport, BeginDeleteItems,
           BeginUpdateItem, BeginEditFolder
<1>5. ASSUME NEW w \in Worker, NEW rows \in Rows, NEW twice \in BOOLEAN, BeginReviewedScan(w, rows, twice)
      PROVE  MirrorInv'
  BY <1>0, <1>5, QuietStep DEF BeginReviewedScan, Begin
<1>6. ASSUME NEW w \in Worker, NEW l \in List, NEW r \in Record, CreateFromReviewedScan(w, l, r)
      PROVE  MirrorInv'
  <2>1. FoldersOfItems'
    BY <1>0, <1>6, FoldersStay DEF CreateFromReviewedScan, End, Idle, TypeOK
  <2> QED
    BY <1>0, <1>6, <2>1 DEF CreateFromReviewedScan, MirrorInv, Mirrored, TypeOK
<1>7. ASSUME NEW w \in Worker, NEW i \in Item, NEW r \in Record, ImportRow(w, i, r) PROVE MirrorInv'
  <2>1. \A v \in Worker : req'[v].pc = "assignBox" => req'[v] = req[v]
    BY <1>0, <1>7, ImportGoesOn DEF ImportRow, TypeOK
  <2>2. FoldersOfItems'
    BY <1>0, <1>7, <2>1, FoldersStay DEF ImportRow, TypeOK
  <2> QED
    BY <1>0, <1>7, <2>2 DEF ImportRow, MirrorInv, Mirrored, TypeOK
<1>8. ASSUME NEW w \in Worker, NEW i \in Item, SkipRow(w, i) PROVE MirrorInv'
  <2>1. \A v \in Worker : req'[v].pc = "assignBox" => req'[v] = req[v]
    BY <1>0, <1>8, ImportGoesOn DEF SkipRow, TypeOK
  <2>2. FoldersOfItems'
    BY <1>0, <1>8, <2>1, FoldersStay DEF SkipRow, TypeOK
  <2> QED
    BY <1>0, <1>8, <2>2 DEF SkipRow, MirrorInv, Mirrored
<1>9. ASSUME NEW w \in Worker, NEW r \in Record, UpdateItem(w, r) PROVE MirrorInv'
  <2>1. FoldersOfItems'
    BY <1>0, <1>9, FoldersStay DEF UpdateItem, End, Idle, TypeOK
  <2> QED
    BY <1>0, <1>9, <2>1 DEF UpdateItem, MirrorInv, Mirrored, TypeOK
<1>10. ASSUME NEW w \in Worker, NEW b \in Boxed, BulkAssignBox(w, b) PROVE MirrorInv'
  <2>1. FoldersOfItems'
    BY <1>0, <1>10, FoldersStay DEF BulkAssignBox, End, Idle, TypeOK
  <2>2. ASSUME NEW i \in Item, listOf'[i] \in List PROVE item'[i] = folder'[i]
    <3>1. listOf[i] \in List /\ item[i] = folder[i] /\ listOf[i] # Gone
      BY <1>10, <2>2 DEF BulkAssignBox, MirrorInv, Mirrored
    <3>2. (i \in req[w].rows /\ listOf[i] = req[w].list) <=> (i \in req[w].folders /\ listOf[i] # Gone)
      BY <1>10, <3>1 DEF BulkAssignBox, MirrorInv, FoldersOfItems
    <3> QED
      BY <1>0, <1>10, <3>1, <3>2 DEF BulkAssignBox, FoldersFound, TypeOK
  <2> QED
    BY <1>0, <2>1, <2>2 DEF MirrorInv, Mirrored
<1>11. ASSUME NEW w \in Worker, NEW d \in Data, EditFolder(w, d) PROVE MirrorInv'
  <2>1. FoldersOfItems'
    BY <1>0, <1>11, FoldersStay DEF EditFolder, End, Idle, TypeOK
  <2>2. ASSUME NEW i \in Item, listOf'[i] \in List PROVE item'[i] = folder'[i]
    BY <1>0, <1>11, <2>2 DEF EditFolder, MirrorInv, Mirrored, TypeOK
  <2> QED
    BY <1>0, <2>1, <2>2 DEF MirrorInv, Mirrored
<1>12. ASSUME NEW w \in Worker, ChangeStatus(w) PROVE MirrorInv'
  BY <1>0, <1>12, QuietStep DEF ChangeStatus, End, Idle
<1>13. ASSUME NEW w \in Worker, DeleteList(w) PROVE MirrorInv'
  BY <1>0, <1>13, RemoveMirror DEF DeleteList
<1>14. ASSUME NEW w \in Worker, DeleteItems(w) PROVE MirrorInv'
  BY <1>0, <1>14, RemoveMirror DEF DeleteItems
<1>15. ASSUME NEW w \in Worker, Fail(w) PROVE MirrorInv'
  BY <1>0, <1>15, QuietStep DEF Fail, End, Idle
<1> QED
  BY <1>1, <1>2, <1>3, <1>4, <1>5, <1>6, <1>7, <1>8, <1>9, <1>10, <1>11, <1>12, <1>13, <1>14, <1>15
     DEF Next

\* An item and its folder say the same, whichever of the two is edited, moved, imported or
\* removed by how many requests at once (transfer-list.service.ts, folder.service.ts).
THEOREM ItemsMirrored == Spec => []Mirrored
<1>1. MirrorInv => Mirrored
  BY DEF MirrorInv
<1> QED
  BY <1>1, InitMirrorInv, NextMirrorInv, PTL DEF Spec

-------------------------------------------------------------------------------
(* Lists *)

\* A scan has been imported into lists that exist or existed.
ImportInv == TypeOK /\ ImportedOnce /\ \A l \in scanned : status[l] # "none"

\* A list that exists already comes from no other place than its creation.
LEMMA NextImportInv == ImportInv /\ [Next]_vars => ImportInv'
<1> SUFFICES ASSUME ImportInv, [Next]_vars PROVE ImportInv'
    OBVIOUS
<1>0. TypeOK /\ TypeOK'
  BY NextTypeOK DEF ImportInv
<1>1. ASSUME UNCHANGED <<status, scanned>> PROVE ImportInv'
  BY <1>0, <1>1 DEF ImportInv, ImportedOnce, Live
<1>2. ASSUME NEW l \in List, create(l) PROVE ImportInv'
  BY <1>0, <1>2 DEF create, ImportInv, ImportedOnce, Live, TypeOK
<1>3. ASSUME NEW w \in Worker, NEW l \in List, NEW r \in Record, CreateFromReviewedScan(w, l, r)
      PROVE  ImportInv'
  BY <1>0, <1>3 DEF CreateFromReviewedScan, UniqueFingerprint, Imported, ImportInv, ImportedOnce, Live, TypeOK
<1>4. ASSUME NEW w \in Worker, ChangeStatus(w) PROVE ImportInv'
  <2>1. req[w].list \in List /\ req[w].to \in {"draft", "confirmed", "archived"}
    BY <1>0, <1>4, RequestFields DEF ChangeStatus, TypeOK
  <2> QED
    BY <1>0, <1>4, <2>1 DEF ChangeStatus, ImportInv, ImportedOnce, Live, TypeOK
<1>5. ASSUME NEW w \in Worker, DeleteList(w) PROVE ImportInv'
  BY <1>0, <1>5 DEF DeleteList, ImportInv, ImportedOnce, Live, TypeOK
<1> QED
  BY <1>1, <1>2, <1>3, <1>4, <1>5
     DEF Next, vars, SetHold, BeginList, Begin, BeginChangeStatus, BeginDeleteList, BeginImport,
         BeginDeleteItems, BeginAssignBox, BeginUpdateItem, BeginEditFolder, BeginReviewedScan,
         ImportRow, SkipRow, UpdateItem, BulkAssignBox, EditFolder, DeleteItems, Fail

\* However often the import of a reviewed scan is repeated, one list comes of it, unless a
\* user wants it twice (transfer-list.service.ts, createFromReviewedScan).
THEOREM ScanImportedOnce == Spec => []ImportedOnce
<1>1. Init => ImportInv
  BY InitTypeOK DEF Init, ImportInv, ImportedOnce
<1>2. ImportInv => ImportedOnce
  BY DEF ImportInv
<1> QED
  BY <1>1, <1>2, NextImportInv, PTL DEF Spec

\* No step deletes a list that has items: what was added after the list was found empty
\* makes the deletion fail (transfer-list.service.ts, delete).
THEOREM EmptyListsDeleted == Spec => DeletedListWasEmpty
<1>1. TypeOK /\ [Next]_vars =>
        [\A l \in List : Live(l) /\ status'[l] = "deleted" => ItemsOf(l) = {}]_vars
  <2> SUFFICES ASSUME TypeOK, Next, NEW l \in List, Live(l), status'[l] = "deleted"
               PROVE  ItemsOf(l) = {}
      OBVIOUS
  <2>1. ASSUME UNCHANGED status PROVE FALSE
    BY <2>1 DEF Live
  <2>2. ASSUME NEW k \in List, create(k) PROVE FALSE
    BY <2>2 DEF create, Live, TypeOK
  <2>3. ASSUME NEW w \in Worker, NEW k \in List, NEW r \in Record, CreateFromReviewedScan(w, k, r)
        PROVE  FALSE
    BY <2>3 DEF CreateFromReviewedScan, Live, TypeOK
  <2>4. ASSUME NEW w \in Worker, ChangeStatus(w) PROVE FALSE
    <3>1. req[w].to # "deleted"
      BY <2>4, RequestFields DEF ChangeStatus, TypeOK
    <3> QED
      BY <2>4, <3>1 DEF ChangeStatus, Live, TypeOK
  <2>5. ASSUME NEW w \in Worker, DeleteList(w) PROVE ItemsOf(l) = {}
    BY <2>5 DEF DeleteList, StillEmpty, Live, TypeOK
  <2> QED
    BY <2>1, <2>2, <2>3, <2>4, <2>5
       DEF Next, SetHold, BeginList, Begin, BeginChangeStatus, BeginDeleteList, BeginImport,
           BeginDeleteItems, BeginAssignBox, BeginUpdateItem, BeginEditFolder, BeginReviewedScan,
           ImportRow, SkipRow, UpdateItem, BulkAssignBox, EditFolder, DeleteItems, Fail
<1> QED
  BY <1>1, TransfersTypeCorrect, PTL DEF Spec, DeletedListWasEmpty

\* No step takes an item under a legal hold, or of a list under one, out of its list, also
\* when the hold was placed after the deletion had looked
\* (documentation-legal-hold.service.ts).
THEOREM HeldItemsStay == Spec => HeldKeepsItems
<1>1. TypeOK /\ [Next]_vars =>
        [\A i \in Item : listOf[i] \in List /\ listOf'[i] = Gone => ~ HeldAmong(listOf[i], {i})]_vars
  <2> SUFFICES ASSUME TypeOK, Next, NEW i \in Item, listOf[i] \in List, listOf'[i] = Gone
               PROVE  ~ HeldAmong(listOf[i], {i})
      OBVIOUS
  <2>1. ASSUME UNCHANGED listOf PROVE FALSE
    BY <2>1
  <2>2. ASSUME NEW w \in Worker, NEW l \in List, NEW r \in Record, CreateFromReviewedScan(w, l, r)
        PROVE  FALSE
    BY <2>2 DEF CreateFromReviewedScan, TypeOK
  <2>3. ASSUME NEW w \in Worker, NEW j \in Item, NEW r \in Record, ImportRow(w, j, r) PROVE FALSE
    <3>1. req[w].list \in List
      BY <2>3, RequestFields DEF ImportRow, TypeOK
    <3> QED
      BY <2>3, <3>1 DEF ImportRow, TypeOK
  <2>4. ASSUME NEW w \in Worker, DeleteList(w) PROVE FALSE
    BY <2>4 DEF DeleteList, StillEmpty, Remove, TypeOK
  <2>5. ASSUME NEW w \in Worker, DeleteItems(w) PROVE ~ HeldAmong(listOf[i], {i})
    <3>1. i \in req[w].rows /\ listOf[i] = req[w].list
      BY <2>5 DEF DeleteItems, Remove, ItemsOf, TypeOK
    <3> QED
      BY <2>5, <3>1 DEF DeleteItems, Serializable, HeldAmong
  <2> QED
    BY <2>1, <2>2, <2>3, <2>4, <2>5
       DEF Next, create, SetHold, BeginList, Begin, BeginChangeStatus, BeginDeleteList, BeginImport,
           BeginDeleteItems, BeginAssignBox, BeginUpdateItem, BeginEditFolder, BeginReviewedScan,
           SkipRow, UpdateItem, BulkAssignBox, EditFolder, ChangeStatus, Fail
<1> QED
  BY <1>1, TransfersTypeCorrect, PTL DEF Spec, HeldKeepsItems
===============================================================================
