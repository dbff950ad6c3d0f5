------------------------------- MODULE Transfers -------------------------------
(***************************************************************************)
(* Transfer lists (transfer-list.service.ts), their items and the folders  *)
(* that stand for the items (folder.service.ts), and the legal holds of    *)
(* both (documentation-legal-hold.service.ts).                             *)
(*                                                                         *)
(* An item keeps a copy of what its folder says: box, title, dates, notes. *)
(* Requests that edit either one check first, outside any transaction,     *)
(* that the list is a draft, and then write both in a transaction.  Items  *)
(* and lists are deleted by serializable transactions, as holds are placed *)
(* by them.  A status is changed without a second look.                    *)
(*                                                                         *)
(* A request is its reading and its transaction, of which only the moment  *)
(* of the commit matters; either may not happen.  An identifier of an item *)
(* or a list stands for one record and is used once (bounds Item, List).   *)
(***************************************************************************)
EXTENDS Naturals, FiniteSets

CONSTANTS List, Item, Box, Data, Worker, NoBox, New, Gone

ASSUME TransfersAssumption ==
  /\ NoBox \notin Box /\ New # Gone /\ {New, Gone} \cap List = {}
  /\ Data # {}

VARIABLES
  status,   \* transfer_lists.status, "none" before it is created, "deleted" after
  scanned,  \* lists whose reviewedScanFingerprint is that of the one scan imported
  listOf,   \* the list of an item: New before it is created, Gone after
  item,     \* transfer_list_items: box and data
  folder,   \* folders: box and data, of the items; a folder without an item is left out
  held,     \* lists and folders (named as their items) under a legal hold
  req       \* what each request has read

vars == <<status, scanned, listOf, item, folder, held, req>>

ListStatus == {"none", "draft", "confirmed", "archived", "deleted"}
Boxed == Box \cup {NoBox}
Record == [box : Boxed, data : Data]
Idle == [pc |-> "idle"]
Live(l) == status[l] \notin {"none", "deleted"}
ItemsOf(l) == {i \in Item : listOf[i] = l}

Blank == CHOOSE r \in Record : r.box = NoBox

Init ==
  /\ status = [l \in List |-> "none"]
  /\ scanned = {}
  /\ listOf = [i \in Item |-> New]
  /\ item = [i \in Item |-> Blank] /\ folder = [i \in Item |-> Blank]
  /\ held = {}
  /\ req = [w \in Worker |-> Idle]

Begin(w, r) ==
  /\ req[w] = Idle /\ req' = [req EXCEPT ![w] = r]
  /\ UNCHANGED <<status, scanned, listOf, item, folder, held>>
End(w) == req' = [req EXCEPT ![w] = Idle]

\* Items are removed from a list; their folders stay, but are no longer followed.
Remove(rows) ==
  /\ listOf' = [i \in Item |-> IF i \in rows THEN Gone ELSE listOf[i]]
  /\ item' = [i \in Item |-> IF i \in rows THEN Blank ELSE item[i]]
  /\ folder' = [i \in Item |-> IF i \in rows THEN Blank ELSE folder[i]]
  /\ held' = held \ rows

\* The request is refused, fails, loses a conflict or dies: its transaction changes
\* nothing.
Fail(w) ==
  /\ req[w] # Idle /\ End(w)
  /\ UNCHANGED <<status, scanned, listOf, item, folder, held>>

-------------------------------------------------------------------------------
(* Lists *)

create(l) ==
  /\ status[l] = "none"
  /\ status' = [status EXCEPT ![l] = "draft"]
  /\ UNCHANGED <<scanned, listOf, item, folder, held, req>>

validTransitions == {<<"draft", "confirmed">>, <<"confirmed", "archived">>, <<"confirmed", "draft">>}

BeginChangeStatus(w, l, to) ==
  /\ <<status[l], to>> \in validTransitions
  /\ Begin(w, [pc |-> "changeStatus", list |-> l, to |-> to])

ChangeStatus(w) ==
  LET r == req[w] IN
  /\ r.pc = "changeStatus" /\ Live(r.list)
  /\ status' = [status EXCEPT ![r.list] = r.to]
  /\ End(w) /\ UNCHANGED <<scanned, listOf, item, folder, held>>

\* The transaction reads the list and that it is empty; the cascade to its items fails
\* when it meets an item the transaction has not seen.
CascadesAnyway(l) == TRUE
StillEmpty(l) == ItemsOf(l) = {}

BeginDeleteList(w, l) ==
  /\ status[l] = "draft" /\ l \notin held /\ ItemsOf(l) = {}
  /\ Begin(w, [pc |-> "deleteList", list |-> l])

DeleteList(w) ==
  LET l == req[w].list IN
  /\ req[w].pc = "deleteList" /\ Live(l) /\ StillEmpty(l)
  /\ status' = [status EXCEPT ![l] = "deleted"]
  /\ Remove(ItemsOf(l))
  /\ End(w) /\ UNCHANGED scanned

\* A list is created with all its items, or not at all.  A scan that was imported before
\* is refused, unless the user wants it twice: then the list has no fingerprint.
Imported == \E l \in scanned : Live(l)

BeginReviewedScan(w, rows, allowDuplicate) ==
  /\ allowDuplicate \/ ~ Imported
  /\ Begin(w, [pc |-> "reviewedScan", rows |-> rows, twice |-> allowDuplicate])

NoFingerprint(twice) == TRUE
UniqueFingerprint(twice) == twice \/ ~ Imported

CreateFromReviewedScan(w, l, r) ==
  /\ req[w].pc = "reviewedScan" /\ status[l] = "none"
  /\ UniqueFingerprint(req[w].twice)
  /\ \A i \in req[w].rows : listOf[i] = New
  /\ status' = [status EXCEPT ![l] = "draft"]
  /\ scanned' = IF req[w].twice THEN scanned ELSE scanned \cup {l}
  /\ listOf' = [i \in Item |-> IF i \in req[w].rows THEN l ELSE listOf[i]]
  /\ item' = [i \in Item |-> IF i \in req[w].rows THEN r ELSE item[i]]
  /\ folder' = [i \in Item |-> IF i \in req[w].rows THEN r ELSE folder[i]]
  /\ End(w) /\ UNCHANGED held

-------------------------------------------------------------------------------
(* Items and their folders *)

\* addItem and importItems, which checks once and goes on row by row; a row that fails is
\* reported and skipped.
BeginImport(w, l, rows) ==
  /\ status[l] = "draft"
  /\ Begin(w, [pc |-> "import", list |-> l, rows |-> rows])

NextRow(w, i) ==
  LET rows == req[w].rows \ {i} IN
  req' = [req EXCEPT ![w] = IF rows = {} THEN Idle ELSE [@ EXCEPT !.rows = rows]]

ForeignKey(l) == Live(l)

ImportRow(w, i, r) ==
  /\ req[w].pc = "import" /\ i \in req[w].rows
  /\ ForeignKey(req[w].list) /\ listOf[i] = New
  /\ listOf' = [listOf EXCEPT ![i] = req[w].list]
  /\ item' = [item EXCEPT ![i] = r] /\ folder' = [folder EXCEPT ![i] = r]
  /\ NextRow(w, i) /\ UNCHANGED <<status, scanned, held>>

SkipRow(w, i) ==
  /\ req[w].pc = "import" /\ i \in req[w].rows
  /\ NextRow(w, i) /\ UNCHANGED <<status, scanned, listOf, item, folder, held>>

BeginUpdateItem(w, l, i) ==
  /\ status[l] = "draft" /\ listOf[i] = l
  /\ Begin(w, [pc |-> "updateItem", item |-> i])

\* Writes the folder and then the item, which must still be there.
UpdateItem(w, new) ==
  LET i == req[w].item IN
  /\ req[w].pc = "updateItem" /\ listOf[i] # Gone
  /\ folder' = [folder EXCEPT ![i] = new] /\ item' = [item EXCEPT ![i] = new]
  /\ End(w) /\ UNCHANGED <<status, scanned, listOf, held>>

\* A request names items that somebody has seen.
BeginAssignBox(w, l, rows) ==
  /\ status[l] = "draft" /\ \A i \in rows : listOf[i] # New
  /\ Begin(w, [pc |-> "assignBox", list |-> l, rows |-> rows,
               folders |-> rows \cap ItemsOf(l)])

\* The items are found again by the transaction, their folders are those found before it.
ItemsAlone(r) == {}
FoldersFound(r) == r.folders

BulkAssignBox(w, b) ==
  LET r == req[w] IN
  /\ r.pc = "assignBox"
  /\ item' = [i \in Item |-> IF i \in r.rows /\ listOf[i] = r.list
                               THEN [item[i] EXCEPT !.box = b] ELSE item[i]]
  /\ folder' = [i \in Item |-> IF i \in FoldersFound(r) /\ listOf[i] # Gone
                                 THEN [folder[i] EXCEPT !.box = b] ELSE folder[i]]
  /\ End(w) /\ UNCHANGED <<status, scanned, listOf, held>>

\* folder.service update: writes the folder and then its item, which must still be there.
BeginEditFolder(w, l, i) ==
  /\ status[l] = "draft" /\ listOf[i] = l
  /\ Begin(w, [pc |-> "editFolder", item |-> i])

EditFolder(w, d) ==
  LET i == req[w].item IN
  /\ req[w].pc = "editFolder" /\ listOf[i] # Gone
  /\ folder' = [folder EXCEPT ![i].data = d] /\ item' = [item EXCEPT ![i].data = d]
  /\ End(w) /\ UNCHANGED <<status, scanned, listOf, held>>

-------------------------------------------------------------------------------
(* Deletion of items and legal holds *)

HeldAmong(l, rows) == l \in held \/ rows \cap held # {}

\* deleteItem, bulkDeleteItems: the transaction reads the list and the holds.
BeginDeleteItems(w, l, rows) ==
  /\ status[l] = "draft" /\ rows \subseteq ItemsOf(l) /\ ~ HeldAmong(l, rows)
  /\ Begin(w, [pc |-> "deleteItems", list |-> l, rows |-> rows])

\* A hold that was placed meanwhile read the items this deletes, and this read the hold it
\* writes: one of two such serializable transactions fails.
ReadCommitted(r) == TRUE
Serializable(r) == ~ HeldAmong(r.list, r.rows)

DeleteItems(w) ==
  LET r == req[w] IN
  /\ r.pc = "deleteItems" /\ Serializable(r)
  /\ Remove(r.rows \cap ItemsOf(r.list))
  /\ End(w) /\ UNCHANGED <<status, scanned>>

\* setHold, of a list or of a folder; serializable, so one step.
SetHold(x) ==
  /\ held \subseteq {x}  \* bound: one hold at a time
  /\ x \in List => Live(x)
  /\ x \in Item => listOf[x] \in List
  /\ held' = IF x \in held THEN held \ {x} ELSE held \cup {x}
  /\ UNCHANGED <<status, scanned, listOf, item, folder, req>>

-------------------------------------------------------------------------------

Rows == SUBSET Item \ {{}}

BeginList(w, l) ==
  \/ \E to \in {"draft", "confirmed", "archived"} : BeginChangeStatus(w, l, to)
  \/ BeginDeleteList(w, l)
  \/ \E rows \in Rows : BeginImport(w, l, rows) \/ BeginDeleteItems(w, l, rows)
  \/ \E rows \in Rows : BeginAssignBox(w, l, rows)
  \/ \E i \in Item : BeginUpdateItem(w, l, i) \/ BeginEditFolder(w, l, i)

Next ==
  \/ \E l \in List : create(l)
  \/ \E x \in List \cup Item : SetHold(x)
  \/ \E w \in Worker, l \in List : BeginList(w, l)
  \/ \E w \in Worker, rows \in Rows, twice \in BOOLEAN : BeginReviewedScan(w, rows, twice)
  \/ \E w \in Worker, l \in List, r \in Record : CreateFromReviewedScan(w, l, r)
  \/ \E w \in Worker, i \in Item, r \in Record : ImportRow(w, i, r)
  \/ \E w \in Worker, i \in Item : SkipRow(w, i)
  \/ \E w \in Worker, r \in Record : UpdateItem(w, r)
  \/ \E w \in Worker, b \in Boxed : BulkAssignBox(w, b)
  \/ \E w \in Worker, d \in Data : EditFolder(w, d)
  \/ \E w \in Worker : ChangeStatus(w) \/ DeleteList(w) \/ DeleteItems(w) \/ Fail(w)

Spec == Init /\ [][Next]_vars

-------------------------------------------------------------------------------
(* Properties *)

\* What a request has read.
Request ==
  {Idle}
  \cup [pc : {"changeStatus"}, list : List, to : {"draft", "confirmed", "archived"}]
  \cup [pc : {"deleteList"}, list : List]
  \cup [pc : {"reviewedScan"}, rows : SUBSET Item, twice : BOOLEAN]
  \cup [pc : {"import", "deleteItems"}, list : List, rows : SUBSET Item]
  \cup [pc : {"updateItem", "editFolder"}, item : Item]
  \cup [pc : {"assignBox"}, list : List, rows : SUBSET Item, folders : SUBSET Item]

\* A record that is in a list is in one that exists.
TypeOK ==
  /\ status \in [List -> ListStatus] /\ scanned \subseteq List
  /\ listOf \in [Item -> List \cup {New, Gone}]
  /\ item \in [Item -> Record] /\ folder \in [Item -> Record]
  /\ held \subseteq List \cup Item /\ req \in [Worker -> Request]
  /\ \A i \in Item : listOf[i] \in List => Live(listOf[i])

\* What the integrity script (server/scripts/check-data-integrity.cjs) looks for in the
\* data: an item and its folder name the same box and say the same, whichever of the two
\* was edited, moved or overtaken by another request.
Mirrored == \A i \in Item : listOf[i] \in List => item[i] = folder[i]

\* A reviewed scan whose import is repeated while the first one is still under way, or
\* after its answer was lost, does not become a second list.
ImportedOnce == \A l, m \in scanned : Live(l) /\ Live(m) => l = m

\* Deleting a list never takes items with it, though the table cascades and an item may be
\* added after the list was found empty.
DeletedListWasEmpty ==
  [][\A l \in List : Live(l) /\ status'[l] = "deleted" => ItemsOf(l) = {}]_vars

\* Nothing that is under a legal hold disappears from a list, not even when the hold was
\* placed while the deletion was under way.
HeldKeepsItems ==
  [][\A i \in Item : listOf[i] \in List /\ listOf'[i] = Gone =>
       ~ HeldAmong(listOf[i], {i})]_vars
===============================================================================
