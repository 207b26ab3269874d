---------------------------- MODULE RecordFile ----------------------------
(***************************************************************************)
(* The record file of one table: RmFileHandle (rm_file_handle.cpp) with its *)
(* page bitmaps, record counts and list of pages with free space, RmScan,  *)
(* and the rebuilding of that list at the end of recovery.                 *)
(*                                                                         *)
(* The table lock lets one transaction write at a time, and no transaction *)
(* write while another scans.  The writer's changes are committed or rolled *)
(* back in reverse order (TransactionManager::abort).  A record's contents *)
(* do not matter here; slots are numbered from 1, page 0 is the header.    *)
(***************************************************************************)
EXTENDS Naturals, Sequences, FiniteSets

CONSTANTS
    MaxPages,   \* bound on the record pages of the file
    PerPage,    \* num_records_per_page
    MaxWrites   \* bound on the changes of one transaction

ASSUME FileAssumption ==
    {MaxPages, PerPage, MaxWrites} \subseteq Nat \ {0}

VARIABLES
    num_pages,           \* record pages allocated
    first_free_page_no,  \* RmFileHdr
    next_free_page_no,   \* RmPageHdr, of every page
    num_records,         \* RmPageHdr, of every page
    bitmap,              \* the set bits of every page
    cursor,              \* rid_ of the running scan
    writes,              \* write set of the running transaction
    aborting,            \* abort() is undoing the write set
    overrun,             \* a record was written outside the slots of its page
    rows,                \* ghost: the records the table should hold
    seen,                \* ghost: the records the scan has returned
    refilled             \* ghost: a rollback filled a page of the free list

fileVars == <<num_pages, first_free_page_no, next_free_page_no, num_records, bitmap>>
vars == <<fileVars, cursor, writes, aborting, overrun, rows, seen, refilled>>

RM_NO_PAGE == 0
PageNo == 1..MaxPages
Slot == 1..PerPage
Rid == [page : PageNo, slot : Slot]
NoScan == [page |-> RM_NO_PAGE, slot |-> 0]
AtPage(page, slot) == [page |-> page, slot |-> slot]

Full(page) == num_records[page] = PerPage

\* Bitmap::next_bit: the first slot after curr whose bit is as asked, or one
\* past the last slot.
next_bit(bit, page, curr) ==
    LET found == {s \in Slot : s > curr /\ (s \in bitmap[page] <=> bit)}
    IN  IF found = {} THEN PerPage + 1
        ELSE CHOOSE s \in found : \A other \in found : s <= other

\* A set of pages that the links of the free list do not lead out of.
ClosedList(S) ==
    /\ first_free_page_no \in S \cup {RM_NO_PAGE}
    /\ \A p \in S : next_free_page_no[p] \in S \cup {RM_NO_PAGE}

\* The pages on the free list: those the links lead to from the header.
FreeList == {p \in PageNo : \A S \in SUBSET PageNo : ClosedList(S) => p \in S}

Idle == cursor = NoScan /\ ~overrun /\ ~aborting

-----------------------------------------------------------------------------
(* Changes *)

\* Bits, counts and list after a record is put into slot of a page.
PutRecord(page, slot) ==
    /\ bitmap' = [bitmap EXCEPT ![page] = @ \cup {slot}]
    /\ num_records' = [num_records EXCEPT ![page] = @ + 1]

\* Mutant: the page stays at the head when it is full.
PopNever(page) == UNCHANGED first_free_page_no

\* The page just filled is the head of the list, or a new page.
PopIfFull(page) ==
    first_free_page_no' = IF num_records[page] + 1 = PerPage THEN next_free_page_no[page]
                          ELSE first_free_page_no

\* insert_record(buf): into the first free slot of the first free page, or of
\* a new page, which is not put on the list.
insert_record ==
    /\ Idle /\ Len(writes) < MaxWrites
    /\ LET new == first_free_page_no = RM_NO_PAGE
           page == IF new THEN num_pages + 1 ELSE first_free_page_no
           slot == next_bit(FALSE, page, 0)
           rid == AtPage(page, slot)
       IN  /\ page \in PageNo
           /\ IF slot \in Slot
              THEN /\ PutRecord(page, slot)
                   /\ PopIfFull(page)
                   /\ num_pages' = IF new THEN page ELSE num_pages
                   /\ rows' = rows \cup {rid}
                   /\ writes' = Append(writes, [type |-> "INSERT", rid |-> rid])
                   /\ UNCHANGED overrun
              ELSE /\ overrun' = TRUE
                   /\ UNCHANGED <<bitmap, num_records, first_free_page_no, num_pages, rows, writes>>
    /\ UNCHANGED <<next_free_page_no, cursor, aborting, seen, refilled>>

\* release_page_handle puts a page that is no longer full at the head.
release_page_handle(page) ==
    /\ next_free_page_no' = [next_free_page_no EXCEPT ![page] = first_free_page_no]
    /\ first_free_page_no' = page

\* Mutant: every page a record is removed from is released.
RemoveAndRelease(rid) ==
    /\ rid.slot \in bitmap[rid.page]
    /\ bitmap' = [bitmap EXCEPT ![rid.page] = @ \ {rid.slot}]
    /\ num_records' = [num_records EXCEPT ![rid.page] = @ - 1]
    /\ release_page_handle(rid.page)
    /\ rows' = rows \ {rid}

\* Bits, counts and list after the record of a page is removed.
RemoveRecord(rid) ==
    /\ rid.slot \in bitmap[rid.page]
    /\ bitmap' = [bitmap EXCEPT ![rid.page] = @ \ {rid.slot}]
    /\ num_records' = [num_records EXCEPT ![rid.page] = @ - 1]
    /\ IF num_records[rid.page] - 1 = PerPage - 1 THEN release_page_handle(rid.page)
       ELSE UNCHANGED <<next_free_page_no, first_free_page_no>>
    /\ rows' = rows \ {rid}

delete_record(rid) ==
    /\ Idle /\ Len(writes) < MaxWrites
    /\ RemoveRecord(rid)
    /\ writes' = Append(writes, [type |-> "DELETE", rid |-> rid])
    /\ UNCHANGED <<num_pages, cursor, aborting, overrun, seen, refilled>>

Commit ==
    /\ Idle /\ writes # <<>>
    /\ writes' = <<>>
    /\ UNCHANGED <<fileVars, cursor, aborting, overrun, rows, seen, refilled>>

-----------------------------------------------------------------------------
(* Rollback *)

StartAbort ==
    /\ Idle /\ writes # <<>>
    /\ aborting' = TRUE
    /\ UNCHANGED <<fileVars, cursor, writes, overrun, rows, seen, refilled>>

LastWrite == writes[Len(writes)]

\* abort() has undone the last write of the write set.
DropLastWrite ==
    /\ writes' = SubSeq(writes, 1, Len(writes) - 1)
    /\ aborting' = (Len(writes) > 1)

\* An insert is undone by delete_record.
RollbackInsert ==
    /\ aborting /\ LastWrite.type = "INSERT"
    /\ RemoveRecord(LastWrite.rid)
    /\ DropLastWrite
    /\ UNCHANGED <<num_pages, cursor, overrun, seen, refilled>>

\* A delete is undone by insert_record(rid, buf), which leaves the list alone
\* and returns when the slot is taken.
RollbackDelete ==
    LET rid == LastWrite.rid
    IN  /\ aborting /\ LastWrite.type = "DELETE"
        /\ IF rid.slot \in bitmap[rid.page] THEN UNCHANGED <<bitmap, num_records>>
           ELSE PutRecord(rid.page, rid.slot)
        /\ refilled' = (refilled \/ (num_records[rid.page] + 1 = PerPage /\ rid.page \in FreeList))
        /\ rows' = rows \cup {rid}
        /\ DropLastWrite
        /\ UNCHANGED <<num_pages, first_free_page_no, next_free_page_no, cursor, overrun, seen>>

-----------------------------------------------------------------------------
(* RmScan *)

\* RmScan::next: the next set bit of the page, or the next page, or the end.
Advance(page, slot) ==
    LET next == next_bit(TRUE, page, slot)
        rid == AtPage(page, next)
    IN  IF next \in Slot THEN cursor' = rid /\ seen' = seen \cup {rid}
        ELSE cursor' = AtPage(page + 1, 0) /\ UNCHANGED seen

\* The constructor starts before the first slot of the first page.
ScanBegin ==
    /\ Idle /\ num_pages > 0
    /\ cursor' = AtPage(1, 0)
    /\ UNCHANGED seen
    /\ UNCHANGED <<fileVars, writes, aborting, overrun, rows, refilled>>

AtEnd == cursor.page > num_pages

\* Mutant: the bit of the current slot is passed over with its neighbour.
ScanStepTwo ==
    /\ cursor # NoScan /\ ~AtEnd
    /\ Advance(cursor.page, cursor.slot + 1)
    /\ UNCHANGED <<fileVars, writes, aborting, overrun, rows, refilled>>

ScanNext ==
    /\ cursor # NoScan /\ ~AtEnd
    /\ Advance(cursor.page, cursor.slot)
    /\ UNCHANGED <<fileVars, writes, aborting, overrun, rows, refilled>>

ScanEnd ==
    /\ cursor # NoScan /\ AtEnd
    /\ cursor' = NoScan
    /\ seen' = {}
    /\ UNCHANGED <<fileVars, writes, aborting, overrun, rows, refilled>>

-----------------------------------------------------------------------------
(* The end of RecoveryManager::undo, at every start of the server *)

HasRoom(page) == page \in 1..num_pages /\ Cardinality(bitmap[page]) < PerPage

\* The last page below p with room, which the loop had put at the head.
Below(p) ==
    LET lower == {q \in 1..(p - 1) : HasRoom(q)}
    IN  IF lower = {} THEN RM_NO_PAGE ELSE CHOOSE q \in lower : \A r \in lower : r <= q

\* Counts are taken from the bitmaps and the list holds every page with room.
Rebuild ==
    /\ Idle /\ writes = <<>>
    /\ num_records' = [p \in PageNo |-> Cardinality(bitmap[p])]
    /\ next_free_page_no' = [p \in PageNo |-> IF HasRoom(p) THEN Below(p) ELSE RM_NO_PAGE]
    /\ first_free_page_no' = Below(num_pages + 1)
    /\ refilled' = FALSE
    /\ UNCHANGED <<num_pages, bitmap, cursor, writes, aborting, overrun, rows, seen>>

-----------------------------------------------------------------------------

Init ==
    /\ num_pages = 0
    /\ first_free_page_no = RM_NO_PAGE
    /\ next_free_page_no = [p \in PageNo |-> RM_NO_PAGE]
    /\ num_records = [p \in PageNo |-> 0]
    /\ bitmap = [p \in PageNo |-> {}]
    /\ cursor = NoScan
    /\ writes = <<>>
    /\ aborting = FALSE /\ overrun = FALSE
    /\ rows = {} /\ seen = {}
    /\ refilled = FALSE

Next ==
    \/ insert_record \/ \E rid \in Rid : delete_record(rid)
    \/ Commit \/ StartAbort \/ RollbackInsert \/ RollbackDelete
    \/ ScanBegin \/ ScanNext \/ ScanEnd
    \/ Rebuild

Spec == Init /\ [][Next]_vars

-----------------------------------------------------------------------------
(* Properties *)

TypeOK ==
    /\ num_pages \in 0..MaxPages
    /\ first_free_page_no \in PageNo \cup {RM_NO_PAGE}
    /\ next_free_page_no \in [PageNo -> PageNo \cup {RM_NO_PAGE}]
    /\ num_records \in [PageNo -> 0..PerPage]
    /\ bitmap \in [PageNo -> SUBSET Slot]
    /\ cursor \in [page : 0..(MaxPages + 1), slot : 0..PerPage]
    /\ writes \in Seq([type : {"INSERT", "DELETE"}, rid : Rid])
    /\ {aborting, overrun, refilled} \subseteq BOOLEAN
    /\ rows \subseteq Rid /\ seen \subseteq Rid

\* Counts, bitmaps and records agree through every rollback, and a scan that
\* has ended has returned each record of the table exactly.
ScanExact ==
    /\ rows = {rid \in Rid : rid.page <= num_pages /\ rid.slot \in bitmap[rid.page]}
    /\ \A p \in PageNo : num_records[p] = Cardinality(bitmap[p])
    /\ (cursor # NoScan /\ AtEnd) => seen = rows

\* As long as no rollback has filled a page that is on it, the free list is
\* sound: its pages have room, each is on it once, and it ends.
FreeListSound ==
    /\ TypeOK
    /\ ~refilled =>
          /\ \A p \in FreeList : p <= num_pages /\ ~Full(p)
          /\ \A p \in FreeList : next_free_page_no[p] # first_free_page_no
          /\ \A p, q \in FreeList : next_free_page_no[p] = next_free_page_no[q] => p = q

\* A record is written outside its page's slots in that case only.
OverrunOnlyRefilled == overrun => refilled

\* "the number of the first page of the file that has free space" (rm_defs.h).
FirstFreeHasRoom ==
    ~aborting /\ first_free_page_no # RM_NO_PAGE => ~Full(first_free_page_no)

=============================================================================
