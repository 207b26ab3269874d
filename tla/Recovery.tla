----------------------------- MODULE Recovery -----------------------------
(***************************************************************************)
(* The write-ahead log, crashes and RecoveryManager (log_recovery.cpp) over *)
(* the data files of the tables.  Executors write logged changes through   *)
(* RmFileHandle, abort() writes unlogged ones, the buffer pool writes pages *)
(* to disk whenever it likes (log first), and the process may stop between *)
(* any two steps, recovery's own steps included.                           *)
(*                                                                         *)
(* What write() has accepted survives: the failure is that of the process, *)
(* the code never calls fsync().  The lsn of log[i] is i - 1.  A table's   *)
(* record pages are numbered from 1; page 0 is the header.  Locks are those *)
(* of TransactionManager: one writer per table until it has finished.      *)
(* Indexes, which recovery rebuilds from the records, are left out.        *)
(***************************************************************************)
EXTENDS Naturals, Sequences, FiniteSets

CONSTANTS
    Tables,
    MaxPages,     \* bound on the record pages of a table
    PerPage,      \* num_records_per_page
    Values,       \* contents of a record
    None,         \* an empty slot
    MaxTxns,      \* bound on the transactions of one process
    Bounds        \* what one behaviour may contain: a sequence of records of bounds on
                  \* transactions, those open at once, pages, slots of a page, values,
                  \* the length of the log, rollbacks and restarts

ASSUME RecoveryAssumption ==
    /\ {MaxPages, PerPage} \subseteq Nat \ {0}
    /\ MaxTxns \in Nat
    /\ \A k \in DOMAIN Bounds :
          /\ Bounds[k].values \subseteq Values
          /\ Bounds[k].txns <= MaxTxns /\ Bounds[k].pages <= MaxPages /\ Bounds[k].slots <= PerPage
          /\ {Bounds[k].txns, Bounds[k].pages, Bounds[k].slots, Bounds[k].open, Bounds[k].log,
              Bounds[k].aborts, Bounds[k].restarts} \subseteq Nat
    /\ None \notin Values

VARIABLES
    mode,        \* what the process is doing
    pos,         \* the log record that redo() or undo() is at
    log,         \* the log: file, then buffer
    persist,     \* number of records in the file, persist_lsn_ + 1
    mem,         \* pages as fetch_page() shows them
    disk,        \* pages in the files
    filepages,   \* record pages the file is long enough to hold
    num_pages,   \* record pages counted by file_hdr_ in memory
    hdr,         \* record pages counted by the header on disk
    status,      \* the transactions of this process
    write_set,   \* Transaction::write_set_
    restarts, aborts,
    within,      \* which of the Bounds this behaviour has
    committed,   \* ghost: the records as committed transactions left them
    disturbed    \* ghost: records recovery has mixed two transactions on

processVars == <<status, write_set, aborts>>
fileVars == <<mem, disk, filepages, num_pages, hdr>>
ghosts == <<committed, disturbed>>
vars == <<mode, pos, log, persist, fileVars, processVars, restarts, ghosts, within>>

Bound == Bounds[within]

PageNo == 1..MaxPages
Slot == 1..PerPage
TxnId == 0..(MaxTxns - 1)
Content == Values \cup {None}
Page == [row : [Slot -> Content], lsn : Nat]
Rid == [tab : Tables, page : PageNo, slot : Slot]
Mode == {"running", "closing", "redo", "undo", "save", "failed"}
Status == {"none", "active", "aborting", "aborted", "committed"}

DataType == {"INSERT", "DELETE", "UPDATE"}
EndType == {"commit", "ABORT"}
DataRecord == [type : DataType, tid : TxnId, rid : Rid, old : Content, new : Content]
ControlRecord == [type : EndType \cup {"begin"}, tid : TxnId]
LogRecord == DataRecord \cup ControlRecord

\* A page fresh from new_page(), and a page the file only has as a hole.
EmptyPage == [row |-> [s \in Slot |-> None], lsn |-> 0]

MaxOf(a, b) == IF a >= b THEN a ELSE b

At(pages, rid) == pages[rid.tab][rid.page].row[rid.slot]
Put(pages, rid, val) == [pages EXCEPT ![rid.tab][rid.page].row[rid.slot] = val]
Stamp(pages, rid, lsn) == [pages EXCEPT ![rid.tab][rid.page].lsn = lsn]

\* What a scan of the table would find at rid.
Record(rid) == IF rid.page <= num_pages[rid.tab] THEN At(mem, rid) ELSE None

\* fetch_page() throws: the header counts the page, the file ends before it.
Missing(tab, page) ==
    mode \in {"redo", "undo"} /\ page <= hdr[tab] /\ page > filepages[tab]

Wrote(t, rid) == \E i \in DOMAIN write_set[t] : write_set[t][i].rid = rid

-----------------------------------------------------------------------------
(* Transactions *)

AddLog(rec) ==
    /\ Len(log) < Bound.log
    /\ log' = Append(log, rec)

\* TransactionManager::begin: ids are handed out from 0 by every process.
Begin(t) ==
    /\ mode = "running"
    /\ t < Bound.txns /\ status[t] = "none" /\ \A u \in 0..(t - 1) : status[u] # "none"
    /\ Cardinality({u \in TxnId : status[u] \in {"active", "aborting"}}) < Bound.open
    /\ status' = [status EXCEPT ![t] = "active"]
    /\ AddLog([type |-> "begin", tid |-> t])
    /\ UNCHANGED <<mode, pos, persist, fileVars, write_set, aborts, restarts, ghosts>>

\* The X lock on the table.
CanWrite(t, tab) ==
    /\ mode = "running" /\ status[t] = "active"
    /\ \A u \in TxnId \ {t} : \A i \in DOMAIN write_set[u] : write_set[u][i].rid.tab # tab

\* insert_record, delete_record and update_record with a transaction: the
\* change is logged, made, and the page is stamped with its lsn.
Change(t, type, rid, val) ==
    LET rec == [type |-> type, tid |-> t, rid |-> rid, old |-> Record(rid), new |-> val]
    IN  /\ AddLog(rec)
        /\ write_set' = [write_set EXCEPT ![t] = Append(@, rec)]

\* The page is one with room or a new one; the slot is its first free one.
Insert(t, tab, page, val) ==
    LET fresh == page > num_pages[tab]
        pages == IF fresh THEN [mem EXCEPT ![tab][page] = EmptyPage] ELSE mem
        Free(s) == pages[tab][page].row[s] = None
    IN  /\ CanWrite(t, tab)
        /\ page <= num_pages[tab] + 1 /\ page <= Bound.pages
        /\ \E slot \in 1..Bound.slots :
            LET rid == [tab |-> tab, page |-> page, slot |-> slot]
            IN  /\ Free(slot) /\ \A s \in 1..(slot - 1) : ~Free(s)
                /\ Change(t, "INSERT", rid, val)
                /\ mem' = Stamp(Put(pages, rid, val), rid, Len(log))
        /\ num_pages' = [num_pages EXCEPT ![tab] = MaxOf(@, page)]
        /\ UNCHANGED <<mode, pos, persist, disk, filepages, hdr, status, aborts, restarts, ghosts>>

Delete(t, rid) ==
    /\ CanWrite(t, rid.tab) /\ Record(rid) # None
    /\ Change(t, "DELETE", rid, None)
    /\ mem' = Stamp(Put(mem, rid, None), rid, Len(log))
    /\ UNCHANGED <<mode, pos, persist, disk, filepages, num_pages, hdr, status, aborts, restarts, ghosts>>

Update(t, rid, val) ==
    /\ CanWrite(t, rid.tab) /\ Record(rid) # None
    /\ Change(t, "UPDATE", rid, val)
    /\ mem' = Stamp(Put(mem, rid, val), rid, Len(log))
    /\ UNCHANGED <<mode, pos, persist, disk, filepages, num_pages, hdr, status, aborts, restarts, ghosts>>

\* commit(): the COMMIT record is flushed, the write set is dropped.
Commit(t) ==
    /\ mode = "running" /\ status[t] = "active"
    /\ AddLog([type |-> "commit", tid |-> t])
    /\ persist' = Len(log')
    /\ status' = [status EXCEPT ![t] = "committed"]
    /\ write_set' = [write_set EXCEPT ![t] = <<>>]
    /\ committed' = [rid \in Rid |-> IF Wrote(t, rid) THEN Record(rid) ELSE committed[rid]]
    /\ UNCHANGED <<mode, pos, fileVars, aborts, restarts, disturbed>>

\* client_handler commits a single-statement transaction that has just been
\* aborted: the log then holds both ends.
CommitAborted(t) ==
    /\ mode = "running" /\ status[t] = "aborted"
    /\ AddLog([type |-> "commit", tid |-> t])
    /\ persist' = Len(log')
    /\ status' = [status EXCEPT ![t] = "committed"]
    /\ UNCHANGED <<mode, pos, fileVars, write_set, aborts, restarts, ghosts>>

\* abort(): the ABORT record is flushed before anything is undone ...
StartAbort(t) ==
    /\ mode = "running" /\ status[t] = "active" /\ aborts < Bound.aborts
    /\ AddLog([type |-> "ABORT", tid |-> t])
    /\ persist' = Len(log')
    /\ status' = [status EXCEPT ![t] = IF write_set[t] = <<>> THEN "aborted" ELSE "aborting"]
    /\ aborts' = aborts + 1
    /\ UNCHANGED <<mode, pos, fileVars, write_set, restarts, ghosts>>

\* ... then the write set is undone backwards, unlogged: the page keeps its
\* lsn.  The locks are released after the last write.
RollbackOne(t) ==
    LET n == Len(write_set[t])
    IN  /\ mode = "running" /\ status[t] = "aborting"
        /\ mem' = Put(mem, write_set[t][n].rid, write_set[t][n].old)
        /\ write_set' = [write_set EXCEPT ![t] = SubSeq(@, 1, n - 1)]
        /\ status' = [status EXCEPT ![t] = IF n = 1 THEN "aborted" ELSE @]
        /\ UNCHANGED <<mode, pos, log, persist, disk, filepages, num_pages, hdr, aborts,
                       restarts, ghosts>>

-----------------------------------------------------------------------------
(* The log buffer and the buffer pool *)

\* The buffer is full, or another transaction flushes it.
FlushLog ==
    /\ mode = "running" /\ persist < Len(log)
    /\ persist' = Len(log)
    /\ UNCHANGED <<mode, pos, log, fileVars, processVars, restarts, ghosts>>

\* Mutant: the page is written without looking at the log.
WritePageNoLog(tab, page) ==
    /\ page <= num_pages[tab] /\ mode # "failed" /\ ~Missing(tab, page)
    /\ mem[tab][page] # disk[tab][page] \/ page > filepages[tab]
    /\ disk' = [disk EXCEPT ![tab][page] = mem[tab][page]]
    /\ filepages' = [filepages EXCEPT ![tab] = MaxOf(@, page)]
    /\ UNCHANGED <<mode, pos, log, persist, mem, num_pages, hdr, processVars, restarts, ghosts>>

\* update_page() writes a dirty victim back, after the log up to its lsn.
\* During recovery the pool has no log manager: there is nothing to flush.
WritePage(tab, page) ==
    /\ page <= num_pages[tab] /\ mode # "failed" /\ ~Missing(tab, page)
    /\ mem[tab][page] # disk[tab][page] \/ page > filepages[tab]
    /\ disk' = [disk EXCEPT ![tab][page] = mem[tab][page]]
    /\ filepages' = [filepages EXCEPT ![tab] = MaxOf(@, page)]
    /\ persist' = IF mode = "running" /\ mem[tab][page].lsn >= persist THEN Len(log) ELSE persist
    /\ UNCHANGED <<mode, pos, log, mem, num_pages, hdr, processVars, restarts, ghosts>>

\* SIGINT: the log is flushed and close_db() begins.
Close ==
    /\ mode = "running"
    /\ mode' = "closing"
    /\ persist' = Len(log)
    /\ UNCHANGED <<pos, log, fileVars, processVars, restarts, ghosts>>

\* close_file() and the end of undo() write the header, then the pages.
WriteHeader(tab) ==
    /\ mode \in {"closing", "save"} /\ hdr[tab] # num_pages[tab]
    /\ hdr' = [hdr EXCEPT ![tab] = num_pages[tab]]
    /\ UNCHANGED <<mode, pos, log, persist, mem, disk, filepages, num_pages, processVars,
                   restarts, ghosts>>

-----------------------------------------------------------------------------
(* analyze() *)

IsData(i) == log[i].type \in DataType
Ends(i, t) == log[i].type \in EndType /\ log[i].tid = t

\* A transaction id that the log begins, or has a change of, after its last
\* end; a change after an end of the same id does not count as a beginning.
active_txns ==
    {t \in TxnId : \E i \in DOMAIN log :
        /\ log[i].tid = t
        /\ log[i].type = "begin" \/ (IsData(i) /\ ~\E j \in 1..(i - 1) : Ends(j, t))
        /\ ~\E k \in (i + 1)..Len(log) : Ends(k, t)}

aborted_txns == {t \in TxnId : \E i \in DOMAIN log : log[i] = [type |-> "ABORT", tid |-> t]}

\* Mutant: only the unfinished transactions are undone.
ActiveOnly(t) == t \in active_txns

\* The test at the head of undo()'s loop.
ToUndo(t) == t \in active_txns \cup aborted_txns

\* What really happened: the transaction that wrote log[i] committed, or not.
SameTxn(i, j) ==
    /\ log[i].tid = log[j].tid
    /\ \A k \in (i + 1)..j : log[k] # [type |-> "begin", tid |-> log[i].tid]
Winner(i) ==
    \E j \in (i + 1)..Len(log) :
        /\ log[j].type = "commit" /\ SameTxn(i, j)
        /\ \A k \in (i + 1)..j : log[k] # [type |-> "ABORT", tid |-> log[i].tid]

\* Recovery can only be exact on a record when every transaction that bore
\* the id of one of its writers ended alike, and when nobody else wrote it
\* after a transaction that did not commit.
Undisturbed(rid) ==
    \A i \in {k \in DOMAIN log : IsData(k) /\ log[k].rid = rid} :
        /\ \A k \in DOMAIN log : log[k].tid = log[i].tid /\ log[k].type \notin EndType =>
                (Winner(k) <=> Winner(i))
        /\ Winner(i) \/ \A j \in (i + 1)..Len(log) :
                            IsData(j) /\ log[j].rid = rid => SameTxn(i, j)

\* The process stops at any moment and main() starts again: memory and the
\* log buffer are lost, open_db() reads the headers, analyze() the log.
Restart ==
    /\ restarts < Bound.restarts
    /\ restarts' = restarts + 1
    /\ mode' = "redo" /\ pos' = 1
    /\ log' = SubSeq(log, 1, persist)
    /\ mem' = disk
    /\ num_pages' = hdr
    /\ status' = [t \in TxnId |-> "none"]
    /\ write_set' = [t \in TxnId |-> <<>>]
    /\ disturbed' = disturbed \cup {rid \in Rid : ~Undisturbed(rid)'}
    /\ UNCHANGED <<persist, disk, filepages, hdr, aborts, committed>>

-----------------------------------------------------------------------------
(* redo() *)

\* An RMDBError leaves main(): the server does not start.
Abandon == mode' = "failed" /\ UNCHANGED <<pos, mem, num_pages>>

Skip == pos' = pos + 1 /\ UNCHANGED <<mode, mem, num_pages>>

\* An insert first extends a table whose header counts too few pages; the
\* pages it adds are empty, whatever the file holds there.
Extended(rid) ==
    [mem EXCEPT ![rid.tab] = [p \in PageNo |->
        IF p > num_pages[rid.tab] /\ p <= rid.page THEN EmptyPage ELSE @[p]]]

\* Mutant: a record of a page that the header does not count is passed over.
RedoInsertInPlace(rec, lsn) ==
    /\ pos' = pos + 1 /\ UNCHANGED <<mode, num_pages>>
    /\ mem' = IF rec.rid.page > num_pages[rec.rid.tab] \/ mem[rec.rid.tab][rec.rid.page].lsn >= lsn
              THEN mem ELSE Stamp(Put(mem, rec.rid, rec.new), rec.rid, lsn)

\* insert_record(rid) keeps an existing record; the lsn is set all the same.
RedoInsert(rec, lsn) ==
    LET pages == Extended(rec.rid)
        page == pages[rec.rid.tab][rec.rid.page]
    IN  /\ num_pages' = [num_pages EXCEPT ![rec.rid.tab] = MaxOf(@, rec.rid.page)]
        /\ mem' = IF page.lsn >= lsn THEN pages
                  ELSE Stamp(IF At(pages, rec.rid) = None THEN Put(pages, rec.rid, rec.new)
                             ELSE pages, rec.rid, lsn)
        /\ pos' = pos + 1 /\ UNCHANGED mode

\* The exception of delete_record is swallowed.
RedoDelete(rec, lsn) ==
    /\ mem[rec.rid.tab][rec.rid.page].lsn < lsn
    /\ mem' = Stamp(Put(mem, rec.rid, None), rec.rid, lsn)
    /\ pos' = pos + 1 /\ UNCHANGED <<mode, num_pages>>

\* The exception of update_record is not.
RedoUpdate(rec, lsn) ==
    /\ mem[rec.rid.tab][rec.rid.page].lsn < lsn
    /\ IF Record(rec.rid) = None THEN Abandon
       ELSE /\ mem' = Stamp(Put(mem, rec.rid, rec.new), rec.rid, lsn)
            /\ pos' = pos + 1 /\ UNCHANGED <<mode, num_pages>>

RedoOne ==
    /\ mode = "redo" /\ pos <= Len(log)
    /\ LET rec == log[pos]  lsn == pos - 1
       IN  \/ ~IsData(pos) /\ Skip
           \/ IsData(pos) /\ Missing(rec.rid.tab, rec.rid.page) /\ Abandon
           \/ /\ IsData(pos) /\ ~Missing(rec.rid.tab, rec.rid.page)
              /\ \/ rec.type = "INSERT" /\ RedoInsert(rec, lsn)
                 \/ rec.type = "DELETE" /\ RedoDelete(rec, lsn)
                 \/ rec.type = "UPDATE" /\ RedoUpdate(rec, lsn)
                 \/ rec.type # "INSERT" /\ mem[rec.rid.tab][rec.rid.page].lsn >= lsn /\ Skip
    /\ UNCHANGED <<log, persist, disk, filepages, hdr, processVars, restarts, ghosts>>

RedoEnd ==
    /\ mode = "redo" /\ pos > Len(log)
    /\ mode' = "undo" /\ pos' = Len(log)
    /\ UNCHANGED <<log, persist, fileVars, processVars, restarts, ghosts>>

-----------------------------------------------------------------------------
(* undo() *)

\* is_record() decides whether the change is still there to be undone.
Undone(rec) ==
    LET present == Record(rec.rid) # None
    IN  CASE rec.type = "INSERT" /\ present -> Put(mem, rec.rid, None)
          [] rec.type = "DELETE" /\ ~present -> Put(mem, rec.rid, rec.old)
          [] rec.type = "UPDATE" /\ present -> Put(mem, rec.rid, rec.old)
          [] OTHER -> mem

UndoOne ==
    /\ mode = "undo" /\ pos > 0
    /\ mem' = IF IsData(pos) /\ ToUndo(log[pos].tid) THEN Undone(log[pos]) ELSE mem
    /\ pos' = pos - 1
    /\ UNCHANGED <<mode, log, persist, disk, filepages, num_pages, hdr, processVars, restarts, ghosts>>

UndoEnd ==
    /\ mode = "undo" /\ pos = 0
    /\ mode' = "save"
    /\ UNCHANGED <<pos, log, persist, fileVars, processVars, restarts, ghosts>>

\* Headers and pages are all on disk: the server accepts clients.
SaveEnd ==
    /\ mode = "save" /\ hdr = num_pages
    /\ \A tab \in Tables : \A p \in 1..num_pages[tab] :
            mem[tab][p] = disk[tab][p] /\ p <= filepages[tab]
    /\ mode' = "running"
    /\ UNCHANGED <<pos, log, persist, fileVars, processVars, restarts, ghosts>>

-----------------------------------------------------------------------------

Init ==
    /\ mode = "running" /\ pos = 0
    /\ log = <<>> /\ persist = 0
    /\ mem = [tab \in Tables |-> [p \in PageNo |-> EmptyPage]]
    /\ disk = mem
    /\ filepages = [tab \in Tables |-> 0]
    /\ num_pages = [tab \in Tables |-> 0]
    /\ hdr = [tab \in Tables |-> 0]
    /\ status = [t \in TxnId |-> "none"]
    /\ write_set = [t \in TxnId |-> <<>>]
    /\ restarts = 0 /\ aborts = 0
    /\ within \in DOMAIN Bounds
    /\ committed = [rid \in Rid |-> None]
    /\ disturbed = {}

Next ==
    /\ \/ \E t \in TxnId :
            \/ Begin(t) \/ Commit(t) \/ CommitAborted(t) \/ StartAbort(t) \/ RollbackOne(t)
            \/ \E tab \in Tables, page \in PageNo, val \in Bound.values : Insert(t, tab, page, val)
            \/ \E rid \in Rid : Delete(t, rid) \/ \E val \in Bound.values : Update(t, rid, val)
       \/ FlushLog \/ Close
       \/ \E tab \in Tables : WriteHeader(tab) \/ \E page \in PageNo : WritePage(tab, page)
       \/ Restart \/ RedoOne \/ RedoEnd \/ UndoOne \/ UndoEnd \/ SaveEnd
    /\ UNCHANGED within

Spec == Init /\ [][Next]_vars

-----------------------------------------------------------------------------
(* Properties *)

TypeOK ==
    /\ mode \in Mode /\ pos \in 0..(Bound.log + 1)
    /\ log \in Seq(LogRecord) /\ Len(log) <= Bound.log /\ persist \in 0..Len(log)
    /\ {mem, disk} \subseteq [Tables -> [PageNo -> Page]]
    /\ {filepages, num_pages, hdr} \subseteq [Tables -> 0..MaxPages]
    /\ status \in [TxnId -> Status]
    /\ write_set \in [TxnId -> Seq(DataRecord)]
    /\ restarts \in 0..Bound.restarts /\ aborts \in 0..Bound.aborts
    /\ committed \in [Rid -> Content]
    /\ disturbed \subseteq Rid

\* No page on disk is ahead of the log on disk, whatever crashed when: a
\* change that could survive a crash can always be found again to be undone.
WriteAheadLog ==
    /\ TypeOK
    /\ \A tab \in Tables, p \in PageNo :
          disk[tab][p].lsn = 0 \/ disk[tab][p].lsn < persist

\* Recovery is exact: once the server runs again, every record that no two
\* transactions were confused on has its committed value, unless a running
\* transaction has changed it since.  Committed changes that never reached
\* the files are there; rolled back and unfinished ones are not; recovery
\* interrupted anywhere and started again gives the same result.
Recovered ==
    mode = "running" =>
        \A rid \in Rid \ disturbed :
            (\A t \in TxnId : ~Wrote(t, rid)) => Record(rid) = committed[rid]

\* The server fails to start for two reasons only: redo() updates a record
\* that an unlogged rollback had restored, or a crash came between writing a
\* header and the pages it counts.
StartFailsOnly ==
    mode = "failed" =>
        disturbed # {} \/ \E tab \in Tables : hdr[tab] > filepages[tab]

\* The comment on analyze(): recovery works from "the list of unfinished
\* transactions".  A record whose last writer committed keeps its value.
CommittedSurvives ==
    mode = "running" =>
        \A rid \in Rid : (\A t \in TxnId : ~Wrote(t, rid)) => Record(rid) = committed[rid]

=============================================================================
