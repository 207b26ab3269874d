--------------------------- MODULE RecoveryProofs ---------------------------
(***************************************************************************)
(* TLAPS proofs about Recovery, for any tables, pages, values and bounds   *)
(* of a behaviour.                                                         *)
(*                                                                         *)
(* First: the model is type correct, and the log is always ahead of the    *)
(* data files, through crashes of the server and of recovery.              *)
(*                                                                         *)
(* Then: recovery is exact (Recovered), and why a start can fail           *)
(* (StartFailsOnly).  The argument follows one record through the log: the *)
(* changes of a record form a chain, every page shows the last change up   *)
(* to its lsn or a state in the middle of a rollback, redo() carries the   *)
(* page to the end of the chain and undo() back to the committed value.    *)
(***************************************************************************)
EXTENDS Recovery, WellFoundedInduction, TLAPS

\* A page in memory is stamped with the lsn of a record of the log.
StampsInLog ==
    \A tab \in Tables, p \in PageNo : mem[tab][p].lsn = 0 \/ mem[tab][p].lsn < Len(log)

\* The log buffer is empty unless the server runs: SIGINT flushes it and
\* recovery has none.
LogFlushed == mode # "running" => persist = Len(log)

\* redo() and undo() stand at records of the log.
PosInLog ==
    /\ mode = "redo" => pos >= 1
    /\ mode = "undo" => pos <= Len(log)

\* The inductive invariant.
LogInv ==
    /\ within \in DOMAIN Bounds
    /\ TypeOK /\ StampsInLog /\ LogFlushed /\ PosInLog
    /\ \A t \in TxnId : status[t] = "aborting" => write_set[t] # <<>>
    /\ \A tab \in Tables, p \in PageNo : disk[tab][p].lsn = 0 \/ disk[tab][p].lsn < persist

-----------------------------------------------------------------------------
(* Bounds, pages and log records *)

LEMMA Numbers ==
    /\ MaxPages \in Nat \ {0} /\ PerPage \in Nat \ {0} /\ MaxTxns \in Nat
    /\ EmptyPage \in Page
  BY RecoveryAssumption DEF EmptyPage, Page, Content

LEMMA BoundFacts ==
    ASSUME within \in DOMAIN Bounds
    PROVE  /\ Bound.values \subseteq Values
           /\ Bound.log \in Nat /\ Bound.aborts \in Nat /\ Bound.restarts \in Nat
           /\ Bound.slots \in Nat /\ Bound.slots <= PerPage
  BY RecoveryAssumption DEF Bound

PagesType == [Tables -> [PageNo -> Page]]

LEMMA RidFields ==
    ASSUME NEW rid \in Rid
    PROVE  rid.tab \in Tables /\ rid.page \in PageNo /\ rid.slot \in Slot
  BY DEF Rid

\* A record written into a page leaves the lsn alone.
LEMMA PutPages ==
    ASSUME NEW pages \in PagesType, NEW rid \in Rid, NEW val \in Content
    PROVE  /\ Put(pages, rid, val) \in PagesType
           /\ \A tab \in Tables, p \in PageNo : Put(pages, rid, val)[tab][p].lsn = pages[tab][p].lsn
  <1>1. PICK tb \in Tables, pg \in PageNo, sl \in Slot :
            tb = rid.tab /\ pg = rid.page /\ sl = rid.slot
    BY RidFields
  <1> DEFINE page == [pages[tb][pg] EXCEPT !.row[sl] = val]
  <1>2. Put(pages, rid, val) = [pages EXCEPT ![tb][pg] = page]
    BY <1>1 DEF Put, PagesType
  <1>3. pages[tb][pg] \in Page
    BY DEF PagesType
  <1>4. page \in Page /\ page.lsn = pages[tb][pg].lsn
    BY <1>3 DEF Page
  <1> HIDE DEF page
  <1>5. QED
    BY <1>2, <1>4 DEF PagesType

LEMMA StampPages ==
    ASSUME NEW pages \in PagesType, NEW rid \in Rid, NEW lsn \in Nat
    PROVE  /\ Stamp(pages, rid, lsn) \in PagesType
           /\ \A tab \in Tables, p \in PageNo :
                 Stamp(pages, rid, lsn)[tab][p].lsn \in {pages[tab][p].lsn, lsn}
  <1>1. PICK tb \in Tables, pg \in PageNo : tb = rid.tab /\ pg = rid.page
    BY RidFields
  <1> DEFINE page == [pages[tb][pg] EXCEPT !.lsn = lsn]
  <1>2. Stamp(pages, rid, lsn) = [pages EXCEPT ![tb][pg] = page]
    BY <1>1 DEF Stamp, PagesType
  <1>3. pages[tb][pg] \in Page
    BY DEF PagesType
  <1>4. page \in Page /\ page.lsn = lsn
    BY <1>3 DEF Page
  <1> HIDE DEF page
  <1>5. QED
    BY <1>2, <1>4 DEF PagesType

\* What is read at a record id is the contents of a record.
LEMMA RecordType ==
    ASSUME NEW rid \in Rid, mem \in PagesType PROVE Record(rid) \in Content
  <1>1. mem[rid.tab][rid.page] \in Page
    BY RidFields DEF PagesType
  <1>2. QED
    BY <1>1, RidFields DEF Record, At, Page, Content

\* A data record of the log has the fields of one.
LEMMA DataFields ==
    ASSUME NEW rec \in LogRecord, rec.type \in DataType
    PROVE  /\ rec \in DataRecord /\ rec.rid \in Rid
           /\ rec.old \in Content /\ rec.new \in Content
  <1>1. rec \in DataRecord
    BY DEF LogRecord, ControlRecord, DataType, EndType
  <1>2. QED
    BY <1>1 DEF DataRecord

\* TypeOK as a conjunction of memberships.
LEMMA Types ==
    TypeOK <=>
        /\ mode \in Mode /\ pos \in 0..(Bound.log + 1)
        /\ log \in Seq(LogRecord) /\ Len(log) <= Bound.log /\ persist \in 0..Len(log)
        /\ mem \in PagesType /\ disk \in PagesType
        /\ filepages \in [Tables -> 0..MaxPages] /\ num_pages \in [Tables -> 0..MaxPages]
        /\ hdr \in [Tables -> 0..MaxPages]
        /\ status \in [TxnId -> Status] /\ write_set \in [TxnId -> Seq(DataRecord)]
        /\ restarts \in 0..Bound.restarts /\ aborts \in 0..Bound.aborts
        /\ committed \in [Rid -> Content] /\ disturbed \subseteq Rid
  BY DEF TypeOK, PagesType

LEMMA AddLogType ==
    ASSUME LogInv, NEW rec \in LogRecord, AddLog(rec), within' = within
    PROVE  /\ log' \in Seq(LogRecord) /\ Len(log) \in Nat /\ Len(log') = Len(log) + 1
           /\ Len(log') <= Bound.log /\ Bound' = Bound
           /\ persist \in 0..Len(log') /\ Len(log') \in 0..Len(log')
  <1>1. /\ log \in Seq(LogRecord) /\ persist \in 0..Len(log) /\ Bound.log \in Nat
    BY BoundFacts DEF LogInv, TypeOK
  <1>2. log' = Append(log, rec) /\ Len(log) < Bound.log
    BY DEF AddLog
  <1>3. QED
    BY <1>1, <1>2 DEF Bound

-----------------------------------------------------------------------------
(* Transactions *)

\* A record is logged, the pages stay as they are.
LEMMA ControlStep ==
    ASSUME LogInv, within' = within, mode = "running",
           NEW rec \in LogRecord, AddLog(rec), persist' = persist \/ persist' = Len(log'),
           status' \in [TxnId -> Status], write_set' \in [TxnId -> Seq(DataRecord)],
           \A t \in TxnId : status'[t] = "aborting" => write_set'[t] # <<>>,
           aborts' \in 0..Bound.aborts, committed' \in [Rid -> Content],
           UNCHANGED <<mode, pos, fileVars, restarts, disturbed>>
    PROVE  LogInv'
  <1>1. /\ log' \in Seq(LogRecord) /\ Len(log) \in Nat /\ Len(log') = Len(log) + 1
        /\ Len(log') <= Bound.log /\ Bound' = Bound
        /\ persist \in 0..Len(log') /\ Len(log') \in 0..Len(log')
    BY AddLogType
  <1>2. UNCHANGED <<mem, disk, filepages, num_pages, hdr>>
    BY DEF fileVars
  <1>3. TypeOK'
    BY <1>1, <1>2 DEF LogInv, TypeOK
  <1>4. /\ mem \in PagesType /\ disk \in PagesType
        /\ persist \in Nat /\ persist <= Len(log) /\ persist' \in Nat /\ persist <= persist'
    BY <1>1 DEF LogInv, TypeOK, PagesType
  <1>5. \A tab \in Tables, p \in PageNo : mem[tab][p].lsn \in Nat /\ disk[tab][p].lsn \in Nat
    BY <1>4 DEF PagesType, Page
  <1>6. StampsInLog'
    BY <1>1, <1>2, <1>5 DEF LogInv, StampsInLog
  <1>7. \A tab \in Tables, p \in PageNo : disk'[tab][p].lsn = 0 \/ disk'[tab][p].lsn < persist'
    BY <1>2, <1>4, <1>5 DEF LogInv
  <1>8. LogFlushed' /\ PosInLog'
    BY DEF LogFlushed, PosInLog
  <1>9. QED
    BY <1>3, <1>6, <1>7, <1>8 DEF LogInv

LEMMA TxnStep ==
    ASSUME LogInv, within' = within, NEW t \in TxnId,
           Begin(t) \/ Commit(t) \/ CommitAborted(t) \/ StartAbort(t)
    PROVE  LogInv'
  <1>1. /\ status \in [TxnId -> Status] /\ write_set \in [TxnId -> Seq(DataRecord)]
        /\ aborts \in 0..Bound.aborts /\ committed \in [Rid -> Content] /\ mem \in PagesType
        /\ \A u \in TxnId : status[u] = "aborting" => write_set[u] # <<>>
        /\ Bound.aborts \in Nat
    BY BoundFacts DEF LogInv, TypeOK, PagesType
  <1>2. \A ty \in {"begin", "commit", "ABORT"} : [type |-> ty, tid |-> t] \in LogRecord
    BY DEF LogRecord, ControlRecord, EndType
  <1>3. CASE Begin(t) \/ CommitAborted(t)
    <2>1. PICK rec \in LogRecord : AddLog(rec)
      BY <1>2, <1>3 DEF Begin, CommitAborted
    <2>2. /\ mode = "running"
          /\ persist' = persist \/ persist' = Len(log')
          /\ UNCHANGED <<mode, pos, fileVars, write_set, aborts, restarts, committed, disturbed>>
          /\ write_set' \in [TxnId -> Seq(DataRecord)] /\ aborts' \in 0..Bound.aborts
          /\ committed' \in [Rid -> Content]
          /\ \E st \in {"active", "committed"} : status' = [status EXCEPT ![t] = st]
      BY <1>1, <1>3 DEF Begin, CommitAborted, ghosts
    <2>3. /\ status' \in [TxnId -> Status]
          /\ \A u \in TxnId : status'[u] = "aborting" => write_set'[u] # <<>>
      BY <1>1, <2>2 DEF Status
    <2>4. QED
      BY <1>1, <2>1, <2>2, <2>3, ControlStep
  <1>4. CASE Commit(t)
    <2>1. PICK rec \in LogRecord : AddLog(rec)
      BY <1>2, <1>4 DEF Commit
    <2>2. /\ mode = "running" /\ persist' = Len(log')
          /\ UNCHANGED <<mode, pos, fileVars, aborts, restarts, disturbed>>
          /\ status' = [status EXCEPT ![t] = "committed"]
          /\ write_set' = [write_set EXCEPT ![t] = <<>>]
          /\ committed' = [rid \in Rid |-> IF Wrote(t, rid) THEN Record(rid) ELSE committed[rid]]
      BY <1>4 DEF Commit
    <2>3. status' \in [TxnId -> Status] /\ write_set' \in [TxnId -> Seq(DataRecord)]
      BY <1>1, <2>2 DEF Status
    <2>4. \A u \in TxnId : status'[u] = "aborting" => write_set'[u] # <<>>
      BY <1>1, <2>2
    <2>5. committed' \in [Rid -> Content]
      BY <1>1, <2>2, RecordType
    <2>6. QED
      BY <1>1, <2>1, <2>2, <2>3, <2>4, <2>5, ControlStep
  <1>5. CASE StartAbort(t)
    <2>1. PICK rec \in LogRecord : AddLog(rec)
      BY <1>2, <1>5 DEF StartAbort
    <2>2. /\ mode = "running" /\ persist' = Len(log') /\ aborts < Bound.aborts
          /\ UNCHANGED <<mode, pos, fileVars, write_set, restarts, committed, disturbed>>
          /\ status' = [status EXCEPT ![t] =
                            IF write_set[t] = <<>> THEN "aborted" ELSE "aborting"]
          /\ aborts' = aborts + 1
      BY <1>5 DEF StartAbort, ghosts
    <2>3. /\ status' \in [TxnId -> Status] /\ aborts' \in 0..Bound.aborts
          /\ \A u \in TxnId : status'[u] = "aborting" => write_set[u] # <<>>
      BY <1>1, <2>2 DEF Status
    <2>4. QED
      BY <1>1, <2>1, <2>2, <2>3, ControlStep
  <1>6. QED
    BY <1>3, <1>4, <1>5

\* A logged change: the page is stamped with the lsn of its record.
LEMMA ChangeStep ==
    ASSUME LogInv, within' = within, mode = "running", NEW t \in TxnId,
           NEW type \in DataType, NEW rid \in Rid, NEW val \in Content,
           Change(t, type, rid, val), NEW pages \in PagesType,
           \A tab \in Tables, p \in PageNo : pages[tab][p].lsn = 0 \/ pages[tab][p].lsn < Len(log),
           mem' = Stamp(Put(pages, rid, val), rid, Len(log)),
           num_pages' \in [Tables -> 0..MaxPages],
           UNCHANGED <<mode, pos, persist, disk, filepages, hdr, status, aborts, restarts, ghosts>>
    PROVE  LogInv'
  <1> DEFINE rec == [type |-> type, tid |-> t, rid |-> rid, old |-> Record(rid), new |-> val]
  <1>1. AddLog(rec) /\ write_set' = [write_set EXCEPT ![t] = Append(@, rec)]
    BY DEF Change
  <1>2. rec \in DataRecord /\ rec \in LogRecord
    <2>1. Record(rid) \in Content
      BY RecordType DEF LogInv, TypeOK, PagesType
    <2>2. QED
      BY <2>1 DEF DataRecord, LogRecord
  <1> HIDE DEF rec
  <1>3. /\ log' \in Seq(LogRecord) /\ Len(log) \in Nat /\ Len(log') = Len(log) + 1
        /\ Len(log') <= Bound.log /\ Bound' = Bound /\ persist \in 0..Len(log')
    BY <1>1, <1>2, AddLogType
  <1>4. PICK mid \in PagesType :
            /\ mid = Put(pages, rid, val)
            /\ \A tab \in Tables, p \in PageNo : mid[tab][p].lsn = pages[tab][p].lsn
    BY PutPages
  <1>5. /\ mem' \in PagesType
        /\ \A tab \in Tables, p \in PageNo : mem'[tab][p].lsn \in {pages[tab][p].lsn, Len(log)}
    BY <1>3, <1>4, StampPages
  <1>6. \A tab \in Tables, p \in PageNo : pages[tab][p].lsn \in Nat
    BY DEF PagesType, Page
  <1>7. StampsInLog'
    BY <1>3, <1>5, <1>6 DEF StampsInLog
  <1>8. write_set' \in [TxnId -> Seq(DataRecord)]
    <2>1. write_set \in [TxnId -> Seq(DataRecord)] /\ Append(write_set[t], rec) \in Seq(DataRecord)
      BY <1>2 DEF LogInv, TypeOK
    <2>2. QED
      BY <1>1, <2>1
  <1>9. TypeOK'
    BY <1>3, <1>5, <1>8 DEF LogInv, TypeOK, PagesType, ghosts
  <1>10. \A u \in TxnId : status'[u] = "aborting" => write_set'[u] # <<>>
    <2>1. write_set \in [TxnId -> Seq(DataRecord)]
      BY DEF LogInv, TypeOK
    <2>2. Append(write_set[t], rec) # <<>>
      <3>1. write_set[t] \in Seq(DataRecord)
        BY <2>1
      <3>2. QED
        BY <1>2, <3>1
    <2>3. QED
      BY <1>1, <2>1, <2>2 DEF LogInv
  <1>11. LogFlushed' /\ PosInLog'
    BY DEF LogFlushed, PosInLog
  <1>12. QED
    BY <1>7, <1>9, <1>10, <1>11 DEF LogInv

LEMMA WriteSteps ==
    ASSUME LogInv, within' = within, NEW t \in TxnId,
           \/ \E tab \in Tables, page \in PageNo, val \in Bound.values : Insert(t, tab, page, val)
           \/ \E rid \in Rid : Delete(t, rid) \/ \E val \in Bound.values : Update(t, rid, val)
    PROVE  LogInv'
  <1>1. /\ mem \in PagesType /\ num_pages \in [Tables -> 0..MaxPages]
        /\ \A tab \in Tables, p \in PageNo : mem[tab][p].lsn = 0 \/ mem[tab][p].lsn < Len(log)
        /\ \A val \in Bound.values : val \in Content
    BY BoundFacts DEF LogInv, TypeOK, PagesType, StampsInLog, Content
  <1>2. ASSUME NEW tab \in Tables, NEW page \in PageNo, NEW val \in Bound.values,
               Insert(t, tab, page, val)
        PROVE  LogInv'
    <2>1. PICK pages : pages = IF page > num_pages[tab] THEN [mem EXCEPT ![tab][page] = EmptyPage]
                               ELSE mem
      OBVIOUS
    <2>2. PICK slot \in 1..Bound.slots :
            LET rid == [tab |-> tab, page |-> page, slot |-> slot]
            IN  /\ Change(t, "INSERT", rid, val)
                /\ mem' = Stamp(Put(pages, rid, val), rid, Len(log))
      BY <1>2, <2>1 DEF Insert
    <2>3. /\ mode = "running"
          /\ num_pages' = [num_pages EXCEPT ![tab] = MaxOf(@, page)]
          /\ UNCHANGED <<mode, pos, persist, disk, filepages, hdr, status, aborts, restarts, ghosts>>
      BY <1>2 DEF Insert, CanWrite
    <2>4. PICK rid \in Rid : rid = [tab |-> tab, page |-> page, slot |-> slot]
      <3>1. Bound.slots \in Nat /\ Bound.slots <= PerPage
        BY BoundFacts DEF LogInv
      <3>2. slot \in Slot
        BY <3>1, Numbers DEF Slot
      <3>3. QED
        BY <3>2 DEF Rid
    <2>5. Change(t, "INSERT", rid, val) /\ mem' = Stamp(Put(pages, rid, val), rid, Len(log))
      BY <2>2, <2>4
    <2>6. /\ pages \in PagesType
          /\ \A tb \in Tables, p \in PageNo : pages[tb][p].lsn = 0 \/ pages[tb][p].lsn < Len(log)
      <3>1. EmptyPage \in Page /\ EmptyPage.lsn = 0
        BY Numbers DEF EmptyPage
      <3> HIDE DEF EmptyPage
      <3>2. QED
        BY <1>1, <2>1, <3>1 DEF PagesType
    <2>7. num_pages' \in [Tables -> 0..MaxPages]
      BY <1>1, <2>3, Numbers DEF MaxOf, PageNo
    <2>8. QED
      BY <1>1, <2>3, <2>5, <2>6, <2>7, ChangeStep DEF DataType
  <1>3. ASSUME NEW rid \in Rid, Delete(t, rid) PROVE LogInv'
    <2>1. /\ mode = "running" /\ Change(t, "DELETE", rid, None)
          /\ mem' = Stamp(Put(mem, rid, None), rid, Len(log)) /\ num_pages' = num_pages
          /\ UNCHANGED <<mode, pos, persist, disk, filepages, hdr, status, aborts, restarts, ghosts>>
      BY <1>3 DEF Delete, CanWrite
    <2>2. None \in Content /\ "DELETE" \in DataType
      BY DEF Content, DataType
    <2>3. QED
      BY <1>1, <2>1, <2>2, ChangeStep
  <1>4. ASSUME NEW rid \in Rid, NEW val \in Bound.values, Update(t, rid, val) PROVE LogInv'
    <2>1. /\ mode = "running" /\ Change(t, "UPDATE", rid, val)
          /\ mem' = Stamp(Put(mem, rid, val), rid, Len(log)) /\ num_pages' = num_pages
          /\ UNCHANGED <<mode, pos, persist, disk, filepages, hdr, status, aborts, restarts, ghosts>>
      BY <1>4 DEF Update, CanWrite
    <2>2. val \in Content /\ "UPDATE" \in DataType
      BY <1>1 DEF DataType
    <2>3. QED
      BY <1>1, <2>1, <2>2, ChangeStep
  <1>5. QED
    BY <1>2, <1>3, <1>4

\* A step that changes pages in memory but not the log, and stamps none of
\* them with an lsn beyond the log.
LEMMA MemStep ==
    ASSUME LogInv, within' = within, mem' \in PagesType,
           \A tab \in Tables, p \in PageNo : mem'[tab][p].lsn = 0 \/ mem'[tab][p].lsn < Len(log),
           num_pages' \in [Tables -> 0..MaxPages],
           mode' \in Mode, mode = mode' \/ (mode # "running" /\ persist = Len(log)),
           pos' \in 0..(Bound.log + 1), PosInLog',
           status' \in [TxnId -> Status], write_set' \in [TxnId -> Seq(DataRecord)],
           \A t \in TxnId : status'[t] = "aborting" => write_set'[t] # <<>>,
           UNCHANGED <<log, persist, disk, filepages, hdr, aborts, restarts, ghosts>>
    PROVE  LogInv'
  <1>1. Bound' = Bound
    BY DEF Bound
  <1>2. TypeOK'
    BY <1>1 DEF LogInv, TypeOK, PagesType, ghosts
  <1>3. StampsInLog' /\ LogFlushed'
    BY DEF LogInv, StampsInLog, LogFlushed
  <1>4. QED
    BY <1>2, <1>3 DEF LogInv

LEMMA ButLast ==
    ASSUME NEW S, NEW ws \in Seq(S), ws # <<>>
    PROVE  /\ SubSeq(ws, 1, Len(ws) - 1) \in Seq(S)
           /\ Len(ws) # 1 => SubSeq(ws, 1, Len(ws) - 1) # <<>>
  <1>1. Len(ws) \in Nat \ {0} /\ Len(ws) - 1 \in 0..Len(ws)
    OBVIOUS
  <1>2. Len(SubSeq(ws, 1, Len(ws) - 1)) = Len(ws) - 1
    BY <1>1
  <1>3. SubSeq(ws, 1, Len(ws) - 1) \in Seq(S)
    BY <1>1
  <1>4. Len(<<>>) = 0
    OBVIOUS
  <1>5. ASSUME Len(ws) # 1, SubSeq(ws, 1, Len(ws) - 1) = <<>> PROVE FALSE
    <2>1. Len(ws) - 1 = 0
      BY <1>2, <1>4, <1>5
    <2>2. QED
      BY <2>1, <1>1, <1>5
  <1>6. QED
    BY <1>3, <1>5

LEMMA RollbackStep ==
    ASSUME LogInv, within' = within, NEW t \in TxnId, RollbackOne(t) PROVE LogInv'
  <1>1. /\ mem \in PagesType /\ write_set \in [TxnId -> Seq(DataRecord)]
        /\ status \in [TxnId -> Status] /\ write_set[t] \in Seq(DataRecord)
        /\ \A u \in TxnId : status[u] = "aborting" => write_set[u] # <<>>
    BY DEF LogInv, TypeOK, PagesType
  <1> DEFINE n == Len(write_set[t])
  <1>2. /\ status[t] = "aborting"
        /\ mem' = Put(mem, write_set[t][n].rid, write_set[t][n].old)
        /\ write_set' = [write_set EXCEPT ![t] = SubSeq(@, 1, n - 1)]
        /\ status' = [status EXCEPT ![t] = IF n = 1 THEN "aborted" ELSE @]
        /\ UNCHANGED <<mode, pos, log, persist, disk, filepages, num_pages, hdr, aborts,
                       restarts, ghosts>>
    BY DEF RollbackOne
  <1>3. n \in Nat \ {0} /\ write_set[t][n] \in DataRecord
    BY <1>1, <1>2
  <1>4. write_set[t][n].rid \in Rid /\ write_set[t][n].old \in Content
    BY <1>3 DEF DataRecord
  <1>5. /\ mem' \in PagesType
        /\ \A tab \in Tables, p \in PageNo : mem'[tab][p].lsn = mem[tab][p].lsn
    BY <1>1, <1>2, <1>4, PutPages
  <1>6. SubSeq(write_set[t], 1, n - 1) \in Seq(DataRecord)
        /\ (n # 1 => SubSeq(write_set[t], 1, n - 1) # <<>>)
    BY <1>1, <1>2, ButLast
  <1>7. write_set' \in [TxnId -> Seq(DataRecord)] /\ status' \in [TxnId -> Status]
    BY <1>1, <1>2, <1>6 DEF Status
  <1>8. \A u \in TxnId : status'[u] = "aborting" => write_set'[u] # <<>>
    BY <1>1, <1>2, <1>6
  <1>9. \A tab \in Tables, p \in PageNo : mem'[tab][p].lsn = 0 \/ mem'[tab][p].lsn < Len(log)
    BY <1>5 DEF LogInv, StampsInLog
  <1>10. /\ mode' \in Mode /\ pos' \in 0..(Bound.log + 1) /\ num_pages' \in [Tables -> 0..MaxPages]
         /\ PosInLog'
    BY <1>2 DEF LogInv, TypeOK, PosInLog
  <1>11. QED
    BY <1>2, <1>5, <1>7, <1>8, <1>9, <1>10, MemStep

-----------------------------------------------------------------------------
(* The log buffer and the buffer pool *)

\* A step that writes to the files.
LEMMA DiskStep ==
    ASSUME LogInv, within' = within, disk' \in PagesType,
           persist' \in {persist, Len(log)},
           \A tab \in Tables, p \in PageNo : disk'[tab][p].lsn = 0 \/ disk'[tab][p].lsn < persist',
           filepages' \in [Tables -> 0..MaxPages], hdr' \in [Tables -> 0..MaxPages],
           mode' = mode \/ (mode' = "closing" /\ persist' = Len(log)),
           UNCHANGED <<pos, log, mem, num_pages, processVars, restarts, ghosts>>
    PROVE  LogInv'
  <1>1. Bound' = Bound /\ log \in Seq(LogRecord) /\ persist \in 0..Len(log) /\ mode \in Mode
    BY DEF Bound, LogInv, TypeOK
  <1>2. persist' \in 0..Len(log) /\ mode' \in Mode
    BY <1>1 DEF Mode
  <1>3. UNCHANGED <<status, write_set, aborts, committed, disturbed>>
    BY DEF processVars, ghosts
  <1>4. TypeOK'
    BY <1>1, <1>2, <1>3 DEF LogInv, TypeOK, PagesType
  <1>5. StampsInLog' /\ PosInLog'
    BY DEF LogInv, StampsInLog, PosInLog
  <1>6. LogFlushed'
    BY <1>1 DEF LogInv, LogFlushed
  <1>7. QED
    BY <1>3, <1>4, <1>5, <1>6 DEF LogInv

\* What is on disk stays behind the log when more of the log is written.
LEMMA MoreLog ==
    ASSUME LogInv
    PROVE  /\ persist \in Nat /\ Len(log) \in Nat /\ persist <= Len(log)
           /\ mem \in PagesType /\ disk \in PagesType
           /\ \A tab \in Tables, p \in PageNo :
                 /\ mem[tab][p].lsn \in Nat /\ disk[tab][p].lsn \in Nat
                 /\ disk[tab][p].lsn = 0 \/ disk[tab][p].lsn < Len(log)
  <1>1. log \in Seq(LogRecord) /\ persist \in 0..Len(log)
    BY DEF LogInv, TypeOK
  <1>2. persist \in Nat /\ Len(log) \in Nat /\ persist <= Len(log)
    BY <1>1
  <1>3. mem \in PagesType /\ disk \in PagesType
    BY DEF LogInv, TypeOK, PagesType
  <1>4. \A tab \in Tables, p \in PageNo : mem[tab][p].lsn \in Nat /\ disk[tab][p].lsn \in Nat
    BY <1>3 DEF PagesType, Page
  <1>5. \A tab \in Tables, p \in PageNo : disk[tab][p].lsn = 0 \/ disk[tab][p].lsn < Len(log)
    BY <1>2, <1>4 DEF LogInv
  <1>6. QED
    BY <1>2, <1>3, <1>4, <1>5

LEMMA FlushStep ==
    ASSUME LogInv, within' = within,
           FlushLog \/ Close \/ \E tab \in Tables : WriteHeader(tab)
    PROVE  LogInv'
  <1>1. /\ persist' \in {persist, Len(log)}
        /\ mode' = mode \/ (mode' = "closing" /\ persist' = Len(log))
        /\ UNCHANGED <<pos, log, mem, num_pages, processVars, restarts, ghosts, disk, filepages>>
    BY DEF FlushLog, Close, WriteHeader, fileVars
  <1>2. /\ num_pages \in [Tables -> 0..MaxPages] /\ hdr \in [Tables -> 0..MaxPages]
        /\ filepages \in [Tables -> 0..MaxPages]
    BY DEF LogInv, TypeOK
  <1>3. hdr' \in [Tables -> 0..MaxPages]
    BY <1>2 DEF FlushLog, Close, WriteHeader, fileVars
  <1>4. \A tab \in Tables, p \in PageNo : disk'[tab][p].lsn = 0 \/ disk'[tab][p].lsn < persist'
    BY <1>1, MoreLog DEF LogInv
  <1>5. QED
    BY <1>1, <1>2, <1>3, <1>4, MoreLog, DiskStep

LEMMA WritePageStep ==
    ASSUME LogInv, within' = within, NEW tab \in Tables, NEW page \in PageNo, WritePage(tab, page)
    PROVE  LogInv'
  <1>1. /\ disk' = [disk EXCEPT ![tab][page] = mem[tab][page]]
        /\ filepages' = [filepages EXCEPT ![tab] = MaxOf(@, page)]
        /\ persist' = IF mode = "running" /\ mem[tab][page].lsn >= persist THEN Len(log) ELSE persist
        /\ UNCHANGED <<mode, pos, log, mem, num_pages, hdr, processVars, restarts, ghosts>>
    BY DEF WritePage
  <1>2. filepages' \in [Tables -> 0..MaxPages] /\ hdr' \in [Tables -> 0..MaxPages]
    BY <1>1, Numbers DEF LogInv, TypeOK, MaxOf, PageNo
  <1>3. /\ disk' \in PagesType /\ disk'[tab][page] = mem[tab][page]
        /\ \A tb \in Tables, p \in PageNo : tb # tab \/ p # page => disk'[tb][p] = disk[tb][p]
    BY <1>1, MoreLog DEF PagesType
  <1>4. mem[tab][page].lsn = 0 \/ mem[tab][page].lsn < persist'
    <2>1. mem[tab][page].lsn = 0 \/ mem[tab][page].lsn < Len(log)
      BY DEF LogInv, StampsInLog
    <2>2. mode # "running" => persist = Len(log)
      BY DEF LogInv, LogFlushed
    <2>3. QED
      BY <1>1, <2>1, <2>2, MoreLog
  <1>5. \A tb \in Tables, p \in PageNo : disk'[tb][p].lsn = 0 \/ disk'[tb][p].lsn < persist'
    <2>1. \A tb \in Tables, p \in PageNo : disk[tb][p].lsn = 0 \/ disk[tb][p].lsn < persist'
      BY <1>1, MoreLog DEF LogInv
    <2>2. QED
      BY <1>3, <1>4, <2>1
  <1>6. QED
    BY <1>1, <1>2, <1>3, <1>5, DiskStep

-----------------------------------------------------------------------------
(* Recovery *)

LEMMA RestartStep == ASSUME LogInv, within' = within, Restart PROVE LogInv'
  <1>1. /\ restarts < Bound.restarts /\ restarts' = restarts + 1
        /\ mode' = "redo" /\ pos' = 1 /\ log' = SubSeq(log, 1, persist)
        /\ mem' = disk /\ num_pages' = hdr
        /\ status' = [t \in TxnId |-> "none"] /\ write_set' = [t \in TxnId |-> <<>>]
        /\ disturbed' \subseteq disturbed \cup Rid
        /\ UNCHANGED <<persist, disk, filepages, hdr, aborts, committed>>
    BY DEF Restart
  <1>2. /\ log \in Seq(LogRecord) /\ persist \in 0..Len(log) /\ Len(log) <= Bound.log
        /\ Bound' = Bound /\ Bound.log \in Nat /\ Bound.restarts \in Nat
        /\ restarts \in 0..Bound.restarts
    BY BoundFacts DEF LogInv, TypeOK, Bound
  <1>3. log' \in Seq(LogRecord) /\ Len(log') = persist
    BY <1>1, <1>2
  <1>4. /\ Len(log') <= Bound.log /\ persist \in 0..Len(log') /\ pos' \in 0..(Bound.log + 1)
        /\ restarts' \in 0..Bound.restarts
    BY <1>1, <1>2, <1>3
  <1>5. status' \in [TxnId -> Status] /\ write_set' \in [TxnId -> Seq(DataRecord)]
    BY <1>1 DEF Status
  <1>6. TypeOK'
    <2>1. disturbed' \subseteq Rid /\ mode' \in Mode
      BY <1>1 DEF LogInv, TypeOK, Mode
    <2>2. QED
      BY <1>1, <1>2, <1>3, <1>4, <1>5, <2>1 DEF LogInv, TypeOK
  <1>7. StampsInLog' /\ LogFlushed' /\ PosInLog'
    BY <1>1, <1>3 DEF LogInv, StampsInLog, LogFlushed, PosInLog
  <1>8. QED
    BY <1>1, <1>6, <1>7 DEF LogInv

\* A step of redo() or undo(): what it leaves alone.
LEMMA RecoveryStep ==
    ASSUME LogInv, within' = within, mode \in {"redo", "undo", "save"},
           mem' \in PagesType,
           \A tab \in Tables, p \in PageNo : mem'[tab][p].lsn = 0 \/ mem'[tab][p].lsn < Len(log),
           num_pages' \in [Tables -> 0..MaxPages], mode' \in Mode,
           pos' \in 0..(Bound.log + 1), PosInLog',
           UNCHANGED <<log, persist, disk, filepages, hdr, processVars, restarts, ghosts>>
    PROVE  LogInv'
  <1>1. UNCHANGED <<status, write_set, aborts>>
    BY DEF processVars
  <1>2. mode # "running" /\ persist = Len(log)
    BY DEF LogInv, LogFlushed
  <1>3. /\ status' \in [TxnId -> Status] /\ write_set' \in [TxnId -> Seq(DataRecord)]
        /\ \A t \in TxnId : status'[t] = "aborting" => write_set'[t] # <<>>
    BY <1>1 DEF LogInv, TypeOK
  <1>4. QED
    BY <1>1, <1>2, <1>3, MemStep

\* Memory as a redone record leaves it.
LEMMA RedoPages ==
    ASSUME LogInv, NEW pages \in PagesType, NEW lsn \in Nat, lsn < Len(log), NEW rid \in Rid,
           NEW val \in Content,
           \A tab \in Tables, p \in PageNo : pages[tab][p].lsn = 0 \/ pages[tab][p].lsn < Len(log)
    PROVE  /\ Stamp(Put(pages, rid, val), rid, lsn) \in PagesType
           /\ Stamp(pages, rid, lsn) \in PagesType
           /\ \A tab \in Tables, p \in PageNo :
                 LET new == Stamp(Put(pages, rid, val), rid, lsn)[tab][p].lsn
                     same == Stamp(pages, rid, lsn)[tab][p].lsn
                 IN  (new = 0 \/ new < Len(log)) /\ (same = 0 \/ same < Len(log))
  <1>1. PICK mid \in PagesType :
            /\ mid = Put(pages, rid, val)
            /\ \A tab \in Tables, p \in PageNo : mid[tab][p].lsn = pages[tab][p].lsn
    BY PutPages
  <1>2. /\ Stamp(mid, rid, lsn) \in PagesType
        /\ \A tab \in Tables, p \in PageNo : Stamp(mid, rid, lsn)[tab][p].lsn \in {pages[tab][p].lsn, lsn}
    BY <1>1, StampPages
  <1>3. /\ Stamp(pages, rid, lsn) \in PagesType
        /\ \A tab \in Tables, p \in PageNo : Stamp(pages, rid, lsn)[tab][p].lsn \in {pages[tab][p].lsn, lsn}
    BY StampPages
  <1>4. \A x : \A tab \in Tables, p \in PageNo :
            x \in {pages[tab][p].lsn, lsn} => x = 0 \/ x < Len(log)
    OBVIOUS
  <1>5. QED
    BY <1>1, <1>2, <1>3, <1>4

LEMMA RedoStep == ASSUME LogInv, within' = within, RedoOne PROVE LogInv'
  <1>1. /\ mode = "redo" /\ pos <= Len(log)
        /\ UNCHANGED <<log, persist, disk, filepages, hdr, processVars, restarts, ghosts>>
    BY DEF RedoOne
  <1>2. /\ pos \in Nat /\ pos >= 1 /\ Len(log) \in Nat /\ Len(log) <= Bound.log /\ Bound.log \in Nat
        /\ log[pos] \in LogRecord /\ pos - 1 \in Nat /\ pos - 1 < Len(log)
        /\ pos + 1 \in 0..(Bound.log + 1) /\ pos \in 0..(Bound.log + 1)
    <2>1. /\ log \in Seq(LogRecord) /\ pos \in 0..(Bound.log + 1) /\ pos >= 1
          /\ Len(log) <= Bound.log /\ Bound.log \in Nat
      BY <1>1, BoundFacts DEF LogInv, TypeOK, PosInLog
    <2>2. QED
      BY <1>1, <2>1
  <1>3. /\ mem \in PagesType /\ num_pages \in [Tables -> 0..MaxPages]
        /\ \A tab \in Tables, p \in PageNo : mem[tab][p].lsn = 0 \/ mem[tab][p].lsn < Len(log)
    BY DEF LogInv, TypeOK, PagesType, StampsInLog
  <1>4. ASSUME mem' \in PagesType, num_pages' \in [Tables -> 0..MaxPages],
               \A tab \in Tables, p \in PageNo : mem'[tab][p].lsn = 0 \/ mem'[tab][p].lsn < Len(log),
               (mode' = mode /\ pos' = pos + 1) \/ (mode' = "failed" /\ pos' = pos)
        PROVE  LogInv'
    <2>1. mode' \in Mode /\ pos' \in 0..(Bound.log + 1) /\ PosInLog'
      BY <1>1, <1>2, <1>4 DEF Mode, PosInLog
    <2>2. QED
      BY <1>1, <1>4, <2>1, RecoveryStep
  <1>5. CASE Skip \/ Abandon
    BY <1>3, <1>4, <1>5 DEF Skip, Abandon
  <1>6. CASE IsData(pos) /\ ~(Skip \/ Abandon)
    <2>1. PICK rec \in LogRecord : rec = log[pos]
      BY <1>2
    <2>2. rec.rid \in Rid /\ rec.new \in Content /\ rec.rid.tab \in Tables /\ rec.rid.page \in PageNo
      BY <1>6, <2>1, DataFields, RidFields DEF IsData
    <2>3. CASE RedoInsert(rec, pos - 1)
      <3>1. PICK pages : pages = Extended(rec.rid)
        OBVIOUS
      <3>2. /\ num_pages' = [num_pages EXCEPT ![rec.rid.tab] = MaxOf(@, rec.rid.page)]
            /\ mode' = mode /\ pos' = pos + 1
            /\ \/ mem' = pages
               \/ mem' = Stamp(pages, rec.rid, pos - 1)
               \/ mem' = Stamp(Put(pages, rec.rid, rec.new), rec.rid, pos - 1)
        BY <2>3, <3>1 DEF RedoInsert
      <3>3. /\ pages \in PagesType
            /\ \A tab \in Tables, p \in PageNo :
                  pages[tab][p].lsn = 0 \/ pages[tab][p].lsn < Len(log)
        <4>1. EmptyPage \in Page /\ EmptyPage.lsn = 0
          BY Numbers DEF EmptyPage
        <4>2. PICK tb \in Tables : tb = rec.rid.tab
          BY <2>2
        <4>3. pages = [mem EXCEPT ![tb] = [p \in PageNo |->
                          IF p > num_pages[tb] /\ p <= rec.rid.page THEN EmptyPage ELSE mem[tb][p]]]
          BY <3>1, <4>2 DEF Extended
        <4> HIDE DEF EmptyPage
        <4>4. QED
          BY <1>3, <4>1, <4>3 DEF PagesType
      <3>4. num_pages' \in [Tables -> 0..MaxPages]
        BY <1>3, <2>2, <3>2, Numbers DEF MaxOf, PageNo
      <3>5. /\ mem' \in PagesType
            /\ \A tab \in Tables, p \in PageNo : mem'[tab][p].lsn = 0 \/ mem'[tab][p].lsn < Len(log)
        BY <1>2, <2>2, <3>2, <3>3, RedoPages
      <3>6. QED
        BY <1>4, <3>2, <3>4, <3>5
    <2>4. CASE RedoDelete(rec, pos - 1)
      <3>1. /\ mem' = Stamp(Put(mem, rec.rid, None), rec.rid, pos - 1)
            /\ num_pages' = num_pages /\ mode' = mode /\ pos' = pos + 1
        BY <2>4 DEF RedoDelete
      <3>2. None \in Content
        BY DEF Content
      <3>3. /\ mem' \in PagesType
            /\ \A tab \in Tables, p \in PageNo : mem'[tab][p].lsn = 0 \/ mem'[tab][p].lsn < Len(log)
        BY <1>2, <1>3, <2>2, <3>1, <3>2, RedoPages
      <3>4. QED
        BY <1>3, <1>4, <3>1, <3>3
    <2>5. CASE RedoUpdate(rec, pos - 1)
      <3>1. /\ mem' = Stamp(Put(mem, rec.rid, rec.new), rec.rid, pos - 1)
            /\ num_pages' = num_pages /\ mode' = mode /\ pos' = pos + 1
        BY <1>6, <2>5 DEF RedoUpdate
      <3>2. /\ mem' \in PagesType
            /\ \A tab \in Tables, p \in PageNo : mem'[tab][p].lsn = 0 \/ mem'[tab][p].lsn < Len(log)
        BY <1>2, <1>3, <2>2, <3>1, RedoPages
      <3>3. QED
        BY <1>3, <1>4, <3>1, <3>2
    <2>6. QED
      BY <1>6, <2>1, <2>3, <2>4, <2>5 DEF RedoOne
  <1>7. QED
    BY <1>5, <1>6 DEF RedoOne

LEMMA UndoStep == ASSUME LogInv, within' = within, UndoOne PROVE LogInv'
  <1>1. /\ mode = "undo" /\ pos > 0 /\ pos' = pos - 1
        /\ mem' = IF IsData(pos) /\ ToUndo(log[pos].tid) THEN Undone(log[pos]) ELSE mem
        /\ UNCHANGED <<mode, log, persist, disk, filepages, num_pages, hdr, processVars,
                       restarts, ghosts>>
    BY DEF UndoOne
  <1>2. /\ log \in Seq(LogRecord) /\ pos \in 0..(Bound.log + 1) /\ pos <= Len(log)
        /\ Bound.log \in Nat
    BY <1>1, BoundFacts DEF LogInv, TypeOK, PosInLog
  <1>3. log[pos] \in LogRecord
    BY <1>1, <1>2
  <1>4. pos' \in 0..(Bound.log + 1) /\ pos' <= Len(log)
    BY <1>1, <1>2
  <1>5. /\ mem \in PagesType /\ num_pages \in [Tables -> 0..MaxPages]
        /\ \A tab \in Tables, p \in PageNo : mem[tab][p].lsn = 0 \/ mem[tab][p].lsn < Len(log)
    BY DEF LogInv, TypeOK, PagesType, StampsInLog
  <1>6. /\ mem' \in PagesType
        /\ \A tab \in Tables, p \in PageNo : mem'[tab][p].lsn = mem[tab][p].lsn
    <2>1. CASE ~(IsData(pos) /\ ToUndo(log[pos].tid))
      BY <1>1, <1>5, <2>1
    <2>2. CASE IsData(pos) /\ ToUndo(log[pos].tid)
      <3>1. PICK rec \in LogRecord : rec = log[pos]
        BY <1>3
      <3>2. rec.rid \in Rid /\ rec.old \in Content /\ None \in Content
        BY <2>2, <3>1, DataFields DEF IsData, Content
      <3>3. mem' = Undone(rec)
        BY <1>1, <2>2, <3>1
      <3>4. \/ mem' = mem \/ mem' = Put(mem, rec.rid, None) \/ mem' = Put(mem, rec.rid, rec.old)
        BY <3>3 DEF Undone
      <3>5. QED
        BY <1>5, <3>2, <3>4, PutPages
    <2>3. QED
      BY <2>1, <2>2
  <1>7. PosInLog' /\ mode' \in Mode
    BY <1>1, <1>4 DEF PosInLog, Mode
  <1>8. QED
    BY <1>1, <1>4, <1>5, <1>6, <1>7, RecoveryStep

LEMMA PhaseStep ==
    ASSUME LogInv, within' = within, RedoEnd \/ UndoEnd \/ SaveEnd PROVE LogInv'
  <1>1. /\ mode \in {"redo", "undo", "save"} /\ mode' \in {"undo", "save", "running"}
        /\ pos' \in {pos, Len(log)} /\ (mode' = "undo" => pos' = Len(log))
        /\ UNCHANGED <<mem, num_pages>>
        /\ UNCHANGED <<log, persist, disk, filepages, hdr, processVars, restarts, ghosts>>
    BY DEF RedoEnd, UndoEnd, SaveEnd, fileVars
  <1>2. /\ mem \in PagesType /\ num_pages \in [Tables -> 0..MaxPages]
        /\ \A tab \in Tables, p \in PageNo : mem[tab][p].lsn = 0 \/ mem[tab][p].lsn < Len(log)
        /\ pos \in 0..(Bound.log + 1) /\ log \in Seq(LogRecord) /\ Len(log) <= Bound.log
        /\ Bound.log \in Nat
    BY BoundFacts DEF LogInv, TypeOK, PagesType, StampsInLog
  <1>3. /\ Len(log) \in 0..(Bound.log + 1) /\ Len(log) <= Len(log)
    BY <1>2
  <1>4. mode' \in Mode /\ PosInLog' /\ pos' \in 0..(Bound.log + 1)
    BY <1>1, <1>2, <1>3 DEF Mode, PosInLog
  <1>5. QED
    BY <1>1, <1>2, <1>4, RecoveryStep

-----------------------------------------------------------------------------
(* The specification *)

LEMMA LogInitInv == Init => LogInv
  <1> SUFFICES ASSUME Init PROVE LogInv
    OBVIOUS
  <1>1. within \in DOMAIN Bounds
    BY DEF Init
  <1>2. /\ Bound.log \in Nat /\ Bound.aborts \in Nat /\ Bound.restarts \in Nat
    BY <1>1, BoundFacts
  <1>3. mem \in PagesType /\ disk \in PagesType /\ disk = mem
        /\ \A tab \in Tables, p \in PageNo : mem[tab][p].lsn = 0
    <2>1. EmptyPage \in Page /\ EmptyPage.lsn = 0
      BY Numbers DEF EmptyPage
    <2> HIDE DEF EmptyPage
    <2>2. QED
      BY <2>1 DEF Init, PagesType
  <1>4. log = <<>> /\ log \in Seq(LogRecord) /\ Len(log) = 0
    BY DEF Init
  <1>5. /\ filepages \in [Tables -> 0..MaxPages] /\ num_pages \in [Tables -> 0..MaxPages]
        /\ hdr \in [Tables -> 0..MaxPages]
    BY Numbers DEF Init
  <1>6. /\ status \in [TxnId -> Status] /\ write_set \in [TxnId -> Seq(DataRecord)]
        /\ committed \in [Rid -> Content] /\ disturbed \subseteq Rid /\ mode \in Mode
        /\ \A t \in TxnId : status[t] # "aborting"
    BY DEF Init, Status, Content, Mode
  <1>7. /\ pos \in 0..(Bound.log + 1) /\ persist \in 0..Len(log) /\ Len(log) <= Bound.log
        /\ restarts \in 0..Bound.restarts /\ aborts \in 0..Bound.aborts
    BY <1>2, <1>4 DEF Init
  <1>8. TypeOK
    BY <1>3, <1>4, <1>5, <1>6, <1>7 DEF TypeOK, PagesType
  <1>9. StampsInLog /\ LogFlushed /\ PosInLog
    BY <1>3 DEF StampsInLog, LogFlushed, PosInLog, Init
  <1>10. QED
    BY <1>1, <1>3, <1>6, <1>8, <1>9 DEF LogInv

LEMMA LogNextInv == LogInv /\ [Next]_vars => LogInv'
  <1> SUFFICES ASSUME LogInv, [Next]_vars PROVE LogInv'
    OBVIOUS
  <1>1. CASE Next
    <2>1. within' = within
      BY <1>1 DEF Next
    <2>2. QED
      BY <1>1, <2>1, TxnStep, WriteSteps, RollbackStep, FlushStep, WritePageStep, RestartStep,
         RedoStep, UndoStep, PhaseStep DEF Next
  <1>2. CASE UNCHANGED vars
    <2>1. UNCHANGED <<mode, pos, log, persist, mem, disk, filepages, num_pages, hdr, status,
                      write_set, aborts, restarts, committed, disturbed, within>>
      BY <1>2 DEF vars, fileVars, processVars, ghosts
    <2>2. Bound' = Bound
      BY <2>1 DEF Bound
    <2>3. TypeOK'
      BY <2>1, <2>2 DEF LogInv, TypeOK
    <2>4. QED
      BY <2>1, <2>3 DEF LogInv, StampsInLog, LogFlushed, PosInLog
  <1>3. QED
    BY <1>1, <1>2

\* The inductive invariant holds in every state.
THEOREM LogInvariant == Spec => []LogInv
  BY LogInitInv, LogNextInv, PTL DEF Spec

\* However the pool writes pages back, and wherever the server or its recovery
\* crashes, no page on disk has a change whose log record is not on disk.
THEOREM WriteAheadLogAlways == Spec => []WriteAheadLog
  <1>1. LogInv => WriteAheadLog
    BY DEF LogInv, WriteAheadLog
  <1>2. QED
    BY <1>1, LogInvariant, PTL

-----------------------------------------------------------------------------
(* The changes of one record *)

BeginOf(t) == [type |-> "begin", tid |-> t]
AbortOf(t) == [type |-> "ABORT", tid |-> t]

\* The changes of one record in the log.
Writes(rid) == {i \in DOMAIN log : IsData(i) /\ log[i].rid = rid}

\* No transaction with the id of t began after log[i].
Current(t, i) == \A k \in DOMAIN log : k > i => log[k] # BeginOf(t)

\* The transaction of log[i] did not commit and never will.
Lost(i) == ~Winner(i) /\ ~(status[log[i].tid] = "active" /\ Current(log[i].tid, i))

-----------------------------------------------------------------------------
(* The log *)

\* What a change of each type does to the slot.
Fits(rec) ==
    /\ rec.type = "INSERT" => rec.old = None /\ rec.new # None
    /\ rec.type = "DELETE" => rec.old # None /\ rec.new = None
    /\ rec.type = "UPDATE" => rec.old # None /\ rec.new # None

\* A record belongs to a transaction that began before it, nothing of a transaction follows its
\* commit, and an end is in the file.
LogShape ==
    /\ \A i \in DOMAIN log : \E b \in 1..i : log[b] = BeginOf(log[i].tid) /\ SameTxn(b, i)
    /\ \A i, j \in DOMAIN log : i < j /\ log[i].type = "commit" /\ log[j].tid = log[i].tid =>
          \E b \in (i + 1)..j : log[b] = BeginOf(log[i].tid)
    /\ \A i \in DOMAIN log : log[i].type \in EndType => i <= persist
    /\ \A i \in DOMAIN log : IsData(i) => Fits(log[i])

\* A transaction of this process, in the log: an active one has no end, a rolled back one ends with
\* its ABORT record.
TxnInLog(t) ==
    \E b \in DOMAIN log :
        /\ log[b] = BeginOf(t) /\ Current(t, b)
        /\ status[t] = "active" =>
              \A k \in DOMAIN log : k > b /\ log[k].tid = t => log[k].type \notin EndType
        /\ status[t] \in {"aborting", "aborted"} =>
              /\ \A k \in DOMAIN log : k > b /\ log[k].tid = t => log[k].type # "commit"
              /\ \E a \in DOMAIN log : /\ a > b /\ log[a] = AbortOf(t)
                                       /\ \A k \in DOMAIN log : k > a => log[k].tid # t

StatusInLog == \A t \in TxnId : status[t] # "none" => TxnInLog(t)

\* Write sets hold changes of the log, all of them while the transaction can commit; nobody else has
\* written to their tables since.
WriteSets ==
    /\ \A t \in TxnId : \A n \in DOMAIN write_set[t] :
          \E j \in DOMAIN log :
              /\ log[j] = write_set[t][n] /\ log[j].tid = t /\ Current(t, j)
              /\ \A k \in DOMAIN log : k > j /\ IsData(k) /\ log[k].rid.tab = log[j].rid.tab =>
                    log[k].tid = t
    /\ \A t \in TxnId : status[t] = "active" =>
          \A i \in DOMAIN log : IsData(i) /\ log[i].tid = t /\ Current(t, i) =>
              /\ \E n \in DOMAIN write_set[t] : write_set[t][n] = log[i]
              /\ \A k \in DOMAIN log : k > i /\ IsData(k) /\ log[k].rid.tab = log[i].rid.tab =>
                    log[k].tid = t
    /\ \A t, u \in TxnId : t # u =>
          \A n \in DOMAIN write_set[t], m \in DOMAIN write_set[u] :
              write_set[t][n].rid.tab # write_set[u][m].rid.tab
    /\ \A t \in TxnId : write_set[t] # <<>> => status[t] \in {"active", "aborting"}

\* Recovery starts with no transactions, on a log that has the records it can be exact on.
InRecovery ==
    mode \in {"redo", "undo", "save", "failed"} =>
        /\ \A t \in TxnId : status[t] = "none" /\ write_set[t] = <<>>
        /\ \A rid \in Rid \ disturbed : Undisturbed(rid)

-----------------------------------------------------------------------------
(* The records *)

\* The committed value of a record is what the last committed change left.
CommittedInLog ==
    \A rid \in Rid :
        /\ (\A i \in Writes(rid) : ~Winner(i)) => committed[rid] = None
        /\ \A i \in Writes(rid) : Winner(i) /\ (\A j \in Writes(rid) : j > i => ~Winner(j)) =>
              committed[rid] = log[i].new

\* Each change starts from what the one before it left, unless that was taken back.
Chain ==
    \A rid \in Rid \ disturbed : \A i \in Writes(rid) :
        /\ (\A j \in Writes(rid) : j >= i) => log[i].old = None
        /\ \A p \in Writes(rid) :
              /\ p < i /\ \A j \in Writes(rid) : j <= p \/ j >= i
              /\ Winner(p) \/ SameTxn(p, i)
              => log[i].old = log[p].new

\* log[i] is the last change of its record up to log[m].
LastUpTo(rid, i, m) == i \in Writes(rid) /\ i <= m /\ \A j \in Writes(rid) : j <= i \/ j > m

\* val is what rid holds after log[m], or what the rollback of its last change up to there, which
\* never comes before the last change of its transaction, has made of it.
Shows(val, rid, m) ==
    \/ val = None /\ \A i \in Writes(rid) : i > m
    \/ \E i \in Writes(rid) :
          /\ LastUpTo(rid, i, m)
          /\ \/ val = log[i].new
             \/ /\ Lost(i) /\ \A k \in Writes(rid) : SameTxn(i, k) => k <= i
                /\ \E j \in Writes(rid) : j <= i /\ SameTxn(j, i) /\ val = log[j].old

LsnOf(pages, rid) == pages[rid.tab][rid.page].lsn

\* A page shows its records as of its lsn.
DiskShows ==
    \A rid \in Rid \ disturbed : Shows(At(disk, rid), rid, LsnOf(disk, rid) + 1)
MemShows ==
    mode # "failed" =>
        \A rid \in Rid \ disturbed : rid.page <= num_pages[rid.tab] =>
            Shows(At(mem, rid), rid, LsnOf(mem, rid) + 1)

\* The pages in memory have every change of the log; in redo(), every change before pos.
Applied ==
    mode # "failed" =>
        \A rid \in Rid \ disturbed : \A i \in Writes(rid) :
            (mode = "redo" => i < pos) =>
                rid.page <= num_pages[rid.tab] /\ i <= LsnOf(mem, rid) + 1

\* A transaction that can commit sees its own last change, and can be rolled back.
OwnChanges ==
    /\ \A t \in TxnId : status[t] = "active" =>
          \A rid \in Rid : \A i \in Writes(rid) :
              log[i].tid = t /\ Current(t, i) /\ (\A k \in Writes(rid) : k <= i) =>
                  Record(rid) = log[i].new
    /\ \A t \in TxnId : \A n \in DOMAIN write_set[t] :
          /\ \A m \in 1..(n - 1) : write_set[t][m].rid # write_set[t][n].rid
          /\ write_set[t][n].rid \notin disturbed
          => write_set[t][n].old = committed[write_set[t][n].rid]

\* What undo() has passed is taken back.
UndoneSoFar ==
    mode = "undo" =>
        \A rid \in Rid \ disturbed : (\E k \in Writes(rid) : k > pos /\ Lost(k)) =>
            \E j \in Writes(rid) : /\ Lost(j) /\ Record(rid) = log[j].old
                                   /\ \A k \in Writes(rid) : k > pos /\ Lost(k) => j <= k

\* Outside recovery, records nobody is changing are as committed.
Settled ==
    mode \in {"running", "closing", "save"} =>
        \A rid \in Rid \ disturbed :
            (\A t \in TxnId : ~Wrote(t, rid)) => Record(rid) = committed[rid]

\* The inductive invariant.
RecInv ==
    /\ LogInv
    /\ LogShape /\ StatusInLog /\ WriteSets /\ InRecovery
    /\ CommittedInLog /\ Chain /\ DiskShows /\ MemShows /\ Applied /\ OwnChanges
    /\ UndoneSoFar /\ Settled /\ StartFailsOnly


-----------------------------------------------------------------------------
(* Places in the log *)

LEMMA LeastOf ==
    ASSUME NEW S \in SUBSET Nat, S # {} PROVE \E m \in S : \A n \in S : m <= n
  <1>1. PICK x \in S : \A y \in S : ~(<<y, x>> \in OpToRel(<, Nat))
    BY NatLessThanWellFounded, WFMin
  <1>2. \A y \in S : ~(y < x)
    BY <1>1 DEF OpToRel
  <1>3. QED
    BY <1>2

LEMMA GreatestOf ==
    ASSUME NEW m \in Nat, NEW S \in SUBSET (1..m), S # {} PROVE \E g \in S : \A n \in S : n <= g
  <1> DEFINE T == {k \in Nat : m - k \in S}
  <1>1. T \in SUBSET Nat /\ T # {}
    <2>1. PICK n \in S : TRUE
      OBVIOUS
    <2>2. m - n \in Nat /\ m - (m - n) = n
      OBVIOUS
    <2>3. QED
      BY <2>2
  <1>2. PICK l \in T : \A n \in T : l <= n
    BY <1>1, LeastOf
  <1>3. PICK g \in S : g = m - l
    OBVIOUS
  <1>4. ASSUME NEW n \in S PROVE n <= g
    <2>1. n \in Nat /\ m - n \in Nat /\ m - (m - n) = n
      OBVIOUS
    <2>2. l <= m - n
      BY <1>2, <2>1
    <2>3. QED
      BY <2>1, <2>2, <1>3
  <1>5. QED
    BY <1>4

LEMMA LogTypes ==
    ASSUME LogInv
    PROVE  /\ log \in Seq(LogRecord) /\ Len(log) \in Nat /\ DOMAIN log = 1..Len(log)
           /\ persist \in 0..Len(log)
           /\ \A i \in DOMAIN log : log[i] \in LogRecord /\ log[i].tid \in TxnId
  <1>1. log \in Seq(LogRecord) /\ persist \in 0..Len(log)
    BY Types DEF LogInv
  <1>2. \A rec \in LogRecord : rec.tid \in TxnId
    BY DEF LogRecord, DataRecord, ControlRecord
  <1>3. QED
    BY <1>1, <1>2

LEMMA WritesTypes ==
    ASSUME LogInv, NEW rid, NEW i \in Writes(rid)
    PROVE  /\ i \in 1..Len(log) /\ i \in DOMAIN log /\ IsData(i) /\ log[i].rid = rid
           /\ log[i] \in DataRecord /\ rid \in Rid /\ log[i].tid \in TxnId
           /\ log[i].old \in Content /\ log[i].new \in Content
  <1>1. i \in DOMAIN log /\ IsData(i) /\ log[i].rid = rid
    BY DEF Writes
  <1>2. QED
    BY <1>1, LogTypes, DataFields DEF IsData

LEMMA Ordered ==
    ASSUME LogInv, NEW i \in DOMAIN log, NEW j \in DOMAIN log, i <= j
    PROVE  /\ SameTxn(i, i)
           /\ \A t : Current(t, i) => Current(t, j)
           /\ \A t : Current(t, i) /\ log[i].tid = t /\ log[j].tid = t => SameTxn(i, j)
           /\ \A k \in DOMAIN log : j <= k /\ SameTxn(i, j) /\ SameTxn(j, k) => SameTxn(i, k)
           /\ \A k \in DOMAIN log : j <= k /\ log[i].tid = log[j].tid /\ SameTxn(i, k) =>
                 SameTxn(i, j) /\ SameTxn(j, k)
  <1>1. DOMAIN log = 1..Len(log) /\ Len(log) \in Nat
    BY LogTypes
  <1>2. SameTxn(i, i)
    BY <1>1 DEF SameTxn
  <1>3. \A t : Current(t, i) => Current(t, j)
    BY <1>1 DEF Current
  <1>4. \A t : Current(t, i) /\ log[i].tid = t /\ log[j].tid = t => SameTxn(i, j)
    BY <1>1 DEF Current, SameTxn, BeginOf
  <1>5. \A k \in DOMAIN log : j <= k /\ SameTxn(i, j) /\ SameTxn(j, k) => SameTxn(i, k)
    BY <1>1 DEF SameTxn
  <1>6. \A k \in DOMAIN log : j <= k /\ log[i].tid = log[j].tid /\ SameTxn(i, k) =>
                 SameTxn(i, j) /\ SameTxn(j, k)
    BY <1>1 DEF SameTxn
  <1>7. QED
    BY <1>2, <1>3, <1>4, <1>5, <1>6

\* A change never is the first record of the log.
LEMMA NotFirst ==
    ASSUME LogInv, LogShape, NEW rid, NEW i \in Writes(rid) PROVE i >= 2
  <1>1. PICK b \in 1..i : log[b] = BeginOf(log[i].tid)
    BY WritesTypes DEF LogShape
  <1>2. b # i
    BY <1>1, WritesTypes DEF BeginOf, IsData, DataType
  <1>3. QED
    BY <1>1, <1>2, WritesTypes

LEMMA LastWrite ==
    ASSUME LogInv, NEW rid, NEW m \in Nat, \E i \in Writes(rid) : i <= m
    PROVE  \E i \in Writes(rid) : LastUpTo(rid, i, m)
  <1> DEFINE S == {i \in Writes(rid) : i <= m}
  <1>1. S \in SUBSET (1..m) /\ S # {}
    BY WritesTypes
  <1>2. PICK g \in S : \A n \in S : n <= g
    BY <1>1, GreatestOf
  <1>3. g \in Writes(rid) /\ g <= m /\ \A j \in Writes(rid) : j <= m => j <= g
    BY <1>2
  <1>4. \A j \in Writes(rid) : j <= g \/ j > m
    BY <1>3, WritesTypes
  <1>5. QED
    BY <1>3, <1>4 DEF LastUpTo

LEMMA LastOfAll ==
    ASSUME LogInv, NEW rid, Writes(rid) # {}
    PROVE  \E i \in Writes(rid) : \A j \in Writes(rid) : j <= i
  <1>1. Len(log) \in Nat /\ Writes(rid) \in SUBSET (1..Len(log))
    BY LogTypes, WritesTypes
  <1>2. QED
    BY <1>1, GreatestOf


-----------------------------------------------------------------------------
(* How the log changes *)

\* Two logs that agree on a prefix.
LEMMA Prefix ==
    ASSUME LogInv, LogInv', NEW m \in Nat, m <= Len(log), m <= Len(log'),
           \A k \in 1..m : log'[k] = log[k]
    PROVE  /\ \A i, j \in 1..m : SameTxn(i, j)' <=> SameTxn(i, j)
           /\ \A i \in 1..m : IsData(i)' <=> IsData(i)
           /\ \A rid : \A i \in 1..m : i \in Writes(rid)' <=> i \in Writes(rid)
  <1>1. DOMAIN log = 1..Len(log) /\ Len(log) \in Nat /\ DOMAIN log' = 1..Len(log') /\ Len(log') \in Nat
    BY LogTypes
  <1>2. \A i, j \in 1..m : SameTxn(i, j)' <=> SameTxn(i, j)
    BY <1>1 DEF SameTxn
  <1>3. \A i \in 1..m : IsData(i)' <=> IsData(i)
    BY <1>1 DEF IsData
  <1>4. \A rid : \A i \in 1..m : i \in Writes(rid)' <=> i \in Writes(rid)
    BY <1>1, <1>3 DEF Writes
  <1>5. QED
    BY <1>2, <1>3, <1>4

\* They have the same winners when no commit lies beyond it.
LEMMA PrefixWinners ==
    ASSUME LogInv, LogInv', NEW m \in Nat, m <= Len(log), m <= Len(log'),
           \A k \in 1..m : log'[k] = log[k],
           \A k \in DOMAIN log : log[k].type = "commit" => k <= m,
           \A k \in DOMAIN log' : log'[k].type = "commit" => k <= m
    PROVE  \A i \in 1..m : Winner(i)' <=> Winner(i)
  <1>1. DOMAIN log = 1..Len(log) /\ Len(log) \in Nat /\ DOMAIN log' = 1..Len(log') /\ Len(log') \in Nat
    BY LogTypes
  <1>2. \A i, j \in 1..m : SameTxn(i, j)' <=> SameTxn(i, j)
    BY Prefix
  <1>3. ASSUME NEW i \in 1..m, Winner(i) PROVE Winner(i)'
    <2>1. PICK j \in (i + 1)..Len(log) :
              /\ log[j].type = "commit" /\ SameTxn(i, j)
              /\ \A k \in (i + 1)..j : log[k] # [type |-> "ABORT", tid |-> log[i].tid]
      BY <1>3 DEF Winner
    <2>2. j \in 1..m /\ j \in (i + 1)..Len(log')
      BY <1>1, <2>1
    <2>3. log'[j].type = "commit" /\ SameTxn(i, j)' /\ log'[i] = log[i]
      BY <1>2, <2>1, <2>2
    <2>4. \A k \in (i + 1)..j : log'[k] # [type |-> "ABORT", tid |-> log'[i].tid]
      BY <2>1, <2>2, <2>3
    <2>5. QED
      BY <2>2, <2>3, <2>4 DEF Winner
  <1>4. ASSUME NEW i \in 1..m, Winner(i)' PROVE Winner(i)
    <2>1. PICK j \in (i + 1)..Len(log') :
              /\ log'[j].type = "commit" /\ SameTxn(i, j)'
              /\ \A k \in (i + 1)..j : log'[k] # [type |-> "ABORT", tid |-> log'[i].tid]
      BY <1>4 DEF Winner
    <2>2. j \in 1..m /\ j \in (i + 1)..Len(log)
      BY <1>1, <2>1
    <2>3. log[j].type = "commit" /\ SameTxn(i, j) /\ log'[i] = log[i]
      BY <1>2, <2>1, <2>2
    <2>4. \A k \in (i + 1)..j : log[k] # [type |-> "ABORT", tid |-> log[i].tid]
      BY <2>1, <2>2, <2>3
    <2>5. QED
      BY <2>2, <2>3, <2>4 DEF Winner
  <1>5. QED
    BY <1>3, <1>4

\* A record is added.
LEMMA Longer ==
    ASSUME LogInv, LogInv', NEW rec \in LogRecord, log' = Append(log, rec),
           NEW n, n = Len(log)
    PROVE  /\ n \in Nat /\ Len(log') = n + 1
           /\ DOMAIN log = 1..n /\ DOMAIN log' = 1..(n + 1)
           /\ log'[n + 1] = rec /\ \A k \in 1..n : log'[k] = log[k]
           /\ \A t : \A i \in DOMAIN log : Current(t, i)' <=> Current(t, i) /\ rec # BeginOf(t)
           /\ \A t : Current(t, n + 1)'
           /\ \A i \in DOMAIN log : SameTxn(i, n + 1)' <=>
                 log[i].tid = rec.tid /\ Current(rec.tid, i) /\ rec # BeginOf(rec.tid)
           /\ \A i, j \in DOMAIN log : SameTxn(i, j)' <=> SameTxn(i, j)
           /\ \A i \in DOMAIN log : IsData(i)' <=> IsData(i)
           /\ IsData(n + 1)' <=> rec.type \in DataType
           /\ \A rid : Writes(rid)' = Writes(rid) \cup
                 {i \in {n + 1} : rec.type \in DataType /\ rec.rid = rid}
  <1>1. /\ n \in Nat /\ Len(log') = n + 1
        /\ DOMAIN log = 1..n /\ DOMAIN log' = 1..(n + 1)
        /\ log'[n + 1] = rec /\ \A k \in 1..n : log'[k] = log[k]
    BY LogTypes
  <1>2. \A t : \A i \in DOMAIN log : Current(t, i)' <=> Current(t, i) /\ rec # BeginOf(t)
    <2>1. SUFFICES ASSUME NEW t, NEW i \in DOMAIN log
                   PROVE  Current(t, i)' <=> Current(t, i) /\ rec # BeginOf(t)
      OBVIOUS
    <2>2. Current(t, i)' <=> \A k \in 1..(n + 1) : k > i => log'[k] # BeginOf(t)
      BY <1>1 DEF Current, BeginOf
    <2>3. Current(t, i) <=> \A k \in 1..n : k > i => log[k] # BeginOf(t)
      BY <1>1 DEF Current
    <2>4. QED
      BY <1>1, <2>2, <2>3
  <1>3. \A t : Current(t, n + 1)'
    BY <1>1 DEF Current
  <1>4. \A i \in DOMAIN log : SameTxn(i, n + 1)' <=>
                 log[i].tid = rec.tid /\ Current(rec.tid, i) /\ rec # BeginOf(rec.tid)
    <2>1. SUFFICES ASSUME NEW i \in DOMAIN log
                   PROVE  SameTxn(i, n + 1)' <=>
                             log[i].tid = rec.tid /\ Current(rec.tid, i) /\ rec # BeginOf(rec.tid)
      OBVIOUS
    <2>2. SameTxn(i, n + 1)' <=>
              log[i].tid = rec.tid /\ \A k \in (i + 1)..(n + 1) : log'[k] # BeginOf(log[i].tid)
      BY <1>1 DEF SameTxn, BeginOf
    <2>3. Current(rec.tid, i) <=> \A k \in 1..n : k > i => log[k] # BeginOf(rec.tid)
      BY <1>1 DEF Current
    <2>4. QED
      BY <1>1, <2>2, <2>3
  <1>5. /\ \A i, j \in DOMAIN log : SameTxn(i, j)' <=> SameTxn(i, j)
        /\ \A i \in DOMAIN log : IsData(i)' <=> IsData(i)
        /\ \A rid : \A i \in DOMAIN log : i \in Writes(rid)' <=> i \in Writes(rid)
    BY <1>1, Prefix
  <1>6. IsData(n + 1)' <=> rec.type \in DataType
    BY <1>1 DEF IsData
  <1>7. \A rid : Writes(rid)' = Writes(rid) \cup
                 {i \in {n + 1} : rec.type \in DataType /\ rec.rid = rid}
    <2>1. \A rid : Writes(rid)' \subseteq 1..(n + 1) /\ Writes(rid) \subseteq 1..n
      BY <1>1 DEF Writes
    <2>2. \A rid : n + 1 \in Writes(rid)' <=> rec.type \in DataType /\ rec.rid = rid
      BY <1>1, <1>6 DEF Writes
    <2>3. QED
      BY <1>1, <1>5, <2>1, <2>2
  <1>8. QED
    BY <1>1, <1>2, <1>3, <1>4, <1>5, <1>6, <1>7


LEMMA LongerWinners ==
    ASSUME LogInv, LogInv', NEW rec \in LogRecord, log' = Append(log, rec), rec.type # "commit",
           NEW n, n = Len(log)
    PROVE  ~Winner(n + 1)' /\ \A i \in 1..n : Winner(i)' <=> Winner(i)
  <1>1. /\ n \in Nat /\ Len(log') = n + 1
        /\ DOMAIN log = 1..n /\ DOMAIN log' = 1..(n + 1)
        /\ log'[n + 1] = rec /\ \A k \in 1..n : log'[k] = log[k]
    BY Longer
  <1>2. \A i \in 1..n : Winner(i)' <=> Winner(i)
    BY <1>1, PrefixWinners
  <1>3. ~Winner(n + 1)'
    BY <1>1 DEF Winner
  <1>4. QED
    BY <1>2, <1>3

\* What a page shows up to its lsn does not depend on what comes later in the log, as long as the
\* transactions that are lost change nothing any more.
LEMMA ShowsKept ==
    ASSUME LogInv, LogInv', NEW rid, NEW m \in Nat, NEW val, Shows(val, rid, m),
           \A i : i \in Writes(rid)' /\ i <= m <=> i \in Writes(rid) /\ i <= m,
           \A i \in Writes(rid) : i <= m => log'[i] = log[i] /\ (Lost(i) => Lost(i)'),
           \A i \in Writes(rid) : \A k \in Writes(rid)' :
              i <= m /\ Lost(i) /\ SameTxn(i, k)' /\ k > i => k \in Writes(rid) /\ SameTxn(i, k),
           \A i, j \in Writes(rid) : i <= m /\ j <= i /\ SameTxn(j, i) => SameTxn(j, i)'
    PROVE  Shows(val, rid, m)'
  <1>1. Writes(rid) \subseteq Nat /\ Writes(rid)' \subseteq Nat
    <2>1. log' \in Seq(LogRecord)
      BY DEF LogInv, TypeOK
    <2>2. Writes(rid)' \subseteq DOMAIN log'
      BY DEF Writes
    <2>3. QED
      BY <2>1, <2>2, WritesTypes
  <1>2. CASE val = None /\ \A i \in Writes(rid) : i > m
    <2>1. \A i \in Writes(rid)' : i > m
      BY <1>1, <1>2
    <2>2. QED
      BY <1>2, <2>1 DEF Shows
  <1>3. ASSUME NEW i \in Writes(rid), LastUpTo(rid, i, m),
               \/ val = log[i].new
               \/ /\ Lost(i) /\ \A k \in Writes(rid) : SameTxn(i, k) => k <= i
                  /\ \E j \in Writes(rid) : j <= i /\ SameTxn(j, i) /\ val = log[j].old
        PROVE  Shows(val, rid, m)'
    <2>1. i <= m /\ i \in Writes(rid)' /\ log'[i] = log[i] /\ (Lost(i) => Lost(i)')
      BY <1>3 DEF LastUpTo
    <2>2. LastUpTo(rid, i, m)'
      BY <1>1, <1>3, <2>1 DEF LastUpTo
    <2>3. CASE val = log[i].new
      BY <2>1, <2>2, <2>3 DEF Shows
    <2>4. ASSUME Lost(i), \A k \in Writes(rid) : SameTxn(i, k) => k <= i,
                 NEW j \in Writes(rid), j <= i, SameTxn(j, i), val = log[j].old
          PROVE  Shows(val, rid, m)'
      <3>1. \A k \in Writes(rid)' : SameTxn(i, k)' => k <= i
        BY <1>1, <2>1, <2>4
      <3>2. j <= m /\ j \in Writes(rid)' /\ log'[j] = log[j] /\ SameTxn(j, i)'
        BY <1>1, <2>1, <2>4
      <3>3. QED
        BY <2>1, <2>2, <2>4, <3>1, <3>2 DEF Shows
    <2>5. QED
      BY <1>3, <2>3, <2>4
  <1>4. QED
    BY <1>2, <1>3 DEF Shows

\* Nothing happened to the log.
LEMMA SameLog ==
    ASSUME log' = log, \A t \in TxnId : status'[t] = "active" <=> status[t] = "active", LogInv
    PROVE  /\ \A t, i : Current(t, i)' <=> Current(t, i)
           /\ \A i, j : SameTxn(i, j)' <=> SameTxn(i, j)
           /\ \A i : (IsData(i)' <=> IsData(i)) /\ (Winner(i)' <=> Winner(i))
           /\ \A rid : Writes(rid)' = Writes(rid)
           /\ \A i \in DOMAIN log : Lost(i)' <=> Lost(i)
           /\ \A rid : Undisturbed(rid)' <=> Undisturbed(rid)
           /\ \A rid, val, m : Shows(val, rid, m) => Shows(val, rid, m)'
  <1>1. \A t, i : Current(t, i)' <=> Current(t, i)
    BY DEF Current
  <1>2. \A i, j : SameTxn(i, j)' <=> SameTxn(i, j)
    BY DEF SameTxn
  <1>3. \A i : IsData(i)' <=> IsData(i)
    BY DEF IsData
  <1>4. \A i : Winner(i)' <=> Winner(i)
    BY <1>2 DEF Winner
  <1>5. \A rid : Writes(rid)' = Writes(rid)
    BY <1>3 DEF Writes
  <1>6. \A i \in DOMAIN log : Lost(i)' <=> Lost(i)
    BY <1>1, <1>4, LogTypes DEF Lost
  <1>7. \A rid : Undisturbed(rid)' <=> Undisturbed(rid)
    BY <1>2, <1>3, <1>4 DEF Undisturbed
  <1>8. ASSUME NEW rid, NEW val, NEW m, Shows(val, rid, m) PROVE Shows(val, rid, m)'
    <2>1. \A i \in Writes(rid) : Lost(i)' <=> Lost(i)
      BY <1>6 DEF Writes
    <2>2. \A i : LastUpTo(rid, i, m)' <=> LastUpTo(rid, i, m)
      BY <1>5 DEF LastUpTo
    <2>3. QED
      BY <1>2, <1>5, <1>8, <2>1, <2>2 DEF Shows
  <1>9. QED
    BY <1>1, <1>2, <1>3, <1>4, <1>5, <1>6, <1>7, <1>8


-----------------------------------------------------------------------------
(* Steps that leave the log and the transactions alone *)

TxnPart == LogShape /\ StatusInLog /\ WriteSets /\ CommittedInLog /\ Chain

LEMMA TxnPartSame ==
    ASSUME RecInv, UNCHANGED <<log, status, write_set, committed, disturbed>>,
           persist' \in Nat, persist' >= persist
    PROVE  TxnPart'
  <1>1. /\ \A t, i : Current(t, i)' <=> Current(t, i)
        /\ \A i, j : SameTxn(i, j)' <=> SameTxn(i, j)
        /\ \A i : (IsData(i)' <=> IsData(i)) /\ (Winner(i)' <=> Winner(i))
        /\ \A rid : Writes(rid)' = Writes(rid)
    BY SameLog DEF RecInv
  <1>2. LogShape'
    <2>1. \A i \in DOMAIN log' : log'[i].type \in EndType => i <= persist'
      BY LogTypes DEF RecInv, LogShape
    <2>2. QED
      BY <1>1, <2>1 DEF RecInv, LogShape
  <1>3. StatusInLog'
    BY <1>1 DEF RecInv, StatusInLog, TxnInLog
  <1>4. WriteSets'
    BY <1>1 DEF RecInv, WriteSets
  <1>5. CommittedInLog'
    BY <1>1 DEF RecInv, CommittedInLog
  <1>6. Chain'
    BY <1>1 DEF RecInv, Chain
  <1>7. QED
    BY <1>2, <1>3, <1>4, <1>5, <1>6 DEF TxnPart

\* The same of the pages in memory, and of those on disk.
LEMMA MemSame ==
    ASSUME RecInv, UNCHANGED <<log, status, write_set, committed, disturbed, mem, num_pages>>,
           mode # "failed", (mode = "redo" => (mode' = "redo" /\ pos' = pos) \/ pos > Len(log))
    PROVE  /\ MemShows' /\ Applied' /\ OwnChanges'
           /\ (mode \in {"running", "closing", "save"} => Settled')
  <1>1. /\ \A t, i : Current(t, i)' <=> Current(t, i)
        /\ \A rid : Writes(rid)' = Writes(rid)
        /\ \A rid, val, m : Shows(val, rid, m) => Shows(val, rid, m)'
    BY SameLog DEF RecInv
  <1>2. \A rid : Record(rid)' = Record(rid)
    BY DEF Record, At
  <1>3. \A t, rid : Wrote(t, rid)' <=> Wrote(t, rid)
    BY DEF Wrote
  <1>4. Applied'
    <2>1. ASSUME NEW rid \in Rid \ disturbed, NEW i \in Writes(rid), (mode' = "redo" => i < pos')
          PROVE  rid.page <= num_pages[rid.tab] /\ i <= LsnOf(mem, rid) + 1
      <3>1. pos \in Nat /\ i \in 1..Len(log) /\ Len(log) \in Nat
        <4>1. pos \in 0..(Bound.log + 1) /\ Bound.log \in Nat
          BY Types, BoundFacts DEF RecInv, LogInv
        <4>2. QED
          BY <4>1, LogTypes, WritesTypes DEF RecInv
      <3>2. mode = "redo" => i < pos
        BY <2>1, <3>1
      <3>3. QED
        BY <3>2 DEF RecInv, Applied
    <2>2. QED
      BY <1>1, <2>1 DEF Applied, LsnOf
  <1>5. OwnChanges'
    BY <1>1, <1>2 DEF RecInv, OwnChanges
  <1>6. ASSUME mode \in {"running", "closing", "save"} PROVE Settled'
    BY <1>2, <1>3, <1>6 DEF RecInv, Settled
  <1>7. ASSUME NEW rid \in Rid \ disturbed, rid.page <= num_pages[rid.tab]
        PROVE Shows(At(mem, rid), rid, LsnOf(mem, rid) + 1)'
    <2>1. Shows(At(mem, rid), rid, LsnOf(mem, rid) + 1)
      BY <1>7 DEF RecInv, MemShows
    <2>2. PICK v, m : v = At(mem, rid) /\ m = LsnOf(mem, rid) + 1
      OBVIOUS
    <2>3. Shows(v, rid, m)'
      BY <1>1, <2>1, <2>2
    <2>4. v = At(mem, rid)' /\ m = (LsnOf(mem, rid) + 1)'
      BY <2>2 DEF At, LsnOf
    <2>5. QED
      BY <2>3, <2>4
  <1>8. MemShows'
    BY <1>7 DEF MemShows
  <1>9. QED
    BY <1>4, <1>5, <1>6, <1>8

LEMMA DiskSame ==
    ASSUME RecInv, UNCHANGED <<log, disk, disturbed>>,
           \A t \in TxnId : status'[t] = "active" <=> status[t] = "active"
    PROVE  DiskShows'
  <1>1. \A rid, val, m : Shows(val, rid, m) => Shows(val, rid, m)'
    BY SameLog DEF RecInv
  <1>2. ASSUME NEW rid \in Rid \ disturbed PROVE Shows(At(disk, rid), rid, LsnOf(disk, rid) + 1)'
    <2>1. PICK v, m : v = At(disk, rid) /\ m = LsnOf(disk, rid) + 1
      OBVIOUS
    <2>2. Shows(v, rid, m)
      BY <1>2, <2>1 DEF RecInv, DiskShows
    <2>3. Shows(v, rid, m)'
      BY <1>1, <2>2
    <2>4. v = At(disk, rid)' /\ m = (LsnOf(disk, rid) + 1)'
      BY <2>1 DEF At, LsnOf
    <2>5. QED
      BY <2>3, <2>4
  <1>3. QED
    BY <1>2 DEF DiskShows


\* The log is flushed, the server closes, a header is written, recovery goes from one phase to the
\* next, or nothing happens.
LEMMA QuietStep ==
    ASSUME RecInv, LogInv', UNCHANGED <<log, status, write_set, committed, disturbed, mem, num_pages>>,
           mode # "failed", disk' = disk, persist' \in {persist, Len(log)},
           \/ mode' = mode /\ pos' = pos
           \/ mode = "running" /\ mode' = "closing"
           \/ mode = "save" /\ mode' = "running"
           \/ mode = "redo" /\ pos > Len(log) /\ mode' = "undo" /\ pos' = Len(log)
    PROVE  RecInv'
  <1>1. TxnPart'
    <2>1. persist' \in Nat /\ persist' >= persist
      BY LogTypes DEF RecInv
    <2>2. QED
      BY <2>1, TxnPartSame
  <1>2. DiskShows'
    BY DiskSame
  <1>3. MemShows' /\ Applied' /\ OwnChanges' /\ (mode \in {"running", "closing", "save"} => Settled')
    BY MemSame
  <1>4. InRecovery'
    <2>1. \A rid : Undisturbed(rid)' <=> Undisturbed(rid)
      BY SameLog DEF RecInv
    <2>2. QED
      BY <2>1 DEF RecInv, InRecovery
  <1>5. Settled'
    BY <1>3 DEF Settled
  <1>6. /\ \A rid : Writes(rid)' = Writes(rid)
        /\ \A i \in DOMAIN log : Lost(i)' <=> Lost(i)
    BY SameLog DEF RecInv
  <1>7. \A rid : Record(rid)' = Record(rid)
    BY DEF Record, At
  <1>8. UndoneSoFar'
    <2>1. CASE mode' = mode /\ pos' = pos
      <3>1. \A rid : \A i \in Writes(rid) : Lost(i)' <=> Lost(i)
        BY <1>6 DEF Writes
      <3>2. QED
        BY <1>6, <1>7, <2>1, <3>1 DEF RecInv, UndoneSoFar
    <2>2. CASE mode' = "undo" /\ pos' = Len(log)
      <3>1. \A rid : \A i \in Writes(rid) : ~(i > Len(log))
        BY WritesTypes, LogTypes DEF RecInv
      <3>2. QED
        BY <1>6, <2>2, <3>1 DEF UndoneSoFar
    <2>3. QED
      BY <2>1, <2>2 DEF UndoneSoFar
  <1>9. StartFailsOnly'
    BY DEF StartFailsOnly
  <1>10. QED
    BY <1>1, <1>2, <1>3, <1>4, <1>5, <1>8, <1>9 DEF RecInv, TxnPart

LEMMA WritePageRec ==
    ASSUME RecInv, LogInv', NEW tab \in Tables, NEW page \in PageNo, WritePage(tab, page)
    PROVE  RecInv'
  <1>1. /\ mode # "failed" /\ page <= num_pages[tab]
        /\ disk' = [disk EXCEPT ![tab][page] = mem[tab][page]]
        /\ persist' \in {persist, Len(log)}
        /\ UNCHANGED <<log, status, write_set, committed, disturbed, mem, num_pages, mode, pos>>
    BY DEF WritePage, processVars, ghosts
  <1>2. TxnPart'
    <2>1. persist' \in Nat /\ persist' >= persist
      BY <1>1, LogTypes DEF RecInv
    <2>2. QED
      BY <1>1, <2>1, TxnPartSame
  <1>3. MemShows' /\ Applied' /\ OwnChanges' /\ (mode \in {"running", "closing", "save"} => Settled')
    BY <1>1, MemSame
  <1>4. Settled' /\ StartFailsOnly'
    BY <1>1, <1>3 DEF Settled, StartFailsOnly
  <1>5. /\ \A rid : Undisturbed(rid)' <=> Undisturbed(rid)
        /\ \A rid : Writes(rid)' = Writes(rid)
        /\ \A i \in DOMAIN log : Lost(i)' <=> Lost(i)
        /\ \A rid, val, m : Shows(val, rid, m) => Shows(val, rid, m)'
    BY <1>1, SameLog DEF RecInv
  <1>6. InRecovery'
    BY <1>1, <1>5 DEF RecInv, InRecovery
  <1>7. UndoneSoFar'
    <2>1. \A rid : Record(rid)' = Record(rid)
      BY <1>1 DEF Record, At
    <2>2. \A rid : \A i \in Writes(rid) : Lost(i)' <=> Lost(i)
      BY <1>5 DEF Writes
    <2>3. QED
      BY <1>1, <1>5, <2>1, <2>2 DEF RecInv, UndoneSoFar
  <1>8. ASSUME NEW rid \in Rid \ disturbed PROVE Shows(At(disk, rid), rid, LsnOf(disk, rid) + 1)'
    <2>1. PICK v, m : v = At(disk, rid)' /\ m = (LsnOf(disk, rid) + 1)'
      OBVIOUS
    <2>2. disk \in PagesType /\ rid.tab \in Tables /\ rid.page \in PageNo
      BY Types, RidFields DEF RecInv, LogInv
    <2>3. Shows(v, rid, m)
      <3>1. CASE rid.tab = tab /\ rid.page = page
        <4>1. disk'[rid.tab][rid.page] = mem[rid.tab][rid.page]
          BY <1>1, <2>2, <3>1 DEF PagesType
        <4>2. v = At(mem, rid) /\ m = LsnOf(mem, rid) + 1
          BY <2>1, <4>1 DEF At, LsnOf
        <4>3. QED
          BY <1>1, <1>8, <3>1, <4>2 DEF RecInv, MemShows
      <3>2. CASE ~(rid.tab = tab /\ rid.page = page)
        <4>1. disk'[rid.tab][rid.page] = disk[rid.tab][rid.page]
          BY <1>1, <2>2, <3>2 DEF PagesType
        <4>2. v = At(disk, rid) /\ m = LsnOf(disk, rid) + 1
          BY <2>1, <4>1 DEF At, LsnOf
        <4>3. QED
          BY <1>8, <4>2 DEF RecInv, DiskShows
      <3>3. QED
        BY <3>1, <3>2
    <2>4. Shows(v, rid, m)'
      BY <1>5, <2>3
    <2>5. QED
      BY <2>1, <2>4
  <1>9. DiskShows'
    BY <1>1, <1>8 DEF DiskShows
  <1>10. QED
    BY <1>2, <1>3, <1>4, <1>6, <1>7, <1>9 DEF RecInv, TxnPart


-----------------------------------------------------------------------------
(* Recovery: undo() *)

\* In recovery, a transaction that has not committed is lost, and its changes of a record are the
\* last ones.
LEMMA Alike ==
    ASSUME RecInv, mode \in {"redo", "undo"}, NEW rid \in Rid \ disturbed, NEW i \in Writes(rid)
    PROVE  /\ Lost(i) <=> ~Winner(i)
           /\ \A k \in DOMAIN log : log[k].tid = log[i].tid /\ log[k].type \notin EndType =>
                 (Winner(k) <=> Winner(i))
           /\ \A j \in Writes(rid) : Lost(i) /\ j > i => SameTxn(i, j)
           /\ \A j \in Writes(rid) : log[j].tid = log[i].tid => (Lost(j) <=> Lost(i))
  <1>1. LogInv
    BY DEF RecInv
  <1>2. \A j \in Writes(rid) : /\ Lost(j) <=> ~Winner(j)
                               /\ j \in DOMAIN log /\ log[j].type \notin EndType /\ IsData(j)
                               /\ log[j].rid = rid /\ j \in 1..Len(log) /\ Len(log) \in Nat
    <2>1. \A t \in TxnId : status[t] # "active"
      BY DEF RecInv, InRecovery
    <2>2. QED
      BY <1>1, <2>1, WritesTypes, LogTypes DEF Lost, IsData, DataType, EndType
  <1>3. Undisturbed(rid)
    BY DEF RecInv, InRecovery
  <1>4. i \in {k \in DOMAIN log : IsData(k) /\ log[k].rid = rid}
    BY <1>2
  <1>5. /\ \A k \in DOMAIN log : log[k].tid = log[i].tid /\ log[k].type \notin EndType =>
                 (Winner(k) <=> Winner(i))
        /\ Winner(i) \/ \A j \in (i + 1)..Len(log) : IsData(j) /\ log[j].rid = rid => SameTxn(i, j)
    BY <1>3, <1>4 DEF Undisturbed
  <1>6. \A j \in Writes(rid) : Lost(i) /\ j > i => SameTxn(i, j)
    <2>1. ASSUME NEW j \in Writes(rid), Lost(i), j > i PROVE SameTxn(i, j)
      <3>1. j \in (i + 1)..Len(log)
        BY <1>2, <2>1
      <3>2. QED
        BY <1>2, <1>5, <2>1, <3>1
    <2>2. QED
      BY <2>1
  <1>7. \A j \in Writes(rid) : log[j].tid = log[i].tid => (Lost(j) <=> Lost(i))
    BY <1>2, <1>5
  <1>8. QED
    BY <1>2, <1>5, <1>6, <1>7

\* The test of undo() finds the changes of the transactions that have not committed.
LEMMA UndoTest ==
    ASSUME RecInv, mode \in {"redo", "undo"}, NEW rid \in Rid \ disturbed, NEW i \in Writes(rid)
    PROVE  ToUndo(log[i].tid) <=> Lost(i)
  <1>1. LogInv /\ LogShape
    BY DEF RecInv
  <1>2. PICK t \in TxnId : t = log[i].tid
    BY <1>1, WritesTypes
  <1>3. /\ i \in 1..Len(log) /\ Len(log) \in Nat /\ DOMAIN log = 1..Len(log) /\ IsData(i)
    BY <1>1, WritesTypes, LogTypes
  <1>4. \A k \in DOMAIN log : log[k].tid = t /\ log[k].type \notin EndType => (Winner(k) <=> Winner(i))
    BY <1>2, Alike
  <1>5. Lost(i) <=> ~Winner(i)
    BY Alike
  <1>6. \A k \in DOMAIN log : log[k].tid = t =>
            \E b \in 1..k : log[b] = BeginOf(t) /\ SameTxn(b, k)
    BY <1>1 DEF LogShape
  <1>7. BeginOf(t).tid = t /\ BeginOf(t).type = "begin" /\ "begin" \notin EndType /\ "commit" \in EndType
        /\ AbortOf(t).type = "ABORT" /\ AbortOf(t).tid = t
    BY DEF BeginOf, AbortOf, EndType
  <1>8. ASSUME ~Winner(i), ~ToUndo(t) PROVE FALSE
    <2>1. PICK b \in 1..i : log[b] = BeginOf(t)
      BY <1>2, <1>3, <1>6
    <2>2. t \notin active_txns /\ \A k \in DOMAIN log : log[k] # AbortOf(t)
      BY <1>8 DEF ToUndo, aborted_txns, AbortOf
    <2>3. PICK k \in (b + 1)..Len(log) : Ends(k, t)
      <3>1. b \in DOMAIN log
        BY <1>3, <2>1
      <3>2. QED
        BY <1>7, <2>1, <2>2, <3>1 DEF active_txns
    <2>4. k \in DOMAIN log /\ log[k].tid = t /\ log[k].type = "commit"
      <3>1. k \in DOMAIN log
        BY <1>3, <2>1, <2>3
      <3>2. log[k] \in LogRecord /\ log[k].tid = t /\ log[k].type \in EndType
        BY <1>1, <2>3, <3>1, LogTypes DEF Ends
      <3>3. log[k].type = "ABORT" => log[k] = AbortOf(t)
        BY <3>2 DEF LogRecord, DataRecord, ControlRecord, DataType, EndType, AbortOf
      <3>4. QED
        BY <2>2, <3>1, <3>2, <3>3 DEF EndType
    <2>5. PICK c \in 1..k : log[c] = BeginOf(t) /\ SameTxn(c, k)
      BY <1>6, <2>4
    <2>6. c # k
      BY <1>7, <2>4, <2>5
    <2>7. k \in (c + 1)..Len(log) /\ c \in DOMAIN log
      BY <1>3, <2>4, <2>5, <2>6
    <2>8. \A a \in (c + 1)..k : log[a] # AbortOf(log[c].tid)
      BY <1>3, <1>7, <2>2, <2>5, <2>7
    <2>9. Winner(c)
      BY <2>4, <2>5, <2>7, <2>8 DEF Winner, AbortOf
    <2>10. QED
      BY <1>4, <1>7, <1>8, <2>5, <2>7, <2>9
  <1>9. ASSUME Winner(i), t \in active_txns PROVE FALSE
    <2>1. PICK k \in DOMAIN log : /\ log[k].tid = t /\ (log[k].type = "begin" \/ IsData(k))
                                  /\ ~\E j \in (k + 1)..Len(log) : Ends(j, t)
      BY <1>9 DEF active_txns
    <2>2. Winner(k)
      BY <1>4, <1>9, <2>1 DEF IsData, DataType, EndType
    <2>3. PICK j \in (k + 1)..Len(log) : log[j].type = "commit" /\ SameTxn(k, j)
      BY <2>2 DEF Winner
    <2>4. QED
      BY <1>7, <2>1, <2>3 DEF Ends, SameTxn
  <1>10. ASSUME Winner(i), t \in aborted_txns PROVE FALSE
    <2>1. PICK a \in DOMAIN log : log[a] = AbortOf(t)
      BY <1>10 DEF aborted_txns, AbortOf
    <2>2. PICK b \in 1..a : log[b] = BeginOf(t) /\ SameTxn(b, a)
      BY <1>6, <1>7, <2>1
    <2>3. b \in DOMAIN log /\ b < a
      BY <1>3, <1>7, <2>1, <2>2
    <2>4. Winner(b)
      BY <1>4, <1>7, <1>10, <2>2, <2>3
    <2>5. PICK j \in (b + 1)..Len(log) :
              /\ log[j].type = "commit" /\ SameTxn(b, j)
              /\ \A k \in (b + 1)..j : log[k] # AbortOf(t)
      BY <1>7, <2>2, <2>4 DEF Winner, AbortOf
    <2>6. j < a /\ j \in DOMAIN log /\ log[j].tid = t
      BY <1>3, <1>7, <2>1, <2>2, <2>3, <2>5 DEF SameTxn
    <2>7. PICK c \in (j + 1)..a : log[c] = BeginOf(t)
      BY <1>1, <1>7, <2>1, <2>5, <2>6 DEF LogShape
    <2>8. c \in (b + 1)..a
      BY <1>3, <2>3, <2>5, <2>6, <2>7
    <2>9. QED
      BY <1>7, <2>2, <2>7, <2>8 DEF SameTxn, BeginOf
  <1>11. QED
    BY <1>2, <1>5, <1>8, <1>9, <1>10 DEF ToUndo


\* Pages, slots and stamps.
LEMMA PutAt ==
    ASSUME NEW pages \in PagesType, NEW rid \in Rid, NEW val \in Content, NEW r \in Rid
    PROVE  /\ At(Put(pages, rid, val), r) = IF r = rid THEN val ELSE At(pages, r)
           /\ LsnOf(Put(pages, rid, val), r) = LsnOf(pages, r)
  <1>1. PICK tb \in Tables, pg \in PageNo, sl \in Slot :
            tb = rid.tab /\ pg = rid.page /\ sl = rid.slot
    BY RidFields
  <1> DEFINE page == [pages[tb][pg] EXCEPT !.row[sl] = val]
  <1>2. Put(pages, rid, val) = [pages EXCEPT ![tb][pg] = page]
    BY <1>1 DEF Put, PagesType
  <1>3. pages[tb][pg] \in Page
    BY DEF PagesType
  <1>4. /\ page.lsn = pages[tb][pg].lsn
        /\ \A s \in Slot : page.row[s] = IF s = sl THEN val ELSE pages[tb][pg].row[s]
    BY <1>3 DEF Page
  <1>5. r.tab \in Tables /\ r.page \in PageNo /\ r.slot \in Slot
    BY RidFields
  <1>6. r = rid <=> r.tab = tb /\ r.page = pg /\ r.slot = sl
    BY <1>1 DEF Rid
  <1> HIDE DEF page
  <1>7. Put(pages, rid, val)[r.tab][r.page] =
            IF r.tab = tb /\ r.page = pg THEN page ELSE pages[r.tab][r.page]
    BY <1>2, <1>5 DEF PagesType
  <1>8. QED
    BY <1>4, <1>5, <1>6, <1>7 DEF At, LsnOf

LEMMA StampAt ==
    ASSUME NEW pages \in PagesType, NEW rid \in Rid, NEW lsn \in Nat, NEW r \in Rid
    PROVE  /\ At(Stamp(pages, rid, lsn), r) = At(pages, r)
           /\ LsnOf(Stamp(pages, rid, lsn), r) =
                 IF r.tab = rid.tab /\ r.page = rid.page THEN lsn ELSE LsnOf(pages, r)
  <1>1. PICK tb \in Tables, pg \in PageNo : tb = rid.tab /\ pg = rid.page
    BY RidFields
  <1> DEFINE page == [pages[tb][pg] EXCEPT !.lsn = lsn]
  <1>2. Stamp(pages, rid, lsn) = [pages EXCEPT ![tb][pg] = page]
    BY <1>1 DEF Stamp, PagesType
  <1>3. pages[tb][pg] \in Page
    BY DEF PagesType
  <1>4. page.lsn = lsn /\ page.row = pages[tb][pg].row
    BY <1>3 DEF Page
  <1>5. r.tab \in Tables /\ r.page \in PageNo
    BY RidFields
  <1> HIDE DEF page
  <1>6. Stamp(pages, rid, lsn)[r.tab][r.page] =
            IF r.tab = tb /\ r.page = pg THEN page ELSE pages[r.tab][r.page]
    BY <1>2, <1>5 DEF PagesType
  <1>7. QED
    BY <1>1, <1>4, <1>6 DEF At, LsnOf

\* What is known of the pages and of pos.
LEMMA PageTypes ==
    ASSUME RecInv
    PROVE  /\ mem \in PagesType /\ disk \in PagesType /\ num_pages \in [Tables -> 0..MaxPages]
           /\ pos \in Nat /\ Len(log) \in Nat /\ persist \in Nat /\ persist <= Len(log)
           /\ \A r \in Rid : LsnOf(mem, r) \in Nat /\ LsnOf(disk, r) \in Nat
           /\ \A r \in Rid : At(mem, r) \in Content
           /\ \A r \in Rid : r.tab \in Tables /\ r.page \in Nat /\ num_pages[r.tab] \in Nat
  <1>1. /\ mem \in PagesType /\ disk \in PagesType /\ num_pages \in [Tables -> 0..MaxPages]
        /\ pos \in 0..(Bound.log + 1) /\ Bound.log \in Nat
        /\ Len(log) \in Nat /\ persist \in 0..Len(log)
    BY Types, BoundFacts, LogTypes DEF RecInv, LogInv
  <1>2. ASSUME NEW r \in Rid
        PROVE  /\ LsnOf(mem, r) \in Nat /\ LsnOf(disk, r) \in Nat /\ At(mem, r) \in Content
               /\ r.tab \in Tables /\ r.page \in Nat /\ num_pages[r.tab] \in Nat
    <2>1. r.tab \in Tables /\ r.page \in PageNo /\ r.slot \in Slot /\ MaxPages \in Nat
      BY RidFields, Numbers
    <2>2. mem[r.tab][r.page] \in Page /\ disk[r.tab][r.page] \in Page
      BY <1>1, <2>1 DEF PagesType
    <2>3. LsnOf(mem, r) \in Nat /\ LsnOf(disk, r) \in Nat /\ At(mem, r) \in Content
      BY <2>1, <2>2 DEF LsnOf, At, Page
    <2>4. r.page \in Nat /\ num_pages[r.tab] \in Nat
      BY <1>1, <2>1 DEF PageNo
    <2>5. QED
      BY <2>1, <2>3, <2>4
  <1>3. QED
    BY <1>1, <1>2

\* The last change of a record is the one its page shows.
LEMMA LastShown ==
    ASSUME RecInv, mode \notin {"failed", "redo"}, NEW rid \in Rid \ disturbed
    PROVE  \/ Writes(rid) = {} /\ Record(rid) = None
           \/ /\ rid.page <= num_pages[rid.tab] /\ Record(rid) = At(mem, rid)
              /\ \E i \in Writes(rid) :
                    /\ \A j \in Writes(rid) : j <= i
                    /\ i <= LsnOf(mem, rid) + 1 /\ LastUpTo(rid, i, LsnOf(mem, rid) + 1)
                    /\ \/ Record(rid) = log[i].new
                       \/ /\ Lost(i)
                          /\ \E j \in Writes(rid) : j <= i /\ SameTxn(j, i) /\ Record(rid) = log[j].old
  <1>1. LogInv /\ Applied /\ MemShows
    BY DEF RecInv
  <1>2. CASE Writes(rid) = {}
    <2>1. rid.page <= num_pages[rid.tab] => At(mem, rid) = None
      BY <1>1, <1>2 DEF MemShows, Shows
    <2>2. QED
      BY <1>2, <2>1 DEF Record
  <1>3. CASE Writes(rid) # {}
    <2>1. /\ rid.page <= num_pages[rid.tab]
          /\ \A i \in Writes(rid) : i <= LsnOf(mem, rid) + 1 /\ i \in Nat
      BY <1>1, <1>3, WritesTypes DEF Applied
    <2>2. Record(rid) = At(mem, rid)
      BY <2>1 DEF Record
    <2>3. LsnOf(mem, rid) \in Nat
      BY PageTypes
    <2>4. Shows(At(mem, rid), rid, LsnOf(mem, rid) + 1)
      BY <1>1, <2>1 DEF MemShows
    <2>5. \A i \in Writes(rid) : ~(i > LsnOf(mem, rid) + 1)
      BY <2>1, <2>3
    <2>6. PICK i \in Writes(rid) :
            /\ LastUpTo(rid, i, LsnOf(mem, rid) + 1)
            /\ \/ At(mem, rid) = log[i].new
               \/ /\ Lost(i)
                  /\ \E j \in Writes(rid) : j <= i /\ SameTxn(j, i) /\ At(mem, rid) = log[j].old
      BY <1>3, <2>4, <2>5 DEF Shows
    <2>7. \A j \in Writes(rid) : j <= i
      BY <2>5, <2>6 DEF LastUpTo
    <2>8. QED
      BY <2>1, <2>2, <2>6, <2>7
  <1>4. QED
    BY <1>2, <1>3


\* Before undo() looks at a change that it has to take back, the record is as the change left it, or
\* further back already.
LEMMA UndoValue ==
    ASSUME RecInv, mode = "undo", NEW rid \in Rid \ disturbed, pos \in Writes(rid), Lost(pos)
    PROVE  \/ Record(rid) = log[pos].new
           \/ \E j \in Writes(rid) : Lost(j) /\ j <= pos /\ Record(rid) = log[j].old
  <1>1. LogInv /\ UndoneSoFar /\ Chain
    BY DEF RecInv
  <1>2. \A j \in Writes(rid) : j > pos => SameTxn(pos, j) /\ Lost(j) /\ log[j].tid = log[pos].tid
    BY Alike DEF SameTxn
  <1>3. \A j \in Writes(rid) : j \in Nat
    BY <1>1, WritesTypes
  <1>4. CASE \E k \in Writes(rid) : k > pos
    <2>1. PICK j \in Writes(rid) : /\ Lost(j) /\ Record(rid) = log[j].old
                                   /\ \A k \in Writes(rid) : k > pos => j <= k
      BY <1>1, <1>2, <1>4 DEF UndoneSoFar
    <2>2. CASE j <= pos
      BY <2>1, <2>2
    <2>3. CASE j > pos
      <3>1. \A k \in Writes(rid) : k <= pos \/ k >= j
        BY <1>3, <2>1
      <3>2. log[j].old = log[pos].new
        BY <1>1, <1>2, <2>3, <3>1 DEF Chain
      <3>3. QED
        BY <2>1, <3>2
    <2>4. QED
      BY <1>3, <2>2, <2>3
  <1>5. CASE \A k \in Writes(rid) : ~(k > pos)
    <2>1. PICK i \in Writes(rid) :
              /\ \A j \in Writes(rid) : j <= i
              /\ \/ Record(rid) = log[i].new
                 \/ \E j \in Writes(rid) : j <= i /\ SameTxn(j, i) /\ Record(rid) = log[j].old
      BY LastShown
    <2>2. i = pos
      BY <1>3, <1>5, <2>1
    <2>3. \A j \in Writes(rid) : SameTxn(j, pos) => Lost(j)
      BY Alike DEF SameTxn
    <2>4. QED
      BY <2>1, <2>2, <2>3
  <1>6. QED
    BY <1>4, <1>5

LEMMA UndoRec == ASSUME RecInv, LogInv', UndoOne PROVE RecInv'
  <1>1. /\ mode = "undo" /\ pos > 0 /\ pos' = pos - 1
        /\ mem' = IF IsData(pos) /\ ToUndo(log[pos].tid) THEN Undone(log[pos]) ELSE mem
        /\ UNCHANGED <<mode, log, persist, disk, num_pages, status, write_set, committed, disturbed>>
    BY DEF UndoOne, processVars, ghosts
  <1>2. LogInv /\ Applied /\ MemShows /\ UndoneSoFar /\ LogShape
    BY DEF RecInv
  <1>3. TxnPart' /\ DiskShows'
    <2>1. persist' \in Nat /\ persist' >= persist
      BY <1>1, PageTypes
    <2>2. QED
      BY <1>1, <2>1, TxnPartSame, DiskSame
  <1>4. /\ \A rid : Undisturbed(rid)' <=> Undisturbed(rid)
        /\ \A rid : Writes(rid)' = Writes(rid)
        /\ \A i \in DOMAIN log : Lost(i)' <=> Lost(i)
        /\ \A rid, val, m : Shows(val, rid, m) => Shows(val, rid, m)'
    BY <1>1, <1>2, SameLog
  <1>5. InRecovery'
    BY <1>1, <1>4 DEF RecInv, InRecovery
  <1>6. \A t \in TxnId : status'[t] = "none" /\ write_set'[t] = <<>>
    BY <1>1 DEF RecInv, InRecovery
  <1>7. OwnChanges' /\ Settled' /\ StartFailsOnly'
    BY <1>1, <1>6 DEF OwnChanges, Settled, StartFailsOnly
  <1>8. pos \in DOMAIN log /\ pos \in Nat
    BY <1>1, <1>2, PageTypes, LogTypes DEF LogInv, PosInLog
  \* Only the record of a change that is taken back can be touched.
  <1>9. ASSUME NEW rid \in Rid
        PROVE  /\ LsnOf(mem', rid) = LsnOf(mem, rid)
               /\ \/ At(mem', rid) = At(mem, rid)
                  \/ pos \in Writes(rid) /\ ToUndo(log[pos].tid)
    <2>1. CASE mem' = mem
      BY <2>1
    <2>2. CASE mem' # mem
      <3>1. IsData(pos) /\ ToUndo(log[pos].tid) /\ mem' = Undone(log[pos])
        BY <1>1, <2>2
      <3>2. PICK r \in Rid : r = log[pos].rid /\ pos \in Writes(r)
        <4>1. pos \in Writes(log[pos].rid)
          BY <1>8, <3>1 DEF Writes
        <4>2. QED
          BY <1>2, <4>1, WritesTypes
      <3>3. PICK val \in Content : mem' = Put(mem, r, val)
        <4>1. log[pos].old \in Content /\ None \in Content
          BY <1>2, <3>2, WritesTypes DEF Content
        <4>2. QED
          BY <2>2, <3>1, <3>2, <4>1 DEF Undone
      <3>4. QED
        BY <3>1, <3>2, <3>3, PutAt, PageTypes
    <2>3. QED
      BY <2>1, <2>2
  \* It is taken back, unless that was done before.
  <1>10. ASSUME NEW rid \in Rid \ disturbed, pos \in Writes(rid), Lost(pos)
         PROVE  /\ rid.page <= num_pages[rid.tab]
                /\ \/ At(mem', rid) = log[pos].old
                   \/ /\ At(mem', rid) = At(mem, rid)
                      /\ \E j \in Writes(rid) : Lost(j) /\ j <= pos /\ At(mem, rid) = log[j].old
    <2>1. ToUndo(log[pos].tid) /\ IsData(pos) /\ log[pos].rid = rid /\ log[pos] \in DataRecord
          /\ log[pos].old \in Content /\ None \in Content
      BY <1>1, <1>2, <1>10, UndoTest, WritesTypes DEF Content
    <2>2. PICK rec \in DataRecord : rec = log[pos]
      BY <2>1
    <2>3. Fits(rec) /\ rec.type \in DataType /\ rec.rid = rid /\ rec.old \in Content
      BY <1>2, <1>8, <2>1, <2>2 DEF LogShape, DataRecord
    <2>4. rid.page <= num_pages[rid.tab]
      BY <1>1, <1>2, <1>10 DEF Applied
    <2>5. Record(rid) = At(mem, rid)
      BY <2>4 DEF Record
    <2>6. \/ At(mem, rid) = rec.new
          \/ \E j \in Writes(rid) : Lost(j) /\ j <= pos /\ At(mem, rid) = log[j].old
      BY <1>1, <1>10, <2>2, <2>5, UndoValue
    <2>7. mem' = Undone(rec)
      BY <1>1, <2>1, <2>2
    <2>8. At(Put(mem, rid, None), rid) = None /\ At(Put(mem, rid, rec.old), rid) = rec.old
      BY <2>1, <2>3, PutAt, PageTypes
    <2>9. CASE rec.type = "INSERT"
      <3>1. rec.old = None
        BY <2>3, <2>9 DEF Fits
      <3>2. CASE At(mem, rid) = None
        <4>1. mem' = mem
          BY <2>3, <2>5, <2>7, <2>9, <3>2 DEF Undone
        <4>2. QED
          BY <2>2, <2>4, <3>1, <3>2, <4>1
      <3>3. CASE At(mem, rid) # None
        <4>1. mem' = Put(mem, rid, None)
          BY <2>3, <2>5, <2>7, <2>9, <3>3 DEF Undone
        <4>2. QED
          BY <2>2, <2>4, <2>8, <3>1, <4>1
      <3>4. QED
        BY <3>2, <3>3
    <2>10. CASE rec.type = "DELETE"
      <3>1. rec.new = None
        BY <2>3, <2>10 DEF Fits
      <3>2. CASE At(mem, rid) # None
        <4>1. mem' = mem
          BY <2>3, <2>5, <2>7, <2>10, <3>2 DEF Undone
        <4>2. QED
          BY <2>4, <2>6, <3>1, <3>2, <4>1
      <3>3. CASE At(mem, rid) = None
        <4>1. mem' = Put(mem, rid, rec.old)
          BY <2>3, <2>5, <2>7, <2>10, <3>3 DEF Undone
        <4>2. QED
          BY <2>2, <2>4, <2>8, <4>1
      <3>4. QED
        BY <3>2, <3>3
    <2>11. CASE rec.type = "UPDATE"
      <3>1. rec.new # None
        BY <2>3, <2>11 DEF Fits
      <3>2. CASE At(mem, rid) = None
        <4>1. mem' = mem
          BY <2>3, <2>5, <2>7, <2>11, <3>2 DEF Undone
        <4>2. QED
          BY <2>4, <2>6, <3>1, <3>2, <4>1
      <3>3. CASE At(mem, rid) # None
        <4>1. mem' = Put(mem, rid, rec.old)
          BY <2>3, <2>5, <2>7, <2>11, <3>3 DEF Undone
        <4>2. QED
          BY <2>2, <2>4, <2>8, <4>1
      <3>4. QED
        BY <3>2, <3>3
    <2>12. QED
      BY <2>3, <2>9, <2>10, <2>11 DEF DataType
  <1>11. MemShows'
    <2>1. ASSUME NEW rid \in Rid \ disturbed, rid.page <= num_pages[rid.tab]
          PROVE  Shows(At(mem, rid), rid, LsnOf(mem, rid) + 1)'
      <3>1. PICK v, m : v = At(mem, rid)' /\ m = (LsnOf(mem, rid) + 1)'
        OBVIOUS
      <3>2. v = At(mem', rid) /\ m = LsnOf(mem, rid) + 1
        BY <1>9, <3>1 DEF At, LsnOf
      <3>3. Shows(v, rid, m)
        <4>1. CASE At(mem', rid) = At(mem, rid)
          BY <1>1, <1>2, <2>1, <3>2, <4>1 DEF MemShows
        <4>2. CASE At(mem', rid) # At(mem, rid)
          <5>1. pos \in Writes(rid) /\ Lost(pos)
            BY <1>1, <1>9, <4>2, UndoTest
          <5>2. At(mem', rid) = log[pos].old
            BY <1>10, <4>2, <5>1
          <5>3. PICK i \in Writes(rid) : (\A j \in Writes(rid) : j <= i) /\ LastUpTo(rid, i, m)
            BY <1>1, <3>2, <5>1, LastShown
          <5>4. pos <= i /\ i \in Nat
            BY <1>2, <5>1, <5>3, WritesTypes
          <5>5. SameTxn(pos, i)
            <6>1. CASE pos = i
              BY <1>2, <1>8, <6>1, Ordered
            <6>2. CASE pos < i
              BY <1>1, <5>1, <6>2, Alike
            <6>3. QED
              BY <1>8, <5>4, <6>1, <6>2
          <5>6. Lost(i)
            BY <1>1, <5>1, <5>5, Alike DEF SameTxn
          <5>7. QED
            BY <3>2, <5>1, <5>2, <5>3, <5>4, <5>5, <5>6 DEF Shows
        <4>3. QED
          BY <4>1, <4>2
      <3>4. Shows(v, rid, m)'
        BY <1>4, <3>3
      <3>5. QED
        BY <3>1, <3>4
    <2>2. QED
      BY <1>1, <2>1 DEF MemShows
  <1>12. Applied'
    <2>1. ASSUME NEW rid \in Rid \ disturbed, NEW i \in Writes(rid)
          PROVE  rid.page <= num_pages[rid.tab] /\ i <= LsnOf(mem', rid) + 1
      BY <1>1, <1>2, <1>9, <2>1 DEF Applied
    <2>2. QED
      BY <1>1, <1>4, <2>1 DEF Applied, LsnOf
  <1>13. UndoneSoFar'
    <2>1. ASSUME NEW rid \in Rid \ disturbed, NEW k0 \in Writes(rid), k0 > pos - 1, Lost(k0)
          PROVE  \E j \in Writes(rid) : /\ Lost(j) /\ Record(rid)' = log[j].old
                                        /\ \A k \in Writes(rid) : k > pos - 1 /\ Lost(k) => j <= k
      <3>1. \A k \in Writes(rid) : k \in Nat
        BY <1>2, WritesTypes
      <3>2. rid.page <= num_pages[rid.tab]
        BY <1>1, <1>2 DEF Applied
      <3>3. Record(rid)' = At(mem', rid) /\ Record(rid) = At(mem, rid)
        BY <1>1, <3>2 DEF Record, At
      <3>4. CASE pos \in Writes(rid) /\ Lost(pos)
        <4>1. \A k \in Writes(rid) : k > pos - 1 => pos <= k
          BY <1>8, <3>1
        <4>2. PICK j \in Writes(rid) : Lost(j) /\ j <= pos /\ At(mem', rid) = log[j].old
          BY <1>8, <1>10, <3>4
        <4>3. \A k \in Writes(rid) : k > pos - 1 => j <= k
          BY <1>8, <3>1, <4>1, <4>2
        <4>4. QED
          BY <3>3, <4>2, <4>3
      <3>5. CASE ~(pos \in Writes(rid) /\ Lost(pos))
        <4>1. \A k \in Writes(rid) : k > pos - 1 /\ Lost(k) => k > pos
          BY <1>8, <3>1, <3>5
        <4>2. At(mem', rid) = At(mem, rid)
          BY <1>1, <1>9, <3>5, UndoTest
        <4>3. PICK j \in Writes(rid) : /\ Lost(j) /\ Record(rid) = log[j].old
                                       /\ \A k \in Writes(rid) : k > pos /\ Lost(k) => j <= k
          BY <1>1, <1>2, <2>1, <4>1 DEF UndoneSoFar
        <4>4. QED
          BY <3>3, <4>1, <4>2, <4>3
      <3>6. QED
        BY <3>4, <3>5
    <2>2. \A rid : \A i \in Writes(rid) : Lost(i)' <=> Lost(i)
      BY <1>4 DEF Writes
    <2>3. QED
      BY <1>1, <1>4, <2>1, <2>2 DEF UndoneSoFar
  <1>14. QED
    BY <1>3, <1>5, <1>7, <1>11, <1>12, <1>13 DEF RecInv, TxnPart


\* When undo() has gone through the log, every record has its committed value.
LEMMA AllUndone ==
    ASSUME RecInv, mode = "undo", pos = 0, NEW rid \in Rid \ disturbed
    PROVE  Record(rid) = committed[rid]
  <1>1. LogInv /\ UndoneSoFar /\ Chain /\ CommittedInLog
    BY DEF RecInv
  <1>2. \A i \in Writes(rid) : i \in Nat /\ i > 0 /\ (Lost(i) <=> ~Winner(i))
    BY <1>1, WritesTypes, Alike
  <1>3. CASE \A i \in Writes(rid) : Winner(i)
    <2>1. CASE Writes(rid) = {}
      <3>1. Record(rid) = None
        BY <2>1, LastShown
      <3>2. committed[rid] = None
        BY <1>1, <2>1 DEF CommittedInLog
      <3>3. QED
        BY <3>1, <3>2
    <2>2. CASE Writes(rid) # {}
      <3>1. PICK i \in Writes(rid) : (\A j \in Writes(rid) : j <= i) /\ Record(rid) = log[i].new
        BY <1>2, <1>3, <2>2, LastShown
      <3>2. \A j \in Writes(rid) : j > i => ~Winner(j)
        BY <1>2, <3>1
      <3>3. committed[rid] = log[i].new
        BY <1>1, <1>3, <3>1, <3>2 DEF CommittedInLog
      <3>4. QED
        BY <3>1, <3>3
    <2>3. QED
      BY <2>1, <2>2
  <1>4. CASE \E i \in Writes(rid) : ~Winner(i)
    <2>1. PICK j \in Writes(rid) : /\ Lost(j) /\ Record(rid) = log[j].old
                                   /\ \A k \in Writes(rid) : Lost(k) => j <= k
      BY <1>1, <1>2, <1>4 DEF UndoneSoFar
    <2>2. \A k \in Writes(rid) : k > j => Lost(k)
      BY <2>1, Alike DEF SameTxn
    <2>3. \A k \in Writes(rid) : Winner(k) <=> k < j
      BY <1>2, <2>1, <2>2
    <2>4. CASE \A k \in Writes(rid) : k >= j
      <3>1. committed[rid] = None
        BY <1>1, <1>2, <2>3, <2>4 DEF CommittedInLog
      <3>2. log[j].old = None
        BY <1>1, <2>4 DEF Chain
      <3>3. QED
        BY <2>1, <3>1, <3>2
    <2>5. CASE \E k \in Writes(rid) : k <= j - 1
      <3>1. PICK p \in Writes(rid) : LastUpTo(rid, p, j - 1)
        BY <1>1, <1>2, <2>5, LastWrite
      <3>2. p < j /\ \A k \in Writes(rid) : k <= p \/ k >= j
        BY <1>2, <3>1 DEF LastUpTo
      <3>3. Winner(p) /\ \A k \in Writes(rid) : k > p => ~Winner(k)
        BY <1>2, <2>3, <3>2
      <3>4. log[j].old = log[p].new
        BY <1>1, <3>2, <3>3 DEF Chain
      <3>5. committed[rid] = log[p].new
        BY <1>1, <3>3 DEF CommittedInLog
      <3>6. QED
        BY <2>1, <3>4, <3>5
    <2>6. QED
      BY <1>2, <2>4, <2>5
  <1>5. QED
    BY <1>3, <1>4

LEMMA UndoEndRec == ASSUME RecInv, LogInv', UndoEnd PROVE RecInv'
  <1>1. /\ mode = "undo" /\ pos = 0 /\ mode' = "save"
        /\ UNCHANGED <<log, persist, disk, mem, num_pages, status, write_set, committed, disturbed, pos>>
    BY DEF UndoEnd, processVars, ghosts, fileVars
  <1>2. TxnPart'
    <2>1. persist' \in Nat /\ persist' >= persist
      BY <1>1, PageTypes
    <2>2. QED
      BY <1>1, <2>1, TxnPartSame
  <1>3. DiskShows' /\ MemShows' /\ Applied' /\ OwnChanges'
    BY <1>1, MemSame, DiskSame
  <1>4. InRecovery'
    <2>1. \A rid : Undisturbed(rid)' <=> Undisturbed(rid)
      BY <1>1, SameLog DEF RecInv
    <2>2. QED
      BY <1>1, <2>1 DEF RecInv, InRecovery
  <1>5. Settled'
    <2>1. \A rid : Record(rid)' = Record(rid)
      BY <1>1 DEF Record, At
    <2>2. QED
      BY <1>1, <2>1, AllUndone DEF Settled
  <1>6. UndoneSoFar' /\ StartFailsOnly'
    BY <1>1 DEF UndoneSoFar, StartFailsOnly
  <1>7. QED
    BY <1>2, <1>3, <1>4, <1>5, <1>6 DEF RecInv, TxnPart

-----------------------------------------------------------------------------
(* Recovery: a restart *)

LEMMA RestartRec == ASSUME RecInv, LogInv', Restart PROVE RecInv'
  <1>1. /\ mode' = "redo" /\ pos' = 1 /\ log' = SubSeq(log, 1, persist)
        /\ mem' = disk /\ num_pages' = hdr /\ disk' = disk /\ persist' = persist
        /\ committed' = committed
        /\ \A t \in TxnId : status'[t] = "none" /\ write_set'[t] = <<>>
        /\ disturbed \subseteq disturbed'
        /\ \A rid \in Rid \ disturbed' : Undisturbed(rid)'
    BY DEF Restart
  <1>2. LogInv /\ LogShape /\ CommittedInLog /\ Chain /\ DiskShows
    BY DEF RecInv
  <1>3. PICK m \in Nat : m = persist
    BY PageTypes
  <1>4. /\ m <= Len(log) /\ Len(log) \in Nat /\ Len(log') = m
        /\ DOMAIN log = 1..Len(log) /\ DOMAIN log' = 1..m
        /\ \A k \in 1..m : log'[k] = log[k]
    BY <1>1, <1>2, <1>3, LogTypes
  <1>5. /\ \A i, j \in 1..m : SameTxn(i, j)' <=> SameTxn(i, j)
        /\ \A i \in 1..m : IsData(i)' <=> IsData(i)
        /\ \A rid : \A i \in 1..m : i \in Writes(rid)' <=> i \in Writes(rid)
    BY <1>2, <1>4, Prefix
  <1>6. \A k \in DOMAIN log : log[k].type \in EndType => k <= m
    BY <1>2, <1>3 DEF LogShape
  <1>7. \A i \in 1..m : Winner(i)' <=> Winner(i)
    <2>1. \A k \in DOMAIN log : log[k].type = "commit" => k <= m
      BY <1>6 DEF EndType
    <2>2. \A k \in DOMAIN log' : log'[k].type = "commit" => k <= m
      BY <1>4
    <2>3. QED
      BY <1>2, <1>4, <2>1, <2>2, PrefixWinners
  <1>8. \A rid : /\ Writes(rid)' \subseteq 1..m /\ Writes(rid) \subseteq 1..Len(log)
                 /\ Writes(rid)' = {i \in Writes(rid) : i <= m}
    <2>1. \A rid : Writes(rid)' \subseteq 1..m /\ Writes(rid) \subseteq 1..Len(log)
      BY <1>4 DEF Writes
    <2>2. QED
      BY <1>4, <1>5, <2>1
  <1>9. \A rid : \A i \in Writes(rid) : Winner(i) => i <= m
    <2>1. ASSUME NEW i \in DOMAIN log, Winner(i) PROVE i <= m
      <3>1. PICK j \in (i + 1)..Len(log) : log[j].type = "commit"
        BY <2>1 DEF Winner
      <3>2. j <= m /\ j > i /\ j \in Nat
        BY <1>4, <1>6, <3>1 DEF EndType
      <3>3. QED
        BY <1>4, <3>2
    <2>2. QED
      BY <2>1 DEF Writes
  <1>10. LogShape'
    <2>1. ASSUME NEW i \in 1..m
          PROVE  \E b \in 1..i : log'[b] = BeginOf(log'[i].tid) /\ SameTxn(b, i)'
      <3>1. PICK b \in 1..i : log[b] = BeginOf(log[i].tid) /\ SameTxn(b, i)
        BY <1>2, <1>4 DEF LogShape
      <3>2. b \in 1..m
        BY <3>1
      <3>3. QED
        BY <1>4, <1>5, <3>1, <3>2
    <2>2. ASSUME NEW i \in 1..m, NEW j \in 1..m, i < j, log'[i].type = "commit",
                 log'[j].tid = log'[i].tid
          PROVE  \E b \in (i + 1)..j : log'[b] = BeginOf(log'[i].tid)
      <3>1. PICK b \in (i + 1)..j : log[b] = BeginOf(log[i].tid)
        BY <1>2, <1>4, <2>2 DEF LogShape
      <3>2. b \in 1..m
        BY <3>1
      <3>3. QED
        BY <1>4, <3>1, <3>2
    <2>3. \A i \in 1..m : log'[i].type \in EndType => i <= persist'
      BY <1>1, <1>3
    <2>4. \A i \in 1..m : IsData(i)' => Fits(log'[i])
      BY <1>2, <1>4, <1>5 DEF LogShape
    <2>5. QED
      BY <1>4, <2>1, <2>2, <2>3, <2>4 DEF LogShape, BeginOf, Fits
  <1>11. StatusInLog' /\ WriteSets' /\ InRecovery' /\ OwnChanges'
    BY <1>1 DEF StatusInLog, WriteSets, InRecovery, OwnChanges
  <1>12. CommittedInLog'
    <2>1. ASSUME NEW rid \in Rid, \A i \in Writes(rid)' : ~Winner(i)'
          PROVE  committed[rid] = None
      <3>1. \A i \in Writes(rid) : ~Winner(i)
        BY <1>7, <1>8, <1>9, <2>1
      <3>2. QED
        BY <1>2, <3>1 DEF CommittedInLog
    <2>2. ASSUME NEW rid \in Rid, NEW i \in Writes(rid)', Winner(i)',
                 \A j \in Writes(rid)' : j > i => ~Winner(j)'
          PROVE  committed[rid] = log'[i].new
      <3>1. i \in Writes(rid) /\ Winner(i) /\ log'[i] = log[i]
        BY <1>4, <1>7, <1>8, <2>2
      <3>2. \A j \in Writes(rid) : j > i => ~Winner(j)
        BY <1>7, <1>8, <1>9, <2>2
      <3>3. QED
        BY <1>2, <3>1, <3>2 DEF CommittedInLog
    <2>3. QED
      BY <1>1, <2>1, <2>2 DEF CommittedInLog
  <1>13. Chain'
    <2>1. ASSUME NEW rid \in Rid \ disturbed', NEW i \in Writes(rid)'
          PROVE  /\ (\A j \in Writes(rid)' : j >= i) => log'[i].old = None
                 /\ \A p \in Writes(rid)' :
                       /\ p < i /\ \A j \in Writes(rid)' : j <= p \/ j >= i
                       /\ Winner(p)' \/ SameTxn(p, i)'
                       => log'[i].old = log'[p].new
      <3>1. i \in Writes(rid) /\ i \in 1..m /\ log'[i] = log[i] /\ rid \in Rid \ disturbed
        BY <1>1, <1>4, <1>8
      <3>2. \A j \in Writes(rid) : j \in Writes(rid)' \/ j >= i
        BY <1>4, <1>8, <3>1
      <3>3. ASSUME \A j \in Writes(rid)' : j >= i PROVE log'[i].old = None
        BY <1>2, <3>1, <3>2, <3>3 DEF Chain
      <3>4. ASSUME NEW p \in Writes(rid)', p < i, \A j \in Writes(rid)' : j <= p \/ j >= i,
                   Winner(p)' \/ SameTxn(p, i)'
            PROVE  log'[i].old = log'[p].new
        <4>1. p \in Writes(rid) /\ log'[p] = log[p] /\ (Winner(p) \/ SameTxn(p, i))
          BY <1>4, <1>5, <1>7, <1>8, <3>1, <3>4
        <4>2. \A j \in Writes(rid) : j <= p \/ j >= i
          BY <3>2, <3>4
        <4>3. log[i].old = log[p].new
          BY <1>2, <3>1, <3>4, <4>1, <4>2 DEF Chain
        <4>4. QED
          BY <3>1, <4>1, <4>3
      <3>5. QED
        BY <3>3, <3>4
    <2>2. QED
      BY <2>1 DEF Chain
  <1>14. ASSUME NEW rid \in Rid \ disturbed'
         PROVE  Shows(At(disk, rid), rid, LsnOf(disk, rid) + 1)'
    <2>1. PICK v, l : v = At(disk, rid) /\ l = LsnOf(disk, rid) + 1
      OBVIOUS
    <2>2. Shows(v, rid, l) /\ l \in Nat
      BY <1>1, <1>2, <2>1, PageTypes DEF DiskShows
    <2>3. \A i \in Writes(rid) : i <= l => i <= m
      <3>1. LsnOf(disk, rid) = 0 \/ LsnOf(disk, rid) < persist
        BY <1>2, RidFields DEF LogInv, LsnOf
      <3>2. \A i \in Writes(rid) : i >= 2 /\ i \in Nat
        BY <1>2, NotFirst, WritesTypes
      <3>3. LsnOf(disk, rid) \in Nat
        BY PageTypes
      <3>4. QED
        BY <1>3, <2>1, <3>1, <3>2, <3>3
    <2>4. \A i \in Writes(rid) : i <= l => i \in 1..m /\ log'[i] = log[i] /\ (Lost(i) => Lost(i)')
      <3>1. ASSUME NEW i \in Writes(rid), i <= l
            PROVE  i \in 1..m /\ log'[i] = log[i] /\ (Lost(i) => Lost(i)')
        <4>1. i \in 1..m /\ log'[i] = log[i]
          BY <1>4, <1>8, <2>3, <3>1
        <4>2. status'[log'[i].tid] # "active"
          BY <1>1, <1>2, <4>1, WritesTypes
        <4>3. QED
          BY <1>7, <4>1, <4>2 DEF Lost
      <3>2. QED
        BY <3>1
    <2>5. \A i : i \in Writes(rid)' /\ i <= l <=> i \in Writes(rid) /\ i <= l
      BY <1>8, <2>3
    <2>6. \A i \in Writes(rid) : \A k \in Writes(rid)' :
              i <= l /\ Lost(i) /\ SameTxn(i, k)' /\ k > i => k \in Writes(rid) /\ SameTxn(i, k)
      BY <1>5, <1>8, <2>4
    <2>7. \A i, j \in Writes(rid) : i <= l /\ j <= i /\ SameTxn(j, i) => SameTxn(j, i)'
      BY <1>5, <1>8, <2>2, <2>4
    <2>8. Shows(v, rid, l)'
      BY <1>2, <2>2, <2>4, <2>5, <2>6, <2>7, ShowsKept
    <2>9. v = At(disk, rid)' /\ l = (LsnOf(disk, rid) + 1)'
      BY <1>1, <2>1 DEF At, LsnOf
    <2>10. QED
      BY <2>8, <2>9
  <1>15. DiskShows'
    BY <1>14 DEF DiskShows
  <1>16. MemShows'
    BY <1>1, <1>14 DEF MemShows, At, LsnOf
  <1>17. Applied'
    BY <1>1, <1>8 DEF Applied
  <1>18. UndoneSoFar' /\ Settled' /\ StartFailsOnly'
    BY <1>1 DEF UndoneSoFar, Settled, StartFailsOnly
  <1>19. QED
    BY <1>10, <1>11, <1>12, <1>13, <1>15, <1>16, <1>17, <1>18 DEF RecInv


-----------------------------------------------------------------------------
(* Recovery: redo() *)

LEMMA ShowsUpTo ==
    ASSUME LogInv, NEW rid, NEW m \in Nat, NEW l \in Nat, NEW val, Shows(val, rid, m), m <= l,
           \A i \in Writes(rid) : i <= m \/ i > l
    PROVE  Shows(val, rid, l)
  <1>1. \A i \in Writes(rid) : i \in Nat
    BY WritesTypes
  <1>2. \A i : LastUpTo(rid, i, m) => LastUpTo(rid, i, l)
    BY <1>1 DEF LastUpTo
  <1>3. (\A i \in Writes(rid) : i > m) => \A i \in Writes(rid) : i > l
    BY <1>1
  <1>4. QED
    BY <1>2, <1>3 DEF Shows

\* A change that redo() has to make finds the record as it was made on.
LEMMA RedoValue ==
    ASSUME RecInv, mode = "redo", NEW rid \in Rid \ disturbed, pos \in Writes(rid)
    PROVE  /\ rid.page <= num_pages[rid.tab] /\ LsnOf(mem, rid) + 1 < pos =>
                 At(mem, rid) = log[pos].old
           /\ log[pos].old # None => rid.page <= num_pages[rid.tab]
  <1>1. LogInv /\ Applied /\ Chain /\ MemShows
    BY DEF RecInv
  <1>2. \A i \in Writes(rid) : i \in Nat
    BY <1>1, WritesTypes
  <1>3. ASSUME log[pos].old # None PROVE rid.page <= num_pages[rid.tab]
    <2>1. PICK i \in Writes(rid) : ~(i >= pos)
      BY <1>1, <1>3 DEF Chain
    <2>2. i < pos
      BY <1>2, <2>1
    <2>3. QED
      BY <1>1, <2>2 DEF Applied
  <1>4. ASSUME rid.page <= num_pages[rid.tab], LsnOf(mem, rid) + 1 < pos
        PROVE  At(mem, rid) = log[pos].old
    <2>1. PICK m \in Nat : m = LsnOf(mem, rid) + 1
      BY PageTypes
    <2>2. \A i \in Writes(rid) : i <= m \/ i >= pos
      BY <1>1, <1>2, <2>1 DEF Applied
    <2>3. Shows(At(mem, rid), rid, m)
      BY <1>1, <1>4, <2>1 DEF MemShows
    <2>4. CASE At(mem, rid) = None /\ \A i \in Writes(rid) : i > m
      <3>1. \A i \in Writes(rid) : i >= pos
        BY <1>2, <2>2, <2>4
      <3>2. QED
        BY <1>1, <2>4, <3>1 DEF Chain
    <2>5. ASSUME NEW i \in Writes(rid), LastUpTo(rid, i, m),
                 \/ At(mem, rid) = log[i].new
                 \/ Lost(i) /\ \A k \in Writes(rid) : SameTxn(i, k) => k <= i
          PROVE  At(mem, rid) = log[pos].old
      <3>1. i < pos /\ \A j \in Writes(rid) : j <= i \/ j >= pos
        BY <1>2, <1>4, <2>1, <2>2, <2>5 DEF LastUpTo
      <3>2. Winner(i) \/ SameTxn(i, pos)
        BY <1>2, <3>1, Alike
      <3>3. log[pos].old = log[i].new
        BY <1>1, <3>1, <3>2 DEF Chain
      <3>4. ~(Lost(i) /\ \A k \in Writes(rid) : SameTxn(i, k) => k <= i)
        BY <1>2, <3>1, Alike
      <3>5. QED
        BY <2>5, <3>3, <3>4
    <2>6. QED
      BY <2>3, <2>4, <2>5 DEF Shows
  <1>5. QED
    BY <1>3, <1>4

\* What a step of redo() may do to the place of a record: nothing; stamp its page, all changes of the
\* record before being there; make an empty page for it; redo the change.
Redone(rid, val, lsn, np) ==
    \/ /\ val = At(mem, rid) /\ lsn = LsnOf(mem, rid)
       /\ rid.page <= np <=> rid.page <= num_pages[rid.tab]
       /\ pos \in Writes(rid) => rid.page <= np /\ pos <= lsn + 1
    \/ /\ val = At(mem, rid) /\ lsn = pos - 1 /\ LsnOf(mem, rid) < pos - 1
       /\ rid.page <= np <=> rid.page <= num_pages[rid.tab]
       /\ pos \notin Writes(rid)
    \/ /\ val = None /\ lsn \in {0, pos - 1}
       /\ ~(rid.page <= num_pages[rid.tab])
       /\ pos \notin Writes(rid)
    \/ val = log[pos].new /\ lsn = pos - 1 /\ rid.page <= np /\ pos \in Writes(rid)

LEMMA RedonePlace ==
    ASSUME RecInv, mode = "redo", pos <= Len(log), NEW rid \in Rid \ disturbed,
           NEW val, NEW lsn \in Nat, NEW np \in Nat, Redone(rid, val, lsn, np)
    PROVE  /\ rid.page <= np => Shows(val, rid, lsn + 1)
           /\ \A i \in Writes(rid) : i < pos + 1 => rid.page <= np /\ i <= lsn + 1
  <1>1. LogInv /\ Applied /\ MemShows /\ LogShape
    BY DEF RecInv
  <1>2. pos \in Nat /\ pos >= 1
    BY <1>1, PageTypes DEF LogInv, PosInLog
  <1>3. \A i \in Writes(rid) : i \in Nat /\ i >= 2
    BY <1>1, WritesTypes, NotFirst
  <1>4. \A i \in Writes(rid) : i < pos => rid.page <= num_pages[rid.tab] /\ i <= LsnOf(mem, rid) + 1
    BY <1>1 DEF Applied
  <1>5. \A i \in Writes(rid) : i < pos + 1 => i < pos \/ i = pos
    BY <1>2, <1>3
  <1>6. LsnOf(mem, rid) \in Nat
    BY PageTypes
  <1>7. rid.page <= num_pages[rid.tab] => Shows(At(mem, rid), rid, LsnOf(mem, rid) + 1)
    BY <1>1 DEF MemShows
  <1>8. CASE /\ val = At(mem, rid) /\ lsn = LsnOf(mem, rid)
             /\ rid.page <= np <=> rid.page <= num_pages[rid.tab]
             /\ pos \in Writes(rid) => rid.page <= np /\ pos <= lsn + 1
    BY <1>4, <1>5, <1>7, <1>8
  <1>9. CASE /\ val = At(mem, rid) /\ lsn = pos - 1 /\ LsnOf(mem, rid) < pos - 1
             /\ rid.page <= np <=> rid.page <= num_pages[rid.tab]
             /\ pos \notin Writes(rid)
    <2>1. \A i \in Writes(rid) : i < pos + 1 => rid.page <= np /\ i <= lsn + 1
      BY <1>2, <1>3, <1>4, <1>5, <1>9
    <2>2. ASSUME rid.page <= np PROVE Shows(val, rid, lsn + 1)
      <3>1. \A i \in Writes(rid) : i <= LsnOf(mem, rid) + 1 \/ i > lsn + 1
        BY <1>2, <1>3, <1>4, <1>9
      <3>2. LsnOf(mem, rid) + 1 <= lsn + 1
        BY <1>2, <1>6, <1>9
      <3>3. QED
        BY <1>1, <1>6, <1>7, <1>9, <2>2, <3>1, <3>2, ShowsUpTo
    <2>3. QED
      BY <2>1, <2>2
  <1>10. CASE /\ val = None /\ lsn \in {0, pos - 1}
              /\ ~(rid.page <= num_pages[rid.tab])
              /\ pos \notin Writes(rid)
    <2>1. \A i \in Writes(rid) : ~(i < pos + 1)
      BY <1>4, <1>5, <1>10
    <2>2. \A i \in Writes(rid) : i > lsn + 1
      BY <1>2, <1>3, <1>10, <2>1
    <2>3. QED
      BY <1>10, <2>1, <2>2 DEF Shows
  <1>11. CASE val = log[pos].new /\ lsn = pos - 1 /\ rid.page <= np /\ pos \in Writes(rid)
    <2>1. lsn + 1 = pos
      BY <1>2, <1>11
    <2>2. \A i \in Writes(rid) : i <= pos \/ i > pos
      BY <1>2, <1>3
    <2>3. LastUpTo(rid, pos, pos)
      BY <1>2, <1>11, <2>2 DEF LastUpTo
    <2>4. Shows(val, rid, pos)
      BY <1>11, <2>3 DEF Shows
    <2>5. QED
      BY <1>2, <1>3, <1>11, <2>1, <2>4
  <1>12. QED
    BY <1>8, <1>9, <1>10, <1>11 DEF Redone

\* The rest of the invariant in a step of redo().
LEMMA RedoneRec ==
    ASSUME RecInv, LogInv', mode = "redo", pos <= Len(log),
           UNCHANGED <<log, persist, disk, status, write_set, committed, disturbed, hdr, filepages>>,
           \/ /\ mode' = "redo" /\ pos' = pos + 1
              /\ \A rid \in Rid \ disturbed :
                    Redone(rid, At(mem', rid), LsnOf(mem', rid), num_pages'[rid.tab])
           \/ /\ mode' = "failed"
              /\ disturbed # {} \/ \E tab \in Tables : hdr[tab] > filepages[tab]
    PROVE  RecInv'
  <1>1. TxnPart' /\ DiskShows'
    <2>1. persist' \in Nat /\ persist' >= persist
      BY PageTypes
    <2>2. QED
      BY <2>1, TxnPartSame, DiskSame
  <1>2. /\ \A rid : Undisturbed(rid)' <=> Undisturbed(rid)
        /\ \A rid : Writes(rid)' = Writes(rid)
        /\ \A rid, val, m : Shows(val, rid, m) => Shows(val, rid, m)'
    BY SameLog DEF RecInv
  <1>3. InRecovery'
    BY <1>2 DEF RecInv, InRecovery
  <1>4. \A t \in TxnId : status'[t] = "none" /\ write_set'[t] = <<>>
    BY DEF RecInv, InRecovery
  <1>5. OwnChanges' /\ Settled' /\ UndoneSoFar' /\ StartFailsOnly'
    BY <1>4 DEF OwnChanges, Settled, UndoneSoFar, StartFailsOnly
  <1>6. MemShows' /\ Applied'
    <2>1. CASE mode' = "failed"
      BY <2>1 DEF MemShows, Applied
    <2>2. CASE mode' = "redo"
      <3>1. mem' \in PagesType /\ num_pages' \in [Tables -> 0..MaxPages]
        BY DEF LogInv, TypeOK, PagesType
      <3>2. ASSUME NEW rid \in Rid \ disturbed
            PROVE  /\ rid.page <= num_pages'[rid.tab] =>
                         Shows(At(mem', rid), rid, LsnOf(mem', rid) + 1)
                   /\ \A i \in Writes(rid) : i < pos + 1 =>
                         rid.page <= num_pages'[rid.tab] /\ i <= LsnOf(mem', rid) + 1
        <4>1. rid.tab \in Tables /\ rid.page \in PageNo /\ MaxPages \in Nat
          BY RidFields, Numbers
        <4>2. mem'[rid.tab][rid.page] \in Page
          BY <3>1, <4>1 DEF PagesType
        <4>3. LsnOf(mem', rid) \in Nat
          BY <4>2 DEF Page, LsnOf
        <4>4. num_pages'[rid.tab] \in Nat
          BY <3>1, <4>1
        <4>5. QED
          BY <2>2, <4>3, <4>4, RedonePlace
      <3>3. ASSUME NEW rid \in Rid \ disturbed, rid.page <= num_pages'[rid.tab]
            PROVE  Shows(At(mem, rid), rid, LsnOf(mem, rid) + 1)'
        <4>1. PICK v, m : v = At(mem', rid) /\ m = LsnOf(mem', rid) + 1
          OBVIOUS
        <4>2. Shows(v, rid, m)'
          BY <1>2, <3>2, <3>3, <4>1
        <4>3. v = At(mem, rid)' /\ m = (LsnOf(mem, rid) + 1)'
          BY <4>1 DEF At, LsnOf
        <4>4. QED
          BY <4>2, <4>3
      <3>4. MemShows'
        BY <3>3 DEF MemShows
      <3>5. Applied'
        BY <1>2, <2>2, <3>2 DEF Applied, LsnOf
      <3>6. QED
        BY <3>4, <3>5
    <2>3. QED
      BY <2>1, <2>2
  <1>7. QED
    BY <1>1, <1>3, <1>5, <1>6 DEF RecInv, TxnPart


LEMMA ExtendedAt ==
    ASSUME RecInv, NEW rid \in Rid
    PROVE  /\ Extended(rid) \in PagesType
           /\ \A r \in Rid :
                 IF r.tab = rid.tab /\ r.page > num_pages[rid.tab] /\ r.page <= rid.page
                 THEN At(Extended(rid), r) = None /\ LsnOf(Extended(rid), r) = 0
                 ELSE At(Extended(rid), r) = At(mem, r) /\ LsnOf(Extended(rid), r) = LsnOf(mem, r)
  <1>1. mem \in PagesType
    BY PageTypes
  <1>2. EmptyPage \in Page /\ EmptyPage.lsn = 0 /\ \A s \in Slot : EmptyPage.row[s] = None
    BY Numbers DEF EmptyPage
  <1>3. PICK tb \in Tables : tb = rid.tab
    BY RidFields
  <1>4. Extended(rid) = [mem EXCEPT ![tb] = [p \in PageNo |->
                            IF p > num_pages[tb] /\ p <= rid.page THEN EmptyPage ELSE mem[tb][p]]]
    BY <1>1, <1>3 DEF Extended, PagesType
  <1> HIDE DEF EmptyPage
  <1>5. Extended(rid) \in PagesType
    BY <1>1, <1>2, <1>4 DEF PagesType
  <1>6. ASSUME NEW r \in Rid
        PROVE  IF r.tab = rid.tab /\ r.page > num_pages[rid.tab] /\ r.page <= rid.page
               THEN Extended(rid)[r.tab][r.page] = EmptyPage
               ELSE Extended(rid)[r.tab][r.page] = mem[r.tab][r.page]
    <2>1. r.tab \in Tables /\ r.page \in PageNo
      BY RidFields
    <2>2. QED
      BY <1>1, <1>3, <1>4, <2>1 DEF PagesType
  <1>7. \A r \in Rid : r.slot \in Slot
    BY RidFields
  <1>8. QED
    BY <1>2, <1>5, <1>6, <1>7 DEF At, LsnOf

\* A change written to its place, and its page stamped.
LEMMA PutStampAt ==
    ASSUME NEW pages \in PagesType, NEW rid \in Rid, NEW val \in Content, NEW lsn \in Nat, NEW r \in Rid
    PROVE  LET new == Stamp(Put(pages, rid, val), rid, lsn)
           IN  /\ At(new, r) = IF r = rid THEN val ELSE At(pages, r)
               /\ LsnOf(new, r) =
                     IF r.tab = rid.tab /\ r.page = rid.page THEN lsn ELSE LsnOf(pages, r)
  <1>1. PICK mid \in PagesType : mid = Put(pages, rid, val)
    BY PutPages
  <1>2. /\ At(mid, r) = IF r = rid THEN val ELSE At(pages, r)
        /\ LsnOf(mid, r) = LsnOf(pages, r)
    BY <1>1, PutAt
  <1>3. /\ At(Stamp(mid, rid, lsn), r) = At(mid, r)
        /\ LsnOf(Stamp(mid, rid, lsn), r) =
              IF r.tab = rid.tab /\ r.page = rid.page THEN lsn ELSE LsnOf(mid, r)
    BY StampAt
  <1>4. QED
    BY <1>1, <1>2, <1>3

LEMMA RedoRec == ASSUME RecInv, LogInv', RedoOne PROVE RecInv'
  <1>1. /\ mode = "redo" /\ pos <= Len(log)
        /\ UNCHANGED <<log, persist, disk, status, write_set, committed, disturbed, hdr, filepages>>
    BY DEF RedoOne, processVars, ghosts
  <1>2. LogInv /\ LogShape
    BY DEF RecInv
  <1>3. /\ pos \in DOMAIN log /\ pos \in Nat /\ pos >= 1 /\ pos - 1 \in Nat /\ mem \in PagesType
        /\ num_pages \in [Tables -> 0..MaxPages]
    BY <1>1, <1>2, PageTypes, LogTypes DEF LogInv, PosInLog
  <1>4. \A r \in Rid : /\ LsnOf(mem, r) \in Nat /\ r.tab \in Tables /\ r.page \in Nat
                       /\ num_pages[r.tab] \in Nat
    BY PageTypes
  <1>5. CASE ~IsData(pos) /\ Skip
    <2>1. \A rid \in Rid \ disturbed :
              Redone(rid, At(mem', rid), LsnOf(mem', rid), num_pages'[rid.tab])
      BY <1>5 DEF Redone, Skip, Writes
    <2>2. QED
      BY <1>1, <1>5, <2>1, RedoneRec DEF Skip
  <1>6. CASE IsData(pos)
    <2>1. PICK rid0 \in Rid : rid0 = log[pos].rid /\ pos \in Writes(rid0)
      <3>1. pos \in Writes(log[pos].rid)
        BY <1>3, <1>6 DEF Writes
      <3>2. QED
        BY <1>2, <3>1, WritesTypes
    <2>2. PICK rec \in DataRecord : rec = log[pos]
      BY <1>2, <2>1, WritesTypes
    <2>3. /\ rec.rid = rid0 /\ rec.old \in Content /\ rec.new \in Content /\ rec.type \in DataType
          /\ Fits(rec) /\ None \in Content
      BY <1>2, <1>3, <1>6, <2>1, <2>2 DEF DataRecord, LogShape, Content
    <2>4. \A rid : pos \in Writes(rid) <=> rid = rid0
      BY <2>1 DEF Writes
    <2>5. rid0 \notin disturbed =>
              /\ rid0.page <= num_pages[rid0.tab] /\ LsnOf(mem, rid0) + 1 < pos =>
                    At(mem, rid0) = rec.old
              /\ rec.old # None => rid0.page <= num_pages[rid0.tab]
      BY <1>1, <2>1, <2>2, RedoValue
    <2>6. CASE Missing(rid0.tab, rid0.page) /\ Abandon
      <3>1. hdr[rid0.tab] \in 0..MaxPages /\ filepages[rid0.tab] \in 0..MaxPages /\ MaxPages \in Nat
        BY <1>2, <1>4, Types, Numbers DEF LogInv
      <3>2. hdr[rid0.tab] > filepages[rid0.tab]
        BY <1>4, <2>6, <3>1 DEF Missing
      <3>3. QED
        BY <1>1, <1>4, <2>6, <3>2, RedoneRec DEF Abandon
    \* A change of a record that is there.
    <2>7. ASSUME rec.type \in {"DELETE", "UPDATE"}, LsnOf(mem, rid0) < pos - 1,
                 mem' = Stamp(Put(mem, rid0, rec.new), rid0, pos - 1),
                 num_pages' = num_pages, mode' = mode, pos' = pos + 1
          PROVE  RecInv'
      <3>1. rec.old # None
        BY <2>3, <2>7 DEF Fits
      <3>2. ASSUME NEW rid \in Rid \ disturbed
            PROVE  Redone(rid, At(mem', rid), LsnOf(mem', rid), num_pages'[rid.tab])
        <4>1. /\ At(mem', rid) = IF rid = rid0 THEN rec.new ELSE At(mem, rid)
              /\ LsnOf(mem', rid) =
                    IF rid.tab = rid0.tab /\ rid.page = rid0.page THEN pos - 1 ELSE LsnOf(mem, rid)
          BY <1>3, <2>3, <2>7, PutStampAt
        <4>2. CASE rid = rid0
          BY <2>1, <2>2, <2>5, <2>7, <3>1, <3>2, <4>1, <4>2 DEF Redone
        <4>3. CASE rid # rid0 /\ rid.tab = rid0.tab /\ rid.page = rid0.page
          <5>1. LsnOf(mem, rid) = LsnOf(mem, rid0)
            BY <4>3 DEF LsnOf
          <5>2. QED
            BY <2>4, <2>7, <4>1, <4>3, <5>1 DEF Redone
        <4>4. CASE ~(rid.tab = rid0.tab /\ rid.page = rid0.page)
          BY <2>4, <2>7, <4>1, <4>4 DEF Redone
        <4>5. QED
          BY <4>2, <4>3, <4>4
      <3>3. QED
        BY <1>1, <2>7, <3>2, RedoneRec
    <2>8. CASE rec.type = "DELETE" /\ RedoDelete(rec, pos - 1)
      <3>1. rec.new = None
        BY <2>3, <2>8 DEF Fits
      <3>2. QED
        BY <2>3, <2>7, <2>8, <3>1 DEF RedoDelete, LsnOf
    <2>9. CASE rec.type = "UPDATE" /\ RedoUpdate(rec, pos - 1)
      <3>1. LsnOf(mem, rid0) < pos - 1
        BY <2>3, <2>9 DEF RedoUpdate, LsnOf
      <3>2. CASE Record(rid0) = None
        <4>1. Abandon
          BY <2>3, <2>9, <3>2 DEF RedoUpdate
        <4>2. rid0 \in disturbed
          <5>1. rec.old # None
            BY <2>3, <2>9 DEF Fits
          <5>2. LsnOf(mem, rid0) + 1 < pos
            BY <1>3, <1>4, <3>1
          <5>3. QED
            BY <2>5, <3>2, <5>1, <5>2 DEF Record
        <4>3. QED
          BY <1>1, <4>1, <4>2, RedoneRec DEF Abandon
      <3>3. CASE Record(rid0) # None
        BY <2>3, <2>7, <2>9, <3>1, <3>3 DEF RedoUpdate
      <3>4. QED
        BY <3>2, <3>3
    <2>10. CASE rec.type # "INSERT" /\ mem[rid0.tab][rid0.page].lsn >= pos - 1 /\ Skip
      <3>1. rec.old # None
        BY <2>3, <2>10 DEF Fits, DataType
      <3>2. pos <= LsnOf(mem, rid0) + 1
        BY <1>3, <1>4, <2>10 DEF LsnOf
      <3>3. \A rid \in Rid \ disturbed :
                Redone(rid, At(mem', rid), LsnOf(mem', rid), num_pages'[rid.tab])
        BY <2>4, <2>5, <2>10, <3>1, <3>2 DEF Redone, Skip
      <3>4. QED
        BY <1>1, <2>10, <3>3, RedoneRec DEF Skip
    <2>11. CASE rec.type = "INSERT" /\ RedoInsert(rec, pos - 1)
      <3>1. PICK pages \in PagesType :
              /\ pages = Extended(rid0)
              /\ \A r \in Rid :
                    IF r.tab = rid0.tab /\ r.page > num_pages[rid0.tab] /\ r.page <= rid0.page
                    THEN At(pages, r) = None /\ LsnOf(pages, r) = 0
                    ELSE At(pages, r) = At(mem, r) /\ LsnOf(pages, r) = LsnOf(mem, r)
        BY ExtendedAt
      <3>2. /\ num_pages' = [num_pages EXCEPT ![rid0.tab] = MaxOf(@, rid0.page)]
            /\ mem' = IF LsnOf(pages, rid0) >= pos - 1 THEN pages
                      ELSE Stamp(IF At(pages, rid0) = None THEN Put(pages, rid0, rec.new)
                                 ELSE pages, rid0, pos - 1)
            /\ pos' = pos + 1 /\ mode' = mode
        BY <2>3, <2>11, <3>1 DEF RedoInsert, LsnOf
      <3>3. pos >= 2 /\ rec.old = None
        BY <1>2, <2>1, <2>3, <2>11, NotFirst DEF Fits
      <3>4. \A r \in Rid : num_pages'[r.tab] = IF r.tab = rid0.tab /\ rid0.page > num_pages[r.tab]
                                               THEN rid0.page ELSE num_pages[r.tab]
        BY <1>3, <1>4, <3>2 DEF MaxOf
      <3>5. ASSUME NEW rid \in Rid \ disturbed
            PROVE  Redone(rid, At(mem', rid), LsnOf(mem', rid), num_pages'[rid.tab])
        <4>1. CASE LsnOf(pages, rid0) >= pos - 1
          <5>1. rid0.page <= num_pages[rid0.tab] /\ LsnOf(mem, rid0) >= pos - 1
            BY <1>3, <1>4, <3>1, <3>3, <4>1
          <5>2. At(mem', rid) = At(mem, rid) /\ LsnOf(mem', rid) = LsnOf(mem, rid)
            BY <1>4, <3>1, <3>2, <4>1, <5>1
          <5>3. num_pages'[rid.tab] = num_pages[rid.tab]
            BY <1>4, <3>4, <5>1
          <5>4. rid = rid0 => rid.page <= num_pages[rid.tab] /\ pos <= LsnOf(mem, rid) + 1
            BY <1>3, <1>4, <5>1
          <5>5. QED
            BY <2>4, <5>2, <5>3, <5>4 DEF Redone
        <4>2. CASE ~(LsnOf(pages, rid0) >= pos - 1)
          <5>1. LsnOf(pages, rid0) < pos - 1
            BY <1>3, <1>4, <3>1, <4>2
          <5>2. /\ LsnOf(mem', rid) =
                      IF rid.tab = rid0.tab /\ rid.page = rid0.page THEN pos - 1 ELSE LsnOf(pages, rid)
                /\ rid # rid0 => At(mem', rid) = At(pages, rid)
                /\ At(pages, rid0) = None => At(mem', rid0) = rec.new
            <6>1. CASE At(pages, rid0) = None
              BY <1>3, <2>3, <3>2, <4>2, <6>1, PutStampAt
            <6>2. CASE At(pages, rid0) # None
              BY <1>3, <3>2, <4>2, <6>2, StampAt
            <6>3. QED
              BY <6>1, <6>2
          <5>3. CASE rid = rid0
            <6>1. At(pages, rid0) = None
              <7>1. CASE rid0.page > num_pages[rid0.tab]
                BY <1>4, <3>1, <7>1
              <7>2. CASE rid0.page <= num_pages[rid0.tab]
                <8>1. At(pages, rid0) = At(mem, rid0) /\ LsnOf(pages, rid0) = LsnOf(mem, rid0)
                  BY <1>4, <3>1, <7>2
                <8>2. LsnOf(mem, rid0) + 1 < pos
                  BY <1>3, <1>4, <5>1, <8>1
                <8>3. QED
                  BY <2>5, <3>3, <3>5, <5>3, <7>2, <8>1, <8>2
              <7>3. QED
                BY <1>4, <7>1, <7>2
            <6>2. rid0.page <= num_pages'[rid0.tab]
              BY <1>4, <3>4
            <6>3. QED
              BY <2>1, <2>2, <5>2, <5>3, <6>1, <6>2 DEF Redone
          <5>4. CASE rid # rid0 /\ rid.tab = rid0.tab /\ rid.page > num_pages[rid0.tab]
                     /\ rid.page <= rid0.page
            <6>1. At(mem', rid) = None /\ LsnOf(mem', rid) \in {0, pos - 1}
              BY <3>1, <5>2, <5>4
            <6>2. ~(rid.page <= num_pages[rid.tab])
              BY <1>4, <5>4
            <6>3. QED
              BY <2>4, <5>4, <6>1, <6>2 DEF Redone
          <5>5. CASE rid # rid0 /\ ~(rid.tab = rid0.tab /\ rid.page > num_pages[rid0.tab]
                                     /\ rid.page <= rid0.page)
            <6>1. At(mem', rid) = At(mem, rid) /\ LsnOf(pages, rid) = LsnOf(mem, rid)
              BY <3>1, <5>2, <5>5
            <6>2. rid.page <= num_pages'[rid.tab] <=> rid.page <= num_pages[rid.tab]
              BY <1>4, <3>4, <5>5
            <6>3. CASE rid.tab = rid0.tab /\ rid.page = rid0.page
              <7>1. LsnOf(pages, rid) = LsnOf(pages, rid0)
                BY <6>3 DEF LsnOf
              <7>2. QED
                BY <2>4, <5>1, <5>2, <5>5, <6>1, <6>2, <6>3, <7>1 DEF Redone
            <6>4. CASE ~(rid.tab = rid0.tab /\ rid.page = rid0.page)
              BY <2>4, <5>2, <5>5, <6>1, <6>2, <6>4 DEF Redone
            <6>5. QED
              BY <6>3, <6>4
          <5>6. QED
            BY <5>3, <5>4, <5>5
        <4>3. QED
          BY <4>1, <4>2
      <3>6. QED
        BY <1>1, <3>2, <3>5, RedoneRec
    <2>12. QED
      BY <1>6, <2>1, <2>2, <2>3, <2>6, <2>8, <2>9, <2>10, <2>11 DEF RedoOne
  <1>7. QED
    BY <1>5, <1>6 DEF RedoOne


-----------------------------------------------------------------------------
(* Transactions: what a new record does to the log *)

\* The transaction that adds a record began, and has not committed.
CanLog(t) ==
    \E b \in DOMAIN log :
        /\ log[b] = BeginOf(t) /\ Current(t, b)
        /\ \A k \in DOMAIN log : k > b /\ log[k].tid = t => log[k].type # "commit"

LEMMA OpenCanLog ==
    ASSUME RecInv, NEW t \in TxnId, status[t] \in {"active", "aborting", "aborted"}
    PROVE  CanLog(t)
  BY DEF RecInv, StatusInLog, TxnInLog, CanLog, EndType

LEMMA LongerShape ==
    ASSUME RecInv, LogInv', NEW rec \in LogRecord, NEW t \in TxnId, rec.tid = t,
           log' = Append(log, rec), rec = BeginOf(t) \/ CanLog(t),
           persist' \in Nat, persist' >= persist,
           rec.type \in EndType => persist' = Len(log'),
           rec.type \in DataType => Fits(rec)
    PROVE  LogShape'
  <1>1. LogInv /\ LogShape
    BY DEF RecInv
  <1>2. PICK n \in Nat : n = Len(log)
    BY PageTypes
  <1>3. /\ Len(log') = n + 1
        /\ DOMAIN log = 1..n /\ DOMAIN log' = 1..(n + 1)
        /\ log'[n + 1] = rec /\ \A k \in 1..n : log'[k] = log[k]
        /\ \A i \in DOMAIN log : SameTxn(i, n + 1)' <=>
                 log[i].tid = rec.tid /\ Current(rec.tid, i) /\ rec # BeginOf(rec.tid)
        /\ \A i, j \in DOMAIN log : SameTxn(i, j)' <=> SameTxn(i, j)
        /\ \A i \in DOMAIN log : IsData(i)' <=> IsData(i)
        /\ IsData(n + 1)' <=> rec.type \in DataType
    BY <1>1, <1>2, Longer
  <1>4. BeginOf(t).tid = t /\ BeginOf(t).type = "begin"
    BY DEF BeginOf
  <1>5. ASSUME NEW i \in 1..(n + 1)
        PROVE  \E b \in 1..i : log'[b] = BeginOf(log'[i].tid) /\ SameTxn(b, i)'
    <2>1. CASE i \in 1..n
      <3>1. PICK b \in 1..i : log[b] = BeginOf(log[i].tid) /\ SameTxn(b, i)
        BY <1>1, <1>3, <2>1 DEF LogShape
      <3>2. b \in 1..n
        BY <2>1, <3>1
      <3>3. QED
        BY <1>3, <2>1, <3>1, <3>2
    <2>2. CASE i = n + 1 /\ rec = BeginOf(t)
      <3>1. SameTxn(n + 1, n + 1)'
        BY <1>3 DEF SameTxn
      <3>2. QED
        BY <1>3, <1>4, <2>2, <3>1
    <2>3. CASE i = n + 1 /\ rec # BeginOf(t)
      <3>1. PICK b \in DOMAIN log : log[b] = BeginOf(t) /\ Current(t, b)
        BY <2>3 DEF CanLog
      <3>2. SameTxn(b, n + 1)'
        BY <1>3, <1>4, <2>3, <3>1
      <3>3. b \in 1..i
        BY <1>3, <2>3
      <3>4. QED
        BY <1>3, <2>3, <3>1, <3>2, <3>3
    <2>4. i \in 1..n \/ i = n + 1
      OBVIOUS
    <2>5. QED
      BY <2>1, <2>2, <2>3, <2>4
  <1>6. ASSUME NEW i \in 1..(n + 1), NEW j \in 1..(n + 1), i < j, log'[i].type = "commit",
               log'[j].tid = log'[i].tid
        PROVE  \E b \in (i + 1)..j : log'[b] = BeginOf(log'[i].tid)
    <2>1. i \in 1..n /\ log'[i] = log[i]
      BY <1>3, <1>6
    <2>2. CASE j \in 1..n
      <3>1. PICK b \in (i + 1)..j : log[b] = BeginOf(log[i].tid)
        BY <1>1, <1>3, <1>6, <2>1, <2>2 DEF LogShape
      <3>2. b \in 1..n
        BY <2>1, <2>2, <3>1
      <3>3. QED
        BY <1>3, <2>1, <3>1, <3>2
    <2>3. CASE j = n + 1 /\ rec = BeginOf(t)
      BY <1>3, <1>6, <2>1, <2>3
    <2>4. CASE j = n + 1 /\ rec # BeginOf(t)
      <3>1. PICK b \in DOMAIN log :
                /\ log[b] = BeginOf(t)
                /\ \A k \in DOMAIN log : k > b /\ log[k].tid = t => log[k].type # "commit"
        BY <2>4 DEF CanLog
      <3>2. log[i].tid = t /\ log[i].type = "commit"
        BY <1>3, <1>6, <2>1, <2>4
      <3>3. ~(i > b) /\ i # b
        BY <1>3, <1>4, <2>1, <3>1, <3>2
      <3>4. b \in (i + 1)..j /\ b \in 1..n
        BY <1>3, <2>1, <2>4, <3>3
      <3>5. QED
        BY <1>3, <2>1, <3>1, <3>2, <3>4
    <2>5. j \in 1..n \/ j = n + 1
      OBVIOUS
    <2>6. QED
      BY <2>2, <2>3, <2>4, <2>5
  <1>7. \A i \in 1..(n + 1) : log'[i].type \in EndType => i <= persist'
    <2>1. \A i \in 1..n : log[i].type \in EndType => i <= persist
      BY <1>1, <1>3 DEF LogShape
    <2>2. \A i \in 1..n : log[i].type \in EndType => i <= persist'
      BY <2>1, PageTypes
    <2>3. QED
      BY <1>3, <2>2
  <1>8. \A i \in 1..(n + 1) : IsData(i)' => Fits(log'[i])
    BY <1>1, <1>3 DEF LogShape
  <1>9. DOMAIN log' = 1..(n + 1)
    BY <1>3
  <1>10. \A i \in DOMAIN log' : \E b \in 1..i : log'[b] = BeginOf(log'[i].tid) /\ SameTxn(b, i)'
    BY <1>5, <1>9
  <1>11. \A i, j \in DOMAIN log' :
            i < j /\ log'[i].type = "commit" /\ log'[j].tid = log'[i].tid =>
                \E b \in (i + 1)..j : log'[b] = BeginOf(log'[i].tid)
    BY <1>6, <1>9
  <1>12. QED
    BY <1>7, <1>8, <1>9, <1>10, <1>11 DEF LogShape, BeginOf, Fits

\* The other transactions are in the log as before.
LEMMA LongerOthers ==
    ASSUME RecInv, LogInv', NEW rec \in LogRecord, log' = Append(log, rec),
           NEW u \in TxnId, rec.tid # u, status'[u] = status[u], TxnInLog(u)
    PROVE  TxnInLog(u)'
  <1>1. LogInv
    BY DEF RecInv
  <1>2. PICK n \in Nat : n = Len(log)
    BY PageTypes
  <1>3. /\ DOMAIN log = 1..n /\ DOMAIN log' = 1..(n + 1)
        /\ log'[n + 1] = rec /\ \A k \in 1..n : log'[k] = log[k]
        /\ \A t : \A i \in DOMAIN log : Current(t, i)' <=> Current(t, i) /\ rec # BeginOf(t)
    BY <1>1, <1>2, Longer
  <1>4. rec # BeginOf(u)
    BY DEF BeginOf
  <1>5. PICK b \in DOMAIN log :
        /\ log[b] = BeginOf(u) /\ Current(u, b)
        /\ status[u] = "active" =>
              \A k \in DOMAIN log : k > b /\ log[k].tid = u => log[k].type \notin EndType
        /\ status[u] \in {"aborting", "aborted"} =>
              /\ \A k \in DOMAIN log : k > b /\ log[k].tid = u => log[k].type # "commit"
              /\ \E a \in DOMAIN log : /\ a > b /\ log[a] = AbortOf(u)
                                       /\ \A k \in DOMAIN log : k > a => log[k].tid # u
    BY DEF TxnInLog
  <1>6. b \in DOMAIN log' /\ log'[b] = BeginOf(u) /\ Current(u, b)'
    BY <1>3, <1>4, <1>5
  <1>7. status'[u] = "active" =>
            \A k \in DOMAIN log' : k > b /\ log'[k].tid = u => log'[k].type \notin EndType
    BY <1>3, <1>5
  <1>8. ASSUME status'[u] \in {"aborting", "aborted"}
        PROVE  /\ \A k \in DOMAIN log' : k > b /\ log'[k].tid = u => log'[k].type # "commit"
               /\ \E a \in DOMAIN log' : /\ a > b /\ log'[a] = AbortOf(u)
                                         /\ \A k \in DOMAIN log' : k > a => log'[k].tid # u
    <2>1. PICK a \in DOMAIN log : /\ a > b /\ log[a] = AbortOf(u)
                                  /\ \A k \in DOMAIN log : k > a => log[k].tid # u
      BY <1>5, <1>8
    <2>2. a \in DOMAIN log' /\ log'[a] = AbortOf(u) /\ \A k \in DOMAIN log' : k > a => log'[k].tid # u
      BY <1>3, <2>1
    <2>3. QED
      BY <1>3, <1>5, <1>8, <2>1, <2>2
  <1>9. QED
    BY <1>6, <1>7, <1>8 DEF TxnInLog, BeginOf, AbortOf


-----------------------------------------------------------------------------
(* Transactions: begin, commit and abort *)

\* A record that is no change leaves the changes and the pages alone.
LEMMA ControlLog ==
    ASSUME RecInv, LogInv', NEW rec \in LogRecord, rec.type \notin DataType, log' = Append(log, rec)
    PROVE  /\ \A rid : Writes(rid)' = Writes(rid) /\ Writes(rid) \subseteq DOMAIN log
           /\ \A i \in DOMAIN log : log'[i] = log[i] /\ i \in DOMAIN log'
           /\ \A i \in DOMAIN log' : IsData(i)' => i \in DOMAIN log /\ IsData(i)
           /\ \A i \in DOMAIN log : IsData(i) => IsData(i)'
           /\ \A i, j \in DOMAIN log : SameTxn(i, j)' <=> SameTxn(i, j)
           /\ \A t : \A i \in DOMAIN log : Current(t, i)' <=> Current(t, i) /\ rec # BeginOf(t)
  <1>1. LogInv
    BY DEF RecInv
  <1>2. PICK n \in Nat : n = Len(log)
    BY PageTypes
  <1>3. /\ DOMAIN log = 1..n /\ DOMAIN log' = 1..(n + 1)
        /\ log'[n + 1] = rec /\ \A k \in 1..n : log'[k] = log[k]
        /\ \A t : \A i \in DOMAIN log : Current(t, i)' <=> Current(t, i) /\ rec # BeginOf(t)
        /\ \A i, j \in DOMAIN log : SameTxn(i, j)' <=> SameTxn(i, j)
        /\ \A i \in DOMAIN log : IsData(i)' <=> IsData(i)
        /\ IsData(n + 1)' <=> rec.type \in DataType
        /\ \A rid : Writes(rid)' = Writes(rid) \cup
                 {i \in {n + 1} : rec.type \in DataType /\ rec.rid = rid}
    BY <1>1, <1>2, Longer
  <1>4. \A rid : Writes(rid)' = Writes(rid) /\ Writes(rid) \subseteq DOMAIN log
    BY <1>3 DEF Writes
  <1>5. \A i \in DOMAIN log' : IsData(i)' => i \in DOMAIN log /\ IsData(i)
    <2>1. ASSUME NEW i \in DOMAIN log', IsData(i)' PROVE i \in DOMAIN log /\ IsData(i)
      <3>1. i # n + 1
        BY <1>3, <2>1
      <3>2. i \in DOMAIN log
        BY <1>3, <3>1
      <3>3. QED
        BY <1>3, <2>1, <3>2
    <2>2. QED
      BY <2>1
  <1>6. \A i \in DOMAIN log : log'[i] = log[i] /\ i \in DOMAIN log'
    BY <1>3
  <1>7. QED
    BY <1>3, <1>4, <1>5, <1>6

LEMMA ControlPages ==
    ASSUME RecInv, LogInv', NEW rec \in LogRecord, rec.type \notin DataType, log' = Append(log, rec),
           mode = "running", UNCHANGED <<mode, mem, disk, num_pages, disturbed>>,
           \A rid : \A i \in Writes(rid) : Lost(i) => Lost(i)'
    PROVE  /\ DiskShows' /\ MemShows' /\ Applied'
           /\ InRecovery' /\ UndoneSoFar' /\ StartFailsOnly'
  <1>1. /\ \A rid : Writes(rid)' = Writes(rid) /\ Writes(rid) \subseteq DOMAIN log
        /\ \A i \in DOMAIN log : log'[i] = log[i]
        /\ \A i, j \in DOMAIN log : SameTxn(i, j)' <=> SameTxn(i, j)
    BY ControlLog
  <1>2. LogInv
    BY DEF RecInv
  <1>3. \A rid, val : \A m \in Nat : Shows(val, rid, m) => Shows(val, rid, m)'
    <2>1. ASSUME NEW rid, NEW val, NEW m \in Nat, Shows(val, rid, m) PROVE Shows(val, rid, m)'
      <3>1. \A i \in Writes(rid) : i <= m => log'[i] = log[i] /\ (Lost(i) => Lost(i)')
        BY <1>1
      <3>2. \A i \in Writes(rid) : \A k \in Writes(rid)' :
              i <= m /\ Lost(i) /\ SameTxn(i, k)' /\ k > i => k \in Writes(rid) /\ SameTxn(i, k)
        BY <1>1
      <3>3. \A i, j \in Writes(rid) : i <= m /\ j <= i /\ SameTxn(j, i) => SameTxn(j, i)'
        BY <1>1
      <3>4. QED
        BY <1>1, <1>2, <2>1, <3>1, <3>2, <3>3, ShowsKept
    <2>2. QED
      BY <2>1
  <1>4. DiskShows'
    <2>1. ASSUME NEW rid \in Rid \ disturbed PROVE Shows(At(disk, rid), rid, LsnOf(disk, rid) + 1)'
      <3>1. PICK v, m : v = At(disk, rid) /\ m = LsnOf(disk, rid) + 1
        OBVIOUS
      <3>2. Shows(v, rid, m) /\ m \in Nat
        BY <3>1, PageTypes DEF RecInv, DiskShows
      <3>3. Shows(v, rid, m)'
        BY <1>3, <3>2
      <3>4. v = At(disk, rid)' /\ m = (LsnOf(disk, rid) + 1)'
        BY <3>1 DEF At, LsnOf
      <3>5. QED
        BY <3>3, <3>4
    <2>2. QED
      BY <2>1 DEF DiskShows
  <1>5. MemShows'
    <2>1. ASSUME NEW rid \in Rid \ disturbed, rid.page <= num_pages[rid.tab]
          PROVE  Shows(At(mem, rid), rid, LsnOf(mem, rid) + 1)'
      <3>1. PICK v, m : v = At(mem, rid) /\ m = LsnOf(mem, rid) + 1
        OBVIOUS
      <3>2. Shows(v, rid, m) /\ m \in Nat
        BY <2>1, <3>1, PageTypes DEF RecInv, MemShows
      <3>3. Shows(v, rid, m)'
        BY <1>3, <3>2
      <3>4. v = At(mem, rid)' /\ m = (LsnOf(mem, rid) + 1)'
        BY <3>1 DEF At, LsnOf
      <3>5. QED
        BY <3>3, <3>4
    <2>2. QED
      BY <2>1 DEF MemShows
  <1>6. Applied'
    BY <1>1 DEF RecInv, Applied, LsnOf
  <1>7. InRecovery' /\ UndoneSoFar' /\ StartFailsOnly'
    BY DEF InRecovery, UndoneSoFar, StartFailsOnly
  <1>8. QED
    BY <1>4, <1>5, <1>6, <1>7

LEMMA ControlWriteSets ==
    ASSUME RecInv, LogInv', NEW rec \in LogRecord, rec.type \notin DataType, log' = Append(log, rec),
           \A u \in TxnId : write_set'[u] = write_set[u] \/ write_set'[u] = <<>>,
           \A u \in TxnId : status'[u] = "active" =>
              write_set'[u] = write_set[u] /\ (status[u] = "active" \/ rec = BeginOf(u)),
           \A u \in TxnId : write_set'[u] # <<>> =>
              status'[u] \in {"active", "aborting"} /\ rec # BeginOf(u)
    PROVE  WriteSets'
  <1>1. /\ \A i \in DOMAIN log : log'[i] = log[i] /\ i \in DOMAIN log'
        /\ \A i \in DOMAIN log' : IsData(i)' => i \in DOMAIN log /\ IsData(i)
        /\ \A i \in DOMAIN log : IsData(i) => IsData(i)'
        /\ \A t : \A i \in DOMAIN log : Current(t, i)' <=> Current(t, i) /\ rec # BeginOf(t)
    BY ControlLog
  <1>2. WriteSets
    BY DEF RecInv
  <1>3. \A u \in TxnId : \A n \in DOMAIN write_set'[u] :
            write_set'[u] = write_set[u] /\ n \in DOMAIN write_set[u] /\ rec # BeginOf(u)
    BY DEF LogInv
  <1>4. ASSUME NEW u \in TxnId, NEW n \in DOMAIN write_set'[u]
        PROVE  \E j \in DOMAIN log' :
                  /\ log'[j] = write_set'[u][n] /\ log'[j].tid = u /\ Current(u, j)'
                  /\ \A k \in DOMAIN log' : k > j /\ IsData(k)' /\ log'[k].rid.tab = log'[j].rid.tab =>
                        log'[k].tid = u
    <2>1. PICK j \in DOMAIN log :
              /\ log[j] = write_set[u][n] /\ log[j].tid = u /\ Current(u, j)
              /\ \A k \in DOMAIN log : k > j /\ IsData(k) /\ log[k].rid.tab = log[j].rid.tab =>
                    log[k].tid = u
      BY <1>2, <1>3 DEF WriteSets
    <2>2. j \in DOMAIN log' /\ log'[j] = log[j] /\ Current(u, j)'
      BY <1>1, <1>3, <2>1
    <2>3. \A k \in DOMAIN log' : k > j /\ IsData(k)' /\ log'[k].rid.tab = log'[j].rid.tab =>
              log'[k].tid = u
      BY <1>1, <2>1, <2>2
    <2>4. QED
      BY <1>3, <2>1, <2>2, <2>3
  <1>5. ASSUME NEW u \in TxnId, status'[u] = "active",
               NEW i \in DOMAIN log', IsData(i)', log'[i].tid = u, Current(u, i)'
        PROVE  /\ \E n \in DOMAIN write_set'[u] : write_set'[u][n] = log'[i]
               /\ \A k \in DOMAIN log' : k > i /\ IsData(k)' /\ log'[k].rid.tab = log'[i].rid.tab =>
                     log'[k].tid = u
    <2>1. i \in DOMAIN log /\ IsData(i) /\ log'[i] = log[i]
      BY <1>1, <1>5
    <2>2. Current(u, i) /\ status[u] = "active" /\ write_set'[u] = write_set[u]
      BY <1>1, <1>5, <2>1
    <2>3. /\ \E n \in DOMAIN write_set[u] : write_set[u][n] = log[i]
          /\ \A k \in DOMAIN log : k > i /\ IsData(k) /\ log[k].rid.tab = log[i].rid.tab =>
                log[k].tid = u
      BY <1>2, <1>5, <2>1, <2>2 DEF WriteSets
    <2>4. QED
      BY <1>1, <2>1, <2>2, <2>3
  <1>6. \A t, u \in TxnId : t # u =>
          \A n \in DOMAIN write_set'[t], m \in DOMAIN write_set'[u] :
              write_set'[t][n].rid.tab # write_set'[u][m].rid.tab
    BY <1>2, <1>3 DEF WriteSets
  <1>7. QED
    BY <1>4, <1>5, <1>6 DEF WriteSets


\* Records that make no transaction a committed one.
LEMMA ControlRec ==
    ASSUME RecInv, LogInv', NEW t \in TxnId, NEW rec \in LogRecord, rec.type \notin DataType,
           rec.tid = t, log' = Append(log, rec), rec = BeginOf(t) \/ CanLog(t),
           persist' \in Nat, persist' >= persist, rec.type \in EndType => persist' = Len(log'),
           mode = "running", UNCHANGED <<mode, mem, disk, num_pages, disturbed, write_set, committed>>,
           NEW st, status' = [status EXCEPT ![t] = st],
           st = "active" => rec = BeginOf(t),
           write_set[t] # <<>> => st = "aborting" /\ rec # BeginOf(t),
           TxnInLog(t)',
           \A rid : \A i \in Writes(rid) : Winner(i)' <=> Winner(i)
    PROVE  RecInv'
  <1>1. /\ \A rid : Writes(rid)' = Writes(rid) /\ Writes(rid) \subseteq DOMAIN log
        /\ \A i \in DOMAIN log : log'[i] = log[i] /\ i \in DOMAIN log'
        /\ \A i, j \in DOMAIN log : SameTxn(i, j)' <=> SameTxn(i, j)
        /\ \A u : \A i \in DOMAIN log : Current(u, i)' <=> Current(u, i) /\ rec # BeginOf(u)
    BY ControlLog
  <1>2. LogInv
    BY DEF RecInv
  <1>3. \A u \in TxnId : status'[u] = IF u = t THEN st ELSE status[u]
    BY <1>2, Types DEF LogInv
  <1>4. \A u \in TxnId : u # t => rec # BeginOf(u)
    BY DEF BeginOf
  <1>5. LogShape'
    BY LongerShape DEF DataType, EndType
  <1>6. StatusInLog'
    <2>1. ASSUME NEW u \in TxnId, status'[u] # "none", u # t PROVE TxnInLog(u)'
      <3>1. TxnInLog(u) /\ status'[u] = status[u]
        BY <1>3, <2>1 DEF RecInv, StatusInLog
      <3>2. QED
        BY <2>1, <3>1, LongerOthers
    <2>2. QED
      BY <2>1 DEF StatusInLog
  <1>7. WriteSets'
    <2>1. \A u \in TxnId : status'[u] = "active" =>
              write_set'[u] = write_set[u] /\ (status[u] = "active" \/ rec = BeginOf(u))
      BY <1>3
    <2>2. \A u \in TxnId : write_set'[u] # <<>> =>
              status'[u] \in {"active", "aborting"} /\ rec # BeginOf(u)
      BY <1>3, <1>4 DEF RecInv, WriteSets
    <2>3. QED
      BY <2>1, <2>2, ControlWriteSets
  <1>8. \A rid : \A i \in Writes(rid) : Lost(i) => Lost(i)'
    <2>1. ASSUME NEW rid, NEW i \in Writes(rid), Lost(i) PROVE Lost(i)'
      <3>1. i \in DOMAIN log /\ log'[i] = log[i] /\ log[i].tid \in TxnId /\ ~Winner(i)'
        BY <1>1, <1>2, <2>1, WritesTypes DEF Lost
      <3>2. status'[log[i].tid] = "active" /\ Current(log[i].tid, i)' =>
                status[log[i].tid] = "active" /\ Current(log[i].tid, i)
        BY <1>1, <1>3, <3>1
      <3>3. ~(status'[log[i].tid] = "active" /\ Current(log[i].tid, i)')
        BY <2>1, <3>2 DEF Lost
      <3>4. QED
        BY <3>1, <3>3 DEF Lost, Current, BeginOf
    <2>2. QED
      BY <2>1
  <1>9. DiskShows' /\ MemShows' /\ Applied' /\ InRecovery' /\ UndoneSoFar' /\ StartFailsOnly'
    BY <1>8, ControlPages
  <1>10. CommittedInLog'
    BY <1>1 DEF RecInv, CommittedInLog
  <1>11. Chain'
    BY <1>1 DEF RecInv, Chain
  <1>12. \A rid : Record(rid)' = Record(rid)
    BY DEF Record, At
  <1>13. OwnChanges'
    <2>1. ASSUME NEW u \in TxnId, status'[u] = "active", NEW rid \in Rid, NEW i \in Writes(rid),
                 log'[i].tid = u, Current(u, i)', \A k \in Writes(rid) : k <= i
          PROVE  Record(rid)' = log'[i].new
      <3>1. i \in DOMAIN log /\ log'[i] = log[i] /\ Current(u, i) /\ rec # BeginOf(u)
        BY <1>1, <2>1
      <3>2. status[u] = "active"
        BY <1>3, <2>1, <3>1
      <3>3. QED
        BY <1>12, <2>1, <3>1, <3>2 DEF RecInv, OwnChanges
    <2>2. \A u \in TxnId : \A n \in DOMAIN write_set'[u] :
              /\ \A m \in 1..(n - 1) : write_set'[u][m].rid # write_set'[u][n].rid
              /\ write_set'[u][n].rid \notin disturbed'
              => write_set'[u][n].old = committed'[write_set'[u][n].rid]
      BY DEF RecInv, OwnChanges
    <2>3. QED
      BY <1>1, <2>1, <2>2 DEF OwnChanges
  <1>14. Settled'
    BY <1>12 DEF RecInv, Settled, Wrote
  <1>15. QED
    BY <1>5, <1>6, <1>7, <1>9, <1>10, <1>11, <1>13, <1>14 DEF RecInv

\* What TypeOK says of the status and of the write sets.
LEMMA TxnTypes ==
    ASSUME RecInv
    PROVE  status \in [TxnId -> Status] /\ write_set \in [TxnId -> Seq(DataRecord)]
  BY Types DEF RecInv, LogInv

LEMMA BeginRec == ASSUME RecInv, LogInv', NEW t \in TxnId, Begin(t) PROVE RecInv'
  <1>1. /\ mode = "running" /\ status[t] = "none" /\ status' = [status EXCEPT ![t] = "active"]
        /\ log' = Append(log, BeginOf(t))
        /\ UNCHANGED <<mode, persist, mem, disk, num_pages, disturbed, write_set, committed>>
    BY DEF Begin, AddLog, BeginOf, fileVars, ghosts
  <1>2. PICK rec \in LogRecord : rec = BeginOf(t)
    BY DEF BeginOf, LogRecord, ControlRecord
  <1>3. rec.type = "begin" /\ rec.tid = t
    BY <1>2 DEF BeginOf
  <1>4. rec.type \notin DataType /\ rec.type \notin EndType /\ rec.type # "commit"
    BY <1>3 DEF DataType, EndType
  <1>5. write_set[t] = <<>>
    BY <1>1 DEF RecInv, WriteSets
  <1>6. PICK n \in Nat : n = Len(log)
    BY PageTypes
  <1>7. LogInv
    BY DEF RecInv
  <1>8. /\ DOMAIN log' = 1..(n + 1) /\ log'[n + 1] = rec /\ \A u : Current(u, n + 1)'
        /\ DOMAIN log = 1..n
    BY <1>1, <1>2, <1>6, <1>7, Longer
  <1>9. TxnInLog(t)'
    <2>1. status'[t] = "active"
      BY <1>1, TxnTypes
    <2>2. \A k \in DOMAIN log' : ~(k > n + 1)
      BY <1>8
    <2>3. n + 1 \in DOMAIN log'
      BY <1>8
    <2>4. QED
      BY <1>2, <1>8, <2>1, <2>2, <2>3 DEF TxnInLog, BeginOf
  <1>10. \A rid : \A i \in Writes(rid) : Winner(i)' <=> Winner(i)
    <2>1. \A i \in 1..n : Winner(i)' <=> Winner(i)
      BY <1>1, <1>2, <1>4, <1>6, <1>7, LongerWinners
    <2>2. QED
      BY <1>8, <2>1 DEF Writes
  <1>11. persist' \in Nat /\ persist' >= persist
    BY <1>1, PageTypes
  <1>12. QED
    BY <1>1, <1>2, <1>3, <1>4, <1>5, <1>9, <1>10, <1>11, ControlRec

\* The end of a transaction that is open.
LEMMA EndRecord ==
    ASSUME RecInv, LogInv', NEW t \in TxnId, status[t] \in {"active", "aborted"},
           NEW type \in EndType, log' = Append(log, [type |-> type, tid |-> t]),
           persist' = Len(log')
    PROVE  \E rec \in LogRecord :
              /\ rec = [type |-> type, tid |-> t] /\ rec.type = type /\ rec.tid = t
              /\ rec.type \notin DataType /\ rec # BeginOf(t)
              /\ CanLog(t) /\ persist' \in Nat /\ persist' >= persist
  <1>1. PICK rec \in LogRecord : rec = [type |-> type, tid |-> t]
    BY DEF LogRecord, ControlRecord
  <1>2. rec.type = type /\ rec.tid = t /\ rec.type \notin DataType /\ rec # BeginOf(t)
    BY <1>1 DEF DataType, EndType, BeginOf
  <1>3. CanLog(t)
    BY OpenCanLog
  <1>4. persist' \in Nat /\ persist' >= persist
    <2>1. PICK n \in Nat : n = Len(log) /\ persist <= n /\ persist \in Nat
      BY PageTypes
    <2>2. Len(log') = n + 1
      BY <1>1, <2>1, Longer DEF RecInv
    <2>3. QED
      BY <2>1, <2>2
  <1>5. QED
    BY <1>1, <1>2, <1>3, <1>4

LEMMA StartAbortRec == ASSUME RecInv, LogInv', NEW t \in TxnId, StartAbort(t) PROVE RecInv'
  <1>1. /\ mode = "running" /\ status[t] = "active"
        /\ log' = Append(log, AbortOf(t)) /\ persist' = Len(log')
        /\ UNCHANGED <<mode, mem, disk, num_pages, disturbed, write_set, committed>>
    BY DEF StartAbort, AddLog, AbortOf, fileVars, ghosts
  <1>2. PICK st : /\ status' = [status EXCEPT ![t] = st] /\ st # "active"
                  /\ write_set[t] # <<>> => st = "aborting"
    <2>1. PICK st : st = IF write_set[t] = <<>> THEN "aborted" ELSE "aborting"
      OBVIOUS
    <2>2. status' = [status EXCEPT ![t] = st]
      BY <2>1 DEF StartAbort
    <2>3. st # "active" /\ (write_set[t] # <<>> => st = "aborting")
      BY <2>1
    <2>4. QED
      BY <2>2, <2>3, Zenon
  <1>3. PICK rec \in LogRecord :
            /\ rec = AbortOf(t) /\ rec.type = "ABORT" /\ rec.tid = t
            /\ rec.type \notin DataType /\ rec # BeginOf(t)
            /\ CanLog(t) /\ persist' \in Nat /\ persist' >= persist
    BY <1>1, EndRecord DEF AbortOf, EndType
  <1>4. LogInv
    BY DEF RecInv
  <1>5. PICK n \in Nat : n = Len(log)
    BY PageTypes
  <1>6. /\ DOMAIN log = 1..n /\ DOMAIN log' = 1..(n + 1)
        /\ log'[n + 1] = rec /\ \A k \in 1..n : log'[k] = log[k]
        /\ \A i \in DOMAIN log : Current(t, i)' <=> Current(t, i)
    BY <1>1, <1>3, <1>4, <1>5, Longer
  <1>7. TxnInLog(t)'
    <2>1. PICK b \in DOMAIN log :
              /\ log[b] = BeginOf(t) /\ Current(t, b)
              /\ \A k \in DOMAIN log : k > b /\ log[k].tid = t => log[k].type \notin EndType
      BY <1>1 DEF RecInv, StatusInLog, TxnInLog
    <2>2. b \in DOMAIN log' /\ log'[b] = BeginOf(t) /\ Current(t, b)' /\ n + 1 > b
      BY <1>6, <2>1
    <2>3. \A k \in DOMAIN log' : k > b /\ log'[k].tid = t => log'[k].type # "commit"
      BY <1>3, <1>6, <2>1 DEF EndType
    <2>4. n + 1 \in DOMAIN log' /\ \A k \in DOMAIN log' : k > n + 1 => log'[k].tid # t
      BY <1>6
    <2>5. status'[t] # "active"
      BY <1>2, TxnTypes
    <2>6. QED
      BY <1>3, <1>6, <2>2, <2>3, <2>4, <2>5 DEF TxnInLog, BeginOf, AbortOf
  <1>8. \A rid : \A i \in Writes(rid) : Winner(i)' <=> Winner(i)
    <2>1. \A i \in 1..n : Winner(i)' <=> Winner(i)
      BY <1>1, <1>3, <1>4, <1>5, LongerWinners
    <2>2. QED
      BY <1>6, <2>1 DEF Writes
  <1>9. QED
    BY <1>1, <1>2, <1>3, <1>7, <1>8, ControlRec


\* A commit record makes winners of the changes of its transaction, unless an ABORT record stands
\* between.
LEMMA CommitWinners ==
    ASSUME RecInv, LogInv', NEW t \in TxnId, NEW rec \in LogRecord,
           rec.type = "commit", rec.tid = t, log' = Append(log, rec)
    PROVE  \A i \in DOMAIN log : Winner(i)' <=>
              \/ Winner(i)
              \/ /\ log[i].tid = t /\ Current(t, i)
                 /\ \A k \in DOMAIN log : k > i => log[k] # AbortOf(t)
  <1>1. PICK n \in Nat : n = Len(log)
    BY PageTypes
  <1>2. /\ Len(log') = n + 1 /\ DOMAIN log = 1..n /\ DOMAIN log' = 1..(n + 1)
        /\ log'[n + 1] = rec /\ \A k \in 1..n : log'[k] = log[k]
        /\ \A i \in DOMAIN log : SameTxn(i, n + 1)' <=>
                 log[i].tid = rec.tid /\ Current(rec.tid, i) /\ rec # BeginOf(rec.tid)
        /\ \A i, j \in DOMAIN log : SameTxn(i, j)' <=> SameTxn(i, j)
    BY <1>1, Longer DEF RecInv
  <1>3. rec # BeginOf(t) /\ rec # AbortOf(t)
    BY DEF BeginOf, AbortOf
  <1>4. ASSUME NEW i \in 1..n, Winner(i) PROVE Winner(i)'
    <2>1. PICK j \in (i + 1)..n : /\ log[j].type = "commit" /\ SameTxn(i, j)
                                  /\ \A k \in (i + 1)..j : log[k] # AbortOf(log[i].tid)
      BY <1>1, <1>4 DEF Winner, AbortOf
    <2>2. j \in 1..n /\ j \in (i + 1)..(n + 1) /\ \A k \in (i + 1)..j : k \in 1..n
      BY <2>1
    <2>3. log'[j].type = "commit" /\ SameTxn(i, j)' /\ log'[i] = log[i]
      BY <1>2, <2>1, <2>2
    <2>4. \A k \in (i + 1)..j : log'[k] # AbortOf(log'[i].tid)
      BY <1>2, <2>1, <2>2, <2>3
    <2>5. QED
      BY <1>2, <2>2, <2>3, <2>4 DEF Winner, AbortOf
  <1>5. ASSUME NEW i \in 1..n, log[i].tid = t, Current(t, i),
               \A k \in DOMAIN log : k > i => log[k] # AbortOf(t)
        PROVE  Winner(i)'
    <2>1. SameTxn(i, n + 1)' /\ log'[i] = log[i] /\ n + 1 \in (i + 1)..(n + 1)
      BY <1>2, <1>3, <1>5
    <2>2. \A k \in (i + 1)..(n + 1) : log'[k] # AbortOf(log'[i].tid)
      BY <1>2, <1>3, <1>5, <2>1
    <2>3. QED
      BY <1>2, <2>1, <2>2 DEF Winner, AbortOf
  <1>6. ASSUME NEW i \in 1..n, Winner(i)', ~Winner(i)
        PROVE  /\ log[i].tid = t /\ Current(t, i)
               /\ \A k \in DOMAIN log : k > i => log[k] # AbortOf(t)
    <2>1. PICK j \in (i + 1)..(n + 1) : /\ log'[j].type = "commit" /\ SameTxn(i, j)'
                                        /\ \A k \in (i + 1)..j : log'[k] # AbortOf(log'[i].tid)
      BY <1>2, <1>6 DEF Winner, AbortOf
    <2>2. log'[i] = log[i]
      BY <1>2
    <2>3. CASE j \in 1..n
      <3>1. log[j].type = "commit" /\ SameTxn(i, j) /\ j \in (i + 1)..n
        BY <1>2, <2>1, <2>3
      <3>2. \A k \in (i + 1)..j : log[k] # AbortOf(log[i].tid)
        BY <1>2, <2>1, <2>2, <2>3
      <3>3. QED
        BY <1>1, <1>6, <3>1, <3>2 DEF Winner, AbortOf
    <2>4. CASE j = n + 1
      <3>1. log[i].tid = t /\ Current(t, i)
        BY <1>2, <2>1, <2>4
      <3>2. \A k \in DOMAIN log : k > i => log[k] # AbortOf(t)
        BY <1>2, <2>1, <2>2, <2>4, <3>1
      <3>3. QED
        BY <3>1, <3>2
    <2>5. QED
      BY <2>1, <2>3, <2>4
  <1>7. QED
    BY <1>2, <1>4, <1>5, <1>6

LEMMA CommitAbortedRec == ASSUME RecInv, LogInv', NEW t \in TxnId, CommitAborted(t) PROVE RecInv'
  <1>1. /\ mode = "running" /\ status[t] = "aborted" /\ status' = [status EXCEPT ![t] = "committed"]
        /\ log' = Append(log, [type |-> "commit", tid |-> t]) /\ persist' = Len(log')
        /\ UNCHANGED <<mode, mem, disk, num_pages, disturbed, write_set, committed>>
    BY DEF CommitAborted, AddLog, fileVars, ghosts
  <1>2. PICK rec \in LogRecord :
            /\ rec = [type |-> "commit", tid |-> t] /\ rec.type = "commit" /\ rec.tid = t
            /\ rec.type \notin DataType /\ rec # BeginOf(t)
            /\ CanLog(t) /\ persist' \in Nat /\ persist' >= persist
    BY <1>1, EndRecord DEF EndType
  <1>3. write_set[t] = <<>>
    BY <1>1 DEF RecInv, WriteSets
  <1>4. /\ \A i \in DOMAIN log : log'[i] = log[i] /\ i \in DOMAIN log'
        /\ \A i \in DOMAIN log : Current(t, i)' <=> Current(t, i)
    BY <1>1, <1>2, ControlLog
  <1>5. PICK b \in DOMAIN log :
            /\ log[b] = BeginOf(t) /\ Current(t, b)
            /\ \E a \in DOMAIN log : /\ a > b /\ log[a] = AbortOf(t)
                                     /\ \A k \in DOMAIN log : k > a => log[k].tid # t
    BY <1>1 DEF RecInv, StatusInLog, TxnInLog
  <1>6. TxnInLog(t)'
    <2>1. status'[t] = "committed"
      BY <1>1, TxnTypes
    <2>2. b \in DOMAIN log' /\ log'[b] = BeginOf(t) /\ Current(t, b)'
      BY <1>4, <1>5
    <2>3. QED
      BY <2>1, <2>2 DEF TxnInLog, BeginOf
  <1>7. \A rid : \A i \in Writes(rid) : Winner(i)' <=> Winner(i)
    <2>1. ASSUME NEW rid, NEW i \in Writes(rid) PROVE Winner(i)' <=> Winner(i)
      <3>1. /\ i \in DOMAIN log /\ i \in Nat /\ log[i].type \in DataType
            /\ DOMAIN log = 1..Len(log) /\ Len(log) \in Nat
        BY WritesTypes, LogTypes DEF RecInv, IsData
      <3>2. PICK a \in DOMAIN log : /\ log[a] = AbortOf(t)
                                    /\ \A k \in DOMAIN log : k > a => log[k].tid # t
        BY <1>5
      <3>3. i # a
        BY <3>1, <3>2 DEF AbortOf, DataType
      <3>4. ~(log[i].tid = t /\ \A k \in DOMAIN log : k > i => log[k] # AbortOf(t))
        BY <3>1, <3>2, <3>3
      <3>5. QED
        BY <1>1, <1>2, <3>1, <3>4, CommitWinners
    <2>2. QED
      BY <2>1
  <1>8. QED
    BY <1>1, <1>2, <1>3, <1>6, <1>7, ControlRec


LEMMA CommitRec == ASSUME RecInv, LogInv', NEW t \in TxnId, Commit(t) PROVE RecInv'
  <1>1. /\ mode = "running" /\ status[t] = "active" /\ status' = [status EXCEPT ![t] = "committed"]
        /\ log' = Append(log, [type |-> "commit", tid |-> t]) /\ persist' = Len(log')
        /\ write_set' = [write_set EXCEPT ![t] = <<>>]
        /\ committed' = [rid \in Rid |-> IF Wrote(t, rid) THEN Record(rid) ELSE committed[rid]]
        /\ UNCHANGED <<mode, mem, disk, num_pages, disturbed>>
    BY DEF Commit, AddLog, fileVars, ghosts
  <1>2. PICK rec \in LogRecord :
            /\ rec = [type |-> "commit", tid |-> t] /\ rec.type = "commit" /\ rec.tid = t
            /\ rec.type \notin DataType /\ rec # BeginOf(t)
            /\ CanLog(t) /\ persist' \in Nat /\ persist' >= persist
    BY <1>1, EndRecord DEF EndType
  <1>3. LogInv /\ WriteSets /\ OwnChanges /\ CommittedInLog /\ Chain /\ Settled
    BY DEF RecInv
  <1>4. /\ \A rid : Writes(rid)' = Writes(rid) /\ Writes(rid) \subseteq DOMAIN log
        /\ \A i \in DOMAIN log : log'[i] = log[i] /\ i \in DOMAIN log'
        /\ \A i, j \in DOMAIN log : SameTxn(i, j)' <=> SameTxn(i, j)
        /\ \A u : \A i \in DOMAIN log : Current(u, i)' <=> Current(u, i) /\ rec # BeginOf(u)
    BY <1>1, <1>2, ControlLog
  <1>5. /\ \A u \in TxnId : status'[u] = IF u = t THEN "committed" ELSE status[u]
        /\ \A u \in TxnId : write_set'[u] = IF u = t THEN <<>> ELSE write_set[u]
    BY <1>1, TxnTypes
  <1>6. \A u \in TxnId : rec # BeginOf(u)
    BY <1>2 DEF BeginOf
  <1>7. PICK b \in DOMAIN log :
            /\ log[b] = BeginOf(t) /\ Current(t, b)
            /\ \A k \in DOMAIN log : k > b /\ log[k].tid = t => log[k].type \notin EndType
    BY <1>1 DEF RecInv, StatusInLog, TxnInLog
  <1>8. \A rid : \A i \in Writes(rid) : /\ i \in DOMAIN log /\ i \in Nat /\ IsData(i)
                                        /\ log[i].type \in DataType /\ log[i].tid \in TxnId
                                        /\ log[i].rid = rid /\ DOMAIN log \subseteq Nat
    BY <1>3, WritesTypes, LogTypes DEF IsData
  \* The winners are those from before and the changes of t.
  <1>9. \A rid : \A i \in Writes(rid) : Winner(i)' <=> Winner(i) \/ (log[i].tid = t /\ Current(t, i))
    <2>1. ASSUME NEW rid, NEW i \in Writes(rid), log[i].tid = t, Current(t, i),
                 NEW k \in DOMAIN log, k > i
          PROVE  log[k] # AbortOf(t)
      <3>1. ~(b > i)
        BY <1>7, <2>1 DEF Current
      <3>2. k > b
        BY <1>8, <2>1, <3>1
      <3>3. QED
        BY <1>7, <3>2 DEF AbortOf, EndType
    <2>2. \A i \in DOMAIN log : Winner(i)' <=>
              \/ Winner(i)
              \/ /\ log[i].tid = t /\ Current(t, i)
                 /\ \A k \in DOMAIN log : k > i => log[k] # AbortOf(t)
      BY <1>1, <1>2, CommitWinners
    <2>3. QED
      BY <1>8, <2>1, <2>2
  <1>10. LogShape'
    BY <1>1, <1>2, LongerShape DEF DataType, EndType
  <1>11. StatusInLog'
    <2>1. ASSUME NEW u \in TxnId, status'[u] # "none", u # t PROVE TxnInLog(u)'
      <3>1. TxnInLog(u) /\ status'[u] = status[u]
        BY <1>5, <2>1 DEF RecInv, StatusInLog
      <3>2. QED
        BY <1>1, <1>2, <2>1, <3>1, LongerOthers
    <2>2. TxnInLog(t)'
      <3>1. status'[t] = "committed"
        BY <1>5
      <3>2. b \in DOMAIN log' /\ log'[b] = BeginOf(t) /\ Current(t, b)'
        BY <1>2, <1>4, <1>7
      <3>3. QED
        BY <3>1, <3>2 DEF TxnInLog, BeginOf
    <2>3. QED
      BY <2>1, <2>2 DEF StatusInLog
  <1>12. WriteSets'
    <2>1. \A u \in TxnId : status'[u] = "active" =>
              write_set'[u] = write_set[u] /\ (status[u] = "active" \/ rec = BeginOf(u))
      BY <1>5
    <2>2. \A u \in TxnId : write_set'[u] # <<>> =>
              status'[u] \in {"active", "aborting"} /\ rec # BeginOf(u)
      BY <1>3, <1>5, <1>6 DEF WriteSets
    <2>3. \A u \in TxnId : write_set'[u] = write_set[u] \/ write_set'[u] = <<>>
      BY <1>5
    <2>4. QED
      BY <1>1, <1>2, <2>1, <2>2, <2>3, ControlWriteSets
  <1>13. \A rid : \A i \in Writes(rid) : Lost(i) => Lost(i)'
    <2>1. ASSUME NEW rid, NEW i \in Writes(rid), Lost(i) PROVE Lost(i)'
      <3>1. /\ i \in DOMAIN log /\ log'[i] = log[i] /\ log[i].tid \in TxnId /\ ~Winner(i)
            /\ ~(status[log[i].tid] = "active" /\ Current(log[i].tid, i))
        BY <1>4, <1>8, <2>1 DEF Lost
      <3>2. ~Winner(i)'
        BY <1>1, <1>9, <3>1
      <3>3. ~(status'[log[i].tid] = "active" /\ Current(log[i].tid, i)')
        BY <1>4, <1>5, <3>1
      <3>4. QED
        BY <3>1, <3>2, <3>3 DEF Lost, Current, BeginOf
    <2>2. QED
      BY <2>1
  <1>14. DiskShows' /\ MemShows' /\ Applied' /\ InRecovery' /\ UndoneSoFar' /\ StartFailsOnly'
    BY <1>1, <1>2, <1>13, ControlPages
  \* Who wrote a record is in the log.
  <1>15. ASSUME NEW rid \in Rid
         PROVE  Wrote(t, rid) <=> \E i \in Writes(rid) : log[i].tid = t /\ Current(t, i)
    <2>1. ASSUME Wrote(t, rid) PROVE \E i \in Writes(rid) : log[i].tid = t /\ Current(t, i)
      <3>1. PICK n \in DOMAIN write_set[t] : write_set[t][n].rid = rid
        BY <2>1 DEF Wrote
      <3>2. PICK j \in DOMAIN log : log[j] = write_set[t][n] /\ log[j].tid = t /\ Current(t, j)
        BY <1>3 DEF WriteSets
      <3>3. write_set[t][n] \in DataRecord
        BY TxnTypes
      <3>4. j \in Writes(rid)
        BY <3>1, <3>2, <3>3 DEF Writes, IsData, DataRecord
      <3>5. QED
        BY <3>2, <3>4
    <2>2. ASSUME NEW i \in Writes(rid), log[i].tid = t, Current(t, i) PROVE Wrote(t, rid)
      BY <1>1, <1>3, <1>8, <2>2 DEF WriteSets, Wrote
    <2>3. QED
      BY <2>1, <2>2
  <1>16. \A rid : Record(rid)' = Record(rid)
    BY <1>1 DEF Record, At
  <1>17. CommittedInLog'
    <2>1. ASSUME NEW rid \in Rid
          PROVE  /\ (\A i \in Writes(rid) : ~Winner(i)') => committed'[rid] = None
                 /\ \A i \in Writes(rid) :
                       Winner(i)' /\ (\A j \in Writes(rid) : j > i => ~Winner(j)') =>
                          committed'[rid] = log[i].new
      <3>1. CASE Wrote(t, rid)
        <4>1. PICK i \in Writes(rid) : log[i].tid = t /\ Current(t, i)
          BY <1>15, <2>1, <3>1
        <4>2. PICK g \in Writes(rid) : \A j \in Writes(rid) : j <= g
          BY <1>3, <4>1, LastOfAll
        <4>3. i <= g
          BY <4>2
        <4>4. log[g].tid = t
          <5>1. CASE g = i
            BY <4>1, <5>1
          <5>2. CASE g > i
            BY <1>1, <1>3, <1>8, <4>1, <5>2 DEF WriteSets
          <5>3. QED
            BY <1>8, <4>3, <5>1, <5>2
        <4>5. Current(t, g)
          BY <1>3, <1>8, <4>1, <4>3, Ordered
        <4>6. Winner(g)' /\ Record(rid) = log[g].new
          BY <1>1, <1>3, <1>9, <2>1, <4>2, <4>4, <4>5 DEF OwnChanges
        <4>7. committed'[rid] = log[g].new
          BY <1>1, <2>1, <3>1, <4>6
        <4>8. \A k \in Writes(rid) : (\A j \in Writes(rid) : j > k => ~Winner(j)') => k = g
          BY <1>8, <4>2, <4>6
        <4>9. QED
          BY <4>6, <4>7, <4>8
      <3>2. CASE ~Wrote(t, rid)
        <4>1. \A i \in Writes(rid) : Winner(i)' <=> Winner(i)
          BY <1>9, <1>15, <2>1, <3>2
        <4>2. committed'[rid] = committed[rid]
          BY <1>1, <2>1, <3>2
        <4>3. QED
          BY <1>3, <2>1, <4>1, <4>2 DEF CommittedInLog
      <3>3. QED
        BY <3>1, <3>2
    <2>2. QED
      BY <1>4, <2>1 DEF CommittedInLog
  <1>18. Chain'
    <2>1. ASSUME NEW rid \in Rid \ disturbed, NEW i \in Writes(rid), NEW p \in Writes(rid), p < i,
                 \A j \in Writes(rid) : j <= p \/ j >= i, Winner(p)' \/ SameTxn(p, i)'
          PROVE  log[i].old = log[p].new
      <3>1. Winner(p) \/ SameTxn(p, i)
        <4>1. CASE SameTxn(p, i)'
          BY <1>4, <4>1
        <4>2. CASE Winner(p)' /\ ~Winner(p)
          <5>1. log[p].tid = t /\ Current(t, p)
            BY <1>9, <4>2
          <5>2. log[i].tid = t
            BY <1>1, <1>3, <1>8, <2>1, <5>1 DEF WriteSets
          <5>3. p <= i
            BY <1>8, <2>1
          <5>4. QED
            BY <1>3, <1>8, <5>1, <5>2, <5>3, Ordered
        <4>3. QED
          BY <2>1, <4>1, <4>2
      <3>2. QED
        BY <1>3, <2>1, <3>1 DEF Chain
    <2>2. \A rid \in Rid \ disturbed : \A i \in Writes(rid) :
              (\A j \in Writes(rid) : j >= i) => log[i].old = None
      BY <1>3 DEF Chain
    <2>3. QED
      BY <1>1, <1>4, <2>1, <2>2 DEF Chain
  <1>19. OwnChanges'
    <2>1. ASSUME NEW u \in TxnId, status'[u] = "active", NEW rid \in Rid, NEW i \in Writes(rid),
                 log'[i].tid = u, Current(u, i)', \A k \in Writes(rid) : k <= i
          PROVE  Record(rid)' = log'[i].new
      <3>1. i \in DOMAIN log /\ log'[i] = log[i] /\ Current(u, i) /\ status[u] = "active"
        BY <1>4, <1>5, <2>1
      <3>2. QED
        BY <1>3, <1>16, <2>1, <3>1 DEF OwnChanges
    <2>2. ASSUME NEW u \in TxnId, NEW n \in DOMAIN write_set'[u],
                 \A m \in 1..(n - 1) : write_set'[u][m].rid # write_set'[u][n].rid,
                 write_set'[u][n].rid \notin disturbed'
          PROVE  write_set'[u][n].old = committed'[write_set'[u][n].rid]
      <3>1. u # t /\ write_set'[u] = write_set[u] /\ n \in DOMAIN write_set[u]
        BY <1>5, <2>2
      <3>2. PICK rid \in Rid : rid = write_set[u][n].rid
        <4>1. write_set[u][n] \in DataRecord
          BY <3>1, TxnTypes
        <4>2. QED
          BY <4>1 DEF DataRecord
      <3>3. ~Wrote(t, rid)
        BY <1>3, <3>1, <3>2 DEF Wrote, WriteSets
      <3>4. committed'[rid] = committed[rid]
        BY <1>1, <3>3
      <3>5. write_set[u][n].old = committed[rid]
        BY <1>1, <1>3, <2>2, <3>1, <3>2 DEF OwnChanges
      <3>6. QED
        BY <3>1, <3>2, <3>4, <3>5
    <2>3. QED
      BY <1>4, <2>1, <2>2 DEF OwnChanges
  <1>20. Settled'
    <2>1. ASSUME NEW rid \in Rid \ disturbed, \A u \in TxnId : ~Wrote(u, rid)'
          PROVE  Record(rid) = committed'[rid]
      <3>1. CASE Wrote(t, rid)
        BY <1>1, <2>1, <3>1
      <3>2. CASE ~Wrote(t, rid)
        <4>1. \A u \in TxnId : ~Wrote(u, rid)
          BY <1>5, <2>1, <3>2 DEF Wrote
        <4>2. QED
          BY <1>1, <1>3, <2>1, <3>2, <4>1 DEF Settled
      <3>3. QED
        BY <3>1, <3>2
    <2>2. QED
      BY <1>1, <1>16, <2>1 DEF Settled
  <1>21. QED
    BY <1>10, <1>11, <1>12, <1>14, <1>17, <1>18, <1>19, <1>20 DEF RecInv


-----------------------------------------------------------------------------
(* Transactions: rollback *)

LEMMA RollbackRec == ASSUME RecInv, LogInv', NEW t \in TxnId, RollbackOne(t) PROVE RecInv'
  <1>1. PICK n : n = Len(write_set[t])
    OBVIOUS
  <1>2. /\ mode = "running" /\ status[t] = "aborting"
        /\ mem' = Put(mem, write_set[t][n].rid, write_set[t][n].old)
        /\ write_set' = [write_set EXCEPT ![t] = SubSeq(@, 1, n - 1)]
        /\ status' = [status EXCEPT ![t] = IF n = 1 THEN "aborted" ELSE @]
        /\ UNCHANGED <<mode, log, persist, disk, num_pages, committed, disturbed>>
    BY <1>1 DEF RollbackOne, ghosts
  <1>3. LogInv /\ LogShape /\ WriteSets /\ OwnChanges /\ Settled /\ Applied /\ MemShows
    BY DEF RecInv
  <1>4. /\ n \in Nat /\ n >= 1 /\ DOMAIN write_set[t] = 1..n /\ n \in DOMAIN write_set[t]
        /\ write_set[t][n] \in DataRecord /\ write_set[t] \in Seq(DataRecord)
    <2>1. write_set[t] \in Seq(DataRecord) /\ write_set[t] # <<>>
      BY <1>2, <1>3, TxnTypes DEF LogInv
    <2>2. QED
      BY <1>1, <2>1
  <1>5. PICK rid0 \in Rid, old \in Content : rid0 = write_set[t][n].rid /\ old = write_set[t][n].old
    BY <1>4 DEF DataRecord
  <1>6. /\ \A u \in TxnId : u # t => write_set'[u] = write_set[u] /\ status'[u] = status[u]
        /\ DOMAIN write_set'[t] = 1..(n - 1)
        /\ \A k \in 1..(n - 1) : write_set'[t][k] = write_set[t][k]
        /\ status'[t] = IF n = 1 THEN "aborted" ELSE "aborting"
    <2>1. /\ \A u \in TxnId : u # t => write_set'[u] = write_set[u] /\ status'[u] = status[u]
          /\ write_set'[t] = SubSeq(write_set[t], 1, n - 1)
          /\ status'[t] = IF n = 1 THEN "aborted" ELSE "aborting"
      BY <1>2, TxnTypes
    <2>2. QED
      BY <1>1, <1>4, <2>1
  <1>7. \A u \in TxnId : \A k \in DOMAIN write_set'[u] :
            k \in DOMAIN write_set[u] /\ write_set'[u][k] = write_set[u][k]
    BY <1>4, <1>6
  <1>8. \A u \in TxnId : status'[u] = "active" <=> status[u] = "active"
    BY <1>2, <1>6
  <1>9. /\ \A u, i : Current(u, i)' <=> Current(u, i)
        /\ \A i, j : SameTxn(i, j)' <=> SameTxn(i, j)
        /\ \A i : (IsData(i)' <=> IsData(i)) /\ (Winner(i)' <=> Winner(i))
        /\ \A rid : Writes(rid)' = Writes(rid)
        /\ \A rid, val, m : Shows(val, rid, m) => Shows(val, rid, m)'
    BY <1>2, <1>3, <1>8, SameLog
  <1>10. LogShape' /\ CommittedInLog' /\ Chain' /\ DiskShows'
    BY <1>2, <1>8, <1>9, DiskSame DEF RecInv, LogShape, CommittedInLog, Chain
  <1>11. StatusInLog'
    <2>1. \A u \in TxnId : status'[u] # "none" => status[u] # "none"
      BY <1>2, <1>6
    <2>2. \A u \in TxnId : /\ status'[u] = "active" => status[u] = "active"
                           /\ status'[u] \in {"aborting", "aborted"} =>
                                 status[u] \in {"aborting", "aborted"}
      BY <1>2, <1>6
    <2>3. \A u \in TxnId : TxnInLog(u) => TxnInLog(u)'
      BY <1>2, <1>9, <2>2 DEF TxnInLog
    <2>4. QED
      BY <2>1, <2>3 DEF RecInv, StatusInLog
  <1>12. WriteSets'
    <2>1. ASSUME NEW u \in TxnId, NEW k \in DOMAIN write_set'[u]
          PROVE  \E j \in DOMAIN log' :
                    /\ log'[j] = write_set'[u][k] /\ log'[j].tid = u /\ Current(u, j)'
                    /\ \A l \in DOMAIN log' :
                          l > j /\ IsData(l)' /\ log'[l].rid.tab = log'[j].rid.tab => log'[l].tid = u
      <3>1. PICK j \in DOMAIN log :
              /\ log[j] = write_set[u][k] /\ log[j].tid = u /\ Current(u, j)
              /\ \A l \in DOMAIN log : l > j /\ IsData(l) /\ log[l].rid.tab = log[j].rid.tab =>
                    log[l].tid = u
        BY <1>3, <1>7 DEF WriteSets
      <3>2. log' = log /\ write_set'[u][k] = write_set[u][k]
        BY <1>2, <1>7
      <3>3. QED
        BY <1>9, <3>1, <3>2
    <2>2. ASSUME NEW u \in TxnId, status'[u] = "active", NEW i \in DOMAIN log', IsData(i)',
                 log'[i].tid = u, Current(u, i)'
          PROVE  /\ \E k \in DOMAIN write_set'[u] : write_set'[u][k] = log'[i]
                 /\ \A l \in DOMAIN log' : l > i /\ IsData(l)' /\ log'[l].rid.tab = log'[i].rid.tab =>
                       log'[l].tid = u
      <3>1. status[u] = "active" /\ write_set'[u] = write_set[u]
        BY <1>2, <1>6, <1>8, <2>2
      <3>2. QED
        BY <1>2, <1>3, <1>9, <2>2, <3>1 DEF WriteSets
    <2>3. \A u, v \in TxnId : u # v =>
            \A k \in DOMAIN write_set'[u], m \in DOMAIN write_set'[v] :
              write_set'[u][k].rid.tab # write_set'[v][m].rid.tab
      BY <1>3, <1>7 DEF WriteSets
    <2>4. \A u \in TxnId : write_set'[u] # <<>> => status'[u] \in {"active", "aborting"}
      <3>1. ASSUME n = 1 PROVE write_set'[t] = <<>>
        <4>1. write_set'[t] = SubSeq(write_set[t], 1, 0)
          BY <1>2, <3>1, TxnTypes
        <4>2. QED
          BY <1>4, <4>1
      <3>2. QED
        BY <1>3, <1>6, <3>1 DEF WriteSets
    <2>5. QED
      BY <2>1, <2>2, <2>3, <2>4 DEF WriteSets
  \* The last change of the record is one of t, which will never commit.
  <1>13. PICK j \in Writes(rid0) :
            /\ log[j] = write_set[t][n] /\ log[j].tid = t /\ Current(t, j)
            /\ \A k \in Writes(rid0) : k > j => log[k].tid = t
    <2>1. PICK j \in DOMAIN log :
              /\ log[j] = write_set[t][n] /\ log[j].tid = t /\ Current(t, j)
              /\ \A k \in DOMAIN log : k > j /\ IsData(k) /\ log[k].rid.tab = log[j].rid.tab =>
                    log[k].tid = t
      BY <1>3, <1>4 DEF WriteSets
    <2>2. j \in Writes(rid0)
      BY <1>4, <1>5, <2>1 DEF Writes, IsData, DataRecord
    <2>3. \A k \in Writes(rid0) : k \in DOMAIN log /\ IsData(k) /\ log[k].rid = log[j].rid
      BY <1>5, <2>1 DEF Writes
    <2>4. QED
      BY <2>1, <2>2, <2>3
  <1>14. ASSUME NEW g \in Writes(rid0), \A k \in Writes(rid0) : k <= g
         PROVE  j <= g /\ SameTxn(j, g) /\ log[g].tid = t /\ Lost(g)
    <2>1. /\ j <= g /\ j \in DOMAIN log /\ g \in DOMAIN log /\ j \in Nat /\ g \in Nat
          /\ DOMAIN log = 1..Len(log) /\ Len(log) \in Nat
      BY <1>3, <1>14, WritesTypes, LogTypes
    <2>2. log[g].tid = t
      BY <1>13, <2>1
    <2>3. Current(t, g) /\ SameTxn(j, g)
      BY <1>3, <1>13, <2>1, <2>2, Ordered
    <2>4. PICK b \in DOMAIN log :
              /\ log[b] = BeginOf(t)
              /\ \A k \in DOMAIN log : k > b /\ log[k].tid = t => log[k].type # "commit"
      BY <1>2 DEF RecInv, StatusInLog, TxnInLog
    <2>5. ~(b > g)
      BY <2>3, <2>4 DEF Current
    <2>6. ~Winner(g)
      <3>1. ASSUME NEW k \in (g + 1)..Len(log), log[k].type = "commit", SameTxn(g, k) PROVE FALSE
        <4>1. k \in DOMAIN log /\ k > b
          BY <2>1, <2>4, <2>5, <3>1
        <4>2. log[k].tid = t
          BY <2>2, <3>1 DEF SameTxn
        <4>3. QED
          BY <2>4, <3>1, <4>1, <4>2
      <3>2. QED
        BY <3>1 DEF Winner
    <2>7. QED
      BY <1>2, <2>1, <2>2, <2>3, <2>6 DEF Lost
  <1>15. \A rid \in Rid : /\ At(mem', rid) = IF rid = rid0 THEN old ELSE At(mem, rid)
                          /\ LsnOf(mem', rid) = LsnOf(mem, rid)
    BY <1>2, <1>5, PutAt, PageTypes
  <1>16. MemShows'
    <2>1. ASSUME NEW rid \in Rid \ disturbed, rid.page <= num_pages[rid.tab]
          PROVE  Shows(At(mem, rid), rid, LsnOf(mem, rid) + 1)'
      <3>1. PICK v, m : v = At(mem', rid) /\ m = LsnOf(mem', rid) + 1
        OBVIOUS
      <3>2. Shows(v, rid, m)
        <4>1. CASE rid # rid0
          BY <1>2, <1>3, <1>15, <2>1, <3>1, <4>1 DEF MemShows
        <4>2. CASE rid = rid0
          <5>1. PICK g \in Writes(rid0) :
                    (\A k \in Writes(rid0) : k <= g) /\ LastUpTo(rid0, g, LsnOf(mem, rid0) + 1)
            BY <1>2, <1>13, <2>1, <4>2, LastShown
          <5>2. j <= g /\ SameTxn(j, g) /\ Lost(g)
            BY <1>14, <5>1
          <5>3. v = log[j].old /\ m = LsnOf(mem, rid0) + 1
            BY <1>5, <1>13, <1>15, <3>1, <4>2
          <5>4. QED
            BY <4>2, <5>1, <5>2, <5>3 DEF Shows
        <4>3. QED
          BY <4>1, <4>2
      <3>3. Shows(v, rid, m)'
        BY <1>9, <3>2
      <3>4. v = At(mem, rid)' /\ m = (LsnOf(mem, rid) + 1)'
        BY <3>1 DEF At, LsnOf
      <3>5. QED
        BY <3>3, <3>4
    <2>2. QED
      BY <1>2, <2>1 DEF MemShows
  <1>17. Applied'
    <2>1. \A rid \in Rid \ disturbed : \A i \in Writes(rid) :
              rid.page <= num_pages[rid.tab] /\ i <= LsnOf(mem', rid) + 1
      BY <1>2, <1>3, <1>15 DEF Applied
    <2>2. QED
      BY <1>2, <1>9, <2>1 DEF Applied, LsnOf
  <1>18. /\ \A rid \in Rid : rid # rid0 => Record(rid)' = Record(rid)
         /\ rid0.page <= num_pages[rid0.tab] => Record(rid0)' = old
    BY <1>2, <1>15 DEF Record, At
  <1>19. OwnChanges'
    <2>1. ASSUME NEW u \in TxnId, status'[u] = "active", NEW rid \in Rid, NEW i \in Writes(rid),
                 log[i].tid = u, Current(u, i), \A k \in Writes(rid) : k <= i
          PROVE  Record(rid)' = log[i].new
      <3>1. status[u] = "active" /\ u # t
        BY <1>2, <1>8, <2>1
      <3>2. rid # rid0
        BY <1>14, <2>1, <3>1
      <3>3. QED
        BY <1>3, <1>18, <2>1, <3>1, <3>2 DEF OwnChanges
    <2>2. ASSUME NEW u \in TxnId, NEW k \in DOMAIN write_set'[u],
                 \A m \in 1..(k - 1) : write_set'[u][m].rid # write_set'[u][k].rid,
                 write_set'[u][k].rid \notin disturbed
          PROVE  write_set'[u][k].old = committed[write_set'[u][k].rid]
      <3>1. k \in DOMAIN write_set[u] /\ write_set'[u][k] = write_set[u][k]
        BY <1>7, <2>2
      <3>2. \A m \in 1..(k - 1) : write_set[u][m].rid # write_set[u][k].rid
        <4>1. CASE u # t
          BY <1>6, <2>2, <4>1
        <4>2. CASE u = t
          <5>1. \A m \in 1..(k - 1) : m \in 1..(n - 1)
            BY <1>4, <1>6, <2>2, <4>2
          <5>2. QED
            BY <1>6, <2>2, <3>1, <4>2, <5>1
        <4>3. QED
          BY <4>1, <4>2
      <3>3. QED
        BY <1>3, <2>2, <3>1, <3>2 DEF OwnChanges
    <2>3. UNCHANGED <<log, committed, disturbed>>
      BY <1>2
    <2>4. QED
      BY <1>9, <2>1, <2>2, <2>3 DEF OwnChanges
  <1>20. Settled'
    <2>1. ASSUME NEW rid \in Rid \ disturbed, \A u \in TxnId : ~Wrote(u, rid)'
          PROVE  Record(rid)' = committed[rid]
      <3>1. \A m \in 1..(n - 1) : write_set[t][m].rid # rid
        BY <1>6, <2>1 DEF Wrote
      <3>2. CASE rid = rid0
        <4>1. old = committed[rid0]
          BY <1>3, <1>4, <1>5, <2>1, <3>1, <3>2 DEF OwnChanges
        <4>2. rid0.page <= num_pages[rid0.tab]
          BY <1>2, <1>3, <1>13, <2>1, <3>2 DEF Applied
        <4>3. QED
          BY <1>18, <3>2, <4>1, <4>2
      <3>3. CASE rid # rid0
        <4>1. \A m \in DOMAIN write_set[t] : m \in 1..(n - 1) \/ m = n
          BY <1>4
        <4>2. ~Wrote(t, rid)
          BY <1>5, <3>1, <3>3, <4>1 DEF Wrote
        <4>3. \A u \in TxnId : ~Wrote(u, rid)
          BY <1>6, <2>1, <4>2 DEF Wrote
        <4>4. QED
          BY <1>2, <1>3, <1>18, <2>1, <3>3, <4>3 DEF Settled
      <3>4. QED
        BY <3>2, <3>3
    <2>2. QED
      BY <1>2, <2>1 DEF Settled
  <1>21. InRecovery' /\ UndoneSoFar' /\ StartFailsOnly'
    BY <1>2 DEF InRecovery, UndoneSoFar, StartFailsOnly
  <1>22. QED
    BY <1>10, <1>11, <1>12, <1>16, <1>17, <1>19, <1>20, <1>21 DEF RecInv


-----------------------------------------------------------------------------
(* Transactions: changes *)

\* A record in a write set was last changed by its transaction.
LEMMA WroteInLog ==
    ASSUME RecInv, NEW t \in TxnId, NEW rid \in Rid, Wrote(t, rid)
    PROVE  \E j \in Writes(rid) : /\ log[j].tid = t /\ Current(t, j)
                                  /\ \A k \in Writes(rid) : k > j => log[k].tid = t
  <1>1. PICK m \in DOMAIN write_set[t] : write_set[t][m].rid = rid
    BY DEF Wrote
  <1>2. PICK j \in DOMAIN log :
            /\ log[j] = write_set[t][m] /\ log[j].tid = t /\ Current(t, j)
            /\ \A k \in DOMAIN log : k > j /\ IsData(k) /\ log[k].rid.tab = log[j].rid.tab =>
                  log[k].tid = t
    BY DEF RecInv, WriteSets
  <1>3. write_set[t][m] \in DataRecord
    BY TxnTypes
  <1>4. j \in Writes(rid)
    BY <1>1, <1>2, <1>3 DEF Writes, IsData, DataRecord
  <1>5. \A k \in Writes(rid) : k \in DOMAIN log /\ IsData(k) /\ log[k].rid = log[j].rid
    BY <1>1, <1>2 DEF Writes
  <1>6. QED
    BY <1>2, <1>4, <1>5

\* A new change starts from what the last one left, unless that was taken back.
LEMMA ChangeOld ==
    ASSUME RecInv, mode = "running", NEW t \in TxnId, status[t] = "active",
           NEW rid \in Rid \ disturbed, \A u \in TxnId \ {t} : ~Wrote(u, rid)
    PROVE  /\ Writes(rid) = {} => Record(rid) = None
           /\ \A p \in Writes(rid) :
                 /\ \A k \in Writes(rid) : k <= p
                 /\ Winner(p) \/ (log[p].tid = t /\ Current(t, p))
                 => Record(rid) = log[p].new
           /\ ~Wrote(t, rid) => Record(rid) = committed[rid]
  <1>1. LogInv /\ OwnChanges /\ Settled /\ CommittedInLog
    BY DEF RecInv
  <1>2. Writes(rid) = {} => Record(rid) = None
    BY LastShown
  <1>3. ~Wrote(t, rid) => Record(rid) = committed[rid]
    BY <1>1 DEF Settled
  <1>4. ASSUME NEW p \in Writes(rid), \A k \in Writes(rid) : k <= p,
               Winner(p) \/ (log[p].tid = t /\ Current(t, p))
        PROVE  Record(rid) = log[p].new
    <2>1. CASE log[p].tid = t /\ Current(t, p)
      BY <1>1, <1>4, <2>1 DEF OwnChanges
    <2>2. CASE Winner(p) /\ ~(log[p].tid = t /\ Current(t, p))
      <3>1. \A k \in Writes(rid) : k \in Nat /\ k \in DOMAIN log
        BY <1>1, WritesTypes
      <3>2. ~Wrote(t, rid)
        <4>1. SUFFICES ASSUME Wrote(t, rid) PROVE FALSE
          OBVIOUS
        <4>2. PICK j \in Writes(rid) : /\ log[j].tid = t /\ Current(t, j)
                                       /\ \A k \in Writes(rid) : k > j => log[k].tid = t
          BY <4>1, WroteInLog
        <4>3. j <= p /\ log[p].tid = t
          BY <1>4, <3>1, <4>2
        <4>4. Current(t, p)
          BY <1>1, <3>1, <4>2, <4>3, Ordered
        <4>5. QED
          BY <2>2, <4>3, <4>4
      <3>3. \A k \in Writes(rid) : k > p => ~Winner(k)
        BY <1>4, <3>1
      <3>4. committed[rid] = log[p].new
        BY <1>1, <2>2, <3>3 DEF CommittedInLog
      <3>5. QED
        BY <1>3, <3>2, <3>4
    <2>3. QED
      BY <1>4, <2>1, <2>2
  <1>5. QED
    BY <1>2, <1>3, <1>4

\* The log, the write sets and the transactions after a change.
LEMMA ChangeTxnPart ==
    ASSUME RecInv, LogInv', NEW t \in TxnId, mode = "running", status[t] = "active",
           NEW rec \in DataRecord, rec.tid = t, rec.old = Record(rec.rid), Fits(rec),
           log' = Append(log, rec),
           \A u \in TxnId \ {t} : \A i \in DOMAIN write_set[u] : write_set[u][i].rid.tab # rec.rid.tab,
           write_set' = [write_set EXCEPT ![t] = Append(@, rec)],
           UNCHANGED <<mode, persist, status, committed, disturbed>>
    PROVE  TxnPart'
  <1>1. LogInv /\ WriteSets /\ CommittedInLog /\ Chain
    BY DEF RecInv
  <1>2. PICK n \in Nat : n = Len(log)
    BY PageTypes
  <1>3. rec \in LogRecord /\ rec.type \in DataType /\ rec.type \notin EndType /\ rec.rid \in Rid
        /\ rec.type # "commit"
    BY DEF LogRecord, DataRecord, DataType, EndType
  <1>4. \A u : rec # BeginOf(u)
    BY <1>3 DEF BeginOf, DataType
  <1>5. /\ Len(log') = n + 1
        /\ DOMAIN log = 1..n /\ DOMAIN log' = 1..(n + 1)
        /\ log'[n + 1] = rec /\ \A k \in 1..n : log'[k] = log[k]
        /\ \A u : \A i \in DOMAIN log : Current(u, i)' <=> Current(u, i)
        /\ \A u : Current(u, n + 1)'
        /\ \A i \in DOMAIN log : SameTxn(i, n + 1)' <=> log[i].tid = t /\ Current(t, i)
        /\ \A i, j \in DOMAIN log : SameTxn(i, j)' <=> SameTxn(i, j)
        /\ \A i \in DOMAIN log : IsData(i)' <=> IsData(i)
        /\ IsData(n + 1)'
        /\ \A rid : Writes(rid)' = Writes(rid) \cup {i \in {n + 1} : rec.rid = rid}
    BY <1>1, <1>2, <1>3, <1>4, Longer
  <1>6. ~Winner(n + 1)' /\ \A i \in 1..n : Winner(i)' <=> Winner(i)
    BY <1>1, <1>2, <1>3, LongerWinners
  <1>7. \A rid : Writes(rid) \subseteq 1..n
    BY <1>5 DEF Writes
  <1>8. LogShape'
    <2>1. CanLog(t)
      BY OpenCanLog
    <2>2. persist' \in Nat /\ persist' >= persist
      BY PageTypes
    <2>3. QED
      BY <1>3, <2>1, <2>2, LongerShape
  <1>9. StatusInLog'
    <2>1. ASSUME NEW u \in TxnId, status'[u] # "none", u # t PROVE TxnInLog(u)'
      <3>1. TxnInLog(u)
        BY <2>1 DEF RecInv, StatusInLog
      <3>2. QED
        BY <1>3, <2>1, <3>1, LongerOthers
    <2>2. TxnInLog(t)'
      <3>1. PICK b \in DOMAIN log :
                /\ log[b] = BeginOf(t) /\ Current(t, b)
                /\ \A k \in DOMAIN log : k > b /\ log[k].tid = t => log[k].type \notin EndType
        BY DEF RecInv, StatusInLog, TxnInLog
      <3>2. b \in DOMAIN log' /\ log'[b] = BeginOf(t) /\ Current(t, b)'
        BY <1>5, <3>1
      <3>3. \A k \in DOMAIN log' : k > b /\ log'[k].tid = t => log'[k].type \notin EndType
        BY <1>3, <1>5, <3>1
      <3>4. QED
        BY <3>2, <3>3 DEF TxnInLog, BeginOf
    <2>3. QED
      BY <2>1, <2>2 DEF StatusInLog
  <1>10. /\ \A u \in TxnId : u # t => write_set'[u] = write_set[u]
         /\ \E m \in Nat : /\ DOMAIN write_set[t] = 1..m /\ DOMAIN write_set'[t] = 1..(m + 1)
                           /\ write_set'[t][m + 1] = rec
                           /\ \A k \in 1..m : write_set'[t][k] = write_set[t][k]
    <2>1. write_set[t] \in Seq(DataRecord)
      BY TxnTypes
    <2>2. /\ \A u \in TxnId : u # t => write_set'[u] = write_set[u]
          /\ write_set'[t] = Append(write_set[t], rec)
      BY TxnTypes
    <2>3. PICK m \in Nat : m = Len(write_set[t])
      <3>1. Len(write_set[t]) \in Nat
        BY <2>1
      <3>2. QED
        BY <3>1
    <2>4. /\ DOMAIN write_set[t] = 1..m /\ DOMAIN write_set'[t] = 1..(m + 1)
          /\ write_set'[t][m + 1] = rec
          /\ \A k \in 1..m : write_set'[t][k] = write_set[t][k]
      BY <2>1, <2>2, <2>3
    <2>5. QED
      BY <2>2, <2>4
  <1>11. PICK m \in Nat : /\ DOMAIN write_set[t] = 1..m /\ DOMAIN write_set'[t] = 1..(m + 1)
                          /\ write_set'[t][m + 1] = rec
                          /\ \A k \in 1..m : write_set'[t][k] = write_set[t][k]
    BY <1>10
  <1>12. WriteSets'
    <2>1. ASSUME NEW u \in TxnId, NEW k \in DOMAIN write_set[u], write_set'[u][k] = write_set[u][k]
          PROVE  \E j \in DOMAIN log' :
                    /\ log'[j] = write_set'[u][k] /\ log'[j].tid = u /\ Current(u, j)'
                    /\ \A l \in DOMAIN log' :
                          l > j /\ IsData(l)' /\ log'[l].rid.tab = log'[j].rid.tab => log'[l].tid = u
      <3>1. PICK j \in DOMAIN log :
              /\ log[j] = write_set[u][k] /\ log[j].tid = u /\ Current(u, j)
              /\ \A l \in DOMAIN log : l > j /\ IsData(l) /\ log[l].rid.tab = log[j].rid.tab =>
                    log[l].tid = u
        BY <1>1, <2>1 DEF WriteSets
      <3>2. j \in DOMAIN log' /\ log'[j] = log[j] /\ Current(u, j)'
        BY <1>5, <3>1
      <3>3. ASSUME NEW l \in DOMAIN log', l > j, IsData(l)', log'[l].rid.tab = log'[j].rid.tab
            PROVE  log'[l].tid = u
        <4>1. CASE l \in 1..n
          BY <1>5, <3>1, <3>2, <3>3, <4>1
        <4>2. CASE l = n + 1
          BY <1>5, <2>1, <3>1, <3>2, <3>3, <4>2
        <4>3. QED
          BY <1>5, <4>1, <4>2
      <3>4. QED
        BY <2>1, <3>1, <3>2, <3>3
    <2>2. ASSUME NEW u \in TxnId, NEW k \in DOMAIN write_set'[u]
          PROVE  \E j \in DOMAIN log' :
                    /\ log'[j] = write_set'[u][k] /\ log'[j].tid = u /\ Current(u, j)'
                    /\ \A l \in DOMAIN log' :
                          l > j /\ IsData(l)' /\ log'[l].rid.tab = log'[j].rid.tab => log'[l].tid = u
      <3>1. CASE u # t
        BY <1>10, <2>1, <2>2, <3>1
      <3>2. CASE u = t /\ k \in 1..m
        <4>1. k \in DOMAIN write_set[u] /\ write_set'[u][k] = write_set[u][k]
          BY <1>11, <3>2
        <4>2. QED
          BY <2>1, <4>1
      <3>3. CASE u = t /\ k = m + 1
        <4>1. n + 1 \in DOMAIN log' /\ log'[n + 1] = write_set'[u][k] /\ log'[n + 1].tid = u
          BY <1>5, <1>11, <3>3
        <4>2. \A l \in DOMAIN log' : ~(l > n + 1)
          BY <1>5
        <4>3. QED
          BY <1>5, <4>1, <4>2
      <3>4. u = t => k \in 1..m \/ k = m + 1
        BY <1>11, <2>2
      <3>5. QED
        BY <3>1, <3>2, <3>3, <3>4
    <2>3. ASSUME NEW u \in TxnId, status'[u] = "active", NEW i \in DOMAIN log', IsData(i)',
                 log'[i].tid = u, Current(u, i)'
          PROVE  /\ \E k \in DOMAIN write_set'[u] : write_set'[u][k] = log'[i]
                 /\ \A l \in DOMAIN log' : l > i /\ IsData(l)' /\ log'[l].rid.tab = log'[i].rid.tab =>
                       log'[l].tid = u
      <3>1. CASE i = n + 1
        <4>1. u = t /\ m + 1 \in DOMAIN write_set'[t] /\ log'[i] = rec
          BY <1>5, <1>11, <2>3, <3>1
        <4>2. \A l \in DOMAIN log' : ~(l > i)
          BY <1>5, <3>1
        <4>3. QED
          BY <1>11, <4>1, <4>2
      <3>2. CASE i \in 1..n
        <4>1. i \in DOMAIN log /\ IsData(i) /\ log'[i] = log[i] /\ Current(u, i) /\ log[i].tid = u
          BY <1>5, <2>3, <3>2
        <4>2. PICK k \in DOMAIN write_set[u] : write_set[u][k] = log[i]
          BY <1>1, <2>3, <4>1 DEF WriteSets
        <4>3. \A l \in DOMAIN log : l > i /\ IsData(l) /\ log[l].rid.tab = log[i].rid.tab =>
                  log[l].tid = u
          BY <1>1, <2>3, <4>1 DEF WriteSets
        <4>4. k \in DOMAIN write_set'[u] /\ write_set'[u][k] = log'[i]
          <5>1. CASE u = t
            BY <1>11, <4>1, <4>2, <5>1
          <5>2. CASE u # t
            BY <1>10, <4>1, <4>2, <5>2
          <5>3. QED
            BY <5>1, <5>2
        <4>5. ASSUME NEW l \in DOMAIN log', l > i, IsData(l)', log'[l].rid.tab = log'[i].rid.tab
              PROVE  log'[l].tid = u
          <5>1. CASE l \in 1..n
            BY <1>5, <4>1, <4>3, <4>5, <5>1
          <5>2. CASE l = n + 1
            BY <1>5, <4>1, <4>2, <4>5, <5>2
          <5>3. QED
            BY <1>5, <5>1, <5>2
        <4>6. QED
          BY <4>4, <4>5
      <3>3. i \in 1..n \/ i = n + 1
        BY <1>5
      <3>4. QED
        BY <3>1, <3>2, <3>3
    <2>4. \A u, v \in TxnId : u # v =>
            \A k \in DOMAIN write_set'[u], l \in DOMAIN write_set'[v] :
              write_set'[u][k].rid.tab # write_set'[v][l].rid.tab
      <3>1. \A u \in TxnId : \A k \in DOMAIN write_set'[u] :
                \/ k \in DOMAIN write_set[u] /\ write_set'[u][k] = write_set[u][k]
                \/ u = t /\ write_set'[u][k] = rec
        BY <1>10, <1>11
      <3>2. QED
        BY <1>1, <3>1 DEF WriteSets
    <2>5. \A u \in TxnId : write_set'[u] # <<>> => status'[u] \in {"active", "aborting"}
      BY <1>1, <1>10 DEF WriteSets
    <2>6. \A u \in TxnId : \A k \in DOMAIN write_set'[u] :
              \E j \in DOMAIN log' :
                  /\ log'[j] = write_set'[u][k] /\ log'[j].tid = u /\ Current(u, j)'
                  /\ \A l \in DOMAIN log' : l > j /\ IsData(l)' /\ log'[l].rid.tab = log'[j].rid.tab =>
                        log'[l].tid = u
      BY <2>2, Zenon
    <2>7. \A u \in TxnId : status'[u] = "active" =>
              \A i \in DOMAIN log' : IsData(i)' /\ log'[i].tid = u /\ Current(u, i)' =>
                  /\ \E k \in DOMAIN write_set'[u] : write_set'[u][k] = log'[i]
                  /\ \A l \in DOMAIN log' : l > i /\ IsData(l)' /\ log'[l].rid.tab = log'[i].rid.tab =>
                        log'[l].tid = u
      <3>1. TAKE u \in TxnId
      <3>2. HAVE status'[u] = "active"
      <3>3. TAKE i \in DOMAIN log'
      <3>4. HAVE IsData(i)' /\ log'[i].tid = u /\ Current(u, i)'
      <3>5. QED
        BY <2>3, <3>2, <3>4, Zenon
    <2>8. QED
      BY <2>4, <2>5, <2>6, <2>7, Zenon DEF WriteSets
  <1>13. CommittedInLog'
    <2>1. ASSUME NEW rid \in Rid, \A i \in Writes(rid)' : ~Winner(i)' PROVE committed[rid] = None
      BY <1>1, <1>5, <1>6, <1>7, <2>1 DEF CommittedInLog
    <2>2. ASSUME NEW rid \in Rid, NEW i \in Writes(rid)', Winner(i)',
                 \A j \in Writes(rid)' : j > i => ~Winner(j)'
          PROVE  committed[rid] = log'[i].new
      <3>1. i \in Writes(rid) /\ i \in 1..n /\ log'[i] = log[i]
        BY <1>5, <1>6, <1>7, <2>2
      <3>2. Winner(i) /\ \A j \in Writes(rid) : j > i => ~Winner(j)
        BY <1>5, <1>6, <1>7, <2>2, <3>1
      <3>3. QED
        BY <1>1, <3>1, <3>2 DEF CommittedInLog
    <2>3. QED
      BY <2>1, <2>2 DEF CommittedInLog
  <1>14. Chain'
    <2>1. ASSUME NEW rid \in Rid \ disturbed, NEW i \in Writes(rid)', i \in 1..n
          PROVE  /\ (\A j \in Writes(rid)' : j >= i) => log'[i].old = None
                 /\ \A p \in Writes(rid)' :
                       /\ p < i /\ \A j \in Writes(rid)' : j <= p \/ j >= i
                       /\ Winner(p)' \/ SameTxn(p, i)'
                       => log'[i].old = log'[p].new
      <3>1. i \in Writes(rid) /\ log'[i] = log[i]
        BY <1>5, <2>1
      <3>2. \A p \in Writes(rid)' : p < i =>
                p \in Writes(rid) /\ p \in 1..n /\ (Winner(p)' <=> Winner(p)) /\ log'[p] = log[p]
        BY <1>5, <1>6, <1>7, <2>1
      <3>3. \A p \in Writes(rid)' : p < i => (SameTxn(p, i)' <=> SameTxn(p, i))
        BY <1>5, <2>1, <3>2
      <3>4. (\A j \in Writes(rid)' : j >= i) => log'[i].old = None
        BY <1>1, <1>5, <2>1, <3>1 DEF Chain
      <3>5. ASSUME NEW p \in Writes(rid)', p < i, \A j \in Writes(rid)' : j <= p \/ j >= i,
                   Winner(p)' \/ SameTxn(p, i)'
            PROVE  log'[i].old = log'[p].new
        <4>1. /\ p \in Writes(rid) /\ log'[p] = log[p] /\ (Winner(p) \/ SameTxn(p, i))
              /\ \A j \in Writes(rid) : j <= p \/ j >= i
          BY <1>5, <3>2, <3>3, <3>5
        <4>2. log[i].old = log[p].new
          BY <1>1, <2>1, <3>1, <3>5, <4>1 DEF Chain
        <4>3. QED
          BY <3>1, <4>1, <4>2
      <3>6. QED
        BY <3>4, <3>5
    <2>2. ASSUME NEW rid \in Rid \ disturbed, n + 1 \in Writes(rid)'
          PROVE  /\ (\A j \in Writes(rid)' : j >= n + 1) => log'[n + 1].old = None
                 /\ \A p \in Writes(rid)' :
                       /\ p < n + 1 /\ \A j \in Writes(rid)' : j <= p \/ j >= n + 1
                       /\ Winner(p)' \/ SameTxn(p, n + 1)'
                       => log'[n + 1].old = log'[p].new
      <3>1. rid = rec.rid /\ log'[n + 1].old = Record(rid)
        BY <1>5, <1>7, <2>2
      <3>2. \A u \in TxnId \ {t} : ~Wrote(u, rid)
        BY <3>1 DEF Wrote
      <3>3. /\ Writes(rid) = {} => Record(rid) = None
            /\ \A p \in Writes(rid) :
                  /\ \A k \in Writes(rid) : k <= p
                  /\ Winner(p) \/ (log[p].tid = t /\ Current(t, p))
                  => Record(rid) = log[p].new
        BY <2>2, <3>2, ChangeOld
      <3>4. (\A j \in Writes(rid)' : j >= n + 1) => Writes(rid) = {}
        BY <1>5, <1>7
      <3>5. ASSUME NEW p \in Writes(rid)', p < n + 1, \A j \in Writes(rid)' : j <= p \/ j >= n + 1,
                   Winner(p)' \/ SameTxn(p, n + 1)'
            PROVE  Record(rid) = log'[p].new
        <4>1. p \in Writes(rid) /\ p \in 1..n /\ log'[p] = log[p]
          BY <1>5, <1>7, <3>5
        <4>2. \A k \in Writes(rid) : k <= p
          BY <1>5, <1>7, <3>5
        <4>3. Winner(p) \/ (log[p].tid = t /\ Current(t, p))
          BY <1>5, <1>6, <3>5, <4>1
        <4>4. QED
          BY <3>3, <4>1, <4>2, <4>3
      <3>6. QED
        BY <3>1, <3>3, <3>4, <3>5
    <2>3. ASSUME NEW rid \in Rid \ disturbed, NEW i \in Writes(rid)'
          PROVE  /\ (\A j \in Writes(rid)' : j >= i) => log'[i].old = None
                 /\ \A p \in Writes(rid)' :
                       /\ p < i /\ \A j \in Writes(rid)' : j <= p \/ j >= i
                       /\ Winner(p)' \/ SameTxn(p, i)'
                       => log'[i].old = log'[p].new
      <3>1. CASE i \in 1..n
        BY <2>1, <2>3, <3>1
      <3>2. CASE i = n + 1
        BY <2>2, <2>3, <3>2
      <3>3. QED
        BY <1>5, <1>7, <2>3, <3>1, <3>2
    <2>4. QED
      BY <2>3 DEF Chain
  <1>15. QED
    BY <1>8, <1>9, <1>12, <1>13, <1>14 DEF TxnPart


\* The pages after a change: those of before, an empty one added perhaps, and the change made and
\* stamped.
LEMMA ChangeRec ==
    ASSUME RecInv, LogInv', NEW t \in TxnId, mode = "running", status[t] = "active",
           NEW rec \in DataRecord, rec.tid = t, rec.old = Record(rec.rid), Fits(rec),
           log' = Append(log, rec),
           \A u \in TxnId \ {t} : \A i \in DOMAIN write_set[u] : write_set[u][i].rid.tab # rec.rid.tab,
           write_set' = [write_set EXCEPT ![t] = Append(@, rec)],
           UNCHANGED <<mode, persist, disk, status, committed, disturbed>>,
           NEW pages \in PagesType, mem' = Stamp(Put(pages, rec.rid, rec.new), rec.rid, Len(log)),
           rec.rid.page <= num_pages'[rec.rid.tab],
           \A r \in Rid : IF r.page <= num_pages[r.tab]
                          THEN /\ r.page <= num_pages'[r.tab]
                               /\ At(pages, r) = At(mem, r) /\ LsnOf(pages, r) = LsnOf(mem, r)
                          ELSE r.page <= num_pages'[r.tab] =>
                                  /\ r.tab = rec.rid.tab /\ r.page = rec.rid.page
                                  /\ At(pages, r) = None
    PROVE  RecInv'
  <1>1. LogInv /\ WriteSets /\ OwnChanges /\ Settled /\ Applied /\ MemShows /\ DiskShows
    BY DEF RecInv
  <1>2. PICK n \in Nat : n = Len(log)
    BY PageTypes
  <1>3. PICK rid0 \in Rid : rid0 = rec.rid
    BY DEF DataRecord
  <1>4. rec \in LogRecord /\ rec.type \in DataType /\ rec.type # "commit" /\ rec.new \in Content
    BY DEF LogRecord, DataRecord, DataType
  <1>5. \A u : rec # BeginOf(u)
    BY <1>4 DEF BeginOf, DataType
  <1>6. /\ DOMAIN log = 1..n /\ DOMAIN log' = 1..(n + 1)
        /\ log'[n + 1] = rec /\ \A k \in 1..n : log'[k] = log[k]
        /\ \A u : \A i \in DOMAIN log : Current(u, i)' <=> Current(u, i)
        /\ \A i \in DOMAIN log : SameTxn(i, n + 1)' <=> log[i].tid = t /\ Current(t, i)
        /\ \A i, j \in DOMAIN log : SameTxn(i, j)' <=> SameTxn(i, j)
        /\ \A rid : Writes(rid)' = Writes(rid) \cup {i \in {n + 1} : rid0 = rid}
    BY <1>1, <1>2, <1>3, <1>4, <1>5, Longer
  <1>7. ~Winner(n + 1)' /\ \A i \in 1..n : Winner(i)' <=> Winner(i)
    BY <1>1, <1>2, <1>4, LongerWinners
  <1>8. /\ \A rid : Writes(rid) \subseteq 1..n
        /\ \A rid : rid # rid0 => Writes(rid)' = Writes(rid)
        /\ Writes(rid0)' = Writes(rid0) \cup {n + 1}
    <2>1. \A rid : Writes(rid) \subseteq 1..n
      BY <1>6 DEF Writes
    <2>2. ASSUME NEW rid, rid # rid0 PROVE Writes(rid)' = Writes(rid)
      <3>1. {i \in {n + 1} : rid0 = rid} = {}
        BY <2>2
      <3>2. Writes(rid)' = Writes(rid) \cup {i \in {n + 1} : rid0 = rid}
        BY <1>6
      <3>3. QED
        BY <3>1, <3>2
    <2>3. Writes(rid0)' = Writes(rid0) \cup {n + 1}
      <3>1. {i \in {n + 1} : rid0 = rid0} = {n + 1}
        OBVIOUS
      <3>2. Writes(rid0)' = Writes(rid0) \cup {i \in {n + 1} : rid0 = rid0}
        BY <1>6
      <3>3. QED
        BY <3>1, <3>2
    <2>4. QED
      BY <2>1, <2>2, <2>3
  <1>9. TxnPart'
    BY ChangeTxnPart
  <1>10. \A rid : \A i \in Writes(rid) : log'[i] = log[i] /\ (Lost(i) => Lost(i)')
    <2>1. ASSUME NEW rid, NEW i \in Writes(rid) PROVE log'[i] = log[i] /\ (Lost(i) => Lost(i)')
      <3>1. i \in 1..n /\ i \in DOMAIN log /\ log'[i] = log[i] /\ (Winner(i)' <=> Winner(i))
        BY <1>6, <1>7, <1>8, <2>1
      <3>2. PICK u : u = log[i].tid
        OBVIOUS
      <3>3. Current(u, i)' <=> Current(u, i)
        BY <1>6, <3>1
      <3>4. Lost(i) <=> ~Winner(i) /\ ~(status[u] = "active" /\ Current(u, i))
        BY <3>2 DEF Lost
      <3>5. u = log'[i].tid
        BY <3>1, <3>2
      <3>6. Lost(i)' <=> ~Winner(i)' /\ ~(status'[u] = "active" /\ Current(u, i)')
        BY <3>5 DEF Lost
      <3>7. QED
        BY <3>1, <3>3, <3>4, <3>6
    <2>2. QED
      BY <2>1
  \* What is shown of other records stays so, and so does what was shown of this one.
  <1>11. ASSUME NEW rid, NEW val, NEW m \in Nat, rid = rid0 => m <= n, Shows(val, rid, m)
         PROVE  Shows(val, rid, m)'
    <2>1. \A i : i \in Writes(rid)' /\ i <= m <=> i \in Writes(rid) /\ i <= m
      BY <1>8, <1>11
    <2>2. ASSUME NEW i \in Writes(rid), NEW k \in Writes(rid)',
                 i <= m, Lost(i), SameTxn(i, k)', k > i
          PROVE  k \in Writes(rid) /\ SameTxn(i, k)
      <3>1. i \in DOMAIN log
        BY <1>6, <1>8
      <3>2. k # n + 1
        BY <1>6, <2>2, <3>1 DEF Lost
      <3>3. k \in Writes(rid) /\ k \in DOMAIN log
        BY <1>6, <1>8, <2>2, <3>2
      <3>4. QED
        BY <1>6, <2>2, <3>1, <3>3
    <2>3. \A i, j \in Writes(rid) : i <= m /\ j <= i /\ SameTxn(j, i) => SameTxn(j, i)'
      BY <1>6, <1>8
    <2>4. QED
      BY <1>1, <1>10, <1>11, <2>1, <2>2, <2>3, ShowsKept
  <1>12. DiskShows'
    <2>1. ASSUME NEW rid \in Rid \ disturbed PROVE Shows(At(disk, rid), rid, LsnOf(disk, rid) + 1)'
      <3>1. PICK v, m : v = At(disk, rid) /\ m = LsnOf(disk, rid) + 1
        OBVIOUS
      <3>2. Shows(v, rid, m) /\ m \in Nat
        BY <1>1, <3>1, PageTypes DEF DiskShows
      <3>3. m <= n
        <4>1. LsnOf(disk, rid) = 0 \/ LsnOf(disk, rid) < persist
          BY <1>1, RidFields DEF LogInv, LsnOf
        <4>2. n >= 1
          <5>1. PICK b \in DOMAIN log : TRUE
            BY DEF RecInv, StatusInLog, TxnInLog
          <5>2. QED
            BY <1>6, <5>1
        <4>3. QED
          BY <1>2, <3>1, <4>1, <4>2, PageTypes
      <3>4. Shows(v, rid, m)'
        BY <1>11, <3>2, <3>3
      <3>5. v = At(disk, rid)' /\ m = (LsnOf(disk, rid) + 1)'
        BY <3>1 DEF At, LsnOf
      <3>6. QED
        BY <3>4, <3>5
    <2>2. QED
      BY <2>1 DEF DiskShows
  <1>13. \A r \in Rid :
            /\ At(mem', r) = IF r = rid0 THEN rec.new ELSE At(pages, r)
            /\ LsnOf(mem', r) = IF r.tab = rid0.tab /\ r.page = rid0.page THEN n ELSE LsnOf(pages, r)
    BY <1>2, <1>3, <1>4, PutStampAt
  <1>14. ASSUME NEW rid \in Rid \ disturbed, rid.page <= num_pages'[rid.tab]
         PROVE  Shows(At(mem, rid), rid, LsnOf(mem, rid) + 1)'
    <2>1. PICK v, m : v = At(mem', rid) /\ m = LsnOf(mem', rid) + 1
      OBVIOUS
    <2>2. Shows(v, rid, m)'
      <3>1. CASE rid = rid0
        <4>1. v = log'[n + 1].new /\ m = n + 1
          BY <1>6, <1>13, <2>1, <3>1
        <4>2. n + 1 \in Writes(rid)' /\ LastUpTo(rid, n + 1, m)'
          <5>1. \A j \in Writes(rid)' : j <= n + 1
            BY <1>8, <3>1
          <5>2. n + 1 \in Writes(rid)' /\ n + 1 <= m
            BY <1>8, <3>1, <4>1
          <5>3. QED
            BY <5>1, <5>2 DEF LastUpTo
        <4>3. QED
          BY <4>1, <4>2 DEF Shows
      <3>2. CASE rid # rid0 /\ rid.page <= num_pages[rid.tab]
        <4>1. v = At(mem, rid)
          BY <1>13, <2>1, <3>2
        <4>2. Shows(v, rid, LsnOf(mem, rid) + 1) /\ LsnOf(mem, rid) \in Nat
          BY <1>1, <1>14, <3>2, <4>1, PageTypes DEF MemShows
        <4>3. m \in {LsnOf(mem, rid) + 1, n + 1}
          BY <1>13, <2>1, <3>2
        <4>4. Shows(v, rid, m) /\ m \in Nat
          <5>1. CASE m = LsnOf(mem, rid) + 1
            BY <4>2, <5>1
          <5>2. CASE m = n + 1
            <6>1. \A i \in Writes(rid) : i <= LsnOf(mem, rid) + 1
              BY <1>1, <1>14 DEF Applied
            <6>2. LsnOf(mem, rid) + 1 <= n + 1
              <7>1. LsnOf(mem, rid) = 0 \/ LsnOf(mem, rid) < Len(log)
                BY <1>1, RidFields DEF LogInv, StampsInLog, LsnOf
              <7>2. QED
                BY <1>2, <4>2, <7>1
            <6>3. PICK p \in Nat : p = LsnOf(mem, rid) + 1
              BY <4>2
            <6>4. Shows(v, rid, p) /\ p <= n + 1 /\ n + 1 \in Nat
              BY <4>2, <6>2, <6>3
            <6>5. \A i \in Writes(rid) : i <= p \/ i > n + 1
              BY <6>1, <6>3
            <6>6. Shows(v, rid, n + 1)
              BY <1>1, <6>4, <6>5, ShowsUpTo
            <6>7. QED
              BY <5>2, <6>4, <6>6
          <5>3. QED
            BY <4>3, <5>1, <5>2
        <4>5. QED
          BY <1>11, <3>2, <4>4
      <3>3. CASE rid # rid0 /\ ~(rid.page <= num_pages[rid.tab])
        <4>1. v = None
          BY <1>13, <1>14, <2>1, <3>3
        <4>2. Writes(rid)' = {}
          BY <1>1, <1>8, <1>14, <3>3 DEF Applied
        <4>3. QED
          BY <4>1, <4>2 DEF Shows
      <3>4. QED
        BY <3>1, <3>2, <3>3
    <2>3. v = At(mem, rid)' /\ m = (LsnOf(mem, rid) + 1)'
      BY <2>1 DEF At, LsnOf
    <2>4. QED
      BY <2>2, <2>3
  <1>15. MemShows'
    BY <1>14 DEF MemShows
  <1>16. Applied'
    <2>1. ASSUME NEW rid \in Rid \ disturbed, NEW i \in Writes(rid)'
          PROVE  rid.page <= num_pages'[rid.tab] /\ i <= LsnOf(mem', rid) + 1
      <3>1. CASE i \in Writes(rid)
        <4>1. rid.page <= num_pages[rid.tab] /\ i <= LsnOf(mem, rid) + 1 /\ i <= n
          BY <1>1, <1>8, <2>1, <3>1 DEF Applied
        <4>2. LsnOf(mem', rid) \in {n, LsnOf(mem, rid)} /\ i \in Nat
          BY <1>8, <1>13, <3>1, <4>1
        <4>3. QED
          BY <4>1, <4>2
      <3>2. CASE i \notin Writes(rid)
        <4>1. i = n + 1 /\ rid = rid0
          BY <1>8, <2>1, <3>2
        <4>2. QED
          BY <1>3, <1>13, <4>1
      <3>3. QED
        BY <3>1, <3>2
    <2>2. QED
      BY <2>1 DEF Applied, LsnOf
  <1>17. /\ \A rid \in Rid : rid # rid0 => Record(rid)' = Record(rid)
         /\ Record(rid0)' = rec.new
    <2>1. \A rid \in Rid : Record(rid)' =
              IF rid.page <= num_pages'[rid.tab] THEN At(mem', rid) ELSE None
      BY DEF Record, At
    <2>2. QED
      BY <1>3, <1>13, <2>1 DEF Record
  <1>18. \A u \in TxnId \ {t} : ~Wrote(u, rid0)
    BY <1>3 DEF Wrote
  <1>19. /\ \A u \in TxnId : u # t => write_set'[u] = write_set[u]
         /\ \E l \in Nat : /\ DOMAIN write_set[t] = 1..l /\ DOMAIN write_set'[t] = 1..(l + 1)
                           /\ write_set'[t][l + 1] = rec
                           /\ \A k \in 1..l : write_set'[t][k] = write_set[t][k]
    <2>1. write_set[t] \in Seq(DataRecord)
      BY TxnTypes
    <2>2. /\ \A u \in TxnId : u # t => write_set'[u] = write_set[u]
          /\ write_set'[t] = Append(write_set[t], rec)
      BY TxnTypes
    <2>3. PICK l \in Nat : l = Len(write_set[t])
      <3>1. Len(write_set[t]) \in Nat
        BY <2>1
      <3>2. QED
        BY <3>1
    <2>4. /\ DOMAIN write_set[t] = 1..l /\ DOMAIN write_set'[t] = 1..(l + 1)
          /\ write_set'[t][l + 1] = rec
          /\ \A k \in 1..l : write_set'[t][k] = write_set[t][k]
      BY <2>1, <2>2, <2>3
    <2>5. QED
      BY <2>2, <2>4
  <1>20. PICK l \in Nat : /\ DOMAIN write_set[t] = 1..l /\ DOMAIN write_set'[t] = 1..(l + 1)
                          /\ write_set'[t][l + 1] = rec
                          /\ \A k \in 1..l : write_set'[t][k] = write_set[t][k]
    BY <1>19
  <1>21. OwnChanges'
    <2>1. ASSUME NEW u \in TxnId, status'[u] = "active", NEW rid \in Rid, NEW i \in Writes(rid)',
                 log'[i].tid = u, Current(u, i)', \A k \in Writes(rid)' : k <= i
          PROVE  Record(rid)' = log'[i].new
      <3>1. CASE rid = rid0
        <4>1. i = n + 1
          BY <1>8, <2>1, <3>1
        <4>2. QED
          BY <1>6, <1>17, <3>1, <4>1
      <3>2. CASE rid # rid0
        <4>1. i \in Writes(rid) /\ i \in DOMAIN log /\ log'[i] = log[i] /\ Current(u, i)
          BY <1>6, <1>8, <2>1, <3>2
        <4>2. \A k \in Writes(rid) : k <= i
          BY <1>8, <2>1, <3>2
        <4>3. QED
          BY <1>1, <1>17, <2>1, <3>2, <4>1, <4>2 DEF OwnChanges
      <3>3. QED
        BY <3>1, <3>2
    <2>2. ASSUME NEW u \in TxnId, NEW k \in DOMAIN write_set'[u],
                 \A m \in 1..(k - 1) : write_set'[u][m].rid # write_set'[u][k].rid,
                 write_set'[u][k].rid \notin disturbed
          PROVE  write_set'[u][k].old = committed[write_set'[u][k].rid]
      <3>1. CASE u # t
        BY <1>1, <1>19, <2>2, <3>1 DEF OwnChanges
      <3>2. CASE u = t /\ k \in 1..l
        <4>1. \A m \in 1..(k - 1) : m \in 1..l
          BY <3>2
        <4>2. \A m \in 1..(k - 1) : write_set[t][m].rid # write_set[t][k].rid
          BY <1>20, <2>2, <3>2, <4>1
        <4>3. QED
          BY <1>1, <1>20, <2>2, <3>2, <4>2 DEF OwnChanges
      <3>3. CASE u = t /\ k = l + 1
        <4>1. write_set'[u][k] = rec /\ rid0 \in Rid \ disturbed
          BY <1>3, <1>20, <2>2, <3>3
        <4>2. ~Wrote(t, rid0)
          BY <1>3, <1>20, <2>2, <3>3, <4>1 DEF Wrote
        <4>3. Record(rid0) = committed[rid0]
          BY <1>18, <4>1, <4>2, ChangeOld
        <4>4. QED
          BY <1>3, <4>1, <4>3
      <3>4. u = t => k \in 1..l \/ k = l + 1
        BY <1>20, <2>2
      <3>5. QED
        BY <3>1, <3>2, <3>3, <3>4
    <2>3. \A u \in TxnId : status'[u] = "active" =>
              \A rid \in Rid : \A i \in Writes(rid)' :
                  log'[i].tid = u /\ Current(u, i)' /\ (\A k \in Writes(rid)' : k <= i) =>
                      Record(rid)' = log'[i].new
      BY <2>1
    <2>4. \A u \in TxnId : \A k \in DOMAIN write_set'[u] :
              /\ \A m \in 1..(k - 1) : write_set'[u][m].rid # write_set'[u][k].rid
              /\ write_set'[u][k].rid \notin disturbed'
              => write_set'[u][k].old = committed'[write_set'[u][k].rid]
      BY <2>2
    <2>5. QED
      BY <2>3, <2>4 DEF OwnChanges
  <1>22. Settled'
    <2>1. ASSUME NEW rid \in Rid \ disturbed, \A u \in TxnId : ~Wrote(u, rid)'
          PROVE  Record(rid)' = committed[rid]
      <3>1. l + 1 \in DOMAIN write_set'[t]
        BY <1>20
      <3>2. rid # rid0
        BY <1>3, <1>20, <2>1, <3>1 DEF Wrote
      <3>3. ~Wrote(t, rid)
        <4>1. \A k \in DOMAIN write_set[t] : k \in DOMAIN write_set'[t] /\ write_set'[t][k] = write_set[t][k]
          BY <1>20
        <4>2. QED
          BY <2>1, <4>1 DEF Wrote
      <3>4. ASSUME NEW u \in TxnId, u # t PROVE ~Wrote(u, rid)
        <4>1. write_set'[u] = write_set[u]
          BY <1>19, <3>4
        <4>2. QED
          BY <2>1, <4>1 DEF Wrote
      <3>5. QED
        BY <1>1, <1>17, <2>1, <3>2, <3>3, <3>4 DEF Settled
    <2>2. QED
      BY <2>1 DEF Settled
  <1>23. InRecovery' /\ UndoneSoFar' /\ StartFailsOnly'
    BY DEF InRecovery, UndoneSoFar, StartFailsOnly
  <1>24. QED
    BY <1>9, <1>12, <1>15, <1>16, <1>21, <1>22, <1>23 DEF RecInv, TxnPart


\* The values of a behaviour are contents of a record, and not that of an empty slot.
LEMMA ValuesAreContent ==
    ASSUME RecInv, NEW val \in Bound.values PROVE val \in Content /\ val # None
  <1>1. val \in Values
    BY BoundFacts DEF RecInv, LogInv
  <1>2. QED
    BY <1>1, RecoveryAssumption DEF Content

\* insert_record() in a page with room or in a new one.
LEMMA InsertRec ==
    ASSUME RecInv, LogInv', NEW t \in TxnId, NEW tab \in Tables, NEW page \in PageNo,
           NEW val \in Bound.values, Insert(t, tab, page, val)
    PROVE  RecInv'
  <1>1. PICK pages : pages = IF page > num_pages[tab] THEN [mem EXCEPT ![tab][page] = EmptyPage]
                             ELSE mem
    OBVIOUS
  <1>2. PICK slot \in 1..Bound.slots :
          LET rid == [tab |-> tab, page |-> page, slot |-> slot]
          IN  /\ pages[tab][page].row[slot] = None
              /\ Change(t, "INSERT", rid, val)
              /\ mem' = Stamp(Put(pages, rid, val), rid, Len(log))
    BY <1>1 DEF Insert
  <1>3. /\ CanWrite(t, tab) /\ page <= num_pages[tab] + 1
        /\ num_pages' = [num_pages EXCEPT ![tab] = MaxOf(@, page)]
        /\ UNCHANGED <<mode, persist, disk, status, committed, disturbed>>
    BY DEF Insert, ghosts
  <1>4. PICK rid \in Rid : rid = [tab |-> tab, page |-> page, slot |-> slot]
    <2>1. Bound.slots \in Nat /\ Bound.slots <= PerPage
      BY BoundFacts DEF RecInv, LogInv
    <2>2. slot \in Slot
      BY <2>1, Numbers DEF Slot
    <2>3. QED
      BY <2>2 DEF Rid
  <1>5. /\ rid.tab = tab /\ rid.page = page /\ rid.slot = slot
        /\ pages[tab][page].row[slot] = None
        /\ Change(t, "INSERT", rid, val) /\ mem' = Stamp(Put(pages, rid, val), rid, Len(log))
    BY <1>2, <1>4
  <1>6. /\ mem \in PagesType /\ num_pages \in [Tables -> 0..MaxPages] /\ MaxPages \in Nat
        /\ page \in Nat /\ num_pages[tab] \in Nat
    BY PageTypes, Numbers DEF PageNo
  <1>7. /\ pages \in PagesType
        /\ \A r \in Rid : IF r.tab = tab /\ r.page = page /\ page > num_pages[tab]
                          THEN At(pages, r) = None
                          ELSE At(pages, r) = At(mem, r) /\ LsnOf(pages, r) = LsnOf(mem, r)
    <2>1. EmptyPage \in Page /\ \A s \in Slot : EmptyPage.row[s] = None
      BY Numbers DEF EmptyPage
    <2> HIDE DEF EmptyPage
    <2>2. \A r \in Rid : r.tab \in Tables /\ r.page \in PageNo /\ r.slot \in Slot
      BY RidFields
    <2>3. CASE page > num_pages[tab]
      <3>1. pages = [mem EXCEPT ![tab][page] = EmptyPage]
        BY <1>1, <2>3
      <3>2. pages \in PagesType
        BY <1>6, <2>1, <3>1 DEF PagesType
      <3>3. \A tb \in Tables, p \in PageNo :
                pages[tb][p] = IF tb = tab /\ p = page THEN EmptyPage ELSE mem[tb][p]
        BY <1>6, <3>1 DEF PagesType
      <3>4. QED
        BY <2>1, <2>2, <2>3, <3>2, <3>3 DEF At, LsnOf
    <2>4. CASE ~(page > num_pages[tab])
      BY <1>1, <1>6, <2>4
    <2>5. QED
      BY <2>3, <2>4
  <1>8. Record(rid) = None
    <2>1. CASE page > num_pages[tab]
      BY <1>5, <1>6, <2>1 DEF Record
    <2>2. CASE ~(page > num_pages[tab])
      <3>1. At(mem, rid) = None
        BY <1>1, <1>5, <2>2 DEF At
      <3>2. QED
        BY <3>1 DEF Record
    <2>3. QED
      BY <2>1, <2>2
  <1>9. val \in Content /\ val # None /\ None \in Content
    BY ValuesAreContent DEF Content
  <1>10. PICK rec \in DataRecord :
            rec = [type |-> "INSERT", tid |-> t, rid |-> rid, old |-> Record(rid), new |-> val]
    BY <1>8, <1>9 DEF DataRecord, DataType
  <1>11. /\ rec.tid = t /\ rec.rid = rid /\ rec.old = Record(rec.rid) /\ rec.new = val
         /\ Fits(rec)
    BY <1>8, <1>9, <1>10 DEF Fits
  <1>12. /\ log' = Append(log, rec) /\ write_set' = [write_set EXCEPT ![t] = Append(@, rec)]
    BY <1>5, <1>10 DEF Change, AddLog
  <1>13. /\ mode = "running" /\ status[t] = "active"
         /\ \A u \in TxnId \ {t} : \A i \in DOMAIN write_set[u] : write_set[u][i].rid.tab # rec.rid.tab
    BY <1>3, <1>5, <1>11 DEF CanWrite
  <1>14. mem' = Stamp(Put(pages, rec.rid, rec.new), rec.rid, Len(log))
    BY <1>5, <1>11
  <1>15. \A tb \in Tables : num_pages'[tb] = IF tb = tab THEN MaxOf(num_pages[tab], page)
                                             ELSE num_pages[tb]
    BY <1>3, <1>6
  <1>16. rec.rid.page <= num_pages'[rec.rid.tab]
    BY <1>5, <1>6, <1>11, <1>15 DEF MaxOf
  <1>17. ASSUME NEW r \in Rid
         PROVE  IF r.page <= num_pages[r.tab]
                THEN /\ r.page <= num_pages'[r.tab]
                     /\ At(pages, r) = At(mem, r) /\ LsnOf(pages, r) = LsnOf(mem, r)
                ELSE r.page <= num_pages'[r.tab] =>
                        /\ r.tab = rec.rid.tab /\ r.page = rec.rid.page
                        /\ At(pages, r) = None
    <2>1. r.tab \in Tables /\ r.page \in Nat /\ num_pages[r.tab] \in Nat
      BY PageTypes
    <2>2. CASE r.page <= num_pages[r.tab]
      <3>1. ~(r.tab = tab /\ r.page = page /\ page > num_pages[tab])
        BY <1>6, <2>1, <2>2
      <3>2. r.page <= num_pages'[r.tab]
        BY <1>6, <1>15, <2>1, <2>2 DEF MaxOf
      <3>3. QED
        BY <1>7, <2>2, <3>1, <3>2
    <2>3. CASE ~(r.page <= num_pages[r.tab])
      <3>1. r.page <= num_pages'[r.tab] => r.tab = tab /\ r.page = page /\ page > num_pages[tab]
        BY <1>3, <1>6, <1>15, <2>1, <2>3 DEF MaxOf
      <3>2. QED
        BY <1>5, <1>7, <1>11, <2>3, <3>1
    <2>4. QED
      BY <2>2, <2>3
  <1>18. QED
    BY <1>3, <1>7, <1>11, <1>12, <1>13, <1>14, <1>16, <1>17, ChangeRec

\* delete_record() and update_record() of a record that is there.
LEMMA InPlaceRec ==
    ASSUME RecInv, LogInv', NEW t \in TxnId, NEW rid \in Rid,
           Delete(t, rid) \/ \E val \in Bound.values : Update(t, rid, val)
    PROVE  RecInv'
  <1>1. /\ CanWrite(t, rid.tab) /\ Record(rid) # None
        /\ UNCHANGED <<mode, persist, disk, num_pages, status, committed, disturbed>>
    BY DEF Delete, Update, ghosts
  <1>2. \E type \in {"DELETE", "UPDATE"}, val \in Content :
            /\ type = "DELETE" <=> val = None
            /\ Change(t, type, rid, val) /\ mem' = Stamp(Put(mem, rid, val), rid, Len(log))
    <2>1. CASE Delete(t, rid)
      BY <2>1 DEF Delete, Content
    <2>2. ASSUME NEW val \in Bound.values, Update(t, rid, val)
          PROVE  /\ val \in Content /\ val # None
                 /\ Change(t, "UPDATE", rid, val) /\ mem' = Stamp(Put(mem, rid, val), rid, Len(log))
      BY <2>2, ValuesAreContent DEF Update
    <2>3. QED
      BY <2>1, <2>2
  <1>3. PICK type \in {"DELETE", "UPDATE"}, val \in Content :
            /\ type = "DELETE" <=> val = None
            /\ Change(t, type, rid, val) /\ mem' = Stamp(Put(mem, rid, val), rid, Len(log))
    BY <1>2
  <1>4. Record(rid) \in Content /\ rid.page <= num_pages[rid.tab]
    BY <1>1, PageTypes DEF Record
  <1>5. PICK rec \in DataRecord :
            rec = [type |-> type, tid |-> t, rid |-> rid, old |-> Record(rid), new |-> val]
    BY <1>4 DEF DataRecord, DataType
  <1>6. /\ rec.tid = t /\ rec.rid = rid /\ rec.old = Record(rec.rid) /\ rec.new = val
        /\ Fits(rec)
    BY <1>1, <1>3, <1>5 DEF Fits
  <1>7. /\ log' = Append(log, rec) /\ write_set' = [write_set EXCEPT ![t] = Append(@, rec)]
    BY <1>3, <1>5 DEF Change, AddLog
  <1>8. /\ mode = "running" /\ status[t] = "active"
        /\ \A u \in TxnId \ {t} : \A i \in DOMAIN write_set[u] : write_set[u][i].rid.tab # rec.rid.tab
    BY <1>1, <1>6 DEF CanWrite
  <1>9. mem' = Stamp(Put(mem, rec.rid, rec.new), rec.rid, Len(log)) /\ mem \in PagesType
    BY <1>3, <1>6, PageTypes
  <1>10. rec.rid.page <= num_pages'[rec.rid.tab]
    BY <1>1, <1>4, <1>6
  <1>11. \A r \in Rid : IF r.page <= num_pages[r.tab]
                        THEN /\ r.page <= num_pages'[r.tab]
                             /\ At(mem, r) = At(mem, r) /\ LsnOf(mem, r) = LsnOf(mem, r)
                        ELSE r.page <= num_pages'[r.tab] =>
                                /\ r.tab = rec.rid.tab /\ r.page = rec.rid.page
                                /\ At(mem, r) = None
    BY <1>1
  <1>12. QED
    BY <1>1, <1>6, <1>7, <1>8, <1>9, <1>10, <1>11, ChangeRec

-----------------------------------------------------------------------------
(* Every step *)

\* Before the first transaction there is nothing to show and nothing to undo.
LEMMA RecInitInv == Init => RecInv
  <1> SUFFICES ASSUME Init PROVE RecInv
    OBVIOUS
  <1>1. LogInv
    BY LogInitInv
  <1>2. mode = "running" /\ log = <<>> /\ DOMAIN log = {} /\ disturbed = {}
    BY DEF Init
  <1>3. /\ \A t \in TxnId : status[t] = "none" /\ write_set[t] = <<>> /\ DOMAIN write_set[t] = {}
        /\ \A rid \in Rid : committed[rid] = None
        /\ \A tab \in Tables : num_pages[tab] = 0
    BY DEF Init
  <1>4. \A rid : Writes(rid) = {}
    BY <1>2 DEF Writes
  <1>5. \A rid \in Rid : At(disk, rid) = None /\ At(mem, rid) = None /\ Record(rid) = None
    <2>1. ASSUME NEW rid \in Rid PROVE At(disk, rid) = None /\ At(mem, rid) = None
      <3>1. rid.tab \in Tables /\ rid.page \in PageNo /\ rid.slot \in Slot
        BY RidFields
      <3>2. mem[rid.tab][rid.page] = EmptyPage /\ disk[rid.tab][rid.page] = EmptyPage
        BY <3>1 DEF Init
      <3>3. EmptyPage.row[rid.slot] = None
        BY <3>1 DEF EmptyPage
      <3>4. QED
        BY <3>2, <3>3 DEF At
    <2>2. QED
      BY <2>1 DEF Record
  <1>6. LogShape /\ StatusInLog /\ InRecovery /\ UndoneSoFar /\ StartFailsOnly
    BY <1>2, <1>3 DEF LogShape, StatusInLog, InRecovery, UndoneSoFar, StartFailsOnly
  <1>7. WriteSets
    BY <1>2, <1>3 DEF WriteSets
  <1>8. CommittedInLog /\ Chain /\ Applied
    BY <1>3, <1>4 DEF CommittedInLog, Chain, Applied
  <1>9. DiskShows /\ MemShows
    BY <1>4, <1>5 DEF DiskShows, MemShows, Shows
  <1>10. OwnChanges /\ Settled
    BY <1>3, <1>4, <1>5 DEF OwnChanges, Settled
  <1>11. QED
    BY <1>1, <1>6, <1>7, <1>8, <1>9, <1>10 DEF RecInv

LEMMA StutterRec == ASSUME RecInv, LogInv', UNCHANGED vars PROVE RecInv'
  <1>1. UNCHANGED <<mode, pos, log, persist, mem, disk, filepages, num_pages, hdr, status,
                    write_set, committed, disturbed>>
    BY DEF vars, fileVars, processVars, ghosts
  <1>2. CASE mode # "failed"
    BY <1>1, <1>2, QuietStep
  <1>3. CASE mode = "failed"
    <2>1. /\ \A rid : Writes(rid)' = Writes(rid) /\ Record(rid)' = Record(rid)
          /\ \A i, j : SameTxn(i, j)' <=> SameTxn(i, j)
          /\ \A i : Winner(i)' <=> Winner(i)
          /\ \A i : IsData(i)' <=> IsData(i)
          /\ \A u, i : Current(u, i)' <=> Current(u, i)
      BY <1>1 DEF Writes, Record, At, SameTxn, Winner, IsData, Current, BeginOf
    <2>2. \A i : Lost(i)' <=> Lost(i)
      BY <1>1 DEF Lost, Winner, SameTxn, Current, BeginOf
    <2>3. \A val, rid, m : Shows(val, rid, m)' <=> Shows(val, rid, m)
      BY <1>1, <2>1, <2>2 DEF Shows, LastUpTo
    <2>4. LogShape' /\ StatusInLog' /\ WriteSets' /\ StartFailsOnly'
      BY <1>1, <2>1 DEF RecInv, LogShape, StatusInLog, TxnInLog, WriteSets, StartFailsOnly, Fits,
             BeginOf, AbortOf
    <2>5. InRecovery'
      BY <1>1, <2>1 DEF RecInv, InRecovery, Undisturbed
    <2>6. CommittedInLog' /\ Chain'
      BY <1>1, <2>1 DEF RecInv, CommittedInLog, Chain
    <2>7. DiskShows'
      BY <1>1, <2>3 DEF RecInv, DiskShows, At, LsnOf
    <2>8. OwnChanges'
      BY <1>1, <2>1 DEF RecInv, OwnChanges
    <2>9. MemShows' /\ Applied' /\ UndoneSoFar' /\ Settled'
      BY <1>1, <1>3 DEF MemShows, Applied, UndoneSoFar, Settled
    <2>10. QED
      BY <2>4, <2>5, <2>6, <2>7, <2>8, <2>9 DEF RecInv
  <1>4. QED
    BY <1>2, <1>3

LEMMA RecNextInv == RecInv /\ [Next]_vars => RecInv'
  <1> SUFFICES ASSUME RecInv, [Next]_vars PROVE RecInv'
    OBVIOUS
  <1>1. LogInv'
    BY LogNextInv DEF RecInv
  <1>2. CASE UNCHANGED vars
    BY <1>1, <1>2, StutterRec
  <1>3. ASSUME NEW t \in TxnId,
               \/ Begin(t) \/ Commit(t) \/ CommitAborted(t) \/ StartAbort(t) \/ RollbackOne(t)
        PROVE  RecInv'
    BY <1>1, <1>3, BeginRec, CommitRec, CommitAbortedRec, StartAbortRec, RollbackRec
  <1>4. ASSUME NEW t \in TxnId,
               \/ \E tab \in Tables, page \in PageNo, val \in Bound.values : Insert(t, tab, page, val)
               \/ \E rid \in Rid : Delete(t, rid) \/ \E val \in Bound.values : Update(t, rid, val)
        PROVE  RecInv'
    BY <1>1, <1>4, InsertRec, InPlaceRec
  <1>5. CASE FlushLog
    <2>1. /\ mode = "running" /\ persist' = Len(log)
          /\ UNCHANGED <<mode, pos, log, status, write_set, committed, disturbed, mem, disk, num_pages>>
      BY <1>5 DEF FlushLog, fileVars, processVars, ghosts
    <2>2. QED
      BY <1>1, <2>1, QuietStep
  <1>6. CASE Close
    <2>1. /\ mode = "running" /\ mode' = "closing" /\ persist' = Len(log)
          /\ UNCHANGED <<pos, log, status, write_set, committed, disturbed, mem, disk, num_pages>>
      BY <1>6 DEF Close, fileVars, processVars, ghosts
    <2>2. QED
      BY <1>1, <2>1, QuietStep
  <1>7. ASSUME NEW tab \in Tables, WriteHeader(tab) PROVE RecInv'
    <2>1. /\ mode # "failed" /\ persist' = persist
          /\ UNCHANGED <<mode, pos, log, status, write_set, committed, disturbed, mem, disk, num_pages>>
      BY <1>7 DEF WriteHeader, fileVars, processVars, ghosts
    <2>2. QED
      BY <1>1, <2>1, QuietStep
  <1>8. ASSUME NEW tab \in Tables, NEW page \in PageNo, WritePage(tab, page) PROVE RecInv'
    BY <1>1, <1>8, WritePageRec
  <1>9. CASE RedoEnd
    <2>1. /\ mode = "redo" /\ pos > Len(log) /\ mode' = "undo" /\ pos' = Len(log) /\ persist' = persist
          /\ UNCHANGED <<log, status, write_set, committed, disturbed, mem, disk, num_pages>>
      BY <1>9 DEF RedoEnd, fileVars, processVars, ghosts
    <2>2. QED
      BY <1>1, <2>1, QuietStep
  <1>10. CASE SaveEnd
    <2>1. /\ mode = "save" /\ mode' = "running" /\ persist' = persist
          /\ UNCHANGED <<pos, log, status, write_set, committed, disturbed, mem, disk, num_pages>>
      BY <1>10 DEF SaveEnd, fileVars, processVars, ghosts
    <2>2. QED
      BY <1>1, <2>1, QuietStep
  <1>11. CASE Restart \/ RedoOne \/ UndoOne \/ UndoEnd
    BY <1>1, <1>11, RestartRec, RedoRec, UndoRec, UndoEndRec
  <1>12. QED
    BY <1>2, <1>3, <1>4, <1>5, <1>6, <1>7, <1>8, <1>9, <1>10, <1>11 DEF Next

\* The inductive invariant holds in every state.
THEOREM RecoveredInvariant == Spec => []RecInv
  BY RecInitInv, RecNextInv, PTL DEF Spec

\* redo() and undo() of log_recovery.cpp are exact: whenever the server runs, wherever it or an
\* earlier recovery was stopped and whatever pages the buffer pool had written by then, a record that
\* no transaction has open, and that recovery could tell the transactions of, is as the last
\* committed change left it.
THEOREM RecoveredAlways == Spec => []Recovered
  <1>1. RecInv => Recovered
    BY DEF RecInv, Settled, Recovered
  <1>2. QED
    BY <1>1, RecoveredInvariant, PTL

\* redo() of log_recovery.cpp throws out of main() only after recovery has mixed two transactions on
\* a record, or when a crash came between a table's header and the pages it counts.
THEOREM StartFailsOnlyAlways == Spec => []StartFailsOnly
  <1>1. RecInv => StartFailsOnly
    BY DEF RecInv
  <1>2. QED
    BY <1>1, RecoveredInvariant, PTL

=============================================================================
