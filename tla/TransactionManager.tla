------------------------ MODULE TransactionManager ------------------------
(***************************************************************************)
(* Client sessions running statements as transactions: client_handler and  *)
(* SetTransaction (rmdb.cpp), begin/commit/abort (transaction_manager.cpp),*)
(* the transaction commands of QlManager, the scan-then-write structure of *)
(* portal.h and the executors, over the lock table of LockManager.         *)
(*                                                                         *)
(* Each session is a thread.  A step of a session is what the thread does  *)
(* between two accesses to shared state: a lock call, one row read or      *)
(* written, one write undone, one lock released.  A table is a function    *)
(* from row slots to values; an absent row is one of the values.           *)
(***************************************************************************)
EXTENDS LockManager, Naturals, Sequences

CONSTANTS
    Sessions,   \* client threads
    Rows,       \* number of row slots of a table
    Values,     \* contents of a slot
    None,       \* INVALID_TXN_ID, and the table of a statement that has none
    MaxWrites   \* bound on the length of a write set

ASSUME TxnAssumption ==
    /\ Rows \in Nat \ {0}
    /\ Values # {}
    /\ None \notin Txns /\ None \notin TableIds
    /\ MaxWrites \in Nat

VARIABLES
    pc,         \* where the session's thread stands
    txn,        \* txn_id of client_handler
    txn_mode,   \* Transaction::txn_mode_: TRUE for an explicit transaction
    stmt,       \* the statement being executed
    row,        \* next slot of the scan or of the write loop
    ret,        \* where commit() or abort() returns to
    final,      \* the state commit() or abort() will set
    locks,      \* the copy of lock_set_ that is still to be unlocked
    write_set,  \* Transaction::write_set_
    content,    \* the tables
    committed,  \* ghost: the tables as the committed transactions left them
    reads       \* ghost: rows read before the transaction wrote them

sessionVars == <<pc, txn, txn_mode, stmt, row, ret, final, locks>>
dataVars == <<write_set, content, committed, reads>>
vars == <<lockVars, sessionVars, dataVars>>

Slots == 1..Rows
Tables == TableIds
TableOp == {"select", "update", "insert"}
Command == {"begin", "commit", "rollback"}
Statement == [op : TableOp, tab : Tables] \cup [op : Command, tab : {None}]
NoStatement == [op |-> "begin", tab |-> None]
PC == {"idle", "run", "scan", "upgrade", "write", "reply", "undo", "commit", "release",
       "closed"}
WriteRecord == [tab : Tables, slot : Slots, old : Values]
Read == [tab : Tables, slot : Slots, val : Values]

Written(t, tab, slot) ==
    \E i \in DOMAIN write_set[t] : write_set[t][i].tab = tab /\ write_set[t][i].slot = slot

Goto(s, label) == pc' = [pc EXCEPT ![s] = label]

\* The end of the loop body of client_handler: its locals are gone.
Leave(s, label) ==
    /\ Goto(s, label)
    /\ stmt' = [stmt EXCEPT ![s] = NoStatement]
    /\ row' = [row EXCEPT ![s] = 1]
    /\ ret' = [ret EXCEPT ![s] = "idle"]
    /\ final' = [final EXCEPT ![s] = "COMMITTED"]

-----------------------------------------------------------------------------
(* client_handler: one request *)

\* read() returns a statement; SetTransaction keeps the session's transaction
\* or begins a new one in single-statement mode.
Receive(s, st) ==
    /\ pc[s] = "idle"
    /\ stmt' = [stmt EXCEPT ![s] = st]
    /\ Goto(s, "run")
    /\ IF txn[s] # None /\ state[txn[s]] \notin {"COMMITTED", "ABORTED"}
       THEN /\ st.op = "update" => Len(write_set[txn[s]]) + Rows <= MaxWrites
            /\ st.op = "insert" => Len(write_set[txn[s]]) < MaxWrites
            /\ UNCHANGED <<txn, txn_mode, lockVars>>
       ELSE \E t \in Txns :
                /\ BeginTxn(t)
                /\ txn' = [txn EXCEPT ![s] = t]
                /\ txn_mode' = [txn_mode EXCEPT ![t] = FALSE]
    /\ UNCHANGED <<row, ret, final, locks, dataVars>>

\* RMDBError: analysis, type or uniqueness check, or a page that could not be
\* fetched; the rows a loop has already written stay written.
Fail(s) ==
    /\ pc[s] \in {"run", "scan", "write"}
    /\ Goto(s, "reply")
    /\ UNCHANGED <<lockVars, txn, txn_mode, stmt, row, ret, final, locks, dataVars>>

\* begin; the transaction SetTransaction began becomes explicit.
BeginCommand(s) ==
    /\ pc[s] = "run" /\ stmt[s].op = "begin"
    /\ txn_mode' = [txn_mode EXCEPT ![txn[s]] = TRUE]
    /\ Goto(s, "reply")
    /\ UNCHANGED <<lockVars, txn, stmt, row, ret, final, locks, dataVars>>

\* The catch clause for TransactionAbortException calls abort().
StartAbort(s) ==
    /\ Goto(s, "undo")
    /\ ret' = [ret EXCEPT ![s] = "reply"]
    /\ final' = [final EXCEPT ![s] = "ABORTED"]
    /\ reads' = [reads EXCEPT ![txn[s]] = {}]

\* commit; rollback; and abort; call the transaction manager, then reply.
EndCommand(s) ==
    /\ pc[s] = "run"
    /\ \/ /\ stmt[s].op = "commit"
          /\ Goto(s, "commit")
          /\ ret' = [ret EXCEPT ![s] = "reply"]
          /\ final' = [final EXCEPT ![s] = "COMMITTED"]
          /\ UNCHANGED reads
       \/ stmt[s].op = "rollback" /\ StartAbort(s)
    /\ UNCHANGED <<lockVars, txn, txn_mode, stmt, row, locks, write_set, content, committed>>

\* The answer is written; a single-statement transaction is then committed,
\* also one that abort() has already ended.
Reply(s) ==
    /\ pc[s] = "reply"
    /\ Leave(s, IF txn_mode[txn[s]] THEN "idle" ELSE "commit")
    /\ UNCHANGED <<lockVars, txn, txn_mode, locks, dataVars>>

\* write() to the socket fails: the loop is left before the commit.
ReplyFails(s) ==
    /\ pc[s] = "reply"
    /\ Leave(s, "closed")
    /\ UNCHANGED <<lockVars, txn, txn_mode, locks, dataVars>>

\* exit, end of file or a read error; nothing ends an open transaction.
Disconnect(s) ==
    /\ pc[s] = "idle"
    /\ Goto(s, "closed")
    /\ UNCHANGED <<lockVars, txn, txn_mode, stmt, row, ret, final, locks, dataVars>>

\* start_server accepts a new client and gives it a thread.
Connect(s) ==
    /\ pc[s] = "closed"
    /\ Goto(s, "idle")
    /\ txn' = [txn EXCEPT ![s] = None]
    /\ UNCHANGED <<lockVars, txn_mode, stmt, row, ret, final, locks, dataVars>>

-----------------------------------------------------------------------------
(* The executors *)

\* Mutant: the scan takes no lock.
ScanUnlocked(s) ==
    /\ pc[s] = "run" /\ stmt[s].op \in {"select", "update"}
    /\ Goto(s, "scan")
    /\ UNCHANGED <<lockVars, txn, txn_mode, stmt, row, ret, final, locks, dataVars>>

\* beginTuple() of a scan: lock_shared_on_table, which may tell it to abort.
LockShared(s) ==
    /\ pc[s] = "run" /\ stmt[s].op \in {"select", "update"}
    /\ \/ /\ acquire_lock(txn[s], stmt[s].tab, "S")
          /\ Goto(s, "scan")
          /\ UNCHANGED <<ret, final, reads>>
       \/ /\ Refuse(txn[s], stmt[s].tab, "S")
          /\ StartAbort(s)
    /\ UNCHANGED <<txn, txn_mode, stmt, row, locks, write_set, content, committed>>

\* Where a statement goes after row slot of its loop.
NextRow(s, loop, done) ==
    /\ row' = [row EXCEPT ![s] = IF row[s] < Rows THEN @ + 1 ELSE 1]
    /\ Goto(s, IF row[s] < Rows THEN loop ELSE done)

\* One row of the scan; after the last one a query replies, while update and
\* delete have collected their rids and go on to the executor.
ScanRow(s) ==
    LET t == txn[s]  tab == stmt[s].tab  slot == row[s]
    IN  /\ pc[s] = "scan"
        /\ NextRow(s, "scan", IF stmt[s].op = "select" THEN "reply" ELSE "upgrade")
        /\ reads' = IF Written(t, tab, slot) THEN reads
                    ELSE [reads EXCEPT ![t] = @ \cup
                            {[tab |-> tab, slot |-> slot, val |-> content[tab][slot]]}]
        /\ UNCHANGED <<lockVars, txn, txn_mode, stmt, ret, final, locks,
                       write_set, content, committed>>

\* Mutant: an upgrade waits for the other holders instead of failing.
LockExclusiveWaits(s) ==
    /\ pc[s] = "upgrade" \/ (pc[s] = "run" /\ stmt[s].op = "insert")
    /\ acquire_lock(txn[s], stmt[s].tab, "X")
    /\ Goto(s, "write")
    /\ UNCHANGED <<ret, final, reads, txn, txn_mode, stmt, row, locks, write_set, content, committed>>

\* Next() of insert, update and delete: lock_exclusive_on_table.
LockExclusive(s) ==
    /\ pc[s] = "upgrade" \/ (pc[s] = "run" /\ stmt[s].op = "insert")
    /\ \/ /\ acquire_lock(txn[s], stmt[s].tab, "X")
          /\ Goto(s, "write")
          /\ UNCHANGED <<ret, final, reads>>
       \/ /\ Refuse(txn[s], stmt[s].tab, "X")
          /\ StartAbort(s)
    /\ UNCHANGED <<txn, txn_mode, stmt, row, locks, write_set, content, committed>>

WriteSlot(s, slot, val) ==
    LET t == txn[s]  tab == stmt[s].tab
    IN  /\ write_set' = [write_set EXCEPT ![t] =
                            Append(@, [tab |-> tab, slot |-> slot, old |-> content[tab][slot]])]
        /\ content' = [content EXCEPT ![tab][slot] = val]

\* The loop of update and delete over the collected rids: this row or not.
WriteRow(s) ==
    /\ pc[s] = "write" /\ stmt[s].op = "update"
    /\ NextRow(s, "write", "reply")
    /\ \/ \E val \in Values : WriteSlot(s, row[s], val)
       \/ UNCHANGED <<write_set, content>>
    /\ UNCHANGED <<lockVars, txn, txn_mode, stmt, ret, final, locks, committed, reads>>

\* insert writes one slot and is done.
InsertRow(s) ==
    /\ pc[s] = "write" /\ stmt[s].op = "insert"
    /\ \E slot \in Slots, val \in Values : WriteSlot(s, slot, val)
    /\ Goto(s, "reply")
    /\ UNCHANGED <<lockVars, txn, txn_mode, stmt, row, ret, final, locks, committed, reads>>

-----------------------------------------------------------------------------
(* TransactionManager::commit and abort *)

\* The COMMIT record is flushed (the commit point), then lock_set_ is copied.
CommitPoint(s) ==
    LET t == txn[s]
    IN  /\ pc[s] = "commit"
        /\ Goto(s, "release")
        /\ locks' = [locks EXCEPT ![s] = lock_set[t]]
        /\ committed' = [tab \in Tables |-> [slot \in Slots |->
                            IF Written(t, tab, slot) THEN content[tab][slot]
                            ELSE committed[tab][slot]]]
        /\ reads' = [reads EXCEPT ![t] = {}]
        /\ UNCHANGED <<lockVars, txn, txn_mode, stmt, row, ret, final, write_set, content>>

Undo(t, rec) ==
    content' = [content EXCEPT ![rec.tab][rec.slot] = rec.old]

\* Mutant: the write set is undone from the front.
UndoForward(s) ==
    LET ws == write_set[txn[s]]
    IN  /\ pc[s] = "undo" /\ ws # <<>>
        /\ Undo(txn[s], Head(ws))
        /\ write_set' = [write_set EXCEPT ![txn[s]] = Tail(ws)]
        /\ UNCHANGED <<lockVars, sessionVars, committed, reads>>

\* abort() undoes the last write and drops it from the write set.
UndoOne(s) ==
    LET ws == write_set[txn[s]]
    IN  /\ pc[s] = "undo" /\ ws # <<>>
        /\ Undo(txn[s], ws[Len(ws)])
        /\ write_set' = [write_set EXCEPT ![txn[s]] = SubSeq(ws, 1, Len(ws) - 1)]
        /\ UNCHANGED <<lockVars, sessionVars, committed, reads>>

\* Mutant: the locks are released while writes are still to be undone.
UndoEndEarly(s) ==
    /\ pc[s] = "undo"
    /\ Goto(s, "release")
    /\ locks' = [locks EXCEPT ![s] = lock_set[txn[s]]]
    /\ UNCHANGED <<lockVars, txn, txn_mode, stmt, row, ret, final, dataVars>>

\* Every write is undone; lock_set_ is copied.
UndoEnd(s) ==
    /\ pc[s] = "undo" /\ write_set[txn[s]] = <<>>
    /\ Goto(s, "release")
    /\ locks' = [locks EXCEPT ![s] = lock_set[txn[s]]]
    /\ UNCHANGED <<lockVars, txn, txn_mode, stmt, row, ret, final, dataVars>>

\* One iteration of the release loop, in the order of an unordered_set.
ReleaseOne(s) ==
    /\ pc[s] = "release"
    /\ \E id \in locks[s] :
        /\ unlock(txn[s], id)
        /\ locks' = [locks EXCEPT ![s] = @ \ {id}]
    /\ UNCHANGED <<pc, txn, txn_mode, stmt, row, ret, final, dataVars>>

\* Mutant: the loop is left before the last lock.
ReleaseEndEarly(s) ==
    /\ pc[s] = "release"
    /\ EndTxn(txn[s], final[s])
    /\ write_set' = [write_set EXCEPT ![txn[s]] = <<>>]
    /\ Goto(s, ret[s])
    /\ UNCHANGED <<txn, txn_mode, stmt, row, ret, final, locks, content, committed, reads>>

\* lock_set and write set are cleared and the final state is set.
ReleaseEnd(s) ==
    /\ pc[s] = "release" /\ locks[s] = {}
    /\ EndTxn(txn[s], final[s])
    /\ write_set' = [write_set EXCEPT ![txn[s]] = <<>>]
    /\ Goto(s, ret[s])
    /\ UNCHANGED <<txn, txn_mode, stmt, row, ret, final, locks, content, committed, reads>>

-----------------------------------------------------------------------------

Init ==
    /\ LockInit
    /\ pc = [s \in Sessions |-> "idle"]
    /\ txn = [s \in Sessions |-> None]
    /\ txn_mode = [t \in Txns |-> FALSE]
    /\ stmt = [s \in Sessions |-> NoStatement]
    /\ row = [s \in Sessions |-> 1]
    /\ ret = [s \in Sessions |-> "idle"]
    /\ final = [s \in Sessions |-> "COMMITTED"]
    /\ locks = [s \in Sessions |-> {}]
    /\ write_set = [t \in Txns |-> <<>>]
    /\ content = [tab \in Tables |-> [slot \in Slots |-> CHOOSE v \in Values : TRUE]]
    /\ committed = content
    /\ reads = [t \in Txns |-> {}]

\* What the server's thread does by itself once a request has arrived.
ServerStep(s) ==
    \/ Fail(s) \/ BeginCommand(s) \/ EndCommand(s) \/ Reply(s) \/ ReplyFails(s)
    \/ LockShared(s) \/ ScanRow(s) \/ LockExclusive(s)
    \/ WriteRow(s) \/ InsertRow(s)
    \/ CommitPoint(s) \/ UndoOne(s) \/ UndoEnd(s) \/ ReleaseOne(s) \/ ReleaseEnd(s)

Next ==
    \E s \in Sessions :
        \/ \E st \in Statement : Receive(s, st)
        \/ ServerStep(s)
        \/ Disconnect(s)
        \/ Connect(s)

Spec == Init /\ [][Next]_vars

\* Every thread of the server is scheduled; clients may stop at any point.
FairSpec == Spec /\ \A s \in Sessions : WF_vars(ServerStep(s))

-----------------------------------------------------------------------------
(* Properties *)

TypeOK ==
    /\ LockTypeOK
    /\ pc \in [Sessions -> PC]
    /\ txn \in [Sessions -> Txns \cup {None}]
    /\ txn_mode \in [Txns -> BOOLEAN]
    /\ stmt \in [Sessions -> Statement]
    /\ row \in [Sessions -> Slots]
    /\ ret \in [Sessions -> {"idle", "reply"}]
    /\ final \in [Sessions -> {"COMMITTED", "ABORTED"}]
    /\ locks \in [Sessions -> SUBSET Ids]
    /\ write_set \in [Txns -> Seq(WriteRecord)]
    /\ content \in [Tables -> [Slots -> Values]]
    /\ committed \in [Tables -> [Slots -> Values]]
    /\ reads \in [Txns -> SUBSET Read]

\* The transaction's COMMIT record is on disk.
PastCommit(t) ==
    \E s \in Sessions : txn[s] = t /\ pc[s] = "release" /\ final[s] = "COMMITTED"

HoldsMode(t, tab, modes) ==
    \E r \in request_queue[tab] : r.txn = t /\ r.mode \in modes

\* Strict two-phase locking: until it has committed or undone them, a
\* transaction keeps X on every table it wrote, and S or X on every table it
\* read (executors and abort() run under locks they took earlier and never
\* test again).
StrictLocks ==
    /\ TypeOK
    /\ \A t \in Txns :
          /\ ~PastCommit(t) =>
                \A i \in DOMAIN write_set[t] : HoldsMode(t, write_set[t][i].tab, {"X"})
          /\ \A rd \in reads[t] : HoldsMode(t, rd.tab, {"S", "X"})

\* Every row a live transaction has read still has, in the committed database,
\* the value it read: no dirty read, no unrepeatable read, no lost update, so
\* committed transactions are serializable in the order of their commit points.
SerializableReads ==
    \A t \in Txns : \A rd \in reads[t] : committed[rd.tab][rd.slot] = rd.val

\* The write records of one transaction before its i-th are of other rows.
FirstWrite(t, i) ==
    \A j \in 1..(i - 1) : \/ write_set[t][j].tab # write_set[t][i].tab
                           \/ write_set[t][j].slot # write_set[t][i].slot

\* abort() can restore the committed database at every moment: the first write
\* record of a row that a live transaction wrote has the committed value, and
\* every row that no live transaction wrote has it now.
RollbackExact ==
    /\ \A t \in Txns : ~PastCommit(t) => \A i \in DOMAIN write_set[t] :
          FirstWrite(t, i) =>
              write_set[t][i].old = committed[write_set[t][i].tab][write_set[t][i].slot]
    /\ \A tab \in Tables, slot \in Slots :
          (\A t \in Txns : Written(t, tab, slot) => PastCommit(t)) =>
              content[tab][slot] = committed[tab][slot]

\* commit() or abort() of the transaction has decided how it ends.
Ended(t) == \E s \in Sessions : txn[s] = t /\ pc[s] \in {"undo", "release"}

OwnRows(t) == {place \in Tables \X Slots : ~Ended(t) /\ Written(t, place[1], place[2])}
OwnValues(t) == [place \in OwnRows(t) |-> content[place[1]][place[2]]]

Store == INSTANCE SerialStore WITH
    store <- committed,
    seen <- reads,
    own <- [t \in Txns |-> OwnValues(t)]

\* The sessions implement SerialStore: row by row under table locks, and undone
\* write by write, transactions still read the committed database, keep their
\* writes to themselves, and commit reads and writes together or leave nothing.
StoreSpec == Store!Spec

\* Whatever the other sessions do, a request that has arrived is answered, or
\* its connection is dropped: no-wait locking cannot block a thread.
StatementEnds ==
    \A s \in Sessions : pc[s] \notin {"idle", "closed"} ~> pc[s] \in {"idle", "closed"}

\* "a single statement has to run as a complete transaction, so the
\* transaction is committed when the statement has been executed" (rmdb.cpp):
\* a session that has ended leaves no single-statement transaction open.
SingleStatementEnds ==
    \A s \in Sessions : pc[s] = "closed" /\ txn[s] # None /\ ~txn_mode[txn[s]] =>
        state[txn[s]] \in {"COMMITTED", "ABORTED"}

=============================================================================
