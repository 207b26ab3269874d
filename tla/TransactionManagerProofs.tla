---------------------- MODULE TransactionManagerProofs ----------------------
(***************************************************************************)
(* TLAPS proofs about TransactionManager, for any sets of sessions,        *)
(* transactions, tables and values and any number of rows: the sessions    *)
(* implement the specification of the lock manager, lock strictly, read    *)
(* serializably, can always be rolled back exactly, and so implement the   *)
(* abstract store of SerialStore.                                          *)
(***************************************************************************)
EXTENDS TransactionManager, LockManagerProofs

\* The executors ask for S and X on tables only.
TableModes == \A id \in Ids : \A r \in request_queue[id] : r.mode \in {"S", "X"}

\* A transaction that has not begun or has ended holds no lock.
FinishedFree == \A t \in Txns : ~Usable(t) => lock_set[t] = {}

\* A session's transaction has begun, and no other session has it.
OwnTxn ==
    \A s \in Sessions : txn[s] # None =>
        /\ state[txn[s]] # "NONE"
        /\ \A r \in Sessions : r # s => txn[r] # txn[s]

\* What a thread knows from where it stands.
Phase(s) ==
    /\ pc[s] \notin {"idle", "closed"} => txn[s] # None
    /\ pc[s] \in {"run", "scan", "upgrade", "write", "undo"} => Usable(txn[s])
    /\ pc[s] = "scan" => /\ stmt[s].op \in {"select", "update"}
                         /\ HoldsMode(txn[s], stmt[s].tab, {"S", "X"})
    /\ pc[s] = "upgrade" => stmt[s].op = "update"
    /\ pc[s] = "write" => /\ stmt[s].op \in {"update", "insert"}
                          /\ HoldsMode(txn[s], stmt[s].tab, {"X"})
    /\ pc[s] = "commit" => final[s] = "COMMITTED"
    /\ pc[s] = "undo" => final[s] = "ABORTED"
    /\ pc[s] \in {"undo", "release"} => reads[txn[s]] = {}
    /\ pc[s] = "release" => /\ locks[s] = lock_set[txn[s]]
                            /\ final[s] = "ABORTED" => write_set[txn[s]] = <<>>
Phases == \A s \in Sessions : Phase(s)

\* The inductive invariant.
ControlInv == TypeOK /\ LockInv /\ TableModes /\ FinishedFree /\ OwnTxn /\ Phases
DataInv == StrictLocks /\ SerializableReads /\ RollbackExact
TxnInv == ControlInv /\ DataInv

-----------------------------------------------------------------------------
(* What a step does to the rest of the system *)

\* No transaction loses a lock that executors or abort() rely on.
LocksKept ==
    \A u \in Txns, id \in Ids :
        /\ HoldsMode(u, id, {"X"}) => HoldsMode(u, id, {"X"})'
        /\ HoldsMode(u, id, {"S", "X"}) => HoldsMode(u, id, {"S", "X"})'

\* The transactions other than t stay as they are, and keep their locks.
TxnsKept(t) ==
    \A u \in Txns : u # t =>
        /\ state'[u] = state[u] /\ lock_set'[u] = lock_set[u]
        /\ write_set'[u] = write_set[u] /\ reads'[u] = reads[u]
        /\ \A id \in Ids :
              /\ HoldsMode(u, id, {"X"}) => HoldsMode(u, id, {"X"})'
              /\ HoldsMode(u, id, {"S", "X"}) => HoldsMode(u, id, {"S", "X"})'

\* The threads other than that of session s stay where they are.
SessionsKept(s) ==
    \A r \in Sessions : r # s =>
        /\ pc'[r] = pc[r] /\ txn'[r] = txn[r] /\ stmt'[r] = stmt[r]
        /\ final'[r] = final[r] /\ locks'[r] = locks[r]

-----------------------------------------------------------------------------
(* Locks *)

\* acquire_lock and its refusal take no lock from anybody: a request is only
\* ever overwritten by a stronger one.
LEMMA AcquireKeeps ==
    ASSUME LockInv, TableModes, NEW t \in Txns, NEW id \in TableIds, NEW mode \in {"S", "X"},
           acquire_lock(t, id, mode) \/ Refuse(t, id, mode)
    PROVE  /\ LocksKept
           /\ TableModes'
           /\ \A u \in Txns : u # t => state'[u] = state[u] /\ lock_set'[u] = lock_set[u]
           /\ Usable(t) => Usable(t)'
  <1> USE DEF LockInv, LockTypeOK, HoldsMode
  <1>0. id \in Ids
    BY DEF Ids
  <1>1. /\ StartAcquire(t, id)
        /\ \A u \in Txns : u # t => state'[u] = state[u]
        /\ Usable(t) => Usable(t)'
    BY DEF acquire_lock, Refuse, AlreadyHeld, Upgrade, Grant, StartAcquire, Usable
  <1>2. CASE AlreadyHeld(t, id, mode) \/ Refuse(t, id, mode)
    BY <1>1, <1>2 DEF AlreadyHeld, Refuse, TableModes, LocksKept
  <1>3. CASE Upgrade(t, id, mode)
    <2> DEFINE new == [txn |-> t, mode |-> mode]
               queue == {IF r.txn = t THEN new ELSE r : r \in request_queue[id]}
    <2>1. /\ request_queue' = [request_queue EXCEPT ![id] = queue]
          /\ lock_set' = lock_set
          /\ ~Covered(t, id, mode)
      BY <1>3 DEF Upgrade, SetQueue
    <2>2. /\ request_queue'[id] = queue
          /\ \A i \in Ids : i # id => request_queue'[i] = request_queue[i]
      BY <1>0, <2>1
    <2>3. \A r \in queue : r = new \/ r \in request_queue[id]
      OBVIOUS
    <2>4. \A r \in request_queue[id] : r.txn = t => r.mode = "S" /\ mode = "X"
      BY <1>0, <2>1 DEF Covered, is_stronger, TableModes
    <2>5. \A r \in request_queue[id] : r.txn # t => r \in queue
      OBVIOUS
    <2>6. \A r \in request_queue[id] : r.txn = t => new \in queue
      OBVIOUS
    <2>7. TableModes'
      BY <1>0, <2>2, <2>3 DEF TableModes
    <2>8. LocksKept
      BY <1>0, <2>2, <2>4, <2>5, <2>6 DEF LocksKept
    <2>9. QED
      BY <1>1, <2>1, <2>7, <2>8
  <1>4. CASE Grant(t, id, mode)
    <2> DEFINE new == [txn |-> t, mode |-> mode]
    <2>1. /\ request_queue' = [request_queue EXCEPT ![id] = request_queue[id] \cup {new}]
          /\ lock_set' = [lock_set EXCEPT ![t] = @ \cup {id}]
      BY <1>4 DEF Grant, SetQueue
    <2>2. /\ request_queue'[id] = request_queue[id] \cup {new}
          /\ \A i \in Ids : i # id => request_queue'[i] = request_queue[i]
      BY <1>0, <2>1
    <2>3. TableModes' /\ LocksKept
      BY <1>0, <2>2 DEF TableModes, LocksKept
    <2>4. QED
      BY <1>1, <2>1, <2>3
  <1>5. QED
    BY <1>2, <1>3, <1>4 DEF acquire_lock

\* A lock that was granted is held, in the mode asked for or a stronger one.
LEMMA AcquireHolds ==
    ASSUME LockInv, TableModes, NEW t \in Txns, NEW id \in TableIds, NEW mode \in {"S", "X"},
           acquire_lock(t, id, mode)
    PROVE  /\ HoldsMode(t, id, {"S", "X"})'
           /\ mode = "X" => HoldsMode(t, id, {"X"})'
  <1> USE DEF LockInv, LockTypeOK, HoldsMode
  <1> DEFINE new == [txn |-> t, mode |-> mode]
  <1>0. id \in Ids
    BY DEF Ids
  <1>1. CASE AlreadyHeld(t, id, mode)
    BY <1>0, <1>1 DEF AlreadyHeld, Covered, is_stronger, TableModes
  <1>2. CASE Upgrade(t, id, mode) \/ Grant(t, id, mode)
    <2>1. new \in request_queue'[id]
      <3>1. CASE Upgrade(t, id, mode)
        BY <1>0, <3>1 DEF Upgrade, SetQueue, Holds
      <3>2. CASE Grant(t, id, mode)
        BY <1>0, <3>2 DEF Grant, SetQueue
      <3>3. QED
        BY <1>2, <3>1, <3>2
    <2>2. new.txn = t /\ new.mode = mode
      OBVIOUS
    <2>3. QED
      BY <2>1, <2>2
  <1>3. QED
    BY <1>1, <1>2 DEF acquire_lock

\* X on a table excludes every other holder.
LEMMA Exclusive ==
    ASSUME LockInv, NEW id \in Ids, NEW t \in Txns, NEW u \in Txns,
           HoldsMode(t, id, {"X"}), HoldsMode(u, id, {"S", "X"})
    PROVE  t = u
  BY DEF LockInv, LockTypeOK, GrantedCompatible, HoldsMode, is_compatible

-----------------------------------------------------------------------------
(* Frames *)

\* A table of a statement is one of the lock manager's ids.
LEMMA StatementTable ==
    ASSUME NEW st \in Statement, st.op \in TableOp PROVE st.tab \in TableIds /\ st.tab \in Ids
  BY DEF Statement, TableOp, Command, Tables, Ids

\* What a thread knows stays true when another session or transaction moves.
LEMMA OtherPhases ==
    ASSUME ControlInv, NEW s \in Sessions, NEW t, SessionsKept(s), TxnsKept(t),
           \A r \in Sessions : r # s => txn[r] # t
    PROVE  \A r \in Sessions : r # s => Phase(r)'
  <1> SUFFICES ASSUME NEW r \in Sessions, r # s PROVE Phase(r)'
    OBVIOUS
  <1>1. /\ pc'[r] = pc[r] /\ txn'[r] = txn[r] /\ stmt'[r] = stmt[r]
        /\ final'[r] = final[r] /\ locks'[r] = locks[r]
    BY DEF SessionsKept
  <1>2. Phase(r) /\ txn[r] # t
    BY DEF ControlInv, Phases
  <1>3. CASE pc[r] \in {"idle", "closed"}
    BY <1>1, <1>3 DEF Phase
  <1>4. CASE pc[r] \notin {"idle", "closed"}
    <2>1. PICK u \in Txns : u = txn[r]
      BY <1>2, <1>4 DEF Phase, ControlInv, TypeOK
    <2>2. /\ state'[u] = state[u] /\ lock_set'[u] = lock_set[u]
          /\ write_set'[u] = write_set[u] /\ reads'[u] = reads[u]
          /\ \A id \in Ids :
                /\ HoldsMode(u, id, {"X"}) => HoldsMode(u, id, {"X"})'
                /\ HoldsMode(u, id, {"S", "X"}) => HoldsMode(u, id, {"S", "X"})'
      BY <1>2, <2>1 DEF TxnsKept
    <2>3. Usable(u) => Usable(u)'
      BY <2>2 DEF Usable
    <2>4. pc[r] \in {"scan", "write"} => stmt[r].tab \in Ids
      BY <1>2, StatementTable DEF Phase, ControlInv, TypeOK, TableOp
    <2>5. pc[r] = "scan" => HoldsMode(txn[r], stmt[r].tab, {"S", "X"})'
      BY <1>1, <1>2, <2>1, <2>2, <2>4 DEF Phase, HoldsMode
    <2>6. pc[r] = "write" => HoldsMode(txn[r], stmt[r].tab, {"X"})'
      BY <1>1, <1>2, <2>1, <2>2, <2>4 DEF Phase, HoldsMode
    <2>7. QED
      BY <1>1, <1>2, <2>1, <2>2, <2>3, <2>5, <2>6 DEF Phase, Usable
  <1>5. QED
    BY <1>3, <1>4

\* A step of a session with its own transaction keeps the control part of the
\* invariant when it keeps what is about that session and transaction.
LEMMA OwnStep ==
    ASSUME ControlInv, NEW s \in Sessions, txn[s] # None, txn' = txn,
           TypeOK', LockInv', TableModes', SessionsKept(s), TxnsKept(txn[s]),
           state'[txn[s]] # "NONE",
           Usable(txn[s])' \/ lock_set'[txn[s]] = {},
           Phase(s)'
    PROVE  ControlInv'
  <1>1. txn[s] \in Txns /\ \A r \in Sessions : r # s => txn[r] # txn[s]
    BY DEF ControlInv, TypeOK, OwnTxn
  <1>2. Phases'
    <2>1. \A r \in Sessions : r # s => Phase(r)'
      BY <1>1, OtherPhases
    <2>2. QED
      BY <2>1 DEF Phases
  <1>3. \A u \in Txns : u # txn[s] => state'[u] = state[u] /\ lock_set'[u] = lock_set[u]
    BY DEF TxnsKept
  <1>4. FinishedFree'
    <2>1. ASSUME NEW u \in Txns PROVE Usable(u)' \/ lock_set'[u] = {}
      BY <1>3 DEF Usable, ControlInv, FinishedFree
    <2>2. QED
      BY <2>1 DEF FinishedFree
  <1>5. OwnTxn'
    <2>1. \A r \in Sessions : txn[r] # None => txn[r] \in Txns
      BY DEF ControlInv, TypeOK
    <2>2. \A r \in Sessions : txn[r] # None => state'[txn[r]] # "NONE"
      BY <1>1, <1>3, <2>1 DEF ControlInv, OwnTxn
    <2>3. QED
      BY <2>2 DEF ControlInv, OwnTxn
  <1>6. QED
    BY <1>2, <1>4, <1>5 DEF ControlInv

\* The fields of the write records.
LEMMA WriteRecordType ==
    ASSUME TypeOK, NEW t \in Txns, NEW i \in DOMAIN write_set[t]
    PROVE  /\ i \in 1..Len(write_set[t]) /\ Len(write_set[t]) \in Nat
           /\ write_set[t][i] \in WriteRecord
           /\ write_set[t][i].tab \in Tables /\ write_set[t][i].slot \in Slots
  <1>1. write_set[t] \in Seq(WriteRecord)
    BY DEF TypeOK
  <1>2. i \in 1..Len(write_set[t]) /\ Len(write_set[t]) \in Nat
    BY <1>1
  <1>3. write_set[t][i] \in WriteRecord
    BY <1>1, <1>2
  <1>4. QED
    BY <1>2, <1>3 DEF WriteRecord

\* Which transactions are past their commit point depends on the threads that
\* are releasing locks only.
LEMMA PastCommitSame ==
    ASSUME NEW s \in Sessions, SessionsKept(s), pc[s] # "release", pc'[s] # "release", NEW t
    PROVE  PastCommit(t)' <=> PastCommit(t)
  BY DEF PastCommit, SessionsKept

\* A step that writes nothing, reads nothing and releases nothing.
LEMMA QuietData ==
    ASSUME TxnInv, TypeOK',
           \A t : PastCommit(t)' <=> PastCommit(t),
           UNCHANGED <<write_set, content, committed>>,
           \A u \in Txns : reads'[u] \subseteq reads[u],
           LocksKept
    PROVE  DataInv'
  <1>1. \A t : PastCommit(t)' <=> PastCommit(t)
    OBVIOUS
  <1>2. \A t \in Txns : \A i \in DOMAIN write_set[t] : write_set[t][i].tab \in Ids
    BY WriteRecordType DEF TxnInv, ControlInv, Tables, Ids
  <1>3. \A t \in Txns : \A rd \in reads[t] : rd.tab \in Ids
    BY DEF TxnInv, ControlInv, TypeOK, Read, Tables, Ids
  <1>4. StrictLocks'
    <2>1. ASSUME NEW t \in Txns, ~PastCommit(t)', NEW i \in DOMAIN write_set'[t]
          PROVE  HoldsMode(t, write_set[t][i].tab, {"X"})'
      <3>1. HoldsMode(t, write_set[t][i].tab, {"X"})
        BY <1>1, <2>1 DEF TxnInv, DataInv, StrictLocks
      <3>2. HoldsMode(t, write_set[t][i].tab, {"X"})'
        BY <1>2, <2>1, <3>1 DEF LocksKept, HoldsMode
      <3>3. QED
        BY <3>2 DEF HoldsMode
    <2>2. ASSUME NEW t \in Txns, NEW rd \in reads'[t]
          PROVE  HoldsMode(t, rd.tab, {"S", "X"})'
      <3>1. rd \in reads[t]
        BY <2>2
      <3>2. HoldsMode(t, rd.tab, {"S", "X"})
        BY <3>1 DEF TxnInv, DataInv, StrictLocks
      <3>3. QED
        BY <1>3, <3>1, <3>2 DEF LocksKept
    <2>3. QED
      BY <2>1, <2>2 DEF StrictLocks
  <1>5. SerializableReads'
    BY DEF TxnInv, DataInv, SerializableReads
  <1>6. RollbackExact'
    BY <1>1 DEF TxnInv, DataInv, RollbackExact, FirstWrite, Written
  <1>7. QED
    BY <1>4, <1>5, <1>6 DEF DataInv

\* The same for a thread that does not release locks.
LEMMA QuietStep ==
    ASSUME TxnInv, TypeOK', NEW s \in Sessions, SessionsKept(s),
           pc[s] # "release", pc'[s] # "release",
           UNCHANGED <<write_set, content, committed>>,
           \A u \in Txns : reads'[u] \subseteq reads[u],
           LocksKept
    PROVE  DataInv'
  <1>1. \A t : PastCommit(t)' <=> PastCommit(t)
    BY PastCommitSame
  <1>2. QED
    BY <1>1, QuietData

\* A step that leaves the lock table alone.
LEMMA LocksUntouched ==
    ASSUME ControlInv, UNCHANGED lockVars
    PROVE  /\ LockInv' /\ TableModes' /\ LocksKept /\ [LockNext]_lockVars
           /\ state' = state /\ lock_set' = lock_set
  <1>1. LockInv'
    BY LockNextInv DEF ControlInv
  <1>2. request_queue' = request_queue /\ state' = state /\ lock_set' = lock_set
    BY DEF lockVars
  <1>3. TableModes' /\ LocksKept
    BY <1>2 DEF ControlInv, TableModes, LocksKept, HoldsMode
  <1>4. QED
    BY <1>1, <1>2, <1>3

\* TxnsKept from its parts.
LEMMA KeepTxns ==
    ASSUME NEW t, LocksKept,
           \A u \in Txns : u # t => state'[u] = state[u] /\ lock_set'[u] = lock_set[u],
           \A u \in Txns : u # t => write_set'[u] = write_set[u] /\ reads'[u] = reads[u]
    PROVE  TxnsKept(t)
  BY DEF TxnsKept, LocksKept

-----------------------------------------------------------------------------
(* client_handler *)

LEMMA ReceiveStep ==
    ASSUME TxnInv, NEW s \in Sessions, NEW st \in Statement, Receive(s, st)
    PROVE  TxnInv' /\ [LockNext]_lockVars
  <1> USE DEF TxnInv
  <1>1. /\ pc[s] = "idle" /\ pc' = [pc EXCEPT ![s] = "run"]
        /\ stmt' = [stmt EXCEPT ![s] = st]
        /\ UNCHANGED <<row, ret, final, locks, write_set, content, committed, reads>>
    BY DEF Receive, Goto, dataVars
  <1>2. /\ pc'[s] = "run" /\ stmt'[s] = st
        /\ pc' \in [Sessions -> PC] /\ stmt' \in [Sessions -> Statement]
        /\ \A r \in Sessions : r # s => pc'[r] = pc[r] /\ stmt'[r] = stmt[r]
    BY <1>1 DEF ControlInv, TypeOK, PC
  <1>3. CASE txn[s] # None /\ state[txn[s]] \notin {"COMMITTED", "ABORTED"}
    <2>1. UNCHANGED <<txn, txn_mode, lockVars>>
      BY <1>3 DEF Receive
    <2>2. /\ LockInv' /\ TableModes' /\ LocksKept /\ [LockNext]_lockVars
          /\ state' = state /\ lock_set' = lock_set
      BY <2>1, LocksUntouched
    <2>3. TypeOK'
      BY <1>1, <1>2, <2>1, <2>2 DEF ControlInv, TypeOK, LockInv
    <2>4. SessionsKept(s)
      BY <1>1, <1>2, <2>1 DEF SessionsKept
    <2>5. TxnsKept(txn[s])
      BY <1>1, <2>2, KeepTxns
    <2>6. txn[s] \in Txns /\ Usable(txn[s]) /\ state[txn[s]] # "NONE"
      BY <1>3 DEF ControlInv, TypeOK, OwnTxn, LockTypeOK, TransactionState, Usable
    <2>7. Usable(txn[s])' /\ state'[txn[s]] # "NONE"
      BY <2>1, <2>2, <2>6 DEF Usable
    <2>8. Phase(s)'
      BY <1>2, <1>3, <2>1, <2>7 DEF Phase
    <2>9. ControlInv'
      BY <1>3, <2>1, <2>2, <2>3, <2>4, <2>5, <2>7, <2>8, OwnStep
    <2>10. DataInv'
      BY <1>1, <1>2, <2>2, <2>3, <2>4, QuietStep
    <2>11. QED
      BY <2>2, <2>9, <2>10
  <1>4. CASE ~(txn[s] # None /\ state[txn[s]] \notin {"COMMITTED", "ABORTED"})
    <2>1. PICK t \in Txns : /\ BeginTxn(t)
                            /\ txn' = [txn EXCEPT ![s] = t]
                            /\ txn_mode' = [txn_mode EXCEPT ![t] = FALSE]
      BY <1>4 DEF Receive
    <2>2. [LockNext]_lockVars
      BY <2>1 DEF LockNext
    <2>3. LockInv'
      BY <2>2, LockNextInv DEF ControlInv
    <2>4. /\ state[t] = "NONE" /\ state' = [state EXCEPT ![t] = "DEFAULT"]
          /\ lock_set' = lock_set /\ request_queue' = request_queue
      BY <2>1 DEF BeginTxn
    <2>5. /\ state'[t] = "DEFAULT" /\ \A u \in Txns : u # t => state'[u] = state[u]
          /\ txn'[s] = t /\ \A r \in Sessions : r # s => txn'[r] = txn[r]
          /\ txn' \in [Sessions -> Txns \cup {None}] /\ txn_mode' \in [Txns -> BOOLEAN]
      BY <2>1, <2>4 DEF ControlInv, TypeOK, LockTypeOK
    <2>6. TypeOK'
      BY <1>1, <1>2, <2>3, <2>5 DEF ControlInv, TypeOK, LockInv
    <2>7. SessionsKept(s)
      BY <1>1, <1>2, <2>5 DEF SessionsKept
    <2>8. TableModes' /\ LocksKept
      BY <2>4 DEF ControlInv, TableModes, LocksKept, HoldsMode
    <2>9. TxnsKept(t)
      BY <1>1, <2>4, <2>5, <2>8, KeepTxns
    <2>10. \A r \in Sessions : txn[r] # t
      BY <2>4, TxnAssumption DEF ControlInv, OwnTxn
    <2>11. Phases'
      <3>1. \A r \in Sessions : r # s => Phase(r)'
        BY <2>7, <2>9, <2>10, OtherPhases
      <3>2. Phase(s)'
        BY <1>2, <2>5, TxnAssumption DEF Phase, Usable
      <3>3. QED
        BY <3>1, <3>2 DEF Phases
    <2>12. FinishedFree'
      BY <2>4, <2>5 DEF ControlInv, FinishedFree, Usable
    <2>13. OwnTxn'
      <3>0. \A r \in Sessions : txn[r] # None => txn[r] \in Txns /\ state[txn[r]] # "NONE"
        BY DEF ControlInv, TypeOK, OwnTxn
      <3>1. \A r \in Sessions : txn[r] # None => state'[txn[r]] # "NONE"
        BY <2>5, <2>10, <3>0
      <3>2. \A r, q \in Sessions : r # q /\ txn'[r] # None => txn'[q] # txn'[r]
        BY <2>5, <2>10 DEF ControlInv, OwnTxn
      <3>3. QED
        BY <2>5, <3>1, <3>2 DEF OwnTxn
    <2>14. ControlInv'
      BY <2>3, <2>6, <2>8, <2>11, <2>12, <2>13 DEF ControlInv
    <2>15. DataInv'
      BY <1>1, <1>2, <2>6, <2>7, <2>8, QuietStep
    <2>16. QED
      BY <2>2, <2>14, <2>15
  <1>5. QED
    BY <1>3, <1>4

\* A step that moves the thread and changes nothing but its own locals.
LEMMA MoveStep ==
    ASSUME TxnInv, NEW s \in Sessions, txn[s] # None, pc[s] # "release",
           NEW label \in {"reply", "idle", "closed", "commit"},
           pc' = [pc EXCEPT ![s] = label],
           stmt' \in [Sessions -> Statement], row' \in [Sessions -> Slots],
           ret' \in [Sessions -> {"idle", "reply"}], txn_mode' \in [Txns -> BOOLEAN],
           final' \in [Sessions -> {"COMMITTED", "ABORTED"}],
           label = "commit" => final'[s] = "COMMITTED",
           \A r \in Sessions : r # s => stmt'[r] = stmt[r] /\ final'[r] = final[r],
           UNCHANGED <<lockVars, txn, locks, write_set, content, committed, reads>>
    PROVE  TxnInv' /\ [LockNext]_lockVars
  <1> USE DEF TxnInv
  <1>1. /\ LockInv' /\ TableModes' /\ LocksKept /\ [LockNext]_lockVars
        /\ state' = state /\ lock_set' = lock_set
    BY LocksUntouched
  <1>2. /\ pc'[s] = label /\ pc' \in [Sessions -> PC]
        /\ \A r \in Sessions : r # s => pc'[r] = pc[r]
    BY DEF ControlInv, TypeOK, PC
  <1>3. TypeOK'
    BY <1>1, <1>2 DEF ControlInv, TypeOK, LockInv
  <1>4. SessionsKept(s)
    BY <1>2 DEF SessionsKept
  <1>5. TxnsKept(txn[s])
    BY <1>1, KeepTxns
  <1>6. txn[s] \in Txns /\ state'[txn[s]] # "NONE"
    BY <1>1 DEF ControlInv, TypeOK, OwnTxn
  <1>7. Usable(txn[s])' \/ lock_set'[txn[s]] = {}
    BY <1>1, <1>6 DEF Usable, ControlInv, FinishedFree
  <1>8. Phase(s)'
    BY <1>2 DEF Phase
  <1>9. ControlInv'
    BY <1>1, <1>3, <1>4, <1>5, <1>6, <1>7, <1>8, OwnStep
  <1>10. DataInv'
    BY <1>1, <1>2, <1>3, <1>4, QuietStep
  <1>11. QED
    BY <1>1, <1>9, <1>10

LEMMA MoveSteps ==
    ASSUME TxnInv, NEW s \in Sessions,
           Fail(s) \/ BeginCommand(s) \/ Reply(s) \/ ReplyFails(s)
    PROVE  TxnInv' /\ [LockNext]_lockVars
  <1> USE DEF TxnInv
  <1>0. pc[s] \notin {"idle", "closed", "release"}
    BY DEF Fail, BeginCommand, Reply, ReplyFails
  <1>1. txn[s] # None /\ txn[s] \in Txns /\ pc[s] # "release"
    BY <1>0 DEF ControlInv, Phases, Phase, TypeOK
  <1>2. NoStatement \in Statement /\ 1 \in Slots
    BY TxnAssumption DEF NoStatement, Statement, Command, Slots
  <1>3. CASE Fail(s) \/ BeginCommand(s)
    <2>1. /\ pc' = [pc EXCEPT ![s] = "reply"] /\ txn_mode' \in [Txns -> BOOLEAN]
          /\ UNCHANGED <<lockVars, txn, stmt, row, ret, final, locks,
                         write_set, content, committed, reads>>
      BY <1>1, <1>3 DEF Fail, BeginCommand, Goto, dataVars, ControlInv, TypeOK
    <2>2. /\ stmt' \in [Sessions -> Statement] /\ row' \in [Sessions -> Slots]
          /\ ret' \in [Sessions -> {"idle", "reply"}]
          /\ final' \in [Sessions -> {"COMMITTED", "ABORTED"}]
      BY <2>1 DEF ControlInv, TypeOK
    <2>3. QED
      BY <1>1, <2>1, <2>2, MoveStep
  <1>4. CASE Reply(s) \/ ReplyFails(s)
    <2>1. PICK label \in {"idle", "closed", "commit"} :
            /\ Leave(s, label)
            /\ UNCHANGED <<lockVars, txn, txn_mode, locks,
                           write_set, content, committed, reads>>
      BY <1>4 DEF Reply, ReplyFails, dataVars
    <2>2. /\ pc' = [pc EXCEPT ![s] = label]
          /\ stmt' = [stmt EXCEPT ![s] = NoStatement]
          /\ row' = [row EXCEPT ![s] = 1]
          /\ ret' = [ret EXCEPT ![s] = "idle"]
          /\ final' = [final EXCEPT ![s] = "COMMITTED"]
      BY <2>1 DEF Leave, Goto
    <2>3. /\ stmt' \in [Sessions -> Statement] /\ row' \in [Sessions -> Slots]
          /\ ret' \in [Sessions -> {"idle", "reply"}]
          /\ final' \in [Sessions -> {"COMMITTED", "ABORTED"}]
          /\ txn_mode' \in [Txns -> BOOLEAN] /\ final'[s] = "COMMITTED"
          /\ \A r \in Sessions : r # s => stmt'[r] = stmt[r] /\ final'[r] = final[r]
      BY <1>2, <2>1, <2>2 DEF ControlInv, TypeOK
    <2>4. label \in {"reply", "idle", "closed", "commit"}
      OBVIOUS
    <2>5. QED
      BY <1>1, <2>1, <2>2, <2>3, <2>4, MoveStep
  <1>5. QED
    BY <1>3, <1>4

LEMMA ConnectionStep ==
    ASSUME TxnInv, NEW s \in Sessions, Disconnect(s) \/ Connect(s)
    PROVE  TxnInv' /\ [LockNext]_lockVars
  <1> USE DEF TxnInv
  <1>1. PICK label \in {"idle", "closed"} :
          /\ pc[s] \in {"idle", "closed"} /\ pc' = [pc EXCEPT ![s] = label]
          /\ UNCHANGED <<lockVars, txn_mode, stmt, row, ret, final, locks,
                         write_set, content, committed, reads>>
    BY DEF Disconnect, Connect, Goto, dataVars
  <1>2. /\ LockInv' /\ TableModes' /\ LocksKept /\ [LockNext]_lockVars
        /\ state' = state /\ lock_set' = lock_set
    BY <1>1, LocksUntouched
  <1>3. /\ txn' \in [Sessions -> Txns \cup {None}]
        /\ \A r \in Sessions : r # s => txn'[r] = txn[r]
        /\ txn'[s] \in {txn[s], None}
    BY DEF Disconnect, Connect, ControlInv, TypeOK
  <1>4. /\ pc'[s] = label /\ pc' \in [Sessions -> PC]
        /\ \A r \in Sessions : r # s => pc'[r] = pc[r]
    BY <1>1 DEF ControlInv, TypeOK, PC
  <1>5. TypeOK'
    BY <1>1, <1>2, <1>3, <1>4 DEF ControlInv, TypeOK, LockInv
  <1>6. SessionsKept(s)
    BY <1>1, <1>3, <1>4 DEF SessionsKept
  <1>7. Phases'
    <2>1. PICK t : \A r \in Sessions : txn[r] # t
      <3>1. \A r \in Sessions : txn[r] \in Txns \cup {None}
        BY DEF ControlInv, TypeOK
      <3>2. QED
        BY <3>1, NoSetContainsEverything
    <2>2. TxnsKept(t)
      BY <1>1, <1>2, KeepTxns
    <2>3. \A r \in Sessions : r # s => Phase(r)'
      BY <1>6, <2>1, <2>2, OtherPhases
    <2>4. Phase(s)'
      BY <1>4 DEF Phase
    <2>5. QED
      BY <2>3, <2>4 DEF Phases
  <1>8. FinishedFree'
    BY <1>2 DEF ControlInv, FinishedFree, Usable
  <1>9. OwnTxn'
    BY <1>2, <1>3 DEF ControlInv, OwnTxn
  <1>10. ControlInv'
    BY <1>2, <1>5, <1>7, <1>8, <1>9 DEF ControlInv
  <1>11. DataInv'
    BY <1>1, <1>2, <1>4, <1>5, <1>6, QuietStep
  <1>12. QED
    BY <1>2, <1>10, <1>11

\* abort() begins: the locks are as the refusing lock call left them.
LEMMA StartAbortStep ==
    ASSUME TxnInv, NEW s \in Sessions, txn[s] # None, pc[s] # "release", StartAbort(s),
           LockInv', TableModes', LocksKept, Usable(txn[s])',
           \A u \in Txns : u # txn[s] => state'[u] = state[u] /\ lock_set'[u] = lock_set[u],
           UNCHANGED <<txn, txn_mode, stmt, row, locks, write_set, content, committed>>
    PROVE  TxnInv'
  <1> USE DEF TxnInv
  <1>1. /\ pc' = [pc EXCEPT ![s] = "undo"]
        /\ ret' = [ret EXCEPT ![s] = "reply"]
        /\ final' = [final EXCEPT ![s] = "ABORTED"]
        /\ reads' = [reads EXCEPT ![txn[s]] = {}]
    BY DEF StartAbort, Goto
  <1>2. txn[s] \in Txns
    BY DEF ControlInv, TypeOK
  <1>3. /\ pc'[s] = "undo" /\ final'[s] = "ABORTED" /\ reads'[txn[s]] = {}
        /\ \A r \in Sessions : r # s => pc'[r] = pc[r] /\ final'[r] = final[r]
        /\ \A u \in Txns : u # txn[s] => reads'[u] = reads[u]
    BY <1>1, <1>2 DEF ControlInv, TypeOK
  <1>4. /\ pc' \in [Sessions -> PC] /\ ret' \in [Sessions -> {"idle", "reply"}]
        /\ final' \in [Sessions -> {"COMMITTED", "ABORTED"}]
        /\ reads' \in [Txns -> SUBSET Read]
    BY <1>1, <1>2 DEF ControlInv, TypeOK, PC
  <1>5. TypeOK'
    BY <1>4 DEF ControlInv, TypeOK, LockInv
  <1>6. SessionsKept(s)
    BY <1>3 DEF SessionsKept
  <1>7. TxnsKept(txn[s])
    BY <1>3, KeepTxns
  <1>8. Phase(s)'
    BY <1>3 DEF Phase, Usable
  <1>9. state'[txn[s]] # "NONE"
    BY DEF Usable
  <1>10. ControlInv'
    BY <1>5, <1>6, <1>7, <1>8, <1>9, OwnStep DEF Usable
  <1>11. \A u \in Txns : reads'[u] \subseteq reads[u]
    BY <1>3
  <1>12. DataInv'
    BY <1>3, <1>5, <1>6, <1>11, QuietStep
  <1>13. QED
    BY <1>10, <1>12

LEMMA EndCommandStep ==
    ASSUME TxnInv, NEW s \in Sessions, EndCommand(s)
    PROVE  TxnInv' /\ [LockNext]_lockVars
  <1> USE DEF TxnInv
  <1>1. /\ pc[s] = "run"
        /\ UNCHANGED <<lockVars, txn, txn_mode, stmt, row, locks,
                       write_set, content, committed>>
    BY DEF EndCommand
  <1>2. txn[s] # None /\ txn[s] \in Txns /\ Usable(txn[s])
    BY <1>1 DEF ControlInv, Phases, Phase, TypeOK
  <1>3. /\ LockInv' /\ TableModes' /\ LocksKept /\ [LockNext]_lockVars
        /\ state' = state /\ lock_set' = lock_set
    BY <1>1, LocksUntouched
  <1>4. CASE StartAbort(s)
    <2>1. Usable(txn[s])'
      BY <1>1, <1>2, <1>3 DEF Usable
    <2>2. TxnInv'
      BY <1>1, <1>2, <1>3, <1>4, <2>1, StartAbortStep
    <2>3. QED
      BY <1>3, <2>2
  <1>5. CASE ~StartAbort(s)
    <2>1. /\ pc' = [pc EXCEPT ![s] = "commit"]
          /\ ret' = [ret EXCEPT ![s] = "reply"]
          /\ final' = [final EXCEPT ![s] = "COMMITTED"]
          /\ reads' = reads
      BY <1>5 DEF EndCommand, Goto
    <2>2. /\ stmt' \in [Sessions -> Statement] /\ row' \in [Sessions -> Slots]
          /\ ret' \in [Sessions -> {"idle", "reply"}]
          /\ final' \in [Sessions -> {"COMMITTED", "ABORTED"}]
          /\ txn_mode' \in [Txns -> BOOLEAN] /\ final'[s] = "COMMITTED"
          /\ \A r \in Sessions : r # s => stmt'[r] = stmt[r] /\ final'[r] = final[r]
      BY <1>1, <2>1 DEF ControlInv, TypeOK
    <2>3. QED
      BY <1>1, <1>2, <2>1, <2>2, MoveStep
  <1>6. QED
    BY <1>4, <1>5

-----------------------------------------------------------------------------
(* The executors *)

\* A lock call of an executor, granted or refused, as a step of the lock manager.
LEMMA LockCall ==
    ASSUME TxnInv, NEW t \in Txns, Usable(t), NEW id \in TableIds, NEW mode \in {"S", "X"},
           acquire_lock(t, id, mode) \/ Refuse(t, id, mode)
    PROVE  /\ [LockNext]_lockVars /\ LockInv' /\ TableModes' /\ LocksKept
           /\ \A u \in Txns : u # t => state'[u] = state[u] /\ lock_set'[u] = lock_set[u]
           /\ Usable(t)'
  <1> USE DEF TxnInv
  <1>1. id \in Ids /\ mode \in RequestModes(id)
    BY DEF Ids, RequestModes
  <1>2. Acquire(t, id, mode)
    BY DEF Acquire
  <1>3. [LockNext]_lockVars
    BY <1>1, <1>2 DEF LockNext
  <1>4. LockInv'
    BY <1>3, LockNextInv DEF ControlInv
  <1>5. QED
    BY <1>3, <1>4, AcquireKeeps DEF ControlInv

\* The thread goes on under the lock it was granted.
LEMMA GrantedStep ==
    ASSUME TxnInv, NEW s \in Sessions, txn[s] \in Txns, Usable(txn[s]), pc[s] # "release",
           stmt[s].tab \in TableIds, NEW mode \in {"S", "X"},
           acquire_lock(txn[s], stmt[s].tab, mode),
           mode = "S" => stmt[s].op \in {"select", "update"},
           mode = "X" => stmt[s].op \in {"update", "insert"},
           pc' = [pc EXCEPT ![s] = IF mode = "S" THEN "scan" ELSE "write"],
           UNCHANGED <<txn, txn_mode, stmt, row, ret, final, locks,
                       write_set, content, committed, reads>>
    PROVE  TxnInv'
  <1> USE DEF TxnInv
  <1>1. PICK t \in Txns, id \in TableIds : t = txn[s] /\ id = stmt[s].tab
    OBVIOUS
  <1>2. /\ LockInv' /\ TableModes' /\ LocksKept /\ Usable(t)'
        /\ \A u \in Txns : u # t => state'[u] = state[u] /\ lock_set'[u] = lock_set[u]
    BY <1>1, LockCall
  <1>3. HoldsMode(t, id, {"S", "X"})' /\ (mode = "X" => HoldsMode(t, id, {"X"})')
    BY <1>1, AcquireHolds DEF ControlInv
  <1>4. /\ pc'[s] = IF mode = "S" THEN "scan" ELSE "write"
        /\ pc' \in [Sessions -> PC] /\ \A r \in Sessions : r # s => pc'[r] = pc[r]
    BY DEF ControlInv, TypeOK, PC
  <1>5. TypeOK'
    BY <1>2, <1>4 DEF ControlInv, TypeOK, LockInv
  <1>6. SessionsKept(s)
    BY <1>4 DEF SessionsKept
  <1>7. TxnsKept(txn[s])
    BY <1>1, <1>2, KeepTxns
  <1>8. txn[s] # None
    BY TxnAssumption
  <1>9. Phase(s)'
    BY <1>1, <1>2, <1>3, <1>4, <1>8 DEF Phase, Usable, HoldsMode
  <1>10. state'[txn[s]] # "NONE" /\ Usable(txn[s])'
    BY <1>1, <1>2 DEF Usable
  <1>11. ControlInv'
    BY <1>2, <1>5, <1>6, <1>7, <1>8, <1>9, <1>10, OwnStep
  <1>12. DataInv'
    BY <1>2, <1>4, <1>5, <1>6, QuietStep
  <1>13. QED
    BY <1>11, <1>12

LEMMA LockSharedStep ==
    ASSUME TxnInv, NEW s \in Sessions, LockShared(s)
    PROVE  TxnInv' /\ [LockNext]_lockVars
  <1> USE DEF TxnInv
  <1>1. /\ pc[s] = "run" /\ stmt[s].op \in {"select", "update"}
        /\ UNCHANGED <<txn, txn_mode, stmt, row, locks, write_set, content, committed>>
    BY DEF LockShared
  <1>2. txn[s] # None /\ txn[s] \in Txns /\ Usable(txn[s])
    BY <1>1 DEF ControlInv, Phases, Phase, TypeOK
  <1>3. stmt[s].tab \in TableIds
    BY <1>1, StatementTable DEF ControlInv, TypeOK, TableOp
  <1>4. CASE acquire_lock(txn[s], stmt[s].tab, "S") /\ Goto(s, "scan")
             /\ UNCHANGED <<ret, final, reads>>
    BY <1>1, <1>2, <1>3, <1>4, LockCall, GrantedStep DEF Goto
  <1>5. CASE Refuse(txn[s], stmt[s].tab, "S") /\ StartAbort(s)
    <2>1. PICK t \in Txns : t = txn[s]
      BY <1>2
    <2>2. /\ [LockNext]_lockVars /\ LockInv' /\ TableModes' /\ LocksKept /\ Usable(t)'
          /\ \A u \in Txns : u # t => state'[u] = state[u] /\ lock_set'[u] = lock_set[u]
      BY <1>2, <1>3, <1>5, <2>1, LockCall
    <2>3. Usable(txn[s])'
      BY <1>1, <2>1, <2>2 DEF Usable
    <2>4. QED
      BY <1>1, <1>2, <1>5, <2>1, <2>2, <2>3, StartAbortStep
  <1>6. QED
    BY <1>4, <1>5 DEF LockShared

LEMMA LockExclusiveStep ==
    ASSUME TxnInv, NEW s \in Sessions, LockExclusive(s)
    PROVE  TxnInv' /\ [LockNext]_lockVars
  <1> USE DEF TxnInv
  <1>1. /\ pc[s] = "upgrade" \/ (pc[s] = "run" /\ stmt[s].op = "insert")
        /\ UNCHANGED <<txn, txn_mode, stmt, row, locks, write_set, content, committed>>
    BY DEF LockExclusive
  <1>2. /\ txn[s] # None /\ txn[s] \in Txns /\ Usable(txn[s]) /\ pc[s] # "release"
        /\ stmt[s].op \in {"update", "insert"}
    <2>1. Phase(s) /\ txn[s] \in Txns \cup {None}
      BY DEF ControlInv, Phases, TypeOK
    <2>2. QED
      BY <1>1, <2>1 DEF Phase
  <1>3. stmt[s].tab \in TableIds
    BY <1>2, StatementTable DEF ControlInv, TypeOK, TableOp
  <1>4. CASE acquire_lock(txn[s], stmt[s].tab, "X") /\ Goto(s, "write")
             /\ UNCHANGED <<ret, final, reads>>
    BY <1>1, <1>2, <1>3, <1>4, LockCall, GrantedStep DEF Goto
  <1>5. CASE Refuse(txn[s], stmt[s].tab, "X") /\ StartAbort(s)
    <2>1. PICK t \in Txns : t = txn[s]
      BY <1>2
    <2>2. /\ [LockNext]_lockVars /\ LockInv' /\ TableModes' /\ LocksKept /\ Usable(t)'
          /\ \A u \in Txns : u # t => state'[u] = state[u] /\ lock_set'[u] = lock_set[u]
      BY <1>2, <1>3, <1>5, <2>1, LockCall
    <2>3. Usable(txn[s])'
      BY <1>1, <2>1, <2>2 DEF Usable
    <2>4. QED
      BY <1>1, <1>2, <1>5, <2>1, <2>2, <2>3, StartAbortStep
  <1>6. QED
    BY <1>4, <1>5 DEF LockExclusive

\* Only the thread of session s can take its transaction past the commit point.
LEMMA NotPastCommit ==
    ASSUME ControlInv, NEW s \in Sessions, txn[s] # None,
           ~(pc[s] = "release" /\ final[s] = "COMMITTED")
    PROVE  ~PastCommit(txn[s])
  BY DEF PastCommit, ControlInv, OwnTxn

\* A live writer of a row holds X on its table.
LEMMA WriterHolds ==
    ASSUME TxnInv, NEW t \in Txns, NEW tab, NEW slot, Written(t, tab, slot), ~PastCommit(t)
    PROVE  HoldsMode(t, tab, {"X"})
  BY DEF TxnInv, DataInv, StrictLocks, Written

\* A transaction that may read or write a row it has not written finds the
\* committed value there: any other live writer would exclude it.
LEMMA CleanRow ==
    ASSUME TxnInv, NEW t \in Txns, NEW tab \in Tables, NEW slot \in Slots,
           HoldsMode(t, tab, {"S", "X"}), ~Written(t, tab, slot)
    PROVE  content[tab][slot] = committed[tab][slot]
  <1>1. tab \in Ids /\ LockInv
    BY DEF Tables, Ids, TxnInv, ControlInv
  <1>2. ASSUME NEW u \in Txns, Written(u, tab, slot), ~PastCommit(u) PROVE FALSE
    <2>1. HoldsMode(u, tab, {"X"})
      BY <1>2, WriterHolds
    <2>2. u = t
      BY <1>1, <2>1, Exclusive
    <2>3. QED
      BY <1>2, <2>2
  <1>3. QED
    BY <1>2 DEF TxnInv, DataInv, RollbackExact

LEMMA ScanRowStep ==
    ASSUME TxnInv, NEW s \in Sessions, ScanRow(s)
    PROVE  TxnInv' /\ [LockNext]_lockVars
  <1> USE DEF TxnInv
  <1> DEFINE label == IF row[s] < Rows THEN "scan"
                      ELSE IF stmt[s].op = "select" THEN "reply" ELSE "upgrade"
  <1>1. /\ pc[s] = "scan" /\ pc' = [pc EXCEPT ![s] = label]
        /\ row' = [row EXCEPT ![s] = IF row[s] < Rows THEN @ + 1 ELSE 1]
        /\ UNCHANGED <<lockVars, txn, txn_mode, stmt, ret, final, locks,
                       write_set, content, committed>>
    BY DEF ScanRow, NextRow, Goto
  <1>2. /\ txn[s] # None /\ Usable(txn[s]) /\ stmt[s].op \in {"select", "update"}
        /\ HoldsMode(txn[s], stmt[s].tab, {"S", "X"})
    BY <1>1 DEF ControlInv, Phases, Phase
  <1>3. /\ LockInv' /\ TableModes' /\ LocksKept /\ [LockNext]_lockVars
        /\ state' = state /\ lock_set' = lock_set
    BY <1>1, LocksUntouched
  <1>4. PICK t \in Txns, tab \in Tables, slot \in Slots :
            t = txn[s] /\ tab = stmt[s].tab /\ slot = row[s]
    BY <1>2, StatementTable DEF ControlInv, TypeOK, TableOp, Tables
  <1> DEFINE new == [tab |-> tab, slot |-> slot, val |-> content[tab][slot]]
  <1>5. /\ reads' = IF Written(t, tab, slot) THEN reads
                    ELSE [reads EXCEPT ![t] = @ \cup {new}]
        /\ new \in Read
    BY <1>4 DEF ScanRow, ControlInv, TypeOK, Read
  <1>6. /\ \A u \in Txns : u # t => reads'[u] = reads[u]
        /\ \A rd \in reads'[t] : rd \in reads[t] \/ (rd = new /\ ~Written(t, tab, slot))
        /\ reads' \in [Txns -> SUBSET Read]
    BY <1>5 DEF ControlInv, TypeOK
  <1>7. /\ pc'[s] = label /\ pc' \in [Sessions -> PC]
        /\ \A r \in Sessions : r # s => pc'[r] = pc[r]
    BY <1>1 DEF ControlInv, TypeOK, PC
  <1>8. row' \in [Sessions -> Slots]
    BY <1>1, TxnAssumption DEF ControlInv, TypeOK, Slots
  <1>9. TypeOK'
    BY <1>1, <1>3, <1>6, <1>7, <1>8 DEF ControlInv, TypeOK, LockInv
  <1>10. SessionsKept(s)
    BY <1>1, <1>7 DEF SessionsKept
  <1>11. TxnsKept(txn[s])
    BY <1>1, <1>3, <1>4, <1>6, KeepTxns
  <1>12. Phase(s)'
    <2>1. Usable(txn[s])'
      BY <1>1, <1>2, <1>3 DEF Usable
    <2>2. HoldsMode(txn[s], stmt[s].tab, {"S", "X"})'
      BY <1>1, <1>2 DEF HoldsMode, lockVars
    <2>3. QED
      BY <1>1, <1>2, <1>7, <2>1, <2>2 DEF Phase
  <1>13. ControlInv'
    <2>1. Usable(txn[s])' /\ state'[txn[s]] # "NONE"
      BY <1>1, <1>2, <1>3 DEF Usable
    <2>2. QED
      BY <1>1, <1>2, <1>3, <1>9, <1>10, <1>11, <1>12, <2>1, OwnStep
  <1>14. \A u : PastCommit(u)' <=> PastCommit(u)
    BY <1>1, <1>7, <1>10, PastCommitSame
  <1>15. StrictLocks'
    <2>1. \A u \in Txns : \A id, m : HoldsMode(u, id, m)' <=> HoldsMode(u, id, m)
      BY <1>1 DEF HoldsMode, lockVars
    <2>2. \A rd \in reads'[t] : HoldsMode(t, rd.tab, {"S", "X"})
      BY <1>2, <1>4, <1>6 DEF DataInv, StrictLocks
    <2>3. \A u \in Txns : \A rd \in reads'[u] : HoldsMode(u, rd.tab, {"S", "X"})'
      BY <1>6, <2>1, <2>2 DEF DataInv, StrictLocks
    <2>4. ASSUME NEW u \in Txns, ~PastCommit(u)', NEW i \in DOMAIN write_set'[u]
          PROVE  HoldsMode(u, write_set[u][i].tab, {"X"})'
      <3>1. HoldsMode(u, write_set[u][i].tab, {"X"})
        BY <1>1, <1>14, <2>4 DEF DataInv, StrictLocks
      <3>2. QED
        BY <1>1, <3>1 DEF HoldsMode, lockVars
    <2>5. QED
      BY <1>9, <2>3, <2>4 DEF StrictLocks
  <1>16. SerializableReads'
    <2>1. ~Written(t, tab, slot) => content[tab][slot] = committed[tab][slot]
      BY <1>2, <1>4, CleanRow
    <2>2. \A rd \in reads'[t] : committed[rd.tab][rd.slot] = rd.val
      BY <1>6, <2>1 DEF DataInv, SerializableReads
    <2>3. QED
      BY <1>1, <1>6, <2>2 DEF DataInv, SerializableReads
  <1>17. RollbackExact'
    BY <1>1, <1>14 DEF DataInv, RollbackExact, FirstWrite, Written
  <1>18. QED
    BY <1>3, <1>13, <1>15, <1>16, <1>17 DEF DataInv

\* A write record is appended and the row is overwritten.
LEMMA WriteSlotData ==
    ASSUME TxnInv, TypeOK', NEW s \in Sessions, SessionsKept(s), pc[s] = "write",
           pc'[s] # "release", NEW slot \in Slots, NEW val \in Values, WriteSlot(s, slot, val),
           UNCHANGED <<lockVars, committed, reads>>
    PROVE  /\ DataInv'
           /\ \A u \in Txns : u # txn[s] => write_set'[u] = write_set[u]
  <1> USE DEF TxnInv
  <1>1. /\ txn[s] # None /\ stmt[s].op \in {"update", "insert"}
        /\ HoldsMode(txn[s], stmt[s].tab, {"X"})
    BY DEF ControlInv, Phases, Phase
  <1>2. PICK t \in Txns, tab \in Tables : t = txn[s] /\ tab = stmt[s].tab
    BY <1>1, StatementTable DEF ControlInv, TypeOK, TableOp, Tables
  <1> DEFINE rec == [tab |-> tab, slot |-> slot, old |-> content[tab][slot]]
             n == Len(write_set[t])
  <1>3. /\ write_set' = [write_set EXCEPT ![t] = Append(@, rec)]
        /\ content' = [content EXCEPT ![tab][slot] = val]
    BY <1>2 DEF WriteSlot
  <1>4. /\ n \in Nat /\ write_set[t] \in Seq(WriteRecord) /\ rec \in WriteRecord
        /\ DOMAIN write_set[t] = 1..n
    <2>1. write_set[t] \in Seq(WriteRecord) /\ content[tab][slot] \in Values
      BY DEF ControlInv, TypeOK
    <2>2. QED
      BY <2>1 DEF WriteRecord
  <1>5. /\ \A u \in Txns : u # t => write_set'[u] = write_set[u]
        /\ write_set'[t] = Append(write_set[t], rec)
    BY <1>3 DEF ControlInv, TypeOK
  <1>6. /\ DOMAIN write_set'[t] = 1..(n + 1)
        /\ \A i \in 1..n : write_set'[t][i] = write_set[t][i]
        /\ write_set'[t][n + 1] = rec
    BY <1>4, <1>5
  <1>7. ~PastCommit(t) /\ \A u : PastCommit(u)' <=> PastCommit(u)
    BY <1>1, <1>2, NotPastCommit, PastCommitSame
  <1>8. \A tb \in Tables, sl \in Slots : tb # tab \/ sl # slot =>
            content'[tb][sl] = content[tb][sl]
    BY <1>3 DEF ControlInv, TypeOK
  <1>9. StrictLocks'
    <2>1. \A u \in Txns : \A id, m : HoldsMode(u, id, m)' <=> HoldsMode(u, id, m)
      BY DEF HoldsMode, lockVars
    <2>2. \A u \in Txns : \A rd \in reads'[u] : HoldsMode(u, rd.tab, {"S", "X"})'
      BY <2>1 DEF DataInv, StrictLocks
    <2>3. ASSUME NEW u \in Txns, ~PastCommit(u)', NEW i \in DOMAIN write_set'[u]
          PROVE  HoldsMode(u, write_set[u][i].tab, {"X"})'
      <3>1. PICK tb : tb = write_set'[u][i].tab
        OBVIOUS
      <3>2. CASE i \in DOMAIN write_set[u]
        <4>1. write_set'[u][i] = write_set[u][i]
          BY <1>4, <1>5, <1>6, <3>2
        <4>2. HoldsMode(u, tb, {"X"})
          BY <1>7, <2>3, <3>1, <3>2, <4>1 DEF DataInv, StrictLocks
        <4>3. QED
          BY <3>1, <4>2 DEF HoldsMode, lockVars
      <3>3. CASE i \notin DOMAIN write_set[u]
        <4>1. u = t /\ i = n + 1
          BY <1>4, <1>5, <1>6, <2>3, <3>3
        <4>2. tb = tab
          BY <1>6, <3>1, <4>1
        <4>3. HoldsMode(u, tb, {"X"})
          BY <1>1, <1>2, <4>1, <4>2
        <4>4. QED
          BY <3>1, <4>3 DEF HoldsMode, lockVars
      <3>4. QED
        BY <3>2, <3>3
    <2>4. QED
      BY <2>2, <2>3 DEF StrictLocks
  <1>10. SerializableReads'
    BY DEF DataInv, SerializableReads
  <1>11. ASSUME NEW u \in Txns, ~PastCommit(u)', NEW i \in DOMAIN write_set'[u],
                FirstWrite(u, i)'
         PROVE  write_set'[u][i].old = committed'[write_set'[u][i].tab][write_set'[u][i].slot]
    <2>1. CASE i \in DOMAIN write_set[u]
      <3>1. \A j \in 1..i : write_set'[u][j] = write_set[u][j]
        <4>1. CASE u = t
          <5>1. i \in 1..n /\ n \in Nat
            BY <1>4, <2>1, <4>1
          <5>2. \A j \in 1..i : j \in 1..n
            BY <5>1
          <5>3. QED
            BY <1>6, <4>1, <5>2
        <4>2. CASE u # t
          BY <1>5, <4>2
        <4>3. QED
          BY <4>1, <4>2
      <3>2. i \in Nat
        BY <2>1, WriteRecordType DEF ControlInv
      <3>3. FirstWrite(u, i)
        BY <1>11, <3>1, <3>2 DEF FirstWrite
      <3>4. write_set[u][i].old = committed[write_set[u][i].tab][write_set[u][i].slot]
        BY <1>7, <1>11, <2>1, <3>3 DEF DataInv, RollbackExact
      <3>5. i \in 1..i
        BY <1>4, <2>1, <3>2, WriteRecordType DEF ControlInv
      <3>6. QED
        BY <3>1, <3>4, <3>5
    <2>2. CASE i \notin DOMAIN write_set[u]
      <3>1. u = t /\ i = n + 1
        BY <1>4, <1>5, <1>6, <1>11, <2>2
      <3>2. ~Written(t, tab, slot)
        BY <1>4, <1>6, <1>11, <3>1 DEF FirstWrite, Written
      <3>3. HoldsMode(t, tab, {"S", "X"})
        BY <1>1, <1>2 DEF HoldsMode
      <3>4. content[tab][slot] = committed[tab][slot]
        BY <3>2, <3>3, CleanRow
      <3>5. QED
        BY <1>6, <3>1, <3>4
    <2>3. QED
      BY <2>1, <2>2
  <1>12. ASSUME NEW tb \in Tables, NEW sl \in Slots,
                \A u \in Txns : Written(u, tb, sl)' => PastCommit(u)'
         PROVE  content'[tb][sl] = committed'[tb][sl]
    <2>1. tb # tab \/ sl # slot
      <3>1. Written(t, tab, slot)'
        BY <1>4, <1>6 DEF Written
      <3>2. QED
        BY <1>7, <1>12, <3>1
    <2>2. ASSUME NEW u \in Txns, Written(u, tb, sl) PROVE Written(u, tb, sl)'
      <3>1. PICK i \in DOMAIN write_set[u] : write_set[u][i].tab = tb /\ write_set[u][i].slot = sl
        BY <2>2 DEF Written
      <3>2. i \in DOMAIN write_set'[u] /\ write_set'[u][i] = write_set[u][i]
        <4>1. CASE u = t
          <5>1. i \in 1..n
            BY <1>4, <3>1, <4>1
          <5>2. i \in 1..(n + 1)
            BY <1>4, <5>1
          <5>3. QED
            BY <1>6, <4>1, <5>1, <5>2
        <4>2. CASE u # t
          BY <1>5, <3>1, <4>2
        <4>3. QED
          BY <4>1, <4>2
      <3>3. QED
        BY <3>1, <3>2 DEF Written
    <2>3. \A u \in Txns : Written(u, tb, sl) => PastCommit(u)
      BY <1>7, <1>12, <2>2
    <2>4. content[tb][sl] = committed[tb][sl]
      BY <2>3 DEF DataInv, RollbackExact
    <2>5. QED
      BY <1>8, <2>1, <2>4
  <1>13. RollbackExact'
    BY <1>11, <1>12 DEF RollbackExact
  <1>14. QED
    BY <1>2, <1>5, <1>9, <1>10, <1>13 DEF DataInv

\* A step of the write loops keeps what the thread and its transaction need.
LEMMA WriteControl ==
    ASSUME TxnInv, TypeOK', NEW s \in Sessions, SessionsKept(s), pc[s] = "write",
           pc'[s] \in {"write", "reply"}, stmt' = stmt, txn' = txn,
           \A u \in Txns : u # txn[s] => write_set'[u] = write_set[u],
           UNCHANGED <<lockVars, reads>>
    PROVE  ControlInv' /\ [LockNext]_lockVars
  <1> USE DEF TxnInv
  <1>1. /\ txn[s] # None /\ Usable(txn[s]) /\ stmt[s].op \in {"update", "insert"}
        /\ HoldsMode(txn[s], stmt[s].tab, {"X"})
    BY DEF ControlInv, Phases, Phase
  <1>2. /\ LockInv' /\ TableModes' /\ LocksKept /\ [LockNext]_lockVars
        /\ state' = state /\ lock_set' = lock_set
    BY LocksUntouched
  <1>3. TxnsKept(txn[s])
    BY <1>2, KeepTxns
  <1>4. Usable(txn[s])' /\ state'[txn[s]] # "NONE"
    BY <1>1, <1>2 DEF Usable
  <1>5. Phase(s)'
    <2>1. HoldsMode(txn[s], stmt[s].tab, {"X"})'
      BY <1>1 DEF HoldsMode, lockVars
    <2>2. QED
      BY <1>1, <1>4, <2>1 DEF Phase
  <1>6. QED
    BY <1>1, <1>2, <1>3, <1>4, <1>5, OwnStep

LEMMA WriteStep ==
    ASSUME TxnInv, NEW s \in Sessions, WriteRow(s) \/ InsertRow(s)
    PROVE  TxnInv' /\ [LockNext]_lockVars
  <1> USE DEF TxnInv
  <1>1. PICK label \in {"write", "reply"} :
            pc[s] = "write" /\ pc' = [pc EXCEPT ![s] = label]
    BY DEF WriteRow, InsertRow, NextRow, Goto
  <1>2. /\ UNCHANGED <<lockVars, txn, txn_mode, stmt, ret, final, locks, committed, reads>>
        /\ stmt[s].op \in {"update", "insert"}
    BY DEF WriteRow, InsertRow
  <1>3. /\ pc'[s] = label /\ pc' \in [Sessions -> PC]
        /\ \A r \in Sessions : r # s => pc'[r] = pc[r]
    BY <1>1 DEF ControlInv, TypeOK, PC
  <1>4. row' \in [Sessions -> Slots]
    <2>1. row' = row \/ row' = [row EXCEPT ![s] = IF row[s] < Rows THEN @ + 1 ELSE 1]
      BY DEF WriteRow, InsertRow, NextRow
    <2>2. row \in [Sessions -> 1..Rows] /\ Rows \in Nat \ {0}
      BY TxnAssumption DEF ControlInv, TypeOK, Slots
    <2>3. QED
      BY <2>1, <2>2 DEF Slots
  <1>5. \/ UNCHANGED <<write_set, content>>
        \/ \E slot \in Slots, val \in Values : WriteSlot(s, slot, val)
    BY DEF WriteRow, InsertRow, ControlInv, TypeOK
  <1>6. SessionsKept(s)
    BY <1>2, <1>3 DEF SessionsKept
  <1>7. LockTypeOK'
    BY <1>2, LocksUntouched DEF LockInv
  <1>8. CASE UNCHANGED <<write_set, content>>
    <2>1. TypeOK'
      BY <1>2, <1>3, <1>4, <1>7, <1>8 DEF ControlInv, TypeOK
    <2>2. DataInv'
      BY <1>1, <1>2, <1>3, <1>6, <1>8, <2>1, LocksUntouched, QuietStep
    <2>3. QED
      BY <1>1, <1>2, <1>3, <1>6, <1>8, <2>1, <2>2, WriteControl
  <1>9. CASE \E slot \in Slots, val \in Values : WriteSlot(s, slot, val)
    <2>1. PICK slot \in Slots, val \in Values : WriteSlot(s, slot, val)
      BY <1>9
    <2>2. PICK t \in Txns, tab \in Tables : t = txn[s] /\ tab = stmt[s].tab
      <3>1. txn[s] # None
        BY <1>1 DEF ControlInv, Phases, Phase
      <3>2. QED
        BY <1>2, <3>1, StatementTable DEF ControlInv, TypeOK, TableOp, Tables
    <2>3. /\ content[tab][slot] \in Values /\ write_set[t] \in Seq(WriteRecord)
          /\ content \in [Tables -> [Slots -> Values]]
          /\ write_set \in [Txns -> Seq(WriteRecord)]
      BY DEF ControlInv, TypeOK
    <2>4. Append(write_set[t], [tab |-> tab, slot |-> slot, old |-> content[tab][slot]])
            \in Seq(WriteRecord)
      BY <2>3 DEF WriteRecord
    <2>5. write_set' \in [Txns -> Seq(WriteRecord)] /\ content' \in [Tables -> [Slots -> Values]]
      BY <2>1, <2>2, <2>3, <2>4 DEF WriteSlot
    <2>6. TypeOK'
      BY <1>2, <1>3, <1>4, <1>7, <2>5 DEF ControlInv, TypeOK
    <2>7. DataInv' /\ \A u \in Txns : u # txn[s] => write_set'[u] = write_set[u]
      BY <1>1, <1>2, <1>3, <1>6, <2>1, <2>6, WriteSlotData
    <2>8. QED
      BY <1>1, <1>2, <1>3, <1>6, <2>6, <2>7, WriteControl
  <1>10. QED
    BY <1>5, <1>8, <1>9

-----------------------------------------------------------------------------
(* commit and abort *)

\* What is the same for every step after which the thread releases its locks.
LEMMA ToRelease ==
    ASSUME TxnInv, NEW s \in Sessions, pc[s] \in {"commit", "undo"},
           pc' = [pc EXCEPT ![s] = "release"], locks' = [locks EXCEPT ![s] = lock_set[txn[s]]],
           reads' = [reads EXCEPT ![txn[s]] = {}],
           committed' \in [Tables -> [Slots -> Values]],
           final[s] = "ABORTED" => write_set[txn[s]] = <<>>,
           UNCHANGED <<lockVars, txn, txn_mode, stmt, row, ret, final, write_set, content>>
    PROVE  /\ ControlInv' /\ [LockNext]_lockVars /\ SessionsKept(s) /\ LocksKept
           /\ pc'[s] = "release" /\ txn[s] \in Txns /\ txn[s] # None
           /\ reads'[txn[s]] = {}
           /\ \A u \in Txns : u # txn[s] => reads'[u] = reads[u]
  <1> USE DEF TxnInv
  <1>1. txn[s] # None /\ txn[s] \in Txns
    BY DEF ControlInv, Phases, Phase, TypeOK
  <1>2. /\ LockInv' /\ TableModes' /\ LocksKept /\ [LockNext]_lockVars
        /\ state' = state /\ lock_set' = lock_set
    BY LocksUntouched
  <1>3. /\ pc'[s] = "release" /\ locks'[s] = lock_set[txn[s]] /\ reads'[txn[s]] = {}
        /\ \A r \in Sessions : r # s => pc'[r] = pc[r] /\ locks'[r] = locks[r]
        /\ \A u \in Txns : u # txn[s] => reads'[u] = reads[u]
    BY <1>1 DEF ControlInv, TypeOK
  <1>4. /\ pc' \in [Sessions -> PC] /\ locks' \in [Sessions -> SUBSET Ids]
        /\ reads' \in [Txns -> SUBSET Read]
    BY <1>1 DEF ControlInv, TypeOK, LockTypeOK, PC
  <1>5. TypeOK'
    BY <1>2, <1>4 DEF ControlInv, TypeOK, LockInv
  <1>6. SessionsKept(s)
    BY <1>3 DEF SessionsKept
  <1>7. TxnsKept(txn[s])
    BY <1>2, <1>3, KeepTxns
  <1>8. Phase(s)'
    BY <1>1, <1>2, <1>3 DEF Phase
  <1>9. state'[txn[s]] # "NONE" /\ (Usable(txn[s])' \/ lock_set'[txn[s]] = {})
    BY <1>1, <1>2 DEF ControlInv, OwnTxn, FinishedFree, Usable
  <1>10. QED
    BY <1>1, <1>2, <1>3, <1>5, <1>6, <1>7, <1>8, <1>9, OwnStep

LEMMA UndoEndStep ==
    ASSUME TxnInv, NEW s \in Sessions, UndoEnd(s)
    PROVE  TxnInv' /\ [LockNext]_lockVars
  <1> USE DEF TxnInv
  <1>1. /\ pc[s] = "undo" /\ write_set[txn[s]] = <<>>
        /\ pc' = [pc EXCEPT ![s] = "release"] /\ locks' = [locks EXCEPT ![s] = lock_set[txn[s]]]
        /\ UNCHANGED <<lockVars, txn, txn_mode, stmt, row, ret, final,
                       write_set, content, committed, reads>>
    BY DEF UndoEnd, Goto, dataVars
  <1>2. /\ final[s] = "ABORTED" /\ reads[txn[s]] = {} /\ txn[s] \in Txns
        /\ committed \in [Tables -> [Slots -> Values]] /\ reads \in [Txns -> SUBSET Read]
    <2>1. final[s] = "ABORTED" /\ reads[txn[s]] = {} /\ txn[s] # None
      BY <1>1 DEF ControlInv, Phases, Phase
    <2>2. QED
      BY <2>1 DEF ControlInv, TypeOK
  <1>3. reads' = [reads EXCEPT ![txn[s]] = {}]
    BY <1>1, <1>2
  <1>4. ControlInv' /\ [LockNext]_lockVars /\ SessionsKept(s) /\ LocksKept
    BY <1>1, <1>2, <1>3, ToRelease
  <1>5. \A t : PastCommit(t)' <=> PastCommit(t)
    BY <1>1, <1>2, <1>4 DEF PastCommit, SessionsKept
  <1>6. DataInv'
    BY <1>1, <1>4, <1>5, QuietData DEF ControlInv
  <1>7. QED
    BY <1>4, <1>6

LEMMA CommitPointStep ==
    ASSUME TxnInv, NEW s \in Sessions, CommitPoint(s)
    PROVE  TxnInv' /\ [LockNext]_lockVars
  <1> USE DEF TxnInv
  <1>1. /\ pc[s] = "commit" /\ final[s] = "COMMITTED" /\ txn[s] # None
    BY DEF CommitPoint, ControlInv, Phases, Phase
  <1>2. PICK t \in Txns : t = txn[s]
    BY <1>1 DEF ControlInv, TypeOK
  <1>3. /\ pc' = [pc EXCEPT ![s] = "release"] /\ locks' = [locks EXCEPT ![s] = lock_set[t]]
        /\ reads' = [reads EXCEPT ![t] = {}]
        /\ committed' = [tab \in Tables |-> [slot \in Slots |->
                            IF Written(t, tab, slot) THEN content[tab][slot]
                            ELSE committed[tab][slot]]]
        /\ UNCHANGED <<lockVars, txn, txn_mode, stmt, row, ret, final, write_set, content>>
    BY <1>2 DEF CommitPoint, Goto
  <1>4. committed' \in [Tables -> [Slots -> Values]]
    BY <1>3 DEF ControlInv, TypeOK
  <1>5. /\ ControlInv' /\ [LockNext]_lockVars /\ SessionsKept(s)
        /\ pc'[s] = "release" /\ reads'[t] = {}
        /\ \A u \in Txns : u # t => reads'[u] = reads[u]
    BY <1>1, <1>2, <1>3, <1>4, ToRelease
  <1>6. /\ ~PastCommit(t) /\ PastCommit(t)'
        /\ \A u \in Txns : u # t => (PastCommit(u)' <=> PastCommit(u))
    <2>1. ~PastCommit(t)
      BY <1>1, <1>2, NotPastCommit
    <2>2. PastCommit(t)'
      BY <1>1, <1>2, <1>3, <1>5 DEF PastCommit
    <2>3. \A u \in Txns : u # t => (PastCommit(u)' <=> PastCommit(u))
      BY <1>2, <1>3, <1>5 DEF PastCommit, SessionsKept
    <2>4. QED
      BY <2>1, <2>2, <2>3
  <1>7. \A tab \in Tables, slot \in Slots :
            /\ Written(t, tab, slot) => committed'[tab][slot] = content[tab][slot]
            /\ ~Written(t, tab, slot) => committed'[tab][slot] = committed[tab][slot]
    BY <1>3
  <1>8. ASSUME NEW u \in Txns, u # t, NEW tab \in Tables, NEW slot \in Slots,
               HoldsMode(u, tab, {"S", "X"})
        PROVE  committed'[tab][slot] = committed[tab][slot]
    <2>1. Written(t, tab, slot) => HoldsMode(t, tab, {"X"})
      BY <1>6, WriterHolds
    <2>2. tab \in Ids /\ LockInv
      BY DEF Tables, Ids, ControlInv
    <2>3. ~Written(t, tab, slot)
      BY <1>8, <2>1, <2>2, Exclusive
    <2>4. QED
      BY <1>7, <2>3
  <1>9. \A u \in Txns : \A id, m : HoldsMode(u, id, m)' <=> HoldsMode(u, id, m)
    BY <1>3 DEF HoldsMode, lockVars
  <1>10. StrictLocks'
    <2>1. ASSUME NEW u \in Txns, ~PastCommit(u)', NEW i \in DOMAIN write_set'[u]
          PROVE  HoldsMode(u, write_set[u][i].tab, {"X"})'
      <3>1. HoldsMode(u, write_set[u][i].tab, {"X"})
        BY <1>3, <1>6, <2>1 DEF DataInv, StrictLocks
      <3>2. QED
        BY <1>3, <3>1 DEF HoldsMode, lockVars
    <2>2. \A u \in Txns : \A rd \in reads'[u] : HoldsMode(u, rd.tab, {"S", "X"})'
      BY <1>5, <1>9 DEF DataInv, StrictLocks
    <2>3. QED
      BY <1>5, <2>1, <2>2 DEF StrictLocks, ControlInv
  <1>11. SerializableReads'
    <2>1. ASSUME NEW u \in Txns, NEW rd \in reads'[u]
          PROVE  committed'[rd.tab][rd.slot] = rd.val
      <3>1. u # t /\ rd \in reads[u]
        BY <1>5
      <3>2. rd.tab \in Tables /\ rd.slot \in Slots
        BY <3>1 DEF ControlInv, TypeOK, Read
      <3>3. HoldsMode(u, rd.tab, {"S", "X"}) /\ committed[rd.tab][rd.slot] = rd.val
        BY <3>1 DEF DataInv, StrictLocks, SerializableReads
      <3>4. QED
        BY <1>8, <3>1, <3>2, <3>3
    <2>2. QED
      BY <2>1 DEF SerializableReads
  <1>12. ASSUME NEW u \in Txns, ~PastCommit(u)', NEW i \in DOMAIN write_set'[u],
                FirstWrite(u, i)'
         PROVE  write_set'[u][i].old = committed'[write_set'[u][i].tab][write_set'[u][i].slot]
    <2>1. u # t /\ ~PastCommit(u) /\ i \in DOMAIN write_set[u]
      BY <1>3, <1>6, <1>12
    <2>2. FirstWrite(u, i)
      BY <1>3, <1>12 DEF FirstWrite
    <2>3. write_set[u][i].old = committed[write_set[u][i].tab][write_set[u][i].slot]
      BY <2>1, <2>2 DEF DataInv, RollbackExact
    <2>4. HoldsMode(u, write_set[u][i].tab, {"S", "X"})
      <3>1. HoldsMode(u, write_set[u][i].tab, {"X"})
        BY <2>1 DEF DataInv, StrictLocks
      <3>2. QED
        BY <3>1 DEF HoldsMode
    <2>5. write_set[u][i].tab \in Tables /\ write_set[u][i].slot \in Slots
      BY <2>1, WriteRecordType DEF ControlInv
    <2>6. QED
      BY <1>3, <1>8, <2>1, <2>3, <2>4, <2>5
  <1>13. ASSUME NEW tb \in Tables, NEW sl \in Slots,
                \A u \in Txns : Written(u, tb, sl)' => PastCommit(u)'
         PROVE  content'[tb][sl] = committed'[tb][sl]
    <2>1. \A u \in Txns : Written(u, tb, sl)' <=> Written(u, tb, sl)
      BY <1>3 DEF Written
    <2>2. CASE Written(t, tb, sl)
      BY <1>3, <1>7, <2>2
    <2>3. CASE ~Written(t, tb, sl)
      <3>1. \A u \in Txns : Written(u, tb, sl) => PastCommit(u)
        BY <1>6, <1>13, <2>1, <2>3
      <3>2. content[tb][sl] = committed[tb][sl]
        BY <3>1 DEF DataInv, RollbackExact
      <3>3. QED
        BY <1>3, <1>7, <2>3, <3>2
    <2>4. QED
      BY <2>2, <2>3
  <1>14. RollbackExact'
    BY <1>12, <1>13 DEF RollbackExact
  <1>15. QED
    BY <1>5, <1>10, <1>11, <1>14 DEF DataInv

LEMMA UndoOneStep ==
    ASSUME TxnInv, NEW s \in Sessions, UndoOne(s)
    PROVE  TxnInv' /\ [LockNext]_lockVars
  <1> USE DEF TxnInv
  <1>1. /\ pc[s] = "undo" /\ write_set[txn[s]] # <<>>
        /\ UNCHANGED <<lockVars, pc, txn, txn_mode, stmt, row, ret, final, locks,
                       committed, reads>>
    BY DEF UndoOne, sessionVars
  <1>2. txn[s] # None /\ Usable(txn[s]) /\ final[s] = "ABORTED" /\ reads[txn[s]] = {}
    BY <1>1 DEF ControlInv, Phases, Phase
  <1>3. PICK t \in Txns : t = txn[s]
    BY <1>2 DEF ControlInv, TypeOK
  <1> DEFINE n == Len(write_set[t])
             rec == write_set[t][n]
  <1>4. /\ write_set[t] \in Seq(WriteRecord) /\ write_set \in [Txns -> Seq(WriteRecord)]
        /\ content \in [Tables -> [Slots -> Values]]
    BY DEF ControlInv, TypeOK
  <1>5. n \in Nat \ {0} /\ DOMAIN write_set[t] = 1..n /\ n \in DOMAIN write_set[t]
    BY <1>1, <1>3, <1>4
  <1>6. /\ rec \in WriteRecord /\ rec.tab \in Tables /\ rec.slot \in Slots /\ rec.old \in Values
    <2>1. rec \in WriteRecord
      BY <1>4, <1>5
    <2>2. QED
      BY <2>1 DEF WriteRecord
  <1>7. /\ content' = [content EXCEPT ![rec.tab][rec.slot] = rec.old]
        /\ write_set' = [write_set EXCEPT ![t] = SubSeq(write_set[t], 1, n - 1)]
    BY <1>3 DEF UndoOne, Undo
  <1>8. /\ write_set'[t] = SubSeq(write_set[t], 1, n - 1)
        /\ \A u \in Txns : u # t => write_set'[u] = write_set[u]
    BY <1>4, <1>7
  <1>9. /\ write_set'[t] \in Seq(WriteRecord) /\ DOMAIN write_set'[t] = 1..(n - 1)
        /\ \A i \in 1..(n - 1) : write_set'[t][i] = write_set[t][i]
    BY <1>4, <1>5, <1>8
  <1>10. TypeOK'
    <2>1. write_set' \in [Txns -> Seq(WriteRecord)] /\ content' \in [Tables -> [Slots -> Values]]
      BY <1>4, <1>6, <1>7, <1>8, <1>9
    <2>2. LockTypeOK'
      BY <1>1, LocksUntouched DEF LockInv
    <2>3. QED
      BY <1>1, <2>1, <2>2 DEF ControlInv, TypeOK
  <1>11. /\ ~PastCommit(t)
         /\ \A u : PastCommit(u)' <=> PastCommit(u)
    <2>1. ~PastCommit(t)
      BY <1>1, <1>2, <1>3, NotPastCommit
    <2>2. QED
      BY <1>1, <2>1 DEF PastCommit
  <1>12. ControlInv' /\ [LockNext]_lockVars
    <2>1. /\ LockInv' /\ TableModes' /\ LocksKept /\ [LockNext]_lockVars
          /\ state' = state /\ lock_set' = lock_set
      BY <1>1, LocksUntouched
    <2>2. SessionsKept(s)
      BY <1>1 DEF SessionsKept
    <2>3. TxnsKept(txn[s])
      BY <1>1, <1>3, <1>8, <2>1, KeepTxns
    <2>4. Usable(txn[s])' /\ state'[txn[s]] # "NONE"
      BY <1>1, <1>2, <2>1 DEF Usable
    <2>5. Phase(s)'
      BY <1>1, <1>2, <2>4 DEF Phase
    <2>6. QED
      BY <1>1, <1>2, <1>10, <2>1, <2>2, <2>3, <2>4, <2>5, OwnStep
  <1>13. \A u \in Txns : \A i \in DOMAIN write_set'[u] :
             /\ i \in DOMAIN write_set[u] /\ i \in Nat
             /\ \A j \in 1..i : write_set'[u][j] = write_set[u][j]
    <2>1. ASSUME NEW u \in Txns, NEW i \in DOMAIN write_set'[u]
          PROVE  /\ i \in DOMAIN write_set[u] /\ i \in Nat
                 /\ \A j \in 1..i : write_set'[u][j] = write_set[u][j]
      <3>1. CASE u = t
        BY <1>5, <1>9, <2>1, <3>1
      <3>2. CASE u # t
        <4>1. write_set'[u] = write_set[u]
          BY <1>8, <3>2
        <4>2. QED
          BY <2>1, <4>1, WriteRecordType DEF ControlInv
      <3>3. QED
        BY <3>1, <3>2
    <2>2. QED
      BY <2>1
  <1>14. StrictLocks'
    <2>1. ASSUME NEW u \in Txns, ~PastCommit(u)', NEW i \in DOMAIN write_set'[u]
          PROVE  HoldsMode(u, write_set[u][i].tab, {"X"})'
      <3>1. i \in DOMAIN write_set[u] /\ i \in 1..i /\ write_set'[u][i] = write_set[u][i]
        BY <1>13, <2>1, WriteRecordType DEF ControlInv
      <3>2. HoldsMode(u, write_set[u][i].tab, {"X"})
        BY <1>11, <2>1, <3>1 DEF DataInv, StrictLocks
      <3>3. QED
        BY <1>1, <3>1, <3>2 DEF HoldsMode, lockVars
    <2>2. \A u \in Txns : \A rd \in reads'[u] : HoldsMode(u, rd.tab, {"S", "X"})'
      BY <1>1 DEF DataInv, StrictLocks, HoldsMode, lockVars
    <2>3. QED
      BY <1>10, <2>1, <2>2 DEF StrictLocks
  <1>15. SerializableReads'
    BY <1>1 DEF DataInv, SerializableReads
  <1>16. ASSUME NEW u \in Txns, ~PastCommit(u)', NEW i \in DOMAIN write_set'[u],
                FirstWrite(u, i)'
         PROVE  write_set'[u][i].old = committed'[write_set'[u][i].tab][write_set'[u][i].slot]
    <2>1. /\ i \in DOMAIN write_set[u] /\ i \in 1..i
          /\ \A j \in 1..i : write_set'[u][j] = write_set[u][j]
      BY <1>13, <1>16, WriteRecordType DEF ControlInv
    <2>2. FirstWrite(u, i)
      BY <1>16, <2>1 DEF FirstWrite
    <2>3. write_set[u][i].old = committed[write_set[u][i].tab][write_set[u][i].slot]
      BY <1>11, <1>16, <2>1, <2>2 DEF DataInv, RollbackExact
    <2>4. QED
      BY <1>1, <2>1, <2>3
  <1>17. ASSUME NEW tb \in Tables, NEW sl \in Slots,
                \A u \in Txns : Written(u, tb, sl)' => PastCommit(u)'
         PROVE  content'[tb][sl] = committed'[tb][sl]
    <2>1. ~Written(t, tb, sl)'
      BY <1>11, <1>17
    <2>2. \A i \in 1..(n - 1) : write_set[t][i].tab # tb \/ write_set[t][i].slot # sl
      BY <1>9, <2>1 DEF Written
    <2>3. CASE tb = rec.tab /\ sl = rec.slot
      <3>1. FirstWrite(t, n)
        BY <2>2, <2>3 DEF FirstWrite
      <3>2. rec.old = committed[rec.tab][rec.slot]
        BY <1>5, <1>11, <3>1 DEF DataInv, RollbackExact
      <3>3. QED
        BY <1>1, <1>4, <1>6, <1>7, <2>3, <3>2
    <2>4. CASE ~(tb = rec.tab /\ sl = rec.slot)
      <3>1. ~Written(t, tb, sl)
        <4>1. \A i \in 1..n : i = n \/ i \in 1..(n - 1)
          BY <1>5
        <4>2. QED
          BY <1>5, <2>2, <2>4, <4>1 DEF Written
      <3>2. \A u \in Txns : u # t => (Written(u, tb, sl)' <=> Written(u, tb, sl))
        BY <1>8 DEF Written
      <3>3. \A u \in Txns : Written(u, tb, sl) => PastCommit(u)
        BY <1>11, <1>17, <3>1, <3>2
      <3>4. content[tb][sl] = committed[tb][sl]
        BY <3>3 DEF DataInv, RollbackExact
      <3>5. content'[tb][sl] = content[tb][sl]
        BY <1>4, <1>6, <1>7, <2>4
      <3>6. QED
        BY <1>1, <3>4, <3>5
    <2>5. QED
      BY <2>3, <2>4
  <1>18. RollbackExact'
    BY <1>16, <1>17 DEF RollbackExact
  <1>19. QED
    BY <1>12, <1>14, <1>15, <1>18 DEF DataInv

LEMMA ReleaseOneStep ==
    ASSUME TxnInv, NEW s \in Sessions, ReleaseOne(s)
    PROVE  TxnInv' /\ [LockNext]_lockVars
  <1> USE DEF TxnInv
  <1>1. /\ pc[s] = "release"
        /\ UNCHANGED <<pc, txn, txn_mode, stmt, row, ret, final,
                       write_set, content, committed, reads>>
    BY DEF ReleaseOne, dataVars
  <1>2. /\ txn[s] # None /\ reads[txn[s]] = {} /\ locks[s] = lock_set[txn[s]]
        /\ final[s] = "ABORTED" => write_set[txn[s]] = <<>>
    BY <1>1 DEF ControlInv, Phases, Phase
  <1>3. PICK t \in Txns : t = txn[s]
    BY <1>2 DEF ControlInv, TypeOK
  <1>4. PICK id \in locks[s] : unlock(t, id) /\ locks' = [locks EXCEPT ![s] = @ \ {id}]
    BY <1>3 DEF ReleaseOne
  <1>5. id \in Ids /\ Holds(t, id) /\ Usable(t)
    <2>1. id \in lock_set[t] /\ id \in Ids
      BY <1>2, <1>3, <1>4 DEF ControlInv, TypeOK
    <2>2. QED
      BY <2>1 DEF ControlInv, LockInv, LockSetMatchesQueues, FinishedFree
  <1>6. [LockNext]_lockVars
    BY <1>4, <1>5 DEF LockNext
  <1>7. LockInv'
    BY <1>6, LockNextInv DEF ControlInv
  <1>8. /\ state' = [state EXCEPT ![t] = ToShrinking(@)]
        /\ request_queue' = [request_queue EXCEPT ![id] = {r \in request_queue[id] : r.txn # t}]
        /\ lock_set' = [lock_set EXCEPT ![t] = @ \ {id}]
    BY <1>4, <1>5 DEF unlock, SetQueue
  <1>9. /\ state'[t] = "SHRINKING" /\ lock_set'[t] = lock_set[t] \ {id}
        /\ \A u \in Txns : u # t => state'[u] = state[u] /\ lock_set'[u] = lock_set[u]
        /\ request_queue'[id] = {r \in request_queue[id] : r.txn # t}
        /\ \A i \in Ids : i # id => request_queue'[i] = request_queue[i]
    BY <1>5, <1>8 DEF ToShrinking, Usable, ControlInv, LockInv, LockTypeOK
  <1>10. /\ locks'[s] = lock_set'[t] /\ locks' \in [Sessions -> SUBSET Ids]
         /\ \A r \in Sessions : r # s => locks'[r] = locks[r]
    BY <1>2, <1>3, <1>4, <1>9 DEF ControlInv, TypeOK
  <1>11. TypeOK'
    BY <1>1, <1>7, <1>10 DEF ControlInv, TypeOK, LockInv
  <1>12. TableModes'
    BY <1>9 DEF ControlInv, TableModes
  <1>13. \A u \in Txns : u # t => \A i \in Ids : \A m :
             HoldsMode(u, i, m) => HoldsMode(u, i, m)'
    BY <1>9 DEF HoldsMode
  <1>14. TxnsKept(txn[s])
    BY <1>1, <1>3, <1>9, <1>13 DEF TxnsKept
  <1>15. SessionsKept(s)
    BY <1>1, <1>10 DEF SessionsKept
  <1>16. Phase(s)'
    BY <1>1, <1>2, <1>3, <1>10 DEF Phase
  <1>17. ControlInv'
    <2>1. state'[txn[s]] # "NONE" /\ Usable(txn[s])'
      BY <1>1, <1>3, <1>9 DEF Usable
    <2>2. QED
      BY <1>1, <1>2, <1>7, <1>11, <1>12, <1>14, <1>15, <1>16, <2>1, OwnStep
  <1>18. \A u : PastCommit(u)' <=> PastCommit(u)
    BY <1>1 DEF PastCommit
  <1>19. StrictLocks'
    <2>1. PastCommit(t) \/ write_set[t] = <<>>
      BY <1>1, <1>2, <1>3 DEF PastCommit, ControlInv, TypeOK
    <2>2. ASSUME NEW u \in Txns, ~PastCommit(u)', NEW i \in DOMAIN write_set'[u]
          PROVE  HoldsMode(u, write_set[u][i].tab, {"X"})'
      <3>1. u # t
        BY <1>1, <1>18, <2>1, <2>2
      <3>2. HoldsMode(u, write_set[u][i].tab, {"X"})
        BY <1>1, <1>18, <2>2 DEF DataInv, StrictLocks
      <3>3. PICK tb \in Ids : tb = write_set[u][i].tab
        BY <1>1, <2>2, WriteRecordType DEF ControlInv, Tables, Ids
      <3>4. HoldsMode(u, tb, {"X"})'
        BY <1>13, <3>1, <3>2, <3>3
      <3>5. QED
        BY <1>1, <3>3, <3>4 DEF HoldsMode
    <2>3. ASSUME NEW u \in Txns, NEW rd \in reads'[u]
          PROVE  HoldsMode(u, rd.tab, {"S", "X"})'
      <3>1. u # t /\ rd \in reads[u] /\ rd.tab \in Ids
        BY <1>1, <1>2, <1>3, <2>3 DEF ControlInv, TypeOK, Read, Tables, Ids
      <3>2. HoldsMode(u, rd.tab, {"S", "X"})
        BY <3>1 DEF DataInv, StrictLocks
      <3>3. QED
        BY <1>13, <3>1, <3>2
    <2>4. QED
      BY <1>11, <2>2, <2>3 DEF StrictLocks
  <1>20. SerializableReads'
    BY <1>1 DEF DataInv, SerializableReads
  <1>21. RollbackExact'
    BY <1>1, <1>18 DEF DataInv, RollbackExact, FirstWrite, Written
  <1>22. QED
    BY <1>6, <1>17, <1>19, <1>20, <1>21 DEF DataInv

LEMMA ReleaseEndStep ==
    ASSUME TxnInv, NEW s \in Sessions, ReleaseEnd(s)
    PROVE  TxnInv' /\ [LockNext]_lockVars
  <1> USE DEF TxnInv
  <1>1. /\ pc[s] = "release" /\ locks[s] = {} /\ EndTxn(txn[s], final[s])
        /\ pc' = [pc EXCEPT ![s] = ret[s]]
        /\ write_set' = [write_set EXCEPT ![txn[s]] = <<>>]
        /\ UNCHANGED <<txn, txn_mode, stmt, row, ret, final, locks, content, committed, reads>>
    BY DEF ReleaseEnd, Goto
  <1>2. /\ txn[s] # None /\ reads[txn[s]] = {} /\ lock_set[txn[s]] = {}
        /\ final[s] = "ABORTED" => write_set[txn[s]] = <<>>
    BY <1>1 DEF ControlInv, Phases, Phase
  <1>3. PICK t \in Txns, fin \in {"COMMITTED", "ABORTED"} : t = txn[s] /\ fin = final[s]
    BY <1>2 DEF ControlInv, TypeOK
  <1>4. [LockNext]_lockVars
    BY <1>1, <1>2, <1>3 DEF LockNext
  <1>5. LockInv'
    BY <1>4, LockNextInv DEF ControlInv
  <1>6. /\ state' = [state EXCEPT ![t] = fin] /\ lock_set' = [lock_set EXCEPT ![t] = {}]
        /\ request_queue' = request_queue
    BY <1>1, <1>3 DEF EndTxn
  <1>7. /\ state'[t] = fin /\ lock_set'[t] = {}
        /\ \A u \in Txns : u # t => state'[u] = state[u] /\ lock_set'[u] = lock_set[u]
    BY <1>6 DEF ControlInv, LockInv, LockTypeOK
  <1>8. TableModes' /\ LocksKept
    BY <1>6 DEF ControlInv, TableModes, LocksKept, HoldsMode
  <1>9. /\ pc'[s] \in {"idle", "reply"} /\ pc' \in [Sessions -> PC]
        /\ \A r \in Sessions : r # s => pc'[r] = pc[r]
    BY <1>1 DEF ControlInv, TypeOK, PC
  <1>10. /\ write_set'[t] = <<>> /\ write_set' \in [Txns -> Seq(WriteRecord)]
         /\ \A u \in Txns : u # t => write_set'[u] = write_set[u]
    BY <1>1, <1>3 DEF ControlInv, TypeOK
  <1>11. TypeOK'
    BY <1>1, <1>5, <1>9, <1>10 DEF ControlInv, TypeOK, LockInv
  <1>12. SessionsKept(s)
    BY <1>1, <1>9 DEF SessionsKept
  <1>13. TxnsKept(txn[s])
    BY <1>1, <1>3, <1>7, <1>8, <1>10, KeepTxns
  <1>14. Phase(s)'
    BY <1>1, <1>2, <1>9 DEF Phase
  <1>15. ControlInv'
    <2>1. state'[txn[s]] # "NONE" /\ lock_set'[txn[s]] = {}
      BY <1>3, <1>7
    <2>2. QED
      BY <1>1, <1>2, <1>5, <1>8, <1>11, <1>12, <1>13, <1>14, <2>1, OwnStep
  <1>16. /\ \A u \in Txns : u # t => (PastCommit(u)' <=> PastCommit(u))
         /\ PastCommit(t) \/ write_set[t] = <<>>
    <2>1. \A u \in Txns : u # t => (PastCommit(u)' <=> PastCommit(u))
      BY <1>1, <1>3, <1>9 DEF PastCommit
    <2>2. PastCommit(t) \/ write_set[t] = <<>>
      BY <1>1, <1>2, <1>3 DEF PastCommit
    <2>3. QED
      BY <2>1, <2>2
  <1>17. StrictLocks'
    <2>1. ASSUME NEW u \in Txns, ~PastCommit(u)', NEW i \in DOMAIN write_set'[u]
          PROVE  HoldsMode(u, write_set[u][i].tab, {"X"})'
      <3>1. u # t /\ i \in DOMAIN write_set[u] /\ write_set'[u] = write_set[u]
        BY <1>10, <2>1
      <3>2. HoldsMode(u, write_set[u][i].tab, {"X"})
        BY <1>16, <2>1, <3>1 DEF DataInv, StrictLocks
      <3>3. QED
        BY <1>6, <3>1, <3>2 DEF HoldsMode
    <2>2. \A u \in Txns : \A rd \in reads'[u] : HoldsMode(u, rd.tab, {"S", "X"})'
      BY <1>1, <1>6 DEF DataInv, StrictLocks, HoldsMode
    <2>3. QED
      BY <1>11, <2>1, <2>2 DEF StrictLocks
  <1>18. SerializableReads'
    BY <1>1 DEF DataInv, SerializableReads
  <1>19. ASSUME NEW u \in Txns, ~PastCommit(u)', NEW i \in DOMAIN write_set'[u],
                FirstWrite(u, i)'
         PROVE  write_set'[u][i].old = committed'[write_set'[u][i].tab][write_set'[u][i].slot]
    <2>1. u # t /\ i \in DOMAIN write_set[u] /\ write_set'[u] = write_set[u]
      BY <1>10, <1>19
    <2>2. FirstWrite(u, i) /\ ~PastCommit(u)
      BY <1>16, <1>19, <2>1 DEF FirstWrite
    <2>3. QED
      BY <1>1, <2>1, <2>2 DEF DataInv, RollbackExact
  <1>20. ASSUME NEW tb \in Tables, NEW sl \in Slots,
                \A u \in Txns : Written(u, tb, sl)' => PastCommit(u)'
         PROVE  content'[tb][sl] = committed'[tb][sl]
    <2>1. \A u \in Txns : Written(u, tb, sl) => PastCommit(u)
      BY <1>10, <1>16, <1>20 DEF Written
    <2>2. QED
      BY <1>1, <2>1 DEF DataInv, RollbackExact
  <1>21. RollbackExact'
    BY <1>19, <1>20 DEF RollbackExact
  <1>22. QED
    BY <1>4, <1>15, <1>17, <1>18, <1>21 DEF DataInv

-----------------------------------------------------------------------------
(* The specification *)

LEMMA TxnInitInv == Init => TxnInv
  <1> SUFFICES ASSUME Init PROVE TxnInv
    OBVIOUS
  <1>1. LockInv /\ LockInit
    BY LockInitInv DEF Init
  <1>2. TypeOK
    <2>1. NoStatement \in Statement /\ 1 \in Slots
      BY TxnAssumption DEF NoStatement, Statement, Command, Slots
    <2>2. (CHOOSE v \in Values : TRUE) \in Values
      BY TxnAssumption
    <2>3. \A S : <<>> \in Seq(S)
      OBVIOUS
    <2>4. QED
      BY <1>1, <2>1, <2>2, <2>3 DEF Init, TypeOK, LockInv, PC, Tables
  <1>3. TableModes /\ FinishedFree
    BY <1>1 DEF LockInit, TableModes, FinishedFree
  <1>4. OwnTxn /\ Phases
    BY DEF Init, OwnTxn, Phases, Phase
  <1>5. DataInv
    <2>1. StrictLocks
      BY <1>2 DEF Init, StrictLocks
    <2>2. SerializableReads
      BY DEF Init, SerializableReads
    <2>3. RollbackExact
      BY DEF Init, RollbackExact
    <2>4. QED
      BY <2>1, <2>2, <2>3 DEF DataInv
  <1>6. QED
    BY <1>1, <1>2, <1>3, <1>4, <1>5 DEF TxnInv, ControlInv

LEMMA TxnNextInv == TxnInv /\ [Next]_vars => TxnInv' /\ [LockNext]_lockVars
  <1> SUFFICES ASSUME TxnInv, [Next]_vars PROVE TxnInv' /\ [LockNext]_lockVars
    OBVIOUS
  <1>1. ASSUME NEW s \in Sessions, \E st \in Statement : Receive(s, st)
        PROVE  TxnInv' /\ [LockNext]_lockVars
    BY <1>1, ReceiveStep
  <1>2. ASSUME NEW s \in Sessions, ServerStep(s) PROVE TxnInv' /\ [LockNext]_lockVars
    BY <1>2, MoveSteps, EndCommandStep, LockSharedStep, ScanRowStep, LockExclusiveStep,
       WriteStep, CommitPointStep, UndoOneStep, UndoEndStep, ReleaseOneStep, ReleaseEndStep
       DEF ServerStep
  <1>3. ASSUME NEW s \in Sessions, Disconnect(s) \/ Connect(s)
        PROVE  TxnInv' /\ [LockNext]_lockVars
    BY <1>3, ConnectionStep
  <1>4. CASE UNCHANGED vars
    <2>1. UNCHANGED <<lockVars, pc, txn, txn_mode, stmt, row, ret, final, locks,
                      write_set, content, committed, reads>>
      BY <1>4 DEF vars, sessionVars, dataVars
    <2>2. /\ LockInv' /\ TableModes' /\ LocksKept /\ [LockNext]_lockVars
          /\ state' = state /\ lock_set' = lock_set /\ request_queue' = request_queue
      BY <2>1, LocksUntouched DEF TxnInv, lockVars
    <2>3. TypeOK'
      BY <2>1, <2>2 DEF TxnInv, ControlInv, TypeOK, LockInv
    <2>4. FinishedFree' /\ OwnTxn'
      BY <2>1, <2>2 DEF TxnInv, ControlInv, FinishedFree, OwnTxn, Usable
    <2>5. Phases'
      BY <2>1, <2>2 DEF TxnInv, ControlInv, Phases, Phase, Usable, HoldsMode
    <2>6. \A t : PastCommit(t)' <=> PastCommit(t)
      BY <2>1 DEF PastCommit
    <2>7. DataInv'
      BY <2>1, <2>2, <2>3, <2>6, QuietData
    <2>8. QED
      BY <2>2, <2>3, <2>4, <2>5, <2>7 DEF TxnInv, ControlInv
  <1>5. QED
    BY <1>1, <1>2, <1>3, <1>4 DEF Next

\* The inductive invariant holds in every state of the sessions.
THEOREM TxnInvariant == Spec => []TxnInv
  <1>1. TxnInv /\ [Next]_vars => TxnInv'
    BY TxnNextInv
  <1>2. QED
    BY <1>1, TxnInitInv, PTL DEF Spec

\* Every value the sessions keep has its type, the ghosts' too: a statement's
\* table, the copied lock_set_ of commit() and abort(), the write records.
THEOREM TxnTypeCorrect == Spec => []TypeOK
  <1>1. TxnInv => TypeOK
    BY DEF TxnInv, ControlInv
  <1>2. QED
    BY <1>1, TxnInvariant, PTL

\* Executors and abort() run under the table locks taken earlier: X on every
\* table written until the writes are committed or undone, S or X on every
\* table read.
THEOREM StrictLocksAlways == Spec => []StrictLocks
  <1>1. TxnInv => StrictLocks
    BY DEF TxnInv, DataInv
  <1>2. QED
    BY <1>1, TxnInvariant, PTL

\* What a live transaction has read is still the committed value, whatever the
\* other sessions write, commit, abort or leave behind when they disconnect.
THEOREM SerializableReadsAlways == Spec => []SerializableReads
  <1>1. TxnInv => SerializableReads
    BY DEF TxnInv, DataInv
  <1>2. QED
    BY <1>1, TxnInvariant, PTL

\* Undoing the write sets of the live transactions from the back, as abort()
\* does, gives the committed database, at every moment.
THEOREM RollbackExactAlways == Spec => []RollbackExact
  <1>1. TxnInv => RollbackExact
    BY DEF TxnInv, DataInv
  <1>2. QED
    BY <1>1, TxnInvariant, PTL

\* The sessions implement the lock manager's specification: they lock only for
\* transactions that are begun and not finished, and commit() and abort() end
\* a transaction only when the loop over lock_set_ has released every lock.
THEOREM SessionsUseLocks == Spec => LockSpec
  <1>1. Init => LockInit
    BY DEF Init
  <1>2. TxnInv /\ [Next]_vars => [LockNext]_lockVars
    BY TxnNextInv
  <1>3. QED
    BY <1>1, <1>2, TxnInvariant, PTL DEF Spec, LockSpec

\* So the locks of the running system are granted compatibly and two-phase.
THEOREM SessionsTwoPhase == Spec => []GrantedCompatible /\ TwoPhase
  BY SessionsUseLocks, GrantedCompatibleAlways, TwoPhaseAlways, PTL

-----------------------------------------------------------------------------
(* The abstract store *)

\* Which transactions have ended depends on the threads in commit() or abort().
LEMMA EndedSame ==
    ASSUME NEW s \in Sessions,
           \A r \in Sessions : r # s => pc'[r] = pc[r] /\ txn'[r] = txn[r],
           pc'[s] \in {"undo", "release"} <=> pc[s] \in {"undo", "release"},
           pc[s] \in {"undo", "release"} => txn'[s] = txn[s],
           NEW t
    PROVE  Ended(t)' <=> Ended(t)
  BY DEF Ended

\* A thread that is not in commit() or abort() has a transaction of its own
\* that has not ended.
LEMMA NotEnded ==
    ASSUME ControlInv, NEW s \in Sessions, txn[s] # None, pc[s] \notin {"undo", "release"}
    PROVE  ~Ended(txn[s])
  BY DEF Ended, ControlInv, OwnTxn

\* Who is past the commit point has ended.
LEMMA PastCommitEnded ==
    ASSUME NEW t, PastCommit(t) PROVE Ended(t)
  BY DEF PastCommit, Ended

\* A transaction keeps its own rows while their values stay.
LEMMA OwnSame ==
    ASSUME NEW t, OwnRows(t)' = OwnRows(t),
           \A tab \in Tables, slot \in Slots :
              <<tab, slot>> \in OwnRows(t) => content'[tab][slot] = content[tab][slot]
    PROVE  OwnValues(t)' = OwnValues(t)
  <1>1. ASSUME NEW place \in OwnRows(t)
        PROVE  content'[place[1]][place[2]] = content[place[1]][place[2]]
    <2>1. place = <<place[1], place[2]>> /\ place[1] \in Tables /\ place[2] \in Slots
      BY <1>1 DEF OwnRows
    <2>2. QED
      BY <1>1, <2>1
  <1>2. QED
    BY <1>1 DEF OwnValues

\* The rows of a transaction that stays ended, or live with the same writes.
LEMMA OwnRowsSame ==
    ASSUME NEW t, Ended(t)' <=> Ended(t), Ended(t) \/ write_set'[t] = write_set[t]
    PROVE  OwnRows(t)' = OwnRows(t)
  <1>1. CASE Ended(t)
    BY <1>1 DEF OwnRows
  <1>2. CASE ~Ended(t) /\ write_set'[t] = write_set[t]
    <2>1. \A tab, slot : Written(t, tab, slot)' <=> Written(t, tab, slot)
      BY <1>2 DEF Written
    <2>2. QED
      BY <1>2, <2>1 DEF OwnRows
  <1>3. QED
    BY <1>1, <1>2

\* A transaction that has ended, or written nothing, owns nothing.
LEMMA OwnNone ==
    ASSUME NEW t, Ended(t) \/ write_set[t] = <<>>
    PROVE  OwnRows(t) = {} /\ OwnValues(t) = Store!NoRows
  <1>1. OwnRows(t) = {}
    BY DEF OwnRows, Written
  <1>2. QED
    BY <1>1 DEF OwnValues, Store!NoRows

\* Nothing written, read, committed or ended: the store stutters.
LEMMA QuietStore ==
    ASSUME NEW s \in Sessions,
           \A r \in Sessions : r # s => pc'[r] = pc[r] /\ txn'[r] = txn[r],
           pc'[s] \in {"undo", "release"} <=> pc[s] \in {"undo", "release"},
           pc[s] \in {"undo", "release"} => txn'[s] = txn[s],
           UNCHANGED <<write_set, content, committed, reads>>
    PROVE  UNCHANGED Store!storeVars
  <1>1. ASSUME NEW t \in Txns PROVE OwnValues(t)' = OwnValues(t)
    <2>1. Ended(t)' <=> Ended(t)
      BY EndedSame
    <2>2. OwnRows(t)' = OwnRows(t)
      BY <2>1, OwnRowsSame
    <2>3. QED
      BY <2>2, OwnSame
  <1>2. QED
    BY <1>1 DEF Store!storeVars

\* A session calls abort(): what its transaction read and wrote is dropped.
LEMMA StartAbortStore ==
    ASSUME TxnInv, NEW s \in Sessions, txn[s] # None, pc[s] \notin {"undo", "release"},
           StartAbort(s), UNCHANGED <<txn, write_set, content, committed>>
    PROVE  Store!Next
  <1>1. PICK t \in Txns : t = txn[s]
    BY DEF TxnInv, ControlInv, TypeOK
  <1>2. /\ pc'[s] = "undo" /\ \A r \in Sessions : r # s => pc'[r] = pc[r]
        /\ reads' = [reads EXCEPT ![t] = {}]
    BY <1>1 DEF StartAbort, Goto, TxnInv, ControlInv, TypeOK
  <1>3. OwnValues(t)' = Store!NoRows
    <2>1. Ended(t)'
      BY <1>1, <1>2 DEF Ended
    <2>2. (OwnRows(t) = {} /\ OwnValues(t) = Store!NoRows)'
      BY <2>1, OwnNone, PTL
    <2>3. QED
      BY <2>2 DEF Store!NoRows
  <1>4. ASSUME NEW u \in Txns, u # t PROVE OwnValues(u)' = OwnValues(u)
    <2>1. Ended(u)' <=> Ended(u)
      BY <1>1, <1>2, <1>4 DEF Ended
    <2>2. OwnRows(u)' = OwnRows(u)
      BY <2>1, OwnRowsSame
    <2>3. QED
      BY <2>2, OwnSame
  <1>5. Store!Abort(t)
    BY <1>1, <1>2, <1>3, <1>4 DEF Store!Abort, Store!End
  <1>6. QED
    BY <1>5 DEF Store!Next

\* A row of the scan is the committed row, unless the transaction wrote it.
LEMMA ScanRowStore ==
    ASSUME TxnInv, NEW s \in Sessions, ScanRow(s)
    PROVE  [Store!Next]_(Store!storeVars)
  <1>1. /\ pc[s] = "scan" /\ pc'[s] \in {"scan", "reply", "upgrade"}
        /\ \A r \in Sessions : r # s => pc'[r] = pc[r] /\ txn'[r] = txn[r]
        /\ UNCHANGED <<txn, write_set, content, committed>>
    BY DEF ScanRow, NextRow, Goto, TxnInv, ControlInv, TypeOK
  <1>2. /\ txn[s] # None /\ stmt[s].op \in {"select", "update"}
        /\ HoldsMode(txn[s], stmt[s].tab, {"S", "X"})
    BY <1>1 DEF TxnInv, ControlInv, Phases, Phase
  <1>3. PICK t \in Txns, tab \in Tables, slot \in Slots :
            t = txn[s] /\ tab = stmt[s].tab /\ slot = row[s]
    BY <1>2, StatementTable DEF TxnInv, ControlInv, TypeOK, TableOp, Tables
  <1>4. reads' = IF Written(t, tab, slot) THEN reads
                 ELSE [reads EXCEPT ![t] = @ \cup
                          {[tab |-> tab, slot |-> slot, val |-> content[tab][slot]]}]
    BY <1>3 DEF ScanRow
  <1>5. CASE Written(t, tab, slot)
    <2>1. UNCHANGED <<write_set, content, committed, reads>>
      BY <1>1, <1>4, <1>5
    <2>2. QED
      BY <1>1, <2>1, QuietStore
  <1>6. CASE ~Written(t, tab, slot)
    <2>1. content[tab][slot] = committed[tab][slot]
      BY <1>2, <1>3, <1>6, CleanRow
    <2>2. <<tab, slot>> \notin OwnRows(t)
      BY <1>6 DEF OwnRows
    <2>3. ASSUME NEW u \in Txns PROVE OwnValues(u)' = OwnValues(u)
      <3>1. Ended(u)' <=> Ended(u)
        BY <1>1, EndedSame
      <3>2. OwnRows(u)' = OwnRows(u)
        BY <1>1, <3>1, OwnRowsSame
      <3>3. QED
        BY <1>1, <3>2, OwnSame
    <2>4. <<tab, slot>> \notin DOMAIN OwnValues(t)
      BY <2>2 DEF OwnValues
    <2>5. Store!Read(t, tab, slot)
      BY <1>1, <1>4, <1>6, <2>1, <2>3, <2>4 DEF Store!Read
    <2>6. QED
      BY <2>5 DEF Store!Next
  <1>7. QED
    BY <1>5, <1>6

\* Two transactions never own rows of the same table: the owner of a row, live
\* or undoing its writes, holds X on the table.
LEMMA OwnersApart ==
    ASSUME TxnInv, NEW t \in Txns, NEW u \in Txns, u # t, NEW tab \in Tables, NEW slot \in Slots,
           HoldsMode(t, tab, {"S", "X"})
    PROVE  <<tab, slot>> \notin OwnRows(u)
  <1>1. SUFFICES ASSUME Written(u, tab, slot), ~Ended(u) PROVE FALSE
    BY DEF OwnRows
  <1>2. HoldsMode(u, tab, {"X"})
    BY <1>1, PastCommitEnded, WriterHolds
  <1>3. tab \in Ids /\ LockInv
    BY DEF Tables, Ids, TxnInv, ControlInv
  <1>4. QED
    BY <1>2, <1>3, Exclusive

\* A change of a row that t alone may write leaves the others' rows alone.
LEMMA OthersOwn ==
    ASSUME TxnInv, NEW t \in Txns, NEW u \in Txns, u # t, NEW tab \in Tables, NEW slot \in Slots,
           NEW val, HoldsMode(t, tab, {"S", "X"}),
           content' = [content EXCEPT ![tab][slot] = val],
           Ended(u)' <=> Ended(u), write_set'[u] = write_set[u]
    PROVE  OwnValues(u)' = OwnValues(u)
  <1>1. OwnRows(u)' = OwnRows(u)
    BY OwnRowsSame
  <1>2. <<tab, slot>> \notin OwnRows(u)
    BY OwnersApart
  <1>3. \A b \in Tables, l \in Slots :
            <<b, l>> # <<tab, slot>> => content'[b][l] = content[b][l]
    BY DEF TxnInv, ControlInv, TypeOK
  <1>4. QED
    BY <1>1, <1>2, <1>3, OwnSame

\* A row that a statement writes becomes its transaction's own.
LEMMA WriteSlotStore ==
    ASSUME TxnInv, NEW s \in Sessions, pc[s] = "write", pc'[s] \in {"write", "reply"},
           \A r \in Sessions : r # s => pc'[r] = pc[r] /\ txn'[r] = txn[r],
           NEW slot \in Slots, NEW val \in Values, WriteSlot(s, slot, val),
           UNCHANGED <<committed, reads>>
    PROVE  Store!Next
  <1>1. /\ txn[s] # None /\ stmt[s].op \in {"update", "insert"}
        /\ HoldsMode(txn[s], stmt[s].tab, {"X"})
    BY DEF TxnInv, ControlInv, Phases, Phase
  <1>2. PICK t \in Txns, tab \in Tables : t = txn[s] /\ tab = stmt[s].tab
    BY <1>1, StatementTable DEF TxnInv, ControlInv, TypeOK, TableOp, Tables
  <1> DEFINE rec == [tab |-> tab, slot |-> slot, old |-> content[tab][slot]]
             n == Len(write_set[t])
             new == [place \in OwnRows(t) \cup {<<tab, slot>>} |->
                        IF place = <<tab, slot>> THEN val ELSE OwnValues(t)[place]]
  <1>3. /\ write_set' = [write_set EXCEPT ![t] = Append(@, rec)]
        /\ content' = [content EXCEPT ![tab][slot] = val]
    BY <1>2 DEF WriteSlot
  <1>4. /\ \A u \in Txns : u # t => write_set'[u] = write_set[u]
        /\ write_set'[t] = Append(write_set[t], rec)
        /\ write_set[t] \in Seq(WriteRecord)
    BY <1>3 DEF TxnInv, ControlInv, TypeOK
  <1>5. \A u : Ended(u)' <=> Ended(u)
    BY EndedSame
  <1>6. ~Ended(t)
    BY <1>1, <1>2, NotEnded DEF TxnInv
  <1>7. HoldsMode(t, tab, {"S", "X"})
    BY <1>1, <1>2 DEF HoldsMode
  <1>8. \A u \in Txns : u # t => OwnValues(u)' = OwnValues(u)
    BY <1>3, <1>4, <1>5, <1>7, OthersOwn
  <1>9. \A b \in Tables, l \in Slots :
            Written(t, b, l)' <=> Written(t, b, l) \/ <<b, l>> = <<tab, slot>>
    <2>1. /\ DOMAIN write_set[t] = 1..n /\ n \in Nat
          /\ DOMAIN write_set'[t] = 1..(n + 1)
          /\ \A i \in 1..n : write_set'[t][i] = write_set[t][i]
          /\ write_set'[t][n + 1] = rec
      BY <1>4
    <2>2. \A i \in 1..(n + 1) : i \in 1..n \/ i = n + 1
      BY <2>1
    <2>3. n + 1 \in 1..(n + 1) /\ \A i \in 1..n : i \in 1..(n + 1)
      BY <2>1
    <2>4. rec.tab = tab /\ rec.slot = slot
      OBVIOUS
    <2>5. QED
      BY <2>1, <2>2, <2>3, <2>4 DEF Written
  <1>10. OwnRows(t)' = OwnRows(t) \cup {<<tab, slot>>}
    BY <1>5, <1>6, <1>9 DEF OwnRows
  <1>11. OwnValues(t)' = new
    <2>1. \A b \in Tables, l \in Slots :
              content'[b][l] = IF <<b, l>> = <<tab, slot>> THEN val ELSE content[b][l]
      BY <1>3 DEF TxnInv, ControlInv, TypeOK
    <2>2. ASSUME NEW place \in OwnRows(t) \cup {<<tab, slot>>}
          PROVE  content'[place[1]][place[2]] = new[place]
      <3>1. place = <<place[1], place[2]>> /\ place[1] \in Tables /\ place[2] \in Slots
        BY <2>2 DEF OwnRows
      <3>2. content'[place[1]][place[2]]
              = IF place = <<tab, slot>> THEN val ELSE content[place[1]][place[2]]
        BY <2>1, <3>1
      <3>3. QED
        BY <2>2, <3>2 DEF OwnValues
    <2>3. QED
      BY <1>10, <2>2 DEF OwnValues
  <1>12. DOMAIN OwnValues(t) = OwnRows(t)
    BY DEF OwnValues
  <1>13. Store!Write(t, tab, slot, val)
    BY <1>8, <1>11, <1>12 DEF Store!Write
  <1>14. QED
    BY <1>13 DEF Store!Next

\* commit() makes all reads and all writes of a transaction one step.
LEMMA CommitPointStore ==
    ASSUME TxnInv, NEW s \in Sessions, CommitPoint(s)
    PROVE  Store!Next
  <1>1. pc[s] = "commit" /\ txn[s] # None
    BY DEF CommitPoint, TxnInv, ControlInv, Phases, Phase
  <1>2. PICK t \in Txns : t = txn[s]
    BY <1>1 DEF TxnInv, ControlInv, TypeOK
  <1>3. /\ pc'[s] = "release" /\ \A r \in Sessions : r # s => pc'[r] = pc[r]
        /\ reads' = [reads EXCEPT ![t] = {}]
        /\ committed' = [tab \in Tables |-> [slot \in Slots |->
                            IF Written(t, tab, slot) THEN content[tab][slot]
                            ELSE committed[tab][slot]]]
        /\ UNCHANGED <<txn, write_set, content>>
    BY <1>2 DEF CommitPoint, Goto, TxnInv, ControlInv, TypeOK
  <1>4. ~Ended(t)
    BY <1>1, <1>2, NotEnded DEF TxnInv
  <1>5. OwnValues(t)' = Store!NoRows
    <2>1. Ended(t)'
      BY <1>2, <1>3 DEF Ended
    <2>2. (OwnRows(t) = {} /\ OwnValues(t) = Store!NoRows)'
      BY <2>1, OwnNone, PTL
    <2>3. QED
      BY <2>2 DEF Store!NoRows
  <1>6. ASSUME NEW u \in Txns, u # t PROVE OwnValues(u)' = OwnValues(u)
    <2>1. Ended(u)' <=> Ended(u)
      BY <1>2, <1>3, <1>6 DEF Ended
    <2>2. OwnRows(u)' = OwnRows(u)
      BY <1>3, <2>1, OwnRowsSame
    <2>3. QED
      BY <1>3, <2>2, OwnSame
  <1>7. \A rd \in reads[t] : committed[rd.tab][rd.slot] = rd.val
    BY DEF TxnInv, DataInv, SerializableReads
  <1>8. ASSUME NEW tab \in Tables, NEW slot \in Slots
        PROVE  /\ Written(t, tab, slot) <=> <<tab, slot>> \in DOMAIN OwnValues(t)
               /\ Written(t, tab, slot) => OwnValues(t)[<<tab, slot>>] = content[tab][slot]
    <2>1. <<tab, slot>> \in OwnRows(t) <=> Written(t, tab, slot)
      BY <1>4 DEF OwnRows
    <2>2. QED
      BY <2>1 DEF OwnValues
  <1>9. committed' = [tab \in Tables |-> [slot \in Slots |->
                        IF <<tab, slot>> \in DOMAIN OwnValues(t)
                        THEN OwnValues(t)[<<tab, slot>>] ELSE committed[tab][slot]]]
    BY <1>3, <1>8
  <1>10. Store!Commit(t)
    BY <1>3, <1>5, <1>6, <1>7, <1>9 DEF Store!Commit, Store!End
  <1>11. QED
    BY <1>10 DEF Store!Next

\* abort() puts an old value back in a row of a table that nobody else has read
\* or written: the store does not notice.
LEMMA UndoOneStore ==
    ASSUME TxnInv, NEW s \in Sessions, UndoOne(s)
    PROVE  UNCHANGED Store!storeVars
  <1>1. /\ pc[s] = "undo" /\ write_set[txn[s]] # <<>>
        /\ UNCHANGED <<pc, txn, committed, reads>>
    BY DEF UndoOne, sessionVars
  <1>2. txn[s] # None /\ final[s] = "ABORTED"
    BY <1>1 DEF TxnInv, ControlInv, Phases, Phase
  <1>3. PICK t \in Txns : t = txn[s]
    BY <1>2 DEF TxnInv, ControlInv, TypeOK
  <1> DEFINE n == Len(write_set[t])
             rec == write_set[t][n]
  <1>4. n \in DOMAIN write_set[t]
    <2>1. write_set[t] \in Seq(WriteRecord) /\ write_set[t] # <<>>
      BY <1>1, <1>3 DEF TxnInv, ControlInv, TypeOK
    <2>2. QED
      BY <2>1
  <1>5. rec.tab \in Tables /\ rec.slot \in Slots
    BY <1>4, WriteRecordType DEF TxnInv, ControlInv
  <1>6. /\ content' = [content EXCEPT ![rec.tab][rec.slot] = rec.old]
        /\ write_set' = [write_set EXCEPT ![t] = SubSeq(write_set[t], 1, n - 1)]
    BY <1>3 DEF UndoOne, Undo
  <1>7. HoldsMode(t, rec.tab, {"S", "X"})
    <2>1. ~PastCommit(t)
      BY <1>1, <1>2, <1>3, NotPastCommit DEF TxnInv
    <2>2. HoldsMode(t, rec.tab, {"X"})
      BY <1>4, <2>1 DEF TxnInv, DataInv, StrictLocks
    <2>3. QED
      BY <2>2 DEF HoldsMode
  <1>8. \A u : Ended(u)' <=> Ended(u)
    BY <1>1 DEF Ended
  <1>9. ASSUME NEW u \in Txns PROVE OwnValues(u)' = OwnValues(u)
    <2>1. CASE u = t
      <3>1. Ended(t)
        BY <1>1, <1>3 DEF Ended
      <3>2. OwnRows(t) = {} /\ OwnRows(t)' = {}
        BY <1>8, <3>1 DEF OwnRows
      <3>3. QED
        BY <2>1, <3>2, OwnSame
    <2>2. CASE u # t
      <3>1. write_set'[u] = write_set[u]
        BY <1>6, <2>2 DEF TxnInv, ControlInv, TypeOK
      <3>2. QED
        BY <1>5, <1>6, <1>7, <1>8, <2>2, <3>1, OthersOwn
    <2>3. QED
      BY <2>1, <2>2
  <1>10. QED
    BY <1>1, <1>9 DEF Store!storeVars

\* The end of commit() or abort() clears what no longer counts.
LEMMA ReleaseEndStore ==
    ASSUME TxnInv, NEW s \in Sessions, ReleaseEnd(s)
    PROVE  UNCHANGED Store!storeVars
  <1>1. /\ pc[s] = "release" /\ pc' = [pc EXCEPT ![s] = ret[s]]
        /\ write_set' = [write_set EXCEPT ![txn[s]] = <<>>]
        /\ UNCHANGED <<txn, content, committed, reads>>
    BY DEF ReleaseEnd, Goto
  <1>2. txn[s] # None
    BY <1>1 DEF TxnInv, ControlInv, Phases, Phase
  <1>3. PICK t \in Txns : t = txn[s]
    BY <1>2 DEF TxnInv, ControlInv, TypeOK
  <1>4. /\ \A r \in Sessions : r # s => pc'[r] = pc[r]
        /\ write_set'[t] = <<>> /\ \A u \in Txns : u # t => write_set'[u] = write_set[u]
    BY <1>1, <1>3 DEF TxnInv, ControlInv, TypeOK
  <1>5. ASSUME NEW u \in Txns PROVE OwnValues(u)' = OwnValues(u)
    <2>1. CASE u = t
      <3>1. Ended(t)
        BY <1>1, <1>3 DEF Ended
      <3>2. OwnRows(t) = {} /\ OwnRows(t)' = {}
        BY <1>4, <3>1 DEF OwnRows, Written
      <3>3. QED
        BY <2>1, <3>2, OwnSame
    <2>2. CASE u # t
      <3>1. Ended(u)' <=> Ended(u)
        BY <1>1, <1>3, <1>4, <2>2 DEF Ended
      <3>2. OwnRows(u)' = OwnRows(u)
        BY <1>4, <2>2, <3>1, OwnRowsSame
      <3>3. QED
        BY <1>1, <3>2, OwnSame
    <2>3. QED
      BY <2>1, <2>2
  <1>6. QED
    BY <1>1, <1>5 DEF Store!storeVars

\* The steps that only move a thread, take locks or release them.
LEMMA ControlStore ==
    ASSUME TxnInv, NEW s \in Sessions,
           \/ \E st \in Statement : Receive(s, st)
           \/ Fail(s) \/ BeginCommand(s) \/ Reply(s) \/ ReplyFails(s)
           \/ Disconnect(s) \/ Connect(s) \/ UndoEnd(s) \/ ReleaseOne(s)
    PROVE  UNCHANGED Store!storeVars
  <1>1. UNCHANGED <<write_set, content, committed, reads>>
    BY DEF Receive, Fail, BeginCommand, Reply, ReplyFails, Disconnect, Connect, UndoEnd,
           ReleaseOne, dataVars
  <1>2. /\ \A r \in Sessions : r # s => pc'[r] = pc[r] /\ txn'[r] = txn[r]
        /\ pc'[s] \in {"undo", "release"} <=> pc[s] \in {"undo", "release"}
        /\ pc[s] \in {"undo", "release"} => txn'[s] = txn[s]
    <2> USE DEF Goto, Leave, TxnInv, ControlInv, TypeOK
    <2>1. CASE \E st \in Statement : Receive(s, st)
      BY <2>1 DEF Receive
    <2>2. CASE Fail(s) \/ BeginCommand(s)
      BY <2>2 DEF Fail, BeginCommand
    <2>3. CASE Reply(s) \/ ReplyFails(s)
      BY <2>3 DEF Reply, ReplyFails
    <2>4. CASE Disconnect(s) \/ Connect(s)
      BY <2>4 DEF Disconnect, Connect
    <2>5. CASE UndoEnd(s) \/ ReleaseOne(s)
      BY <2>5 DEF UndoEnd, ReleaseOne
    <2>6. QED
      BY <2>1, <2>2, <2>3, <2>4, <2>5
  <1>3. QED
    BY <1>1, <1>2, QuietStore

\* commit and rollback, and the lock calls: a lock that is granted is nothing
\* to the store, one that is refused aborts the transaction.
LEMMA DecideStore ==
    ASSUME TxnInv, NEW s \in Sessions, EndCommand(s) \/ LockShared(s) \/ LockExclusive(s)
    PROVE  [Store!Next]_(Store!storeVars)
  <1>1. /\ pc[s] \in {"run", "upgrade"}
        /\ UNCHANGED <<txn, write_set, content, committed>>
        /\ \/ StartAbort(s)
           \/ UNCHANGED reads /\ \E label \in {"commit", "scan", "write"} : Goto(s, label)
    BY DEF EndCommand, LockShared, LockExclusive
  <1>2. txn[s] # None
    BY <1>1 DEF TxnInv, ControlInv, Phases, Phase
  <1>3. CASE StartAbort(s)
    BY <1>1, <1>2, <1>3, StartAbortStore
  <1>4. CASE UNCHANGED reads /\ \E label \in {"commit", "scan", "write"} : Goto(s, label)
    <2>1. /\ \A r \in Sessions : r # s => pc'[r] = pc[r]
          /\ pc'[s] \in {"commit", "scan", "write"}
      BY <1>4 DEF Goto, TxnInv, ControlInv, TypeOK
    <2>2. UNCHANGED Store!storeVars
      BY <1>1, <1>4, <2>1, QuietStore
    <2>3. QED
      BY <2>2
  <1>5. QED
    BY <1>1, <1>3, <1>4

\* The loops of the executors that write.
LEMMA WriteStore ==
    ASSUME TxnInv, NEW s \in Sessions, WriteRow(s) \/ InsertRow(s)
    PROVE  [Store!Next]_(Store!storeVars)
  <1>1. /\ pc[s] = "write" /\ pc'[s] \in {"write", "reply"}
        /\ \A r \in Sessions : r # s => pc'[r] = pc[r] /\ txn'[r] = txn[r]
        /\ UNCHANGED <<txn, committed, reads>>
    BY DEF WriteRow, InsertRow, NextRow, Goto, TxnInv, ControlInv, TypeOK
  <1>2. \/ \E slot \in Slots, val \in Values : WriteSlot(s, slot, val)
        \/ UNCHANGED <<write_set, content>>
    <2>1. row[s] \in Slots
      BY DEF TxnInv, ControlInv, TypeOK
    <2>2. QED
      BY <2>1 DEF WriteRow, InsertRow
  <1>3. CASE \E slot \in Slots, val \in Values : WriteSlot(s, slot, val)
    BY <1>1, <1>3, WriteSlotStore
  <1>4. CASE UNCHANGED <<write_set, content>>
    BY <1>1, <1>4, QuietStore
  <1>5. QED
    BY <1>2, <1>3, <1>4

\* Every step of the sessions is a step of the store or leaves it alone.
LEMMA StoreStep == TxnInv /\ [Next]_vars => [Store!Next]_(Store!storeVars)
  <1> SUFFICES ASSUME TxnInv, [Next]_vars PROVE [Store!Next]_(Store!storeVars)
    OBVIOUS
  <1>1. ASSUME NEW s \in Sessions,
               (\E st \in Statement : Receive(s, st)) \/ Disconnect(s) \/ Connect(s)
        PROVE  [Store!Next]_(Store!storeVars)
    BY <1>1, ControlStore
  <1>2. ASSUME NEW s \in Sessions, ServerStep(s)
        PROVE  [Store!Next]_(Store!storeVars)
    BY <1>2, ControlStore, DecideStore, ScanRowStore, WriteStore, CommitPointStore,
       UndoOneStore, ReleaseEndStore DEF ServerStep
  <1>3. CASE UNCHANGED vars
    <2>1. UNCHANGED <<pc, txn, write_set, content, committed, reads>>
      BY <1>3 DEF vars, sessionVars, dataVars
    <2>2. \A t : Ended(t)' <=> Ended(t)
      BY <2>1 DEF Ended
    <2>3. ASSUME NEW t \in Txns PROVE OwnValues(t)' = OwnValues(t)
      BY <2>1, <2>2, OwnRowsSame, OwnSame
    <2>4. QED
      BY <2>1, <2>3 DEF Store!storeVars
  <1>4. QED
    BY <1>1, <1>2, <1>3 DEF Next

\* Refinement: the sessions, row by row under table locks, implement the store
\* in which a transaction's reads and writes all happen at its commit and an
\* aborted transaction has done nothing (begin, commit, abort, the executors).
THEOREM SessionsImplementStore == Spec => StoreSpec
  <1>1. Init => Store!Init
    <2> SUFFICES ASSUME Init PROVE Store!Init
      OBVIOUS
    <2>1. committed \in [Tables -> [Slots -> Values]] /\ reads = [t \in Txns |-> {}]
      BY TxnInitInv DEF Init, TxnInv, ControlInv, TypeOK
    <2>2. \A t \in Txns : OwnValues(t) = Store!NoRows
      BY OwnNone DEF Init
    <2>3. QED
      BY <2>1, <2>2 DEF Store!Init
  <1>2. TxnInv /\ [Next]_vars => [Store!Next]_(Store!storeVars)
    BY StoreStep
  <1>3. QED
    BY <1>1, <1>2, TxnInvariant, PTL DEF Spec, StoreSpec, Store!Spec

=============================================================================
