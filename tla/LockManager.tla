---------------------------- MODULE LockManager ----------------------------
(***************************************************************************)
(* The lock table of RMDB (transaction/concurrency/lock_manager.cpp):      *)
(* no-wait locking in five modes on tables and records, and the part of a  *)
(* Transaction that it reads and writes (state_ and lock_set_).            *)
(*                                                                         *)
(* Every public method runs under latch_, so each call is one step.  The   *)
(* specification is open: any transaction that a session may still use     *)
(* calls any wrapper on any lock, which covers every executor.             *)
(***************************************************************************)

CONSTANTS
    Txns,       \* transactions the server creates
    TableIds,   \* LockDataIds of type TABLE
    RecordIds   \* LockDataIds of type RECORD

ASSUME IdsDisjoint == TableIds \cap RecordIds = {}

VARIABLES
    state,            \* Transaction::state_, "NONE" before begin()
    lock_set,         \* Transaction::lock_set_
    lock_table,       \* the keys present in lock_table_
    request_queue,    \* the requests of a queue; the code never uses their order
    group_lock_mode   \* LockRequestQueue::group_lock_mode_

lockVars == <<state, lock_set, lock_table, request_queue, group_lock_mode>>

Ids == TableIds \cup RecordIds

LockMode == {"S", "X", "IS", "IX", "SIX"}

GroupLockMode == LockMode \cup {"NON_LOCK"}

\* The modes the public wrappers lock_*_on_record and lock_*_on_table ask for;
\* no wrapper asks for S_IX.
RequestModes(id) == IF id \in RecordIds THEN {"S", "X"} ELSE {"S", "X", "IS", "IX"}

LockRequest == [txn : Txns, mode : LockMode]

TransactionState == {"NONE", "DEFAULT", "GROWING", "SHRINKING", "COMMITTED", "ABORTED"}

\* SetTransaction never hands a finished transaction to an executor.
Usable(t) == state[t] \in {"DEFAULT", "GROWING", "SHRINKING"}

-----------------------------------------------------------------------------

is_compatible(req, held) ==
    \/ req = "IS"  /\ held # "X"
    \/ req = "IX"  /\ held \in {"IS", "IX"}
    \/ req = "S"   /\ held \in {"IS", "S"}
    \/ req = "SIX" /\ held = "IS"

is_stronger(held, req) ==
    \/ held = "X"
    \/ held = req
    \/ held = "SIX" /\ req \in {"S", "IS", "IX"}
    \/ held \in {"S", "IX"} /\ req = "IS"

HasMode(queue, mode) == \E r \in queue : r.mode = mode

\* Mutant: the weakest mode of the queue instead of the strongest.
WeakestMode(queue) ==
    IF HasMode(queue, "IS") THEN "IS" ELSE
    IF HasMode(queue, "IX") THEN "IX" ELSE
    IF HasMode(queue, "S") THEN "S" ELSE
    IF HasMode(queue, "SIX") THEN "SIX" ELSE
    IF HasMode(queue, "X") THEN "X" ELSE "NON_LOCK"

\* The mode update_group_lock_mode computes for a queue.
update_group_lock_mode(queue) ==
    IF HasMode(queue, "X") THEN "X" ELSE
    IF HasMode(queue, "SIX") THEN "SIX" ELSE
    IF HasMode(queue, "S") THEN "S" ELSE
    IF HasMode(queue, "IX") THEN "IX" ELSE
    IF HasMode(queue, "IS") THEN "IS" ELSE "NON_LOCK"

-----------------------------------------------------------------------------
(* acquire_lock, by outcome *)

Holds(t, id) == \E r \in request_queue[id] : r.txn = t

Covered(t, id, mode) ==
    \E r \in request_queue[id] : r.txn = t /\ is_stronger(r.mode, mode)

Conflict(t, id, mode) ==
    \E r \in request_queue[id] : r.txn # t /\ ~is_compatible(mode, r.mode)

\* Mutant: the SHRINKING test is dropped.
StartAcquireAnyPhase(t, id) ==
    /\ state' = [state EXCEPT ![t] = IF @ = "DEFAULT" THEN "GROWING" ELSE @]
    /\ lock_table' = lock_table \cup {id}

\* The 2PL prologue: no lock while shrinking, the first request starts growing,
\* and operator[] makes sure the queue exists.
StartAcquire(t, id) ==
    /\ state[t] # "SHRINKING"
    /\ state' = [state EXCEPT ![t] = IF @ = "DEFAULT" THEN "GROWING" ELSE @]
    /\ lock_table' = lock_table \cup {id}

SetQueue(id, queue) ==
    /\ request_queue' = [request_queue EXCEPT ![id] = queue]
    /\ group_lock_mode' = [group_lock_mode EXCEPT ![id] = update_group_lock_mode(queue)]

\* The transaction already holds this lock or a stronger one.
AlreadyHeld(t, id, mode) ==
    /\ StartAcquire(t, id)
    /\ Covered(t, id, mode)
    /\ UNCHANGED <<lock_set, request_queue, group_lock_mode>>

\* Mutant: an upgrade is not tested against the other holders.
UpgradeUnchecked(t, id, mode) ==
    /\ StartAcquire(t, id)
    /\ Holds(t, id) /\ ~Covered(t, id, mode)
    /\ SetQueue(id, {IF r.txn = t THEN [txn |-> t, mode |-> mode] ELSE r :
                        r \in request_queue[id]})
    /\ UNCHANGED lock_set

\* The held request is overwritten with the requested mode.
Upgrade(t, id, mode) ==
    /\ StartAcquire(t, id)
    /\ Holds(t, id) /\ ~Covered(t, id, mode) /\ ~Conflict(t, id, mode)
    /\ SetQueue(id, {IF r.txn = t THEN [txn |-> t, mode |-> mode] ELSE r :
                        r \in request_queue[id]})
    /\ UNCHANGED lock_set

\* Mutant: a repeated request is appended instead of upgrading the held one.
GrantAgain(t, id, mode) ==
    /\ StartAcquire(t, id)
    /\ ~Covered(t, id, mode) /\ ~Conflict(t, id, mode)
    /\ SetQueue(id, request_queue[id] \cup {[txn |-> t, mode |-> mode]})
    /\ lock_set' = [lock_set EXCEPT ![t] = @ \cup {id}]

\* Mutant: the lock is not entered in lock_set_.
GrantUnrecorded(t, id, mode) ==
    /\ StartAcquire(t, id)
    /\ ~Holds(t, id) /\ ~Conflict(t, id, mode)
    /\ SetQueue(id, request_queue[id] \cup {[txn |-> t, mode |-> mode]})
    /\ UNCHANGED lock_set

\* A new request is appended, granted.
Grant(t, id, mode) ==
    /\ StartAcquire(t, id)
    /\ ~Holds(t, id) /\ ~Conflict(t, id, mode)
    /\ SetQueue(id, request_queue[id] \cup {[txn |-> t, mode |-> mode]})
    /\ lock_set' = [lock_set EXCEPT ![t] = @ \cup {id}]

\* DEADLOCK_PREVENTION: the request conflicts and the caller is told to abort.
Refuse(t, id, mode) ==
    /\ StartAcquire(t, id)
    /\ ~Covered(t, id, mode) /\ Conflict(t, id, mode)
    /\ UNCHANGED <<lock_set, request_queue, group_lock_mode>>

acquire_lock(t, id, mode) ==
    AlreadyHeld(t, id, mode) \/ Upgrade(t, id, mode) \/ Grant(t, id, mode)

\* LOCK_ON_SHIRINKING: the exception leaves everything as it is.
RefuseShrinking(t, id, mode) ==
    /\ state[t] = "SHRINKING"
    /\ UNCHANGED lockVars

-----------------------------------------------------------------------------
(* unlock *)

ToShrinking(s) == IF s \in {"COMMITTED", "ABORTED"} THEN s ELSE "SHRINKING"

\* Mutant: the queue of the last holder stays in the table.
UnlockKeepsQueue(t, id) ==
    /\ state' = [state EXCEPT ![t] = ToShrinking(@)]
    /\ UNCHANGED lock_table
    /\ IF Holds(t, id)
       THEN /\ SetQueue(id, {r \in request_queue[id] : r.txn # t})
            /\ lock_set' = [lock_set EXCEPT ![t] = @ \ {id}]
       ELSE UNCHANGED <<lock_set, request_queue, group_lock_mode>>

unlock(t, id) ==
    /\ state' = [state EXCEPT ![t] = ToShrinking(@)]
    /\ IF Holds(t, id)
       THEN LET rest == {r \in request_queue[id] : r.txn # t}
            IN  /\ SetQueue(id, rest)
                /\ lock_table' = IF rest = {} THEN lock_table \ {id} ELSE lock_table
                /\ lock_set' = [lock_set EXCEPT ![t] = @ \ {id}]
       ELSE UNCHANGED <<lock_set, lock_table, request_queue, group_lock_mode>>

-----------------------------------------------------------------------------
(* What TransactionManager does to a transaction's state *)

\* begin(): a new Transaction object.
BeginTxn(t) ==
    /\ state[t] = "NONE"
    /\ state' = [state EXCEPT ![t] = "DEFAULT"]
    /\ UNCHANGED <<lock_set, lock_table, request_queue, group_lock_mode>>

\* The end of commit() and abort(): lock_set->clear() and the final state.
EndTxn(t, final) ==
    /\ state[t] # "NONE"
    /\ state' = [state EXCEPT ![t] = final]
    /\ lock_set' = [lock_set EXCEPT ![t] = {}]
    /\ UNCHANGED <<lock_table, request_queue, group_lock_mode>>

LockInit ==
    /\ state = [t \in Txns |-> "NONE"]
    /\ lock_set = [t \in Txns |-> {}]
    /\ lock_table = {}
    /\ request_queue = [id \in Ids |-> {}]
    /\ group_lock_mode = [id \in Ids |-> "NON_LOCK"]

Acquire(t, id, mode) ==
    /\ Usable(t)
    /\ \/ acquire_lock(t, id, mode)
       \/ Refuse(t, id, mode)
       \/ RefuseShrinking(t, id, mode)

\* The environment ends a transaction only after unlocking every lock: the
\* loops of commit() and abort() (module TransactionManager) discharge this.
LockNext ==
    \E t \in Txns :
        \/ BeginTxn(t)
        \/ \E id \in Ids : \E mode \in RequestModes(id) : Acquire(t, id, mode)
        \/ \E id \in Ids : Usable(t) /\ unlock(t, id)
        \/ \E final \in {"COMMITTED", "ABORTED"} : lock_set[t] = {} /\ EndTxn(t, final)

LockSpec == LockInit /\ [][LockNext]_lockVars

-----------------------------------------------------------------------------
(* Properties *)

LockTypeOK ==
    /\ state \in [Txns -> TransactionState]
    /\ lock_set \in [Txns -> SUBSET Ids]
    /\ lock_table \in SUBSET Ids
    /\ request_queue \in [Ids -> SUBSET LockRequest]
    /\ group_lock_mode \in [Ids -> GroupLockMode]

\* No two transactions hold locks on one item that exclude each other, in
\* whichever order they asked, upgraded and released (acquire_lock tests only
\* the new request against the held ones, so this needs the matrix to be
\* symmetric and an upgrade to be tested like a new request).
GrantedCompatible ==
    \A id \in Ids : \A r1, r2 \in request_queue[id] :
        r1.txn # r2.txn => is_compatible(r1.mode, r2.mode)

\* A transaction has one request per queue: acquire_lock stops at the first
\* one it finds, and unlock erases only that one.
OneRequestPerTxn ==
    \A id \in Ids : \A r1, r2 \in request_queue[id] :
        r1.txn = r2.txn => r1 = r2

\* lock_set_ names exactly the queues that hold a request of the transaction,
\* so the loop of commit() and abort() over lock_set_ releases everything.
LockSetMatchesQueues ==
    \A t \in Txns, id \in Ids : id \in lock_set[t] <=> Holds(t, id)

\* lock_table_ holds the queues in use and no others: no entry leaks when a
\* request is refused or the last holder leaves.
LockTableExact ==
    \A id \in Ids : id \in lock_table <=> request_queue[id] # {}

\* group_lock_mode_ summarises its queue: a mode is compatible with the group
\* mode exactly when it is compatible with every request in the queue.
GroupModeDecides ==
    /\ LockTypeOK
    /\ \A id \in Ids : request_queue[id] # {} =>
          \A mode \in LockMode :
              is_compatible(mode, group_lock_mode[id]) <=>
                  \A r \in request_queue[id] : is_compatible(mode, r.mode)

\* Two-phase: after its first unlock a transaction gains no lock and no mode.
TwoPhase ==
    [][\A t \in Txns : state[t] \in {"SHRINKING", "COMMITTED", "ABORTED"} =>
            \A id \in Ids : \A r \in request_queue'[id] :
                r.txn = t => r \in request_queue[id]]_lockVars

=============================================================================
