------------------------- MODULE LockManagerProofs -------------------------
(***************************************************************************)
(* TLAPS proofs about LockManager, for any set of transactions and locks.  *)
(***************************************************************************)
EXTENDS LockManager, TLAPS

\* group_lock_mode_ is what update_group_lock_mode computes for the queue: the
\* part of the inductive invariant from which GroupModeDecides follows.
GroupModeExact ==
    \A id \in Ids : group_lock_mode[id] = update_group_lock_mode(request_queue[id])

\* The inductive invariant: each part is preserved only with the help of the
\* others (a release of one request needs OneRequestPerTxn to free the item).
LockInv ==
    /\ LockTypeOK
    /\ OneRequestPerTxn
    /\ GrantedCompatible
    /\ LockSetMatchesQueues
    /\ LockTableExact
    /\ GroupModeExact

-----------------------------------------------------------------------------

\* is_compatible is a symmetric relation on the five modes, although the code
\* states it as a test of a request against a holder.
LEMMA CompatibleSymmetric ==
    ASSUME NEW m1 \in LockMode, NEW m2 \in LockMode, is_compatible(m1, m2)
    PROVE  is_compatible(m2, m1)
  BY DEF is_compatible, LockMode

\* update_group_lock_mode always yields a group mode.
LEMMA GroupModeType ==
    ASSUME NEW queue PROVE update_group_lock_mode(queue) \in GroupLockMode
  BY DEF update_group_lock_mode, GroupLockMode, LockMode

\* Installing a queue keeps the type and the exactness of the group modes.
LEMMA SetQueueKeeps ==
    ASSUME LockTypeOK, GroupModeExact, NEW id \in Ids,
           NEW queue \in SUBSET LockRequest, SetQueue(id, queue)
    PROVE  /\ request_queue' \in [Ids -> SUBSET LockRequest]
           /\ group_lock_mode' \in [Ids -> GroupLockMode]
           /\ request_queue'[id] = queue
           /\ \A i \in Ids : i # id => request_queue'[i] = request_queue[i]
           /\ GroupModeExact'
  <1>1. update_group_lock_mode(queue) \in GroupLockMode
    BY GroupModeType
  <1>2. /\ request_queue' = [request_queue EXCEPT ![id] = queue]
        /\ group_lock_mode' = [group_lock_mode EXCEPT ![id] = update_group_lock_mode(queue)]
    BY DEF SetQueue
  <1>3. /\ request_queue' \in [Ids -> SUBSET LockRequest]
        /\ group_lock_mode' \in [Ids -> GroupLockMode]
        /\ request_queue'[id] = queue
        /\ group_lock_mode'[id] = update_group_lock_mode(queue)
        /\ \A i \in Ids : i # id => /\ request_queue'[i] = request_queue[i]
                                    /\ group_lock_mode'[i] = group_lock_mode[i]
    BY <1>1, <1>2 DEF LockTypeOK
  <1>4. GroupModeExact'
    BY <1>3 DEF GroupModeExact
  <1>5. QED
    BY <1>3, <1>4

\* The prologue of acquire_lock changes nothing but the transaction's state
\* and the presence of the queue.
LEMMA StartAcquireKeeps ==
    ASSUME LockTypeOK, NEW t \in Txns, NEW id \in Ids, StartAcquire(t, id)
    PROVE  /\ state' \in [Txns -> TransactionState]
           /\ lock_table' \in SUBSET Ids
           /\ \A i \in Ids : i \in lock_table' <=> i \in lock_table \/ i = id
  BY DEF StartAcquire, LockTypeOK, TransactionState

-----------------------------------------------------------------------------

\* Init establishes the invariant.
LEMMA LockInitInv == LockInit => LockInv
  BY DEF LockInit, LockInv, LockTypeOK, OneRequestPerTxn, GrantedCompatible,
         LockSetMatchesQueues, LockTableExact, GroupModeExact, Holds,
         TransactionState, GroupLockMode, LockMode, update_group_lock_mode, HasMode

\* Steps that leave the queues alone.
LEMMA QueuesUntouched ==
    ASSUME LockInv, state' \in [Txns -> TransactionState], lock_table' = lock_table,
           UNCHANGED <<lock_set, request_queue, group_lock_mode>>
    PROVE  LockInv'
  BY DEF LockInv, LockTypeOK, OneRequestPerTxn, GrantedCompatible,
         LockSetMatchesQueues, LockTableExact, GroupModeExact, Holds

\* The lock is covered already: the queue exists, nothing else changes.
LEMMA AlreadyHeldInv ==
    ASSUME LockInv, NEW t \in Txns, NEW id \in Ids, NEW mode \in LockMode,
           AlreadyHeld(t, id, mode) \/ Refuse(t, id, mode)
    PROVE  LockInv'
  <1>1. /\ StartAcquire(t, id)
        /\ request_queue[id] # {}
        /\ UNCHANGED <<lock_set, request_queue, group_lock_mode>>
    BY DEF AlreadyHeld, Refuse, Covered, Conflict
  <1>2. state' \in [Txns -> TransactionState]
    BY <1>1, StartAcquireKeeps DEF LockInv
  <1>3. lock_table' = lock_table
    BY <1>1 DEF StartAcquire, LockInv, LockTableExact
  <1>4. QED
    BY <1>1, <1>2, <1>3, QueuesUntouched

\* An upgrade replaces the only request of the transaction by one that is
\* compatible with every other holder.
LEMMA UpgradeInv ==
    ASSUME LockInv, NEW t \in Txns, NEW id \in Ids, NEW mode \in LockMode,
           Upgrade(t, id, mode)
    PROVE  LockInv'
  <1> DEFINE new == [txn |-> t, mode |-> mode]
             queue == {IF r.txn = t THEN new ELSE r : r \in request_queue[id]}
  <1>1. /\ StartAcquire(t, id)
        /\ Holds(t, id) /\ ~Conflict(t, id, mode)
        /\ SetQueue(id, queue)
        /\ lock_set' = lock_set
    BY DEF Upgrade
  <1>2. request_queue[id] \in SUBSET LockRequest
    BY DEF LockInv, LockTypeOK
  <1>3. \A r \in queue : r = new \/ (r \in request_queue[id] /\ r.txn # t)
    OBVIOUS
  <1>4. \A r \in request_queue[id] : r.txn # t => r \in queue
    OBVIOUS
  <1>5. new \in queue
    BY <1>1 DEF Holds
  <1>6. /\ new \in LockRequest /\ new.txn = t /\ new.mode = mode
        /\ queue \in SUBSET LockRequest
    BY <1>2, <1>3 DEF LockRequest
  <1> HIDE DEF new, queue
  <1>7. /\ request_queue' \in [Ids -> SUBSET LockRequest]
        /\ group_lock_mode' \in [Ids -> GroupLockMode]
        /\ request_queue'[id] = queue
        /\ \A i \in Ids : i # id => request_queue'[i] = request_queue[i]
        /\ GroupModeExact'
    BY <1>1, <1>6, SetQueueKeeps DEF LockInv
  <1>8. LockTypeOK'
    BY <1>1, <1>7, StartAcquireKeeps DEF LockInv, LockTypeOK
  <1>9. OneRequestPerTxn'
    BY <1>3, <1>6, <1>7 DEF LockInv, OneRequestPerTxn
  <1>10. GrantedCompatible'
    <2>1. \A r \in request_queue[id] : r.txn # t =>
              is_compatible(mode, r.mode) /\ is_compatible(r.mode, mode)
      BY <1>1, <1>2, CompatibleSymmetric DEF Conflict, LockRequest
    <2>2. QED
      BY <2>1, <1>3, <1>6, <1>7 DEF LockInv, GrantedCompatible
  <1>11. LockSetMatchesQueues'
    <2>1. \A u \in Txns : (\E r \in queue : r.txn = u) <=>
                          (\E r \in request_queue[id] : r.txn = u)
      BY <1>1, <1>3, <1>4, <1>5, <1>6 DEF Holds
    <2>2. QED
      BY <2>1, <1>1, <1>7 DEF LockInv, LockSetMatchesQueues, Holds
  <1>12. LockTableExact'
    BY <1>1, <1>5, <1>7, StartAcquireKeeps DEF LockInv, LockTableExact
  <1>13. QED
    BY <1>7, <1>8, <1>9, <1>10, <1>11, <1>12 DEF LockInv

\* A grant adds the only request of the transaction, compatible with the rest.
LEMMA GrantInv ==
    ASSUME LockInv, NEW t \in Txns, NEW id \in Ids, NEW mode \in LockMode,
           Grant(t, id, mode)
    PROVE  LockInv'
  <1> DEFINE new == [txn |-> t, mode |-> mode]
             queue == request_queue[id] \cup {new}
  <1>1. /\ StartAcquire(t, id)
        /\ ~Holds(t, id) /\ ~Conflict(t, id, mode)
        /\ SetQueue(id, queue)
        /\ lock_set' = [lock_set EXCEPT ![t] = @ \cup {id}]
    BY DEF Grant
  <1>2. request_queue[id] \in SUBSET LockRequest
    BY DEF LockInv, LockTypeOK
  <1>3. /\ new \in LockRequest /\ new.txn = t /\ new.mode = mode
        /\ queue \in SUBSET LockRequest
    BY <1>2 DEF LockRequest
  <1>4. \A r : r \in queue <=> r = new \/ r \in request_queue[id]
    OBVIOUS
  <1> HIDE DEF new, queue
  <1>5. /\ request_queue' \in [Ids -> SUBSET LockRequest]
        /\ group_lock_mode' \in [Ids -> GroupLockMode]
        /\ request_queue'[id] = queue
        /\ \A i \in Ids : i # id => request_queue'[i] = request_queue[i]
        /\ GroupModeExact'
    BY <1>1, <1>3, SetQueueKeeps DEF LockInv
  <1>6. LockTypeOK'
    BY <1>1, <1>5, StartAcquireKeeps DEF LockInv, LockTypeOK
  <1>7. OneRequestPerTxn'
    BY <1>1, <1>3, <1>4, <1>5 DEF LockInv, OneRequestPerTxn, Holds
  <1>8. GrantedCompatible'
    <2>1. \A r \in request_queue[id] : r.txn # t =>
              is_compatible(mode, r.mode) /\ is_compatible(r.mode, mode)
      BY <1>1, <1>2, CompatibleSymmetric DEF Conflict, LockRequest
    <2>2. QED
      BY <2>1, <1>3, <1>4, <1>5 DEF LockInv, GrantedCompatible
  <1>9. LockSetMatchesQueues'
    <2>1. \A u \in Txns : (\E r \in queue : r.txn = u) <=>
                          (u = t \/ \E r \in request_queue[id] : r.txn = u)
      BY <1>3, <1>4
    <2>2. \A u \in Txns, i \in Ids :
              i \in lock_set'[u] <=> i \in lock_set[u] \/ (u = t /\ i = id)
      BY <1>1 DEF LockInv, LockTypeOK
    <2>3. QED
      BY <2>1, <2>2, <1>5 DEF LockInv, LockSetMatchesQueues, Holds
  <1>10. LockTableExact'
    BY <1>1, <1>4, <1>5, StartAcquireKeeps DEF LockInv, LockTableExact
  <1>11. QED
    BY <1>5, <1>6, <1>7, <1>8, <1>9, <1>10 DEF LockInv

\* unlock removes the transaction's only request, and the queue if it is last.
LEMMA UnlockInv ==
    ASSUME LockInv, NEW t \in Txns, NEW id \in Ids, unlock(t, id)
    PROVE  LockInv'
  <1> DEFINE rest == {r \in request_queue[id] : r.txn # t}
  <1>1. state' \in [Txns -> TransactionState]
    BY DEF unlock, ToShrinking, LockInv, LockTypeOK, TransactionState
  <1>2. CASE ~Holds(t, id)
    BY <1>1, <1>2, QueuesUntouched DEF unlock
  <1>3. CASE Holds(t, id)
    <2>1. /\ SetQueue(id, rest)
          /\ lock_table' = IF rest = {} THEN lock_table \ {id} ELSE lock_table
          /\ lock_set' = [lock_set EXCEPT ![t] = @ \ {id}]
      BY <1>3 DEF unlock
    <2>2. rest \in SUBSET LockRequest
      BY DEF LockInv, LockTypeOK
    <2>3. \A r : r \in rest <=> r \in request_queue[id] /\ r.txn # t
      OBVIOUS
    <2> HIDE DEF rest
    <2>4. /\ request_queue' \in [Ids -> SUBSET LockRequest]
          /\ group_lock_mode' \in [Ids -> GroupLockMode]
          /\ request_queue'[id] = rest
          /\ \A i \in Ids : i # id => request_queue'[i] = request_queue[i]
          /\ GroupModeExact'
      BY <2>1, <2>2, SetQueueKeeps DEF LockInv
    <2>5. LockTypeOK'
      BY <1>1, <2>1, <2>4 DEF LockInv, LockTypeOK
    <2>6. OneRequestPerTxn' /\ GrantedCompatible'
      BY <2>3, <2>4 DEF LockInv, OneRequestPerTxn, GrantedCompatible
    <2>7. LockSetMatchesQueues'
      <3>1. \A u \in Txns, i \in Ids :
                i \in lock_set'[u] <=> i \in lock_set[u] /\ ~(u = t /\ i = id)
        BY <2>1 DEF LockInv, LockTypeOK
      <3>2. \A u \in Txns : (\E r \in rest : r.txn = u) <=>
                            (u # t /\ \E r \in request_queue[id] : r.txn = u)
        BY <2>3
      <3>3. QED
        BY <3>1, <3>2, <2>4 DEF LockInv, LockSetMatchesQueues, Holds
    <2>8. LockTableExact'
      BY <1>3, <2>1, <2>4 DEF LockInv, LockTableExact, Holds
    <2>9. QED
      BY <2>4, <2>5, <2>6, <2>7, <2>8 DEF LockInv
  <1>4. QED
    BY <1>2, <1>3

\* begin() and the end of commit() and abort() touch only the state.
LEMMA StateStepInv ==
    ASSUME LockInv, NEW t \in Txns, NEW final \in {"COMMITTED", "ABORTED"},
           BeginTxn(t) \/ (lock_set[t] = {} /\ EndTxn(t, final))
    PROVE  LockInv'
  <1>1. state' \in [Txns -> TransactionState]
    BY DEF BeginTxn, EndTxn, LockInv, LockTypeOK, TransactionState
  <1>2. UNCHANGED <<lock_set, lock_table, request_queue, group_lock_mode>>
    BY DEF BeginTxn, EndTxn, LockInv, LockTypeOK
  <1>3. QED
    BY <1>1, <1>2, QueuesUntouched

\* Every step of the lock manager preserves the invariant.
LEMMA LockNextInv == LockInv /\ [LockNext]_lockVars => LockInv'
  <1> SUFFICES ASSUME LockInv, [LockNext]_lockVars PROVE LockInv'
    OBVIOUS
  <1>1. CASE UNCHANGED lockVars
    BY <1>1, QueuesUntouched DEF lockVars, LockInv, LockTypeOK
  <1>2. ASSUME NEW t \in Txns, NEW id \in Ids, NEW mode \in RequestModes(id),
               Acquire(t, id, mode)
        PROVE  LockInv'
    <2>1. mode \in LockMode
      BY DEF RequestModes, LockMode
    <2>2. CASE RefuseShrinking(t, id, mode)
      BY <1>1, <2>2 DEF RefuseShrinking
    <2>3. QED
      BY <1>2, <2>1, <2>2, AlreadyHeldInv, UpgradeInv, GrantInv DEF Acquire, acquire_lock
  <1>3. ASSUME NEW t \in Txns, NEW id \in Ids, unlock(t, id) PROVE LockInv'
    BY <1>3, UnlockInv
  <1>4. ASSUME NEW t \in Txns, NEW final \in {"COMMITTED", "ABORTED"},
               BeginTxn(t) \/ (lock_set[t] = {} /\ EndTxn(t, final))
        PROVE  LockInv'
    BY <1>4, StateStepInv
  <1>5. QED
    BY <1>1, <1>2, <1>3, <1>4 DEF LockNext

-----------------------------------------------------------------------------

\* lock_manager.cpp: LockInv holds in every reachable state.
THEOREM LockInvariant == LockSpec => []LockInv
  BY LockInitInv, LockNextInv, PTL DEF LockSpec

\* The lock manager's variables keep their types.
THEOREM LockTypeCorrect == LockSpec => []LockTypeOK
  <1>1. LockInv => LockTypeOK
    BY DEF LockInv
  <1>2. QED
    BY <1>1, LockInvariant, PTL

\* acquire_lock and unlock never let two incompatible locks on one item coexist.
THEOREM GrantedCompatibleAlways == LockSpec => []GrantedCompatible
  <1>1. LockInv => GrantedCompatible
    BY DEF LockInv
  <1>2. QED
    BY <1>1, LockInvariant, PTL

\* lock_set_ and the queues agree, so releasing lock_set_ releases everything.
THEOREM LockSetMatchesAlways == LockSpec => []LockSetMatchesQueues
  <1>1. LockInv => LockSetMatchesQueues
    BY DEF LockInv
  <1>2. QED
    BY <1>1, LockInvariant, PTL

\* acquire_lock upgrades the request a transaction has instead of adding a second one.
THEOREM OneRequestAlways == LockSpec => []OneRequestPerTxn
  <1>1. LockInv => OneRequestPerTxn
    BY DEF LockInv
  <1>2. QED
    BY <1>1, LockInvariant, PTL

\* unlock erases an entry of lock_table_ with its last request, and never earlier.
THEOREM LockTableExactAlways == LockSpec => []LockTableExact
  <1>1. LockInv => LockTableExact
    BY DEF LockInv
  <1>2. QED
    BY <1>1, LockInvariant, PTL

\* The group mode decides compatibility with the whole queue.
THEOREM GroupModeDecidesAlways == LockSpec => []GroupModeDecides
  <1>1. LockInv => GroupModeDecides
    <2> SUFFICES ASSUME LockInv, NEW id \in Ids, request_queue[id] # {},
                        NEW mode \in LockMode
                 PROVE  is_compatible(mode, group_lock_mode[id]) <=>
                          \A r \in request_queue[id] : is_compatible(mode, r.mode)
      BY DEF GroupModeDecides, LockInv
    <2>1. group_lock_mode[id] = update_group_lock_mode(request_queue[id])
      BY DEF LockInv, GroupModeExact
    <2>2. \A r \in request_queue[id] : r.mode \in LockMode
      BY DEF LockInv, LockTypeOK, LockRequest
    <2>3. \A r1, r2 \in request_queue[id] :
              r1.mode # r2.mode => is_compatible(r1.mode, r2.mode)
      BY DEF LockInv, GrantedCompatible, OneRequestPerTxn
    <2>4. \E r \in request_queue[id] : r.mode = group_lock_mode[id]
      BY <2>1, <2>2 DEF update_group_lock_mode, HasMode, LockMode
    <2>5. ASSUME is_compatible(mode, group_lock_mode[id]), NEW r \in request_queue[id]
          PROVE  is_compatible(mode, r.mode)
      <3>1. PICK g \in request_queue[id] : g.mode = group_lock_mode[id]
        BY <2>4
      <3>2. CASE g.mode = r.mode
        BY <2>5, <3>1, <3>2
      <3>3. CASE g.mode # r.mode
        <4>1. is_compatible(g.mode, r.mode)
          BY <2>3, <3>3
        <4>2. is_compatible(mode, g.mode)
          BY <2>5, <3>1
        <4>3. r.mode \in LockMode /\ g.mode \in LockMode
          BY <2>2
        <4>4. g.mode = "IS" => ~HasMode(request_queue[id], "IX") /\ r.mode # "IX"
                               /\ r.mode # "S" /\ r.mode # "SIX" /\ r.mode # "X"
          BY <2>1, <3>1 DEF update_group_lock_mode, HasMode
        <4>5. g.mode = "IX" => r.mode # "S" /\ r.mode # "SIX" /\ r.mode # "X"
          BY <2>1, <3>1 DEF update_group_lock_mode, HasMode
        <4>6. g.mode = "S" => r.mode # "SIX" /\ r.mode # "X"
          BY <2>1, <3>1 DEF update_group_lock_mode, HasMode
        <4>7. QED
          BY <3>3, <4>1, <4>2, <4>3, <4>4, <4>5, <4>6 DEF is_compatible, LockMode
      <3>4. QED
        BY <3>2, <3>3
    <2>6. QED
      BY <2>4, <2>5
  <1>2. QED
    BY <1>1, LockInvariant, PTL

\* Two-phase locking: a transaction that has released a lock gains none.
THEOREM TwoPhaseAlways == LockSpec => TwoPhase
  <1> DEFINE Shrinks == \A t \in Txns :
                 state[t] \in {"SHRINKING", "COMMITTED", "ABORTED"} =>
                    \A id \in Ids : \A r \in request_queue'[id] :
                        r.txn = t => r \in request_queue[id]
  <1>1. LockInv /\ [LockNext]_lockVars => [Shrinks]_lockVars
    <2> SUFFICES ASSUME LockInv, LockNext,
                        NEW u \in Txns, state[u] \in {"SHRINKING", "COMMITTED", "ABORTED"},
                        NEW i \in Ids, NEW r \in request_queue'[i], r.txn = u
                 PROVE  r \in request_queue[i]
      OBVIOUS
    <2>0. request_queue \in [Ids -> SUBSET LockRequest]
      BY DEF LockInv, LockTypeOK
    <2>1. ASSUME NEW t \in Txns, NEW id \in Ids, NEW mode \in RequestModes(id),
                 Acquire(t, id, mode)
          PROVE  r \in request_queue[i]
      <3>1. CASE request_queue' = request_queue
        BY <3>1
      <3>2. CASE Upgrade(t, id, mode) \/ Grant(t, id, mode)
        <4>1. t # u
          BY <2>1, <3>2 DEF Upgrade, Grant, StartAcquire, Acquire, Usable
        <4>2. QED
          BY <2>0, <3>2, <4>1 DEF Upgrade, Grant, SetQueue
      <3>3. QED
        BY <2>1, <3>1, <3>2 DEF Acquire, acquire_lock, AlreadyHeld, Refuse,
                                RefuseShrinking, lockVars
    <2>2. ASSUME NEW t \in Txns, NEW id \in Ids, unlock(t, id)
          PROVE  r \in request_queue[i]
      BY <2>0, <2>2 DEF unlock, SetQueue
    <2>3. ASSUME NEW t \in Txns, NEW final, BeginTxn(t) \/ EndTxn(t, final)
          PROVE  r \in request_queue[i]
      BY <2>3 DEF BeginTxn, EndTxn
    <2>4. QED
      BY <2>1, <2>2, <2>3 DEF LockNext
  <1>2. QED
    BY <1>1, LockInvariant, PTL DEF LockSpec, TwoPhase

=============================================================================
