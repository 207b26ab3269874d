---------------------------- MODULE SerialStore ----------------------------
(***************************************************************************)
(* What the transactions of all sessions promise together: each takes all  *)
(* its reads and makes all its writes at one moment, its commit.  Until    *)
(* then it sees committed rows and its own writes, which nobody else sees; *)
(* an abort leaves nothing behind.                                         *)
(***************************************************************************)
CONSTANTS Txns, Tables, Slots, Values

VARIABLES
    store,  \* the committed tables
    seen,   \* the committed rows that a transaction has read
    own     \* the rows that a transaction has written, with its own values

storeVars == <<store, seen, own>>

NoRows == [place \in {} |-> CHOOSE v \in Values : TRUE]

Init ==
    /\ store \in [Tables -> [Slots -> Values]]
    /\ seen = [t \in Txns |-> {}]
    /\ own = [t \in Txns |-> NoRows]

\* A row the transaction has not written has its committed value.
Read(t, tab, slot) ==
    /\ <<tab, slot>> \notin DOMAIN own[t]
    /\ seen' = [seen EXCEPT ![t] = @ \cup {[tab |-> tab, slot |-> slot, val |-> store[tab][slot]]}]
    /\ UNCHANGED <<store, own>>

Write(t, tab, slot, val) ==
    /\ own' = [own EXCEPT ![t] =
                  [place \in DOMAIN own[t] \cup {<<tab, slot>>} |->
                      IF place = <<tab, slot>> THEN val ELSE own[t][place]]]
    /\ UNCHANGED <<store, seen>>

\* What the transaction read and what it wrote are gone from its memory.
End(t) ==
    /\ seen' = [seen EXCEPT ![t] = {}]
    /\ own' = [own EXCEPT ![t] = NoRows]

\* All reads still hold, and all writes take effect.
Commit(t) ==
    /\ \A rd \in seen[t] : store[rd.tab][rd.slot] = rd.val
    /\ store' = [tab \in Tables |-> [slot \in Slots |->
                    IF <<tab, slot>> \in DOMAIN own[t] THEN own[t][<<tab, slot>>]
                    ELSE store[tab][slot]]]
    /\ End(t)

Abort(t) ==
    /\ End(t)
    /\ UNCHANGED store

Next ==
    \E t \in Txns :
        \/ \E tab \in Tables, slot \in Slots :
              Read(t, tab, slot) \/ \E val \in Values : Write(t, tab, slot, val)
        \/ Commit(t)
        \/ Abort(t)

Spec == Init /\ [][Next]_storeVars

=============================================================================
