---------------------------- MODULE UniqueIndex ----------------------------
(***************************************************************************)
(* What an index promises its callers: a map from keys to record positions *)
(* in which a key occurs at most once, changed by one insertion or one     *)
(* removal at a time.                                                      *)
(***************************************************************************)
CONSTANT Keys, RidOf(_)

VARIABLE entries    \* the set of <<key, rid>> pairs

Init == entries = {}

Insert(key) ==
    /\ \A entry \in entries : entry[1] # key
    /\ entries' = entries \cup {<<key, RidOf(key)>>}

Delete(key) ==
    /\ \E entry \in entries : entry[1] = key
    /\ entries' = {entry \in entries : entry[1] # key}

Next == \E key \in Keys : Insert(key) \/ Delete(key)

Spec == Init /\ [][Next]_entries

=============================================================================
