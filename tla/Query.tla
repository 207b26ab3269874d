------------------------------- MODULE Query -------------------------------
(***************************************************************************)
(* One client session, from the text of a statement to its answer:         *)
(* client_handler (rmdb.cpp) parses and analyses it, the planner makes a   *)
(* plan, Portal::start and Portal::run execute it (portal.h,               *)
(* execution_manager.cpp, the executors), and TransactionManager::commit or*)
(* abort ends a transaction.  UPDATE, DELETE and INSERT change the rows and*)
(* every index of the table one call at a time; any of those calls may     *)
(* throw (a page that cannot be fetched), and the statement then stops     *)
(* where it is.                                                            *)
(*                                                                         *)
(* A scenario is the set of databases it may start from and the statements *)
(* its client may send.  Locks and other sessions are in TransactionManager*)
(* and page files and B+ tree nodes in RecordFile and BPlusTree: here a    *)
(* table is a function from rids to rows and an index a set of entries.    *)
(***************************************************************************)
EXTENDS Executors

CONSTANTS
    Scenarios,      \* names
    Databases,      \* [scenario -> set of initial databases]
    Repertoire,     \* [scenario -> set of statements]
    MaxChanges,     \* bound on the INSERT, UPDATE and DELETE statements of a behaviour
    MaxFaults       \* bound on the calls that throw

ASSUME BoundAssumption == MaxChanges \in Nat /\ MaxFaults \in Nat

VARIABLES
    scenario,
    db,             \* [rows, indexes, ix], see Executors
    phase,          \* where client_handler is with the statement
    stmt,           \* the statement, as parsed
    plan,           \* from the planner
    exec,           \* the executor tree of a SELECT
    rids,           \* what Portal::start collected for UPDATE and DELETE
    todo,           \* the calls UPDATE, DELETE or INSERT has yet to make
    out,            \* the tuples select_from has printed
    answer,         \* what the client reads: "ok" or "failure"
    mode,           \* txn_mode: an explicit transaction is open
    write_set,      \* the write records of the transaction
    changes, faults,
    before,         \* history: the database and the fault count when the statement arrived
    begun,          \* history: the database when the transaction began, and dirty then
    dirty           \* history: a statement was cut short and not rolled back

vars == <<scenario, db, phase, stmt, plan, exec, rids, todo, out, answer, mode, write_set,
          changes, faults, before, begun, dirty>>

DmlOps == {"insert", "update", "delete"}
NoExec == [kind |-> "none", err |-> "ok"]

Init ==
    /\ scenario \in Scenarios
    /\ db \in Databases[scenario]
    /\ phase = "idle" /\ stmt = NoStmt /\ plan = NoPlan /\ exec = NoExec
    /\ rids = <<>> /\ todo = <<>> /\ out = <<>> /\ answer = "ok"
    /\ mode = FALSE /\ write_set = <<>>
    /\ changes = 0 /\ faults = 0
    /\ before = [db |-> db, faults |-> 0] /\ begun = [db |-> db, dirty |-> FALSE] /\ dirty = FALSE

-----------------------------------------------------------------------------
\* Calls on the record file and the indexes, and the write records, in the order the executors
\* make them.
Step(op, tab, no, key, rid, row) ==
    [op |-> op, tab |-> tab, no |-> no, key |-> key, rid |-> rid, row |-> row]

\* One call for every index of the table, in their order.
ForIndexes(op, tab, rid, row) ==
    [n \in DOMAIN db.indexes[tab] |->
        Step(op, tab, n, KeyOf(tab, db.indexes[tab][n], row), rid, <<>>)]

\* insert_entry of a key that is there, and delete_entry of one that is not, change nothing.
InsertEntry(entries, key, rid) ==
    IF \E x \in entries : x.key = key THEN entries ELSE entries \cup {[key |-> key, rid |-> rid]}
DeleteEntry(entries, key) == {x \in entries : x.key # key}

Without(f, x) == [y \in DOMAIN f \ {x} |-> f[y]]
WithRow(f, x, row) == [y \in DOMAIN f \cup {x} |-> IF y = x THEN row ELSE f[y]]

\* What a call does to the database d.
Apply(d, c) ==
    CASE c.op = "unindex" -> [d EXCEPT !.ix[c.tab][c.no] = DeleteEntry(@, c.key)]
      [] c.op = "index" -> [d EXCEPT !.ix[c.tab][c.no] = InsertEntry(@, c.key, c.rid)]
      [] c.op = "store" -> [d EXCEPT !.rows[c.tab] = WithRow(@, c.rid, c.row)]
      [] c.op = "erase" -> [d EXCEPT !.rows[c.tab] = Without(@, c.rid)]
      [] OTHER -> d

WriteRecord(type, tab, rid, row) == Step(type, tab, 0, <<>>, rid, row)
WriteTypes == {"INSERT_TUPLE", "DELETE_TUPLE", "UPDATE_TUPLE"}

\* RmFileHandle::insert_record takes the first free slot of the first page with room.
\* Mutant: the slot after the last of as many records, taken or not.
RidAfterCount(tab) == Cardinality(DOMAIN db.rows[tab]) + 1
FreeRid(tab) == Least(1..(Cardinality(DOMAIN db.rows[tab]) + 1) \ DOMAIN db.rows[tab])

-----------------------------------------------------------------------------
\* The handler has an answer; the statement's resources are dropped.
Answer(a) ==
    /\ phase' = "done" /\ answer' = a
    /\ plan' = NoPlan /\ exec' = NoExec /\ rids' = <<>> /\ todo' = <<>>

\* yyparse, do_analyze and plan_query.
Submit(s) ==
    /\ phase = "idle"
    /\ s.op \in DmlOps => changes < MaxChanges
    /\ stmt' = s /\ before' = [db |-> db, faults |-> faults] /\ out' = <<>>
    /\ changes' = IF s.op \in DmlOps THEN changes + 1 ELSE changes
    /\ IF Analyzes(s)
       THEN /\ phase' = "planned" /\ plan' = PlanQuery(DoAnalyze(s), db.indexes)
            /\ UNCHANGED <<exec, rids, todo, answer>>
       ELSE Answer("failure")
    /\ UNCHANGED <<scenario, db, mode, write_set, faults, begun, dirty>>

\* Portal::start: the constructors run; a failed assert in one ends the process.
Start ==
    /\ phase = "planned"
    /\ stmt.op \in {"select", "update", "delete"}
    /\ LET e == ConvertPlan(plan)
           found == CollectRids(Begin(e, db), db, <<>>)
       IN CASE e.err = "crash" -> phase' = "crashed" /\ UNCHANGED <<plan, exec, rids, todo, answer>>
            [] e.err = "failure" -> Answer("failure")
            [] e.err = "ok" /\ stmt.op = "select" ->
                  /\ phase' = "started" /\ exec' = e
                  /\ UNCHANGED <<plan, rids, todo, answer>>
            [] e.err = "ok" /\ stmt.op # "select" /\ found.err # "ok" -> Answer("failure")
            [] e.err = "ok" /\ stmt.op # "select" /\ found.err = "ok" ->
                  /\ phase' = "started" /\ rids' = found.rids
                  /\ UNCHANGED <<plan, exec, todo, answer>>
    /\ UNCHANGED <<scenario, db, stmt, out, mode, write_set, changes, faults, before, begun,
                   dirty>>

\* select_from: beginTuple, then one tuple per round.
Position(e) ==
    IF e.err # "ok" THEN Answer("failure")
    ELSE IF IsEnd(e) THEN Answer("ok")
    ELSE phase' = "fetching" /\ exec' = e /\ UNCHANGED <<plan, rids, todo, answer>>

OpenSelect ==
    /\ phase = "started" /\ stmt.op = "select"
    /\ Position(Begin(exec, db))
    /\ UNCHANGED <<scenario, db, stmt, out, mode, write_set, changes, faults, before, begun,
                   dirty>>

Fetch ==
    /\ phase = "fetching"
    /\ out' = Append(out, NextOf(exec, db))
    /\ Position(Advance(exec, db))
    /\ UNCHANGED <<scenario, db, stmt, mode, write_set, changes, faults, before, begun, dirty>>

-----------------------------------------------------------------------------
\* The executors of INSERT, UPDATE and DELETE check everything first, then make their calls.
Perform(calls) ==
    IF calls = <<>> THEN Answer("ok")
    ELSE phase' = "changing" /\ todo' = calls /\ UNCHANGED <<plan, exec, rids, answer>>

Unchecked ==
    UNCHANGED <<scenario, db, stmt, out, mode, write_set, changes, faults, before, begun, dirty>>

\* InsertExecutor: the table, the number of values, the casts, then the unique indexes.
InsertRow(s) == [i \in DOMAIN s.vals |-> CastTo(s.vals[i], Schema[s.tab][i].type).val]

InsertOk(s) ==
    /\ s.tab \in Tables
    /\ Len(s.vals) = Len(Schema[s.tab])
    /\ \A i \in DOMAIN s.vals : Storable(s.vals[i], Schema[s.tab][i])
    /\ \A n \in DOMAIN db.indexes[s.tab] :
          \A x \in db.ix[s.tab][n] : x.key # KeyOf(s.tab, db.indexes[s.tab][n], InsertRow(s))

RunInsert ==
    /\ phase = "planned" /\ stmt.op = "insert"
    /\ IF InsertOk(stmt)
       THEN LET row == InsertRow(stmt)
                rid == FreeRid(stmt.tab)
            IN Perform(<<Step("store", stmt.tab, 0, <<>>, rid, row),
                         WriteRecord("INSERT_TUPLE", stmt.tab, rid, <<>>)>>
                       \o ForIndexes("index", stmt.tab, rid, row))
       ELSE Answer("failure")
    /\ Unchecked

DeleteCalls(tab, rid) ==
    LET row == db.rows[tab][rid]
    IN <<WriteRecord("DELETE_TUPLE", tab, rid, row)>>
       \o ForIndexes("unindex", tab, rid, row)
       \o <<Step("erase", tab, 0, <<>>, rid, <<>>)>>

RunDelete ==
    /\ phase = "started" /\ stmt.op = "delete"
    /\ Perform(FlattenSeq([i \in DOMAIN rids |-> DeleteCalls(stmt.tab, rids[i])]))
    /\ Unchecked

\* UpdateExecutor: the record with the set clauses applied.
Updated(q, row) ==
    FoldLeft(LAMBDA r, set :
                [r EXCEPT ![GetCol(TableCols(q.tab), Col(q.tab, set.name))] = set.val.val],
             row, q.sets)

\* The new keys of the batch clash neither with each other nor with a row outside of it.
\* Mutant: the check against the other rows of the batch (seen) is left out.
KeysFreeOutside(q) ==
    \A n \in DOMAIN db.indexes[q.tab] : \A i \in DOMAIN rids : \A x \in db.ix[q.tab][n] :
        x.key = KeyOf(q.tab, db.indexes[q.tab][n], Updated(q, db.rows[q.tab][rids[i]]))
            => \E j \in DOMAIN rids : rids[j] = x.rid
UniqueAfter(q) ==
    \A n \in DOMAIN db.indexes[q.tab] :
        LET key(i) == KeyOf(q.tab, db.indexes[q.tab][n], Updated(q, db.rows[q.tab][rids[i]]))
        IN \A i \in DOMAIN rids :
              /\ \A j \in 1..(i - 1) : key(j) # key(i)
              /\ \A x \in db.ix[q.tab][n] :
                    x.key = key(i) => \E j \in DOMAIN rids : rids[j] = x.rid

UpdateOk(q) ==
    /\ \A i \in DOMAIN q.sets : Storable(q.sets[i].val, ColMeta(q.tab, q.sets[i].name))
    /\ UniqueAfter(q)

UpdateCalls(q, rid) ==
    LET row == db.rows[q.tab][rid]
    IN <<WriteRecord("UPDATE_TUPLE", q.tab, rid, row)>>
       \o ForIndexes("unindex", q.tab, rid, row)
       \o <<Step("store", q.tab, 0, <<>>, rid, Updated(q, row))>>
       \o ForIndexes("index", q.tab, rid, Updated(q, row))

RunUpdate ==
    /\ phase = "started" /\ stmt.op = "update"
    /\ LET q == DoAnalyze(stmt)
       IN IF UpdateOk(q)
          THEN Perform(FlattenSeq([i \in DOMAIN rids |-> UpdateCalls(q, rids[i])]))
          ELSE Answer("failure")
    /\ Unchecked

\* The next call returns.
MakeCall ==
    /\ phase = "changing"
    /\ LET c == Head(todo)
       IN IF c.op \in WriteTypes
          THEN write_set' = Append(write_set, c) /\ UNCHANGED db
          ELSE db' = Apply(db, c) /\ UNCHANGED write_set
    /\ IF Tail(todo) = <<>> THEN Answer("ok")
       ELSE todo' = Tail(todo) /\ UNCHANGED <<phase, plan, exec, rids, answer>>
    /\ UNCHANGED <<scenario, stmt, out, mode, changes, faults, before, begun, dirty>>

\* The next call throws: the handler catches the RMDBError and answers failure.
CallThrows ==
    /\ phase = "changing" /\ faults < MaxFaults
    /\ Head(todo).op \notin WriteTypes
    /\ Answer("failure")
    /\ faults' = faults + 1
    /\ dirty' = (dirty \/ db # before.db)
    /\ UNCHANGED <<scenario, db, stmt, out, mode, write_set, changes, before, begun>>

-----------------------------------------------------------------------------
\* One turn of the loop of TransactionManager::abort.
\* Mutant: the entry of the new row stays in the indexes when an update is undone.
UndoKeepsEntry(d, w) ==
    LET steps(op, row) == ForIndexes(op, w.tab, w.rid, row)
    IN FoldLeft(Apply, d,
                CASE w.op = "INSERT_TUPLE" ->
                        steps("unindex", d.rows[w.tab][w.rid])
                        \o <<Step("erase", w.tab, 0, <<>>, w.rid, <<>>)>>
                  [] OTHER ->
                        <<Step("store", w.tab, 0, <<>>, w.rid, w.row)>> \o steps("index", w.row))
UndoWrite(d, w) ==
    LET steps(op, row) == ForIndexes(op, w.tab, w.rid, row)
        restored == <<Step("store", w.tab, 0, <<>>, w.rid, w.row)>> \o steps("index", w.row)
    IN FoldLeft(Apply, d,
                CASE w.op = "INSERT_TUPLE" ->
                        steps("unindex", d.rows[w.tab][w.rid])
                        \o <<Step("erase", w.tab, 0, <<>>, w.rid, <<>>)>>
                  [] w.op = "DELETE_TUPLE" -> restored
                  [] w.op = "UPDATE_TUPLE" ->
                        steps("unindex", d.rows[w.tab][w.rid]) \o restored)

BeginTxn ==
    /\ phase = "planned" /\ stmt.op = "begin"
    /\ mode' = TRUE
    /\ Answer("ok")
    /\ UNCHANGED <<scenario, db, stmt, out, write_set, changes, faults, before, begun, dirty>>

CommitTxn ==
    /\ phase = "planned" /\ stmt.op = "commit"
    /\ mode' = FALSE /\ write_set' = <<>>
    /\ Answer("ok")
    /\ UNCHANGED <<scenario, db, stmt, out, changes, faults, before, begun, dirty>>

RollbackTxn ==
    /\ phase = "planned" /\ stmt.op = "rollback"
    /\ db' = FoldLeft(UndoWrite, db, Reverse(write_set))
    /\ mode' = FALSE /\ write_set' = <<>>
    /\ dirty' = begun.dirty
    /\ Answer("ok")
    /\ UNCHANGED <<scenario, stmt, out, changes, faults, before, begun>>

\* The answer is sent; outside an explicit transaction the statement's own one commits, also
\* after a failure.
Finish ==
    /\ phase = "done"
    /\ phase' = "idle" /\ stmt' = NoStmt /\ out' = <<>> /\ answer' = "ok"
    /\ write_set' = IF mode THEN write_set ELSE <<>>
    /\ before' = [db |-> db, faults |-> faults]
    /\ begun' = IF mode THEN begun ELSE [db |-> db, dirty |-> dirty]
    /\ UNCHANGED <<scenario, db, plan, exec, rids, todo, mode, changes, faults, dirty>>

Next ==
    \/ \E s \in Repertoire[scenario] : Submit(s)
    \/ Start \/ OpenSelect \/ Fetch
    \/ RunInsert \/ RunDelete \/ RunUpdate \/ MakeCall \/ CallThrows
    \/ BeginTxn \/ CommitTxn \/ RollbackTxn \/ Finish

Spec == Init /\ [][Next]_vars

-----------------------------------------------------------------------------
(***************************************************************************)
(* What a statement means, defined on the text of the statement and the    *)
(* database before it, without the analyzer, the planner or the indexes.   *)
(***************************************************************************)
FromTables(s) == IF s.op = "select" THEN ToSet(s.tabs) ELSE {s.tab}
OwnerOf(s, col) ==
    IF col.tab # "" THEN col.tab ELSE CHOOSE t \in FromTables(s) : HasCol(t, col.name)
TypeOf(s, col) == ColMeta(OwnerOf(s, col), col.name).type
ValueIn(s, d, m, col) ==
    LET t == OwnerOf(s, col) IN d.rows[t][m[t]][GetCol(TableCols(t), Col(t, col.name))]

Satisfies(s, d, m, cond) ==
    LET type == TypeOf(s, cond.lhs)
    IN EvalCompare(CompareValue(ValueIn(s, d, m, cond.lhs),
                                IF cond.is_rhs_val THEN CastTo(cond.rhs_val, type).val
                                ELSE ValueIn(s, d, m, cond.rhs_col), type), cond.op)

\* The combinations of rows, one of each table, that satisfy the WHERE clause.
Combinations(s, d) ==
    {m \in [FromTables(s) -> UNION {DOMAIN d.rows[t] : t \in FromTables(s)}] :
        \A t \in FromTables(s) : m[t] \in DOMAIN d.rows[t]}
Matches(s, d) ==
    {m \in Combinations(s, d) : \A i \in DOMAIN s.conds : Satisfies(s, d, m, s.conds[i])}

\* The columns a SELECT asks for.
Columns(s) ==
    IF s.cols # <<>> THEN s.cols
    ELSE LET all == GetAllCols(s.tabs) IN [i \in DOMAIN all |-> Selected(all[i], "none")]
Image(s, d, m) == [i \in DOMAIN Columns(s) |-> ValueIn(s, d, m, Columns(s)[i])]

\* m comes before n in the order of the ORDER BY clause.
Precedes(s, d, m, n) ==
    LET cmp(i) == CompareValue(ValueIn(s, d, m, s.order[i].col), ValueIn(s, d, n, s.order[i].col),
                               TypeOf(s, s.order[i].col))
    IN \E i \in DOMAIN s.order :
          /\ IF s.order[i].desc THEN cmp(i) > 0 ELSE cmp(i) < 0
          /\ \A j \in 1..(i - 1) : cmp(j) = 0

\* The tuples are the images of the matches, each as often as it occurs, in an order the ORDER BY
\* clause allows, cut off at the limit.
RowsExact(s, d, tuples) ==
    LET M == Matches(s, d)
        peers(m) == {n \in M : ~Precedes(s, d, m, n) /\ ~Precedes(s, d, n, m)}
        places(m) == LET ahead == Cardinality({n \in M : Precedes(s, d, n, m)})
                     IN (ahead + 1)..(ahead + Cardinality(peers(m))) \cap DOMAIN tuples
    IN /\ Len(tuples) = IF s.limit >= 0 /\ s.limit < Cardinality(M) THEN s.limit ELSE Cardinality(M)
       /\ \A m \in M : \A p \in places(m) :
             Cardinality({q \in places(m) : tuples[q] = tuples[p]})
                \in 1..Cardinality({n \in peers(m) : Image(s, d, n) = tuples[p]})

\* One row of aggregates.  A SUM is exact while a double holds every partial sum, whatever the order
\* of the rows, and the result is in the range of its column; beyond that nothing is claimed, nor of
\* a SUM of a FLOAT that a float cannot hold, or of strings and datetimes.
AggregateExact(s, d, tuple) ==
    LET M == Matches(s, d)
        value(m, i) == ValueIn(s, d, m, Columns(s)[i])
        type(i) == TypeOf(s, Columns(s)[i])
        sum(i) == MapThenSumSet(LAMBDA m : value(m, i), M)
        exact(i) == /\ MapThenSumSet(LAMBDA m : Magnitude(value(m, i)), M) <= 2^DoubleBits
                    /\ CASE type(i) = "INT" -> sum(i) \in IntMin..IntMax
                         [] type(i) = "BIGINT" -> sum(i) \in BigMin..BigMax
                         [] type(i) = "FLOAT" -> sum(i) = ToFloat(sum(i))
        bound(i, op) == IF M = {} THEN tuple[i] = ZeroOf(type(i))
                        ELSE /\ \E m \in M : tuple[i] = value(m, i)
                             /\ \A m \in M : EvalCompare(CompareValue(tuple[i], value(m, i), type(i)), op)
    IN \A i \in DOMAIN Columns(s) :
          CASE Columns(s)[i].agg = "count" -> tuple[i] = Cardinality(M)
            [] Columns(s)[i].agg = "max" -> bound(i, ">=")
            [] Columns(s)[i].agg = "min" -> bound(i, "<=")
            [] Columns(s)[i].agg = "sum" ->
                  (type(i) \in {"INT", "BIGINT", "FLOAT"} /\ exact(i)) => tuple[i] = sum(i)
            [] OTHER -> M # {} => \E m \in M : tuple[i] = value(m, i)

IsAggregate(s) == \E i \in DOMAIN s.cols : s.cols[i].agg # "none"

\* The rows of its table after an UPDATE, DELETE or INSERT.
RowsAfter(s, d) ==
    LET rows == d.rows[s.tab]
        hit(r) == [t \in {s.tab} |-> r] \in Matches(s, d)
        set(name) == SelectSeq(s.sets, LAMBDA c : c.name = name)
    IN CASE s.op = "delete" -> [r \in {x \in DOMAIN rows : ~hit(x)} |-> rows[r]]
         [] s.op = "update" ->
               [r \in DOMAIN rows |->
                   [i \in DOMAIN rows[r] |->
                       LET c == Schema[s.tab][i]
                       IN IF hit(r) /\ set(c.name) # <<>>
                          THEN CastTo(Last(set(c.name)).val, c.type).val ELSE rows[r][i]]]
         [] s.op = "insert" ->
               LET r == Least(1..(Cardinality(DOMAIN rows) + 1) \ DOMAIN rows)
               IN [x \in DOMAIN rows \cup {r} |->
                      IF x # r THEN rows[x]
                      ELSE [i \in DOMAIN s.vals |-> CastTo(s.vals[i], Schema[s.tab][i].type).val]]

\* Two rows have the same key on an index of the table.
Duplicates(tab, rows, indexes) ==
    \E n \in DOMAIN indexes : \E r, q \in DOMAIN rows :
        r # q /\ KeyOf(tab, indexes[n], rows[r]) = KeyOf(tab, indexes[n], rows[q])

\* A statement the client should see refused: a name that is unknown or ambiguous, a value its
\* column cannot hold, a wrong number of values, a duplicate key.
Refused(s, d) ==
    \/ ~Analyzes(s)
    \/ s.op = "select" /\ \E i \in DOMAIN s.order : Named(GetAllCols(s.tabs), s.order[i].col) = <<>>
    \/ /\ s.op = "insert"
       /\ \/ s.tab \notin Tables
          \/ Len(s.vals) # Len(Schema[s.tab])
          \/ \E i \in DOMAIN s.vals : ~Storable(s.vals[i], Schema[s.tab][i])
    \/ s.op = "update" /\ \E i \in DOMAIN s.sets : ~Storable(s.sets[i].val, ColMeta(s.tab, s.sets[i].name))
    \/ s.op \in {"insert", "update"} /\ Duplicates(s.tab, RowsAfter(s, d), d.indexes[s.tab])

\* The WHERE clause bounds an indexed column from below and above so that nothing is between.
EmptyRange(s, d) ==
    \E i, j \in DOMAIN s.conds :
        LET lo == s.conds[i]
            hi == s.conds[j]
            type == TypeOf(s, lo.lhs)
            cmp == CompareValue(CastTo(lo.rhs_val, type).val, CastTo(hi.rhs_val, type).val, type)
        IN /\ lo.is_rhs_val /\ hi.is_rhs_val
           /\ lo.op \in {">", ">="} /\ hi.op \in {"<", "<="}
           /\ OwnerOf(s, lo.lhs) = OwnerOf(s, hi.lhs) /\ lo.lhs.name = hi.lhs.name
           /\ cmp > 0 \/ (cmp = 0 /\ lo.op = ">" /\ hi.op = "<")
           /\ \E n \in DOMAIN d.indexes[OwnerOf(s, lo.lhs)] :
                 \E k \in DOMAIN d.indexes[OwnerOf(s, lo.lhs)][n] :
                    d.indexes[OwnerOf(s, lo.lhs)][n][k] = lo.lhs.name

\* A condition compares two columns of a table that is not the first one of the FROM clause.
ForeignCondition(s) ==
    s.op = "select" /\ \E i \in DOMAIN s.conds :
        /\ ~s.conds[i].is_rhs_val
        /\ OwnerOf(s, s.conds[i].lhs) = OwnerOf(s, s.conds[i].rhs_col)
        /\ OwnerOf(s, s.conds[i].lhs) # s.tabs[1]

-----------------------------------------------------------------------------
InDomain(v, col) ==
    CASE col.type = "INT" -> v \in IntMin..IntMax
      [] col.type = "BIGINT" -> v \in BigMin..BigMax
      [] col.type = "FLOAT" -> v \in Int /\ v = ToFloat(v)
      [] col.type = "STRING" -> v.len \in 0..col.len
      [] col.type = "DATETIME" -> Len(v) = 6

\* Stored values fit their columns: an implicit cast on the way in (Value::cast_to, init_raw) never
\* lets a value through that the column's bytes cannot hold.
TypeOK ==
    /\ scenario \in Scenarios
    /\ phase \in {"idle", "planned", "started", "fetching", "changing", "done", "crashed"}
    /\ answer \in {"ok", "failure"} /\ mode \in BOOLEAN /\ dirty \in BOOLEAN
    /\ changes \in 0..MaxChanges /\ faults \in 0..MaxFaults
    /\ \A i \in DOMAIN write_set : write_set[i].op \in WriteTypes
    /\ \A tab \in Tables : \A r \in DOMAIN db.rows[tab] : \A i \in DOMAIN Schema[tab] :
          InDomain(db.rows[tab][r][i], Schema[tab][i])

Quiet == ~dirty /\ faults = before.faults

\* A SELECT that succeeds printed exactly what its text asks for, whichever scans, join order,
\* blocks and swapped conditions the planner and the executors of execution/ came up with.
QueryExact ==
    phase = "done" /\ answer = "ok" /\ stmt.op = "select" /\ Quiet =>
        IF IsAggregate(stmt)
        THEN /\ Len(out) = (IF stmt.limit = 0 THEN 0 ELSE 1)
             /\ \A i \in DOMAIN out : AggregateExact(stmt, before.db, out[i])
        ELSE RowsExact(stmt, before.db, out)

\* A statement is refused exactly when it should be, apart from two weaknesses of the code: an
\* empty range on an indexed column makes IxScan run off the leaves (ix_scan.cpp:17), and
\* pop_conds gives a condition on two columns of one table to the first scan (planner.cpp:76),
\* where it is an unknown column or, in an index scan, a failed assert.
FailsOnly ==
    /\ phase = "done" /\ Quiet =>
          /\ answer = "ok" => ~Refused(stmt, before.db)
          /\ answer = "failure" =>
                \/ Refused(stmt, before.db)
                \/ EmptyRange(stmt, before.db)
                \/ ForeignCondition(stmt)
    /\ phase = "crashed" => ForeignCondition(stmt)

\* Between statements every index of a table holds exactly the keys of its rows, each once: the
\* unique pre-checks, the order of unindexing, storing and indexing of a batch, and the undo of a
\* rollback agree (executor_insert.h, executor_update.h, executor_delete.h, abort).
IndexesExact ==
    phase \in {"idle", "done"} /\ ~dirty =>
        \A tab \in Tables :
            /\ ~Duplicates(tab, db.rows[tab], db.indexes[tab])
            /\ \A n \in DOMAIN db.indexes[tab] :
                  db.ix[tab][n] = {[key |-> KeyOf(tab, db.indexes[tab][n], db.rows[tab][r]), rid |-> r]
                                      : r \in DOMAIN db.rows[tab]}

\* A statement that succeeds changes the rows its text says and no others, and one that is refused
\* changes nothing at all, rows and indexes, however many rows it was about.
DmlExact ==
    phase = "done" /\ Quiet /\ stmt.op # "rollback" =>
        IF stmt.op \in DmlOps /\ answer = "ok"
        THEN db.rows = [before.db.rows EXCEPT ![stmt.tab] = RowsAfter(stmt, before.db)]
        ELSE db = before.db

\* ROLLBACK brings back the rows and the indexes of the start of the transaction, also when one of
\* its statements was cut short between two calls (TransactionManager::abort).
RollbackRestores ==
    phase = "done" /\ stmt.op = "rollback" /\ ~begun.dirty => db = begun.db

=============================================================================
