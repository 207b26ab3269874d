----------------------------- MODULE Executors -----------------------------
(***************************************************************************)
(* The operators of a query: Portal::convert_plan_executor builds a tree of*)
(* executors from a plan, and select_from pulls tuples from its root with  *)
(* beginTuple, is_end, Next and nextTuple.                                 *)
(*                                                                         *)
(* An executor is a record with the fields of its class.  Errors travel up *)
(* the tree in the field err: "failure" is an RMDBError, which the client  *)
(* sees as the word failure, and "crash" a failed assert, which ends the   *)
(* server.  A tuple is the sequence of its column values.                  *)
(*                                                                         *)
(* d is the database: d.rows maps a table and a rid to a row, d.indexes a  *)
(* table to its indexes (sequences of column names), and d.ix a table to   *)
(* the entries of each index, sets of [key, rid].                          *)
(***************************************************************************)
EXTENDS Planner

CONSTANT JoinBlock  \* tuples of the left side that fit the join buffer (50 MB in the code)

ASSUME JoinBlockAssumption == JoinBlock \in Nat \ {0}

\* The elements of a finite set in the order of a strict total order.
Ranked(S, Less(_, _)) ==
    [k \in 1..Cardinality(S) |->
        CHOOSE e \in S : Cardinality({f \in S : Less(f, e)}) = k - 1]

Least(S) == CHOOSE n \in S : \A m \in S : n <= m

\* get_col: the place of a column in a tuple, 0 when it throws ColumnNotFoundError.
GetCol(cols, target) ==
    LET found == {i \in DOMAIN cols : cols[i].tab = target.tab /\ cols[i].name = target.name}
    IN IF found = {} THEN 0 ELSE Least(found)

TableCols(tab) ==
    [i \in DOMAIN Schema[tab] |->
        [tab |-> tab, name |-> Schema[tab][i].name, type |-> Schema[tab][i].type]]

\* get_index_meta and the loops that put the key of a row together.
KeyTypes(tab, index) == [i \in DOMAIN index |-> ColMeta(tab, index[i]).type]
KeyOf(tab, index, row) ==
    [i \in DOMAIN index |-> row[GetCol(TableCols(tab), Col(tab, index[i]))]]

-----------------------------------------------------------------------------
\* eval_cond and eval_conds, which stops at the first condition that does not hold.
EvalCond(cols, cond, row) ==
    LET l == GetCol(cols, cond.lhs)
        r == GetCol(cols, cond.rhs_col)
    IN IF l = 0 \/ (~cond.is_rhs_val /\ r = 0) THEN "error"
       ELSE IF EvalCompare(CompareValue(row[l],
                                        IF cond.is_rhs_val THEN cond.rhs_val.val ELSE row[r],
                                        cols[l].type),
                           cond.op)
            THEN "true" ELSE "false"

EvalConds(cols, conds, row) ==
    LET stops == {i \in DOMAIN conds : EvalCond(cols, conds[i], row) # "true"}
    IN IF stops = {} THEN "true" ELSE EvalCond(cols, conds[Least(stops)], row)

-----------------------------------------------------------------------------
\* Table scans.  A RmScan visits the records in the order of their rids.
RmScanRids(d, tab) == Ranked(DOMAIN d.rows[tab], LAMBDA a, b : a < b)

\* The range IndexScanExecutor derives from the conditions on a prefix of the index columns.
FullRange == [low |-> <<>>, high |-> <<>>, low_inclusive |-> TRUE, high_inclusive |-> TRUE,
              prefix_open |-> TRUE]

\* Mutant: an equality sets only the lower end of the range.
EqualityFromBelow(e, range, name) ==
    LET type == ColMeta(e.tab, name).type
        on(ops) == SelectSeq(e.conds, LAMBDA c : c.is_rhs_val /\ c.lhs.name = name /\ c.op \in ops)
    IN [range EXCEPT !.low = Append(@, IF on({"="}) = <<>> THEN MinOf(type)
                                       ELSE Last(on({"="})).rhs_val.val),
                     !.high = Append(@, IF on({"<", "<="}) = <<>> THEN MinOf(type)
                                        ELSE Last(on({"<", "<="})).rhs_val.val)]
ColumnRange(e, range, name) ==
    LET type == ColMeta(e.tab, name).type
        on(ops) == SelectSeq(e.conds, LAMBDA c : c.is_rhs_val /\ c.lhs.name = name /\ c.op \in ops)
        eq == on({"="})
        lo == on({">", ">="})
        hi == on({"<", "<="})
        low(v) == [range EXCEPT !.low = Append(@, v)]
        both(v, w) == [low(v) EXCEPT !.high = Append(@, w)]
        closed == [both(IF lo = <<>> THEN MinOf(type) ELSE Last(lo).rhs_val.val,
                        IF hi = <<>> THEN MaxOf(type) ELSE Last(hi).rhs_val.val)
                   EXCEPT !.low_inclusive = IF lo = <<>> THEN @ ELSE Last(lo).op = ">=",
                          !.high_inclusive = IF hi = <<>> THEN @ ELSE Last(hi).op = "<=",
                          !.prefix_open = FALSE]
    IN IF ~range.prefix_open THEN both(MinOf(type), MaxOf(type))
       ELSE IF eq # <<>> THEN both(Last(eq).rhs_val.val, Last(eq).rhs_val.val)
       ELSE closed

KeyRange(e) == FoldLeft(LAMBDA range, name : ColumnRange(e, range, name), FullRange, e.index)

\* lower_bound and upper_bound, as ranks in the chain of the leaves (1 is the first entry).
LowerBound(entries, key, types) ==
    1 + Cardinality({x \in entries : CompareKeys(x.key, key, types) < 0})
UpperBound(entries, key, types) ==
    1 + Cardinality({x \in entries : CompareKeys(x.key, key, types) <= 0})

\* A scan positioned before find_next_valid has run.
OpenScan(e, d) ==
    IF e.kind = "SeqScan"
    THEN LET rids == RmScanRids(d, e.tab)
         IN [e EXCEPT !.rids = rids, !.pos = 1, !.end = Len(rids) + 1]
    ELSE LET i == CHOOSE n \in DOMAIN d.indexes[e.tab] : d.indexes[e.tab][n] = e.index
             types == KeyTypes(e.tab, e.index)
             entries == d.ix[e.tab][i]
             leaves == Ranked(entries, LAMBDA x, y : CompareKeys(x.key, y.key, types) < 0)
             range == KeyRange(e)
         IN [e EXCEPT !.rids = [k \in DOMAIN leaves |-> leaves[k].rid],
                      !.pos = IF range.low_inclusive THEN LowerBound(entries, range.low, types)
                              ELSE UpperBound(entries, range.low, types),
                      !.end = IF range.high_inclusive THEN UpperBound(entries, range.high, types)
                              ELSE LowerBound(entries, range.high, types)]

\* find_next_valid: the first position from pos on that is the end or a row that satisfies the
\* conditions.  A scan that starts behind its end runs off the last leaf, where rid() throws.
FindNextValid(e, d) ==
    LET verdict(p) == EvalConds(e.cols, e.conds, d.rows[e.tab][e.rids[p]])
        off == Len(e.rids) + 1
        p == Least({q \in e.pos..off : q \in {e.end, off} \/ verdict(q) # "false"})
    IN IF p = e.end THEN [e EXCEPT !.pos = p]
       ELSE IF p = off \/ verdict(p) = "error" THEN [e EXCEPT !.err = "failure"]
       ELSE [e EXCEPT !.pos = p]

-----------------------------------------------------------------------------
\* The constructors, called by convert_plan_executor.
IsScan(e) == e.kind \in {"SeqScan", "IndexScan"}

\* IndexScanExecutor asserts that every condition is about its table.
ScanExecutor(plan) ==
    [kind |-> plan.tag, tab |-> plan.tab, cols |-> TableCols(plan.tab), conds |-> plan.conds,
     index |-> plan.index, rids |-> <<>>, pos |-> 1, end |-> 1,
     err |-> IF /\ plan.tag = "IndexScan"
                /\ \E i \in DOMAIN plan.conds : plan.conds[i].lhs.tab # plan.tab
             THEN "crash" ELSE "ok"]

JoinExecutor(left, right, conds) ==
    [kind |-> "NestLoop", left |-> left, right |-> right, cols |-> left.cols \o right.cols,
     conds |-> conds, buffer |-> <<>>, left_pos |-> 0, right_rec |-> <<>>, isend |-> FALSE,
     err |-> IF left.err # "ok" THEN left.err ELSE right.err]

\* The executors with one child; get_col throws in the constructor when a column is unknown.
Unknown(prev, cols) ==
    \E i \in DOMAIN cols : GetCol(prev.cols, cols[i]) = 0
ErrOf(prev, cols) ==
    IF prev.err = "ok" /\ Unknown(prev, cols) THEN "failure" ELSE prev.err

SortExecutor(prev, cols, desc) ==
    [kind |-> "Sort", prev |-> prev, cols |-> prev.cols, order_cols |-> cols, is_desc |-> desc,
     tuples |-> <<>>, pos |-> 1, err |-> ErrOf(prev, cols)]

ProjectionExecutor(prev, sel_cols) ==
    [kind |-> "Projection", prev |-> prev,
     cols |-> [i \in DOMAIN sel_cols |->
                  IF Unknown(prev, sel_cols) THEN NoCol
                  ELSE prev.cols[GetCol(prev.cols, sel_cols[i])]],
     err |-> ErrOf(prev, sel_cols)]

AggregateExecutor(prev, sel_cols) ==
    [kind |-> "Aggregate", prev |-> prev, cols |-> sel_cols, result |-> <<>>, isend |-> FALSE,
     err |-> ErrOf(prev, SelectSeq(sel_cols, LAMBDA c : c.agg # "count"))]

LimitExecutor(prev, limit) ==
    [kind |-> "Limit", prev |-> prev, cols |-> prev.cols, limit |-> limit, count |-> 0,
     err |-> prev.err]

RECURSIVE ConvertPlan(_)
ConvertPlan(plan) ==
    CASE plan.tag \in {"SeqScan", "IndexScan"} -> ScanExecutor(plan)
      [] plan.tag = "NestLoop" ->
            JoinExecutor(ConvertPlan(plan.left), ConvertPlan(plan.right), plan.conds)
      [] plan.tag = "Sort" -> SortExecutor(ConvertPlan(plan.sub), plan.cols, plan.desc)
      [] plan.tag = "Projection" -> ProjectionExecutor(ConvertPlan(plan.sub), plan.cols)
      [] plan.tag = "Aggregate" -> AggregateExecutor(ConvertPlan(plan.sub), plan.cols)
      [] plan.tag = "Limit" -> LimitExecutor(ConvertPlan(plan.sub), plan.limit)

-----------------------------------------------------------------------------
\* is_end of every executor.
RECURSIVE IsEnd(_)
IsEnd(e) ==
    CASE IsScan(e) -> e.pos = e.end
      [] e.kind \in {"NestLoop", "Aggregate"} -> e.isend
      [] e.kind = "Sort" -> e.pos > Len(e.tuples)
      [] e.kind = "Projection" -> IsEnd(e.prev)
      [] e.kind = "Limit" -> e.count >= e.limit \/ IsEnd(e.prev)

\* Next of every executor: the tuple it is positioned on.
RECURSIVE NextOf(_, _)
NextOf(e, d) ==
    CASE IsScan(e) -> d.rows[e.tab][e.rids[e.pos]]
      [] e.kind = "NestLoop" -> e.buffer[e.left_pos] \o e.right_rec
      [] e.kind = "Sort" -> e.tuples[e.pos]
      [] e.kind = "Aggregate" -> e.result
      [] e.kind = "Projection" ->
            LET row == NextOf(e.prev, d)
            IN [i \in DOMAIN e.cols |-> row[GetCol(e.prev.cols, e.cols[i])]]
      [] e.kind = "Limit" -> NextOf(e.prev, d)

\* compare_tuple
CompareTuples(e, a, b) ==
    LET place(i) == GetCol(e.cols, e.order_cols[i])
        cmp(i) == CompareValue(a[place(i)], b[place(i)], e.cols[place(i)].type)
        differ == {i \in DOMAIN e.order_cols : cmp(i) # 0}
        i == Least(differ)
    IN IF differ = {} THEN 0 ELSE IF e.is_desc[i] THEN -cmp(i) ELSE cmp(i)

StableSort(e, tuples) ==
    LET before(i, j) == \/ CompareTuples(e, tuples[i], tuples[j]) < 0
                        \/ CompareTuples(e, tuples[i], tuples[j]) = 0 /\ i < j
        order == Ranked(DOMAIN tuples, before)
    IN [k \in DOMAIN tuples |-> tuples[order[k]]]

\* The sum of two encoded datetimes: the lower fields keep two decimal digits and carry the rest.
\* A double holds such a sum exactly up to ninety rows.
AddDates(a, b) ==
    LET carry[i \in 1..7] == IF i = 7 THEN 0 ELSE (a[i] + b[i] + carry[i + 1]) \div 100
        field(i) == a[i] + b[i] + carry[i + 1]
    IN [i \in 1..6 |-> IF i = 1 THEN field(i) ELSE field(i) % 100]

\* SUM accumulates in a double, which rounds; a string adds nothing.
Accumulate(sum, v, type) ==
    CASE type \in {"INT", "BIGINT", "FLOAT"} -> ToDouble(sum + ToDouble(v))
      [] type = "DATETIME" -> AddDates(sum, v)
      [] OTHER -> sum

\* The cast of the double to the type of the column: x86 gives the least integer out of range.
Narrow(sum, type) ==
    CASE type = "INT" -> IF sum \in IntMin..IntMax THEN sum ELSE IntMin
      [] type = "BIGINT" -> IF sum \in BigMin..BigMax THEN sum ELSE BigMin
      [] type = "FLOAT" -> ToFloat(sum)
      [] OTHER -> sum

\* The loop of AggregateExecutor::beginTuple over the child's tuples, for one selected column.
\* Without an aggregate function the column keeps its first value.
AggregateOf(e, sel, tuples) ==
    LET place == GetCol(e.prev.cols, sel)
        type == e.prev.cols[place].type
        better(v, w) == \/ sel.agg = "max" /\ CompareValue(v, w, type) > 0
                        \/ sel.agg = "min" /\ CompareValue(v, w, type) < 0
    IN CASE sel.agg = "count" -> Len(tuples)
         [] sel.agg = "sum" ->
               Narrow(FoldLeft(LAMBDA sum, row : Accumulate(sum, row[place], type),
                               ZeroOf(type), tuples), type)
         [] OTHER ->
               IF tuples = <<>> THEN ZeroOf(type)
               ELSE FoldLeft(LAMBDA v, row : IF better(row[place], v) THEN row[place] ELSE v,
                             tuples[1][place], tuples)

-----------------------------------------------------------------------------
RECURSIVE Move(_, _, _), Drain(_, _, _, _), RestartRight(_, _), FindMatch(_, _)

\* for (; !is_end(); nextTuple()) collect Next(), as long as there are fewer than most tuples
Drain(e, d, tuples, most) ==
    IF e.err # "ok" \/ IsEnd(e) \/ Len(tuples) = most THEN [exec |-> e, tuples |-> tuples]
    ELSE Drain(Move("next", e, d), d, Append(tuples, NextOf(e, d)), most)

All == -1

\* load_next_left_block: the tuples of the next block and the left child after them.
LoadBlock(left, d) == Drain(left, d, <<>>, JoinBlock)

\* A new block of the left side: the right side is scanned again from its start.
RestartRight(e, d) ==
    LET right == Move("begin", e.right, d)
        e2 == [e EXCEPT !.right = right]
    IN IF e.buffer = <<>> THEN [e EXCEPT !.isend = TRUE]
       ELSE IF right.err # "ok" THEN [e2 EXCEPT !.err = right.err]
       ELSE IF IsEnd(right) THEN [e2 EXCEPT !.isend = TRUE]
       ELSE FindMatch([e2 EXCEPT !.right_rec = NextOf(right, d), !.left_pos = Len(e.buffer)], d)

NewBlock(e, left, d) ==
    LET block == LoadBlock(left, d)
        e2 == [e EXCEPT !.left = block.exec, !.buffer = block.tuples, !.isend = FALSE]
    IN IF block.exec.err # "ok" THEN [e2 EXCEPT !.err = block.exec.err] ELSE RestartRight(e2, d)

\* find_match: the block is searched from its end for each tuple of the right side.
FindMatch(e, d) ==
    LET verdict(p) == EvalConds(e.cols, e.conds, e.buffer[p] \o e.right_rec)
        hits == {p \in 1..e.left_pos : verdict(p) # "false"}
        right == IF IsEnd(e.right) THEN e.right ELSE Move("next", e.right, d)
    IN IF hits # {}
       THEN [e EXCEPT !.left_pos = Max(hits),
                      !.err = IF verdict(Max(hits)) = "error" THEN "failure" ELSE @]
       ELSE IF right.err # "ok" THEN [e EXCEPT !.right = right, !.err = right.err]
       ELSE IF IsEnd(right) THEN NewBlock([e EXCEPT !.right = right], e.left, d)
       ELSE FindMatch([e EXCEPT !.right = right, !.right_rec = NextOf(right, d),
                                !.left_pos = Len(e.buffer)], d)

\* beginTuple and nextTuple of every executor.
Move(call, e, d) ==
    LET begin == call = "begin"
        prev == Move(call, e.prev, d)
        all == Drain(prev, d, <<>>, All)
        left == Move("begin", e.left, d)
    IN CASE IsScan(e) -> FindNextValid(IF begin THEN OpenScan(e, d) ELSE [e EXCEPT !.pos = @ + 1], d)
         [] e.kind = "NestLoop" ->
               IF ~begin THEN FindMatch([e EXCEPT !.left_pos = @ - 1], d)
               ELSE IF left.err # "ok" THEN [e EXCEPT !.left = left, !.err = left.err]
               ELSE NewBlock(e, left, d)
         [] e.kind = "Sort" ->
               IF begin THEN [e EXCEPT !.prev = all.exec, !.tuples = StableSort(e, all.tuples),
                                       !.pos = 1, !.err = all.exec.err]
               ELSE [e EXCEPT !.pos = @ + 1]
         [] e.kind = "Aggregate" ->
               IF begin THEN [e EXCEPT !.prev = all.exec, !.isend = FALSE, !.err = all.exec.err,
                                       !.result = [i \in DOMAIN e.cols |->
                                                      AggregateOf(e, e.cols[i], all.tuples)]]
               ELSE [e EXCEPT !.isend = TRUE]
         [] e.kind = "Projection" -> [e EXCEPT !.prev = prev, !.err = prev.err]
         [] e.kind = "Limit" ->
               [e EXCEPT !.prev = prev, !.count = IF begin THEN 0 ELSE @ + 1, !.err = prev.err]

Begin(e, d) == Move("begin", e, d)
Advance(e, d) == Move("next", e, d)

\* Portal::start collects the rids an UPDATE or DELETE works on before it changes anything.
RECURSIVE CollectRids(_, _, _)
CollectRids(e, d, rids) ==
    IF e.err # "ok" \/ IsEnd(e) THEN [err |-> e.err, rids |-> rids]
    ELSE CollectRids(Advance(e, d), d, Append(rids, e.rids[e.pos]))

=============================================================================
