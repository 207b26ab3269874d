------------------------------ MODULE Planner ------------------------------
(***************************************************************************)
(* Query plans (plan.h) and the planner that makes them (planner.cpp,      *)
(* optimizer.h): the conditions of one table go to its scan, an index is   *)
(* used when its first column is restricted, the other conditions decide   *)
(* the join tree, and sort, projection or aggregation and limit go on top. *)
(*                                                                         *)
(* indexes maps a table to its indexes in the order of creation, each the  *)
(* sequence of its column names.                                           *)
(***************************************************************************)
EXTENDS Analyzer

ScanPlan(tag, tab, conds, index) ==
    [tag |-> tag, tab |-> tab, conds |-> conds, index |-> index]
JoinPlan(left, right, conds) ==
    [tag |-> "NestLoop", left |-> left, right |-> right, conds |-> conds]
SortPlan(sub, cols, desc) == [tag |-> "Sort", sub |-> sub, cols |-> cols, desc |-> desc]
ProjectionPlan(sub, cols) == [tag |-> "Projection", sub |-> sub, cols |-> cols]
AggregatePlan(sub, cols) == [tag |-> "Aggregate", sub |-> sub, cols |-> cols]
LimitPlan(sub, limit) == [tag |-> "Limit", sub |-> sub, limit |-> limit]
NoPlan == [tag |-> "Invalid"]

\* get_index_cols matches a prefix of the index; one restricted column is enough.
Restricted(tab, conds, name) ==
    \E i \in DOMAIN conds :
        conds[i].is_rhs_val /\ conds[i].lhs = Col(tab, name) /\ conds[i].op # "<>"

GetIndexCols(tab, conds, indexes) ==
    LET usable == SelectSeq(indexes[tab], LAMBDA index : Restricted(tab, conds, index[1]))
    IN IF usable = <<>> THEN <<>> ELSE usable[1]

MakeScan(tab, conds, indexes) ==
    LET index == GetIndexCols(tab, conds, indexes)
    IN ScanPlan(IF index = <<>> THEN "SeqScan" ELSE "IndexScan", tab, conds, index)

\* pop_conds: the conditions a table's scan takes from the list.
Popped(cond, tab) ==
    (cond.lhs.tab = tab /\ cond.is_rhs_val) \/ cond.lhs.tab = cond.rhs_col.tab

\* The scans of the tables, and the conditions that none of them took.
TableScans(tabs, conds, indexes) ==
    FoldLeft(LAMBDA acc, tab :
                [scans |-> Append(acc.scans,
                              MakeScan(tab, SelectSeq(acc.conds, LAMBDA c : Popped(c, tab)),
                                       indexes)),
                 conds |-> SelectSeq(acc.conds, LAMBDA c : ~Popped(c, tab))],
             [scans |-> <<>>, conds |-> conds], tabs)

PopScan(scans, tab) == SelectSeq(scans, LAMBDA p : p.tab = tab)[1]

\* Mutant: the swap exchanges the sides of a condition and keeps its operator.
SwapSidesOnly(cond) == [cond EXCEPT !.lhs = cond.rhs_col, !.rhs_col = cond.lhs]
SwapCond(cond) == [cond EXCEPT !.lhs = cond.rhs_col, !.rhs_col = cond.lhs, !.op = SwapOp(@)]

\* push_conds: res is 3 when the condition has been attached to a join of the tree, otherwise
\* it tells which side of the condition the tree holds.
RECURSIVE PushConds(_, _)
PushConds(cond, plan) ==
    IF plan.tag # "NestLoop"
    THEN [res |-> IF plan.tab = cond.lhs.tab THEN 1
                  ELSE IF plan.tab = cond.rhs_col.tab THEN 2 ELSE 0,
          plan |-> plan]
    ELSE LET l == PushConds(cond, plan.left)
             r == PushConds(cond, plan.right)
         IN CASE l.res = 3 -> [res |-> 3, plan |-> [plan EXCEPT !.left = l.plan]]
              [] l.res # 3 /\ r.res = 3 -> [res |-> 3, plan |-> [plan EXCEPT !.right = r.plan]]
              [] 0 \in {l.res, r.res} /\ 3 \notin {l.res, r.res} ->
                    [res |-> l.res + r.res, plan |-> plan]
              [] OTHER ->
                    [res |-> 3,
                     plan |-> [plan EXCEPT !.conds =
                                  Append(@, IF l.res = 2 THEN SwapCond(cond) ELSE cond)]]

\* One round of the loop that adds the tables of a join condition to the tree.
AddJoin(scans, acc, cond) ==
    LET newLeft == cond.lhs.tab \notin acc.joined
        newRight == cond.rhs_col.tab \notin acc.joined
        left == PopScan(scans, cond.lhs.tab)
        right == PopScan(scans, cond.rhs_col.tab)
    IN [joined |-> acc.joined \cup {cond.lhs.tab, cond.rhs_col.tab},
        tree |-> CASE newLeft /\ newRight ->
                        JoinPlan(JoinPlan(left, right, <<cond>>), acc.tree, <<>>)
                   [] newLeft /\ ~newRight -> JoinPlan(left, acc.tree, <<cond>>)
                   [] ~newLeft /\ newRight -> JoinPlan(right, acc.tree, <<SwapCond(cond)>>)
                   [] OTHER -> PushConds(cond, acc.tree).plan]

MakeOneRel(tabs, conds, indexes) ==
    LET popped == TableScans(tabs, conds, indexes)
        scans == popped.scans
        join == popped.conds
        first == IF join = <<>>
                 THEN [tree |-> scans[1], joined |-> {tabs[1]}]
                 ELSE [tree |-> JoinPlan(PopScan(scans, join[1].lhs.tab),
                                         PopScan(scans, join[1].rhs_col.tab), <<join[1]>>),
                       joined |-> {join[1].lhs.tab, join[1].rhs_col.tab}]
        joined == FoldLeft(LAMBDA acc, cond : AddJoin(scans, acc, cond), first,
                           IF join = <<>> THEN <<>> ELSE Tail(join))
        rest == SelectSeq(scans, LAMBDA p : p.tab \notin joined.joined)
    IN IF Len(tabs) = 1 THEN scans[1]
       ELSE FoldLeft(LAMBDA tree, scan : JoinPlan(scan, tree, <<>>), joined.tree, rest)

\* generate_sort_plan: the first column with the name, NoCol when there is none.
SortCol(tabs, col) ==
    LET found == Named(GetAllCols(tabs), col) IN IF found = <<>> THEN NoCol ELSE found[1]

GenerateSortPlan(s, plan) ==
    IF s.order = <<>> THEN plan
    ELSE SortPlan(plan, [i \in DOMAIN s.order |-> SortCol(s.tabs, s.order[i].col)],
                  [i \in DOMAIN s.order |-> s.order[i].desc])

GenerateSelectPlan(s, indexes) ==
    LET sorted == GenerateSortPlan(s, MakeOneRel(s.tabs, s.conds, indexes))
        root == IF \E i \in DOMAIN s.cols : s.cols[i].agg # "none"
                THEN AggregatePlan(sorted, s.cols)
                ELSE ProjectionPlan(sorted, s.cols)
    IN IF s.limit >= 0 THEN LimitPlan(root, s.limit) ELSE root

\* do_planner and plan_query, of an analysed statement.
PlanQuery(s, indexes) ==
    CASE s.op = "select" -> GenerateSelectPlan(s, indexes)
      [] s.op \in {"update", "delete"} -> MakeScan(s.tab, s.conds, indexes)
      [] OTHER -> NoPlan

=============================================================================
