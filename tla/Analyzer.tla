------------------------------ MODULE Analyzer ------------------------------
(***************************************************************************)
(* Parse trees (ast.h, built by yacc.y) and their semantic analysis        *)
(* (analyze.cpp): table and column names are resolved, and literals are    *)
(* cast to the type of the column they meet.  Every check that fails throws*)
(* an RMDBError, which the client sees as a failure, so the analysis is a  *)
(* predicate, Analyzes, that says no error is thrown, and the Query it     *)
(* builds when none is.                                                    *)
(***************************************************************************)
EXTENDS ColumnValues, FiniteSets, SequencesExt

CONSTANT Schema     \* the columns of every table: [name, type, len], in order

Tables == DOMAIN Schema

\* TabCol and ast::Col; an empty table name is one the statement leaves out.
Col(tab, name) == [tab |-> tab, name |-> name]
NoCol == Col("", "")

\* Select columns: a plain column, an aggregate of one, COUNT(*).
AggTypes == {"none", "count", "max", "min", "sum"}
Selected(col, agg) == [tab |-> col.tab, name |-> col.name, agg |-> agg, star |-> FALSE]
CountStar == [tab |-> "", name |-> "*", agg |-> "count", star |-> TRUE]

\* Conditions: column op literal, column op column.
ValCond(lhs, op, lit) ==
    [lhs |-> lhs, op |-> op, is_rhs_val |-> TRUE, rhs_col |-> NoCol, rhs_val |-> lit]
ColCond(lhs, op, rhs) ==
    [lhs |-> lhs, op |-> op, is_rhs_val |-> FALSE, rhs_col |-> rhs, rhs_val |-> BadLiteral]

NoStmt == [op |-> "none"]
SelectStmt(cols, tabs, conds, order, limit) ==
    [op |-> "select", cols |-> cols, tabs |-> tabs, conds |-> conds, order |-> order,
     limit |-> limit]
InsertStmt(tab, vals) == [op |-> "insert", tab |-> tab, vals |-> vals]
DeleteStmt(tab, conds) == [op |-> "delete", tab |-> tab, conds |-> conds]
UpdateStmt(tab, sets, conds) == [op |-> "update", tab |-> tab, sets |-> sets, conds |-> conds]
TxnStmt(command) == [op |-> command]
OrderBy(col, desc) == [col |-> col, desc |-> desc]
SetClause(name, lit) == [name |-> name, val |-> lit]

-----------------------------------------------------------------------------
GetAllCols(tabs) ==
    FoldLeft(LAMBDA all, tab :
                all \o [i \in DOMAIN Schema[tab] |-> Col(tab, Schema[tab][i].name)],
             <<>>, tabs)

\* TabMeta::get_col
ColMeta(tab, name) == SelectSeq(Schema[tab], LAMBDA c : c.name = name)[1]
HasCol(tab, name) == \E i \in DOMAIN Schema[tab] : Schema[tab][i].name = name

Named(all_cols, target) ==
    SelectSeq(all_cols, LAMBDA c : c.name = target.name /\ target.tab \in {"", c.tab})

\* check_column throws when the name is unknown, or left unqualified and ambiguous.
ColumnFound(all_cols, target) ==
    LET found == Named(all_cols, target)
    IN found # <<>> /\ (target.tab = "" => Len(found) = 1)

CheckColumn(all_cols, target) == [target EXCEPT !.tab = Named(all_cols, target)[1].tab]

\* check_clause: the columns exist, and the right side has or can be cast to the left side's type.
ClauseOk(all_cols, cond) ==
    /\ ColumnFound(all_cols, cond.lhs)
    /\ LET lhs == CheckColumn(all_cols, cond.lhs)
           meta == ColMeta(lhs.tab, lhs.name)
       IN IF cond.is_rhs_val THEN Storable(cond.rhs_val, meta)
          ELSE /\ ColumnFound(all_cols, cond.rhs_col)
               /\ LET rhs == CheckColumn(all_cols, cond.rhs_col)
                  IN ColMeta(rhs.tab, rhs.name).type = meta.type

CheckClause(all_cols, cond) ==
    LET lhs == CheckColumn(all_cols, cond.lhs)
    IN IF cond.is_rhs_val
       THEN [cond EXCEPT !.lhs = lhs, !.rhs_val = CastTo(@, ColMeta(lhs.tab, lhs.name).type)]
       ELSE [cond EXCEPT !.lhs = lhs, !.rhs_col = CheckColumn(all_cols, @)]

WhereOk(tabs, conds) ==
    \A i \in DOMAIN conds : ClauseOk(GetAllCols(tabs), conds[i])
Where(tabs, conds) ==
    [i \in DOMAIN conds |-> CheckClause(GetAllCols(tabs), conds[i])]

\* do_analyze throws no error.
Analyzes(s) ==
    CASE s.op = "select" ->
            /\ \A i \in DOMAIN s.tabs : s.tabs[i] \in Tables
            /\ \A i \in DOMAIN s.cols :
                  s.cols[i].star \/ ColumnFound(GetAllCols(s.tabs), s.cols[i])
            /\ WhereOk(s.tabs, s.conds)
      [] s.op = "update" ->
            /\ s.tab \in Tables
            /\ \A i \in DOMAIN s.sets :
                  /\ HasCol(s.tab, s.sets[i].name)
                  /\ Castable(s.sets[i].val, ColMeta(s.tab, s.sets[i].name).type)
            /\ WhereOk(<<s.tab>>, s.conds)
      [] s.op = "delete" -> s.tab \in Tables /\ WhereOk(<<s.tab>>, s.conds)
      [] s.op = "insert" -> \A i \in DOMAIN s.vals : s.vals[i] # BadLiteral
      [] OTHER -> TRUE

DoAnalyze(s) ==
    CASE s.op = "select" ->
            LET all == GetAllCols(s.tabs)
            IN [s EXCEPT !.conds = Where(s.tabs, @),
                         !.cols = IF @ = <<>>
                                  THEN [i \in DOMAIN all |-> Selected(all[i], "none")]
                                  ELSE [i \in DOMAIN @ |->
                                          IF @[i].star THEN @[i] ELSE CheckColumn(all, @[i])]]
      [] s.op = "update" ->
            [s EXCEPT !.conds = Where(<<s.tab>>, @),
                      !.sets = [i \in DOMAIN @ |->
                                  SetClause(@[i].name,
                                            CastTo(@[i].val, ColMeta(s.tab, @[i].name).type))]]
      [] s.op = "delete" -> [s EXCEPT !.conds = Where(<<s.tab>>, @)]
      [] OTHER -> s

=============================================================================
