------------------------------ MODULE MCQuery ------------------------------
EXTENDS Query

MCIntMin == -6
MCBigMin == -20

MCSchema ==
    [t |-> <<[name |-> "a", type |-> "INT", len |-> 4], [name |-> "b", type |-> "INT", len |-> 4],
             [name |-> "s", type |-> "STRING", len |-> 2]>>,
     u |-> <<[name |-> "a", type |-> "INT", len |-> 4], [name |-> "c", type |-> "INT", len |-> 4]>>,
     w |-> <<[name |-> "x", type |-> "BIGINT", len |-> 8],
             [name |-> "d", type |-> "DATETIME", len |-> 8],
             [name |-> "f", type |-> "FLOAT", len |-> 4]>>]

Str(n) == [len |-> n, date |-> <<>>]
Noon(year, month, day) == <<year, month, day, 12, 0, 0>>

\* A database from its rows and indexes: the indexes hold the keys of the rows.
Database(t, u, w, on_t, on_u) ==
    LET rows == [t |-> t, u |-> u, w |-> w]
        indexes == [t |-> on_t, u |-> on_u, w |-> <<<<"d">>>>]
    IN [rows |-> rows, indexes |-> indexes,
        ix |-> [tab \in DOMAIN rows |->
                  [n \in DOMAIN indexes[tab] |->
                     {[key |-> KeyOf(tab, indexes[tab][n], rows[tab][r]), rid |-> r]
                         : r \in DOMAIN rows[tab]}]]]

Txn == {TxnStmt("begin"), TxnStmt("commit"), TxnStmt("rollback")}
A == Col("", "a")
B == Col("", "b")
TA == Col("t", "a")
TB == Col("t", "b")
UA == Col("u", "a")
UC == Col("u", "c")
WX == Col("w", "x")
Lit(col, op, n) == ValCond(col, op, IntegerLit(n))
Set1(name, n) == SetClause(name, IntegerLit(n))

\* Changes of one table, with two rows and up to two indexes.
TwoRows == <<<<1, 0, Str(1)>>, <<2, 1, Str(0)>>>>
ChangeDatabases ==
    {Database(TwoRows, <<>>, <<>>, on_t, <<>>) :
        on_t \in {<<>>, <<<<"a", "b">>>>, <<<<"b">>, <<"a", "b">>>>}}
ChangeStatements ==
    Txn \cup
    {InsertStmt("t", <<IntegerLit(1), IntegerLit(1), StringLit(1)>>),
     InsertStmt("t", <<IntegerLit(2), IntegerLit(2), StringLit(2)>>),
     InsertStmt("t", <<IntegerLit(IntMax + 1), IntegerLit(3), StringLit(1)>>),
     UpdateStmt("t", <<Set1("a", 1)>>, <<>>),
     UpdateStmt("t", <<Set1("a", 1), Set1("b", 1)>>, <<Lit(A, ">", 1)>>),
     UpdateStmt("t", <<Set1("b", 1)>>, <<Lit(A, "=", 1)>>),
     DeleteStmt("t", <<Lit(A, "=", 1)>>),
     DeleteStmt("t", <<Lit(B, ">=", 1), Lit(B, "<=", 2)>>),
     SelectStmt(<<>>, <<"t">>, <<Lit(B, "<=", 1)>>, <<>>, -1)}

\* Queries over three tables, and statements that should be refused.
TRows == <<<<1, 2, Str(1)>>, <<2, 2, Str(2)>>, <<3, 0, Str(1)>>, <<1, 3, Str(0)>>>>
URows == <<<<1, 1>>, <<2, 3>>, <<3, 1>>>>
WRows == <<<<17, Noon(2000, 2, 29), 1>>, <<2, Noon(1999, 12, 31), 3>>>>
ReadDatabases ==
    {Database(t, u, WRows, on_t, on_u) :
        t \in {<<>>, TRows}, u \in {<<URows[2]>>, URows},
        on_t \in {<<>>, <<<<"a", "b">>>>, <<<<"b", "a">>, <<"a", "s", "b">>>>},
        on_u \in {<<>>, <<<<"a">>>>}}

Wheres == {<<>>, <<Lit(TA, "=", 1), Lit(TB, ">", 2)>>, <<Lit(TB, ">=", 2), Lit(TB, "<", 3)>>,
           <<Lit(TA, ">", 2), Lit(TA, "<", 2)>>, <<Lit(TA, ">=", 3), Lit(TA, "<=", 1)>>, <<Lit(TB, "<>", 2), Lit(TA, ">", 1), Lit(TA, ">=", 0)>>,
           <<ColCond(TA, "<=", TB)>>}
Joins == {<<>>, <<ColCond(TA, "=", UA)>>, <<ColCond(UA, "<", TB)>>,
          <<ColCond(UA, ">=", TA), ColCond(TB, ">", UC)>>, <<ColCond(UA, "<=", UC)>>,
          <<Lit(UA, "<", 3), ColCond(TB, "=", UC)>>, <<Lit(UA, ">", 2), Lit(UA, "<", 2)>>}
Plain == <<Selected(TB, "none"), Selected(TA, "none")>>
Aggregates == {<<CountStar, Selected(TA, "max"), Selected(TB, "min")>>,
               <<Selected(TB, "sum"), Selected(Col("t", "s"), "max")>>}
WideSums == <<Selected(WX, "sum"), Selected(Col("w", "f"), "sum"), Selected(Col("w", "d"), "sum")>>
DescA == <<OrderBy(TA, TRUE), OrderBy(Col("", "s"), FALSE)>>

ReadStatements ==
    {SelectStmt(<<>>, <<"t">>, c, o, l) : c \in Wheres, o \in {<<>>, DescA}, l \in {-1, 2}}
    \cup {SelectStmt(g, <<"t">>, c, <<>>, l) : g \in Aggregates, c \in Wheres, l \in {-1, 0}}
    \cup {SelectStmt(Plain, tabs, c \o j, <<OrderBy(TB, FALSE)>>, -1) :
            tabs \in {<<"t", "u">>, <<"u", "t">>}, c \in {<<>>, <<Lit(TB, ">", 0)>>}, j \in Joins}
    \cup {SelectStmt(WideSums, <<"w">>, c, <<>>, -1) :
            c \in {<<>>, <<Lit(WX, "<", IntMax + 1)>>, <<ValCond(Col("", "f"), "<", IntegerLit(5))>>}}
    \cup {SelectStmt(<<>>, <<"t", "w", "u">>, c, <<>>, -1) : c \in {<<>>, <<ColCond(UC, "<", TA)>>}}
    \cup {SelectStmt(<<Selected(TA, "none"), Selected(WX, "none")>>, tabs, <<ColCond(TA, "=", UA),
             ColCond(UC, "<", TB), ColCond(TA, "<", UC)>>, <<>>, -1) : tabs \in {<<"t", "u", "w">>, <<"u", "w", "t">>}}
    \cup {SelectStmt(<<>>, <<"w">>, <<ValCond(Col("", "d"), op, DateLit(Noon(y, 2, 29)))>>, <<>>, -1) :
            op \in {"=", "<"}, y \in {1900, 2000, 2001}}
    \cup {SelectStmt(<<>>, <<"t", "u">>, <<Lit(A, "=", 1)>>, <<>>, -1),
          SelectStmt(<<>>, <<"t", "u">>, <<Lit(Col("", "c"), "=", 1), Lit(B, ">", 0)>>, <<>>, -1),
          SelectStmt(<<>>, <<"t">>, <<Lit(A, "=", IntMax + 1)>>, <<>>, -1),
          SelectStmt(<<>>, <<"t">>, <<>>, <<OrderBy(Col("", "z"), FALSE)>>, -1),
          SelectStmt(<<>>, <<"w">>, <<ValCond(Col("", "f"), ">=", IntegerLit(2)), Lit(WX, "<", IntMax + 1)>>, <<>>, -1),
          SelectStmt(<<>>, <<"nowhere">>, <<>>, <<>>, -1)}

MCScenarios == {"change", "read"}
MCDatabases == [change |-> ChangeDatabases, read |-> ReadDatabases]
MCRepertoire == [change |-> ChangeStatements, read |-> ReadStatements]
=============================================================================
