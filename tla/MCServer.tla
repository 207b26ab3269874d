------------------------------ MODULE MCServer ------------------------------
\* One table; an index that fits, another whose file has the same name, and one whose columns are too
\* long, whose file has that name as well when the table had other columns.
EXTENDS Server

MCTableOf == [i \in IndexNames |-> "t"]
MCFileOf == [i \in IndexNames |-> "t_a_b"]

S(op, name) == [op |-> op, name |-> name]
\* One client and every kind of DDL, with a kill, or with Ctrl-C and what is refused at once; then two
\* clients: that meet in the accept loop and in the parser; one of which creates an index while the
\* other connects and leaves; that meet a failing accept or a shutdown.
MCBounds ==
    <<[clients |-> {"c1"},
       statements |-> {s \in Ddl : s.op \notin {"create_wide_table", "index_unknown_column"}},
       left |-> [connects |-> 2, requests |-> 4, ends |-> 1, faults |-> 0]],
      [clients |-> {"c1"}, statements |-> {s \in Ddl : s.name \in {"t", "i"}},
       left |-> [connects |-> 2, requests |-> 2, ends |-> 0, faults |-> 2]],
      [clients |-> Clients, statements |-> Texts \cup {S("show_index", "t")},
       left |-> [connects |-> 3, requests |-> 2, ends |-> 0, faults |-> 0]],
      [clients |-> Clients, statements |-> {S("create_table", "t"), S("create_index", "i")},
       left |-> [connects |-> 2, requests |-> 2, ends |-> 0, faults |-> 0]],
      [clients |-> Clients, statements |-> {S("create_table", "t"), S("exit", "none")},
       left |-> [connects |-> 2, requests |-> 1, ends |-> 0, faults |-> 1]]>>
=============================================================================
