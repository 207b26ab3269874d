------------------------------- MODULE Server -------------------------------
(***************************************************************************)
(* The server process (rmdb.cpp) around the catalog: the accept loop of    *)
(* start_server, which hands the descriptor of a connection to its thread  *)
(* through one variable and a mutex that the thread unlocks; client_handler*)
(* with the global lexer and parse tree under buffer_mutex; Ctrl-C, which  *)
(* closes the database from the main thread while client threads go on; the*)
(* end of the process at any step and its next start; and the client       *)
(* (rmdb_client/main.cpp), which sends one statement and waits.            *)
(*                                                                         *)
(* The statements are DDL and SHOW INDEX.  Two DDL statements at once race *)
(* on std::map without any lock; that is undefined behaviour and left out: *)
(* here the second one waits (NoOtherDdl).                                 *)
(***************************************************************************)
EXTENDS Catalog

CONSTANTS
    Clients,            \* clients
    Bounds              \* what a behaviour may contain: a sequence of records of the clients that connect, the
                        \* statements they send, and the numbers of connections, of statements, of
                        \* kills, and of other faults (accept, pthread_create, Ctrl-C)

Counters == {"connects", "requests", "ends", "faults"}
ASSUME ServerAssumption ==
    /\ Clients \cap (TableNames \cup IndexNames \cup {"log", "free", "main", "listen", "none"}) = {}
    /\ IsFiniteSet(Clients) /\ MaxFd > Cardinality(Paths) + Cardinality(Clients) + 1
    /\ \A k \in DOMAIN Bounds : /\ Bounds[k].clients \subseteq Clients
                              /\ Bounds[k].left \in [Counters -> Nat]

VARIABLES
    client,         \* [Clients -> "out", "queued", "in" or "gone"]: gone once its end is closed
    backlog,        \* the connections that wait for accept, in order
    ask,            \* [Clients -> the statement it waits for, or NoStatement]
    acc,            \* the accept loop is about to: "lock", "accept", "spawn"
    sockfd,         \* the variable of the loop that client_handler reads through a pointer
    held,           \* sockfd_mutex is locked
    stage,          \* [Sessions -> where client_handler is]
    fdOf,           \* [Sessions -> fd]
    data_recv,      \* [Sessions -> the text it read]
    query,          \* [Sessions -> the statement do_analyze returned]
    buffer,         \* the thread that holds buffer_mutex, or "none"
    parse_tree,     \* ast::parse_tree
    lexer,          \* start condition of the lexer: "initial" or "comment"
    \* history
    conn,           \* [Sessions -> the client whose connection the thread was created for]
    expect,         \* [old, new]: the catalog before and after the last statement
    commented,      \* an unfinished comment was sent to this process
    orphans,        \* what a killed CREATE may have left behind
    tainted,        \* a shutdown overlapped a DDL statement
    \* bounds
    within,         \* which of the Bounds this behaviour has
    left            \* [Counters -> how many more there may be]

socketVars == <<client, backlog, ask>>
loopVars == <<acc, sockfd, held>>
parseVars == <<buffer, parse_tree, lexer>>
handlerVars == <<stage, fdOf, data_recv, query>>
ghostVars == <<expect, orphans, tainted, commented>>
vars == <<catalogVars, socketVars, loopVars, parseVars, handlerVars, conn, ghostVars, within, left>>

NoStatement == [op |-> "none", name |-> "none"]
Ddl == [op : {"create_table", "create_wide_table", "drop_table", "index_unknown_column", "show_index"},
        name : TableNames]
       \cup [op : {"create_index", "drop_index"}, name : IndexNames]
\* "/*" without its end, "*/", text that is no statement, and the words the handler looks for itself.
Texts == {[op |-> o, name |-> "none"] : o \in {"open_comment", "close_comment", "garbage", "exit"}}
Statements == Ddl \cup Texts

Changing(s) == prog[s] # <<>>
NoOtherDdl(s) == \A r \in Sessions \ {s} : ~Changing(r)

Init ==
    /\ CatalogInit
    /\ client = [c \in Clients |-> "out"] /\ backlog = <<>>
    /\ ask = [c \in Clients |-> NoStatement]
    /\ acc = "lock" /\ sockfd = 0 /\ held = FALSE
    /\ stage = [s \in Sessions |-> "free"] /\ fdOf = [s \in Sessions |-> 0]
    /\ data_recv = [s \in Sessions |-> NoStatement] /\ query = [s \in Sessions |-> NoStatement]
    /\ buffer = "none" /\ parse_tree = NoStatement /\ lexer = "initial"
    /\ conn = [s \in Sessions |-> "none"]
    /\ expect = [old |-> NoCatalog, new |-> NoCatalog] /\ orphans = {} /\ tainted = FALSE
    /\ commented = FALSE
    /\ within \in DOMAIN Bounds /\ left = Bounds[within].left

\* What the end of the process takes along: everything in memory and every connection.
AllGone ==
    /\ client' = [c \in Clients |-> "out"] /\ backlog' = <<>>
    /\ ask' = [c \in Clients |-> NoStatement]
    /\ acc' = "lock" /\ sockfd' = 0 /\ held' = FALSE
    /\ stage' = [s \in Sessions |-> "free"] /\ fdOf' = [s \in Sessions |-> 0]
    /\ data_recv' = [s \in Sessions |-> NoStatement] /\ query' = [s \in Sessions |-> NoStatement]
    /\ buffer' = "none" /\ parse_tree' = NoStatement /\ lexer' = "initial"
    /\ conn' = [s \in Sessions |-> "none"]

-----------------------------------------------------------------------------
\* The client: connects, sends a statement, waits; it may go away at any time.
Connect(c) ==
    /\ phase = "up" /\ client[c] = "out" /\ c \in Bounds[within].clients /\ left.connects > 0
    /\ left' = [left EXCEPT !.connects = @ - 1]
    /\ client' = [client EXCEPT ![c] = "queued"] /\ backlog' = Append(backlog, c)
    /\ UNCHANGED <<catalogVars, ask, loopVars, parseVars, handlerVars, conn>>

Send(c, s) ==
    /\ client[c] = "in" /\ ask[c] = NoStatement
    /\ s \in Bounds[within].statements /\ left.requests > 0
    /\ ask' = [ask EXCEPT ![c] = s]
    /\ left' = [left EXCEPT !.requests = @ - 1]
    /\ UNCHANGED <<catalogVars, client, backlog, loopVars, parseVars, handlerVars, conn>>

Leave(c) ==
    /\ client[c] = "in"
    /\ client' = [client EXCEPT ![c] = "gone"] /\ ask' = [ask EXCEPT ![c] = NoStatement]
    /\ UNCHANGED <<catalogVars, backlog, loopVars, parseVars, handlerVars, conn, left>>

-----------------------------------------------------------------------------
\* The accept loop.
AcceptLock ==
    /\ phase = "up" /\ acc = "lock" /\ ~held
    /\ held' = TRUE /\ acc' = "accept"
    /\ UNCHANGED <<catalogVars, socketVars, sockfd, parseVars, handlerVars, conn, left>>

Accept ==
    /\ phase = "up" /\ acc = "accept" /\ backlog # <<>>
    /\ sockfd' = LowestFree /\ acc' = "spawn"
    /\ kernel' = [kernel EXCEPT ![LowestFree] = Head(backlog)]
    /\ client' = [client EXCEPT ![Head(backlog)] = "in"] /\ backlog' = Tail(backlog)
    /\ UNCHANGED <<dir, files, meta, db, handleVars, prog, job, reg, outcome, phase, historyVars, moved,
                   ask, held, parseVars, handlerVars, conn, left>>

\* "continue" without unlocking: the loop then waits for itself.
AcceptError ==
    /\ phase = "up" /\ acc = "accept" /\ left.faults > 0
    /\ acc' = "lock"
    /\ left' = [left EXCEPT !.faults = @ - 1]
    /\ UNCHANGED <<catalogVars, socketVars, sockfd, held, parseVars, handlerVars, conn>>

\* A new thread: which of the free ones makes no difference.
Spawn(s) ==
    /\ phase = "up" /\ acc = "spawn" /\ stage[s] = "free"
    /\ s = CHOOSE r \in Sessions : stage[r] = "free"
    /\ acc' = "lock"
    /\ stage' = [stage EXCEPT ![s] = "born"]
    /\ conn' = [conn EXCEPT ![s] = kernel[sockfd]]
    /\ UNCHANGED <<catalogVars, socketVars, sockfd, held, parseVars, fdOf, data_recv, query, left>>

\* pthread_create fails and the loop is left, or SIGINT jumps out of it; close_db follows.  The
\* jump leaves SIGINT blocked in this thread, so a second one does not interrupt close_db.
LeaveLoop ==
    /\ acc \in {"lock", "accept", "spawn"} /\ left.faults > 0
    /\ Shutdown
    /\ left' = [left EXCEPT !.faults = @ - 1]
    /\ UNCHANGED <<socketVars, loopVars, parseVars, handlerVars, conn>>

-----------------------------------------------------------------------------
\* client_handler
HandlerStart(s) ==
    /\ stage[s] = "born"
    /\ fdOf' = [fdOf EXCEPT ![s] = sockfd] /\ held' = FALSE
    /\ stage' = [stage EXCEPT ![s] = "reading"]
    /\ UNCHANGED <<catalogVars, socketVars, acc, sockfd, parseVars, data_recv, query, conn, left>>

\* read() returns a statement.
Read(s) ==
    /\ stage[s] = "reading"
    /\ LET c == kernel[fdOf[s]]
       IN /\ client[c] = "in" /\ ask[c].op \notin {"none", "exit"}
          /\ data_recv' = [data_recv EXCEPT ![s] = ask[c]]
    /\ stage' = [stage EXCEPT ![s] = "lex"]
    /\ UNCHANGED <<catalogVars, socketVars, loopVars, parseVars, fdOf, query, conn, left>>

\* read() returns 0, or "exit": the thread closes the socket and ends.
EndSession(s) ==
    /\ stage[s] = "reading"
    /\ LET c == kernel[fdOf[s]]
       IN /\ client[c] = "gone" \/ ask[c].op = "exit"
          /\ client' = [client EXCEPT ![c] = "out"] /\ ask' = [ask EXCEPT ![c] = NoStatement]
    /\ kernel' = [kernel EXCEPT ![fdOf[s]] = "free"]
    /\ stage' = [stage EXCEPT ![s] = "free"] /\ conn' = [conn EXCEPT ![s] = "none"]
    /\ fdOf' = [fdOf EXCEPT ![s] = 0]
    /\ UNCHANGED <<dir, files, meta, db, handleVars, prog, job, reg, outcome, phase, historyVars, moved,
                   backlog, loopVars, parseVars, data_recv, query, left>>

\* yyparse() under buffer_mutex.  The start condition of the lexer outlives the request: inside a
\* comment everything up to "*/" is ignored and the end of the text is an empty statement.
Parsed(text) ==
    CASE lexer = "comment" \/ text.op = "open_comment" ->
            [ok |-> TRUE, tree |-> NoStatement,
             lexer |-> IF text.op = "close_comment" THEN "initial" ELSE "comment"]
      [] text \in Ddl /\ lexer = "initial" -> [ok |-> TRUE, tree |-> text, lexer |-> "initial"]
      [] OTHER -> [ok |-> FALSE, tree |-> parse_tree, lexer |-> "initial"]

\* Mutant: the mutex is released between yyparse and do_analyze.
ParseUnlocked(s) ==
    /\ stage[s] = "lex" /\ buffer = "none"
    /\ LET p == Parsed(data_recv[s])
       IN /\ parse_tree' = p.tree /\ lexer' = p.lexer
          /\ stage' = [stage EXCEPT ![s] = IF p.ok THEN "parsed" ELSE "failed"]
    /\ UNCHANGED <<catalogVars, socketVars, loopVars, buffer, fdOf, data_recv, query, conn, left>>
Parse(s) ==
    /\ stage[s] = "lex" /\ buffer = "none"
    /\ buffer' = s
    /\ LET p == Parsed(data_recv[s])
       IN /\ parse_tree' = p.tree /\ lexer' = p.lexer
          /\ stage' = [stage EXCEPT ![s] = IF p.ok THEN "parsed" ELSE "failed"]
    /\ UNCHANGED <<catalogVars, socketVars, loopVars, fdOf, data_recv, query, conn, left>>

\* Mutant: the path without a statement forgets the mutex.
AnalyzeForgets(s) ==
    /\ stage[s] \in {"parsed", "failed"}
    /\ LET empty == stage[s] = "failed" \/ parse_tree = NoStatement
       IN /\ query' = [query EXCEPT ![s] = IF empty THEN NoStatement ELSE parse_tree]
          /\ stage' = [stage EXCEPT ![s] = IF empty THEN "done" ELSE "plan"]
          /\ buffer' = IF empty THEN buffer ELSE "none"
    /\ UNCHANGED <<catalogVars, socketVars, loopVars, parse_tree, lexer, fdOf, data_recv, conn, left>>
\* do_analyze reads the global parse tree; the mutex is released on every path.
Analyze(s) ==
    /\ stage[s] \in {"parsed", "failed"}
    /\ LET empty == stage[s] = "failed" \/ parse_tree = NoStatement
       IN /\ query' = [query EXCEPT ![s] = IF empty THEN NoStatement ELSE parse_tree]
          /\ stage' = [stage EXCEPT ![s] = IF empty THEN "done" ELSE "plan"]
    /\ buffer' = "none"
    /\ UNCHANGED <<catalogVars, socketVars, loopVars, parse_tree, lexer, fdOf, data_recv, conn, left>>

\* portal->run of a DDL statement.
Execute(s) ==
    /\ stage[s] = "plan" /\ NoOtherDdl(s)
    /\ RunDdl(s, query[s])
    /\ stage' = [stage EXCEPT ![s] = "run"]
    /\ UNCHANGED <<socketVars, loopVars, parseVars, fdOf, data_recv, query, conn, left>>

\* write() and the way back to read().  To a client that is gone the write succeeds or fails.
Answer(s) ==
    /\ stage[s] = "done" \/ (stage[s] = "run" /\ ~Changing(s))
    /\ LET c == kernel[fdOf[s]] IN ask' = [ask EXCEPT ![c] = NoStatement]
    /\ stage' = [stage EXCEPT ![s] = "reading"]
    /\ data_recv' = [data_recv EXCEPT ![s] = NoStatement]
    /\ query' = [query EXCEPT ![s] = NoStatement]
    /\ job' = [job EXCEPT ![s] = "none"] /\ outcome' = [outcome EXCEPT ![s] = "ok"]
    /\ reg' = [reg EXCEPT ![s] = 0]
    /\ UNCHANGED <<dir, files, meta, db, handleVars, prog, phase, kernel, historyVars, moved,
                   client, backlog, loopVars, parseVars, fdOf, conn, left>>

-----------------------------------------------------------------------------
\* A call of main or of a session, the end of the process (kill, or the request "crash"), a start.
Step(th) ==
    /\ CatalogStep(th)
    /\ IF phase' = "down" THEN AllGone
       ELSE UNCHANGED <<socketVars, loopVars, parseVars, handlerVars, conn>>
    /\ UNCHANGED left

Killed ==
    /\ phase # "down" /\ left.ends > 0
    /\ ProcessEnds("killed") /\ AllGone
    /\ left' = [left EXCEPT !.ends = @ - 1]

Start ==
    /\ StartServer
    /\ UNCHANGED <<socketVars, loopVars, parseVars, handlerVars, conn, left>>

-----------------------------------------------------------------------------
\* What a statement promises about the catalog.
Effect(cat, s) ==
    CASE s.op = "create_table" -> [cat EXCEPT !.tabs = @ \cup {s.name}]
      [] s.op = "drop_table" -> [tabs |-> cat.tabs \ {s.name}, ixs |-> {i \in cat.ixs : TableOf[i] # s.name}]
      [] s.op = "create_index" -> [cat EXCEPT !.ixs = @ \cup {s.name}]
      [] s.op = "drop_index" -> [cat EXCEPT !.ixs = @ \ {s.name}]
      [] OTHER -> cat

Begins(s) == stage[s] = "plan" /\ stage'[s] = "run" /\ prog'[s] # <<>>
Ends(s) == Changing(s) /\ prog'[s] = <<>> /\ phase' # "down"
History ==
    /\ expect' = CASE \E s \in Sessions : Begins(s) ->
                        LET s == CHOOSE s \in Sessions : Begins(s)
                        IN [old |-> expect.new, new |-> Effect(expect.new, query[s])]
                   [] \E s \in Sessions : Ends(s) ->
                        LET s == CHOOSE s \in Sessions : Ends(s)
                        IN IF outcome'[s] = "ok" THEN [expect EXCEPT !.old = expect.new]
                           ELSE [expect EXCEPT !.new = expect.old]
                   [] phase = "starting" /\ phase' = "up" -> [old |-> db, new |-> db]
                   [] OTHER -> expect
    /\ orphans' = orphans \cup
                  (IF phase' = "down"
                   THEN {n \in {query[s].name : s \in {s \in Sessions :
                                    Changing(s) /\ job[s] \in {"create_table", "create_index"}}} :
                         files[n] # "none"}
                   ELSE {})
    /\ tainted' = (tainted \/ (phase = "closing" /\ \E s \in Sessions : Changing(s)))
    /\ UNCHANGED within
    /\ commented' = (phase' # "down" /\ (commented \/ \E c \in Clients : ask'[c].op = "open_comment"))

Next ==
    /\ \/ \E c \in Clients : Connect(c) \/ Leave(c) \/ \E s \in Statements : Send(c, s)
       \/ AcceptLock \/ Accept \/ AcceptError \/ LeaveLoop \/ Killed \/ Start
       \/ \E s \in Sessions :
             \/ Spawn(s) \/ HandlerStart(s) \/ Read(s) \/ EndSession(s)
             \/ Parse(s) \/ Analyze(s) \/ Execute(s) \/ Answer(s)
       \/ \E th \in Threads : Step(th)
    /\ History

Spec == Init /\ [][Next]_vars

\* The scheduler runs every thread that can run; nothing is assumed of clients, faults or starts.
\* Every step of a thread changes one of progress.
progress == <<prog, phase, acc, stage>>
Fairness ==
    /\ WF_progress(AcceptLock \/ Accept \/ (\E s \in Sessions : Spawn(s)) \/ Step("main"))
    /\ \A s \in Sessions :
          WF_progress(\/ HandlerStart(s) \/ Read(s) \/ EndSession(s) \/ Parse(s) \/ Analyze(s)
                      \/ Execute(s) \/ Answer(s) \/ Step(s))
FairSpec == Spec /\ Fairness

-----------------------------------------------------------------------------
\* Between statements, while the server is up, what SmManager and DiskManager keep in memory, what
\* db.meta says and what the directory holds agree: every table and index of db_ has its handle, on a
\* descriptor the kernel has for that file (also after sockets and other files reused numbers), and
\* there is no other file than those of a CREATE that was killed or refused for its key length.
CatalogConsistent ==
    /\ phase \in {"down", "starting", "up", "closing"} /\ ended \in {"killed", "failed", "closed"}
    /\ files \in [Paths -> {"none", "empty", "ready"}]
    /\ kernel \in [Fds -> Paths \cup Clients \cup {"free", "listen"}]
    /\ (phase = "up" /\ ~broken /\ ~tainted /\ \A th \in Threads : prog[th] = <<>>) =>
          /\ db = expect.new /\ meta = [state |-> "good", cat |-> db]
          /\ DOMAIN fhs = db.tabs /\ DOMAIN ihs = db.ixs
          /\ \A n \in db.tabs \cup db.ixs :
                LET fd == IF n \in db.tabs THEN fhs[n] ELSE ihs[n]
                IN kernel[fd] = n /\ n \in DOMAIN path2fd /\ path2fd[n] = fd /\ files[n] = "ready"
          /\ \A n \in TableNames \cup IndexNames :
                files[n] # "none" => n \in db.tabs \cup db.ixs \cup orphans \cup TooLong

\* If the process ended now, the next start would come up with the catalog from before or after the
\* statement that was running.  The windows in which it would not: db.meta truncated and not yet
\* rewritten (flush_meta, create_db), a file destroyed before db.meta forgets it (drop_table,
\* drop_index), an index file destroyed and not yet rebuilt (RecoveryManager::undo).  A start fails
\* only after the process ended in one of them, or after a shutdown that overlapped a statement.
Pending(th, op, names) == \E k \in DOMAIN prog[th] : prog[th][k].op = op /\ prog[th][k].name \in names
Restartable ==
    /\ ended = "failed" => broken \/ tainted
    /\ (dir /\ ~broken /\ ~tainted) =>
          \/ /\ meta.state = "good" /\ files["log"] # "none"
             /\ meta.cat \in {expect.old, expect.new}
             /\ \A n \in meta.cat.tabs \cup meta.cat.ixs :
                   \/ files[n] = "ready"
                   \/ Pending("main", "header", {n})
                   \/ \E s \in Sessions : /\ job[s] \in {"drop_table", "drop_index"}
                                           /\ Pending(s, "write_meta", {"meta"})
          \/ /\ meta.state # "good"
             /\ \E th \in Threads : Pending(th, "write_meta", {"meta"})

\* A DDL statement fails exactly when the catalog forbids it, its record or its key has no legal size,
\* it names a column that is not there, or a file is in its way: left behind by a killed CREATE or by
\* one that was refused for its key length, or that of another index whose file has the same name.
\* CREATE INDEX also fails over duplicates.  No other statement, failed or not, leaves anything behind
\* that makes a later one fail.  (System calls do not fail here: no disk is full.)
InTheWay(n, cat) ==
    \E p \in SameFile(n) : \/ p \in cat.tabs \cup cat.ixs \cup orphans
                           \/ p \in TooLong /\ files[p] # "none"
MustFail(s) ==
    LET cat == expect.old
    IN CASE s.op = "create_table" -> InTheWay(s.name, cat)
         [] s.op = "drop_table" -> s.name \notin cat.tabs
         [] s.op = "create_index" -> \/ TableOf[s.name] \notin cat.tabs
                                     \/ s.name \in TooLong \/ InTheWay(s.name, cat)
         [] s.op = "drop_index" -> s.name \notin cat.ixs
         [] s.op = "show_index" -> s.name \notin cat.tabs
         [] OTHER -> TRUE
DdlOutcome == [][\A s \in Sessions :
    (/\ ~broken /\ ~tainted /\ phase = "up"
     /\ stage'[s] = "run" /\ prog'[s] = <<>> /\ (stage[s] = "plan" \/ Changing(s)))
    => (outcome'[s] = "failure" <=> MustFail(query[s]) \/ Calls(s, {"duplicate"}))]_vars

\* An index allocates its pages after the three it is created with, although its counter belongs to
\* the descriptor and create_index closes the file before open_index opens it again: unless another
\* thread's accept took the descriptor in between (moved).
IndexNumbered ==
    phase = "up" => \A i \in DOMAIN ihs : i \in moved \/ fd2pageno[ihs[i]] = InitNumPages

\* A thread serves the connection it was created for, though all get it through the variable sockfd,
\* and runs the statement it read, though all parse into the global parse_tree; a statement is
\* dropped only inside a comment somebody left open.
HandOver ==
    /\ \A s \in Sessions : stage[s] \notin {"free", "born"} => kernel[fdOf[s]] = conn[s]
    /\ \A s \in Sessions : stage[s] \in {"plan", "run"} => query[s] = data_recv[s]
    /\ \A s \in Sessions : (stage[s] = "done" /\ data_recv[s] \in Ddl) => commented

\* A statement is answered, or the process ends; a connection is accepted, or the process ends, or
\* the accept loop waits for the mutex it holds itself.
Stuck == phase = "up" /\ acc = "lock" /\ held /\ \A s \in Sessions : stage[s] # "born"
Answered ==
    \A c \in Clients : /\ (ask[c] # NoStatement) ~> (ask[c] = NoStatement)
                       /\ (client[c] = "queued") ~> (client[c] # "queued" \/ Stuck)

=============================================================================
