------------------------------ MODULE Catalog ------------------------------
(***************************************************************************)
(* The system catalog and its files: SmManager (sm_manager.cpp, sm_meta.h) *)
(* keeps the tables and their indexes in db_, writes them to db.meta, and  *)
(* creates, opens and destroys their files through RmManager, IxManager and*)
(* DiskManager (disk_manager.cpp).  RecoveryManager::undo builds every     *)
(* index again when the server starts.                                     *)
(*                                                                         *)
(* A DDL statement, the start and the shutdown of the server are sequences *)
(* of calls.  Between two calls the process may end, and other threads may *)
(* open and close descriptors: files and sockets share the numbers, and    *)
(* the kernel gives out the lowest free one.                               *)
(***************************************************************************)
EXTENDS Integers, Sequences, FiniteSets

CONSTANTS
    TableNames,     \* names of tables
    IndexNames,     \* indexes: a table and some of its columns, in order
    TableOf,        \* [IndexNames -> TableNames]
    FileOf,         \* [IndexNames -> file name]; t(a_b), t(a, b) and t_a(b) are all kept in t_a_b.idx
    TooLong,        \* the indexes whose columns exceed IX_MAX_COL_LEN
    Sessions,       \* client threads
    MaxFd           \* descriptors are 1..MaxFd, enough for all the files and sockets

ASSUME CatalogAssumption ==
    /\ TableOf \in [IndexNames -> TableNames] /\ TooLong \subseteq IndexNames
    /\ DOMAIN FileOf = IndexNames
    /\ IsFiniteSet(TableNames) /\ IsFiniteSet(IndexNames)
    /\ TableNames \cap IndexNames = {}       \* the file of an index ends in ".idx"
    /\ MaxFd \in Nat \ {0}
    /\ {"log", "free", "main", "listen", "none"} \cap (TableNames \cup IndexNames \cup Sessions) = {}

Fds == 1..MaxFd
Paths == TableNames \cup IndexNames \cup {"log"}
Threads == Sessions \cup {"main"}
InitNumPages == 3       \* IX_INIT_NUM_PAGES

VARIABLES
    \* on disk
    dir,            \* the directory of the database exists
    files,          \* [Paths -> "none", "empty" or "ready"]: a file is ready when it has its header;
                    \* that of several indexes is kept under the one it was created for
    meta,           \* db.meta: [state, cat], torn between truncation and rewriting
    \* in the process
    db,             \* SmManager::db_: a set of tables and a set of indexes
    fhs, ihs,       \* handles of open tables and indexes: [name -> descriptor]
    path2fd,        \* DiskManager: [path -> descriptor]; fd2path_ is its inverse
    fd2pageno,      \* DiskManager: the next page number of the file behind a descriptor
    prog,           \* [Threads -> the calls it has yet to make]
    job,            \* [Threads -> what the calls are part of]
    reg,            \* [Threads -> the descriptor the last open_file returned]
    outcome,        \* [Threads -> "ok" or "failure", of the last job]
    phase,          \* of the process: "down", "starting", "up", "closing"
    \* the kernel
    kernel,         \* [Fds -> who holds the descriptor, or "free"]
    \* history
    broken,         \* the process ended with files that db.meta does not describe
    ended,          \* how the process ended last: "killed", "failed" or "closed"
    moved           \* indexes whose file came back from create_index under another descriptor

diskVars == <<dir, files, meta>>
handleVars == <<fhs, ihs, path2fd, fd2pageno>>
historyVars == <<broken, ended>>
catalogVars == <<dir, files, meta, db, fhs, ihs, path2fd, fd2pageno, prog, job, reg, outcome, phase,
                 kernel, broken, ended, moved>>

NoCatalog == [tabs |-> {}, ixs |-> {}]
Call(op, name) == [op |-> op, name |-> name]
LowestFree == CHOOSE fd \in Fds : kernel[fd] = "free" /\ \A g \in Fds : kernel[g] = "free" => fd <= g

\* The indexes whose file has the same name as that of n, and whether there is a file of that name.
SameFile(n) == IF n \in IndexNames THEN {i \in IndexNames : FileOf[i] = FileOf[n]} ELSE {n}
Taken(n) == \E p \in SameFile(n) : files[p] # "none"

With(f, x, y) == [z \in DOMAIN f \cup {x} |-> IF z = x THEN y ELSE f[z]]
Without(f, x) == [z \in DOMAIN f \ {x} |-> f[z]]
\* A loop over a set of names; Body has the calls of one round.
ForEach(names, body) == [op |-> "for_each", names |-> names, body |-> body]

-----------------------------------------------------------------------------
\* The calls of every operation, in the order of the code.
FlushMeta == <<Call("truncate", "meta"), Call("write_meta", "meta")>>

\* RmManager::create_file, whose check of the record size is in Refused, then the table is registered
\* and opened.
CreateTable(t) ==
    <<Call("create", t), Call("open", t), Call("header", t), Call("close", t),
      Call("add_table", t), Call("open_file", t)>> \o FlushMeta

\* IxManager::create_index and open_index.
NewIndexFile(i) ==
    <<Call("create", i), Call("open", i), Call("check_length", i), Call("header", i),
      Call("number", i), Call("close", i), Call("open_index", i)>>

\* Mutant: db.meta is written before the index is in it.
CreateIndexFlushFirst(i) ==
    NewIndexFile(i) \o <<Call("fill", i)>> \o FlushMeta \o <<Call("add_index", i), Call("register", i)>>
CreateIndex(i) ==
    NewIndexFile(i) \o <<Call("fill", i), Call("add_index", i), Call("register", i)>> \o FlushMeta

DestroyIndex(i) == <<Call("close_index", i), Call("destroy", i)>>

DropIndex(i) == DestroyIndex(i) \o <<Call("remove_index", i)>> \o FlushMeta

\* Mutant: the indexes of the table keep their files and handles.
DropTableOnly(t) ==
    <<Call("close_file", t), Call("destroy", t), Call("remove_table", t)>> \o FlushMeta
DropTable(t) ==
    <<ForEach({i \in db.ixs : TableOf[i] = t}, "destroy_index"),
      Call("close_file", t), Call("destroy", t), Call("remove_table", t)>> \o FlushMeta

\* create_db; db.meta is written when the stream goes out of scope, after the log was created.
CreateDb ==
    <<Call("mkdir", "meta"), Call("truncate", "meta"), Call("create", "log"), Call("write_meta", "meta")>>

\* The end of RecoveryManager::undo: an index is destroyed (errors are ignored) and built again.
RebuildIndex(i) == DestroyIndex(i) \o NewIndexFile(i) \o <<Call("register", i)>>

\* open_db after it has read the catalog, the log opened by read_log, and recovery.
OpenDb(cat) ==
    <<ForEach(cat.tabs, "open_table"), Call("open", "log"), ForEach(cat.ixs, "rebuild_index"),
      Call("serve", "log")>>

\* close_db, and the end of main.
CloseDb ==
    FlushMeta
    \o <<ForEach(DOMAIN fhs, "shut_file"), ForEach(DOMAIN ihs, "shut_index"),
         Call("clear", "log"), Call("exit", "log")>>

\* One round of a loop.
Body(body, n) ==
    CASE body = "destroy_index" -> DestroyIndex(n)
      [] body = "open_table" ->
            <<Call("open_file", n), ForEach({i \in db.ixs : TableOf[i] = n}, "open_index")>>
      [] body = "open_index" -> <<Call("open_index", n), Call("register", n)>>
      [] body = "rebuild_index" -> RebuildIndex(n)
      [] OTHER -> <<Call(body, n)>>

-----------------------------------------------------------------------------
\* The next start can read the catalog and open every file it names.
Bootable ==
    dir => /\ meta.state = "good" /\ files["log"] # "none"
           /\ \A n \in meta.cat.tabs \cup meta.cat.ixs : files[n] = "ready"

Empty == [x \in {} |-> 0]

CatalogInit ==
    /\ dir = FALSE /\ files = [p \in Paths |-> "none"]
    /\ meta = [state |-> "none", cat |-> NoCatalog]
    /\ phase = "down" /\ broken = FALSE /\ ended = "closed"
    /\ db = NoCatalog /\ fhs = Empty /\ ihs = Empty /\ path2fd = Empty
    /\ fd2pageno = [fd \in Fds |-> 0] /\ kernel = [fd \in Fds |-> "free"]
    /\ prog = [th \in Threads |-> <<>>] /\ job = [th \in Threads |-> "none"]
    /\ reg = [th \in Threads |-> 0] /\ outcome = [th \in Threads |-> "ok"]
    /\ moved = {}

\* The process ends, by exit, a signal, an uncaught exception or a crash.
ProcessEnds(how) ==
    /\ phase' = "down" /\ ended' = how
    /\ broken' = (broken \/ ~Bootable)
    /\ db' = NoCatalog /\ fhs' = Empty /\ ihs' = Empty /\ path2fd' = Empty
    /\ fd2pageno' = [fd \in Fds |-> 0] /\ kernel' = [fd \in Fds |-> "free"]
    /\ prog' = [th \in Threads |-> <<>>] /\ job' = [th \in Threads |-> "none"]
    /\ reg' = [th \in Threads |-> 0] /\ outcome' = [th \in Threads |-> "ok"]
    /\ moved' = {}
    /\ UNCHANGED diskVars

\* The calls of a job begin.
Begin(th, name, calls) ==
    /\ job' = [job EXCEPT ![th] = name]
    /\ prog' = [prog EXCEPT ![th] = calls]
    /\ outcome' = [outcome EXCEPT ![th] = "ok"]
    /\ UNCHANGED <<dir, files, meta, db, handleVars, reg, kernel, historyVars, moved>>

\* A call throws an RMDBError: the session answers failure, main ends the process.
Throw(th) ==
    IF th = "main" THEN ProcessEnds("failed")
    ELSE /\ prog' = [prog EXCEPT ![th] = <<>>]
         /\ outcome' = [outcome EXCEPT ![th] = "failure"]
         /\ UNCHANGED <<dir, files, meta, db, handleVars, job, reg, phase, kernel, historyVars, moved>>

Next1(th) == prog' = [prog EXCEPT ![th] = Tail(@)]
Calls(th, ops) == prog[th] # <<>> /\ Head(prog[th]).op \in ops
Name(th) == Head(prog[th]).name

\* The next round of a loop, over the names in any order, or its end.
Loop(th) ==
    /\ Calls(th, {"for_each"})
    /\ LET loop == Head(prog[th])
       IN \/ \E n \in loop.names :
                prog' = [prog EXCEPT ![th] = Body(loop.body, n)
                                             \o <<ForEach(loop.names \ {n}, loop.body)>> \o Tail(@)]
          \/ loop.names = {} /\ Next1(th)
    /\ UNCHANGED <<dir, files, meta, db, handleVars, job, reg, outcome, phase, kernel, historyVars, moved>>

-----------------------------------------------------------------------------
\* DiskManager.  The name of a new file is compared with every file; to open or to destroy an index is
\* to look for the file created for it.
CreateFile(th) ==
    /\ Calls(th, {"create"})
    /\ IF Taken(Name(th)) THEN Throw(th)
       ELSE /\ files' = [files EXCEPT ![Name(th)] = "empty"]
            /\ Next1(th)
            /\ UNCHANGED <<dir, meta, db, handleVars, job, reg, outcome, phase, kernel, historyVars, moved>>

\* A failed destroy_index is ignored when the indexes are rebuilt.
DestroyFile(th) ==
    /\ Calls(th, {"destroy"})
    /\ IF files[Name(th)] = "none" \/ Name(th) \in DOMAIN path2fd
       THEN IF phase = "starting"
            THEN /\ Next1(th)
                 /\ UNCHANGED <<dir, files, meta, db, handleVars, job, reg, outcome, phase, kernel,
                                historyVars, moved>>
            ELSE Throw(th)
       ELSE /\ files' = [files EXCEPT ![Name(th)] = "none"]
            /\ Next1(th)
            /\ UNCHANGED <<dir, meta, db, handleVars, job, reg, outcome, phase, kernel, historyVars, moved>>

\* open_file; RmFileHandle reads its header and numbers from it, IxIndexHandle adds one to
\* whatever the counter of the descriptor is.
Opens(th, op, fd) ==
    /\ path2fd' = With(path2fd, Name(th), fd)
    /\ kernel' = [kernel EXCEPT ![fd] = Name(th)]
    /\ reg' = [reg EXCEPT ![th] = fd]
    /\ fd2pageno' = [fd2pageno EXCEPT ![fd] = CASE op = "open_file" -> 1
                                                [] op = "open_index" -> @ + 1
                                                [] OTHER -> @]
    /\ fhs' = IF op = "open_file" THEN With(fhs, Name(th), fd) ELSE fhs
    /\ moved' = CASE op # "open_index" -> moved
                  [] op = "open_index" /\ fd = reg[th] -> moved \ {Name(th)}
                  [] op = "open_index" /\ fd # reg[th] -> moved \cup {Name(th)}

\* A header that is not there fails the constructor, and the descriptor stays open.
OpenFile(th) ==
    /\ Calls(th, {"open", "open_file", "open_index"})
    /\ LET op == Head(prog[th]).op
           fails == op # "open" /\ files[Name(th)] = "empty"
       IN IF files[Name(th)] = "none" \/ Name(th) \in DOMAIN path2fd \/ (fails /\ th = "main")
          THEN Throw(th)
          ELSE /\ Opens(th, IF fails THEN "open" ELSE op, LowestFree)
               /\ prog' = [prog EXCEPT ![th] = IF fails THEN <<>> ELSE Tail(@)]
               /\ outcome' = [outcome EXCEPT ![th] = IF fails THEN "failure" ELSE @]
               /\ UNCHANGED <<dir, files, meta, db, ihs, job, phase, historyVars>>

\* close_file(fd)
Closes(th, fd) ==
    /\ path2fd' = Without(path2fd, kernel[fd])
    /\ kernel' = [kernel EXCEPT ![fd] = "free"]
IsOpen(fd) == \E p \in DOMAIN path2fd : path2fd[p] = fd

CloseFile(th) ==
    /\ Calls(th, {"close"})
    /\ IF ~IsOpen(reg[th]) THEN Throw(th)
       ELSE /\ Closes(th, reg[th])
            /\ Next1(th)
            /\ UNCHANGED <<dir, files, meta, db, fhs, ihs, fd2pageno, job, reg, outcome, phase, historyVars,
                           moved>>

\* The writing of the headers (into a file that was removed, it brings nothing back), check of the key
\* length, set_fd2pageno.
WriteHeader(th) ==
    /\ Calls(th, {"header"})
    /\ files' = [files EXCEPT ![Name(th)] = IF @ = "none" THEN "none" ELSE "ready"]
    /\ Next1(th)
    /\ UNCHANGED <<dir, meta, db, handleVars, job, reg, outcome, phase, kernel, historyVars, moved>>

CheckLength(th) ==
    /\ Calls(th, {"check_length"})
    /\ IF Name(th) \in TooLong THEN Throw(th)
       ELSE /\ Next1(th)
            /\ UNCHANGED <<dir, files, meta, db, handleVars, job, reg, outcome, phase, kernel, historyVars,
                           moved>>

\* Mutant: create_index leaves the counter of the descriptor as it is.
NumberNothing(th) ==
    /\ Calls(th, {"number"})
    /\ Next1(th)
    /\ UNCHANGED <<dir, files, meta, db, fhs, ihs, path2fd, fd2pageno, job, reg, outcome, phase, kernel,
                   historyVars, moved>>
SetPageNo(th) ==
    /\ Calls(th, {"number"})
    /\ fd2pageno' = [fd2pageno EXCEPT ![reg[th]] = InitNumPages - 1]
    /\ Next1(th)
    /\ UNCHANGED <<dir, files, meta, db, fhs, ihs, path2fd, job, reg, outcome, phase, kernel, historyVars,
                   moved>>

-----------------------------------------------------------------------------
\* SmManager
\* Mutant: a duplicate leaves the new file behind.
FillKeepsFile(th) ==
    /\ Calls(th, {"fill"})
    /\ IF TableOf[Name(th)] \notin DOMAIN fhs THEN ProcessEnds("killed")
       ELSE /\ prog' \in {[prog EXCEPT ![th] = Tail(@)],
                          [prog EXCEPT ![th] = <<Call("close", Name(th)), Call("duplicate", Name(th))>>]}
            /\ UNCHANGED <<dir, files, meta, db, handleVars, job, reg, outcome, phase, kernel, historyVars,
                           moved>>
\* The scan of the base table in create_index.  A duplicate closes and destroys the new file; a
\* table without a handle is an std::out_of_range that nobody catches.
Fill(th) ==
    /\ Calls(th, {"fill"})
    /\ IF TableOf[Name(th)] \notin DOMAIN fhs THEN ProcessEnds("killed")
       ELSE /\ prog' \in {[prog EXCEPT ![th] = Tail(@)],
                          [prog EXCEPT ![th] = <<Call("close", Name(th)), Call("destroy", Name(th)),
                                                 Call("duplicate", Name(th))>>]}
            /\ UNCHANGED <<dir, files, meta, db, handleVars, job, reg, outcome, phase, kernel, historyVars,
                           moved>>

Duplicate(th) == Calls(th, {"duplicate"}) /\ Throw(th)

\* The changes of db_ and of the handles.
Register(th) ==
    /\ Calls(th, {"add_table", "add_index", "register", "remove_table", "remove_index"})
    /\ LET op == Head(prog[th]).op
           n == Name(th)
       IN /\ db' = CASE op = "add_table" -> [db EXCEPT !.tabs = @ \cup {n}]
                     [] op = "add_index" -> [db EXCEPT !.ixs = @ \cup {n}]
                     [] op = "remove_table" ->
                           [tabs |-> db.tabs \ {n}, ixs |-> {i \in db.ixs : TableOf[i] # n}]
                     [] op = "remove_index" -> [db EXCEPT !.ixs = @ \ {n}]
                     [] OTHER -> db
          /\ ihs' = IF op = "register" THEN With(ihs, n, reg[th]) ELSE ihs
    /\ Next1(th)
    /\ UNCHANGED <<dir, files, meta, fhs, path2fd, fd2pageno, job, reg, outcome, phase, kernel, historyVars,
                   moved>>

\* close_file and close_index of a handle, which is then erased; skipped when there is none.
CloseHandle(th) ==
    /\ Calls(th, {"close_file", "close_index"})
    /\ LET n == Name(th)
           handles == IF n \in TableNames THEN fhs ELSE ihs
       IN IF n \in DOMAIN handles /\ ~IsOpen(handles[n]) THEN Throw(th)
          ELSE /\ IF n \in DOMAIN handles
                  THEN /\ Closes(th, handles[n])
                       /\ fhs' = Without(fhs, n) /\ ihs' = Without(ihs, n)
                  ELSE UNCHANGED <<path2fd, kernel, fhs, ihs>>
               /\ Next1(th)
               /\ UNCHANGED <<dir, files, meta, db, fd2pageno, job, reg, outcome, phase, historyVars, moved>>

\* The loops of close_db close the files of the handles that are there, then clear the maps.
ShutHandle(th) ==
    /\ Calls(th, {"shut_file", "shut_index"})
    /\ LET n == Name(th)
           handles == IF n \in TableNames THEN fhs ELSE ihs
       IN IF n \in DOMAIN handles /\ ~IsOpen(handles[n]) THEN Throw(th)
          ELSE /\ IF n \in DOMAIN handles THEN Closes(th, handles[n])
                  ELSE UNCHANGED <<path2fd, kernel>>
               /\ Next1(th)
               /\ UNCHANGED <<dir, files, meta, db, fhs, ihs, fd2pageno, job, reg, outcome, phase,
                              historyVars, moved>>

ClearMaps(th) ==
    /\ Calls(th, {"clear"})
    /\ fhs' = Empty /\ ihs' = Empty /\ db' = NoCatalog
    /\ Next1(th)
    /\ UNCHANGED <<dir, files, meta, path2fd, fd2pageno, job, reg, outcome, phase, kernel, historyVars,
                   moved>>

Exit(th) == Calls(th, {"exit"}) /\ ProcessEnds("closed")

\* flush_meta: the stream's constructor truncates db.meta, its destructor writes db_ to it.
TruncateMeta(th) ==
    /\ Calls(th, {"truncate"})
    /\ meta' = [meta EXCEPT !.state = "torn"]
    /\ Next1(th)
    /\ UNCHANGED <<dir, files, db, handleVars, job, reg, outcome, phase, kernel, historyVars, moved>>

WriteMeta(th) ==
    /\ Calls(th, {"write_meta"})
    /\ meta' = [state |-> "good", cat |-> db]
    /\ Next1(th)
    /\ UNCHANGED <<dir, files, db, handleVars, job, reg, outcome, phase, kernel, historyVars, moved>>

MakeDir(th) ==
    /\ Calls(th, {"mkdir"})
    /\ dir' = TRUE
    /\ Next1(th)
    /\ UNCHANGED <<files, meta, db, handleVars, job, reg, outcome, phase, kernel, historyVars, moved>>

\* open_db reads db.meta.  Without the number of tables in the file, the count is an uninitialized
\* variable: no table is read, or tables without a name, whose file cannot be opened.
LoadMeta(th) ==
    /\ Calls(th, {"load_meta"})
    /\ \/ /\ meta.state = "good"
          /\ db' = meta.cat /\ prog' = [prog EXCEPT ![th] = OpenDb(meta.cat)]
          /\ UNCHANGED <<dir, files, meta, handleVars, job, reg, outcome, phase, kernel, historyVars, moved>>
       \/ /\ meta.state # "good"
          /\ db' = NoCatalog /\ prog' = [prog EXCEPT ![th] = OpenDb(NoCatalog)]
          /\ UNCHANGED <<dir, files, meta, handleVars, job, reg, outcome, phase, kernel, historyVars, moved>>
       \/ /\ meta.state # "good"
          /\ ProcessEnds("failed")

\* start_server: the listening socket takes a descriptor too.
Serve(th) ==
    /\ Calls(th, {"serve"})
    /\ phase' = "up"
    /\ kernel' = [kernel EXCEPT ![LowestFree] = "listen"]
    /\ Next1(th)
    /\ UNCHANGED <<dir, files, meta, db, handleVars, job, reg, outcome, historyVars, moved>>

CatalogStep(th) ==
    \/ Loop(th) \/ CreateFile(th) \/ DestroyFile(th) \/ OpenFile(th) \/ CloseFile(th) \/ WriteHeader(th)
    \/ CheckLength(th) \/ SetPageNo(th) \/ Fill(th) \/ Duplicate(th) \/ Register(th)
    \/ CloseHandle(th) \/ ShutHandle(th) \/ ClearMaps(th) \/ Exit(th) \/ TruncateMeta(th)
    \/ WriteMeta(th) \/ MakeDir(th) \/ LoadMeta(th) \/ Serve(th)

-----------------------------------------------------------------------------
\* main: create_db when there is no database, open_db, recovery.
StartServer ==
    /\ phase = "down"
    /\ phase' = "starting"
    /\ Begin("main", "start", (IF dir THEN <<>> ELSE CreateDb) \o <<Call("load_meta", "meta")>>)

\* The accept loop is left, by SIGINT or a thread that cannot be created: close_db.
Shutdown ==
    /\ phase = "up"
    /\ phase' = "closing"
    /\ Begin("main", "close", CloseDb)

\* A DDL statement: what sends the session away at once, or its calls.  SHOW and DESC only read.
\* create_wide_table is a CREATE TABLE whose record has no byte or more than RM_MAX_RECORD_SIZE, and
\* index_unknown_column a CREATE INDEX over a column that the table does not have.
DdlOps == {"create_table", "create_wide_table", "drop_table", "create_index", "index_unknown_column",
           "drop_index", "show_index"}
Refused(s) ==
    \/ s.op \in {"create_wide_table", "index_unknown_column"}
    \/ s.op = "create_table" /\ s.name \in db.tabs
    \/ s.op = "drop_table" /\ s.name \notin db.tabs
    \/ s.op = "create_index" /\ (TableOf[s.name] \notin db.tabs \/ s.name \in db.ixs)
    \/ s.op = "drop_index" /\ s.name \notin db.ixs
    \/ s.op = "show_index" /\ s.name \notin db.tabs

CallsOf(s) ==
    CASE s.op = "create_table" -> CreateTable(s.name)
      [] s.op = "drop_table" -> DropTable(s.name)
      [] s.op = "create_index" -> CreateIndex(s.name)
      [] s.op = "drop_index" -> DropIndex(s.name)
      [] OTHER -> <<>>

RunDdl(th, s) ==
    IF Refused(s)
    THEN /\ job' = [job EXCEPT ![th] = s.op]
         /\ outcome' = [outcome EXCEPT ![th] = "failure"]
         /\ UNCHANGED <<dir, files, meta, db, handleVars, prog, reg, phase, kernel, historyVars, moved>>
    ELSE Begin(th, s.op, CallsOf(s)) /\ UNCHANGED phase

=============================================================================
