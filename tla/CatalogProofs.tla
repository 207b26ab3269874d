---------------------------- MODULE CatalogProofs ----------------------------
(***************************************************************************)
(* Proofs about the catalog of Server: an inductive invariant that follows *)
(* every DDL statement, the start and the shutdown call by call, and says  *)
(* of each position what SmManager has in memory, DiskManager has open,    *)
(* db.meta says and the directory holds.  This module states the invariant *)
(* and proves that the calls of a statement preserve it while the server   *)
(* is up; RestartProofs has the start, the shutdown and the theorems.      *)
(***************************************************************************)
EXTENDS ServerProofs

Names == TableNames \cup IndexNames
\* The calls of p from the k-th on.
From(p, k) == SubSeq(p, k, Len(p))
\* A name of the catalog cat, with an open file, with a handle.
In(n, cat) == n \in cat.tabs \cup cat.ixs
Open(n) == n \in DOMAIN path2fd
Held(n) == n \in DOMAIN fhs \cup DOMAIN ihs
\* The next page of index i comes after those it was created with.
Numbered(i, fd) == i \in moved \/ fd2pageno[fd] = InitNumPages
\* No process ended in a window in which db.meta did not describe the files, and no shutdown
\* overlapped a statement: what the invariant says of files and db.meta is said under this.
Sound == ~broken /\ ~tainted
\* No DDL statement is under way.
Idle == \A s \in Sessions : ~Changing(s)

\* The types of what the server's invariant says nothing of.
MoreTypes ==
    /\ DOMAIN fd2pageno = Fds
    /\ DOMAIN reg = Threads /\ DOMAIN job = Threads /\ outcome \in [Threads -> {"ok", "failure"}]
    /\ expect \in [old : Catalogs, new : Catalogs]
    /\ orphans \subseteq Names

\* One DDL statement runs at a time: execution holds the server's mutex.
OneDdl ==
    /\ \A s \in Sessions : Changing(s) => stage[s] = "run"
    /\ \A s, r \in Sessions : Changing(s) /\ Changing(r) => s = r

\* Every handle is of a table or index the catalog has, and is the open file of that name.
HandlesKnown ==
    /\ \A t \in DOMAIN fhs : t \in db.tabs /\ Open(t) /\ path2fd[t] = fhs[t]
    /\ \A i \in DOMAIN ihs : i \in db.ixs /\ Open(i) /\ path2fd[i] = ihs[i]
\* An open file is in the directory.
OnDisk == \A p \in DOMAIN path2fd : files[p] # "none"
\* Every index with a handle has its counter, those of S excepted.
NumberedBut(S) == \A i \in DOMAIN ihs \ S : Numbered(i, ihs[i])

\* The directory holds the file of n, with its header, when cat has n; otherwise no file, but for
\* those that a CREATE left behind.
DiskOf(n, cat) == IF In(n, cat) THEN files[n] = "ready" ELSE files[n] # "none" => n \in orphans \cup TooLong
WellFormed(cat) == \A i \in cat.ixs : i \notin TooLong /\ TableOf[i] \in cat.tabs
Orphaned(cat) == \A n \in orphans : files[n] # "none" /\ ~In(n, cat)
\* The directory holds the catalog cat.
DiskHolds(cat) ==
    /\ dir /\ files["log"] # "none" /\ WellFormed(cat) /\ Orphaned(cat)
    /\ \A n \in Names : DiskOf(n, cat)
\* No statement is at work on n: directory, handle and descriptor are as db_ says.
Settled(n) ==
    /\ DiskOf(n, db)
    /\ In(n, db) => Held(n)
    /\ Open(n) => Held(n) \/ n \in TooLong

MetaIs(state, cat) == meta = [state |-> state, cat |-> cat]

\* The catalog allows the statement.
Allowed(cat, q) ==
    CASE q.op = "create_table" -> q.name \notin cat.tabs
      [] q.op = "drop_table" -> q.name \in cat.tabs
      [] q.op = "create_index" -> TableOf[q.name] \in cat.tabs /\ q.name \notin cat.ixs
      [] q.op = "drop_index" -> q.name \in cat.ixs
      [] OTHER -> FALSE

-----------------------------------------------------------------------------
(* A statement that has made all its calls before the k-th.  "At" says what keeps the handles in *)
(* order, whatever happened before; "Sound" what directory, db.meta and db_ hold.                *)

CreateTableAt(s, t, k) ==
    /\ k <= 5 => t \notin DOMAIN fhs
    /\ k \in {3, 4} => Open(t) /\ path2fd[t] = reg[s]
    /\ k = 6 => t \in db.tabs
CreateTableSound(t, k) ==
    /\ db = IF k <= 5 THEN expect.old ELSE expect.new
    /\ MetaIs(IF k = 8 THEN "torn" ELSE "good", expect.old)
    /\ k = 1 => Settled(t)
    /\ k > 1 => t \notin orphans /\ files[t] = IF k <= 3 THEN "empty" ELSE "ready"
    /\ Open(t) <=> k \in {3, 4, 7, 8}
    /\ k >= 7 => Held(t)
    /\ \A n \in Names \ {t} : Settled(n)

\* The index file is created, numbered, closed and opened again; the handle comes after the scan
\* of the table.
CreateIndexAt(s, i, k) ==
    /\ k <= 10 => i \notin DOMAIN ihs
    /\ k \in 3..6 \cup 8..10 => Open(i) /\ path2fd[i] = reg[s]
    /\ k \in {6, 7} => reg[s] \in Fds /\ fd2pageno[reg[s]] = InitNumPages - 1
    /\ k \in 8..10 => Numbered(i, reg[s])
    /\ k = 10 => i \in db.ixs
CreateIndexSound(i, k) ==
    /\ db = IF k <= 9 THEN expect.old ELSE expect.new
    /\ MetaIs(IF k = 12 THEN "torn" ELSE "good", expect.old)
    /\ k = 1 => Settled(i)
    /\ k > 1 => i \notin orphans /\ files[i] = IF k <= 4 THEN "empty" ELSE "ready"
    /\ k > 1 => (Open(i) <=> k \in 3..6 \cup 8..12)
    /\ k > 3 => i \notin TooLong
    /\ k >= 11 => Held(i)
    /\ \A n \in Names \ {i} : Settled(n)

\* CREATE INDEX that met a duplicate closes and destroys its file.
Duplicates(i) == <<Call("close", i), Call("destroy", i), Call("duplicate", i)>>
DuplicateAt(s, i, k) ==
    /\ i \notin DOMAIN ihs
    /\ k = 1 => Open(i) /\ path2fd[i] = reg[s]
DuplicateSound(i, k) ==
    /\ db = expect.old /\ MetaIs("good", expect.old)
    /\ i \notin orphans \cup TooLong
    /\ files[i] = IF k <= 2 THEN "ready" ELSE "none"
    /\ Open(i) <=> k = 1
    /\ \A n \in Names \ {i} : Settled(n)

DropIndexAt(i, k) == k \in {2, 3} => i \notin DOMAIN ihs
DropIndexSound(i, k) ==
    /\ db = IF k <= 3 THEN expect.old ELSE expect.new
    /\ MetaIs(IF k = 5 THEN "torn" ELSE "good", expect.old)
    /\ files[i] = IF k <= 2 THEN "ready" ELSE "none"
    /\ k = 1 => Held(i)
    /\ Open(i) <=> k = 1
    /\ \A n \in Names \ {i} : Settled(n)

\* DROP TABLE: a loop over the indexes, then the table itself.
DropRest(t) == <<Call("close_file", t), Call("destroy", t), Call("remove_table", t)>> \o FlushMeta
Dropping(t, ixs) == <<ForEach(ixs, "destroy_index")>> \o DropRest(t)
\* the indexes of t that are left
IndexesLeft(t, ixs) == \A i \in DOMAIN ihs : TableOf[i] = t => i \in ixs
DropTableAt(t, k) ==
    /\ k <= 3 => IndexesLeft(t, {})
    /\ k \in {2, 3} => t \notin DOMAIN fhs
\* The indexes of t that the loop has left are untouched, the others have no file; so are the names
\* that have nothing to do with t.
IndexesSound(t, ixs) ==
    \A i \in expect.old.ixs : TableOf[i] = t => IF i \in ixs THEN Settled(i) ELSE files[i] = "none"
OthersSound(t) == \A n \in Names : n # t /\ ~(n \in expect.old.ixs /\ TableOf[n] = t) => Settled(n)
\* Between two rounds of the loop, within the round of i, and after the loop.
LoopSound(t, ixs) ==
    /\ db = expect.old /\ MetaIs("good", expect.old) /\ Settled(t) /\ OthersSound(t)
    /\ ixs \subseteq expect.old.ixs /\ IndexesSound(t, ixs)
RoundSound(t, i, ixs, k) ==
    /\ db = expect.old /\ MetaIs("good", expect.old) /\ Settled(t) /\ OthersSound(t)
    /\ ixs \subseteq expect.old.ixs
    /\ \A j \in expect.old.ixs \ {i} : TableOf[j] = t => IF j \in ixs THEN Settled(j) ELSE files[j] = "none"
    /\ i \in expect.old.ixs /\ files[i] = "ready" /\ (k = 1 => Held(i)) /\ (Open(i) <=> k = 1)
DropTableSound(t, k) ==
    /\ db = IF k <= 3 THEN expect.old ELSE expect.new
    /\ MetaIs(IF k = 5 THEN "torn" ELSE "good", expect.old)
    /\ files[t] = IF k <= 2 THEN "ready" ELSE "none"
    /\ k = 1 => Held(t)
    /\ Open(t) <=> k = 1
    /\ OthersSound(t)
    /\ IndexesSound(t, {})

\* Session s is at one of the positions of the statement.
CreatesTable(s, t) ==
    \E k \in 1..8 : /\ prog[s] = From(CreateTable(t), k) /\ CreateTableAt(s, t, k)
                    /\ Sound => CreateTableSound(t, k)
CreatesIndex(s, i) ==
    \E k \in 1..12 : /\ prog[s] = From(CreateIndex(i), k) /\ CreateIndexAt(s, i, k)
                     /\ Sound => CreateIndexSound(i, k)
GivesUpIndex(s, i) ==
    \E k \in 1..3 : /\ prog[s] = From(Duplicates(i), k) /\ DuplicateAt(s, i, k)
                    /\ Sound => DuplicateSound(i, k)
DropsIndex(s, i) ==
    \E k \in 1..5 : /\ prog[s] = From(DropIndex(i), k) /\ DropIndexAt(i, k)
                    /\ Sound => DropIndexSound(i, k)
IndexesOf(t) == {i \in IndexNames : TableOf[i] = t}
DropsIndexes(s, t) ==
    \E ixs \in SUBSET IndexesOf(t) : /\ prog[s] = Dropping(t, ixs) /\ IndexesLeft(t, ixs)
                                     /\ Sound => LoopSound(t, ixs)
DropsOne(s, t) ==
    \E ixs \in SUBSET IndexesOf(t) : \E i \in IndexesOf(t) \ ixs : \E k \in 1..2 :
        /\ prog[s] = From(DestroyIndex(i), k) \o Dropping(t, ixs)
        /\ IndexesLeft(t, IF k = 1 THEN ixs \cup {i} ELSE ixs)
        /\ Sound => RoundSound(t, i, ixs, k)
DropsTable(s, t) ==
    \E k \in 1..5 : /\ prog[s] = From(DropRest(t), k) /\ DropTableAt(t, k)
                    /\ Sound => DropTableSound(t, k)

\* Where the running statement of s is, and what it is to make of the catalog.
DdlAt(s) ==
    LET q == query[s]
    IN /\ outcome[s] = "ok" /\ job[s] = q.op
       /\ Sound => Allowed(expect.old, q) /\ expect.new = Effect(expect.old, q)
       /\ \/ q.op = "create_table" /\ CreatesTable(s, q.name)
          \/ q.op = "create_index" /\ (CreatesIndex(s, q.name) \/ GivesUpIndex(s, q.name))
          \/ q.op = "drop_index" /\ DropsIndex(s, q.name)
          \/ q.op = "drop_table" /\ (DropsIndexes(s, q.name) \/ DropsOne(s, q.name) \/ DropsTable(s, q.name))

-----------------------------------------------------------------------------
(* A start: create_db when there is no database, open_db, the log, the indexes built again. *)

\* The calls that are left, by loop.
Serving1 == <<Call("serve", "log")>>
Rebuilding(ixs) == <<ForEach(ixs, "rebuild_index")>> \o Serving1
Recovering == <<Call("open", "log")>> \o Rebuilding(db.ixs)
Opening(tabs) == <<ForEach(tabs, "open_table")>> \o Recovering
OpeningIndexes(ixs, tabs) == <<ForEach(ixs, "open_index")>> \o Opening(tabs)

\* No database yet: db.meta is not written, no file of a table or an index is there.
Fresh == /\ meta.state # "good" /\ orphans = {} /\ expect = [old |-> NoCatalog, new |-> NoCatalog]
         /\ \A n \in Names : files[n] = "none"
CreateDbSound(k) ==
    /\ dir <=> k > 1
    /\ files["log"] = IF k <= 3 THEN "none" ELSE "empty"
    /\ Fresh

\* What a start finds: db.meta, and the files it describes.
StoredCat == meta.state = "good" /\ meta.cat \in {expect.old, expect.new} /\ DiskHolds(meta.cat)

\* tables and their indexes
Of(tabs) == tabs \cup {i \in IndexNames : TableOf[i] \in tabs}
\* The names of db_ have a handle, those of W excepted; an open file has a handle, those of X excepted.
HeldBut(W) == \A n \in Names : Held(n) <=> In(n, db) /\ n \notin W
OpenHeld(X) == \A n \in Names \ X : Open(n) => Held(n)
\* open_db has read db.meta, and the directory holds its files, those of X excepted.
Loaded(X) ==
    /\ MetaIs("good", db) /\ db \in {expect.old, expect.new}
    /\ dir /\ files["log"] # "none" /\ WellFormed(db) /\ Orphaned(db)
    /\ \A n \in Names \ X : DiskOf(n, db)
    /\ OpenHeld(X)
\* open_db has still to open the files of W.
OpeningSound(W) == Loaded({}) /\ ~Open("log") /\ HeldBut(W)

\* undo() rebuilds index i and has made all the calls before the k-th; the indexes ixs come after i.
RebuildAt(i, ixs, k) ==
    LET fd == reg["main"]
    IN /\ i \in db.ixs \ ixs
       /\ NumberedBut(ixs \cup {i})
       /\ k > 1 => i \notin DOMAIN ihs
       /\ k \in 5..8 \cup {10} => Open(i) /\ path2fd[i] = fd
       /\ k \in {8, 9} => fd \in Fds /\ fd2pageno[fd] = InitNumPages - 1
       /\ k = 10 => Numbered(i, fd)
RebuildSound(i, k) ==
    /\ Loaded({i})
    /\ files[i] = CASE k = 3 -> "none" [] k \in 4..6 -> "empty" [] OTHER -> "ready"
    /\ k = 3 => ~Taken(i)
    /\ Open(i) <=> k \in {1, 5, 6, 7, 8, 10}
    /\ HeldBut(IF k = 1 THEN {} ELSE {i})

\* The position of the start.
StartAt ==
    LET p == prog["main"]
    IN \/ /\ db = NoCatalog /\ DOMAIN path2fd = {}
          /\ \/ \E k \in 1..4 : /\ p = From(CreateDb, k) \o <<Call("load_meta", "meta")>>
                                /\ Sound => CreateDbSound(k)
             \/ /\ p = <<Call("load_meta", "meta")>>
                /\ Sound => StoredCat
       \/ \E tabs \in SUBSET db.tabs :
             \/ /\ p = Opening(tabs)
                /\ Sound => OpeningSound(Of(tabs))
             \/ \E t \in db.tabs \ tabs :
                   /\ p = <<Call("open_file", t)>> \o OpeningIndexes({i \in db.ixs : TableOf[i] = t}, tabs)
                   /\ Sound => OpeningSound(Of(tabs \cup {t}))
             \/ \E ixs \in SUBSET db.ixs :
                   /\ \A j \in ixs : TableOf[j] \notin tabs
                   /\ \/ /\ p = OpeningIndexes(ixs, tabs)
                         /\ Sound => OpeningSound(Of(tabs) \cup ixs)
                      \/ \E i \in db.ixs \ ixs :
                            /\ TableOf[i] \notin tabs
                            /\ \/ /\ p = <<Call("open_index", i), Call("register", i)>> \o OpeningIndexes(ixs, tabs)
                                  /\ Sound => OpeningSound(Of(tabs) \cup ixs \cup {i})
                               \/ /\ p = <<Call("register", i)>> \o OpeningIndexes(ixs, tabs)
                                  /\ Open(i) /\ path2fd[i] = reg["main"]
                                  /\ Sound => /\ Loaded({i}) /\ DiskOf(i, db) /\ ~Open("log")
                                              /\ HeldBut(Of(tabs) \cup ixs \cup {i})
       \/ p = Recovering /\ (Sound => OpeningSound({}))
       \/ \E ixs \in SUBSET db.ixs :
             \/ /\ p = Rebuilding(ixs)
                /\ NumberedBut(ixs)
                /\ Sound => Loaded({}) /\ HeldBut({})
             \/ \E i \in db.ixs, k \in 1..10 :
                   /\ p = From(RebuildIndex(i), k) \o Rebuilding(ixs)
                   /\ RebuildAt(i, ixs, k)
                   /\ Sound => RebuildSound(i, k)
       \/ /\ p = Serving1
          /\ NumberedBut({})
          /\ Sound => Loaded({}) /\ HeldBut({})

-----------------------------------------------------------------------------
(* The shutdown: close_db writes db.meta and closes the files of the handles. *)

Clearing == <<Call("clear", "log"), Call("exit", "log")>>
ShutIndexes(ixs) == <<ForEach(ixs, "shut_index")>> \o Clearing
ShutFiles(tabs, ixs) == <<ForEach(tabs, "shut_file")>> \o ShutIndexes(ixs)
StillOpen(tabs, ixs) ==
    /\ tabs \subseteq DOMAIN fhs /\ ixs \subseteq DOMAIN ihs
    /\ \A t \in tabs : Open(t) /\ path2fd[t] = fhs[t]
    /\ \A i \in ixs : Open(i) /\ path2fd[i] = ihs[i]
\* The position of a shutdown that no statement runs beside.
CloseAt ==
    LET p == prog["main"]
    IN /\ expect.old = expect.new /\ DiskHolds(expect.new)
       /\ \/ \E k \in 1..2 : /\ p = From(FlushMeta, k) \o ShutFiles(DOMAIN fhs, DOMAIN ihs)
                             /\ StillOpen(DOMAIN fhs, DOMAIN ihs) /\ db = expect.new
                             /\ MetaIs(IF k = 2 THEN "torn" ELSE "good", expect.new)
          \/ /\ MetaIs("good", expect.new)
             /\ \/ \E tabs \in SUBSET TableNames, ixs \in SUBSET IndexNames :
                      \/ p = ShutFiles(tabs, ixs) /\ StillOpen(tabs, ixs)
                      \/ \E t \in TableNames \ tabs : /\ p = <<Call("shut_file", t)>> \o ShutFiles(tabs, ixs)
                                                      /\ StillOpen(tabs \cup {t}, ixs)
                \/ \E ixs \in SUBSET IndexNames :
                      \/ p = ShutIndexes(ixs) /\ StillOpen({}, ixs)
                      \/ \E i \in IndexNames \ ixs : /\ p = <<Call("shut_index", i)>> \o ShutIndexes(ixs)
                                                     /\ StillOpen({}, ixs \cup {i})
                \/ p = Clearing \/ p = <<Call("exit", "log")>>

\* The next start will come up, but for the windows Restartable names.
Restarts ==
   dir =>
          \/ /\ meta.state = "good" /\ files["log"] # "none"
             /\ meta.cat \in {expect.old, expect.new}
             /\ \A n \in meta.cat.tabs \cup meta.cat.ixs :
                   \/ files[n] = "ready"
                   \/ Pending("main", "header", {n})
                   \/ \E s \in Sessions : /\ job[s] \in {"drop_table", "drop_index"}
                                           /\ Pending(s, "write_meta", {"meta"})
          \/ /\ meta.state # "good"
             /\ \E th \in Threads : Pending(th, "write_meta", {"meta"})

\* What an ended process leaves behind, and what the catalog is between two statements.
DownSound == IF dir THEN StoredCat ELSE Fresh /\ files["log"] = "none"
IdleSound ==
    /\ db = expect.old /\ db = expect.new /\ MetaIs("good", db)
    /\ \A n \in Names : Settled(n)

\* A process that has ended keeps nothing.
Gone == db = NoCatalog /\ DOMAIN fhs = {} /\ DOMAIN ihs = {} /\ DOMAIN path2fd = {}

-----------------------------------------------------------------------------
\* The inductive invariant.  A failed start means that a process ended where db.meta did not describe
\* the files, so the part under Sound covers every position a statement, start or shutdown can be at.
CatalogInv ==
    /\ MoreTypes
    /\ OneDdl
    /\ OnDisk
    /\ phase = "down" => Gone
    /\ phase \in {"starting", "up"} => HandlesKnown
    /\ phase = "up" => NumberedBut({})
    /\ phase = "up" => \A s \in Sessions : Changing(s) => DdlAt(s)
    /\ phase = "starting" => StartAt
    /\ ended = "failed" => ~Sound
    /\ Sound =>
          /\ phase = "down" => DownSound
          /\ phase = "up" => /\ dir /\ files["log"] # "none" /\ WellFormed(expect.old) /\ Orphaned(expect.old)
                             /\ Idle => IdleSound
          /\ phase = "closing" => IF Idle THEN CloseAt ELSE Restarts

-----------------------------------------------------------------------------
\* Programs

LEMMA HeadTail ==
    ASSUME NEW S, NEW p \in Seq(S), NEW q \in Seq(S), p # <<>>
    PROVE  /\ p \o q \in Seq(S) /\ p \o q # <<>>
           /\ Head(p \o q) = Head(p) /\ Tail(p \o q) = Tail(p) \o q
  <1>1. Len(p) \in Nat \ {0}
    OBVIOUS
  <1>2. Tail(p) \o q \in Seq(S) /\ Tail(p \o q) \in Seq(S) /\ p \o q # <<>>
    BY <1>1
  <1>3. Len(Tail(p) \o q) = Len(Tail(p \o q))
    BY <1>1, <1>2
  <1>4. ASSUME NEW k \in 1..Len(Tail(p \o q)) PROVE (Tail(p) \o q)[k] = Tail(p \o q)[k]
    BY <1>1, <1>2, <1>3
  <1>5. QED
    BY <1>1, <1>2, <1>3, <1>4

LEMMA SameSeq ==
    ASSUME NEW S, NEW u \in Seq(S), NEW v \in Seq(S), Len(u) = Len(v), \A i \in 1..Len(u) : u[i] = v[i]
    PROVE  u = v
OBVIOUS

LEMMA Grouped ==
    ASSUME NEW S, NEW p \in Seq(S), NEW q \in Seq(S), NEW r \in Seq(S)
    PROVE  (p \o q) \o r = p \o (q \o r)
OBVIOUS

\* From(p, k): the calls of p from the k-th on.
LEMMA FromCalls ==
    ASSUME NEW S, NEW p \in Seq(S)
    PROVE  /\ From(p, 1) = p /\ From(p, Len(p) + 1) = <<>>
           /\ \A k \in 1..Len(p) : /\ From(p, k) \in Seq(S) /\ From(p, k) # <<>>
                                   /\ Head(From(p, k)) = p[k] /\ Tail(From(p, k)) = From(p, k + 1)
                                   /\ Len(From(p, k)) = Len(p) - k + 1
                                   /\ \A i \in 1..Len(p) - k + 1 : From(p, k)[i] = p[k + i - 1]
  <1>1. From(p, 1) = p /\ From(p, Len(p) + 1) = <<>>
    BY DEF From
  <1>2. ASSUME NEW k \in 1..Len(p)
        PROVE /\ From(p, k) \in Seq(S) /\ From(p, k) # <<>>
              /\ Head(From(p, k)) = p[k] /\ Tail(From(p, k)) = From(p, k + 1)
              /\ Len(From(p, k)) = Len(p) - k + 1
              /\ \A i \in 1..Len(p) - k + 1 : From(p, k)[i] = p[k + i - 1]
    <2>1. /\ From(p, k) \in Seq(S) /\ Len(From(p, k)) = Len(p) - k + 1
          /\ \A i \in 1..Len(p) - k + 1 : From(p, k)[i] = p[k + i - 1]
      BY DEF From
    <2>2. /\ From(p, k + 1) \in Seq(S) /\ Len(From(p, k + 1)) = Len(p) - k
          /\ \A i \in 1..Len(p) - k : From(p, k + 1)[i] = p[k + i]
      BY DEF From
    <2>3. PICK u \in Seq(S) : u = From(p, k)
      BY <2>1
    <2>4. PICK v \in Seq(S) : v = From(p, k + 1)
      BY <2>2
    <2>5. u # <<>> /\ Head(u) = p[k] /\ Len(u) = Len(p) - k + 1
      <3>1. Len(u) \in Nat \ {0} /\ u[1] = p[k] /\ Len(u) = Len(p) - k + 1
        BY <2>1, <2>3
      <3>2. QED
        BY <3>1
    <2>6. Tail(u) \in Seq(S) /\ Len(Tail(u)) = Len(p) - k /\ \A i \in 1..Len(p) - k : Tail(u)[i] = u[i + 1]
      BY <2>5
    <2>7. ASSUME NEW i \in 1..Len(p) - k PROVE Tail(u)[i] = v[i]
      <3>1. i + 1 \in 1..Len(p) - k + 1
        OBVIOUS
      <3>2. From(p, k)[i + 1] = p[k + (i + 1) - 1]
        BY <3>1, <2>1
      <3>3. From(p, k)[i + 1] = p[k + i]
        BY <3>2
      <3>4. QED
        BY <3>3, <2>2, <2>3, <2>4, <2>6
    <2>8. Len(v) = Len(p) - k
      BY <2>2, <2>4
    <2>9. Len(Tail(u)) = Len(v) /\ \A i \in 1..Len(Tail(u)) : Tail(u)[i] = v[i]
      BY <2>6, <2>7, <2>8
    <2>10. Tail(u) = v
      BY <2>6, <2>9, SameSeq
    <2>11. QED
      BY <2>1, <2>3, <2>4, <2>5, <2>10
  <1>3. QED
    BY <1>1, <1>2

\* One call in front of the calls q.
LEMMA CallThen ==
    ASSUME NEW S, NEW c \in S, NEW q \in Seq(S)
    PROVE  /\ <<c>> \o q \in Seq(S) /\ <<c>> \o q # <<>> /\ Head(<<c>> \o q) = c /\ Tail(<<c>> \o q) = q
OBVIOUS

\* The calls of p and then those of q, one by one.
LEMMA JoinedCalls ==
    ASSUME NEW S, NEW p \in Seq(S), NEW q \in Seq(S)
    PROVE  /\ p \o q \in Seq(S) /\ Len(p \o q) = Len(p) + Len(q)
           /\ \A k \in 1..Len(p) + Len(q) : (p \o q)[k] = IF k <= Len(p) THEN p[k] ELSE q[k - Len(p)]
  <1>1. p \o q \in Seq(S) /\ Len(p \o q) = Len(p) + Len(q)
    OBVIOUS
  <1>2. \A k \in 1..Len(p) + Len(q) : (p \o q)[k] = IF k <= Len(p) THEN p[k] ELSE q[k - Len(p)]
    OBVIOUS
  <1>3. QED
    BY <1>1, <1>2


\* What is known of a program of n calls.
Walks(p, n) ==
    /\ p \in Seq(AnyCall) /\ Len(p) = n /\ From(p, 1) = p /\ From(p, n + 1) = <<>>
    /\ \A k \in 1..n : /\ From(p, k) # <<>> /\ Head(From(p, k)) = p[k]
                       /\ Tail(From(p, k)) = From(p, k + 1)

LEMMA Walk ==
    ASSUME NEW p \in Seq(AnyCall), NEW n, Len(p) = n
    PROVE  Walks(p, n)
  <1>1. /\ From(p, 1) = p /\ From(p, Len(p) + 1) = <<>>
        /\ \A k \in 1..Len(p) : /\ From(p, k) # <<>> /\ Head(From(p, k)) = p[k]
                                /\ Tail(From(p, k)) = From(p, k + 1)
    BY FromCalls
  <1>2. QED
    BY <1>1 DEF Walks

LEMMA TheCalls ==
    /\ \A t \in TableNames : /\ Call("create", t) \in AnyCall /\ Call("open", t) \in AnyCall
                             /\ Call("header", t) \in AnyCall /\ Call("close", t) \in AnyCall
                             /\ Call("add_table", t) \in AnyCall /\ Call("open_file", t) \in AnyCall
                             /\ Call("close_file", t) \in AnyCall /\ Call("destroy", t) \in AnyCall
                             /\ Call("remove_table", t) \in AnyCall /\ Call("shut_file", t) \in AnyCall
    /\ \A i \in IndexNames : /\ Call("create", i) \in AnyCall /\ Call("open", i) \in AnyCall
                             /\ Call("check_length", i) \in AnyCall /\ Call("header", i) \in AnyCall
                             /\ Call("number", i) \in AnyCall /\ Call("close", i) \in AnyCall
                             /\ Call("open_index", i) \in AnyCall /\ Call("fill", i) \in AnyCall
                             /\ Call("add_index", i) \in AnyCall /\ Call("register", i) \in AnyCall
                             /\ Call("close_index", i) \in AnyCall /\ Call("destroy", i) \in AnyCall
                             /\ Call("remove_index", i) \in AnyCall /\ Call("duplicate", i) \in AnyCall
                             /\ Call("shut_index", i) \in AnyCall
    /\ Call("truncate", "meta") \in AnyCall /\ Call("write_meta", "meta") \in AnyCall
    /\ Call("mkdir", "meta") \in AnyCall /\ Call("load_meta", "meta") \in AnyCall
    /\ Call("create", "log") \in AnyCall /\ Call("open", "log") \in AnyCall
    /\ Call("serve", "log") \in AnyCall /\ Call("clear", "log") \in AnyCall /\ Call("exit", "log") \in AnyCall
    /\ \A ixs \in SUBSET IndexNames : /\ ForEach(ixs, "destroy_index") \in AnyCall
                                      /\ ForEach(ixs, "open_index") \in AnyCall
                                      /\ ForEach(ixs, "rebuild_index") \in AnyCall
                                      /\ ForEach(ixs, "shut_index") \in AnyCall
    /\ \A tabs \in SUBSET TableNames : /\ ForEach(tabs, "open_table") \in AnyCall
                                       /\ ForEach(tabs, "shut_file") \in AnyCall
  <1>1. ASSUME NEW t \in TableNames
        PROVE  /\ Call("create", t) \in AnyCall /\ Call("open", t) \in AnyCall
               /\ Call("header", t) \in AnyCall /\ Call("close", t) \in AnyCall
               /\ Call("add_table", t) \in AnyCall /\ Call("open_file", t) \in AnyCall
               /\ Call("close_file", t) \in AnyCall /\ Call("destroy", t) \in AnyCall
               /\ Call("remove_table", t) \in AnyCall /\ Call("shut_file", t) \in AnyCall
    BY DEF Call, AnyCall, SessionCall, TableCall, CloseCall
  <1>2. ASSUME NEW i \in IndexNames
        PROVE  /\ Call("create", i) \in AnyCall /\ Call("open", i) \in AnyCall
               /\ Call("check_length", i) \in AnyCall /\ Call("header", i) \in AnyCall
               /\ Call("number", i) \in AnyCall /\ Call("close", i) \in AnyCall
               /\ Call("open_index", i) \in AnyCall /\ Call("fill", i) \in AnyCall
               /\ Call("add_index", i) \in AnyCall /\ Call("register", i) \in AnyCall
               /\ Call("close_index", i) \in AnyCall /\ Call("destroy", i) \in AnyCall
               /\ Call("remove_index", i) \in AnyCall /\ Call("duplicate", i) \in AnyCall
               /\ Call("shut_index", i) \in AnyCall
    BY DEF Call, AnyCall, SessionCall, IndexCall, IndexFileCall, CloseCall
  <1>3. /\ Call("truncate", "meta") \in AnyCall /\ Call("write_meta", "meta") \in AnyCall
        /\ Call("mkdir", "meta") \in AnyCall /\ Call("load_meta", "meta") \in AnyCall
        /\ Call("create", "log") \in AnyCall /\ Call("open", "log") \in AnyCall
        /\ Call("serve", "log") \in AnyCall /\ Call("clear", "log") \in AnyCall /\ Call("exit", "log") \in AnyCall
    BY DEF Call, AnyCall, OpenCall, FlushCall, LastCall, CloseCall
  <1>4. ASSUME NEW ixs \in SUBSET IndexNames
        PROVE  /\ ForEach(ixs, "destroy_index") \in AnyCall /\ ForEach(ixs, "open_index") \in AnyCall
               /\ ForEach(ixs, "rebuild_index") \in AnyCall /\ ForEach(ixs, "shut_index") \in AnyCall
    BY DEF ForEach, AnyCall, OpenCall, SessionCall, CloseCall, DropLoop, StartLoop
  <1>5. ASSUME NEW tabs \in SUBSET TableNames
        PROVE  ForEach(tabs, "open_table") \in AnyCall /\ ForEach(tabs, "shut_file") \in AnyCall
    BY DEF ForEach, AnyCall, OpenCall, CloseCall, StartLoop
  <1>6. QED
    BY <1>1, <1>2, <1>3, <1>4, <1>5

LEMMA CreateTableCalls ==
    ASSUME NEW t \in TableNames
    PROVE  LET p == CreateTable(t)
           IN /\ Walks(p, 8)
              /\ p[1] = Call("create", t) /\ p[2] = Call("open", t)
              /\ p[3] = Call("header", t) /\ p[4] = Call("close", t)
              /\ p[5] = Call("add_table", t) /\ p[6] = Call("open_file", t)
              /\ p[7] = Call("truncate", "meta") /\ p[8] = Call("write_meta", "meta")
  <1>1. PICK a : a = <<Call("create", t), Call("open", t), Call("header", t),
                        Call("close", t), Call("add_table", t), Call("open_file", t)>>
    OBVIOUS
  <1>2. PICK p : p = a \o FlushMeta
    OBVIOUS
  <1>3. a \in Seq(AnyCall) /\ FlushMeta \in Seq(AnyCall)
    BY <1>1, TheCalls DEF FlushMeta
  <1>4. /\ p \in Seq(AnyCall) /\ Len(p) = Len(a) + Len(FlushMeta)
        /\ \A k \in 1..Len(a) + Len(FlushMeta) :
              p[k] = IF k <= Len(a) THEN a[k] ELSE FlushMeta[k - Len(a)]
    BY <1>2, <1>3, JoinedCalls
  <1>5. Len(a) = 6 /\ Len(FlushMeta) = 2
    BY <1>1 DEF FlushMeta
  <1>6. Len(p) = 8 /\ \A k \in 1..8 : p[k] = IF k <= 6 THEN a[k] ELSE FlushMeta[k - 6]
    BY <1>4, <1>5
  <1>7. /\ FlushMeta[1] = Call("truncate", "meta") /\ FlushMeta[2] = Call("write_meta", "meta")
        /\ a[1] = Call("create", t) /\ a[2] = Call("open", t)
        /\ a[3] = Call("header", t) /\ a[4] = Call("close", t)
        /\ a[5] = Call("add_table", t) /\ a[6] = Call("open_file", t)
    BY <1>1 DEF FlushMeta
  <1>8. /\ p[1] = Call("create", t) /\ p[2] = Call("open", t)
        /\ p[3] = Call("header", t) /\ p[4] = Call("close", t)
        /\ p[5] = Call("add_table", t) /\ p[6] = Call("open_file", t)
        /\ p[7] = Call("truncate", "meta") /\ p[8] = Call("write_meta", "meta")
    BY <1>6, <1>7
  <1>9. Walks(p, 8)
    BY <1>4, <1>6, Walk
  <1>10. CreateTable(t) = p
    BY <1>1, <1>2 DEF CreateTable
  <1>11. QED
    BY <1>8, <1>9, <1>10

\* The file of an index is new, and then it gets its own calls.
LEMMA NewIndexThen ==
    ASSUME NEW i \in IndexNames, NEW q \in Seq(AnyCall), NEW n, n = Len(q)
    PROVE  LET p == NewIndexFile(i) \o q
           IN /\ p \in Seq(AnyCall) /\ Len(p) = 7 + n
              /\ p[1] = Call("create", i) /\ p[2] = Call("open", i)
              /\ p[3] = Call("check_length", i) /\ p[4] = Call("header", i)
              /\ p[5] = Call("number", i) /\ p[6] = Call("close", i)
              /\ p[7] = Call("open_index", i)
              /\ \A k \in 1..n : p[7 + k] = q[k]
  <1>1. PICK a : a = NewIndexFile(i)
    OBVIOUS
  <1>2. PICK p : p = a \o q
    OBVIOUS
  <1>3. a \in Seq(AnyCall)
    BY <1>1, TheCalls DEF NewIndexFile
  <1>4. /\ p \in Seq(AnyCall) /\ Len(p) = Len(a) + Len(q)
        /\ \A k \in 1..Len(a) + Len(q) : p[k] = IF k <= Len(a) THEN a[k] ELSE q[k - Len(a)]
    BY <1>2, <1>3, JoinedCalls
  <1>5. Len(a) = 7 /\ n \in Nat
    BY <1>1 DEF NewIndexFile
  <1>6. Len(p) = 7 + n /\ \A k \in 1..7 + n : p[k] = IF k <= 7 THEN a[k] ELSE q[k - 7]
    BY <1>4, <1>5
  <1>7. /\ a[1] = Call("create", i) /\ a[2] = Call("open", i)
        /\ a[3] = Call("check_length", i) /\ a[4] = Call("header", i)
        /\ a[5] = Call("number", i) /\ a[6] = Call("close", i)
        /\ a[7] = Call("open_index", i)
    BY <1>1 DEF NewIndexFile
  <1>8. /\ p[1] = a[1] /\ p[2] = a[2] /\ p[3] = a[3] /\ p[4] = a[4]
        /\ p[5] = a[5] /\ p[6] = a[6] /\ p[7] = a[7]
    BY <1>5, <1>6
  <1>9. ASSUME NEW k \in 1..n PROVE p[7 + k] = q[k]
    <2>1. 7 + k \in 1..7 + n /\ ~(7 + k <= 7) /\ (7 + k) - 7 = k
      BY <1>5
    <2>2. QED
      BY <2>1, <1>6
  <1>10. QED
    BY <1>1, <1>2, <1>4, <1>6, <1>7, <1>8, <1>9

LEMMA CreateIndexCalls ==
    ASSUME NEW i \in IndexNames
    PROVE  LET p == CreateIndex(i)
           IN /\ Walks(p, 12)
              /\ p[1] = Call("create", i) /\ p[2] = Call("open", i)
              /\ p[3] = Call("check_length", i) /\ p[4] = Call("header", i)
              /\ p[5] = Call("number", i) /\ p[6] = Call("close", i)
              /\ p[7] = Call("open_index", i) /\ p[8] = Call("fill", i)
              /\ p[9] = Call("add_index", i) /\ p[10] = Call("register", i)
              /\ p[11] = Call("truncate", "meta") /\ p[12] = Call("write_meta", "meta")
  <1>1. PICK b : b = <<Call("fill", i), Call("add_index", i), Call("register", i)>>
    OBVIOUS
  <1>2. PICK q : q = b \o FlushMeta
    OBVIOUS
  <1>3. NewIndexFile(i) \in Seq(AnyCall) /\ b \in Seq(AnyCall) /\ FlushMeta \in Seq(AnyCall)
    BY <1>1, TheCalls DEF FlushMeta, NewIndexFile
  <1>4. /\ q \in Seq(AnyCall) /\ Len(q) = Len(b) + Len(FlushMeta)
        /\ \A k \in 1..Len(b) + Len(FlushMeta) :
              q[k] = IF k <= Len(b) THEN b[k] ELSE FlushMeta[k - Len(b)]
    BY <1>2, <1>3, JoinedCalls
  <1>5. Len(b) = 3 /\ Len(FlushMeta) = 2
    BY <1>1 DEF FlushMeta
  <1>6. Len(q) = 5 /\ \A k \in 1..5 : q[k] = IF k <= 3 THEN b[k] ELSE FlushMeta[k - 3]
    BY <1>4, <1>5
  <1>7. /\ FlushMeta[1] = Call("truncate", "meta") /\ FlushMeta[2] = Call("write_meta", "meta")
        /\ b[1] = Call("fill", i) /\ b[2] = Call("add_index", i) /\ b[3] = Call("register", i)
    BY <1>1 DEF FlushMeta
  <1>8. /\ q[1] = Call("fill", i) /\ q[2] = Call("add_index", i) /\ q[3] = Call("register", i)
        /\ q[4] = Call("truncate", "meta") /\ q[5] = Call("write_meta", "meta")
    BY <1>6, <1>7
  <1>9. PICK p : p = NewIndexFile(i) \o q
    OBVIOUS
  <1>10. CreateIndex(i) = p
    BY <1>1, <1>2, <1>3, <1>9, Grouped DEF CreateIndex
  <1>11. /\ p \in Seq(AnyCall) /\ Len(p) = 7 + Len(q)
         /\ p[1] = Call("create", i) /\ p[2] = Call("open", i)
         /\ p[3] = Call("check_length", i) /\ p[4] = Call("header", i)
         /\ p[5] = Call("number", i) /\ p[6] = Call("close", i)
         /\ p[7] = Call("open_index", i)
         /\ \A k \in 1..Len(q) : p[7 + k] = q[k]
    <2>1. PICK n : n = Len(q)
      OBVIOUS
    <2>2. /\ p \in Seq(AnyCall) /\ Len(p) = 7 + n
          /\ p[1] = Call("create", i) /\ p[2] = Call("open", i)
          /\ p[3] = Call("check_length", i) /\ p[4] = Call("header", i)
          /\ p[5] = Call("number", i) /\ p[6] = Call("close", i)
          /\ p[7] = Call("open_index", i)
          /\ \A k \in 1..n : p[7 + k] = q[k]
      BY <1>4, <1>9, <2>1, NewIndexThen
    <2>3. QED
      BY <2>1, <2>2, Zenon
  <1>12. Len(p) = 7 + 5 /\ \A k \in 1..5 : p[7 + k] = q[k]
    BY <1>6, <1>11
  <1>13. p[8] = q[1] /\ p[9] = q[2] /\ p[10] = q[3] /\ p[11] = q[4] /\ p[12] = q[5] /\ Len(p) = 12
    BY <1>12
  <1>14. Walks(p, 12)
    BY <1>11, <1>13, Walk
  <1>15. QED
    BY <1>8, <1>10, <1>11, <1>13, <1>14

LEMMA DuplicateCalls ==
    ASSUME NEW i \in IndexNames
    PROVE  LET p == Duplicates(i)
           IN /\ Walks(p, 3)
              /\ p[1] = Call("close", i) /\ p[2] = Call("destroy", i)
              /\ p[3] = Call("duplicate", i)
  <1>1. PICK p : p = Duplicates(i)
    OBVIOUS
  <1>2. p \in Seq(AnyCall) /\ Len(p) = 3
    BY <1>1, TheCalls DEF Duplicates
  <1>3. /\ p[1] = Call("close", i) /\ p[2] = Call("destroy", i)
        /\ p[3] = Call("duplicate", i)
    BY <1>1 DEF Duplicates
  <1>4. Walks(p, 3)
    BY <1>2, Walk
  <1>5. QED
    BY <1>1, <1>3, <1>4

LEMMA DestroyIndexCalls ==
    ASSUME NEW i \in IndexNames
    PROVE  LET p == DestroyIndex(i)
           IN /\ Walks(p, 2)
              /\ p[1] = Call("close_index", i) /\ p[2] = Call("destroy", i)
  <1>1. PICK p : p = DestroyIndex(i)
    OBVIOUS
  <1>2. p \in Seq(AnyCall) /\ Len(p) = 2
    BY <1>1, TheCalls DEF DestroyIndex
  <1>3. /\ p[1] = Call("close_index", i) /\ p[2] = Call("destroy", i)
    BY <1>1 DEF DestroyIndex
  <1>4. Walks(p, 2)
    BY <1>2, Walk
  <1>5. QED
    BY <1>1, <1>3, <1>4

LEMMA DropRestCalls ==
    ASSUME NEW t \in TableNames
    PROVE  LET p == DropRest(t)
           IN /\ Walks(p, 5)
              /\ p[1] = Call("close_file", t) /\ p[2] = Call("destroy", t)
              /\ p[3] = Call("remove_table", t) /\ p[4] = Call("truncate", "meta")
              /\ p[5] = Call("write_meta", "meta")
  <1>1. PICK a : a = <<Call("close_file", t), Call("destroy", t), Call("remove_table", t)>>
    OBVIOUS
  <1>2. PICK p : p = a \o FlushMeta
    OBVIOUS
  <1>3. a \in Seq(AnyCall) /\ FlushMeta \in Seq(AnyCall)
    BY <1>1, TheCalls DEF FlushMeta
  <1>4. /\ p \in Seq(AnyCall) /\ Len(p) = Len(a) + Len(FlushMeta)
        /\ \A k \in 1..Len(a) + Len(FlushMeta) :
              p[k] = IF k <= Len(a) THEN a[k] ELSE FlushMeta[k - Len(a)]
    BY <1>2, <1>3, JoinedCalls
  <1>5. Len(a) = 3 /\ Len(FlushMeta) = 2
    BY <1>1 DEF FlushMeta
  <1>6. Len(p) = 5 /\ \A k \in 1..5 : p[k] = IF k <= 3 THEN a[k] ELSE FlushMeta[k - 3]
    BY <1>4, <1>5
  <1>7. /\ FlushMeta[1] = Call("truncate", "meta") /\ FlushMeta[2] = Call("write_meta", "meta")
        /\ a[1] = Call("close_file", t) /\ a[2] = Call("destroy", t)
        /\ a[3] = Call("remove_table", t)
    BY <1>1 DEF FlushMeta
  <1>8. /\ p[1] = Call("close_file", t) /\ p[2] = Call("destroy", t)
        /\ p[3] = Call("remove_table", t) /\ p[4] = Call("truncate", "meta")
        /\ p[5] = Call("write_meta", "meta")
    BY <1>6, <1>7
  <1>9. Walks(p, 5)
    BY <1>4, <1>6, Walk
  <1>10. DropRest(t) = p
    BY <1>1, <1>2 DEF DropRest
  <1>11. QED
    BY <1>8, <1>9, <1>10

LEMMA DropIndexCalls ==
    ASSUME NEW i \in IndexNames
    PROVE  LET p == DropIndex(i)
           IN /\ Walks(p, 5)
              /\ p[1] = Call("close_index", i) /\ p[2] = Call("destroy", i)
              /\ p[3] = Call("remove_index", i) /\ p[4] = Call("truncate", "meta")
              /\ p[5] = Call("write_meta", "meta")
  <1>1. PICK a : a = <<Call("close_index", i), Call("destroy", i), Call("remove_index", i)>>
    OBVIOUS
  <1>2. PICK p : p = a \o FlushMeta
    OBVIOUS
  <1>3. a \in Seq(AnyCall) /\ FlushMeta \in Seq(AnyCall)
    BY <1>1, TheCalls DEF FlushMeta
  <1>4. /\ p \in Seq(AnyCall) /\ Len(p) = Len(a) + Len(FlushMeta)
        /\ \A k \in 1..Len(a) + Len(FlushMeta) :
              p[k] = IF k <= Len(a) THEN a[k] ELSE FlushMeta[k - Len(a)]
    BY <1>2, <1>3, JoinedCalls
  <1>5. Len(a) = 3 /\ Len(FlushMeta) = 2
    BY <1>1 DEF FlushMeta
  <1>6. Len(p) = 5 /\ \A k \in 1..5 : p[k] = IF k <= 3 THEN a[k] ELSE FlushMeta[k - 3]
    BY <1>4, <1>5
  <1>7. /\ FlushMeta[1] = Call("truncate", "meta") /\ FlushMeta[2] = Call("write_meta", "meta")
        /\ a[1] = Call("close_index", i) /\ a[2] = Call("destroy", i)
        /\ a[3] = Call("remove_index", i)
    BY <1>1 DEF FlushMeta
  <1>8. /\ p[1] = Call("close_index", i) /\ p[2] = Call("destroy", i)
        /\ p[3] = Call("remove_index", i) /\ p[4] = Call("truncate", "meta")
        /\ p[5] = Call("write_meta", "meta")
    BY <1>6, <1>7
  <1>9. Walks(p, 5)
    BY <1>4, <1>6, Walk
  <1>10. DropIndex(i) = p
    <2>1. DestroyIndex(i) \o <<Call("remove_index", i)>> = a
      <3>1. PICK u : u = DestroyIndex(i)
        OBVIOUS
      <3>2. PICK v : v = <<Call("remove_index", i)>>
        OBVIOUS
      <3>3. u \in Seq(AnyCall) /\ v \in Seq(AnyCall)
        BY <3>1, <3>2, TheCalls DEF DestroyIndex
      <3>4. /\ u \o v \in Seq(AnyCall) /\ Len(u \o v) = Len(u) + Len(v)
            /\ \A k \in 1..Len(u) + Len(v) : (u \o v)[k] = IF k <= Len(u) THEN u[k] ELSE v[k - Len(u)]
        BY <3>3, JoinedCalls
      <3>5. PICK w \in Seq(AnyCall) : w = u \o v
        BY <3>4
      <3>6. Len(u) = 2 /\ Len(v) = 1 /\ u[1] = a[1] /\ u[2] = a[2] /\ v[1] = a[3]
        BY <3>1, <3>2, <1>1 DEF DestroyIndex
      <3>7. Len(w) = 3 /\ \A k \in 1..3 : w[k] = IF k <= 2 THEN u[k] ELSE v[k - 2]
        BY <3>4, <3>5, <3>6
      <3>8. w[1] = a[1] /\ w[2] = a[2] /\ w[3] = a[3]
        BY <3>6, <3>7
      <3>9. Len(w) = Len(a) /\ \A k \in 1..Len(w) : w[k] = a[k]
        BY <3>7, <3>8, <1>5
      <3>10. w = a
        BY <1>3, <3>9, SameSeq
      <3>11. QED
        BY <3>1, <3>2, <3>5, <3>10
    <2>2. QED
      BY <2>1, <1>2 DEF DropIndex
  <1>11. QED
    BY <1>8, <1>9, <1>10


-----------------------------------------------------------------------------
\* The calls

\* The call a thread is about to make says which step it takes.
LEMMA TheStep ==
    ASSUME NEW th, CatalogStep(th)
    PROVE  LET op == Head(prog[th]).op
           IN /\ prog[th] # <<>>
              /\ op = "for_each" => Loop(th)
              /\ op = "create" => CreateFile(th)
              /\ op = "destroy" => DestroyFile(th)
              /\ op \in {"open", "open_file", "open_index"} => OpenFile(th)
              /\ op = "close" => CloseFile(th)
              /\ op = "header" => WriteHeader(th)
              /\ op = "check_length" => CheckLength(th)
              /\ op = "number" => SetPageNo(th)
              /\ op = "fill" => Fill(th)
              /\ op = "duplicate" => Duplicate(th)
              /\ op \in {"add_table", "add_index", "register", "remove_table", "remove_index"} => Register(th)
              /\ op \in {"close_file", "close_index"} => CloseHandle(th)
              /\ op \in {"shut_file", "shut_index"} => ShutHandle(th)
              /\ op = "clear" => ClearMaps(th)
              /\ op = "exit" => Exit(th)
              /\ op = "truncate" => TruncateMeta(th)
              /\ op = "write_meta" => WriteMeta(th)
              /\ op = "mkdir" => MakeDir(th)
              /\ op = "load_meta" => LoadMeta(th)
              /\ op = "serve" => Serve(th)
  <1>1. /\ Loop(th) => Calls(th, {"for_each"})
        /\ CreateFile(th) => Calls(th, {"create"})
        /\ DestroyFile(th) => Calls(th, {"destroy"})
        /\ OpenFile(th) => Calls(th, {"open", "open_file", "open_index"})
        /\ CloseFile(th) => Calls(th, {"close"})
    BY DEF Loop, CreateFile, DestroyFile, OpenFile, CloseFile
  <1>2. /\ WriteHeader(th) => Calls(th, {"header"})
        /\ CheckLength(th) => Calls(th, {"check_length"})
        /\ SetPageNo(th) => Calls(th, {"number"})
        /\ Fill(th) => Calls(th, {"fill"})
        /\ Duplicate(th) => Calls(th, {"duplicate"})
    BY DEF WriteHeader, CheckLength, SetPageNo, Fill, Duplicate
  <1>3. /\ Register(th) => Calls(th, {"add_table", "add_index", "register", "remove_table", "remove_index"})
        /\ CloseHandle(th) => Calls(th, {"close_file", "close_index"})
        /\ ShutHandle(th) => Calls(th, {"shut_file", "shut_index"})
        /\ ClearMaps(th) => Calls(th, {"clear"})
        /\ Exit(th) => Calls(th, {"exit"})
    BY DEF Register, CloseHandle, ShutHandle, ClearMaps, Exit
  <1>4. /\ TruncateMeta(th) => Calls(th, {"truncate"})
        /\ WriteMeta(th) => Calls(th, {"write_meta"})
        /\ MakeDir(th) => Calls(th, {"mkdir"})
        /\ LoadMeta(th) => Calls(th, {"load_meta"})
        /\ Serve(th) => Calls(th, {"serve"})
    BY DEF TruncateMeta, WriteMeta, MakeDir, LoadMeta, Serve
  <1>5. QED
    BY <1>1, <1>2, <1>3, <1>4 DEF CatalogStep, Calls

LEMMA CallFields ==
    ASSUME NEW op, NEW n PROVE Call(op, n).op = op /\ Call(op, n).name = n
BY DEF Call

\* A step leaves the other names alone.
SameName(n) ==
    /\ files'[n] = files[n]
    /\ In(n, db)' <=> In(n, db)
    /\ Open(n)' <=> Open(n)
    /\ Held(n)' <=> Held(n)

LEMMA StaysSettled ==
    ASSUME NEW n, Settled(n), SameName(n), orphans' = orphans PROVE Settled(n)'
BY DEF Settled, SameName, DiskOf, In, Open, Held

\* A session that throws has only stopped.
LEMMA Thrown ==
    ASSUME NEW th \in Sessions, Throw(th)
    PROVE  /\ prog' = [prog EXCEPT ![th] = <<>>]
           /\ outcome' = [outcome EXCEPT ![th] = "failure"]
           /\ UNCHANGED <<dir, files, meta, db, fhs, ihs, path2fd, fd2pageno, job, reg, phase, broken, ended,
                          moved>>
BY NamesApart DEF Throw, handleVars, historyVars

LEMMA ThrowsDown ==
    ASSUME Throw("main") PROVE phase' = "down"
BY DEF Throw, ProcessEnds

LEMMA DoCreate ==
    ASSUME NEW th,
           NEW x, Head(prog[th]) = Call("create", x), CatalogStep(th), files \in [Paths -> {"none", "empty", "ready"}],
           x \in Paths
    PROVE  \/ Taken(x) /\ Throw(th)
           \/ /\ ~Taken(x) /\ files[x] = "none" /\ Next1(th)
              /\ files'[x] = "empty" /\ \A n \in Paths \ {x} : files'[n] = files[n]
              /\ UNCHANGED <<dir, meta, db, fhs, ihs, path2fd, fd2pageno, job, reg, outcome, phase, kernel, broken,
                             ended, moved>>
  <1>1. CreateFile(th) /\ Name(th) = x
    BY TheStep, CallFields DEF Name
  <1>2. ~Taken(x) => files[x] = "none"
    BY DEF Taken, SameFile
  <1>3. QED
    BY <1>1, <1>2 DEF CreateFile, handleVars, historyVars

LEMMA DoDestroy ==
    ASSUME NEW th,
           NEW x, Head(prog[th]) = Call("destroy", x), CatalogStep(th), files \in [Paths -> {"none", "empty", "ready"}],
           x \in Paths
    PROVE  \/ (files[x] = "none" \/ Open(x)) /\ phase # "starting" /\ Throw(th)
           \/ /\ files[x] = "none" \/ Open(x)
              /\ phase = "starting" /\ Next1(th)
              /\ UNCHANGED <<dir, files, meta, db, fhs, ihs, path2fd, fd2pageno, job, reg, outcome, phase, kernel, broken,
                             ended, moved>>
           \/ /\ ~Open(x) /\ files[x] # "none" /\ Next1(th)
              /\ files'[x] = "none" /\ \A n \in Paths \ {x} : files'[n] = files[n]
              /\ UNCHANGED <<dir, meta, db, fhs, ihs, path2fd, fd2pageno, job, reg, outcome, phase, kernel, broken,
                             ended, moved>>
  <1>1. DestroyFile(th) /\ Name(th) = x
    BY TheStep, CallFields DEF Name
  <1>2. QED
    BY <1>1 DEF DestroyFile, handleVars, historyVars, Open

LEMMA DoHeader ==
    ASSUME NEW th,
           NEW x, Head(prog[th]) = Call("header", x), CatalogStep(th), files \in [Paths -> {"none", "empty", "ready"}],
           x \in Paths, files[x] # "none"
    PROVE  /\ Next1(th)
           /\ files'[x] = "ready" /\ \A n \in Paths \ {x} : files'[n] = files[n]
           /\ UNCHANGED <<dir, meta, db, fhs, ihs, path2fd, fd2pageno, job, reg, outcome, phase, kernel, broken,
                          ended, moved>>
  <1>1. WriteHeader(th) /\ Name(th) = x
    BY TheStep, CallFields DEF Name
  <1>2. QED
    BY <1>1 DEF WriteHeader, handleVars, historyVars

LEMMA DoCheck ==
    ASSUME NEW th, NEW x, Head(prog[th]) = Call("check_length", x), CatalogStep(th)
    PROVE  \/ x \in TooLong /\ Throw(th)
           \/ /\ x \notin TooLong /\ Next1(th)
              /\ UNCHANGED <<dir, files, meta, db, fhs, ihs, path2fd, fd2pageno, job, reg, outcome, phase, kernel, broken,
                             ended, moved>>
  <1>1. CheckLength(th) /\ Name(th) = x
    BY TheStep, CallFields DEF Name
  <1>2. QED
    BY <1>1 DEF CheckLength, handleVars, historyVars


\* The counter of a file without a handle changes.
LEMMA DoNumber ==
    ASSUME ServerInv, MoreTypes, NEW th, NEW x, Head(prog[th]) = Call("number", x), CatalogStep(th),
           HandlesKnown, Open(x), path2fd[x] = reg[th], x \notin DOMAIN ihs
    PROVE  /\ Next1(th)
           /\ reg[th] \in Fds /\ fd2pageno'[reg[th]] = InitNumPages - 1
           /\ \A S : NumberedBut(S) => NumberedBut(S)'
           /\ UNCHANGED <<dir, files, meta, db, fhs, ihs, path2fd, job, reg, outcome, phase, kernel, broken,
                          ended, moved>>
  <1>1. SetPageNo(th)
    BY TheStep, CallFields
  <1>2. /\ Next1(th) /\ fd2pageno' = [fd2pageno EXCEPT ![reg[th]] = InitNumPages - 1]
        /\ UNCHANGED <<dir, files, meta, db, fhs, ihs, path2fd, job, reg, outcome, phase, kernel, broken,
                       ended, moved>>
    BY <1>1 DEF SetPageNo, historyVars
  <1>3. reg[th] \in Fds /\ kernel[reg[th]] = x
    BY DEF ServerInv, FdInv, Open
  <1>4. fd2pageno'[reg[th]] = InitNumPages - 1 /\ \A fd \in Fds : fd # reg[th] => fd2pageno'[fd] = fd2pageno[fd]
    BY <1>2, <1>3 DEF MoreTypes
  <1>5. ASSUME NEW S, NumberedBut(S) PROVE NumberedBut(S)'
    <2>1. SUFFICES ASSUME NEW i \in DOMAIN ihs \ S PROVE Numbered(i, ihs[i])'
      BY <1>2 DEF NumberedBut
    <2>2. ihs[i] \in Fds /\ kernel[ihs[i]] = i
      BY DEF HandlesKnown, ServerInv, FdInv, Open
    <2>3. ihs[i] # reg[th]
      BY <2>2, <1>3
    <2>4. Numbered(i, ihs[i])
      BY <1>5 DEF NumberedBut
    <2>5. QED
      BY <2>2, <2>3, <2>4, <1>2, <1>4 DEF Numbered
  <1>6. QED
    BY <1>2, <1>3, <1>4, <1>5

LEMMA DoFill ==
    ASSUME NEW th, NEW x, Head(prog[th]) = Call("fill", x), CatalogStep(th), phase' # "down"
    PROVE  /\ TableOf[x] \in DOMAIN fhs
           /\ prog' \in {[prog EXCEPT ![th] = Tail(@)], [prog EXCEPT ![th] = Duplicates(x)]}
           /\ UNCHANGED <<dir, files, meta, db, fhs, ihs, path2fd, fd2pageno, job, reg, outcome, phase, kernel, broken,
                          ended, moved>>
  <1>1. Fill(th) /\ Name(th) = x
    BY TheStep, CallFields DEF Name
  <1>2. ~ProcessEnds("killed")
    BY DEF ProcessEnds
  <1>3. QED
    BY <1>1, <1>2 DEF Fill, handleVars, historyVars, Duplicates

LEMMA DoDuplicate ==
    ASSUME NEW th, NEW x, Head(prog[th]) = Call("duplicate", x), CatalogStep(th)
    PROVE  Throw(th)
BY TheStep, CallFields DEF Duplicate

LEMMA DoTruncate ==
    ASSUME NEW th, NEW x, Head(prog[th]) = Call("truncate", x), CatalogStep(th)
    PROVE  /\ Next1(th) /\ meta' = [meta EXCEPT !.state = "torn"]
           /\ UNCHANGED <<dir, files, db, fhs, ihs, path2fd, fd2pageno, job, reg, outcome, phase, kernel, broken,
                          ended, moved>>
  <1>1. TruncateMeta(th)
    BY TheStep, CallFields
  <1>2. QED
    BY <1>1 DEF TruncateMeta, handleVars, historyVars

LEMMA DoWriteMeta ==
    ASSUME NEW th, NEW x, Head(prog[th]) = Call("write_meta", x), CatalogStep(th)
    PROVE  /\ Next1(th) /\ meta' = [state |-> "good", cat |-> db]
           /\ UNCHANGED <<dir, files, db, fhs, ihs, path2fd, fd2pageno, job, reg, outcome, phase, kernel, broken,
                          ended, moved>>
  <1>1. WriteMeta(th)
    BY TheStep, CallFields
  <1>2. QED
    BY <1>1 DEF WriteMeta, handleVars, historyVars

\* The changes of the catalog in memory.
LEMMA DoChange ==
    ASSUME NEW th, NEW x, NEW op \in {"add_table", "add_index", "remove_table", "remove_index"},
           Head(prog[th]) = Call(op, x), CatalogStep(th)
    PROVE  /\ Next1(th)
           /\ op = "add_table" => db' = [db EXCEPT !.tabs = @ \cup {x}]
           /\ op = "add_index" => db' = [db EXCEPT !.ixs = @ \cup {x}]
           /\ op = "remove_table" => db' = [tabs |-> db.tabs \ {x}, ixs |-> {i \in db.ixs : TableOf[i] # x}]
           /\ op = "remove_index" => db' = [db EXCEPT !.ixs = @ \ {x}]
           /\ UNCHANGED <<dir, files, meta, fhs, ihs, path2fd, fd2pageno, job, reg, outcome, phase, kernel, broken,
                          ended, moved>>
  <1>1. Register(th) /\ Name(th) = x /\ Head(prog[th]).op = op
    BY TheStep, CallFields DEF Name
  <1>2. QED
    BY <1>1 DEF Register, historyVars

\* An open index gets its handle.
LEMMA DoRegister ==
    ASSUME ServerInv, NEW th, NEW x, Head(prog[th]) = Call("register", x), CatalogStep(th),
           HandlesKnown, Open(x), path2fd[x] = reg[th], x \in db.ixs
    PROVE  /\ Next1(th)
           /\ DOMAIN ihs' = DOMAIN ihs \cup {x} /\ ihs'[x] = reg[th]
           /\ HandlesKnown'
           /\ \A S : NumberedBut(S) => NumberedBut(S \cup {x})'
           /\ \A S : NumberedBut(S \cup {x}) /\ Numbered(x, reg[th]) => NumberedBut(S)'
           /\ UNCHANGED <<dir, files, meta, db, fhs, path2fd, fd2pageno, job, reg, outcome, phase, kernel, broken,
                          ended, moved>>
  <1>1. Register(th) /\ Name(th) = x /\ Head(prog[th]).op = "register"
    BY TheStep, CallFields DEF Name
  <1>2. /\ Next1(th) /\ ihs' = With(ihs, x, reg[th])
        /\ UNCHANGED <<dir, files, meta, db, fhs, path2fd, fd2pageno, job, reg, outcome, phase, kernel, broken,
                       ended, moved>>
    BY <1>1 DEF Register, historyVars
  <1>3. /\ DOMAIN ihs' = DOMAIN ihs \cup {x} /\ ihs'[x] = reg[th]
        /\ \A i \in DOMAIN ihs : i # x => ihs'[i] = ihs[i]
    BY <1>2 DEF With
  <1>4. HandlesKnown'
    BY <1>2, <1>3 DEF HandlesKnown, Open
  <1>5. ASSUME NEW S, NumberedBut(S) PROVE NumberedBut(S \cup {x})'
    BY <1>2, <1>3, <1>5 DEF NumberedBut, Numbered
  <1>6. ASSUME NEW S, NumberedBut(S \cup {x}), Numbered(x, reg[th]) PROVE NumberedBut(S)'
    BY <1>2, <1>3, <1>6 DEF NumberedBut, Numbered
  <1>7. QED
    BY <1>2, <1>3, <1>4, <1>5, <1>6

\* The file behind the last descriptor is closed; it has no handle.
LEMMA DoClose ==
    ASSUME ServerInv, NEW th, NEW x, Head(prog[th]) = Call("close", x), CatalogStep(th),
           HandlesKnown, Open(x), path2fd[x] = reg[th], x \notin DOMAIN fhs \cup DOMAIN ihs
    PROVE  /\ Next1(th)
           /\ DOMAIN path2fd' = DOMAIN path2fd \ {x} /\ \A n \in DOMAIN path2fd' : path2fd'[n] = path2fd[n]
           /\ HandlesKnown'
           /\ \A S : NumberedBut(S) => NumberedBut(S)'
           /\ UNCHANGED <<dir, files, meta, db, fhs, ihs, fd2pageno, job, reg, outcome, phase, broken, ended,
                          moved>>
  <1>1. CloseFile(th)
    BY TheStep, CallFields
  <1>2. IsOpen(reg[th]) /\ kernel[reg[th]] = x
    BY DEF IsOpen, Open, ServerInv, FdInv
  <1>3. /\ Next1(th) /\ path2fd' = Without(path2fd, x)
        /\ UNCHANGED <<dir, files, meta, db, fhs, ihs, fd2pageno, job, reg, outcome, phase, broken, ended, moved>>
    BY <1>1, <1>2 DEF CloseFile, Closes, historyVars
  <1>4. DOMAIN path2fd' = DOMAIN path2fd \ {x} /\ \A n \in DOMAIN path2fd' : path2fd'[n] = path2fd[n]
    BY <1>3 DEF Without
  <1>5. HandlesKnown'
    BY <1>3, <1>4 DEF HandlesKnown, Open
  <1>6. \A S : NumberedBut(S) => NumberedBut(S)'
    BY <1>3 DEF NumberedBut, Numbered
  <1>7. QED
    BY <1>3, <1>4, <1>5, <1>6

\* A handle is closed and erased, if there is one.
LEMMA DoCloseHandle ==
    ASSUME ServerInv, NEW th, NEW x, NEW op \in {"close_file", "close_index"},
           Head(prog[th]) = Call(op, x), CatalogStep(th), HandlesKnown,
           x \in IF op = "close_file" THEN TableNames ELSE IndexNames
    PROVE  /\ Next1(th)
           /\ DOMAIN fhs' = DOMAIN fhs \ {x} /\ DOMAIN ihs' = DOMAIN ihs \ {x}
           /\ \A n \in Paths \ {x} : Open(n)' <=> Open(n)
           /\ Open(x)' <=> Open(x) /\ ~Held(x)
           /\ HandlesKnown'
           /\ \A S : NumberedBut(S) => NumberedBut(S)'
           /\ UNCHANGED <<dir, files, meta, db, fd2pageno, job, reg, outcome, phase, broken, ended, moved>>
  <1>1. CloseHandle(th) /\ Name(th) = x
    BY TheStep, CallFields DEF Name
  <1>2. x \in TableNames <=> op = "close_file"
    BY CatalogAssumption
  <1>3. PICK handles : handles = IF x \in TableNames THEN fhs ELSE ihs
    OBVIOUS
  <1>4. x \in DOMAIN handles <=> Held(x)
    <2>1. DOMAIN fhs \subseteq TableNames /\ DOMAIN ihs \subseteq IndexNames
      BY DEF ServerInv, TypeInv
    <2>2. QED
      BY <2>1, <1>2, <1>3, CatalogAssumption DEF Held
  <1>5. CASE x \in DOMAIN handles
    <2>1. Open(x) /\ path2fd[x] = handles[x]
      BY <1>3, <1>5 DEF HandlesKnown
    <2>2. IsOpen(handles[x]) /\ kernel[handles[x]] = x
      BY <2>1 DEF IsOpen, Open, ServerInv, FdInv
    <2>3. /\ Next1(th) /\ path2fd' = Without(path2fd, x) /\ fhs' = Without(fhs, x) /\ ihs' = Without(ihs, x)
          /\ UNCHANGED <<dir, files, meta, db, fd2pageno, job, reg, outcome, phase, broken, ended, moved>>
      BY <1>1, <1>3, <1>5, <2>2 DEF CloseHandle, Closes, historyVars
    <2>4. /\ DOMAIN path2fd' = DOMAIN path2fd \ {x} /\ \A n \in DOMAIN path2fd' : path2fd'[n] = path2fd[n]
          /\ DOMAIN fhs' = DOMAIN fhs \ {x} /\ \A n \in DOMAIN fhs' : fhs'[n] = fhs[n]
          /\ DOMAIN ihs' = DOMAIN ihs \ {x} /\ \A n \in DOMAIN ihs' : ihs'[n] = ihs[n]
      BY <2>3 DEF Without
    <2>5. HandlesKnown'
      BY <2>3, <2>4 DEF HandlesKnown, Open
    <2>6. \A S : NumberedBut(S) => NumberedBut(S)'
      BY <2>3, <2>4 DEF NumberedBut, Numbered
    <2>7. (\A n \in Paths \ {x} : Open(n)' <=> Open(n)) /\ ~Open(x)' /\ Open(x) /\ Held(x)
      BY <2>1, <2>4, <1>4, <1>5 DEF Open
    <2>8. QED
      BY <2>3, <2>4, <2>5, <2>6, <2>7
  <1>6. CASE x \notin DOMAIN handles
    <2>1. /\ Next1(th)
          /\ UNCHANGED <<dir, files, meta, db, fhs, ihs, path2fd, fd2pageno, job, reg, outcome, phase, broken, ended,
                         moved>>
      BY <1>1, <1>3, <1>6 DEF CloseHandle, historyVars
    <2>2. DOMAIN fhs' = DOMAIN fhs \ {x} /\ DOMAIN ihs' = DOMAIN ihs \ {x} /\ ~Held(x)
      BY <2>1, <1>4, <1>6 DEF Held
    <2>3. HandlesKnown'
      BY <2>1 DEF HandlesKnown, Open
    <2>4. \A S : NumberedBut(S) => NumberedBut(S)'
      BY <2>1 DEF NumberedBut, Numbered
    <2>5. \A n : Open(n)' <=> Open(n)
      BY <2>1 DEF Open
    <2>6. QED
      BY <2>1, <2>2, <2>3, <2>4, <2>5
  <1>7. QED
    BY <1>5, <1>6


\* A file is opened: it is there and was not open.  A table gets its handle; an index that is opened
\* under its last descriptor counts one page more there, under another one it is moved.
OpenedAs(th, op, x) ==
    /\ files[x] # "none" /\ ~Open(x)
    /\ DOMAIN path2fd' = DOMAIN path2fd \cup {x} /\ \A n \in DOMAIN path2fd : path2fd'[n] = path2fd[n]
    /\ path2fd'[x] = reg'[th] /\ reg'[th] \in Fds /\ \A r \in Threads \ {th} : reg'[r] = reg[r]
    /\ DOMAIN fhs' = IF op = "open_file" THEN DOMAIN fhs \cup {x} ELSE DOMAIN fhs
    /\ (op = "open_file" => x \in db.tabs) => HandlesKnown'
    /\ \A S : NumberedBut(S) => NumberedBut(S)'
    /\ (op = "open_index" /\ reg[th] \in Fds /\ fd2pageno[reg[th]] = InitNumPages - 1)
          => Numbered(x, reg[th])'
    /\ UNCHANGED <<dir, files, meta, db, ihs, job, phase, broken, ended>>

LEMMA OpensFile ==
    ASSUME ServerInv, MoreTypes, HandlesKnown, NEW th \in Threads, NEW op \in {"open", "open_file", "open_index"},
           NEW x \in Paths, Name(th) = x, op = "open_file" => x \in TableNames,
           files[x] # "none", ~Open(x),
           Opens(th, op, LowestFree), UNCHANGED <<dir, files, meta, db, ihs, job, phase, broken, ended>>
    PROVE  OpenedAs(th, op, x)
  <1>1. PICK fd : fd = LowestFree
    OBVIOUS
  <1>2. fd \in Fds /\ kernel[fd] = "free"
    BY <1>1, LowestIsFree DEF ServerInv
  <1>3. /\ path2fd' = With(path2fd, x, fd) /\ reg' = [reg EXCEPT ![th] = fd]
        /\ fhs' = IF op = "open_file" THEN With(fhs, x, fd) ELSE fhs
        /\ fd2pageno' = [fd2pageno EXCEPT ![fd] = CASE op = "open_file" -> 1
                                                    [] op = "open_index" -> fd2pageno[fd] + 1
                                                    [] OTHER -> fd2pageno[fd]]
        /\ moved' = CASE op # "open_index" -> moved
                      [] op = "open_index" /\ fd = reg[th] -> moved \ {x}
                      [] op = "open_index" /\ fd # reg[th] -> moved \cup {x}
    BY <1>1 DEF Opens
  <1>4. /\ DOMAIN path2fd' = DOMAIN path2fd \cup {x} /\ \A n \in DOMAIN path2fd : path2fd'[n] = path2fd[n]
        /\ path2fd'[x] = fd
    BY <1>3 DEF With, Open
  <1>5. reg'[th] = fd /\ \A r \in Threads \ {th} : reg'[r] = reg[r]
    BY <1>3 DEF MoreTypes
  <1>6. \A g \in Fds : g # fd => fd2pageno'[g] = fd2pageno[g]
    BY <1>3 DEF MoreTypes
  <1>7. DOMAIN fhs' = IF op = "open_file" THEN DOMAIN fhs \cup {x} ELSE DOMAIN fhs
    BY <1>3 DEF With
  <1>8. ASSUME op = "open_file" => x \in db.tabs PROVE HandlesKnown'
    <2>1. \A i \in DOMAIN ihs' : i \in db'.ixs /\ Open(i)' /\ path2fd'[i] = ihs'[i]
      BY <1>4 DEF HandlesKnown, Open
    <2>2. CASE op = "open_file"
      <3>1. /\ DOMAIN fhs' = DOMAIN fhs \cup {x} /\ fhs'[x] = fd /\ \A t \in DOMAIN fhs : t # x => fhs'[t] = fhs[t]
        BY <1>3, <2>2 DEF With
      <3>2. ASSUME NEW t \in DOMAIN fhs' PROVE t \in db'.tabs /\ Open(t)' /\ path2fd'[t] = fhs'[t]
        <4>1. CASE t = x
          BY <4>1, <3>1, <2>2, <1>4, <1>8 DEF Open
        <4>2. CASE t # x
          BY <4>2, <3>1, <1>4 DEF HandlesKnown, Open
        <4>3. QED
          BY <4>1, <4>2
      <3>3. QED
        BY <2>1, <3>2 DEF HandlesKnown
    <2>3. CASE op # "open_file"
      <3>1. fhs' = fhs
        BY <1>3, <2>3
      <3>2. QED
        BY <2>1, <3>1, <1>4 DEF HandlesKnown, Open
    <2>4. QED
      BY <2>2, <2>3
  <1>9. ASSUME NEW S, NumberedBut(S) PROVE NumberedBut(S)'
    <2>1. SUFFICES ASSUME NEW i \in DOMAIN ihs \ S PROVE Numbered(i, ihs[i])'
      BY DEF NumberedBut
    <2>2. ihs[i] \in Fds /\ kernel[ihs[i]] = i /\ Open(i)
      BY DEF HandlesKnown, ServerInv, FdInv, Open
    <2>3. ihs[i] # fd /\ i # x
      <3>1. i \in Paths
        BY <2>2 DEF ServerInv, FdInv, Open
      <3>2. QED
        BY <3>1, <2>2, <1>2, NamesApart
    <2>4. i \in moved => i \in moved'
      BY <2>3, <1>3
    <2>5. Numbered(i, ihs[i])
      BY <1>9 DEF NumberedBut
    <2>6. fd2pageno'[ihs[i]] = fd2pageno[ihs[i]]
      BY <2>2, <2>3, <1>6
    <2>7. QED
      BY <2>4, <2>5, <2>6 DEF Numbered
  <1>10. ASSUME op = "open_index", reg[th] \in Fds, fd2pageno[reg[th]] = InitNumPages - 1
         PROVE Numbered(x, reg[th])'
    <2>1. CASE fd = reg[th]
      <3>1. fd2pageno'[fd] = fd2pageno[fd] + 1
        BY <1>2, <1>3, <1>10 DEF MoreTypes
      <3>2. QED
        BY <3>1, <2>1, <1>5, <1>10 DEF Numbered, InitNumPages
    <2>2. CASE fd # reg[th]
      BY <2>2, <1>3, <1>10 DEF Numbered
    <2>3. QED
      BY <2>1, <2>2
  <1>11. QED
    BY <1>2, <1>4, <1>5, <1>7, <1>8, <1>9, <1>10 DEF OpenedAs

LEMMA DoOpen ==
    ASSUME ServerInv, MoreTypes, HandlesKnown, NEW th \in Threads, NEW op \in {"open", "open_file", "open_index"},
           NEW x \in Paths, Head(prog[th]) = Call(op, x), op = "open_file" => x \in TableNames, CatalogStep(th)
    PROVE  \/ /\ files[x] = "none" \/ Open(x) \/ (op # "open" /\ files[x] = "empty" /\ th = "main")
              /\ Throw(th)
           \/ /\ th # "main" /\ op # "open" /\ files[x] = "empty"
              /\ prog' = [prog EXCEPT ![th] = <<>>] /\ outcome' = [outcome EXCEPT ![th] = "failure"]
              /\ OpenedAs(th, "open", x)
           \/ /\ op # "open" => files[x] = "ready"
              /\ Next1(th) /\ outcome' = outcome
              /\ OpenedAs(th, op, x)
  <1>1. OpenFile(th) /\ Name(th) = x /\ Head(prog[th]).op = op
    BY TheStep, CallFields DEF Name
  <1>2. PICK fails : fails = (op # "open" /\ files[x] = "empty")
    OBVIOUS
  <1>3. CASE files[x] = "none" \/ Open(x) \/ (fails /\ th = "main")
    BY <1>1, <1>2, <1>3 DEF OpenFile, Open
  <1>4. CASE ~(files[x] = "none" \/ Open(x) \/ (fails /\ th = "main"))
    <2>1. /\ Opens(th, IF fails THEN "open" ELSE op, LowestFree)
          /\ prog' = [prog EXCEPT ![th] = IF fails THEN <<>> ELSE Tail(@)]
          /\ outcome' = [outcome EXCEPT ![th] = IF fails THEN "failure" ELSE @]
          /\ UNCHANGED <<dir, files, meta, db, ihs, job, phase, broken, ended>>
      BY <1>1, <1>2, <1>4 DEF OpenFile, Open, historyVars
    <2>2. files[x] \in {"none", "empty", "ready"}
      BY DEF ServerInv, TypeInv
    <2>3. CASE fails
      <3>1. OpenedAs(th, "open", x)
        BY <2>1, <2>3, <1>1, <1>4, OpensFile
      <3>2. QED
        BY <3>1, <2>1, <2>3, <1>2, <1>4
    <2>4. CASE ~fails
      <3>1. OpenedAs(th, op, x)
        BY <2>1, <2>4, <1>1, <1>4, OpensFile
      <3>2. Next1(th) /\ outcome' = outcome
        BY <2>1, <2>4 DEF Next1, MoreTypes
      <3>3. op # "open" => files[x] = "ready"
        BY <2>2, <2>4, <1>2, <1>4
      <3>4. QED
        BY <3>1, <3>2, <3>3
    <2>5. QED
      BY <1>2, <2>3, <2>4
  <1>5. QED
    BY <1>3, <1>4


-----------------------------------------------------------------------------
\* What every step keeps

\* A call of a thread changes the calls of this thread only.
GoesOn(th) ==
    /\ \E rest : prog' = [prog EXCEPT ![th] = rest]
    /\ DOMAIN fd2pageno' = Fds /\ DOMAIN reg' = Threads /\ outcome' \in [Threads -> {"ok", "failure"}]
    /\ OnDisk'
    /\ UNCHANGED <<job, broken, ended>>

LEMMA GoesOnThrow ==
    ASSUME MoreTypes, OnDisk, NEW th \in Threads, Throw(th) PROVE GoesOn(th) \/ ProcessEnds("failed")
BY DEF Throw, GoesOn, MoreTypes, OnDisk, handleVars, historyVars

LEMMA GoesOnFile ==
    ASSUME ServerInv, MoreTypes, OnDisk, NEW th \in Threads,
           CreateFile(th) \/ DestroyFile(th) \/ WriteHeader(th)
    PROVE  GoesOn(th) \/ ProcessEnds("failed")
  <1>1. prog[th] # <<>> /\ Head(prog[th]).op \in {"create", "destroy", "header"}
    BY DEF CreateFile, DestroyFile, WriteHeader, Calls
  <1>2. Name(th) \in Paths
    BY <1>1, HeadName DEF ServerInv, Name
  <1>3. CASE Throw(th)
    BY <1>3, GoesOnThrow
  <1>4. CASE /\ Next1(th) /\ UNCHANGED <<path2fd, fd2pageno, job, reg, outcome, broken, ended>>
             /\ \/ files' = files
                \/ files' = [files EXCEPT ![Name(th)] = "empty"]
                \/ files' = [files EXCEPT ![Name(th)] = IF @ = "none" THEN "none" ELSE "ready"]
                \/ Name(th) \notin DOMAIN path2fd /\ files' = [files EXCEPT ![Name(th)] = "none"]
    <2>1. files \in [Paths -> {"none", "empty", "ready"}] /\ DOMAIN path2fd \subseteq Paths
      BY DEF ServerInv, TypeInv, FdInv
    <2>2. OnDisk'
      BY <1>2, <1>4, <2>1 DEF OnDisk
    <2>3. QED
      BY <1>4, <2>2 DEF GoesOn, Next1, MoreTypes
  <1>5. QED
    BY <1>3, <1>4 DEF CreateFile, DestroyFile, WriteHeader, handleVars, historyVars

LEMMA GoesOnOpen ==
    ASSUME ServerInv, MoreTypes, OnDisk, NEW th \in Threads, OpenFile(th)
    PROVE  GoesOn(th) \/ ProcessEnds("failed")
  <1>1. PICK fails : fails = (Head(prog[th]).op # "open" /\ files[Name(th)] = "empty")
    OBVIOUS
  <1>2. CASE Throw(th)
    BY <1>2, GoesOnThrow
  <1>3. CASE ~Throw(th)
    <2>1. /\ files[Name(th)] # "none"
          /\ \E op : Opens(th, op, LowestFree)
          /\ prog' = [prog EXCEPT ![th] = IF fails THEN <<>> ELSE Tail(@)]
          /\ outcome' = [outcome EXCEPT ![th] = IF fails THEN "failure" ELSE @]
          /\ UNCHANGED <<files, job, broken, ended>>
      BY <1>1, <1>3 DEF OpenFile, historyVars
    <2>2. /\ DOMAIN path2fd' = DOMAIN path2fd \cup {Name(th)}
          /\ DOMAIN fd2pageno' = DOMAIN fd2pageno /\ DOMAIN reg' = DOMAIN reg
      BY <2>1 DEF Opens, With
    <2>3. OnDisk'
      BY <2>1, <2>2 DEF OnDisk
    <2>4. outcome' \in [Threads -> {"ok", "failure"}]
      BY <2>1 DEF MoreTypes
    <2>5. QED
      BY <2>1, <2>2, <2>3, <2>4 DEF GoesOn, MoreTypes
  <1>4. QED
    BY <1>2, <1>3

LEMMA GoesOnClose ==
    ASSUME MoreTypes, OnDisk, NEW th \in Threads, CloseFile(th) \/ CloseHandle(th) \/ ShutHandle(th)
    PROVE  GoesOn(th) \/ ProcessEnds("failed")
  <1>1. CASE Throw(th)
    BY <1>1, GoesOnThrow
  <1>2. CASE /\ Next1(th) /\ UNCHANGED <<files, fd2pageno, job, reg, outcome, broken, ended>>
             /\ path2fd' = path2fd \/ \E p : path2fd' = Without(path2fd, p)
    <2>1. DOMAIN path2fd' \subseteq DOMAIN path2fd
      BY <1>2 DEF Without
    <2>2. OnDisk'
      BY <1>2, <2>1 DEF OnDisk
    <2>3. QED
      BY <1>2, <2>2 DEF GoesOn, Next1, MoreTypes
  <1>3. CASE CloseFile(th)
    BY <1>1, <1>2, <1>3 DEF CloseFile, Closes, historyVars
  <1>4. CASE CloseHandle(th)
    BY <1>1, <1>2, <1>4 DEF CloseHandle, Closes, historyVars
  <1>5. CASE ShutHandle(th)
    BY <1>1, <1>2, <1>5 DEF ShutHandle, Closes, historyVars
  <1>6. QED
    BY <1>3, <1>4, <1>5

LEMMA GoesOnOther ==
    ASSUME MoreTypes, OnDisk, NEW th \in Threads,
           \/ Loop(th) \/ CheckLength(th) \/ SetPageNo(th) \/ Fill(th) \/ Duplicate(th) \/ Register(th)
           \/ ClearMaps(th) \/ TruncateMeta(th) \/ WriteMeta(th) \/ MakeDir(th) \/ LoadMeta(th) \/ Serve(th)
    PROVE  GoesOn(th) \/ ProcessEnds("failed") \/ ProcessEnds("killed")
  <1>1. CASE Throw(th)
    BY <1>1, GoesOnThrow
  <1>2. CASE /\ \E rest : prog' = [prog EXCEPT ![th] = rest]
             /\ UNCHANGED <<files, path2fd, job, reg, outcome, broken, ended>>
             /\ DOMAIN fd2pageno' = DOMAIN fd2pageno
    BY <1>2 DEF GoesOn, MoreTypes, OnDisk
  <1>3. CASE CheckLength(th) \/ Duplicate(th)
    BY <1>1, <1>2, <1>3 DEF CheckLength, Duplicate, Next1, handleVars, historyVars
  <1>4. CASE Fill(th)
    BY <1>2, <1>4 DEF Fill, handleVars, historyVars
  <1>5. CASE Loop(th)
    <2>1. \E rest : prog' = [prog EXCEPT ![th] = rest]
      BY <1>5 DEF Loop, Next1
    <2>2. UNCHANGED <<files, path2fd, fd2pageno, job, reg, outcome, broken, ended>>
      BY <1>5 DEF Loop, handleVars, historyVars
    <2>3. QED
      BY <1>2, <2>1, <2>2
  <1>6. CASE SetPageNo(th) \/ Register(th) \/ ClearMaps(th)
    BY <1>2, <1>6 DEF SetPageNo, Register, ClearMaps, Next1, historyVars
  <1>7. CASE TruncateMeta(th) \/ WriteMeta(th) \/ MakeDir(th) \/ Serve(th)
    BY <1>2, <1>7 DEF TruncateMeta, WriteMeta, MakeDir, Serve, Next1, handleVars, historyVars
  <1>8. CASE LoadMeta(th)
    BY <1>2, <1>8 DEF LoadMeta, handleVars, historyVars
  <1>9. QED
    BY <1>3, <1>4, <1>5, <1>6, <1>7, <1>8

LEMMA GoesOnOrEnds ==
    ASSUME ServerInv, MoreTypes, OnDisk, NEW th \in Threads, CatalogStep(th)
    PROVE  GoesOn(th) \/ \E how \in {"failed", "killed", "closed"} : ProcessEnds(how)
  <1>1. CASE Exit(th)
    BY <1>1 DEF Exit
  <1>2. CASE CreateFile(th) \/ DestroyFile(th) \/ WriteHeader(th)
    BY <1>2, GoesOnFile
  <1>3. CASE OpenFile(th)
    BY <1>3, GoesOnOpen
  <1>4. CASE CloseFile(th) \/ CloseHandle(th) \/ ShutHandle(th)
    BY <1>4, GoesOnClose
  <1>5. CASE ~(\/ Exit(th) \/ CreateFile(th) \/ DestroyFile(th) \/ WriteHeader(th) \/ OpenFile(th)
               \/ CloseFile(th) \/ CloseHandle(th) \/ ShutHandle(th))
    <2>1. \/ Loop(th) \/ CheckLength(th) \/ SetPageNo(th) \/ Fill(th) \/ Duplicate(th) \/ Register(th)
          \/ ClearMaps(th) \/ TruncateMeta(th) \/ WriteMeta(th) \/ MakeDir(th) \/ LoadMeta(th) \/ Serve(th)
      BY <1>5 DEF CatalogStep
    <2>2. QED
      BY <2>1, GoesOnOther
  <1>6. QED
    BY <1>1, <1>2, <1>3, <1>4, <1>5

\* The phase changes when main serves or the process ends.
LEMMA PhaseKept ==
    ASSUME ServerInv, NEW th \in Threads, CatalogStep(th), phase' # "down"
    PROVE  phase' = phase \/ (th = "main" /\ phase = "starting" /\ phase' = "up")
  <1>1. \A how : ~ProcessEnds(how)
    BY DEF ProcessEnds
  <1>2. Throw(th) => phase' = phase
    BY <1>1 DEF Throw
  <1>3. CASE Serve(th)
    <2>1. prog[th] # <<>> /\ Head(prog[th]).op = "serve" /\ phase' = "up"
      BY <1>3 DEF Serve, Calls
    <2>2. QED
      BY <2>1, HeadName DEF ServerInv
  <1>4. CASE Loop(th) \/ CreateFile(th) \/ DestroyFile(th) \/ OpenFile(th) \/ CloseFile(th) \/ WriteHeader(th)
    BY <1>2, <1>4 DEF Loop, CreateFile, DestroyFile, OpenFile, CloseFile, WriteHeader
  <1>5. CASE CheckLength(th) \/ SetPageNo(th) \/ Fill(th) \/ Duplicate(th) \/ Register(th)
    BY <1>1, <1>2, <1>5 DEF CheckLength, SetPageNo, Fill, Duplicate, Register
  <1>6. CASE CloseHandle(th) \/ ShutHandle(th) \/ ClearMaps(th) \/ Exit(th) \/ TruncateMeta(th)
    BY <1>1, <1>2, <1>6 DEF CloseHandle, ShutHandle, ClearMaps, Exit, TruncateMeta
  <1>7. CASE WriteMeta(th) \/ MakeDir(th) \/ LoadMeta(th)
    BY <1>1, <1>7 DEF WriteMeta, MakeDir, LoadMeta
  <1>8. QED
    BY <1>3, <1>4, <1>5, <1>6, <1>7 DEF CatalogStep

\* What a call does to the other threads and to the history: a statement that ends settles what the
\* catalog has to be.
Goes(th) ==
    /\ MoreTypes' /\ OneDdl' /\ OnDisk'
    /\ UNCHANGED <<job, broken, ended, stage, query, orphans>>
    /\ tainted' = (tainted \/ (phase = "closing" /\ \E s \in Sessions : Changing(s)))
    /\ \A r \in Threads \ {th} : prog'[r] = prog[r]
Settles(s) ==
    expect' = IF prog'[s] # <<>> THEN expect
              ELSE IF outcome'[s] = "ok" THEN [old |-> expect.new, new |-> expect.new]
              ELSE [old |-> expect.old, new |-> expect.old]
Comes(th) ==
    expect' = IF phase = "starting" /\ phase' = "up" THEN [old |-> db, new |-> db] ELSE expect

LEMMA StepKeeps ==
    ASSUME ServerInv, MoreTypes, OneDdl, OnDisk, NEW th \in Threads, Step(th), History, phase' # "down"
    PROVE  /\ Goes(th)
           /\ th \in Sessions => phase' = phase /\ Settles(th)
           /\ th = "main" => Comes(th)
  <1>1. CatalogStep(th) /\ UNCHANGED <<stage, query>>
    BY DEF Step, handlerVars
  <1>2. GoesOn(th)
    <2>1. \A how : ~ProcessEnds(how)
      BY DEF ProcessEnds
    <2>2. QED
      BY <1>1, <2>1, GoesOnOrEnds
  <1>3. PICK rest : prog' = [prog EXCEPT ![th] = rest]
    BY <1>2 DEF GoesOn
  <1>4. DOMAIN prog = Threads /\ Sessions \subseteq Threads /\ "main" \notin Sessions /\ prog[th] # <<>>
    BY <1>1, TheStep, NamesApart DEF ServerInv, ProgInv, Threads
  <1>5. prog'[th] = rest /\ \A r \in Threads \ {th} : prog'[r] = prog[r]
    BY <1>3, <1>4
  <1>6. orphans' = orphans
    BY DEF History
  <1>7. \A s \in Sessions : ~Begins(s)
    BY <1>1 DEF Begins
  <1>8. \A s \in Sessions : Ends(s) <=> s = th /\ prog'[th] = <<>>
    BY <1>4, <1>5 DEF Ends, Changing
  <1>9. expect \in [old : Catalogs, new : Catalogs]
    BY DEF MoreTypes
  <1>10. th \in Sessions => phase' = phase
    BY <1>1, <1>4, PhaseKept
  <1>11. th \in Sessions => Settles(th)
    <2>1. SUFFICES ASSUME th \in Sessions PROVE Settles(th)
      OBVIOUS
    <2>2. ~(phase = "starting" /\ phase' = "up")
      BY <1>10, <2>1
    <2>3. CASE prog'[th] # <<>>
      BY <2>2, <2>3, <1>7, <1>8 DEF History, Settles
    <2>4. CASE prog'[th] = <<>>
      <3>1. Ends(th) /\ ~(\E r \in Sessions : Begins(r))
        BY <2>1, <2>4, <1>7, <1>8
      <3>2. \A r \in Sessions : Ends(r) => r = th
        BY <1>8
      <3>3. (CHOOSE r \in Sessions : Ends(r)) = th
        BY <2>1, <3>1, <3>2
      <3>4. expect' = IF outcome'[th] = "ok" THEN [expect EXCEPT !.old = expect.new]
                      ELSE [expect EXCEPT !.new = expect.old]
        BY <2>1, <2>2, <3>1, <3>2, <3>3 DEF History
      <3>5. /\ [expect EXCEPT !.old = expect.new] = [old |-> expect.new, new |-> expect.new]
            /\ [expect EXCEPT !.new = expect.old] = [old |-> expect.old, new |-> expect.old]
        BY <1>9
      <3>6. QED
        BY <3>4, <3>5, <2>4 DEF Settles
    <2>5. QED
      BY <2>3, <2>4
  <1>12. th = "main" => Comes(th)
    BY <1>4, <1>7, <1>8 DEF History, Comes
  <1>13. MoreTypes'
    <2>1. expect' \in [old : Catalogs, new : Catalogs]
      <3>1. expect.old \in Catalogs /\ expect.new \in Catalogs /\ db \in Catalogs
        BY <1>9 DEF ServerInv, TypeInv
      <3>2. \/ expect' = expect
            \/ \E c \in {expect.old, expect.new, db} : expect' = [old |-> c, new |-> c]
        BY <1>11, <1>12 DEF Threads, Settles, Comes
      <3>3. \A c \in {expect.old, expect.new, db} : [old |-> c, new |-> c] \in [old : Catalogs, new : Catalogs]
        BY <3>1
      <3>4. QED
        BY <3>2, <3>3, <1>9, Zenon
    <2>2. QED
      BY <2>1, <1>2, <1>6 DEF MoreTypes, GoesOn
  <1>14. OneDdl'
    <2>1. \A s \in Sessions : Changing(s)' => Changing(s)
      BY <1>4, <1>5 DEF Changing
    <2>2. QED
      BY <1>1, <2>1 DEF OneDdl
  <1>15. tainted' = (tainted \/ (phase = "closing" /\ \E s \in Sessions : Changing(s)))
    BY DEF History
  <1>16. QED
    BY <1>1, <1>2, <1>5, <1>6, <1>10, <1>11, <1>12, <1>13, <1>14, <1>15 DEF Goes, GoesOn

-----------------------------------------------------------------------------
\* The end of the process

\* What a statement promises, name by name.
LEMMA EffectNames ==
    ASSUME NEW q \in Ddl, NEW cat \in Catalogs, Allowed(cat, q), NEW n
    PROVE  /\ q.op \in {"create_table", "create_index"} => (In(n, Effect(cat, q)) <=> In(n, cat) \/ n = q.name)
           /\ q.op = "drop_index" => (In(n, Effect(cat, q)) <=> In(n, cat) /\ n # q.name)
           /\ q.op = "drop_table" =>
                 (In(n, Effect(cat, q)) <=> In(n, cat) /\ n # q.name /\ ~(n \in cat.ixs /\ TableOf[n] = q.name))
           /\ q.op \in {"create_table", "create_index"} => ~In(q.name, cat)
           /\ q.op \in {"drop_table", "drop_index"} => In(q.name, cat)
  <1>1. TableNames \cap IndexNames = {} /\ cat.tabs \subseteq TableNames /\ cat.ixs \subseteq IndexNames
    BY CatalogAssumption DEF Catalogs
  <1>2. /\ q.op \in {"create_table", "drop_table", "show_index"} => q.name \in TableNames
        /\ q.op \in {"create_index", "drop_index"} => q.name \in IndexNames
    BY DEF Ddl
  <1>3. CASE q.op = "create_table"
    <2>1. Effect(cat, q) = [cat EXCEPT !.tabs = @ \cup {q.name}]
      BY <1>3 DEF Effect
    <2>2. Effect(cat, q).tabs = cat.tabs \cup {q.name} /\ Effect(cat, q).ixs = cat.ixs
      BY <2>1 DEF Catalogs
    <2>3. q.name \notin cat.tabs
      BY <1>3 DEF Allowed
    <2>4. QED
      BY <1>1, <1>2, <1>3, <2>2, <2>3 DEF In
  <1>4. CASE q.op = "create_index"
    <2>1. Effect(cat, q) = [cat EXCEPT !.ixs = @ \cup {q.name}]
      BY <1>4 DEF Effect
    <2>2. Effect(cat, q).tabs = cat.tabs /\ Effect(cat, q).ixs = cat.ixs \cup {q.name}
      BY <2>1 DEF Catalogs
    <2>3. q.name \notin cat.ixs
      BY <1>4 DEF Allowed
    <2>4. QED
      BY <1>1, <1>2, <1>4, <2>2, <2>3 DEF In
  <1>5. CASE q.op = "drop_index"
    <2>1. Effect(cat, q) = [cat EXCEPT !.ixs = @ \ {q.name}]
      BY <1>5 DEF Effect
    <2>2. Effect(cat, q).tabs = cat.tabs /\ Effect(cat, q).ixs = cat.ixs \ {q.name}
      BY <2>1 DEF Catalogs
    <2>3. q.name \in cat.ixs
      BY <1>5 DEF Allowed
    <2>4. QED
      BY <1>1, <1>2, <1>5, <2>2, <2>3 DEF In
  <1>6. CASE q.op = "drop_table"
    <2>1. Effect(cat, q) = [tabs |-> cat.tabs \ {q.name}, ixs |-> {i \in cat.ixs : TableOf[i] # q.name}]
      BY <1>6 DEF Effect
    <2>2. Effect(cat, q).tabs = cat.tabs \ {q.name} /\ Effect(cat, q).ixs = {i \in cat.ixs : TableOf[i] # q.name}
      BY <2>1
    <2>3. q.name \in cat.tabs
      BY <1>6 DEF Allowed
    <2>4. QED
      BY <1>1, <1>2, <1>6, <2>2, <2>3 DEF In
  <1>7. QED
    BY <1>3, <1>4, <1>5, <1>6

\* While a statement runs, db.meta is the one from before it, and a file that this one does not name
\* is an orphan, has a key that is too long, or is the one the statement creates.
Midway(s) ==
    LET q == query[s]
    IN /\ meta.cat = expect.old /\ db \in {expect.old, expect.new}
       /\ job[s] \in {"create_table", "create_index"} => q.op = job[s] /\ ~In(q.name, expect.old)
       /\ \A n \in Names : ~In(n, expect.old) /\ files[n] # "none" =>
             n \in orphans \cup TooLong \/ (job[s] \in {"create_table", "create_index"} /\ n = q.name)

LEMMA DdlQuery ==
    ASSUME ServerInv, OneDdl, NEW s \in Sessions, Changing(s)
    PROVE  query[s] \in Ddl /\ query[s].name \in Names
BY DEF OneDdl, ServerInv, ParseInv, Ddl, Names

LEMMA DdlMidway ==
    ASSUME ServerInv, MoreTypes, OneDdl, Sound, NEW s \in Sessions, Changing(s), DdlAt(s)
    PROVE  Midway(s)
  <1>1. PICK q : q = query[s]
    OBVIOUS
  <1>2. q \in Ddl /\ q.name \in Names
    BY <1>1, DdlQuery
  <1>3. PICK old \in Catalogs : old = expect.old
    BY DEF MoreTypes
  <1>4. job[s] = q.op /\ Allowed(old, q) /\ expect.new = Effect(old, q)
    BY <1>1, <1>3 DEF DdlAt
  <1>5. meta.cat = old /\ db \in {old, expect.new}
    <2>1. CASE q.op = "create_table"
      BY <1>1, <1>3, <2>1 DEF DdlAt, CreatesTable, CreateTableSound, MetaIs
    <2>2. CASE q.op = "create_index"
      <3>1. CreatesIndex(s, q.name) \/ GivesUpIndex(s, q.name)
        BY <1>1, <2>2 DEF DdlAt
      <3>2. CASE CreatesIndex(s, q.name)
        BY <1>3, <3>2 DEF CreatesIndex, CreateIndexSound, MetaIs
      <3>3. CASE GivesUpIndex(s, q.name)
        BY <1>3, <3>3 DEF GivesUpIndex, DuplicateSound, MetaIs
      <3>4. QED
        BY <3>1, <3>2, <3>3
    <2>3. CASE q.op = "drop_index"
      BY <1>1, <1>3, <2>3 DEF DdlAt, DropsIndex, DropIndexSound, MetaIs
    <2>4. CASE q.op = "drop_table"
      <3>1. DropsIndexes(s, q.name) \/ DropsOne(s, q.name) \/ DropsTable(s, q.name)
        BY <1>1, <2>4 DEF DdlAt
      <3>2. CASE DropsIndexes(s, q.name)
        BY <1>3, <3>2 DEF DropsIndexes, LoopSound, MetaIs
      <3>3. CASE DropsOne(s, q.name)
        BY <1>3, <3>3 DEF DropsOne, RoundSound, MetaIs
      <3>4. CASE DropsTable(s, q.name)
        BY <1>3, <3>4 DEF DropsTable, DropTableSound, MetaIs
      <3>5. QED
        BY <3>1, <3>2, <3>3, <3>4
    <2>5. QED
      BY <2>1, <2>2, <2>3, <2>4, <1>1 DEF DdlAt
  <1>6. ASSUME NEW n \in Names, ~In(n, old), files[n] # "none", n # q.name PROVE n \in orphans \cup TooLong
    <2>1. ~In(n, expect.new)
      BY <1>2, <1>4, <1>6, EffectNames DEF Allowed
    <2>2. ~In(n, db)
      BY <2>1, <1>5, <1>6
    <2>3. Settled(n)
      <3>1. CASE q.op = "create_table"
        BY <1>1, <1>6, <3>1 DEF DdlAt, CreatesTable, CreateTableSound
      <3>2. CASE q.op = "create_index"
        BY <1>1, <1>6, <3>2 DEF DdlAt, CreatesIndex, CreateIndexSound, GivesUpIndex, DuplicateSound
      <3>3. CASE q.op = "drop_index"
        BY <1>1, <1>6, <3>3 DEF DdlAt, DropsIndex, DropIndexSound
      <3>4. CASE q.op = "drop_table"
        <4>1. OthersSound(q.name)
          BY <1>1, <3>4 DEF DdlAt, DropsIndexes, LoopSound, DropsOne, RoundSound, DropsTable, DropTableSound
        <4>2. n \notin expect.old.ixs
          BY <1>3, <1>6 DEF In
        <4>3. QED
          BY <4>1, <4>2, <1>6 DEF OthersSound
      <3>5. QED
        BY <3>1, <3>2, <3>3, <3>4, <1>1 DEF DdlAt
    <2>4. QED
      BY <2>2, <2>3, <1>6 DEF Settled, DiskOf
  <1>7. q.op \in {"create_table", "create_index"} => ~In(q.name, old)
    BY <1>2, <1>4, EffectNames
  <1>8. q.op \notin {"create_table", "create_index"} => In(q.name, old)
    <2>1. q.op \in {"create_table", "create_index", "drop_table", "drop_index"}
      BY <1>1 DEF DdlAt
    <2>2. QED
      BY <2>1, <1>2, <1>4, EffectNames
  <1>9. QED
    BY <1>1, <1>3, <1>4, <1>5, <1>6, <1>7, <1>8 DEF Midway

\* A start that is cut short leaves what the next one needs.
LEMMA StartDown ==
    ASSUME ServerInv, Sound, StartAt, Bootable
    PROVE  DownSound
  <1>1. ASSUME NEW X, Loaded(X), \A n \in X : In(n, db) PROVE DownSound
    <2>1. ASSUME NEW n \in Names PROVE DiskOf(n, db)
      <3>1. CASE n \in X
        BY <3>1, <1>1 DEF Loaded, MetaIs, DiskOf, Bootable, In
      <3>2. CASE n \notin X
        BY <3>2, <1>1 DEF Loaded
      <3>3. QED
        BY <3>1, <3>2
    <2>2. QED
      BY <1>1, <2>1 DEF DownSound, StoredCat, DiskHolds, Loaded, MetaIs
  <1>2. Loaded({}) => DownSound
    BY <1>1
  <1>3. \A W : OpeningSound(W) => DownSound
    BY <1>2 DEF OpeningSound
  <1>4. \A i \in db.ixs : Loaded({i}) => DownSound
    BY <1>1 DEF In
  <1>5. ASSUME NEW k \in 1..4, CreateDbSound(k) PROVE DownSound
    <2>1. CASE dir
      BY <1>5, <2>1 DEF CreateDbSound, Fresh, Bootable
    <2>2. CASE ~dir
      BY <1>5, <2>2 DEF CreateDbSound, DownSound
    <2>3. QED
      BY <2>1, <2>2
  <1>6. StoredCat => DownSound
    BY DEF StoredCat, DiskHolds, DownSound
  <1>7. QED
    BY <1>2, <1>3, <1>4, <1>5, <1>6 DEF StartAt, RebuildSound

LEMMA EndsSound ==
    ASSUME ServerInv, CatalogInv, phase # "down", NEW how, ProcessEnds(how), AllGone, History,
           how = "failed" => ~Sound'
    PROVE  CatalogInv'
  <1>1. /\ phase' = "down" /\ ended' = how /\ broken' = (broken \/ ~Bootable) /\ DOMAIN path2fd' = {}
        /\ db' = NoCatalog /\ DOMAIN fhs' = {} /\ DOMAIN ihs' = {}
        /\ fd2pageno' = [fd \in Fds |-> 0] /\ \A th \in Threads : prog'[th] = <<>>
        /\ DOMAIN reg' = Threads /\ DOMAIN job' = Threads /\ outcome' \in [Threads -> {"ok", "failure"}]
        /\ UNCHANGED <<dir, files, meta>>
    BY DEF ProcessEnds, Empty, diskVars
  <1>2. /\ MoreTypes /\ OneDdl /\ phase \in {"starting", "up", "closing"}
        /\ Sessions \subseteq Threads
    BY DEF CatalogInv, ServerInv, TypeInv, Threads
  <1>3. expect' = expect
    <2>1. \A s \in Sessions : ~Begins(s) /\ ~Ends(s)
      BY <1>1, <1>2 DEF Begins, Ends
    <2>2. QED
      BY <1>1, <2>1 DEF History
  <1>4. ASSUME NEW n
        PROVE n \in orphans' <=>
                 \/ n \in orphans
                 \/ \E s \in Sessions : /\ Changing(s) /\ job[s] \in {"create_table", "create_index"}
                                        /\ n = query[s].name /\ files[n] # "none"
    BY <1>1 DEF History
  <1>5. MoreTypes'
    <2>1. \A s \in Sessions : Changing(s) => query[s].name \in Names
      BY <1>2, DdlQuery
    <2>2. orphans' \subseteq Names
      BY <1>2, <1>4, <2>1 DEF MoreTypes
    <2>3. QED
      BY <1>1, <1>2, <1>3, <2>2 DEF MoreTypes
  <1>6. OneDdl' /\ OnDisk'
    BY <1>1, <1>2 DEF OneDdl, OnDisk, Changing
  <1>7. ASSUME Sound' PROVE DownSound'
    <2>1. Sound /\ Bootable /\ (phase = "closing" => Idle)
      BY <1>1, <1>7 DEF Sound, History, Idle
    <2>2. CASE Idle
      <3>1. orphans' = orphans
        BY <1>4, <2>2 DEF Idle
      <3>2. DownSound
        <4>1. CASE phase = "starting"
          BY <4>1, <2>1, StartDown DEF CatalogInv
        <4>2. CASE phase = "up"
          <5>1. /\ dir /\ files["log"] # "none" /\ WellFormed(expect.old) /\ Orphaned(expect.old) /\ IdleSound
            BY <4>2, <2>1, <2>2 DEF CatalogInv
          <5>2. QED
            BY <5>1 DEF IdleSound, DownSound, StoredCat, DiskHolds, MetaIs, Settled
        <4>3. CASE phase = "closing"
          <5>1. CloseAt
            BY <4>3, <2>1, <2>2 DEF CatalogInv
          <5>2. DiskHolds(expect.new) /\ meta.state = "good" /\ meta.cat = expect.new
            <6>1. dir
              BY <5>1 DEF CloseAt, DiskHolds
            <6>2. meta.state = "good"
              BY <6>1, <2>1 DEF Bootable
            <6>3. QED
              BY <5>1, <6>2 DEF CloseAt, MetaIs
          <5>3. QED
            BY <5>2 DEF DownSound, StoredCat, DiskHolds
        <4>4. QED
          BY <4>1, <4>2, <4>3, <1>2
      <3>3. QED
        BY <3>1, <3>2, <1>1, <1>3 DEF DownSound, StoredCat, DiskHolds, Fresh, WellFormed, Orphaned, DiskOf, In
    <2>3. CASE ~Idle
      <3>1. PICK s \in Sessions : Changing(s)
        BY <2>3 DEF Idle
      <3>2. phase = "up"
        BY <3>1, <2>1, <2>3, <1>2 DEF ServerInv, ProgInv, Changing
      <3>3. DdlAt(s)
        BY <3>1, <3>2 DEF CatalogInv
      <3>4. Midway(s)
        BY <1>2, <2>1, <3>1, <3>3, DdlMidway
      <3>5. dir /\ files["log"] # "none" /\ WellFormed(expect.old) /\ Orphaned(expect.old)
        BY <2>1, <3>2 DEF CatalogInv
      <3>6. meta.state = "good" /\ meta.cat = expect.old
        BY <3>4, <3>5, <2>1 DEF Bootable, Midway
      <3>7. \A r \in Sessions : Changing(r) => r = s
        BY <1>2, <3>1 DEF OneDdl
      <3>8. Orphaned(expect.old)'
        BY <1>1, <1>3, <1>4, <3>4, <3>5, <3>7 DEF Midway, Orphaned, In
      <3>9. ASSUME NEW n \in Names PROVE DiskOf(n, expect.old)'
        <4>1. CASE In(n, expect.old)
          <5>1. files[n] = "ready"
            BY <4>1, <3>5, <3>6, <2>1 DEF Bootable, In
          <5>2. QED
            BY <5>1, <4>1, <1>1, <1>3 DEF DiskOf, In
        <4>2. CASE ~In(n, expect.old)
          BY <4>2, <1>1, <1>3, <1>4, <3>1, <3>4 DEF DiskOf, In, Midway
        <4>3. QED
          BY <4>1, <4>2
      <3>10. QED
        BY <3>5, <3>6, <3>8, <3>9, <1>1, <1>3 DEF DownSound, StoredCat, DiskHolds, WellFormed
    <2>4. QED
      BY <2>2, <2>3
  <1>8. QED
    BY <1>1, <1>5, <1>6, <1>7 DEF CatalogInv, Gone

-----------------------------------------------------------------------------
\* Steps that leave the catalog alone

SameCatalog == UNCHANGED <<dir, files, meta, db, fhs, ihs, path2fd, fd2pageno, moved, expect, orphans>>

LEMMA SameSettled ==
    ASSUME SameCatalog
    PROVE  /\ \A n : Settled(n) => Settled(n)'
           /\ \A state, cat : MetaIs(state, cat) => MetaIs(state, cat)'
           /\ \A cat : WellFormed(cat) => WellFormed(cat)'
           /\ \A cat : Orphaned(cat) => Orphaned(cat)'
           /\ \A n, cat : DiskOf(n, cat) => DiskOf(n, cat)'
           /\ \A cat : DiskHolds(cat) => DiskHolds(cat)'
           /\ \A S : NumberedBut(S) => NumberedBut(S)'
           /\ HandlesKnown => HandlesKnown'
           /\ OnDisk => OnDisk'
           /\ IdleSound => IdleSound'
           /\ DownSound => DownSound'
  <1>1. \A n, cat : DiskOf(n, cat) => DiskOf(n, cat)'
    BY DEF SameCatalog, DiskOf, In
  <1>2. \A n : Settled(n) => Settled(n)'
    BY <1>1 DEF SameCatalog, Settled, In, Open, Held, DiskOf
  <1>3. \A state, cat : MetaIs(state, cat) => MetaIs(state, cat)'
    BY DEF SameCatalog, MetaIs
  <1>4. \A cat : (WellFormed(cat) => WellFormed(cat)') /\ (Orphaned(cat) => Orphaned(cat)')
    BY DEF SameCatalog, WellFormed, Orphaned, In
  <1>5. \A cat : DiskHolds(cat) => DiskHolds(cat)'
    BY <1>1, <1>4 DEF SameCatalog, DiskHolds
  <1>6. /\ \A S : NumberedBut(S) => NumberedBut(S)'
        /\ HandlesKnown => HandlesKnown'
        /\ OnDisk => OnDisk'
    BY DEF SameCatalog, NumberedBut, Numbered, HandlesKnown, OnDisk, Open
  <1>7. IdleSound => IdleSound'
    BY <1>2 DEF SameCatalog, IdleSound, MetaIs
  <1>8. DownSound => DownSound'
    BY <1>5 DEF SameCatalog, DownSound, StoredCat, Fresh
  <1>9. QED
    BY <1>1, <1>2, <1>3, <1>4, <1>5, <1>6, <1>7, <1>8

LEMMA SameDdl ==
    ASSUME SameCatalog, Sound' => Sound, NEW s \in Sessions, DdlAt(s),
           prog'[s] = prog[s], query'[s] = query[s], job'[s] = job[s], reg'[s] = reg[s], outcome'[s] = outcome[s]
    PROVE  DdlAt(s)'
  <1>1. \A n : Settled(n) => Settled(n)'
    BY SameSettled
  <1>2. ASSUME NEW t, CreatesTable(s, t) PROVE CreatesTable(s, t)'
    <2>1. PICK k \in 1..8 : /\ prog[s] = From(CreateTable(t), k) /\ CreateTableAt(s, t, k)
                            /\ Sound => CreateTableSound(t, k)
      BY <1>2 DEF CreatesTable
    <2>2. CreateTableAt(s, t, k)'
      BY <2>1 DEF SameCatalog, CreateTableAt, Open
    <2>3. CreateTableSound(t, k) => CreateTableSound(t, k)'
      BY <1>1 DEF SameCatalog, CreateTableSound, MetaIs, Open, Held
    <2>4. QED
      BY <2>1, <2>2, <2>3 DEF CreatesTable
  <1>3. ASSUME NEW i, CreatesIndex(s, i) PROVE CreatesIndex(s, i)'
    <2>1. PICK k \in 1..12 : /\ prog[s] = From(CreateIndex(i), k) /\ CreateIndexAt(s, i, k)
                             /\ Sound => CreateIndexSound(i, k)
      BY <1>3 DEF CreatesIndex
    <2>2. CreateIndexAt(s, i, k)'
      BY <2>1 DEF SameCatalog, CreateIndexAt, Open, Numbered
    <2>3. CreateIndexSound(i, k) => CreateIndexSound(i, k)'
      BY <1>1 DEF SameCatalog, CreateIndexSound, MetaIs, Open, Held
    <2>4. QED
      BY <2>1, <2>2, <2>3 DEF CreatesIndex
  <1>4. ASSUME NEW i, GivesUpIndex(s, i) PROVE GivesUpIndex(s, i)'
    <2>1. PICK k \in 1..3 : /\ prog[s] = From(Duplicates(i), k) /\ DuplicateAt(s, i, k)
                            /\ Sound => DuplicateSound(i, k)
      BY <1>4 DEF GivesUpIndex
    <2>2. DuplicateAt(s, i, k)'
      BY <2>1 DEF SameCatalog, DuplicateAt, Open
    <2>3. DuplicateSound(i, k) => DuplicateSound(i, k)'
      BY <1>1 DEF SameCatalog, DuplicateSound, MetaIs, Open
    <2>4. QED
      BY <2>1, <2>2, <2>3 DEF GivesUpIndex
  <1>5. ASSUME NEW i, DropsIndex(s, i) PROVE DropsIndex(s, i)'
    <2>1. PICK k \in 1..5 : /\ prog[s] = From(DropIndex(i), k) /\ DropIndexAt(i, k)
                            /\ Sound => DropIndexSound(i, k)
      BY <1>5 DEF DropsIndex
    <2>2. DropIndexAt(i, k)'
      BY <2>1 DEF SameCatalog, DropIndexAt
    <2>3. DropIndexSound(i, k) => DropIndexSound(i, k)'
      BY <1>1 DEF SameCatalog, DropIndexSound, MetaIs, Open, Held
    <2>4. QED
      BY <2>1, <2>2, <2>3 DEF DropsIndex
  <1>6. ASSUME NEW t PROVE OthersSound(t) => OthersSound(t)'
    BY <1>1 DEF SameCatalog, OthersSound
  <1>7. ASSUME NEW t, DropsIndexes(s, t) PROVE DropsIndexes(s, t)'
    <2>1. PICK ixs \in SUBSET IndexesOf(t) : /\ prog[s] = Dropping(t, ixs) /\ IndexesLeft(t, ixs)
                                             /\ Sound => LoopSound(t, ixs)
      BY <1>7 DEF DropsIndexes
    <2>2. IndexesLeft(t, ixs)'
      BY <2>1 DEF SameCatalog, IndexesLeft
    <2>3. IndexesSound(t, ixs) => IndexesSound(t, ixs)'
      BY <1>1 DEF SameCatalog, IndexesSound
    <2>4. LoopSound(t, ixs) => LoopSound(t, ixs)'
      BY <1>1, <1>6, <2>3 DEF SameCatalog, LoopSound, MetaIs
    <2>5. QED
      BY <2>1, <2>2, <2>4 DEF DropsIndexes
  <1>8. ASSUME NEW t, DropsOne(s, t) PROVE DropsOne(s, t)'
    <2>1. PICK ixs \in SUBSET IndexesOf(t) : \E i \in IndexesOf(t) \ ixs : \E k \in 1..2 :
              /\ prog[s] = From(DestroyIndex(i), k) \o Dropping(t, ixs)
              /\ IndexesLeft(t, IF k = 1 THEN ixs \cup {i} ELSE ixs)
              /\ Sound => RoundSound(t, i, ixs, k)
      BY <1>8 DEF DropsOne
    <2>2. PICK i \in IndexesOf(t) \ ixs : \E k \in 1..2 :
              /\ prog[s] = From(DestroyIndex(i), k) \o Dropping(t, ixs)
              /\ IndexesLeft(t, IF k = 1 THEN ixs \cup {i} ELSE ixs)
              /\ Sound => RoundSound(t, i, ixs, k)
      BY <2>1
    <2>3. PICK k \in 1..2 :
              /\ prog[s] = From(DestroyIndex(i), k) \o Dropping(t, ixs)
              /\ IndexesLeft(t, IF k = 1 THEN ixs \cup {i} ELSE ixs)
              /\ Sound => RoundSound(t, i, ixs, k)
      BY <2>2
    <2>4. IndexesLeft(t, IF k = 1 THEN ixs \cup {i} ELSE ixs)'
      BY <2>3 DEF SameCatalog, IndexesLeft
    <2>5. RoundSound(t, i, ixs, k) => RoundSound(t, i, ixs, k)'
      BY <1>1, <1>6 DEF SameCatalog, RoundSound, MetaIs, Open, Held
    <2>6. QED
      BY <2>3, <2>4, <2>5 DEF DropsOne
  <1>9. ASSUME NEW t, DropsTable(s, t) PROVE DropsTable(s, t)'
    <2>1. PICK k \in 1..5 : /\ prog[s] = From(DropRest(t), k) /\ DropTableAt(t, k)
                            /\ Sound => DropTableSound(t, k)
      BY <1>9 DEF DropsTable
    <2>2. DropTableAt(t, k)'
      BY <2>1 DEF SameCatalog, DropTableAt, IndexesLeft
    <2>3. IndexesSound(t, {}) => IndexesSound(t, {})'
      BY <1>1 DEF SameCatalog, IndexesSound
    <2>4. DropTableSound(t, k) => DropTableSound(t, k)'
      BY <1>6, <2>3 DEF SameCatalog, DropTableSound, MetaIs, Open, Held
    <2>5. QED
      BY <2>1, <2>2, <2>4 DEF DropsTable
  <1>10. PICK q : q = query[s]
    OBVIOUS
  <1>11. query'[s] = q /\ outcome'[s] = "ok" /\ job'[s] = q.op
    BY <1>10 DEF DdlAt
  <1>12. Sound' => Allowed(expect'.old, q) /\ expect'.new = Effect(expect'.old, q)
    BY <1>10 DEF DdlAt, SameCatalog
  <1>13. \/ q.op = "create_table" /\ CreatesTable(s, q.name)'
         \/ q.op = "create_index" /\ (CreatesIndex(s, q.name)' \/ GivesUpIndex(s, q.name)')
         \/ q.op = "drop_index" /\ DropsIndex(s, q.name)'
         \/ q.op = "drop_table" /\ (DropsIndexes(s, q.name)' \/ DropsOne(s, q.name)' \/ DropsTable(s, q.name)')
    BY <1>2, <1>3, <1>4, <1>5, <1>7, <1>8, <1>9, <1>10 DEF DdlAt
  <1>14. QED
    BY <1>11, <1>12, <1>13 DEF DdlAt

LEMMA SameStart ==
    ASSUME SameCatalog, Sound' => Sound, StartAt, prog'["main"] = prog["main"], reg'["main"] = reg["main"]
    PROVE  StartAt'
  <1>1. \A n, cat : DiskOf(n, cat) => DiskOf(n, cat)'
    BY SameSettled
  <1>2. \A k : CreateDbSound(k) => CreateDbSound(k)'
    BY DEF SameCatalog, CreateDbSound, Fresh
  <1>3. StoredCat => StoredCat'
    BY SameSettled DEF SameCatalog, StoredCat
  <1>4. \A W : HeldBut(W) => HeldBut(W)'
    BY DEF SameCatalog, HeldBut, Held, In
  <1>5. ASSUME NEW X PROVE Loaded(X) => Loaded(X)'
    <2>1. OpenHeld(X) => OpenHeld(X)'
      BY DEF SameCatalog, OpenHeld, Open, Held
    <2>2. WellFormed(db) /\ Orphaned(db) => WellFormed(db)' /\ Orphaned(db)'
      BY SameSettled DEF SameCatalog, WellFormed, Orphaned, In
    <2>3. MetaIs("good", db) => MetaIs("good", db)'
      BY DEF SameCatalog, MetaIs
    <2>4. QED
      BY <1>1, <2>1, <2>2, <2>3 DEF SameCatalog, Loaded, DiskOf, In
  <1>6. \A W : OpeningSound(W) => OpeningSound(W)'
    BY <1>4, <1>5 DEF SameCatalog, OpeningSound, Open
  <1>7. \A S : NumberedBut(S) => NumberedBut(S)'
    BY SameSettled
  <1>8. ASSUME NEW i, NEW ixs, NEW k PROVE RebuildAt(i, ixs, k) => RebuildAt(i, ixs, k)'
    BY <1>7 DEF SameCatalog, RebuildAt, Open, Numbered
  <1>9. ASSUME NEW i, NEW k PROVE RebuildSound(i, k) => RebuildSound(i, k)'
    BY <1>4, <1>5 DEF SameCatalog, RebuildSound, Open, Taken
  <1>10. db' = db /\ path2fd' = path2fd /\ (Open("log") <=> Open("log")')
    BY DEF SameCatalog, Open
  <1>11. PICK p : p = prog["main"]
    OBVIOUS
  <1>12. CASE /\ db = NoCatalog /\ DOMAIN path2fd = {}
              /\ \/ \E k \in 1..4 : /\ p = From(CreateDb, k) \o <<Call("load_meta", "meta")>>
                                    /\ Sound => CreateDbSound(k)
                 \/ /\ p = <<Call("load_meta", "meta")>>
                    /\ Sound => StoredCat
    BY <1>2, <1>3, <1>10, <1>11, <1>12 DEF StartAt
  <1>13. CASE p = Recovering /\ (Sound => OpeningSound({}))
    <2>1. p = Recovering'
      BY <1>10, <1>13 DEF Recovering
    <2>2. QED
      BY <2>1, <1>6, <1>11, <1>13 DEF StartAt
  <1>14. CASE p = Serving1 /\ NumberedBut({}) /\ (Sound => Loaded({}) /\ HeldBut({}))
    BY <1>4, <1>5, <1>7, <1>11, <1>14 DEF StartAt
  <1>15. CASE \E ixs \in SUBSET db.ixs :
             \/ /\ p = Rebuilding(ixs)
                /\ NumberedBut(ixs)
                /\ Sound => Loaded({}) /\ HeldBut({})
             \/ \E i \in db.ixs, k \in 1..10 :
                   /\ p = From(RebuildIndex(i), k) \o Rebuilding(ixs)
                   /\ RebuildAt(i, ixs, k)
                   /\ Sound => RebuildSound(i, k)
    BY <1>4, <1>5, <1>7, <1>8, <1>9, <1>10, <1>11, <1>15 DEF StartAt
  <1>16. ASSUME NEW tabs PROVE Opening(tabs) = Opening(tabs)'
    BY <1>10 DEF Opening, Recovering
  <1>17. ASSUME NEW tabs, NEW ixs PROVE OpeningIndexes(ixs, tabs) = OpeningIndexes(ixs, tabs)'
    BY <1>16 DEF OpeningIndexes
  <1>18. ASSUME NEW tabs \in SUBSET db.tabs,
                \/ /\ p = Opening(tabs)
                   /\ Sound => OpeningSound(Of(tabs))
                \/ \E t \in db.tabs \ tabs :
                      /\ p = <<Call("open_file", t)>> \o OpeningIndexes({i \in db.ixs : TableOf[i] = t}, tabs)
                      /\ Sound => OpeningSound(Of(tabs \cup {t}))
         PROVE StartAt'
    BY <1>6, <1>10, <1>11, <1>16, <1>17, <1>18 DEF StartAt
  <1>19. ASSUME NEW tabs \in SUBSET db.tabs, NEW ixs \in SUBSET db.ixs, \A j \in ixs : TableOf[j] \notin tabs,
                p = OpeningIndexes(ixs, tabs), Sound => OpeningSound(Of(tabs) \cup ixs)
         PROVE StartAt'
    BY <1>6, <1>10, <1>11, <1>17, <1>19 DEF StartAt
  <1>20. ASSUME NEW tabs \in SUBSET db.tabs, NEW ixs \in SUBSET db.ixs, \A j \in ixs : TableOf[j] \notin tabs,
                NEW i \in db.ixs \ ixs, TableOf[i] \notin tabs,
                p = <<Call("open_index", i), Call("register", i)>> \o OpeningIndexes(ixs, tabs),
                Sound => OpeningSound(Of(tabs) \cup ixs \cup {i})
         PROVE StartAt'
    BY <1>6, <1>10, <1>11, <1>17, <1>20 DEF StartAt
  <1>21. ASSUME NEW tabs \in SUBSET db.tabs, NEW ixs \in SUBSET db.ixs, \A j \in ixs : TableOf[j] \notin tabs,
                NEW i \in db.ixs \ ixs, TableOf[i] \notin tabs,
                p = <<Call("register", i)>> \o OpeningIndexes(ixs, tabs),
                Open(i) /\ path2fd[i] = reg["main"],
                Sound => /\ Loaded({i}) /\ DiskOf(i, db) /\ ~Open("log")
                         /\ HeldBut(Of(tabs) \cup ixs \cup {i})
         PROVE StartAt'
    <2>1. Open(i)' /\ path2fd'[i] = reg'["main"]
      BY <1>10, <1>21 DEF Open
    <2>2. DiskOf(i, db) => DiskOf(i, db)'
      BY DEF SameCatalog, DiskOf, In
    <2>3. QED
      BY <2>1, <2>2, <1>4, <1>5, <1>10, <1>11, <1>17, <1>21 DEF StartAt
  <1>22. QED
    BY <1>11, <1>12, <1>13, <1>14, <1>15, <1>18, <1>19, <1>20, <1>21 DEF StartAt

LEMMA SameClose ==
    ASSUME SameCatalog, CloseAt, prog'["main"] = prog["main"]
    PROVE  CloseAt'
  <1>1. \A tabs, ixs : StillOpen(tabs, ixs) => StillOpen(tabs, ixs)'
    BY DEF SameCatalog, StillOpen, Open
  <1>2. \A cat : DiskHolds(cat) => DiskHolds(cat)'
    BY SameSettled
  <1>3. UNCHANGED <<fhs, ihs, expect, db, meta>>
    BY DEF SameCatalog
  <1>4. QED
    BY <1>1, <1>2, <1>3 DEF CloseAt, MetaIs

\* A step that is none of the catalog's, as far as the threads with calls to make can see.
Quiet ==
    /\ UNCHANGED <<dir, files, meta, db, fhs, ihs, path2fd, fd2pageno, prog, phase, broken, ended, moved>>
    /\ \A s \in Sessions : Changing(s) => /\ query'[s] = query[s] /\ job'[s] = job[s] /\ reg'[s] = reg[s]
                                          /\ outcome'[s] = outcome[s] /\ stage'[s] = "run"
    /\ reg'["main"] = reg["main"]
    /\ DOMAIN reg' = Threads /\ DOMAIN job' = Threads /\ outcome' \in [Threads -> {"ok", "failure"}]

LEMMA QuietInv ==
    ASSUME ServerInv, CatalogInv, Quiet,
           \/ History
           \/ UNCHANGED <<expect, orphans, tainted>>
    PROVE  CatalogInv'
  <1>1. /\ UNCHANGED <<dir, files, meta, db, fhs, ihs, path2fd, fd2pageno, prog, phase, broken, ended, moved>>
        /\ phase = "down" => Idle
    BY DEF Quiet, ServerInv, ProgInv, Idle, Changing
  <1>2. /\ expect' = expect /\ orphans' = orphans
        /\ tainted => tainted'
    <2>1. CASE UNCHANGED <<expect, orphans, tainted>>
      BY <2>1
    <2>2. CASE History
      <3>1. \A s \in Sessions : ~Begins(s) /\ ~Ends(s)
        BY <1>1 DEF CatalogInv, OneDdl, Begins, Ends, Changing
      <3>2. expect' = expect
        BY <1>1, <2>2, <3>1 DEF History
      <3>3. orphans' = orphans
        BY <1>1, <2>2 DEF History, Idle
      <3>4. QED
        BY <2>2, <3>2, <3>3 DEF History
    <2>3. QED
      BY <2>1, <2>2
  <1>3. SameCatalog /\ (Sound' => Sound)
    BY <1>1, <1>2 DEF SameCatalog, Sound
  <1>4. MoreTypes'
    BY <1>1, <1>2 DEF CatalogInv, MoreTypes, Quiet
  <1>5. OneDdl' /\ OnDisk'
    BY <1>1, <1>3, SameSettled DEF CatalogInv, OneDdl, Quiet, Changing
  <1>6. /\ phase' \in {"starting", "up"} => HandlesKnown'
        /\ phase' = "up" => NumberedBut({})'
        /\ phase' = "down" => Gone'
    BY <1>1, <1>3, SameSettled DEF CatalogInv, Gone
  <1>7. ASSUME phase' = "up", NEW s \in Sessions, Changing(s)' PROVE DdlAt(s)'
    <2>1. Changing(s) /\ DdlAt(s) /\ prog'[s] = prog[s]
      BY <1>1, <1>7 DEF CatalogInv, Changing
    <2>2. QED
      BY <2>1, <1>3, SameDdl DEF Quiet
  <1>8. phase' = "starting" => StartAt'
    BY <1>1, <1>3, SameStart DEF CatalogInv, Quiet
  <1>9. Idle' <=> Idle
    BY <1>1 DEF Idle, Changing
  <1>10. Sound' => /\ phase' = "down" => DownSound'
                   /\ phase' = "closing" => IF Idle' THEN CloseAt' ELSE Restarts'
    <2>1. Restarts => Restarts'
      <3>1. ASSUME NEW th, NEW op, NEW names PROVE Pending(th, op, names) <=> Pending(th, op, names)'
        BY <1>1 DEF Pending
      <3>2. ASSUME NEW s \in Sessions, job[s] \in {"drop_table", "drop_index"}, Pending(s, "write_meta", {"meta"})
            PROVE job'[s] = job[s]
        <4>1. Changing(s)
          BY <3>2 DEF Pending, Changing
        <4>2. QED
          BY <4>1 DEF Quiet
      <3>3. QED
        BY <1>1, <1>2, <3>1, <3>2 DEF Restarts
    <2>2. (DownSound => DownSound') /\ (CloseAt => CloseAt')
      BY <1>1, <1>3, SameSettled, SameClose
    <2>3. QED
      BY <1>1, <1>3, <1>9, <2>1, <2>2 DEF CatalogInv
  <1>11. Sound' /\ phase' = "up" =>
            /\ dir' /\ files'["log"] # "none" /\ WellFormed(expect.old)' /\ Orphaned(expect.old)'
            /\ Idle' => IdleSound'
    <2>1. SUFFICES ASSUME Sound', phase' = "up"
                   PROVE /\ dir' /\ files'["log"] # "none" /\ WellFormed(expect.old)' /\ Orphaned(expect.old)'
                         /\ Idle' => IdleSound'
      OBVIOUS
    <2>2. /\ dir /\ files["log"] # "none" /\ WellFormed(expect.old) /\ Orphaned(expect.old)
          /\ Idle => IdleSound
      BY <1>1, <1>3, <2>1 DEF CatalogInv
    <2>3. WellFormed(expect.old)' /\ Orphaned(expect.old)'
      BY <2>2, <1>1, <1>2 DEF WellFormed, Orphaned, In
    <2>4. QED
      BY <2>2, <2>3, <1>1, <1>3, <1>9, SameSettled
  <1>12. ended' = "failed" => ~Sound'
    BY <1>1, <1>3 DEF CatalogInv
  <1>13. QED
    BY <1>4, <1>5, <1>6, <1>7, <1>8, <1>10, <1>11, <1>12 DEF CatalogInv

LEMMA QuietSteps ==
    ASSUME ServerInv, CatalogInv, History,
           \/ \E c \in Clients : Connect(c) \/ Leave(c) \/ \E s \in Statements : Send(c, s)
           \/ AcceptLock \/ Accept \/ AcceptError
           \/ \E s \in Sessions :
                 \/ Spawn(s) \/ HandlerStart(s) \/ Read(s) \/ EndSession(s)
                 \/ Parse(s) \/ Analyze(s) \/ Answer(s)
    PROVE  CatalogInv'
  <1>1. /\ \A s \in Sessions : Changing(s) => stage[s] = "run"
        /\ DOMAIN reg = Threads /\ DOMAIN job = Threads /\ outcome \in [Threads -> {"ok", "failure"}]
        /\ DOMAIN stage = Sessions /\ DOMAIN query = Sessions
        /\ Sessions \subseteq Threads /\ "main" \in Threads /\ "main" \notin Sessions
    BY NamesApart DEF CatalogInv, OneDdl, MoreTypes, ServerInv, SocketInv, ParseInv, Threads
  <1>2. CASE UNCHANGED <<catalogVars, handlerVars>>
    <2>1. Quiet
      BY <1>1, <1>2 DEF Quiet, catalogVars, handlerVars
    <2>2. QED
      BY <2>1, QuietInv
  <1>3. ASSUME NEW c \in Clients, Connect(c) \/ Leave(c) \/ \E s \in Statements : Send(c, s) PROVE CatalogInv'
    BY <1>2, <1>3 DEF Connect, Leave, Send
  <1>4. CASE AcceptLock \/ AcceptError
    BY <1>2, <1>4 DEF AcceptLock, AcceptError
  <1>5. CASE Accept
    <2>1. Quiet
      BY <1>1, <1>5 DEF Accept, Quiet, handleVars, handlerVars, historyVars
    <2>2. QED
      BY <2>1, QuietInv
  <1>6. ASSUME NEW s \in Sessions, UNCHANGED catalogVars, stage[s] # "run",
               \A r \in Sessions \ {s} : stage'[r] = stage[r] /\ query'[r] = query[r]
        PROVE CatalogInv'
    <2>1. Quiet
      BY <1>1, <1>6 DEF Quiet, catalogVars
    <2>2. QED
      BY <2>1, QuietInv
  <1>7. ASSUME NEW s \in Sessions, Spawn(s) \/ HandlerStart(s) \/ Read(s) \/ Parse(s) PROVE CatalogInv'
    <2>1. UNCHANGED <<catalogVars, query>> /\ stage[s] # "run" /\ \E v : stage' = [stage EXCEPT ![s] = v]
      BY <1>7 DEF Spawn, HandlerStart, Read, Parse
    <2>2. \A r \in Sessions \ {s} : stage'[r] = stage[r] /\ query'[r] = query[r]
      BY <2>1, <1>1
    <2>3. QED
      BY <2>1, <2>2, <1>6
  <1>8. ASSUME NEW s \in Sessions, Analyze(s) PROVE CatalogInv'
    <2>1. UNCHANGED catalogVars /\ stage[s] # "run" /\ (\E v : stage' = [stage EXCEPT ![s] = v])
          /\ \E v : query' = [query EXCEPT ![s] = v]
      BY <1>8 DEF Analyze
    <2>2. \A r \in Sessions \ {s} : stage'[r] = stage[r] /\ query'[r] = query[r]
      BY <2>1, <1>1
    <2>3. QED
      BY <2>1, <2>2, <1>6
  <1>9. ASSUME NEW s \in Sessions, EndSession(s) PROVE CatalogInv'
    <2>1. /\ stage[s] # "run" /\ stage' = [stage EXCEPT ![s] = "free"]
          /\ UNCHANGED <<dir, files, meta, db, fhs, ihs, path2fd, fd2pageno, prog, job, reg, outcome, phase, broken,
                         ended, moved, query>>
      BY <1>9 DEF EndSession, handleVars, historyVars
    <2>2. Quiet
      BY <1>1, <2>1 DEF Quiet
    <2>3. QED
      BY <2>2, QuietInv
  <1>10. ASSUME NEW s \in Sessions, Answer(s) PROVE CatalogInv'
    <2>1. /\ ~Changing(s) /\ stage' = [stage EXCEPT ![s] = "reading"] /\ query' = [query EXCEPT ![s] = NoStatement]
          /\ job' = [job EXCEPT ![s] = "none"] /\ outcome' = [outcome EXCEPT ![s] = "ok"]
          /\ reg' = [reg EXCEPT ![s] = 0]
          /\ UNCHANGED <<dir, files, meta, db, fhs, ihs, path2fd, fd2pageno, prog, phase, broken, ended, moved>>
      BY <1>1, <1>10 DEF Answer, handleVars, historyVars
    <2>2. \A r \in Sessions : Changing(r) => r # s /\ /\ stage'[r] = "run" /\ query'[r] = query[r]
                                                     /\ job'[r] = job[r] /\ outcome'[r] = outcome[r]
                                                     /\ reg'[r] = reg[r]
      BY <1>1, <2>1
    <2>3. reg'["main"] = reg["main"]
      BY <1>1, <2>1
    <2>4. DOMAIN reg' = Threads /\ DOMAIN job' = Threads /\ outcome' \in [Threads -> {"ok", "failure"}]
      BY <1>1, <2>1
    <2>5. Quiet
      BY <2>1, <2>2, <2>3, <2>4 DEF Quiet
    <2>6. QED
      BY <2>5, QuietInv
  <1>11. QED
    BY <1>3, <1>4, <1>5, <1>7, <1>8, <1>9, <1>10

-----------------------------------------------------------------------------
\* The calls of a statement

\* A session makes a call of its statement while the server is up.
Context(s) ==
    /\ ServerInv /\ MoreTypes /\ HandlesKnown /\ NumberedBut({}) /\ OnDisk
    /\ CatalogStep(s) /\ Goes(s) /\ Settles(s) /\ phase = "up" /\ phase' = "up"
    /\ Changing(s) /\ DdlAt(s) /\ query[s] \in Ddl /\ (Sound' <=> Sound)
    /\ Sound => WellFormed(expect.old) /\ Orphaned(expect.old)

Creates(q) == q.op \in {"create_table", "create_index"}
\* No file can be created for n, or none that goes with its key.
Barred(n) == n \in TooLong \/ InTheWay(n, expect.old)
Forbidden(s) == (Creates(query[s]) /\ Barred(query[s].name)) \/ Calls(s, {"duplicate"})

\* What is true after the call: the statement goes on, or it is over, with what it promised.
After(s) ==
    /\ HandlesKnown' /\ NumberedBut({})' /\ dir' = dir /\ files'["log"] = files["log"]
    /\ Sound => \A n \in orphans : files'[n] # "none"
    /\ prog'[s] # <<>> => DdlAt(s)'
    /\ Sound /\ prog'[s] = <<>> =>
          /\ db' = IF outcome'[s] = "ok" THEN expect.new ELSE expect.old
          /\ meta' = [state |-> "good", cat |-> db']
          /\ \A n \in Names : Settled(n)'
          /\ outcome'[s] = "failure" <=> Forbidden(s)

LEMMA ContextHolds ==
    ASSUME ServerInv, CatalogInv, NEW s \in Sessions, Step(s), History, phase = "up", phase' # "down"
    PROVE  Context(s)
  <1>1. MoreTypes /\ OneDdl /\ OnDisk /\ HandlesKnown /\ NumberedBut({})
    BY DEF CatalogInv
  <1>2. s \in Threads
    BY DEF Threads
  <1>3. CatalogStep(s) /\ Changing(s)
    BY TheStep DEF Step, Changing
  <1>4. Goes(s) /\ Settles(s) /\ phase' = "up"
    BY <1>1, <1>2, StepKeeps
  <1>5. DdlAt(s) /\ query[s] \in Ddl
    BY <1>1, <1>3, DdlQuery DEF CatalogInv
  <1>6. Sound' <=> Sound
    BY <1>4 DEF Goes, Sound
  <1>7. Sound => WellFormed(expect.old) /\ Orphaned(expect.old)
    BY DEF CatalogInv
  <1>8. QED
    BY <1>1, <1>3, <1>4, <1>5, <1>6, <1>7 DEF Context

LEMMA Advance ==
    ASSUME ServerInv, NEW th \in Threads, NEW p, NEW n \in Nat, Walks(p, n), NEW k \in 1..n, prog[th] = From(p, k)
    PROVE  /\ Head(prog[th]) = p[k]
           /\ Next1(th) => prog'[th] = From(p, k + 1)
           /\ k < n => From(p, k + 1) # <<>>
           /\ k = n => From(p, k + 1) = <<>>
  <1>1. DOMAIN prog = Threads
    BY DEF ServerInv, ProgInv
  <1>2. Head(From(p, k)) = p[k] /\ Tail(From(p, k)) = From(p, k + 1)
    BY DEF Walks
  <1>3. k < n => k + 1 \in 1..n
    OBVIOUS
  <1>4. (k < n => From(p, k + 1) # <<>>) /\ (k = n => From(p, k + 1) = <<>>)
    BY <1>3 DEF Walks
  <1>5. Next1(th) => prog'[th] = From(p, k + 1)
    BY <1>1, <1>2 DEF Next1
  <1>6. QED
    BY <1>2, <1>4, <1>5

\* The statement goes on.
LEMMA AfterGoesOn ==
    ASSUME NEW s \in Sessions, Context(s), prog'[s] # <<>>, outcome' = outcome,
           HandlesKnown', NumberedBut({})', dir' = dir, files'["log"] = files["log"],
           Sound => \A n \in orphans : files'[n] # "none",
           NEW q, q = query[s],
           \/ q.op = "create_table" /\ CreatesTable(s, q.name)'
           \/ q.op = "create_index" /\ (CreatesIndex(s, q.name)' \/ GivesUpIndex(s, q.name)')
           \/ q.op = "drop_index" /\ DropsIndex(s, q.name)'
           \/ q.op = "drop_table" /\ (DropsIndexes(s, q.name)' \/ DropsOne(s, q.name)' \/ DropsTable(s, q.name)')
    PROVE  After(s)
  <1>1. expect' = expect /\ query' = query /\ job' = job /\ (Sound' <=> Sound) /\ DdlAt(s)
    BY DEF Context, Settles, Goes
  <1>2. query'[s] = q /\ outcome'[s] = "ok" /\ job'[s] = q.op
    BY <1>1 DEF DdlAt
  <1>3. Sound' => Allowed(expect'.old, q) /\ expect'.new = Effect(expect'.old, q)
    BY <1>1 DEF DdlAt
  <1>4. DdlAt(s)'
    BY <1>2, <1>3 DEF DdlAt
  <1>5. QED
    BY <1>4 DEF After

\* The statement fails, and leaves everything as it was.
LEMMA AfterThrow ==
    ASSUME NEW s \in Sessions, Context(s), Throw(s),
           Sound => /\ db = expect.old /\ MetaIs("good", expect.old)
                    /\ \A n \in Names : Settled(n)
                    /\ Forbidden(s)
    PROVE  After(s)
  <1>1. /\ prog' = [prog EXCEPT ![s] = <<>>]
        /\ outcome' = [outcome EXCEPT ![s] = "failure"]
        /\ UNCHANGED <<dir, files, meta, db, fhs, ihs, path2fd, fd2pageno, moved>>
    BY Thrown
  <1>2. s \in Threads /\ DOMAIN prog = Threads /\ DOMAIN outcome = Threads /\ orphans' = orphans
    BY DEF Context, ServerInv, ProgInv, MoreTypes, Threads, Goes
  <1>3. prog'[s] = <<>> /\ outcome'[s] = "failure"
    BY <1>1, <1>2
  <1>4. HandlesKnown' /\ NumberedBut({})'
    BY <1>1 DEF Context, HandlesKnown, NumberedBut, Numbered, Open
  <1>5. \A n : Settled(n) => Settled(n)'
    BY <1>1, <1>2 DEF Settled, DiskOf, In, Open, Held
  <1>6. Sound => \A n \in orphans : files'[n] # "none"
    BY <1>1 DEF Context, Orphaned
  <1>7. Sound => meta' = [state |-> "good", cat |-> db'] /\ db' = expect.old
    BY <1>1 DEF MetaIs
  <1>8. QED
    BY <1>1, <1>3, <1>4, <1>5, <1>6, <1>7 DEF After

\* Nothing is claimed after a shutdown beside a statement.
LEMMA AfterUnsound ==
    ASSUME NEW s, ~Sound, prog'[s] = <<>>, HandlesKnown', NumberedBut({})', dir' = dir, files'["log"] = files["log"]
    PROVE  After(s)
BY DEF After

\* A name that is left behind, or whose key is too long, is barred.
LEMMA LeftBehind ==
    ASSUME NEW n, n \in orphans \cup TooLong PROVE Barred(n)
  <1>1. n \in SameFile(n)
    BY DEF SameFile
  <1>2. QED
    BY <1>1 DEF Barred, InTheWay

\* What keeps a file from being created is known to the catalog, or was left behind.
LEMMA TakenBars ==
    ASSUME NEW n \in Names, Taken(n), \A p \in Names : Settled(p), db = expect.old
    PROVE  Barred(n)
  <1>1. PICK p \in SameFile(n) : files[p] # "none"
    BY DEF Taken
  <1>2. p \in Names
    BY DEF SameFile, Names
  <1>3. In(p, expect.old) \/ p \in orphans \cup TooLong
    BY <1>1, <1>2 DEF Settled, DiskOf
  <1>4. QED
    BY <1>1, <1>3 DEF Barred, InTheWay, In

\* Once the file of n is there, no file of that name is in its way.
LEMMA NotBarred ==
    ASSUME OneFile, Orphaned(expect.old), NEW n \in Names, files[n] # "none", n \notin orphans \cup TooLong,
           ~In(n, expect.old), \A p \in Names \ {n} : Settled(p),
           \A p : In(p, expect.old) => In(p, db)
    PROVE  ~Barred(n)
  <1>0. SUFFICES ASSUME InTheWay(n, expect.old) PROVE FALSE
    BY DEF Barred
  <1>1. PICK p \in SameFile(n) :
             In(p, expect.old) \/ p \in orphans \/ (p \in TooLong /\ files[p] # "none")
    BY <1>0 DEF InTheWay, In
  <1>2. p # n
    BY <1>1
  <1>3. n \in IndexNames /\ p \in Names
    BY <1>2 DEF SameFile, Names
  <1>4. files[p] = "none"
    BY <1>2, <1>3 DEF OneFile
  <1>5. ~In(p, expect.old)
    BY <1>2, <1>3, <1>4 DEF Settled, DiskOf
  <1>6. QED
    BY <1>1, <1>4, <1>5 DEF Orphaned

\* The statement is over.
LEMMA AfterEnd ==
    ASSUME NEW s \in Sessions, Context(s), Head(prog[s]) = Call("write_meta", "meta"), prog'[s] = <<>>,
           Sound => db = expect.new /\ \A n \in Names : Settled(n),
           Sound => ~(Creates(query[s]) /\ Barred(query[s].name))
    PROVE  After(s)
  <1>1. /\ meta' = [state |-> "good", cat |-> db]
        /\ UNCHANGED <<dir, files, db, fhs, ihs, path2fd, fd2pageno, outcome, moved>>
    BY DoWriteMeta DEF Context
  <1>2. outcome'[s] = "ok" /\ orphans' = orphans
    BY <1>1 DEF Context, DdlAt, Goes
  <1>3. ~Calls(s, {"duplicate"})
    BY CallFields DEF Calls
  <1>4. HandlesKnown' /\ NumberedBut({})'
    BY <1>1 DEF Context, HandlesKnown, NumberedBut, Numbered, Open
  <1>5. \A n : Settled(n) => Settled(n)'
    BY <1>1, <1>2 DEF Settled, DiskOf, In, Open, Held
  <1>6. Sound => \A n \in orphans : files'[n] # "none"
    BY <1>1 DEF Context, Orphaned
  <1>7. QED
    BY <1>1, <1>2, <1>3, <1>4, <1>5, <1>6 DEF After, Forbidden

\* CREATE TABLE
LEMMA CreateTableGoesOn ==
    ASSUME NEW s \in Sessions, Context(s),
           NEW t, t = query[s].name, query[s].op = "create_table", CreatesTable(s, t)
    PROVE  After(s)
  <1>1. /\ ServerInv /\ MoreTypes /\ HandlesKnown /\ NumberedBut({}) /\ CatalogStep(s) /\ orphans' = orphans
        /\ s \in Threads /\ files \in [Paths -> {"none", "empty", "ready"}]
        /\ outcome[s] = "ok" /\ (Sound' <=> Sound)
    BY DEF Context, ServerInv, TypeInv, Goes, Threads, DdlAt
  <1>2. /\ t \in TableNames /\ t \in Paths /\ t \in Names /\ t \notin IndexNames /\ t \notin TooLong
        /\ t # "log" /\ "log" \in Paths /\ Names \subseteq Paths /\ "log" \notin Names
    BY CatalogAssumption DEF Context, Ddl, Paths, Names
  <1>3. PICK k \in 1..8 : /\ prog[s] = From(CreateTable(t), k) /\ CreateTableAt(s, t, k)
                          /\ Sound => CreateTableSound(t, k)
    BY DEF CreatesTable
  <1>4. PICK p : p = CreateTable(t)
    OBVIOUS
  <1>5. /\ Walks(p, 8)
        /\ p[1] = Call("create", t) /\ p[2] = Call("open", t)
        /\ p[3] = Call("header", t) /\ p[4] = Call("close", t)
        /\ p[5] = Call("add_table", t) /\ p[6] = Call("open_file", t)
        /\ p[7] = Call("truncate", "meta") /\ p[8] = Call("write_meta", "meta")
    BY <1>2, <1>4, CreateTableCalls
  <1>6. /\ Head(prog[s]) = p[k]
        /\ Next1(s) => prog'[s] = From(p, k + 1)
        /\ k < 8 => From(p, k + 1) # <<>>
        /\ k = 8 => From(p, k + 1) = <<>>
    BY <1>1, <1>3, <1>4, <1>5, Advance
  <1>7. ASSUME Next1(s), k < 8 PROVE prog'[s] # <<>> /\ expect' = expect
    BY <1>6, <1>7 DEF Context, Settles
  <1>8. ASSUME Next1(s), k < 8, outcome' = outcome, HandlesKnown', NumberedBut({})', dir' = dir,
               files'["log"] = files["log"], Sound => \A n \in orphans : files'[n] # "none",
               CreateTableAt(s, t, k + 1)', Sound => CreateTableSound(t, k + 1)'
        PROVE After(s)
    <2>1. k + 1 \in 1..8 /\ prog'[s] = From(CreateTable(t), k + 1)
      BY <1>4, <1>6, <1>8
    <2>2. CreatesTable(s, t)'
      BY <2>1, <1>1, <1>8 DEF CreatesTable
    <2>3. QED
      BY <2>2, <1>7, <1>8, AfterGoesOn
  <1>9. ASSUME Sound
        PROVE /\ CreateTableSound(t, k) /\ Orphaned(expect.old) /\ ~In(t, expect.old)
              /\ expect.new = [expect.old EXCEPT !.tabs = @ \cup {t}]
              /\ \A n : In(n, expect.new) <=> In(n, expect.old) \/ n = t
              /\ t \in expect.new.tabs
    <2>1. Allowed(expect.old, query[s]) /\ expect.new = Effect(expect.old, query[s]) /\ expect.old \in Catalogs
      BY <1>9 DEF Context, DdlAt, MoreTypes
    <2>2. expect.new = [expect.old EXCEPT !.tabs = @ \cup {t}]
      BY <2>1 DEF Effect
    <2>3. t \in expect.new.tabs
      BY <2>1, <2>2 DEF Catalogs
    <2>4. ~In(t, expect.old) /\ \A n : In(n, expect.new) <=> In(n, expect.old) \/ n = t
      BY <2>1, EffectNames DEF Context
    <2>5. QED
      BY <1>3, <1>9, <2>2, <2>3, <2>4 DEF Context
  <1>10. ASSUME Sound, \A n \in Names \ {t} : SameName(n) PROVE \A n \in Names \ {t} : Settled(n)'
    BY <1>1, <1>9, <1>10, StaysSettled DEF CreateTableSound
  <1>11. ASSUME \A n \in Paths \ {t} : files'[n] = files[n], Sound => t \notin orphans
         PROVE Sound => \A n \in orphans : files'[n] # "none"
    BY <1>2, <1>9, <1>11 DEF Orphaned, Context, MoreTypes
  <1>20. CASE k = 1
    <2>1. CASE Taken(t) /\ Throw(s)
      <3>1. ASSUME Sound PROVE db = expect.old /\ MetaIs("good", expect.old) /\ \A n \in Names : Settled(n)
        BY <1>2, <1>9, <1>20, <3>1 DEF CreateTableSound
      <3>2. ASSUME Sound PROVE Forbidden(s)
        BY <1>2, <2>1, <3>1, <3>2, TakenBars DEF Forbidden, Creates
      <3>3. QED
        BY <2>1, <3>1, <3>2, AfterThrow
    <2>2. CASE /\ files[t] = "none" /\ Next1(s)
               /\ files'[t] = "empty" /\ \A n \in Paths \ {t} : files'[n] = files[n]
               /\ UNCHANGED <<dir, meta, db, fhs, ihs, path2fd, fd2pageno, job, reg, outcome, phase, kernel, broken,
                              ended, moved>>
      <3>1. HandlesKnown' /\ NumberedBut({})'
        BY <1>1, <2>2 DEF HandlesKnown, NumberedBut, Numbered, Open
      <3>2. CreateTableAt(s, t, k + 1)'
        BY <1>3, <1>20, <2>2 DEF CreateTableAt
      <3>3. Sound => t \notin orphans
        BY <1>9, <2>2 DEF Orphaned
      <3>4. \A n \in Names \ {t} : SameName(n)
        BY <1>2, <2>2 DEF SameName, In, Open, Held
      <3>5. Sound => CreateTableSound(t, k + 1)'
        <4>1. SUFFICES ASSUME Sound PROVE CreateTableSound(t, 2)'
          BY <1>20
        <4>2. expect' = expect
          BY <1>7, <1>20, <2>2
        <4>3. CreateTableSound(t, 1) /\ \A n \in Names \ {t} : Settled(n)'
          BY <4>1, <1>9, <1>10, <1>20, <3>4
        <4>4. QED
          BY <1>1, <4>1, <4>2, <4>3, <2>2, <3>3 DEF CreateTableSound, MetaIs, Open
      <3>6. QED
        BY <1>2, <1>8, <1>11, <1>20, <2>2, <3>1, <3>2, <3>3, <3>5
    <2>3. QED
      BY <1>1, <1>2, <1>5, <1>6, <1>20, <2>1, <2>2, DoCreate
  <1>21. CASE k = 2
    <2>1. \/ Throw(s) /\ (files[t] = "none" \/ Open(t))
          \/ Next1(s) /\ outcome' = outcome /\ OpenedAs(s, "open", t)
      BY <1>1, <1>2, <1>5, <1>6, <1>21, DoOpen
    <2>2. Sound => files[t] = "empty" /\ ~Open(t)
      BY <1>9, <1>21 DEF CreateTableSound
    <2>3. CASE Throw(s) /\ (files[t] = "none" \/ Open(t))
      BY <2>2, <2>3, AfterThrow
    <2>4. CASE Next1(s) /\ outcome' = outcome /\ OpenedAs(s, "open", t)
      <3>1. HandlesKnown' /\ NumberedBut({})' /\ dir' = dir /\ files' = files
        BY <1>1, <2>4 DEF OpenedAs
      <3>2. CreateTableAt(s, t, k + 1)'
        BY <1>3, <1>21, <2>4 DEF CreateTableAt, OpenedAs, Open
      <3>3. Sound => CreateTableSound(t, k + 1)'
        <4>1. SUFFICES ASSUME Sound PROVE CreateTableSound(t, 3)'
          BY <1>21
        <4>2. expect' = expect
          BY <1>7, <1>21, <2>4
        <4>3. \A n \in Names \ {t} : SameName(n)
          BY <2>4 DEF SameName, In, Open, Held, OpenedAs
        <4>4. CreateTableSound(t, 2) /\ \A n \in Names \ {t} : Settled(n)'
          BY <4>1, <4>3, <1>9, <1>10, <1>21
        <4>5. QED
          BY <1>1, <4>1, <4>2, <4>4, <2>4 DEF CreateTableSound, MetaIs, Open, OpenedAs
      <3>4. Sound => t \notin orphans
        BY <1>9, <1>21 DEF CreateTableSound
      <3>5. QED
        BY <1>8, <1>11, <1>21, <2>4, <3>1, <3>2, <3>3, <3>4
    <2>5. QED
      BY <2>1, <2>3, <2>4
  <1>22. CASE k = 3
    <2>1. /\ Next1(s)
          /\ files'[t] = "ready" /\ \A n \in Paths \ {t} : files'[n] = files[n]
          /\ UNCHANGED <<dir, meta, db, fhs, ihs, path2fd, fd2pageno, job, reg, outcome, phase, kernel, broken,
                         ended, moved>>
      <3>1. files[t] # "none"
        BY <1>3, <1>22 DEF CreateTableAt, Context, OnDisk, Open
      <3>2. QED
        BY <1>1, <1>2, <1>5, <1>6, <1>22, <3>1, DoHeader
    <2>2. HandlesKnown' /\ NumberedBut({})'
      BY <1>1, <2>1 DEF HandlesKnown, NumberedBut, Numbered, Open
    <2>3. CreateTableAt(s, t, k + 1)'
      BY <1>3, <1>22, <2>1 DEF CreateTableAt, Open
    <2>4. Sound => t \notin orphans
      BY <1>9, <1>22 DEF CreateTableSound
    <2>5. Sound => CreateTableSound(t, k + 1)'
      <3>1. SUFFICES ASSUME Sound PROVE CreateTableSound(t, 4)'
        BY <1>22
      <3>2. expect' = expect
        BY <1>7, <1>22, <2>1
      <3>3. \A n \in Names \ {t} : SameName(n)
        BY <1>2, <2>1 DEF SameName, In, Open, Held
      <3>4. CreateTableSound(t, 3) /\ \A n \in Names \ {t} : Settled(n)'
        BY <3>1, <3>3, <1>9, <1>10, <1>22
      <3>5. QED
        BY <1>1, <3>1, <3>2, <3>4, <2>1 DEF CreateTableSound, MetaIs, Open
    <2>6. QED
      BY <1>2, <1>8, <1>11, <1>22, <2>1, <2>2, <2>3, <2>4, <2>5
  <1>23. CASE k = 4
    <2>1. Open(t) /\ path2fd[t] = reg[s] /\ t \notin DOMAIN fhs \cup DOMAIN ihs
      BY <1>1, <1>2, <1>3, <1>23 DEF CreateTableAt, ServerInv, TypeInv
    <2>2. /\ Next1(s)
          /\ DOMAIN path2fd' = DOMAIN path2fd \ {t} /\ \A n \in DOMAIN path2fd' : path2fd'[n] = path2fd[n]
          /\ HandlesKnown' /\ NumberedBut({})'
          /\ UNCHANGED <<dir, files, meta, db, fhs, ihs, fd2pageno, job, reg, outcome, phase, broken, ended, moved>>
      BY <1>1, <1>2, <1>5, <1>6, <1>23, <2>1, DoClose
    <2>3. CreateTableAt(s, t, k + 1)'
      BY <1>3, <1>23, <2>2 DEF CreateTableAt
    <2>4. Sound => t \notin orphans
      BY <1>9, <1>23 DEF CreateTableSound
    <2>5. Sound => CreateTableSound(t, k + 1)'
      <3>1. SUFFICES ASSUME Sound PROVE CreateTableSound(t, 5)'
        BY <1>23
      <3>2. expect' = expect
        BY <1>7, <1>23, <2>2
      <3>3. \A n \in Names \ {t} : SameName(n)
        BY <2>2 DEF SameName, In, Open, Held
      <3>4. CreateTableSound(t, 4) /\ \A n \in Names \ {t} : Settled(n)'
        BY <3>1, <3>3, <1>9, <1>10, <1>23
      <3>5. QED
        BY <1>1, <3>1, <3>2, <3>4, <2>2 DEF CreateTableSound, MetaIs, Open
    <2>6. QED
      BY <1>8, <1>11, <1>23, <2>2, <2>3, <2>4, <2>5
  <1>24. CASE k = 5
    <2>1. /\ Next1(s) /\ db' = [db EXCEPT !.tabs = @ \cup {t}]
          /\ UNCHANGED <<dir, files, meta, fhs, ihs, path2fd, fd2pageno, job, reg, outcome, phase, kernel, broken,
                         ended, moved>>
      <3>1. Head(prog[s]) = Call("add_table", t)
        BY <1>5, <1>6, <1>24
      <3>2. QED
        BY <1>1, <3>1, DoChange
    <2>2. db'.tabs = db.tabs \cup {t} /\ db'.ixs = db.ixs
      BY <1>1, <2>1 DEF ServerInv, TypeInv, Catalogs
    <2>3. HandlesKnown' /\ NumberedBut({})'
      BY <1>1, <2>1, <2>2 DEF HandlesKnown, NumberedBut, Numbered, Open
    <2>4. CreateTableAt(s, t, k + 1)'
      BY <1>24, <2>2 DEF CreateTableAt
    <2>5. Sound => t \notin orphans
      BY <1>9, <1>24 DEF CreateTableSound
    <2>6. Sound => CreateTableSound(t, k + 1)'
      <3>1. SUFFICES ASSUME Sound PROVE CreateTableSound(t, 6)'
        BY <1>24
      <3>2. expect' = expect
        BY <1>7, <1>24, <2>1
      <3>3. \A n \in Names \ {t} : SameName(n)
        BY <2>1, <2>2 DEF SameName, In, Open, Held
      <3>4. CreateTableSound(t, 5) /\ \A n \in Names \ {t} : Settled(n)'
        BY <3>1, <3>3, <1>9, <1>10, <1>24
      <3>5. db' = expect.new
        BY <3>1, <3>4, <1>9, <2>1 DEF CreateTableSound
      <3>6. QED
        BY <1>1, <3>1, <3>2, <3>4, <3>5, <2>1 DEF CreateTableSound, MetaIs, Open
    <2>7. QED
      BY <1>8, <1>11, <1>24, <2>1, <2>3, <2>4, <2>5, <2>6
  <1>25. CASE k = 6
    <2>1. t \in db.tabs
      BY <1>3, <1>25 DEF CreateTableAt
    <2>2. Sound => files[t] = "ready" /\ ~Open(t) /\ t \notin orphans
      BY <1>9, <1>25 DEF CreateTableSound
    <2>3. \/ Throw(s) /\ (files[t] = "none" \/ Open(t))
          \/ /\ files[t] = "empty" /\ prog' = [prog EXCEPT ![s] = <<>>]
             /\ OpenedAs(s, "open", t)
          \/ Next1(s) /\ outcome' = outcome /\ OpenedAs(s, "open_file", t)
      BY <1>1, <1>2, <1>5, <1>6, <1>25, NamesApart, DoOpen
    <2>4. CASE Throw(s) /\ (files[t] = "none" \/ Open(t))
      BY <2>2, <2>4, AfterThrow
    <2>5. CASE files[t] = "empty" /\ prog' = [prog EXCEPT ![s] = <<>>] /\ OpenedAs(s, "open", t)
      <3>1. HandlesKnown' /\ NumberedBut({})' /\ dir' = dir /\ files' = files
        BY <1>1, <2>5 DEF OpenedAs
      <3>2. prog'[s] = <<>>
        BY <1>1, <2>5 DEF ServerInv, ProgInv
      <3>3. QED
        BY <2>2, <2>5, <3>1, <3>2, AfterUnsound
    <2>6. CASE Next1(s) /\ outcome' = outcome /\ OpenedAs(s, "open_file", t)
      <3>1. HandlesKnown' /\ NumberedBut({})' /\ dir' = dir /\ files' = files
        BY <1>1, <2>1, <2>6 DEF OpenedAs
      <3>2. CreateTableAt(s, t, k + 1)'
        BY <1>25 DEF CreateTableAt
      <3>3. Sound => CreateTableSound(t, k + 1)'
        <4>1. SUFFICES ASSUME Sound PROVE CreateTableSound(t, 7)'
          BY <1>25
        <4>2. expect' = expect
          BY <1>7, <1>25, <2>6
        <4>3. \A n \in Names \ {t} : SameName(n)
          BY <2>6 DEF SameName, In, Open, Held, OpenedAs
        <4>4. CreateTableSound(t, 6) /\ \A n \in Names \ {t} : Settled(n)'
          BY <4>1, <4>3, <1>9, <1>10, <1>25
        <4>5. QED
          BY <1>1, <4>1, <4>2, <4>4, <2>6 DEF CreateTableSound, MetaIs, Open, Held, OpenedAs
      <3>4. QED
        BY <1>8, <1>11, <1>25, <2>2, <2>6, <3>1, <3>2, <3>3
    <2>7. QED
      BY <2>3, <2>4, <2>5, <2>6
  <1>26. CASE k = 7
    <2>1. /\ Next1(s) /\ meta' = [meta EXCEPT !.state = "torn"]
          /\ UNCHANGED <<dir, files, db, fhs, ihs, path2fd, fd2pageno, job, reg, outcome, phase, kernel, broken,
                         ended, moved>>
      BY <1>1, <1>5, <1>6, <1>26, DoTruncate
    <2>2. HandlesKnown' /\ NumberedBut({})'
      BY <1>1, <2>1 DEF HandlesKnown, NumberedBut, Numbered, Open
    <2>3. CreateTableAt(s, t, k + 1)'
      BY <1>26 DEF CreateTableAt
    <2>4. Sound => t \notin orphans
      BY <1>9, <1>26 DEF CreateTableSound
    <2>5. Sound => CreateTableSound(t, k + 1)'
      <3>1. SUFFICES ASSUME Sound PROVE CreateTableSound(t, 8)'
        BY <1>26
      <3>2. expect' = expect
        BY <1>7, <1>26, <2>1
      <3>3. \A n \in Names \ {t} : SameName(n)
        BY <2>1 DEF SameName, In, Open, Held
      <3>4. CreateTableSound(t, 7) /\ \A n \in Names \ {t} : Settled(n)'
        BY <3>1, <3>3, <1>9, <1>10, <1>26
      <3>5. meta' = [state |-> "torn", cat |-> expect.old]
        BY <3>4, <2>1 DEF CreateTableSound, MetaIs
      <3>6. QED
        BY <1>1, <3>1, <3>2, <3>4, <3>5, <2>1 DEF CreateTableSound, MetaIs, Open, Held
    <2>6. QED
      BY <1>8, <1>11, <1>26, <2>1, <2>2, <2>3, <2>4, <2>5
  <1>27. CASE k = 8
    <2>1. prog'[s] = <<>>
      BY <1>1, <1>5, <1>6, <1>27, DoWriteMeta
    <2>2. Sound => /\ db = expect.new /\ t \notin orphans /\ files[t] = "ready"
                   /\ \A n \in Names : Settled(n)
      BY <1>2, <1>9, <1>27 DEF CreateTableSound, Settled, DiskOf
    <2>3. Sound => ~Barred(t)
      BY <1>1, <1>2, <1>9, <2>2, NotBarred DEF ServerInv, TypeInv
    <2>4. QED
      BY <1>5, <1>6, <1>27, <2>1, <2>2, <2>3, AfterEnd
  <1>28. QED
    BY <1>20, <1>21, <1>22, <1>23, <1>24, <1>25, <1>26, <1>27

\* CREATE INDEX
LEMMA CreateIndexGoesOn ==
    ASSUME NEW s \in Sessions, Context(s),
           NEW i, i = query[s].name, query[s].op = "create_index", CreatesIndex(s, i)
    PROVE  After(s)
  <1>1. /\ ServerInv /\ MoreTypes /\ HandlesKnown /\ NumberedBut({}) /\ OnDisk /\ CatalogStep(s)
        /\ orphans' = orphans
        /\ s \in Threads /\ files \in [Paths -> {"none", "empty", "ready"}]
        /\ outcome[s] = "ok" /\ (Sound' <=> Sound)
    BY DEF Context, ServerInv, TypeInv, Goes, Threads, DdlAt
  <1>2. /\ i \in IndexNames /\ i \in Paths /\ i \in Names /\ i \notin TableNames
        /\ i # "log" /\ "log" \in Paths /\ Names \subseteq Paths /\ "log" \notin Names
    BY CatalogAssumption DEF Context, Ddl, Paths, Names
  <1>3. PICK k \in 1..12 : /\ prog[s] = From(CreateIndex(i), k) /\ CreateIndexAt(s, i, k)
                           /\ Sound => CreateIndexSound(i, k)
    BY DEF CreatesIndex
  <1>4. PICK p : p = CreateIndex(i)
    OBVIOUS
  <1>5. /\ Walks(p, 12)
        /\ p[1] = Call("create", i) /\ p[2] = Call("open", i)
        /\ p[3] = Call("check_length", i) /\ p[4] = Call("header", i)
        /\ p[5] = Call("number", i) /\ p[6] = Call("close", i)
        /\ p[7] = Call("open_index", i) /\ p[8] = Call("fill", i)
        /\ p[9] = Call("add_index", i) /\ p[10] = Call("register", i)
        /\ p[11] = Call("truncate", "meta") /\ p[12] = Call("write_meta", "meta")
    BY <1>2, <1>4, CreateIndexCalls
  <1>6. /\ Head(prog[s]) = p[k]
        /\ Next1(s) => prog'[s] = From(p, k + 1)
        /\ k < 12 => From(p, k + 1) # <<>>
        /\ k = 12 => From(p, k + 1) = <<>>
    BY <1>1, <1>3, <1>4, <1>5, Advance
  <1>7. ASSUME Next1(s), k < 12 PROVE prog'[s] # <<>> /\ expect' = expect
    BY <1>6, <1>7 DEF Context, Settles
  <1>8. ASSUME Next1(s), k < 12, outcome' = outcome, HandlesKnown', NumberedBut({})', dir' = dir,
               files'["log"] = files["log"], Sound => \A n \in orphans : files'[n] # "none",
               CreateIndexAt(s, i, k + 1)', Sound => CreateIndexSound(i, k + 1)'
        PROVE After(s)
    <2>1. k + 1 \in 1..12 /\ prog'[s] = From(CreateIndex(i), k + 1)
      BY <1>4, <1>6, <1>8
    <2>2. CreatesIndex(s, i)'
      BY <2>1, <1>1, <1>8 DEF CreatesIndex
    <2>3. QED
      BY <2>2, <1>7, <1>8, AfterGoesOn
  <1>9. ASSUME Sound
        PROVE /\ CreateIndexSound(i, k) /\ Orphaned(expect.old) /\ ~In(i, expect.old)
              /\ expect.new = [expect.old EXCEPT !.ixs = @ \cup {i}]
              /\ \A n : In(n, expect.new) <=> In(n, expect.old) \/ n = i
    <2>1. Allowed(expect.old, query[s]) /\ expect.new = Effect(expect.old, query[s]) /\ expect.old \in Catalogs
      BY <1>9 DEF Context, DdlAt, MoreTypes
    <2>2. expect.new = [expect.old EXCEPT !.ixs = @ \cup {i}]
      BY <2>1 DEF Effect
    <2>3. ~In(i, expect.old) /\ \A n : In(n, expect.new) <=> In(n, expect.old) \/ n = i
      BY <2>1, EffectNames DEF Context
    <2>4. QED
      BY <1>3, <1>9, <2>2, <2>3 DEF Context
  <1>10. ASSUME Sound, \A n \in Names \ {i} : SameName(n) PROVE \A n \in Names \ {i} : Settled(n)'
    BY <1>1, <1>9, <1>10, StaysSettled DEF CreateIndexSound
  <1>11. ASSUME \A n \in Paths \ {i} : files'[n] = files[n], Sound => i \notin orphans
         PROVE Sound => \A n \in orphans : files'[n] # "none"
    BY <1>2, <1>9, <1>11 DEF Orphaned, Context, MoreTypes
  <1>20. CASE k = 1
    <2>1. CASE Taken(i) /\ Throw(s)
      <3>1. ASSUME Sound PROVE db = expect.old /\ MetaIs("good", expect.old) /\ \A n \in Names : Settled(n)
        BY <1>2, <1>9, <1>20, <3>1 DEF CreateIndexSound
      <3>2. ASSUME Sound PROVE Forbidden(s)
        BY <1>2, <2>1, <3>1, <3>2, TakenBars DEF Forbidden, Creates
      <3>3. QED
        BY <2>1, <3>1, <3>2, AfterThrow
    <2>2. CASE /\ files[i] = "none" /\ Next1(s)
               /\ files'[i] = "empty" /\ \A n \in Paths \ {i} : files'[n] = files[n]
               /\ UNCHANGED <<dir, meta, db, fhs, ihs, path2fd, fd2pageno, job, reg, outcome, phase, kernel,
                              broken, ended, moved>>
      <3>1. HandlesKnown' /\ NumberedBut({})'
        BY <1>1, <2>2 DEF HandlesKnown, NumberedBut, Numbered, Open
      <3>2. CreateIndexAt(s, i, k + 1)'
        BY <1>3, <1>20, <2>2 DEF CreateIndexAt
      <3>3. (Sound => i \notin orphans) /\ ~Open(i)
        BY <1>1, <1>9, <2>2 DEF Orphaned, OnDisk, Open
      <3>4. Sound => CreateIndexSound(i, k + 1)'
        <4>1. SUFFICES ASSUME Sound PROVE CreateIndexSound(i, 2)'
          BY <1>20
        <4>2. expect' = expect
          BY <1>7, <1>20, <2>2
        <4>3. \A n \in Names \ {i} : SameName(n)
          BY <1>2, <2>2 DEF SameName, In, Open, Held
        <4>4. CreateIndexSound(i, 1) /\ \A n \in Names \ {i} : Settled(n)'
          BY <4>1, <4>3, <1>9, <1>10, <1>20
        <4>5. QED
          BY <1>1, <4>1, <4>2, <4>4, <2>2, <3>3 DEF CreateIndexSound, MetaIs, Open, Held
      <3>5. QED
        BY <1>2, <1>8, <1>11, <1>20, <2>2, <3>1, <3>2, <3>3, <3>4
    <2>3. QED
      BY <1>1, <1>2, <1>5, <1>6, <1>20, <2>1, <2>2, DoCreate
  <1>21. CASE k = 2
    <2>1. \/ Throw(s) /\ (files[i] = "none" \/ Open(i))
          \/ Next1(s) /\ outcome' = outcome /\ OpenedAs(s, "open", i)
      BY <1>1, <1>2, <1>5, <1>6, <1>21, DoOpen
    <2>2. Sound => files[i] = "empty" /\ ~Open(i) /\ i \notin orphans
      BY <1>9, <1>21 DEF CreateIndexSound
    <2>3. CASE Throw(s) /\ (files[i] = "none" \/ Open(i))
      BY <2>2, <2>3, AfterThrow
    <2>4. CASE Next1(s) /\ outcome' = outcome /\ OpenedAs(s, "open", i)
      <3>1. HandlesKnown' /\ NumberedBut({})' /\ dir' = dir /\ files' = files
        BY <1>1, <2>4 DEF OpenedAs
      <3>2. CreateIndexAt(s, i, k + 1)'
        BY <1>3, <1>21, <2>4 DEF CreateIndexAt, OpenedAs, Open
      <3>3. Sound => CreateIndexSound(i, k + 1)'
        <4>1. SUFFICES ASSUME Sound PROVE CreateIndexSound(i, 3)'
          BY <1>21
        <4>2. expect' = expect
          BY <1>7, <1>21, <2>4
        <4>3. \A n \in Names \ {i} : SameName(n)
          BY <1>2, <2>4 DEF SameName, In, Open, Held, OpenedAs
        <4>4. CreateIndexSound(i, 2) /\ \A n \in Names \ {i} : Settled(n)'
          BY <4>1, <4>3, <1>9, <1>10, <1>21
        <4>5. QED
          BY <1>1, <4>1, <4>2, <4>4, <2>4 DEF CreateIndexSound, MetaIs, Open, Held, OpenedAs
      <3>4. QED
        BY <1>8, <1>11, <1>21, <2>2, <2>4, <3>1, <3>2, <3>3
    <2>5. QED
      BY <2>1, <2>3, <2>4
  <1>22. CASE k = 3
    <2>1. CASE i \in TooLong /\ Throw(s)
      <3>1. ASSUME Sound PROVE \A n \in Names : Settled(n)
        BY <1>2, <1>9, <1>22, <2>1, <3>1 DEF CreateIndexSound, Settled, DiskOf
      <3>2. QED
        BY <1>9, <1>22, <2>1, <3>1, AfterThrow DEF CreateIndexSound, Forbidden, Creates, Barred
    <2>2. CASE i \notin TooLong /\ Next1(s) /\ UNCHANGED <<dir, files, meta, db, fhs, ihs, path2fd, fd2pageno,
                                                           job, reg, outcome, phase, kernel, broken, ended, moved>>
      <3>1. HandlesKnown' /\ NumberedBut({})'
        BY <1>1, <2>2 DEF HandlesKnown, NumberedBut, Numbered, Open
      <3>2. CreateIndexAt(s, i, k + 1)'
        BY <1>3, <1>22, <2>2 DEF CreateIndexAt, Open
      <3>3. Sound => i \notin orphans
        BY <1>9, <1>22 DEF CreateIndexSound
      <3>4. Sound => CreateIndexSound(i, k + 1)'
        <4>1. SUFFICES ASSUME Sound PROVE CreateIndexSound(i, 4)'
          BY <1>22
        <4>2. expect' = expect
          BY <1>7, <1>22, <2>2
        <4>3. \A n \in Names \ {i} : SameName(n)
          BY <1>2, <2>2 DEF SameName, In, Open, Held
        <4>4. CreateIndexSound(i, 3) /\ \A n \in Names \ {i} : Settled(n)'
          BY <4>1, <4>3, <1>9, <1>10, <1>22
        <4>5. QED
          BY <1>1, <4>1, <4>2, <4>4, <2>2 DEF CreateIndexSound, MetaIs, Open, Held
      <3>5. QED
        BY <1>8, <1>11, <1>22, <2>2, <3>1, <3>2, <3>3, <3>4
    <2>3. QED
      BY <1>1, <1>5, <1>6, <1>22, <2>1, <2>2, DoCheck
  <1>23. CASE k = 4
    <2>1. /\ Next1(s) /\ files'[i] = "ready" /\ \A n \in Paths \ {i} : files'[n] = files[n]
          /\ UNCHANGED <<dir, meta, db, fhs, ihs, path2fd, fd2pageno, job, reg, outcome, phase, kernel, broken,
                         ended, moved>>
      <3>1. files[i] # "none"
        BY <1>1, <1>3, <1>23 DEF CreateIndexAt, OnDisk, Open
      <3>2. QED
        BY <1>1, <1>2, <1>5, <1>6, <1>23, <3>1, DoHeader
    <2>2. HandlesKnown' /\ NumberedBut({})'
      BY <1>1, <2>1 DEF HandlesKnown, NumberedBut, Numbered, Open
    <2>3. CreateIndexAt(s, i, k + 1)'
      BY <1>1, <1>3, <1>23, <2>1 DEF CreateIndexAt, Open
    <2>4. Sound => i \notin orphans
      BY <1>9, <1>23 DEF CreateIndexSound
    <2>5. Sound => CreateIndexSound(i, k + 1)'
      <3>1. SUFFICES ASSUME Sound PROVE CreateIndexSound(i, 5)'
        BY <1>23
      <3>2. expect' = expect
        BY <1>7, <1>23, <2>1
      <3>3. \A n \in Names \ {i} : SameName(n)
        BY <1>2, <2>1 DEF SameName, In, Open, Held
      <3>4. CreateIndexSound(i, 4) /\ \A n \in Names \ {i} : Settled(n)'
        BY <3>1, <3>3, <1>9, <1>10, <1>23
      <3>5. QED
        BY <1>1, <3>1, <3>2, <3>4, <2>1 DEF CreateIndexSound, MetaIs, Open, Held
    <2>6. QED
      BY <1>2, <1>8, <1>11, <1>23, <2>1, <2>2, <2>3, <2>4, <2>5
  <1>24. CASE k = 5
    <2>1. /\ Next1(s) /\ reg[s] \in Fds /\ fd2pageno'[reg[s]] = InitNumPages - 1
          /\ NumberedBut({})'
          /\ UNCHANGED <<dir, files, meta, db, fhs, ihs, path2fd, job, reg, outcome, phase, kernel, broken,
                         ended, moved>>
      <3>1. Open(i) /\ path2fd[i] = reg[s] /\ i \notin DOMAIN ihs
        BY <1>3, <1>24 DEF CreateIndexAt
      <3>2. QED
        BY <1>1, <1>5, <1>6, <1>24, <3>1, DoNumber
    <2>2. HandlesKnown' /\ NumberedBut({})'
      BY <1>1, <2>1 DEF HandlesKnown, Open
    <2>3. CreateIndexAt(s, i, k + 1)'
      BY <1>1, <1>3, <1>24, <2>1 DEF CreateIndexAt, Open
    <2>4. Sound => i \notin orphans
      BY <1>9, <1>24 DEF CreateIndexSound
    <2>5. Sound => CreateIndexSound(i, k + 1)'
      <3>1. SUFFICES ASSUME Sound PROVE CreateIndexSound(i, 6)'
        BY <1>24
      <3>2. expect' = expect
        BY <1>7, <1>24, <2>1
      <3>3. \A n \in Names \ {i} : SameName(n)
        BY <1>2, <2>1 DEF SameName, In, Open, Held
      <3>4. CreateIndexSound(i, 5) /\ \A n \in Names \ {i} : Settled(n)'
        BY <3>1, <3>3, <1>9, <1>10, <1>24
      <3>5. QED
        BY <1>1, <3>1, <3>2, <3>4, <2>1 DEF CreateIndexSound, MetaIs, Open, Held
    <2>6. QED
      BY <1>2, <1>8, <1>11, <1>24, <2>1, <2>2, <2>3, <2>4, <2>5
  <1>25. CASE k = 6
    <2>1. /\ Next1(s)
          /\ DOMAIN path2fd' = DOMAIN path2fd \ {i} /\ \A n \in DOMAIN path2fd' : path2fd'[n] = path2fd[n]
          /\ HandlesKnown' /\ NumberedBut({})'
          /\ UNCHANGED <<dir, files, meta, db, fhs, ihs, fd2pageno, job, reg, outcome, phase, broken, ended, moved>>
      <3>1. Open(i) /\ path2fd[i] = reg[s] /\ i \notin DOMAIN fhs \cup DOMAIN ihs
        BY <1>1, <1>2, <1>3, <1>25 DEF CreateIndexAt, ServerInv, TypeInv
      <3>2. QED
        BY <1>1, <1>2, <1>5, <1>6, <1>25, <3>1, DoClose
    <2>2. HandlesKnown' /\ NumberedBut({})'
      BY <1>1, <2>1
    <2>3. CreateIndexAt(s, i, k + 1)'
      BY <1>1, <1>3, <1>25, <2>1 DEF CreateIndexAt
    <2>4. Sound => i \notin orphans
      BY <1>9, <1>25 DEF CreateIndexSound
    <2>5. Sound => CreateIndexSound(i, k + 1)'
      <3>1. SUFFICES ASSUME Sound PROVE CreateIndexSound(i, 7)'
        BY <1>25
      <3>2. expect' = expect
        BY <1>7, <1>25, <2>1
      <3>3. \A n \in Names \ {i} : SameName(n)
        BY <1>2, <2>1 DEF SameName, In, Open, Held
      <3>4. CreateIndexSound(i, 6) /\ \A n \in Names \ {i} : Settled(n)'
        BY <3>1, <3>3, <1>9, <1>10, <1>25
      <3>5. QED
        BY <1>1, <3>1, <3>2, <3>4, <2>1 DEF CreateIndexSound, MetaIs, Open, Held
    <2>6. QED
      BY <1>2, <1>8, <1>11, <1>25, <2>1, <2>2, <2>3, <2>4, <2>5
  <1>26. CASE k = 7
    <2>1. Sound => files[i] = "ready" /\ ~Open(i) /\ i \notin orphans
      BY <1>9, <1>26 DEF CreateIndexSound
    <2>2. \/ Throw(s) /\ (files[i] = "none" \/ Open(i))
          \/ /\ files[i] = "empty" /\ prog' = [prog EXCEPT ![s] = <<>>]
             /\ OpenedAs(s, "open", i)
          \/ Next1(s) /\ outcome' = outcome /\ OpenedAs(s, "open_index", i)
      BY <1>1, <1>2, <1>5, <1>6, <1>26, NamesApart, DoOpen
    <2>3. CASE Throw(s) /\ (files[i] = "none" \/ Open(i))
      BY <2>1, <2>3, AfterThrow
    <2>4. CASE files[i] = "empty" /\ prog' = [prog EXCEPT ![s] = <<>>] /\ OpenedAs(s, "open", i)
      <3>1. HandlesKnown' /\ NumberedBut({})' /\ dir' = dir /\ files' = files
        BY <1>1, <2>4 DEF OpenedAs
      <3>2. prog'[s] = <<>>
        BY <1>1, <2>4 DEF ServerInv, ProgInv
      <3>3. QED
        BY <2>1, <2>4, <3>1, <3>2, AfterUnsound
    <2>5. CASE Next1(s) /\ outcome' = outcome /\ OpenedAs(s, "open_index", i)
      <3>1. HandlesKnown' /\ NumberedBut({})' /\ dir' = dir /\ files' = files
        BY <1>1, <2>5 DEF OpenedAs
      <3>2. CreateIndexAt(s, i, k + 1)'
        <4>1. reg[s] \in Fds /\ fd2pageno[reg[s]] = InitNumPages - 1 /\ i \notin DOMAIN ihs
          BY <1>3, <1>26 DEF CreateIndexAt
        <4>2. Numbered(i, reg[s])'
          BY <4>1, <2>5 DEF OpenedAs
        <4>3. Open(i)' /\ path2fd'[i] = reg'[s] /\ ihs' = ihs
          BY <2>5 DEF OpenedAs, Open
        <4>4. QED
          BY <4>1, <4>2, <4>3, <1>26 DEF CreateIndexAt
      <3>3. Sound => CreateIndexSound(i, k + 1)'
        <4>1. SUFFICES ASSUME Sound PROVE CreateIndexSound(i, 8)'
          BY <1>26
        <4>2. expect' = expect
          BY <1>7, <1>26, <2>5
        <4>3. \A n \in Names \ {i} : SameName(n)
          BY <1>2, <2>5 DEF SameName, In, Open, Held, OpenedAs
        <4>4. CreateIndexSound(i, 7) /\ \A n \in Names \ {i} : Settled(n)'
          BY <4>1, <4>3, <1>9, <1>10, <1>26
        <4>5. QED
          BY <1>1, <4>1, <4>2, <4>4, <2>5 DEF CreateIndexSound, MetaIs, Open, Held, OpenedAs
      <3>4. Sound => \A n \in orphans : files'[n] # "none"
        BY <1>11, <2>1, <3>1
      <3>5. QED
        BY <1>8, <1>26, <2>5, <3>1, <3>2, <3>3, <3>4
    <2>6. QED
      BY <2>2, <2>3, <2>4, <2>5
  <1>27. CASE k = 8
    <2>1. /\ prog' \in {[prog EXCEPT ![s] = Tail(@)], [prog EXCEPT ![s] = Duplicates(i)]}
          /\ UNCHANGED <<dir, files, meta, db, fhs, ihs, path2fd, fd2pageno, job, reg, outcome, phase, kernel,
                         broken, ended, moved>>
      BY <1>1, <1>5, <1>6, <1>27, DoFill DEF Context
    <2>2. HandlesKnown' /\ NumberedBut({})'
      BY <1>1, <2>1 DEF HandlesKnown, NumberedBut, Numbered, Open
    <2>3. Sound => i \notin orphans
      BY <1>9, <1>27 DEF CreateIndexSound
    <2>4. CASE Next1(s)
      <3>1. CreateIndexAt(s, i, k + 1)'
        BY <1>3, <1>27, <2>1 DEF CreateIndexAt, Open, Numbered
      <3>9. Next1(s) /\ UNCHANGED <<dir, files, meta, db, fhs, ihs, path2fd, fd2pageno, job, reg, outcome,
                                    phase, kernel, broken, ended, moved>>
        BY <2>1, <2>4
      <3>2. Sound => CreateIndexSound(i, k + 1)'
        <4>1. SUFFICES ASSUME Sound PROVE CreateIndexSound(i, 9)'
          BY <1>27
        <4>2. expect' = expect
          BY <1>7, <1>27, <3>9
        <4>3. \A n \in Names \ {i} : SameName(n)
          BY <1>2, <2>1 DEF SameName, In, Open, Held
        <4>4. CreateIndexSound(i, 8) /\ \A n \in Names \ {i} : Settled(n)'
          BY <4>1, <4>3, <1>9, <1>10, <1>27
        <4>5. QED
          BY <1>1, <4>1, <4>2, <4>4, <3>9 DEF CreateIndexSound, MetaIs, Open, Held
      <3>3. QED
        BY <1>8, <1>11, <1>27, <2>1, <2>2, <2>3, <2>4, <3>1, <3>2
    <2>5. CASE prog' = [prog EXCEPT ![s] = Duplicates(i)]
      <3>1. prog'[s] = Duplicates(i)
        BY <1>1, <2>5 DEF ServerInv, ProgInv
      <3>2. prog'[s] = From(Duplicates(i), 1) /\ prog'[s] # <<>>
        BY <3>1, <1>2, DuplicateCalls DEF Walks
      <3>3. expect' = expect
        BY <3>2 DEF Context, Settles
      <3>4. DuplicateAt(s, i, 1)'
        BY <1>3, <1>27, <2>1 DEF CreateIndexAt, DuplicateAt, Open
      <3>5. Sound => DuplicateSound(i, 1)'
        <4>1. SUFFICES ASSUME Sound PROVE DuplicateSound(i, 1)'
          OBVIOUS
        <4>2. \A n \in Names \ {i} : SameName(n)
          BY <2>1 DEF SameName, In, Open, Held
        <4>3. CreateIndexSound(i, 8) /\ \A n \in Names \ {i} : Settled(n)'
          BY <4>1, <4>2, <1>9, <1>10, <1>27
        <4>4. QED
          BY <1>1, <4>1, <4>3, <3>3, <2>1 DEF CreateIndexSound, DuplicateSound, MetaIs, Open
      <3>6. GivesUpIndex(s, i)'
        BY <3>2, <3>4, <3>5, <1>1 DEF GivesUpIndex
      <3>7. QED
        BY <1>11, <2>1, <2>2, <2>3, <3>2, <3>6, AfterGoesOn
    <2>6. QED
      BY <2>1, <2>4, <2>5 DEF Next1
  <1>28. CASE k = 9
    <2>1. /\ Next1(s) /\ db' = [db EXCEPT !.ixs = @ \cup {i}]
          /\ UNCHANGED <<dir, files, meta, fhs, ihs, path2fd, fd2pageno, job, reg, outcome, phase, kernel,
                         broken, ended, moved>>
      <3>1. Head(prog[s]) = Call("add_index", i)
        BY <1>5, <1>6, <1>28
      <3>2. QED
        BY <1>1, <3>1, DoChange
    <2>2. db'.tabs = db.tabs /\ db'.ixs = db.ixs \cup {i}
      BY <1>1, <2>1 DEF ServerInv, TypeInv, Catalogs
    <2>3. HandlesKnown' /\ NumberedBut({})'
      BY <1>1, <2>1, <2>2 DEF HandlesKnown, NumberedBut, Numbered, Open
    <2>4. CreateIndexAt(s, i, k + 1)'
      BY <1>3, <1>28, <2>1, <2>2 DEF CreateIndexAt, Open, Numbered
    <2>5. Sound => i \notin orphans
      BY <1>9, <1>28 DEF CreateIndexSound
    <2>6. Sound => CreateIndexSound(i, k + 1)'
      <3>1. SUFFICES ASSUME Sound PROVE CreateIndexSound(i, 10)'
        BY <1>28
      <3>2. expect' = expect
        BY <1>7, <1>28, <2>1
      <3>3. \A n \in Names \ {i} : SameName(n)
        BY <1>2, <2>1, <2>2 DEF SameName, In, Open, Held
      <3>4. CreateIndexSound(i, 9) /\ \A n \in Names \ {i} : Settled(n)'
        BY <3>1, <3>3, <1>9, <1>10, <1>28
      <3>5. db' = expect.new
        BY <3>1, <3>4, <1>9, <2>1 DEF CreateIndexSound
      <3>6. QED
        BY <1>1, <3>1, <3>2, <3>4, <2>1, <3>5 DEF CreateIndexSound, MetaIs, Open, Held
    <2>7. QED
      BY <1>8, <1>11, <1>28, <2>1, <2>3, <2>4, <2>5, <2>6
  <1>29. CASE k = 10
    <2>1. Open(i) /\ path2fd[i] = reg[s] /\ i \in db.ixs /\ Numbered(i, reg[s])
      BY <1>3, <1>29 DEF CreateIndexAt
    <2>2. NumberedBut({} \cup {i})
      BY <1>1 DEF NumberedBut
    <2>3. /\ Next1(s) /\ DOMAIN ihs' = DOMAIN ihs \cup {i} /\ HandlesKnown' /\ NumberedBut({})'
          /\ UNCHANGED <<dir, files, meta, db, fhs, path2fd, fd2pageno, job, reg, outcome, phase, kernel,
                         broken, ended, moved>>
      BY <1>1, <1>5, <1>6, <1>29, <2>1, <2>2, DoRegister
    <2>4. CreateIndexAt(s, i, k + 1)'
      BY <1>29 DEF CreateIndexAt
    <2>5. Sound => i \notin orphans
      BY <1>9, <1>29 DEF CreateIndexSound
    <2>6. Sound => CreateIndexSound(i, k + 1)'
      <3>1. SUFFICES ASSUME Sound PROVE CreateIndexSound(i, 11)'
        BY <1>29
      <3>2. expect' = expect
        BY <1>7, <1>29, <2>3
      <3>3. \A n \in Names \ {i} : SameName(n)
        BY <1>2, <2>3 DEF SameName, In, Open, Held
      <3>4. CreateIndexSound(i, 10) /\ \A n \in Names \ {i} : Settled(n)'
        BY <3>1, <3>3, <1>9, <1>10, <1>29
      <3>5. QED
        BY <1>1, <3>1, <3>2, <3>4, <2>3 DEF CreateIndexSound, MetaIs, Open, Held
    <2>7. QED
      BY <1>8, <1>11, <1>29, <2>3, <2>4, <2>5, <2>6
  <1>3a. CASE k = 11
    <2>1. /\ Next1(s) /\ meta' = [meta EXCEPT !.state = "torn"]
          /\ UNCHANGED <<dir, files, db, fhs, ihs, path2fd, fd2pageno, job, reg, outcome, phase, kernel,
                         broken, ended, moved>>
      BY <1>1, <1>2, <1>5, <1>6, <1>3a, DoTruncate
    <2>2. HandlesKnown' /\ NumberedBut({})'
      BY <1>1, <2>1 DEF HandlesKnown, NumberedBut, Numbered, Open
    <2>3. CreateIndexAt(s, i, k + 1)'
      BY <1>1, <1>3, <1>3a, <2>1 DEF CreateIndexAt
    <2>4. Sound => i \notin orphans
      BY <1>9, <1>3a DEF CreateIndexSound
    <2>5. Sound => CreateIndexSound(i, k + 1)'
      <3>1. SUFFICES ASSUME Sound PROVE CreateIndexSound(i, 12)'
        BY <1>3a
      <3>2. expect' = expect
        BY <1>7, <1>3a, <2>1
      <3>3. \A n \in Names \ {i} : SameName(n)
        BY <1>2, <2>1 DEF SameName, In, Open, Held
      <3>4. CreateIndexSound(i, 11) /\ \A n \in Names \ {i} : Settled(n)'
        BY <3>1, <3>3, <1>9, <1>10, <1>3a
      <3>5. meta' = [state |-> "torn", cat |-> expect.old]
        BY <3>1, <3>4, <2>1 DEF CreateIndexSound, MetaIs
      <3>6. QED
        BY <1>1, <3>1, <3>2, <3>4, <2>1, <3>5 DEF CreateIndexSound, MetaIs, Open, Held
    <2>6. QED
      BY <1>2, <1>8, <1>11, <1>3a, <2>1, <2>2, <2>3, <2>4, <2>5
  <1>31. CASE k = 12
    <2>1. prog'[s] = <<>>
      BY <1>1, <1>5, <1>6, <1>31, DoWriteMeta
    <2>2. Sound => /\ db = expect.new /\ i \notin orphans \cup TooLong /\ files[i] = "ready"
                   /\ \A n \in Names : Settled(n)
      BY <1>2, <1>9, <1>31 DEF CreateIndexSound, Settled, DiskOf
    <2>3. Sound => ~Barred(i)
      BY <1>1, <1>2, <1>9, <2>2, NotBarred DEF ServerInv, TypeInv
    <2>4. QED
      BY <1>5, <1>6, <1>31, <2>1, <2>2, <2>3, AfterEnd
  <1>32. QED
    BY <1>20, <1>21, <1>22, <1>23, <1>24, <1>25, <1>26, <1>27, <1>28, <1>29, <1>3a, <1>31

\* CREATE INDEX over duplicates
LEMMA GivesUpGoesOn ==
    ASSUME NEW s \in Sessions, Context(s),
           NEW i, i = query[s].name, query[s].op = "create_index", GivesUpIndex(s, i)
    PROVE  After(s)
  <1>1. /\ ServerInv /\ MoreTypes /\ HandlesKnown /\ NumberedBut({}) /\ OnDisk /\ CatalogStep(s)
        /\ orphans' = orphans
        /\ s \in Threads /\ files \in [Paths -> {"none", "empty", "ready"}]
        /\ outcome[s] = "ok" /\ (Sound' <=> Sound) /\ phase # "starting"
    BY DEF Context, ServerInv, TypeInv, Goes, Threads, DdlAt
  <1>2. /\ i \in IndexNames /\ i \in Paths /\ i \in Names /\ i \notin TableNames
        /\ i # "log" /\ "log" \in Paths /\ Names \subseteq Paths /\ "log" \notin Names
    BY CatalogAssumption DEF Context, Ddl, Paths, Names
  <1>3. PICK k \in 1..3 : /\ prog[s] = From(Duplicates(i), k) /\ DuplicateAt(s, i, k)
                          /\ Sound => DuplicateSound(i, k)
    BY DEF GivesUpIndex
  <1>4. PICK p : p = Duplicates(i)
    OBVIOUS
  <1>5. /\ Walks(p, 3)
        /\ p[1] = Call("close", i) /\ p[2] = Call("destroy", i)
        /\ p[3] = Call("duplicate", i)
    BY <1>2, <1>4, DuplicateCalls
  <1>6. /\ Head(prog[s]) = p[k]
        /\ Next1(s) => prog'[s] = From(p, k + 1)
        /\ k < 3 => From(p, k + 1) # <<>>
        /\ k = 3 => From(p, k + 1) = <<>>
    BY <1>1, <1>3, <1>4, <1>5, Advance
  <1>7. ASSUME Next1(s), k < 3 PROVE prog'[s] # <<>> /\ expect' = expect
    BY <1>6, <1>7 DEF Context, Settles
  <1>8. ASSUME Next1(s), k < 3, outcome' = outcome, HandlesKnown', NumberedBut({})', dir' = dir,
               files'["log"] = files["log"], Sound => \A n \in orphans : files'[n] # "none",
               DuplicateAt(s, i, k + 1)', Sound => DuplicateSound(i, k + 1)'
        PROVE After(s)
    <2>1. k + 1 \in 1..3 /\ prog'[s] = From(Duplicates(i), k + 1)
      BY <1>4, <1>6, <1>8
    <2>2. GivesUpIndex(s, i)'
      BY <2>1, <1>1, <1>8 DEF GivesUpIndex
    <2>3. QED
      BY <2>2, <1>7, <1>8, AfterGoesOn
  <1>9. ASSUME Sound
        PROVE /\ DuplicateSound(i, k) /\ Orphaned(expect.old)
              /\ ~In(i, expect.old)
    <2>1. Allowed(expect.old, query[s]) /\ expect.new = Effect(expect.old, query[s]) /\ expect.old \in Catalogs
      BY <1>9 DEF Context, DdlAt, MoreTypes
    <2>2. ~In(i, expect.old)
      BY <2>1, EffectNames DEF Context
    <2>3. QED
      BY <1>3, <1>9, <2>2 DEF Context
  <1>10. ASSUME Sound, \A n \in Names \ {i} : SameName(n) PROVE \A n \in Names \ {i} : Settled(n)'
    BY <1>1, <1>9, <1>10, StaysSettled DEF DuplicateSound
  <1>11. ASSUME \A n \in Paths \ {i} : files'[n] = files[n], Sound => i \notin orphans
         PROVE Sound => \A n \in orphans : files'[n] # "none"
    BY <1>2, <1>9, <1>11 DEF Orphaned, Context, MoreTypes
  <1>20. CASE k = 1
    <2>1. /\ Next1(s)
          /\ DOMAIN path2fd' = DOMAIN path2fd \ {i} /\ \A n \in DOMAIN path2fd' : path2fd'[n] = path2fd[n]
          /\ HandlesKnown' /\ NumberedBut({})'
          /\ UNCHANGED <<dir, files, meta, db, fhs, ihs, fd2pageno, job, reg, outcome, phase, broken, ended, moved>>
      <3>1. Open(i) /\ path2fd[i] = reg[s] /\ i \notin DOMAIN fhs \cup DOMAIN ihs
        BY <1>1, <1>2, <1>3, <1>20 DEF DuplicateAt, ServerInv, TypeInv
      <3>2. QED
        BY <1>1, <1>2, <1>5, <1>6, <1>20, <3>1, DoClose
    <2>2. HandlesKnown' /\ NumberedBut({})'
      BY <1>1, <2>1
    <2>3. DuplicateAt(s, i, k + 1)'
      BY <1>1, <1>3, <1>20, <2>1 DEF DuplicateAt
    <2>4. Sound => i \notin orphans
      BY <1>9, <1>20 DEF DuplicateSound
    <2>5. Sound => DuplicateSound(i, k + 1)'
      <3>1. SUFFICES ASSUME Sound PROVE DuplicateSound(i, 2)'
        BY <1>20
      <3>2. expect' = expect
        BY <1>7, <1>20, <2>1
      <3>3. \A n \in Names \ {i} : SameName(n)
        BY <1>2, <2>1 DEF SameName, In, Open, Held
      <3>4. DuplicateSound(i, 1) /\ \A n \in Names \ {i} : Settled(n)'
        BY <3>1, <3>3, <1>9, <1>10, <1>20
      <3>5. QED
        BY <1>1, <3>1, <3>2, <3>4, <2>1 DEF DuplicateSound, MetaIs, Open, Held
    <2>6. QED
      BY <1>2, <1>8, <1>11, <1>20, <2>1, <2>2, <2>3, <2>4, <2>5
  <1>21. CASE k = 2
    <2>1. Sound => files[i] = "ready" /\ ~Open(i) /\ i \notin orphans
      BY <1>9, <1>21 DEF DuplicateSound
    <2>2. CASE (files[i] = "none" \/ Open(i)) /\ Throw(s)
      BY <2>1, <2>2, AfterThrow
    <2>3. CASE /\ Next1(s) /\ ~Open(i)
               /\ files'[i] = "none" /\ \A n \in Paths \ {i} : files'[n] = files[n]
               /\ UNCHANGED <<dir, meta, db, fhs, ihs, path2fd, fd2pageno, job, reg, outcome, phase, kernel,
                              broken, ended, moved>>
      <3>1. HandlesKnown' /\ NumberedBut({})'
        BY <1>1, <2>3 DEF HandlesKnown, NumberedBut, Numbered, Open
      <3>2. DuplicateAt(s, i, k + 1)'
        BY <1>3, <1>21, <2>3 DEF DuplicateAt
      <3>3. Sound => DuplicateSound(i, k + 1)'
        <4>1. SUFFICES ASSUME Sound PROVE DuplicateSound(i, 3)'
          BY <1>21
        <4>2. expect' = expect
          BY <1>7, <1>21, <2>3
        <4>3. \A n \in Names \ {i} : SameName(n)
          BY <1>2, <2>3 DEF SameName, In, Open, Held
        <4>4. DuplicateSound(i, 2) /\ \A n \in Names \ {i} : Settled(n)'
          BY <4>1, <4>3, <1>9, <1>10, <1>21
        <4>5. QED
          BY <1>1, <4>1, <4>2, <4>4, <2>3 DEF DuplicateSound, MetaIs, Open, Held
      <3>4. QED
        BY <1>2, <1>8, <1>11, <1>21, <2>1, <2>3, <3>1, <3>2, <3>3
    <2>4. QED
      BY <1>1, <1>2, <1>5, <1>6, <1>21, <2>2, <2>3, DoDestroy
  <1>22. CASE k = 3
    <2>1. Throw(s) /\ Forbidden(s)
      BY <1>1, <1>5, <1>6, <1>22, DoDuplicate, TheStep, CallFields DEF Forbidden, Calls
    <2>2. ASSUME Sound PROVE db = expect.old /\ MetaIs("good", expect.old) /\ \A n \in Names : Settled(n)
      BY <1>2, <1>9, <1>22, <2>2 DEF DuplicateSound, Settled, DiskOf
    <2>3. QED
      BY <2>1, <2>2, AfterThrow
  <1>23. QED
    BY <1>20, <1>21, <1>22

\* DROP INDEX
LEMMA DropIndexGoesOn ==
    ASSUME NEW s \in Sessions, Context(s), NEW i, i = query[s].name, query[s].op = "drop_index", DropsIndex(s, i)
    PROVE  After(s)
  <1>1. /\ ServerInv /\ MoreTypes /\ HandlesKnown /\ NumberedBut({}) /\ OnDisk /\ CatalogStep(s)
        /\ orphans' = orphans
        /\ s \in Threads /\ files \in [Paths -> {"none", "empty", "ready"}]
        /\ outcome[s] = "ok" /\ (Sound' <=> Sound) /\ phase # "starting"
    BY DEF Context, ServerInv, TypeInv, Goes, Threads, DdlAt
  <1>2. /\ i \in IndexNames /\ i \in Paths /\ i \in Names /\ i \notin TableNames
        /\ i # "log" /\ "log" \in Paths /\ Names \subseteq Paths /\ "log" \notin Names
    BY CatalogAssumption DEF Context, Ddl, Paths, Names
  <1>3. PICK k \in 1..5 : /\ prog[s] = From(DropIndex(i), k) /\ DropIndexAt(i, k)
                          /\ Sound => DropIndexSound(i, k)
    BY DEF DropsIndex
  <1>4. PICK p : p = DropIndex(i)
    OBVIOUS
  <1>5. /\ Walks(p, 5)
        /\ p[1] = Call("close_index", i) /\ p[2] = Call("destroy", i)
        /\ p[3] = Call("remove_index", i) /\ p[4] = Call("truncate", "meta")
        /\ p[5] = Call("write_meta", "meta")
    BY <1>2, <1>4, DropIndexCalls
  <1>6. /\ Head(prog[s]) = p[k]
        /\ Next1(s) => prog'[s] = From(p, k + 1)
        /\ k < 5 => From(p, k + 1) # <<>>
        /\ k = 5 => From(p, k + 1) = <<>>
    BY <1>1, <1>3, <1>4, <1>5, Advance
  <1>7. ASSUME Next1(s), k < 5 PROVE prog'[s] # <<>> /\ expect' = expect
    BY <1>6, <1>7 DEF Context, Settles
  <1>8. ASSUME Next1(s), k < 5, outcome' = outcome, HandlesKnown', NumberedBut({})', dir' = dir,
               files'["log"] = files["log"], Sound => \A n \in orphans : files'[n] # "none",
               DropIndexAt(i, k + 1)', Sound => DropIndexSound(i, k + 1)'
        PROVE After(s)
    <2>1. k + 1 \in 1..5 /\ prog'[s] = From(DropIndex(i), k + 1)
      BY <1>4, <1>6, <1>8
    <2>2. DropsIndex(s, i)'
      BY <2>1, <1>1, <1>8 DEF DropsIndex
    <2>3. QED
      BY <2>2, <1>7, <1>8, AfterGoesOn
  <1>9. ASSUME Sound
        PROVE /\ DropIndexSound(i, k) /\ Orphaned(expect.old)
              /\ expect.new = [expect.old EXCEPT !.ixs = @ \ {i}]
              /\ \A n : In(n, expect.new) <=> In(n, expect.old) /\ n # i
              /\ In(i, expect.old) /\ i \notin orphans
    <2>1. Allowed(expect.old, query[s]) /\ expect.new = Effect(expect.old, query[s]) /\ expect.old \in Catalogs
      BY <1>9 DEF Context, DdlAt, MoreTypes
    <2>2. expect.new = [expect.old EXCEPT !.ixs = @ \ {i}]
      BY <2>1 DEF Effect
    <2>3. In(i, expect.old) /\ \A n : In(n, expect.new) <=> In(n, expect.old) /\ n # i
      BY <2>1, EffectNames DEF Context
    <2>4. QED
      BY <1>3, <1>9, <2>2, <2>3 DEF Context, Orphaned
  <1>10. ASSUME Sound, \A n \in Names \ {i} : SameName(n) PROVE \A n \in Names \ {i} : Settled(n)'
    BY <1>1, <1>9, <1>10, StaysSettled DEF DropIndexSound
  <1>11. ASSUME \A n \in Paths \ {i} : files'[n] = files[n], Sound => i \notin orphans
         PROVE Sound => \A n \in orphans : files'[n] # "none"
    BY <1>2, <1>9, <1>11 DEF Orphaned, Context, MoreTypes
  <1>20. CASE k = 1
    <2>1. /\ Next1(s) /\ DOMAIN fhs' = DOMAIN fhs \ {i} /\ DOMAIN ihs' = DOMAIN ihs \ {i}
          /\ \A n \in Paths \ {i} : Open(n)' <=> Open(n)
          /\ Open(i)' <=> Open(i) /\ ~Held(i)
          /\ HandlesKnown' /\ NumberedBut({})'
          /\ UNCHANGED <<dir, files, meta, db, fd2pageno, job, reg, outcome, phase, broken, ended, moved>>
      <3>1. Head(prog[s]) = Call("close_index", i)
        BY <1>5, <1>6, <1>20
      <3>2. QED
        BY <1>1, <1>2, <3>1, DoCloseHandle
    <2>2. HandlesKnown' /\ NumberedBut({})'
      BY <1>1, <2>1
    <2>3. DropIndexAt(i, k + 1)'
      BY <1>1, <1>3, <1>20, <2>1 DEF DropIndexAt
    <2>4. Sound => i \notin orphans
      BY <1>9 DEF DropIndexSound
    <2>5. Sound => DropIndexSound(i, k + 1)'
      <3>1. SUFFICES ASSUME Sound PROVE DropIndexSound(i, 2)'
        BY <1>20
      <3>2. expect' = expect
        BY <1>7, <1>20, <2>1
      <3>3. \A n \in Names \ {i} : SameName(n)
        BY <1>2, <2>1 DEF SameName, In, Open, Held
      <3>4. DropIndexSound(i, 1) /\ \A n \in Names \ {i} : Settled(n)'
        BY <3>1, <3>3, <1>9, <1>10, <1>20
      <3>5. QED
        BY <1>1, <3>1, <3>2, <3>4, <2>1 DEF DropIndexSound, MetaIs, Open, Held
    <2>6. QED
      BY <1>2, <1>8, <1>11, <1>20, <2>1, <2>2, <2>3, <2>4, <2>5
  <1>21. CASE k = 2
    <2>1. Sound => files[i] = "ready" /\ ~Open(i) /\ i \notin orphans
      BY <1>9, <1>21 DEF DropIndexSound
    <2>2. CASE (files[i] = "none" \/ Open(i)) /\ Throw(s)
      BY <2>1, <2>2, AfterThrow
    <2>3. CASE /\ Next1(s) /\ ~Open(i)
               /\ files'[i] = "none" /\ \A n \in Paths \ {i} : files'[n] = files[n]
               /\ UNCHANGED <<dir, meta, db, fhs, ihs, path2fd, fd2pageno, job, reg, outcome, phase, kernel,
                              broken, ended, moved>>
      <3>1. HandlesKnown' /\ NumberedBut({})'
        BY <1>1, <2>3 DEF HandlesKnown, NumberedBut, Numbered, Open
      <3>2. DropIndexAt(i, k + 1)'
        BY <1>3, <1>21, <2>3 DEF DropIndexAt
      <3>3. Sound => DropIndexSound(i, k + 1)'
        <4>1. SUFFICES ASSUME Sound PROVE DropIndexSound(i, 3)'
          BY <1>21
        <4>2. expect' = expect
          BY <1>7, <1>21, <2>3
        <4>3. \A n \in Names \ {i} : SameName(n)
          BY <1>2, <2>3 DEF SameName, In, Open, Held
        <4>4. DropIndexSound(i, 2) /\ \A n \in Names \ {i} : Settled(n)'
          BY <4>1, <4>3, <1>9, <1>10, <1>21
        <4>5. QED
          BY <1>1, <4>1, <4>2, <4>4, <2>3 DEF DropIndexSound, MetaIs, Open, Held
      <3>4. QED
        BY <1>2, <1>8, <1>11, <1>21, <2>1, <2>3, <3>1, <3>2, <3>3
    <2>4. Head(prog[s]) = Call("destroy", i)
      BY <1>5, <1>6, <1>21
    <2>5. QED
      BY <1>1, <1>2, <2>2, <2>3, <2>4, DoDestroy
  <1>22. CASE k = 3
    <2>1. /\ Next1(s) /\ db' = [db EXCEPT !.ixs = @ \ {i}]
          /\ UNCHANGED <<dir, files, meta, fhs, ihs, path2fd, fd2pageno, job, reg, outcome, phase, kernel,
                         broken, ended, moved>>
      <3>1. Head(prog[s]) = Call("remove_index", i)
        BY <1>5, <1>6, <1>22
      <3>2. QED
        BY <1>1, <3>1, DoChange
    <2>2. db'.tabs = db.tabs /\ db'.ixs = db.ixs \ {i} /\ i \notin DOMAIN ihs
      BY <1>1, <1>3, <1>22, <2>1 DEF ServerInv, TypeInv, Catalogs, DropIndexAt
    <2>3. HandlesKnown' /\ NumberedBut({})'
      BY <1>1, <2>1, <2>2 DEF HandlesKnown, NumberedBut, Numbered, Open
    <2>4. DropIndexAt(i, k + 1)'
      BY <1>22 DEF DropIndexAt
    <2>5. Sound => DropIndexSound(i, k + 1)'
      <3>1. SUFFICES ASSUME Sound PROVE DropIndexSound(i, 4)'
        BY <1>22
      <3>2. expect' = expect
        BY <1>7, <1>22, <2>1
      <3>3. \A n \in Names \ {i} : SameName(n)
        BY <1>2, <2>1, <2>2 DEF SameName, In, Open, Held
      <3>4. DropIndexSound(i, 3) /\ \A n \in Names \ {i} : Settled(n)'
        BY <3>1, <3>3, <1>9, <1>10, <1>22
      <3>5. db' = expect.new
        BY <3>1, <3>4, <1>9, <2>1 DEF DropIndexSound
      <3>6. UNCHANGED <<files, meta, path2fd>>
        BY <2>1
      <3>7. QED
        BY <1>1, <3>1, <3>2, <3>4, <3>5, <3>6 DEF DropIndexSound, MetaIs, Open
    <2>6. QED
      BY <1>8, <1>9, <1>11, <1>22, <2>1, <2>3, <2>4, <2>5
  <1>23. CASE k = 4
    <2>1. /\ Next1(s) /\ meta' = [meta EXCEPT !.state = "torn"]
          /\ UNCHANGED <<dir, files, db, fhs, ihs, path2fd, fd2pageno, job, reg, outcome, phase, kernel,
                         broken, ended, moved>>
      BY <1>1, <1>2, <1>5, <1>6, <1>23, DoTruncate
    <2>2. HandlesKnown' /\ NumberedBut({})'
      BY <1>1, <2>1 DEF HandlesKnown, NumberedBut, Numbered, Open
    <2>3. DropIndexAt(i, k + 1)'
      BY <1>1, <1>3, <1>23, <2>1 DEF DropIndexAt
    <2>4. Sound => i \notin orphans
      BY <1>9 DEF DropIndexSound
    <2>5. Sound => DropIndexSound(i, k + 1)'
      <3>1. SUFFICES ASSUME Sound PROVE DropIndexSound(i, 5)'
        BY <1>23
      <3>2. expect' = expect
        BY <1>7, <1>23, <2>1
      <3>3. \A n \in Names \ {i} : SameName(n)
        BY <1>2, <2>1 DEF SameName, In, Open, Held
      <3>4. DropIndexSound(i, 4) /\ \A n \in Names \ {i} : Settled(n)'
        BY <3>1, <3>3, <1>9, <1>10, <1>23
      <3>5. meta' = [state |-> "torn", cat |-> expect.old]
        BY <3>1, <3>4, <2>1 DEF DropIndexSound, MetaIs
      <3>6. QED
        BY <1>1, <3>1, <3>2, <3>4, <2>1, <3>5 DEF DropIndexSound, MetaIs, Open, Held
    <2>6. QED
      BY <1>2, <1>8, <1>11, <1>23, <2>1, <2>2, <2>3, <2>4, <2>5
  <1>24. CASE k = 5
    <2>1. prog'[s] = <<>>
      BY <1>1, <1>5, <1>6, <1>24, DoWriteMeta
    <2>2. Sound => db = expect.new /\ \A n \in Names : Settled(n)
      BY <1>2, <1>9, <1>24 DEF DropIndexSound, Settled, DiskOf
    <2>3. QED
      BY <1>5, <1>6, <1>24, <2>1, <2>2, AfterEnd DEF Creates
  <1>25. QED
    BY <1>20, <1>21, <1>22, <1>23, <1>24

\* The loops: the next round, or the end.
LEMMA DoLoop ==
    ASSUME NEW th, NEW names, NEW body, Head(prog[th]) = ForEach(names, body), CatalogStep(th)
    PROVE  /\ \/ \E n \in names : prog' = [prog EXCEPT ![th] = Body(body, n) \o <<ForEach(names \ {n}, body)>>
                                                               \o Tail(prog[th])]
              \/ names = {} /\ Next1(th)
           /\ UNCHANGED <<dir, files, meta, db, fhs, ihs, path2fd, fd2pageno, job, reg, outcome, phase, kernel, broken,
                          ended, moved>>
  <1>1. Head(prog[th]).op = "for_each" /\ Head(prog[th]).names = names /\ Head(prog[th]).body = body
    BY DEF ForEach
  <1>2. Loop(th)
    BY <1>1, TheStep
  <1>3. UNCHANGED <<dir, files, meta, db, fhs, ihs, path2fd, fd2pageno, job, reg, outcome, phase, kernel, broken,
                    ended, moved>>
    BY <1>2 DEF Loop, handleVars, historyVars
  <1>4. \/ \E n \in Head(prog[th]).names :
              prog' = [prog EXCEPT ![th] = Body(Head(prog[th]).body, n)
                                           \o <<ForEach(Head(prog[th]).names \ {n}, Head(prog[th]).body)>>
                                           \o Tail(prog[th])]
        \/ Head(prog[th]).names = {} /\ Next1(th)
    BY <1>2 DEF Loop
  <1>5. QED
    BY <1>1, <1>3, <1>4

\* What is known of a program of n calls in front of the calls q.
WalksOn(p, n, q) ==
    /\ From(p, 1) \o q = p \o q /\ From(p, n + 1) \o q = q
    /\ \A k \in 1..n : /\ From(p, k) \o q \in Seq(AnyCall) /\ From(p, k) \o q # <<>>
                       /\ Head(From(p, k) \o q) = p[k] /\ Tail(From(p, k) \o q) = From(p, k + 1) \o q

LEMMA WalkOn ==
    ASSUME NEW p \in Seq(AnyCall), NEW n, Len(p) = n, NEW q \in Seq(AnyCall)
    PROVE  WalksOn(p, n, q)
  <1>1. <<>> \o q = q
    OBVIOUS
  <1>2. From(p, 1) \o q = p \o q /\ From(p, n + 1) \o q = q
    BY <1>1, FromCalls
  <1>3. ASSUME NEW k \in 1..n
        PROVE /\ From(p, k) \o q \in Seq(AnyCall) /\ From(p, k) \o q # <<>>
              /\ Head(From(p, k) \o q) = p[k] /\ Tail(From(p, k) \o q) = From(p, k + 1) \o q
    <2>1. /\ From(p, k) \in Seq(AnyCall) /\ From(p, k) # <<>>
          /\ Head(From(p, k)) = p[k] /\ Tail(From(p, k)) = From(p, k + 1)
      BY FromCalls
    <2>2. PICK u \in Seq(AnyCall) : u = From(p, k)
      BY <2>1
    <2>3. u \o q \in Seq(AnyCall) /\ u \o q # <<>> /\ Head(u \o q) = Head(u) /\ Tail(u \o q) = Tail(u) \o q
      BY <2>1, <2>2, HeadTail
    <2>4. QED
      BY <2>1, <2>2, <2>3
  <1>4. QED
    BY <1>2, <1>3 DEF WalksOn

\* The k-th call of p is next, then the rest of p, then q.
Advances(th, p, n, q, k) ==
    /\ Head(prog[th]) = p[k]
    /\ Next1(th) => prog'[th] = From(p, k + 1) \o q /\ prog'[th] # <<>>
    /\ k = n => From(p, k + 1) \o q = q

LEMMA AdvanceOn ==
    ASSUME ServerInv, NEW th \in Threads, NEW p, NEW n \in Nat, NEW q, q # <<>>, WalksOn(p, n, q), NEW k \in 1..n,
           prog[th] = From(p, k) \o q
    PROVE  Advances(th, p, n, q, k)
  <1>1. DOMAIN prog = Threads
    BY DEF ServerInv, ProgInv
  <1>2. Head(prog[th]) = p[k] /\ Tail(prog[th]) = From(p, k + 1) \o q
    BY DEF WalksOn
  <1>3. k = n => From(p, k + 1) \o q = q
    BY DEF WalksOn
  <1>4. k < n => From(p, k + 1) \o q # <<>>
    <2>1. k < n => k + 1 \in 1..n
      OBVIOUS
    <2>2. QED
      BY <2>1 DEF WalksOn
  <1>5. From(p, k + 1) \o q # <<>>
    BY <1>3, <1>4
  <1>6. Next1(th) => prog'[th] = From(p, k + 1) \o q
    BY <1>1, <1>2 DEF Next1
  <1>7. QED
    BY <1>2, <1>3, <1>5, <1>6 DEF Advances

\* The calls of drop_table: a round of the loop, and what follows it.
LEMMA DropTableCalls ==
    ASSUME NEW t \in TableNames, NEW ixs \in SUBSET IndexNames
    PROVE  /\ Dropping(t, ixs) \in Seq(AnyCall) /\ Dropping(t, ixs) # <<>>
           /\ Head(Dropping(t, ixs)) = ForEach(ixs, "destroy_index")
           /\ Tail(Dropping(t, ixs)) = DropRest(t)
           /\ DropRest(t) = From(DropRest(t), 1) /\ DropRest(t) # <<>>
  <1>1. PICK r : r = DropRest(t)
    OBVIOUS
  <1>2. r \in Seq(AnyCall) /\ From(r, 1) = r /\ From(r, 1) # <<>>
    BY <1>1, DropRestCalls DEF Walks
  <1>3. PICK c : c = ForEach(ixs, "destroy_index")
    OBVIOUS
  <1>4. c \in AnyCall
    BY <1>3, TheCalls
  <1>5. PICK q : q = <<c>> \o r
    OBVIOUS
  <1>6. q \in Seq(AnyCall) /\ q # <<>> /\ Head(q) = c /\ Tail(q) = r
    BY <1>2, <1>4, <1>5, CallThen
  <1>7. q = Dropping(t, ixs)
    BY <1>1, <1>3, <1>5 DEF Dropping
  <1>8. QED
    BY <1>1, <1>2, <1>3, <1>6, <1>7

LEMMA DropRoundCalls ==
    ASSUME NEW t \in TableNames, NEW ixs \in SUBSET IndexNames, NEW i \in IndexNames
    PROVE  /\ (DestroyIndex(i) \o <<ForEach(ixs, "destroy_index")>>) \o DropRest(t)
                 = From(DestroyIndex(i), 1) \o Dropping(t, ixs)
           /\ From(DestroyIndex(i), 1) \o Dropping(t, ixs) # <<>>
           /\ WalksOn(DestroyIndex(i), 2, Dropping(t, ixs))
  <1>1. PICK d : d = DestroyIndex(i)
    OBVIOUS
  <1>2. d \in Seq(AnyCall) /\ Len(d) = 2
    BY <1>1, DestroyIndexCalls DEF Walks
  <1>3. PICK q : q = Dropping(t, ixs)
    OBVIOUS
  <1>4. q \in Seq(AnyCall)
    BY <1>3, DropTableCalls
  <1>5. WalksOn(d, 2, q)
    BY <1>2, <1>4, WalkOn
  <1>6. PICK c : c = <<ForEach(ixs, "destroy_index")>>
    OBVIOUS
  <1>7. c \in Seq(AnyCall)
    BY <1>6, TheCalls
  <1>8. PICK r : r = DropRest(t)
    OBVIOUS
  <1>9. r \in Seq(AnyCall)
    BY <1>8, DropRestCalls DEF Walks
  <1>10. (d \o c) \o r = d \o (c \o r)
    BY <1>2, <1>7, <1>9, Grouped
  <1>11. c \o r = q
    BY <1>3, <1>6, <1>8 DEF Dropping
  <1>12. From(d, 1) \o q = d \o q /\ From(d, 1) \o q # <<>>
    <2>1. 1 \in 1..2
      OBVIOUS
    <2>2. QED
      BY <1>5, <2>1, Zenon DEF WalksOn
  <1>13. QED
    BY <1>1, <1>3, <1>5, <1>6, <1>8, <1>10, <1>11, <1>12

\* What DROP TABLE has to do.
Drops(s, t) ==
    /\ ServerInv /\ MoreTypes /\ HandlesKnown /\ NumberedBut({}) /\ OnDisk /\ CatalogStep(s) /\ orphans' = orphans
    /\ s \in Threads /\ DOMAIN prog = Threads /\ files \in [Paths -> {"none", "empty", "ready"}]
    /\ outcome[s] = "ok" /\ (Sound' <=> Sound) /\ phase # "starting"
    /\ prog'[s] # <<>> => expect' = expect
    /\ t \in TableNames /\ t \in Paths /\ t \in Names /\ t \notin IndexNames
    /\ t # "log" /\ "log" \in Paths /\ Names \subseteq Paths /\ "log" \notin Names
    /\ \A i \in IndexesOf(t) : i \in IndexNames /\ i \in Names /\ i \in Paths /\ i # t /\ TableOf[i] = t
    /\ Sound => /\ Orphaned(expect.old) /\ In(t, expect.old) /\ t \notin orphans
                /\ expect.new = [tabs |-> expect.old.tabs \ {t}, ixs |-> {i \in expect.old.ixs : TableOf[i] # t}]
                /\ \A n : In(n, expect.new) <=>
                             In(n, expect.old) /\ n # t /\ ~(n \in expect.old.ixs /\ TableOf[n] = t)
                /\ \A i \in expect.old.ixs : i \in IndexNames /\ In(i, expect.old) /\ i \notin orphans

LEMMA DropTableContext ==
    ASSUME NEW s \in Sessions, Context(s), NEW t, t = query[s].name, query[s].op = "drop_table"
    PROVE  Drops(s, t)
  <1>1. /\ ServerInv /\ MoreTypes /\ HandlesKnown /\ NumberedBut({}) /\ OnDisk /\ CatalogStep(s)
        /\ orphans' = orphans
        /\ s \in Threads /\ DOMAIN prog = Threads /\ files \in [Paths -> {"none", "empty", "ready"}]
        /\ outcome[s] = "ok" /\ (Sound' <=> Sound) /\ phase # "starting"
    BY DEF Context, ServerInv, TypeInv, ProgInv, Goes, Threads, DdlAt
  <1>2. prog'[s] # <<>> => expect' = expect
    BY DEF Context, Settles
  <1>3. /\ t \in TableNames /\ t \in Paths /\ t \in Names /\ t \notin IndexNames
        /\ t # "log" /\ "log" \in Paths /\ Names \subseteq Paths /\ "log" \notin Names
    BY CatalogAssumption DEF Context, Ddl, Paths, Names
  <1>4. \A i \in IndexesOf(t) : i \in IndexNames /\ i \in Names /\ i \in Paths /\ i # t /\ TableOf[i] = t
    BY <1>3 DEF IndexesOf, Names, Paths
  <1>5. ASSUME Sound
        PROVE /\ Orphaned(expect.old) /\ In(t, expect.old) /\ t \notin orphans
              /\ expect.new = [tabs |-> expect.old.tabs \ {t}, ixs |-> {i \in expect.old.ixs : TableOf[i] # t}]
              /\ \A n : In(n, expect.new) <=>
                           In(n, expect.old) /\ n # t /\ ~(n \in expect.old.ixs /\ TableOf[n] = t)
              /\ \A i \in expect.old.ixs : i \in IndexNames /\ In(i, expect.old) /\ i \notin orphans
    <2>1. Allowed(expect.old, query[s]) /\ expect.new = Effect(expect.old, query[s]) /\ expect.old \in Catalogs
      BY <1>5 DEF Context, DdlAt, MoreTypes
    <2>2. expect.new = [tabs |-> expect.old.tabs \ {t}, ixs |-> {i \in expect.old.ixs : TableOf[i] # t}]
      BY <2>1 DEF Effect
    <2>3. /\ In(t, expect.old)
          /\ \A n : In(n, expect.new) <=>
                       In(n, expect.old) /\ n # t /\ ~(n \in expect.old.ixs /\ TableOf[n] = t)
      BY <2>1, EffectNames DEF Context
    <2>4. Orphaned(expect.old)
      BY <1>5 DEF Context
    <2>5. \A i \in expect.old.ixs : i \in IndexNames /\ In(i, expect.old) /\ i \notin orphans
      BY <2>1, <2>4 DEF In, Orphaned, Catalogs
    <2>6. QED
      BY <2>2, <2>3, <2>4, <2>5 DEF Orphaned
  <1>6. QED
    BY <1>1, <1>2, <1>3, <1>4, <1>5 DEF Drops

\* DROP TABLE, between two indexes.
LEMMA DropsIndexesGoesOn ==
    ASSUME NEW s \in Sessions, Context(s), NEW t, t = query[s].name, query[s].op = "drop_table", DropsIndexes(s, t)
    PROVE  After(s)
  <1>1. /\ ServerInv /\ MoreTypes /\ HandlesKnown /\ NumberedBut({}) /\ CatalogStep(s) /\ orphans' = orphans
        /\ s \in Threads /\ DOMAIN prog = Threads /\ (Sound' <=> Sound)
        /\ prog'[s] # <<>> => expect' = expect
        /\ t \in TableNames /\ \A i \in IndexesOf(t) : i \in IndexNames /\ TableOf[i] = t
    <2>1. Drops(s, t)
      BY DropTableContext
    <2>2. QED
      BY <2>1 DEF Drops
  <1>2. PICK ixs \in SUBSET IndexesOf(t) : /\ prog[s] = Dropping(t, ixs) /\ IndexesLeft(t, ixs)
                                           /\ Sound => LoopSound(t, ixs)
    BY DEF DropsIndexes
  <1>3. ixs \in SUBSET IndexNames
    BY <1>1
  <1>4. /\ Head(prog[s]) = ForEach(ixs, "destroy_index")
        /\ Tail(prog[s]) = DropRest(t) /\ DropRest(t) = From(DropRest(t), 1) /\ DropRest(t) # <<>>
    BY <1>1, <1>2, <1>3, DropTableCalls
  <1>5. /\ \/ \E n \in ixs : prog' = [prog EXCEPT ![s] = Body("destroy_index", n)
                                                         \o <<ForEach(ixs \ {n}, "destroy_index")>>
                                                         \o Tail(prog[s])]
           \/ ixs = {} /\ Next1(s)
        /\ UNCHANGED <<dir, files, meta, db, fhs, ihs, path2fd, fd2pageno, job, reg, outcome, phase, kernel, broken,
                       ended, moved>>
    BY <1>1, <1>4, DoLoop
  <1>6. Sound => \A n \in orphans : files'[n] # "none"
    BY <1>5, DropTableContext DEF Drops, Orphaned
  <1>7. HandlesKnown' /\ NumberedBut({})'
    BY <1>1, <1>5 DEF HandlesKnown, NumberedBut, Numbered, Open
  <1>8. \A n : Settled(n) => Settled(n)'
    BY <1>1, <1>5 DEF Settled, DiskOf, In, Open, Held
  <1>9. ASSUME expect' = expect PROVE OthersSound(t) => OthersSound(t)'
    BY <1>8, <1>9 DEF OthersSound
  <1>10. ASSUME NEW n \in ixs,
                prog' = [prog EXCEPT ![s] = Body("destroy_index", n)
                                            \o <<ForEach(ixs \ {n}, "destroy_index")>> \o Tail(prog[s])]
         PROVE After(s)
    <2>1. prog'[s] = (DestroyIndex(n) \o <<ForEach(ixs \ {n}, "destroy_index")>>) \o DropRest(t)
      <3>1. Body("destroy_index", n) = DestroyIndex(n)
        BY DEF Body
      <3>2. Tail(prog[s]) = DropRest(t)
        BY <1>4
      <3>3. QED
        BY <1>1, <1>10, <3>1, <3>2
    <2>2. ixs \ {n} \in SUBSET IndexesOf(t) /\ n \in IndexesOf(t) \ (ixs \ {n}) /\ n \in IndexNames
          /\ ixs \ {n} \in SUBSET IndexNames /\ (ixs \ {n}) \cup {n} = ixs
      BY <1>2, <1>3, <1>10
    <2>3. prog'[s] = From(DestroyIndex(n), 1) \o Dropping(t, ixs \ {n}) /\ prog'[s] # <<>>
      <3>1. /\ (DestroyIndex(n) \o <<ForEach(ixs \ {n}, "destroy_index")>>) \o DropRest(t)
                  = From(DestroyIndex(n), 1) \o Dropping(t, ixs \ {n})
            /\ From(DestroyIndex(n), 1) \o Dropping(t, ixs \ {n}) # <<>>
        BY <1>1, <2>2, DropRoundCalls, Zenon
      <3>2. QED
        BY <2>1, <3>1, Zenon
    <2>4. expect' = expect
      BY <1>1, <2>3
    <2>5. IndexesLeft(t, (ixs \ {n}) \cup {n})'
      BY <1>2, <1>5, <2>2 DEF IndexesLeft
    <2>6. Sound => RoundSound(t, n, ixs \ {n}, 1)'
      <3>1. SUFFICES ASSUME Sound PROVE RoundSound(t, n, ixs \ {n}, 1)'
        OBVIOUS
      <3>2. LoopSound(t, ixs)
        BY <1>2, <3>1
      <3>3. n \in expect.old.ixs /\ Settled(n) /\ db = expect.old
        BY <1>1, <1>2, <1>10, <3>2 DEF LoopSound, IndexesSound
      <3>4. files[n] = "ready" /\ Held(n)
        BY <3>3 DEF Settled, DiskOf, In
      <3>5. Open(n)
        BY <1>1, <3>4 DEF Held, HandlesKnown
      <3>6. /\ n \in expect'.old.ixs /\ files'[n] = "ready" /\ Held(n)' /\ Open(n)'
        BY <1>5, <2>4, <3>3, <3>4, <3>5 DEF Held, Open
      <3>7. \A j \in expect'.old.ixs \ {n} : TableOf[j] = t
            => IF j \in ixs \ {n} THEN Settled(j)' ELSE files'[j] = "none"
        BY <1>5, <1>8, <2>4, <3>2 DEF LoopSound, IndexesSound
      <3>8. Settled(t)' /\ OthersSound(t)' /\ db' = expect'.old /\ MetaIs("good", expect.old)'
            /\ ixs \ {n} \subseteq expect'.old.ixs
        BY <1>5, <1>8, <1>9, <2>4, <3>2 DEF LoopSound, MetaIs
      <3>9. QED
        BY <3>6, <3>7, <3>8 DEF RoundSound
    <2>7. DropsOne(s, t)'
      <3>1. 1 \in 1..2
        OBVIOUS
      <3>2. /\ prog'[s] = From(DestroyIndex(n), 1) \o Dropping(t, ixs \ {n})
            /\ IndexesLeft(t, IF 1 = 1 THEN (ixs \ {n}) \cup {n} ELSE ixs \ {n})'
            /\ Sound' => RoundSound(t, n, ixs \ {n}, 1)'
        BY <1>1, <2>3, <2>5, <2>6
      <3>3. QED
        BY <2>2, <3>1, <3>2 DEF DropsOne
    <2>8. QED
      BY <1>5, <1>6, <1>7, <2>3, <2>7, AfterGoesOn
  <1>11. CASE ixs = {} /\ Next1(s)
    <2>1. prog'[s] = From(DropRest(t), 1) /\ prog'[s] # <<>>
      BY <1>1, <1>4, <1>11 DEF Next1
    <2>2. expect' = expect
      BY <1>1, <2>1
    <2>3. DropTableAt(t, 1)'
      BY <1>2, <1>5, <1>11 DEF DropTableAt, IndexesLeft
    <2>4. Sound => DropTableSound(t, 1)'
      <3>1. SUFFICES ASSUME Sound PROVE DropTableSound(t, 1)'
        OBVIOUS
      <3>2. LoopSound(t, {})
        BY <1>2, <1>11, <3>1
      <3>3. In(t, expect.old)
        BY <3>1, DropTableContext DEF Drops
      <3>4. files[t] = "ready" /\ Held(t)
        BY <3>2, <3>3 DEF LoopSound, Settled, DiskOf
      <3>5. Open(t)
        BY <1>1, <3>4 DEF Held, HandlesKnown
      <3>6. IndexesSound(t, {})'
        BY <1>5, <2>2, <3>2 DEF LoopSound, IndexesSound
      <3>7. OthersSound(t)' /\ db' = expect'.old /\ MetaIs("good", expect.old)' /\ files'[t] = "ready"
            /\ Held(t)' /\ Open(t)'
        BY <1>5, <1>9, <2>2, <3>2, <3>4, <3>5 DEF LoopSound, MetaIs, Held, Open
      <3>8. QED
        BY <3>6, <3>7 DEF DropTableSound
    <2>5. DropsTable(s, t)'
      BY <1>1, <2>1, <2>3, <2>4 DEF DropsTable
    <2>6. QED
      BY <1>5, <1>6, <1>7, <2>1, <2>5, AfterGoesOn
  <1>12. QED
    BY <1>5, <1>10, <1>11

\* DROP TABLE, one of its indexes.
LEMMA DropsOneGoesOn ==
    ASSUME NEW s \in Sessions, Context(s), NEW t, t = query[s].name, query[s].op = "drop_table", DropsOne(s, t)
    PROVE  After(s)
  <1>1. Drops(s, t)
    BY DropTableContext
  <1>2. /\ ServerInv /\ MoreTypes /\ HandlesKnown /\ NumberedBut({}) /\ CatalogStep(s) /\ orphans' = orphans
        /\ s \in Threads /\ files \in [Paths -> {"none", "empty", "ready"}]
        /\ (Sound' <=> Sound) /\ phase # "starting"
        /\ prog'[s] # <<>> => expect' = expect
        /\ t \in TableNames /\ t \in Names /\ "log" \in Paths /\ Names \subseteq Paths /\ "log" \notin Names
    BY <1>1 DEF Drops
  <1>3. PICK ixs \in SUBSET IndexesOf(t) : \E j \in IndexesOf(t) \ ixs : \E k \in 1..2 :
            /\ prog[s] = From(DestroyIndex(j), k) \o Dropping(t, ixs)
            /\ IndexesLeft(t, IF k = 1 THEN ixs \cup {j} ELSE ixs)
            /\ Sound => RoundSound(t, j, ixs, k)
    BY DEF DropsOne
  <1>3a. PICK i \in IndexesOf(t) \ ixs, k \in 1..2 :
            /\ prog[s] = From(DestroyIndex(i), k) \o Dropping(t, ixs)
            /\ IndexesLeft(t, IF k = 1 THEN ixs \cup {i} ELSE ixs)
            /\ Sound => RoundSound(t, i, ixs, k)
    BY <1>3
  <1>4. /\ i \in IndexNames /\ i \in Names /\ i \in Paths /\ i # t /\ TableOf[i] = t /\ ixs \in SUBSET IndexNames
        /\ i # "log"
    BY <1>1, <1>2, <1>3, <1>3a DEF Drops
  <1>5. PICK q : q = Dropping(t, ixs)
    OBVIOUS
  <1>6. PICK d : d = DestroyIndex(i)
    OBVIOUS
  <1>7. WalksOn(d, 2, q) /\ q # <<>> /\ d[1] = Call("close_index", i) /\ d[2] = Call("destroy", i)
    <2>1. WalksOn(DestroyIndex(i), 2, Dropping(t, ixs)) /\ Dropping(t, ixs) # <<>>
      BY <1>2, <1>4, DropRoundCalls, DropTableCalls
    <2>2. DestroyIndex(i)[1] = Call("close_index", i) /\ DestroyIndex(i)[2] = Call("destroy", i)
      BY <1>4, DestroyIndexCalls
    <2>3. QED
      BY <2>1, <2>2, <1>5, <1>6
  <1>8. /\ Head(prog[s]) = d[k]
        /\ Next1(s) => prog'[s] = From(d, k + 1) \o q /\ prog'[s] # <<>>
        /\ k = 2 => From(d, k + 1) \o q = q
    <2>1. prog[s] = From(d, k) \o q /\ 2 \in Nat
      BY <1>3a, <1>5, <1>6
    <2>2. ServerInv /\ s \in Threads /\ WalksOn(d, 2, q) /\ q # <<>>
      BY <1>2, <1>7
    <2>3. Advances(s, d, 2, q, k)
      BY <2>1, <2>2, AdvanceOn
    <2>4. QED
      BY <2>3 DEF Advances
  <1>9. ASSUME Sound
        PROVE /\ RoundSound(t, i, ixs, k) /\ Orphaned(expect.old) /\ In(i, expect.old) /\ i \notin orphans
              /\ \A j \in expect.old.ixs : j \in Names
    BY <1>1, <1>3, <1>3a, <1>9 DEF Drops, RoundSound, Names
  <1>10. ASSUME Sound, Next1(s), \A n \in Names \ {i} : SameName(n)
         PROVE  /\ expect' = expect /\ Settled(t)' /\ OthersSound(t)'
                /\ \A j \in expect.old.ixs \ {i} : TableOf[j] = t
                   => IF j \in ixs THEN Settled(j)' ELSE files'[j] = "none"
    <2>1. expect' = expect
      BY <1>2, <1>8, <1>10
    <2>2. \A n \in Names \ {i} : Settled(n) => Settled(n)'
      BY <1>2, <1>10, StaysSettled
    <2>3. RoundSound(t, i, ixs, k)
      BY <1>9, <1>10
    <2>4. Settled(t)'
      BY <1>2, <1>4, <2>2, <2>3 DEF RoundSound
    <2>5. OthersSound(t)'
      BY <1>4, <2>1, <2>2, <2>3 DEF RoundSound, OthersSound
    <2>6. ASSUME NEW j \in expect.old.ixs \ {i}, TableOf[j] = t
          PROVE IF j \in ixs THEN Settled(j)' ELSE files'[j] = "none"
      <3>1. j \in Names \ {i}
        BY <1>9, <1>10
      <3>2. IF j \in ixs THEN Settled(j) ELSE files[j] = "none"
        BY <2>3, <2>6 DEF RoundSound
      <3>3. QED
        BY <1>10, <2>2, <3>1, <3>2 DEF SameName
    <2>7. QED
      BY <2>1, <2>4, <2>5, <2>6
  <1>20. CASE k = 1
    <2>1. /\ Next1(s) /\ DOMAIN fhs' = DOMAIN fhs \ {i} /\ DOMAIN ihs' = DOMAIN ihs \ {i}
          /\ \A n \in Paths \ {i} : Open(n)' <=> Open(n)
          /\ Open(i)' <=> Open(i) /\ ~Held(i)
          /\ HandlesKnown' /\ NumberedBut({})'
          /\ UNCHANGED <<dir, files, meta, db, fd2pageno, job, reg, outcome, phase, broken, ended, moved>>
      <3>1. Head(prog[s]) = Call("close_index", i)
        BY <1>7, <1>8, <1>20
      <3>2. QED
        BY <1>2, <1>4, <3>1, DoCloseHandle
    <2>2. prog'[s] = From(DestroyIndex(i), 2) \o Dropping(t, ixs) /\ prog'[s] # <<>>
      BY <1>5, <1>6, <1>8, <1>20, <2>1
    <2>3. IndexesLeft(t, ixs)'
      BY <1>3, <1>3a, <1>20, <2>1 DEF IndexesLeft
    <2>4. Sound => RoundSound(t, i, ixs, 2)'
      <3>1. SUFFICES ASSUME Sound PROVE RoundSound(t, i, ixs, 2)'
        OBVIOUS
      <3>2. RoundSound(t, i, ixs, 1)
        BY <3>1, <1>9, <1>20
      <3>3. \A n \in Names \ {i} : SameName(n)
        BY <1>2, <2>1 DEF SameName, In, Open, Held
      <3>4. /\ expect' = expect /\ Settled(t)' /\ OthersSound(t)'
            /\ \A j \in expect.old.ixs \ {i} : TableOf[j] = t
               => IF j \in ixs THEN Settled(j)' ELSE files'[j] = "none"
        BY <3>1, <3>3, <2>1, <1>10
      <3>5. ~Open(i)' /\ files'[i] = "ready" /\ db' = expect'.old /\ MetaIs("good", expect.old)'
        BY <3>2, <3>4, <2>1 DEF RoundSound, MetaIs
      <3>6. QED
        BY <3>2, <3>4, <3>5 DEF RoundSound
    <2>5. DropsOne(s, t)'
      <3>1. 2 \in 1..2
        OBVIOUS
      <3>2. /\ prog'[s] = From(DestroyIndex(i), 2) \o Dropping(t, ixs)
            /\ IndexesLeft(t, IF 2 = 1 THEN ixs \cup {i} ELSE ixs)'
            /\ Sound' => RoundSound(t, i, ixs, 2)'
        BY <1>2, <2>2, <2>3, <2>4
      <3>3. QED
        BY <1>3, <1>3a, <3>1, <3>2 DEF DropsOne
    <2>6. Sound => \A n \in orphans : files'[n] # "none"
      BY <1>9, <2>1 DEF Orphaned
    <2>7. QED
      BY <2>1, <2>2, <2>5, <2>6, AfterGoesOn
  <1>21. CASE k = 2
    <2>1. Sound => files[i] = "ready" /\ ~Open(i)
      BY <1>9, <1>21 DEF RoundSound
    <2>2. CASE (files[i] = "none" \/ Open(i)) /\ Throw(s)
      BY <2>1, <2>2, AfterThrow
    <2>3. CASE /\ Next1(s) /\ ~Open(i)
               /\ files'[i] = "none" /\ \A n \in Paths \ {i} : files'[n] = files[n]
               /\ UNCHANGED <<dir, meta, db, fhs, ihs, path2fd, fd2pageno, job, reg, outcome, phase, kernel, broken,
                              ended, moved>>
      <3>1. HandlesKnown' /\ NumberedBut({})'
        BY <1>2, <2>3 DEF HandlesKnown, NumberedBut, Numbered, Open
      <3>2. prog'[s] = Dropping(t, ixs) /\ prog'[s] # <<>>
        BY <1>5, <1>7, <1>8, <1>21, <2>3
      <3>3. IndexesLeft(t, ixs)'
        BY <1>3, <1>3a, <1>21, <2>3 DEF IndexesLeft
      <3>4. Sound => LoopSound(t, ixs)'
        <4>1. SUFFICES ASSUME Sound PROVE LoopSound(t, ixs)'
          OBVIOUS
        <4>2. RoundSound(t, i, ixs, 2)
          BY <4>1, <1>9, <1>21
        <4>3. \A n \in Names \ {i} : SameName(n)
          BY <1>2, <2>3 DEF SameName, In, Open, Held
        <4>4. /\ expect' = expect /\ Settled(t)' /\ OthersSound(t)'
              /\ \A j \in expect.old.ixs \ {i} :
                    TableOf[j] = t => IF j \in ixs THEN Settled(j)' ELSE files'[j] = "none"
          BY <4>1, <4>3, <2>3, <1>10
        <4>5. IndexesSound(t, ixs)'
          BY <4>4, <2>3, <1>3, <1>3a DEF IndexesSound
        <4>6. db' = expect'.old /\ MetaIs("good", expect.old)' /\ ixs \subseteq expect'.old.ixs
          BY <4>2, <4>4, <2>3 DEF RoundSound, MetaIs
        <4>7. QED
          BY <4>4, <4>5, <4>6 DEF LoopSound
      <3>5. DropsIndexes(s, t)'
        BY <1>2, <1>3, <1>3a, <3>2, <3>3, <3>4 DEF DropsIndexes
      <3>6. Sound => \A n \in orphans : files'[n] # "none"
        BY <1>2, <1>9, <2>3 DEF Orphaned, MoreTypes
      <3>7. files'["log"] = files["log"]
        BY <1>2, <1>4, <2>3
      <3>8. QED
        BY <2>3, <3>1, <3>2, <3>5, <3>6, <3>7, AfterGoesOn
    <2>4. QED
      BY <1>2, <1>4, <1>7, <1>8, <1>21, <2>2, <2>3, DoDestroy
  <1>22. QED
    BY <1>20, <1>21

\* DROP TABLE, after its indexes.
LEMMA DropsTableGoesOn ==
    ASSUME NEW s \in Sessions, Context(s), NEW t, t = query[s].name, query[s].op = "drop_table", DropsTable(s, t)
    PROVE  After(s)
  <1>1. Drops(s, t)
    BY DropTableContext
  <1>2. /\ ServerInv /\ MoreTypes /\ HandlesKnown /\ NumberedBut({}) /\ OnDisk /\ CatalogStep(s)
        /\ orphans' = orphans
        /\ s \in Threads /\ files \in [Paths -> {"none", "empty", "ready"}]
        /\ (Sound' <=> Sound) /\ phase # "starting"
        /\ prog'[s] # <<>> => expect' = expect
        /\ t \in TableNames /\ t \in Names /\ t \in Paths /\ t \notin IndexNames /\ t # "log"
        /\ "log" \in Paths /\ Names \subseteq Paths /\ "log" \notin Names
    BY <1>1 DEF Drops
  <1>3. PICK k \in 1..5 : /\ prog[s] = From(DropRest(t), k) /\ DropTableAt(t, k)
                          /\ Sound => DropTableSound(t, k)
    BY DEF DropsTable
  <1>4. PICK p : p = DropRest(t)
    OBVIOUS
  <1>5. /\ Walks(p, 5)
        /\ p[1] = Call("close_file", t) /\ p[2] = Call("destroy", t)
        /\ p[3] = Call("remove_table", t) /\ p[4] = Call("truncate", "meta")
        /\ p[5] = Call("write_meta", "meta")
    BY <1>2, <1>4, DropRestCalls
  <1>6. /\ Head(prog[s]) = p[k]
        /\ Next1(s) => prog'[s] = From(p, k + 1)
        /\ k < 5 => From(p, k + 1) # <<>>
        /\ k = 5 => From(p, k + 1) = <<>>
    BY <1>2, <1>3, <1>4, <1>5, Advance
  <1>7. ASSUME Next1(s), k < 5 PROVE prog'[s] # <<>> /\ expect' = expect
    BY <1>2, <1>6, <1>7
  <1>8. ASSUME Next1(s), k < 5, outcome' = outcome, HandlesKnown', NumberedBut({})', dir' = dir,
               \A n \in Paths \ {t} : files'[n] = files[n],
               DropTableAt(t, k + 1)', Sound => DropTableSound(t, k + 1)'
        PROVE After(s)
    <2>1. k + 1 \in 1..5 /\ prog'[s] = From(DropRest(t), k + 1)
      BY <1>4, <1>6, <1>8
    <2>2. DropsTable(s, t)'
      BY <2>1, <1>2, <1>8 DEF DropsTable
    <2>3. files'["log"] = files["log"]
      BY <1>2, <1>8
    <2>4. Sound => \A n \in orphans : files'[n] # "none"
      BY <1>1, <1>2, <1>8 DEF Drops, Orphaned, MoreTypes
    <2>5. QED
      BY <2>2, <2>3, <2>4, <1>7, <1>8, AfterGoesOn
  <1>9. ASSUME Sound
        PROVE /\ DropTableSound(t, k) /\ In(t, expect.old) /\ t \notin orphans
              /\ expect.new = [tabs |-> expect.old.tabs \ {t}, ixs |-> {i \in expect.old.ixs : TableOf[i] # t}]
              /\ \A n : In(n, expect.new) <=>
                           In(n, expect.old) /\ n # t /\ ~(n \in expect.old.ixs /\ TableOf[n] = t)
              /\ \A i \in expect.old.ixs : i \in Paths /\ i # t
    <2>1. \A i \in expect.old.ixs : i \in Paths /\ i # t
      BY <1>1, <1>2, <1>9 DEF Drops, Paths
    <2>2. QED
      BY <1>1, <1>3, <1>9, <2>1 DEF Drops
  <1>10. ASSUME Sound, Next1(s), k < 5, \A n \in Paths \ {t} : files'[n] = files[n],
                \A n \in Names : n # t /\ ~(n \in expect.old.ixs /\ TableOf[n] = t) => SameName(n)
         PROVE  expect' = expect /\ OthersSound(t)' /\ IndexesSound(t, {})'
    <2>1. expect' = expect /\ DropTableSound(t, k)
      BY <1>7, <1>9, <1>10
    <2>2. OthersSound(t)'
      BY <2>1, <1>2, <1>10, StaysSettled DEF DropTableSound, OthersSound
    <2>3. IndexesSound(t, {})'
      BY <2>1, <1>9, <1>10 DEF DropTableSound, IndexesSound
    <2>4. QED
      BY <2>1, <2>2, <2>3
  <1>20. CASE k = 1
    <2>1. /\ Next1(s) /\ DOMAIN fhs' = DOMAIN fhs \ {t} /\ DOMAIN ihs' = DOMAIN ihs \ {t}
          /\ \A n \in Paths \ {t} : Open(n)' <=> Open(n)
          /\ Open(t)' <=> Open(t) /\ ~Held(t)
          /\ HandlesKnown' /\ NumberedBut({})'
          /\ UNCHANGED <<dir, files, meta, db, fd2pageno, job, reg, outcome, phase, broken, ended, moved>>
      <3>1. Head(prog[s]) = Call("close_file", t)
        BY <1>5, <1>6, <1>20
      <3>2. QED
        BY <1>2, <3>1, DoCloseHandle
    <2>2. DropTableAt(t, k + 1)'
      BY <1>3, <1>20, <2>1 DEF DropTableAt, IndexesLeft
    <2>3. Sound => DropTableSound(t, k + 1)'
      <3>1. SUFFICES ASSUME Sound PROVE DropTableSound(t, 2)'
        BY <1>20
      <3>2. \A n \in Names \ {t} : SameName(n)
        BY <1>2, <2>1 DEF SameName, In, Open, Held
      <3>3. expect' = expect /\ OthersSound(t)' /\ IndexesSound(t, {})'
        BY <3>1, <3>2, <1>10, <1>20, <2>1
      <3>4. DropTableSound(t, 1)
        BY <3>1, <1>9, <1>20
      <3>5. UNCHANGED <<files, meta, db>> /\ ~Open(t)'
        BY <2>1, <3>4 DEF DropTableSound
      <3>6. QED
        BY <3>3, <3>4, <3>5 DEF DropTableSound, MetaIs
    <2>4. QED
      BY <1>8, <1>20, <2>1, <2>2, <2>3
  <1>21. CASE k = 2
    <2>1. Sound => files[t] = "ready" /\ ~Open(t)
      BY <1>9, <1>21 DEF DropTableSound
    <2>2. CASE (files[t] = "none" \/ Open(t)) /\ Throw(s)
      BY <2>1, <2>2, AfterThrow
    <2>3. CASE /\ Next1(s) /\ ~Open(t)
               /\ files'[t] = "none" /\ \A n \in Paths \ {t} : files'[n] = files[n]
               /\ UNCHANGED <<dir, meta, db, fhs, ihs, path2fd, fd2pageno, job, reg, outcome, phase, kernel, broken,
                              ended, moved>>
      <3>1. HandlesKnown' /\ NumberedBut({})'
        BY <1>2, <2>3 DEF HandlesKnown, NumberedBut, Numbered, Open
      <3>2. DropTableAt(t, k + 1)'
        BY <1>3, <1>21, <2>3 DEF DropTableAt, IndexesLeft
      <3>3. Sound => DropTableSound(t, k + 1)'
        <4>1. SUFFICES ASSUME Sound PROVE DropTableSound(t, 3)'
          BY <1>21
        <4>2. \A n \in Names \ {t} : SameName(n)
          BY <1>2, <2>3 DEF SameName, In, Open, Held
        <4>3. expect' = expect /\ OthersSound(t)' /\ IndexesSound(t, {})'
          BY <4>1, <4>2, <1>10, <1>21, <2>3
        <4>4. DropTableSound(t, 2)
          BY <4>1, <1>9, <1>21
        <4>5. UNCHANGED <<meta, db, path2fd>> /\ files'[t] = "none"
          BY <2>3
        <4>6. QED
          BY <4>3, <4>4, <4>5 DEF DropTableSound, MetaIs, Open
      <3>4. QED
        BY <1>8, <1>21, <2>3, <3>1, <3>2, <3>3
    <2>4. QED
      BY <1>2, <1>5, <1>6, <1>21, <2>2, <2>3, DoDestroy
  <1>22. CASE k = 3
    <2>1. /\ Next1(s) /\ db' = [tabs |-> db.tabs \ {t}, ixs |-> {i \in db.ixs : TableOf[i] # t}]
          /\ UNCHANGED <<dir, files, meta, fhs, ihs, path2fd, fd2pageno, job, reg, outcome, phase, kernel, broken,
                         ended, moved>>
      <3>1. Head(prog[s]) = Call("remove_table", t)
        BY <1>5, <1>6, <1>22
      <3>2. QED
        BY <1>2, <3>1, DoChange
    <2>2. /\ db'.tabs = db.tabs \ {t} /\ db'.ixs = {i \in db.ixs : TableOf[i] # t}
          /\ t \notin DOMAIN fhs /\ \A i \in DOMAIN ihs : TableOf[i] # t
      BY <1>3, <1>22, <2>1 DEF DropTableAt, IndexesLeft
    <2>3. HandlesKnown' /\ NumberedBut({})'
      BY <1>2, <2>1, <2>2 DEF HandlesKnown, NumberedBut, Numbered, Open
    <2>4. DropTableAt(t, k + 1)'
      BY <1>22 DEF DropTableAt
    <2>5. Sound => DropTableSound(t, k + 1)'
      <3>1. SUFFICES ASSUME Sound PROVE DropTableSound(t, 4)'
        BY <1>22
      <3>2. DropTableSound(t, 3) /\ db = expect.old
        BY <3>1, <1>9, <1>22 DEF DropTableSound
      <3>3. db' = expect.new
        BY <3>1, <3>2, <1>9, <2>1
      <3>4. \A n \in Names : n # t /\ ~(n \in expect.old.ixs /\ TableOf[n] = t) => SameName(n)
        BY <3>1, <3>2, <3>3, <1>9, <2>1 DEF SameName, In, Open, Held
      <3>5. expect' = expect /\ OthersSound(t)' /\ IndexesSound(t, {})'
        BY <3>1, <3>4, <1>10, <1>22, <2>1
      <3>6. UNCHANGED <<files, meta, path2fd>>
        BY <2>1
      <3>7. QED
        BY <3>2, <3>3, <3>5, <3>6 DEF DropTableSound, MetaIs, Open
    <2>6. QED
      BY <1>8, <1>22, <2>1, <2>3, <2>4, <2>5
  <1>23. CASE k = 4
    <2>1. /\ Next1(s) /\ meta' = [meta EXCEPT !.state = "torn"]
          /\ UNCHANGED <<dir, files, db, fhs, ihs, path2fd, fd2pageno, job, reg, outcome, phase, kernel, broken,
                         ended, moved>>
      BY <1>2, <1>5, <1>6, <1>23, DoTruncate
    <2>2. HandlesKnown' /\ NumberedBut({})'
      BY <1>2, <2>1 DEF HandlesKnown, NumberedBut, Numbered, Open
    <2>3. DropTableAt(t, k + 1)'
      BY <1>23 DEF DropTableAt
    <2>4. Sound => DropTableSound(t, k + 1)'
      <3>1. SUFFICES ASSUME Sound PROVE DropTableSound(t, 5)'
        BY <1>23
      <3>2. \A n \in Names : SameName(n)
        BY <2>1 DEF SameName, In, Open, Held
      <3>3. expect' = expect /\ OthersSound(t)' /\ IndexesSound(t, {})'
        BY <3>1, <3>2, <1>10, <1>23, <2>1
      <3>4. DropTableSound(t, 4)
        BY <3>1, <1>9, <1>23
      <3>5. meta' = [state |-> "torn", cat |-> expect.old]
        BY <3>4, <2>1 DEF DropTableSound, MetaIs
      <3>6. UNCHANGED <<files, db, path2fd>>
        BY <2>1
      <3>7. QED
        BY <3>3, <3>4, <3>5, <3>6 DEF DropTableSound, MetaIs, Open
    <2>5. QED
      BY <1>8, <1>23, <2>1, <2>2, <2>3, <2>4
  <1>24. CASE k = 5
    <2>1. prog'[s] = <<>> /\ Head(prog[s]) = Call("write_meta", "meta")
      BY <1>2, <1>5, <1>6, <1>24, DoWriteMeta
    <2>2. ASSUME Sound PROVE db = expect.new /\ \A n \in Names : Settled(n)
      <3>1. DropTableSound(t, 5) /\ db = expect.new
        BY <2>2, <1>9, <1>24 DEF DropTableSound
      <3>2. ASSUME NEW n \in Names PROVE Settled(n)
        <4>1. CASE n = t
          BY <2>2, <3>1, <4>1, <1>9 DEF DropTableSound, Settled, DiskOf
        <4>2. CASE n \in expect.old.ixs /\ TableOf[n] = t
          <5>1. files[n] = "none" /\ ~In(n, db)
            BY <2>2, <3>1, <4>2, <1>9 DEF DropTableSound, IndexesSound
          <5>2. ~Open(n)
            BY <5>1, <1>2 DEF OnDisk, Open
          <5>3. QED
            BY <5>1, <5>2 DEF Settled, DiskOf
        <4>3. CASE n # t /\ ~(n \in expect.old.ixs /\ TableOf[n] = t)
          BY <3>1, <4>3 DEF DropTableSound, OthersSound
        <4>4. QED
          BY <4>1, <4>2, <4>3
      <3>3. QED
        BY <3>1, <3>2
    <2>3. QED
      BY <2>1, <2>2, AfterEnd DEF Creates
  <1>25. QED
    BY <1>20, <1>21, <1>22, <1>23, <1>24

\* Whatever the statement is.
LEMMA SessionGoesOn ==
    ASSUME NEW s \in Sessions, Context(s)
    PROVE  After(s)
  <1>1. PICK q : q = query[s]
    OBVIOUS
  <1>2. \/ q.op = "create_table" /\ CreatesTable(s, q.name)
        \/ q.op = "create_index" /\ (CreatesIndex(s, q.name) \/ GivesUpIndex(s, q.name))
        \/ q.op = "drop_index" /\ DropsIndex(s, q.name)
        \/ q.op = "drop_table" /\ (DropsIndexes(s, q.name) \/ DropsOne(s, q.name) \/ DropsTable(s, q.name))
    BY <1>1 DEF Context, DdlAt
  <1>3. CASE q.op = "create_table" /\ CreatesTable(s, q.name)
    BY <1>1, <1>3, CreateTableGoesOn
  <1>4. CASE q.op = "create_index" /\ CreatesIndex(s, q.name)
    BY <1>1, <1>4, CreateIndexGoesOn
  <1>5. CASE q.op = "create_index" /\ GivesUpIndex(s, q.name)
    BY <1>1, <1>5, GivesUpGoesOn
  <1>6. CASE q.op = "drop_index" /\ DropsIndex(s, q.name)
    BY <1>1, <1>6, DropIndexGoesOn
  <1>7. CASE q.op = "drop_table" /\ DropsIndexes(s, q.name)
    BY <1>1, <1>7, DropsIndexesGoesOn
  <1>8. CASE q.op = "drop_table" /\ DropsOne(s, q.name)
    BY <1>1, <1>8, DropsOneGoesOn
  <1>9. CASE q.op = "drop_table" /\ DropsTable(s, q.name)
    BY <1>1, <1>9, DropsTableGoesOn
  <1>10. QED
    BY <1>2, <1>3, <1>4, <1>5, <1>6, <1>7, <1>8, <1>9

\* How a call ends the process.
LEMMA PhaseEnds ==
    ASSUME ServerInv, NEW th \in Threads, CatalogStep(th), phase # "down", phase' = "down"
    PROVE  \/ th \in Sessions /\ ProcessEnds("killed")
           \/ th = "main" /\ Head(prog[th]).op = "exit" /\ ProcessEnds("closed")
           \/ /\ th = "main" /\ ProcessEnds("failed")
              /\ Throw(th) \/ (Head(prog[th]).op = "load_meta" /\ meta.state # "good")
  <1>1. prog[th] # <<>>
    BY TheStep
  <1>2. Throw(th) => th = "main" /\ ProcessEnds("failed")
    BY DEF Throw
  <1>3. th = "main" \/ (th \in Sessions /\ th # "main")
    BY NamesApart DEF Threads
  <1>4. CASE Exit(th)
    <2>1. Head(prog[th]).op = "exit" /\ ProcessEnds("closed")
      BY <1>4 DEF Exit, Calls
    <2>2. th = "main"
      BY <1>1, <2>1, HeadName DEF ServerInv
    <2>3. QED
      BY <2>1, <2>2
  <1>5. CASE LoadMeta(th)
    <2>1. Head(prog[th]).op = "load_meta" /\ meta.state # "good" /\ ProcessEnds("failed")
      BY <1>5 DEF LoadMeta, Calls
    <2>2. th = "main"
      BY <1>1, <2>1, HeadName DEF ServerInv
    <2>3. QED
      BY <2>1, <2>2
  <1>6. CASE Fill(th)
    <2>1. Head(prog[th]).op = "fill" /\ ProcessEnds("killed")
      BY <1>6 DEF Fill, Calls
    <2>2. th # "main"
      BY <1>1, <2>1, HeadName DEF ServerInv
    <2>3. QED
      BY <1>3, <2>1, <2>2
  <1>7. CASE Throw(th)
    BY <1>2, <1>7
  <1>8. CASE Loop(th) \/ CreateFile(th) \/ DestroyFile(th) \/ OpenFile(th) \/ CloseFile(th) \/ WriteHeader(th)
    BY <1>7, <1>8 DEF Loop, CreateFile, DestroyFile, OpenFile, CloseFile, WriteHeader
  <1>9. CASE CheckLength(th) \/ SetPageNo(th) \/ Duplicate(th) \/ Register(th)
    BY <1>7, <1>9 DEF CheckLength, SetPageNo, Duplicate, Register
  <1>10. CASE CloseHandle(th) \/ ShutHandle(th) \/ ClearMaps(th) \/ TruncateMeta(th) \/ WriteMeta(th)
              \/ MakeDir(th) \/ Serve(th)
    BY <1>7, <1>10 DEF CloseHandle, ShutHandle, ClearMaps, TruncateMeta, WriteMeta, MakeDir, Serve
  <1>11. QED
    BY <1>4, <1>5, <1>6, <1>8, <1>9, <1>10 DEF CatalogStep

\* A statement that succeeds keeps the catalog well-formed.
LEMMA EffectSound ==
    ASSUME NEW q \in Ddl, NEW cat \in Catalogs, Allowed(cat, q), WellFormed(cat), Orphaned(cat),
           Creates(q) => q.name \notin orphans \cup TooLong
    PROVE  WellFormed(Effect(cat, q)) /\ \A n \in orphans : ~In(n, Effect(cat, q))
  <1>1. q.op \in {"create_table", "drop_table", "create_index", "drop_index"}
    BY DEF Allowed, Ddl
  <1>2. \A n \in orphans : ~In(n, Effect(cat, q))
    BY <1>1, EffectNames DEF Creates, Orphaned
  <1>3. CASE q.op = "create_table"
    <2>1. Effect(cat, q) = [cat EXCEPT !.tabs = @ \cup {q.name}]
      BY <1>3 DEF Effect
    <2>2. Effect(cat, q).tabs = cat.tabs \cup {q.name} /\ Effect(cat, q).ixs = cat.ixs
      BY <2>1 DEF Catalogs
    <2>3. QED
      BY <1>2, <2>2 DEF WellFormed
  <1>4. CASE q.op = "create_index"
    <2>1. Effect(cat, q) = [cat EXCEPT !.ixs = @ \cup {q.name}]
      BY <1>4 DEF Effect
    <2>2. Effect(cat, q).tabs = cat.tabs /\ Effect(cat, q).ixs = cat.ixs \cup {q.name}
      BY <2>1 DEF Catalogs
    <2>3. TableOf[q.name] \in cat.tabs
      BY <1>4 DEF Allowed
    <2>4. QED
      BY <1>2, <1>4, <2>2, <2>3 DEF WellFormed, Creates
  <1>5. CASE q.op = "drop_index"
    <2>1. Effect(cat, q) = [cat EXCEPT !.ixs = @ \ {q.name}]
      BY <1>5 DEF Effect
    <2>2. Effect(cat, q).tabs = cat.tabs /\ Effect(cat, q).ixs = cat.ixs \ {q.name}
      BY <2>1 DEF Catalogs
    <2>3. QED
      BY <1>2, <2>2 DEF WellFormed
  <1>6. CASE q.op = "drop_table"
    <2>1. Effect(cat, q) = [tabs |-> cat.tabs \ {q.name}, ixs |-> {i \in cat.ixs : TableOf[i] # q.name}]
      BY <1>6 DEF Effect
    <2>2. Effect(cat, q).tabs = cat.tabs \ {q.name} /\ Effect(cat, q).ixs = {i \in cat.ixs : TableOf[i] # q.name}
      BY <2>1
    <2>3. QED
      BY <1>2, <2>2 DEF WellFormed
  <1>7. QED
    BY <1>1, <1>3, <1>4, <1>5, <1>6

\* A call of a statement while the server is up.
LEMMA SessionUp ==
    ASSUME ServerInv, CatalogInv, NEW s \in Sessions, Context(s)
    PROVE  CatalogInv'
  <1>1. After(s)
    BY SessionGoesOn
  <1>2. /\ MoreTypes' /\ OneDdl' /\ OnDisk' /\ phase' = "up" /\ orphans' = orphans /\ ended' = ended
        /\ Settles(s) /\ (Sound' <=> Sound) /\ Changing(s)
        /\ \A r \in Threads \ {s} : prog'[r] = prog[r]
    BY DEF Context, Goes
  <1>3. HandlesKnown' /\ NumberedBut({})' /\ dir' = dir /\ files'["log"] = files["log"]
    BY <1>1 DEF After
  <1>4. \A r \in Sessions \ {s} : ~Changing(r)'
    BY <1>2 DEF CatalogInv, OneDdl, Changing, Threads
  <1>5. ASSUME NEW r \in Sessions, Changing(r)' PROVE DdlAt(r)'
    <2>1. r = s /\ prog'[s] # <<>>
      BY <1>4, <1>5 DEF Changing
    <2>2. QED
      BY <2>1, <1>1 DEF After
  <1>6. ended' = "failed" => ~Sound'
    BY <1>2 DEF CatalogInv
  <1>7. ASSUME Sound'
        PROVE /\ dir' /\ files'["log"] # "none" /\ WellFormed(expect.old)' /\ Orphaned(expect.old)'
              /\ Idle' => IdleSound'
    <2>1. Sound /\ dir /\ files["log"] # "none" /\ WellFormed(expect.old) /\ Orphaned(expect.old)
      BY <1>2, <1>7 DEF CatalogInv, Context
    <2>2. \A n \in orphans : files'[n] # "none"
      BY <1>1, <2>1 DEF After
    <2>3. CASE prog'[s] # <<>>
      <3>1. expect' = expect
        BY <1>2, <2>3 DEF Settles
      <3>2. ~Idle'
        BY <2>3 DEF Idle, Changing
      <3>3. QED
        BY <1>2, <1>3, <2>1, <2>2, <3>1, <3>2 DEF WellFormed, Orphaned, In
    <2>4. CASE prog'[s] = <<>>
      <3>1. /\ db' = IF outcome'[s] = "ok" THEN expect.new ELSE expect.old
            /\ meta' = [state |-> "good", cat |-> db']
            /\ \A n \in Names : Settled(n)'
            /\ outcome'[s] = "failure" <=> Forbidden(s)
        BY <1>1, <2>1, <2>4 DEF After
      <3>2. expect' = [old |-> db', new |-> db']
        BY <1>2, <2>4, <3>1 DEF Settles
      <3>3. expect'.old = db' /\ expect'.new = db'
        BY <3>2
      <3>4. IdleSound'
        BY <3>1, <3>3 DEF IdleSound, MetaIs
      <3>5. WellFormed(db') /\ \A n \in orphans : ~In(n, db')
        <4>1. CASE outcome'[s] = "ok"
          <5>1. /\ Allowed(expect.old, query[s]) /\ expect.new = Effect(expect.old, query[s])
                /\ expect.old \in Catalogs /\ query[s] \in Ddl
            BY <2>1 DEF Context, DdlAt, MoreTypes
          <5>2. Creates(query[s]) => query[s].name \notin orphans \cup TooLong
            BY <3>1, <4>1, LeftBehind DEF Forbidden
          <5>3. QED
            BY <2>1, <3>1, <4>1, <5>1, <5>2, EffectSound
        <4>2. CASE outcome'[s] # "ok"
          BY <2>1, <3>1, <4>2 DEF Orphaned
        <4>3. QED
          BY <4>1, <4>2
      <3>6. WellFormed(expect.old)' /\ Orphaned(expect.old)'
        BY <1>2, <2>2, <3>3, <3>5 DEF WellFormed, Orphaned, In
      <3>7. QED
        BY <1>3, <2>1, <3>4, <3>6
    <2>5. QED
      BY <2>3, <2>4
  <1>8. QED
    BY <1>2, <1>3, <1>5, <1>6, <1>7 DEF CatalogInv

\* A call of a statement, whenever.
LEMMA SessionSteps ==
    ASSUME ServerInv, CatalogInv, NEW s \in Sessions, Step(s), History
    PROVE  CatalogInv'
  <1>1. s \in Threads /\ s # "main" /\ CatalogStep(s) /\ Changing(s)
    BY TheStep, NamesApart DEF Step, Threads, Changing
  <1>2. phase \in {"up", "closing"}
    BY <1>1 DEF ServerInv, TypeInv, ProgInv, Changing
  <1>3. CASE phase' = "down"
    <2>1. ProcessEnds("killed") /\ AllGone
      BY <1>1, <1>2, <1>3, PhaseEnds DEF Step
    <2>2. QED
      BY <1>2, <2>1, EndsSound
  <1>4. CASE phase' # "down" /\ phase = "up"
    <2>1. Context(s)
      BY <1>4, ContextHolds
    <2>2. QED
      BY <2>1, SessionUp
  <1>5. CASE phase' # "down" /\ phase = "closing"
    <2>1. Goes(s) /\ phase' = "closing"
      BY <1>1, <1>5, StepKeeps DEF CatalogInv
    <2>2. ~Sound'
      <3>1. tainted'
        BY <1>1, <1>5, <2>1 DEF Goes
      <3>2. QED
        BY <3>1 DEF Sound
    <2>3. QED
      BY <2>1, <2>2 DEF CatalogInv, Goes
  <1>6. QED
    BY <1>2, <1>3, <1>4, <1>5

=============================================================================
