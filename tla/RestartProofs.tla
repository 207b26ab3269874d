---------------------------- MODULE RestartProofs ----------------------------
(***************************************************************************)
(* The catalog's invariant through the start, the shutdown and the end of  *)
(* the process, and what follows from it for any tables, indexes, clients  *)
(* and sessions: the catalog is consistent between statements, the next    *)
(* start comes up, indexes have the page numbers they were created for,    *)
(* and a DDL statement fails exactly when it has to.                       *)
(***************************************************************************)
EXTENDS CatalogProofs

-----------------------------------------------------------------------------
\* The calls that are still to come

\* A call of p.
Has(p, op, names) == \E k \in DOMAIN p : p[k].op = op /\ p[k].name \in names

LEMMA HasIn ==
    ASSUME NEW p \in Seq(AnyCall), NEW j \in 1..Len(p), NEW op, NEW n, p[j] = Call(op, n)
    PROVE  Has(p, op, {n})
BY CallFields DEF Has

LEMMA HasFrom ==
    ASSUME NEW p \in Seq(AnyCall), NEW k \in 1..Len(p), NEW j \in k..Len(p), NEW op, NEW n, p[j] = Call(op, n)
    PROVE  Has(From(p, k), op, {n})
  <1>1. /\ From(p, k) \in Seq(AnyCall) /\ Len(From(p, k)) = Len(p) - k + 1
        /\ \A i \in 1..Len(p) - k + 1 : From(p, k)[i] = p[k + i - 1]
    BY FromCalls
  <1>2. PICK u \in Seq(AnyCall) : u = From(p, k)
    BY <1>1
  <1>3. PICK i \in 1..Len(p) - k + 1 : k + i - 1 = j
    <2>1. j - k + 1 \in 1..Len(p) - k + 1 /\ k + (j - k + 1) - 1 = j
      OBVIOUS
    <2>2. QED
      BY <2>1
  <1>4. u[i] = Call(op, n) /\ i \in 1..Len(u)
    BY <1>1, <1>2, <1>3
  <1>5. QED
    BY <1>2, <1>4, HasIn

LEMMA HasThen ==
    ASSUME NEW p \in Seq(AnyCall), NEW q \in Seq(AnyCall), NEW op, NEW names,
           Has(p, op, names) \/ Has(q, op, names)
    PROVE  Has(p \o q, op, names)
  <1>1. /\ p \o q \in Seq(AnyCall) /\ Len(p \o q) = Len(p) + Len(q)
        /\ \A k \in 1..Len(p) + Len(q) : (p \o q)[k] = IF k <= Len(p) THEN p[k] ELSE q[k - Len(p)]
    BY JoinedCalls
  <1>2. PICK u \in Seq(AnyCall) : u = p \o q
    BY <1>1
  <1>3. Len(u) = Len(p) + Len(q) /\ \A k \in 1..Len(u) : u[k] = IF k <= Len(p) THEN p[k] ELSE q[k - Len(p)]
    BY <1>1, <1>2
  <1>4. CASE Has(p, op, names)
    <2>1. PICK k \in 1..Len(p) : p[k].op = op /\ p[k].name \in names
      BY <1>4 DEF Has
    <2>2. k \in 1..Len(u) /\ u[k] = p[k]
      BY <1>3
    <2>3. Has(u, op, names)
      BY <2>1, <2>2 DEF Has
    <2>4. QED
      BY <1>2, <2>3
  <1>5. CASE Has(q, op, names)
    <2>1. PICK k \in 1..Len(q) : q[k].op = op /\ q[k].name \in names
      BY <1>5 DEF Has
    <2>2. k + Len(p) \in 1..Len(u) /\ ~(k + Len(p) <= Len(p)) /\ k + Len(p) - Len(p) = k
      BY <1>3
    <2>3. u[k + Len(p)] = q[k]
      BY <1>3, <2>2
    <2>4. Has(u, op, names)
      BY <2>1, <2>2, <2>3 DEF Has
    <2>5. QED
      BY <1>2, <2>4
  <1>6. QED
    BY <1>4, <1>5

\* Every statement has db.meta yet to write, but a CREATE INDEX that has met a duplicate.
LEMMA WritesMeta ==
    ASSUME ServerInv, OneDdl, NEW s \in Sessions, Changing(s), DdlAt(s)
    PROVE  \/ Pending(s, "write_meta", {"meta"})
           \/ query[s].op = "create_index" /\ GivesUpIndex(s, query[s].name)
  <1>1. PICK q : q = query[s]
    OBVIOUS
  <1>2. q \in Ddl
    BY <1>1, DdlQuery
  <1>3. Pending(s, "write_meta", {"meta"}) <=> Has(prog[s], "write_meta", {"meta"})
    BY DEF Pending, Has
  <1>4. ASSUME NEW p, NEW n \in Nat, Walks(p, n), NEW k \in 1..n, p[n] = Call("write_meta", "meta")
        PROVE Has(From(p, k), "write_meta", {"meta"})
    <2>1. p \in Seq(AnyCall) /\ Len(p) = n /\ n \in k..n
      BY <1>4 DEF Walks
    <2>2. QED
      BY <2>1, <1>4, HasFrom
  <1>5. CASE q.op = "create_table"
    <2>1. q.name \in TableNames
      BY <1>2, <1>5 DEF Ddl
    <2>2. PICK k \in 1..8 : prog[s] = From(CreateTable(q.name), k)
      BY <1>1, <1>5 DEF DdlAt, CreatesTable
    <2>3. Walks(CreateTable(q.name), 8) /\ CreateTable(q.name)[8] = Call("write_meta", "meta")
      BY <2>1, CreateTableCalls
    <2>4. QED
      BY <2>2, <2>3, <1>3, <1>4
  <1>6. CASE q.op = "create_index" /\ CreatesIndex(s, q.name)
    <2>1. q.name \in IndexNames
      BY <1>2, <1>6 DEF Ddl
    <2>2. PICK k \in 1..12 : prog[s] = From(CreateIndex(q.name), k)
      BY <1>6 DEF CreatesIndex
    <2>3. Walks(CreateIndex(q.name), 12) /\ CreateIndex(q.name)[12] = Call("write_meta", "meta")
      BY <2>1, CreateIndexCalls
    <2>4. QED
      BY <2>2, <2>3, <1>3, <1>4
  <1>7. CASE q.op = "drop_index"
    <2>1. q.name \in IndexNames
      BY <1>2, <1>7 DEF Ddl
    <2>2. PICK k \in 1..5 : prog[s] = From(DropIndex(q.name), k)
      BY <1>1, <1>7 DEF DdlAt, DropsIndex
    <2>3. Walks(DropIndex(q.name), 5) /\ DropIndex(q.name)[5] = Call("write_meta", "meta")
      BY <2>1, DropIndexCalls
    <2>4. QED
      BY <2>2, <2>3, <1>3, <1>4
  <1>8. CASE q.op = "drop_table"
    <2>1. q.name \in TableNames
      BY <1>2, <1>8 DEF Ddl
    <2>2. PICK t \in TableNames : t = q.name
      BY <2>1
    <2>3. Walks(DropRest(t), 5) /\ DropRest(t)[5] = Call("write_meta", "meta")
      BY DropRestCalls
    <2>4. DropRest(t) \in Seq(AnyCall) /\ Has(DropRest(t), "write_meta", {"meta"})
      <3>1. DropRest(t) \in Seq(AnyCall) /\ Len(DropRest(t)) = 5
        BY <2>3 DEF Walks
      <3>2. PICK r \in Seq(AnyCall) : r = DropRest(t)
        BY <3>1
      <3>3. 5 \in 1..Len(r) /\ r[5] = Call("write_meta", "meta")
        <4>1. Len(r) = 5 /\ r[5] = Call("write_meta", "meta")
          BY <2>3, <3>1, <3>2, Zenon
        <4>2. QED
          BY <4>1
      <3>4. QED
        BY <3>1, <3>2, <3>3, HasIn
    <2>5. ASSUME NEW ixs \in SUBSET IndexesOf(t)
          PROVE Dropping(t, ixs) \in Seq(AnyCall) /\ Has(Dropping(t, ixs), "write_meta", {"meta"})
      <3>1. ixs \in SUBSET IndexNames
        BY DEF IndexesOf
      <3>2. PICK c : c = <<ForEach(ixs, "destroy_index")>>
        OBVIOUS
      <3>3. c \in Seq(AnyCall)
        BY <3>1, <3>2, TheCalls
      <3>4. Has(c \o DropRest(t), "write_meta", {"meta"})
        BY <2>4, <3>3, HasThen
      <3>5. QED
        BY <3>1, <3>2, <3>4, DropTableCalls DEF Dropping
    <2>6. CASE DropsIndexes(s, t)
      BY <1>3, <2>5, <2>6 DEF DropsIndexes
    <2>7. CASE DropsOne(s, t)
      <3>1. PICK ixs \in SUBSET IndexesOf(t) : \E i \in IndexesOf(t) : \E k \in 1..2 :
                prog[s] = From(DestroyIndex(i), k) \o Dropping(t, ixs)
        BY <2>7 DEF DropsOne
      <3>2. PICK i \in IndexesOf(t), k \in 1..2 : prog[s] = From(DestroyIndex(i), k) \o Dropping(t, ixs)
        BY <3>1
      <3>3. From(DestroyIndex(i), k) \in Seq(AnyCall)
        <4>1. DestroyIndex(i) \in Seq(AnyCall) /\ Len(DestroyIndex(i)) = 2
          BY DestroyIndexCalls DEF IndexesOf, Walks
        <4>2. QED
          BY <4>1, FromCalls
      <3>4. QED
        BY <1>3, <2>5, <3>2, <3>3, HasThen
    <2>8. CASE DropsTable(s, t)
      BY <1>3, <1>4, <2>3, <2>8 DEF DropsTable
    <2>9. QED
      BY <1>1, <1>8, <2>2, <2>6, <2>7, <2>8 DEF DdlAt
  <1>9. QED
    BY <1>1, <1>5, <1>6, <1>7, <1>8 DEF DdlAt

\* The calls of a shutdown.
LEMMA ShutCalls ==
    ASSUME NEW tabs \in SUBSET TableNames, NEW ixs \in SUBSET IndexNames
    PROVE  /\ ShutFiles(tabs, ixs) \in Seq(AnyCall) /\ ShutFiles(tabs, ixs) # <<>>
           /\ Head(ShutFiles(tabs, ixs)) = ForEach(tabs, "shut_file")
           /\ Tail(ShutFiles(tabs, ixs)) = ShutIndexes(ixs)
           /\ ShutIndexes(ixs) \in Seq(AnyCall) /\ ShutIndexes(ixs) # <<>>
           /\ Head(ShutIndexes(ixs)) = ForEach(ixs, "shut_index") /\ Tail(ShutIndexes(ixs)) = Clearing
           /\ Clearing \in Seq(AnyCall) /\ Clearing # <<>>
           /\ Head(Clearing) = Call("clear", "log") /\ Tail(Clearing) = <<Call("exit", "log")>>
  <1>1. PICK c : c = ForEach(tabs, "shut_file")
    OBVIOUS
  <1>2. PICK d : d = ForEach(ixs, "shut_index")
    OBVIOUS
  <1>3. c \in AnyCall /\ d \in AnyCall
    BY <1>1, <1>2, TheCalls
  <1>4. /\ Clearing \in Seq(AnyCall) /\ Clearing # <<>>
        /\ Head(Clearing) = Call("clear", "log") /\ Tail(Clearing) = <<Call("exit", "log")>>
    BY TheCalls DEF Clearing
  <1>5. PICK r \in Seq(AnyCall) : r = Clearing
    BY <1>4
  <1>6. /\ <<d>> \o r \in Seq(AnyCall) /\ <<d>> \o r # <<>> /\ Head(<<d>> \o r) = d /\ Tail(<<d>> \o r) = r
    BY <1>3, CallThen
  <1>7. PICK q \in Seq(AnyCall) : q = <<d>> \o r
    BY <1>6
  <1>8. /\ <<c>> \o q \in Seq(AnyCall) /\ <<c>> \o q # <<>> /\ Head(<<c>> \o q) = c /\ Tail(<<c>> \o q) = q
    BY <1>3, CallThen
  <1>9. q = ShutIndexes(ixs)
    BY <1>2, <1>5, <1>7 DEF ShutIndexes
  <1>10. <<c>> \o q = ShutFiles(tabs, ixs)
    BY <1>1, <1>9 DEF ShutFiles
  <1>11. QED
    BY <1>1, <1>2, <1>4, <1>5, <1>6, <1>7, <1>8, <1>9, <1>10

LEMMA FlushCallsOn ==
    ASSUME NEW q \in Seq(AnyCall)
    PROVE  /\ WalksOn(FlushMeta, 2, q)
           /\ FlushMeta[1] = Call("truncate", "meta") /\ FlushMeta[2] = Call("write_meta", "meta")
           /\ \A k \in 1..2 : Has(From(FlushMeta, k) \o q, "write_meta", {"meta"})
  <1>1. PICK p : p = FlushMeta
    OBVIOUS
  <1>2. p \in Seq(AnyCall) /\ Len(p) = 2 /\ p[1] = Call("truncate", "meta") /\ p[2] = Call("write_meta", "meta")
    BY <1>1, TheCalls DEF FlushMeta
  <1>3. WalksOn(p, 2, q)
    BY <1>2, WalkOn
  <1>4. ASSUME NEW k \in 1..2 PROVE Has(From(p, k) \o q, "write_meta", {"meta"})
    <2>1. 2 \in k..Len(p) /\ k \in 1..Len(p)
      BY <1>2
    <2>2. Has(From(p, k), "write_meta", {"meta"}) /\ From(p, k) \in Seq(AnyCall)
      BY <1>2, <2>1, HasFrom, FromCalls
    <2>3. QED
      BY <2>2, HasThen
  <1>5. QED
    BY <1>1, <1>2, <1>3, <1>4

LEMMA CloseDbCalls ==
    ASSUME ServerInv
    PROVE  CloseDb = From(FlushMeta, 1) \o ShutFiles(DOMAIN fhs, DOMAIN ihs)
  <1>1. PICK c : c = ForEach(DOMAIN fhs, "shut_file")
    OBVIOUS
  <1>2. PICK d : d = ForEach(DOMAIN ihs, "shut_index")
    OBVIOUS
  <1>3. PICK a : a = Call("clear", "log")
    OBVIOUS
  <1>4. PICK e : e = Call("exit", "log")
    OBVIOUS
  <1>5. <<c, d, a, e>> = <<c>> \o (<<d>> \o <<a, e>>)
    OBVIOUS
  <1>6. <<c, d, a, e>> = ShutFiles(DOMAIN fhs, DOMAIN ihs)
    BY <1>1, <1>2, <1>3, <1>4, <1>5 DEF ShutFiles, ShutIndexes, Clearing
  <1>7. CloseDb = FlushMeta \o <<c, d, a, e>>
    BY <1>1, <1>2, <1>3, <1>4 DEF CloseDb
  <1>8. DOMAIN fhs \in SUBSET TableNames /\ DOMAIN ihs \in SUBSET IndexNames
    BY DEF ServerInv, TypeInv
  <1>9. PICK q \in Seq(AnyCall) : q = ShutFiles(DOMAIN fhs, DOMAIN ihs)
    BY <1>8, ShutCalls
  <1>10. From(FlushMeta, 1) \o q = FlushMeta \o q
    BY FlushCallsOn DEF WalksOn
  <1>11. QED
    BY <1>6, <1>7, <1>9, <1>10

\* A shutdown that no statement overlaps leaves the files as they are.
LEMMA CloseMeta ==
    ASSUME ServerInv, MoreTypes, CloseAt
    PROVE  /\ dir /\ files["log"] # "none" /\ expect.old = expect.new /\ meta.cat = expect.new
           /\ \A n \in expect.new.tabs \cup expect.new.ixs : files[n] = "ready"
           /\ meta.state = "good" \/ Pending("main", "write_meta", {"meta"})
  <1>1. expect.new \in Catalogs /\ DOMAIN fhs \in SUBSET TableNames /\ DOMAIN ihs \in SUBSET IndexNames
    BY DEF MoreTypes, ServerInv, TypeInv
  <1>2. expect.old = expect.new /\ DiskHolds(expect.new)
    BY DEF CloseAt
  <1>3. \A n \in expect.new.tabs \cup expect.new.ixs : n \in Names /\ In(n, expect.new)
    BY <1>1 DEF Catalogs, Names, In
  <1>4. \A n \in expect.new.tabs \cup expect.new.ixs : files[n] = "ready"
    BY <1>2, <1>3 DEF DiskHolds, DiskOf
  <1>5. CASE \E k \in 1..2 : /\ prog["main"] = From(FlushMeta, k) \o ShutFiles(DOMAIN fhs, DOMAIN ihs)
                             /\ MetaIs(IF k = 2 THEN "torn" ELSE "good", expect.new)
    <2>1. PICK k \in 1..2 : /\ prog["main"] = From(FlushMeta, k) \o ShutFiles(DOMAIN fhs, DOMAIN ihs)
                            /\ MetaIs(IF k = 2 THEN "torn" ELSE "good", expect.new)
      BY <1>5
    <2>2. Has(prog["main"], "write_meta", {"meta"})
      BY <1>1, <2>1, ShutCalls, FlushCallsOn
    <2>3. QED
      BY <1>2, <1>4, <2>1, <2>2 DEF DiskHolds, MetaIs, Has, Pending
  <1>6. CASE MetaIs("good", expect.new)
    BY <1>2, <1>4, <1>6 DEF DiskHolds, MetaIs
  <1>7. QED
    BY <1>5, <1>6 DEF CloseAt

\* What a start finds if the process ends now, while the server is up.
LEMMA UpRestarts ==
    ASSUME ServerInv, CatalogInv, Sound, phase = "up"
    PROVE  Restarts
  <1>1. /\ MoreTypes /\ OneDdl /\ dir /\ files["log"] # "none"
        /\ expect.old \in Catalogs /\ expect.new \in Catalogs
    BY DEF CatalogInv, MoreTypes
  <1>2. ASSUME NEW n \in expect.old.tabs \cup expect.old.ixs PROVE n \in Names /\ In(n, expect.old)
    BY <1>1 DEF Catalogs, Names, In
  <1>3. CASE Idle
    <2>1. IdleSound
      BY <1>3 DEF CatalogInv
    <2>2. \A n \in expect.old.tabs \cup expect.old.ixs : files[n] = "ready"
      BY <1>2, <2>1 DEF IdleSound, Settled, DiskOf
    <2>3. meta.state = "good" /\ meta.cat = expect.old
      BY <2>1 DEF IdleSound, MetaIs
    <2>4. QED
      BY <1>1, <2>2, <2>3 DEF Restarts
  <1>4. CASE ~Idle
    <2>1. PICK s \in Sessions : Changing(s)
      BY <1>4 DEF Idle
    <2>2. DdlAt(s) /\ Midway(s)
      BY <1>1, <2>1, DdlMidway DEF CatalogInv
    <2>3. PICK q \in Ddl : q = query[s]
      BY <1>1, <2>1, DdlQuery
    <2>4. /\ meta.cat = expect.old /\ db \in {expect.old, expect.new} /\ job[s] = q.op
          /\ Allowed(expect.old, q) /\ expect.new = Effect(expect.old, q)
          /\ q.op \in {"create_table", "create_index"} => ~In(q.name, expect.old)
      BY <2>2, <2>3 DEF Midway, DdlAt
    <2>5. ASSUME NEW n \in expect.old.tabs \cup expect.old.ixs, Creates(q) PROVE files[n] = "ready"
      <3>1. n \in Names /\ In(n, expect.old) /\ n # q.name
        BY <1>2, <2>4, <2>5 DEF Creates
      <3>2. In(n, db)
        BY <1>1, <2>4, <2>5, <3>1, EffectNames DEF Creates
      <3>3. Settled(n)
        <4>1. CASE q.op = "create_table"
          BY <2>2, <2>3, <3>1, <4>1 DEF DdlAt, CreatesTable, CreateTableSound
        <4>2. CASE q.op = "create_index" /\ CreatesIndex(s, q.name)
          BY <3>1, <4>2 DEF CreatesIndex, CreateIndexSound
        <4>3. CASE q.op = "create_index" /\ GivesUpIndex(s, q.name)
          BY <3>1, <4>3 DEF GivesUpIndex, DuplicateSound
        <4>4. QED
          BY <2>2, <2>3, <2>5, <4>1, <4>2, <4>3 DEF Creates, DdlAt
      <3>4. QED
        BY <3>2, <3>3 DEF Settled, DiskOf
    <2>6. Creates(q) \/ q.op \in {"drop_table", "drop_index"}
      BY <2>4 DEF Creates, Allowed, Ddl
    <2>7. CASE q.op = "create_index" /\ GivesUpIndex(s, q.name)
      <3>1. meta.state = "good"
        BY <2>7 DEF GivesUpIndex, DuplicateSound, MetaIs
      <3>2. \A n \in expect.old.tabs \cup expect.old.ixs : files[n] = "ready"
        BY <2>5, <2>7 DEF Creates
      <3>3. QED
        BY <1>1, <2>4, <3>1, <3>2 DEF Restarts
    <2>8. CASE Pending(s, "write_meta", {"meta"})
      <3>1. CASE meta.state = "good"
        BY <1>1, <2>4, <2>5, <2>6, <2>8, <3>1 DEF Restarts
      <3>2. CASE meta.state # "good"
        BY <2>8, <3>2 DEF Restarts, Threads
      <3>3. QED
        BY <3>1, <3>2
    <2>9. QED
      BY <1>1, <2>1, <2>2, <2>3, <2>7, <2>8, WritesMeta
  <1>5. QED
    BY <1>3, <1>4

-----------------------------------------------------------------------------
\* A statement begins

\* The calls a DDL statement begins with.
LEMMA FirstCalls ==
    ASSUME ServerInv, NEW q \in Ddl
    PROVE  /\ q.op = "create_table" => CallsOf(q) = From(CreateTable(q.name), 1) /\ CallsOf(q) # <<>>
           /\ q.op = "create_index" => CallsOf(q) = From(CreateIndex(q.name), 1) /\ CallsOf(q) # <<>>
           /\ q.op = "drop_index" => CallsOf(q) = From(DropIndex(q.name), 1) /\ CallsOf(q) # <<>>
           /\ q.op = "drop_table" =>
                 CallsOf(q) = Dropping(q.name, {i \in db.ixs : TableOf[i] = q.name}) /\ CallsOf(q) # <<>>
           /\ q.op = "show_index" => CallsOf(q) = <<>>
  <1> USE DEF Ddl
  <1>1. ASSUME q.op = "create_table" PROVE CallsOf(q) = From(CreateTable(q.name), 1) /\ CallsOf(q) # <<>>
    <2>1. q.name \in TableNames /\ CallsOf(q) = CreateTable(q.name)
      BY <1>1 DEF CallsOf
    <2>2. Walks(CreateTable(q.name), 8) /\ 1 \in 1..8
      BY <2>1, CreateTableCalls
    <2>3. QED
      BY <2>1, <2>2 DEF Walks
  <1>2. ASSUME q.op = "create_index" PROVE CallsOf(q) = From(CreateIndex(q.name), 1) /\ CallsOf(q) # <<>>
    <2>1. q.name \in IndexNames /\ CallsOf(q) = CreateIndex(q.name)
      BY <1>2 DEF CallsOf
    <2>2. Walks(CreateIndex(q.name), 12) /\ 1 \in 1..12
      BY <2>1, CreateIndexCalls
    <2>3. QED
      BY <2>1, <2>2 DEF Walks
  <1>3. ASSUME q.op = "drop_index" PROVE CallsOf(q) = From(DropIndex(q.name), 1) /\ CallsOf(q) # <<>>
    <2>1. q.name \in IndexNames /\ CallsOf(q) = DropIndex(q.name)
      BY <1>3 DEF CallsOf
    <2>2. Walks(DropIndex(q.name), 5) /\ 1 \in 1..5
      BY <2>1, DropIndexCalls
    <2>3. QED
      BY <2>1, <2>2 DEF Walks
  <1>4. ASSUME q.op = "drop_table"
        PROVE CallsOf(q) = Dropping(q.name, {i \in db.ixs : TableOf[i] = q.name}) /\ CallsOf(q) # <<>>
    <2>1. q.name \in TableNames /\ CallsOf(q) = DropTable(q.name)
      BY <1>4 DEF CallsOf
    <2>2. PICK t : t = q.name
      OBVIOUS
    <2>3. PICK ixs : ixs = {i \in db.ixs : TableOf[i] = t}
      OBVIOUS
    <2>4. t \in TableNames /\ ixs \in SUBSET IndexNames
      BY <2>1, <2>2, <2>3 DEF ServerInv, TypeInv, Catalogs
    <2>5. PICK f : f = ForEach(ixs, "destroy_index")
      OBVIOUS
    <2>6. PICK a : a = Call("close_file", t)
      OBVIOUS
    <2>7. PICK b : b = Call("destroy", t)
      OBVIOUS
    <2>8. PICK c : c = Call("remove_table", t)
      OBVIOUS
    <2>9. f \in AnyCall /\ a \in AnyCall /\ b \in AnyCall /\ c \in AnyCall /\ FlushMeta \in Seq(AnyCall)
      BY <2>4, <2>5, <2>6, <2>7, <2>8, TheCalls DEF FlushMeta
    <2>10. PICK u \in Seq(AnyCall) : u = FlushMeta
      BY <2>9
    <2>11. <<f, a, b, c>> = <<f>> \o <<a, b, c>> /\ <<f>> \in Seq(AnyCall) /\ <<a, b, c>> \in Seq(AnyCall)
      BY <2>9
    <2>12. (<<f>> \o <<a, b, c>>) \o u = <<f>> \o (<<a, b, c>> \o u)
      BY <2>11, Grouped
    <2>13. DropTable(t) = <<f, a, b, c>> \o u
      BY <2>3, <2>5, <2>6, <2>7, <2>8, <2>10 DEF DropTable
    <2>14. Dropping(t, ixs) = <<f>> \o (<<a, b, c>> \o u)
      BY <2>5, <2>6, <2>7, <2>8, <2>10 DEF Dropping, DropRest
    <2>15. Dropping(t, ixs) # <<>>
      BY <2>4, DropTableCalls
    <2>16. QED
      BY <2>1, <2>2, <2>3, <2>11, <2>12, <2>13, <2>14, <2>15
  <1>5. q.op = "show_index" => CallsOf(q) = <<>>
    BY DEF CallsOf
  <1>6. QED
    BY <1>1, <1>2, <1>3, <1>4, <1>5

\* A statement is executed by a thread that serves a connection, and alone.
LEMMA Alone ==
    ASSUME ServerInv, CatalogInv, NEW s \in Sessions, Execute(s)
    PROVE  /\ stage[s] = "plan" /\ query[s] \in Ddl /\ phase \in {"up", "closing"} /\ Idle
           /\ RunDdl(s, query[s]) /\ query' = query
           /\ stage' = [stage EXCEPT ![s] = "run"] /\ DOMAIN stage = Sessions /\ DOMAIN prog = Threads
           /\ s \in Threads /\ s # "main"
  <1>1. stage[s] = "plan" /\ NoOtherDdl(s) /\ RunDdl(s, query[s]) /\ query' = query
        /\ stage' = [stage EXCEPT ![s] = "run"]
    BY DEF Execute
  <1>2. Serving(s)
    BY <1>1 DEF Serving
  <1>3. phase \in {"up", "closing"}
    BY <1>2, ServedClient DEF ServerInv, TypeInv
  <1>4. query[s] \in Ddl /\ DOMAIN stage = Sessions /\ DOMAIN prog = Threads
    BY <1>1 DEF ServerInv, ParseInv, SocketInv, ProgInv
  <1>5. ~Changing(s)
    BY <1>1 DEF CatalogInv, OneDdl
  <1>6. Idle
    BY <1>1, <1>5 DEF Idle, NoOtherDdl
  <1>7. QED
    BY <1>1, <1>3, <1>4, <1>6, NamesApart DEF Threads

\* What the catalog promises is a catalog again.
LEMMA EffectType ==
    ASSUME NEW q \in Ddl, NEW cat \in Catalogs
    PROVE  Effect(cat, q) \in Catalogs
  <1>1. CASE q.op \in {"create_table", "create_index", "drop_index"}
    BY <1>1 DEF Effect, Ddl, Catalogs
  <1>2. CASE q.op = "drop_table"
    BY <1>2 DEF Effect, Catalogs
  <1>3. CASE q.op \in {"create_wide_table", "index_unknown_column", "show_index"}
    BY <1>3 DEF Effect
  <1>4. QED
    BY <1>1, <1>2, <1>3 DEF Ddl

\* A statement that is refused, or only reads, changes nothing.
LEMMA ExecuteQuiet ==
    ASSUME ServerInv, CatalogInv, NEW s \in Sessions, Execute(s), History,
           Refused(query[s]) \/ query[s].op = "show_index"
    PROVE  CatalogInv'
  <1>1. PICK q : q = query[s]
    OBVIOUS
  <1>2. /\ q \in Ddl /\ Idle /\ RunDdl(s, q) /\ query' = query /\ DOMAIN prog = Threads /\ s \in Threads
        /\ s # "main"
        /\ DOMAIN reg = Threads /\ DOMAIN job = Threads /\ outcome \in [Threads -> {"ok", "failure"}]
    BY <1>1, Alone DEF CatalogInv, MoreTypes
  <1>3. /\ UNCHANGED <<dir, files, meta, db, fhs, ihs, path2fd, fd2pageno, reg, phase, broken, ended, moved>>
        /\ job' = [job EXCEPT ![s] = q.op]
        /\ prog' = prog \/ prog' = [prog EXCEPT ![s] = CallsOf(q)]
        /\ q.op # "show_index" => prog' = prog
        /\ \E v \in {"ok", "failure"} : outcome' = [outcome EXCEPT ![s] = v]
    BY <1>1, <1>2 DEF RunDdl, Begin, handleVars, historyVars
  <1>4. prog' = prog
    <2>1. CASE q.op # "show_index"
      BY <1>3, <2>1
    <2>2. CASE q.op = "show_index" /\ prog' = [prog EXCEPT ![s] = CallsOf(q)]
      <3>1. CallsOf(q) = <<>> /\ prog[s] = <<>>
        BY <1>2, <2>2, FirstCalls DEF Idle, Changing
      <3>2. QED
        BY <1>2, <2>2, <3>1 DEF ServerInv, ProgInv
    <2>3. QED
      BY <1>3, <2>1, <2>2
  <1>5. /\ \A r \in Sessions : ~Changing(r)
        /\ DOMAIN job' = Threads /\ outcome' \in [Threads -> {"ok", "failure"}]
    BY <1>2, <1>3 DEF Idle
  <1>6. Quiet
    BY <1>2, <1>3, <1>4, <1>5 DEF Quiet
  <1>7. QED
    BY <1>6, QuietInv

\* A statement begins with its first call.
Begun(s) ==
    LET q == query[s]
    IN /\ prog'[s] = CallsOf(q) /\ prog'[s] # <<>> /\ \A r \in Threads \ {s} : prog'[r] = prog[r]
       /\ q \in Ddl /\ ~Refused(q) /\ q.op # "show_index" /\ Idle /\ phase \in {"up", "closing"}
       /\ job'[s] = q.op /\ outcome'[s] = "ok" /\ query'[s] = q
       /\ expect' = [old |-> expect.new, new |-> Effect(expect.new, q)]
       /\ MoreTypes' /\ OneDdl'
       /\ UNCHANGED <<dir, files, meta, db, fhs, ihs, path2fd, fd2pageno, reg, phase, broken, ended, moved,
                      orphans>>
       /\ (Sound' <=> Sound)

LEMMA ExecuteBegins ==
    ASSUME ServerInv, CatalogInv, NEW s \in Sessions, Execute(s), History,
           ~Refused(query[s]), query[s].op # "show_index"
    PROVE  Begun(s)
  <1>1. PICK q : q = query[s]
    OBVIOUS
  <1>2. /\ q \in Ddl /\ Idle /\ RunDdl(s, q) /\ query' = query /\ DOMAIN prog = Threads /\ s \in Threads
        /\ s # "main"
        /\ DOMAIN reg = Threads /\ DOMAIN job = Threads /\ outcome \in [Threads -> {"ok", "failure"}]
        /\ stage[s] = "plan" /\ stage' = [stage EXCEPT ![s] = "run"] /\ DOMAIN stage = Sessions
        /\ phase \in {"up", "closing"} /\ DOMAIN fd2pageno = Fds
        /\ expect \in [old : Catalogs, new : Catalogs] /\ orphans \subseteq Names
    BY <1>1, Alone DEF CatalogInv, MoreTypes
  <1>3. /\ UNCHANGED <<dir, files, meta, db, fhs, ihs, path2fd, fd2pageno, reg, phase, broken, ended, moved>>
        /\ job' = [job EXCEPT ![s] = q.op]
        /\ prog' = [prog EXCEPT ![s] = CallsOf(q)]
        /\ outcome' = [outcome EXCEPT ![s] = "ok"]
    BY <1>1, <1>2 DEF RunDdl, Begin, handleVars, historyVars
  <1>4. CallsOf(q) # <<>>
    BY <1>1, <1>2, FirstCalls DEF Ddl, Refused
  <1>5. prog'[s] = CallsOf(q) /\ \A r \in Threads \ {s} : prog'[r] = prog[r]
    BY <1>2, <1>3
  <1>6. \A r \in Sessions : Changing(r)' => r = s
    BY <1>2, <1>5 DEF Idle, Changing, Threads
  <1>7. OneDdl'
    BY <1>2, <1>6 DEF OneDdl
  <1>8. Begins(s) /\ \A r \in Sessions : Begins(r) => r = s
    BY <1>2, <1>4, <1>5, <1>6 DEF Begins, Changing
  <1>9. (CHOOSE r \in Sessions : Begins(r)) = s
    BY <1>8
  <1>10. (\A r \in Sessions : ~Ends(r)) /\ ~(phase = "starting" /\ phase' = "up")
    BY <1>2 DEF Ends, Idle
  <1>11. expect' = [old |-> expect.new, new |-> Effect(expect.new, query[s])]
    BY <1>8, <1>9, <1>10 DEF History
  <1>12. expect' \in [old : Catalogs, new : Catalogs]
    BY <1>1, <1>2, <1>11, EffectType
  <1>13. orphans' = orphans /\ (tainted' <=> tainted)
    BY <1>2, <1>3 DEF History, Idle
  <1>14. MoreTypes'
    BY <1>2, <1>3, <1>12, <1>13 DEF MoreTypes
  <1>15. Sound' <=> Sound
    BY <1>3, <1>13 DEF Sound
  <1>16. job'[s] = q.op /\ outcome'[s] = "ok"
    BY <1>2, <1>3
  <1>17. QED
    BY <1>1, <1>2, <1>3, <1>4, <1>5, <1>7, <1>11, <1>13, <1>14, <1>15, <1>16 DEF Begun

\* While the server is up a statement that begins finds its tables, indexes and files as db_ says.
LEMMA BegunUp ==
    ASSUME ServerInv, CatalogInv, NEW s \in Sessions, Begun(s), phase = "up"
    PROVE  DdlAt(s)'
  <1>1. PICK q : q = query[s]
    OBVIOUS
  <1>2. /\ q \in Ddl /\ ~Refused(q) /\ q.op # "show_index" /\ prog'[s] = CallsOf(q) /\ query'[s] = q
        /\ job'[s] = q.op /\ outcome'[s] = "ok" /\ Idle
        /\ expect' = [old |-> expect.new, new |-> Effect(expect.new, q)]
        /\ UNCHANGED <<files, meta, db, fhs, ihs, path2fd, orphans>>
        /\ (Sound' <=> Sound)
    BY <1>1 DEF Begun
  <1>3. expect'.old = expect.new /\ expect'.new = Effect(expect.new, q)
    BY <1>2
  <1>4. /\ HandlesKnown /\ db \in Catalogs /\ DOMAIN fhs \subseteq TableNames /\ DOMAIN ihs \subseteq IndexNames
        /\ \A t \in TableNames : t \notin IndexNames
    BY CatalogAssumption DEF CatalogInv, ServerInv, TypeInv
  <1>5. ASSUME Sound
        PROVE db = expect'.old /\ MetaIs("good", expect.old)' /\ \A n \in Names : Settled(n) /\ Settled(n)'
    <2>1. IdleSound
      BY <1>2, <1>5 DEF CatalogInv, Begun, Idle
    <2>2. PICK E : E = expect'.old
      OBVIOUS
    <2>3. db = E /\ meta = [state |-> "good", cat |-> E]
      BY <1>3, <2>1, <2>2 DEF IdleSound, MetaIs
    <2>4. \A n \in Names : Settled(n) /\ Settled(n)'
      BY <1>2, <2>1 DEF IdleSound, Settled, DiskOf, In, Open, Held
    <2>5. QED
      BY <1>2, <2>2, <2>3, <2>4 DEF MetaIs
  <1>6. /\ q.op = "create_table" => q.name \notin db.tabs
        /\ q.op = "create_index" => TableOf[q.name] \in db.tabs /\ q.name \notin db.ixs
        /\ q.op = "drop_index" => q.name \in db.ixs
        /\ q.op = "drop_table" => q.name \in db.tabs
        /\ q.op \in {"create_table", "create_index", "drop_index", "drop_table"}
    <2>1. q \in Ddl /\ ~Refused(q) /\ q.op # "show_index"
      BY <1>2
    <2>2. QED
      BY <2>1 DEF Refused, Ddl
  <1>7. /\ q.op = "create_table" => prog'[s] = From(CreateTable(q.name), 1)
        /\ q.op = "create_index" => prog'[s] = From(CreateIndex(q.name), 1)
        /\ q.op = "drop_index" => prog'[s] = From(DropIndex(q.name), 1)
        /\ q.op = "drop_table" => prog'[s] = Dropping(q.name, {i \in db.ixs : TableOf[i] = q.name})
    <2>1. q \in Ddl /\ prog'[s] = CallsOf(q)
      BY <1>2
    <2>2. QED
      BY <2>1, FirstCalls, Zenon
  <1>8. /\ q.op \in {"create_table", "drop_table"} => q.name \in TableNames
        /\ q.op \in {"create_index", "drop_index"} => q.name \in IndexNames
    <2>1. q \in Ddl
      BY <1>2
    <2>2. QED
      BY <2>1 DEF Ddl
  <1>9. Sound' => Allowed(expect'.old, q) /\ expect'.new = Effect(expect'.old, q)
    <2>1. Sound => Allowed(db, q)
      BY <1>6 DEF Allowed
    <2>2. Sound' => Sound /\ db = expect'.old
      BY <1>2, <1>5
    <2>3. QED
      BY <1>3, <2>1, <2>2
  <1>10. \A n : (Open(n)' <=> Open(n)) /\ (Held(n)' <=> Held(n)) /\ (In(n, db)' <=> In(n, db))
    BY <1>2 DEF Open, Held, In
  <1>11. \A n : Held(n) => In(n, db) /\ Open(n)
    BY <1>4 DEF Held, HandlesKnown, In
  <1>12. CASE q.op = "create_table"
    <2>1. q.name \in TableNames /\ q.name \notin db.tabs /\ prog'[s] = From(CreateTable(q.name), 1) /\ 1 \in 1..8
      BY <1>12, <1>6, <1>7, <1>8
    <2>2. PICK t : t = q.name
      OBVIOUS
    <2>3. t \notin DOMAIN fhs /\ ~In(t, db) /\ t \notin TooLong /\ t \in Names
      BY <1>4, <2>1, <2>2, CatalogAssumption DEF HandlesKnown, In, Catalogs, Names
    <2>4. CreateTableAt(s, t, 1)'
      BY <1>2, <2>3 DEF CreateTableAt
    <2>5. Sound => CreateTableSound(t, 1)'
      <3>1. SUFFICES ASSUME Sound PROVE CreateTableSound(t, 1)'
        OBVIOUS
      <3>2. ~Open(t)'
        BY <1>5, <1>10, <1>11, <2>3, <3>1 DEF Settled
      <3>3. QED
        BY <1>2, <1>5, <2>3, <3>1, <3>2 DEF CreateTableSound
    <2>6. CreatesTable(s, q.name)'
      BY <1>2, <2>1, <2>2, <2>4, <2>5 DEF CreatesTable
    <2>7. QED
      BY <1>2, <1>9, <1>12, <2>6 DEF DdlAt
  <1>13. CASE q.op = "create_index"
    <2>1. q.name \notin db.ixs /\ prog'[s] = From(CreateIndex(q.name), 1) /\ 1 \in 1..12
      BY <1>13, <1>6, <1>7
    <2>2. PICK i : i = q.name
      OBVIOUS
    <2>3. i \notin DOMAIN ihs /\ i \in Names
      BY <1>4, <1>13, <1>8, <2>1, <2>2 DEF HandlesKnown, Names
    <2>4. CreateIndexAt(s, i, 1)'
      BY <1>2, <2>3 DEF CreateIndexAt
    <2>5. Sound => CreateIndexSound(i, 1)'
      BY <1>2, <1>5, <2>3 DEF CreateIndexSound
    <2>6. CreatesIndex(s, q.name)'
      BY <1>2, <2>1, <2>2, <2>4, <2>5 DEF CreatesIndex
    <2>7. QED
      BY <1>2, <1>9, <1>13, <2>6 DEF DdlAt
  <1>14. CASE q.op = "drop_index"
    <2>1. q.name \in db.ixs /\ prog'[s] = From(DropIndex(q.name), 1) /\ 1 \in 1..5
      BY <1>14, <1>6, <1>7
    <2>2. PICK i : i = q.name
      OBVIOUS
    <2>3. In(i, db) /\ i \in Names
      BY <1>14, <1>8, <2>1, <2>2 DEF In, Names
    <2>4. DropIndexAt(i, 1)'
      BY DEF DropIndexAt
    <2>5. Sound => DropIndexSound(i, 1)'
      <3>1. SUFFICES ASSUME Sound PROVE DropIndexSound(i, 1)'
        OBVIOUS
      <3>2. Held(i)' /\ Open(i)' /\ files'[i] = "ready"
        BY <1>2, <1>5, <1>10, <1>11, <2>3, <3>1 DEF Settled, DiskOf
      <3>3. QED
        BY <1>2, <1>5, <2>3, <3>1, <3>2 DEF DropIndexSound
    <2>6. DropsIndex(s, q.name)'
      BY <1>2, <2>1, <2>2, <2>4, <2>5 DEF DropsIndex
    <2>7. QED
      BY <1>2, <1>9, <1>14, <2>6 DEF DdlAt
  <1>15. CASE q.op = "drop_table"
    <2>1. PICK t : t = q.name
      OBVIOUS
    <2>2. PICK ixs : ixs = {i \in db.ixs : TableOf[i] = t}
      OBVIOUS
    <2>3. prog'[s] = Dropping(t, ixs) /\ t \in Names
      BY <1>15, <1>7, <1>8, <2>1, <2>2 DEF Names
    <2>4. ixs \in SUBSET IndexesOf(t)
      BY <1>4, <2>2 DEF IndexesOf, Catalogs
    <2>5. IndexesLeft(t, ixs)'
      BY <1>2, <1>4, <2>2 DEF IndexesLeft, HandlesKnown
    <2>6. Sound => LoopSound(t, ixs)'
      <3>1. SUFFICES ASSUME Sound PROVE LoopSound(t, ixs)'
        OBVIOUS
      <3>2. IndexesSound(t, ixs)'
        <4>1. \A i \in db.ixs : i \in Names
          BY <1>4 DEF Catalogs, Names
        <4>2. QED
          BY <1>5, <2>2, <3>1, <4>1 DEF IndexesSound
      <3>3. OthersSound(t)'
        BY <1>5, <3>1 DEF OthersSound
      <3>4. QED
        BY <1>2, <1>5, <2>2, <2>3, <3>1, <3>2, <3>3 DEF LoopSound
    <2>7. DropsIndexes(s, q.name)'
      BY <1>2, <2>1, <2>3, <2>4, <2>5, <2>6 DEF DropsIndexes
    <2>8. QED
      BY <1>2, <1>9, <1>15, <2>7 DEF DdlAt
  <1>16. QED
    BY <1>12, <1>13, <1>14, <1>15, <1>6

LEMMA ExecuteInv ==
    ASSUME ServerInv, CatalogInv, NEW s \in Sessions, Execute(s), History
    PROVE  CatalogInv'
  <1>1. CASE Refused(query[s]) \/ query[s].op = "show_index"
    BY <1>1, ExecuteQuiet
  <1>2. CASE ~Refused(query[s]) /\ query[s].op # "show_index"
    <2>1. Begun(s)
      BY <1>2, ExecuteBegins
    <2>2. /\ prog'[s] # <<>> /\ \A r \in Threads \ {s} : prog'[r] = prog[r]
          /\ Idle /\ phase \in {"up", "closing"}
          /\ MoreTypes' /\ OneDdl' /\ (Sound' <=> Sound) /\ expect'.old = expect.new
          /\ UNCHANGED <<dir, files, meta, db, fhs, ihs, path2fd, fd2pageno, phase, ended, moved, orphans>>
      BY <2>1 DEF Begun
    <2>3. OnDisk' /\ (HandlesKnown => HandlesKnown') /\ (NumberedBut({}) => NumberedBut({})')
      BY <2>2 DEF CatalogInv, OnDisk, HandlesKnown, NumberedBut, Numbered, Open
    <2>4. ~Idle'
      BY <2>2 DEF Idle, Changing
    <2>5. CASE phase = "up"
      <3>1. ASSUME NEW r \in Sessions, Changing(r)' PROVE DdlAt(r)'
        <4>1. r = s
          BY <2>2, <3>1 DEF Idle, Changing, Threads
        <4>2. QED
          BY <4>1, <2>1, <2>5, BegunUp
      <3>2. Sound' => /\ dir' /\ files'["log"] # "none" /\ WellFormed(expect.old)' /\ Orphaned(expect.old)'
        <4>1. SUFFICES ASSUME Sound
                       PROVE dir' /\ files'["log"] # "none" /\ WellFormed(expect.old)' /\ Orphaned(expect.old)'
          BY <2>2
        <4>2. dir /\ files["log"] # "none" /\ WellFormed(expect.old) /\ Orphaned(expect.old) /\ IdleSound
          BY <2>2, <2>5, <4>1 DEF CatalogInv
        <4>3. expect'.old = expect.old
          BY <2>2, <4>2 DEF IdleSound
        <4>4. QED
          BY <2>2, <4>2, <4>3 DEF WellFormed, Orphaned, In
      <3>3. QED
        BY <2>2, <2>3, <2>4, <2>5, <3>1, <3>2 DEF CatalogInv
    <2>6. CASE phase = "closing"
      <3>1. ASSUME Sound PROVE Restarts'
        <4>1. CloseAt
          BY <2>2, <2>6, <3>1 DEF CatalogInv
        <4>2. /\ dir /\ files["log"] # "none" /\ meta.cat = expect.new
              /\ \A n \in expect.new.tabs \cup expect.new.ixs : files[n] = "ready"
              /\ meta.state = "good" \/ Pending("main", "write_meta", {"meta"})
          BY <4>1, CloseMeta DEF CatalogInv
        <4>3. prog'["main"] = prog["main"] /\ "main" \in Threads
          BY <2>2, NamesApart DEF Threads
        <4>4. meta.state = "good" \/ Pending("main", "write_meta", {"meta"})'
          BY <4>2, <4>3 DEF Pending
        <4>5. QED
          BY <2>2, <4>2, <4>3, <4>4 DEF Restarts
      <3>2. QED
        BY <2>2, <2>3, <2>4, <2>6, <3>1 DEF CatalogInv
    <2>7. QED
      BY <2>2, <2>5, <2>6
  <1>3. QED
    BY <1>1, <1>2

-----------------------------------------------------------------------------
\* The server starts, stops and is killed

LEMMA KilledInv ==
    ASSUME ServerInv, CatalogInv, Killed, History
    PROVE  CatalogInv'
  <1>1. phase # "down" /\ ProcessEnds("killed") /\ AllGone
    BY DEF Killed
  <1>2. QED
    BY <1>1, EndsSound

\* The accept loop is left while no statement runs, or in the middle of one.
LEMMA LeaveLoopInv ==
    ASSUME ServerInv, CatalogInv, LeaveLoop, History
    PROVE  CatalogInv'
  <1>1. /\ phase = "up" /\ phase' = "closing" /\ DOMAIN prog = Threads /\ "main" \in Threads
        /\ "main" \notin Sessions
        /\ DOMAIN reg = Threads /\ DOMAIN job = Threads /\ outcome \in [Threads -> {"ok", "failure"}]
        /\ prog["main"] = <<>>
    BY NamesApart DEF LeaveLoop, Shutdown, CatalogInv, MoreTypes, ServerInv, ProgInv, Threads
  <1>2. /\ prog' = [prog EXCEPT !["main"] = CloseDb] /\ job' = [job EXCEPT !["main"] = "close"]
        /\ outcome' = [outcome EXCEPT !["main"] = "ok"]
        /\ UNCHANGED <<dir, files, meta, db, fhs, ihs, path2fd, fd2pageno, reg, broken, ended, moved, stage, query>>
    BY DEF LeaveLoop, Shutdown, Begin, handleVars, historyVars, handlerVars
  <1>3. prog'["main"] = CloseDb /\ \A s \in Sessions : prog'[s] = prog[s] /\ job'[s] = job[s]
    BY <1>1, <1>2 DEF Threads
  <1>4. \A s \in Sessions : (Changing(s)' <=> Changing(s)) /\ ~Begins(s) /\ ~Ends(s)
    BY <1>2, <1>3 DEF Changing, Begins, Ends
  <1>5. expect' = expect /\ orphans' = orphans /\ (tainted' <=> tainted)
    BY <1>1, <1>4 DEF History
  <1>6. (Sound' <=> Sound) /\ (Idle' <=> Idle)
    BY <1>2, <1>4, <1>5 DEF Sound, Idle
  <1>7. MoreTypes' /\ OneDdl' /\ OnDisk'
    <2>1. MoreTypes'
      BY <1>1, <1>2, <1>5 DEF CatalogInv, MoreTypes
    <2>2. OneDdl'
      BY <1>2, <1>4 DEF CatalogInv, OneDdl
    <2>3. QED
      BY <2>1, <2>2, <1>2 DEF CatalogInv, OnDisk
  <1>8. ASSUME Sound, Idle PROVE CloseAt'
    <2>1. /\ IdleSound /\ HandlesKnown /\ dir /\ files["log"] # "none"
          /\ WellFormed(expect.old) /\ Orphaned(expect.old)
      BY <1>1, <1>8 DEF CatalogInv
    <2>2. PICK p : p = prog'["main"]
      OBVIOUS
    <2>3. 1 \in 1..2 /\ p = (From(FlushMeta, 1) \o ShutFiles(DOMAIN fhs, DOMAIN ihs))'
      <3>1. p = From(FlushMeta, 1) \o ShutFiles(DOMAIN fhs, DOMAIN ihs)
        BY <1>3, <2>2, CloseDbCalls
      <3>2. QED
        BY <1>2, <3>1
    <2>4. StillOpen(DOMAIN fhs, DOMAIN ihs)'
      BY <1>2, <2>1 DEF HandlesKnown, StillOpen, Open
    <2>5. db' = expect'.new /\ MetaIs("good", expect.new)' /\ expect'.old = expect'.new
      BY <1>2, <1>5, <2>1 DEF IdleSound, MetaIs
    <2>6. DiskHolds(expect.new)'
      <3>1. db = expect.old /\ expect'.new = expect.old /\ \A n \in Names : DiskOf(n, expect.old)
        BY <1>5, <2>1 DEF IdleSound, Settled
      <3>2. WellFormed(expect.new)' /\ Orphaned(expect.new)'
        BY <1>2, <1>5, <2>1, <3>1 DEF WellFormed, Orphaned, In
      <3>3. \A n \in Names : DiskOf(n, expect.new)'
        BY <1>2, <1>5, <3>1 DEF DiskOf, In
      <3>4. QED
        BY <1>2, <2>1, <3>2, <3>3 DEF DiskHolds
    <2>7. QED
      BY <2>2, <2>3, <2>4, <2>5, <2>6 DEF CloseAt
  <1>9. ASSUME Sound PROVE Restarts'
    <2>1. Restarts
      BY <1>1, <1>9, UpRestarts
    <2>2. ASSUME NEW th \in Threads, NEW op, NEW names, Pending(th, op, names) PROVE Pending(th, op, names)'
      <3>1. th # "main"
        BY <1>1, <2>2 DEF Pending
      <3>2. QED
        BY <1>3, <2>2, <3>1 DEF Pending, Threads
    <2>3. \A s \in Sessions : s \in Threads
      BY DEF Threads
    <2>4. ASSUME NEW n PROVE Pending("main", "header", {n}) => Pending("main", "header", {n})'
      BY <1>1, <2>2
    <2>5. QED
      BY <1>2, <1>3, <1>5, <2>1, <2>2, <2>3, <2>4 DEF Restarts
  <1>10. ended' = "failed" => ~Sound'
    BY <1>2, <1>6 DEF CatalogInv
  <1>11. QED
    BY <1>1, <1>6, <1>7, <1>8, <1>9, <1>10 DEF CatalogInv

LEMMA CreateDbCalls ==
    /\ Walks(CreateDb, 4)
    /\ CreateDb[1] = Call("mkdir", "meta") /\ CreateDb[2] = Call("truncate", "meta")
    /\ CreateDb[3] = Call("create", "log") /\ CreateDb[4] = Call("write_meta", "meta")
  <1>1. PICK p : p = CreateDb
    OBVIOUS
  <1>2. p \in Seq(AnyCall) /\ Len(p) = 4
    BY <1>1, TheCalls DEF CreateDb
  <1>3. /\ p[1] = Call("mkdir", "meta") /\ p[2] = Call("truncate", "meta")
        /\ p[3] = Call("create", "log") /\ p[4] = Call("write_meta", "meta")
    BY <1>1 DEF CreateDb
  <1>4. Walks(p, 4)
    BY <1>2, Walk
  <1>5. QED
    BY <1>1, <1>3, <1>4

\* A start finds what the last process left.
LEMMA StartInv ==
    ASSUME ServerInv, CatalogInv, Start, History
    PROVE  CatalogInv'
  <1>1. /\ phase = "down" /\ phase' = "starting" /\ DOMAIN prog = Threads /\ "main" \in Threads
        /\ "main" \notin Sessions
        /\ DOMAIN reg = Threads /\ DOMAIN job = Threads /\ outcome \in [Threads -> {"ok", "failure"}]
        /\ Gone /\ Idle
    BY NamesApart DEF Start, StartServer, CatalogInv, MoreTypes, ServerInv, ProgInv, Threads, Idle, Changing
  <1>2. /\ prog' = [prog EXCEPT !["main"] = (IF dir THEN <<>> ELSE CreateDb) \o <<Call("load_meta", "meta")>>]
        /\ job' = [job EXCEPT !["main"] = "start"]
        /\ outcome' = [outcome EXCEPT !["main"] = "ok"]
        /\ UNCHANGED <<dir, files, meta, db, fhs, ihs, path2fd, fd2pageno, reg, broken, ended, moved, stage, query>>
    BY DEF Start, StartServer, Begin, handleVars, historyVars, handlerVars
  <1>3. \A s \in Sessions : prog'[s] = prog[s]
    BY <1>1, <1>2 DEF Threads
  <1>4. \A s \in Sessions : ~Changing(s)' /\ ~Begins(s) /\ ~Ends(s)
    BY <1>1, <1>3 DEF Changing, Begins, Ends, Idle
  <1>5. expect' = expect /\ orphans' = orphans /\ (tainted' <=> tainted)
    BY <1>1, <1>4 DEF History
  <1>6. Sound' <=> Sound
    BY <1>2, <1>5 DEF Sound
  <1>7. MoreTypes' /\ OneDdl' /\ OnDisk'
    <2>1. MoreTypes'
      BY <1>1, <1>2, <1>5 DEF CatalogInv, MoreTypes
    <2>2. OneDdl'
      BY <1>4 DEF OneDdl
    <2>3. QED
      BY <2>1, <2>2, <1>2 DEF CatalogInv, OnDisk
  <1>8. HandlesKnown' /\ db' = NoCatalog /\ DOMAIN path2fd' = {}
    BY <1>1, <1>2 DEF Gone, HandlesKnown
  <1>9. StartAt'
    <2>1. Sound' => DownSound /\ Sound
      BY <1>1, <1>6 DEF CatalogInv
    <2>2. CASE dir
      <3>1. prog'["main"] = <<Call("load_meta", "meta")>>
        BY <1>1, <1>2, <2>2
      <3>2. Sound' => StoredCat'
        <4>1. Sound' => StoredCat
          BY <2>1, <2>2 DEF DownSound
        <4>2. SameCatalog
          BY <1>2, <1>5 DEF SameCatalog
        <4>3. QED
          BY <4>1, <4>2, SameSettled DEF StoredCat, SameCatalog
      <3>3. QED
        BY <1>8, <3>1, <3>2 DEF StartAt
    <2>3. CASE ~dir
      <3>1. prog'["main"] = CreateDb \o <<Call("load_meta", "meta")>>
        BY <1>1, <1>2, <2>3
      <3>2. CreateDb = From(CreateDb, 1) /\ 1 \in 1..4
        BY CreateDbCalls DEF Walks
      <3>3. Sound' => CreateDbSound(1)'
        BY <1>2, <1>5, <2>1, <2>3 DEF DownSound, CreateDbSound, Fresh
      <3>4. PICK p : p = prog'["main"]
        OBVIOUS
      <3>5. p = From(CreateDb, 1) \o <<Call("load_meta", "meta")>>
        BY <3>1, <3>2, <3>4
      <3>6. QED
        BY <1>8, <3>2, <3>3, <3>4, <3>5 DEF StartAt
    <2>4. QED
      BY <2>2, <2>3
  <1>10. ended' = "failed" => ~Sound'
    BY <1>2, <1>6 DEF CatalogInv
  <1>11. QED
    BY <1>1, <1>6, <1>7, <1>8, <1>9, <1>10 DEF CatalogInv

LEMMA CatalogInitInv ==
    ASSUME Init PROVE CatalogInv
  <1>1. /\ phase = "down" /\ ended = "closed" /\ dir = FALSE /\ files = [p \in Paths |-> "none"]
        /\ meta.state = "none"
        /\ db = NoCatalog /\ DOMAIN fhs = {} /\ DOMAIN ihs = {} /\ DOMAIN path2fd = {} /\ DOMAIN fd2pageno = Fds
        /\ DOMAIN reg = Threads /\ DOMAIN job = Threads /\ outcome \in [Threads -> {"ok", "failure"}]
        /\ \A s \in Sessions : prog[s] = <<>>
        /\ expect = [old |-> NoCatalog, new |-> NoCatalog] /\ orphans = {}
    BY DEF Init, CatalogInit, Empty, Threads
  <1>2. MoreTypes
    BY <1>1 DEF MoreTypes, NoCatalog, Catalogs
  <1>3. OneDdl /\ OnDisk /\ Gone
    BY <1>1 DEF OneDdl, OnDisk, Gone, Changing
  <1>4. DownSound
    BY <1>1 DEF DownSound, Fresh, Names, Paths
  <1>5. QED
    BY <1>1, <1>2, <1>3, <1>4 DEF CatalogInv

-----------------------------------------------------------------------------
\* The calls of a shutdown

LEMMA DoShut ==
    ASSUME ServerInv, NEW x, NEW op \in {"shut_file", "shut_index"}, Head(prog["main"]) = Call(op, x),
           CatalogStep("main"), NEW handles, handles = IF x \in TableNames THEN fhs ELSE ihs,
           x \in DOMAIN handles, Open(x), path2fd[x] = handles[x]
    PROVE  /\ Next1("main")
           /\ DOMAIN path2fd' = DOMAIN path2fd \ {x} /\ \A n \in DOMAIN path2fd' : path2fd'[n] = path2fd[n]
           /\ UNCHANGED <<dir, files, meta, db, fhs, ihs, phase>>
  <1>1. Head(prog["main"]).op = op /\ Name("main") = x
    BY CallFields DEF Name
  <1>2. ShutHandle("main")
    BY <1>1, TheStep
  <1>3. path2fd[x] \in Fds /\ kernel[handles[x]] = x /\ IsOpen(handles[x])
    BY DEF ServerInv, FdInv, Open, IsOpen
  <1>4. /\ Closes("main", handles[x]) /\ Next1("main")
        /\ UNCHANGED <<dir, files, meta, db, fhs, ihs, phase>>
    BY <1>1, <1>2, <1>3 DEF ShutHandle
  <1>5. path2fd' = Without(path2fd, x)
    BY <1>3, <1>4 DEF Closes
  <1>6. QED
    BY <1>4, <1>5 DEF Without

LEMMA DoClear ==
    ASSUME NEW x, Head(prog["main"]) = Call("clear", x), CatalogStep("main")
    PROVE  Next1("main") /\ UNCHANGED <<dir, files, meta, phase>>
  <1>1. Head(prog["main"]).op = "clear"
    BY CallFields
  <1>2. ClearMaps("main")
    BY <1>1, TheStep
  <1>3. QED
    BY <1>2 DEF ClearMaps

\* A round of the loops of close_db.
LEMMA ShutRounds ==
    ASSUME NEW tabs \in SUBSET TableNames, NEW ixs \in SUBSET IndexNames
    PROVE  /\ \A t \in TableNames :
                 /\ (Body("shut_file", t) \o <<ForEach(tabs, "shut_file")>>) \o ShutIndexes(ixs)
                       = <<Call("shut_file", t)>> \o ShutFiles(tabs, ixs)
                 /\ Head(<<Call("shut_file", t)>> \o ShutFiles(tabs, ixs)) = Call("shut_file", t)
                 /\ Tail(<<Call("shut_file", t)>> \o ShutFiles(tabs, ixs)) = ShutFiles(tabs, ixs)
           /\ \A i \in IndexNames :
                 /\ (Body("shut_index", i) \o <<ForEach(ixs, "shut_index")>>) \o Clearing
                       = <<Call("shut_index", i)>> \o ShutIndexes(ixs)
                 /\ Head(<<Call("shut_index", i)>> \o ShutIndexes(ixs)) = Call("shut_index", i)
                 /\ Tail(<<Call("shut_index", i)>> \o ShutIndexes(ixs)) = ShutIndexes(ixs)
  <1>1. PICK c \in Seq(AnyCall) : c = Clearing
    BY ShutCalls
  <1>2. PICK u \in Seq(AnyCall) : u = ShutIndexes(ixs)
    BY ShutCalls
  <1>3. PICK v \in Seq(AnyCall) : v = ShutFiles(tabs, ixs)
    BY ShutCalls
  <1>4. ASSUME NEW t \in TableNames
        PROVE /\ (Body("shut_file", t) \o <<ForEach(tabs, "shut_file")>>) \o u = <<Call("shut_file", t)>> \o v
              /\ Head(<<Call("shut_file", t)>> \o v) = Call("shut_file", t)
              /\ Tail(<<Call("shut_file", t)>> \o v) = v
    <2>1. PICK a \in AnyCall : a = Call("shut_file", t)
      BY TheCalls
    <2>2. PICK f \in AnyCall : f = ForEach(tabs, "shut_file")
      BY TheCalls
    <2>3. <<a>> \in Seq(AnyCall) /\ <<f>> \in Seq(AnyCall)
      OBVIOUS
    <2>4. (<<a>> \o <<f>>) \o u = <<a>> \o (<<f>> \o u)
      BY <2>3, Grouped
    <2>5. Body("shut_file", t) = <<a>>
      BY <2>1 DEF Body
    <2>6. <<f>> \o u = v
      BY <1>2, <1>3, <2>2 DEF ShutFiles
    <2>7. Head(<<a>> \o v) = a /\ Tail(<<a>> \o v) = v
      BY CallThen
    <2>8. QED
      BY <2>1, <2>2, <2>4, <2>5, <2>6, <2>7
  <1>5. ASSUME NEW i \in IndexNames
        PROVE /\ (Body("shut_index", i) \o <<ForEach(ixs, "shut_index")>>) \o c = <<Call("shut_index", i)>> \o u
              /\ Head(<<Call("shut_index", i)>> \o u) = Call("shut_index", i)
              /\ Tail(<<Call("shut_index", i)>> \o u) = u
    <2>1. PICK a \in AnyCall : a = Call("shut_index", i)
      BY TheCalls
    <2>2. PICK f \in AnyCall : f = ForEach(ixs, "shut_index")
      BY TheCalls
    <2>3. <<a>> \in Seq(AnyCall) /\ <<f>> \in Seq(AnyCall)
      OBVIOUS
    <2>4. (<<a>> \o <<f>>) \o c = <<a>> \o (<<f>> \o c)
      BY <2>3, Grouped
    <2>5. Body("shut_index", i) = <<a>>
      BY <2>1 DEF Body
    <2>6. <<f>> \o c = u
      BY <1>1, <1>2, <2>2 DEF ShutIndexes
    <2>7. Head(<<a>> \o u) = a /\ Tail(<<a>> \o u) = u
      BY CallThen
    <2>8. QED
      BY <2>1, <2>2, <2>4, <2>5, <2>6, <2>7
  <1>6. QED
    BY <1>1, <1>2, <1>3, <1>4, <1>5

\* The shutdown goes on with its next call.
ShutsOn == phase' = phase /\ (UNCHANGED <<expect, orphans>> => CloseAt')

LEMMA DiskStays ==
    ASSUME UNCHANGED <<dir, files, expect, orphans>>, DiskHolds(expect.new)
    PROVE  DiskHolds(expect.new)'
  <1>1. WellFormed(expect.new)' /\ Orphaned(expect.new)'
    BY DEF DiskHolds, WellFormed, Orphaned, In
  <1>2. \A n \in Names : DiskOf(n, expect.new)'
    BY DEF DiskHolds, DiskOf, In
  <1>3. QED
    BY <1>1, <1>2 DEF DiskHolds

LEMMA FlushShuts ==
    ASSUME ServerInv, CatalogStep("main"), CloseAt, NEW k \in 1..2,
           prog["main"] = From(FlushMeta, k) \o ShutFiles(DOMAIN fhs, DOMAIN ihs),
           StillOpen(DOMAIN fhs, DOMAIN ihs), db = expect.new,
           MetaIs(IF k = 2 THEN "torn" ELSE "good", expect.new)
    PROVE  ShutsOn
  <1>1. DOMAIN fhs \in SUBSET TableNames /\ DOMAIN ihs \in SUBSET IndexNames /\ "main" \in Threads
    BY DEF ServerInv, TypeInv, Threads
  <1>2. PICK q : q = ShutFiles(DOMAIN fhs, DOMAIN ihs)
    OBVIOUS
  <1>3. q \in Seq(AnyCall) /\ q # <<>>
    BY <1>1, <1>2, ShutCalls
  <1>4. /\ WalksOn(FlushMeta, 2, q)
        /\ FlushMeta[1] = Call("truncate", "meta") /\ FlushMeta[2] = Call("write_meta", "meta")
    BY <1>3, FlushCallsOn
  <1>5. Advances("main", FlushMeta, 2, q, k)
    <2>1. prog["main"] = From(FlushMeta, k) \o q /\ 2 \in Nat
      BY <1>2
    <2>2. QED
      BY <1>1, <1>3, <1>4, <2>1, AdvanceOn
  <1>6. /\ Head(prog["main"]) = FlushMeta[k]
        /\ Next1("main") => prog'["main"] = From(FlushMeta, k + 1) \o q
        /\ k = 2 => From(FlushMeta, k + 1) \o q = q
    BY <1>5 DEF Advances
  <1>7. expect.old = expect.new /\ DiskHolds(expect.new)
    BY DEF CloseAt
  <1>8. PICK p : p = prog'["main"]
    OBVIOUS
  <1>9. CASE k = 1
    <2>1. Head(prog["main"]) = Call("truncate", "meta")
      BY <1>4, <1>6, <1>9
    <2>2. /\ Next1("main") /\ meta' = [meta EXCEPT !.state = "torn"]
          /\ UNCHANGED <<dir, files, db, fhs, ihs, path2fd, phase>>
      BY <2>1, DoTruncate
    <2>3. p = From(FlushMeta, 2) \o q /\ q = ShutFiles(DOMAIN fhs', DOMAIN ihs') /\ 2 \in 1..2
      <3>1. p = From(FlushMeta, k + 1) \o q
        BY <1>6, <1>8, <2>2, Zenon
      <3>2. k + 1 = 2
        BY <1>9
      <3>3. p = From(FlushMeta, 2) \o q
        BY <3>1, <3>2, Zenon
      <3>4. QED
        BY <1>2, <2>2, <3>3
    <2>4. meta' = [state |-> "torn", cat |-> expect.new]
      BY <1>9, <2>2 DEF MetaIs
    <2>5. ASSUME UNCHANGED <<expect, orphans>> PROVE CloseAt'
      <3>1. DiskHolds(expect.new)'
        BY <1>7, <2>2, <2>5, DiskStays
      <3>2. StillOpen(DOMAIN fhs, DOMAIN ihs)'
        BY <2>2 DEF StillOpen, Open
      <3>3. MetaIs("torn", expect.new)' /\ db' = expect'.new /\ expect'.old = expect'.new
        BY <1>7, <2>2, <2>4, <2>5 DEF MetaIs
      <3>4. QED
        BY <1>8, <2>3, <3>1, <3>2, <3>3 DEF CloseAt
    <2>6. QED
      BY <2>2, <2>5 DEF ShutsOn
  <1>10. CASE k = 2
    <2>1. Head(prog["main"]) = Call("write_meta", "meta")
      BY <1>4, <1>6, <1>10
    <2>2. /\ Next1("main") /\ meta' = [state |-> "good", cat |-> db]
          /\ UNCHANGED <<dir, files, db, fhs, ihs, path2fd, phase>>
      BY <2>1, DoWriteMeta
    <2>3. PICK tabs \in SUBSET TableNames : tabs = DOMAIN fhs
      BY <1>1
    <2>4. PICK ixs \in SUBSET IndexNames : ixs = DOMAIN ihs
      BY <1>1
    <2>5. p = ShutFiles(tabs, ixs)
      BY <1>2, <1>6, <1>8, <1>10, <2>2, <2>3, <2>4
    <2>6. ASSUME UNCHANGED <<expect, orphans>> PROVE CloseAt'
      <3>1. DiskHolds(expect.new)'
        BY <1>7, <2>2, <2>6, DiskStays
      <3>2. StillOpen(tabs, ixs)'
        BY <2>2, <2>3, <2>4 DEF StillOpen, Open
      <3>3. MetaIs("good", expect.new)' /\ expect'.old = expect'.new
        BY <1>7, <2>2, <2>6 DEF MetaIs
      <3>4. QED
        BY <1>8, <2>5, <3>1, <3>2, <3>3 DEF CloseAt
    <2>7. QED
      BY <2>2, <2>6 DEF ShutsOn
  <1>11. QED
    BY <1>9, <1>10

\* What stays the same while the files are closed.
LEMMA ShutStays ==
    ASSUME CloseAt, MetaIs("good", expect.new), UNCHANGED <<dir, files, meta, phase>>,
           NEW p, p = prog'["main"],
           \/ \E tabs \in SUBSET TableNames, ixs \in SUBSET IndexNames :
                 \/ p = ShutFiles(tabs, ixs) /\ StillOpen(tabs, ixs)'
                 \/ \E t \in TableNames \ tabs : /\ p = <<Call("shut_file", t)>> \o ShutFiles(tabs, ixs)
                                                 /\ StillOpen(tabs \cup {t}, ixs)'
           \/ \E ixs \in SUBSET IndexNames :
                 \/ p = ShutIndexes(ixs) /\ StillOpen({}, ixs)'
                 \/ \E i \in IndexNames \ ixs : /\ p = <<Call("shut_index", i)>> \o ShutIndexes(ixs)
                                                /\ StillOpen({}, ixs \cup {i})'
           \/ p = Clearing \/ p = <<Call("exit", "log")>>
    PROVE  ShutsOn
  <1>1. SUFFICES ASSUME UNCHANGED <<expect, orphans>> PROVE CloseAt'
    BY DEF ShutsOn
  <1>2. expect.old = expect.new /\ DiskHolds(expect.new)
    BY DEF CloseAt
  <1>3. DiskHolds(expect.new)'
    BY <1>1, <1>2, DiskStays
  <1>4. MetaIs("good", expect.new)' /\ expect'.old = expect'.new
    BY <1>1, <1>2 DEF MetaIs
  <1>5. QED
    BY <1>3, <1>4 DEF CloseAt

\* close_db closes the files of the tables, then those of the indexes.
LEMMA FilesShut ==
    ASSUME ServerInv, CatalogStep("main"), CloseAt, MetaIs("good", expect.new),
           NEW tabs \in SUBSET TableNames, NEW ixs \in SUBSET IndexNames,
           prog["main"] = ShutFiles(tabs, ixs), StillOpen(tabs, ixs)
    PROVE  ShutsOn
  <1>1. DOMAIN prog = Threads /\ "main" \in Threads
    BY DEF ServerInv, ProgInv, Threads
  <1>2. Head(prog["main"]) = ForEach(tabs, "shut_file") /\ Tail(prog["main"]) = ShutIndexes(ixs)
    BY ShutCalls
  <1>3. /\ \/ \E n \in tabs :
                 prog' = [prog EXCEPT !["main"] =
                    Body("shut_file", n) \o <<ForEach(tabs \ {n}, "shut_file")>> \o Tail(prog["main"])]
           \/ tabs = {} /\ Next1("main")
        /\ UNCHANGED <<dir, files, meta, db, fhs, ihs, path2fd, phase>>
    BY <1>2, DoLoop
  <1>4. PICK p : p = prog'["main"]
    OBVIOUS
  <1>5. StillOpen(tabs, ixs)'
    BY <1>3 DEF StillOpen, Open
  <1>6. CASE tabs = {} /\ Next1("main")
    <2>1. p = ShutIndexes(ixs)
      BY <1>1, <1>2, <1>4, <1>6 DEF Next1
    <2>2. StillOpen({}, ixs)'
      BY <1>5, <1>6
    <2>3. QED
      BY <1>3, <1>4, <2>1, <2>2, ShutStays
  <1>7. ASSUME NEW n \in tabs,
               prog' = [prog EXCEPT !["main"] =
                  Body("shut_file", n) \o <<ForEach(tabs \ {n}, "shut_file")>> \o Tail(prog["main"])]
        PROVE ShutsOn
    <2>1. PICK rest \in SUBSET TableNames : rest = tabs \ {n}
      OBVIOUS
    <2>2. p = (Body("shut_file", n) \o <<ForEach(rest, "shut_file")>>) \o ShutIndexes(ixs)
      BY <1>1, <1>2, <1>4, <1>7, <2>1
    <2>3. p = <<Call("shut_file", n)>> \o ShutFiles(rest, ixs)
      BY <2>2, ShutRounds
    <2>4. n \in TableNames \ rest /\ rest \cup {n} = tabs
      BY <2>1
    <2>5. StillOpen(rest \cup {n}, ixs)'
      BY <1>5, <2>4
    <2>6. QED
      BY <1>3, <1>4, <2>3, <2>4, <2>5, ShutStays
  <1>8. QED
    BY <1>3, <1>6, <1>7

LEMMA IndexesShut ==
    ASSUME ServerInv, CatalogStep("main"), CloseAt, MetaIs("good", expect.new), NEW ixs \in SUBSET IndexNames,
           prog["main"] = ShutIndexes(ixs), StillOpen({}, ixs)
    PROVE  ShutsOn
  <1>1. DOMAIN prog = Threads /\ "main" \in Threads
    BY DEF ServerInv, ProgInv, Threads
  <1>2. Head(prog["main"]) = ForEach(ixs, "shut_index") /\ Tail(prog["main"]) = Clearing
    BY ShutCalls
  <1>3. /\ \/ \E n \in ixs :
                 prog' = [prog EXCEPT !["main"] =
                    Body("shut_index", n) \o <<ForEach(ixs \ {n}, "shut_index")>> \o Tail(prog["main"])]
           \/ ixs = {} /\ Next1("main")
        /\ UNCHANGED <<dir, files, meta, db, fhs, ihs, path2fd, phase>>
    BY <1>2, DoLoop
  <1>4. PICK p : p = prog'["main"]
    OBVIOUS
  <1>5. StillOpen({}, ixs)'
    BY <1>3 DEF StillOpen, Open
  <1>6. CASE ixs = {} /\ Next1("main")
    <2>1. p = Clearing
      BY <1>1, <1>2, <1>4, <1>6 DEF Next1
    <2>2. QED
      BY <1>3, <1>4, <2>1, ShutStays
  <1>7. ASSUME NEW n \in ixs,
               prog' = [prog EXCEPT !["main"] =
                  Body("shut_index", n) \o <<ForEach(ixs \ {n}, "shut_index")>> \o Tail(prog["main"])]
        PROVE ShutsOn
    <2>1. PICK rest \in SUBSET IndexNames : rest = ixs \ {n}
      OBVIOUS
    <2>2. p = (Body("shut_index", n) \o <<ForEach(rest, "shut_index")>>) \o Clearing
      BY <1>1, <1>2, <1>4, <1>7, <2>1
    <2>3. p = <<Call("shut_index", n)>> \o ShutIndexes(rest)
      BY <2>2, ShutRounds
    <2>4. n \in IndexNames \ rest /\ rest \cup {n} = ixs
      BY <2>1
    <2>5. StillOpen({}, rest \cup {n})'
      BY <1>5, <2>4
    <2>6. QED
      BY <1>3, <1>4, <2>3, <2>4, <2>5, ShutStays
  <1>8. QED
    BY <1>3, <1>6, <1>7

LEMMA OneShut ==
    ASSUME ServerInv, CatalogStep("main"), CloseAt, MetaIs("good", expect.new),
           NEW tabs \in SUBSET TableNames, NEW ixs \in SUBSET IndexNames,
           \/ \E t \in TableNames \ tabs : /\ prog["main"] = <<Call("shut_file", t)>> \o ShutFiles(tabs, ixs)
                                           /\ StillOpen(tabs \cup {t}, ixs)
           \/ \E i \in IndexNames \ ixs : /\ prog["main"] = <<Call("shut_index", i)>> \o ShutIndexes(ixs)
                                          /\ StillOpen({}, ixs \cup {i})
    PROVE  ShutsOn
  <1>1. /\ DOMAIN prog = Threads /\ "main" \in Threads
        /\ DOMAIN fhs \subseteq TableNames /\ DOMAIN ihs \subseteq IndexNames /\ TableNames \cap IndexNames = {}
    BY CatalogAssumption DEF ServerInv, ProgInv, TypeInv, Threads
  <1>2. PICK p : p = prog'["main"]
    OBVIOUS
  <1>3. ASSUME NEW t \in TableNames \ tabs, prog["main"] = <<Call("shut_file", t)>> \o ShutFiles(tabs, ixs),
               StillOpen(tabs \cup {t}, ixs)
        PROVE ShutsOn
    <2>1. Head(prog["main"]) = Call("shut_file", t) /\ Tail(prog["main"]) = ShutFiles(tabs, ixs)
      <3>1. PICK v \in Seq(AnyCall) : v = ShutFiles(tabs, ixs)
        BY ShutCalls
      <3>2. PICK c \in AnyCall : c = Call("shut_file", t)
        BY TheCalls
      <3>3. Head(<<c>> \o v) = c /\ Tail(<<c>> \o v) = v
        BY CallThen
      <3>4. QED
        BY <1>3, <3>1, <3>2, <3>3
    <2>2. t \in DOMAIN fhs /\ Open(t) /\ path2fd[t] = fhs[t]
      BY <1>3 DEF StillOpen
    <2>3. /\ Next1("main")
          /\ DOMAIN path2fd' = DOMAIN path2fd \ {t} /\ \A n \in DOMAIN path2fd' : path2fd'[n] = path2fd[n]
          /\ UNCHANGED <<dir, files, meta, db, fhs, ihs, phase>>
      <3>1. fhs = IF t \in TableNames THEN fhs ELSE ihs
        OBVIOUS
      <3>2. QED
        BY <2>1, <2>2, <3>1, DoShut
    <2>4. p = ShutFiles(tabs, ixs)
      BY <1>1, <1>2, <2>1, <2>3 DEF Next1
    <2>5. StillOpen(tabs, ixs)'
      BY <1>1, <1>3, <2>3 DEF StillOpen, Open
    <2>6. UNCHANGED <<dir, files, meta, phase>>
      BY <2>3
    <2>7. QED
      BY <1>2, <2>4, <2>5, <2>6, ShutStays
  <1>4. ASSUME NEW i \in IndexNames \ ixs, prog["main"] = <<Call("shut_index", i)>> \o ShutIndexes(ixs),
               StillOpen({}, ixs \cup {i})
        PROVE ShutsOn
    <2>1. Head(prog["main"]) = Call("shut_index", i) /\ Tail(prog["main"]) = ShutIndexes(ixs)
      <3>1. PICK v \in Seq(AnyCall) : v = ShutIndexes(ixs)
        BY ShutCalls
      <3>2. PICK c \in AnyCall : c = Call("shut_index", i)
        BY TheCalls
      <3>3. Head(<<c>> \o v) = c /\ Tail(<<c>> \o v) = v
        BY CallThen
      <3>4. QED
        BY <1>4, <3>1, <3>2, <3>3
    <2>2. i \in DOMAIN ihs /\ Open(i) /\ path2fd[i] = ihs[i]
      BY <1>4 DEF StillOpen
    <2>3. /\ Next1("main")
          /\ DOMAIN path2fd' = DOMAIN path2fd \ {i} /\ \A n \in DOMAIN path2fd' : path2fd'[n] = path2fd[n]
          /\ UNCHANGED <<dir, files, meta, db, fhs, ihs, phase>>
      <3>1. ihs = IF i \in TableNames THEN fhs ELSE ihs
        BY <1>1
      <3>2. QED
        BY <2>1, <2>2, <3>1, DoShut
    <2>4. p = ShutIndexes(ixs)
      BY <1>1, <1>2, <2>1, <2>3 DEF Next1
    <2>5. StillOpen({}, ixs)'
      BY <1>4, <2>3 DEF StillOpen, Open
    <2>6. UNCHANGED <<dir, files, meta, phase>>
      BY <2>3
    <2>7. QED
      BY <1>2, <2>4, <2>5, <2>6, ShutStays
  <1>5. QED
    BY <1>3, <1>4

\* A shutdown that no statement overlaps runs to its end.
LEMMA ShutGoesOn ==
    ASSUME ServerInv, CatalogStep("main"), CloseAt
    PROVE  ShutsOn \/ Head(prog["main"]).op = "exit"
  <1>1. CASE \E k \in 1..2 : /\ prog["main"] = From(FlushMeta, k) \o ShutFiles(DOMAIN fhs, DOMAIN ihs)
                             /\ StillOpen(DOMAIN fhs, DOMAIN ihs) /\ db = expect.new
                             /\ MetaIs(IF k = 2 THEN "torn" ELSE "good", expect.new)
    BY <1>1, FlushShuts
  <1>2. ASSUME MetaIs("good", expect.new), NEW tabs \in SUBSET TableNames, NEW ixs \in SUBSET IndexNames,
               \/ prog["main"] = ShutFiles(tabs, ixs) /\ StillOpen(tabs, ixs)
               \/ \E t \in TableNames \ tabs : /\ prog["main"] = <<Call("shut_file", t)>> \o ShutFiles(tabs, ixs)
                                               /\ StillOpen(tabs \cup {t}, ixs)
        PROVE ShutsOn
    BY <1>2, FilesShut, OneShut
  <1>3. ASSUME MetaIs("good", expect.new), NEW ixs \in SUBSET IndexNames,
               \/ prog["main"] = ShutIndexes(ixs) /\ StillOpen({}, ixs)
               \/ \E i \in IndexNames \ ixs : /\ prog["main"] = <<Call("shut_index", i)>> \o ShutIndexes(ixs)
                                              /\ StillOpen({}, ixs \cup {i})
        PROVE ShutsOn
    <2>1. {} \in SUBSET TableNames
      OBVIOUS
    <2>2. QED
      BY <1>3, <2>1, IndexesShut, OneShut
  <1>4. CASE MetaIs("good", expect.new) /\ prog["main"] = Clearing
    <2>1. Head(prog["main"]) = Call("clear", "log") /\ Tail(prog["main"]) = <<Call("exit", "log")>>
      BY <1>4, ShutCalls
    <2>2. Next1("main") /\ UNCHANGED <<dir, files, meta, phase>>
      BY <2>1, DoClear
    <2>3. PICK p : p = prog'["main"]
      OBVIOUS
    <2>4. p = <<Call("exit", "log")>>
      BY <2>1, <2>2, <2>3 DEF Next1, ServerInv, ProgInv, Threads
    <2>5. QED
      BY <1>4, <2>2, <2>3, <2>4, ShutStays
  <1>5. CASE prog["main"] = <<Call("exit", "log")>>
    BY <1>5 DEF Call
  <1>6. QED
    BY <1>1, <1>2, <1>3, <1>4, <1>5 DEF CloseAt

LEMMA ClosingInv ==
    ASSUME ServerInv, CatalogInv, Step("main"), History, phase = "closing"
    PROVE  CatalogInv'
  <1>1. "main" \in Threads /\ "main" \notin Sessions /\ CatalogStep("main") /\ MoreTypes /\ OneDdl /\ OnDisk
    BY NamesApart DEF Threads, Step, CatalogInv
  <1>2. ~Idle => tainted'
    BY DEF Idle, History
  <1>3. ASSUME phase' # "down"
        PROVE /\ phase' = "closing" /\ Goes("main") /\ expect' = expect /\ orphans' = orphans
              /\ Idle' <=> Idle
    <2>1. phase' = "closing"
      BY <1>1, <1>3, PhaseKept
    <2>2. Goes("main") /\ Comes("main")
      BY <1>1, <1>3, StepKeeps
    <2>3. Idle' <=> Idle
      BY <1>1, <2>2 DEF Goes, Idle, Changing, Threads
    <2>4. QED
      BY <2>1, <2>2, <2>3 DEF Goes, Comes
  <1>4. CASE Sound /\ Idle
    <2>1. CloseAt
      BY <1>4 DEF CatalogInv
    <2>2. CASE Head(prog["main"]).op = "exit"
      <3>1. ProcessEnds("closed")
        BY <1>1, <2>2, TheStep DEF Exit
      <3>2. AllGone
        BY <3>1 DEF Step, ProcessEnds
      <3>3. QED
        BY <3>1, <3>2, EndsSound
    <2>3. CASE ShutsOn
      <3>1. phase' # "down"
        BY <2>3 DEF ShutsOn
      <3>2. CloseAt'
        BY <1>3, <2>3, <3>1 DEF ShutsOn
      <3>3. Sound' <=> Sound
        <4>1. tainted' <=> tainted
          BY <1>4 DEF History, Idle
        <4>2. broken' = broken
          BY <1>3, <3>1 DEF Goes
        <4>3. QED
          BY <4>1, <4>2 DEF Sound
      <3>4. QED
        BY <1>3, <1>4, <3>1, <3>2, <3>3 DEF CatalogInv, Goes
    <2>4. QED
      BY <1>1, <2>1, <2>2, <2>3, ShutGoesOn
  <1>5. CASE ~Sound \/ ~Idle
    <2>1. CASE phase' = "down"
      <3>1. \E how : ProcessEnds(how)
        BY <1>1, <2>1, PhaseEnds
      <3>2. broken => broken'
        BY <3>1 DEF ProcessEnds
      <3>3. ~Sound'
        BY <1>2, <1>5, <3>2 DEF Sound, History
      <3>4. AllGone
        BY <2>1 DEF Step
      <3>5. QED
        BY <3>1, <3>3, <3>4, EndsSound
    <2>2. CASE phase' # "down"
      <3>1. ~Sound'
        <4>1. tainted => tainted'
          BY DEF History
        <4>2. broken' = broken
          BY <1>3, <2>2 DEF Goes
        <4>3. QED
          BY <1>2, <1>5, <4>1, <4>2 DEF Sound
      <3>2. QED
        BY <1>3, <2>2, <3>1 DEF CatalogInv, Goes
    <2>3. QED
      BY <2>1, <2>2
  <1>6. QED
    BY <1>4, <1>5

-----------------------------------------------------------------------------
\* The calls of a start

\* Two calls in front of the calls q.
LEMMA TwoCallsThen ==
    ASSUME NEW S, NEW a \in S, NEW b \in S, NEW q \in Seq(S)
    PROVE  /\ <<a, b>> \o q \in Seq(S) /\ <<a, b>> \o q # <<>>
           /\ Head(<<a, b>> \o q) = a /\ Tail(<<a, b>> \o q) = <<b>> \o q
  <1>1. PICK p : p = <<a, b>>
    OBVIOUS
  <1>2. p \in Seq(S) /\ p # <<>> /\ Head(p) = a /\ Tail(p) = <<b>>
    BY <1>1
  <1>3. QED
    BY <1>1, <1>2, HeadTail

LEMMA RebuildingCalls ==
    ASSUME NEW ixs \in SUBSET IndexNames
    PROVE  /\ Serving1 \in Seq(AnyCall) /\ Serving1 # <<>>
           /\ Head(Serving1) = Call("serve", "log") /\ Tail(Serving1) = <<>>
           /\ Rebuilding(ixs) \in Seq(AnyCall) /\ Rebuilding(ixs) # <<>>
           /\ Head(Rebuilding(ixs)) = ForEach(ixs, "rebuild_index") /\ Tail(Rebuilding(ixs)) = Serving1
  <1>1. PICK c \in AnyCall : c = Call("serve", "log")
    BY TheCalls
  <1>2. PICK u : u = <<c>>
    OBVIOUS
  <1>3. u \in Seq(AnyCall) /\ u # <<>> /\ Head(u) = c /\ Tail(u) = <<>>
    BY <1>2
  <1>4. u = Serving1
    BY <1>1, <1>2 DEF Serving1
  <1>5. PICK f \in AnyCall : f = ForEach(ixs, "rebuild_index")
    BY TheCalls
  <1>6. <<f>> \o u \in Seq(AnyCall) /\ <<f>> \o u # <<>> /\ Head(<<f>> \o u) = f /\ Tail(<<f>> \o u) = u
    BY <1>3, CallThen
  <1>7. <<f>> \o u = Rebuilding(ixs)
    BY <1>4, <1>5 DEF Rebuilding
  <1>8. QED
    BY <1>1, <1>3, <1>4, <1>5, <1>6, <1>7

LEMMA OpeningCalls ==
    ASSUME db \in Catalogs, NEW tabs \in SUBSET TableNames, NEW ixs \in SUBSET IndexNames
    PROVE  /\ Recovering \in Seq(AnyCall) /\ Recovering # <<>>
           /\ Head(Recovering) = Call("open", "log") /\ Tail(Recovering) = Rebuilding(db.ixs)
           /\ Opening(tabs) \in Seq(AnyCall) /\ Opening(tabs) # <<>>
           /\ Head(Opening(tabs)) = ForEach(tabs, "open_table") /\ Tail(Opening(tabs)) = Recovering
           /\ OpeningIndexes(ixs, tabs) \in Seq(AnyCall) /\ OpeningIndexes(ixs, tabs) # <<>>
           /\ Head(OpeningIndexes(ixs, tabs)) = ForEach(ixs, "open_index")
           /\ Tail(OpeningIndexes(ixs, tabs)) = Opening(tabs)
  <1>1. db.ixs \in SUBSET IndexNames
    BY DEF Catalogs
  <1>2. PICK u \in Seq(AnyCall) : u = Rebuilding(db.ixs)
    BY <1>1, RebuildingCalls
  <1>3. PICK c \in AnyCall : c = Call("open", "log")
    BY TheCalls
  <1>4. <<c>> \o u \in Seq(AnyCall) /\ <<c>> \o u # <<>> /\ Head(<<c>> \o u) = c /\ Tail(<<c>> \o u) = u
    BY CallThen
  <1>5. PICK v \in Seq(AnyCall) : v = <<c>> \o u
    BY <1>4
  <1>6. v = Recovering
    BY <1>2, <1>3, <1>5 DEF Recovering
  <1>7. PICK f \in AnyCall : f = ForEach(tabs, "open_table")
    BY TheCalls
  <1>8. <<f>> \o v \in Seq(AnyCall) /\ <<f>> \o v # <<>> /\ Head(<<f>> \o v) = f /\ Tail(<<f>> \o v) = v
    BY CallThen
  <1>9. PICK w \in Seq(AnyCall) : w = <<f>> \o v
    BY <1>8
  <1>10. w = Opening(tabs)
    BY <1>6, <1>7, <1>9 DEF Opening
  <1>11. PICK g \in AnyCall : g = ForEach(ixs, "open_index")
    BY TheCalls
  <1>12. <<g>> \o w \in Seq(AnyCall) /\ <<g>> \o w # <<>> /\ Head(<<g>> \o w) = g /\ Tail(<<g>> \o w) = w
    BY CallThen
  <1>13. <<g>> \o w = OpeningIndexes(ixs, tabs)
    BY <1>10, <1>11 DEF OpeningIndexes
  <1>14. v # <<>> /\ Head(v) = c /\ Tail(v) = u
    BY <1>4, <1>5
  <1>15. w # <<>> /\ Head(w) = f /\ Tail(w) = v
    BY <1>8, <1>9
  <1>16. QED
    BY <1>2, <1>3, <1>6, <1>7, <1>10, <1>11, <1>12, <1>13, <1>14, <1>15

\* open_db has read the catalog.
LEMMA OpenDbCalls ==
    ASSUME NEW cat, db' = cat
    PROVE  OpenDb(cat) = Opening(cat.tabs)'
  <1>1. PICK f : f = ForEach(cat.tabs, "open_table")
    OBVIOUS
  <1>2. PICK c : c = Call("open", "log")
    OBVIOUS
  <1>3. PICK g : g = ForEach(cat.ixs, "rebuild_index")
    OBVIOUS
  <1>4. PICK e : e = Call("serve", "log")
    OBVIOUS
  <1>5. <<f, c, g, e>> = <<f>> \o (<<c>> \o (<<g>> \o <<e>>))
    OBVIOUS
  <1>6. OpenDb(cat) = <<f, c, g, e>>
    BY <1>1, <1>2, <1>3, <1>4 DEF OpenDb
  <1>7. Recovering' = <<c>> \o (<<g>> \o <<e>>)
    BY <1>2, <1>3, <1>4 DEF Recovering, Rebuilding, Serving1
  <1>8. Opening(cat.tabs)' = <<f>> \o (<<c>> \o (<<g>> \o <<e>>))
    BY <1>1, <1>7 DEF Opening
  <1>9. QED
    BY <1>5, <1>6, <1>8

\* The rounds of open_db: a table, and then each of its indexes.
LEMMA OpenTableRound ==
    ASSUME db \in Catalogs, NEW tabs \in SUBSET TableNames, NEW t \in TableNames,
           NEW ixs, ixs = {i \in db.ixs : TableOf[i] = t}
    PROVE  /\ (Body("open_table", t) \o <<ForEach(tabs, "open_table")>>) \o Recovering
                 = <<Call("open_file", t)>> \o OpeningIndexes(ixs, tabs)
           /\ Head(<<Call("open_file", t)>> \o OpeningIndexes(ixs, tabs)) = Call("open_file", t)
           /\ Tail(<<Call("open_file", t)>> \o OpeningIndexes(ixs, tabs)) = OpeningIndexes(ixs, tabs)
  <1>1. ixs \in SUBSET IndexNames
    BY DEF Catalogs
  <1>2. PICK r \in Seq(AnyCall) : r = Recovering
    BY <1>1, OpeningCalls
  <1>3. PICK q \in Seq(AnyCall) : q = OpeningIndexes(ixs, tabs)
    BY <1>1, OpeningCalls
  <1>4. PICK a \in AnyCall : a = Call("open_file", t)
    BY TheCalls
  <1>5. PICK g \in AnyCall : g = ForEach(ixs, "open_index")
    BY <1>1, TheCalls
  <1>6. PICK f \in AnyCall : f = ForEach(tabs, "open_table")
    BY TheCalls
  <1>7. Body("open_table", t) = <<a, g>>
    BY <1>4, <1>5 DEF Body
  <1>8. <<a, g>> \o <<f>> = <<a>> \o (<<g>> \o <<f>>) /\ <<a>> \in Seq(AnyCall) /\ <<g>> \in Seq(AnyCall)
        /\ <<f>> \in Seq(AnyCall) /\ <<g>> \o <<f>> \in Seq(AnyCall)
    OBVIOUS
  <1>9. (<<a>> \o (<<g>> \o <<f>>)) \o r = <<a>> \o ((<<g>> \o <<f>>) \o r)
    BY <1>8, Grouped
  <1>10. (<<g>> \o <<f>>) \o r = <<g>> \o (<<f>> \o r)
    BY <1>8, Grouped
  <1>11. <<g>> \o (<<f>> \o r) = q
    BY <1>2, <1>3, <1>5, <1>6 DEF OpeningIndexes, Opening
  <1>12. Head(<<a>> \o q) = a /\ Tail(<<a>> \o q) = q
    BY CallThen
  <1>13. QED
    BY <1>2, <1>3, <1>4, <1>6, <1>7, <1>8, <1>9, <1>10, <1>11, <1>12

LEMMA OpenIndexRound ==
    ASSUME db \in Catalogs, NEW tabs \in SUBSET TableNames, NEW ixs \in SUBSET IndexNames, NEW i \in IndexNames
    PROVE  LET q == OpeningIndexes(ixs, tabs)
               p == <<Call("open_index", i), Call("register", i)>> \o q
           IN /\ (Body("open_index", i) \o <<ForEach(ixs, "open_index")>>) \o Opening(tabs) = p
              /\ Head(p) = Call("open_index", i) /\ Tail(p) = <<Call("register", i)>> \o q
              /\ Head(<<Call("register", i)>> \o q) = Call("register", i)
              /\ Tail(<<Call("register", i)>> \o q) = q
  <1>1. PICK r \in Seq(AnyCall) : r = Opening(tabs)
    BY OpeningCalls
  <1>2. PICK q \in Seq(AnyCall) : q = OpeningIndexes(ixs, tabs)
    BY OpeningCalls
  <1>3. PICK a \in AnyCall : a = Call("open_index", i)
    BY TheCalls
  <1>4. PICK b \in AnyCall : b = Call("register", i)
    BY TheCalls
  <1>5. PICK f \in AnyCall : f = ForEach(ixs, "open_index")
    BY TheCalls
  <1>6. Body("open_index", i) = <<a, b>>
    BY <1>3, <1>4 DEF Body
  <1>7. <<a, b>> \in Seq(AnyCall) /\ <<f>> \in Seq(AnyCall)
    OBVIOUS
  <1>8. (<<a, b>> \o <<f>>) \o r = <<a, b>> \o (<<f>> \o r)
    BY <1>7, Grouped
  <1>9. <<f>> \o r = q
    BY <1>1, <1>2, <1>5 DEF OpeningIndexes
  <1>10. Head(<<a, b>> \o q) = a /\ Tail(<<a, b>> \o q) = <<b>> \o q
    BY TwoCallsThen
  <1>11. Head(<<b>> \o q) = b /\ Tail(<<b>> \o q) = q
    BY CallThen
  <1>12. QED
    BY <1>1, <1>2, <1>3, <1>4, <1>5, <1>6, <1>8, <1>9, <1>10, <1>11

\* The calls that build an index again.
LEMMA RebuildIndexCalls ==
    ASSUME NEW i \in IndexNames
    PROVE  LET p == RebuildIndex(i)
           IN /\ p \in Seq(AnyCall) /\ Len(p) = 10
              /\ p[1] = Call("close_index", i) /\ p[2] = Call("destroy", i)
              /\ p[3] = Call("create", i) /\ p[4] = Call("open", i)
              /\ p[5] = Call("check_length", i) /\ p[6] = Call("header", i)
              /\ p[7] = Call("number", i) /\ p[8] = Call("close", i)
              /\ p[9] = Call("open_index", i) /\ p[10] = Call("register", i)
  <1>1. PICK a \in Seq(AnyCall) : a = DestroyIndex(i)
    BY DestroyIndexCalls DEF Walks
  <1>2. Len(a) = 2 /\ a[1] = Call("close_index", i) /\ a[2] = Call("destroy", i)
    BY <1>1, DestroyIndexCalls DEF Walks
  <1>3. PICK c : c = <<Call("register", i)>>
    OBVIOUS
  <1>4. c \in Seq(AnyCall) /\ Len(c) = 1 /\ c[1] = Call("register", i)
    BY <1>3, TheCalls
  <1>5. PICK m : m = NewIndexFile(i)
    OBVIOUS
  <1>6. m \in Seq(AnyCall)
    BY <1>5, TheCalls DEF NewIndexFile
  <1>7. PICK u : u = m \o c
    OBVIOUS
  <1>8. u \in Seq(AnyCall)
    BY <1>4, <1>6, <1>7
  <1>9. /\ Len(u) = 8 /\ u[1] = Call("create", i) /\ u[2] = Call("open", i)
        /\ u[3] = Call("check_length", i) /\ u[4] = Call("header", i)
        /\ u[5] = Call("number", i) /\ u[6] = Call("close", i)
        /\ u[7] = Call("open_index", i) /\ u[8] = Call("register", i)
    <2>1. /\ Len(m) = 7
          /\ m[1] = Call("create", i) /\ m[2] = Call("open", i)
          /\ m[3] = Call("check_length", i) /\ m[4] = Call("header", i)
          /\ m[5] = Call("number", i) /\ m[6] = Call("close", i)
          /\ m[7] = Call("open_index", i)
      BY <1>5 DEF NewIndexFile
    <2>2. /\ Len(u) = Len(m) + Len(c)
          /\ \A k \in 1..Len(m) + Len(c) : u[k] = IF k <= Len(m) THEN m[k] ELSE c[k - Len(m)]
      <3>1. c \in Seq(AnyCall)
        BY <1>4
      <3>2. QED
        BY <1>6, <1>7, <3>1, JoinedCalls
    <2>3. Len(u) = 8 /\ \A k \in 1..8 : u[k] = IF k <= 7 THEN m[k] ELSE c[k - 7]
      BY <1>4, <2>1, <2>2
    <2>4. /\ u[1] = m[1] /\ u[2] = m[2] /\ u[3] = m[3] /\ u[4] = m[4]
          /\ u[5] = m[5] /\ u[6] = m[6] /\ u[7] = m[7] /\ u[8] = c[1]
      BY <2>3
    <2>5. QED
      BY <1>4, <2>1, <2>3, <2>4
  <1>10. PICK p : p = a \o u
    OBVIOUS
  <1>11. /\ p \in Seq(AnyCall) /\ Len(p) = 10
         /\ \A k \in 1..10 : p[k] = IF k <= 2 THEN a[k] ELSE u[k - 2]
    <2>1. /\ p \in Seq(AnyCall) /\ Len(p) = Len(a) + Len(u)
          /\ \A k \in 1..Len(a) + Len(u) : p[k] = IF k <= Len(a) THEN a[k] ELSE u[k - Len(a)]
      BY <1>8, <1>10, JoinedCalls
    <2>2. QED
      BY <1>2, <1>9, <2>1
  <1>12. /\ p[1] = a[1] /\ p[2] = a[2] /\ p[3] = u[1] /\ p[4] = u[2] /\ p[5] = u[3] /\ p[6] = u[4]
         /\ p[7] = u[5] /\ p[8] = u[6] /\ p[9] = u[7] /\ p[10] = u[8]
    BY <1>11
  <1>13. p = RebuildIndex(i)
    <2>1. (a \o m) \o c = a \o (m \o c)
      BY <1>4, <1>6, Grouped
    <2>2. RebuildIndex(i) = (a \o m) \o c
      BY <1>1, <1>3, <1>5 DEF RebuildIndex
    <2>3. QED
      BY <1>7, <1>10, <2>1, <2>2
  <1>14. QED
    BY <1>2, <1>9, <1>11, <1>12, <1>13

LEMMA RebuildRound ==
    ASSUME NEW ixs \in SUBSET IndexNames, NEW i \in IndexNames
    PROVE  /\ (Body("rebuild_index", i) \o <<ForEach(ixs, "rebuild_index")>>) \o Serving1
                 = From(RebuildIndex(i), 1) \o Rebuilding(ixs)
           /\ WalksOn(RebuildIndex(i), 10, Rebuilding(ixs))
  <1>1. PICK p \in Seq(AnyCall) : p = RebuildIndex(i)
    BY RebuildIndexCalls
  <1>2. PICK q \in Seq(AnyCall) : q = Rebuilding(ixs)
    BY RebuildingCalls
  <1>3. PICK f \in AnyCall : f = ForEach(ixs, "rebuild_index")
    BY TheCalls
  <1>4. PICK u \in Seq(AnyCall) : u = Serving1
    BY RebuildingCalls
  <1>5. Len(p) = 10
    BY <1>1, RebuildIndexCalls
  <1>6. WalksOn(p, 10, q)
    BY <1>5, WalkOn
  <1>7. <<f>> \in Seq(AnyCall)
    OBVIOUS
  <1>8. (p \o <<f>>) \o u = p \o (<<f>> \o u)
    BY <1>7, Grouped
  <1>9. <<f>> \o u = q
    BY <1>2, <1>3, <1>4 DEF Rebuilding
  <1>10. p \o q = From(p, 1) \o q
    BY <1>6 DEF WalksOn
  <1>11. Body("rebuild_index", i) = p
    BY <1>1 DEF Body
  <1>12. QED
    BY <1>1, <1>2, <1>3, <1>4, <1>6, <1>8, <1>9, <1>10, <1>11

\* main makes a call of a start.
StartContext ==
    /\ ServerInv /\ MoreTypes /\ OnDisk /\ HandlesKnown /\ CatalogStep("main") /\ phase = "starting"
    /\ phase' # "down" => orphans' = orphans /\ (Sound' <=> Sound)
    /\ phase' = "starting" => expect' = expect
    /\ phase' = "up" => expect' = [old |-> db, new |-> db]

\* The start goes on, or the server is up, or, when something was wrong, the process is gone.
StartsOn ==
    \/ phase' = "down" /\ ~Sound
    \/ phase' = "starting" /\ HandlesKnown' /\ StartAt'
    \/ /\ phase' = "up" /\ HandlesKnown' /\ NumberedBut({})'
       /\ Sound => /\ dir' /\ files'["log"] # "none" /\ WellFormed(expect.old)' /\ Orphaned(expect.old)'
                   /\ IdleSound'

LEMMA StartThrows ==
    ASSUME ~Sound, Throw("main") PROVE StartsOn
BY ThrowsDown DEF StartsOn

LEMMA StartKeeps ==
    ASSUME StartContext, phase' = phase
    PROVE  /\ phase' = "starting" /\ expect' = expect /\ orphans' = orphans /\ (Sound' <=> Sound)
           /\ ServerInv /\ MoreTypes /\ HandlesKnown /\ CatalogStep("main") /\ phase = "starting"
           /\ DOMAIN prog = Threads /\ "main" \in Threads /\ orphans \subseteq Names
           /\ db \in Catalogs /\ files \in [Paths -> {"none", "empty", "ready"}]
           /\ DOMAIN fhs \subseteq TableNames /\ DOMAIN ihs \subseteq IndexNames
           /\ meta \in [state : {"none", "torn", "good"}, cat : Catalogs]
BY DEF StartContext, MoreTypes, ServerInv, ProgInv, TypeInv, Threads

LEMMA DoMkdir ==
    ASSUME NEW x, Head(prog["main"]) = Call("mkdir", x), CatalogStep("main")
    PROVE  /\ Next1("main") /\ dir' = TRUE
           /\ UNCHANGED <<files, meta, db, fhs, ihs, path2fd, fd2pageno, job, reg, outcome, phase, kernel, broken,
                          ended, moved>>
  <1>1. MakeDir("main")
    BY TheStep, CallFields
  <1>2. QED
    BY <1>1 DEF MakeDir, handleVars, historyVars

LEMMA DoLoad ==
    ASSUME NEW x, Head(prog["main"]) = Call("load_meta", x), CatalogStep("main")
    PROVE  \/ /\ db' = IF meta.state = "good" THEN meta.cat ELSE NoCatalog
              /\ prog' = [prog EXCEPT !["main"] = OpenDb(db')]
              /\ UNCHANGED <<dir, files, meta, fhs, ihs, path2fd, fd2pageno, job, reg, outcome, phase, kernel, broken,
                             ended, moved>>
           \/ meta.state # "good" /\ ProcessEnds("failed")
  <1>1. LoadMeta("main")
    BY TheStep, CallFields
  <1>2. QED
    BY <1>1 DEF LoadMeta, handleVars, historyVars

LEMMA DoServe ==
    ASSUME NEW x, Head(prog["main"]) = Call("serve", x), CatalogStep("main")
    PROVE  /\ phase' = "up"
           /\ UNCHANGED <<dir, files, meta, db, fhs, ihs, path2fd, fd2pageno, job, reg, outcome, broken, ended,
                          moved>>
  <1>1. Serve("main")
    BY TheStep, CallFields
  <1>2. QED
    BY <1>1 DEF Serve, handleVars, historyVars

\* What the calls of a start leave as it was.
LEMMA LoadedStays ==
    ASSUME NEW X, Loaded(X), \A n \in X : In(n, db), orphans \subseteq Names,
           UNCHANGED <<dir, meta, db, expect, orphans>>, files'["log"] = files["log"],
           \A n \in Names \ X : files'[n] = files[n], OpenHeld(X)'
    PROVE  Loaded(X)'
  <1>1. MetaIs("good", db)' /\ WellFormed(db)'
    BY DEF Loaded, MetaIs, WellFormed
  <1>2. Orphaned(db)'
    BY DEF Loaded, Orphaned, In
  <1>3. \A n \in Names \ X : DiskOf(n, db)'
    BY DEF Loaded, DiskOf, In
  <1>4. QED
    BY <1>1, <1>2, <1>3 DEF Loaded

LEMMA StartStays ==
    ASSUME UNCHANGED <<dir, files, meta, db, fhs, ihs, path2fd, expect, orphans>>
    PROVE  /\ \A n : DiskOf(n, db) => DiskOf(n, db)'
           /\ \A X : Loaded(X) => Loaded(X)'
           /\ \A W : HeldBut(W) => HeldBut(W)'
           /\ \A W : OpeningSound(W) => OpeningSound(W)'
           /\ Open("log")' <=> Open("log")
  <1>1. (\A n : DiskOf(n, db) => DiskOf(n, db)') /\ (Open("log")' <=> Open("log"))
    BY DEF DiskOf, In, Open
  <1>2. \A W : HeldBut(W) => HeldBut(W)'
    BY DEF HeldBut, Held, In
  <1>3. ASSUME NEW X PROVE Loaded(X) => Loaded(X)'
    <2>1. OpenHeld(X) => OpenHeld(X)'
      BY DEF OpenHeld, Open, Held
    <2>2. WellFormed(db) /\ Orphaned(db) => WellFormed(db)' /\ Orphaned(db)'
      BY DEF WellFormed, Orphaned, In
    <2>3. MetaIs("good", db) => MetaIs("good", db)'
      BY DEF MetaIs
    <2>4. QED
      BY <1>1, <2>1, <2>2, <2>3 DEF Loaded
  <1>4. \A W : OpeningSound(W) => OpeningSound(W)'
    BY <1>1, <1>2, <1>3 DEF OpeningSound
  <1>5. QED
    BY <1>1, <1>2, <1>3, <1>4

LEMMA OpeningSame ==
    ASSUME db' = db
    PROVE  /\ Recovering' = Recovering
           /\ \A tabs : Opening(tabs)' = Opening(tabs)
           /\ \A ixs, tabs : OpeningIndexes(ixs, tabs)' = OpeningIndexes(ixs, tabs)
  <1>1. Recovering' = Recovering
    BY DEF Recovering
  <1>2. ASSUME NEW tabs PROVE Opening(tabs)' = Opening(tabs)
    BY <1>1 DEF Opening
  <1>3. ASSUME NEW ixs, NEW tabs PROVE OpeningIndexes(ixs, tabs)' = OpeningIndexes(ixs, tabs)
    BY <1>2 DEF OpeningIndexes
  <1>4. QED
    BY <1>1, <1>2, <1>3

\* Where a start is after a call.
LEMMA ToOpening ==
    ASSUME StartContext, phase' = phase, HandlesKnown', NEW tabs, tabs \subseteq db'.tabs,
           prog'["main"] = Opening(tabs)', Sound => OpeningSound(Of(tabs))'
    PROVE  StartsOn
  <1>1. phase' = "starting" /\ (Sound' <=> Sound) /\ tabs \in SUBSET db'.tabs
    BY StartKeeps
  <1>2. PICK p : p = prog'["main"]
    OBVIOUS
  <1>3. StartAt'
    BY <1>1, <1>2 DEF StartAt
  <1>4. QED
    BY <1>1, <1>3 DEF StartsOn

LEMMA ToOpenFile ==
    ASSUME StartContext, phase' = phase, HandlesKnown', db' = db, NEW tabs \in SUBSET db.tabs,
           NEW t \in db.tabs \ tabs,
           prog'["main"] = <<Call("open_file", t)>> \o OpeningIndexes({i \in db.ixs : TableOf[i] = t}, tabs),
           Sound => OpeningSound(Of(tabs \cup {t}))'
    PROVE  StartsOn
  <1>1. phase' = "starting" /\ (Sound' <=> Sound)
    BY StartKeeps
  <1>2. PICK p : p = prog'["main"]
    OBVIOUS
  <1>3. p = (<<Call("open_file", t)>> \o OpeningIndexes({i \in db.ixs : TableOf[i] = t}, tabs))'
    BY <1>2, OpeningSame
  <1>4. tabs \in SUBSET db'.tabs /\ t \in db'.tabs \ tabs
    OBVIOUS
  <1>5. StartAt'
    BY <1>1, <1>2, <1>3, <1>4 DEF StartAt
  <1>6. QED
    BY <1>1, <1>5 DEF StartsOn

LEMMA ToOpeningIndexes ==
    ASSUME StartContext, phase' = phase, HandlesKnown', db' = db, NEW tabs \in SUBSET db.tabs,
           NEW ixs \in SUBSET db.ixs,
           \A j \in ixs : TableOf[j] \notin tabs,
           prog'["main"] = OpeningIndexes(ixs, tabs), Sound => OpeningSound(Of(tabs) \cup ixs)'
    PROVE  StartsOn
  <1>1. phase' = "starting" /\ (Sound' <=> Sound)
    BY StartKeeps
  <1>2. PICK p : p = prog'["main"]
    OBVIOUS
  <1>3. p = OpeningIndexes(ixs, tabs)' /\ tabs \in SUBSET db'.tabs /\ ixs \in SUBSET db'.ixs
    BY <1>2, OpeningSame
  <1>4. StartAt'
    BY <1>1, <1>2, <1>3 DEF StartAt
  <1>5. QED
    BY <1>1, <1>4 DEF StartsOn

LEMMA ToOpenIndex ==
    ASSUME StartContext, phase' = phase, HandlesKnown', db' = db, NEW tabs \in SUBSET db.tabs,
           NEW ixs \in SUBSET db.ixs,
           \A j \in ixs : TableOf[j] \notin tabs, NEW i \in db.ixs \ ixs, TableOf[i] \notin tabs,
           prog'["main"] = <<Call("open_index", i), Call("register", i)>> \o OpeningIndexes(ixs, tabs),
           Sound => OpeningSound(Of(tabs) \cup ixs \cup {i})'
    PROVE  StartsOn
  <1>1. phase' = "starting" /\ (Sound' <=> Sound)
    BY StartKeeps
  <1>2. PICK p : p = prog'["main"]
    OBVIOUS
  <1>3. p = (<<Call("open_index", i), Call("register", i)>> \o OpeningIndexes(ixs, tabs))'
    BY <1>2, OpeningSame
  <1>4. tabs \in SUBSET db'.tabs /\ ixs \in SUBSET db'.ixs /\ i \in db'.ixs \ ixs
    OBVIOUS
  <1>5. StartAt'
    BY <1>1, <1>2, <1>3, <1>4 DEF StartAt
  <1>6. QED
    BY <1>1, <1>5 DEF StartsOn

LEMMA ToRegister ==
    ASSUME StartContext, phase' = phase, HandlesKnown', db' = db, NEW tabs \in SUBSET db.tabs,
           NEW ixs \in SUBSET db.ixs,
           \A j \in ixs : TableOf[j] \notin tabs, NEW i \in db.ixs \ ixs, TableOf[i] \notin tabs,
           prog'["main"] = <<Call("register", i)>> \o OpeningIndexes(ixs, tabs),
           Open(i)', path2fd'[i] = reg'["main"],
           Sound => /\ Loaded({i})' /\ DiskOf(i, db)' /\ ~Open("log")'
                    /\ HeldBut(Of(tabs) \cup ixs \cup {i})'
    PROVE  StartsOn
  <1>1. phase' = "starting" /\ (Sound' <=> Sound)
    BY StartKeeps
  <1>2. PICK p : p = prog'["main"]
    OBVIOUS
  <1>3. p = (<<Call("register", i)>> \o OpeningIndexes(ixs, tabs))'
    BY <1>2, OpeningSame
  <1>4. tabs \in SUBSET db'.tabs /\ ixs \in SUBSET db'.ixs /\ i \in db'.ixs \ ixs
    OBVIOUS
  <1>5. StartAt'
    BY <1>1, <1>2, <1>3, <1>4 DEF StartAt
  <1>6. QED
    BY <1>1, <1>5 DEF StartsOn

LEMMA ToRecovering ==
    ASSUME StartContext, phase' = phase, HandlesKnown', db' = db, prog'["main"] = Recovering,
           Sound => OpeningSound({})'
    PROVE  StartsOn
  <1>1. phase' = "starting" /\ (Sound' <=> Sound)
    BY StartKeeps
  <1>2. PICK p : p = prog'["main"]
    OBVIOUS
  <1>3. p = Recovering'
    BY <1>2, OpeningSame
  <1>4. StartAt'
    BY <1>1, <1>2, <1>3 DEF StartAt
  <1>5. QED
    BY <1>1, <1>4 DEF StartsOn

LEMMA ToRebuilding ==
    ASSUME StartContext, phase' = phase, HandlesKnown', db' = db, NEW ixs \in SUBSET db.ixs,
           prog'["main"] = Rebuilding(ixs), NumberedBut(ixs)', Sound => Loaded({})' /\ HeldBut({})'
    PROVE  StartsOn
  <1>1. phase' = "starting" /\ (Sound' <=> Sound) /\ ixs \in SUBSET db'.ixs
    BY StartKeeps
  <1>2. PICK p : p = prog'["main"]
    OBVIOUS
  <1>3. StartAt'
    BY <1>1, <1>2 DEF StartAt
  <1>4. QED
    BY <1>1, <1>3 DEF StartsOn

LEMMA ToRebuild ==
    ASSUME StartContext, phase' = phase, HandlesKnown', db' = db, NEW ixs \in SUBSET db.ixs, NEW i \in db.ixs,
           NEW k \in 1..10, prog'["main"] = From(RebuildIndex(i), k) \o Rebuilding(ixs), RebuildAt(i, ixs, k)',
           Sound => RebuildSound(i, k)'
    PROVE  StartsOn
  <1>1. phase' = "starting" /\ (Sound' <=> Sound) /\ ixs \in SUBSET db'.ixs /\ i \in db'.ixs
    BY StartKeeps
  <1>2. PICK p : p = prog'["main"]
    OBVIOUS
  <1>3. StartAt'
    BY <1>1, <1>2 DEF StartAt
  <1>4. QED
    BY <1>1, <1>3 DEF StartsOn

LEMMA ToServing ==
    ASSUME StartContext, phase' = phase, HandlesKnown', db' = db, prog'["main"] = Serving1, NumberedBut({})',
           Sound => Loaded({})' /\ HeldBut({})'
    PROVE  StartsOn
  <1>1. phase' = "starting" /\ (Sound' <=> Sound)
    BY StartKeeps
  <1>2. PICK p : p = prog'["main"]
    OBVIOUS
  <1>3. StartAt'
    BY <1>1, <1>2 DEF StartAt
  <1>4. QED
    BY <1>1, <1>3 DEF StartsOn

LEMMA CreateDbStarts ==
    ASSUME StartContext, db = NoCatalog, DOMAIN path2fd = {}, NEW k \in 1..4,
           prog["main"] = From(CreateDb, k) \o <<Call("load_meta", "meta")>>, Sound => CreateDbSound(k)
    PROVE  StartsOn
  <1>1. PICK c \in AnyCall : c = Call("load_meta", "meta")
    BY TheCalls
  <1>2. PICK q : q = <<c>>
    OBVIOUS
  <1>3. q \in Seq(AnyCall) /\ q # <<>>
    BY <1>2
  <1>4. PICK d : d = CreateDb
    OBVIOUS
  <1>5. /\ d \in Seq(AnyCall) /\ Len(d) = 4
        /\ d[1] = Call("mkdir", "meta") /\ d[2] = Call("truncate", "meta")
        /\ d[3] = Call("create", "log") /\ d[4] = Call("write_meta", "meta")
    BY <1>4, CreateDbCalls DEF Walks
  <1>6. WalksOn(d, 4, q)
    BY <1>3, <1>5, WalkOn
  <1>7. Advances("main", d, 4, q, k)
    <2>1. prog["main"] = From(d, k) \o q /\ 4 \in Nat /\ "main" \in Threads /\ ServerInv
      BY <1>1, <1>2, <1>4 DEF StartContext, Threads
    <2>2. QED
      BY <1>3, <1>6, <2>1, AdvanceOn
  <1>8. /\ Head(prog["main"]) = d[k] /\ (Next1("main") => prog'["main"] = From(d, k + 1) \o q)
        /\ k = 4 => From(d, k + 1) \o q = q
    BY <1>7 DEF Advances
  <1>9. CatalogStep("main") /\ DOMAIN fhs = {} /\ DOMAIN ihs = {} /\ files \in [Paths -> {"none", "empty", "ready"}]
    BY DEF StartContext, HandlesKnown, Open, ServerInv, TypeInv
  <1>10. ASSUME UNCHANGED <<db, fhs, ihs, path2fd, phase>>
         PROVE HandlesKnown' /\ db' = NoCatalog /\ DOMAIN path2fd' = {}
    BY <1>9, <1>10 DEF HandlesKnown
  <1>11. ASSUME NEW m \in 1..4, UNCHANGED <<db, fhs, ihs, path2fd, phase>>, prog'["main"] = From(d, m) \o q,
                Sound => CreateDbSound(m)'
         PROVE StartsOn
    <2>1. phase' = "starting" /\ (Sound' <=> Sound)
      BY <1>11, StartKeeps
    <2>2. PICK p : p = prog'["main"]
      OBVIOUS
    <2>3. p = From(CreateDb, m) \o <<Call("load_meta", "meta")>>
      BY <1>1, <1>2, <1>4, <1>11, <2>2
    <2>4. StartAt'
      BY <1>10, <1>11, <2>1, <2>2, <2>3 DEF StartAt
    <2>5. QED
      BY <1>10, <1>11, <2>1, <2>4 DEF StartsOn
  <1>12. ASSUME UNCHANGED <<expect, orphans, db>>, \A n \in Names : files'[n] = files[n], meta'.state # "good",
                Fresh
         PROVE Fresh'
    BY <1>12 DEF Fresh
  <1>13. Names \subseteq Paths /\ "log" \in Paths /\ "log" \notin Names
    BY CatalogAssumption DEF Names, Paths
  <1>14. phase' = phase => UNCHANGED <<expect, orphans>>
    BY StartKeeps
  <1>15. CASE k = 1
    <2>1. Head(prog["main"]) = Call("mkdir", "meta")
      BY <1>5, <1>8, <1>15
    <2>2. Next1("main") /\ dir' = TRUE /\ UNCHANGED <<files, meta, db, fhs, ihs, path2fd, phase>>
      BY <1>9, <2>1, DoMkdir
    <2>3. k + 1 = 2 /\ 2 \in 1..4
      BY <1>15
    <2>4. prog'["main"] = From(d, 2) \o q
      BY <1>8, <2>2, <2>3, Zenon
    <2>5. Sound => CreateDbSound(2)'
      BY <1>12, <1>14, <1>15, <2>2 DEF CreateDbSound, Fresh
    <2>6. QED
      BY <1>11, <2>2, <2>3, <2>4, <2>5
  <1>16. CASE k = 2
    <2>1. Head(prog["main"]) = Call("truncate", "meta")
      BY <1>5, <1>8, <1>16
    <2>2. /\ Next1("main") /\ meta' = [meta EXCEPT !.state = "torn"]
          /\ UNCHANGED <<dir, files, db, fhs, ihs, path2fd, phase>>
      BY <1>9, <2>1, DoTruncate
    <2>3. k + 1 = 3 /\ 3 \in 1..4
      BY <1>16
    <2>4. prog'["main"] = From(d, 3) \o q
      BY <1>8, <2>2, <2>3, Zenon
    <2>5. meta'.state # "good"
      BY <2>2 DEF StartContext, ServerInv, TypeInv
    <2>6. UNCHANGED <<dir, files, db, fhs, ihs, path2fd, phase>>
      BY <2>2
    <2>7. Sound => CreateDbSound(3)'
      BY <1>12, <1>14, <1>16, <2>5, <2>6 DEF CreateDbSound
    <2>8. QED
      BY <1>11, <2>3, <2>4, <2>6, <2>7
  <1>17. CASE k = 3
    <2>1. Head(prog["main"]) = Call("create", "log")
      BY <1>5, <1>8, <1>17
    <2>0. Taken("log") => files["log"] # "none"
      BY CatalogAssumption DEF Taken, SameFile
    <2>2. \/ files["log"] # "none" /\ Throw("main")
          \/ /\ Next1("main") /\ files'["log"] = "empty" /\ \A n \in Paths \ {"log"} : files'[n] = files[n]
             /\ UNCHANGED <<dir, meta, db, fhs, ihs, path2fd, phase>>
      BY <1>9, <1>13, <2>0, <2>1, DoCreate
    <2>3. Sound => CreateDbSound(3)
      BY <1>17
    <2>4. CASE files["log"] # "none" /\ Throw("main")
      BY <2>3, <2>4, StartThrows DEF CreateDbSound
    <2>5. CASE /\ Next1("main") /\ files'["log"] = "empty" /\ \A n \in Paths \ {"log"} : files'[n] = files[n]
               /\ UNCHANGED <<dir, meta, db, fhs, ihs, path2fd, phase>>
      <3>1. k + 1 = 4 /\ 4 \in 1..4
        BY <1>17
      <3>2. prog'["main"] = From(d, 4) \o q
        BY <1>8, <2>5, <3>1, Zenon
      <3>3. Sound => CreateDbSound(4)'
        <4>1. \A n \in Names : files'[n] = files[n]
          BY <1>13, <2>5
        <4>2. Sound => Fresh'
          BY <1>12, <1>14, <2>3, <2>5, <4>1 DEF CreateDbSound, Fresh
        <4>3. QED
          BY <2>3, <2>5, <4>2 DEF CreateDbSound
      <3>4. QED
        BY <1>11, <2>5, <3>1, <3>2, <3>3
    <2>6. QED
      BY <2>2, <2>4, <2>5
  <1>18. CASE k = 4
    <2>1. Head(prog["main"]) = Call("write_meta", "meta")
      BY <1>5, <1>8, <1>18
    <2>2. /\ Next1("main") /\ meta' = [state |-> "good", cat |-> db]
          /\ UNCHANGED <<dir, files, db, fhs, ihs, path2fd, phase>>
      BY <1>9, <2>1, DoWriteMeta
    <2>3. prog'["main"] = q
      BY <1>8, <1>18, <2>2
    <2>4. phase' = "starting" /\ (Sound' <=> Sound)
      BY <2>2, StartKeeps
    <2>5. ASSUME Sound PROVE StoredCat'
      <3>1. CreateDbSound(4)
        BY <1>18, <2>5
      <3>2. /\ dir /\ files["log"] = "empty" /\ orphans = {} /\ expect = [old |-> NoCatalog, new |-> NoCatalog]
            /\ \A n \in Names : files[n] = "none"
        BY <3>1 DEF CreateDbSound, Fresh
      <3>3. meta'.state = "good" /\ meta'.cat = NoCatalog
        BY <2>2
      <3>4. dir' /\ files' = files /\ orphans' = {} /\ expect'.old = NoCatalog
        BY <1>14, <2>2, <3>2
      <3>5. DiskHolds(NoCatalog)'
        BY <3>2, <3>4 DEF DiskHolds, WellFormed, Orphaned, DiskOf, In, NoCatalog
      <3>6. QED
        BY <3>3, <3>4, <3>5 DEF StoredCat, DiskHolds, WellFormed, Orphaned, DiskOf, In
    <2>6. PICK p : p = prog'["main"]
      OBVIOUS
    <2>7. p = <<Call("load_meta", "meta")>>
      BY <1>1, <1>2, <2>3, <2>6
    <2>8. StartAt'
      BY <1>10, <2>2, <2>4, <2>5, <2>6, <2>7 DEF StartAt
    <2>9. QED
      BY <1>10, <2>2, <2>4, <2>8 DEF StartsOn
  <1>19. QED
    BY <1>15, <1>16, <1>17, <1>18

\* open_db reads the catalog.
LEMMA LoadStarts ==
    ASSUME StartContext, db = NoCatalog, DOMAIN path2fd = {}, prog["main"] = <<Call("load_meta", "meta")>>,
           Sound => StoredCat
    PROVE  StartsOn
  <1>1. Head(prog["main"]) = Call("load_meta", "meta") /\ CatalogStep("main") /\ DOMAIN prog = Threads
        /\ "main" \in Threads
    BY DEF StartContext, ServerInv, ProgInv, Threads
  <1>2. DOMAIN fhs = {} /\ DOMAIN ihs = {} /\ meta \in [state : {"none", "torn", "good"}, cat : Catalogs]
    BY DEF StartContext, HandlesKnown, Open, ServerInv, TypeInv
  <1>3. CASE meta.state # "good" /\ ProcessEnds("failed")
    BY <1>3 DEF ProcessEnds, StartsOn, StoredCat
  <1>4. CASE /\ db' = IF meta.state = "good" THEN meta.cat ELSE NoCatalog
             /\ prog' = [prog EXCEPT !["main"] = OpenDb(db')]
             /\ UNCHANGED <<dir, files, meta, fhs, ihs, path2fd, phase>>
    <2>1. PICK cat : cat = IF meta.state = "good" THEN meta.cat ELSE NoCatalog
      OBVIOUS
    <2>2. db' = cat /\ prog'["main"] = OpenDb(cat)
      BY <1>1, <1>4, <2>1
    <2>3. prog'["main"] = Opening(cat.tabs)'
      BY <2>2, OpenDbCalls
    <2>4. HandlesKnown'
      BY <1>2, <1>4 DEF HandlesKnown
    <2>5. UNCHANGED <<expect, orphans>>
      BY <1>4, StartKeeps
    <2>6. ASSUME Sound PROVE OpeningSound(Of(cat.tabs))'
      <3>1. /\ meta.state = "good" /\ cat = meta.cat /\ cat \in {expect.old, expect.new} /\ cat \in Catalogs
            /\ dir /\ files["log"] # "none" /\ WellFormed(cat) /\ Orphaned(cat) /\ \A n \in Names : DiskOf(n, cat)
        BY <1>2, <2>1, <2>6 DEF StoredCat, DiskHolds
      <3>2. meta = [state |-> "good", cat |-> cat]
        BY <1>2, <3>1
      <3>3. MetaIs("good", db)'
        BY <1>4, <2>2, <3>2 DEF MetaIs
      <3>4. WellFormed(db)' /\ Orphaned(db)'
        BY <1>4, <2>2, <2>5, <3>1 DEF WellFormed, Orphaned, In
      <3>5. \A n \in Names : DiskOf(n, db)'
        BY <1>4, <2>2, <2>5, <3>1 DEF DiskOf, In
      <3>6. OpenHeld({})' /\ ~Open("log")'
        BY <1>4 DEF OpenHeld, Open
      <3>7. HeldBut(Of(cat.tabs))'
        <4>1. ASSUME NEW n, In(n, cat) PROVE n \in Of(cat.tabs)
          BY <3>1, <4>1 DEF Of, In, WellFormed, Catalogs
        <4>2. \A n : ~Held(n)'
          BY <1>2, <1>4 DEF Held
        <4>3. QED
          BY <2>2, <4>1, <4>2 DEF HeldBut, In
      <3>8. Loaded({})'
        BY <1>4, <2>2, <2>5, <3>1, <3>3, <3>4, <3>5, <3>6 DEF Loaded
      <3>9. QED
        BY <3>6, <3>7, <3>8 DEF OpeningSound
    <2>7. cat.tabs \subseteq db'.tabs
      BY <2>2
    <2>8. QED
      BY <1>4, <2>3, <2>4, <2>6, <2>7, ToOpening
  <1>5. QED
    BY <1>1, <1>3, <1>4, DoLoad

\* The tables that are left to open.
LEMMA OpeningStarts ==
    ASSUME StartContext, NEW tabs \in SUBSET db.tabs, prog["main"] = Opening(tabs), Sound => OpeningSound(Of(tabs))
    PROVE  StartsOn
  <1>1. /\ CatalogStep("main") /\ DOMAIN prog = Threads /\ "main" \in Threads /\ db \in Catalogs
        /\ tabs \in SUBSET TableNames
    BY DEF StartContext, ServerInv, ProgInv, TypeInv, Threads, Catalogs
  <1>2. Head(prog["main"]) = ForEach(tabs, "open_table") /\ Tail(prog["main"]) = Recovering
    <2>1. {} \in SUBSET IndexNames
      OBVIOUS
    <2>2. QED
      BY <1>1, <2>1, OpeningCalls
  <1>3. /\ \/ \E n \in tabs :
                 prog' = [prog EXCEPT !["main"] =
                    Body("open_table", n) \o <<ForEach(tabs \ {n}, "open_table")>> \o Tail(prog["main"])]
           \/ tabs = {} /\ Next1("main")
        /\ UNCHANGED <<dir, files, meta, db, fhs, ihs, path2fd, fd2pageno, phase>>
    BY <1>1, <1>2, DoLoop
  <1>4. UNCHANGED <<expect, orphans>> /\ HandlesKnown'
    BY <1>3, StartKeeps DEF HandlesKnown, Open
  <1>5. Sound => OpeningSound(Of(tabs))'
    BY <1>3, <1>4, StartStays
  <1>6. ASSUME NEW n \in tabs,
               prog' = [prog EXCEPT !["main"] =
                  Body("open_table", n) \o <<ForEach(tabs \ {n}, "open_table")>> \o Tail(prog["main"])]
        PROVE StartsOn
    <2>1. PICK rest \in SUBSET db.tabs : rest = tabs \ {n}
      OBVIOUS
    <2>2. PICK ixs : ixs = {i \in db.ixs : TableOf[i] = n}
      OBVIOUS
    <2>3. prog'["main"] = (Body("open_table", n) \o <<ForEach(rest, "open_table")>>) \o Recovering
      BY <1>1, <1>2, <1>6, <2>1
    <2>4. n \in TableNames /\ rest \in SUBSET TableNames
      BY <1>1, <2>1
    <2>5. prog'["main"] = <<Call("open_file", n)>> \o OpeningIndexes(ixs, rest)
      BY <1>1, <2>2, <2>3, <2>4, OpenTableRound
    <2>6. n \in db.tabs \ rest /\ rest \cup {n} = tabs
      BY <2>1
    <2>7. QED
      BY <1>3, <1>4, <1>5, <2>2, <2>5, <2>6, ToOpenFile
  <1>7. CASE tabs = {} /\ Next1("main")
    <2>1. prog'["main"] = Recovering
      BY <1>1, <1>2, <1>7 DEF Next1
    <2>2. Of({}) = {}
      BY DEF Of
    <2>3. Sound => OpeningSound({})'
      BY <1>5, <1>7, <2>2
    <2>4. QED
      BY <1>3, <1>4, <2>1, <2>3, ToRecovering
  <1>8. QED
    BY <1>3, <1>6, <1>7

\* The file of a table is opened.
LEMMA OpenFileStarts ==
    ASSUME StartContext, NEW tabs \in SUBSET db.tabs, NEW t \in db.tabs \ tabs,
           prog["main"] = <<Call("open_file", t)>> \o OpeningIndexes({i \in db.ixs : TableOf[i] = t}, tabs),
           Sound => OpeningSound(Of(tabs \cup {t}))
    PROVE  StartsOn
  <1>1. /\ CatalogStep("main") /\ DOMAIN prog = Threads /\ "main" \in Threads /\ db \in Catalogs
        /\ db.ixs \subseteq IndexNames
        /\ tabs \in SUBSET TableNames /\ t \in TableNames /\ t \in Paths /\ t \in Names /\ "log" # t
        /\ ServerInv /\ MoreTypes /\ HandlesKnown /\ files[t] \in {"none", "empty", "ready"}
        /\ DOMAIN fhs \subseteq TableNames /\ DOMAIN ihs \subseteq IndexNames /\ TableNames \cap IndexNames = {}
    BY CatalogAssumption DEF StartContext, ServerInv, ProgInv, TypeInv, Threads, Catalogs, Paths, Names
  <1>2. PICK ixs \in SUBSET db.ixs : ixs = {i \in db.ixs : TableOf[i] = t}
    OBVIOUS
  <1>3. PICK q : q = OpeningIndexes(ixs, tabs)
    OBVIOUS
  <1>4. Head(prog["main"]) = Call("open_file", t) /\ Tail(prog["main"]) = q
    BY <1>1, <1>2, <1>3, OpenTableRound
  <1>5. Sound => files[t] = "ready" /\ ~Open(t)
    <2>1. SUFFICES ASSUME OpeningSound(Of(tabs \cup {t})) PROVE files[t] = "ready" /\ ~Open(t)
      OBVIOUS
    <2>2. DiskOf(t, db) /\ OpenHeld({}) /\ HeldBut(Of(tabs \cup {t}))
      BY <1>1, <2>1 DEF OpeningSound, Loaded
    <2>3. t \in Of(tabs \cup {t})
      BY DEF Of
    <2>4. ~Held(t)
      BY <1>1, <2>2, <2>3 DEF HeldBut
    <2>5. QED
      BY <1>1, <2>2, <2>4 DEF DiskOf, In, OpenHeld
  <1>6. \/ (files[t] = "none" \/ Open(t) \/ files[t] = "empty") /\ Throw("main")
        \/ Next1("main") /\ OpenedAs("main", "open_file", t)
    BY <1>1, <1>4, DoOpen
  <1>7. CASE (files[t] = "none" \/ Open(t) \/ files[t] = "empty") /\ Throw("main")
    <2>1. ~Sound
      BY <1>5, <1>7
    <2>2. QED
      BY <1>7, <2>1, StartThrows
  <1>8. CASE Next1("main") /\ OpenedAs("main", "open_file", t)
    <2>1. /\ DOMAIN path2fd' = DOMAIN path2fd \cup {t} /\ DOMAIN fhs' = DOMAIN fhs \cup {t} /\ HandlesKnown'
          /\ UNCHANGED <<dir, files, meta, db, ihs, phase>>
      BY <1>8 DEF OpenedAs
    <2>2. UNCHANGED <<expect, orphans>> /\ orphans \subseteq Names
      BY <2>1, StartKeeps
    <2>3. prog'["main"] = q
      BY <1>1, <1>4, <1>8 DEF Next1
    <2>4. ASSUME Sound PROVE OpeningSound(Of(tabs) \cup ixs)'
      <3>1. Loaded({}) /\ ~Open("log") /\ HeldBut(Of(tabs \cup {t})) /\ OpenHeld({})
        BY <2>4 DEF OpeningSound, Loaded
      <3>2. OpenHeld({})' /\ ~Open("log")'
        BY <1>1, <2>1, <3>1 DEF OpenHeld, Open, Held
      <3>3. Loaded({})'
        BY <2>1, <2>2, <3>1, <3>2, LoadedStays
      <3>4. ASSUME NEW n \in Names PROVE Held(n)' <=> In(n, db) /\ n \notin Of(tabs) \cup ixs
        <4>1. Held(n)' <=> Held(n) \/ n = t
          BY <2>1 DEF Held
        <4>2. Held(n) <=> In(n, db) /\ n \notin Of(tabs \cup {t})
          BY <3>1 DEF HeldBut
        <4>3. In(n, db) => (n \in Of(tabs \cup {t}) <=> n \in Of(tabs) \cup ixs \/ n = t)
          <5>1. db.tabs \subseteq TableNames
            BY <1>1 DEF Catalogs
          <5>2. CASE n \in db.tabs
            <6>1. n \notin IndexNames /\ n \notin ixs
              BY <1>1, <5>1, <5>2
            <6>2. QED
              BY <6>1 DEF Of
          <5>3. CASE n \in db.ixs
            <6>1. n \in IndexNames /\ n \notin TableNames
              BY <1>1, <5>3
            <6>2. n \notin tabs /\ n # t
              BY <1>1, <6>1
            <6>3. (n \in Of(tabs \cup {t}) <=> TableOf[n] \in tabs \cup {t})
                  /\ (n \in Of(tabs) <=> TableOf[n] \in tabs)
              BY <6>1, <6>2 DEF Of
            <6>4. n \in ixs <=> TableOf[n] = t
              BY <1>2, <5>3
            <6>5. QED
              BY <6>2, <6>3, <6>4
          <5>4. QED
            BY <5>2, <5>3 DEF In
        <4>4. In(t, db) /\ t \notin Of(tabs) \cup ixs
          BY <1>1, <1>2 DEF Of, In
        <4>5. QED
          BY <4>1, <4>2, <4>3, <4>4
      <3>5. HeldBut(Of(tabs) \cup ixs)'
        BY <2>1, <3>4 DEF HeldBut, In
      <3>6. QED
        BY <3>2, <3>3, <3>5 DEF OpeningSound
    <2>5. \A j \in ixs : TableOf[j] \notin tabs
      BY <1>2
    <2>6. QED
      BY <1>3, <2>1, <2>3, <2>4, <2>5, ToOpeningIndexes
  <1>9. QED
    BY <1>6, <1>7, <1>8

\* The indexes of a table that are left to open.
LEMMA OpeningIndexesStarts ==
    ASSUME StartContext, NEW tabs \in SUBSET db.tabs,
           NEW ixs \in SUBSET db.ixs, \A j \in ixs : TableOf[j] \notin tabs,
           prog["main"] = OpeningIndexes(ixs, tabs), Sound => OpeningSound(Of(tabs) \cup ixs)
    PROVE  StartsOn
  <1>1. /\ CatalogStep("main") /\ DOMAIN prog = Threads /\ "main" \in Threads /\ db \in Catalogs
        /\ tabs \in SUBSET TableNames /\ ixs \in SUBSET IndexNames
    BY DEF StartContext, ServerInv, ProgInv, TypeInv, Threads, Catalogs
  <1>2. Head(prog["main"]) = ForEach(ixs, "open_index") /\ Tail(prog["main"]) = Opening(tabs)
    BY <1>1, OpeningCalls
  <1>3. /\ \/ \E n \in ixs :
                 prog' = [prog EXCEPT !["main"] =
                    Body("open_index", n) \o <<ForEach(ixs \ {n}, "open_index")>> \o Tail(prog["main"])]
           \/ ixs = {} /\ Next1("main")
        /\ UNCHANGED <<dir, files, meta, db, fhs, ihs, path2fd, fd2pageno, phase>>
    BY <1>1, <1>2, DoLoop
  <1>4. UNCHANGED <<expect, orphans>> /\ HandlesKnown'
    BY <1>3, StartKeeps DEF HandlesKnown, Open
  <1>5. Sound => OpeningSound(Of(tabs) \cup ixs)'
    BY <1>3, <1>4, StartStays
  <1>6. ASSUME NEW n \in ixs,
               prog' = [prog EXCEPT !["main"] =
                  Body("open_index", n) \o <<ForEach(ixs \ {n}, "open_index")>> \o Tail(prog["main"])]
        PROVE StartsOn
    <2>1. PICK rest \in SUBSET db.ixs : rest = ixs \ {n}
      OBVIOUS
    <2>2. prog'["main"] = (Body("open_index", n) \o <<ForEach(rest, "open_index")>>) \o Opening(tabs)
      BY <1>1, <1>2, <1>6, <2>1
    <2>3. n \in IndexNames /\ rest \in SUBSET IndexNames
      BY <1>1, <2>1
    <2>4. prog'["main"] = <<Call("open_index", n), Call("register", n)>> \o OpeningIndexes(rest, tabs)
      BY <1>1, <2>2, <2>3, OpenIndexRound
    <2>5. /\ n \in db.ixs \ rest /\ Of(tabs) \cup rest \cup {n} = Of(tabs) \cup ixs
          /\ TableOf[n] \notin tabs /\ \A j \in rest : TableOf[j] \notin tabs
      BY <2>1
    <2>6. QED
      BY <1>3, <1>4, <1>5, <2>4, <2>5, ToOpenIndex
  <1>7. CASE ixs = {} /\ Next1("main")
    <2>1. prog'["main"] = Opening(tabs)'
      BY <1>1, <1>2, <1>3, <1>7, OpeningSame DEF Next1
    <2>2. Sound => OpeningSound(Of(tabs))'
      BY <1>5, <1>7
    <2>3. tabs \subseteq db'.tabs
      BY <1>3
    <2>4. QED
      BY <1>3, <1>4, <2>1, <2>2, <2>3, ToOpening
  <1>8. QED
    BY <1>3, <1>6, <1>7

\* The file of an index is opened.
LEMMA OpenIndexStarts ==
    ASSUME StartContext, NEW tabs \in SUBSET db.tabs,
           NEW ixs \in SUBSET db.ixs, \A j \in ixs : TableOf[j] \notin tabs,
           NEW i \in db.ixs \ ixs, TableOf[i] \notin tabs,
           prog["main"] = <<Call("open_index", i), Call("register", i)>> \o OpeningIndexes(ixs, tabs),
           Sound => OpeningSound(Of(tabs) \cup ixs \cup {i})
    PROVE  StartsOn
  <1>1. /\ CatalogStep("main") /\ DOMAIN prog = Threads /\ "main" \in Threads /\ db \in Catalogs
        /\ tabs \in SUBSET TableNames /\ ixs \in SUBSET IndexNames /\ i \in IndexNames /\ i \in Paths /\ i \in Names
        /\ "log" # i /\ ServerInv /\ MoreTypes /\ HandlesKnown /\ files[i] \in {"none", "empty", "ready"}
    BY CatalogAssumption DEF StartContext, ServerInv, ProgInv, TypeInv, Threads, Catalogs, Paths, Names
  <1>2. PICK q : q = <<Call("register", i)>> \o OpeningIndexes(ixs, tabs)
    OBVIOUS
  <1>3. Head(prog["main"]) = Call("open_index", i) /\ Tail(prog["main"]) = q
    BY <1>1, <1>2, OpenIndexRound
  <1>4. Sound => DiskOf(i, db) /\ files[i] = "ready" /\ ~Open(i)
    <2>1. SUFFICES ASSUME OpeningSound(Of(tabs) \cup ixs \cup {i})
                   PROVE DiskOf(i, db) /\ files[i] = "ready" /\ ~Open(i)
      OBVIOUS
    <2>2. DiskOf(i, db) /\ OpenHeld({}) /\ HeldBut(Of(tabs) \cup ixs \cup {i})
      BY <1>1, <2>1 DEF OpeningSound, Loaded
    <2>3. ~Held(i)
      BY <1>1, <2>2 DEF HeldBut
    <2>4. QED
      BY <1>1, <2>2, <2>3 DEF DiskOf, In, OpenHeld
  <1>5. \/ (files[i] = "none" \/ Open(i) \/ files[i] = "empty") /\ Throw("main")
        \/ Next1("main") /\ OpenedAs("main", "open_index", i)
    BY <1>1, <1>3, DoOpen
  <1>6. CASE (files[i] = "none" \/ Open(i) \/ files[i] = "empty") /\ Throw("main")
    <2>1. ~Sound
      BY <1>4, <1>6
    <2>2. QED
      BY <1>6, <2>1, StartThrows
  <1>7. CASE Next1("main") /\ OpenedAs("main", "open_index", i)
    <2>1. /\ DOMAIN path2fd' = DOMAIN path2fd \cup {i} /\ DOMAIN fhs' = DOMAIN fhs /\ HandlesKnown'
          /\ path2fd'[i] = reg'["main"]
          /\ UNCHANGED <<dir, files, meta, db, ihs, phase>>
      BY <1>7 DEF OpenedAs
    <2>2. UNCHANGED <<expect, orphans>> /\ orphans \subseteq Names
      BY <2>1, StartKeeps
    <2>3. prog'["main"] = q
      BY <1>1, <1>3, <1>7 DEF Next1
    <2>4. Open(i)'
      BY <2>1 DEF Open
    <2>5. ASSUME Sound
          PROVE /\ Loaded({i})' /\ DiskOf(i, db)' /\ ~Open("log")'
                /\ HeldBut(Of(tabs) \cup ixs \cup {i})'
      <3>1. Loaded({}) /\ ~Open("log") /\ HeldBut(Of(tabs) \cup ixs \cup {i}) /\ OpenHeld({})
        BY <2>5 DEF OpeningSound, Loaded
      <3>2. OpenHeld({i})' /\ ~Open("log")'
        BY <1>1, <2>1, <3>1 DEF OpenHeld, Open, Held
      <3>3. Loaded({i}) /\ In(i, db)
        BY <1>1, <3>1 DEF Loaded, OpenHeld, In
      <3>4. Loaded({i})'
        BY <2>1, <2>2, <3>2, <3>3, LoadedStays
      <3>5. HeldBut(Of(tabs) \cup ixs \cup {i})'
        BY <2>1, <3>1 DEF HeldBut, Held, In
      <3>6. DiskOf(i, db)'
        BY <1>4, <2>1, <2>2, <2>5 DEF DiskOf, In
      <3>7. QED
        BY <3>2, <3>4, <3>5, <3>6
    <2>6. QED
      BY <1>2, <2>1, <2>3, <2>4, <2>5, ToRegister
  <1>8. QED
    BY <1>5, <1>6, <1>7

\* An index that is open gets its handle.
LEMMA RegisterStarts ==
    ASSUME StartContext, NEW tabs \in SUBSET db.tabs,
           NEW ixs \in SUBSET db.ixs, \A j \in ixs : TableOf[j] \notin tabs,
           NEW i \in db.ixs \ ixs, TableOf[i] \notin tabs,
           prog["main"] = <<Call("register", i)>> \o OpeningIndexes(ixs, tabs),
           Open(i), path2fd[i] = reg["main"],
           Sound => /\ Loaded({i}) /\ DiskOf(i, db) /\ ~Open("log")
                    /\ HeldBut(Of(tabs) \cup ixs \cup {i})
    PROVE  StartsOn
  <1>1. /\ CatalogStep("main") /\ DOMAIN prog = Threads /\ "main" \in Threads /\ db \in Catalogs
        /\ tabs \in SUBSET TableNames /\ ixs \in SUBSET IndexNames /\ i \in IndexNames /\ i \in Names
        /\ ServerInv /\ HandlesKnown /\ TableNames \cap IndexNames = {}
    BY CatalogAssumption DEF StartContext, ServerInv, ProgInv, TypeInv, Threads, Catalogs, Paths, Names
  <1>2. PICK q : q = OpeningIndexes(ixs, tabs)
    OBVIOUS
  <1>3. Head(prog["main"]) = Call("register", i) /\ Tail(prog["main"]) = q
    <2>1. q \in Seq(AnyCall)
      BY <1>1, <1>2, OpeningCalls
    <2>2. PICK c \in AnyCall : c = Call("register", i)
      BY <1>1, TheCalls
    <2>3. Head(<<c>> \o q) = c /\ Tail(<<c>> \o q) = q
      BY <2>1, CallThen
    <2>4. QED
      BY <1>2, <2>2, <2>3
  <1>4. /\ Next1("main") /\ DOMAIN ihs' = DOMAIN ihs \cup {i} /\ HandlesKnown'
        /\ UNCHANGED <<dir, files, meta, db, fhs, path2fd, phase>>
    BY <1>1, <1>3, DoRegister
  <1>5. UNCHANGED <<expect, orphans>> /\ orphans \subseteq Names
    BY <1>4, StartKeeps
  <1>6. prog'["main"] = q
    BY <1>1, <1>3, <1>4 DEF Next1
  <1>7. ASSUME Sound PROVE OpeningSound(Of(tabs) \cup ixs)'
    <2>1. Loaded({i}) /\ DiskOf(i, db) /\ ~Open("log") /\ HeldBut(Of(tabs) \cup ixs \cup {i}) /\ OpenHeld({i})
      BY <1>7 DEF Loaded
    <2>2. \A n : Held(n)' <=> Held(n) \/ n = i
      BY <1>4 DEF Held
    <2>3. OpenHeld({})' /\ ~Open("log")'
      BY <1>4, <2>1, <2>2 DEF OpenHeld, Open
    <2>4. Loaded({i})'
      <3>1. OpenHeld({i})' /\ In(i, db)
        BY <2>3 DEF OpenHeld, In
      <3>2. QED
        BY <1>4, <1>5, <2>1, <3>1, LoadedStays
    <2>5. Loaded({})'
      <3>1. DiskOf(i, db)'
        BY <1>4, <1>5, <2>1 DEF DiskOf, In
      <3>2. QED
        BY <2>3, <2>4, <3>1 DEF Loaded
    <2>6. ASSUME NEW n \in Names PROVE Held(n)' <=> In(n, db) /\ n \notin Of(tabs) \cup ixs
      <3>1. Held(n) <=> In(n, db) /\ n \notin Of(tabs) \cup ixs \cup {i}
        BY <2>1 DEF HeldBut
      <3>2. In(i, db) /\ i \notin Of(tabs) \cup ixs
        BY <1>1 DEF In, Of
      <3>3. QED
        BY <2>2, <3>1, <3>2
    <2>7. HeldBut(Of(tabs) \cup ixs)'
      BY <1>4, <2>6 DEF HeldBut, In
    <2>8. QED
      BY <2>3, <2>5, <2>7 DEF OpeningSound
  <1>8. QED
    BY <1>2, <1>4, <1>6, <1>7, ToOpeningIndexes

\* Recovery begins: the log is opened.
LEMMA RecoveringStarts ==
    ASSUME StartContext, prog["main"] = Recovering, Sound => OpeningSound({})
    PROVE  StartsOn
  <1>1. /\ CatalogStep("main") /\ DOMAIN prog = Threads /\ "main" \in Threads /\ db \in Catalogs
        /\ "log" \in Paths /\ "log" \notin Names /\ ServerInv /\ MoreTypes /\ HandlesKnown
        /\ db.ixs \in SUBSET IndexNames
    BY CatalogAssumption DEF StartContext, ServerInv, ProgInv, TypeInv, Threads, Catalogs, Paths, Names
  <1>2. PICK ixs \in SUBSET db.ixs : ixs = db.ixs
    OBVIOUS
  <1>3. Head(prog["main"]) = Call("open", "log") /\ Tail(prog["main"]) = Rebuilding(ixs)
    <2>1. {} \in SUBSET IndexNames /\ {} \in SUBSET TableNames
      OBVIOUS
    <2>2. QED
      BY <1>1, <1>2, <2>1, OpeningCalls
  <1>4. Sound => files["log"] # "none" /\ ~Open("log")
    BY DEF OpeningSound, Loaded
  <1>5. \/ (files["log"] = "none" \/ Open("log")) /\ Throw("main")
        \/ Next1("main") /\ OpenedAs("main", "open", "log")
    BY <1>1, <1>3, DoOpen
  <1>6. CASE (files["log"] = "none" \/ Open("log")) /\ Throw("main")
    <2>1. ~Sound
      BY <1>4, <1>6
    <2>2. QED
      BY <1>6, <2>1, StartThrows
  <1>7. CASE Next1("main") /\ OpenedAs("main", "open", "log")
    <2>1. /\ DOMAIN path2fd' = DOMAIN path2fd \cup {"log"} /\ DOMAIN fhs' = DOMAIN fhs /\ HandlesKnown'
          /\ UNCHANGED <<dir, files, meta, db, ihs, phase>>
      BY <1>7 DEF OpenedAs
    <2>2. UNCHANGED <<expect, orphans>> /\ orphans \subseteq Names
      BY <2>1, StartKeeps
    <2>3. prog'["main"] = Rebuilding(ixs)
      BY <1>1, <1>3, <1>7 DEF Next1
    <2>4. NumberedBut(ixs)'
      BY <1>2, <2>1 DEF NumberedBut, HandlesKnown
    <2>5. ASSUME Sound PROVE Loaded({})' /\ HeldBut({})'
      <3>1. Loaded({}) /\ OpenHeld({}) /\ HeldBut({})
        BY <2>5 DEF OpeningSound, Loaded
      <3>2. OpenHeld({})'
        BY <1>1, <2>1, <3>1 DEF OpenHeld, Open, Held
      <3>3. Loaded({})'
        BY <2>1, <2>2, <3>1, <3>2, LoadedStays
      <3>4. HeldBut({})'
        BY <2>1, <3>1 DEF HeldBut, Held, In
      <3>5. QED
        BY <3>3, <3>4
    <2>6. QED
      BY <2>1, <2>3, <2>4, <2>5, ToRebuilding
  <1>8. QED
    BY <1>5, <1>6, <1>7

\* The indexes that are left to build again.
LEMMA RebuildingStarts ==
    ASSUME StartContext, NEW ixs \in SUBSET db.ixs, prog["main"] = Rebuilding(ixs), NumberedBut(ixs),
           Sound => Loaded({}) /\ HeldBut({})
    PROVE  StartsOn
  <1>1. /\ CatalogStep("main") /\ DOMAIN prog = Threads /\ "main" \in Threads /\ db \in Catalogs
        /\ ixs \in SUBSET IndexNames
    BY DEF StartContext, ServerInv, ProgInv, TypeInv, Threads, Catalogs
  <1>2. Head(prog["main"]) = ForEach(ixs, "rebuild_index") /\ Tail(prog["main"]) = Serving1
    BY <1>1, RebuildingCalls
  <1>3. /\ \/ \E n \in ixs :
                 prog' = [prog EXCEPT !["main"] =
                    Body("rebuild_index", n) \o <<ForEach(ixs \ {n}, "rebuild_index")>> \o Tail(prog["main"])]
           \/ ixs = {} /\ Next1("main")
        /\ UNCHANGED <<dir, files, meta, db, fhs, ihs, path2fd, fd2pageno, moved, phase>>
    BY <1>1, <1>2, DoLoop
  <1>4. UNCHANGED <<expect, orphans>> /\ HandlesKnown'
    BY <1>3, StartKeeps DEF HandlesKnown, Open
  <1>5. Sound => Loaded({})' /\ HeldBut({})'
    BY <1>3, <1>4, StartStays
  <1>6. NumberedBut(ixs)'
    BY <1>3 DEF NumberedBut, Numbered
  <1>7. ASSUME NEW i \in ixs,
               prog' = [prog EXCEPT !["main"] =
                  Body("rebuild_index", i) \o <<ForEach(ixs \ {i}, "rebuild_index")>> \o Tail(prog["main"])]
        PROVE StartsOn
    <2>1. PICK rest \in SUBSET db.ixs : rest = ixs \ {i}
      OBVIOUS
    <2>2. prog'["main"] = (Body("rebuild_index", i) \o <<ForEach(rest, "rebuild_index")>>) \o Serving1
      BY <1>1, <1>2, <1>7, <2>1
    <2>3. i \in IndexNames /\ rest \in SUBSET IndexNames
      BY <1>1, <2>1
    <2>4. prog'["main"] = From(RebuildIndex(i), 1) \o Rebuilding(rest)
      BY <2>2, <2>3, RebuildRound
    <2>5. i \in db.ixs \ rest /\ rest \cup {i} = ixs
      BY <2>1
    <2>6. RebuildAt(i, rest, 1)'
      <3>1. NumberedBut(rest \cup {i})' /\ i \in db'.ixs \ rest
        BY <1>3, <1>6, <2>5
      <3>2. QED
        BY <3>1 DEF RebuildAt
    <2>7. ASSUME Sound PROVE RebuildSound(i, 1)'
      <3>1. Loaded({})' /\ HeldBut({})' /\ In(i, db)' /\ i \in Names
        BY <1>3, <1>5, <2>3, <2>5, <2>7 DEF In, Names
      <3>2. Held(i)' /\ DiskOf(i, db)'
        BY <3>1 DEF HeldBut, Loaded
      <3>3. Open(i)'
        BY <1>4, <3>2 DEF HandlesKnown, Held, Open
      <3>4. files'[i] = "ready"
        BY <3>1, <3>2 DEF DiskOf
      <3>5. Loaded({i})'
        BY <3>1 DEF Loaded, OpenHeld
      <3>6. QED
        BY <3>1, <3>3, <3>4, <3>5 DEF RebuildSound
    <2>8. 1 \in 1..10 /\ i \in db.ixs
      BY <2>5
    <2>9. QED
      BY <1>3, <1>4, <2>4, <2>6, <2>7, <2>8, ToRebuild
  <1>8. CASE ixs = {} /\ Next1("main")
    <2>1. prog'["main"] = Serving1
      BY <1>1, <1>2, <1>8 DEF Next1
    <2>2. NumberedBut({})'
      BY <1>6, <1>8
    <2>3. QED
      BY <1>3, <1>4, <1>5, <2>1, <2>2, ToServing
  <1>9. QED
    BY <1>3, <1>7, <1>8

\* The server is up.
LEMMA ServingStarts ==
    ASSUME StartContext, prog["main"] = Serving1, NumberedBut({}), Sound => Loaded({}) /\ HeldBut({})
    PROVE  StartsOn
  <1>1. CatalogStep("main") /\ HandlesKnown /\ db \in Catalogs
    BY DEF StartContext, ServerInv, TypeInv
  <1>2. Head(prog["main"]) = Call("serve", "log")
    <2>1. {} \in SUBSET IndexNames
      OBVIOUS
    <2>2. QED
      BY <2>1, RebuildingCalls
  <1>3. phase' = "up" /\ UNCHANGED <<dir, files, meta, db, fhs, ihs, path2fd, fd2pageno, moved>>
    BY <1>1, <1>2, DoServe
  <1>4. HandlesKnown' /\ NumberedBut({})'
    BY <1>1, <1>3 DEF HandlesKnown, Open, NumberedBut, Numbered
  <1>5. expect' = [old |-> db, new |-> db] /\ orphans' = orphans
    BY <1>3 DEF StartContext
  <1>6. expect'.old = db' /\ expect'.new = db'
    BY <1>3, <1>5
  <1>7. ASSUME Sound
        PROVE /\ dir' /\ files'["log"] # "none" /\ WellFormed(expect.old)' /\ Orphaned(expect.old)'
              /\ IdleSound'
    <2>1. /\ MetaIs("good", db) /\ dir /\ files["log"] # "none" /\ WellFormed(db) /\ Orphaned(db)
          /\ \A n \in Names : DiskOf(n, db)
          /\ OpenHeld({}) /\ HeldBut({})
      BY <1>7 DEF Loaded
    <2>2. \A n \in Names : Settled(n)
      BY <2>1 DEF Settled, OpenHeld, HeldBut
    <2>3. \A n \in Names : Settled(n)'
      BY <1>3, <1>5, <2>2 DEF Settled, DiskOf, In, Open, Held
    <2>4. MetaIs("good", db)'
      BY <1>3, <2>1 DEF MetaIs
    <2>5. IdleSound'
      BY <1>6, <2>3, <2>4 DEF IdleSound
    <2>6. WellFormed(db') /\ \A n \in orphans' : files'[n] # "none" /\ ~In(n, db')
      BY <1>3, <1>5, <2>1 DEF WellFormed, Orphaned, In
    <2>7. WellFormed(expect.old)' /\ Orphaned(expect.old)'
      BY <1>6, <2>6 DEF WellFormed, Orphaned, In
    <2>8. QED
      BY <1>3, <2>1, <2>5, <2>7
  <1>8. QED
    BY <1>3, <1>4, <1>7 DEF StartsOn

\* What the calls that build an index again leave as it was.
LEMMA RebuildKeeps ==
    ASSUME StartContext, NEW i \in db.ixs, NEW k \in 1..10, NEW m \in 2..10, RebuildSound(i, k),
           UNCHANGED <<dir, meta, db, phase>>, \A n \in Paths \ {i} : files'[n] = files[n],
           \A n \in Names \ {i} : (Open(n)' <=> Open(n)) /\ (Held(n)' <=> Held(n)), ~Held(i)',
           files'[i] = CASE m = 3 -> "none" [] m \in 4..6 -> "empty" [] OTHER -> "ready",
           m = 3 => ~Taken(i)',
           Open(i)' <=> m \in {1, 5, 6, 7, 8, 10}
    PROVE  RebuildSound(i, m)'
  <1>1. /\ UNCHANGED <<expect, orphans>> /\ orphans \subseteq Names
        /\ i \in IndexNames /\ Names \subseteq Paths /\ "log" \in Paths /\ "log" # i
    BY StartKeeps, CatalogAssumption DEF Names, Paths, Catalogs
  <1>2. Loaded({i}) /\ OpenHeld({i}) /\ (HeldBut({}) \/ HeldBut({i})) /\ In(i, db)
    BY DEF RebuildSound, Loaded, In
  <1>3. OpenHeld({i})'
    BY <1>2 DEF OpenHeld
  <1>4. files'["log"] = files["log"] /\ \A n \in Names \ {i} : files'[n] = files[n]
    BY <1>1
  <1>5. Loaded({i})'
    BY <1>1, <1>2, <1>3, <1>4, LoadedStays
  <1>6. HeldBut({i})'
    <2>1. ASSUME NEW n \in Names PROVE Held(n)' <=> In(n, db)' /\ n \notin {i}
      <3>1. CASE n = i
        BY <3>1
      <3>2. CASE n # i
        <4>1. Held(n) <=> In(n, db)
          BY <1>2, <3>2 DEF HeldBut
        <4>2. In(n, db)' <=> In(n, db)
          BY DEF In
        <4>3. QED
          BY <3>2, <4>1, <4>2
      <3>3. QED
        BY <3>1, <3>2
    <2>2. QED
      BY <2>1 DEF HeldBut
  <1>7. m # 1
    OBVIOUS
  <1>8. QED
    BY <1>5, <1>6, <1>7 DEF RebuildSound

\* An index is destroyed and built again.
LEMMA RebuildStarts ==
    ASSUME StartContext, NEW ixs \in SUBSET db.ixs, NEW i \in db.ixs, NEW k \in 1..10,
           prog["main"] = From(RebuildIndex(i), k) \o Rebuilding(ixs), RebuildAt(i, ixs, k),
           Sound => RebuildSound(i, k)
    PROVE  StartsOn
  <1>1. /\ CatalogStep("main") /\ DOMAIN prog = Threads /\ "main" \in Threads /\ db \in Catalogs
        /\ ServerInv /\ MoreTypes /\ HandlesKnown /\ files \in [Paths -> {"none", "empty", "ready"}]
        /\ i \in IndexNames /\ ixs \in SUBSET IndexNames /\ i \in Paths /\ i \in Names /\ phase = "starting"
        /\ i \notin DOMAIN fhs /\ Names \subseteq Paths
    <2>1. DOMAIN fhs \subseteq TableNames /\ TableNames \cap IndexNames = {} /\ db.ixs \subseteq IndexNames
      BY CatalogAssumption, StartKeeps DEF StartContext, Catalogs, ServerInv, TypeInv
    <2>2. QED
      BY <2>1, CatalogAssumption DEF StartContext, ServerInv, ProgInv, TypeInv, Threads, Paths, Names
  <1>2. PICK q : q = Rebuilding(ixs)
    OBVIOUS
  <1>3. q \in Seq(AnyCall) /\ q # <<>>
    BY <1>1, <1>2, RebuildingCalls
  <1>4. PICK d : d = RebuildIndex(i)
    OBVIOUS
  <1>5. /\ d \in Seq(AnyCall) /\ Len(d) = 10
        /\ d[1] = Call("close_index", i) /\ d[2] = Call("destroy", i)
        /\ d[3] = Call("create", i) /\ d[4] = Call("open", i)
        /\ d[5] = Call("check_length", i) /\ d[6] = Call("header", i)
        /\ d[7] = Call("number", i) /\ d[8] = Call("close", i)
        /\ d[9] = Call("open_index", i) /\ d[10] = Call("register", i)
    BY <1>1, <1>4, RebuildIndexCalls
  <1>6. WalksOn(d, 10, q)
    BY <1>3, <1>5, WalkOn
  <1>7. Advances("main", d, 10, q, k)
    <2>1. prog["main"] = From(d, k) \o q /\ 10 \in Nat /\ "main" \in Threads /\ ServerInv
      BY <1>1, <1>2, <1>4
    <2>2. QED
      BY <1>3, <1>6, <2>1, AdvanceOn
  <1>8. /\ Head(prog["main"]) = d[k] /\ (Next1("main") => prog'["main"] = From(d, k + 1) \o q)
        /\ k = 10 => From(d, k + 1) \o q = q
    BY <1>7 DEF Advances
  <1>9. ASSUME NEW m \in 1..10, UNCHANGED <<db, phase>>, HandlesKnown', prog'["main"] = From(d, m) \o q,
               RebuildAt(i, ixs, m)', Sound => RebuildSound(i, m)'
        PROVE StartsOn
    BY <1>2, <1>4, <1>9, ToRebuild
  <1>10. i \in db.ixs \ ixs /\ NumberedBut(ixs \cup {i}) /\ (k > 1 => i \notin DOMAIN ihs)
    BY DEF RebuildAt
  <1>11. ASSUME UNCHANGED <<db, fhs, ihs, path2fd>> PROVE HandlesKnown'
    BY <1>1, <1>11 DEF HandlesKnown, Open
  <1>12. CASE k = 1
    <2>1. Head(prog["main"]) = Call("close_index", i)
      BY <1>5, <1>8, <1>12
    <2>2. /\ Next1("main")
          /\ DOMAIN fhs' = DOMAIN fhs \ {i} /\ DOMAIN ihs' = DOMAIN ihs \ {i}
          /\ \A n \in Paths \ {i} : Open(n)' <=> Open(n)
          /\ Open(i)' <=> Open(i) /\ ~Held(i)
          /\ HandlesKnown'
          /\ \A S : NumberedBut(S) => NumberedBut(S)'
          /\ UNCHANGED <<dir, files, meta, db, fd2pageno, job, reg, outcome, phase, broken, ended, moved>>
      BY <1>1, <2>1, DoCloseHandle
    <2>3. k + 1 = 2 /\ 2 \in 1..10 /\ 2 \in 2..10
      BY <1>12
    <2>4. prog'["main"] = From(d, 2) \o q
      BY <1>8, <2>2, <2>3, Zenon
    <2>5. NumberedBut(ixs \cup {i})' /\ i \in db'.ixs \ ixs /\ i \notin DOMAIN ihs'
      BY <1>10, <2>2
    <2>6. RebuildAt(i, ixs, 2)'
      BY <2>5 DEF RebuildAt
    <2>7. ASSUME Sound PROVE RebuildSound(i, 2)'
      <3>1. RebuildSound(i, k) /\ HeldBut({}) /\ files[i] = "ready" /\ In(i, db)
        BY <1>12, <2>7 DEF RebuildSound, In
      <3>2. Held(i)
        BY <1>1, <3>1 DEF HeldBut
      <3>3. ~Open(i)' /\ ~Held(i)' /\ files'[i] = "ready"
        BY <1>1, <2>2, <3>1, <3>2 DEF Held
      <3>4. \A n \in Names \ {i} : (Open(n)' <=> Open(n)) /\ (Held(n)' <=> Held(n))
        BY <1>1, <2>2 DEF Held
      <3>5. UNCHANGED <<dir, meta, db, phase>> /\ \A n \in Paths \ {i} : files'[n] = files[n]
        BY <2>2
      <3>6. QED
        BY <2>3, <3>1, <3>3, <3>4, <3>5, RebuildKeeps
    <2>8. UNCHANGED <<db, phase>>
      BY <2>2
    <2>9. QED
      BY <1>9, <2>2, <2>3, <2>4, <2>6, <2>7, <2>8
  <1>13. CASE k = 2
    <2>1. Head(prog["main"]) = Call("destroy", i)
      BY <1>5, <1>8, <1>13
    <2>2. /\ Next1("main") /\ UNCHANGED <<dir, meta, db, fhs, ihs, path2fd, fd2pageno, moved, phase>>
          /\ \A n \in Paths \ {i} : files'[n] = files[n]
          /\ files[i] = "none" \/ Open(i) \/ files'[i] = "none"
      BY <1>1, <2>1, DoDestroy
    <2>3. k + 1 = 3 /\ 3 \in 1..10 /\ 3 \in 2..10
      BY <1>13
    <2>4. prog'["main"] = From(d, 3) \o q
      BY <1>8, <2>2, <2>3, Zenon
    <2>5. NumberedBut(ixs \cup {i})' /\ i \in db'.ixs \ ixs /\ i \notin DOMAIN ihs'
      BY <1>10, <1>13, <2>2 DEF NumberedBut, Numbered
    <2>6. RebuildAt(i, ixs, 3)'
      BY <2>5 DEF RebuildAt
    <2>7. ASSUME Sound PROVE RebuildSound(i, 3)'
      <3>1. RebuildSound(i, k) /\ files[i] = "ready" /\ ~Open(i)
        BY <1>13, <2>7 DEF RebuildSound
      <3>2. ~Open(i)' /\ ~Held(i)' /\ files'[i] = "none"
        BY <1>1, <1>10, <1>13, <2>2, <3>1 DEF Held, Open
      <3>3. \A n \in Names \ {i} : (Open(n)' <=> Open(n)) /\ (Held(n)' <=> Held(n))
        BY <2>2 DEF Held, Open
      <3>4. ~Taken(i)'
        <4>1. ASSUME NEW p \in SameFile(i) PROVE files'[p] = "none"
          <5>1. CASE p = i
            BY <5>1, <3>2
          <5>2. CASE p # i
            <6>1. p \in Paths \ {i}
              BY <1>1, <5>2 DEF SameFile, Paths
            <6>2. files[p] = "none"
              BY <1>1, <3>1, <5>2 DEF ServerInv, TypeInv, OneFile
            <6>3. QED
              BY <2>2, <6>1, <6>2
          <5>3. QED
            BY <5>1, <5>2
        <4>2. QED
          BY <4>1 DEF Taken
      <3>5. QED
        BY <2>2, <2>3, <3>1, <3>2, <3>3, <3>4, RebuildKeeps
    <2>8. QED
      BY <1>9, <1>11, <2>2, <2>3, <2>4, <2>6, <2>7
  <1>14. CASE k = 3
    <2>1. Head(prog["main"]) = Call("create", i)
      BY <1>5, <1>8, <1>14
    <2>2. \/ Taken(i) /\ Throw("main")
          \/ /\ Next1("main") /\ files'[i] = "empty" /\ \A n \in Paths \ {i} : files'[n] = files[n]
             /\ UNCHANGED <<dir, meta, db, fhs, ihs, path2fd, fd2pageno, moved, phase>>
      BY <1>1, <2>1, DoCreate
    <2>3. Sound => RebuildSound(i, k) /\ ~Taken(i) /\ ~Open(i)
      BY <1>14 DEF RebuildSound
    <2>4. CASE Taken(i) /\ Throw("main")
      <3>1. ~Sound
        BY <2>3, <2>4
      <3>2. QED
        BY <2>4, <3>1, StartThrows
    <2>5. CASE /\ Next1("main") /\ files'[i] = "empty" /\ \A n \in Paths \ {i} : files'[n] = files[n]
               /\ UNCHANGED <<dir, meta, db, fhs, ihs, path2fd, fd2pageno, moved, phase>>
      <3>1. k + 1 = 4 /\ 4 \in 1..10 /\ 4 \in 2..10
        BY <1>14
      <3>2. prog'["main"] = From(d, 4) \o q
        BY <1>8, <2>5, <3>1, Zenon
      <3>3. NumberedBut(ixs \cup {i})' /\ i \in db'.ixs \ ixs /\ i \notin DOMAIN ihs'
        BY <1>10, <1>14, <2>5 DEF NumberedBut, Numbered
      <3>4. RebuildAt(i, ixs, 4)'
        BY <3>3 DEF RebuildAt
      <3>5. ASSUME Sound PROVE RebuildSound(i, 4)'
        <4>1. ~Open(i)' /\ ~Held(i)'
          BY <1>1, <1>10, <1>14, <2>3, <2>5, <3>5 DEF Held, Open
        <4>2. \A n \in Names \ {i} : (Open(n)' <=> Open(n)) /\ (Held(n)' <=> Held(n))
          BY <2>5 DEF Held, Open
        <4>3. QED
          BY <2>3, <2>5, <3>1, <3>5, <4>1, <4>2, RebuildKeeps
      <3>6. QED
        BY <1>9, <1>11, <2>5, <3>1, <3>2, <3>4, <3>5
    <2>6. QED
      BY <2>2, <2>4, <2>5
  <1>15. CASE k = 4
    <2>1. Head(prog["main"]) = Call("open", i)
      BY <1>5, <1>8, <1>15
    <2>2. \/ (files[i] = "none" \/ Open(i)) /\ Throw("main")
          \/ Next1("main") /\ OpenedAs("main", "open", i)
      BY <1>1, <2>1, DoOpen
    <2>3. Sound => RebuildSound(i, k) /\ files[i] = "empty" /\ ~Open(i)
      BY <1>15 DEF RebuildSound
    <2>4. CASE (files[i] = "none" \/ Open(i)) /\ Throw("main")
      <3>1. ~Sound
        BY <2>3, <2>4
      <3>2. QED
        BY <2>4, <3>1, StartThrows
    <2>5. CASE Next1("main") /\ OpenedAs("main", "open", i)
      <3>1. /\ DOMAIN path2fd' = DOMAIN path2fd \cup {i} /\ DOMAIN fhs' = DOMAIN fhs /\ HandlesKnown'
            /\ path2fd'[i] = reg'["main"] /\ NumberedBut(ixs \cup {i})'
            /\ UNCHANGED <<dir, files, meta, db, ihs, phase>>
        BY <1>10, <2>5 DEF OpenedAs
      <3>2. k + 1 = 5 /\ 5 \in 1..10 /\ 5 \in 2..10
        BY <1>15
      <3>3. prog'["main"] = From(d, 5) \o q
        BY <1>8, <2>5, <3>2, Zenon
      <3>4. i \in db'.ixs \ ixs /\ i \notin DOMAIN ihs' /\ Open(i)'
        BY <1>10, <1>15, <3>1 DEF Open
      <3>5. RebuildAt(i, ixs, 5)'
        BY <3>1, <3>4 DEF RebuildAt
      <3>6. ASSUME Sound PROVE RebuildSound(i, 5)'
        <4>1. ~Held(i)' /\ files'[i] = "empty"
          BY <1>1, <2>3, <3>1, <3>4, <3>6 DEF Held
        <4>2. \A n \in Names \ {i} : (Open(n)' <=> Open(n)) /\ (Held(n)' <=> Held(n))
          BY <3>1 DEF Held, Open
        <4>3. QED
          BY <2>3, <3>1, <3>2, <3>4, <3>6, <4>1, <4>2, RebuildKeeps
      <3>7. QED
        BY <1>9, <3>1, <3>2, <3>3, <3>5, <3>6
    <2>6. QED
      BY <2>2, <2>4, <2>5
  <1>16. CASE k = 5
    <2>1. Head(prog["main"]) = Call("check_length", i)
      BY <1>5, <1>8, <1>16
    <2>2. \/ i \in TooLong /\ Throw("main")
          \/ /\ Next1("main") /\ UNCHANGED <<dir, files, meta, db, fhs, ihs, path2fd, fd2pageno, reg, moved, phase>>
      BY <2>1, <1>1, DoCheck
    <2>3. Sound => RebuildSound(i, k) /\ files[i] = "empty" /\ Open(i) /\ i \notin TooLong
      BY <1>16 DEF RebuildSound, Loaded, WellFormed
    <2>4. CASE i \in TooLong /\ Throw("main")
      <3>1. ~Sound
        BY <2>3, <2>4
      <3>2. QED
        BY <2>4, <3>1, StartThrows
    <2>5. CASE /\ Next1("main")
               /\ UNCHANGED <<dir, files, meta, db, fhs, ihs, path2fd, fd2pageno, reg, moved, phase>>
      <3>1. k + 1 = 6 /\ 6 \in 1..10 /\ 6 \in 2..10
        BY <1>16
      <3>2. prog'["main"] = From(d, 6) \o q
        BY <1>8, <2>5, <3>1, Zenon
      <3>3. NumberedBut(ixs \cup {i})' /\ i \in db'.ixs \ ixs /\ i \notin DOMAIN ihs'
        BY <1>10, <1>16, <2>5 DEF NumberedBut, Numbered
      <3>4. Open(i)' /\ path2fd'[i] = reg'["main"]
        BY <1>16, <2>5 DEF RebuildAt, Open
      <3>5. RebuildAt(i, ixs, 6)'
        BY <3>3, <3>4 DEF RebuildAt
      <3>6. ASSUME Sound PROVE RebuildSound(i, 6)'
        <4>1. ~Held(i)' /\ files'[i] = "empty"
          BY <1>1, <1>10, <1>16, <2>3, <2>5, <3>6 DEF Held
        <4>2. \A n \in Names \ {i} : (Open(n)' <=> Open(n)) /\ (Held(n)' <=> Held(n))
          BY <2>5 DEF Held, Open
        <4>3. QED
          BY <2>3, <2>5, <3>1, <3>4, <3>6, <4>1, <4>2, RebuildKeeps
      <3>7. QED
        BY <1>9, <1>11, <2>5, <3>1, <3>2, <3>5, <3>6
    <2>6. QED
      BY <2>2, <2>4, <2>5
  <1>17. CASE k = 6
    <2>1. Head(prog["main"]) = Call("header", i)
      BY <1>5, <1>8, <1>17
    <2>2. /\ Next1("main") /\ files'[i] = "ready" /\ \A n \in Paths \ {i} : files'[n] = files[n]
          /\ UNCHANGED <<dir, meta, db, fhs, ihs, path2fd, fd2pageno, reg, moved, phase>>
      <3>1. files[i] # "none"
        BY <1>17 DEF RebuildAt, StartContext, OnDisk, Open
      <3>2. QED
        BY <1>1, <2>1, <3>1, DoHeader
    <2>3. k + 1 = 7 /\ 7 \in 1..10 /\ 7 \in 2..10
      BY <1>17
    <2>4. prog'["main"] = From(d, 7) \o q
      BY <1>8, <2>2, <2>3, Zenon
    <2>5. NumberedBut(ixs \cup {i})' /\ i \in db'.ixs \ ixs /\ i \notin DOMAIN ihs'
      BY <1>10, <1>17, <2>2 DEF NumberedBut, Numbered
    <2>6. Open(i)' /\ path2fd'[i] = reg'["main"]
      BY <1>17, <2>2 DEF RebuildAt, Open
    <2>7. RebuildAt(i, ixs, 7)'
      BY <2>5, <2>6 DEF RebuildAt
    <2>8. ASSUME Sound PROVE RebuildSound(i, 7)'
      <3>1. RebuildSound(i, k)
        BY <2>8
      <3>2. ~Held(i)'
        BY <1>1, <1>10, <1>17, <2>2 DEF Held
      <3>3. \A n \in Names \ {i} : (Open(n)' <=> Open(n)) /\ (Held(n)' <=> Held(n))
        BY <2>2 DEF Held, Open
      <3>4. QED
        BY <2>2, <2>3, <2>6, <3>1, <3>2, <3>3, RebuildKeeps
    <2>9. QED
      BY <1>9, <1>11, <2>2, <2>3, <2>4, <2>7, <2>8
  <1>18. CASE k = 7
    <2>1. Head(prog["main"]) = Call("number", i)
      BY <1>5, <1>8, <1>18
    <2>2. Open(i) /\ path2fd[i] = reg["main"] /\ i \notin DOMAIN ihs
      BY <1>18 DEF RebuildAt
    <2>3. /\ Next1("main")
          /\ reg["main"] \in Fds /\ fd2pageno'[reg["main"]] = InitNumPages - 1
          /\ \A S : NumberedBut(S) => NumberedBut(S)'
          /\ UNCHANGED <<dir, files, meta, db, fhs, ihs, path2fd, reg, phase>>
      BY <1>1, <2>1, <2>2, DoNumber
    <2>4. k + 1 = 8 /\ 8 \in 1..10 /\ 8 \in 2..10
      BY <1>18
    <2>5. prog'["main"] = From(d, 8) \o q
      BY <1>8, <2>3, <2>4, Zenon
    <2>6. NumberedBut(ixs \cup {i})' /\ i \in db'.ixs \ ixs /\ i \notin DOMAIN ihs' /\ Open(i)'
          /\ path2fd'[i] = reg'["main"]
      BY <1>10, <2>2, <2>3 DEF Open
    <2>7. reg'["main"] \in Fds /\ fd2pageno'[reg'["main"]] = InitNumPages - 1
      BY <2>3
    <2>8. RebuildAt(i, ixs, 8)'
      BY <2>6, <2>7 DEF RebuildAt
    <2>9. ASSUME Sound PROVE RebuildSound(i, 8)'
      <3>1. RebuildSound(i, k) /\ files[i] = "ready"
        BY <1>18, <2>9 DEF RebuildSound
      <3>2. ~Held(i)' /\ files'[i] = "ready"
        BY <1>1, <2>2, <2>3, <3>1 DEF Held
      <3>3. \A n \in Names \ {i} : (Open(n)' <=> Open(n)) /\ (Held(n)' <=> Held(n))
        BY <2>3 DEF Held, Open
      <3>4. QED
        BY <2>3, <2>4, <2>6, <3>1, <3>2, <3>3, RebuildKeeps
    <2>10. QED
      BY <1>9, <1>11, <2>3, <2>4, <2>5, <2>8, <2>9
  <1>19. CASE k = 8
    <2>1. Head(prog["main"]) = Call("close", i)
      BY <1>5, <1>8, <1>19
    <2>2. Open(i) /\ path2fd[i] = reg["main"] /\ i \notin DOMAIN ihs
      BY <1>19 DEF RebuildAt
    <2>3. i \notin DOMAIN fhs \cup DOMAIN ihs
      BY <1>1, <2>2
    <2>4. /\ Next1("main") /\ DOMAIN path2fd' = DOMAIN path2fd \ {i} /\ HandlesKnown'
          /\ \A S : NumberedBut(S) => NumberedBut(S)'
          /\ UNCHANGED <<dir, files, meta, db, fhs, ihs, fd2pageno, reg, phase>>
      BY <1>1, <2>1, <2>2, <2>3, DoClose
    <2>5. k + 1 = 9 /\ 9 \in 1..10 /\ 9 \in 2..10
      BY <1>19
    <2>6. prog'["main"] = From(d, 9) \o q
      BY <1>8, <2>4, <2>5, Zenon
    <2>7. NumberedBut(ixs \cup {i})' /\ i \in db'.ixs \ ixs /\ i \notin DOMAIN ihs'
      BY <1>10, <2>2, <2>4
    <2>8. reg'["main"] \in Fds /\ fd2pageno'[reg'["main"]] = InitNumPages - 1
      BY <1>19, <2>4 DEF RebuildAt
    <2>9. RebuildAt(i, ixs, 9)'
      BY <2>7, <2>8 DEF RebuildAt
    <2>10. ASSUME Sound PROVE RebuildSound(i, 9)'
      <3>1. RebuildSound(i, k) /\ files[i] = "ready"
        BY <1>19, <2>10 DEF RebuildSound
      <3>2. ~Held(i)' /\ ~Open(i)' /\ files'[i] = "ready"
        BY <2>3, <2>4, <3>1 DEF Held, Open
      <3>3. \A n \in Names \ {i} : (Open(n)' <=> Open(n)) /\ (Held(n)' <=> Held(n))
        BY <2>4 DEF Held, Open
      <3>4. QED
        BY <2>4, <2>5, <3>1, <3>2, <3>3, RebuildKeeps
    <2>11. QED
      BY <1>9, <2>4, <2>5, <2>6, <2>9, <2>10
  <1>20. CASE k = 9
    <2>1. Head(prog["main"]) = Call("open_index", i)
      BY <1>5, <1>8, <1>20
    <2>2. \/ (files[i] = "none" \/ Open(i) \/ files[i] = "empty") /\ Throw("main")
          \/ Next1("main") /\ OpenedAs("main", "open_index", i)
      BY <1>1, <2>1, DoOpen
    <2>3. Sound => RebuildSound(i, k) /\ files[i] = "ready" /\ ~Open(i)
      BY <1>20 DEF RebuildSound
    <2>4. CASE (files[i] = "none" \/ Open(i) \/ files[i] = "empty") /\ Throw("main")
      <3>1. ~Sound
        BY <2>3, <2>4
      <3>2. QED
        BY <2>4, <3>1, StartThrows
    <2>5. CASE Next1("main") /\ OpenedAs("main", "open_index", i)
      <3>1. /\ DOMAIN path2fd' = DOMAIN path2fd \cup {i} /\ DOMAIN fhs' = DOMAIN fhs /\ HandlesKnown'
            /\ path2fd'[i] = reg'["main"] /\ NumberedBut(ixs \cup {i})'
            /\ UNCHANGED <<dir, files, meta, db, ihs, phase>>
        BY <1>10, <2>5 DEF OpenedAs
      <3>2. k + 1 = 10 /\ 10 \in 1..10 /\ 10 \in 2..10
        BY <1>20
      <3>3. prog'["main"] = From(d, 10) \o q
        BY <1>8, <2>5, <3>2, Zenon
      <3>4. i \in db'.ixs \ ixs /\ i \notin DOMAIN ihs' /\ Open(i)'
        BY <1>10, <1>20, <3>1 DEF Open
      <3>5. Numbered(i, reg["main"])'
        <4>1. reg["main"] \in Fds /\ fd2pageno[reg["main"]] = InitNumPages - 1
          BY <1>20 DEF RebuildAt
        <4>2. QED
          BY <2>5, <4>1 DEF OpenedAs
      <3>6. RebuildAt(i, ixs, 10)'
        BY <3>1, <3>4, <3>5 DEF RebuildAt
      <3>7. ASSUME Sound PROVE RebuildSound(i, 10)'
        <4>1. ~Held(i)' /\ files'[i] = "ready"
          BY <1>1, <2>3, <3>1, <3>4, <3>7 DEF Held
        <4>2. \A n \in Names \ {i} : (Open(n)' <=> Open(n)) /\ (Held(n)' <=> Held(n))
          BY <3>1 DEF Held, Open
        <4>3. QED
          BY <2>3, <3>1, <3>2, <3>4, <3>7, <4>1, <4>2, RebuildKeeps
      <3>8. QED
        BY <1>9, <3>1, <3>2, <3>3, <3>6, <3>7
    <2>6. QED
      BY <2>2, <2>4, <2>5
  <1>21. CASE k = 10
    <2>1. Head(prog["main"]) = Call("register", i)
      BY <1>5, <1>8, <1>21
    <2>2. Open(i) /\ path2fd[i] = reg["main"] /\ Numbered(i, reg["main"])
      BY <1>21 DEF RebuildAt
    <2>3. /\ Next1("main") /\ DOMAIN ihs' = DOMAIN ihs \cup {i} /\ HandlesKnown'
          /\ \A S : NumberedBut(S \cup {i}) /\ Numbered(i, reg["main"]) => NumberedBut(S)'
          /\ UNCHANGED <<dir, files, meta, db, fhs, path2fd, phase>>
      BY <1>1, <2>1, <2>2, DoRegister
    <2>4. prog'["main"] = Rebuilding(ixs)
      BY <1>2, <1>8, <1>21, <2>3
    <2>5. NumberedBut(ixs)'
      BY <1>10, <2>2, <2>3
    <2>6. ASSUME Sound PROVE Loaded({})' /\ HeldBut({})'
      <3>1. Loaded({i}) /\ OpenHeld({i}) /\ HeldBut({i}) /\ files[i] = "ready" /\ In(i, db)
        BY <1>21, <2>6 DEF RebuildSound, Loaded, In
      <3>2. UNCHANGED <<expect, orphans>> /\ orphans \subseteq Names
        BY <2>3, StartKeeps
      <3>3. \A n : Held(n)' <=> Held(n) \/ n = i
        BY <2>3 DEF Held
      <3>4. OpenHeld({})' /\ OpenHeld({i})'
        BY <2>3, <3>1, <3>3 DEF OpenHeld, Open
      <3>5. Loaded({i})'
        BY <2>3, <3>1, <3>2, <3>4, LoadedStays
      <3>6. DiskOf(i, db)'
        BY <2>3, <3>1 DEF DiskOf, In
      <3>7. Loaded({})'
        BY <3>4, <3>5, <3>6 DEF Loaded
      <3>8. HeldBut({})'
        BY <2>3, <3>1, <3>3 DEF HeldBut, In
      <3>9. QED
        BY <3>7, <3>8
    <2>7. QED
      BY <2>3, <2>4, <2>5, <2>6, ToRebuilding
  <1>22. QED
    BY <1>12, <1>13, <1>14, <1>15, <1>16, <1>17, <1>18, <1>19, <1>20, <1>21

LEMMA StartGoesOn ==
    ASSUME StartContext, StartAt
    PROVE  StartsOn
  <1>1. ASSUME db = NoCatalog, DOMAIN path2fd = {},
               \/ \E k \in 1..4 : /\ prog["main"] = From(CreateDb, k) \o <<Call("load_meta", "meta")>>
                                  /\ Sound => CreateDbSound(k)
               \/ /\ prog["main"] = <<Call("load_meta", "meta")>>
                  /\ Sound => StoredCat
        PROVE StartsOn
    BY <1>1, CreateDbStarts, LoadStarts
  <1>2. ASSUME NEW tabs \in SUBSET db.tabs,
               \/ prog["main"] = Opening(tabs) /\ (Sound => OpeningSound(Of(tabs)))
               \/ \E t \in db.tabs \ tabs :
                     /\ prog["main"] =
                           <<Call("open_file", t)>> \o OpeningIndexes({i \in db.ixs : TableOf[i] = t}, tabs)
                     /\ Sound => OpeningSound(Of(tabs \cup {t}))
        PROVE StartsOn
    BY <1>2, OpeningStarts, OpenFileStarts
  <1>3. ASSUME NEW tabs \in SUBSET db.tabs, NEW ixs \in SUBSET db.ixs, \A j \in ixs : TableOf[j] \notin tabs,
               \/ /\ prog["main"] = OpeningIndexes(ixs, tabs)
                  /\ Sound => OpeningSound(Of(tabs) \cup ixs)
               \/ \E i \in db.ixs \ ixs :
                     /\ TableOf[i] \notin tabs
                     /\ \/ /\ prog["main"] = <<Call("open_index", i), Call("register", i)>>
                              \o OpeningIndexes(ixs, tabs)
                           /\ Sound => OpeningSound(Of(tabs) \cup ixs \cup {i})
                        \/ /\ prog["main"] = <<Call("register", i)>> \o OpeningIndexes(ixs, tabs)
                           /\ Open(i) /\ path2fd[i] = reg["main"]
                           /\ Sound => /\ Loaded({i}) /\ DiskOf(i, db) /\ ~Open("log")
                                       /\ HeldBut(Of(tabs) \cup ixs \cup {i})
        PROVE StartsOn
    BY <1>3, OpeningIndexesStarts, OpenIndexStarts, RegisterStarts
  <1>4. ASSUME prog["main"] = Recovering, Sound => OpeningSound({}) PROVE StartsOn
    BY <1>4, RecoveringStarts
  <1>5. ASSUME NEW ixs \in SUBSET db.ixs,
               \/ /\ prog["main"] = Rebuilding(ixs) /\ NumberedBut(ixs)
                  /\ Sound => Loaded({}) /\ HeldBut({})
               \/ \E i \in db.ixs, k \in 1..10 :
                     /\ prog["main"] = From(RebuildIndex(i), k) \o Rebuilding(ixs)
                     /\ RebuildAt(i, ixs, k)
                     /\ Sound => RebuildSound(i, k)
        PROVE StartsOn
    BY <1>5, RebuildingStarts, RebuildStarts
  <1>6. ASSUME prog["main"] = Serving1, NumberedBut({}), Sound => Loaded({}) /\ HeldBut({}) PROVE StartsOn
    BY <1>6, ServingStarts
  <1>7. QED
    BY <1>1, <1>2, <1>3, <1>4, <1>5, <1>6 DEF StartAt

LEMMA StartingInv ==
    ASSUME ServerInv, CatalogInv, Step("main"), History, phase = "starting"
    PROVE  CatalogInv'
  <1>1. /\ "main" \in Threads /\ "main" \notin Sessions /\ CatalogStep("main") /\ MoreTypes /\ OneDdl /\ OnDisk
        /\ HandlesKnown /\ StartAt /\ (ended = "failed" => ~Sound)
    BY NamesApart DEF Threads, Step, CatalogInv
  <1>2. \A s \in Sessions : ~Changing(s)
    <2>1. TypeInv /\ ProgInv
      BY DEF ServerInv
    <2>2. ASSUME NEW s \in Sessions, prog[s] # <<>> PROVE FALSE
      <3>1. s \in Threads /\ s # "main"
        BY <1>1, <2>2 DEF Threads
      <3>2. phase \in {"up", "closing"}
        BY <2>1, <2>2, <3>1, Running
      <3>3. QED
        BY <3>2
    <2>3. QED
      BY <2>2 DEF Changing
  <1>3. tainted' <=> tainted
    BY DEF History
  <1>4. ASSUME phase' # "down"
        PROVE /\ Goes("main") /\ Comes("main") /\ phase' \in {"starting", "up"}
              /\ orphans' = orphans /\ (Sound' <=> Sound) /\ ended' = ended
    <2>1. Goes("main") /\ Comes("main")
      BY <1>1, <1>4, StepKeeps
    <2>2. phase' \in {"starting", "up"}
      BY <1>1, <1>4, PhaseKept
    <2>3. Sound' <=> Sound
      BY <1>3, <2>1 DEF Sound, Goes
    <2>4. QED
      BY <2>1, <2>2, <2>3 DEF Goes
  <1>5. StartContext
    <2>1. phase' = "starting" => expect' = expect
      BY <1>4 DEF Comes
    <2>2. phase' = "up" => expect' = [old |-> db, new |-> db]
      BY <1>4 DEF Comes
    <2>3. QED
      BY <1>1, <1>4, <2>1, <2>2 DEF StartContext
  <1>6. StartsOn
    BY <1>1, <1>5, StartGoesOn
  <1>7. CASE phase' = "down"
    <2>1. PICK how : ProcessEnds(how)
      BY <1>1, <1>7, PhaseEnds
    <2>2. ~Sound
      BY <1>6, <1>7 DEF StartsOn
    <2>3. broken => broken'
      BY <2>1 DEF ProcessEnds
    <2>4. ~Sound'
      BY <1>3, <2>2, <2>3 DEF Sound
    <2>5. AllGone
      BY <1>7 DEF Step
    <2>6. QED
      BY <2>1, <2>4, <2>5, EndsSound
  <1>8. CASE phase' = "starting"
    <2>1. HandlesKnown' /\ StartAt'
      BY <1>6, <1>8 DEF StartsOn
    <2>2. MoreTypes' /\ OneDdl' /\ OnDisk' /\ (ended' = "failed" => ~Sound')
      BY <1>1, <1>4, <1>8 DEF Goes
    <2>3. QED
      BY <1>8, <2>1, <2>2 DEF CatalogInv
  <1>9. CASE phase' = "up"
    <2>1. /\ HandlesKnown' /\ NumberedBut({})'
          /\ Sound => /\ dir' /\ files'["log"] # "none" /\ WellFormed(expect.old)' /\ Orphaned(expect.old)'
                      /\ IdleSound'
      BY <1>6, <1>9 DEF StartsOn
    <2>2. MoreTypes' /\ OneDdl' /\ OnDisk' /\ (ended' = "failed" => ~Sound') /\ (Sound' <=> Sound)
      BY <1>1, <1>4, <1>9 DEF Goes
    <2>3. \A s \in Sessions : ~Changing(s)'
      BY <1>1, <1>2, <1>4, <1>9 DEF Goes, Changing, Threads
    <2>4. QED
      BY <1>9, <2>1, <2>2, <2>3 DEF CatalogInv
  <1>10. QED
    <2>1. phase' = "down" \/ phase' \in {"starting", "up"}
      BY <1>4
    <2>2. QED
      BY <1>7, <1>8, <1>9, <2>1

-----------------------------------------------------------------------------
\* Every step

LEMMA StutterInv ==
    ASSUME ServerInv, CatalogInv, UNCHANGED vars
    PROVE  CatalogInv'
  <1>1. UNCHANGED <<catalogVars, handlerVars, ghostVars>>
    BY DEF vars
  <1>2. /\ \A s \in Sessions : Changing(s) => stage[s] = "run"
        /\ DOMAIN reg = Threads /\ DOMAIN job = Threads /\ outcome \in [Threads -> {"ok", "failure"}]
    BY DEF CatalogInv, OneDdl, MoreTypes
  <1>3. Quiet
    BY <1>1, <1>2 DEF Quiet, catalogVars, handlerVars
  <1>4. UNCHANGED <<expect, orphans, tainted>>
    BY <1>1 DEF ghostVars
  <1>5. QED
    BY <1>3, <1>4, QuietInv

\* A call of main or of a session.
LEMMA ThreadInv ==
    ASSUME ServerInv, CatalogInv, NEW th \in Threads, Step(th), History
    PROVE  CatalogInv'
  <1>1. CASE th \in Sessions
    BY <1>1, SessionSteps
  <1>2. CASE th = "main"
    <2>1. prog[th] # <<>> /\ TypeInv /\ ProgInv
      BY TheStep DEF Step, ServerInv
    <2>2. phase \in {"starting", "closing"}
      BY <1>2, <2>1, Running
    <2>3. QED
      BY <1>2, <2>2, StartingInv, ClosingInv
  <1>3. QED
    BY <1>1, <1>2 DEF Threads

LEMMA CatalogNext ==
    ASSUME ServerInv, CatalogInv, [Next]_vars PROVE CatalogInv'
  <1>1. CASE UNCHANGED vars
    BY <1>1, StutterInv
  <1>2. CASE Next
    <2>1. History
      BY <1>2 DEF Next
    <2>2. ASSUME NEW c \in Clients, Connect(c) \/ Leave(c) \/ \E s \in Statements : Send(c, s)
          PROVE CatalogInv'
      BY <2>1, <2>2, QuietSteps
    <2>3. CASE AcceptLock \/ Accept \/ AcceptError
      BY <2>1, <2>3, QuietSteps
    <2>4. CASE LeaveLoop \/ Killed \/ Start
      BY <2>1, <2>4, LeaveLoopInv, KilledInv, StartInv
    <2>5. ASSUME NEW s \in Sessions,
                 Spawn(s) \/ HandlerStart(s) \/ Read(s) \/ EndSession(s) \/ Parse(s) \/ Analyze(s) \/ Answer(s)
          PROVE CatalogInv'
      BY <2>1, <2>5, QuietSteps
    <2>6. ASSUME NEW s \in Sessions, Execute(s) PROVE CatalogInv'
      BY <2>1, <2>6, ExecuteInv
    <2>7. ASSUME NEW th \in Threads, Step(th) PROVE CatalogInv'
      BY <2>1, <2>7, ThreadInv
    <2>8. QED
      BY <1>2, <2>2, <2>3, <2>4, <2>5, <2>6, <2>7 DEF Next
  <1>3. QED
    BY <1>1, <1>2

\* How the last process ended.
Endings == ended \in {"killed", "failed", "closed"}

LEMMA EndingsNext ==
    ASSUME ServerInv, CatalogInv, Endings, [Next]_vars PROVE Endings'
  <1>1. ASSUME UNCHANGED catalogVars PROVE Endings'
    BY <1>1 DEF catalogVars, Endings
  <1>2. ASSUME UNCHANGED historyVars PROVE Endings'
    BY <1>2 DEF historyVars, Endings
  <1>3. CASE UNCHANGED vars
    BY <1>1, <1>3 DEF vars
  <1>4. ASSUME NEW c \in Clients, Connect(c) \/ Leave(c) \/ \E s \in Statements : Send(c, s) PROVE Endings'
    BY <1>1, <1>4 DEF Connect, Leave, Send
  <1>5. CASE AcceptLock \/ Accept \/ AcceptError
    BY <1>1, <1>2, <1>5 DEF AcceptLock, Accept, AcceptError
  <1>6. CASE LeaveLoop \/ Start
    BY <1>2, <1>6 DEF LeaveLoop, Shutdown, Start, StartServer, Begin
  <1>7. CASE Killed
    BY <1>7 DEF Killed, ProcessEnds, Endings
  <1>8. ASSUME NEW s \in Sessions,
               Spawn(s) \/ HandlerStart(s) \/ Read(s) \/ EndSession(s) \/ Parse(s) \/ Analyze(s) \/ Answer(s)
        PROVE Endings'
    BY <1>1, <1>2, <1>8 DEF Spawn, HandlerStart, Read, EndSession, Parse, Analyze, Answer
  <1>9. ASSUME NEW s \in Sessions, Execute(s) PROVE Endings'
    BY <1>2, <1>9 DEF Execute, RunDdl, Begin
  <1>10. ASSUME NEW th \in Threads, Step(th), History PROVE Endings'
    <2>1. CatalogStep(th) /\ prog[th] # <<>> /\ MoreTypes /\ OneDdl /\ OnDisk
      BY <1>10, TheStep DEF Step, CatalogInv
    <2>2. phase # "down"
      BY <2>1, Running DEF ServerInv
    <2>3. CASE phase' = "down"
      <3>1. ProcessEnds("killed") \/ ProcessEnds("closed") \/ ProcessEnds("failed")
        BY <2>1, <2>2, <2>3, PhaseEnds
      <3>2. QED
        BY <3>1 DEF ProcessEnds, Endings
    <2>4. CASE phase' # "down"
      BY <1>10, <2>1, <2>4, StepKeeps DEF Goes, Endings
    <2>5. QED
      BY <2>3, <2>4
  <1>11. QED
    BY <1>3, <1>4, <1>5, <1>6, <1>7, <1>8, <1>9, <1>10 DEF Next

\* The catalog's invariant, with that of the server: after every call of CREATE and DROP TABLE and
\* INDEX (sm_manager.cpp), of create_db, open_db, the rebuilding of the indexes in undo() and close_db,
\* the handles, files, counters and db.meta are as that position says, also when the process is killed.
THEOREM CatalogInvariant == Spec => [](ServerInv /\ CatalogInv /\ Endings)
  <1>1. Init => ServerInv /\ CatalogInv /\ Endings
    BY InitInv, CatalogInitInv DEF Init, CatalogInit, Endings
  <1>2. ServerInv /\ CatalogInv /\ Endings /\ [Next]_vars => (ServerInv /\ CatalogInv /\ Endings)'
    BY NextInv, CatalogNext, EndingsNext
  <1>3. QED
    BY <1>1, <1>2, PTL DEF Spec

\* While the server is up, the page counter behind the descriptor of every open index is past the
\* pages IxManager::create_index wrote, unless an accept took its descriptor in between; restarts
\* and rebuilt indexes included (set_fd2pageno in create_index, +1 in the IxIndexHandle constructor).
THEOREM IndexNumberedAlways == Spec => []IndexNumbered
  <1>1. CatalogInv => IndexNumbered
    BY DEF CatalogInv, IndexNumbered, NumberedBut, Numbered
  <1>2. QED
    BY <1>1, CatalogInvariant, PTL

\* Between DDL statements SmManager's db_, its handles, DiskManager's path2fd_, the kernel's
\* descriptors, db.meta and the directory agree, as long as no process ended in a window of flush_meta
\* or of a DROP and no shutdown overlapped a statement.
THEOREM CatalogConsistentAlways == Spec => []CatalogConsistent
  <1>1. ASSUME ServerInv, CatalogInv, Endings PROVE CatalogConsistent
    <2>1. /\ phase \in {"down", "starting", "up", "closing"} /\ ended \in {"killed", "failed", "closed"}
          /\ files \in [Paths -> {"none", "empty", "ready"}]
          /\ kernel \in [Fds -> Paths \cup Clients \cup {"free", "listen"}]
      BY <1>1 DEF ServerInv, TypeInv, Endings
    <2>2. ASSUME phase = "up", ~broken, ~tainted, \A th \in Threads : prog[th] = <<>>
          PROVE /\ db = expect.new /\ meta = [state |-> "good", cat |-> db]
                /\ DOMAIN fhs = db.tabs /\ DOMAIN ihs = db.ixs
                /\ \A n \in db.tabs \cup db.ixs :
                      LET fd == IF n \in db.tabs THEN fhs[n] ELSE ihs[n]
                      IN kernel[fd] = n /\ n \in DOMAIN path2fd /\ path2fd[n] = fd /\ files[n] = "ready"
                /\ \A n \in TableNames \cup IndexNames :
                      files[n] # "none" => n \in db.tabs \cup db.ixs \cup orphans \cup TooLong
      <3>1. IdleSound /\ HandlesKnown
        <4>1. Idle /\ Sound
          BY <2>2 DEF Idle, Changing, Threads, Sound
        <4>2. QED
          BY <1>1, <2>2, <4>1 DEF CatalogInv
      <3>2. /\ DOMAIN fhs \subseteq TableNames /\ DOMAIN ihs \subseteq IndexNames /\ TableNames \cap IndexNames = {}
            /\ db.tabs \subseteq TableNames /\ db.ixs \subseteq IndexNames
            /\ \A p \in DOMAIN path2fd : path2fd[p] \in Fds /\ kernel[path2fd[p]] = p
        BY <1>1, CatalogAssumption DEF ServerInv, TypeInv, FdInv, Catalogs
      <3>3. db = expect.new /\ meta = [state |-> "good", cat |-> db] /\ \A n \in Names : Settled(n)
        BY <3>1 DEF IdleSound, MetaIs
      <3>4. \A n \in db.tabs \cup db.ixs : n \in Names /\ Held(n) /\ files[n] = "ready"
        BY <3>2, <3>3 DEF Settled, DiskOf, In, Names
      <3>5. DOMAIN fhs = db.tabs
        BY <3>1, <3>2, <3>4 DEF Held, HandlesKnown
      <3>6. DOMAIN ihs = db.ixs
        BY <3>1, <3>2, <3>4 DEF Held, HandlesKnown
      <3>7. ASSUME NEW n \in db.tabs \cup db.ixs, NEW fd, fd = IF n \in db.tabs THEN fhs[n] ELSE ihs[n]
            PROVE kernel[fd] = n /\ n \in DOMAIN path2fd /\ path2fd[n] = fd /\ files[n] = "ready"
        <4>1. n \in DOMAIN path2fd /\ path2fd[n] = fd
          BY <3>1, <3>5, <3>6, <3>7 DEF HandlesKnown, Open
        <4>2. QED
          BY <3>2, <3>4, <4>1
      <3>8. \A n \in TableNames \cup IndexNames :
               files[n] # "none" => n \in db.tabs \cup db.ixs \cup orphans \cup TooLong
        BY <3>3 DEF Settled, DiskOf, In, Names
      <3>9. QED
        BY <3>3, <3>5, <3>6, <3>7, <3>8
    <2>3. QED
      BY <2>1, <2>2 DEF CatalogConsistent
  <1>2. QED
    BY <1>1, CatalogInvariant, PTL

\* A start that has read the catalog: every file is there, but those that are being built again.
LEMMA LoadedRestarts ==
    ASSUME ServerInv, NEW X, Loaded(X), \A n \in X : files[n] = "ready" \/ Pending("main", "header", {n})
    PROVE  Restarts
  <1>1. /\ meta.state = "good" /\ meta.cat = db /\ db \in {expect.old, expect.new} /\ files["log"] # "none"
        /\ \A n \in Names \ X : DiskOf(n, db)
    BY DEF Loaded, MetaIs
  <1>2. \A n \in db.tabs \cup db.ixs : n \in Names /\ In(n, db)
    BY DEF ServerInv, TypeInv, Catalogs, Names, In
  <1>3. \A n \in db.tabs \cup db.ixs : files[n] = "ready" \/ Pending("main", "header", {n})
    BY <1>1, <1>2 DEF DiskOf
  <1>4. QED
    BY <1>1, <1>3 DEF Restarts

\* What a start finds if the process ends while it starts.
LEMMA StartRestarts ==
    ASSUME ServerInv, StartAt, Sound
    PROVE  Restarts
  <1>1. /\ db \in Catalogs /\ db.ixs \subseteq IndexNames /\ meta.state \in {"none", "torn", "good"}
        /\ \A op, n : Has(prog["main"], op, {n}) => Pending("main", op, {n})
    BY DEF ServerInv, TypeInv, Catalogs, Has, Pending
  <1>2. ASSUME Loaded({}) PROVE Restarts
    BY <1>2, LoadedRestarts
  <1>3. ASSUME NEW k \in 1..4, prog["main"] = From(CreateDb, k) \o <<Call("load_meta", "meta")>>, CreateDbSound(k)
        PROVE Restarts
    <2>1. PICK c \in AnyCall : c = Call("load_meta", "meta")
      BY TheCalls
    <2>2. PICK q : q = <<c>>
      OBVIOUS
    <2>3. q \in Seq(AnyCall)
      BY <2>2
    <2>4. PICK d : d = CreateDb
      OBVIOUS
    <2>5. d \in Seq(AnyCall) /\ Len(d) = 4 /\ d[4] = Call("write_meta", "meta")
      BY <2>4, CreateDbCalls DEF Walks
    <2>6. Has(From(d, k), "write_meta", {"meta"})
      <3>1. 4 \in k..Len(d) /\ k \in 1..Len(d)
        BY <2>5
      <3>2. QED
        BY <2>5, <3>1, HasFrom
    <2>7. From(d, k) \in Seq(AnyCall) /\ q \in Seq(AnyCall)
      BY <2>5, <2>3, FromCalls
    <2>8. Has(From(d, k) \o q, "write_meta", {"meta"})
      BY <2>6, <2>7, HasThen
    <2>9. Pending("main", "write_meta", {"meta"})
      BY <1>1, <1>3, <2>1, <2>2, <2>4, <2>8
    <2>10. meta.state # "good"
      BY <1>3 DEF CreateDbSound, Fresh
    <2>11. QED
      BY <2>9, <2>10 DEF Restarts, Threads
  <1>4. ASSUME StoredCat PROVE Restarts
    <2>1. meta.cat \in Catalogs
      BY DEF ServerInv, TypeInv
    <2>2. \A n \in meta.cat.tabs \cup meta.cat.ixs : n \in Names /\ In(n, meta.cat)
      BY <2>1 DEF Catalogs, Names, In
    <2>3. QED
      BY <1>4, <2>2 DEF StoredCat, DiskHolds, DiskOf, Restarts
  <1>5. ASSUME NEW i \in db.ixs, NEW ixs \in SUBSET db.ixs, NEW k \in 1..10,
               prog["main"] = From(RebuildIndex(i), k) \o Rebuilding(ixs), RebuildSound(i, k)
        PROVE Restarts
    <2>1. Loaded({i}) /\ files[i] = CASE k = 3 -> "none" [] k \in 4..6 -> "empty" [] OTHER -> "ready"
      BY <1>5 DEF RebuildSound
    <2>2. CASE k \in 3..6
      <3>1. PICK q \in Seq(AnyCall) : q = Rebuilding(ixs)
        BY <1>1, RebuildingCalls
      <3>2. PICK d : d = RebuildIndex(i)
        OBVIOUS
      <3>3. d \in Seq(AnyCall) /\ Len(d) = 10 /\ d[6] = Call("header", i)
        BY <1>1, <3>2, RebuildIndexCalls
      <3>4. Has(From(d, k), "header", {i})
        <4>1. 6 \in k..Len(d) /\ k \in 1..Len(d)
          BY <2>2, <3>3
        <4>2. QED
          BY <3>3, <4>1, HasFrom
      <3>5. From(d, k) \in Seq(AnyCall)
        BY <3>3, FromCalls
      <3>6. Has(From(d, k) \o q, "header", {i})
        BY <3>4, <3>5, HasThen
      <3>7. Pending("main", "header", {i})
        BY <1>1, <1>5, <3>1, <3>2, <3>6
      <3>8. QED
        BY <2>1, <3>7, LoadedRestarts
    <2>3. CASE k \notin 3..6
      <3>1. files[i] = "ready"
        BY <2>1, <2>3
      <3>2. QED
        BY <2>1, <3>1, LoadedRestarts
    <2>4. QED
      BY <2>2, <2>3
  <1>6. ASSUME NEW i \in db.ixs, Loaded({i}), DiskOf(i, db) PROVE Restarts
    <2>1. files[i] = "ready"
      BY <1>6 DEF DiskOf, In
    <2>2. QED
      BY <1>6, <2>1, LoadedRestarts
  <1>7. ASSUME NEW W, OpeningSound(W) PROVE Restarts
    BY <1>2, <1>7 DEF OpeningSound
  <1>8. CASE \/ \E k \in 1..4 : /\ prog["main"] = From(CreateDb, k) \o <<Call("load_meta", "meta")>>
                                /\ CreateDbSound(k)
             \/ StoredCat \/ Loaded({}) \/ \E W : OpeningSound(W)
    BY <1>2, <1>3, <1>4, <1>7, <1>8
  <1>9. CASE \/ \E i \in db.ixs : Loaded({i}) /\ DiskOf(i, db)
             \/ \E ixs \in SUBSET db.ixs, i \in db.ixs, k \in 1..10 :
                   prog["main"] = From(RebuildIndex(i), k) \o Rebuilding(ixs) /\ RebuildSound(i, k)
    BY <1>5, <1>6, <1>9
  <1>10. QED
    BY <1>8, <1>9 DEF StartAt

\* Wherever the process is killed, the next open_db finds db.meta with the catalog from before or after
\* the running statement and the files it names, except between truncation and writing in flush_meta
\* and create_db, between the destruction of a file and flush_meta in a DROP, and while undo() builds
\* an index again; and a start fails only after a process ended there.
THEOREM RestartableAlways == Spec => []Restartable
  <1>1. ASSUME ServerInv, CatalogInv, Sound PROVE Restarts
    <2>1. CASE phase = "down"
      <3>1. DownSound /\ meta.cat \in Catalogs
        BY <1>1, <2>1 DEF CatalogInv, ServerInv, TypeInv
      <3>2. \A n \in meta.cat.tabs \cup meta.cat.ixs : n \in Names /\ In(n, meta.cat)
        BY <3>1 DEF Catalogs, Names, In
      <3>3. CASE ~dir
        BY <3>3 DEF Restarts
      <3>4. CASE dir
        BY <3>1, <3>2, <3>4 DEF DownSound, StoredCat, DiskHolds, DiskOf, Restarts
      <3>5. QED
        BY <3>3, <3>4
    <2>2. CASE phase = "starting"
      BY <1>1, <2>2, StartRestarts DEF CatalogInv
    <2>3. CASE phase = "up"
      BY <1>1, <2>3, UpRestarts
    <2>4. CASE phase = "closing" /\ Idle
      <3>1. CloseAt /\ MoreTypes
        BY <1>1, <2>4 DEF CatalogInv
      <3>2. /\ dir /\ files["log"] # "none" /\ expect.old = expect.new /\ meta.cat = expect.new
            /\ \A n \in expect.new.tabs \cup expect.new.ixs : files[n] = "ready"
            /\ meta.state = "good" \/ Pending("main", "write_meta", {"meta"})
        BY <1>1, <3>1, CloseMeta
      <3>3. QED
        BY <3>2 DEF Restarts, Threads
    <2>5. CASE phase = "closing" /\ ~Idle
      BY <1>1, <2>5 DEF CatalogInv
    <2>6. phase \in {"down", "starting", "up", "closing"}
      BY <1>1 DEF ServerInv, TypeInv
    <2>7. QED
      BY <2>1, <2>2, <2>3, <2>4, <2>5, <2>6
  <1>2. ServerInv /\ CatalogInv => Restartable
    <2>1. ASSUME ServerInv, CatalogInv PROVE Restartable
      <3>1. ended = "failed" => broken \/ tainted
        BY <2>1 DEF CatalogInv, Sound
      <3>2. ~broken /\ ~tainted => Restarts
        BY <1>1, <2>1 DEF Sound
      <3>3. QED
        BY <3>1, <3>2 DEF Restartable, Restarts
    <2>2. QED
      BY <2>1
  <1>3. QED
    BY <1>2, CatalogInvariant, PTL

\* A session's statement, when its last call is made.
LEMMA StatementEnds ==
    ASSUME ServerInv, CatalogInv, NEW s \in Sessions, Step(s), History,
           ~broken, ~tainted, phase = "up", phase' # "down", prog'[s] = <<>>
    PROVE  outcome'[s] = "failure" <=> MustFail(query[s]) \/ Calls(s, {"duplicate"})
  <1>1. Context(s) /\ Sound
    BY ContextHolds DEF Sound
  <1>2. After(s)
    BY <1>1, SessionGoesOn
  <1>3. outcome'[s] = "failure" <=> Forbidden(s)
    BY <1>1, <1>2 DEF After
  <1>4. PICK q : q = query[s]
    OBVIOUS
  <1>5. q \in Ddl /\ Allowed(expect.old, q) /\ TooLong \subseteq IndexNames /\ TableNames \cap IndexNames = {}
    BY <1>1, <1>4, CatalogAssumption DEF Context, DdlAt
  <1>6. MustFail(q) <=> Creates(q) /\ Barred(q.name)
    <2>1. CASE q.op = "create_table"
      <3>1. q.name \notin TooLong
        BY <1>5, <2>1 DEF Ddl
      <3>2. QED
        BY <2>1, <3>1 DEF MustFail, Creates, Barred
    <2>2. CASE q.op = "create_index"
      BY <1>5, <2>2 DEF MustFail, Creates, Allowed, Barred
    <2>3. CASE q.op \in {"drop_table", "drop_index"}
      BY <1>5, <2>3 DEF MustFail, Creates, Allowed
    <2>4. q.op \notin {"create_wide_table", "index_unknown_column", "show_index"}
      BY <1>5 DEF Allowed
    <2>5. QED
      BY <1>5, <2>1, <2>2, <2>3, <2>4 DEF Ddl
  <1>7. QED
    BY <1>3, <1>4, <1>6 DEF Forbidden

\* A statement that is over at once.
LEMMA StatementAtOnce ==
    ASSUME ServerInv, CatalogInv, NEW s \in Sessions, Execute(s),
           ~broken, ~tainted, phase = "up", prog'[s] = <<>>
    PROVE  outcome'[s] = "failure" <=> MustFail(query[s]) \/ Calls(s, {"duplicate"})
  <1>1. /\ stage[s] = "plan" /\ query[s] \in Ddl /\ Idle /\ RunDdl(s, query[s])
        /\ DOMAIN prog = Threads /\ s \in Threads
    BY Alone
  <1>2. IdleSound /\ DOMAIN outcome = Threads
    BY <1>1 DEF CatalogInv, MoreTypes, Sound
  <1>3. db = expect.old /\ ~Calls(s, {"duplicate"})
    BY <1>1, <1>2 DEF IdleSound, Idle, Changing, Calls
  <1>4. PICK q \in Ddl : q = query[s]
    BY <1>1
  <1>5. CASE Refused(q)
    <2>1. outcome'[s] = "failure"
      BY <1>1, <1>2, <1>4, <1>5 DEF RunDdl
    <2>2. q.name \in expect.old.tabs \cup expect.old.ixs => InTheWay(q.name, expect.old)
      BY DEF InTheWay, SameFile
    <2>3. MustFail(q)
      BY <1>3, <1>5, <2>2 DEF Refused, MustFail
    <2>4. QED
      BY <1>4, <2>1, <2>3
  <1>6. CASE ~Refused(q)
    <2>1. prog' = [prog EXCEPT ![s] = CallsOf(q)] /\ outcome' = [outcome EXCEPT ![s] = "ok"]
      BY <1>1, <1>4, <1>6 DEF RunDdl, Begin
    <2>2. CallsOf(q) = <<>> /\ outcome'[s] = "ok"
      BY <1>1, <1>2, <2>1
    <2>3. q.op = "show_index"
      BY <1>6, <2>2, FirstCalls DEF Ddl, Refused
    <2>4. ~MustFail(q)
      BY <1>3, <1>6, <2>3 DEF Refused, MustFail
    <2>5. QED
      BY <1>3, <1>4, <2>2, <2>4
  <1>7. QED
    BY <1>5, <1>6

\* The other steps begin and end no statement.
LEMMA NoOutcome ==
    ASSUME ServerInv, CatalogInv, NEW s \in Sessions,
           NEW r \in Sessions, stage'[s] = "run", stage[s] = "plan" \/ Changing(s),
           prog'[s] = <<>>,
           \/ \E c \in Clients : Connect(c) \/ Leave(c) \/ \E q \in Statements : Send(c, q)
           \/ AcceptLock \/ Accept \/ AcceptError \/ LeaveLoop \/ Killed \/ Start
           \/ Spawn(r) \/ HandlerStart(r) \/ Read(r) \/ EndSession(r) \/ Parse(r) \/ Analyze(r) \/ Answer(r)
    PROVE  FALSE
  <1>1. DOMAIN stage = Sessions /\ DOMAIN prog = Threads /\ s \in Threads /\ s # "main"
        /\ (Changing(s) => stage[s] = "run")
    BY NamesApart DEF ServerInv, SocketInv, ProgInv, Threads, CatalogInv, OneDdl
  <1>2. ASSUME prog' = prog PROVE stage[s] = "plan"
    BY <1>2 DEF Changing
  <1>3. CASE UNCHANGED <<catalogVars, handlerVars>>
    BY <1>2, <1>3 DEF catalogVars, handlerVars
  <1>4. ASSUME NEW c \in Clients, Connect(c) \/ Leave(c) \/ \E q \in Statements : Send(c, q) PROVE FALSE
    BY <1>3, <1>4 DEF Connect, Leave, Send
  <1>5. CASE AcceptLock \/ AcceptError
    BY <1>3, <1>5 DEF AcceptLock, AcceptError
  <1>6. CASE Accept
    BY <1>2, <1>6 DEF Accept, handlerVars
  <1>7. CASE LeaveLoop \/ Start
    <2>1. (\E v : prog' = [prog EXCEPT !["main"] = v]) /\ stage' = stage
      BY <1>7 DEF LeaveLoop, Start, Shutdown, StartServer, Begin, handlerVars
    <2>2. prog'[s] = prog[s]
      BY <1>1, <2>1
    <2>3. QED
      BY <2>1, <2>2 DEF Changing
  <1>8. CASE Killed
    BY <1>8 DEF Killed, AllGone
  <1>9. CASE Spawn(r) \/ HandlerStart(r) \/ Read(r) \/ Parse(r) \/ Analyze(r)
    <2>1. /\ UNCHANGED catalogVars
          /\ \E v \in {"born", "reading", "lex", "parsed", "failed", "done", "plan"} :
                stage' = [stage EXCEPT ![r] = v]
      BY <1>9 DEF Spawn, HandlerStart, Read, Parse, Analyze
    <2>2. stage[s] = "plan"
      BY <1>2, <2>1 DEF catalogVars
    <2>3. QED
      BY <1>1, <2>1, <2>2
  <1>10. CASE EndSession(r) \/ Answer(r)
    <2>1. prog' = prog /\ \E v \in {"free", "reading"} : stage' = [stage EXCEPT ![r] = v]
      BY <1>10 DEF EndSession, Answer
    <2>2. QED
      BY <1>1, <1>2, <2>1
  <1>11. QED
    BY <1>4, <1>5, <1>6, <1>7, <1>8, <1>9, <1>10

LEMMA OutcomeOf ==
    ASSUME ServerInv, CatalogInv, Next, NEW s \in Sessions, ~broken, ~tainted, phase = "up",
           stage'[s] = "run", prog'[s] = <<>>, stage[s] = "plan" \/ Changing(s)
    PROVE  outcome'[s] = "failure" <=> MustFail(query[s]) \/ Calls(s, {"duplicate"})
  <1>1. History
    BY DEF Next
  <1>2. CASE \/ \E c \in Clients : Connect(c) \/ Leave(c) \/ \E q \in Statements : Send(c, q)
             \/ AcceptLock \/ Accept \/ AcceptError \/ LeaveLoop \/ Killed \/ Start
    BY <1>2, NoOutcome
  <1>3. ASSUME NEW r \in Sessions,
               Spawn(r) \/ HandlerStart(r) \/ Read(r) \/ EndSession(r) \/ Parse(r) \/ Analyze(r) \/ Answer(r)
        PROVE FALSE
    BY <1>3, NoOutcome
  <1>4. ASSUME NEW r \in Sessions, Execute(r)
        PROVE outcome'[s] = "failure" <=> MustFail(query[s]) \/ Calls(s, {"duplicate"})
    <2>1. CASE r = s
      BY <1>4, <2>1, StatementAtOnce
    <2>2. CASE r # s
      <3>1. Idle /\ stage' = [stage EXCEPT ![r] = "run"] /\ DOMAIN stage = Sessions
        BY <1>4, Alone
      <3>2. stage'[s] = stage[s] /\ ~Changing(s)
        BY <2>2, <3>1 DEF Idle
      <3>3. QED
        BY <3>2
    <2>3. QED
      BY <2>1, <2>2
  <1>5. ASSUME NEW th \in Threads, Step(th)
        PROVE outcome'[s] = "failure" <=> MustFail(query[s]) \/ Calls(s, {"duplicate"})
    <2>1. phase' # "down"
      BY <1>5 DEF Step, AllGone
    <2>2. stage' = stage /\ s \in Threads
      BY <1>5, <2>1 DEF Step, handlerVars, Threads
    <2>3. Changing(s)
      BY <2>2
    <2>4. Goes(th)
      BY <1>1, <1>5, <2>1, StepKeeps DEF CatalogInv
    <2>5. th = s
      BY <2>2, <2>3, <2>4 DEF Goes, Changing
    <2>6. QED
      BY <1>1, <1>5, <2>1, <2>5, StatementEnds
  <1>6. QED
    BY <1>2, <1>3, <1>4, <1>5 DEF Next

\* A DDL statement that ends while the server is up answers failure exactly when a check of SmManager,
\* RmManager or IxManager refuses it (a table or an index that is there or is not, a column that is not,
\* the size of a record or of a key), a file of the name it would create is there (left behind by a
\* CREATE that did not come to its end, or that of an index with the same ix_name), or create_index
\* met a duplicate.  So no statement breaks a later one but in these ways.
THEOREM DdlOutcomeAlways == Spec => DdlOutcome
  <1>1. ASSUME ServerInv, CatalogInv, Next
        PROVE \A s \in Sessions :
                 (/\ ~broken /\ ~tainted /\ phase = "up"
                  /\ stage'[s] = "run" /\ prog'[s] = <<>> /\ (stage[s] = "plan" \/ Changing(s)))
                 => (outcome'[s] = "failure" <=> MustFail(query[s]) \/ Calls(s, {"duplicate"}))
    BY <1>1, OutcomeOf
  <1>2. ServerInv /\ CatalogInv /\ [Next]_vars =>
           [\A s \in Sessions :
               (/\ ~broken /\ ~tainted /\ phase = "up"
                /\ stage'[s] = "run" /\ prog'[s] = <<>> /\ (stage[s] = "plan" \/ Changing(s)))
               => (outcome'[s] = "failure" <=> MustFail(query[s]) \/ Calls(s, {"duplicate"}))]_vars
    BY <1>1
  <1>3. QED
    BY <1>2, CatalogInvariant, PTL DEF DdlOutcome, Spec

=============================================================================
