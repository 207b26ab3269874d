---------------------------- MODULE ServerProofs ----------------------------
(***************************************************************************)
(* Proofs about Server, for any tables, indexes, clients and sessions: a   *)
(* thread serves the connection it was created for and runs the statement  *)
(* it read.  Files and sockets share the descriptors, so this rests on the *)
(* disk manager and the kernel agreeing on who has which.                  *)
(***************************************************************************)
EXTENDS Server, TLAPS, FiniteSetTheorems, WellFoundedInduction

Catalogs == [tabs : SUBSET TableNames, ixs : SUBSET IndexNames]

\* The calls of the sessions, of a start and of a shutdown.
TableCall == [op : {"create", "destroy", "open", "header", "close", "add_table", "open_file",
                    "close_file", "remove_table"}, name : TableNames]
IndexFileCall == [op : {"create", "destroy", "open", "check_length", "header", "number", "close",
                        "open_index", "register", "close_index"}, name : IndexNames]
IndexCall == IndexFileCall
             \cup [op : {"fill", "add_index", "remove_index", "duplicate"}, name : IndexNames]
FlushCall == [op : {"truncate", "write_meta"}, name : {"meta"}]
DropLoop == [op : {"for_each"}, names : SUBSET IndexNames, body : {"destroy_index"}]
SessionCall == TableCall \cup IndexCall \cup FlushCall \cup DropLoop

StartLoop == [op : {"for_each"}, names : SUBSET TableNames, body : {"open_table"}]
             \cup [op : {"for_each"}, names : SUBSET IndexNames, body : {"open_index", "rebuild_index"}]
OpenCall == TableCall \cup IndexFileCall \cup FlushCall \cup StartLoop
            \cup [op : {"create", "open"}, name : {"log"}] \cup [op : {"mkdir"}, name : {"meta"}]
LastCall == {Call("load_meta", "meta"), Call("serve", "log")}

CloseCall == FlushCall
             \cup [op : {"for_each"}, names : SUBSET TableNames, body : {"shut_file"}]
             \cup [op : {"for_each"}, names : SUBSET IndexNames, body : {"shut_index"}]
             \cup [op : {"shut_file"}, name : TableNames] \cup [op : {"shut_index"}, name : IndexNames]
             \cup [op : {"clear", "exit"}, name : {"log"}]

\* A start ends with reading db.meta, which gives it new calls, or with serving.
IsStart(calls) ==
    /\ calls \in Seq(OpenCall \cup LastCall) /\ calls # <<>>
    /\ \A k \in 1..Len(calls) : calls[k] \in LastCall <=> k = Len(calls)

\* Two indexes whose files would have the same name do not both have one.
OneFile ==
    \A n \in IndexNames : \A p \in SameFile(n) \ {n} : files[n] = "none" \/ files[p] = "none"

TypeInv ==
    /\ phase \in {"down", "starting", "up", "closing"}
    /\ files \in [Paths -> {"none", "empty", "ready"}]
    /\ meta \in [state : {"none", "torn", "good"}, cat : Catalogs]
    /\ db \in Catalogs
    /\ DOMAIN fhs \subseteq TableNames /\ DOMAIN ihs \subseteq IndexNames
    /\ kernel \in [Fds -> Paths \cup Clients \cup {"free", "listen"}]
    /\ OneFile

ProgInv ==
    /\ prog \in [Threads -> Seq(OpenCall \cup SessionCall \cup CloseCall \cup LastCall)]
    /\ phase \in {"down", "up"} => prog["main"] = <<>>
    /\ phase = "starting" => IsStart(prog["main"])
    /\ phase = "closing" => prog["main"] \in Seq(CloseCall)
    /\ \A s \in Sessions : prog[s] \in Seq(SessionCall)
    /\ phase \in {"down", "starting"} => \A s \in Sessions : prog[s] = <<>>

\* The disk manager knows every file behind a descriptor, under that descriptor, and no other.
FdInv ==
    /\ DOMAIN path2fd \subseteq Paths
    /\ \A p \in DOMAIN path2fd : path2fd[p] \in Fds /\ kernel[path2fd[p]] = p
    /\ \A fd \in Fds : kernel[fd] \in Paths => kernel[fd] \in DOMAIN path2fd /\ path2fd[kernel[fd]] = fd
    /\ \A fd, g \in Fds : kernel[fd] = "listen" /\ kernel[g] = "listen" => fd = g
    /\ phase \in {"down", "starting"} => \A fd \in Fds : kernel[fd] # "listen"

\* A client has one connection at most: in the backlog, or behind one descriptor.
QueueInv ==
    /\ client \in [Clients -> {"out", "queued", "in", "gone"}]
    /\ phase \in {"down", "starting"} => \A c \in Clients : client[c] = "out"
    /\ backlog \in Seq(Clients)
    /\ \A i \in DOMAIN backlog : client[backlog[i]] = "queued"
    /\ \A i, j \in DOMAIN backlog : backlog[i] = backlog[j] => i = j
    /\ \A fd \in Fds : kernel[fd] \in Clients => client[kernel[fd]] \in {"in", "gone"}
    /\ \A fd, g \in Fds : kernel[fd] \in Clients /\ kernel[fd] = kernel[g] => fd = g

Serving(s) == stage[s] \notin {"free", "born"}

\* The mutex keeps the variable sockfd for the one thread that has not read it yet, and every
\* thread has a descriptor of its own.
SocketInv ==
    /\ stage \in [Sessions -> {"free", "born", "reading", "lex", "parsed", "failed", "plan", "run", "done"}]
    /\ acc \in {"lock", "accept", "spawn"} /\ held \in BOOLEAN
    /\ fdOf \in [Sessions -> Fds \cup {0}] /\ conn \in [Sessions -> Clients \cup {"none"}]
    /\ acc # "lock" => held /\ \A s \in Sessions : stage[s] # "born"
    /\ \A s, r \in Sessions : stage[s] = "born" => held /\ (stage[r] = "born" => r = s)
    /\ acc = "spawn" => sockfd \in Fds /\ kernel[sockfd] \in Clients
    /\ \A s \in Sessions : stage[s] = "born" =>
          sockfd \in Fds /\ kernel[sockfd] = conn[s] /\ conn[s] \in Clients
    /\ \A s, r \in Sessions : Serving(r) /\ (acc = "spawn" \/ stage[s] = "born") => fdOf[r] # sockfd
    /\ \A s \in Sessions : Serving(s) =>
          fdOf[s] \in Fds /\ kernel[fdOf[s]] = conn[s] /\ conn[s] \in Clients
    /\ \A s, r \in Sessions : Serving(s) /\ Serving(r) /\ s # r => fdOf[s] # fdOf[r]

\* The parse tree is that of the thread that holds buffer_mutex; an empty one of a statement, and
\* the lexer in a comment, go back to somebody who left one open.
ParseInv ==
    /\ ask \in [Clients -> Statements \cup {NoStatement}]
    /\ data_recv \in [Sessions -> Statements \cup {NoStatement}]
    /\ query \in [Sessions -> Statements \cup {NoStatement}]
    /\ lexer \in {"initial", "comment"} /\ commented \in BOOLEAN
    /\ \A c \in Clients : ask[c].op = "open_comment" => commented
    /\ \A s \in Sessions : data_recv[s].op = "open_comment" => commented
    /\ lexer = "comment" => commented
    /\ \A s \in Sessions : stage[s] \in {"parsed", "failed"} => buffer = s
    /\ \A s \in Sessions : stage[s] = "parsed" =>
          \/ parse_tree = data_recv[s] /\ data_recv[s] \in Ddl
          \/ parse_tree = NoStatement /\ (data_recv[s] \in Ddl => commented)
    /\ \A s \in Sessions : stage[s] = "failed" => data_recv[s] \notin Ddl
    /\ \A s \in Sessions : stage[s] \in {"plan", "run"} => query[s] = data_recv[s] /\ query[s] \in Ddl
    /\ \A s \in Sessions : (stage[s] = "done" /\ data_recv[s] \in Ddl) => commented

ServerInv == TypeInv /\ ProgInv /\ FdInv /\ QueueInv /\ SocketInv /\ ParseInv

-----------------------------------------------------------------------------
\* The calls of every operation are calls of its kind.

LEMMA TableCalls ==
    ASSUME NEW t \in TableNames
    PROVE  /\ Call("create", t) \in TableCall /\ Call("destroy", t) \in TableCall
           /\ Call("open", t) \in TableCall /\ Call("header", t) \in TableCall
           /\ Call("close", t) \in TableCall /\ Call("add_table", t) \in TableCall
           /\ Call("open_file", t) \in TableCall /\ Call("close_file", t) \in TableCall
           /\ Call("remove_table", t) \in TableCall
BY DEF Call, TableCall

LEMMA IndexCalls ==
    ASSUME NEW i \in IndexNames
    PROVE  /\ Call("create", i) \in IndexCall /\ Call("destroy", i) \in IndexCall
           /\ Call("open", i) \in IndexCall /\ Call("header", i) \in IndexCall
           /\ Call("close", i) \in IndexCall /\ Call("check_length", i) \in IndexCall
           /\ Call("number", i) \in IndexCall /\ Call("open_index", i) \in IndexCall
           /\ Call("fill", i) \in IndexCall /\ Call("add_index", i) \in IndexCall
           /\ Call("register", i) \in IndexCall /\ Call("close_index", i) \in IndexCall
           /\ Call("remove_index", i) \in IndexCall /\ Call("duplicate", i) \in IndexCall
BY DEF Call, IndexCall, IndexFileCall

LEMMA IndexOpens ==
    ASSUME NEW i \in IndexNames
    PROVE  /\ Call("create", i) \in IndexFileCall /\ Call("destroy", i) \in IndexFileCall
           /\ Call("open", i) \in IndexFileCall /\ Call("header", i) \in IndexFileCall
           /\ Call("close", i) \in IndexFileCall /\ Call("check_length", i) \in IndexFileCall
           /\ Call("number", i) \in IndexFileCall /\ Call("open_index", i) \in IndexFileCall
           /\ Call("register", i) \in IndexFileCall /\ Call("close_index", i) \in IndexFileCall
BY DEF Call, IndexFileCall

LEMMA FlushCalls ==
    /\ Call("truncate", "meta") \in FlushCall /\ Call("write_meta", "meta") \in FlushCall
    /\ FlushMeta \in Seq(FlushCall)
BY DEF Call, FlushCall, FlushMeta

LEMMA SeqWider ==
    ASSUME NEW S, NEW T, S \subseteq T, NEW p \in Seq(S) PROVE p \in Seq(T)
OBVIOUS

LEMMA Joined ==
    ASSUME NEW S, NEW p \in Seq(S), NEW q \in Seq(S) PROVE p \o q \in Seq(S)
OBVIOUS

LEMMA IndexFileCalls ==
    ASSUME NEW i \in IndexNames
    PROVE  /\ DestroyIndex(i) \in Seq(IndexFileCall) /\ NewIndexFile(i) \in Seq(IndexFileCall)
           /\ RebuildIndex(i) \in Seq(IndexFileCall)
  <1>1. DestroyIndex(i) \in Seq(IndexFileCall)
    BY IndexOpens DEF DestroyIndex
  <1>2. NewIndexFile(i) \in Seq(IndexFileCall)
    BY IndexOpens DEF NewIndexFile
  <1>3. <<Call("register", i)>> \in Seq(IndexFileCall)
    BY IndexOpens
  <1>4. DestroyIndex(i) \o NewIndexFile(i) \in Seq(IndexFileCall)
    BY <1>1, <1>2, Joined
  <1>5. QED
    BY <1>1, <1>2, <1>3, <1>4, Joined DEF RebuildIndex

LEMMA SessionCalls ==
    ASSUME db \in Catalogs, NEW stmt \in Ddl
    PROVE  CallsOf(stmt) \in Seq(SessionCall)
  <1> USE DEF SessionCall
  <1>1. FlushMeta \in Seq(SessionCall)
    BY FlushCalls, SeqWider
  <1>2. CASE stmt.op = "create_table"
    <2>1. stmt.name \in TableNames /\ CallsOf(stmt) = CreateTable(stmt.name)
      BY <1>2 DEF Ddl, CallsOf
    <2>2. <<Call("create", stmt.name), Call("open", stmt.name), Call("header", stmt.name),
            Call("close", stmt.name), Call("add_table", stmt.name), Call("open_file", stmt.name)>>
          \in Seq(SessionCall)
      BY <2>1, TableCalls
    <2>3. QED
      BY <2>1, <2>2, <1>1, Joined DEF CreateTable
  <1>3. CASE stmt.op = "drop_table"
    <2>1. stmt.name \in TableNames /\ CallsOf(stmt) = DropTable(stmt.name)
      BY <1>3 DEF Ddl, CallsOf
    <2>2. ForEach({i \in db.ixs : TableOf[i] = stmt.name}, "destroy_index") \in SessionCall
      BY DEF ForEach, DropLoop, Catalogs
    <2>3. <<ForEach({i \in db.ixs : TableOf[i] = stmt.name}, "destroy_index"),
            Call("close_file", stmt.name), Call("destroy", stmt.name), Call("remove_table", stmt.name)>>
          \in Seq(SessionCall)
      BY <2>1, <2>2, TableCalls
    <2>4. QED
      BY <2>1, <2>3, <1>1, Joined DEF DropTable
  <1>4. CASE stmt.op = "create_index"
    <2>1. stmt.name \in IndexNames /\ CallsOf(stmt) = CreateIndex(stmt.name)
      BY <1>4 DEF Ddl, CallsOf
    <2>2. NewIndexFile(stmt.name) \in Seq(SessionCall)
      BY <2>1, IndexFileCalls, SeqWider DEF IndexCall
    <2>3. <<Call("fill", stmt.name), Call("add_index", stmt.name), Call("register", stmt.name)>>
          \in Seq(SessionCall)
      BY <2>1, IndexCalls
    <2>4. NewIndexFile(stmt.name) \o <<Call("fill", stmt.name), Call("add_index", stmt.name),
                                       Call("register", stmt.name)>> \in Seq(SessionCall)
      BY <2>2, <2>3, Joined
    <2>5. QED
      BY <2>1, <2>4, <1>1, Joined DEF CreateIndex
  <1>5. CASE stmt.op = "drop_index"
    <2>1. stmt.name \in IndexNames /\ CallsOf(stmt) = DropIndex(stmt.name)
      BY <1>5 DEF Ddl, CallsOf
    <2>2. DestroyIndex(stmt.name) \in Seq(SessionCall)
      BY <2>1, IndexFileCalls, SeqWider DEF IndexCall
    <2>3. <<Call("remove_index", stmt.name)>> \in Seq(SessionCall)
      BY <2>1, IndexCalls
    <2>4. DestroyIndex(stmt.name) \o <<Call("remove_index", stmt.name)>> \in Seq(SessionCall)
      BY <2>2, <2>3, Joined
    <2>5. QED
      BY <2>1, <2>4, <1>1, Joined DEF DropIndex
  <1>6. CASE stmt.op \in {"create_wide_table", "index_unknown_column", "show_index"}
    BY <1>6 DEF CallsOf
  <1>7. QED
    BY <1>2, <1>3, <1>4, <1>5, <1>6 DEF Ddl

LEMMA NotLast ==
    ASSUME NEW c \in OpenCall PROVE c \notin LastCall
BY DEF OpenCall, LastCall, TableCall, IndexCall, IndexFileCall, FlushCall, StartLoop, Call

\* Opening calls in front of a start, or in place of the first call of one, leave it a start.
LEMMA StartGrows ==
    ASSUME NEW p \in Seq(OpenCall), NEW q, IsStart(q)
    PROVE  IsStart(p \o q)
  <1>1. q \in Seq(OpenCall \cup LastCall) /\ Len(q) \in Nat \ {0}
    BY DEF IsStart
  <1>2. p \o q \in Seq(OpenCall \cup LastCall) /\ p \o q # <<>> /\ Len(p \o q) = Len(p) + Len(q)
    BY <1>1
  <1>3. ASSUME NEW k \in 1..Len(p \o q)
        PROVE (p \o q)[k] \in LastCall <=> k = Len(p \o q)
    <2>1. CASE k <= Len(p)
      <3>1. (p \o q)[k] = p[k] /\ p[k] \in OpenCall
        BY <2>1, <1>1
      <3>2. QED
        BY <3>1, <2>1, <1>1, <1>2, NotLast
    <2>2. CASE k > Len(p)
      <3>1. (p \o q)[k] = q[k - Len(p)] /\ k - Len(p) \in 1..Len(q)
        BY <2>2, <1>1, <1>2
      <3>2. q[k - Len(p)] \in LastCall <=> k - Len(p) = Len(q)
        BY <3>1 DEF IsStart
      <3>3. QED
        BY <3>1, <3>2, <1>1, <1>2
    <2>3. QED
      BY <2>1, <2>2
  <1>4. QED
    BY <1>2, <1>3 DEF IsStart

LEMMA StartShrinks ==
    ASSUME NEW q, IsStart(q), Head(q) \notin LastCall
    PROVE  IsStart(Tail(q))
  <1>1. q \in Seq(OpenCall \cup LastCall) /\ Len(q) \in Nat \ {0}
    BY DEF IsStart
  <1>2. Len(q) # 1
    BY <1>1 DEF IsStart
  <1>3. Tail(q) \in Seq(OpenCall \cup LastCall) /\ Len(Tail(q)) = Len(q) - 1 /\ Tail(q) # <<>>
    <2>1. Tail(q) \in Seq(OpenCall \cup LastCall) /\ Len(Tail(q)) = Len(q) - 1
      BY <1>1
    <2>2. ASSUME Tail(q) = <<>> PROVE FALSE
      <3>1. Len(Tail(q)) = Len(<<>>)
        BY <2>2
      <3>2. QED
        BY <3>1, <2>1, <1>1, <1>2
    <2>3. QED
      BY <2>1, <2>2
  <1>4. ASSUME NEW k \in 1..Len(Tail(q))
        PROVE Tail(q)[k] \in LastCall <=> k = Len(Tail(q))
    <2>1. Tail(q)[k] = q[k + 1]
      BY <1>1, <1>3
    <2>2. k + 1 \in 1..Len(q)
      BY <1>1, <1>3
    <2>3. q[k + 1] \in LastCall <=> k + 1 = Len(q)
      BY <2>2 DEF IsStart
    <2>4. k + 1 = Len(q) <=> k = Len(Tail(q))
      BY <1>1, <1>3
    <2>5. QED
      BY <2>1, <2>3, <2>4
  <1>5. QED
    BY <1>3, <1>4 DEF IsStart


LEMMA OnlyLast ==
    ASSUME NEW c \in LastCall PROVE IsStart(<<c>>)
  <1>1. <<c>> \in Seq(OpenCall \cup LastCall) /\ <<c>> # <<>> /\ Len(<<c>>) = 1
    OBVIOUS
  <1>2. \A k \in 1..Len(<<c>>) : k = 1 /\ <<c>>[k] = c
    BY <1>1
  <1>3. QED
    BY <1>1, <1>2 DEF IsStart

LEMMA StartCalls ==
    /\ \A cat \in Catalogs : IsStart(OpenDb(cat))
    /\ IsStart(<<>> \o <<Call("load_meta", "meta")>>)
    /\ IsStart(CreateDb \o <<Call("load_meta", "meta")>>)
  <1>1. ASSUME NEW cat \in Catalogs PROVE IsStart(OpenDb(cat))
    <2>1. /\ ForEach(cat.tabs, "open_table") \in OpenCall
          /\ ForEach(cat.ixs, "rebuild_index") \in OpenCall
      BY DEF ForEach, OpenCall, StartLoop, Catalogs
    <2>2. Call("open", "log") \in OpenCall
      BY DEF Call, OpenCall
    <2> DEFINE opens == <<ForEach(cat.tabs, "open_table"), Call("open", "log"),
                          ForEach(cat.ixs, "rebuild_index")>>
    <2>3. opens \in Seq(OpenCall)
      BY <2>1, <2>2
    <2>4. IsStart(<<Call("serve", "log")>>)
      BY OnlyLast DEF LastCall
    <2>5. OpenDb(cat) = opens \o <<Call("serve", "log")>>
      BY DEF OpenDb
    <2>6. QED
      BY <2>3, <2>4, <2>5, StartGrows
  <1>2. IsStart(<<Call("load_meta", "meta")>>)
    BY OnlyLast DEF LastCall
  <1>3. <<>> \in Seq(OpenCall)
    OBVIOUS
  <1>4. CreateDb \in Seq(OpenCall)
    <2>1. /\ Call("mkdir", "meta") \in OpenCall /\ Call("truncate", "meta") \in OpenCall
          /\ Call("create", "log") \in OpenCall /\ Call("write_meta", "meta") \in OpenCall
      BY DEF Call, OpenCall, FlushCall
    <2>2. QED
      BY <2>1 DEF CreateDb
  <1>5. QED
    BY <1>1, <1>2, <1>3, <1>4, StartGrows

LEMMA CloseCalls ==
    ASSUME TypeInv PROVE CloseDb \in Seq(CloseCall)
  <1>1. /\ ForEach(DOMAIN fhs, "shut_file") \in CloseCall
        /\ ForEach(DOMAIN ihs, "shut_index") \in CloseCall
    BY DEF ForEach, CloseCall, TypeInv
  <1>2. Call("clear", "log") \in CloseCall /\ Call("exit", "log") \in CloseCall
    BY DEF Call, CloseCall
  <1>3. <<ForEach(DOMAIN fhs, "shut_file"), ForEach(DOMAIN ihs, "shut_index"),
          Call("clear", "log"), Call("exit", "log")>> \in Seq(CloseCall)
    BY <1>1, <1>2
  <1>4. FlushMeta \in Seq(CloseCall)
    BY FlushCalls, SeqWider DEF CloseCall
  <1>5. QED
    BY <1>3, <1>4, Joined DEF CloseDb

\* One round of a loop, and the loop over the names that are left.
LEMMA SessionRounds ==
    ASSUME NEW c \in SessionCall, c.op = "for_each", NEW n \in c.names
    PROVE  /\ Body(c.body, n) \in Seq(SessionCall)
           /\ ForEach(c.names \ {n}, c.body) \in SessionCall
  <1>1. c \in DropLoop
    BY DEF SessionCall, TableCall, IndexCall, IndexFileCall, FlushCall
  <1>2. n \in IndexNames /\ c.body = "destroy_index" /\ c.names \in SUBSET IndexNames
    BY <1>1 DEF DropLoop
  <1>3. Body(c.body, n) = DestroyIndex(n)
    BY <1>2 DEF Body
  <1>4. DestroyIndex(n) \in Seq(SessionCall)
    BY <1>2, IndexFileCalls, SeqWider DEF SessionCall, IndexCall
  <1>5. ForEach(c.names \ {n}, c.body) \in DropLoop
    BY <1>2 DEF ForEach, DropLoop
  <1>6. QED
    BY <1>3, <1>4, <1>5 DEF SessionCall

LEMMA StartRounds ==
    ASSUME db \in Catalogs, NEW c \in OpenCall, c.op = "for_each", NEW n \in c.names
    PROVE  /\ Body(c.body, n) \in Seq(OpenCall)
           /\ ForEach(c.names \ {n}, c.body) \in OpenCall
  <1>1. c \in StartLoop
    BY DEF OpenCall, TableCall, IndexCall, IndexFileCall, FlushCall
  <1>2. ForEach(c.names \ {n}, c.body) \in StartLoop
    BY <1>1 DEF ForEach, StartLoop
  <1>3. CASE c.body = "open_table"
    <2>1. n \in TableNames
      BY <1>1, <1>3 DEF StartLoop
    <2>2. ForEach({i \in db.ixs : TableOf[i] = n}, "open_index") \in OpenCall
      BY DEF ForEach, OpenCall, StartLoop, Catalogs
    <2>3. Call("open_file", n) \in OpenCall
      BY <2>1, TableCalls DEF OpenCall
    <2>4. QED
      BY <1>2, <1>3, <2>2, <2>3 DEF Body, OpenCall
  <1>4. CASE c.body = "open_index"
    <2>1. n \in IndexNames
      BY <1>1, <1>4 DEF StartLoop
    <2>2. Call("open_index", n) \in OpenCall /\ Call("register", n) \in OpenCall
      BY <2>1, IndexOpens DEF OpenCall
    <2>3. QED
      BY <1>2, <1>4, <2>2 DEF Body, OpenCall
  <1>5. CASE c.body = "rebuild_index"
    <2>1. n \in IndexNames
      BY <1>1, <1>5 DEF StartLoop
    <2>2. RebuildIndex(n) \in Seq(OpenCall)
      BY <2>1, IndexFileCalls, SeqWider DEF OpenCall
    <2>3. QED
      BY <1>2, <1>5, <2>2 DEF Body, OpenCall
  <1>6. QED
    BY <1>1, <1>3, <1>4, <1>5 DEF StartLoop

LEMMA CloseRounds ==
    ASSUME NEW c \in CloseCall, c.op = "for_each", NEW n \in c.names
    PROVE  /\ Body(c.body, n) \in Seq(CloseCall)
           /\ ForEach(c.names \ {n}, c.body) \in CloseCall
  <1>1. \/ c \in [op : {"for_each"}, names : SUBSET TableNames, body : {"shut_file"}]
        \/ c \in [op : {"for_each"}, names : SUBSET IndexNames, body : {"shut_index"}]
    BY DEF CloseCall, FlushCall
  <1>2. ForEach(c.names \ {n}, c.body) \in CloseCall
    BY <1>1 DEF ForEach, CloseCall
  <1>3. Body(c.body, n) = <<Call(c.body, n)>>
    BY <1>1 DEF Body
  <1>4. Call(c.body, n) \in CloseCall
    BY <1>1 DEF Call, CloseCall
  <1>5. QED
    BY <1>2, <1>3, <1>4


-----------------------------------------------------------------------------
\* Descriptors

LEMMA LeastOf ==
    ASSUME NEW T \in SUBSET Nat, T # {} PROVE \E m \in T : \A n \in T : m <= n
  <1>1. PICK x \in T : \A y \in T : ~(<<y, x>> \in OpToRel(<, Nat))
    BY NatLessThanWellFounded, WFMin
  <1>2. \A y \in T : ~(y < x)
    BY <1>1 DEF OpToRel
  <1>3. QED
    BY <1>2

\* No two descriptors belong to one file or client, and there are more descriptors than files and
\* clients: one is always free, and the kernel gives out the lowest.
LEMMA LowestIsFree ==
    ASSUME TypeInv, FdInv, QueueInv
    PROVE  LowestFree \in Fds /\ kernel[LowestFree] = "free"
  <1>1. \E fd \in Fds : kernel[fd] = "free"
    <2>1. SUFFICES ASSUME \A fd \in Fds : kernel[fd] # "free" PROVE FALSE
      OBVIOUS
    <2> DEFINE Owners == (Paths \cup Clients) \cup {"listen"}
    <2>2. kernel \in [Fds -> Owners]
      BY <2>1 DEF TypeInv
    <2>3. IsFiniteSet(Paths) /\ IsFiniteSet(Clients)
      <3>1. IsFiniteSet(TableNames \cup IndexNames)
        BY CatalogAssumption, FS_Union
      <3>2. QED
        BY <3>1, FS_AddElement, ServerAssumption DEF Paths
    <2>4. /\ IsFiniteSet(Owners)
          /\ Cardinality(Owners) <= Cardinality(Paths) + Cardinality(Clients) + 1
      <3>1. /\ IsFiniteSet(Paths \cup Clients) /\ IsFiniteSet(Paths \cap Clients)
            /\ Cardinality(Paths \cup Clients) =
                 Cardinality(Paths) + Cardinality(Clients) - Cardinality(Paths \cap Clients)
        BY <2>3, FS_Union, FS_Intersection
      <3>2. /\ IsFiniteSet(Owners)
            /\ Cardinality(Owners) = IF "listen" \in Paths \cup Clients THEN Cardinality(Paths \cup Clients)
                                     ELSE Cardinality(Paths \cup Clients) + 1
        BY <3>1, FS_AddElement
      <3>3. /\ Cardinality(Paths) \in Nat /\ Cardinality(Clients) \in Nat
            /\ Cardinality(Paths \cap Clients) \in Nat
        BY <2>3, <3>1, FS_CardinalityType
      <3>4. QED
        BY <3>1, <3>2, <3>3
    <2>5. IsFiniteSet(Fds) /\ Cardinality(Fds) = MaxFd
      <3>1. MaxFd \in Nat \ {0}
        BY CatalogAssumption
      <3>2. QED
        BY <3>1, FS_Interval DEF Fds
    <2>6. Cardinality(Owners) < Cardinality(Fds)
      <3>1. /\ Cardinality(Owners) \in Nat /\ Cardinality(Paths) \in Nat /\ Cardinality(Clients) \in Nat
        BY <2>3, <2>4, FS_CardinalityType
      <3>2. QED
        BY <3>1, <2>4, <2>5, ServerAssumption, CatalogAssumption
    <2>7. PICK fd, g \in Fds : fd # g /\ kernel[fd] = kernel[g]
      <3> HIDE DEF Owners
      <3>1. QED
        BY <2>2, <2>4, <2>5, <2>6, FS_PigeonHole
    <2>8. CASE kernel[fd] \in Paths
      BY <2>7, <2>8 DEF FdInv
    <2>9. CASE kernel[fd] \in Clients
      BY <2>7, <2>9 DEF QueueInv
    <2>10. CASE kernel[fd] = "listen"
      BY <2>7, <2>10 DEF FdInv
    <2>11. QED
      BY <2>2, <2>8, <2>9, <2>10
  <1> DEFINE F == {fd \in Fds : kernel[fd] = "free"}
  <1>2. F \in SUBSET Nat /\ F # {}
    BY <1>1 DEF Fds
  <1>3. \E fd \in F : \A g \in F : fd <= g
    BY <1>2, LeastOf
  <1>4. \E fd \in Fds : kernel[fd] = "free" /\ \A g \in Fds : kernel[g] = "free" => fd <= g
    BY <1>3
  <1>5. QED
    BY <1>4 DEF LowestFree

LEMMA NamesApart ==
    /\ \A p \in Paths : p \notin Clients /\ p # "free" /\ p # "listen"
    /\ \A c \in Clients : c \notin Paths /\ c # "free" /\ c # "listen" /\ c # "none"
    /\ "free" \notin Paths \cup Clients /\ "listen" \notin Paths \cup Clients
    /\ "main" \notin Sessions
BY CatalogAssumption, ServerAssumption DEF Paths

\* What a step of the catalog may do to the descriptors of connections: nothing.
SocketsKept ==
    \A fd \in Fds : kernel[fd] \in Clients \/ kernel'[fd] \in Clients => kernel'[fd] = kernel[fd]

\* A file that is not open gets a free descriptor.
LEMMA OpenKeeps ==
    ASSUME TypeInv, FdInv, NEW p \in Paths, p \notin DOMAIN path2fd,
           NEW fd \in Fds, kernel[fd] = "free",
           path2fd' = With(path2fd, p, fd), kernel' = [kernel EXCEPT ![fd] = p], phase' = phase
    PROVE  FdInv' /\ SocketsKept /\ kernel' \in [Fds -> Paths \cup Clients \cup {"free", "listen"}]
  <1>1. kernel \in [Fds -> Paths \cup Clients \cup {"free", "listen"}]
    BY DEF TypeInv
  <1>2. /\ DOMAIN path2fd' = DOMAIN path2fd \cup {p} /\ path2fd'[p] = fd
        /\ \A q \in DOMAIN path2fd : q # p => path2fd'[q] = path2fd[q]
    BY DEF With
  <1>3. kernel'[fd] = p /\ \A g \in Fds : g # fd => kernel'[g] = kernel[g]
    BY <1>1
  <1>4. DOMAIN path2fd' \subseteq Paths
    BY <1>2 DEF FdInv
  <1>5. ASSUME NEW q \in DOMAIN path2fd' PROVE path2fd'[q] \in Fds /\ kernel'[path2fd'[q]] = q
    <2>1. CASE q = p
      BY <2>1, <1>2, <1>3
    <2>2. CASE q # p
      <3>1. q \in DOMAIN path2fd /\ path2fd'[q] = path2fd[q]
        BY <2>2, <1>2
      <3>2. path2fd[q] \in Fds /\ kernel[path2fd[q]] = q /\ q \in Paths
        BY <3>1 DEF FdInv
      <3>3. path2fd[q] # fd
        BY <3>2, NamesApart
      <3>4. QED
        BY <3>1, <3>2, <3>3, <1>3
    <2>3. QED
      BY <2>1, <2>2
  <1>6. ASSUME NEW g \in Fds, kernel'[g] \in Paths
        PROVE kernel'[g] \in DOMAIN path2fd' /\ path2fd'[kernel'[g]] = g
    <2>1. CASE g = fd
      BY <2>1, <1>2, <1>3
    <2>2. CASE g # fd
      <3>1. kernel'[g] = kernel[g] /\ kernel[g] \in DOMAIN path2fd /\ path2fd[kernel[g]] = g
        BY <2>2, <1>3, <1>6 DEF FdInv
      <3>2. kernel[g] # p
        BY <3>1
      <3>3. QED
        BY <3>1, <3>2, <1>2
    <2>3. QED
      BY <2>1, <2>2
  <1>7. \A g \in Fds : kernel'[g] = "listen" => kernel[g] = "listen"
    BY <1>3, NamesApart
  <1>8. /\ \A g, h \in Fds : kernel'[g] = "listen" /\ kernel'[h] = "listen" => g = h
        /\ phase' \in {"down", "starting"} => \A g \in Fds : kernel'[g] # "listen"
    BY <1>7 DEF FdInv
  <1>9. SocketsKept
    BY <1>3, NamesApart DEF SocketsKept
  <1>10. FdInv'
    BY <1>4, <1>5, <1>6, <1>8 DEF FdInv
  <1>11. QED
    BY <1>1, <1>9, <1>10


\* Closing a descriptor the disk manager knows closes a file.
LEMMA CloseKeeps ==
    ASSUME TypeInv, FdInv, NEW th, NEW fd, IsOpen(fd), Closes(th, fd), phase' = phase
    PROVE  /\ FdInv' /\ SocketsKept
           /\ kernel' \in [Fds -> Paths \cup Clients \cup {"free", "listen"}]
  <1>1. kernel \in [Fds -> Paths \cup Clients \cup {"free", "listen"}]
    BY DEF TypeInv
  <1>2. PICK p \in DOMAIN path2fd : path2fd[p] = fd
    BY DEF IsOpen
  <1>3. fd \in Fds /\ kernel[fd] = p /\ p \in Paths
    BY <1>2 DEF FdInv
  <1>4. path2fd' = Without(path2fd, p) /\ kernel' = [kernel EXCEPT ![fd] = "free"]
    BY <1>3 DEF Closes
  <1>5. DOMAIN path2fd' = DOMAIN path2fd \ {p} /\ \A q \in DOMAIN path2fd' : path2fd'[q] = path2fd[q]
    BY <1>4 DEF Without
  <1>6. kernel'[fd] = "free" /\ \A g \in Fds : g # fd => kernel'[g] = kernel[g]
    BY <1>1, <1>3, <1>4
  <1>7. DOMAIN path2fd' \subseteq Paths
    BY <1>5 DEF FdInv
  <1>8. ASSUME NEW q \in DOMAIN path2fd' PROVE path2fd'[q] \in Fds /\ kernel'[path2fd'[q]] = q
    <2>1. q # p /\ path2fd'[q] = path2fd[q] /\ path2fd[q] \in Fds /\ kernel[path2fd[q]] = q
      BY <1>5 DEF FdInv
    <2>2. path2fd[q] # fd
      BY <2>1, <1>3
    <2>3. QED
      BY <2>1, <2>2, <1>6
  <1>9. ASSUME NEW g \in Fds, kernel'[g] \in Paths
        PROVE kernel'[g] \in DOMAIN path2fd' /\ path2fd'[kernel'[g]] = g
    <2>1. g # fd
      BY <1>6, <1>9, NamesApart
    <2>2. kernel'[g] = kernel[g] /\ kernel[g] \in DOMAIN path2fd /\ path2fd[kernel[g]] = g
      BY <2>1, <1>6, <1>9 DEF FdInv
    <2>3. kernel[g] # p
      BY <2>1, <2>2, <1>2
    <2>4. QED
      BY <2>2, <2>3, <1>5
  <1>10. \A g \in Fds : kernel'[g] = "listen" => kernel[g] = "listen"
    BY <1>6
  <1>11. /\ \A g, h \in Fds : kernel'[g] = "listen" /\ kernel'[h] = "listen" => g = h
         /\ phase' \in {"down", "starting"} => \A g \in Fds : kernel'[g] # "listen"
    BY <1>10 DEF FdInv
  <1>12. SocketsKept
    BY <1>3, <1>6, NamesApart DEF SocketsKept
  <1>13. FdInv'
    BY <1>7, <1>8, <1>9, <1>11 DEF FdInv
  <1>14. QED
    BY <1>1, <1>4, <1>12, <1>13

-----------------------------------------------------------------------------
\* The programs of the threads

AnyCall == OpenCall \cup SessionCall \cup CloseCall \cup LastCall

\* A thread that has calls to make: main while the server starts or stops, a session while it is up.
LEMMA Running ==
    ASSUME TypeInv, ProgInv, NEW th \in Threads, prog[th] # <<>>
    PROVE  /\ prog[th] \in Seq(AnyCall) /\ Len(prog[th]) \in Nat \ {0} /\ Head(prog[th]) \in AnyCall
           /\ phase # "down"
           /\ th = "main" => phase \in {"starting", "closing"}
           /\ th # "main" => phase \in {"up", "closing"} /\ th \in Sessions
  <1>1. prog[th] \in Seq(AnyCall)
    BY DEF ProgInv, AnyCall
  <1>2. Len(prog[th]) \in Nat \ {0} /\ Head(prog[th]) \in AnyCall
    BY <1>1
  <1>3. QED
    BY <1>1, <1>2 DEF ProgInv, TypeInv, Threads

LEMMA HeadOf ==
    ASSUME NEW S, NEW p \in Seq(S), p # <<>>
    PROVE  Head(p) \in S /\ Tail(p) \in Seq(S) /\ Head(p) = p[1] /\ Len(p) \in Nat \ {0}
OBVIOUS

LEMMA LengthZero ==
    ASSUME NEW S, NEW p \in Seq(S), Len(p) = 0 PROVE p = <<>>
OBVIOUS

LEMMA TailOfOne ==
    ASSUME NEW S, NEW p \in Seq(S), Len(p) = 1 PROVE Tail(p) = <<>>
  <1>1. p # <<>>
    OBVIOUS
  <1>2. Tail(p) \in Seq(S) /\ Len(Tail(p)) = 0
    BY <1>1
  <1>3. QED
    BY <1>2, LengthZero

\* A call that does not change the phase is made, and the next one is due; or the thread gives up.
LEMMA ProgAdvances ==
    ASSUME TypeInv, ProgInv, NEW th \in Threads, prog[th] # <<>>, phase' = phase,
           NEW rest, prog' = [prog EXCEPT ![th] = rest],
           th = "main" /\ phase = "starting" => IsStart(rest),
           th = "main" /\ phase = "closing" => rest \in Seq(CloseCall),
           th # "main" => rest \in Seq(SessionCall)
    PROVE  ProgInv'
  <1>1. prog \in [Threads -> Seq(AnyCall)]
    BY DEF ProgInv, AnyCall
  <1>2. /\ th = "main" => phase \in {"starting", "closing"}
        /\ th # "main" => phase \in {"up", "closing"} /\ th \in Sessions
    BY Running
  <1>3. rest \in Seq(AnyCall)
    <2>1. CASE th = "main" /\ phase = "starting"
      <3>1. rest \in Seq(OpenCall \cup LastCall)
        BY <2>1 DEF IsStart
      <3>2. QED
        BY <3>1, SeqWider DEF AnyCall
    <2>2. CASE th = "main" /\ phase = "closing"
      BY <2>2, SeqWider DEF AnyCall
    <2>3. CASE th # "main"
      BY <2>3, SeqWider DEF AnyCall
    <2>4. QED
      BY <2>1, <2>2, <2>3, <1>2
  <1>4. prog' \in [Threads -> Seq(AnyCall)] /\ prog'[th] = rest
        /\ \A r \in Threads : r # th => prog'[r] = prog[r]
    BY <1>1, <1>3
  <1>5. "main" \in Threads /\ Sessions \subseteq Threads
    BY DEF Threads
  <1>6. CASE th = "main"
    <2>1. \A s \in Sessions : prog'[s] = prog[s]
      BY <1>4, <1>5, <1>6, NamesApart
    <2>2. QED
      BY <2>1, <1>2, <1>4, <1>6 DEF ProgInv, AnyCall
  <1>7. CASE th # "main"
    <2>1. prog'["main"] = prog["main"]
      BY <1>4, <1>5, <1>7
    <2>2. \A s \in Sessions : prog'[s] \in Seq(SessionCall)
      BY <1>4, <1>5, <1>7 DEF ProgInv
    <2>3. QED
      BY <2>1, <2>2, <1>2, <1>4, <1>7 DEF ProgInv, AnyCall
  <1>8. QED
    BY <1>6, <1>7

LEMMA NextCall ==
    ASSUME TypeInv, ProgInv, NEW th \in Threads, prog[th] # <<>>, phase' = phase, Next1(th),
           Head(prog[th]) \notin LastCall
    PROVE  ProgInv'
  <1>1. prog' = [prog EXCEPT ![th] = Tail(prog[th])]
    BY DEF Next1
  <1>2. ASSUME th = "main", phase = "starting" PROVE IsStart(Tail(prog[th]))
    BY <1>2, StartShrinks DEF ProgInv
  <1>3. ASSUME th = "main", phase = "closing" PROVE Tail(prog[th]) \in Seq(CloseCall)
    BY <1>3, HeadOf DEF ProgInv
  <1>4. ASSUME th # "main" PROVE Tail(prog[th]) \in Seq(SessionCall)
    BY <1>4, HeadOf DEF ProgInv, Threads
  <1>5. QED
    BY <1>1, <1>2, <1>3, <1>4, ProgAdvances

LEMMA SessionGivesUp ==
    ASSUME TypeInv, ProgInv, NEW th \in Threads, prog[th] # <<>>, phase' = phase, th # "main",
           NEW rest \in Seq(SessionCall), prog' = [prog EXCEPT ![th] = rest]
    PROVE  ProgInv'
BY ProgAdvances

\* The head of a program, by its operation.
LEMMA HeadName ==
    ASSUME TypeInv, ProgInv, NEW th \in Threads, prog[th] # <<>>
    PROVE  LET c == Head(prog[th])
           IN /\ c.op \notin {"load_meta", "serve"} => c \notin LastCall
              /\ c.op \in {"create", "destroy", "open", "open_file", "open_index", "header"} =>
                    c.name \in Paths
              /\ c.op \in {"open_file", "add_table", "remove_table", "close_file", "shut_file"} =>
                    c.name \in TableNames
              /\ c.op \in {"open_index", "check_length", "number", "fill", "add_index", "register",
                           "remove_index", "close_index", "shut_index", "duplicate"} =>
                    c.name \in IndexNames
              /\ c.op \in {"load_meta", "serve"} => th = "main" /\ phase = "starting" /\ Len(prog[th]) = 1
              /\ c.op \in {"clear", "exit", "shut_file", "shut_index"} => th = "main" /\ phase = "closing"
              /\ c.op \in {"load_meta", "serve"} => c \in LastCall
              /\ c.op = "fill" => th # "main"
  <1> DEFINE c == Head(prog[th])
  <1>1. c \in AnyCall /\ prog[th] \in Seq(AnyCall) /\ c = prog[th][1] /\ Len(prog[th]) \in Nat \ {0}
    BY Running, HeadOf
  <1>2. /\ c.op \notin {"load_meta", "serve"} => c \notin LastCall
        /\ c.op \in {"load_meta", "serve"} => c \in LastCall
    BY <1>1 DEF AnyCall, OpenCall, SessionCall, CloseCall, LastCall, TableCall, IndexCall, IndexFileCall, FlushCall,
                StartLoop, DropLoop, Call
  <1>3. /\ c.op \in {"create", "destroy", "open", "open_file", "open_index", "header"} => c.name \in Paths
        /\ c.op \in {"open_file", "add_table", "remove_table", "close_file", "shut_file"} =>
                    c.name \in TableNames
        /\ c.op \in {"open_index", "check_length", "number", "fill", "add_index", "register",
                     "remove_index", "close_index", "shut_index", "duplicate"} => c.name \in IndexNames
    BY <1>1 DEF AnyCall, OpenCall, SessionCall, CloseCall, LastCall, TableCall, IndexCall, IndexFileCall, FlushCall,
                StartLoop, DropLoop, Call, Paths
  <1>4. ASSUME th # "main" PROVE c \in SessionCall
    BY <1>4, HeadOf DEF ProgInv, Threads
  <1>5. ASSUME th = "main", phase = "starting"
        PROVE c \in OpenCall \cup LastCall /\ (c \in LastCall => Len(prog[th]) = 1)
    <2>1. IsStart(prog[th])
      BY <1>5 DEF ProgInv
    <2>2. prog[th] \in Seq(OpenCall \cup LastCall)
      BY <2>1 DEF IsStart
    <2>3. c \in OpenCall \cup LastCall
      BY <2>2, HeadOf
    <2>4. 1 \in 1..Len(prog[th])
      BY <1>1
    <2>5. prog[th][1] \in LastCall => 1 = Len(prog[th])
      BY <2>1, <2>4 DEF IsStart
    <2>6. QED
      BY <2>3, <2>5, <1>1
  <1>6. ASSUME th = "main", phase = "closing" PROVE c \in CloseCall
    BY <1>6, HeadOf DEF ProgInv
  <1>7. /\ th = "main" => phase \in {"starting", "closing"}
        /\ c \in SessionCall => c.op \notin {"load_meta", "serve", "clear", "exit", "shut_file", "shut_index"}
        /\ c \in CloseCall => c.op \notin {"load_meta", "serve"}
        /\ c \in OpenCall \cup LastCall => c.op \notin {"clear", "exit", "shut_file", "shut_index", "fill"}
        /\ c \in CloseCall => c.op # "fill"
    BY Running DEF OpenCall, SessionCall, CloseCall, LastCall, TableCall, IndexCall, IndexFileCall, FlushCall,
                StartLoop, DropLoop, Call
  <1>8. QED
    BY <1>2, <1>3, <1>4, <1>5, <1>6, <1>7


-----------------------------------------------------------------------------
\* The steps of the catalog

CatInv == TypeInv /\ ProgInv /\ FdInv /\ QueueInv
\* The step is no end of the process, and leaves the connections alone.
Calm == TypeInv' /\ ProgInv' /\ FdInv' /\ SocketsKept /\ phase' # "down" /\ phase' \in {phase, "up"}

\* A call that only changes files, db.meta or the catalog in memory.
LEMMA QuietStep ==
    ASSUME CatInv, NEW th \in Threads, prog[th] # <<>>, ProgInv',
           files' = files \/ (files' \in [Paths -> {"none", "empty", "ready"}] /\ OneFile'),
           meta' \in [state : {"none", "torn", "good"}, cat : Catalogs], db' \in Catalogs,
           DOMAIN fhs' \subseteq TableNames, DOMAIN ihs' \subseteq IndexNames,
           UNCHANGED <<path2fd, kernel, phase>>
    PROVE  Calm
  <1>1. TypeInv'
    BY DEF CatInv, TypeInv, OneFile
  <1>2. FdInv'
    BY DEF CatInv, FdInv
  <1>3. SocketsKept
    BY DEF SocketsKept
  <1>4. phase' # "down"
    BY Running DEF CatInv
  <1>5. QED
    BY <1>1, <1>2, <1>3, <1>4 DEF Calm

LEMMA TypesOf ==
    ASSUME CatInv
    PROVE  /\ files \in [Paths -> {"none", "empty", "ready"}] /\ OneFile
           /\ meta \in [state : {"none", "torn", "good"}, cat : Catalogs] /\ db \in Catalogs
           /\ DOMAIN fhs \subseteq TableNames /\ DOMAIN ihs \subseteq IndexNames
BY DEF CatInv, TypeInv

\* A thrown error: the session goes on without its calls, main ends the process.
LEMMA ThrowStep ==
    ASSUME CatInv, NEW th \in Threads, prog[th] # <<>>, Throw(th)
    PROVE  Calm \/ ProcessEnds("failed")
  <1>1. CASE th = "main"
    BY <1>1 DEF Throw
  <1>2. CASE th # "main"
    <2>1. prog' = [prog EXCEPT ![th] = <<>>] /\ UNCHANGED <<files, meta, db, handleVars, phase, kernel>>
      BY <1>2 DEF Throw
    <2>2. <<>> \in Seq(SessionCall)
      OBVIOUS
    <2>3. ProgInv'
      BY <1>2, <2>1, <2>2, SessionGivesUp DEF CatInv
    <2>4. QED
      BY <2>1, <2>3, TypesOf, QuietStep DEF handleVars
  <1>3. QED
    BY <1>1, <1>2

LEMMA LoopStep ==
    ASSUME CatInv, NEW th \in Threads, Loop(th) PROVE Calm
  <1> DEFINE c == Head(prog[th])
  <1>1. /\ prog[th] # <<>> /\ c.op = "for_each"
        /\ UNCHANGED <<files, meta, db, fhs, ihs, path2fd, phase, kernel>>
    BY DEF Loop, Calls, handleVars
  <1>2. c \notin LastCall
    BY <1>1, HeadName DEF CatInv
  <1>3. ProgInv'
    <2>1. CASE c.names = {} /\ Next1(th)
      BY <2>1, <1>1, <1>2, NextCall DEF CatInv
    <2>2. ASSUME NEW n \in c.names,
                 prog' = [prog EXCEPT ![th] = Body(c.body, n) \o <<ForEach(c.names \ {n}, c.body)>>
                                              \o Tail(prog[th])]
          PROVE ProgInv'
      <3> DEFINE round == Body(c.body, n)
                 loop == ForEach(c.names \ {n}, c.body)
      <3>1. ASSUME th = "main", phase = "starting" PROVE IsStart(round \o <<loop>> \o Tail(prog[th]))
        <4>1. IsStart(prog[th])
          BY <3>1 DEF CatInv, ProgInv
        <4>2. c \in OpenCall
          BY <4>1, <1>1, <1>2, HeadOf DEF IsStart
        <4>3. round \in Seq(OpenCall) /\ loop \in OpenCall
          BY <4>2, <1>1, <2>2, StartRounds, TypesOf
        <4>4. round \o <<loop>> \in Seq(OpenCall)
          BY <4>3
        <4>5. IsStart(Tail(prog[th]))
          BY <4>1, <1>2, StartShrinks
        <4>6. QED
          BY <4>4, <4>5, StartGrows
      <3>2. ASSUME th = "main", phase = "closing"
            PROVE round \o <<loop>> \o Tail(prog[th]) \in Seq(CloseCall)
        <4>1. prog[th] \in Seq(CloseCall)
          BY <3>2 DEF CatInv, ProgInv
        <4>2. c \in CloseCall /\ Tail(prog[th]) \in Seq(CloseCall)
          BY <4>1, <1>1, HeadOf
        <4>3. round \in Seq(CloseCall) /\ loop \in CloseCall
          BY <4>2, <1>1, <2>2, CloseRounds
        <4>4. round \o <<loop>> \in Seq(CloseCall)
          BY <4>3
        <4>5. QED
          BY <4>2, <4>4, Joined
      <3>3. ASSUME th # "main" PROVE round \o <<loop>> \o Tail(prog[th]) \in Seq(SessionCall)
        <4>1. prog[th] \in Seq(SessionCall)
          BY <3>3 DEF CatInv, ProgInv, Threads
        <4>2. c \in SessionCall /\ Tail(prog[th]) \in Seq(SessionCall)
          BY <4>1, <1>1, HeadOf
        <4>3. round \in Seq(SessionCall) /\ loop \in SessionCall
          BY <4>2, <1>1, <2>2, SessionRounds
        <4>4. round \o <<loop>> \in Seq(SessionCall)
          BY <4>3
        <4>5. QED
          BY <4>2, <4>4, Joined
      <3>4. QED
        BY <3>1, <3>2, <3>3, <2>2, <1>1, ProgAdvances DEF CatInv
    <2>3. QED
      BY <2>1, <2>2 DEF Loop
  <1>4. QED
    BY <1>1, <1>3, TypesOf, QuietStep

\* A file is created where there is none of that name, and what has no file gets none otherwise.
LEMMA FileChanges ==
    ASSUME files \in [Paths -> {"none", "empty", "ready"}], OneFile, NEW n \in Paths,
           NEW x \in {"none", "empty", "ready"}, files' = [files EXCEPT ![n] = x],
           x = "none" \/ files[n] # "none" \/ ~Taken(n)
    PROVE  files' \in [Paths -> {"none", "empty", "ready"}] /\ OneFile'
  <1>1. files' \in [Paths -> {"none", "empty", "ready"}]
    OBVIOUS
  <1>2. \A m \in Paths : files'[m] = IF m = n THEN x ELSE files[m]
    OBVIOUS
  <1>3. ASSUME NEW m \in IndexNames, NEW p \in SameFile(m) \ {m}
        PROVE  files'[m] = "none" \/ files'[p] = "none"
    <2>1. p \in IndexNames /\ m \in SameFile(p) /\ m \in Paths /\ p \in Paths
      BY DEF SameFile, Paths
    <2>2. files[m] = "none" \/ files[p] = "none"
      BY DEF OneFile
    <2>3. CASE x = "none" \/ files[n] # "none"
      BY <2>1, <2>2, <2>3, <1>2
    <2>4. CASE ~Taken(n)
      BY <2>1, <2>2, <2>4, <1>2 DEF Taken
    <2>5. QED
      BY <2>3, <2>4
  <1>4. QED
    BY <1>1, <1>3 DEF OneFile

LEMMA FileStep ==
    ASSUME CatInv, NEW th \in Threads, CreateFile(th) \/ DestroyFile(th) \/ WriteHeader(th)
    PROVE  Calm \/ ProcessEnds("failed")
  <1>1. prog[th] # <<>> /\ Head(prog[th]).op \in {"create", "destroy", "header"}
    BY DEF CreateFile, DestroyFile, WriteHeader, Calls
  <1>2. Head(prog[th]) \notin LastCall /\ Name(th) \in Paths
    BY <1>1, HeadName DEF CatInv, Name
  <1>3. CASE Throw(th)
    BY <1>1, <1>3, ThrowStep
  <1>4. CASE /\ Next1(th) /\ UNCHANGED <<meta, db, handleVars, phase, kernel>>
             /\ \/ files' = files
                \/ \E x \in {"none", "empty", "ready"} :
                      /\ files' = [files EXCEPT ![Name(th)] = x]
                      /\ x = "none" \/ files[Name(th)] # "none" \/ ~Taken(Name(th))
    <2>1. ProgInv'
      BY <1>1, <1>2, <1>4, NextCall DEF CatInv
    <2>2. files' = files \/ (files' \in [Paths -> {"none", "empty", "ready"}] /\ OneFile')
      BY <1>2, <1>4, TypesOf, FileChanges
    <2>3. QED
      BY <1>1, <1>4, <2>1, <2>2, TypesOf, QuietStep DEF handleVars
  <1>5. CASE CreateFile(th)
    BY <1>3, <1>4, <1>5 DEF CreateFile
  <1>6. CASE DestroyFile(th)
    BY <1>3, <1>4, <1>6 DEF DestroyFile
  <1>7. CASE WriteHeader(th)
    <2>1. PICK x : x = IF files[Name(th)] = "none" THEN "none" ELSE "ready"
      OBVIOUS
    <2>2. files' = [files EXCEPT ![Name(th)] = x]
      BY <1>7, <2>1 DEF WriteHeader
    <2>3. Next1(th) /\ UNCHANGED <<meta, db, handleVars, phase, kernel>>
      BY <1>7 DEF WriteHeader
    <2>4. x \in {"none", "empty", "ready"} /\ (x = "none" \/ files[Name(th)] # "none")
      BY <2>1
    <2>5. QED
      BY <1>4, <2>2, <2>3, <2>4
  <1>8. QED
    BY <1>5, <1>6, <1>7

LEMMA PlainStep ==
    ASSUME CatInv, NEW th \in Threads, CheckLength(th) \/ SetPageNo(th) \/ MakeDir(th) \/ Duplicate(th)
    PROVE  Calm \/ ProcessEnds("failed")
  <1>1. prog[th] # <<>> /\ Head(prog[th]).op \in {"check_length", "number", "mkdir", "duplicate"}
    BY DEF CheckLength, SetPageNo, MakeDir, Duplicate, Calls
  <1>2. Head(prog[th]) \notin LastCall
    BY <1>1, HeadName DEF CatInv
  <1>3. CASE Throw(th)
    BY <1>1, <1>3, ThrowStep
  <1>4. CASE Next1(th) /\ UNCHANGED <<files, meta, db, fhs, ihs, path2fd, phase, kernel>>
    <2>1. ProgInv'
      BY <1>1, <1>2, <1>4, NextCall DEF CatInv
    <2>2. QED
      BY <1>1, <1>4, <2>1, TypesOf, QuietStep
  <1>5. QED
    BY <1>3, <1>4 DEF CheckLength, SetPageNo, MakeDir, Duplicate, handleVars


LEMMA OpenStep ==
    ASSUME CatInv, NEW th \in Threads, OpenFile(th) PROVE Calm \/ ProcessEnds("failed")
  <1> DEFINE op == Head(prog[th]).op
             fails == op # "open" /\ files[Name(th)] = "empty"
  <1>1. prog[th] # <<>> /\ op \in {"open", "open_file", "open_index"}
    BY DEF OpenFile, Calls
  <1>2. Head(prog[th]) \notin LastCall /\ Name(th) \in Paths /\ (op = "open_file" => Name(th) \in TableNames)
    BY <1>1, HeadName DEF CatInv, Name
  <1>3. CASE Throw(th)
    BY <1>1, <1>3, ThrowStep
  <1>4. CASE /\ Name(th) \notin DOMAIN path2fd /\ ~(fails /\ th = "main")
             /\ Opens(th, IF fails THEN "open" ELSE op, LowestFree)
             /\ prog' = [prog EXCEPT ![th] = IF fails THEN <<>> ELSE Tail(@)]
             /\ UNCHANGED <<files, meta, db, ihs, phase>>
    <2>1. PICK fd : fd = LowestFree
      OBVIOUS
    <2>2. fd \in Fds /\ kernel[fd] = "free"
      BY <2>1, LowestIsFree DEF CatInv
    <2>3. path2fd' = With(path2fd, Name(th), fd) /\ kernel' = [kernel EXCEPT ![fd] = Name(th)]
      BY <1>4, <2>1 DEF Opens
    <2>4. FdInv' /\ SocketsKept /\ kernel' \in [Fds -> Paths \cup Clients \cup {"free", "listen"}]
      BY <1>2, <1>4, <2>2, <2>3, OpenKeeps DEF CatInv
    <2>5. DOMAIN fhs' \subseteq TableNames
      <3>1. CASE ~fails /\ op = "open_file"
        <4>1. fhs' = With(fhs, Name(th), fd)
          BY <3>1, <1>4, <2>1 DEF Opens
        <4>2. QED
          BY <4>1, <3>1, <1>2, TypesOf DEF With
      <3>2. CASE fails \/ op # "open_file"
        <4>1. fhs' = fhs
          BY <3>2, <1>4, <1>1 DEF Opens
        <4>2. QED
          BY <4>1, TypesOf
      <3>3. QED
        BY <3>1, <3>2
    <2>6. TypeInv'
      BY <1>4, <2>4, <2>5 DEF CatInv, TypeInv, OneFile
    <2>7. ProgInv'
      <3>1. CASE fails
        <4>1. <<>> \in Seq(SessionCall) /\ prog' = [prog EXCEPT ![th] = <<>>] /\ th # "main"
          BY <1>4, <3>1
        <4>2. QED
          BY <4>1, <1>1, <1>4, SessionGivesUp DEF CatInv
      <3>2. CASE ~fails
        <4>1. Next1(th)
          BY <1>4, <3>2 DEF Next1
        <4>2. QED
          BY <4>1, <1>1, <1>2, <1>4, NextCall DEF CatInv
      <3>3. QED
        BY <3>1, <3>2
    <2>8. phase' # "down" /\ phase' = phase
      BY <1>1, <1>4, Running DEF CatInv
    <2>9. QED
      BY <2>4, <2>6, <2>7, <2>8 DEF Calm
  <1>5. QED
    BY <1>3, <1>4 DEF OpenFile

\* A descriptor is closed and the next call is due.
LEMMA ClosesStep ==
    ASSUME CatInv, NEW th \in Threads, prog[th] # <<>>, Head(prog[th]) \notin LastCall,
           NEW fd, IsOpen(fd), Closes(th, fd), Next1(th), UNCHANGED <<files, meta, db, phase>>,
           DOMAIN fhs' \subseteq TableNames, DOMAIN ihs' \subseteq IndexNames
    PROVE  Calm
  <1>1. FdInv' /\ SocketsKept /\ kernel' \in [Fds -> Paths \cup Clients \cup {"free", "listen"}]
    BY CloseKeeps DEF CatInv
  <1>2. TypeInv'
    BY <1>1 DEF CatInv, TypeInv, OneFile
  <1>3. ProgInv' /\ phase' # "down"
    BY NextCall, Running DEF CatInv
  <1>4. QED
    BY <1>1, <1>2, <1>3 DEF Calm

LEMMA WithoutDomain ==
    ASSUME NEW f, NEW x, NEW S, DOMAIN f \subseteq S PROVE DOMAIN Without(f, x) \subseteq S
BY DEF Without

LEMMA CloseStep ==
    ASSUME CatInv, NEW th \in Threads, CloseFile(th) \/ CloseHandle(th) \/ ShutHandle(th)
    PROVE  Calm \/ ProcessEnds("failed")
  <1>1. /\ prog[th] # <<>>
        /\ Head(prog[th]).op \in {"close", "close_file", "close_index", "shut_file", "shut_index"}
    BY DEF CloseFile, CloseHandle, ShutHandle, Calls
  <1>2. Head(prog[th]) \notin LastCall
    BY <1>1, HeadName DEF CatInv
  <1>3. CASE Throw(th)
    BY <1>1, <1>3, ThrowStep
  <1>4. CASE CloseFile(th) /\ ~Throw(th)
    <2>1. /\ IsOpen(reg[th]) /\ Closes(th, reg[th]) /\ Next1(th)
          /\ UNCHANGED <<files, meta, db, phase, fhs, ihs>>
      BY <1>4 DEF CloseFile
    <2>2. QED
      BY <2>1, <1>1, <1>2, ClosesStep, TypesOf
  <1>5. CASE /\ Next1(th) /\ UNCHANGED <<files, meta, db, phase, path2fd, kernel, fhs, ihs>>
    BY <1>1, <1>2, <1>5, NextCall, TypesOf, QuietStep DEF CatInv
  <1>6. CASE CloseHandle(th) /\ ~Throw(th)
    <2>1. \/ /\ Next1(th) /\ UNCHANGED <<files, meta, db, phase, path2fd, kernel, fhs, ihs>>
          \/ /\ Next1(th) /\ UNCHANGED <<files, meta, db, phase>>
             /\ \E fd : IsOpen(fd) /\ Closes(th, fd)
             /\ fhs' = Without(fhs, Name(th)) /\ ihs' = Without(ihs, Name(th))
      BY <1>6 DEF CloseHandle
    <2>2. DOMAIN Without(fhs, Name(th)) \subseteq TableNames /\ DOMAIN Without(ihs, Name(th)) \subseteq IndexNames
      BY TypesOf, WithoutDomain
    <2>3. QED
      BY <2>1, <2>2, <1>1, <1>2, <1>5, ClosesStep
  <1>7. CASE ShutHandle(th) /\ ~Throw(th)
    <2>1. \/ /\ Next1(th) /\ UNCHANGED <<files, meta, db, phase, path2fd, kernel, fhs, ihs>>
          \/ /\ Next1(th) /\ UNCHANGED <<files, meta, db, phase, fhs, ihs>>
             /\ \E fd : IsOpen(fd) /\ Closes(th, fd)
      BY <1>7 DEF ShutHandle
    <2>2. QED
      BY <2>1, <1>1, <1>2, <1>5, ClosesStep, TypesOf
  <1>8. QED
    BY <1>3, <1>4, <1>6, <1>7

LEMMA FillStep ==
    ASSUME CatInv, NEW th \in Threads, Fill(th) PROVE Calm \/ ProcessEnds("killed")
  <1> DEFINE undo == <<Call("close", Name(th)), Call("destroy", Name(th)), Call("duplicate", Name(th))>>
  <1>1. prog[th] # <<>> /\ Head(prog[th]).op = "fill"
    BY DEF Fill, Calls
  <1>2. Head(prog[th]) \notin LastCall /\ Name(th) \in IndexNames
    BY <1>1, HeadName DEF CatInv, Name
  <1>3. CASE ProcessEnds("killed")
    BY <1>3
  <1>4. CASE /\ UNCHANGED <<files, meta, db, handleVars, phase, kernel>>
             /\ \/ prog' = [prog EXCEPT ![th] = Tail(@)]
                \/ th # "main" /\ prog' = [prog EXCEPT ![th] = undo]
    <2>1. CASE prog' = [prog EXCEPT ![th] = Tail(@)]
      <3>1. ProgInv'
        BY <2>1, <1>1, <1>2, <1>4, NextCall DEF CatInv, Next1
      <3>2. QED
        BY <3>1, <1>1, <1>4, TypesOf, QuietStep DEF handleVars
    <2>2. CASE th # "main" /\ prog' = [prog EXCEPT ![th] = undo]
      <3>1. undo \in Seq(SessionCall)
        BY <1>2, IndexCalls DEF SessionCall
      <3>2. ProgInv'
        BY <2>2, <3>1, <1>1, <1>4, SessionGivesUp DEF CatInv
      <3>3. QED
        BY <3>2, <1>1, <1>4, TypesOf, QuietStep DEF handleVars
    <2>3. QED
      BY <1>4, <2>1, <2>2
  <1>5. th # "main"
    BY <1>1, HeadName DEF CatInv
  <1>6. QED
    BY <1>3, <1>4, <1>5 DEF Fill


LEMMA RegisterStep ==
    ASSUME CatInv, NEW th \in Threads, Register(th) PROVE Calm
  <1> DEFINE op == Head(prog[th]).op
             n == Name(th)
  <1>1. /\ prog[th] # <<>> /\ op \in {"add_table", "add_index", "register", "remove_table", "remove_index"}
        /\ Next1(th) /\ UNCHANGED <<files, meta, fhs, path2fd, phase, kernel>>
    BY DEF Register, Calls
  <1>2. /\ Head(prog[th]) \notin LastCall
        /\ op = "add_table" => n \in TableNames
        /\ op \in {"add_index", "register"} => n \in IndexNames
    BY <1>1, HeadName DEF CatInv, Name
  <1>3. db.tabs \in SUBSET TableNames /\ db.ixs \in SUBSET IndexNames /\ db \in Catalogs
    BY TypesOf DEF Catalogs
  <1>4. db' \in Catalogs
    <2>1. CASE op = "add_table"
      BY <2>1, <1>2, <1>3 DEF Register, Catalogs
    <2>2. CASE op = "add_index"
      BY <2>2, <1>2, <1>3 DEF Register, Catalogs
    <2>3. CASE op = "remove_table"
      <3>1. db' = [tabs |-> db.tabs \ {n}, ixs |-> {i \in db.ixs : TableOf[i] # n}]
        BY <2>3 DEF Register
      <3>2. QED
        BY <3>1, <1>3 DEF Catalogs
    <2>4. CASE op = "remove_index"
      BY <2>4, <1>2, <1>3 DEF Register, Catalogs
    <2>5. CASE op = "register"
      BY <2>5, <1>3 DEF Register
    <2>6. QED
      BY <1>1, <2>1, <2>2, <2>3, <2>4, <2>5
  <1>5. DOMAIN ihs' \subseteq IndexNames
    BY <1>2, TypesOf DEF Register, With
  <1>6. ProgInv'
    BY <1>1, <1>2, NextCall DEF CatInv
  <1>7. QED
    BY <1>1, <1>4, <1>5, <1>6, TypesOf, QuietStep

LEMMA MetaStep ==
    ASSUME CatInv, NEW th \in Threads, ClearMaps(th) \/ TruncateMeta(th) \/ WriteMeta(th) PROVE Calm
  <1>1. /\ prog[th] # <<>> /\ Head(prog[th]).op \in {"clear", "truncate", "write_meta"}
        /\ Next1(th) /\ UNCHANGED <<files, path2fd, phase, kernel>>
    BY DEF ClearMaps, TruncateMeta, WriteMeta, Calls, handleVars
  <1>2. Head(prog[th]) \notin LastCall
    BY <1>1, HeadName DEF CatInv
  <1>3. ProgInv'
    BY <1>1, <1>2, NextCall DEF CatInv
  <1>4. CASE ClearMaps(th)
    <2>1. db' \in Catalogs /\ DOMAIN fhs' = {} /\ DOMAIN ihs' = {} /\ UNCHANGED meta
      BY <1>4 DEF ClearMaps, NoCatalog, Empty, Catalogs
    <2>2. QED
      BY <2>1, <1>1, <1>3, TypesOf, QuietStep
  <1>5. CASE TruncateMeta(th)
    <2>1. meta' \in [state : {"none", "torn", "good"}, cat : Catalogs]
      BY <1>5, TypesOf DEF TruncateMeta
    <2>2. UNCHANGED <<db, fhs, ihs>>
      BY <1>5 DEF TruncateMeta, handleVars
    <2>3. QED
      BY <2>1, <2>2, <1>1, <1>3, TypesOf, QuietStep
  <1>6. CASE WriteMeta(th)
    <2>1. meta' \in [state : {"none", "torn", "good"}, cat : Catalogs]
      BY <1>6, TypesOf DEF WriteMeta
    <2>2. UNCHANGED <<db, fhs, ihs>>
      BY <1>6 DEF WriteMeta, handleVars
    <2>3. QED
      BY <2>1, <2>2, <1>1, <1>3, TypesOf, QuietStep
  <1>7. QED
    BY <1>4, <1>5, <1>6

LEMMA LoadStep ==
    ASSUME CatInv, NEW th \in Threads, LoadMeta(th) PROVE Calm \/ ProcessEnds("failed")
  <1>1. prog[th] # <<>> /\ Head(prog[th]).op = "load_meta"
    BY DEF LoadMeta, Calls
  <1>2. th = "main" /\ phase = "starting"
    BY <1>1, HeadName DEF CatInv
  <1>3. ASSUME NEW cat \in Catalogs, db' = cat, prog' = [prog EXCEPT ![th] = OpenDb(cat)],
               UNCHANGED <<files, meta, handleVars, phase, kernel>>
        PROVE Calm
    <2>1. ProgInv'
      BY <1>1, <1>2, <1>3, StartCalls, ProgAdvances DEF CatInv
    <2>2. QED
      BY <2>1, <1>1, <1>3, TypesOf, QuietStep DEF handleVars
  <1>4. meta.cat \in Catalogs /\ NoCatalog \in Catalogs
    BY TypesOf DEF NoCatalog, Catalogs
  <1>5. QED
    BY <1>3, <1>4 DEF LoadMeta

LEMMA ServeStep ==
    ASSUME CatInv, NEW th \in Threads, Serve(th) PROVE Calm
  <1>1. /\ prog[th] # <<>> /\ Head(prog[th]).op = "serve" /\ phase' = "up"
        /\ prog' = [prog EXCEPT ![th] = Tail(@)]
        /\ kernel' = [kernel EXCEPT ![LowestFree] = "listen"]
        /\ UNCHANGED <<files, meta, db, fhs, ihs, path2fd>>
    BY DEF Serve, Calls, Next1, handleVars
  <1>2. th = "main" /\ phase = "starting" /\ Len(prog[th]) = 1
    BY <1>1, HeadName DEF CatInv
  <1>3. PICK fd : fd = LowestFree
    OBVIOUS
  <1>4. fd \in Fds /\ kernel[fd] = "free"
    BY <1>3, LowestIsFree DEF CatInv
  <1>5. kernel \in [Fds -> Paths \cup Clients \cup {"free", "listen"}]
    BY DEF CatInv, TypeInv
  <1>6. kernel'[fd] = "listen" /\ \A g \in Fds : g # fd => kernel'[g] = kernel[g]
    BY <1>1, <1>3, <1>4, <1>5
  <1>7. TypeInv'
    <2>1. kernel' \in [Fds -> Paths \cup Clients \cup {"free", "listen"}]
      BY <1>1, <1>3, <1>5
    <2>2. QED
      BY <2>1, <1>1 DEF CatInv, TypeInv, OneFile
  <1>8. SocketsKept
    BY <1>4, <1>6, NamesApart DEF SocketsKept
  <1>9. ProgInv'
    <2>1. prog \in [Threads -> Seq(AnyCall)] /\ prog["main"] \in Seq(AnyCall)
      BY <1>2 DEF CatInv, ProgInv, AnyCall
    <2>2. Tail(prog["main"]) = <<>>
      BY <2>1, <1>2, TailOfOne
    <2>3. prog'["main"] = <<>> /\ \A r \in Threads : r # "main" => prog'[r] = prog[r]
      BY <1>1, <1>2, <2>1, <2>2
    <2>4. <<>> \in Seq(AnyCall) /\ <<>> \in Seq(SessionCall)
      OBVIOUS
    <2>5. prog' \in [Threads -> Seq(AnyCall)]
      BY <1>1, <1>2, <2>1, <2>2, <2>4
    <2>6. \A s \in Sessions : prog'[s] = <<>>
      BY <2>3, <1>2, NamesApart DEF CatInv, ProgInv, Threads
    <2>7. QED
      BY <2>3, <2>4, <2>5, <2>6, <1>1 DEF ProgInv, AnyCall
  <1>10. FdInv'
    <2>1. DOMAIN path2fd' \subseteq Paths /\ path2fd' = path2fd
      BY <1>1 DEF CatInv, FdInv
    <2>2. ASSUME NEW p \in DOMAIN path2fd PROVE path2fd[p] \in Fds /\ kernel'[path2fd[p]] = p
      <3>1. path2fd[p] \in Fds /\ kernel[path2fd[p]] = p /\ p \in Paths
        BY DEF CatInv, FdInv
      <3>2. path2fd[p] # fd
        BY <3>1, <1>4, NamesApart
      <3>3. QED
        BY <3>1, <3>2, <1>6
    <2>3. ASSUME NEW g \in Fds, kernel'[g] \in Paths
          PROVE kernel'[g] \in DOMAIN path2fd /\ path2fd[kernel'[g]] = g
      <3>1. g # fd
        BY <2>3, <1>6, NamesApart
      <3>2. QED
        BY <3>1, <2>3, <1>6 DEF CatInv, FdInv
    <2>4. \A g \in Fds : kernel'[g] = "listen" => g = fd
      BY <1>2, <1>6 DEF CatInv, FdInv
    <2>5. QED
      BY <2>1, <2>2, <2>3, <2>4, <1>1 DEF FdInv
  <1>11. QED
    BY <1>1, <1>7, <1>8, <1>9, <1>10 DEF Calm

LEMMA CatalogSteps ==
    ASSUME CatInv, NEW th \in Threads, CatalogStep(th)
    PROVE  Calm \/ \E how \in {"failed", "killed", "closed"} : ProcessEnds(how)
  <1>1. CASE Exit(th)
    BY <1>1 DEF Exit
  <1>2. QED
    BY <1>1, LoopStep, FileStep, OpenStep, CloseStep, PlainStep, FillStep, RegisterStep, MetaStep,
       LoadStep, ServeStep DEF CatalogStep


-----------------------------------------------------------------------------
\* The steps of the server

LEMMA ParsedComment ==
    ASSUME History, phase' # "down", commented \in BOOLEAN
    PROVE  /\ commented' \in BOOLEAN /\ (commented => commented')
           /\ \A c \in Clients : ask'[c].op = "open_comment" => commented'
BY Zenon DEF History

LEMMA CatalogSame ==
    ASSUME TypeInv, ProgInv, FdInv,
           UNCHANGED <<files, meta, db, fhs, ihs, path2fd, prog, phase, kernel>>
    PROVE  TypeInv' /\ ProgInv' /\ FdInv'
  <1>1. TypeInv'
    BY DEF TypeInv, OneFile
  <1>2. ProgInv'
    BY DEF ProgInv
  <1>3. FdInv'
    BY DEF FdInv
  <1>4. QED
    BY <1>1, <1>2, <1>3

LEMMA SocketsSame ==
    ASSUME TypeInv, QueueInv, SocketInv, SocketsKept,
           phase' \in {"down", "starting"} => phase \in {"down", "starting"},
           UNCHANGED <<client, backlog, acc, sockfd, held, stage, fdOf, conn>>
    PROVE  QueueInv' /\ SocketInv'
  <1>1. QueueInv'
    BY DEF QueueInv, SocketsKept
  <1>2. \A fd \in Fds : kernel[fd] \in Clients => kernel'[fd] = kernel[fd]
    BY DEF SocketsKept
  <1>3. acc' = "spawn" => sockfd' \in Fds /\ kernel'[sockfd'] \in Clients
    BY <1>2 DEF SocketInv
  <1>4. \A s \in Sessions : stage'[s] = "born" =>
          sockfd' \in Fds /\ kernel'[sockfd'] = conn'[s] /\ conn'[s] \in Clients
    BY <1>2 DEF SocketInv
  <1>5. \A s \in Sessions : Serving(s)' =>
          fdOf'[s] \in Fds /\ kernel'[fdOf'[s]] = conn'[s] /\ conn'[s] \in Clients
    BY <1>2 DEF SocketInv, Serving
  <1>6. SocketInv'
    BY <1>3, <1>4, <1>5 DEF SocketInv, Serving
  <1>7. QED
    BY <1>1, <1>6

LEMMA ParseSame ==
    ASSUME ParseInv, History, phase' # "down",
           UNCHANGED <<ask, stage, data_recv, query, buffer, parse_tree, lexer>>
    PROVE  ParseInv'
  <1>1. commented' \in BOOLEAN /\ (commented => commented')
    BY ParsedComment DEF ParseInv
  <1>2. QED
    BY <1>1 DEF ParseInv

\* The process ends with everything it had in memory.
LEMMA EndStep ==
    ASSUME TypeInv, NEW how, ProcessEnds(how), AllGone, History
    PROVE  ServerInv'
  <1>1. TypeInv'
    <2>1. db' \in Catalogs /\ DOMAIN fhs' = {} /\ DOMAIN ihs' = {}
      BY DEF ProcessEnds, NoCatalog, Empty, Catalogs
    <2>2. kernel' \in [Fds -> Paths \cup Clients \cup {"free", "listen"}]
      BY DEF ProcessEnds
    <2>3. phase' = "down" /\ UNCHANGED <<files, meta>>
      BY DEF ProcessEnds, diskVars
    <2>4. QED
      BY <2>1, <2>2, <2>3 DEF TypeInv, OneFile
  <1>2. ProgInv'
    <2>1. phase' = "down" /\ prog' = [th \in Threads |-> <<>>]
      BY DEF ProcessEnds
    <2>2. <<>> \in Seq(AnyCall) /\ <<>> \in Seq(SessionCall)
      OBVIOUS
    <2>3. prog' \in [Threads -> Seq(AnyCall)] /\ \A th \in Threads : prog'[th] = <<>>
      BY <2>1, <2>2
    <2>4. QED
      BY <2>1, <2>2, <2>3 DEF ProgInv, AnyCall, Threads
  <1>3. phase' = "down" /\ path2fd' = Empty /\ \A fd \in Fds : kernel'[fd] = "free"
    BY DEF ProcessEnds
  <1>4. FdInv'
    BY <1>3, NamesApart DEF FdInv, Empty
  <1>5. QueueInv'
    <2>1. client' \in [Clients -> {"out", "queued", "in", "gone"}]
      BY DEF AllGone
    <2>2. backlog' \in Seq(Clients) /\ DOMAIN backlog' = {}
      BY DEF AllGone
    <2>3. \A c \in Clients : client'[c] = "out"
      BY DEF AllGone
    <2>4. QED
      BY <2>1, <2>2, <2>3, <1>3, NamesApart DEF QueueInv
  <1>6. \A s \in Sessions : stage'[s] = "free"
    BY DEF AllGone
  <1>7. SocketInv'
    <2>1. /\ stage' \in [Sessions -> {"free", "born", "reading", "lex", "parsed", "failed", "plan", "run", "done"}]
          /\ acc' = "lock" /\ held' = FALSE
          /\ fdOf' \in [Sessions -> Fds \cup {0}] /\ conn' \in [Sessions -> Clients \cup {"none"}]
      BY DEF AllGone
    <2>2. QED
      BY <2>1, <1>6 DEF SocketInv, Serving
  <1>8. ParseInv'
    <2>1. /\ ask' \in [Clients -> Statements \cup {NoStatement}]
          /\ data_recv' \in [Sessions -> Statements \cup {NoStatement}]
          /\ query' \in [Sessions -> Statements \cup {NoStatement}]
      BY DEF AllGone
    <2>2. /\ lexer' = "initial"
          /\ \A c \in Clients : ask'[c] = NoStatement
          /\ \A s \in Sessions : data_recv'[s] = NoStatement
      BY DEF AllGone
    <2>3. NoStatement.op # "open_comment"
      BY DEF NoStatement
    <2>4. commented' = FALSE
      BY <1>3 DEF History
    <2>5. QED
      BY <2>1, <2>2, <2>3, <2>4, <1>6 DEF ParseInv
  <1>9. QED
    BY <1>1, <1>2, <1>4, <1>5, <1>7, <1>8 DEF ServerInv

LEMMA ThreadStep ==
    ASSUME ServerInv, NEW th \in Threads, Step(th), History PROVE ServerInv'
  <1>1. CASE Calm
    <2>1. phase' # "down"
      BY <1>1 DEF Calm
    <2>2. UNCHANGED <<socketVars, loopVars, parseVars, handlerVars, conn>>
      BY <2>1 DEF Step
    <2>3. QueueInv' /\ SocketInv'
      BY <1>1, <2>1, <2>2, SocketsSame DEF ServerInv, Calm, socketVars, loopVars, handlerVars
    <2>4. ParseInv'
      BY <2>1, <2>2, ParseSame DEF ServerInv, socketVars, parseVars, handlerVars
    <2>5. QED
      BY <1>1, <2>3, <2>4 DEF ServerInv, Calm
  <1>2. ASSUME NEW how \in {"failed", "killed", "closed"}, ProcessEnds(how) PROVE ServerInv'
    <2>1. phase' = "down"
      BY <1>2 DEF ProcessEnds
    <2>2. AllGone
      BY <2>1 DEF Step
    <2>3. QED
      BY <1>2, <2>2, EndStep DEF ServerInv
  <1>3. QED
    BY <1>1, <1>2, CatalogSteps DEF Step, ServerInv, CatInv

LEMMA KilledStep ==
    ASSUME ServerInv, Killed, History PROVE ServerInv'
BY EndStep DEF ServerInv, Killed

\* main's calls begin.
LEMMA MainBegins ==
    ASSUME TypeInv, ProgInv, FdInv, NEW calls, NEW name, Begin("main", name, calls),
           \/ phase = "down" /\ phase' = "starting" /\ IsStart(calls)
           \/ phase = "up" /\ phase' = "closing" /\ calls \in Seq(CloseCall)
    PROVE  TypeInv' /\ ProgInv' /\ FdInv' /\ SocketsKept
  <1>1. /\ prog' = [prog EXCEPT !["main"] = calls]
        /\ UNCHANGED <<files, meta, db, fhs, ihs, path2fd, kernel>>
    BY DEF Begin, handleVars
  <1>2. TypeInv'
    BY <1>1 DEF TypeInv, OneFile
  <1>3. FdInv'
    BY <1>1 DEF FdInv
  <1>4. prog \in [Threads -> Seq(AnyCall)] /\ "main" \in Threads /\ Sessions \subseteq Threads
    BY DEF ProgInv, AnyCall, Threads
  <1>5. calls \in Seq(AnyCall)
    <2>1. CASE IsStart(calls)
      <3>1. calls \in Seq(OpenCall \cup LastCall)
        BY <2>1 DEF IsStart
      <3>2. QED
        BY <3>1, SeqWider DEF AnyCall
    <2>2. CASE calls \in Seq(CloseCall)
      BY <2>2, SeqWider DEF AnyCall
    <2>3. QED
      BY <2>1, <2>2
  <1>6. prog' \in [Threads -> Seq(AnyCall)] /\ prog'["main"] = calls
    BY <1>1, <1>4, <1>5
  <1>7. \A s \in Sessions : prog'[s] = prog[s]
    BY <1>1, <1>4, NamesApart
  <1>8. ProgInv'
    BY <1>6, <1>7 DEF ProgInv, AnyCall
  <1>9. QED
    BY <1>1, <1>2, <1>3, <1>8 DEF SocketsKept

LEMMA StartStep ==
    ASSUME ServerInv, Start, History PROVE ServerInv'
  <1>1. /\ phase = "down" /\ phase' = "starting"
        /\ Begin("main", "start", (IF dir THEN <<>> ELSE CreateDb) \o <<Call("load_meta", "meta")>>)
        /\ UNCHANGED <<socketVars, loopVars, parseVars, handlerVars, conn>>
    BY DEF Start, StartServer
  <1>2. IsStart((IF dir THEN <<>> ELSE CreateDb) \o <<Call("load_meta", "meta")>>)
    BY StartCalls
  <1>3. TypeInv' /\ ProgInv' /\ FdInv' /\ SocketsKept
    BY <1>1, <1>2, MainBegins DEF ServerInv
  <1>4. QueueInv' /\ SocketInv'
    BY <1>1, <1>3, SocketsSame DEF ServerInv, socketVars, loopVars, handlerVars
  <1>5. ParseInv'
    BY <1>1, ParseSame DEF ServerInv, socketVars, parseVars, handlerVars
  <1>6. QED
    BY <1>3, <1>4, <1>5 DEF ServerInv

LEMMA LeaveLoopStep ==
    ASSUME ServerInv, LeaveLoop, History PROVE ServerInv'
  <1>1. /\ phase = "up" /\ phase' = "closing" /\ Begin("main", "close", CloseDb)
        /\ UNCHANGED <<socketVars, loopVars, parseVars, handlerVars, conn>>
    BY DEF LeaveLoop, Shutdown
  <1>2. TypeInv' /\ ProgInv' /\ FdInv' /\ SocketsKept
    BY <1>1, CloseCalls, MainBegins DEF ServerInv
  <1>3. QueueInv' /\ SocketInv'
    BY <1>1, <1>2, SocketsSame DEF ServerInv, socketVars, loopVars, handlerVars
  <1>4. ParseInv'
    BY <1>1, ParseSame DEF ServerInv, socketVars, parseVars, handlerVars
  <1>5. QED
    BY <1>2, <1>3, <1>4 DEF ServerInv


\* A client's statement comes or goes.
LEMMA AskSame ==
    ASSUME ParseInv, History, phase' = phase, phase # "down", NEW c \in Clients,
           NEW s \in Statements \cup {NoStatement}, ask' = [ask EXCEPT ![c] = s],
           UNCHANGED <<stage, data_recv, query, buffer, parse_tree, lexer>>
    PROVE  ParseInv'
  <1>1. /\ commented' \in BOOLEAN /\ (commented => commented')
        /\ \A d \in Clients : ask'[d].op = "open_comment" => commented'
    BY ParsedComment DEF ParseInv
  <1>2. ask' \in [Clients -> Statements \cup {NoStatement}]
    BY DEF ParseInv
  <1>3. QED
    BY <1>1, <1>2 DEF ParseInv

\* A thread comes, reads the variable sockfd, or goes.
LEMMA StageSame ==
    ASSUME ParseInv, History, phase' # "down",
           \A s \in Sessions : stage'[s] \notin {"born", "reading", "free"} => stage'[s] = stage[s],
           ask' \in [Clients -> Statements \cup {NoStatement}],
           UNCHANGED <<data_recv, query, buffer, parse_tree, lexer>>
    PROVE  ParseInv'
  <1>1. /\ commented' \in BOOLEAN /\ (commented => commented')
        /\ \A d \in Clients : ask'[d].op = "open_comment" => commented'
    BY ParsedComment DEF ParseInv
  <1>2. QED
    BY <1>1 DEF ParseInv


\* Most steps leave the catalog alone.
LEMMA Untouched ==
    ASSUME ServerInv, UNCHANGED catalogVars
    PROVE  TypeInv' /\ ProgInv' /\ FdInv' /\ SocketsKept /\ phase' = phase
BY CatalogSame DEF ServerInv, catalogVars, SocketsKept

LEMMA ConnectStep ==
    ASSUME ServerInv, NEW c \in Clients, Connect(c), History PROVE ServerInv'
  <1>1. /\ client[c] = "out" /\ phase = "up"
        /\ client' = [client EXCEPT ![c] = "queued"] /\ backlog' = Append(backlog, c)
        /\ UNCHANGED <<catalogVars, ask, loopVars, parseVars, handlerVars, conn>>
    BY DEF Connect
  <1>2. TypeInv' /\ ProgInv' /\ FdInv' /\ SocketsKept /\ phase' = phase /\ kernel' = kernel
    BY <1>1, Untouched DEF catalogVars
  <1>3. QueueInv'
    <2>1. /\ client \in [Clients -> {"out", "queued", "in", "gone"}] /\ backlog \in Seq(Clients)
          /\ \A i \in DOMAIN backlog : client[backlog[i]] = "queued"
          /\ \A i, j \in DOMAIN backlog : backlog[i] = backlog[j] => i = j
          /\ \A fd \in Fds : kernel[fd] \in Clients => client[kernel[fd]] \in {"in", "gone"}
          /\ \A fd, g \in Fds : kernel[fd] \in Clients /\ kernel[fd] = kernel[g] => fd = g
      BY DEF ServerInv, QueueInv
    <2>2. client' \in [Clients -> {"out", "queued", "in", "gone"}] /\ backlog' \in Seq(Clients)
      BY <1>1, <2>1
    <2>3. \A i \in DOMAIN backlog' : (i \in DOMAIN backlog /\ backlog'[i] = backlog[i] /\ backlog[i] # c)
                                     \/ (i = Len(backlog) + 1 /\ backlog'[i] = c)
      BY <1>1, <2>1
    <2>4. \A i \in DOMAIN backlog' : client'[backlog'[i]] = "queued"
      BY <1>1, <2>1, <2>3
    <2>5. \A i, j \in DOMAIN backlog' : backlog'[i] = backlog'[j] => i = j
      BY <2>1, <2>3
    <2>6. \A fd \in Fds : kernel[fd] \in Clients => client'[kernel[fd]] \in {"in", "gone"}
      BY <1>1, <2>1
    <2>7. QED
      BY <2>1, <2>2, <2>4, <2>5, <2>6, <1>1, <1>2 DEF QueueInv
  <1>4. SocketInv'
    BY <1>1, <1>2 DEF ServerInv, SocketInv, Serving, loopVars, handlerVars
  <1>5. ParseInv'
    BY <1>1, <1>2, ParseSame DEF ServerInv, parseVars, handlerVars
  <1>6. QED
    BY <1>2, <1>3, <1>4, <1>5 DEF ServerInv

LEMMA LeaveStep ==
    ASSUME ServerInv, NEW c \in Clients, Leave(c), History PROVE ServerInv'
  <1>1. /\ client[c] = "in" /\ phase # "down"
        /\ client' = [client EXCEPT ![c] = "gone"] /\ ask' = [ask EXCEPT ![c] = NoStatement]
        /\ UNCHANGED <<catalogVars, backlog, loopVars, parseVars, handlerVars, conn>>
    BY DEF Leave, ServerInv, QueueInv
  <1>2. TypeInv' /\ ProgInv' /\ FdInv' /\ SocketsKept /\ phase' = phase /\ kernel' = kernel
    BY <1>1, Untouched DEF catalogVars
  <1>3. QueueInv'
    <2>1. client \in [Clients -> {"out", "queued", "in", "gone"}]
      BY DEF ServerInv, QueueInv
    <2>2. \A d \in Clients : client'[d] = IF d = c THEN "gone" ELSE client[d]
      BY <1>1, <2>1
    <2>3. client' \in [Clients -> {"out", "queued", "in", "gone"}]
      BY <1>1, <2>1
    <2>4. backlog \in Seq(Clients) /\ \A i \in DOMAIN backlog : backlog[i] \in Clients /\ backlog[i] # c
      BY <1>1 DEF ServerInv, QueueInv
    <2>5. \A i \in DOMAIN backlog' : client'[backlog'[i]] = "queued"
      BY <1>1, <2>2, <2>4 DEF ServerInv, QueueInv
    <2>6. \A fd \in Fds : kernel[fd] \in Clients => client'[kernel[fd]] \in {"in", "gone"}
      BY <2>2 DEF ServerInv, QueueInv
    <2>7. QED
      BY <1>1, <1>2, <2>3, <2>5, <2>6 DEF ServerInv, QueueInv
  <1>4. SocketInv'
    BY <1>1, <1>2 DEF ServerInv, SocketInv, Serving, loopVars, handlerVars
  <1>5. ParseInv'
    <2>1. NoStatement \in Statements \cup {NoStatement}
      OBVIOUS
    <2>2. QED
      BY <1>1, <1>2, <2>1, AskSame DEF ServerInv, parseVars, handlerVars
  <1>6. QED
    BY <1>2, <1>3, <1>4, <1>5 DEF ServerInv

LEMMA SendStep ==
    ASSUME ServerInv, NEW c \in Clients, NEW s \in Statements, Send(c, s), History PROVE ServerInv'
  <1>1. /\ ask' = [ask EXCEPT ![c] = s] /\ phase # "down"
        /\ UNCHANGED <<catalogVars, client, backlog, loopVars, parseVars, handlerVars, conn>>
    BY DEF Send, ServerInv, QueueInv
  <1>2. TypeInv' /\ ProgInv' /\ FdInv' /\ SocketsKept /\ phase' = phase /\ kernel' = kernel
    BY <1>1, Untouched DEF catalogVars
  <1>3. QueueInv' /\ SocketInv'
    BY <1>1, <1>2, SocketsSame DEF ServerInv, loopVars, handlerVars
  <1>4. ParseInv'
    BY <1>1, <1>2, AskSame DEF ServerInv, parseVars, handlerVars
  <1>5. QED
    BY <1>2, <1>3, <1>4 DEF ServerInv

LEMMA AcceptLockStep ==
    ASSUME ServerInv, AcceptLock, History PROVE ServerInv'
  <1>1. /\ ~held /\ held' = TRUE /\ acc' = "accept"
        /\ UNCHANGED <<catalogVars, socketVars, sockfd, parseVars, handlerVars, conn>>
    BY DEF AcceptLock
  <1>2. TypeInv' /\ ProgInv' /\ FdInv' /\ SocketsKept /\ phase' = phase /\ kernel' = kernel
    BY <1>1, Untouched DEF catalogVars
  <1>3. QueueInv'
    BY <1>1, <1>2 DEF ServerInv, QueueInv, socketVars
  <1>4. \A s \in Sessions : stage[s] # "born"
    BY <1>1 DEF ServerInv, SocketInv
  <1>5. SocketInv'
    BY <1>1, <1>2, <1>4 DEF ServerInv, SocketInv, Serving, handlerVars
  <1>6. ParseInv'
    BY <1>1, <1>2, ParseSame DEF ServerInv, socketVars, parseVars, handlerVars, AcceptLock
  <1>7. QED
    BY <1>2, <1>3, <1>5, <1>6 DEF ServerInv

LEMMA AcceptErrorStep ==
    ASSUME ServerInv, AcceptError, History PROVE ServerInv'
  <1>1. /\ acc = "accept" /\ acc' = "lock" /\ phase = "up"
        /\ UNCHANGED <<catalogVars, socketVars, sockfd, held, parseVars, handlerVars, conn>>
    BY DEF AcceptError
  <1>2. TypeInv' /\ ProgInv' /\ FdInv' /\ SocketsKept /\ phase' = phase /\ kernel' = kernel
    BY <1>1, Untouched DEF catalogVars
  <1>3. QueueInv'
    BY <1>1, <1>2 DEF ServerInv, QueueInv, socketVars
  <1>4. SocketInv'
    BY <1>1, <1>2 DEF ServerInv, SocketInv, Serving, handlerVars
  <1>5. ParseInv'
    BY <1>1, <1>2, ParseSame DEF ServerInv, socketVars, parseVars, handlerVars
  <1>6. QED
    BY <1>2, <1>3, <1>4, <1>5 DEF ServerInv

LEMMA SpawnStep ==
    ASSUME ServerInv, NEW s \in Sessions, Spawn(s), History PROVE ServerInv'
  <1>1. /\ acc = "spawn" /\ stage[s] = "free" /\ acc' = "lock" /\ phase = "up"
        /\ stage' = [stage EXCEPT ![s] = "born"] /\ conn' = [conn EXCEPT ![s] = kernel[sockfd]]
        /\ UNCHANGED <<catalogVars, socketVars, sockfd, held, parseVars, fdOf, data_recv, query>>
    BY DEF Spawn
  <1>2. TypeInv' /\ ProgInv' /\ FdInv' /\ SocketsKept /\ phase' = phase /\ kernel' = kernel
    BY <1>1, Untouched DEF catalogVars
  <1>3. QueueInv'
    BY <1>1, <1>2 DEF ServerInv, QueueInv, socketVars
  <1>4. /\ stage \in [Sessions -> {"free", "born", "reading", "lex", "parsed", "failed", "plan", "run", "done"}]
        /\ conn \in [Sessions -> Clients \cup {"none"}]
        /\ held /\ sockfd \in Fds /\ kernel[sockfd] \in Clients
        /\ \A r \in Sessions : stage[r] # "born"
        /\ \A r \in Sessions : Serving(r) => fdOf[r] # sockfd
    BY <1>1 DEF ServerInv, SocketInv
  <1>5. /\ stage'[s] = "born" /\ conn'[s] = kernel[sockfd]
        /\ \A r \in Sessions : r # s => stage'[r] = stage[r] /\ conn'[r] = conn[r]
        /\ stage' \in [Sessions -> {"free", "born", "reading", "lex", "parsed", "failed", "plan", "run", "done"}]
        /\ conn' \in [Sessions -> Clients \cup {"none"}]
    BY <1>1, <1>4
  <1>6. \A r \in Sessions : /\ Serving(r)' => Serving(r) /\ r # s
                            /\ stage'[r] = "born" => r = s
    BY <1>4, <1>5 DEF Serving
  <1>7. SocketInv'
    <2>1. \A r \in Sessions : Serving(r)' => fdOf'[r] # sockfd'
      BY <1>1, <1>4, <1>6
    <2>2. \A r \in Sessions : Serving(r)' =>
              fdOf'[r] \in Fds /\ kernel'[fdOf'[r]] = conn'[r] /\ conn'[r] \in Clients
      BY <1>1, <1>2, <1>5, <1>6 DEF ServerInv, SocketInv
    <2>3. \A r, q \in Sessions : Serving(r)' /\ Serving(q)' /\ r # q => fdOf'[r] # fdOf'[q]
      BY <1>1, <1>6 DEF ServerInv, SocketInv
    <2>4. \A r \in Sessions : stage'[r] = "born" =>
              sockfd' \in Fds /\ kernel'[sockfd'] = conn'[r] /\ conn'[r] \in Clients
      BY <1>1, <1>2, <1>4, <1>5, <1>6
    <2>5. /\ held' = held /\ held \in BOOLEAN /\ fdOf' \in [Sessions -> Fds \cup {0}]
          /\ acc' = "lock"
      BY <1>1 DEF ServerInv, SocketInv
    <2>6. \A q, r \in Sessions : stage'[q] = "born" => held' /\ (stage'[r] = "born" => r = q)
      BY <1>4, <1>6, <2>5
    <2>7. QED
      BY <2>1, <2>2, <2>3, <2>4, <2>5, <2>6, <1>5 DEF SocketInv
  <1>8. ParseInv'
    <2>1. \A r \in Sessions : stage'[r] # "born" => stage'[r] = stage[r]
      BY <1>5
    <2>2. ask' \in [Clients -> Statements \cup {NoStatement}]
      BY <1>1 DEF ServerInv, ParseInv, socketVars
    <2>3. QED
      BY <1>1, <1>2, <2>1, <2>2, StageSame DEF ServerInv, parseVars
  <1>9. QED
    BY <1>2, <1>3, <1>7, <1>8 DEF ServerInv


LEMMA AcceptStep ==
    ASSUME ServerInv, Accept, History PROVE ServerInv'
  <1>1. PICK c, fd : c = Head(backlog) /\ fd = LowestFree
    OBVIOUS
  <1>2. /\ phase = "up" /\ acc = "accept" /\ backlog # <<>> /\ sockfd' = fd /\ acc' = "spawn"
        /\ kernel' = [kernel EXCEPT ![fd] = c]
        /\ client' = [client EXCEPT ![c] = "in"] /\ backlog' = Tail(backlog)
        /\ UNCHANGED <<files, meta, db, fhs, ihs, path2fd, prog, phase, ask, held>>
        /\ UNCHANGED <<parseVars, handlerVars, conn>>
    BY <1>1 DEF Accept, handleVars
  <1>3. fd \in Fds /\ kernel[fd] = "free"
    BY <1>1, LowestIsFree DEF ServerInv
  <1>4. /\ kernel \in [Fds -> Paths \cup Clients \cup {"free", "listen"}]
        /\ client \in [Clients -> {"out", "queued", "in", "gone"}] /\ backlog \in Seq(Clients)
        /\ \A i \in DOMAIN backlog : client[backlog[i]] = "queued"
        /\ \A i, j \in DOMAIN backlog : backlog[i] = backlog[j] => i = j
        /\ \A g \in Fds : kernel[g] \in Clients => client[kernel[g]] \in {"in", "gone"}
    BY DEF ServerInv, TypeInv, QueueInv
  <1>5. /\ c \in Clients /\ c = backlog[1] /\ 1 \in DOMAIN backlog /\ client[c] = "queued"
        /\ Tail(backlog) \in Seq(Clients)
        /\ \A i \in DOMAIN Tail(backlog) : i + 1 \in DOMAIN backlog /\ Tail(backlog)[i] = backlog[i + 1]
                                           /\ i \in Nat /\ i # 0
    BY <1>1, <1>2, <1>4
  <1>6. kernel'[fd] = c /\ \A g \in Fds : g # fd => kernel'[g] = kernel[g]
    BY <1>2, <1>3, <1>4
  <1>7. TypeInv' /\ ProgInv'
    <2>1. kernel' \in [Fds -> Paths \cup Clients \cup {"free", "listen"}]
      BY <1>2, <1>4, <1>5
    <2>2. QED
      BY <1>2, <2>1 DEF ServerInv, TypeInv, OneFile, ProgInv
  <1>8. FdInv'
    <2>1. ASSUME NEW p \in DOMAIN path2fd PROVE path2fd[p] \in Fds /\ kernel'[path2fd[p]] = p
      <3>1. path2fd[p] \in Fds /\ kernel[path2fd[p]] = p /\ p \in Paths
        BY DEF ServerInv, FdInv
      <3>2. path2fd[p] # fd
        BY <3>1, <1>3, NamesApart
      <3>3. QED
        BY <3>1, <3>2, <1>6
    <2>2. ASSUME NEW g \in Fds, kernel'[g] \in Paths
          PROVE kernel'[g] \in DOMAIN path2fd /\ path2fd[kernel'[g]] = g
      <3>1. g # fd
        BY <2>2, <1>5, <1>6, NamesApart
      <3>2. QED
        BY <3>1, <2>2, <1>6 DEF ServerInv, FdInv
    <2>3. \A g \in Fds : kernel'[g] = "listen" => kernel[g] = "listen"
      BY <1>5, <1>6, NamesApart
    <2>4. QED
      BY <2>1, <2>2, <2>3, <1>2 DEF ServerInv, FdInv
  <1>9. \A g \in Fds : kernel[g] # c
    BY <1>4, <1>5
  <1>10. QueueInv'
    <2>1. client' \in [Clients -> {"out", "queued", "in", "gone"}] /\ backlog' \in Seq(Clients)
      BY <1>2, <1>4, <1>5
    <2>2. \A i \in DOMAIN backlog' : backlog'[i] # c /\ client[backlog'[i]] = "queued" /\ backlog'[i] \in Clients
      BY <1>2, <1>4, <1>5
    <2>3. \A i \in DOMAIN backlog' : client'[backlog'[i]] = "queued"
      BY <1>2, <1>4, <2>2
    <2>4. \A i, j \in DOMAIN backlog' : backlog'[i] = backlog'[j] => i = j
      BY <1>2, <1>4, <1>5
    <2>5. \A d \in Clients : client'[d] = IF d = c THEN "in" ELSE client[d]
      BY <1>2, <1>4
    <2>6. \A g \in Fds : kernel'[g] \in Clients => client'[kernel'[g]] \in {"in", "gone"}
      BY <1>4, <1>5, <1>6, <2>5
    <2>7. \A g, h \in Fds : kernel'[g] \in Clients /\ kernel'[g] = kernel'[h] => g = h
      BY <1>6, <1>9 DEF ServerInv, QueueInv
    <2>8. QED
      BY <1>2, <2>1, <2>3, <2>4, <2>6, <2>7 DEF QueueInv
  <1>11. SocketInv'
    <2>1. \A s \in Sessions : stage[s] # "born"
      BY <1>2 DEF ServerInv, SocketInv
    <2>2. ASSUME NEW s \in Sessions, Serving(s)
          PROVE fdOf[s] \in Fds /\ kernel[fdOf[s]] = conn[s] /\ conn[s] \in Clients /\ fdOf[s] # fd
      BY <2>2, <1>3, NamesApart DEF ServerInv, SocketInv
    <2>3. \A s \in Sessions : Serving(s)' =>
            /\ fdOf'[s] \in Fds /\ kernel'[fdOf'[s]] = conn'[s] /\ conn'[s] \in Clients /\ fdOf'[s] # sockfd'
      BY <1>2, <1>6, <2>2 DEF handlerVars, Serving
    <2>4. sockfd' \in Fds /\ kernel'[sockfd'] \in Clients
      BY <1>2, <1>3, <1>5, <1>6
    <2>5. QED
      BY <1>2, <2>1, <2>3, <2>4 DEF ServerInv, SocketInv, Serving, handlerVars
  <1>12. ParseInv'
    BY <1>2, ParseSame DEF ServerInv, parseVars, handlerVars
  <1>13. QED
    BY <1>7, <1>8, <1>10, <1>11, <1>12 DEF ServerInv

LEMMA HandlerStartStep ==
    ASSUME ServerInv, NEW s \in Sessions, HandlerStart(s), History PROVE ServerInv'
  <1>1. /\ stage[s] = "born" /\ fdOf' = [fdOf EXCEPT ![s] = sockfd] /\ held' = FALSE
        /\ stage' = [stage EXCEPT ![s] = "reading"]
        /\ UNCHANGED <<catalogVars, socketVars, acc, sockfd, parseVars, data_recv, query, conn>>
    BY DEF HandlerStart
  <1>2. TypeInv' /\ ProgInv' /\ FdInv' /\ SocketsKept /\ phase' = phase /\ kernel' = kernel
    BY <1>1, Untouched DEF catalogVars
  <1>3. QueueInv'
    BY <1>1, <1>2 DEF ServerInv, QueueInv, socketVars
  <1>4. /\ stage \in [Sessions -> {"free", "born", "reading", "lex", "parsed", "failed", "plan", "run", "done"}]
        /\ fdOf \in [Sessions -> Fds \cup {0}] /\ acc = "lock"
        /\ sockfd \in Fds /\ kernel[sockfd] = conn[s] /\ conn[s] \in Clients
        /\ \A r \in Sessions : stage[r] = "born" => r = s
        /\ \A r \in Sessions : Serving(r) => fdOf[r] # sockfd
    BY <1>1 DEF ServerInv, SocketInv
  <1>5. /\ stage'[s] = "reading" /\ fdOf'[s] = sockfd
        /\ \A r \in Sessions : r # s => stage'[r] = stage[r] /\ fdOf'[r] = fdOf[r]
        /\ stage' \in [Sessions -> {"free", "born", "reading", "lex", "parsed", "failed", "plan", "run", "done"}]
        /\ fdOf' \in [Sessions -> Fds \cup {0}]
    BY <1>1, <1>4
  <1>6. \A r \in Sessions : stage'[r] # "born" /\ (r # s /\ Serving(r)' => Serving(r))
    BY <1>4, <1>5 DEF Serving
  <1>7. \A r \in Sessions : Serving(r)' =>
            fdOf'[r] \in Fds /\ kernel'[fdOf'[r]] = conn'[r] /\ conn'[r] \in Clients
    BY <1>1, <1>2, <1>4, <1>5, <1>6 DEF ServerInv, SocketInv
  <1>8. \A r, q \in Sessions : Serving(r)' /\ Serving(q)' /\ r # q => fdOf'[r] # fdOf'[q]
    BY <1>4, <1>5, <1>6 DEF ServerInv, SocketInv
  <1>9. acc' = "lock" /\ held' \in BOOLEAN /\ conn' \in [Sessions -> Clients \cup {"none"}]
    BY <1>1, <1>4 DEF ServerInv, SocketInv
  <1>10. SocketInv'
    BY <1>5, <1>6, <1>7, <1>8, <1>9 DEF SocketInv
  <1>11. phase # "down"
    <2>1. kernel[sockfd] = conn[s] /\ sockfd \in Fds /\ conn[s] \in Clients
      BY <1>4
    <2>2. client[conn[s]] \in {"in", "gone"}
      BY <2>1 DEF ServerInv, QueueInv
    <2>3. QED
      BY <2>1, <2>2 DEF ServerInv, QueueInv
  <1>12. ParseInv'
    <2>1. \A r \in Sessions : stage'[r] # "reading" => stage'[r] = stage[r]
      BY <1>5
    <2>2. ask' \in [Clients -> Statements \cup {NoStatement}]
      BY <1>1 DEF ServerInv, ParseInv, socketVars
    <2>3. QED
      BY <1>1, <1>2, <1>11, <2>1, <2>2, StageSame DEF ServerInv, parseVars
  <1>13. QED
    BY <1>2, <1>3, <1>10, <1>12 DEF ServerInv

\* A thread that serves a connection has it behind its descriptor, so the process is there.
LEMMA ServedClient ==
    ASSUME ServerInv, NEW s \in Sessions, Serving(s)
    PROVE  /\ fdOf[s] \in Fds /\ kernel[fdOf[s]] = conn[s] /\ conn[s] \in Clients
           /\ client[conn[s]] \in {"in", "gone"} /\ phase \notin {"down", "starting"}
  <1>1. fdOf[s] \in Fds /\ kernel[fdOf[s]] = conn[s] /\ conn[s] \in Clients
    BY DEF ServerInv, SocketInv
  <1>2. client[conn[s]] \in {"in", "gone"}
    BY <1>1 DEF ServerInv, QueueInv
  <1>3. QED
    BY <1>1, <1>2 DEF ServerInv, QueueInv

\* A thread that serves a connection goes on serving it.
LEMMA ServesOn ==
    ASSUME ServerInv, NEW s \in Sessions, Serving(s),
           NEW to \in {"reading", "lex", "parsed", "failed", "plan", "run", "done"},
           stage' = [stage EXCEPT ![s] = to], phase' = phase,
           UNCHANGED <<kernel, client, backlog, acc, sockfd, held, fdOf, conn>>
    PROVE  /\ QueueInv' /\ SocketInv' /\ stage'[s] = to
           /\ \A r \in Sessions : r # s => stage'[r] = stage[r]
  <1>1. QueueInv'
    BY DEF ServerInv, QueueInv
  <1>2. stage \in [Sessions -> {"free", "born", "reading", "lex", "parsed", "failed", "plan", "run", "done"}]
    BY DEF ServerInv, SocketInv
  <1>3. /\ stage' \in [Sessions -> {"free", "born", "reading", "lex", "parsed", "failed", "plan", "run", "done"}]
        /\ stage'[s] = to /\ \A r \in Sessions : r # s => stage'[r] = stage[r]
    BY <1>2
  <1>4. \A r \in Sessions : /\ stage'[r] = "born" <=> stage[r] = "born"
                            /\ Serving(r)' <=> Serving(r)
    BY <1>3 DEF Serving
  <1>5. SocketInv'
    BY <1>3, <1>4 DEF ServerInv, SocketInv
  <1>6. QED
    BY <1>1, <1>3, <1>5


LEMMA ReadStep ==
    ASSUME ServerInv, NEW s \in Sessions, Read(s), History PROVE ServerInv'
  <1>1. PICK c : c = kernel[fdOf[s]]
    OBVIOUS
  <1>2. /\ stage[s] = "reading" /\ data_recv' = [data_recv EXCEPT ![s] = ask[c]]
        /\ stage' = [stage EXCEPT ![s] = "lex"]
        /\ UNCHANGED <<catalogVars, socketVars, loopVars, parseVars, fdOf, query, conn>>
    BY <1>1 DEF Read
  <1>3. Serving(s) /\ c \in Clients /\ phase # "down"
    BY <1>1, <1>2, ServedClient DEF Serving
  <1>4. TypeInv' /\ ProgInv' /\ FdInv' /\ phase' = phase /\ kernel' = kernel
    BY <1>2, Untouched DEF catalogVars
  <1>5. /\ QueueInv' /\ SocketInv' /\ stage'[s] = "lex"
        /\ \A r \in Sessions : r # s => stage'[r] = stage[r]
    BY <1>2, <1>3, <1>4, ServesOn DEF socketVars, loopVars
  <1>6. ParseInv'
    <2>1. /\ commented' \in BOOLEAN /\ (commented => commented')
          /\ \A d \in Clients : ask'[d].op = "open_comment" => commented'
      BY <1>3, <1>4, ParsedComment DEF ServerInv, ParseInv
    <2>2. /\ data_recv' \in [Sessions -> Statements \cup {NoStatement}] /\ data_recv'[s] = ask[c]
          /\ \A r \in Sessions : r # s => data_recv'[r] = data_recv[r]
      BY <1>2, <1>3 DEF ServerInv, ParseInv
    <2>3. \A r \in Sessions : data_recv'[r].op = "open_comment" => commented'
      BY <1>3, <2>1, <2>2 DEF ServerInv, ParseInv
    <2>4. QED
      BY <1>2, <1>5, <2>1, <2>2, <2>3 DEF ServerInv, ParseInv, parseVars, socketVars
  <1>7. QED
    BY <1>4, <1>5, <1>6 DEF ServerInv

LEMMA EndSessionStep ==
    ASSUME ServerInv, NEW s \in Sessions, EndSession(s), History PROVE ServerInv'
  <1>1. PICK c, fd : c = kernel[fdOf[s]] /\ fd = fdOf[s]
    OBVIOUS
  <1>2. /\ stage[s] = "reading"
        /\ client' = [client EXCEPT ![c] = "out"] /\ ask' = [ask EXCEPT ![c] = NoStatement]
        /\ kernel' = [kernel EXCEPT ![fd] = "free"]
        /\ stage' = [stage EXCEPT ![s] = "free"] /\ conn' = [conn EXCEPT ![s] = "none"]
        /\ fdOf' = [fdOf EXCEPT ![s] = 0]
        /\ UNCHANGED <<files, meta, db, fhs, ihs, path2fd, prog, phase>>
        /\ UNCHANGED <<backlog, loopVars, parseVars, data_recv, query>>
    BY <1>1 DEF EndSession, handleVars
  <1>3. Serving(s) /\ c \in Clients /\ fd \in Fds /\ kernel[fd] = c /\ phase # "down"
        /\ client[c] \in {"in", "gone"}
    BY <1>1, <1>2, ServedClient DEF Serving
  <1>4. /\ kernel \in [Fds -> Paths \cup Clients \cup {"free", "listen"}]
        /\ client \in [Clients -> {"out", "queued", "in", "gone"}]
    BY DEF ServerInv, TypeInv, QueueInv
  <1>5. kernel'[fd] = "free" /\ \A g \in Fds : g # fd => kernel'[g] = kernel[g]
    BY <1>2, <1>3, <1>4
  <1>6. TypeInv' /\ ProgInv'
    <2>1. kernel' \in [Fds -> Paths \cup Clients \cup {"free", "listen"}]
      BY <1>2, <1>4
    <2>2. QED
      BY <1>2, <2>1 DEF ServerInv, TypeInv, OneFile, ProgInv
  <1>7. FdInv'
    <2>1. ASSUME NEW p \in DOMAIN path2fd PROVE path2fd[p] \in Fds /\ kernel'[path2fd[p]] = p
      <3>1. path2fd[p] \in Fds /\ kernel[path2fd[p]] = p /\ p \in Paths
        BY DEF ServerInv, FdInv
      <3>2. path2fd[p] # fd
        BY <3>1, <1>3, NamesApart
      <3>3. QED
        BY <3>1, <3>2, <1>5
    <2>2. ASSUME NEW g \in Fds, kernel'[g] \in Paths
          PROVE kernel'[g] \in DOMAIN path2fd /\ path2fd[kernel'[g]] = g
      <3>1. g # fd
        BY <2>2, <1>5, NamesApart
      <3>2. QED
        BY <3>1, <2>2, <1>5 DEF ServerInv, FdInv
    <2>3. \A g \in Fds : kernel'[g] = "listen" => kernel[g] = "listen"
      BY <1>5
    <2>4. QED
      BY <2>1, <2>2, <2>3, <1>2 DEF ServerInv, FdInv
  <1>8. \A g \in Fds : kernel'[g] \in Clients => kernel'[g] = kernel[g] /\ kernel[g] # c
    BY <1>3, <1>5, NamesApart DEF ServerInv, QueueInv
  <1>9. QueueInv'
    <2>1. client' \in [Clients -> {"out", "queued", "in", "gone"}]
      BY <1>2, <1>4
    <2>2. \A d \in Clients : client'[d] = IF d = c THEN "out" ELSE client[d]
      BY <1>2, <1>4
    <2>3. backlog \in Seq(Clients) /\ \A i \in DOMAIN backlog : backlog[i] \in Clients /\ backlog[i] # c
      BY <1>3 DEF ServerInv, QueueInv
    <2>4. \A i \in DOMAIN backlog' : client'[backlog'[i]] = "queued"
      BY <1>2, <2>2, <2>3 DEF ServerInv, QueueInv
    <2>5. \A g \in Fds : kernel'[g] \in Clients => client'[kernel'[g]] \in {"in", "gone"}
      BY <1>8, <2>2 DEF ServerInv, QueueInv
    <2>6. \A g, h \in Fds : kernel'[g] \in Clients /\ kernel'[g] = kernel'[h] => g = h
      BY <1>8 DEF ServerInv, QueueInv
    <2>7. QED
      BY <1>2, <1>3, <2>1, <2>4, <2>5, <2>6 DEF ServerInv, QueueInv
  <1>10. /\ stage \in [Sessions -> {"free", "born", "reading", "lex", "parsed", "failed", "plan", "run", "done"}]
         /\ conn \in [Sessions -> Clients \cup {"none"}] /\ fdOf \in [Sessions -> Fds \cup {0}]
    BY DEF ServerInv, SocketInv
  <1>11. /\ stage' \in [Sessions -> {"free", "born", "reading", "lex", "parsed", "failed", "plan", "run", "done"}]
         /\ conn' \in [Sessions -> Clients \cup {"none"}] /\ fdOf' \in [Sessions -> Fds \cup {0}]
         /\ stage'[s] = "free"
         /\ \A r \in Sessions : r # s => stage'[r] = stage[r] /\ conn'[r] = conn[r] /\ fdOf'[r] = fdOf[r]
    BY <1>2, <1>10
  <1>12. \A r \in Sessions : /\ Serving(r)' => Serving(r) /\ r # s
                             /\ stage'[r] = "born" => stage[r] = "born" /\ r # s
    BY <1>11 DEF Serving
  <1>13. SocketInv'
    <2>1. acc' = acc /\ sockfd' = sockfd /\ held' = held
      BY <1>2 DEF loopVars
    <2>2. ASSUME NEW r \in Sessions, acc = "spawn" \/ stage[r] = "born" PROVE sockfd # fd
      BY <1>1, <1>3, <2>2 DEF ServerInv, SocketInv
    <2>3. acc' = "spawn" => sockfd' \in Fds /\ kernel'[sockfd'] \in Clients
      BY <1>5, <2>1, <2>2 DEF ServerInv, SocketInv
    <2>4. \A r \in Sessions : stage'[r] = "born" =>
            sockfd' \in Fds /\ kernel'[sockfd'] = conn'[r] /\ conn'[r] \in Clients
      BY <1>5, <1>11, <1>12, <2>1, <2>2 DEF ServerInv, SocketInv
    <2>5. \A r, q \in Sessions : Serving(q)' /\ (acc' = "spawn" \/ stage'[r] = "born") => fdOf'[q] # sockfd'
      BY <1>11, <1>12, <2>1 DEF ServerInv, SocketInv
    <2>6. \A r \in Sessions : Serving(r)' =>
            fdOf'[r] \in Fds /\ kernel'[fdOf'[r]] = conn'[r] /\ conn'[r] \in Clients
      <3>1. ASSUME NEW r \in Sessions, Serving(r), r # s
            PROVE fdOf[r] \in Fds /\ kernel[fdOf[r]] = conn[r] /\ conn[r] \in Clients /\ fdOf[r] # fd
        BY <3>1, <1>1, <1>3 DEF ServerInv, SocketInv
      <3>2. QED
        BY <3>1, <1>5, <1>11, <1>12
    <2>7. \A r, q \in Sessions : Serving(r)' /\ Serving(q)' /\ r # q => fdOf'[r] # fdOf'[q]
      BY <1>11, <1>12 DEF ServerInv, SocketInv
    <2>8. /\ acc' # "lock" => held' /\ \A r \in Sessions : stage'[r] # "born"
          /\ \A r, q \in Sessions : stage'[r] = "born" => held' /\ (stage'[q] = "born" => q = r)
          /\ acc' \in {"lock", "accept", "spawn"} /\ held' \in BOOLEAN
      BY <1>12, <2>1 DEF ServerInv, SocketInv
    <2>9. QED
      BY <2>3, <2>4, <2>5, <2>6, <2>7, <2>8, <1>11 DEF SocketInv
  <1>14. ParseInv'
    <2>1. \A r \in Sessions : stage'[r] # "free" => stage'[r] = stage[r]
      BY <1>11
    <2>2. ask' \in [Clients -> Statements \cup {NoStatement}]
      BY <1>2 DEF ServerInv, ParseInv
    <2>3. QED
      BY <1>2, <1>3, <2>1, <2>2, StageSame DEF ServerInv, parseVars
  <1>15. QED
    BY <1>6, <1>7, <1>9, <1>13, <1>14 DEF ServerInv

LEMMA TreeOf ==
    ASSUME NEW text \in Statements \cup {NoStatement}, lexer \in {"initial", "comment"}
    PROVE  LET p == Parsed(text)
           IN /\ p.lexer \in {"initial", "comment"}
              /\ p.lexer = "comment" => lexer = "comment" \/ text.op = "open_comment"
              /\ p.ok = TRUE => \/ p.tree = text /\ text \in Ddl
                                \/ p.tree = NoStatement /\ (text \in Ddl => lexer = "comment")
              /\ p.ok = FALSE => text \notin Ddl
              /\ p.ok \in BOOLEAN
  <1>1. CASE lexer = "comment" \/ text.op = "open_comment"
    <2>1. Parsed(text) = [ok |-> TRUE, tree |-> NoStatement,
                          lexer |-> IF text.op = "close_comment" THEN "initial" ELSE "comment"]
      <3>1. text \in Ddl /\ lexer = "initial" => FALSE
        BY <1>1 DEF Ddl
      <3>2. QED
        BY <1>1, <3>1 DEF Parsed
    <2>2. text \in Ddl => lexer = "comment"
      BY <1>1 DEF Ddl
    <2>3. QED
      BY <1>1, <2>1, <2>2
  <1>2. CASE ~(lexer = "comment" \/ text.op = "open_comment") /\ text \in Ddl
    <2>1. Parsed(text) = [ok |-> TRUE, tree |-> text, lexer |-> "initial"]
      BY <1>2 DEF Parsed
    <2>2. QED
      BY <1>2, <2>1
  <1>3. CASE ~(lexer = "comment" \/ text.op = "open_comment") /\ text \notin Ddl
    <2>1. Parsed(text) = [ok |-> FALSE, tree |-> parse_tree, lexer |-> "initial"]
      BY <1>3 DEF Parsed
    <2>2. QED
      BY <1>3, <2>1
  <1>4. QED
    BY <1>1, <1>2, <1>3


\* No two threads are between yyparse and the release of buffer_mutex.
LEMMA OneParses ==
    ASSUME ServerInv, NEW s \in Sessions, buffer \in {"none", s}
    PROVE  \A r \in Sessions : r # s => stage[r] \notin {"parsed", "failed"}
  <1>1. \A r \in Sessions : r # "none"
    BY CatalogAssumption
  <1>2. QED
    BY <1>1 DEF ServerInv, ParseInv

LEMMA ParseStep ==
    ASSUME ServerInv, NEW s \in Sessions, Parse(s), History PROVE ServerInv'
  <1>1. PICK p : p = Parsed(data_recv[s])
    OBVIOUS
  <1>2. PICK to : to = IF p.ok THEN "parsed" ELSE "failed"
    OBVIOUS
  <1>3. /\ stage[s] = "lex" /\ buffer = "none" /\ buffer' = s
        /\ parse_tree' = p.tree /\ lexer' = p.lexer /\ stage' = [stage EXCEPT ![s] = to]
        /\ UNCHANGED <<catalogVars, socketVars, loopVars, fdOf, data_recv, query, conn>>
    BY <1>1, <1>2 DEF Parse
  <1>4. Serving(s) /\ phase # "down"
    BY <1>3, ServedClient DEF Serving
  <1>5. TypeInv' /\ ProgInv' /\ FdInv' /\ phase' = phase /\ kernel' = kernel
    BY <1>3, Untouched DEF catalogVars
  <1>6. to \in {"parsed", "failed"}
    BY <1>2
  <1>7. /\ QueueInv' /\ SocketInv' /\ stage'[s] = to
        /\ \A r \in Sessions : r # s => stage'[r] = stage[r]
    BY <1>3, <1>4, <1>5, <1>6, ServesOn DEF socketVars, loopVars
  <1>8. ParseInv'
    <2>1. /\ commented' \in BOOLEAN /\ (commented => commented')
          /\ \A d \in Clients : ask'[d].op = "open_comment" => commented'
      BY <1>4, <1>5, ParsedComment DEF ServerInv, ParseInv
    <2>2. /\ data_recv[s] \in Statements \cup {NoStatement} /\ lexer \in {"initial", "comment"}
          /\ lexer = "comment" \/ data_recv[s].op = "open_comment" => commented
      BY DEF ServerInv, ParseInv
    <2>3. /\ p.lexer \in {"initial", "comment"}
          /\ p.lexer = "comment" => lexer = "comment" \/ data_recv[s].op = "open_comment"
          /\ p.ok = TRUE => \/ p.tree = data_recv[s] /\ data_recv[s] \in Ddl
                            \/ p.tree = NoStatement /\ (data_recv[s] \in Ddl => lexer = "comment")
          /\ p.ok = FALSE => data_recv[s] \notin Ddl
          /\ p.ok \in BOOLEAN
      BY <1>1, <2>2, TreeOf
    <2>4. (p.ok = TRUE /\ to = "parsed") \/ (p.ok = FALSE /\ to = "failed")
      <3>1. CASE p.ok = TRUE
        BY <1>2, <3>1
      <3>2. CASE p.ok = FALSE
        BY <1>2, <3>2
      <3>3. QED
        BY <2>3, <3>1, <3>2
    <2>5. \A r \in Sessions : r # s => stage'[r] \notin {"parsed", "failed"}
      BY <1>3, <1>7, OneParses
    <2>6. \A r \in Sessions : stage'[r] \in {"parsed", "failed"} => buffer' = r
      BY <1>3, <2>5
    <2>7. \A r \in Sessions : stage'[r] = "parsed" =>
            \/ parse_tree' = data_recv'[r] /\ data_recv'[r] \in Ddl
            \/ parse_tree' = NoStatement /\ (data_recv'[r] \in Ddl => commented')
      <3>1. to = "parsed" => \/ p.tree = data_recv[s] /\ data_recv[s] \in Ddl
                             \/ p.tree = NoStatement /\ (data_recv[s] \in Ddl => commented')
        BY <2>1, <2>2, <2>3, <2>4
      <3>2. QED
        BY <1>3, <1>7, <2>5, <3>1
    <2>8. \A r \in Sessions : stage'[r] = "failed" => data_recv'[r] \notin Ddl
      BY <1>3, <1>7, <2>3, <2>4, <2>5
    <2>9. lexer' \in {"initial", "comment"} /\ (lexer' = "comment" => commented')
      BY <1>3, <2>1, <2>2, <2>3
    <2>10. \A r \in Sessions : /\ stage'[r] \in {"plan", "run", "done"} => stage'[r] = stage[r]
      BY <1>6, <1>7
    <2>11. QED
      BY <1>3, <2>1, <2>6, <2>7, <2>8, <2>9, <2>10 DEF ServerInv, ParseInv, socketVars
  <1>9. QED
    BY <1>5, <1>7, <1>8 DEF ServerInv

LEMMA AnalyzeStep ==
    ASSUME ServerInv, NEW s \in Sessions, Analyze(s), History PROVE ServerInv'
  <1>1. PICK empty : empty \in BOOLEAN /\ empty = (stage[s] = "failed" \/ parse_tree = NoStatement)
    OBVIOUS
  <1>2. PICK to : to = IF empty THEN "done" ELSE "plan"
    OBVIOUS
  <1>3. PICK q : q = IF empty THEN NoStatement ELSE parse_tree
    OBVIOUS
  <1>4. /\ stage[s] \in {"parsed", "failed"} /\ buffer' = "none"
        /\ query' = [query EXCEPT ![s] = q] /\ stage' = [stage EXCEPT ![s] = to]
        /\ UNCHANGED <<catalogVars, socketVars, loopVars, parse_tree, lexer, fdOf, data_recv, conn>>
    BY <1>1, <1>2, <1>3 DEF Analyze
  <1>5. Serving(s) /\ phase # "down"
    BY <1>4, ServedClient DEF Serving
  <1>6. TypeInv' /\ ProgInv' /\ FdInv' /\ phase' = phase /\ kernel' = kernel
    BY <1>4, Untouched DEF catalogVars
  <1>7. to \in {"done", "plan"}
    BY <1>2
  <1>8. /\ QueueInv' /\ SocketInv' /\ stage'[s] = to
        /\ \A r \in Sessions : r # s => stage'[r] = stage[r]
    BY <1>4, <1>5, <1>6, <1>7, ServesOn DEF socketVars, loopVars
  <1>9. ParseInv'
    <2>1. /\ commented' \in BOOLEAN /\ (commented => commented')
          /\ \A d \in Clients : ask'[d].op = "open_comment" => commented'
      BY <1>5, <1>6, ParsedComment DEF ServerInv, ParseInv
    <2>2. buffer = s
      BY <1>4 DEF ServerInv, ParseInv
    <2>3. \A r \in Sessions : stage'[r] \notin {"parsed", "failed"}
      BY <1>7, <1>8, <2>2, OneParses
    <2>4. \/ to = "done" /\ q = NoStatement /\ (data_recv[s] \in Ddl => commented)
          \/ to = "plan" /\ q = data_recv[s] /\ data_recv[s] \in Ddl
      <3>1. CASE empty
        <4>1. q = NoStatement /\ to = "done"
          BY <3>1, <1>2, <1>3
        <4>2. CASE stage[s] = "failed"
          BY <4>1, <4>2 DEF ServerInv, ParseInv
        <4>3. CASE stage[s] = "parsed" /\ parse_tree = NoStatement
          BY <4>1, <4>3 DEF ServerInv, ParseInv, Ddl, NoStatement
        <4>4. QED
          BY <4>2, <4>3, <3>1, <1>1, <1>4
      <3>2. CASE ~empty
        <4>1. q = parse_tree /\ to = "plan" /\ stage[s] = "parsed" /\ parse_tree # NoStatement
          BY <3>2, <1>1, <1>2, <1>3, <1>4
        <4>2. QED
          BY <4>1 DEF ServerInv, ParseInv
      <3>3. QED
        BY <3>1, <3>2
    <2>5. /\ query' \in [Sessions -> Statements \cup {NoStatement}] /\ query'[s] = q
          /\ \A r \in Sessions : r # s => query'[r] = query[r]
      BY <1>4, <2>4 DEF ServerInv, ParseInv, Statements
    <2>6. \A r \in Sessions : stage'[r] \in {"plan", "run"} => query'[r] = data_recv'[r] /\ query'[r] \in Ddl
      BY <1>4, <1>8, <2>4, <2>5 DEF ServerInv, ParseInv
    <2>7. \A r \in Sessions : stage'[r] = "done" /\ data_recv'[r] \in Ddl => commented'
      BY <1>4, <1>8, <2>1, <2>4 DEF ServerInv, ParseInv
    <2>8. QED
      BY <1>4, <2>1, <2>3, <2>5, <2>6, <2>7 DEF ServerInv, ParseInv, socketVars
  <1>10. QED
    BY <1>6, <1>8, <1>9 DEF ServerInv


LEMMA ExecuteStep ==
    ASSUME ServerInv, NEW s \in Sessions, Execute(s), History PROVE ServerInv'
  <1>1. PICK stmt : stmt = query[s]
    OBVIOUS
  <1>2. /\ stage[s] = "plan" /\ RunDdl(s, stmt) /\ stage' = [stage EXCEPT ![s] = "run"]
        /\ UNCHANGED <<socketVars, loopVars, parseVars, fdOf, data_recv, query, conn>>
    BY <1>1 DEF Execute
  <1>3. Serving(s) /\ phase \notin {"down", "starting"}
    BY <1>2, ServedClient DEF Serving
  <1>4. stmt \in Ddl
    BY <1>1, <1>2 DEF ServerInv, ParseInv
  <1>5. TypeInv' /\ ProgInv' /\ FdInv' /\ phase' = phase /\ kernel' = kernel
    <2>1. CASE Refused(stmt)
      <3>1. UNCHANGED <<files, meta, db, fhs, ihs, path2fd, prog, phase, kernel>>
        BY <2>1, <1>2 DEF RunDdl, handleVars
      <3>2. QED
        BY <3>1, CatalogSame DEF ServerInv
    <2>2. CASE ~Refused(stmt)
      <3>1. PICK calls : calls = CallsOf(stmt)
        OBVIOUS
      <3>2. /\ prog' = [prog EXCEPT ![s] = calls]
            /\ UNCHANGED <<files, meta, db, fhs, ihs, path2fd, phase, kernel>>
        BY <2>2, <3>1, <1>2 DEF RunDdl, Begin, handleVars
      <3>3. calls \in Seq(SessionCall)
        BY <3>1, <1>4, SessionCalls DEF ServerInv, TypeInv
      <3>4. TypeInv' /\ FdInv'
        BY <3>2 DEF ServerInv, TypeInv, OneFile, FdInv
      <3>5. prog \in [Threads -> Seq(AnyCall)] /\ Sessions \subseteq Threads /\ s # "main"
        BY NamesApart DEF ServerInv, ProgInv, AnyCall, Threads
      <3>6. calls \in Seq(AnyCall)
        BY <3>3, SeqWider DEF AnyCall
      <3>7. /\ prog' \in [Threads -> Seq(AnyCall)] /\ prog'[s] = calls
            /\ \A th \in Threads : th # s => prog'[th] = prog[th]
        BY <3>2, <3>5, <3>6
      <3>8. prog'["main"] = prog["main"]
        BY <3>5, <3>7 DEF Threads
      <3>9. \A r \in Sessions : prog'[r] \in Seq(SessionCall)
        BY <3>3, <3>5, <3>7 DEF ServerInv, ProgInv
      <3>10. ProgInv'
        BY <1>3, <3>2, <3>7, <3>8, <3>9 DEF ServerInv, ProgInv, AnyCall
      <3>11. QED
        BY <3>2, <3>4, <3>10
    <2>3. QED
      BY <2>1, <2>2
  <1>6. /\ QueueInv' /\ SocketInv' /\ stage'[s] = "run"
        /\ \A r \in Sessions : r # s => stage'[r] = stage[r]
    BY <1>2, <1>3, <1>5, ServesOn DEF socketVars, loopVars
  <1>7. ParseInv'
    <2>1. /\ commented' \in BOOLEAN /\ (commented => commented')
          /\ \A d \in Clients : ask'[d].op = "open_comment" => commented'
      BY <1>3, <1>5, ParsedComment DEF ServerInv, ParseInv
    <2>2. QED
      BY <1>2, <1>6, <2>1 DEF ServerInv, ParseInv, socketVars, parseVars
  <1>8. QED
    BY <1>5, <1>6, <1>7 DEF ServerInv

LEMMA AnswerStep ==
    ASSUME ServerInv, NEW s \in Sessions, Answer(s), History PROVE ServerInv'
  <1>1. PICK c : c = kernel[fdOf[s]]
    OBVIOUS
  <1>2. /\ stage[s] \in {"done", "run"} /\ ask' = [ask EXCEPT ![c] = NoStatement]
        /\ stage' = [stage EXCEPT ![s] = "reading"]
        /\ data_recv' = [data_recv EXCEPT ![s] = NoStatement]
        /\ query' = [query EXCEPT ![s] = NoStatement]
        /\ UNCHANGED <<files, meta, db, fhs, ihs, path2fd, prog, phase, kernel>>
        /\ UNCHANGED <<client, backlog, loopVars, parseVars, fdOf, conn>>
    BY <1>1 DEF Answer, handleVars
  <1>3. Serving(s) /\ phase # "down" /\ c \in Clients
    BY <1>1, <1>2, ServedClient DEF Serving
  <1>4. TypeInv' /\ ProgInv' /\ FdInv'
    BY <1>2, CatalogSame DEF ServerInv
  <1>5. /\ QueueInv' /\ SocketInv' /\ stage'[s] = "reading"
        /\ \A r \in Sessions : r # s => stage'[r] = stage[r]
    BY <1>2, <1>3, ServesOn DEF loopVars
  <1>6. ParseInv'
    <2>1. /\ commented' \in BOOLEAN /\ (commented => commented')
          /\ \A d \in Clients : ask'[d].op = "open_comment" => commented'
      BY <1>2, <1>3, ParsedComment DEF ServerInv, ParseInv
    <2>2. /\ ask' \in [Clients -> Statements \cup {NoStatement}]
          /\ data_recv' \in [Sessions -> Statements \cup {NoStatement}] /\ data_recv'[s] = NoStatement
          /\ query' \in [Sessions -> Statements \cup {NoStatement}]
          /\ \A r \in Sessions : r # s => data_recv'[r] = data_recv[r] /\ query'[r] = query[r]
      BY <1>2, <1>3 DEF ServerInv, ParseInv
    <2>3. \A r \in Sessions : data_recv'[r].op = "open_comment" => commented'
      BY <2>1, <2>2 DEF ServerInv, ParseInv, NoStatement
    <2>4. QED
      BY <1>2, <1>5, <2>1, <2>2, <2>3 DEF ServerInv, ParseInv, parseVars
  <1>7. QED
    BY <1>4, <1>5, <1>6 DEF ServerInv

-----------------------------------------------------------------------------
LEMMA InitInv ==
    ASSUME Init PROVE ServerInv
  <1> USE DEF Init, CatalogInit
  <1>1. TypeInv
    <2>1. OneFile
      BY DEF OneFile, SameFile, Paths
    <2>2. QED
      BY <2>1 DEF TypeInv, NoCatalog, Empty, Catalogs
  <1>2. ProgInv
    <2>1. <<>> \in Seq(AnyCall) /\ <<>> \in Seq(SessionCall)
      OBVIOUS
    <2>2. prog \in [Threads -> Seq(AnyCall)] /\ \A th \in Threads : prog[th] = <<>>
      BY <2>1
    <2>3. QED
      BY <2>1, <2>2 DEF ProgInv, AnyCall, Threads
  <1>3. FdInv
    BY NamesApart DEF FdInv, Empty
  <1>4. QueueInv
    BY NamesApart DEF QueueInv
  <1>5. SocketInv
    BY DEF SocketInv, Serving
  <1>6. ParseInv
    BY DEF ParseInv, NoStatement
  <1>7. QED
    BY <1>1, <1>2, <1>3, <1>4, <1>5, <1>6 DEF ServerInv

LEMMA NextInv ==
    ASSUME ServerInv, [Next]_vars PROVE ServerInv'
  <1>1. CASE UNCHANGED vars
    <2>1. TypeInv' /\ ProgInv' /\ FdInv'
      BY <1>1, Untouched DEF vars
    <2>2. QueueInv' /\ SocketInv'
      BY <1>1 DEF vars, catalogVars, socketVars, loopVars, handlerVars, ServerInv, QueueInv, SocketInv, Serving
    <2>3. ParseInv'
      BY <1>1 DEF vars, socketVars, parseVars, handlerVars, ghostVars, ServerInv, ParseInv
    <2>4. QED
      BY <2>1, <2>2, <2>3 DEF ServerInv
  <1>2. CASE Next
    <2>1. History
      BY <1>2 DEF Next
    <2>2. ASSUME NEW c \in Clients, Connect(c) \/ Leave(c) \/ \E s \in Statements : Send(c, s)
          PROVE ServerInv'
      BY <2>1, <2>2, ConnectStep, LeaveStep, SendStep
    <2>3. CASE AcceptLock \/ Accept \/ AcceptError \/ LeaveLoop \/ Killed \/ Start
      BY <2>1, <2>3, AcceptLockStep, AcceptStep, AcceptErrorStep, LeaveLoopStep, KilledStep, StartStep
    <2>4. ASSUME NEW s \in Sessions,
                 Spawn(s) \/ HandlerStart(s) \/ Read(s) \/ EndSession(s)
                 \/ Parse(s) \/ Analyze(s) \/ Execute(s) \/ Answer(s)
          PROVE ServerInv'
      BY <2>1, <2>4, SpawnStep, HandlerStartStep, ReadStep, EndSessionStep, ParseStep, AnalyzeStep,
         ExecuteStep, AnswerStep
    <2>5. ASSUME NEW th \in Threads, Step(th) PROVE ServerInv'
      BY <2>1, <2>5, ThreadStep
    <2>6. QED
      BY <1>2, <2>2, <2>3, <2>4, <2>5 DEF Next
  <1>3. QED
    BY <1>1, <1>2

\* The strengthened invariant holds in every state of the server, whatever the clients send, whoever
\* is killed and however often it restarts.
THEOREM ServerInvariant == Spec => []ServerInv
  <1>1. Init => ServerInv
    BY InitInv
  <1>2. ServerInv /\ [Next]_vars => ServerInv'
    BY NextInv
  <1>3. QED
    BY <1>1, <1>2, PTL DEF Spec

\* A thread serves the connection it was created for and runs the statement it read, and a statement
\* is dropped only inside a comment somebody left open: client_handler's pointer to sockfd and its
\* mutex, the numbers of descriptors that files and sockets take from each other, buffer_mutex around
\* yyparse and do_analyze.
THEOREM HandOverAlways == Spec => []HandOver
  <1>1. ServerInv => HandOver
    BY DEF ServerInv, SocketInv, ParseInv, HandOver, Serving
  <1>2. QED
    BY <1>1, ServerInvariant, PTL

\* The disk manager's path2fd_ and the kernel agree on every open file, though accept takes
\* descriptors between any two calls of a DDL statement and close_db runs beside one.
Agreement ==
    /\ \A p \in DOMAIN path2fd : path2fd[p] \in Fds /\ kernel[path2fd[p]] = p
    /\ \A fd \in Fds : kernel[fd] \in Paths => kernel[fd] \in DOMAIN path2fd /\ path2fd[kernel[fd]] = fd

\* path2fd_ names every descriptor a file has and no other, in any interleaving: destroy_file refuses
\* exactly the files that are open, and close_file closes the file it means.
THEOREM DescriptorsAgree == Spec => []Agreement
  <1>1. ServerInv => Agreement
    BY DEF ServerInv, FdInv, Agreement
  <1>2. QED
    BY <1>1, ServerInvariant, PTL

=============================================================================
