# A TLA+ verification of RMDB

RMDB is a relational database server in C++: client threads parse, plan and execute
SQL over record files and B+ tree indexes, behind one buffer pool, with table-level
no-wait two-phase locking, a write-ahead log, and redo/undo recovery at every start.
This directory models it from the accept loop down to pages and log records and
checks the models with TLC on small instances. With TLAPS it proves, for every size
of the instance, the lock manager, the transactions over it (which implement an
abstract store of atomic, serializable transactions), the buffer pool, the record
files, the write-ahead log and recovery through crashes, that connections,
descriptors and parse trees reach the thread they belong to, and that the catalog,
its files and its handles agree through every statement, start, shutdown and kill.

Paths below are relative to `src/src/`.

## 1. The system

| Component | State it keeps | Operations | Talks to |
|---|---|---|---|
| Accept loop, sessions, shutdown (`rmdb.cpp`) | one variable `sockfd` for all threads under `sockfd_mutex`, which the new thread unlocks; the lexer's state and `parse_tree` under `buffer_mutex` | accept, spawn, read, parse, analyse, run, answer; Ctrl-C closes the database | everything |
| Catalog, DDL (`system/`) | `db_`, open handles, `db.meta` | create/drop table and index, open/close database | all files, recovery |
| Parser, analyzer (`parser/`, `analyze/`) | none that outlives a query, but for the lexer | names, literals, casts, errors | catalog |
| Planner (`optimizer/`) | none | push-down of conditions, choice of an index, join tree | catalog |
| Executors (`execution/`, `portal.h`) | cursors, blocks of a join, collected row positions | scans, join, sort, aggregate, limit, projection; insert, update, delete | record files, indexes, locks, write set |
| Transactions (`transaction/`) | per transaction: state, write set, lock set, mode | begin, commit, abort; a single statement is committed by its session | executors, locks, log |
| Lock manager (`transaction/concurrency`) | `lock_table_`: request queues with a group mode | acquire (six wrappers), upgrade, `unlock`; refuses instead of waiting | transaction state and `lock_set_` |
| Record files (`record/`) | file header; per page bitmap, count, link of the free list | insert, insert at a position, delete, update, scan | buffer pool, log |
| B+ tree (`index/`) | pages of pairs, parent and leaf links, header | insert, delete, lookup, bounds, range scan; all under `root_latch_` except the scan | buffer pool |
| Buffer pool, LRU, disk manager (`storage/`, `replacer/`) | page table, frames, free list, LRU list, next page per descriptor | fetch, new, unpin, flush, delete, flush-all, delete-all; open/close files | log manager |
| Log manager (`recovery/log_manager`) | log buffer, next LSN, `persist_lsn_` | append, flush | disk |
| Recovery (`recovery/log_recovery`) | list of log records, active and aborted transactions | analyze, redo, undo, rebuild free lists and indexes, save | record files, indexes, catalog |
| Client (`rmdb_client`) | one connection | connect, send, wait, leave | server |

What is hard here: sessions interleave at every lock request and between the
scan and the write phase of a statement; statements fail, connections break and
answers cannot be delivered at any moment; rollback must be exact and runs
unlogged; descriptors are shared by files and sockets and reused while pages are
cached; the pool runs at its limit and some code leaks pins; the server may stop
between any two page, header, log, file or catalog writes, in recovery too; long
sequences of index or record operations have to keep pointers and counts
consistent; and a query must mean the same whatever index, join order or block
boundary it meets. `PROJECT.json` lists these hazards line by line with the
properties that cover them.

## 2. Modules

```
Catalog ── Server                              ColumnValues ── Analyzer ── Planner
                                                        ── Executors ── Query
LockManager ── TransactionManager              UniqueIndex
     │            (implements LockSpec)             ▲ refinement (IndexSpec)
LockManagerProofs      │ refinement (StoreSpec)  BPlusTree
                       ▼
                  SerialStore
BufferPool               RecordFile             Recovery
```

A line is EXTENDS. The `MC*` modules only add symmetry sets and constant values.
LockManager, TransactionManager, BufferPool, RecordFile, Recovery and Server have
their theorems in a module of the same name with `Proofs` at its end;
TransactionManagerProofs also extends LockManagerProofs. Server's proofs continue in
CatalogProofs, which extends ServerProofs, and RestartProofs, which extends that.

**LockManager** — `state`, `lock_set`, `lock_table`, `request_queue`,
`group_lock_mode` are the members of the same names. `Acquire` is `acquire_lock`
under its latch: the refusal in the shrinking phase, the lock that is already
covered, the upgrade, the grant and the refusal are separate disjuncts.
`BeginTxn` and `EndTxn` are the parts of `TransactionManager` that set the state.
On its own, the module is driven in every order its interface allows.

**TransactionManager** — client sessions as program counters of
`client_handler`. A statement takes S (select, and the scan of update and
delete), reads row by row, takes X, writes row by row, answers; a single
statement is then committed. `Fail` is a statement that throws, a refused lock
starts `abort()`, `UndoOne` takes back one write, `ReleaseOne` releases one lock.
`Disconnect` and `ReplyFails` end a session where the code leaves its loop. It
*extends* LockManager and calls its actions; `LockSpec` as a property says that
the sessions use it only in ways its own specification allows, so the theorems
about `LockSpec` carry over.

**SerialStore** — what the sessions implement: committed tables (`store`), for each
transaction the committed rows it has read (`seen`) and the rows it has written, with
its own values (`own`). `Read` takes the committed value of a row the transaction has
not written; `Commit` is possible only while every value read is still the committed
one, and makes all writes at once; `Abort` forgets. Under the mapping (`Store` in
TransactionManager) `own` is what lies in the tables at the rows of a write set, until
`CommitPoint` makes them the store's or `abort()` begins; `store` and `seen` are the
ghosts `committed` and `reads`.

**BufferPool** — frames, page table, free list, LRU list, descriptors and the
files behind them, and the log's two counters. One action per pool operation,
each atomic under the pool's latch. A page's contents are a version and an LSN.
`CloseFile`/`OpenFile` reuse descriptors; `LeakPin` is the missing unpin of
`is_record`. The ghost `latest` is the newest version of every page.

**RecordFile** — bitmaps, counts and the free list of one table, the scan cursor,
the write set and its rollback, and the rebuilding of the list after recovery.
The model stops at a write outside a page's slots (`overrun`), where the code
corrupts memory. Ghosts: `rows` (the records the table should hold), `seen`,
`refilled`.

**Recovery** — log, flushed prefix, cached pages, pages and header on disk.
`Restart` is a crash (or the `crash` command) followed by analyze; `RedoOne`,
`UndoOne` handle one log record, so a crash can strike inside recovery.
`Close`/`WriteHeader`/`WritePage` are the steps of closing a file. Transaction ids
begin at 0 in each process, as in the code. Ghosts: `committed`, and `disturbed`,
the records on which recovery confuses transactions (see the findings).

**BPlusTree** — pages as records of pairs and links. `insert_entry` and
`delete_entry` run level by level, one action per level, with `op` as the call
under way; page numbers are never reused, as in `allocate_page`. Node and tree
searches and the scan are recursive functions. `LoadRow` is `create_index` over a
populated table, and the index rebuild of recovery. **UniqueIndex** is the
abstract map the tree implements.

**ColumnValues, Analyzer, Planner, Executors, Query** — one session's statement
from its parse tree to its answer. *ColumnValues* has the types with their ranges,
literals, `cast_to`, `compare_value`, and datetimes with the calendar; a string is
its length. A FLOAT is an integer rounded to `FloatBits` significant bits (`RoundTo`,
ties to even) wherever the code stores a `float`: a literal, `cast_to`, the result of a
SUM. *Analyzer* is
`do_analyze`: `Analyzes` says that none of its throws happens and the other
operators build the `Query`. *Planner* is `pop_conds`, `get_index_cols`,
`make_one_rel`, `generate_sort_plan` and the rest. *Executors* represents every
executor by a record with the fields of its class; `Begin` and `Advance` (both
`Move`), `IsEnd` and `NextOf` are `beginTuple`, `nextTuple`, `is_end` and `Next`,
the block nested-loop join with its block of the left side included; an error is a
field. `Accumulate` and `Narrow` are the `double` of SUM, which rounds to `DoubleBits`
at every addition, and its cast to the column's type; a SUM of datetimes adds the
encodings, carries included (`AddDates`). *Query* is the state
machine: `Submit`, `Start`, `OpenSelect`, `Fetch` for each tuple of `select_from`,
`RunInsert`/`RunUpdate`/`RunDelete` for the checks before the first change, then
`MakeCall` or `CallThrows` for each call on the record file and the indexes, and
begin, commit and rollback. What a statement *means* is defined a second time, on
its text and the rows, without plans, indexes or executors: `RowsExact`,
`AggregateExact`, `RowsAfter`, `Refused` (which shares only `Analyzes`, the rules
for names and literals, with the model of the code).

**Catalog, Server** — *Catalog* turns each DDL statement, the start and the
shutdown into the sequence of calls on files, descriptors, handles and `db.meta`
that the code makes (`CreateTable`, `DropTable`, ..., `OpenDb`, `RebuildIndex`,
`CloseDb`), and `Step` makes the next one. A loop of the code over tables or
indexes is one call `for_each` with the names that are left; `Loop` takes the next
one, in any order, and puts the calls of its round (`Body`) before the rest.
`FileOf` gives the file name of an index, which several indexes may share (`t(a_b)`
and `t_a(b)`): a new file meets every file of its name (`Taken`). The checks that
refuse a statement before its first call are in `Refused`; `create_wide_table` and
`index_unknown_column` are the statements that only such a check can tell from a good
one (record size, missing column). `kernel` is the descriptor table, which
hands out the lowest free number to files and sockets alike; `path2fd` and
`fd2pageno` are the disk manager's view. *Server* adds `AcceptLock`, `Accept`,
`AcceptError`, `Spawn`, `HandlerStart` (reads the shared `sockfd` and unlocks),
`Read`, `Parse`, `Analyze`, `Execute`, `Answer`, `EndSession`, `LeaveLoop`
(Ctrl-C), `Killed` at any step, `Start`, and the clients. History variables name
what the code cannot avoid: `broken` (the process ended inside one of the windows
listed under `Restartable`), `tainted` (a shutdown overlapped a DDL statement),
`orphans` (a killed CREATE left its file), `moved` (another thread's `accept` took
the descriptor of an index between its close and its reopening), `commented`
(somebody left a comment open in the global lexer).

## 3. Runs

| Run | Instance | What it shows |
|---|---|---|
| `lock_manager` | 3 transactions, a table and a record | compatible grants, one request per transaction, `lock_set_` = queues, no leaked queue, group mode decides, two-phase |
| `transactions` | 2 sessions and transactions, 2 tables, 1 row, 2 values, 2 writes | strict locking, serializable reads, exact rollback, that the sessions respect `LockSpec`, and that they implement `SerialStore` |
| `transactions_live` | 2 sessions, 1 table of 2 rows | every statement ends (liveness) |
| `single_statement` | as above, smaller | **violated**: finding 1 |
| `buffer_pool` | 2 frames, 1 descriptor, 2 files, 2 clients, 3 pages | page table, pins, frame accounting, no lost write, write-ahead log |
| `record_file` | 3 pages of 2 slots, 3 writes per transaction | scans exact; free list sound until a rollback refills a listed page; overruns only then |
| `record_file_free` | 2 pages | **violated**: finding 2 |
| `bplus_tree` | order 3, 12 keys, loads of 0 and 8 keys in three orders, then any 4 operations | tree shape, searches, leaf chain, ranges, refinement of the map |
| `recovery` | 2 pages of 2 records, 2 transactions, 5 log records, 2 restarts; and 1 record, 3 transactions one after the other, 8 log records, 1 restart | write-ahead log on disk, recovered state exact, and the only two reasons a start fails |
| `recovery_aborted` | 1 record | **violated**: finding 3 |
| `query` | 24 databases of 3 tables with about ninety SELECTs; 1 table, 2 rows, 3 choices of indexes with 3 changes and a throwing call | answers exact under every plan, refusals exact but for two named weaknesses, indexes = rows, changes all or nothing when refused, rollback exact after a cut statement |
| `server` | 1 table, 3 indexes, two of them with one file name, 2 sessions, 2 clients, 9 descriptors, five scenarios | memory, `db.meta` and directory agree; restart possible outside named windows; DDL fails exactly when it must; connections and parse trees reach their own thread; every request is answered |

*Bounds.* Three transactions are needed for a queue with two other holders at an
upgrade; two tables for a lock set that is released in parts; two frames with
three pages make every fetch a potential eviction, and two files on one
descriptor are the reuse case; two slots per page tell a full page from an empty
one and three pages give the free list a middle. Order 3 is the smallest
`btree_order` the code admits (`assert(btree_order > 2)`); eight keys give three
levels with minimal pages, so that four operations reach splits, borrowing and
merges of leaves and of inner nodes and a change of root in both directions.
Recovery needs two records on one page (they share a page LSN), two pages (the
file grows), two restarts (a crash in recovery, and ids that start over); an update
redone over an unlogged rollback needs eight log records, which the second of its
`Bounds` has for one record. In `query`, INT is −6..6 and BIGINT −20..20, so that literals
beyond a column and sums beyond a type occur; a float has 2 significant bits and a
double 4, so that SUM meets a BIGINT that a double cannot hold (17) and one that it
can, FLOATs whose sum a float can hold, and literals and casts that round; a block of the join holds two tuples
(`JoinBlock`), so that four rows need several blocks; the databases
vary the indexes (none, a composite one, two in different orders) so that the
planner takes each of its choices. In `server`, one of the three indexes has a key
that is too long, and the other two have the same file name; each entry of `Bounds` lets a different pair of things meet: all
DDL with a kill (4 requests); DDL with Ctrl-C and other faults; two clients in the
accept loop and the parser, with comments and text that does not parse; a
`create_index` beside a connecting client; a failing `accept` and a shutdown beside
a running statement. Every unbounded counter is bounded by a constant named in its
module. Deadlock is not checked where these bounds end the behaviours, where a
failed `assert` ends the server (`query`) or where the process may stay down
(`server`).

*Fairness.* `FairSpec` in TransactionManager has weak fairness on `ServerStep` of
each session: a server thread with a request in hand keeps being scheduled.
`FairSpec` in Server has it for the main thread and for each session thread. In
both, clients are under no obligation and may never send again, and neither
faults nor starts are forced. No lock request waits, and the two mutexes are held
for a few steps by a thread that runs, so weak fairness suffices. `Answered`
exempts one state: after a failed `accept` the loop waits for the mutex it holds
itself (`Stuck`, `rmdb.cpp:241`), and no connection is accepted any more.

*Refinement.* `LockSpec` (sessions implement the lock manager's specification),
`StoreSpec` (they implement SerialStore) and `IndexSpec` (the tree implements a map;
only the first step of an operation changes it).

## 4. Findings

1. `rmdb.cpp:177`: an answer that cannot be written skips the automatic commit;
   the statement's transaction and its table locks remain until the server stops.
2. `record/rm_file_handle.cpp:78`: rolling back a delete from a full page leaves
   the full page on the free list; the next insert writes past its last slot.
3. `recovery/log_recovery.cpp:249`: transactions that were rolled back are undone
   again at each restart, over later committed changes to the same record. The
   same property has a second cause: ids start at 0 in every process
   (`transaction/transaction_manager.h:144`) but the log is kept, so a committed
   transaction of an earlier process is undone when a later one with its id is
   unfinished (in `MCAborted`, no rollback and two restarts show it). `Recovered`
   excludes the records that either cause touches (`disturbed`) and only those.

The properties of the passing runs name further weaknesses where they except them:

- `StartFailsOnly`: a crash makes the next start fail when an update is redone on a
  record that an unlogged rollback restored, or when it struck between header and
  pages on closing.
- `Restartable`: so does the end of the process while `db.meta` is truncated, after
  a drop destroyed a file that `db.meta` still lists, or while recovery rebuilds an
  index file; and a shutdown beside a running DDL statement.
- `CatalogConsistent`, `DdlOutcome`: a killed CREATE, and a CREATE INDEX refused for
  its key length, leave their file, so that the name cannot be used again. An index
  cannot be created while another one has a file of the same name: `t(a_b)`, `t(a, b)`
  and `t_a(b)` are all kept in `t_a_b.idx`.
- `IndexNumbered`: an `accept` between the close and the reopening in `create_index`
  moves the index to a descriptor whose page counter is another file's.
- `HandOver`: a statement is swallowed without effect inside a comment that some
  session left unfinished.
- `FailsOnly`: an empty range on an indexed column (`a > 5 and a < 3`) is reported as
  a failure instead of no rows; a condition on two columns of one table that is not
  the first of the FROM clause is an unknown column or, in an index scan, a failed
  assert.
- `AggregateExact` (part of `QueryExact`) claims a SUM of INT, BIGINT or FLOAT only
  where the magnitudes of the rows add up to at most `2^DoubleBits`, so that no partial
  sum rounds in any order of the rows, and the result lies in the range of the column
  (for a FLOAT: is one that a float can hold). Beyond that the code answers with a
  rounded or narrowed number, and out of range with what x86 makes of an undefined
  cast. Nothing is claimed of a SUM over datetimes, which adds their encodings, or
  over strings; `Quiet` and `dirty` set aside what a single statement that throws
  halfway leaves behind, which the code does not take back.

## 5. Proofs

**LockManagerProofs**, for any sets of transactions and items. The inductive
invariant `LockInv` is the type invariant, `OneRequestPerTxn`,
`LockSetMatchesQueues`, `LockTableExact`, `GrantedCompatible`, and
`GroupModeExact`: the group mode is the value `update_group_lock_mode` computes
from the queue. That last part is needed because `GroupModeDecides` speaks of
compatibility only, and a release has to recompute the mode itself; a release
also needs `OneRequestPerTxn` to know that the item is free afterwards.
Compatibility rests on the symmetry of the matrix (`CompatibleSymmetric`).
`TwoPhaseAlways` is an action property: the only actions that add a request or
change its mode are excluded after the first release. All seven properties of the
run `lock_manager` are theorems.

**BufferPoolProofs**, for any frames, descriptors, files and clients.
`PoolInv` strengthens the properties by `FilesExact` (a descriptor's pages belong to
the file open on it), `LogOrder` (no page LSN beyond the last one handed out) and
splits `NoLostWrite` in a cache half and a disk half. One lemma per operation; the
list lemmas at the start say what pinning and unpinning do to the LRU list. The
hard cases are `Retitle` (eviction renames a frame that may be the only copy of a
page) and `Recycle` (frames freed by deletion stay in the LRU list). All six
properties of the run `buffer_pool` are theorems.

**TransactionManagerProofs**, for any sessions, transactions, tables, rows and
values. `TxnInv` has a control half, which says where a session can stand with
which transaction (`OwnTxn`: no two sessions drive one transaction; `Phases`: what
is already undone or released at each program counter; `FinishedFree`: a finished
transaction has no locks), and a data half, the three properties of the run, which
need each other: what was read cannot change because of the locks (`StrictLocks`),
so the committed value a write record keeps is still committed when the write is
undone (`RollbackExact`). `LockInv` of LockManagerProofs is part of the control
half, so each step shows two things at once: it keeps the invariant, and it is a
step of `LockNext` or leaves the lock manager alone. The second gives
`SessionsUseLocks` (Spec => LockSpec), and with it every theorem about the lock
manager holds of the running sessions (`SessionsTwoPhase`).

`SessionsImplementStore` (Spec => StoreSpec) is the refinement of SerialStore, step by
step under `TxnInv`. A row read is a `Read` because a reader with S or X finds the
committed value in a row it has not written (`CleanRow`); a row written is a `Write` of
its transaction and changes no other's rows, since X on the table keeps all other
owners out (`OwnersApart`); `CommitPoint` is `Commit`, whose guard is
`SerializableReads`; `rollback` and a refused lock are `Abort`. Everything else
stutters: the undoing of writes too, which the store must not notice, and the end of
`commit` and `abort`, which clears a write set that no longer counts.

**RecordFileProofs**, for any number of pages, slots and writes. `FileInv` says that
bitmaps, counts and records agree, that what the scan has returned is what lies up
to its cursor (`UpTo`), and that the list has no cycle and no join. The free list
is the least set that contains the first page and is closed under the links
(`FreeList`), so that facts about it need no induction: a set that is closed
contains it. Removing the first page and putting a page in front are the two
lemmas about it; the rebuilding by recovery is a third.

**RecoveryProofs**, for any tables, pages, transactions and bounds. `LogInv` adds to
`WriteAheadLog` that a page in memory carries the lsn of a record of the log, that
the log buffer is empty outside normal running, and where redo and undo stand;
crashes in recovery are steps like any other.

The second half of the module proves `Recovered` and `StartFailsOnly`. Neither is close to inductive: a page on disk may be of any age, a
rollback leaves values there that no log record has as its new value, and recovery
may be stopped and started again on its own half-finished result. `RecInv` therefore
follows each record through the log:

- the log itself: every record has its transaction's beginning before it and nothing
  of the transaction follows its commit (`LogShape`); the transactions of this
  process and their write sets are found in it (`StatusInLog`, `WriteSets`, which
  also holds what the table locks guarantee: nobody else has written the table
  since);
- the chain of a record's changes: each starts from the value the one before it left
  unless that was taken back (`Chain`), and the last committed one left the committed
  value (`CommittedInLog`);
- the pages: on disk and in memory a record shows its last change up to the lsn of
  its page, or an old value of the same transaction when that change is lost and its
  rollback or undo has begun (`Shows`, `DiskShows`, `MemShows`). This is the part
  that survives a crash in any place;
- the phases: what redo has already applied (`Applied`), what undo has already taken
  back (`UndoneSoFar`), what a running transaction sees of its own and can still roll
  back (`OwnChanges`), and `Settled`, which is `Recovered` in the other phases too.

Redo finds a change either already on the page, by the lsn, or the page at the
previous change of the chain (`RedoValue`), so it never meets an absent record to
update; the rest is `StartFailsOnly`. After redo every record is at the end of its
chain. The test at the head of undo's loop picks exactly the changes that are lost
(`UndoTest`), which outside `disturbed` are the last ones of the record and of one
transaction; undo walks back over them (`UndoValue`) to the `old` of the first, which
is the committed value (`AllUndone`). Undo
decides by presence of the record, not by lsn, so undoing a second time has to be
shown harmless; that is the second disjunct of `Shows`. There is one lemma per
action; `ControlRec` and `ChangeRec` carry what the steps that append to the log have
in common, `QuietStep` those that leave log and pages alone.

**ServerProofs**, for any tables, indexes, clients and threads. `HandOver` looks like
a fact about two mutexes, but a descriptor that a thread serves must not become a
file's while the thread lives, so `ServerInv` also follows the descriptors:
`FdInv` (the disk manager knows every file behind a descriptor under that
descriptor, and no other), `QueueInv` (a client is in the backlog or behind one
descriptor), `OneFile` (of the indexes with one file name at most one has a file:
the state keeps a file under the index it was created for, and only the check of
`create_file` against every file of that name keeps the two views the same),
`SocketInv` (the one unread value of `sockfd` belongs to the one thread
that has not started), `ParseInv` (the parse tree belongs to the holder of
`buffer_mutex`; the lexer is in a comment only when somebody opened one) and
`ProgInv` (which calls can stand in the program of a thread in which phase). The
pigeonhole argument `LowestIsFree` shows that a free descriptor exists whenever one
is asked for.

**CatalogProofs** and **RestartProofs** prove the other four safety properties of the
run `server`, under the same assumptions: `IndexNumbered`, `CatalogConsistent`,
`Restartable` and `DdlOutcome`. What they say holds between statements, or at the
end of one; in the middle of a DROP TABLE almost nothing of it does. So the invariant
`CatalogInv` (inductive together with `ServerInv`; `CatalogInvariant`) follows the
calls:

- `DdlAt` says where the running statement is. For each statement and each number of
  calls it has made there is what keeps the handles in order (`CreateIndexAt`,
  `DropTableAt`, ...) and what `db_`, `db.meta`, the directory and the descriptors then
  hold (`CreateIndexSound`, `DropTableSound`, ...). A loop over the indexes of a
  table is a position with a set: the indexes that are left are untouched, the others
  have no file (`LoopSound`, `RoundSound`). Names the statement does not touch are
  `Settled`.
- `StartAt` does the same for `create_db`, `open_db` with its two nested loops, and the
  rebuilding of every index in `undo()`; `CloseAt` for `close_db`.
- `OnDisk` (what is open is in the directory) holds in every state, `HandlesKnown` (a
  handle is the open file of that name, and `db_` has the name) while the server starts
  or is up, `NumberedBut` while it is up. What is said
  of files and `db.meta` is said under `Sound`, the absence of `broken` and `tainted`:
  these are the windows `Restartable` names, and a start that fails comes after one
  of them.
- `expect` has the catalog before and after the running statement, so `DownSound` (the
  files are those of `db.meta`, and `db.meta` is one of the two) is what a start needs.

There is one lemma for each family of positions (`CreateTableGoesOn`,
`DropsOneGoesOn`, ...), all with the conclusion `After`: the statement is at its next
position, or it is over, with the catalog it promised and every name settled. What a
call does to descriptors, handles and counters is said once (`DoOpen`, `DoClose`,
...). `DdlOutcomeAlways` is an action property from the same invariant: a statement
fails for the causes `MustFail` lists and for no other, and whenever one of them is
there, whatever descriptors `accept` takes between two calls. They are the checks of
`Refused` (a table or an index that is there or is not, a missing column, a record of
no legal size), a key too long, a file in the way (`InTheWay`), and duplicates. The
lemmas about it speak of `Barred`: nothing that is `Barred` can be created, and the
file that `Taken` finds in mid-statement is one that was there when it began
(`LeftBehind`, `TakenBars`, `NotBarred`).

The proofs use the assumptions of the modules only: `PoolAssumption` (frames are
natural numbers, because the free list is filled in ascending order; frames and
clients are finite; bounds are natural numbers), `NoneAssumption` (`None` is
none of the things it stands in for), `RecoveryAssumption` (sizes are natural
numbers), `CatalogAssumption` and `ServerAssumption` (names of tables, indexes,
clients and threads do not overlap and are finite; there are more descriptors than
files, clients and the listening socket together, as the model has no `EMFILE`).
TLC evaluates them in the runs.

Only model-checked: all of BPlusTree (with its refinement) and of Query. Out of the
prover's reach are `StatementEnds` and `Answered` (liveness under fairness), what the
recursive functions of BPlusTree compute for every input (induction over data:
`TreeShape` speaks of the leaves and the pairs below every page), and the modules from
ColumnValues to Query, whose executor trees need RECURSIVE operators.

## 6. Not modelled

- Two DDL statements at once, and DDL beside statements on rows: the code takes no
  lock for either, and the races on `std::map` and on destroyed handles are
  undefined behaviour with no bounded set of outcomes.
- Log records cut short by a crash, their serialization and the size of the log
  buffer; page writes that fail.
- `SIGPIPE`, a second Ctrl-C or one delivered to a client thread, and one before
  `setjmp`: `longjmp` into a frame of another thread is undefined behaviour too.
- The knobs `enable_nestloop` and `enable_sortmerge`: `Portal` executes a sort-merge
  plan as a nested loop.
- `yacc.tab.c`, `lex.yy.c` and `lex.yy.hpp`, generated from `yacc.y` and `lex.l`; the
  tokens and rules of the grammar themselves.
- Printing, `output.txt`, error texts, help, SHOW TABLES and DESC, which only read.
- The range of a `float` and its fractions: a FLOAT is a rounded integer, and no sum
  overflows it. Column counts, offsets and the record size itself: a record size is
  legal (`create_table`) or not (`create_wide_table`).
- System calls that fail in DDL (a full disk, missing permissions, `EMFILE`).
- `drop_db`, and the multi-version stubs, which nothing calls.
- Tables dropped and created between two log records of the same name.

Three hazards are modelled, but no property catches them. The pages that `is_record`
and `IxScan::next` never unpin are `LeakPin`, under which the invariants of the buffer
pool are shown to hold; that the pool fills up in the end is what the code does. A
shutdown beside a running DDL statement is excused (`tainted`): nothing is said of the
database it leaves. A statement swallowed inside an open comment is excused
(`commented`): `HandOver` says only that no other statement is swallowed. In
`FailsOnly`, likewise, the empty range and the misplaced condition of section 4 are
excused by name, so it shows that there is no third cause.

The group mode of a lock queue decides nothing in the code, which looks through the
requests; `GroupModeDecides` says that it could.

## 7. Plan

Done: all modules of section 2, and the proofs of section 5; every safety property of
the runs `lock_manager`, `transactions`, `buffer_pool`, `record_file`, `recovery` and
`server` is a theorem. What could follow:

1. Recovery, outside `disturbed`, as an implementation of SerialStore whose unfinished
   transactions abort in a crash.
2. Recovery over several tables that are dropped and created again.
