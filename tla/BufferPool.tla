----------------------------- MODULE BufferPool -----------------------------
(***************************************************************************)
(* BufferPoolManager with its LRUReplacer (storage/buffer_pool_manager.cpp,*)
(* replacer/lru_replacer.cpp), the page files below it and the log buffer  *)
(* it forces (recovery/log_manager.cpp).                                   *)
(*                                                                         *)
(* Every method runs under latch_, so a call is one step.  The contents of *)
(* a page are abstracted to a version number and the LSN in its first four *)
(* bytes: changes of table pages are logged and stamp the page, rollback   *)
(* and the index change pages without a log record.  A PageId is           *)
(* (fd, page_no), and the operating system may give the descriptor of a    *)
(* closed file to another one.                                             *)
(***************************************************************************)
EXTENDS Integers, Sequences, FiniteSets

CONSTANTS
    Frames,     \* frame_id_t: 0 .. pool_size_ - 1
    Fds,        \* file descriptors
    Files,      \* page files
    Clients,    \* threads that pin pages
    None,       \* no page, no frame, no file
    MaxPages,   \* bound on the pages of a file
    MaxTotal,   \* bound on the pages of all files together
    MaxPins,    \* bound on the pin count of a frame
    MaxVersion, \* bound on the changes of a page
    MaxLsn      \* bound on the log

VARIABLES
    page_table,     \* page_table_: PageId -> frame, or None
    page_id,        \* Page::id_ of each frame, None for {-1, INVALID_PAGE_ID}
    pin_count,      \* Page::pin_count_
    is_dirty,       \* Page::is_dirty_
    data,           \* Page::data_
    free_list,      \* free_list_
    LRUlist,        \* LRUlist_: front is the most recently unpinned
    disk,           \* contents of the files, None past the end
    file_of,        \* the file open on a descriptor
    num_pages,      \* pages allocated in a file (fd2pageno_ while it is open)
    last_lsn,       \* last_lsn_in_buffer_
    persist_lsn,    \* persist_lsn_
    pin,            \* what a client has pinned
    latest          \* ghost: the newest contents of every page

poolVars == <<page_table, page_id, pin_count, is_dirty, data, free_list, LRUlist>>
fileVars == <<disk, file_of, num_pages>>
logVars == <<last_lsn, persist_lsn>>
vars == <<poolVars, fileVars, logVars, pin, latest>>

INVALID_LSN == -1
PageNo == 0..(MaxPages - 1)
PageId == Fds \X PageNo
Lsn == 0..MaxLsn
Contents == [ver : 0..MaxVersion, lsn : Lsn]

Pin == [id : PageId, frame : Frames, dirty : BOOLEAN]

ASSUME PoolAssumption ==
    /\ Frames \subseteq Nat /\ IsFiniteSet(Frames)
    /\ IsFiniteSet(Clients)
    /\ MaxPages \in Nat /\ MaxTotal \in Nat /\ MaxPins \in Nat
    /\ MaxVersion \in Nat /\ MaxLsn \in Nat

ASSUME NoneAssumption ==
    /\ None \notin Frames /\ None \notin Files
    /\ None \notin PageId /\ None \notin Contents /\ None \notin Pin

\* Page::reset_memory
Zeroed == [ver |-> 0, lsn |-> 0]

Elements(seq) == {seq[i] : i \in DOMAIN seq}
Distinct(seq) == \A i, j \in DOMAIN seq : seq[i] = seq[j] => i = j

\* Clients holding a Page* into the frame.
Holders(f) == {c \in Clients : pin[c] # None /\ pin[c].frame = f}

\* The file a cached page belongs to.
FileOf(id) == file_of[id[1]]

\* The frame caches this page of this file.
Caches(f, file, no) ==
    page_id[f] # None /\ FileOf(page_id[f]) = file /\ page_id[f][2] = no

-----------------------------------------------------------------------------
(* LogManager *)

\* add_log_to_buffer: a full buffer is written out first.
AddLog ==
    /\ last_lsn < MaxLsn
    /\ last_lsn' = last_lsn + 1
    /\ persist_lsn' \in {persist_lsn, last_lsn}

\* flush_log_to_disk
FlushLog == persist_lsn' = last_lsn /\ UNCHANGED last_lsn

\* Mutant: a page is written without looking at the log.
ForceNothing(lsns) == UNCHANGED logVars

\* Writing pages with these LSNs forces the log when one is not persistent yet.
ForceLog(lsns) ==
    IF \E l \in lsns : l > persist_lsn THEN FlushLog ELSE UNCHANGED logVars

-----------------------------------------------------------------------------
(* LRUReplacer *)

Position(list, f) == CHOOSE i \in DOMAIN list : list[i] = f

\* LRUlist_.erase at the position LRUhash_ knows, if there is one.
replacer_pin(list, f) ==
    IF f \in Elements(list)
    THEN SubSeq(list, 1, Position(list, f) - 1)
            \o SubSeq(list, Position(list, f) + 1, Len(list))
    ELSE list

\* Mutant: the frame of the last unpin does not become evictable.
NoUnpin(list, f) == list

replacer_unpin(list, f) == IF f \in Elements(list) THEN list ELSE <<f>> \o list

-----------------------------------------------------------------------------
(* BufferPoolManager *)

\* find_victim_page and the pin that follows it: a free frame before an
\* evictable one.
Victim(f) ==
    \/ /\ free_list # <<>>
       /\ f = Head(free_list)
       /\ free_list' = Tail(free_list)
       /\ LRUlist' = replacer_pin(LRUlist, f)
    \/ /\ free_list = <<>> /\ LRUlist # <<>>
       /\ f = LRUlist[Len(LRUlist)]
       /\ LRUlist' = replacer_pin(SubSeq(LRUlist, 1, Len(LRUlist) - 1), f)
       /\ UNCHANGED free_list

\* disk_manager_->write_page for a set of frames, the log forced first.
WritePages(fs) ==
    /\ ForceLog({data[f].lsn : f \in fs})
    /\ disk' = [file \in Files |-> [no \in PageNo |->
                    IF \E f \in fs : Caches(f, file, no)
                    THEN data[CHOOSE f \in fs : Caches(f, file, no)]
                    ELSE disk[file][no]]]

Dirty(fs) == {f \in fs : is_dirty[f]}

\* Mutant: the evicted page stays in the page table.
RetitleKeepingOld(f, id) ==
    /\ page_table' = [page_table EXCEPT ![id] = f]
    /\ page_id' = [page_id EXCEPT ![f] = id]

\* The page table and the frame's id after update_page.
Retitle(f, id) ==
    /\ page_table' = [i \in PageId |-> IF i = id THEN f
                                       ELSE IF i = page_id[f] THEN None ELSE page_table[i]]
    /\ page_id' = [page_id EXCEPT ![f] = id]

\* update_page and what fetch_page and new_page do after it.
Load(c, f, id, contents, dirty) ==
    /\ WritePages(Dirty({f}))
    /\ Retitle(f, id)
    /\ is_dirty' = [is_dirty EXCEPT ![f] = FALSE]
    /\ data' = [data EXCEPT ![f] = contents]
    /\ pin_count' = [pin_count EXCEPT ![f] = 1]
    /\ pin' = [pin EXCEPT ![c] = [id |-> id, frame |-> f, dirty |-> dirty]]

\* Mutant: the page behind the last one passes for a page of the file.
AllocatedInclusive(id) == FileOf(id) # None /\ id[2] <= num_pages[FileOf(id)]

Allocated(id) == FileOf(id) # None /\ id[2] < num_pages[FileOf(id)]

\* Mutant: a cached page is pinned but stays evictable.
FetchHitEvictable(c, id) ==
    LET f == page_table[id]
    IN  /\ pin[c] = None /\ Allocated(id) /\ f # None /\ pin_count[f] < MaxPins
        /\ pin_count' = [pin_count EXCEPT ![f] = @ + 1]
        /\ pin' = [pin EXCEPT ![c] = [id |-> id, frame |-> f, dirty |-> FALSE]]
        /\ UNCHANGED <<page_table, page_id, is_dirty, data, free_list, LRUlist, fileVars,
                       logVars, latest>>

\* fetch_page of a page in the pool.
FetchHit(c, id) ==
    LET f == page_table[id]
    IN  /\ pin[c] = None /\ Allocated(id) /\ f # None /\ pin_count[f] < MaxPins
        /\ LRUlist' = replacer_pin(LRUlist, f)
        /\ pin_count' = [pin_count EXCEPT ![f] = @ + 1]
        /\ pin' = [pin EXCEPT ![c] = [id |-> id, frame |-> f, dirty |-> FALSE]]
        /\ UNCHANGED <<page_table, page_id, is_dirty, data, free_list, fileVars,
                       logVars, latest>>

\* fetch_page of a page on disk.  read_page throws past the end of the file,
\* where disk is None: TypeOK says it never does.
FetchMiss(c, id) ==
    /\ pin[c] = None /\ Allocated(id) /\ page_table[id] = None
    /\ \E f \in Frames : Victim(f) /\ Load(c, f, id, disk[FileOf(id)][id[2]], FALSE)
    /\ UNCHANGED <<file_of, num_pages, latest>>

Pages == {p \in Files \X PageNo : latest[p[1]][p[2]] # None}

\* new_page: allocate_page, a zeroed frame.  Every caller initialises the page
\* and unpins it as dirty.
NewPage(c, fd) ==
    LET id == <<fd, num_pages[file_of[fd]]>>
    IN  /\ pin[c] = None /\ file_of[fd] # None
        /\ num_pages[file_of[fd]] < MaxPages /\ Cardinality(Pages) < MaxTotal
        /\ \E f \in Frames : Victim(f) /\ Load(c, f, id, Zeroed, TRUE)
        /\ num_pages' = [num_pages EXCEPT ![file_of[fd]] = @ + 1]
        /\ latest' = [latest EXCEPT ![file_of[fd]][id[2]] = Zeroed]
        /\ UNCHANGED file_of

\* The client's page gets new contents.
Write(c, lsn) ==
    LET f == pin[c].frame
        new == [ver |-> data[f].ver + 1, lsn |-> lsn]
    IN  /\ data[f].ver < MaxVersion
        /\ data' = [data EXCEPT ![f] = new]
        /\ pin' = [pin EXCEPT ![c].dirty = TRUE]
        /\ latest' = [latest EXCEPT ![FileOf(pin[c].id)][pin[c].id[2]] = new]
        /\ UNCHANGED <<page_table, page_id, pin_count, is_dirty, free_list, LRUlist,
                       fileVars>>

\* insert_record, delete_record, update_record: a log record, the page stamped
\* with its LSN.  The transaction has logged BEGIN before, so LSN 0 is no page's.
Modify(c) ==
    /\ pin[c] # None
    /\ last_lsn # INVALID_LSN
    /\ AddLog
    /\ Write(c, last_lsn')

\* A change without a log record: rollback, and every change of an index page.
ModifyUnlogged(c) ==
    /\ pin[c] # None
    /\ Write(c, data[pin[c].frame].lsn)
    /\ UNCHANGED logVars

\* Mutant: unpin_page stores its argument instead of accumulating it.
DirtyArgument(f, dirty) == dirty

DirtyAfter(f, dirty) == is_dirty[f] \/ dirty

\* unpin_page
Unpin(c) ==
    LET f == page_table[pin[c].id]
    IN  /\ pin[c] # None
        /\ f # None /\ pin_count[f] > 0
        /\ pin_count' = [pin_count EXCEPT ![f] = @ - 1]
        /\ LRUlist' = IF pin_count[f] = 1 THEN replacer_unpin(LRUlist, f) ELSE LRUlist
        /\ is_dirty' = [is_dirty EXCEPT ![f] = DirtyAfter(f, pin[c].dirty)]
        /\ pin' = [pin EXCEPT ![c] = None]
        /\ UNCHANGED <<page_table, page_id, data, free_list, fileVars, logVars, latest>>

\* A reader that returns without unpinning (is_record, get_rid, IxScan::next).
LeakPin(c) ==
    /\ pin[c] # None /\ ~pin[c].dirty
    /\ pin' = [pin EXCEPT ![c] = None]
    /\ UNCHANGED <<poolVars, fileVars, logVars, latest>>

\* flush_page: written whether dirty or not, pinned or not.
FlushPage(id) ==
    LET f == page_table[id]
    IN  /\ f # None
        /\ WritePages({f})
        /\ is_dirty' = [is_dirty EXCEPT ![f] = FALSE]
        /\ UNCHANGED <<page_table, page_id, pin_count, data, free_list, LRUlist,
                       file_of, num_pages, pin, latest>>

FramesOf(fd) == {f \in Frames : page_id[f] # None /\ page_id[f][1] = fd}

\* flush_all_pages
FlushAll(fd) ==
    /\ WritePages(Dirty(FramesOf(fd)))
    /\ is_dirty' = [f \in Frames |-> is_dirty[f] /\ f \notin FramesOf(fd)]
    /\ UNCHANGED <<page_table, page_id, pin_count, data, free_list, LRUlist,
                   file_of, num_pages, pin, latest>>

\* The frames in the ascending order in which a loop over pages_ visits them.
Ascending(fs) ==
    {q \in [1..Cardinality(fs) -> fs] :
        /\ Elements(q) = fs
        /\ \A i, j \in DOMAIN q : i < j => q[i] < q[j]}

\* The frames are emptied and appended to the free list; they stay in LRUlist.
Recycle(fs) ==
    /\ page_table' = [i \in PageId |-> IF page_table[i] \in fs THEN None ELSE page_table[i]]
    /\ page_id' = [f \in Frames |-> IF f \in fs THEN None ELSE page_id[f]]
    /\ data' = [f \in Frames |-> IF f \in fs THEN Zeroed ELSE data[f]]
    /\ is_dirty' = [f \in Frames |-> is_dirty[f] /\ f \notin fs]
    /\ \E q \in Ascending(fs) : free_list' = free_list \o q
    /\ UNCHANGED LRUlist

\* delete_page of a page in the pool; a pinned page is refused.
DeletePage(id) ==
    LET f == page_table[id]
    IN  /\ f # None /\ pin_count[f] = 0
        /\ WritePages(Dirty({f}))
        /\ Recycle({f})
        /\ UNCHANGED <<pin_count, file_of, num_pages, pin, latest>>

\* Mutant: closing a file flushes its pages and leaves them in the pool.
CloseKeepingPages(fd) ==
    /\ file_of[fd] # None
    /\ \A c \in Clients : pin[c] # None => pin[c].id[1] # fd
    /\ WritePages(Dirty(FramesOf(fd)))
    /\ is_dirty' = [f \in Frames |-> is_dirty[f] /\ f \notin FramesOf(fd)]
    /\ file_of' = [file_of EXCEPT ![fd] = None]
    /\ UNCHANGED <<page_table, page_id, pin_count, data, free_list, LRUlist,
                   num_pages, pin, latest>>

\* RmManager::close_file and close_index: delete_all_pages, which also drops leaked pins,
\* and close.  No thread is using the file: it is closed at shutdown, or by a
\* statement that drops the table or the index.
CloseFile(fd) ==
    /\ file_of[fd] # None
    /\ \A c \in Clients : pin[c] # None => pin[c].id[1] # fd
    /\ WritePages(Dirty(FramesOf(fd)))
    /\ Recycle(FramesOf(fd))
    /\ pin_count' = [f \in Frames |-> IF f \in FramesOf(fd) THEN 0 ELSE pin_count[f]]
    /\ file_of' = [file_of EXCEPT ![fd] = None]
    /\ UNCHANGED <<num_pages, pin, latest>>

\* RmManager::open_file: any free descriptor, a file that is not open; the
\* handle sets fd2pageno_ to the page count of the file's header.
OpenFile(fd, file) ==
    /\ file_of[fd] = None
    /\ \A d \in Fds : file_of[d] # file
    /\ file_of' = [file_of EXCEPT ![fd] = file]
    /\ UNCHANGED <<poolVars, disk, num_pages, logVars, pin, latest>>

\* TransactionManager::begin logs a record; commit and abort also force the log.
LogBegin == AddLog /\ UNCHANGED <<poolVars, fileVars, pin, latest>>

LogEnd ==
    /\ last_lsn < MaxLsn
    /\ last_lsn' = last_lsn + 1
    /\ persist_lsn' = last_lsn'
    /\ UNCHANGED <<poolVars, fileVars, pin, latest>>

-----------------------------------------------------------------------------

Init ==
    /\ page_table = [id \in PageId |-> None]
    /\ page_id = [f \in Frames |-> None]
    /\ pin_count = [f \in Frames |-> 0]
    /\ is_dirty = [f \in Frames |-> FALSE]
    /\ data = [f \in Frames |-> Zeroed]
    /\ free_list \in Ascending(Frames)
    /\ LRUlist = <<>>
    /\ disk = [file \in Files |-> [no \in PageNo |-> None]]
    /\ file_of = [fd \in Fds |-> None]
    /\ num_pages = [file \in Files |-> 0]
    /\ last_lsn = INVALID_LSN
    /\ persist_lsn = INVALID_LSN
    /\ pin = [c \in Clients |-> None]
    /\ latest = [file \in Files |-> [no \in PageNo |-> None]]

Next ==
    \/ \E c \in Clients, id \in PageId : FetchHit(c, id) \/ FetchMiss(c, id)
    \/ \E c \in Clients, fd \in Fds : NewPage(c, fd)
    \/ \E c \in Clients : Modify(c) \/ ModifyUnlogged(c) \/ Unpin(c) \/ LeakPin(c)
    \/ \E id \in PageId : FlushPage(id) \/ DeletePage(id)
    \/ \E fd \in Fds : FlushAll(fd) \/ CloseFile(fd)
    \/ \E fd \in Fds, file \in Files : OpenFile(fd, file)
    \/ LogBegin \/ LogEnd

Spec == Init /\ [][Next]_vars

-----------------------------------------------------------------------------
(* Properties *)

TypeOK ==
    /\ page_table \in [PageId -> Frames \cup {None}]
    /\ page_id \in [Frames -> PageId \cup {None}]
    /\ pin_count \in [Frames -> Nat]
    /\ is_dirty \in [Frames -> BOOLEAN]
    /\ data \in [Frames -> Contents]
    /\ free_list \in Seq(Frames)
    /\ LRUlist \in Seq(Frames)
    /\ disk \in [Files -> [PageNo -> Contents \cup {None}]]
    /\ file_of \in [Fds -> Files \cup {None}]
    /\ num_pages \in [Files -> 0..MaxPages]
    /\ last_lsn \in Lsn \cup {INVALID_LSN}
    /\ persist_lsn \in Lsn \cup {INVALID_LSN}
    /\ pin \in [Clients -> Pin \cup {None}]
    /\ latest \in [Files -> [PageNo -> Contents \cup {None}]]

\* page_table_ and the frames' ids are inverse to each other, so no page is
\* cached twice, whatever is evicted, deleted or closed in between.
PageTableExact ==
    \A id \in PageId, f \in Frames : page_table[id] = f <=> page_id[f] = id

\* A Page* stays valid as long as its client pins it: the frame still holds the
\* page, and its pin count covers every client that uses it.
PinsProtect ==
    /\ \A c \in Clients : pin[c] # None => page_id[pin[c].frame] = pin[c].id
    /\ \A f \in Frames : Cardinality(Holders(f)) <= pin_count[f]

\* No frame is lost and none is offered twice: a frame is in the free list
\* exactly when it holds no page, a frame in use is evictable exactly when
\* nobody pins it, and neither list repeats a frame.  A frame that delete_page
\* or delete_all_pages freed may still be in LRUlist_; it is taken from the free
\* list first and that removes it.
FramesAccounted ==
    /\ \A f \in Frames :
        /\ f \in Elements(free_list) <=> page_id[f] = None
        /\ page_id[f] = None => pin_count[f] = 0 /\ ~is_dirty[f]
        /\ page_id[f] # None => (f \in Elements(LRUlist) <=> pin_count[f] = 0)
    /\ Distinct(free_list) /\ Distinct(LRUlist)

\* No write is lost and no stale page is served: a cached page holds the newest
\* contents of its page of the file that is open on its descriptor now; a page
\* that is not cached, or cached clean with no writer at work, has its newest
\* contents on disk (so fetch_page finds it, and never past the end of file).
NoLostWrite ==
    \A file \in Files, no \in PageNo :
        LET frames == {f \in Frames : Caches(f, file, no)}
        IN  /\ \A f \in frames : data[f] = latest[file][no]
            /\ (\A f \in frames : ~is_dirty[f] /\ \A c \in Holders(f) : ~pin[c].dirty) =>
                    disk[file][no] = latest[file][no]

\* Write-ahead logging: no page reaches the disk before the log record of its
\* last logged change.  LSN 0 is a page no logged change has touched.
WriteAheadLog ==
    \A file \in Files, no \in PageNo :
        disk[file][no] # None =>
            disk[file][no].lsn = 0 \/ disk[file][no].lsn <= persist_lsn

=============================================================================
