-------------------------- MODULE BufferPoolProofs --------------------------
(***************************************************************************)
(* TLAPS proofs about BufferPool, for any number of frames, descriptors,   *)
(* files and clients and for every value of the bounds.                    *)
(***************************************************************************)
EXTENDS BufferPool, SequenceTheorems, FiniteSetTheorems, TLAPS

\* Every list operation of the pool yields a sequence.
LEMMA ElementsOfSeq ==
    ASSUME NEW S, NEW s \in Seq(S)
    PROVE  /\ Elements(s) \subseteq S
           /\ \A x : x \in Elements(s) <=> \E i \in 1..Len(s) : s[i] = x
           /\ DOMAIN s = 1..Len(s) /\ Len(s) \in Nat
  BY DEF Elements

\* Concatenating two lists without a common element keeps them distinct.
LEMMA ConcatLists ==
    ASSUME NEW S, NEW s \in Seq(S), NEW t \in Seq(S)
    PROVE  /\ s \o t \in Seq(S)
           /\ Elements(s \o t) = Elements(s) \cup Elements(t)
           /\ Distinct(s) /\ Distinct(t) /\ Elements(s) \cap Elements(t) = {}
                => Distinct(s \o t)
  <1>1. /\ s \o t \in Seq(S) /\ Len(s \o t) = Len(s) + Len(t)
        /\ Len(s) \in Nat /\ Len(t) \in Nat
        /\ \A i \in 1..Len(s) : (s \o t)[i] = s[i]
        /\ \A i \in 1..(Len(s) + Len(t)) : i > Len(s) => (s \o t)[i] = t[i - Len(s)]
    BY SMT
  <1>2. /\ \A x : x \in Elements(s) <=> \E i \in 1..Len(s) : s[i] = x
        /\ \A x : x \in Elements(t) <=> \E i \in 1..Len(t) : t[i] = x
        /\ \A x : x \in Elements(s \o t) <=> \E i \in 1..(Len(s) + Len(t)) : (s \o t)[i] = x
        /\ DOMAIN s = 1..Len(s) /\ DOMAIN t = 1..Len(t)
        /\ DOMAIN (s \o t) = 1..(Len(s) + Len(t))
    <2>1. /\ \A x : x \in Elements(s) <=> \E i \in 1..Len(s) : s[i] = x
          /\ \A x : x \in Elements(t) <=> \E i \in 1..Len(t) : t[i] = x
          /\ DOMAIN s = 1..Len(s) /\ DOMAIN t = 1..Len(t)
      BY ElementsOfSeq, Zenon
    <2>2. /\ \A x : x \in Elements(s \o t) <=> \E i \in 1..Len(s \o t) : (s \o t)[i] = x
          /\ DOMAIN (s \o t) = 1..Len(s \o t)
      BY <1>1, ElementsOfSeq, Zenon
    <2>3. QED
      BY <1>1, <2>1, <2>2, Zenon
  <1>3. ASSUME NEW x \in Elements(s) PROVE x \in Elements(s \o t)
    BY <1>1, <1>2
  <1>4. ASSUME NEW x \in Elements(t) PROVE x \in Elements(s \o t)
    <2>1. PICK i \in 1..Len(t) : t[i] = x
      BY <1>2, <1>4
    <2>2. (s \o t)[i + Len(s)] = x /\ i + Len(s) \in 1..(Len(s) + Len(t))
      BY <1>1, <2>1
    <2>3. QED
      BY <1>2, <2>2
  <1>5. ASSUME NEW x \in Elements(s \o t) PROVE x \in Elements(s) \cup Elements(t)
    <2>1. PICK i \in 1..(Len(s) + Len(t)) : (s \o t)[i] = x
      BY <1>2, <1>5
    <2>2. CASE i <= Len(s)
      BY <1>1, <1>2, <2>1, <2>2
    <2>3. CASE i > Len(s)
      <3>1. i - Len(s) \in 1..Len(t) /\ t[i - Len(s)] = x
        BY <1>1, <2>1, <2>3
      <3>2. QED
        BY <1>2, <3>1
    <2>4. QED
      BY <1>1, <2>1, <2>2, <2>3
  <1>6. ASSUME Distinct(s), Distinct(t), Elements(s) \cap Elements(t) = {}
        PROVE  Distinct(s \o t)
    <2>1. SUFFICES ASSUME NEW i \in 1..(Len(s) + Len(t)), NEW j \in 1..(Len(s) + Len(t)),
                          (s \o t)[i] = (s \o t)[j]
                   PROVE  i = j
      BY <1>2 DEF Distinct
    <2>2. CASE i <= Len(s) /\ j <= Len(s)
      BY <1>1, <1>2, <1>6, <2>1, <2>2 DEF Distinct
    <2>3. CASE i > Len(s) /\ j > Len(s)
      <3>1. /\ i - Len(s) \in 1..Len(t) /\ j - Len(s) \in 1..Len(t)
            /\ t[i - Len(s)] = t[j - Len(s)]
        BY <1>1, <2>1, <2>3
      <3>2. i - Len(s) = j - Len(s)
        BY <1>2, <1>6, <3>1 DEF Distinct
      <3>3. QED
        BY <1>1, <3>2
    <2>4. CASE i <= Len(s) /\ j > Len(s)
      <3>1. j - Len(s) \in 1..Len(t) /\ t[j - Len(s)] = s[i] /\ i \in 1..Len(s)
        BY <1>1, <2>1, <2>4
      <3>2. QED
        BY <1>2, <1>6, <3>1
    <2>5. CASE i > Len(s) /\ j <= Len(s)
      <3>1. i - Len(s) \in 1..Len(t) /\ t[i - Len(s)] = s[j] /\ j \in 1..Len(s)
        BY <1>1, <2>1, <2>5
      <3>2. QED
        BY <1>2, <1>6, <3>1
    <2>6. QED
      BY <1>1, <2>2, <2>3, <2>4, <2>5
  <1>7. QED
    BY <1>1, <1>3, <1>4, <1>5, <1>6

\* A contiguous part of a list without repetitions: its elements and the rest.
LEMMA SubList ==
    ASSUME NEW S, NEW s \in Seq(S), Distinct(s),
           NEW m \in 1..(Len(s) + 1), NEW n \in 0..Len(s), m <= n + 1
    PROVE  /\ SubSeq(s, m, n) \in Seq(S)
           /\ Distinct(SubSeq(s, m, n))
           /\ Elements(SubSeq(s, m, n)) = {s[i] : i \in m..n}
  <1>1. /\ SubSeq(s, m, n) \in Seq(S) /\ Len(SubSeq(s, m, n)) = n - m + 1
        /\ \A i \in 1..(n - m + 1) : SubSeq(s, m, n)[i] = s[m + i - 1]
        /\ Len(s) \in Nat
    BY SubSeqProperties
  <1>2. /\ DOMAIN SubSeq(s, m, n) = 1..(n - m + 1)
        /\ DOMAIN s = 1..Len(s)
        /\ \A x : x \in Elements(SubSeq(s, m, n))
                    <=> \E i \in 1..(n - m + 1) : SubSeq(s, m, n)[i] = x
    BY <1>1, ElementsOfSeq
  <1>3. Distinct(SubSeq(s, m, n))
    BY <1>1, <1>2 DEF Distinct
  <1>4. ASSUME NEW i \in m..n PROVE s[i] \in Elements(SubSeq(s, m, n))
    <2>1. i - m + 1 \in 1..(n - m + 1) /\ SubSeq(s, m, n)[i - m + 1] = s[i]
      BY <1>1
    <2>2. QED
      BY <1>2, <2>1
  <1>5. ASSUME NEW x \in Elements(SubSeq(s, m, n)) PROVE \E i \in m..n : x = s[i]
    <2>1. PICK i \in 1..(n - m + 1) : SubSeq(s, m, n)[i] = x
      BY <1>2, <1>5
    <2>2. m + i - 1 \in m..n /\ x = s[m + i - 1]
      BY <1>1, <2>1
    <2>3. QED
      BY <2>2
  <1>6. QED
    BY <1>1, <1>3, <1>4, <1>5

\* LRUReplacer::pin takes the frame out of the list and nothing else.
LEMMA ReplacerPin ==
    ASSUME NEW list \in Seq(Frames), Distinct(list), NEW f
    PROVE  /\ replacer_pin(list, f) \in Seq(Frames)
           /\ Distinct(replacer_pin(list, f))
           /\ Elements(replacer_pin(list, f)) = Elements(list) \ {f}
  <1>1. CASE f \notin Elements(list)
    BY <1>1 DEF replacer_pin
  <1>2. CASE f \in Elements(list)
    <2> DEFINE p == Position(list, f)
               a == SubSeq(list, 1, p - 1)
               b == SubSeq(list, p + 1, Len(list))
    <2>1. /\ p \in 1..Len(list) /\ list[p] = f
          /\ Len(list) \in Nat /\ DOMAIN list = 1..Len(list)
          /\ Elements(list) = {list[i] : i \in 1..Len(list)}
      BY <1>2 DEF Position, Elements
    <2>2. /\ a \in Seq(Frames) /\ Distinct(a) /\ Elements(a) = {list[i] : i \in 1..(p - 1)}
      BY <2>1, SubList
    <2>3. /\ b \in Seq(Frames) /\ Distinct(b)
          /\ Elements(b) = {list[i] : i \in (p + 1)..Len(list)}
      BY <2>1, SubList
    <2>4. Elements(a) \cap Elements(b) = {}
      <3>1. SUFFICES ASSUME NEW x \in Elements(a), x \in Elements(b) PROVE FALSE
        OBVIOUS
      <3>2. PICK i \in 1..(p - 1), j \in (p + 1)..Len(list) : x = list[i] /\ x = list[j]
        BY <2>2, <2>3, <3>1, Zenon
      <3>3. i \in DOMAIN list /\ j \in DOMAIN list /\ i # j
        BY <2>1, <3>2
      <3>4. QED
        BY <3>2, <3>3 DEF Distinct
    <2>5. /\ a \o b \in Seq(Frames) /\ Distinct(a \o b)
          /\ Elements(a \o b) = Elements(a) \cup Elements(b)
      BY <2>2, <2>3, <2>4, ConcatLists
    <2>6. Elements(a) \cup Elements(b) = Elements(list) \ {f}
      <3>1. \A i \in 1..Len(list) : list[i] = f <=> i = p
        BY <2>1 DEF Distinct
      <3>2. \A i \in 1..Len(list) : i # p <=> i \in 1..(p - 1) \/ i \in (p + 1)..Len(list)
        BY <2>1
      <3>3. 1..(p - 1) \subseteq 1..Len(list) /\ (p + 1)..Len(list) \subseteq 1..Len(list)
        BY <2>1
      <3> HIDE DEF a, b, p
      <3>4. QED
        BY <2>1, <2>2, <2>3, <3>1, <3>2, <3>3
    <2>7. replacer_pin(list, f) = a \o b
      BY <1>2 DEF replacer_pin
    <2>8. QED
      BY <2>5, <2>6, <2>7
  <1>3. QED
    BY <1>1, <1>2

\* LRUReplacer::unpin adds the frame, once.
LEMMA ReplacerUnpin ==
    ASSUME NEW list \in Seq(Frames), Distinct(list), NEW f \in Frames
    PROVE  /\ replacer_unpin(list, f) \in Seq(Frames)
           /\ Distinct(replacer_unpin(list, f))
           /\ Elements(replacer_unpin(list, f)) = Elements(list) \cup {f}
  <1>1. CASE f \in Elements(list)
    BY <1>1 DEF replacer_unpin
  <1>2. CASE f \notin Elements(list)
    <2> DEFINE one == <<f>>
    <2>1. one \in Seq(Frames) /\ Distinct(one) /\ Elements(one) = {f}
      BY DEF Distinct, Elements
    <2>2. replacer_unpin(list, f) = one \o list
      BY <1>2 DEF replacer_unpin
    <2> HIDE DEF one
    <2>3. Elements(one) \cap Elements(list) = {}
      BY <1>2, <2>1
    <2>4. /\ one \o list \in Seq(Frames) /\ Distinct(one \o list)
          /\ Elements(one \o list) = Elements(one) \cup Elements(list)
      BY <2>1, <2>3, ConcatLists
    <2>5. QED
      BY <2>1, <2>2, <2>4
  <1>3. QED
    BY <1>1, <1>2

\* The first element of a list without repetitions leaves it for good.
LEMMA HeadOfList ==
    ASSUME NEW list \in Seq(Frames), Distinct(list), list # <<>>
    PROVE  /\ Head(list) \in Elements(list)
           /\ Tail(list) \in Seq(Frames) /\ Distinct(Tail(list))
           /\ Elements(Tail(list)) = Elements(list) \ {Head(list)}
  <1>1. /\ Len(list) \in Nat \ {0} /\ Head(list) = list[1]
        /\ Tail(list) = SubSeq(list, 2, Len(list))
        /\ DOMAIN list = 1..Len(list)
    BY TailIsSubSeq, EmptySeq
  <1>2. /\ Tail(list) \in Seq(Frames) /\ Distinct(Tail(list))
        /\ Elements(Tail(list)) = {list[i] : i \in 2..Len(list)}
    <2>1. 2 \in 1..(Len(list) + 1) /\ Len(list) \in 0..Len(list) /\ 2 <= Len(list) + 1
      BY <1>1
    <2>2. /\ SubSeq(list, 2, Len(list)) \in Seq(Frames)
          /\ Distinct(SubSeq(list, 2, Len(list)))
          /\ Elements(SubSeq(list, 2, Len(list))) = {list[i] : i \in 2..Len(list)}
      BY <2>1, SubList
    <2>3. QED
      BY <1>1, <2>2
  <1>3. Elements(list) = {list[i] : i \in 1..Len(list)}
    BY <1>1 DEF Elements
  <1>4. QED
    BY <1>1, <1>2, <1>3 DEF Distinct

\* So does the last.
LEMMA LastOfList ==
    ASSUME NEW list \in Seq(Frames), Distinct(list), list # <<>>
    PROVE  /\ list[Len(list)] \in Elements(list)
           /\ SubSeq(list, 1, Len(list) - 1) \in Seq(Frames)
           /\ Distinct(SubSeq(list, 1, Len(list) - 1))
           /\ Elements(SubSeq(list, 1, Len(list) - 1)) = Elements(list) \ {list[Len(list)]}
  <1>1. Len(list) \in Nat \ {0} /\ DOMAIN list = 1..Len(list)
    BY EmptySeq
  <1>2. /\ SubSeq(list, 1, Len(list) - 1) \in Seq(Frames)
        /\ Distinct(SubSeq(list, 1, Len(list) - 1))
        /\ Elements(SubSeq(list, 1, Len(list) - 1)) = {list[i] : i \in 1..(Len(list) - 1)}
    BY <1>1, SubList
  <1>3. Elements(list) = {list[i] : i \in 1..Len(list)}
    BY <1>1 DEF Elements
  <1>4. QED
    BY <1>1, <1>2, <1>3 DEF Distinct

\* The loop over pages_ lists each of the frames once.
LEMMA AscendingList ==
    ASSUME NEW fs \in SUBSET Frames, NEW q \in Ascending(fs)
    PROVE  q \in Seq(Frames) /\ Distinct(q) /\ Elements(q) = fs
  <1>1. IsFiniteSet(fs) /\ Cardinality(fs) \in Nat
    BY PoolAssumption, FS_Subset, FS_CardinalityType
  <1>2. q \in [1..Cardinality(fs) -> fs] /\ Elements(q) = fs
    BY DEF Ascending
  <1>3. q \in Seq(Frames)
    BY <1>1, <1>2
  <1>4. ASSUME NEW i \in DOMAIN q, NEW j \in DOMAIN q, i # j PROVE q[i] # q[j]
    <2>1. i \in Nat /\ j \in Nat /\ q[i] \in Nat /\ q[j] \in Nat
      <3>1. i \in 1..Cardinality(fs) /\ j \in 1..Cardinality(fs)
        BY <1>2
      <3>2. q[i] \in fs /\ q[j] \in fs
        BY <1>2, <3>1
      <3>3. i \in Nat /\ j \in Nat
        BY <1>1, <3>1
      <3>4. Frames \subseteq Nat
        BY PoolAssumption
      <3>5. QED
        BY <3>2, <3>3, <3>4
    <2>2. (i < j => q[i] < q[j]) /\ (j < i => q[j] < q[i])
      BY DEF Ascending
    <2>3. QED
      BY <1>4, <2>1, <2>2
  <1>5. QED
    BY <1>2, <1>3, <1>4 DEF Distinct

-----------------------------------------------------------------------------

\* What ties the pool to the files: an open file has one descriptor, only
\* allocated pages of open files are cached, and a page has contents once it is
\* allocated.
FilesExact ==
    /\ \A d, e \in Fds : file_of[d] # None /\ file_of[d] = file_of[e] => d = e
    /\ \A f \in Frames : page_id[f] # None => Allocated(page_id[f])
    /\ \A file \in Files, no \in PageNo : latest[file][no] # None <=> no < num_pages[file]

\* No page carries an LSN the log has not issued.
LogOrder ==
    /\ persist_lsn <= last_lsn
    /\ \A f \in Frames : data[f].lsn = 0 \/ data[f].lsn <= last_lsn

\* The two halves of NoLostWrite: for the cached pages, and for the disk.
CacheFresh ==
    \A f \in Frames, file \in Files, no \in PageNo :
        Caches(f, file, no) => data[f] = latest[file][no]

Settled(f) == ~is_dirty[f] /\ \A c \in Holders(f) : ~pin[c].dirty

DiskFresh ==
    \A file \in Files, no \in PageNo :
        (\A f \in Frames : Caches(f, file, no) => Settled(f)) =>
            disk[file][no] = latest[file][no]

\* The inductive invariant.
PoolInv ==
    /\ TypeOK
    /\ PageTableExact
    /\ PinsProtect
    /\ FramesAccounted
    /\ FilesExact
    /\ LogOrder
    /\ CacheFresh
    /\ DiskFresh
    /\ WriteAheadLog

\* The last two parts about contents are NoLostWrite.
LEMMA NoLostWriteHalves == CacheFresh /\ DiskFresh <=> NoLostWrite
  BY DEF CacheFresh, DiskFresh, NoLostWrite, Settled

\* A page of an open file is cached under one PageId only.
LEMMA CachesIsId ==
    ASSUME TypeOK, FilesExact, NEW f \in Frames, NEW id \in PageId, FileOf(id) # None,
           Caches(f, FileOf(id), id[2])
    PROVE  page_id[f] = id
  <1>1. page_id[f] \in PageId /\ page_id[f] # None
    BY DEF TypeOK, Caches
  <1>2. id[1] \in Fds /\ page_id[f][1] \in Fds /\ page_id[f][2] = id[2]
        /\ file_of[page_id[f][1]] = file_of[id[1]]
    BY <1>1 DEF PageId, Caches, FileOf
  <1>3. page_id[f][1] = id[1]
    BY <1>2 DEF FilesExact, FileOf
  <1>4. QED
    BY <1>1, <1>2, <1>3 DEF PageId

\* What a PageId is made of.
LEMMA PageIdParts ==
    ASSUME NEW id \in PageId
    PROVE  id[1] \in Fds /\ id[2] \in PageNo /\ id # None
  BY NoneAssumption DEF PageId

\* A frame nobody counts has no holder.
LEMMA NoHolder ==
    ASSUME PinsProtect, NEW f \in Frames
    PROVE  /\ IsFiniteSet(Holders(f)) /\ Cardinality(Holders(f)) \in Nat
           /\ pin_count[f] = 0 => Holders(f) = {}
  <1>1. IsFiniteSet(Holders(f)) /\ Cardinality(Holders(f)) \in Nat
    BY PoolAssumption, FS_Subset, FS_CardinalityType DEF Holders
  <1>2. Cardinality(Holders(f)) <= pin_count[f]
    BY DEF PinsProtect
  <1>3. QED
    BY <1>1, <1>2, FS_EmptySet

\* find_victim_page returns a frame that nobody uses and takes it out of both
\* lists.
LEMMA VictimFrame ==
    ASSUME TypeOK, FramesAccounted, NEW f \in Frames, Victim(f)
    PROVE  /\ free_list' \in Seq(Frames) /\ LRUlist' \in Seq(Frames)
           /\ Distinct(free_list') /\ Distinct(LRUlist')
           /\ Elements(free_list') = Elements(free_list) \ {f}
           /\ Elements(LRUlist') = Elements(LRUlist) \ {f}
           /\ pin_count[f] = 0
  <1>1. /\ free_list \in Seq(Frames) /\ LRUlist \in Seq(Frames)
        /\ Distinct(free_list) /\ Distinct(LRUlist)
    BY DEF TypeOK, FramesAccounted
  <1>2. CASE free_list # <<>>
    <2>1. /\ f = Head(free_list) /\ free_list' = Tail(free_list)
          /\ LRUlist' = replacer_pin(LRUlist, f)
      BY <1>2 DEF Victim
    <2>2. f \in Elements(free_list)
      BY <1>1, <1>2, <2>1, HeadOfList
    <2>3. pin_count[f] = 0
      BY <2>2 DEF FramesAccounted
    <2>4. QED
      BY <1>1, <1>2, <2>1, <2>3, HeadOfList, ReplacerPin
  <1>3. CASE free_list = <<>>
    <2> DEFINE short == SubSeq(LRUlist, 1, Len(LRUlist) - 1)
    <2>1. /\ LRUlist # <<>> /\ f = LRUlist[Len(LRUlist)] /\ free_list' = free_list
          /\ LRUlist' = replacer_pin(short, f)
      BY <1>3 DEF Victim
    <2>2. /\ f \in Elements(LRUlist) /\ short \in Seq(Frames) /\ Distinct(short)
          /\ Elements(short) = Elements(LRUlist) \ {f}
      BY <1>1, <2>1, LastOfList
    <2>3. pin_count[f] = 0
      BY <2>2 DEF FramesAccounted
    <2>4. Elements(free_list) = {}
      BY <1>3 DEF Elements
    <2> HIDE DEF short
    <2>5. /\ LRUlist' \in Seq(Frames) /\ Distinct(LRUlist')
          /\ Elements(LRUlist') = Elements(short) \ {f}
      BY <2>1, <2>2, ReplacerPin
    <2>6. QED
      BY <1>1, <2>1, <2>2, <2>3, <2>4, <2>5
  <1>4. QED
    BY <1>2, <1>3

\* A write of pages forces the log first, keeps it ordered, and stores the
\* newest contents of the pages written.
LEMMA PagesWritten ==
    ASSUME TypeOK, LogOrder, CacheFresh, WriteAheadLog,
           NEW fs \in SUBSET Frames, WritePages(fs)
    PROVE  /\ disk' \in [Files -> [PageNo -> Contents \cup {None}]]
           /\ last_lsn' = last_lsn
           /\ persist_lsn' \in Lsn \cup {INVALID_LSN} /\ persist_lsn' <= last_lsn
           /\ WriteAheadLog'
           /\ \A file \in Files, no \in PageNo :
                 disk'[file][no] = IF \E f \in fs : Caches(f, file, no)
                                   THEN latest[file][no] ELSE disk[file][no]
  <1>1. /\ last_lsn \in Int /\ persist_lsn \in Int
        /\ \A f \in Frames : data[f] \in Contents /\ data[f].lsn \in Int
    BY PoolAssumption DEF TypeOK, Lsn, INVALID_LSN, Contents
  <1>2. /\ last_lsn' = last_lsn /\ persist_lsn' \in {persist_lsn, last_lsn}
        /\ \A f \in fs : data[f].lsn > persist_lsn => persist_lsn' = last_lsn
    BY <1>1 DEF WritePages, ForceLog, FlushLog, logVars
  <1>3. persist_lsn' \in Lsn \cup {INVALID_LSN} /\ persist_lsn' <= last_lsn
        /\ persist_lsn <= persist_lsn' /\ persist_lsn' \in Int
    BY <1>1, <1>2 DEF TypeOK, LogOrder
  <1>4. ASSUME NEW file \in Files, NEW no \in PageNo
        PROVE  /\ disk'[file][no] = IF \E f \in fs : Caches(f, file, no)
                                    THEN latest[file][no] ELSE disk[file][no]
               /\ (\E f \in fs : Caches(f, file, no)) =>
                    \E f \in fs : disk'[file][no] = data[f]
    <2>1. disk'[file][no] = IF \E f \in fs : Caches(f, file, no)
                            THEN data[CHOOSE f \in fs : Caches(f, file, no)]
                            ELSE disk[file][no]
      BY DEF WritePages
    <2>2. CASE \E f \in fs : Caches(f, file, no)
      <3> DEFINE g == CHOOSE f \in fs : Caches(f, file, no)
      <3>1. g \in fs /\ Caches(g, file, no)
        BY <2>2
      <3> HIDE DEF g
      <3>2. data[g] = latest[file][no]
        BY <3>1 DEF CacheFresh
      <3>3. disk'[file][no] = data[g]
        BY <2>1, <2>2 DEF g
      <3>4. QED
        BY <2>2, <3>1, <3>2, <3>3
    <2>3. CASE ~\E f \in fs : Caches(f, file, no)
      BY <2>1, <2>3
    <2>4. QED
      BY <2>2, <2>3
  <1>5. disk' \in [Files -> [PageNo -> Contents \cup {None}]]
    <2>1. \A file \in Files, no \in PageNo :
            disk'[file][no] \in Contents \cup {None}
      <3>1. \A file \in Files, no \in PageNo :
              /\ disk[file][no] \in Contents \cup {None}
              /\ latest[file][no] \in Contents \cup {None}
        BY DEF TypeOK
      <3>2. QED
        BY <1>4, <3>1
    <2>2. disk' = [file \in Files |-> [no \in PageNo |-> disk'[file][no]]]
      BY DEF WritePages
    <2>3. QED
      BY <2>1, <2>2
  <1>6. WriteAheadLog'
    <2>1. SUFFICES ASSUME NEW file \in Files, NEW no \in PageNo, disk'[file][no] # None
                   PROVE  disk'[file][no].lsn = 0 \/ disk'[file][no].lsn <= persist_lsn'
      BY DEF WriteAheadLog
    <2>2. CASE \E f \in fs : Caches(f, file, no)
      <3>1. PICK f \in fs : disk'[file][no] = data[f]
        BY <1>4, <2>2
      <3>2. data[f].lsn = 0 \/ data[f].lsn <= last_lsn
        BY DEF LogOrder
      <3>3. data[f].lsn = 0 \/ data[f].lsn <= persist_lsn'
        BY <1>1, <1>2, <1>3, <3>2
      <3>4. QED
        BY <3>1, <3>3
    <2>3. CASE ~\E f \in fs : Caches(f, file, no)
      <3>1. disk'[file][no] = disk[file][no]
        BY <1>4, <2>3
      <3>2. disk[file][no] \in Contents
        BY <2>1, <3>1 DEF TypeOK
      <3>3. disk[file][no].lsn \in Int
        BY <3>2, PoolAssumption DEF Contents, Lsn
      <3>4. disk[file][no].lsn = 0 \/ disk[file][no].lsn <= persist_lsn
        BY <2>1, <3>1 DEF WriteAheadLog
      <3>5. QED
        BY <1>1, <1>3, <3>1, <3>3, <3>4
    <2>4. QED
      BY <2>2, <2>3
  <1>7. QED
    BY <1>2, <1>3, <1>4, <1>5, <1>6

-----------------------------------------------------------------------------

\* update_page: the frame changes its page for one that was not cached.
LEMMA RetitleKeeps ==
    ASSUME TypeOK, PageTableExact, NEW f \in Frames, NEW id \in PageId,
           page_table[id] = None, Retitle(f, id)
    PROVE  /\ page_table' \in [PageId -> Frames \cup {None}]
           /\ page_id' \in [Frames -> PageId \cup {None}]
           /\ page_id'[f] = id
           /\ \A g \in Frames : g # f => page_id'[g] = page_id[g]
           /\ PageTableExact'
  <1>1. /\ page_table' \in [PageId -> Frames \cup {None}]
        /\ page_id' \in [Frames -> PageId \cup {None}]
        /\ page_id'[f] = id
        /\ \A g \in Frames : g # f => page_id'[g] = page_id[g]
        /\ \A i \in PageId : page_table'[i] = IF i = id THEN f
                                    ELSE IF i = page_id[f] THEN None ELSE page_table[i]
    BY DEF Retitle, TypeOK
  <1>2. ASSUME NEW i \in PageId, NEW g \in Frames
        PROVE  page_table'[i] = g <=> page_id'[g] = i
    <2>1. /\ page_table[i] = g <=> page_id[g] = i
          /\ page_table[i] = f <=> page_id[f] = i
          /\ page_table[id] # g /\ g # None
      BY NoneAssumption DEF PageTableExact
    <2>2. page_table[id] = g <=> page_id[g] = id
      BY DEF PageTableExact
    <2>3. QED
      BY <1>1, <2>1, <2>2
  <1>3. QED
    BY <1>1, <1>2 DEF PageTableExact

LEMMA LsnsAreIntegers ==
    /\ \A lsn \in Lsn \cup {INVALID_LSN} : lsn \in Int
    /\ \A contents \in Contents : contents.lsn \in Int
  <1>1. MaxLsn \in Nat
    BY PoolAssumption
  <1>2. \A lsn \in Lsn \cup {INVALID_LSN} : lsn \in Int
    BY <1>1 DEF Lsn, INVALID_LSN
  <1>3. QED
    BY <1>2 DEF Contents

\* fetch_page and new_page put a page into a frame nobody uses.  What the frame
\* held before is on disk afterwards, and the invariant survives.
LEMMA LoadKeeps ==
    ASSUME PoolInv, NEW c \in Clients, NEW f \in Frames, NEW id \in PageId,
           NEW contents \in Contents, NEW dirty \in BOOLEAN,
           pin[c] = None, page_table[id] = None, FileOf(id) # None,
           contents.lsn = 0 \/ contents.lsn <= last_lsn,
           Victim(f), Load(c, f, id, contents, dirty), file_of' = file_of,
           num_pages' \in [Files -> 0..MaxPages],
           latest' \in [Files -> [PageNo -> Contents \cup {None}]],
           Allocated(id)',
           \A i \in PageId : Allocated(i) => Allocated(i)',
           \A file \in Files, no \in PageNo : latest'[file][no] # None <=> no < num_pages'[file],
           latest'[FileOf(id)][id[2]] = contents,
           \A file \in Files, no \in PageNo :
                ~(file = FileOf(id) /\ no = id[2]) => latest'[file][no] = latest[file][no],
           dirty \/ disk[FileOf(id)][id[2]] = contents
    PROVE  PoolInv'
  <1> DEFINE new == [id |-> id, frame |-> f, dirty |-> dirty]
  <1>1. /\ TypeOK /\ PageTableExact /\ PinsProtect /\ FramesAccounted /\ FilesExact
        /\ LogOrder /\ CacheFresh /\ DiskFresh /\ WriteAheadLog
    BY DEF PoolInv
  <1>2. /\ free_list' \in Seq(Frames) /\ LRUlist' \in Seq(Frames)
        /\ Distinct(free_list') /\ Distinct(LRUlist')
        /\ Elements(free_list') = Elements(free_list) \ {f}
        /\ Elements(LRUlist') = Elements(LRUlist) \ {f}
        /\ pin_count[f] = 0
    BY <1>1, VictimFrame
  <1>3. /\ WritePages(Dirty({f})) /\ Retitle(f, id)
        /\ is_dirty' = [is_dirty EXCEPT ![f] = FALSE]
        /\ data' = [data EXCEPT ![f] = contents]
        /\ pin_count' = [pin_count EXCEPT ![f] = 1]
        /\ pin' = [pin EXCEPT ![c] = new]
    BY DEF Load
  <1>4. /\ page_table' \in [PageId -> Frames \cup {None}]
        /\ page_id' \in [Frames -> PageId \cup {None}]
        /\ page_id'[f] = id
        /\ \A g \in Frames : g # f => page_id'[g] = page_id[g]
        /\ PageTableExact'
    BY <1>1, <1>3, RetitleKeeps
  <1>5. Dirty({f}) \in SUBSET Frames /\ (f \in Dirty({f}) <=> is_dirty[f])
        /\ \A g \in Dirty({f}) : g = f
    BY DEF Dirty
  <1>6. /\ disk' \in [Files -> [PageNo -> Contents \cup {None}]]
        /\ last_lsn' = last_lsn
        /\ persist_lsn' \in Lsn \cup {INVALID_LSN} /\ persist_lsn' <= last_lsn
        /\ WriteAheadLog'
        /\ \A file \in Files, no \in PageNo :
              disk'[file][no] = IF \E g \in Dirty({f}) : Caches(g, file, no)
                                THEN latest[file][no] ELSE disk[file][no]
    BY <1>1, <1>3, <1>5, PagesWritten
  <1>7. new \in Pin /\ new # None /\ new.frame = f /\ new.id = id /\ new.dirty = dirty
    BY NoneAssumption DEF Pin
  <1> HIDE DEF new
  <1>8. /\ is_dirty' \in [Frames -> BOOLEAN] /\ data' \in [Frames -> Contents]
        /\ pin_count' \in [Frames -> Nat] /\ pin' \in [Clients -> Pin \cup {None}]
        /\ ~is_dirty'[f] /\ data'[f] = contents /\ pin_count'[f] = 1 /\ pin'[c] = new
        /\ \A g \in Frames : g # f => /\ is_dirty'[g] = is_dirty[g]
                                      /\ data'[g] = data[g]
                                      /\ pin_count'[g] = pin_count[g]
        /\ \A d \in Clients : d # c => pin'[d] = pin[d]
    BY <1>1, <1>3, <1>7 DEF TypeOK
  <1>9. TypeOK'
    BY <1>1, <1>2, <1>4, <1>6, <1>8 DEF TypeOK
  <1>10. Holders(f) = {} /\ Holders(f)' = {c}
         /\ \A g \in Frames : g # f => Holders(g)' = Holders(g)
    <2>1. Holders(f) = {}
      BY <1>1, <1>2, NoHolder
    <2>2. QED
      BY <1>7, <1>8, <2>1 DEF Holders
  <1>11. PinsProtect'
    <2>1. ASSUME NEW d \in Clients, pin'[d] # None
          PROVE  page_id'[pin'[d].frame] = pin'[d].id
      <3>1. CASE d = c
        BY <1>4, <1>7, <1>8, <3>1
      <3>2. CASE d # c
        <4>1. pin'[d] = pin[d] /\ pin[d] \in Pin
          BY <1>1, <1>8, <2>1, <3>2 DEF TypeOK
        <4>2. pin[d].frame # f /\ pin[d].frame \in Frames
          BY <1>10, <2>1, <4>1 DEF Holders, Pin
        <4>3. QED
          BY <1>1, <1>4, <2>1, <4>1, <4>2 DEF PinsProtect
      <3>3. QED
        BY <3>1, <3>2
    <2>2. Cardinality(Holders(f)') <= pin_count'[f]
      <3>1. Cardinality({c}) = 1
        BY FS_Singleton
      <3>2. Cardinality(Holders(f)') = 1
        BY <1>10, <3>1, Zenon
      <3>3. QED
        BY <1>8, <3>2
    <2>3. \A g \in Frames : g # f => Cardinality(Holders(g)') <= pin_count'[g]
      BY <1>1, <1>8, <1>10 DEF PinsProtect
    <2>4. QED
      BY <2>1, <2>2, <2>3 DEF PinsProtect
  <1>12. FramesAccounted'
    <2>1. \A g \in Frames :
            /\ g \in Elements(free_list)' <=> page_id'[g] = None
            /\ page_id'[g] = None => pin_count'[g] = 0 /\ ~is_dirty'[g]
            /\ page_id'[g] # None => (g \in Elements(LRUlist)' <=> pin_count'[g] = 0)
      <3>1. TAKE g \in Frames
      <3>2. Elements(free_list)' = Elements(free_list') /\ Elements(LRUlist)' = Elements(LRUlist')
        BY DEF Elements
      <3>3. CASE g = f
        BY <1>2, <1>4, <1>8, <3>2, <3>3, PageIdParts
      <3>4. CASE g # f
        BY <1>1, <1>2, <1>4, <1>8, <3>2, <3>4 DEF FramesAccounted
      <3>5. QED
        BY <3>3, <3>4
    <2>2. Distinct(free_list)' /\ Distinct(LRUlist)'
      BY <1>2 DEF Distinct
    <2>3. QED
      BY <2>1, <2>2 DEF FramesAccounted
  <1>13. FilesExact'
    <2>1. \A d, e \in Fds : file_of'[d] # None /\ file_of'[d] = file_of'[e] => d = e
      BY <1>1 DEF FilesExact
    <2>2. ASSUME NEW g \in Frames, page_id'[g] # None PROVE Allocated(page_id[g])'
      <3>1. CASE g = f
        BY <1>4, <3>1 DEF Allocated, FileOf
      <3>2. CASE g # f
        <4>1. page_id'[g] = page_id[g] /\ page_id[g] # None /\ page_id[g] \in PageId
          BY <1>1, <1>4, <2>2, <3>2 DEF TypeOK
        <4>2. Allocated(page_id[g])
          BY <1>1, <4>1 DEF FilesExact
        <4>3. QED
          BY <4>1, <4>2 DEF Allocated, FileOf
      <3>3. QED
        BY <3>1, <3>2
    <2>3. QED
      BY <2>1, <2>2 DEF FilesExact
  <1>14. LogOrder'
    BY <1>1, <1>6, <1>8 DEF LogOrder
  <1>15. ASSUME NEW g \in Frames, NEW file \in Files, NEW no \in PageNo
         PROVE  Caches(g, file, no)' <=> IF g = f THEN file = FileOf(id) /\ no = id[2]
                                         ELSE Caches(g, file, no)
    BY <1>4, PageIdParts DEF Caches, FileOf
  <1>16. ASSUME NEW g \in Frames, NEW file \in Files, NEW no \in PageNo,
                g # f, Caches(g, file, no)
         PROVE  ~(file = FileOf(id) /\ no = id[2])
    <2>1. SUFFICES ASSUME file = FileOf(id), no = id[2] PROVE FALSE
      OBVIOUS
    <2>2. page_id[g] = id
      BY <1>1, <1>16, <2>1, CachesIsId
    <2>3. page_table[id] = g
      BY <1>1, <2>2 DEF PageTableExact
    <2>4. QED
      BY <2>3, NoneAssumption
  <1>17. CacheFresh'
    <2>1. SUFFICES ASSUME NEW g \in Frames, NEW file \in Files, NEW no \in PageNo,
                          Caches(g, file, no)'
                   PROVE  data'[g] = latest'[file][no]
      BY DEF CacheFresh
    <2>2. CASE g = f
      BY <1>8, <1>15, <2>1, <2>2
    <2>3. CASE g # f
      <3>1. Caches(g, file, no)
        BY <1>15, <2>1, <2>3
      <3>2. data[g] = latest[file][no] /\ latest'[file][no] = latest[file][no]
        BY <1>1, <1>16, <2>3, <3>1 DEF CacheFresh
      <3>3. QED
        BY <1>8, <2>3, <3>2
    <2>4. QED
      BY <2>2, <2>3
  <1>18. Settled(f)' => ~dirty
    BY <1>7, <1>8, <1>10 DEF Settled
  <1>19. Settled(f) <=> ~is_dirty[f]
    BY <1>10 DEF Settled
  <1>20. ASSUME NEW g \in Frames, g # f PROVE Settled(g)' <=> Settled(g)
    <2>1. c \notin Holders(g)
      BY DEF Holders
    <2>2. \A d \in Holders(g) : d \in Clients
      BY DEF Holders
    <2>3. QED
      BY <1>8, <1>10, <1>20, <2>1, <2>2 DEF Settled
  <1>21. DiskFresh'
    <2>1. SUFFICES ASSUME NEW file \in Files, NEW no \in PageNo,
                          \A g \in Frames : Caches(g, file, no)' => Settled(g)'
                   PROVE  disk'[file][no] = latest'[file][no]
      BY DEF DiskFresh
    <2>2. CASE file = FileOf(id) /\ no = id[2]
      <3>1. Settled(f)'
        BY <1>15, <2>1, <2>2
      <3>2. disk[file][no] = contents
        BY <1>18, <2>2, <3>1
      <3>3. ~Caches(f, file, no)
        <4>1. SUFFICES ASSUME Caches(f, file, no) PROVE FALSE
          OBVIOUS
        <4>2. page_id[f] = id
          BY <1>1, <2>2, <4>1, CachesIsId
        <4>3. page_table[id] = f
          BY <1>1, <4>2 DEF PageTableExact
        <4>4. QED
          BY <4>3, NoneAssumption
      <3>4. ~\E g \in Dirty({f}) : Caches(g, file, no)
        BY <1>5, <3>3
      <3>5. disk'[file][no] = disk[file][no]
        BY <1>6, <3>4
      <3>6. QED
        BY <2>2, <3>2, <3>5
    <2>3. CASE ~(file = FileOf(id) /\ no = id[2])
      <3>1. latest'[file][no] = latest[file][no]
        BY <2>3
      <3>2. \A g \in Frames : g # f /\ Caches(g, file, no) => Settled(g)
        BY <1>15, <1>20, <2>1
      <3>3. CASE Caches(f, file, no) /\ is_dirty[f]
        <4>1. \E g \in Dirty({f}) : Caches(g, file, no)
          BY <1>5, <3>3
        <4>2. QED
          BY <1>6, <3>1, <4>1
      <3>4. CASE ~(Caches(f, file, no) /\ is_dirty[f])
        <4>1. \A g \in Frames : Caches(g, file, no) => Settled(g)
          BY <1>19, <3>2, <3>4
        <4>2. disk[file][no] = latest[file][no]
          BY <1>1, <4>1 DEF DiskFresh
        <4>3. QED
          BY <1>6, <3>1, <4>2
      <3>5. QED
        BY <3>3, <3>4
    <2>4. QED
      BY <2>2, <2>3
  <1>22. QED
    BY <1>4, <1>6, <1>9, <1>11, <1>12, <1>13, <1>14, <1>17, <1>21 DEF PoolInv

\* A fetch of a page that is not cached finds it on disk: read_page never meets
\* the end of the file.
LEMMA FetchMissKeeps ==
    ASSUME PoolInv, NEW c \in Clients, NEW id \in PageId, FetchMiss(c, id)
    PROVE  PoolInv'
  <1> DEFINE file == FileOf(id)
             no == id[2]
             contents == disk[file][no]
  <1>1. /\ TypeOK /\ PageTableExact /\ FilesExact /\ DiskFresh /\ CacheFresh
        /\ WriteAheadLog /\ LogOrder
    BY DEF PoolInv
  <1>2. PICK f \in Frames : Victim(f) /\ Load(c, f, id, contents, FALSE)
    BY DEF FetchMiss
  <1>3. /\ pin[c] = None /\ page_table[id] = None /\ Allocated(id)
        /\ file_of' = file_of /\ num_pages' = num_pages /\ latest' = latest
    BY DEF FetchMiss
  <1>4. file # None /\ file \in Files /\ no \in PageNo /\ no < num_pages[file]
    BY <1>1, <1>3, PageIdParts DEF Allocated, TypeOK, FileOf
  <1>5. \A g \in Frames : ~Caches(g, file, no)
    <2>1. SUFFICES ASSUME NEW g \in Frames, Caches(g, file, no) PROVE FALSE
      OBVIOUS
    <2>2. page_table[id] = g
      BY <1>1, <1>4, <2>1, CachesIsId DEF PageTableExact
    <2>3. QED
      BY <1>3, <2>2, NoneAssumption
  <1>6. contents = latest[file][no] /\ contents # None /\ contents \in Contents
    <2>1. contents = latest[file][no]
      BY <1>1, <1>4, <1>5 DEF DiskFresh
    <2>2. latest[file][no] # None
      BY <1>1, <1>4 DEF FilesExact
    <2>3. latest[file][no] \in Contents \cup {None}
      BY <1>1, <1>4 DEF TypeOK
    <2>4. QED
      BY <2>1, <2>2, <2>3
  <1>7. contents.lsn = 0 \/ contents.lsn <= last_lsn
    <2>1. contents.lsn = 0 \/ contents.lsn <= persist_lsn
      BY <1>1, <1>4, <1>6 DEF WriteAheadLog
    <2>2. contents.lsn \in Int /\ persist_lsn \in Int /\ last_lsn \in Int
      BY <1>1, <1>6, LsnsAreIntegers DEF TypeOK
    <2>3. QED
      BY <1>1, <2>1, <2>2 DEF LogOrder
  <1>8. /\ Allocated(id)'
        /\ \A i \in PageId : Allocated(i) => Allocated(i)'
    BY <1>3 DEF Allocated, FileOf
  <1>9. QED
    <2>1. /\ num_pages' \in [Files -> 0..MaxPages]
          /\ latest' \in [Files -> [PageNo -> Contents \cup {None}]]
          /\ \A fl \in Files, n \in PageNo : latest'[fl][n] # None <=> n < num_pages'[fl]
      BY <1>1, <1>3 DEF TypeOK, FilesExact
    <2>2. latest'[FileOf(id)][id[2]] = contents
      BY <1>3, <1>6
    <2> HIDE DEF contents
    <2>3. disk[FileOf(id)][id[2]] = contents
      BY DEF contents
    <2>4. QED
      BY <1>2, <1>3, <1>4, <1>6, <1>7, <1>8, <2>1, <2>2, <2>3, LoadKeeps

\* new_page: the page behind the last one is cached nowhere.
LEMMA NewPageKeeps ==
    ASSUME PoolInv, NEW c \in Clients, NEW fd \in Fds, NewPage(c, fd)
    PROVE  PoolInv'
  <1> DEFINE file == file_of[fd]
             no == num_pages[file]
             id == <<fd, no>>
  <1>1. TypeOK /\ PageTableExact /\ FilesExact
    BY DEF PoolInv
  <1>2. /\ pin[c] = None /\ file # None /\ no < MaxPages
        /\ num_pages' = [num_pages EXCEPT ![file] = @ + 1]
        /\ latest' = [latest EXCEPT ![file][no] = Zeroed]
        /\ file_of' = file_of
    BY DEF NewPage
  <1>3. PICK f \in Frames : Victim(f) /\ Load(c, f, id, Zeroed, TRUE)
    BY DEF NewPage
  <1>4. file \in Files /\ no \in 0..MaxPages
    BY <1>1, <1>2 DEF TypeOK
  <1>5. no \in PageNo /\ id \in PageId /\ id[1] = fd /\ id[2] = no /\ FileOf(id) = file
    BY <1>2, <1>4, PoolAssumption DEF PageNo, PageId, FileOf
  <1>6. ~Allocated(id)
    BY <1>4, <1>5, PoolAssumption DEF Allocated
  <1>7. page_table[id] = None
    <2>1. page_table[id] \in Frames \cup {None}
      BY <1>1, <1>5 DEF TypeOK
    <2>2. SUFFICES ASSUME page_table[id] \in Frames PROVE FALSE
      BY <2>1
    <2>3. page_id[page_table[id]] = id
      BY <1>1, <1>5, <2>2 DEF PageTableExact
    <2>4. Allocated(id)
      BY <1>1, <1>5, <2>2, <2>3, PageIdParts DEF FilesExact
    <2>5. QED
      BY <1>6, <2>4
  <1>8. Zeroed \in Contents /\ Zeroed.lsn = 0 /\ Zeroed # None
    BY PoolAssumption, NoneAssumption DEF Zeroed, Contents, Lsn
  <1>9. /\ num_pages' \in [Files -> 0..MaxPages]
        /\ num_pages'[file] = no + 1
        /\ \A fl \in Files : fl # file => num_pages'[fl] = num_pages[fl]
    BY <1>1, <1>2, <1>4, PoolAssumption DEF TypeOK
  <1>10. /\ latest' \in [Files -> [PageNo -> Contents \cup {None}]]
         /\ latest'[file][no] = Zeroed
         /\ \A fl \in Files, n \in PageNo :
               ~(fl = file /\ n = no) => latest'[fl][n] = latest[fl][n]
    BY <1>1, <1>2, <1>4, <1>5, <1>8 DEF TypeOK
  <1>11. ASSUME NEW fl \in Files, NEW n \in PageNo
         PROVE  latest'[fl][n] # None <=> n < num_pages'[fl]
    <2>1. latest[fl][n] # None <=> n < num_pages[fl]
      BY <1>1 DEF FilesExact
    <2>2. n \in Nat /\ num_pages[fl] \in Nat /\ no \in Nat
      BY <1>1, <1>4, PoolAssumption DEF TypeOK, PageNo
    <2>3. CASE fl = file /\ n = no
      BY <1>8, <1>9, <1>10, <2>2, <2>3
    <2>4. CASE fl = file /\ n # no
      BY <1>9, <1>10, <2>1, <2>2, <2>4
    <2>5. CASE fl # file
      BY <1>9, <1>10, <2>1, <2>5
    <2>6. QED
      BY <2>3, <2>4, <2>5
  <1>12. ASSUME NEW i \in PageId, Allocated(i) \/ i = id PROVE Allocated(i)'
    <2>1. FileOf(i) \in Files /\ FileOf(i)' = FileOf(i) /\ FileOf(i) # None /\ i[2] \in Nat
      BY <1>1, <1>2, <1>5, <1>12, PageIdParts, PoolAssumption DEF TypeOK, Allocated, FileOf, PageNo
    <2>2. num_pages[FileOf(i)] \in Nat /\ no \in Nat
      BY <1>1, <1>4, <2>1, PoolAssumption DEF TypeOK
    <2>3. i[2] < num_pages'[FileOf(i)]
      BY <1>5, <1>9, <1>12, <2>1, <2>2 DEF Allocated
    <2>4. QED
      BY <2>1, <2>3 DEF Allocated
  <1> HIDE DEF id, file, no
  <1>13. PICK page \in PageId : page = id
    BY <1>5
  <1>14. Allocated(page)' /\ \A i \in PageId : Allocated(i) => Allocated(i)'
    BY <1>12, <1>13
  <1>15. page[2] = no /\ FileOf(page) = file /\ page_table[page] = None
    BY <1>5, <1>7, <1>13
  <1>16. /\ \A fl \in Files, n \in PageNo : latest'[fl][n] # None <=> n < num_pages'[fl]
         /\ latest'[FileOf(page)][page[2]] = Zeroed
         /\ \A fl \in Files, n \in PageNo :
               ~(fl = FileOf(page) /\ n = page[2]) => latest'[fl][n] = latest[fl][n]
    BY <1>10, <1>11, <1>15
  <1>17. /\ FileOf(page) # None /\ pin[c] = None /\ file_of' = file_of
         /\ num_pages' \in [Files -> 0..MaxPages]
         /\ latest' \in [Files -> [PageNo -> Contents \cup {None}]]
    BY <1>2, <1>9, <1>10, <1>15
  <1>18. Victim(f) /\ Load(c, f, page, Zeroed, TRUE)
    BY <1>3, <1>13
  <1>19. QED
    BY <1>8, <1>14, <1>15, <1>16, <1>17, <1>18, LoadKeeps

\* A second client of a cached page: the frame leaves the replacer, one pin more.
LEMMA FetchHitKeeps ==
    ASSUME PoolInv, NEW c \in Clients, NEW id \in PageId, FetchHit(c, id)
    PROVE  PoolInv'
  <1>1. /\ TypeOK /\ PageTableExact /\ PinsProtect /\ FramesAccounted /\ FilesExact
        /\ LogOrder /\ CacheFresh /\ DiskFresh /\ WriteAheadLog
    BY DEF PoolInv
  <1>0. PICK f \in Frames : f = page_table[id]
    <2>1. page_table[id] \in Frames \cup {None} /\ page_table[id] # None
      BY <1>1 DEF TypeOK, FetchHit
    <2>2. QED
      BY <2>1
  <1> DEFINE new == [id |-> id, frame |-> f, dirty |-> FALSE]
  <1>2. /\ pin[c] = None /\ f # None /\ LRUlist' = replacer_pin(LRUlist, f)
        /\ pin_count' = [pin_count EXCEPT ![f] = @ + 1]
        /\ pin' = [pin EXCEPT ![c] = new]
        /\ UNCHANGED <<page_table, page_id, is_dirty, data, free_list, disk, file_of,
                       num_pages, last_lsn, persist_lsn, latest>>
    <2> DEFINE g == page_table[id]
    <2>1. /\ pin[c] = None /\ g # None /\ LRUlist' = replacer_pin(LRUlist, g)
          /\ pin_count' = [pin_count EXCEPT ![g] = @ + 1]
          /\ pin' = [pin EXCEPT ![c] = [id |-> id, frame |-> g, dirty |-> FALSE]]
          /\ UNCHANGED <<page_table, page_id, is_dirty, data, free_list, disk, file_of,
                         num_pages, last_lsn, persist_lsn, latest>>
      BY DEF FetchHit, fileVars, logVars
    <2>2. f = g
      BY <1>0
    <2> HIDE DEF g
    <2>3. QED
      BY <2>1, <2>2, Zenon
  <1>3. page_id[f] = id
    BY <1>0, <1>1 DEF PageTableExact
  <1>4. new \in Pin /\ new # None /\ new.frame = f /\ new.id = id /\ ~new.dirty
    <2>1. new \in Pin
      BY Zenon DEF Pin
    <2>2. QED
      BY <2>1, NoneAssumption
  <1> HIDE DEF new
  <1>5. /\ LRUlist' \in Seq(Frames) /\ Distinct(LRUlist')
        /\ Elements(LRUlist') = Elements(LRUlist) \ {f}
    BY <1>1, <1>2, ReplacerPin DEF TypeOK, FramesAccounted
  <1>6. /\ pin_count' \in [Frames -> Nat] /\ pin' \in [Clients -> Pin \cup {None}]
        /\ pin_count'[f] = pin_count[f] + 1 /\ pin'[c] = new
        /\ \A g \in Frames : g # f => pin_count'[g] = pin_count[g]
        /\ \A d \in Clients : d # c => pin'[d] = pin[d]
        /\ pin_count[f] \in Nat
    BY <1>1, <1>2, <1>3, <1>4 DEF TypeOK
  <1>7. TypeOK'
    BY <1>1, <1>2, <1>5, <1>6 DEF TypeOK
  <1>8. /\ Holders(f)' = Holders(f) \cup {c} /\ c \notin Holders(f)
        /\ \A g \in Frames : g # f => Holders(g)' = Holders(g) /\ c \notin Holders(g)
    BY <1>2, <1>4, <1>6 DEF Holders
  <1>9. PinsProtect'
    <2>1. \A d \in Clients : pin'[d] # None => page_id'[pin'[d].frame] = pin'[d].id
      BY <1>1, <1>2, <1>3, <1>4, <1>6 DEF PinsProtect
    <2>2. Cardinality(Holders(f)') <= pin_count'[f]
      <3>1. IsFiniteSet(Holders(f)) /\ Cardinality(Holders(f)) \in Nat
        BY <1>1, <1>3, NoHolder
      <3>2. Cardinality(Holders(f) \cup {c}) = Cardinality(Holders(f)) + 1
        BY <1>8, <3>1, FS_AddElement
      <3>3. Cardinality(Holders(f)') = Cardinality(Holders(f)) + 1
        BY <1>8, <3>2, Zenon
      <3>4. Cardinality(Holders(f)) <= pin_count[f]
        BY <1>1, <1>3 DEF PinsProtect
      <3>5. QED
        BY <1>6, <3>1, <3>3, <3>4
    <2>3. \A g \in Frames : g # f => Cardinality(Holders(g)') <= pin_count'[g]
      BY <1>1, <1>6, <1>8 DEF PinsProtect
    <2>4. QED
      BY <2>1, <2>2, <2>3 DEF PinsProtect
  <1>10. FramesAccounted'
    <2>1. /\ Elements(free_list)' = Elements(free_list) /\ Elements(LRUlist)' = Elements(LRUlist')
          /\ Distinct(free_list)' /\ Distinct(LRUlist)'
      BY <1>1, <1>2, <1>5 DEF Elements, Distinct, FramesAccounted
    <2>2. page_id[f] # None
      BY <1>3, PageIdParts
    <2>3. QED
      BY <1>1, <1>2, <1>3, <1>5, <1>6, <2>1, <2>2 DEF FramesAccounted
  <1>11. FilesExact' /\ LogOrder' /\ WriteAheadLog'
    BY <1>1, <1>2 DEF FilesExact, LogOrder, WriteAheadLog, Allocated, FileOf
  <1>12. \A g \in Frames, file \in Files, no \in PageNo :
            Caches(g, file, no)' <=> Caches(g, file, no)
    BY <1>2 DEF Caches, FileOf
  <1>13. CacheFresh'
    BY <1>1, <1>2, <1>12 DEF CacheFresh
  <1>14. \A g \in Frames : Settled(g)' <=> Settled(g)
    <2>1. TAKE g \in Frames
    <2>2. \A d \in Holders(g) : d \in Clients /\ d # c
      BY <1>8 DEF Holders
    <2>3. QED
      BY <1>2, <1>4, <1>6, <1>8, <2>2 DEF Settled
  <1>15. DiskFresh'
    BY <1>1, <1>2, <1>12, <1>14 DEF DiskFresh
  <1>16. PageTableExact'
    BY <1>1, <1>2 DEF PageTableExact
  <1>17. QED
    BY <1>7, <1>9, <1>10, <1>11, <1>13, <1>15, <1>16 DEF PoolInv

\* A client's page is the one its frame holds, allocated in an open file.
LEMMA PinnedPage ==
    ASSUME PoolInv, NEW c \in Clients, pin[c] # None
    PROVE  /\ pin[c] \in Pin /\ pin[c].frame \in Frames /\ pin[c].id \in PageId
           /\ page_id[pin[c].frame] = pin[c].id
           /\ FileOf(pin[c].id) \in Files /\ FileOf(pin[c].id) # None
           /\ pin[c].id[2] \in PageNo
           /\ latest[FileOf(pin[c].id)][pin[c].id[2]] # None
           /\ c \in Holders(pin[c].frame)
  <1>1. /\ pin[c] \in Pin /\ pin[c].frame \in Frames /\ pin[c].id \in PageId
    BY DEF PoolInv, TypeOK, Pin
  <1>2. page_id[pin[c].frame] = pin[c].id
    BY DEF PoolInv, PinsProtect
  <1>3. Allocated(pin[c].id)
    BY <1>1, <1>2, PageIdParts DEF PoolInv, FilesExact
  <1>4. /\ FileOf(pin[c].id) \in Files /\ FileOf(pin[c].id) # None
        /\ pin[c].id[2] \in PageNo /\ pin[c].id[1] \in Fds
        /\ pin[c].id[2] < num_pages[FileOf(pin[c].id)]
    BY <1>1, <1>3, PageIdParts DEF PoolInv, TypeOK, Allocated, FileOf
  <1>5. QED
    BY <1>1, <1>2, <1>4 DEF PoolInv, FilesExact, Holders

\* A change of a pinned page, logged or not.
LEMMA WriteKeeps ==
    ASSUME PoolInv, NEW c \in Clients, pin[c] # None,
           NEW lsn \in Lsn, Write(c, lsn), lsn = 0 \/ lsn <= last_lsn',
           last_lsn' \in Lsn \cup {INVALID_LSN}, persist_lsn' \in Lsn \cup {INVALID_LSN},
           last_lsn <= last_lsn', persist_lsn <= persist_lsn', persist_lsn' <= last_lsn'
    PROVE  PoolInv'
  <1>1. /\ TypeOK /\ PageTableExact /\ PinsProtect /\ FramesAccounted /\ FilesExact
        /\ LogOrder /\ CacheFresh /\ DiskFresh /\ WriteAheadLog
    BY DEF PoolInv
  <1>2. PICK f \in Frames, id \in PageId, file \in Files, no \in PageNo :
            /\ f = pin[c].frame /\ id = pin[c].id /\ file = FileOf(id) /\ no = id[2]
    BY PinnedPage
  <1>3. /\ page_id[f] = id /\ file # None /\ latest[file][no] # None
        /\ c \in Holders(f) /\ pin[c] \in Pin
    BY <1>2, PinnedPage
  <1> DEFINE new == [ver |-> data[f].ver + 1, lsn |-> lsn]
  <1>4. /\ data[f].ver < MaxVersion
        /\ data' = [data EXCEPT ![f] = new]
        /\ pin' = [pin EXCEPT ![c].dirty = TRUE]
        /\ latest' = [latest EXCEPT ![file][no] = new]
        /\ UNCHANGED <<page_table, page_id, pin_count, is_dirty, free_list, LRUlist, disk,
                       file_of, num_pages>>
    BY <1>2 DEF Write, fileVars
  <1>5. new \in Contents /\ new.lsn = lsn /\ new # None
    <2>1. data[f] \in Contents
      BY <1>1 DEF TypeOK
    <2>2. data[f].ver + 1 \in 0..MaxVersion
      BY <1>4, <2>1, PoolAssumption DEF Contents
    <2>3. QED
      BY <2>2, NoneAssumption DEF Contents
  <1> HIDE DEF new
  <1>6. /\ data' \in [Frames -> Contents] /\ data'[f] = new
        /\ \A g \in Frames : g # f => data'[g] = data[g]
    BY <1>1, <1>4, <1>5 DEF TypeOK
  <1>7. /\ latest' \in [Files -> [PageNo -> Contents \cup {None}]]
        /\ latest'[file][no] = new
        /\ \A fl \in Files, n \in PageNo :
              ~(fl = file /\ n = no) => latest'[fl][n] = latest[fl][n]
    BY <1>1, <1>4, <1>5 DEF TypeOK
  <1>8. /\ pin' \in [Clients -> Pin \cup {None}]
        /\ pin'[c].dirty /\ pin'[c].frame = pin[c].frame /\ pin'[c].id = pin[c].id
        /\ pin'[c] # None
        /\ \A d \in Clients : d # c => pin'[d] = pin[d]
    <2>1. pin' = [pin EXCEPT ![c] = [pin[c] EXCEPT !.dirty = TRUE]]
      BY <1>4
    <2>2. /\ [pin[c] EXCEPT !.dirty = TRUE] \in Pin
          /\ [pin[c] EXCEPT !.dirty = TRUE].dirty
          /\ [pin[c] EXCEPT !.dirty = TRUE].frame = pin[c].frame
          /\ [pin[c] EXCEPT !.dirty = TRUE].id = pin[c].id
      BY <1>3 DEF Pin
    <2>3. QED
      BY <1>1, <2>1, <2>2, NoneAssumption DEF TypeOK
  <1>9. TypeOK'
    BY <1>1, <1>4, <1>6, <1>7, <1>8 DEF TypeOK
  <1>10. \A g \in Frames : Holders(g)' = Holders(g)
    BY <1>8 DEF Holders
  <1>11. PinsProtect'
    BY <1>1, <1>4, <1>8, <1>10 DEF PinsProtect
  <1>12. PageTableExact' /\ FramesAccounted'
    BY <1>1, <1>4 DEF PageTableExact, FramesAccounted, Elements, Distinct
  <1>13. FilesExact'
    <2>1. \A fl \in Files, n \in PageNo : latest'[fl][n] # None <=> latest[fl][n] # None
      BY <1>3, <1>5, <1>7
    <2>2. QED
      BY <1>1, <1>4, <2>1 DEF FilesExact, Allocated, FileOf
  <1>14. /\ last_lsn \in Int /\ persist_lsn \in Int /\ last_lsn' \in Int /\ persist_lsn' \in Int
         /\ \A g \in Frames : data[g].lsn \in Int
    BY <1>1, <1>9, LsnsAreIntegers DEF TypeOK
  <1>15. LogOrder'
    <2>1. \A g \in Frames : data'[g].lsn = 0 \/ data'[g].lsn <= last_lsn'
      BY <1>1, <1>5, <1>6, <1>14 DEF LogOrder
    <2>2. QED
      BY <2>1 DEF LogOrder
  <1>16. WriteAheadLog'
    <2>1. SUFFICES ASSUME NEW fl \in Files, NEW n \in PageNo, disk[fl][n] # None
                   PROVE  disk[fl][n].lsn = 0 \/ disk[fl][n].lsn <= persist_lsn'
      BY <1>4 DEF WriteAheadLog
    <2>2. disk[fl][n].lsn = 0 \/ disk[fl][n].lsn <= persist_lsn
      BY <1>1, <2>1 DEF WriteAheadLog
    <2>3. disk[fl][n] \in Contents
      BY <1>1, <2>1 DEF TypeOK
    <2>4. disk[fl][n].lsn \in Int
      BY <2>3, PoolAssumption DEF Contents, Lsn
    <2>5. QED
      BY <1>14, <2>2, <2>4
  <1>17. \A g \in Frames, fl \in Files, n \in PageNo : Caches(g, fl, n)' <=> Caches(g, fl, n)
    BY <1>4 DEF Caches, FileOf
  <1>18. \A g \in Frames : Caches(g, file, no) <=> g = f
    <2>1. Caches(f, file, no)
      BY <1>2, <1>3, PageIdParts DEF Caches
    <2>2. ASSUME NEW g \in Frames, Caches(g, file, no) PROVE g = f
      <3>1. page_id[g] = id
        BY <1>1, <1>2, <1>3, <2>2, CachesIsId
      <3>2. QED
        BY <1>1, <1>3, <3>1 DEF PageTableExact
    <2>3. QED
      BY <2>1, <2>2
  <1>19. \A fl \in Files, n \in PageNo : Caches(f, fl, n) => fl = file /\ n = no
    BY <1>2, <1>3 DEF Caches
  <1>20. CacheFresh'
    <2>1. SUFFICES ASSUME NEW g \in Frames, NEW fl \in Files, NEW n \in PageNo,
                          Caches(g, fl, n)
                   PROVE  data'[g] = latest'[fl][n]
      BY <1>17 DEF CacheFresh
    <2>2. CASE g = f
      BY <1>6, <1>7, <1>19, <2>1, <2>2
    <2>3. CASE g # f
      BY <1>1, <1>6, <1>7, <1>18, <2>1, <2>3 DEF CacheFresh
    <2>4. QED
      BY <2>2, <2>3
  <1>21. DiskFresh'
    <2>1. SUFFICES ASSUME NEW fl \in Files, NEW n \in PageNo,
                          \A g \in Frames : Caches(g, fl, n) => Settled(g)'
                   PROVE  disk[fl][n] = latest'[fl][n]
      BY <1>4, <1>17 DEF DiskFresh
    <2>2. ~Settled(f)'
      BY <1>3, <1>8, <1>10 DEF Settled
    <2>3. ~Caches(f, fl, n)
      BY <2>1, <2>2
    <2>4. ~(fl = file /\ n = no)
      BY <1>18, <2>3
    <2>5. ASSUME NEW g \in Frames, g # f, Settled(g)' PROVE Settled(g)
      <3>1. \A d \in Holders(g) : d \in Clients /\ d # c
        BY <1>2, <2>5 DEF Holders
      <3>2. QED
        BY <1>4, <1>8, <1>10, <2>5, <3>1 DEF Settled
    <2>6. \A g \in Frames : Caches(g, fl, n) => Settled(g)
      BY <2>1, <2>3, <2>5
    <2>7. QED
      BY <1>1, <1>7, <2>4, <2>6 DEF DiskFresh
  <1>22. QED
    BY <1>9, <1>11, <1>12, <1>13, <1>15, <1>16, <1>20, <1>21 DEF PoolInv

\* insert_record, delete_record and update_record stamp the page with an LSN the
\* log has just issued.
LEMMA ModifyKeeps ==
    ASSUME PoolInv, NEW c \in Clients, Modify(c)
    PROVE  PoolInv'
  <1>1. /\ last_lsn \in Int /\ persist_lsn \in Int /\ persist_lsn <= last_lsn
        /\ last_lsn \in Lsn \cup {INVALID_LSN} /\ persist_lsn \in Lsn \cup {INVALID_LSN}
    BY PoolAssumption DEF PoolInv, TypeOK, LogOrder, Lsn, INVALID_LSN
  <1>2. /\ pin[c] # None /\ last_lsn # INVALID_LSN /\ last_lsn < MaxLsn
        /\ last_lsn' = last_lsn + 1 /\ persist_lsn' \in {persist_lsn, last_lsn}
        /\ Write(c, last_lsn')
    BY DEF Modify, AddLog
  <1>3. last_lsn' \in Lsn
    BY <1>1, <1>2, PoolAssumption DEF Lsn, INVALID_LSN
  <1>4. /\ persist_lsn' \in Lsn \cup {INVALID_LSN} /\ last_lsn <= last_lsn'
        /\ persist_lsn <= persist_lsn' /\ persist_lsn' <= last_lsn' /\ last_lsn' <= last_lsn'
    BY <1>1, <1>2
  <1>5. PICK l \in Lsn : l = last_lsn'
    BY <1>3
  <1>6. Write(c, l) /\ l <= last_lsn'
    BY <1>2, <1>4, <1>5
  <1>7. QED
    BY <1>2, <1>3, <1>4, <1>6, WriteKeeps

\* A change without a log record keeps the page's LSN.
LEMMA ModifyUnloggedKeeps ==
    ASSUME PoolInv, NEW c \in Clients, ModifyUnlogged(c)
    PROVE  PoolInv'
  <1>1. /\ last_lsn \in Int /\ persist_lsn \in Int /\ persist_lsn <= last_lsn
        /\ last_lsn \in Lsn \cup {INVALID_LSN} /\ persist_lsn \in Lsn \cup {INVALID_LSN}
    BY PoolAssumption DEF PoolInv, TypeOK, LogOrder, Lsn, INVALID_LSN
  <1>2. pin[c] # None /\ last_lsn' = last_lsn /\ persist_lsn' = persist_lsn
    BY DEF ModifyUnlogged, logVars
  <1>3. PICK l \in Lsn : l = data[pin[c].frame].lsn /\ (l = 0 \/ l <= last_lsn)
    <2>1. pin[c].frame \in Frames
      BY <1>2, PinnedPage
    <2>2. data[pin[c].frame] \in Contents
      BY <2>1 DEF PoolInv, TypeOK
    <2>3. QED
      BY <2>1, <2>2 DEF PoolInv, LogOrder, Contents
  <1>4. Write(c, l)
    BY <1>3 DEF ModifyUnlogged
  <1>5. l = 0 \/ l <= last_lsn'
    BY <1>2, <1>3
  <1>6. /\ last_lsn' \in Lsn \cup {INVALID_LSN} /\ persist_lsn' \in Lsn \cup {INVALID_LSN}
        /\ last_lsn <= last_lsn' /\ persist_lsn <= persist_lsn' /\ persist_lsn' <= last_lsn'
    BY <1>1, <1>2
  <1>7. QED
    BY <1>2, <1>4, <1>5, <1>6, WriteKeeps

\* A client drops its Page*: the frame has one holder less.
LEMMA DropHolder ==
    ASSUME PoolInv, NEW c \in Clients, pin[c] # None, NEW f \in Frames, f = pin[c].frame,
           pin' = [pin EXCEPT ![c] = None]
    PROVE  /\ pin' \in [Clients -> Pin \cup {None}] /\ pin'[c] = None
           /\ \A d \in Clients : d # c => pin'[d] = pin[d]
           /\ Holders(f)' = Holders(f) \ {c}
           /\ Cardinality(Holders(f)') = Cardinality(Holders(f)) - 1
           /\ Cardinality(Holders(f)) \in Nat /\ Cardinality(Holders(f)) <= pin_count[f]
           /\ \A g \in Frames : g # f => Holders(g)' = Holders(g) /\ c \notin Holders(g)
  <1>1. /\ pin' \in [Clients -> Pin \cup {None}] /\ pin'[c] = None
        /\ \A d \in Clients : d # c => pin'[d] = pin[d]
    BY DEF PoolInv, TypeOK
  <1>2. /\ Holders(f)' = Holders(f) \ {c} /\ c \in Holders(f)
        /\ \A g \in Frames : g # f => Holders(g)' = Holders(g) /\ c \notin Holders(g)
    BY <1>1 DEF Holders
  <1>3. /\ IsFiniteSet(Holders(f)) /\ Cardinality(Holders(f)) \in Nat
        /\ Cardinality(Holders(f)) <= pin_count[f]
    BY NoHolder DEF PoolInv, PinsProtect
  <1>4. Cardinality(Holders(f) \ {c}) = Cardinality(Holders(f)) - 1
    BY <1>2, <1>3, FS_RemoveElement
  <1>5. Cardinality(Holders(f)') = Cardinality(Holders(f)) - 1
    BY <1>2, <1>4, Zenon
  <1>6. QED
    BY <1>1, <1>2, <1>3, <1>5

\* unpin_page finds the frame of the page, and an unpinned dirty page stays dirty.
LEMMA UnpinKeeps ==
    ASSUME PoolInv, NEW c \in Clients, Unpin(c)
    PROVE  PoolInv'
  <1>1. /\ TypeOK /\ PageTableExact /\ PinsProtect /\ FramesAccounted /\ FilesExact
        /\ LogOrder /\ CacheFresh /\ DiskFresh /\ WriteAheadLog
    BY DEF PoolInv
  <1>2. pin[c] # None
    BY DEF Unpin
  <1>3. PICK f \in Frames : f = pin[c].frame /\ page_table[pin[c].id] = f
                           /\ page_id[f] = pin[c].id /\ page_id[f] # None
    BY <1>1, <1>2, PinnedPage, PageIdParts DEF PageTableExact
  <1>4. /\ pin_count[f] > 0
        /\ pin_count' = [pin_count EXCEPT ![f] = @ - 1]
        /\ LRUlist' = IF pin_count[f] = 1 THEN replacer_unpin(LRUlist, f) ELSE LRUlist
        /\ is_dirty' = [is_dirty EXCEPT ![f] = DirtyAfter(f, pin[c].dirty)]
        /\ pin' = [pin EXCEPT ![c] = None]
        /\ UNCHANGED <<page_table, page_id, data, free_list, disk, file_of, num_pages,
                       last_lsn, persist_lsn, latest>>
    <2> DEFINE g == page_table[pin[c].id]
    <2>1. /\ pin_count[g] > 0
          /\ pin_count' = [pin_count EXCEPT ![g] = @ - 1]
          /\ LRUlist' = IF pin_count[g] = 1 THEN replacer_unpin(LRUlist, g) ELSE LRUlist
          /\ is_dirty' = [is_dirty EXCEPT ![g] = DirtyAfter(g, pin[c].dirty)]
          /\ pin' = [pin EXCEPT ![c] = None]
          /\ UNCHANGED <<page_table, page_id, data, free_list, disk, file_of, num_pages,
                         last_lsn, persist_lsn, latest>>
      BY DEF Unpin, fileVars, logVars
    <2>2. f = g
      BY <1>3
    <2> HIDE DEF g
    <2>3. QED
      BY <2>1, <2>2, Zenon
  <1>5. /\ pin_count[f] \in Nat /\ is_dirty[f] \in BOOLEAN /\ pin[c].dirty \in BOOLEAN
    BY <1>1, <1>2, PinnedPage DEF TypeOK, Pin
  <1>6. /\ pin_count' \in [Frames -> Nat] /\ pin_count'[f] = pin_count[f] - 1
        /\ \A g \in Frames : g # f => pin_count'[g] = pin_count[g]
    BY <1>1, <1>4, <1>5 DEF TypeOK
  <1>7. /\ is_dirty' \in [Frames -> BOOLEAN]
        /\ is_dirty'[f] <=> is_dirty[f] \/ pin[c].dirty
        /\ \A g \in Frames : g # f => is_dirty'[g] = is_dirty[g]
    BY <1>1, <1>4, <1>5 DEF TypeOK, DirtyAfter
  <1>8. /\ LRUlist' \in Seq(Frames) /\ Distinct(LRUlist')
        /\ \A g \in Frames : g # f => (g \in Elements(LRUlist') <=> g \in Elements(LRUlist))
        /\ f \in Elements(LRUlist') <=> pin_count[f] = 1
    <2>1. /\ LRUlist \in Seq(Frames) /\ Distinct(LRUlist) /\ f \notin Elements(LRUlist)
      BY <1>1, <1>3, <1>4, <1>5 DEF TypeOK, FramesAccounted
    <2>2. CASE pin_count[f] = 1
      <3> DEFINE longer == replacer_unpin(LRUlist, f)
      <3>1. LRUlist' = longer
        BY <1>4, <2>2
      <3>2. /\ longer \in Seq(Frames) /\ Distinct(longer)
            /\ Elements(longer) = Elements(LRUlist) \cup {f}
        BY <2>1, ReplacerUnpin
      <3> HIDE DEF longer
      <3>3. QED
        BY <2>2, <3>1, <3>2
    <2>3. CASE pin_count[f] # 1
      BY <1>4, <2>1, <2>3
    <2>4. QED
      BY <2>2, <2>3
  <1>9. /\ pin' \in [Clients -> Pin \cup {None}] /\ pin'[c] = None
        /\ \A d \in Clients : d # c => pin'[d] = pin[d]
        /\ Holders(f)' = Holders(f) \ {c}
        /\ Cardinality(Holders(f)') = Cardinality(Holders(f)) - 1
        /\ Cardinality(Holders(f)) \in Nat /\ Cardinality(Holders(f)) <= pin_count[f]
        /\ \A g \in Frames : g # f => Holders(g)' = Holders(g) /\ c \notin Holders(g)
    BY <1>2, <1>3, <1>4, DropHolder
  <1>10. TypeOK'
    BY <1>1, <1>4, <1>6, <1>7, <1>8, <1>9 DEF TypeOK
  <1>11. PinsProtect'
    <2>1. \A d \in Clients : pin'[d] # None => page_id'[pin'[d].frame] = pin'[d].id
      BY <1>1, <1>4, <1>9 DEF PinsProtect
    <2>2. \A g \in Frames : Cardinality(Holders(g)') <= pin_count'[g]
      <3>1. TAKE g \in Frames
      <3>2. Cardinality(Holders(g)) <= pin_count[g] /\ pin_count[g] \in Nat
        BY <1>1 DEF PinsProtect, TypeOK
      <3>3. CASE g = f
        <4>1. Cardinality(Holders(f)') <= pin_count'[f]
          BY <1>5, <1>6, <1>9
        <4>2. QED
          BY <3>3, <4>1, Zenon
      <3>4. CASE g # f
        <4>1. Cardinality(Holders(g)') = Cardinality(Holders(g))
          BY <1>9, <3>4, Zenon
        <4>2. QED
          BY <1>6, <3>2, <3>4, <4>1
      <3>5. QED
        BY <3>3, <3>4
    <2>3. QED
      BY <2>1, <2>2 DEF PinsProtect
  <1>12. FramesAccounted'
    <2>1. /\ Elements(free_list)' = Elements(free_list) /\ Elements(LRUlist)' = Elements(LRUlist')
          /\ Distinct(free_list)' /\ Distinct(LRUlist)'
      BY <1>1, <1>4, <1>8 DEF Elements, Distinct, FramesAccounted
    <2>2. QED
      BY <1>1, <1>3, <1>4, <1>5, <1>6, <1>7, <1>8, <2>1 DEF FramesAccounted
  <1>13. PageTableExact' /\ FilesExact' /\ LogOrder' /\ WriteAheadLog'
    BY <1>1, <1>4 DEF PageTableExact, FilesExact, LogOrder, WriteAheadLog, Allocated, FileOf
  <1>14. \A g \in Frames, file \in Files, no \in PageNo :
            Caches(g, file, no)' <=> Caches(g, file, no)
    BY <1>4 DEF Caches, FileOf
  <1>15. CacheFresh'
    BY <1>1, <1>4, <1>14 DEF CacheFresh
  <1>16. ASSUME NEW g \in Frames, Settled(g)' PROVE Settled(g)
    <2>1. \A d \in Holders(g) : d \in Clients
      BY DEF Holders
    <2>2. QED
      BY <1>7, <1>9, <1>16, <2>1 DEF Settled
  <1>17. DiskFresh'
    BY <1>1, <1>4, <1>14, <1>16 DEF DiskFresh
  <1>18. QED
    BY <1>10, <1>11, <1>12, <1>13, <1>15, <1>17 DEF PoolInv

\* A reader that forgets to unpin leaves a frame that is never evicted again, and
\* nothing worse.
LEMMA LeakPinKeeps ==
    ASSUME PoolInv, NEW c \in Clients, LeakPin(c)
    PROVE  PoolInv'
  <1>1. /\ TypeOK /\ PageTableExact /\ PinsProtect /\ FramesAccounted /\ FilesExact
        /\ LogOrder /\ CacheFresh /\ DiskFresh /\ WriteAheadLog
    BY DEF PoolInv
  <1>2. /\ pin[c] # None /\ ~pin[c].dirty /\ pin' = [pin EXCEPT ![c] = None]
        /\ UNCHANGED <<page_table, page_id, pin_count, is_dirty, data, free_list, LRUlist,
                       disk, file_of, num_pages, last_lsn, persist_lsn, latest>>
    BY DEF LeakPin, poolVars, fileVars, logVars
  <1>3. PICK f \in Frames : f = pin[c].frame
    BY <1>2, PinnedPage
  <1>4. /\ pin' \in [Clients -> Pin \cup {None}] /\ pin'[c] = None
        /\ \A d \in Clients : d # c => pin'[d] = pin[d]
        /\ Holders(f)' = Holders(f) \ {c}
        /\ Cardinality(Holders(f)') = Cardinality(Holders(f)) - 1
        /\ Cardinality(Holders(f)) \in Nat /\ Cardinality(Holders(f)) <= pin_count[f]
        /\ \A g \in Frames : g # f => Holders(g)' = Holders(g) /\ c \notin Holders(g)
    BY <1>2, <1>3, DropHolder
  <1>5. TypeOK'
    BY <1>1, <1>2, <1>4 DEF TypeOK
  <1>6. PinsProtect'
    <2>1. \A d \in Clients : pin'[d] # None => page_id'[pin'[d].frame] = pin'[d].id
      BY <1>1, <1>2, <1>4 DEF PinsProtect
    <2>2. pin_count[f] \in Nat
      BY <1>1 DEF TypeOK
    <2>3. \A g \in Frames : Cardinality(Holders(g)') <= pin_count'[g]
      <3>1. TAKE g \in Frames
      <3>2. Cardinality(Holders(g)) <= pin_count[g] /\ pin_count[g] \in Nat
        BY <1>1 DEF PinsProtect, TypeOK
      <3>3. CASE g = f
        <4>1. Cardinality(Holders(f)') <= pin_count'[f]
          BY <1>2, <1>4, <2>2
        <4>2. QED
          BY <3>3, <4>1, Zenon
      <3>4. CASE g # f
        <4>1. Cardinality(Holders(g)') = Cardinality(Holders(g))
          BY <1>4, <3>4, Zenon
        <4>2. QED
          BY <1>2, <3>2, <3>4, <4>1
      <3>5. QED
        BY <3>3, <3>4
    <2>4. QED
      BY <2>1, <2>3 DEF PinsProtect
  <1>7. /\ PageTableExact' /\ FilesExact' /\ LogOrder' /\ WriteAheadLog'
        /\ FramesAccounted'
    BY <1>1, <1>2 DEF PageTableExact, FilesExact, LogOrder, WriteAheadLog, Allocated, FileOf,
                      FramesAccounted, Elements, Distinct
  <1>8. \A g \in Frames, file \in Files, no \in PageNo :
            Caches(g, file, no)' <=> Caches(g, file, no)
    BY <1>2 DEF Caches, FileOf
  <1>9. CacheFresh'
    BY <1>1, <1>2, <1>8 DEF CacheFresh
  <1>10. ASSUME NEW g \in Frames, Settled(g)' PROVE Settled(g)
    <2>1. \A d \in Holders(g) : d \in Clients
      BY DEF Holders
    <2>2. QED
      BY <1>2, <1>4, <1>10, <2>1 DEF Settled
  <1>11. DiskFresh'
    BY <1>1, <1>2, <1>8, <1>10 DEF DiskFresh
  <1>12. QED
    BY <1>5, <1>6, <1>7, <1>9, <1>11 DEF PoolInv

\* flush_page and flush_all_pages: pages are written and become clean, pinned or
\* not; a client at work still counts as a writer.
LEMMA FlushKeeps ==
    ASSUME PoolInv, NEW fs \in SUBSET Frames, WritePages(fs),
           is_dirty' \in [Frames -> BOOLEAN],
           \A g \in Frames : is_dirty'[g] <=> is_dirty[g] /\ g \notin fs,
           UNCHANGED <<page_table, page_id, pin_count, data, free_list, LRUlist,
                       file_of, num_pages, pin, latest>>
    PROVE  PoolInv'
  <1>1. /\ TypeOK /\ PageTableExact /\ PinsProtect /\ FramesAccounted /\ FilesExact
        /\ LogOrder /\ CacheFresh /\ DiskFresh /\ WriteAheadLog
    BY DEF PoolInv
  <1>2. /\ disk' \in [Files -> [PageNo -> Contents \cup {None}]]
        /\ last_lsn' = last_lsn
        /\ persist_lsn' \in Lsn \cup {INVALID_LSN} /\ persist_lsn' <= last_lsn
        /\ WriteAheadLog'
        /\ \A file \in Files, no \in PageNo :
              disk'[file][no] = IF \E f \in fs : Caches(f, file, no)
                                THEN latest[file][no] ELSE disk[file][no]
    BY <1>1, PagesWritten
  <1>3. TypeOK'
    BY <1>1, <1>2 DEF TypeOK
  <1>4. PageTableExact' /\ FilesExact' /\ LogOrder'
    BY <1>1, <1>2 DEF PageTableExact, FilesExact, LogOrder, Allocated, FileOf
  <1>5. FramesAccounted'
    BY <1>1 DEF FramesAccounted, Elements, Distinct
  <1>6. \A g \in Frames : Holders(g)' = Holders(g)
    BY DEF Holders
  <1>7. PinsProtect'
    BY <1>1, <1>6 DEF PinsProtect
  <1>8. \A g \in Frames, file \in Files, no \in PageNo :
            Caches(g, file, no)' <=> Caches(g, file, no)
    BY DEF Caches, FileOf
  <1>9. CacheFresh'
    BY <1>1, <1>8 DEF CacheFresh
  <1>10. DiskFresh'
    <2>1. SUFFICES ASSUME NEW file \in Files, NEW no \in PageNo,
                          \A g \in Frames : Caches(g, file, no) => Settled(g)'
                   PROVE  disk'[file][no] = latest[file][no]
      BY <1>8 DEF DiskFresh
    <2>2. CASE \E f \in fs : Caches(f, file, no)
      BY <1>2, <2>2
    <2>3. CASE ~\E f \in fs : Caches(f, file, no)
      <3>1. \A g \in Frames : g \notin fs /\ Settled(g)' => Settled(g)
        BY <1>6 DEF Settled
      <3>2. \A g \in Frames : Caches(g, file, no) => Settled(g)
        BY <2>1, <2>3, <3>1
      <3>3. disk[file][no] = latest[file][no]
        BY <1>1, <3>2 DEF DiskFresh
      <3>4. QED
        BY <1>2, <2>3, <3>3
    <2>4. QED
      BY <2>2, <2>3
  <1>11. QED
    BY <1>2, <1>3, <1>4, <1>5, <1>7, <1>9, <1>10 DEF PoolInv

\* flush_page
LEMMA FlushPageKeeps ==
    ASSUME PoolInv, NEW id \in PageId, FlushPage(id) PROVE PoolInv'
  <1>1. PICK f \in Frames : f = page_table[id]
    <2>1. page_table[id] \in Frames \cup {None} /\ page_table[id] # None
      BY DEF PoolInv, TypeOK, FlushPage
    <2>2. QED
      BY <2>1
  <1>2. /\ WritePages({f}) /\ is_dirty' = [is_dirty EXCEPT ![f] = FALSE]
        /\ UNCHANGED <<page_table, page_id, pin_count, data, free_list, LRUlist,
                       file_of, num_pages, pin, latest>>
    <2> DEFINE g == page_table[id]
    <2>1. /\ WritePages({g}) /\ is_dirty' = [is_dirty EXCEPT ![g] = FALSE]
          /\ UNCHANGED <<page_table, page_id, pin_count, data, free_list, LRUlist,
                         file_of, num_pages, pin, latest>>
      BY DEF FlushPage
    <2>2. f = g
      BY <1>1
    <2> HIDE DEF g
    <2>3. QED
      BY <2>1, <2>2, Zenon
  <1>3. is_dirty \in [Frames -> BOOLEAN]
    BY DEF PoolInv, TypeOK
  <1>4. /\ is_dirty' \in [Frames -> BOOLEAN]
        /\ \A g \in Frames : is_dirty'[g] <=> is_dirty[g] /\ g \notin {f}
    BY <1>2, <1>3
  <1>5. QED
    BY <1>2, <1>4, FlushKeeps

\* flush_all_pages
LEMMA FlushAllKeeps ==
    ASSUME PoolInv, NEW fd \in Fds, FlushAll(fd) PROVE PoolInv'
  <1> DEFINE fs == Dirty(FramesOf(fd))
  <1>1. is_dirty \in [Frames -> BOOLEAN]
    BY DEF PoolInv, TypeOK
  <1>2. /\ WritePages(fs)
        /\ is_dirty' = [f \in Frames |-> is_dirty[f] /\ f \notin FramesOf(fd)]
        /\ UNCHANGED <<page_table, page_id, pin_count, data, free_list, LRUlist,
                       file_of, num_pages, pin, latest>>
    BY DEF FlushAll
  <1>3. /\ fs \in SUBSET Frames
        /\ \A g \in Frames : g \in fs <=> g \in FramesOf(fd) /\ is_dirty[g]
    BY DEF Dirty, FramesOf
  <1> HIDE DEF fs
  <1>4. PICK written \in SUBSET Frames : written = fs
    BY <1>3
  <1>5. /\ is_dirty' \in [Frames -> BOOLEAN]
        /\ \A g \in Frames : is_dirty'[g] <=> is_dirty[g] /\ g \notin written
    BY <1>1, <1>2, <1>3, <1>4
  <1>6. WritePages(written)
    BY <1>2, <1>4
  <1>7. QED
    BY <1>2, <1>5, <1>6, FlushKeeps

\* delete_page and delete_all_pages: frames nobody uses are written out, emptied
\* and appended to the free list.
LEMMA RecycleKeeps ==
    ASSUME PoolInv, NEW fs \in SUBSET Frames,
           \A f \in fs : page_id[f] # None /\ Holders(f) = {},
           WritePages(Dirty(fs)), Recycle(fs),
           pin_count' \in [Frames -> Nat],
           \A f \in Frames : pin_count'[f] = IF f \in fs THEN 0 ELSE pin_count[f],
           file_of' \in [Fds -> Files \cup {None}],
           \A fd \in Fds : file_of'[fd] # None => file_of'[fd] = file_of[fd],
           \A f \in Frames \ fs : page_id[f] # None =>
                file_of'[page_id[f][1]] = file_of[page_id[f][1]],
           UNCHANGED <<num_pages, pin, latest>>
    PROVE  PoolInv'
  <1>1. /\ TypeOK /\ PageTableExact /\ PinsProtect /\ FramesAccounted /\ FilesExact
        /\ LogOrder /\ CacheFresh /\ DiskFresh /\ WriteAheadLog
    BY DEF PoolInv
  <1>2. Dirty(fs) \in SUBSET Frames /\ \A f \in Frames : f \in Dirty(fs) <=> f \in fs /\ is_dirty[f]
    BY DEF Dirty
  <1>3. /\ disk' \in [Files -> [PageNo -> Contents \cup {None}]]
        /\ last_lsn' = last_lsn
        /\ persist_lsn' \in Lsn \cup {INVALID_LSN} /\ persist_lsn' <= last_lsn
        /\ WriteAheadLog'
        /\ \A file \in Files, no \in PageNo :
              disk'[file][no] = IF \E f \in Dirty(fs) : Caches(f, file, no)
                                THEN latest[file][no] ELSE disk[file][no]
    BY <1>1, <1>2, PagesWritten
  <1>4. /\ page_table' = [i \in PageId |-> IF page_table[i] \in fs THEN None ELSE page_table[i]]
        /\ page_id' = [f \in Frames |-> IF f \in fs THEN None ELSE page_id[f]]
        /\ data' = [f \in Frames |-> IF f \in fs THEN Zeroed ELSE data[f]]
        /\ is_dirty' = [f \in Frames |-> is_dirty[f] /\ f \notin fs]
        /\ LRUlist' = LRUlist
    BY DEF Recycle
  <1>5. PICK q \in Ascending(fs) : free_list' = free_list \o q
    BY DEF Recycle
  <1>6. q \in Seq(Frames) /\ Distinct(q) /\ Elements(q) = fs
    BY AscendingList
  <1>7. /\ free_list \in Seq(Frames) /\ Distinct(free_list)
        /\ Elements(free_list) \cap Elements(q) = {}
    <2>1. free_list \in Seq(Frames) /\ Distinct(free_list)
      BY <1>1 DEF TypeOK, FramesAccounted
    <2>2. \A f \in fs : f \notin Elements(free_list)
      BY <1>1 DEF FramesAccounted
    <2>3. QED
      BY <1>6, <2>1, <2>2
  <1>8. /\ free_list' \in Seq(Frames) /\ Distinct(free_list')
        /\ Elements(free_list') = Elements(free_list) \cup fs
    BY <1>5, <1>6, <1>7, ConcatLists
  <1>9. Zeroed \in Contents /\ Zeroed.lsn = 0
    BY PoolAssumption DEF Zeroed, Contents, Lsn
  <1>10. TypeOK'
    <2>1. /\ page_table' \in [PageId -> Frames \cup {None}]
          /\ page_id' \in [Frames -> PageId \cup {None}]
          /\ data' \in [Frames -> Contents]
          /\ is_dirty' \in [Frames -> BOOLEAN]
      BY <1>1, <1>4, <1>9 DEF TypeOK
    <2>2. QED
      BY <1>1, <1>3, <1>4, <1>8, <2>1 DEF TypeOK
  <1>11. PageTableExact'
    <2>1. SUFFICES ASSUME NEW id \in PageId, NEW f \in Frames
                   PROVE  page_table'[id] = f <=> page_id'[f] = id
      BY DEF PageTableExact
    <2>2. /\ page_table[id] = f <=> page_id[f] = id
          /\ f # None /\ id # None
      BY <1>1, NoneAssumption, PageIdParts DEF PageTableExact
    <2>3. QED
      BY <1>4, <2>2
  <1>12. \A g \in Frames : Holders(g)' = Holders(g)
    BY DEF Holders
  <1>13. PinsProtect'
    <2>1. ASSUME NEW c \in Clients, pin'[c] # None PROVE page_id'[pin'[c].frame] = pin'[c].id
      <3>1. pin[c] # None /\ pin' = pin
        BY <2>1
      <3>2. /\ pin[c].frame \in Frames /\ c \in Holders(pin[c].frame)
            /\ page_id[pin[c].frame] = pin[c].id
        BY <3>1, PinnedPage
      <3>3. pin[c].frame \notin fs
        BY <3>2
      <3>4. QED
        BY <1>4, <3>1, <3>2, <3>3
    <2>2. ASSUME NEW g \in Frames PROVE Cardinality(Holders(g)') <= pin_count'[g]
      <3>1. CASE g \in fs
        <4>1. Holders(g)' = {}
          BY <1>12, <3>1
        <4>2. Cardinality(Holders(g)') = 0
          BY <4>1, FS_EmptySet, Zenon
        <4>3. QED
          BY <3>1, <4>2
      <3>2. CASE g \notin fs
        <4>1. Cardinality(Holders(g)') = Cardinality(Holders(g))
          BY <1>12, Zenon
        <4>2. QED
          BY <1>1, <3>2, <4>1 DEF PinsProtect
      <3>3. QED
        BY <3>1, <3>2
    <2>3. QED
      BY <2>1, <2>2 DEF PinsProtect
  <1>14. FramesAccounted'
    <2>1. /\ Elements(free_list)' = Elements(free_list') /\ Elements(LRUlist)' = Elements(LRUlist)
          /\ Distinct(free_list)' /\ Distinct(LRUlist)'
      BY <1>1, <1>4, <1>8 DEF Elements, Distinct, FramesAccounted
    <2>2. QED
      BY <1>1, <1>4, <1>8, <2>1 DEF FramesAccounted
  <1>15. FilesExact'
    <2>1. \A d, e \in Fds : file_of'[d] # None /\ file_of'[d] = file_of'[e] => d = e
      BY <1>1 DEF FilesExact
    <2>2. ASSUME NEW f \in Frames, page_id'[f] # None PROVE Allocated(page_id[f])'
      <3>1. f \in Frames \ fs /\ page_id'[f] = page_id[f] /\ page_id[f] # None
        BY <1>4, <2>2
      <3>2. Allocated(page_id[f])
        BY <1>1, <3>1 DEF FilesExact
      <3>3. file_of'[page_id[f][1]] = file_of[page_id[f][1]]
        BY <3>1
      <3>4. QED
        BY <3>1, <3>2, <3>3 DEF Allocated, FileOf
    <2>3. QED
      BY <1>1, <2>1, <2>2 DEF FilesExact
  <1>16. LogOrder'
    <2>1. \A f \in Frames : data'[f].lsn = 0 \/ data'[f].lsn <= last_lsn
      BY <1>1, <1>4, <1>9 DEF LogOrder
    <2>2. QED
      BY <1>3, <2>1 DEF LogOrder
  <1>17. ASSUME NEW g \in Frames, NEW file \in Files, NEW no \in PageNo
         PROVE  Caches(g, file, no)' <=> g \notin fs /\ Caches(g, file, no)
    BY <1>4 DEF Caches, FileOf
  <1>18. CacheFresh'
    BY <1>1, <1>4, <1>17 DEF CacheFresh
  <1>19. DiskFresh'
    <2>1. SUFFICES ASSUME NEW file \in Files, NEW no \in PageNo,
                          \A g \in Frames : Caches(g, file, no)' => Settled(g)'
                   PROVE  disk'[file][no] = latest[file][no]
      BY DEF DiskFresh
    <2>2. CASE \E f \in Dirty(fs) : Caches(f, file, no)
      BY <1>3, <2>2
    <2>3. CASE ~\E f \in Dirty(fs) : Caches(f, file, no)
      <3>1. ASSUME NEW g \in Frames, Caches(g, file, no) PROVE Settled(g)
        <4>1. CASE g \in fs
          BY <1>2, <2>3, <3>1, <4>1 DEF Settled
        <4>2. CASE g \notin fs
          BY <1>4, <1>12, <1>17, <2>1, <3>1, <4>2 DEF Settled
        <4>3. QED
          BY <4>1, <4>2
      <3>2. disk[file][no] = latest[file][no]
        BY <1>1, <3>1 DEF DiskFresh
      <3>3. QED
        BY <1>3, <2>3, <3>2
    <2>4. QED
      BY <2>2, <2>3
  <1>20. QED
    BY <1>3, <1>10, <1>11, <1>13, <1>14, <1>15, <1>16, <1>18, <1>19 DEF PoolInv

\* delete_page refuses a pinned page, so the frame it recycles has no holder.
LEMMA DeletePageKeeps ==
    ASSUME PoolInv, NEW id \in PageId, DeletePage(id) PROVE PoolInv'
  <1>1. PICK f \in Frames : f = page_table[id]
    <2>1. page_table[id] \in Frames \cup {None} /\ page_table[id] # None
      BY DEF PoolInv, TypeOK, DeletePage
    <2>2. QED
      BY <2>1
  <1>2. /\ pin_count[f] = 0 /\ WritePages(Dirty({f})) /\ Recycle({f})
        /\ UNCHANGED <<pin_count, file_of, num_pages, pin, latest>>
    BY <1>1 DEF DeletePage
  <1>3. page_id[f] # None /\ Holders(f) = {}
    <2>1. page_id[f] = id
      BY <1>1 DEF PoolInv, PageTableExact
    <2>2. QED
      BY <1>2, <2>1, NoHolder, PageIdParts DEF PoolInv
  <1>4. pin_count \in [Frames -> Nat] /\ file_of \in [Fds -> Files \cup {None}]
    BY DEF PoolInv, TypeOK
  <1>5. PICK fs \in SUBSET Frames : fs = {f}
    OBVIOUS
  <1>6. /\ \A g \in fs : page_id[g] # None /\ Holders(g) = {}
        /\ WritePages(Dirty(fs)) /\ Recycle(fs)
        /\ \A g \in Frames : pin_count'[g] = IF g \in fs THEN 0 ELSE pin_count[g]
    BY <1>2, <1>3, <1>5
  <1>7. QED
    BY <1>2, <1>4, <1>6, RecycleKeeps

\* close_file recycles every frame of the descriptor, so that the next file on the
\* descriptor finds none of them.
LEMMA CloseFileKeeps ==
    ASSUME PoolInv, NEW fd \in Fds, CloseFile(fd) PROVE PoolInv'
  <1>1. PICK fs \in SUBSET Frames : fs = FramesOf(fd)
    BY DEF FramesOf
  <1>2. /\ \A c \in Clients : pin[c] # None => pin[c].id[1] # fd
        /\ WritePages(Dirty(fs)) /\ Recycle(fs)
        /\ pin_count' = [f \in Frames |-> IF f \in fs THEN 0 ELSE pin_count[f]]
        /\ file_of' = [file_of EXCEPT ![fd] = None]
        /\ UNCHANGED <<num_pages, pin, latest>>
    BY <1>1 DEF CloseFile
  <1>3. ASSUME NEW f \in fs PROVE page_id[f] # None /\ Holders(f) = {}
    <2>1. page_id[f] # None /\ page_id[f][1] = fd
      BY <1>1 DEF FramesOf
    <2>2. ASSUME NEW c \in Holders(f) PROVE FALSE
      <3>1. c \in Clients /\ pin[c] # None /\ pin[c].frame = f
        BY DEF Holders
      <3>2. page_id[f] = pin[c].id
        BY <3>1, PinnedPage
      <3>3. QED
        BY <1>2, <2>1, <3>1, <3>2
    <2>3. QED
      BY <2>1, <2>2
  <1>4. pin_count \in [Frames -> Nat] /\ file_of \in [Fds -> Files \cup {None}]
        /\ page_id \in [Frames -> PageId \cup {None}]
    BY DEF PoolInv, TypeOK
  <1>5. /\ pin_count' \in [Frames -> Nat]
        /\ \A f \in Frames : pin_count'[f] = IF f \in fs THEN 0 ELSE pin_count[f]
        /\ file_of' \in [Fds -> Files \cup {None}]
        /\ \A d \in Fds : file_of'[d] # None => file_of'[d] = file_of[d]
        /\ \A d \in Fds : d # fd => file_of'[d] = file_of[d]
    BY <1>2, <1>4
  <1>6. ASSUME NEW f \in Frames \ fs, page_id[f] # None
        PROVE  file_of'[page_id[f][1]] = file_of[page_id[f][1]]
    <2>1. page_id[f][1] # fd
      BY <1>1, <1>6 DEF FramesOf
    <2>2. page_id[f][1] \in Fds
      BY <1>4, <1>6, PageIdParts
    <2>3. QED
      BY <1>5, <2>1, <2>2
  <1>7. QED
    BY <1>2, <1>3, <1>5, <1>6, RecycleKeeps

\* A descriptor that no file is open on has no page in the pool, whatever was open
\* on it before.
LEMMA OpenFileKeeps ==
    ASSUME PoolInv, NEW fd \in Fds, NEW file \in Files, OpenFile(fd, file) PROVE PoolInv'
  <1>1. /\ TypeOK /\ PageTableExact /\ PinsProtect /\ FramesAccounted /\ FilesExact
        /\ LogOrder /\ CacheFresh /\ DiskFresh /\ WriteAheadLog
    BY DEF PoolInv
  <1>2. /\ file_of[fd] = None /\ \A d \in Fds : file_of[d] # file
        /\ file_of' = [file_of EXCEPT ![fd] = file]
        /\ UNCHANGED <<page_table, page_id, pin_count, is_dirty, data, free_list, LRUlist,
                       disk, num_pages, last_lsn, persist_lsn, pin, latest>>
    BY DEF OpenFile, poolVars, logVars
  <1>3. /\ file_of' \in [Fds -> Files \cup {None}] /\ file_of'[fd] = file
        /\ \A d \in Fds : d # fd => file_of'[d] = file_of[d]
    BY <1>1, <1>2 DEF TypeOK
  <1>4. TypeOK'
    BY <1>1, <1>2, <1>3 DEF TypeOK
  <1>5. ASSUME NEW f \in Frames, page_id[f] # None
        PROVE  FileOf(page_id[f])' = FileOf(page_id[f])
    <2>1. page_id[f][1] \in Fds
      BY <1>1, <1>5, PageIdParts DEF TypeOK
    <2>2. FileOf(page_id[f]) # None
      BY <1>1, <1>5 DEF FilesExact, Allocated
    <2>3. QED
      BY <1>2, <1>3, <2>1, <2>2 DEF FileOf
  <1>6. FilesExact'
    <2>1. \A d, e \in Fds : file_of'[d] # None /\ file_of'[d] = file_of'[e] => d = e
      BY <1>1, <1>2, <1>3 DEF FilesExact
    <2>2. \A f \in Frames : page_id'[f] # None => Allocated(page_id[f])'
      BY <1>1, <1>2, <1>5 DEF FilesExact, Allocated
    <2>3. QED
      BY <1>1, <1>2, <2>1, <2>2 DEF FilesExact
  <1>7. \A g \in Frames, fl \in Files, no \in PageNo : Caches(g, fl, no)' <=> Caches(g, fl, no)
    BY <1>2, <1>5 DEF Caches
  <1>8. \A g \in Frames : Holders(g)' = Holders(g) /\ (Settled(g)' <=> Settled(g))
    BY <1>2 DEF Holders, Settled
  <1>9. PinsProtect'
    BY <1>1, <1>2, <1>8 DEF PinsProtect
  <1>10. CacheFresh' /\ DiskFresh'
    BY <1>1, <1>2, <1>7, <1>8 DEF CacheFresh, DiskFresh
  <1>11. /\ PageTableExact' /\ FramesAccounted' /\ LogOrder' /\ WriteAheadLog'
    BY <1>1, <1>2 DEF PageTableExact, FramesAccounted, Elements, Distinct, LogOrder, WriteAheadLog
  <1>12. QED
    BY <1>4, <1>6, <1>9, <1>10, <1>11 DEF PoolInv

\* The log grows and is written out, and the pool stands still.
LEMMA LogKeeps ==
    ASSUME PoolInv, last_lsn' \in Lsn \cup {INVALID_LSN},
           persist_lsn' \in Lsn \cup {INVALID_LSN},
           last_lsn <= last_lsn', persist_lsn <= persist_lsn', persist_lsn' <= last_lsn',
           UNCHANGED <<poolVars, fileVars, pin, latest>>
    PROVE  PoolInv'
  <1>1. /\ TypeOK /\ PageTableExact /\ PinsProtect /\ FramesAccounted /\ FilesExact
        /\ LogOrder /\ CacheFresh /\ DiskFresh /\ WriteAheadLog
    BY DEF PoolInv
  <1>2. UNCHANGED <<page_table, page_id, pin_count, is_dirty, data, free_list, LRUlist,
                    disk, file_of, num_pages, pin, latest>>
    BY DEF poolVars, fileVars
  <1>3. /\ last_lsn \in Int /\ persist_lsn \in Int /\ last_lsn' \in Int /\ persist_lsn' \in Int
        /\ \A g \in Frames : data[g].lsn \in Int
    BY <1>1, PoolAssumption DEF TypeOK, Lsn, INVALID_LSN, Contents
  <1>4. TypeOK'
    BY <1>1, <1>2 DEF TypeOK
  <1>5. LogOrder'
    BY <1>1, <1>2, <1>3 DEF LogOrder
  <1>6. WriteAheadLog'
    <2>1. SUFFICES ASSUME NEW fl \in Files, NEW n \in PageNo, disk[fl][n] # None
                   PROVE  disk[fl][n].lsn = 0 \/ disk[fl][n].lsn <= persist_lsn'
      BY <1>2 DEF WriteAheadLog
    <2>2. disk[fl][n].lsn = 0 \/ disk[fl][n].lsn <= persist_lsn
      BY <1>1, <2>1 DEF WriteAheadLog
    <2>3. disk[fl][n] \in Contents
      BY <1>1, <2>1 DEF TypeOK
    <2>4. disk[fl][n].lsn \in Int
      BY <2>3, PoolAssumption DEF Contents, Lsn
    <2>5. QED
      BY <1>3, <2>2, <2>4
  <1>7. /\ PageTableExact' /\ FramesAccounted' /\ FilesExact'
    BY <1>1, <1>2 DEF PageTableExact, FramesAccounted, Elements, Distinct, FilesExact,
                      Allocated, FileOf
  <1>8. \A g \in Frames : Holders(g)' = Holders(g) /\ (Settled(g)' <=> Settled(g))
    BY <1>2 DEF Holders, Settled
  <1>9. \A g \in Frames, fl \in Files, no \in PageNo : Caches(g, fl, no)' <=> Caches(g, fl, no)
    BY <1>2 DEF Caches, FileOf
  <1>10. PinsProtect' /\ CacheFresh' /\ DiskFresh'
    BY <1>1, <1>2, <1>8, <1>9 DEF PinsProtect, CacheFresh, DiskFresh
  <1>11. QED
    BY <1>4, <1>5, <1>6, <1>7, <1>10 DEF PoolInv

\* begin, commit and abort.
LEMMA LogRecordsKeep ==
    ASSUME PoolInv, LogBegin \/ LogEnd PROVE PoolInv'
  <1>1. /\ last_lsn \in Int /\ persist_lsn \in Int /\ persist_lsn <= last_lsn
        /\ last_lsn \in Lsn \cup {INVALID_LSN} /\ persist_lsn \in Lsn \cup {INVALID_LSN}
    BY PoolAssumption DEF PoolInv, TypeOK, LogOrder, Lsn, INVALID_LSN
  <1>2. /\ last_lsn < MaxLsn /\ last_lsn' = last_lsn + 1
        /\ persist_lsn' \in {persist_lsn, last_lsn, last_lsn'}
        /\ UNCHANGED <<poolVars, fileVars, pin, latest>>
    BY DEF LogBegin, LogEnd, AddLog
  <1>3. last_lsn' \in Lsn
    BY <1>1, <1>2, PoolAssumption DEF Lsn, INVALID_LSN
  <1>4. /\ persist_lsn' \in Lsn \cup {INVALID_LSN} /\ last_lsn <= last_lsn'
        /\ persist_lsn <= persist_lsn' /\ persist_lsn' <= last_lsn'
    BY <1>1, <1>2, <1>3
  <1>5. QED
    BY <1>2, <1>3, <1>4, LogKeeps

\* The empty pool satisfies the invariant.
LEMMA InitInv == Init => PoolInv
  <1> SUFFICES ASSUME Init PROVE PoolInv
    OBVIOUS
  <1>1. free_list \in Seq(Frames) /\ Distinct(free_list) /\ Elements(free_list) = Frames
    BY AscendingList DEF Init
  <1>2. LRUlist = <<>> /\ LRUlist \in Seq(Frames) /\ Distinct(LRUlist)
    BY DEF Init, Distinct
  <1>3. Zeroed \in Contents /\ Zeroed.lsn = 0
    BY PoolAssumption DEF Zeroed, Contents, Lsn
  <1>4. TypeOK
    BY <1>1, <1>2, <1>3, PoolAssumption DEF Init, TypeOK
  <1>5. PageTableExact
    BY NoneAssumption DEF Init, PageTableExact
  <1>6. PinsProtect
    <2>1. \A f \in Frames : Holders(f) = {}
      BY DEF Init, Holders
    <2>2. \A f \in Frames : Cardinality(Holders(f)) = 0
      BY <2>1, FS_EmptySet
    <2>3. QED
      BY <2>2 DEF Init, PinsProtect
  <1>7. FramesAccounted
    BY <1>1, <1>2 DEF Init, FramesAccounted
  <1>8. FilesExact
    BY PoolAssumption DEF Init, FilesExact, PageNo
  <1>9. LogOrder
    BY <1>3 DEF Init, LogOrder, INVALID_LSN
  <1>10. CacheFresh /\ DiskFresh /\ WriteAheadLog
    BY DEF Init, CacheFresh, DiskFresh, WriteAheadLog, Caches
  <1>11. QED
    BY <1>4, <1>5, <1>6, <1>7, <1>8, <1>9, <1>10 DEF PoolInv

\* Every call of the pool preserves the invariant.
LEMMA NextInv == PoolInv /\ [Next]_vars => PoolInv'
  <1> SUFFICES ASSUME PoolInv, [Next]_vars PROVE PoolInv'
    OBVIOUS
  <1>1. ASSUME NEW c \in Clients, NEW id \in PageId, FetchHit(c, id) \/ FetchMiss(c, id)
        PROVE  PoolInv'
    BY <1>1, FetchHitKeeps, FetchMissKeeps
  <1>2. ASSUME NEW c \in Clients, NEW fd \in Fds, NewPage(c, fd) PROVE PoolInv'
    BY <1>2, NewPageKeeps
  <1>3. ASSUME NEW c \in Clients, Modify(c) \/ ModifyUnlogged(c) \/ Unpin(c) \/ LeakPin(c)
        PROVE  PoolInv'
    BY <1>3, ModifyKeeps, ModifyUnloggedKeeps, UnpinKeeps, LeakPinKeeps
  <1>4. ASSUME NEW id \in PageId, FlushPage(id) \/ DeletePage(id) PROVE PoolInv'
    BY <1>4, FlushPageKeeps, DeletePageKeeps
  <1>5. ASSUME NEW fd \in Fds, FlushAll(fd) \/ CloseFile(fd) PROVE PoolInv'
    BY <1>5, FlushAllKeeps, CloseFileKeeps
  <1>6. ASSUME NEW fd \in Fds, NEW file \in Files, OpenFile(fd, file) PROVE PoolInv'
    BY <1>6, OpenFileKeeps
  <1>7. CASE LogBegin \/ LogEnd
    BY <1>7, LogRecordsKeep
  <1>8. CASE UNCHANGED vars
    <2>1. /\ UNCHANGED <<poolVars, fileVars, pin, latest>>
          /\ last_lsn' = last_lsn /\ persist_lsn' = persist_lsn
      BY <1>8 DEF vars, logVars
    <2>2. /\ last_lsn \in Int /\ persist_lsn \in Int /\ persist_lsn <= last_lsn
          /\ last_lsn \in Lsn \cup {INVALID_LSN} /\ persist_lsn \in Lsn \cup {INVALID_LSN}
      BY PoolAssumption DEF PoolInv, TypeOK, LogOrder, Lsn, INVALID_LSN
    <2>3. /\ last_lsn' \in Lsn \cup {INVALID_LSN} /\ persist_lsn' \in Lsn \cup {INVALID_LSN}
          /\ last_lsn <= last_lsn' /\ persist_lsn <= persist_lsn' /\ persist_lsn' <= last_lsn'
      BY <2>1, <2>2
    <2>4. QED
      BY <2>1, <2>3, LogKeeps
  <1>9. QED
    BY <1>1, <1>2, <1>3, <1>4, <1>5, <1>6, <1>7, <1>8 DEF Next

\* The inductive invariant holds for any pool size, any number of files, any reuse
\* of descriptors and any number of clients.
THEOREM PoolInvariant == Spec => []PoolInv
  <1>1. Init => PoolInv
    BY InitInv
  <1>2. PoolInv /\ [Next]_vars => PoolInv'
    BY NextInv
  <1>3. QED
    BY <1>1, <1>2, PTL DEF Spec

\* The pool's structures keep their types; in particular fetch_page never reads
\* past the end of a file.
THEOREM PoolTypeCorrect == Spec => []TypeOK
  <1>1. PoolInv => TypeOK
    BY DEF PoolInv
  <1>2. QED
    BY <1>1, PoolInvariant, PTL

\* page_table_ and Page::id_ are inverse to each other.
THEOREM PageTableExactAlways == Spec => []PageTableExact
  <1>1. PoolInv => PageTableExact
    BY DEF PoolInv
  <1>2. QED
    BY <1>1, PoolInvariant, PTL

\* A pinned page stays in its frame.
THEOREM PinsProtectAlways == Spec => []PinsProtect
  <1>1. PoolInv => PinsProtect
    BY DEF PoolInv
  <1>2. QED
    BY <1>1, PoolInvariant, PTL

\* No frame is lost or offered twice.
THEOREM FramesAccountedAlways == Spec => []FramesAccounted
  <1>1. PoolInv => FramesAccounted
    BY DEF PoolInv
  <1>2. QED
    BY <1>1, PoolInvariant, PTL

\* No write is lost and no stale page is served.
THEOREM NoLostWriteAlways == Spec => []NoLostWrite
  <1>1. PoolInv => NoLostWrite
    BY NoLostWriteHalves DEF PoolInv
  <1>2. QED
    BY <1>1, PoolInvariant, PTL

\* No page reaches the disk before the log record of its last logged change.
THEOREM WriteAheadLogAlways == Spec => []WriteAheadLog
  <1>1. PoolInv => WriteAheadLog
    BY DEF PoolInv
  <1>2. QED
    BY <1>1, PoolInvariant, PTL

=============================================================================
