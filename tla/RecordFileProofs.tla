-------------------------- MODULE RecordFileProofs --------------------------
(***************************************************************************)
(* TLAPS proofs about RecordFile, for any number of pages, of slots in a   *)
(* page and of writes in a transaction: a scan returns exactly the records *)
(* of the table, the free list is sound until a rollback refills a page    *)
(* that is on it, and no record is written outside its page before that.   *)
(***************************************************************************)
EXTENDS RecordFile, FiniteSetTheorems, WellFoundedInduction, TLAPS

\* The records of the table are the set bits of its pages, and are counted.
RowsExact ==
    /\ rows = {rid \in Rid : rid.page <= num_pages /\ rid.slot \in bitmap[rid.page]}
    /\ \A p \in PageNo : num_records[p] = Cardinality(bitmap[p])

\* Pages the file does not have yet are empty and nothing leads to them.
PagesInFile ==
    /\ \A p \in PageNo : p > num_pages => bitmap[p] = {} /\ next_free_page_no[p] = RM_NO_PAGE
    /\ first_free_page_no <= num_pages
    /\ \A p \in PageNo : next_free_page_no[p] <= num_pages
    /\ \A i \in DOMAIN writes : writes[i].rid.page <= num_pages

\* A page of the list has room, and the list is without cycles or joins.
ListSound ==
    /\ \A p \in FreeList : p <= num_pages /\ ~Full(p)
    /\ \A p \in FreeList : next_free_page_no[p] # first_free_page_no
    /\ \A p, q \in FreeList : next_free_page_no[p] = next_free_page_no[q] => p = q

\* What the scan has returned is what lies up to its cursor.
UpTo(page, slot) ==
    {rid \in rows : rid.page < page \/ (rid.page = page /\ rid.slot <= slot)}

ScanPrefix ==
    /\ cursor = NoScan => seen = {}
    /\ cursor # NoScan => /\ cursor.page >= 1 /\ ~aborting /\ ~overrun
                          /\ seen = UpTo(cursor.page, cursor.slot)

\* The inductive invariant.
FileInv ==
    /\ TypeOK /\ RowsExact /\ PagesInFile /\ ScanPrefix
    /\ aborting => writes # <<>>
    /\ ~refilled => ListSound
    /\ OverrunOnlyRefilled

-----------------------------------------------------------------------------
(* Numbers, bits and lists *)

LEMMA Constants ==
    MaxPages \in Nat /\ MaxPages > 0 /\ PerPage \in Nat /\ PerPage > 0
  BY FileAssumption

LEMMA LeastNat ==
    ASSUME NEW T \in SUBSET Nat, T # {} PROVE \E m \in T : \A n \in T : m <= n
  <1>1. \E x \in T : \A y \in T : ~(<<y, x>> \in OpToRel(<, Nat))
    BY NatLessThanWellFounded, WFMin
  <1>2. PICK x \in T : \A y \in T : ~(<<y, x>> \in OpToRel(<, Nat))
    BY <1>1
  <1>3. \A y \in T : ~(y < x)
    BY <1>2 DEF OpToRel
  <1>4. QED
    BY <1>3

LEMMA GreatestNat ==
    ASSUME NEW n \in Nat, NEW T \in SUBSET (0..n), T # {}
    PROVE  \E m \in T : \A k \in T : k <= m
  <1> DEFINE D == {n - k : k \in T}
  <1>1. D \in SUBSET Nat /\ D # {}
    <2>1. \A k \in T : n - k \in Nat /\ n - k \in D
      OBVIOUS
    <2>2. QED
      BY <2>1
  <1>2. PICK d \in D : \A e \in D : d <= e
    BY <1>1, LeastNat
  <1>3. PICK m \in T : d = n - m
    BY <1>2
  <1>4. \A k \in T : k <= m
    <2>1. ASSUME NEW k \in T PROVE k <= m
      <3>1. n - k \in D
        OBVIOUS
      <3>2. n - m <= n - k
        BY <1>2, <1>3, <3>1
      <3>3. QED
        BY <3>2
    <2>2. QED
      BY <2>1
  <1>5. QED
    BY <1>4

\* Counting the bits of a page.
LEMMA BitCount ==
    ASSUME NEW B \in SUBSET Slot
    PROVE  /\ Cardinality(B) \in 0..PerPage /\ Cardinality(Slot) = PerPage
           /\ Cardinality({}) = 0
           /\ \A s \in Slot \ B : /\ Cardinality(B \cup {s}) = Cardinality(B) + 1
                                  /\ Cardinality(B) + 1 \in 0..PerPage
           /\ \A s \in B : /\ Cardinality(B \ {s}) = Cardinality(B) - 1
                           /\ Cardinality(B) - 1 \in 0..PerPage
  <1> USE Constants
  <1>1. IsFiniteSet(Slot) /\ Cardinality(Slot) = PerPage
    BY FS_Interval DEF Slot
  <1>2. \A T \in SUBSET Slot : IsFiniteSet(T) /\ Cardinality(T) \in 0..PerPage
    <2>1. ASSUME NEW T \in SUBSET Slot
          PROVE  IsFiniteSet(T) /\ Cardinality(T) \in 0..PerPage
      <3>1. IsFiniteSet(T) /\ Cardinality(T) <= PerPage
        BY <1>1, FS_Subset
      <3>2. QED
        BY <3>1, FS_CardinalityType
    <2>2. QED
      BY <2>1
  <1>3. Cardinality({}) = 0
    BY FS_EmptySet
  <1>4. ASSUME NEW s \in Slot \ B
        PROVE  Cardinality(B \cup {s}) = Cardinality(B) + 1 /\ Cardinality(B) + 1 \in 0..PerPage
    <2>1. Cardinality(B \cup {s}) = Cardinality(B) + 1
      BY <1>2, FS_AddElement
    <2>2. B \cup {s} \in SUBSET Slot
      OBVIOUS
    <2>3. QED
      BY <1>2, <2>1, <2>2
  <1>5. ASSUME NEW s \in B
        PROVE  Cardinality(B \ {s}) = Cardinality(B) - 1 /\ Cardinality(B) - 1 \in 0..PerPage
    <2>1. Cardinality(B \ {s}) = Cardinality(B) - 1
      BY <1>2, FS_RemoveElement
    <2>2. B \ {s} \in SUBSET Slot
      OBVIOUS
    <2>3. QED
      BY <1>2, <2>1, <2>2
  <1>6. QED
    BY <1>1, <1>2, <1>3, <1>4, <1>5

\* next_bit returns the first slot of the kind asked for, or none.
LEMMA NextBit ==
    ASSUME NEW bit \in BOOLEAN, NEW page, NEW curr \in 0..PerPage
    PROVE  \/ /\ next_bit(bit, page, curr) = PerPage + 1
              /\ \A s \in Slot : s > curr => ~(s \in bitmap[page] <=> bit)
           \/ /\ next_bit(bit, page, curr) \in Slot
              /\ next_bit(bit, page, curr) > curr
              /\ next_bit(bit, page, curr) \in bitmap[page] <=> bit
              /\ \A s \in Slot : s > curr /\ s < next_bit(bit, page, curr) =>
                    ~(s \in bitmap[page] <=> bit)
  <1> DEFINE found == {s \in Slot : s > curr /\ (s \in bitmap[page] <=> bit)}
             least == CHOOSE s \in found : \A other \in found : s <= other
  <1> USE Constants
  <1>1. next_bit(bit, page, curr) = IF found = {} THEN PerPage + 1 ELSE least
    BY Zenon DEF next_bit
  <1>2. CASE found = {}
    BY <1>1, <1>2
  <1>3. CASE found # {}
    <2>1. found \in SUBSET Nat
      BY DEF Slot
    <2>2. \E s \in found : \A other \in found : s <= other
      BY <1>3, <2>1, LeastNat
    <2>3. least \in found /\ \A other \in found : least <= other
      BY <2>2
    <2>4. next_bit(bit, page, curr) = least
      BY <1>1, <1>3
    <2> HIDE DEF least
    <2>5. \A s \in Slot : s > curr /\ s < least => ~(s \in bitmap[page] <=> bit)
      <3>1. ASSUME NEW s \in Slot, s > curr, s < least, s \in bitmap[page] <=> bit PROVE FALSE
        <4>1. least <= s /\ least \in Nat /\ s \in Nat
          BY <2>1, <2>3, <3>1 DEF Slot
        <4>2. QED
          BY <3>1, <4>1
      <3>2. QED
        BY <3>1
    <2>6. QED
      BY <2>3, <2>4, <2>5
  <1>4. QED
    BY <1>2, <1>3

\* The free list is the least set closed under its links.
LEMMA FreeListClosed ==
    ASSUME TypeOK PROVE ClosedList(FreeList) /\ FreeList \in SUBSET PageNo
  <1>1. FreeList \in SUBSET PageNo
    BY DEF FreeList
  <1>2. first_free_page_no \in FreeList \cup {RM_NO_PAGE}
    BY DEF TypeOK, FreeList, ClosedList
  <1>3. ASSUME NEW p \in FreeList PROVE next_free_page_no[p] \in FreeList \cup {RM_NO_PAGE}
    <2>1. next_free_page_no[p] \in PageNo \cup {RM_NO_PAGE}
      BY <1>1 DEF TypeOK
    <2>2. ASSUME NEW S \in SUBSET PageNo, ClosedList(S)
          PROVE  next_free_page_no[p] \in S \cup {RM_NO_PAGE}
      BY <1>3, <2>2 DEF FreeList, ClosedList
    <2>3. QED
      BY <2>1, <2>2 DEF FreeList
  <1>4. QED
    BY <1>1, <1>2, <1>3 DEF ClosedList

\* A step makes the list sound when some closed set of pages is.
LEMMA SoundFromClosed ==
    ASSUME NEW S \in SUBSET PageNo, ClosedList(S)',
           \A p \in S : p <= num_pages' /\ num_records'[p] # PerPage,
           \A p \in S : next_free_page_no'[p] # first_free_page_no',
           \A p, q \in S : next_free_page_no'[p] = next_free_page_no'[q] => p = q
    PROVE  ListSound'
  <1>1. FreeList' \subseteq S
    BY DEF FreeList
  <1>2. QED
    BY <1>1 DEF ListSound, Full

-----------------------------------------------------------------------------
(* Records put and removed *)

\* The step changes neither the scan nor the flags of a rollback.
LEMMA PutRows ==
    ASSUME FileInv, NEW page \in PageNo, NEW slot \in Slot, slot \notin bitmap[page],
           PutRecord(page, slot), rows' = rows \cup {AtPage(page, slot)},
           num_pages' \in Nat, num_pages <= num_pages', page <= num_pages'
    PROVE  /\ RowsExact'
           /\ bitmap' \in [PageNo -> SUBSET Slot] /\ num_records' \in [PageNo -> 0..PerPage]
           /\ rows' \subseteq Rid /\ AtPage(page, slot) \in Rid
           /\ \A p \in PageNo : p > num_pages' => bitmap'[p] = {}
           /\ num_records'[page] = num_records[page] + 1
           /\ \A p \in PageNo : p # page => num_records'[p] = num_records[p]
  <1> USE Constants
  <1>1. /\ bitmap \in [PageNo -> SUBSET Slot] /\ num_records \in [PageNo -> 0..PerPage]
        /\ rows \subseteq Rid /\ num_pages \in Nat
    BY DEF FileInv, TypeOK
  <1>2. /\ bitmap' = [bitmap EXCEPT ![page] = @ \cup {slot}]
        /\ num_records' = [num_records EXCEPT ![page] = @ + 1]
    BY DEF PutRecord
  <1>3. /\ bitmap'[page] = bitmap[page] \cup {slot} /\ bitmap' \in [PageNo -> SUBSET Slot]
        /\ num_records'[page] = num_records[page] + 1
        /\ \A p \in PageNo : p # page =>
              bitmap'[p] = bitmap[p] /\ num_records'[p] = num_records[p]
    BY <1>1, <1>2
  <1>4. /\ num_records[page] = Cardinality(bitmap[page])
        /\ Cardinality(bitmap[page] \cup {slot}) = Cardinality(bitmap[page]) + 1
        /\ num_records[page] + 1 \in 0..PerPage
    BY <1>1, BitCount DEF FileInv, RowsExact
  <1>5. num_records' \in [PageNo -> 0..PerPage]
    BY <1>1, <1>2, <1>4
  <1>6. /\ AtPage(page, slot) \in Rid
        /\ AtPage(page, slot).page = page /\ AtPage(page, slot).slot = slot
    BY DEF AtPage, Rid
  <1>7. \A p \in PageNo : p > num_pages' => bitmap'[p] = {}
    BY <1>1, <1>3 DEF FileInv, PagesInFile, PageNo
  <1>8. \A rid \in Rid :
            rid \in rows' <=> rid.page <= num_pages' /\ rid.slot \in bitmap'[rid.page]
    <2>1. ASSUME NEW rid \in Rid
          PROVE  rid \in rows' <=> rid.page <= num_pages' /\ rid.slot \in bitmap'[rid.page]
      <3>1. /\ rid.page \in PageNo /\ rid.slot \in Slot
            /\ rid.page = page /\ rid.slot = slot => rid = AtPage(page, slot)
        BY DEF Rid, AtPage
      <3>2. rid \in rows <=> rid.page <= num_pages /\ rid.slot \in bitmap[rid.page]
        BY DEF FileInv, RowsExact
      <3>3. rid.page > num_pages => bitmap[rid.page] = {}
        BY <3>1 DEF FileInv, PagesInFile
      <3>4. CASE rid = AtPage(page, slot)
        BY <1>3, <1>6, <3>4
      <3>5. CASE rid # AtPage(page, slot)
        <4>1. rid \in rows' <=> rid \in rows
          BY <3>5
        <4>2. rid.slot \in bitmap'[rid.page] <=> rid.slot \in bitmap[rid.page]
          BY <1>3, <3>1, <3>5
        <4>3. rid.slot \in bitmap[rid.page] => rid.page <= num_pages /\ rid.page <= num_pages'
          BY <1>1, <3>1, <3>3 DEF PageNo
        <4>4. QED
          BY <3>2, <4>1, <4>2, <4>3
      <3>6. QED
        BY <3>4, <3>5
    <2>2. QED
      BY <2>1
  <1>9. \A p \in PageNo : num_records'[p] = Cardinality(bitmap'[p])
    BY <1>3, <1>4 DEF FileInv, RowsExact
  <1>10. rows' \subseteq Rid
    BY <1>1, <1>6
  <1>11. RowsExact'
    BY <1>8, <1>9, <1>10 DEF RowsExact
  <1>12. QED
    BY <1>3, <1>5, <1>6, <1>7, <1>10, <1>11

\* delete_record and the undoing of an insert: a page that was full becomes
\* the head of the list.
LEMMA RemoveStep ==
    ASSUME FileInv, NEW rid \in Rid, RemoveRecord(rid), num_pages' = num_pages
    PROVE  /\ RowsExact'
           /\ bitmap' \in [PageNo -> SUBSET Slot] /\ num_records' \in [PageNo -> 0..PerPage]
           /\ rows' \subseteq Rid /\ rid.page <= num_pages
           /\ first_free_page_no' \in PageNo \cup {RM_NO_PAGE}
           /\ next_free_page_no' \in [PageNo -> PageNo \cup {RM_NO_PAGE}]
           /\ first_free_page_no' <= num_pages
           /\ \A p \in PageNo : next_free_page_no'[p] <= num_pages
           /\ \A p \in PageNo : p > num_pages =>
                 bitmap'[p] = {} /\ next_free_page_no'[p] = RM_NO_PAGE
           /\ ListSound => ListSound'
  <1> USE Constants
  <1>1. PICK page \in PageNo, slot \in Slot : page = rid.page /\ slot = rid.slot
    BY DEF Rid
  <1>2. /\ bitmap \in [PageNo -> SUBSET Slot] /\ num_records \in [PageNo -> 0..PerPage]
        /\ rows \subseteq Rid /\ num_pages \in 0..MaxPages
        /\ first_free_page_no \in PageNo \cup {RM_NO_PAGE}
        /\ next_free_page_no \in [PageNo -> PageNo \cup {RM_NO_PAGE}]
    BY DEF FileInv, TypeOK
  <1>3. /\ slot \in bitmap[page]
        /\ bitmap' = [bitmap EXCEPT ![page] = @ \ {slot}]
        /\ num_records' = [num_records EXCEPT ![page] = @ - 1]
        /\ rows' = rows \ {rid}
    BY <1>1 DEF RemoveRecord
  <1>4. /\ bitmap'[page] = bitmap[page] \ {slot} /\ bitmap' \in [PageNo -> SUBSET Slot]
        /\ num_records'[page] = num_records[page] - 1
        /\ \A p \in PageNo : p # page =>
              bitmap'[p] = bitmap[p] /\ num_records'[p] = num_records[p]
    BY <1>2, <1>3
  <1>5. /\ num_records[page] = Cardinality(bitmap[page])
        /\ Cardinality(bitmap[page] \ {slot}) = Cardinality(bitmap[page]) - 1
        /\ num_records[page] - 1 \in 0..PerPage
    BY <1>2, <1>3, BitCount DEF FileInv, RowsExact
  <1>6. num_records' \in [PageNo -> 0..PerPage]
    BY <1>2, <1>3, <1>5
  <1>7. page <= num_pages
    BY <1>2, <1>3 DEF FileInv, PagesInFile, PageNo
  <1>8. RowsExact'
    <2>1. ASSUME NEW r \in Rid
          PROVE  r \in rows' <=> r.page <= num_pages' /\ r.slot \in bitmap'[r.page]
      <3>1. r.page \in PageNo /\ (r.page = page /\ r.slot = slot <=> r = rid)
        BY <1>1 DEF Rid
      <3>2. r \in rows <=> r.page <= num_pages /\ r.slot \in bitmap[r.page]
        BY DEF FileInv, RowsExact
      <3>3. QED
        BY <1>3, <1>4, <3>1, <3>2
    <2>2. \A p \in PageNo : num_records'[p] = Cardinality(bitmap'[p])
      BY <1>4, <1>5 DEF FileInv, RowsExact
    <2>3. rows' \subseteq Rid
      BY <1>2, <1>3
    <2>4. QED
      BY <2>1, <2>2, <2>3 DEF RowsExact
  <1>9. \A p \in PageNo : p > num_pages => bitmap'[p] = {} /\ next_free_page_no[p] = RM_NO_PAGE
    BY <1>2, <1>4, <1>7 DEF FileInv, PagesInFile, PageNo
  <1>10. /\ first_free_page_no <= num_pages
         /\ \A p \in PageNo : next_free_page_no[p] <= num_pages
    BY DEF FileInv, PagesInFile
  <1>11. ClosedList(FreeList) /\ FreeList \in SUBSET PageNo
    BY FreeListClosed DEF FileInv
  <1>12. CASE num_records[page] = PerPage
    <2>1. /\ next_free_page_no' = [next_free_page_no EXCEPT ![page] = first_free_page_no]
          /\ first_free_page_no' = page
      BY <1>1, <1>2, <1>12 DEF RemoveRecord, release_page_handle
    <2>2. /\ next_free_page_no'[page] = first_free_page_no
          /\ \A p \in PageNo : p # page => next_free_page_no'[p] = next_free_page_no[p]
          /\ next_free_page_no' \in [PageNo -> PageNo \cup {RM_NO_PAGE}]
      BY <1>2, <2>1
    <2>3. ASSUME ListSound PROVE ListSound'
      <3>0. PICK S \in SUBSET PageNo : S = FreeList \cup {page}
        BY <1>11
      <3>1. page \notin FreeList /\ page # RM_NO_PAGE
        BY <1>12, <2>3 DEF ListSound, Full, PageNo, RM_NO_PAGE
      <3>3. ClosedList(S)'
        BY <1>11, <2>1, <2>2, <3>0 DEF ClosedList
      <3>4. \A p \in S : p <= num_pages' /\ num_records'[p] # PerPage
        BY <3>0, <1>4, <1>7, <1>11, <1>12, <2>3 DEF ListSound, Full
      <3>5. first_free_page_no # page
        BY <1>11, <3>1 DEF ClosedList
      <3>6. \A p \in FreeList : next_free_page_no[p] # page
        BY <1>11, <3>1 DEF ClosedList
      <3>7. \A p \in S : next_free_page_no'[p] # first_free_page_no'
        BY <1>11, <2>1, <2>2, <3>0, <3>5, <3>6
      <3>8. \A p, q \in S : next_free_page_no'[p] = next_free_page_no'[q] => p = q
        BY <1>11, <2>2, <2>3, <3>0, <3>1 DEF ListSound
      <3>9. QED
        BY <3>3, <3>4, <3>7, <3>8, SoundFromClosed
    <2>4. /\ first_free_page_no' <= num_pages
          /\ \A p \in PageNo : next_free_page_no'[p] <= num_pages
          /\ \A p \in PageNo : p > num_pages => next_free_page_no'[p] = RM_NO_PAGE
      BY <1>2, <1>7, <1>9, <1>10, <2>1, <2>2 DEF PageNo
    <2>5. QED
      BY <1>1, <1>2, <1>3, <1>4, <1>6, <1>7, <1>8, <1>9, <2>1, <2>2, <2>3, <2>4
  <1>13. CASE num_records[page] # PerPage
    <2>1. UNCHANGED <<next_free_page_no, first_free_page_no>>
      BY <1>1, <1>2, <1>13 DEF RemoveRecord
    <2>2. ASSUME ListSound PROVE ListSound'
      <3>1. ClosedList(FreeList)
        BY <1>11
      <3>2. PICK S \in SUBSET PageNo : S = FreeList
        BY <1>11
      <3>3. ClosedList(S)'
        BY <1>11, <2>1, <3>2 DEF ClosedList
      <3>4. \A p \in S : p <= num_pages' /\ num_records'[p] # PerPage
        BY <1>2, <1>4, <2>2, <3>2 DEF ListSound, Full
      <3>5. QED
        BY <2>1, <2>2, <3>2, <3>3, <3>4, SoundFromClosed DEF ListSound
    <2>3. QED
      BY <1>1, <1>2, <1>3, <1>4, <1>6, <1>7, <1>8, <1>9, <1>10, <2>1, <2>2
  <1>14. QED
    BY <1>12, <1>13

-----------------------------------------------------------------------------
(* The write set *)

WriteType == [type : {"INSERT", "DELETE"}, rid : Rid]

LEMMA AppendWrite ==
    ASSUME FileInv, NEW rec \in WriteType, writes' = Append(writes, rec),
           num_pages' \in Nat, num_pages <= num_pages', rec.rid.page <= num_pages'
    PROVE  /\ writes' \in Seq(WriteType) /\ writes' # <<>>
           /\ \A i \in DOMAIN writes' : writes'[i].rid.page <= num_pages'
  <1>1. writes \in Seq(WriteType) /\ num_pages \in Nat
    BY Constants DEF FileInv, TypeOK, WriteType
  <1>2. /\ writes' \in Seq(WriteType) /\ writes' # <<>>
        /\ Len(writes) \in Nat /\ DOMAIN writes = 1..Len(writes)
        /\ DOMAIN writes' = 1..(Len(writes) + 1)
        /\ \A i \in 1..Len(writes) : writes'[i] = writes[i]
        /\ writes'[Len(writes) + 1] = rec
    BY <1>1
  <1>3. ASSUME NEW i \in DOMAIN writes' PROVE writes'[i].rid.page <= num_pages'
    <2>1. CASE i = Len(writes) + 1
      BY <1>2, <2>1
    <2>2. CASE i # Len(writes) + 1
      <3>1. i \in 1..Len(writes)
        BY <1>2, <2>2
      <3>2. writes[i].rid.page <= num_pages /\ writes'[i] = writes[i]
        BY <1>2, <3>1 DEF FileInv, PagesInFile
      <3>3. writes[i].rid.page \in Nat
        <4>1. writes[i] \in WriteType
          BY <1>1, <3>1
        <4>2. writes[i].rid.page \in PageNo
          BY <4>1 DEF WriteType, Rid
        <4>3. QED
          BY <4>2, Constants DEF PageNo
      <3>4. QED
        BY <1>1, <3>2, <3>3
    <2>3. QED
      BY <2>1, <2>2
  <1>4. QED
    BY <1>2, <1>3

LEMMA DropWrite ==
    ASSUME FileInv, aborting, DropLastWrite, num_pages' = num_pages
    PROVE  /\ LastWrite \in WriteType /\ LastWrite.rid.page <= num_pages
           /\ writes' \in Seq(WriteType)
           /\ \A i \in DOMAIN writes' : writes'[i].rid.page <= num_pages
           /\ aborting' \in BOOLEAN /\ (aborting' => writes' # <<>>)
  <1>1. writes \in Seq(WriteType) /\ writes # <<>>
    BY DEF FileInv, TypeOK, WriteType
  <1>2. Len(writes) \in Nat \ {0} /\ DOMAIN writes = 1..Len(writes)
    BY <1>1
  <1>3. /\ writes' \in Seq(WriteType) /\ DOMAIN writes' = 1..(Len(writes) - 1)
        /\ \A i \in 1..(Len(writes) - 1) : writes'[i] = writes[i]
        /\ Len(writes) > 1 => writes' # <<>>
    <2>1. writes' = SubSeq(writes, 1, Len(writes) - 1) /\ Len(writes) - 1 \in 0..Len(writes)
      BY <1>2 DEF DropLastWrite
    <2>2. Len(writes') = Len(writes) - 1 /\ writes' \in Seq(WriteType)
      BY <1>1, <1>2, <2>1
    <2>3. \A i \in 1..(Len(writes) - 1) : writes'[i] = writes[i]
      BY <1>1, <1>2, <2>1
    <2>4. DOMAIN writes' = 1..(Len(writes) - 1)
      BY <2>2
    <2>5. Len(writes) > 1 => writes' # <<>>
      BY <1>2, <2>2
    <2>6. QED
      BY <2>2, <2>3, <2>4, <2>5
  <1>4. LastWrite \in WriteType /\ LastWrite.rid.page <= num_pages
    <2>1. Len(writes) \in DOMAIN writes
      BY <1>2
    <2>2. QED
      BY <1>1, <2>1 DEF LastWrite, FileInv, PagesInFile
  <1>5. \A i \in DOMAIN writes' : writes'[i].rid.page <= num_pages
    BY <1>2, <1>3 DEF FileInv, PagesInFile
  <1>6. aborting' \in BOOLEAN /\ (aborting' => writes' # <<>>)
    <2>1. aborting' = (Len(writes) > 1)
      BY DEF DropLastWrite
    <2>2. (Len(writes) > 1) \in BOOLEAN
      BY <1>2
    <2>3. QED
      BY <1>3, <2>1, <2>2, Zenon
  <1>7. QED
    BY <1>3, <1>4, <1>5, <1>6

-----------------------------------------------------------------------------
(* The actions *)

\* No scan runs, and none begins.
LEMMA NoScanKept ==
    ASSUME FileInv, cursor = NoScan, UNCHANGED <<cursor, seen>> PROVE ScanPrefix'
  BY DEF FileInv, ScanPrefix

LEMMA InsertStep == ASSUME FileInv, insert_record PROVE FileInv'
  <1> USE Constants
  <1> DEFINE new == first_free_page_no = RM_NO_PAGE
             page == IF new THEN num_pages + 1 ELSE first_free_page_no
             slot == next_bit(FALSE, page, 0)
  <1>1. /\ cursor = NoScan /\ ~overrun /\ ~aborting /\ page \in PageNo
        /\ UNCHANGED <<next_free_page_no, cursor, aborting, seen, refilled>>
    BY DEF insert_record, Idle
  <1>2. /\ num_pages \in 0..MaxPages /\ bitmap \in [PageNo -> SUBSET Slot]
        /\ num_records \in [PageNo -> 0..PerPage] /\ num_records[page] \in 0..PerPage
        /\ next_free_page_no \in [PageNo -> PageNo \cup {RM_NO_PAGE}]
        /\ first_free_page_no \in PageNo \cup {RM_NO_PAGE}
        /\ {aborting, overrun, refilled} \subseteq BOOLEAN
    BY <1>1 DEF FileInv, TypeOK
  <1>3. /\ slot \in Slot => slot \notin bitmap[page]
        /\ slot \notin Slot => bitmap[page] = Slot
    <2>1. \/ slot = PerPage + 1 /\ \A s \in Slot : s > 0 => ~(s \in bitmap[page] <=> FALSE)
          \/ slot \in Slot /\ (slot \in bitmap[page] <=> FALSE)
      <3>1. FALSE \in BOOLEAN /\ 0 \in 0..PerPage
        OBVIOUS
      <3> HIDE DEF page
      <3>2. QED
        BY <3>1, NextBit, Zenon
    <2>2. PerPage + 1 \notin Slot /\ \A s \in Slot : s > 0
      BY DEF Slot
    <2>3. QED
      BY <1>1, <1>2, <2>1, <2>2
  <1>4. ClosedList(FreeList) /\ FreeList \in SUBSET PageNo
    BY FreeListClosed DEF FileInv
  <1>5. ScanPrefix'
    BY <1>1, NoScanKept
  <1>6. /\ first_free_page_no <= num_pages
        /\ \A p \in PageNo : next_free_page_no[p] <= num_pages
        /\ \A p \in PageNo : p > num_pages => bitmap[p] = {} /\ next_free_page_no[p] = RM_NO_PAGE
    BY DEF FileInv, PagesInFile
  <1>7. CASE slot \in Slot
    <2>1. /\ PutRecord(page, slot) /\ PopIfFull(page)
          /\ num_pages' = IF new THEN page ELSE num_pages
          /\ rows' = rows \cup {AtPage(page, slot)}
          /\ writes' = Append(writes, [type |-> "INSERT", rid |-> AtPage(page, slot)])
          /\ UNCHANGED overrun
      BY <1>7 DEF insert_record
    <2>2. /\ num_pages' \in 0..MaxPages /\ num_pages <= num_pages' /\ page <= num_pages'
          /\ num_pages' \in Nat
      BY <1>1, <1>2, <1>6, <2>1 DEF PageNo
    <2> HIDE DEF slot, page
    <2>3. /\ RowsExact'
          /\ bitmap' \in [PageNo -> SUBSET Slot] /\ num_records' \in [PageNo -> 0..PerPage]
          /\ rows' \subseteq Rid /\ AtPage(page, slot) \in Rid
          /\ \A p \in PageNo : p > num_pages' => bitmap'[p] = {}
          /\ num_records'[page] = num_records[page] + 1
          /\ \A p \in PageNo : p # page => num_records'[p] = num_records[p]
      BY <1>1, <1>3, <1>7, <2>1, <2>2, PutRows
    <2>4. /\ writes' \in Seq(WriteType) /\ writes' # <<>>
          /\ \A i \in DOMAIN writes' : writes'[i].rid.page <= num_pages'
      <3>1. AtPage(page, slot).page = page
        BY DEF AtPage
      <3>2. [type |-> "INSERT", rid |-> AtPage(page, slot)] \in WriteType
        BY <2>3 DEF WriteType
      <3>3. QED
        BY <2>1, <2>2, <3>1, <3>2, AppendWrite
    <2>5. first_free_page_no' = IF num_records[page] + 1 = PerPage THEN next_free_page_no[page]
                                ELSE first_free_page_no
      BY <2>1 DEF PopIfFull
    <2>6. first_free_page_no' \in PageNo \cup {RM_NO_PAGE} /\ first_free_page_no' <= num_pages'
      <3>1. next_free_page_no[page] \in PageNo \cup {RM_NO_PAGE}
        BY <1>1, <1>2
      <3>2. next_free_page_no[page] <= num_pages
        BY <1>1, <1>6
      <3>3. QED
        BY <1>2, <1>6, <2>2, <2>5, <3>1, <3>2 DEF PageNo, RM_NO_PAGE
    <2>7. TypeOK'
      BY <1>1, <1>2, <2>1, <2>2, <2>3, <2>4, <2>6 DEF FileInv, TypeOK, WriteType
    <2>8. PagesInFile'
      <3>1. \A p \in PageNo : p > num_pages' => next_free_page_no[p] = RM_NO_PAGE
        BY <1>2, <1>6, <2>2 DEF PageNo
      <3>2. \A p \in PageNo : next_free_page_no[p] <= num_pages'
        BY <1>2, <1>6, <2>2 DEF PageNo, RM_NO_PAGE
      <3>3. QED
        BY <1>1, <2>3, <2>4, <2>6, <3>1, <3>2 DEF PagesInFile
    <2>9. ASSUME ~refilled PROVE ListSound'
      <3>1. ListSound
        BY <2>9 DEF FileInv
      <3>2. CASE new
        <4>1. page = num_pages + 1 /\ next_free_page_no[page] = RM_NO_PAGE
          BY <1>1, <1>2, <1>6, <3>2 DEF page
        <4>2. first_free_page_no' = RM_NO_PAGE
          BY <2>5, <3>2, <4>1
        <4>3. ClosedList({})'
          BY <4>2 DEF ClosedList
        <4>4. QED
          BY <4>3, SoundFromClosed
      <3>3. CASE ~new
        <4>1. page = first_free_page_no /\ page # RM_NO_PAGE
          BY <3>3 DEF page
        <4>2. page \in FreeList
          BY <1>4, <4>1 DEF ClosedList
        <4>3. CASE num_records[page] + 1 = PerPage
          <5>1. first_free_page_no' = next_free_page_no[page]
            BY <2>5, <4>3
          <5>2. PICK S \in SUBSET PageNo : S = FreeList \ {page}
            BY <1>4
          <5>3. ClosedList(S)'
            BY <1>1, <1>4, <3>1, <4>1, <4>2, <5>1, <5>2 DEF ClosedList, ListSound
          <5>4. \A p \in S : p <= num_pages' /\ num_records'[p] # PerPage
            BY <1>2, <2>2, <2>3, <3>1, <5>2 DEF ListSound, Full, PageNo
          <5>5. \A p \in S : next_free_page_no'[p] # first_free_page_no'
            BY <1>1, <3>1, <4>2, <5>1, <5>2 DEF ListSound
          <5>6. \A p, q \in S : next_free_page_no'[p] = next_free_page_no'[q] => p = q
            BY <1>1, <3>1, <5>2 DEF ListSound
          <5>7. QED
            BY <5>3, <5>4, <5>5, <5>6, SoundFromClosed
        <4>4. CASE num_records[page] + 1 # PerPage
          <5>1. first_free_page_no' = first_free_page_no
            BY <2>5, <4>4
          <5>2. PICK S \in SUBSET PageNo : S = FreeList
            BY <1>4
          <5>3. ClosedList(S)'
            BY <1>1, <1>4, <5>1, <5>2 DEF ClosedList
          <5>4. \A p \in S : p <= num_pages' /\ num_records'[p] # PerPage
            <6>1. \A p \in S : p \in PageNo /\ p <= num_pages /\ num_records[p] # PerPage
              BY <3>1, <5>2 DEF ListSound, Full
            <6>2. \A p \in S : num_records'[p] # PerPage
              BY <1>2, <2>3, <4>4, <6>1
            <6>3. \A p \in S : p <= num_pages'
              BY <1>2, <2>2, <6>1 DEF PageNo
            <6>4. QED
              BY <6>2, <6>3
          <5>5. QED
            BY <1>1, <3>1, <5>1, <5>2, <5>3, <5>4, SoundFromClosed DEF ListSound
        <4>5. QED
          BY <4>3, <4>4
      <3>4. QED
        BY <3>2, <3>3
    <2>10. OverrunOnlyRefilled'
      BY <1>1, <2>1 DEF OverrunOnlyRefilled
    <2>11. QED
      BY <1>1, <1>5, <2>3, <2>7, <2>8, <2>9, <2>10 DEF FileInv
  <1>8. CASE slot \notin Slot
    <2>1. /\ overrun' = TRUE
          /\ UNCHANGED <<bitmap, num_records, first_free_page_no, num_pages, rows, writes>>
      BY <1>8 DEF insert_record
    <2>2. bitmap[page] = Slot
      BY <1>3, <1>8
    <2>3. num_records[page] = PerPage
      BY <1>1, <2>2, BitCount DEF FileInv, RowsExact
    <2>4. ~new
      <3>1. new => bitmap[page] = {}
        BY <1>1, <1>2, <1>6
      <3>2. 1 \in Slot
        BY DEF Slot
      <3>3. QED
        BY <2>2, <3>1, <3>2
    <2>5. refilled
      <3>1. first_free_page_no \in FreeList
        BY <1>4, <2>4 DEF ClosedList
      <3>2. QED
        BY <2>3, <2>4, <3>1 DEF FileInv, ListSound, Full
    <2>6. TypeOK'
      BY <1>1, <2>1 DEF FileInv, TypeOK
    <2>7. RowsExact' /\ PagesInFile'
      BY <1>1, <2>1 DEF FileInv, RowsExact, PagesInFile
    <2>8. QED
      BY <1>1, <1>5, <2>1, <2>5, <2>6, <2>7 DEF FileInv, OverrunOnlyRefilled
  <1>9. QED
    BY <1>7, <1>8

LEMMA DeleteStep == ASSUME FileInv, NEW rid \in Rid, delete_record(rid) PROVE FileInv'
  <1> USE Constants
  <1>1. /\ cursor = NoScan /\ ~overrun /\ ~aborting /\ RemoveRecord(rid)
        /\ writes' = Append(writes, [type |-> "DELETE", rid |-> rid])
        /\ UNCHANGED <<num_pages, cursor, aborting, overrun, seen, refilled>>
    BY DEF delete_record, Idle
  <1>2. /\ RowsExact'
        /\ bitmap' \in [PageNo -> SUBSET Slot] /\ num_records' \in [PageNo -> 0..PerPage]
        /\ rows' \subseteq Rid /\ rid.page <= num_pages
        /\ first_free_page_no' \in PageNo \cup {RM_NO_PAGE}
        /\ next_free_page_no' \in [PageNo -> PageNo \cup {RM_NO_PAGE}]
        /\ first_free_page_no' <= num_pages
        /\ \A p \in PageNo : next_free_page_no'[p] <= num_pages
        /\ \A p \in PageNo : p > num_pages =>
              bitmap'[p] = {} /\ next_free_page_no'[p] = RM_NO_PAGE
        /\ ListSound => ListSound'
    BY <1>1, RemoveStep
  <1>3. /\ writes' \in Seq(WriteType) /\ writes' # <<>>
        /\ \A i \in DOMAIN writes' : writes'[i].rid.page <= num_pages'
    <2>1. num_pages' \in Nat /\ num_pages <= num_pages'
      BY <1>1 DEF FileInv, TypeOK
    <2>2. [type |-> "DELETE", rid |-> rid] \in WriteType
      BY DEF WriteType
    <2>3. QED
      BY <1>1, <1>2, <2>1, <2>2, AppendWrite
  <1>4. TypeOK'
    BY <1>1, <1>2, <1>3 DEF FileInv, TypeOK, WriteType
  <1>5. PagesInFile'
    BY <1>1, <1>2, <1>3 DEF PagesInFile
  <1>6. ScanPrefix'
    BY <1>1, NoScanKept
  <1>7. QED
    BY <1>1, <1>2, <1>3, <1>4, <1>5, <1>6 DEF FileInv, OverrunOnlyRefilled

LEMMA RollbackInsertStep == ASSUME FileInv, RollbackInsert PROVE FileInv'
  <1> USE Constants
  <1>1. /\ aborting /\ RemoveRecord(LastWrite.rid) /\ DropLastWrite
        /\ UNCHANGED <<num_pages, cursor, overrun, seen, refilled>>
    BY DEF RollbackInsert
  <1>2. /\ LastWrite \in WriteType
        /\ writes' \in Seq(WriteType)
        /\ \A i \in DOMAIN writes' : writes'[i].rid.page <= num_pages
        /\ aborting' \in BOOLEAN /\ (aborting' => writes' # <<>>)
    BY <1>1, DropWrite
  <1>3. PICK rid \in Rid : rid = LastWrite.rid
    BY <1>2 DEF WriteType
  <1>4. /\ RowsExact'
        /\ bitmap' \in [PageNo -> SUBSET Slot] /\ num_records' \in [PageNo -> 0..PerPage]
        /\ rows' \subseteq Rid
        /\ first_free_page_no' \in PageNo \cup {RM_NO_PAGE}
        /\ next_free_page_no' \in [PageNo -> PageNo \cup {RM_NO_PAGE}]
        /\ first_free_page_no' <= num_pages
        /\ \A p \in PageNo : next_free_page_no'[p] <= num_pages
        /\ \A p \in PageNo : p > num_pages =>
              bitmap'[p] = {} /\ next_free_page_no'[p] = RM_NO_PAGE
        /\ ListSound => ListSound'
    BY <1>1, <1>3, RemoveStep
  <1>5. TypeOK'
    BY <1>1, <1>2, <1>4 DEF FileInv, TypeOK, WriteType
  <1>6. PagesInFile'
    BY <1>1, <1>2, <1>4 DEF PagesInFile
  <1>7. ScanPrefix'
    BY <1>1, NoScanKept DEF FileInv, ScanPrefix
  <1>8. QED
    BY <1>1, <1>2, <1>4, <1>5, <1>6, <1>7 DEF FileInv, OverrunOnlyRefilled

LEMMA RollbackDeleteStep == ASSUME FileInv, RollbackDelete PROVE FileInv'
  <1> USE Constants
  <1>1. /\ aborting /\ DropLastWrite
        /\ UNCHANGED <<num_pages, first_free_page_no, next_free_page_no, cursor, overrun, seen>>
    BY DEF RollbackDelete
  <1>2. /\ LastWrite \in WriteType /\ LastWrite.rid.page <= num_pages
        /\ writes' \in Seq(WriteType)
        /\ \A i \in DOMAIN writes' : writes'[i].rid.page <= num_pages
        /\ aborting' \in BOOLEAN /\ (aborting' => writes' # <<>>)
    BY <1>1, DropWrite
  <1>3. PICK rid \in Rid : rid = LastWrite.rid
    BY <1>2 DEF WriteType
  <1>4. PICK page \in PageNo, slot \in Slot :
            page = rid.page /\ slot = rid.slot /\ rid = AtPage(page, slot)
    BY DEF Rid, AtPage
  <1>5. /\ rows' = rows \cup {rid}
        /\ refilled' = (refilled \/ (num_records[page] + 1 = PerPage /\ page \in FreeList))
        /\ slot \in bitmap[page] => UNCHANGED <<bitmap, num_records>>
        /\ slot \notin bitmap[page] => PutRecord(page, slot)
    BY <1>3, <1>4 DEF RollbackDelete
  <1>6. /\ num_pages \in Nat /\ page <= num_pages /\ num_records \in [PageNo -> 0..PerPage]
    BY <1>2, <1>3, <1>4 DEF FileInv, TypeOK
  <1>7. /\ RowsExact'
        /\ bitmap' \in [PageNo -> SUBSET Slot] /\ num_records' \in [PageNo -> 0..PerPage]
        /\ rows' \subseteq Rid
        /\ \A p \in PageNo : p > num_pages' => bitmap'[p] = {}
        /\ num_records'[page] \in {num_records[page], num_records[page] + 1}
        /\ \A p \in PageNo : p # page => num_records'[p] = num_records[p]
    <2>1. CASE slot \in bitmap[page]
      <3>1. bitmap' = bitmap /\ num_records' = num_records
        BY <1>5, <2>1
      <3>2. rid \in rows
        BY <1>4, <1>6, <2>1 DEF FileInv, RowsExact
      <3>3. rows' = rows
        BY <1>5, <3>2
      <3>4. QED
        BY <1>1, <3>1, <3>3 DEF FileInv, TypeOK, RowsExact, PagesInFile
    <2>2. CASE slot \notin bitmap[page]
      <3>1. num_pages' \in Nat /\ num_pages <= num_pages' /\ page <= num_pages'
        BY <1>1, <1>6
      <3>2. QED
        BY <1>4, <1>5, <2>2, <3>1, PutRows
    <2>3. QED
      BY <2>1, <2>2
  <1>8. refilled' \in BOOLEAN
    BY <1>5, Zenon
  <1>9. TypeOK'
    <2>1. aborting' \in BOOLEAN /\ overrun' \in BOOLEAN
      BY <1>1, <1>2 DEF FileInv, TypeOK
    <2>2. QED
      BY <1>1, <1>2, <1>7, <1>8, <2>1 DEF FileInv, TypeOK, WriteType
  <1>10. PagesInFile'
    BY <1>1, <1>2, <1>7 DEF FileInv, PagesInFile
  <1>11. ScanPrefix'
    BY <1>1, NoScanKept DEF FileInv, ScanPrefix
  <1>12. ASSUME ~refilled' PROVE ListSound'
    <2>1. ~refilled /\ ~(num_records[page] + 1 = PerPage /\ page \in FreeList)
      BY <1>5, <1>12
    <2>2. ListSound
      BY <2>1 DEF FileInv
    <2>3. ClosedList(FreeList) /\ FreeList \in SUBSET PageNo
      BY FreeListClosed DEF FileInv
    <2>4. PICK S \in SUBSET PageNo : S = FreeList
      BY <2>3
    <2>5. ClosedList(S)'
      BY <1>1, <2>3, <2>4 DEF ClosedList
    <2>6. \A p \in S : p <= num_pages' /\ num_records'[p] # PerPage
      BY <1>1, <1>6, <1>7, <2>1, <2>2, <2>4 DEF ListSound, Full
    <2>7. QED
      BY <1>1, <2>2, <2>4, <2>5, <2>6, SoundFromClosed DEF ListSound
  <1>13. OverrunOnlyRefilled'
    BY <1>1, <1>5 DEF FileInv, OverrunOnlyRefilled
  <1>14. QED
    BY <1>2, <1>7, <1>9, <1>10, <1>11, <1>12, <1>13 DEF FileInv

\* A step that leaves the file as it is.
LEMMA FileUntouched ==
    ASSUME FileInv, UNCHANGED <<fileVars, rows, refilled, overrun>>,
           writes' = writes \/ writes' = <<>>, aborting' \in BOOLEAN,
           aborting' => writes' # <<>>,
           cursor' \in [page : 0..(MaxPages + 1), slot : 0..PerPage], seen' \subseteq Rid,
           ScanPrefix'
    PROVE  FileInv'
  <1>1. UNCHANGED <<num_pages, first_free_page_no, next_free_page_no, num_records, bitmap>>
    BY DEF fileVars
  <1>2. writes' \in Seq([type : {"INSERT", "DELETE"}, rid : Rid])
    <2>1. writes \in Seq([type : {"INSERT", "DELETE"}, rid : Rid])
      BY DEF FileInv, TypeOK
    <2>2. <<>> \in Seq([type : {"INSERT", "DELETE"}, rid : Rid])
      OBVIOUS
    <2>3. QED
      BY <2>1, <2>2
  <1>3. TypeOK'
    BY <1>1, <1>2 DEF FileInv, TypeOK
  <1>4. RowsExact' /\ PagesInFile'
    BY <1>1 DEF FileInv, RowsExact, PagesInFile
  <1>5. ~refilled' => ListSound'
    BY <1>1 DEF FileInv, ListSound, FreeList, ClosedList, Full
  <1>6. QED
    BY <1>3, <1>4, <1>5 DEF FileInv, OverrunOnlyRefilled

LEMMA TxnEndStep == ASSUME FileInv, Commit \/ StartAbort PROVE FileInv'
  <1>1. /\ cursor = NoScan /\ UNCHANGED <<fileVars, rows, refilled, overrun, cursor, seen>>
        /\ writes' = writes \/ writes' = <<>>
    BY DEF Commit, StartAbort, Idle
  <1>2. aborting' \in BOOLEAN /\ (aborting' => writes' # <<>>)
    <2>1. CASE Commit
      BY <2>1 DEF Commit, Idle, FileInv, TypeOK
    <2>2. CASE StartAbort
      BY <2>2 DEF StartAbort
    <2>3. QED
      BY <2>1, <2>2
  <1>3. ScanPrefix'
    BY <1>1, NoScanKept
  <1>4. QED
    BY <1>1, <1>2, <1>3, FileUntouched DEF FileInv, TypeOK

-----------------------------------------------------------------------------
(* The scan *)

LEMMA ScanStep == ASSUME FileInv, ScanBegin \/ ScanNext \/ ScanEnd PROVE FileInv'
  <1> USE Constants
  <1>1. /\ UNCHANGED <<fileVars, writes, aborting, overrun, rows, refilled>>
        /\ num_pages' = num_pages
    BY DEF ScanBegin, ScanNext, ScanEnd, fileVars
  <1>2. /\ num_pages \in 0..MaxPages /\ bitmap \in [PageNo -> SUBSET Slot]
        /\ cursor \in [page : 0..(MaxPages + 1), slot : 0..PerPage]
        /\ rows \subseteq Rid /\ seen \subseteq Rid /\ aborting \in BOOLEAN
        /\ \A rid \in rows : /\ rid.page \in PageNo /\ rid.slot \in Slot
                             /\ rid.page <= num_pages /\ rid.slot \in bitmap[rid.page]
    BY DEF FileInv, TypeOK, RowsExact, Rid
  <1>3. CASE ScanBegin
    <2>1. cursor' = AtPage(1, 0) /\ seen' = seen /\ ~aborting /\ ~overrun /\ cursor = NoScan
      BY <1>3 DEF ScanBegin, Idle
    <2>2. seen = {}
      BY <2>1 DEF FileInv, ScanPrefix
    <2>3. /\ cursor' \in [page : 0..(MaxPages + 1), slot : 0..PerPage]
          /\ cursor'.page = 1 /\ cursor'.slot = 0
      BY <2>1 DEF AtPage
    <2>4. ScanPrefix'
      <3>1. \A rid \in rows : ~(rid.page < 1) /\ ~(rid.slot <= 0)
        BY <1>2 DEF PageNo, Slot
      <3>2. UpTo(cursor.page, cursor.slot)' = {}
        BY <1>1, <2>3, <3>1 DEF UpTo
      <3>3. cursor' # NoScan
        BY <2>3 DEF NoScan, RM_NO_PAGE
      <3>4. QED
        BY <1>1, <2>1, <2>2, <2>3, <3>2, <3>3 DEF ScanPrefix
    <2>5. QED
      BY <1>1, <1>2, <2>1, <2>3, <2>4, FileUntouched DEF FileInv
  <1>4. CASE ScanNext
    <2>1. PICK page \in PageNo, slot \in 0..PerPage :
            /\ page = cursor.page /\ slot = cursor.slot /\ page <= num_pages
            /\ ~aborting /\ ~overrun /\ cursor # NoScan /\ seen = UpTo(page, slot)
      BY <1>2, <1>4 DEF ScanNext, AtEnd, FileInv, ScanPrefix, PageNo
    <2>2. PICK next : next = next_bit(TRUE, page, slot)
      OBVIOUS
    <2>3. IF next \in Slot THEN cursor' = AtPage(page, next) /\ seen' = seen \cup {AtPage(page, next)}
          ELSE cursor' = AtPage(page + 1, 0) /\ seen' = seen
      BY <1>4, <2>1, <2>2 DEF ScanNext, Advance
    <2>4. \/ /\ next = PerPage + 1
             /\ \A s \in Slot : s > slot => s \notin bitmap[page]
          \/ /\ next \in Slot /\ next > slot /\ next \in bitmap[page]
             /\ \A s \in Slot : s > slot /\ s < next => s \notin bitmap[page]
      BY <2>2, NextBit
    <2>5. CASE next \in Slot
      <3>1. /\ cursor' \in [page : 0..(MaxPages + 1), slot : 0..PerPage]
            /\ cursor'.page = page /\ cursor'.slot = next
            /\ AtPage(page, next) \in Rid
            /\ AtPage(page, next).page = page /\ AtPage(page, next).slot = next
        BY <1>2, <2>3, <2>5 DEF AtPage, PageNo, Slot, Rid
      <3>2. next > slot /\ next \in bitmap[page]
            /\ \A s \in Slot : s > slot /\ s < next => s \notin bitmap[page]
        BY <2>4, <2>5 DEF Slot
      <3>3. AtPage(page, next) \in rows
        BY <2>1, <3>1, <3>2 DEF FileInv, RowsExact
      <3>4. \A rid \in rows : rid.page = page /\ rid.slot <= next /\ ~(rid.slot <= slot) =>
                rid = AtPage(page, next)
        <4>1. ASSUME NEW rid \in rows, rid.page = page, rid.slot <= next, ~(rid.slot <= slot)
              PROVE  rid = AtPage(page, next)
          <5>1. rid.slot \in Slot /\ rid.slot \in bitmap[page]
            BY <1>2, <4>1
          <5>2. rid.slot = next
            BY <2>5, <3>2, <4>1, <5>1 DEF Slot
          <5>3. QED
            BY <1>2, <4>1, <5>2 DEF Rid, AtPage
        <4>2. QED
          BY <4>1
      <3>5. UpTo(page, next) = UpTo(page, slot) \cup {AtPage(page, next)}
        <4>1. \A rid \in rows : rid.slot <= slot => rid.slot <= next
          BY <1>2, <2>5, <3>2 DEF Slot
        <4>2. next <= next
          BY <2>5 DEF Slot
        <4>3. QED
          BY <3>1, <3>3, <3>4, <4>1, <4>2 DEF UpTo
      <3>6. UpTo(cursor.page, cursor.slot)' = seen'
        BY <1>1, <2>1, <2>3, <2>5, <3>1, <3>5 DEF UpTo
      <3>7. cursor' # NoScan /\ cursor'.page >= 1
        BY <3>1 DEF NoScan, RM_NO_PAGE, PageNo
      <3>8. ScanPrefix'
        BY <1>1, <2>1, <3>6, <3>7 DEF ScanPrefix
      <3>9. seen' \subseteq Rid
        BY <1>2, <2>3, <2>5, <3>1
      <3>10. QED
        BY <1>1, <1>2, <2>1, <3>1, <3>8, <3>9, FileUntouched DEF FileInv
    <2>6. CASE next \notin Slot
      <3>1. /\ cursor' \in [page : 0..(MaxPages + 1), slot : 0..PerPage]
            /\ cursor'.page = page + 1 /\ cursor'.slot = 0 /\ seen' = seen
        BY <1>2, <2>1, <2>3, <2>6 DEF AtPage, PageNo
      <3>2. \A rid \in rows : (rid.page < page + 1 \/ (rid.page = page + 1 /\ rid.slot <= 0)) <=>
                (rid.page < page \/ (rid.page = page /\ rid.slot <= slot))
        <4>1. ASSUME NEW rid \in rows
              PROVE  (rid.page < page + 1 \/ (rid.page = page + 1 /\ rid.slot <= 0)) <=>
                     (rid.page < page \/ (rid.page = page /\ rid.slot <= slot))
          <5>1. rid.page \in Nat /\ rid.slot \in Nat /\ rid.slot > 0 /\ page \in Nat
            BY <1>2 DEF PageNo, Slot
          <5>2. rid.page = page => rid.slot <= slot
            BY <1>2, <2>4, <2>6, <5>1
          <5>3. QED
            BY <5>1, <5>2
        <4>2. QED
          BY <4>1
      <3>3. UpTo(cursor.page, cursor.slot)' = UpTo(page, slot)
        BY <1>1, <3>1, <3>2 DEF UpTo
      <3>4. cursor' # NoScan /\ cursor'.page >= 1
        BY <3>1 DEF NoScan, RM_NO_PAGE, PageNo
      <3>5. ScanPrefix'
        BY <1>1, <2>1, <3>1, <3>3, <3>4 DEF ScanPrefix
      <3>6. QED
        BY <1>1, <1>2, <2>1, <3>1, <3>5, FileUntouched DEF FileInv
    <2>7. QED
      BY <2>5, <2>6
  <1>5. CASE ScanEnd
    <2>1. cursor' = NoScan /\ seen' = {}
      BY <1>5 DEF ScanEnd
    <2>2. ScanPrefix' /\ cursor' \in [page : 0..(MaxPages + 1), slot : 0..PerPage]
      BY <2>1 DEF ScanPrefix, NoScan, RM_NO_PAGE
    <2>3. QED
      BY <1>1, <1>2, <2>1, <2>2, FileUntouched DEF FileInv
  <1>6. QED
    BY <1>3, <1>4, <1>5

-----------------------------------------------------------------------------
(* The free list is rebuilt at the end of recovery *)

\* Below(p) is the last page with room before p.
LEMMA BelowIs ==
    ASSUME NEW p \in Nat, p <= MaxPages + 1
    PROVE  \/ Below(p) = RM_NO_PAGE /\ \A q \in PageNo : q < p => ~HasRoom(q)
           \/ /\ Below(p) \in PageNo /\ Below(p) < p /\ HasRoom(Below(p))
              /\ \A q \in PageNo : q < p /\ HasRoom(q) => q <= Below(p)
  <1> USE Constants
  <1> DEFINE lower == {q \in 1..(p - 1) : HasRoom(q)}
             last == CHOOSE q \in lower : \A r \in lower : r <= q
  <1>1. Below(p) = IF lower = {} THEN RM_NO_PAGE ELSE last
    BY Zenon DEF Below
  <1>2. \A q \in PageNo : q < p /\ HasRoom(q) <=> q \in lower
    BY DEF PageNo
  <1>3. CASE lower = {}
    BY <1>1, <1>2, <1>3
  <1>4. CASE lower # {}
    <2>1. lower \in SUBSET (0..(MaxPages + 1)) /\ MaxPages + 1 \in Nat
      OBVIOUS
    <2>2. \E q \in lower : \A r \in lower : r <= q
      BY <1>4, <2>1, GreatestNat
    <2>3. last \in lower /\ \A r \in lower : r <= last
      BY <2>2
    <2>4. Below(p) = last
      BY <1>1, <1>4
    <2> HIDE DEF last
    <2>5. last \in PageNo /\ last < p /\ HasRoom(last)
      BY <2>3 DEF PageNo
    <2>6. QED
      BY <1>2, <2>3, <2>4, <2>5
  <1>5. QED
    BY <1>3, <1>4

LEMMA RebuildStep == ASSUME FileInv, Rebuild PROVE FileInv'
  <1> USE Constants
  <1>1. /\ cursor = NoScan /\ ~overrun /\ ~aborting
        /\ num_records' = [p \in PageNo |-> Cardinality(bitmap[p])]
        /\ next_free_page_no' = [p \in PageNo |-> IF HasRoom(p) THEN Below(p) ELSE RM_NO_PAGE]
        /\ first_free_page_no' = Below(num_pages + 1)
        /\ refilled' = FALSE
        /\ UNCHANGED <<num_pages, bitmap, cursor, writes, aborting, overrun, rows, seen>>
    BY DEF Rebuild, Idle
  <1>2. /\ num_pages \in 0..MaxPages /\ num_records \in [PageNo -> 0..PerPage]
        /\ \A p \in PageNo : num_records[p] = Cardinality(bitmap[p])
    BY DEF FileInv, TypeOK, RowsExact
  <1>3. num_records' = num_records
    BY <1>1, <1>2
  <1>4. \A p \in PageNo : HasRoom(p) => p <= num_pages /\ num_records'[p] # PerPage
    BY <1>1, <1>2 DEF HasRoom
  <1>5. \A p \in PageNo :
          \/ Below(p) = RM_NO_PAGE /\ \A q \in PageNo : q < p => ~HasRoom(q)
          \/ /\ Below(p) \in PageNo /\ Below(p) < p /\ HasRoom(Below(p))
             /\ \A q \in PageNo : q < p /\ HasRoom(q) => q <= Below(p)
    BY BelowIs DEF PageNo
  <1>6. PICK first : first = Below(num_pages + 1)
    OBVIOUS
  <1>7. \/ first = RM_NO_PAGE /\ \A q \in PageNo : q < num_pages + 1 => ~HasRoom(q)
        \/ /\ first \in PageNo /\ first < num_pages + 1 /\ HasRoom(first)
           /\ \A q \in PageNo : q < num_pages + 1 /\ HasRoom(q) => q <= first
    BY <1>2, <1>6, BelowIs
  <1>8. /\ \A p \in PageNo : HasRoom(p) => next_free_page_no'[p] = Below(p)
        /\ \A p \in PageNo : ~HasRoom(p) => next_free_page_no'[p] = RM_NO_PAGE
    BY <1>1
  <1>9. \A p \in PageNo : /\ next_free_page_no'[p] \in PageNo \cup {RM_NO_PAGE}
                          /\ next_free_page_no'[p] <= num_pages
                          /\ p > num_pages => next_free_page_no'[p] = RM_NO_PAGE
    BY <1>2, <1>4, <1>5, <1>8 DEF PageNo, RM_NO_PAGE
  <1>10. first_free_page_no' = first /\ first \in PageNo \cup {RM_NO_PAGE} /\ first <= num_pages
    BY <1>1, <1>2, <1>6, <1>7 DEF PageNo, RM_NO_PAGE
  <1>11. next_free_page_no' \in [PageNo -> PageNo \cup {RM_NO_PAGE}]
    BY <1>1, <1>9
  <1>12. TypeOK'
    BY <1>1, <1>3, <1>10, <1>11 DEF FileInv, TypeOK
  <1>13. RowsExact'
    BY <1>1, <1>3 DEF FileInv, RowsExact
  <1>14. PagesInFile'
    BY <1>1, <1>9, <1>10 DEF FileInv, PagesInFile
  <1>15. ScanPrefix'
    BY <1>1, NoScanKept
  <1>16. ListSound'
    <2>1. PICK S \in SUBSET PageNo : S = {p \in PageNo : HasRoom(p)}
      OBVIOUS
    <2>2. ClosedList(S)'
      <3>1. first \in S \cup {RM_NO_PAGE}
        BY <1>7, <2>1
      <3>2. \A p \in S : next_free_page_no'[p] \in S \cup {RM_NO_PAGE}
        BY <1>5, <1>8, <2>1
      <3>3. QED
        BY <1>10, <3>1, <3>2 DEF ClosedList
    <2>3. \A p \in S : p <= num_pages' /\ num_records'[p] # PerPage
      BY <1>1, <1>4, <2>1
    <2>4. ASSUME NEW p \in S PROVE next_free_page_no'[p] # first_free_page_no'
      <3>1. next_free_page_no'[p] = Below(p) /\ p \in Nat /\ p > 0 /\ p < num_pages + 1
        BY <1>2, <1>4, <1>8, <2>1 DEF PageNo
      <3>2. first \in Nat /\ p <= first
        BY <1>7, <2>1, <3>1 DEF PageNo
      <3>3. Below(p) \in Nat /\ Below(p) < p
        BY <1>5, <3>1 DEF PageNo, RM_NO_PAGE
      <3>4. QED
        BY <1>10, <3>1, <3>2, <3>3
    <2>5. ASSUME NEW p \in S, NEW q \in S, p < q
          PROVE  next_free_page_no'[p] # next_free_page_no'[q]
      <3>1. /\ next_free_page_no'[p] = Below(p) /\ next_free_page_no'[q] = Below(q)
            /\ p \in Nat /\ p > 0 /\ HasRoom(p)
        BY <1>8, <2>1 DEF PageNo
      <3>2. Below(p) \in Nat /\ Below(p) < p
        BY <1>5, <3>1 DEF PageNo, RM_NO_PAGE
      <3>3. Below(q) \in Nat /\ p <= Below(q)
        BY <1>5, <2>5, <3>1 DEF PageNo
      <3>4. QED
        BY <3>1, <3>2, <3>3
    <2>6. \A p, q \in S : next_free_page_no'[p] = next_free_page_no'[q] => p = q
      <3>1. \A p, q \in S : p < q \/ q < p \/ p = q
        BY DEF PageNo
      <3>2. QED
        BY <2>5, <3>1
    <2>7. QED
      BY <2>2, <2>3, <2>4, <2>6, SoundFromClosed
  <1>17. QED
    BY <1>1, <1>12, <1>13, <1>14, <1>15, <1>16 DEF FileInv, OverrunOnlyRefilled

-----------------------------------------------------------------------------
(* The specification *)

LEMMA FileInitInv == Init => FileInv
  <1> SUFFICES ASSUME Init PROVE FileInv
    OBVIOUS
  <1> USE Constants
  <1>1. TypeOK
    <2>1. <<>> \in Seq([type : {"INSERT", "DELETE"}, rid : Rid])
      OBVIOUS
    <2>2. NoScan \in [page : 0..(MaxPages + 1), slot : 0..PerPage]
      BY DEF NoScan, RM_NO_PAGE
    <2>3. /\ num_pages \in 0..MaxPages
          /\ num_records \in [PageNo -> 0..PerPage]
      BY DEF Init
    <2>4. /\ first_free_page_no \in PageNo \cup {RM_NO_PAGE}
          /\ next_free_page_no \in [PageNo -> PageNo \cup {RM_NO_PAGE}]
          /\ bitmap \in [PageNo -> SUBSET Slot]
          /\ {aborting, overrun, refilled} \subseteq BOOLEAN
          /\ rows \subseteq Rid /\ seen \subseteq Rid
      BY DEF Init
    <2>5. writes = <<>> /\ cursor = NoScan
      BY DEF Init
    <2>6. QED
      BY <2>1, <2>2, <2>3, <2>4, <2>5 DEF TypeOK
  <1>2. RowsExact
    BY FS_EmptySet DEF Init, RowsExact, Rid
  <1>3. PagesInFile /\ ScanPrefix
    BY DEF Init, PagesInFile, ScanPrefix, RM_NO_PAGE
  <1>4. ListSound
    <2>1. FreeList = {}
      <3>1. ClosedList({}) /\ {} \in SUBSET PageNo
        BY DEF Init, ClosedList
      <3>2. QED
        BY <3>1 DEF FreeList
    <2>2. QED
      BY <2>1 DEF ListSound
  <1>5. QED
    BY <1>1, <1>2, <1>3, <1>4 DEF FileInv, OverrunOnlyRefilled, Init

LEMMA FileNextInv == FileInv /\ [Next]_vars => FileInv'
  <1> SUFFICES ASSUME FileInv, [Next]_vars PROVE FileInv'
    OBVIOUS
  <1>1. CASE Next
    BY <1>1, InsertStep, DeleteStep, TxnEndStep, RollbackInsertStep, RollbackDeleteStep,
       ScanStep, RebuildStep DEF Next
  <1>2. CASE UNCHANGED vars
    <2>1. UNCHANGED <<fileVars, rows, refilled, overrun, writes, aborting, cursor, seen>>
      BY <1>2 DEF vars
    <2>2. ScanPrefix'
      BY <2>1 DEF FileInv, ScanPrefix, UpTo
    <2>3. QED
      BY <2>1, <2>2, FileUntouched DEF FileInv, TypeOK
  <1>3. QED
    BY <1>1, <1>2

\* The inductive invariant holds in every state of the file.
THEOREM FileInvariant == Spec => []FileInv
  BY FileInitInv, FileNextInv, PTL DEF Spec

\* Whatever was inserted, deleted and rolled back, a scan that has ended has
\* returned exactly the records of the table, and num_records counts the bits
\* of every page.
THEOREM ScanExactAlways == Spec => []ScanExact
  <1>1. FileInv => ScanExact
    <2> SUFFICES ASSUME FileInv PROVE ScanExact
      OBVIOUS
    <2>1. ASSUME cursor # NoScan, AtEnd PROVE seen = rows
      <3>1. /\ seen = UpTo(cursor.page, cursor.slot) /\ num_pages \in Nat /\ cursor.page \in Nat
            /\ cursor.page > num_pages
        BY <2>1, Constants DEF FileInv, ScanPrefix, TypeOK, AtEnd
      <3>2. \A rid \in rows : rid.page \in Nat /\ rid.page <= num_pages
        BY Constants DEF FileInv, RowsExact, Rid, PageNo
      <3>3. QED
        BY <3>1, <3>2 DEF UpTo
    <2>2. QED
      BY <2>1 DEF ScanExact, FileInv, RowsExact
  <1>2. QED
    BY <1>1, FileInvariant, PTL

\* Until a rollback has filled a page that is on it, the free list that
\* insert_record, release_page_handle and recovery maintain leads through pages
\* of the file that have room, through each one once, and to an end.
THEOREM FreeListSoundAlways == Spec => []FreeListSound
  <1>1. FileInv => FreeListSound
    BY DEF FileInv, ListSound, FreeListSound
  <1>2. QED
    BY <1>1, FileInvariant, PTL

\* insert_record writes past the slots of its page only after such a rollback.
THEOREM OverrunOnlyRefilledAlways == Spec => []OverrunOnlyRefilled
  <1>1. FileInv => OverrunOnlyRefilled
    BY DEF FileInv
  <1>2. QED
    BY <1>1, FileInvariant, PTL

=============================================================================
