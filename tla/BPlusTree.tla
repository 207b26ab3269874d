---------------------------- MODULE BPlusTree ----------------------------
(***************************************************************************)
(* The B+ tree of one unique index: IxIndexHandle and IxNodeHandle         *)
(* (ix_index_handle.cpp), and the range scan of IxScan and                 *)
(* IndexScanExecutor over it.                                              *)
(*                                                                         *)
(* insert_entry and delete_entry hold root_latch_ from end to end.  Each   *)
(* level they visit is one step here: op says which call is under way.     *)
(* A page holds pairs of a key and a value, the record's position in a leaf *)
(* and the child's page in an inner node; positions count from 1.  Keys    *)
(* are compared as numbers, and RidOf gives the position of the record     *)
(* that holds a key.  The first Load rows are those the table has when     *)
(* create_index scans it.                                                  *)
(***************************************************************************)
EXTENDS Naturals, Sequences, FiniteSets, SequencesExt

CONSTANTS
    Order,      \* btree_order_
    Keys,       \* the keys rows may have
    Loads,      \* sequences of keys: the rows create_index may find
    Bounds,     \* the keys range conditions compare with
    MaxOps      \* bound on the insertions and deletions after create_index

\* ix_manager.h asserts btree_order > 2.
ASSUME TreeAssumption ==
    /\ Order \in Nat /\ Order > 2 /\ MaxOps \in Nat
    /\ Keys \subseteq Nat /\ Bounds \subseteq Nat
    /\ \A rows \in Loads : rows \in Seq(Keys) /\ IsInjective(rows)

VARIABLES
    node,       \* the pages of the tree and the leaf header page
    root_page, first_leaf, last_leaf, num_pages,    \* IxFileHdr
    next_page,  \* fd2pageno_: the page allocate_page returns next
    op,         \* the call under way
    load,       \* rows create_index has not reached yet
    ops         \* operations started since

treeVars == <<node, root_page, first_leaf, last_leaf, num_pages, next_page>>
vars == <<treeVars, op, load, ops>>

IX_NO_PAGE == 0
IX_LEAF_HEADER_PAGE == 1
IX_INIT_ROOT_PAGE == 2
IX_INIT_NUM_PAGES == 3

Pair(key, value) == [key |-> key, value |-> value]
RidOf(key) == <<"rid", key>>

MaxSize == Order + 1
MinSize == MaxSize \div 2

Leaf(prev, next) ==
    [leaf |-> TRUE, pairs |-> <<>>, parent |-> IX_NO_PAGE, prev |-> prev, next |-> next]

Idle == [call |-> "idle", at |-> IX_NO_PAGE, new |-> IX_NO_PAGE, leaf |-> IX_NO_PAGE, dead |-> {}]
Latched == op.call # "idle"

-----------------------------------------------------------------------------
\* IxNodeHandle::lower_bound: the first position with key >= target.
lower_bound(pairs, target) ==
    LET search[left \in 1..Len(pairs) + 1, right \in 1..Len(pairs) + 1] ==
            LET mid == (left + right) \div 2
            IN  IF left >= right THEN left
                ELSE IF pairs[mid].key < target THEN search[mid + 1, right]
                ELSE search[left, mid]
    IN  search[1, Len(pairs) + 1]

\* Mutant: a separator equal to the target is not passed.
UpperBoundStrict(pairs, target) ==
    LET search[left \in 1..Len(pairs) + 1, right \in 1..Len(pairs) + 1] ==
            LET mid == (left + right) \div 2
            IN  IF left >= right THEN left
                ELSE IF pairs[mid].key < target THEN search[mid + 1, right]
                ELSE search[left, mid]
    IN  search[2, Len(pairs) + 1]

\* IxNodeHandle::upper_bound: the first position after the first with
\* key > target.
upper_bound(pairs, target) ==
    LET search[left \in 1..Len(pairs) + 1, right \in 1..Len(pairs) + 1] ==
            LET mid == (left + right) \div 2
            IN  IF left >= right THEN left
                ELSE IF pairs[mid].key <= target THEN search[mid + 1, right]
                ELSE search[left, mid]
    IN  search[2, Len(pairs) + 1]

internal_lookup(page, key) ==
    node[page].pairs[upper_bound(node[page].pairs, key) - 1].value

find_leaf_page(key) ==
    LET descend[page \in DOMAIN node] ==
            IF node[page].leaf THEN page ELSE descend[internal_lookup(page, key)]
    IN  descend[root_page]

\* Does the pair at pos hold this key?
HoldsKey(pairs, pos, key) == pos <= Len(pairs) /\ pairs[pos].key = key

\* get_value: the record positions found for a key, at most one.
get_value(key) ==
    LET pairs == node[find_leaf_page(key)].pairs
        pos == lower_bound(pairs, key)
    IN  IF HoldsKey(pairs, pos, key) THEN {pairs[pos].value} ELSE {}

\* find_child: where a page is among the children of its parent.
find_child(nodes, page) ==
    SelectInSeq(nodes[nodes[page].parent].pairs, LAMBDA pair : pair.value = page)

\* maintain_child over some children: they get this parent.
Adopt(nodes, children, parent) ==
    [p \in DOMAIN nodes |-> IF p \in children THEN [nodes[p] EXCEPT !.parent = parent] ELSE nodes[p]]

ChildrenIn(pairs) == {pairs[i].value : i \in DOMAIN pairs}

-----------------------------------------------------------------------------
\* Mutant: the pair at the split position reaches neither side.
MovedRightShort(nodes, page, new) ==
    LET pairs == nodes[page].pairs
        pos == Len(pairs) \div 2
    IN  [p \in DOMAIN nodes \cup {new} |->
            CASE p = page -> [nodes[p] EXCEPT !.pairs = SubSeq(pairs, 1, pos)]
              [] p = new  -> [nodes[page] EXCEPT !.pairs = SubSeq(pairs, pos + 2, Len(pairs))]
              [] OTHER    -> nodes[p]]

\* split: the right half of a page moves to the page new.
MovedRight(nodes, page, new) ==
    LET pairs == nodes[page].pairs
        pos == Len(pairs) \div 2
    IN  [p \in DOMAIN nodes \cup {new} |->
            CASE p = page -> [nodes[p] EXCEPT !.pairs = SubSeq(pairs, 1, pos)]
              [] p = new  -> [nodes[page] EXCEPT !.pairs = SubSeq(pairs, pos + 1, Len(pairs))]
              [] OTHER    -> nodes[p]]

split(nodes, page, new) ==
    LET moved == MovedRight(nodes, page, new)
    IN  IF nodes[page].leaf
        THEN [moved EXCEPT ![new].prev = page,
                           ![page].next = new,
                           ![nodes[page].next].prev = new]
        ELSE Adopt(moved, ChildrenIn(moved[new].pairs), new)

\* insert_entry up to the split of the leaf.  The callers have looked the key
\* up before (the uniqueness check of executor_insert.h and create_index).
InsertLeaf(key) ==
    LET leaf == find_leaf_page(key)
        pos == lower_bound(node[leaf].pairs, key)
        filled == [node EXCEPT ![leaf].pairs = InsertAt(@, pos, Pair(key, RidOf(key)))]
        full == Len(filled[leaf].pairs) >= MaxSize
    IN  /\ ~Latched
        /\ get_value(key) = {}
        /\ IF full
           THEN /\ node' = split(filled, leaf, next_page)
                /\ next_page' = next_page + 1
                /\ num_pages' = num_pages + 1
                /\ last_leaf' = IF last_leaf = leaf THEN next_page ELSE last_leaf
                /\ op' = [Idle EXCEPT !.call = "insert_into_parent", !.at = leaf, !.new = next_page]
           ELSE /\ node' = filled
                /\ UNCHANGED <<next_page, num_pages, last_leaf, op>>
        /\ UNCHANGED <<root_page, first_leaf>>

\* insert_into_parent, when the page that was split is the root.
NewRoot ==
    LET children == <<Pair(node[op.at].pairs[1].key, op.at), Pair(node[op.new].pairs[1].key, op.new)>>
        root == [leaf |-> FALSE, pairs |-> children, parent |-> IX_NO_PAGE,
                 prev |-> IX_NO_PAGE, next |-> IX_NO_PAGE]
    IN  /\ op.call = "insert_into_parent" /\ node[op.at].parent = IX_NO_PAGE
        /\ node' = Adopt([p \in DOMAIN node \cup {next_page} |->
                             IF p = next_page THEN root ELSE node[p]], {op.at, op.new}, next_page)
        /\ root_page' = next_page
        /\ next_page' = next_page + 1
        /\ num_pages' = num_pages + 1
        /\ op' = Idle
        /\ UNCHANGED <<first_leaf, last_leaf, load, ops>>

\* insert_into_parent otherwise: the parent may have to be split in turn.
InsertIntoParent ==
    LET parent == node[op.at].parent
        entry == Pair(node[op.new].pairs[1].key, op.new)
        filled == [node EXCEPT ![parent].pairs = InsertAt(@, find_child(node, op.at) + 1, entry),
                               ![op.new].parent = parent]
        full == Len(filled[parent].pairs) >= MaxSize
    IN  /\ op.call = "insert_into_parent" /\ parent # IX_NO_PAGE
        /\ IF full
           THEN /\ node' = split(filled, parent, next_page)
                /\ next_page' = next_page + 1
                /\ num_pages' = num_pages + 1
                /\ op' = [op EXCEPT !.at = parent, !.new = next_page]
           ELSE /\ node' = filled
                /\ op' = Idle
                /\ UNCHANGED <<next_page, num_pages>>
        /\ UNCHANGED <<root_page, first_leaf, last_leaf, load, ops>>

-----------------------------------------------------------------------------
\* delete_entry up to the removal from the leaf; a leaf left empty has no
\* first key to hand up.
DeleteLeaf(key) ==
    LET leaf == find_leaf_page(key)
        pos == lower_bound(node[leaf].pairs, key)
        left == RemoveAt(node[leaf].pairs, pos)
    IN  /\ ~Latched
        /\ HoldsKey(node[leaf].pairs, pos, key)
        /\ node' = [node EXCEPT ![leaf].pairs = left]
        /\ op' = [Idle EXCEPT !.call = IF left # <<>> THEN "maintain_parent" ELSE "coalesce_or_redistribute",
                              !.at = leaf, !.leaf = leaf]
        /\ UNCHANGED <<root_page, first_leaf, last_leaf, num_pages, next_page>>

\* One turn of maintain_parent: the parent's key for this page becomes the
\* page's first key; the loop ends at the root or where the two agree.
MaintainParent ==
    LET page == op.at
        parent == node[page].parent
        first == node[page].pairs[1].key
        rank == find_child(node, page)
        done == parent = IX_NO_PAGE \/ node[parent].pairs[rank].key = first
    IN  /\ op.call = "maintain_parent"
        /\ IF done
           THEN /\ op' = [op EXCEPT !.call = "coalesce_or_redistribute", !.at = op.leaf]
                /\ UNCHANGED node
           ELSE /\ node' = [node EXCEPT ![parent].pairs[rank].key = first]
                /\ op' = [op EXCEPT !.at = parent]
        /\ UNCHANGED <<root_page, first_leaf, last_leaf, num_pages, next_page, load, ops>>

\* The calls return: the pages that were merged away are deleted.
Return(nodes, dead) ==
    /\ node' = [p \in DOMAIN nodes \ dead |-> nodes[p]]
    /\ op' = Idle

\* coalesce_or_redistribute, when there is nothing to do for the page.
Balanced ==
    LET page == node[op.at]
    IN  /\ op.call = "coalesce_or_redistribute"
        /\ IF page.parent = IX_NO_PAGE THEN page.leaf \/ Len(page.pairs) # 1
           ELSE Len(page.pairs) >= MinSize
        /\ Return(node, op.dead)
        /\ UNCHANGED <<root_page, first_leaf, last_leaf, num_pages, next_page, load, ops>>

\* adjust_root, when the root has one child left: the child becomes the root.
AdjustRoot ==
    LET root == node[op.at]
        child == root.pairs[1].value
    IN  /\ op.call = "coalesce_or_redistribute"
        /\ root.parent = IX_NO_PAGE /\ ~root.leaf /\ Len(root.pairs) = 1
        /\ Return(Adopt(node, {child}, IX_NO_PAGE), op.dead \cup {op.at})
        /\ root_page' = child
        /\ num_pages' = num_pages - 1
        /\ UNCHANGED <<first_leaf, last_leaf, next_page, load, ops>>

\* The sibling coalesce_or_redistribute picks: the previous one if there is one.
Neighbor(page) ==
    LET index == find_child(node, page)
    IN  node[node[page].parent].pairs[IF index = 1 THEN 2 ELSE index - 1].value

Underflow(page) ==
    /\ op.call = "coalesce_or_redistribute"
    /\ node[page].parent # IX_NO_PAGE
    /\ Len(node[page].pairs) < MinSize

CanBorrow(page) ==
    Len(node[page].pairs) + Len(node[Neighbor(page)].pairs) >= 2 * MinSize

\* Mutant: a child that changes hands keeps its old parent.
BorrowedUnadopted(page) ==
    LET index == find_child(node, page)
        sibling == Neighbor(page)
        given == IF index = 1 THEN Head(node[sibling].pairs) ELSE Last(node[sibling].pairs)
        moved == IF index = 1
                 THEN [node EXCEPT ![page].pairs = Append(@, given), ![sibling].pairs = Tail(@)]
                 ELSE [node EXCEPT ![page].pairs = Cons(given, @), ![sibling].pairs = Front(@)]
        right == IF index = 1 THEN sibling ELSE page
    IN  [moved EXCEPT ![node[page].parent].pairs[find_child(node, right)].key = moved[right].pairs[1].key]

\* redistribute: one pair moves over from the sibling, and the parent learns
\* the first key of the right one of the two.
Borrowed(page) ==
    LET index == find_child(node, page)
        sibling == Neighbor(page)
        given == IF index = 1 THEN Head(node[sibling].pairs) ELSE Last(node[sibling].pairs)
        moved == IF index = 1
                 THEN [node EXCEPT ![page].pairs = Append(@, given), ![sibling].pairs = Tail(@)]
                 ELSE [node EXCEPT ![page].pairs = Cons(given, @), ![sibling].pairs = Front(@)]
        right == IF index = 1 THEN sibling ELSE page
        linked == IF node[page].leaf THEN moved ELSE Adopt(moved, {given.value}, page)
    IN  [linked EXCEPT ![node[page].parent].pairs[find_child(node, right)].key = moved[right].pairs[1].key]

Redistribute ==
    /\ Underflow(op.at) /\ CanBorrow(op.at)
    /\ Return(Borrowed(op.at), op.dead)
    /\ UNCHANGED <<root_page, first_leaf, last_leaf, num_pages, next_page, load, ops>>

\* erase_leaf: the leaf leaves the chain of leaves.
erase_leaf(nodes, leaf) ==
    [nodes EXCEPT ![nodes[leaf].prev].next = nodes[leaf].next,
                  ![nodes[leaf].next].prev = nodes[leaf].prev]

\* coalesce: the page's pairs join its sibling's and the parent forgets the
\* page.
Merged(page) ==
    LET index == find_child(node, page)
        sibling == Neighbor(page)
        pairs == IF index = 1 THEN node[page].pairs \o node[sibling].pairs
                 ELSE node[sibling].pairs \o node[page].pairs
        joined == [node EXCEPT ![sibling].pairs = pairs]
        linked == IF node[page].leaf THEN erase_leaf(joined, page)
                  ELSE Adopt(joined, ChildrenIn(node[page].pairs), sibling)
        forgot == [linked EXCEPT ![node[page].parent].pairs = RemoveAt(@, index)]
    IN  IF index = 1 THEN [forgot EXCEPT ![node[page].parent].pairs[1].key = pairs[1].key] ELSE forgot

Coalesce ==
    LET page == op.at
        sibling == Neighbor(page)
        before == find_child(node, page) = 1
    IN  /\ Underflow(page) /\ ~CanBorrow(page)
        /\ node' = Merged(page)
        /\ first_leaf' = IF node[page].leaf /\ before /\ first_leaf = page THEN sibling ELSE first_leaf
        /\ last_leaf' = IF node[page].leaf /\ ~before /\ last_leaf = page THEN sibling ELSE last_leaf
        /\ num_pages' = num_pages - 1
        /\ op' = [op EXCEPT !.at = node[page].parent, !.dead = @ \cup {page}]
        /\ UNCHANGED <<root_page, next_page, load, ops>>

-----------------------------------------------------------------------------
\* create_index: the next row of the table goes into the index.
LoadRow ==
    /\ load # <<>>
    /\ InsertLeaf(Head(load))
    /\ load' = Tail(load)
    /\ UNCHANGED ops

insert_entry(key) ==
    /\ load = <<>> /\ ops < MaxOps
    /\ InsertLeaf(key)
    /\ ops' = ops + 1
    /\ UNCHANGED load

delete_entry(key) ==
    /\ load = <<>> /\ ops < MaxOps
    /\ DeleteLeaf(key)
    /\ ops' = ops + 1
    /\ UNCHANGED load

\* IxManager::create_index: an empty root leaf and the header of the chain.
Init ==
    /\ node = IX_LEAF_HEADER_PAGE :> Leaf(IX_INIT_ROOT_PAGE, IX_INIT_ROOT_PAGE)
               @@ IX_INIT_ROOT_PAGE :> Leaf(IX_LEAF_HEADER_PAGE, IX_LEAF_HEADER_PAGE)
    /\ root_page = IX_INIT_ROOT_PAGE
    /\ first_leaf = IX_INIT_ROOT_PAGE
    /\ last_leaf = IX_INIT_ROOT_PAGE
    /\ num_pages = IX_INIT_NUM_PAGES
    /\ next_page = IX_INIT_NUM_PAGES
    /\ op = Idle
    /\ load \in Loads
    /\ ops = 0

Next ==
    \/ LoadRow
    \/ \E key \in Keys : insert_entry(key) \/ delete_entry(key)
    \/ NewRoot \/ InsertIntoParent
    \/ MaintainParent \/ Balanced \/ AdjustRoot \/ Redistribute \/ Coalesce

Spec == Init /\ [][Next]_vars

-----------------------------------------------------------------------------
Iid(page, slot) == [page |-> page, slot |-> slot]

\* The position of a slot of a leaf, or the start of the next leaf.
AtOrAfter(leaf, pos) ==
    IF pos > Len(node[leaf].pairs) /\ leaf # last_leaf THEN Iid(node[leaf].next, 1)
    ELSE Iid(leaf, pos)

\* IxIndexHandle::lower_bound and upper_bound.
tree_lower_bound(key) ==
    LET leaf == find_leaf_page(key)
    IN  AtOrAfter(leaf, lower_bound(node[leaf].pairs, key))

tree_upper_bound(key) ==
    LET leaf == find_leaf_page(key)
        pos == lower_bound(node[leaf].pairs, key)
    IN  AtOrAfter(leaf, IF HoldsKey(node[leaf].pairs, pos, key) THEN pos + 1 ELSE pos)

\* Mutant: the cursor steps to the next leaf after the last one too.
NextIidWraps(iid) ==
    IF iid.slot = Len(node[iid.page].pairs) THEN Iid(node[iid.page].next, 1)
    ELSE Iid(iid.page, iid.slot + 1)

\* IxScan::next.
next_iid(iid) ==
    LET size == Len(node[iid.page].pairs)
    IN  IF iid.page # last_leaf /\ iid.slot = size THEN Iid(node[iid.page].next, 1)
        ELSE Iid(iid.page, iid.slot + 1)

\* One round of find_next_valid: get_rid throws when the cursor has passed the
\* last pair of its leaf.
ScanStep(scan, end) ==
    IF scan.iid = end \/ scan.failed THEN scan
    ELSE IF scan.iid.slot > Len(node[scan.iid.page].pairs) THEN [scan EXCEPT !.failed = TRUE]
    ELSE [scan EXCEPT !.rids = Append(@, node[scan.iid.page].pairs[scan.iid.slot].value),
                      !.iid = next_iid(@)]

\* What beginTuple and nextTuple read for a range condition.  A scan that has
\* not ended after one round for every key has failed.
RangeScan(low, low_inclusive, high, high_inclusive) ==
    LET lower == IF low_inclusive THEN tree_lower_bound(low) ELSE tree_upper_bound(low)
        upper == IF high_inclusive THEN tree_upper_bound(high) ELSE tree_lower_bound(high)
        after[n \in 0..Cardinality(Keys)] ==
            IF n = 0 THEN [iid |-> lower, rids |-> <<>>, failed |-> FALSE]
            ELSE ScanStep(after[n - 1], upper)
        result == after[Cardinality(Keys)]
    IN  [ended |-> result.iid = upper, rids |-> result.rids]

-----------------------------------------------------------------------------
Live == DOMAIN node \ (op.dead \cup {IX_LEAF_HEADER_PAGE})
LiveLeaves == {page \in Live : node[page].leaf}

\* The entries the leaves hold.
Contents == UNION {{<<pair.key, pair.value>> : pair \in ToSet(node[page].pairs)} : page \in LiveLeaves}
IndexedKeys == {entry[1] : entry \in Contents}

\* Type invariant.  No page ever holds more pairs than fit in it, btree_order_
\* and the one slot ix_manager.h reserves.
TypeOK ==
    /\ \A page \in DOMAIN node :
          /\ page \in 1..next_page - 1
          /\ Len(node[page].pairs) <= MaxSize
          /\ \A i \in DOMAIN node[page].pairs : node[page].pairs[i].key \in Keys
    /\ {root_page, first_leaf, last_leaf} \subseteq Live
    /\ load \in Seq(Keys) /\ ops \in 0..MaxOps

depth[page \in Live] == IF node[page].parent = IX_NO_PAGE THEN 0 ELSE 1 + depth[node[page].parent]

\* Between two operations the pages form one balanced tree: every page but the
\* root is listed exactly once, by the page it names as its parent, is at
\* least half full, and its first key is the key its parent has for it (the
\* parent's first key is a sentinel that upper_bound never reads); all leaves
\* are equally deep, and the header counts the pages.  Splits, merges and
\* borrowing each repair their part of this.
BalancedTree ==
    ~Latched =>
        /\ node[root_page].parent = IX_NO_PAGE
        /\ num_pages = Cardinality(Live) + 2
        /\ \A page \in Live : Len(node[page].pairs) <= Order
        /\ \A page \in Live \ {root_page} :
              LET parent == node[page].parent
                  here == {i \in DOMAIN node[parent].pairs : node[parent].pairs[i].value = page}
              IN  /\ parent \in Live \ LiveLeaves
                  /\ Cardinality(here) = 1
                  /\ Len(node[page].pairs) >= MinSize
                  /\ \A i \in here : i = 1 \/ node[parent].pairs[i].key = node[page].pairs[1].key
        /\ \A a, b \in LiveLeaves : depth[a] = depth[b]

\* Between two operations the chain of leaves runs from the header page through
\* first_leaf to last_leaf and back, in ascending order of keys, and can be
\* followed in both directions.
LeafChain ==
    ~Latched =>
        LET leaves == LiveLeaves \cup {IX_LEAF_HEADER_PAGE}
        IN  /\ node[IX_LEAF_HEADER_PAGE].next = first_leaf
            /\ node[IX_LEAF_HEADER_PAGE].prev = last_leaf
            /\ \A page \in leaves :
                  /\ node[page].next \in leaves /\ node[node[page].next].prev = page
                  /\ \A i \in 2..Len(node[page].pairs) : node[page].pairs[i - 1].key < node[page].pairs[i].key
                  /\ IX_LEAF_HEADER_PAGE \notin {page, node[page].next} =>
                        Last(node[page].pairs).key < Head(node[node[page].next].pairs).key

\* The shape every operation must leave behind: pages within their bounds, one
\* balanced tree, and one chain of leaves through it.
TreeShape == TypeOK /\ BalancedTree /\ LeafChain

\* Between two operations a search from the root finds exactly the entries the
\* leaves hold, whichever splits, merges and stale first keys lie behind: the
\* uniqueness checks and point queries of get_value rest on it.
SearchExact ==
    ~Latched => \A key \in Keys : get_value(key) = IF key \in IndexedKeys THEN {RidOf(key)} ELSE {}

Within(key, low, low_inclusive, high, high_inclusive) ==
    /\ low < key \/ (low_inclusive /\ low = key)
    /\ key < high \/ (high_inclusive /\ key = high)

\* A range scan returns the rows of its range, all of them, in ascending order
\* of keys, and ends.  Contradictory ranges are left out: for them upper lies
\* before lower and the cursor never meets it.
RangeExact ==
    ~Latched =>
        \A low, high \in Bounds, low_inclusive, high_inclusive \in BOOLEAN :
            (low < high \/ (low = high /\ (low_inclusive \/ high_inclusive))) =>
                LET Inside(key) ==
                        key \in IndexedKeys /\ Within(key, low, low_inclusive, high, high_inclusive)
                    inside == SelectSeq([n \in 1..Max(Keys) |-> n], Inside)
                IN  RangeScan(low, low_inclusive, high, high_inclusive)
                    = [ended |-> TRUE, rids |-> [i \in DOMAIN inside |-> RidOf(inside[i])]]

Index == INSTANCE UniqueIndex WITH entries <- Contents

\* The tree implements the unique index: an operation changes the entries in
\* one step, and no split, merge, borrowing or change of root loses, copies or
\* alters an entry.
IndexSpec == Index!Spec

=============================================================================
