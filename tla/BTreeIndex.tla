--------------------------------- MODULE BTreeIndex ---------------------------------
(***************************************************************************)
(* The two kinds of index of index.py over one column, BTreeIndex and      *)
(* HashIndex: a B-tree whose full nodes are split on the way down and that *)
(* is never merged, and a table of buckets.  Both are given the same       *)
(* calls.  No coroutine suspends in this code.                             *)
(*                                                                         *)
(* A node is [keys, rows, kids]: its keys in order, the row numbers of     *)
(* each key (a set: a number is listed once), and its children; a leaf has *)
(* none.                                                                   *)
(*                                                                         *)
(* The calls are those of the classes, not of IndexManager.  It asks       *)
(* `if index:` before each of its own, and an index is false while __len__ *)
(* is 0: the empty index it makes never gets a key.                        *)
(***************************************************************************)
EXTENDS Naturals, Sequences, SequencesExt

CONSTANTS
    IndexEntries,   \* pairs of a value of the column and a row number, that are explored
    Order           \* BTreeIndex.order: a full node has 2 * Order - 1 keys

ASSUME OrderAssumption == Order \in Nat \ {0, 1}

VARIABLES
    root,    \* BTreeIndex.root
    size,    \* BTreeIndex._size
    hash,    \* HashIndex.buckets, together: a key's row numbers
    broken   \* an inner node of the tree has lost a key, and has a child too many

IndexKeys == {entry[1] : entry \in IndexEntries}

indexVars == <<root, size, hash, broken>>

Leaf(keys, rows) == [keys |-> keys, rows |-> rows, kids |-> <<>>]
EmptyNode == Leaf(<<>>, <<>>)
IsLeaf(node) == node.kids = <<>>

\* is_full
IsFull(node) == Len(node.keys) >= 2 * Order - 1

\* bisect_left and bisect_right: keys are in order.
Left(node, key)  == 1 + Cardinality({i \in DOMAIN node.keys : node.keys[i] < key})
Right(node, key) == 1 + Cardinality({i \in DOMAIN node.keys : node.keys[i] <= key})
HoldsAt(node, pos, key) == pos <= Len(node.keys) /\ node.keys[pos] = key

-----------------------------------------------------------------------------
(* Searching *)

\* _search_node: the key's row numbers, in a set; the empty set if it has no place.
RECURSIVE Find(_, _)
Find(node, key) ==
    LET pos == Left(node, key)
    IN  IF HoldsAt(node, pos, key) THEN {node.rows[pos]}
        ELSE IF IsLeaf(node) THEN {} ELSE Find(node.kids[pos], key)

Search(node, key) == UNION Find(node, key)

\* A bound of a range: None, or a key that is included or is not.
NoBound == [given |-> FALSE]
Above(key, min) == min.given => IF min.included THEN key >= min.key ELSE key > min.key
Below(key, max) == max.given => IF max.included THEN key <= max.key ELSE key < max.key

\* The children a range search goes into: the keys beside them are compared with the
\* bounds, included or not.
Visited(node, i, min, max) ==
    /\ i > 1 /\ max.given => node.keys[i - 1] <= max.key
    /\ i <= Len(node.keys) /\ min.given => node.keys[i] >= min.key

\* _range_search
RECURSIVE RangeSearch(_, _, _)
RangeSearch(node, min, max) ==
    UNION {node.rows[i] : i \in {j \in DOMAIN node.keys : Above(node.keys[j], min) /\ Below(node.keys[j], max)}}
    \cup UNION {RangeSearch(node.kids[i], min, max) : i \in {j \in DOMAIN node.kids : Visited(node, j, min, max)}}

-----------------------------------------------------------------------------
(* Inserting *)

\* Mutant: the key in the middle goes up and stays in the new node as well.
SplitChildKeepsKey(node, pos) ==
    LET child == node.kids[pos]
        Half(from, to) == [keys |-> SubSeq(child.keys, from, to), rows |-> SubSeq(child.rows, from, to),
                           kids |-> IF IsLeaf(child) THEN <<>> ELSE SubSeq(child.kids, from, to + 1)]
    IN  [keys |-> InsertAt(node.keys, pos, child.keys[Order]), rows |-> InsertAt(node.rows, pos, child.rows[Order]),
         kids |-> InsertAt(ReplaceAt(node.kids, pos, Half(1, Order - 1)), pos + 1, Half(Order, Len(child.keys)))]

\* _split_child: the key in the middle goes up, what follows it to a new node.
SplitChild(node, pos) ==
    LET child == node.kids[pos]
        Half(from, to) == [keys |-> SubSeq(child.keys, from, to), rows |-> SubSeq(child.rows, from, to),
                           kids |-> IF IsLeaf(child) THEN <<>> ELSE SubSeq(child.kids, from, to + 1)]
    IN  [keys |-> InsertAt(node.keys, pos, child.keys[Order]), rows |-> InsertAt(node.rows, pos, child.rows[Order]),
         kids |-> InsertAt(ReplaceAt(node.kids, pos, Half(1, Order - 1)), pos + 1,
                           Half(Order + 1, Len(child.keys)))]

\* _insert_non_full: of a key that has no place yet.
RECURSIVE InsertNonFull(_, _, _)
InsertNonFull(node, key, row) ==
    LET pos   == Right(node, key)
        split == IF IsFull(node.kids[pos]) THEN SplitChild(node, pos) ELSE node
        into  == IF split # node /\ key > split.keys[pos] THEN pos + 1 ELSE pos
    IN  IF IsLeaf(node)
        THEN Leaf(InsertAt(node.keys, Left(node, key), key), InsertAt(node.rows, Left(node, key), {row}))
        ELSE [split EXCEPT !.kids[into] = InsertNonFull(@, key, row)]

\* The node with other row numbers of a key that has a place.
RECURSIVE WithRows(_, _, _)
WithRows(node, key, rows) ==
    LET pos == Left(node, key)
    IN  IF HoldsAt(node, pos, key) THEN [node EXCEPT !.rows[pos] = rows]
        ELSE [node EXCEPT !.kids[pos] = WithRows(@, key, rows)]

\* insert: the new root and size.
TreeInsert(node, n, key, row) ==
    IF Find(node, key) # {}
    THEN [root |-> WithRows(node, key, Search(node, key) \cup {row}), size |-> n]
    ELSE LET above == [keys |-> <<>>, rows |-> <<>>, kids |-> <<node>>]
         IN  [root |-> InsertNonFull(IF IsFull(node) THEN SplitChild(above, 1) ELSE node, key, row), size |-> n + 1]

-----------------------------------------------------------------------------
(* Deleting *)

\* The node without its key of that place.
WithoutKey(node, pos) == [node EXCEPT !.keys = RemoveAt(@, pos), !.rows = RemoveAt(@, pos)]

\* _delete_from_node, of one row: a leaf's key goes with its last row; an inner node's
\* key stays.
RECURSIVE TreeDelete(_, _, _, _)
TreeDelete(node, n, key, row) ==
    LET pos  == Left(node, key)
        left == node.rows[pos] \ {row}
    IN  IF HoldsAt(node, pos, key)
        THEN IF IsLeaf(node) /\ left = {}
             THEN [root |-> WithoutKey(node, pos), size |-> n - 1]
             ELSE [root |-> [node EXCEPT !.rows[pos] = left], size |-> n]
        ELSE IF IsLeaf(node) THEN [root |-> node, size |-> n]
        ELSE LET below == TreeDelete(node.kids[pos], n, key, row)
             IN  [root |-> [node EXCEPT !.kids[pos] = below.root], size |-> below.size]

\* _delete_from_node, of no row in particular: the key goes, and leaves the children of
\* an inner node as they are.
RECURSIVE TreeDeleteKey(_, _)
TreeDeleteKey(node, key) ==
    LET pos == Left(node, key)
    IN  IF HoldsAt(node, pos, key) THEN WithoutKey(node, pos)
        ELSE IF IsLeaf(node) THEN node
        ELSE [node EXCEPT !.kids[pos] = TreeDeleteKey(@, key)]

RECURSIVE IsInner(_, _)
IsInner(node, key) ==
    ~IsLeaf(node) /\ (HoldsAt(node, Left(node, key), key) \/ IsInner(node.kids[Left(node, key)], key))

-----------------------------------------------------------------------------
(* The calls of both *)

BothBecome(tree, table) == root' = tree.root /\ size' = tree.size /\ hash' = table

\* insert
InsertEntry(key, row) ==
    /\ BothBecome(TreeInsert(root, size, key, row), [hash EXCEPT ![key] = @ \cup {row}])
    /\ UNCHANGED broken

\* delete, of a row
DeleteEntry(key, row) ==
    /\ BothBecome(TreeDelete(root, size, key, row), [hash EXCEPT ![key] = @ \ {row}])
    /\ UNCHANGED broken

\* delete, without a row
DeleteKey(key) ==
    /\ BothBecome([root |-> TreeDeleteKey(root, key), size |-> IF Find(root, key) = {} THEN size ELSE size - 1],
                  [hash EXCEPT ![key] = {}])
    /\ broken' = IsInner(root, key)

\* clear
ClearIndex ==
    /\ BothBecome([root |-> EmptyNode, size |-> 0], [key \in IndexKeys |-> {}])
    /\ broken' = FALSE

IndexInit ==
    /\ root = EmptyNode /\ size = 0
    /\ hash = [key \in IndexKeys |-> {}]
    /\ broken = FALSE

\* Bound: a broken tree is only cleared.
IndexNext ==
    \/ /\ ~broken
       /\ \/ \E entry \in IndexEntries : InsertEntry(entry[1], entry[2]) \/ DeleteEntry(entry[1], entry[2])
          \/ \E key \in IndexKeys : DeleteKey(key)
    \/ ClearIndex

IndexSpec == IndexInit /\ [][IndexNext]_indexVars

-----------------------------------------------------------------------------
RECURSIVE KeysOf(_), Depths(_)
KeysOf(node) == ToSet(node.keys) \cup UNION {KeysOf(node.kids[i]) : i \in DOMAIN node.kids}
Depths(node) == IF IsLeaf(node) THEN {0} ELSE UNION {{d + 1 : d \in Depths(node.kids[i])} : i \in DOMAIN node.kids}

Bounds == {NoBound} \cup [given : {TRUE}, key : IndexKeys, included : BOOLEAN]

\* After any calls the two indexes give the same rows for every value, and the tree the
\* same rows for every range as the values in it together, whatever was split, emptied
\* and filled again on the way; all leaves of the tree are equally deep, so that no
\* search takes longer; and its size counts its keys, those without rows included:
\* unless a key of an inner node was deleted whole, which breaks the tree.
IndexesAgree ==
    ~broken =>
        /\ \A key \in IndexKeys : Search(root, key) = hash[key]
        /\ \A min, max \in Bounds :
              RangeSearch(root, min, max) = UNION {hash[key] : key \in {k \in IndexKeys : Above(k, min) /\ Below(k, max)}}
        /\ Cardinality(Depths(root)) = 1
        /\ size = Cardinality(KeysOf(root))
=============================================================================
