------------------------------- MODULE BNode -------------------------------
(***************************************************************************)
(* The slotted page of the B+tree (src/bnode.go): what a cell costs, when  *)
(* a page is full or underfull, and the searches within one page.          *)
(*                                                                         *)
(* A page is a record: a leaf has cells [key, val, len, ov], an internal   *)
(* page cells [key, child] and a rightmost child, an overflow page a slice *)
(* of a value and the id of the next one.  Cell bytes are abstracted to    *)
(* these fields; their sizes are the code's.  Indices are 0-based, as in   *)
(* the code, and page id 0 is "none".  Keys are ordered numbers.           *)
(***************************************************************************)
EXTENDS Integers, Sequences, FiniteSets, SequencesExt

CONSTANTS PageSize,          \* 4096 in storage.go
          minCellsPerPage,   \* 4 in bnode.go
          Key,               \* a set of numbers, compared as bytes.Compare does
          KeyLen,            \* [Key -> Nat], len(key)
          Value,
          ValueLen,          \* [Value -> Nat], len(value)
          Nil                \* no value

ASSUME SizesAssumption ==
    /\ PageSize \in Nat \ {0} /\ minCellsPerPage \in Nat \ {0}
    /\ Key \subseteq Nat /\ KeyLen \in [Key -> Nat] /\ ValueLen \in [Value -> Nat]
    /\ Nil \notin Value

leafHeaderSize == 5
internalHeaderSize == 13
leafCellHeader == 5
internalCellHeader == 10
overflowHeaderSize == 9
leafCellCost == leafCellHeader + 2
internalCellCost == internalCellHeader + 2

maxKeySize ==
    (PageSize - internalHeaderSize - internalCellCost * minCellsPerPage) \div minCellsPerPage
maxInlineSize ==
    (PageSize - leafHeaderSize - leafCellCost * minCellsPerPage) \div minCellsPerPage
overflowChunkSize == PageSize - overflowHeaderSize

Leaf(cells) == [type |-> "leaf", cells |-> cells]
Internal(cells, right) == [type |-> "internal", cells |-> cells, right |-> right]
Overflow(v, off, next) == [type |-> "overflow", val |-> v, off |-> off, next |-> next]

nCells(n) == Len(n.cells)
key(n, idx) == n.cells[idx + 1].key
child(n, idx) == IF idx = nCells(n) THEN n.right ELSE n.cells[idx + 1].child
setChild(n, idx, id) ==
    IF idx = nCells(n) THEN [n EXCEPT !.right = id] ELSE [n EXCEPT !.cells[idx + 1].child = id]
copyRange(src, start, count) == SubSeq(src.cells, start + 1, start + count)
copyWithoutCell(src, idx) == [src EXCEPT !.cells = RemoveAt(@, idx + 1)]

headerSize(n) == IF n.type = "leaf" THEN leafHeaderSize ELSE internalHeaderSize

\* An inline cell holds the value, any other the id of its first overflow page.
Inline(k, v) == leafCellHeader + KeyLen[k] + ValueLen[v] <= maxInlineSize
leafCellSize(k, v) ==
    leafCellHeader + KeyLen[k] + IF Inline(k, v) THEN ValueLen[v] ELSE 8
internalCellSize(k) == internalCellHeader + KeyLen[k]
cellSize(n, idx) ==
    LET c == n.cells[idx + 1]
    IN  IF n.type = "internal" THEN internalCellSize(c.key)
        ELSE leafCellHeader + KeyLen[c.key] + IF c.ov # 0 THEN 8 ELSE c.len

totalCellsSize(n) ==
    LET upto[i \in 0 .. nCells(n)] == IF i = 0 THEN 0 ELSE upto[i - 1] + cellSize(n, i - 1)
    IN  upto[nCells(n)]
freeSpace(n) == PageSize - totalCellsSize(n) - headerSize(n) - 2 * nCells(n)

\* Mutant: a node with just the minimum of cells counts as underfull too.
underfullAtMin(n) == nCells(n) <= minCellsPerPage \/ PageSize - freeSpace(n) < PageSize \div 4

underfull(n) == nCells(n) < minCellsPerPage \/ PageSize - freeSpace(n) < PageSize \div 4

siblingCanDonate(n) ==
    /\ nCells(n) > minCellsPerPage
    /\ (PageSize - freeSpace(n)) - cellSize(n, nCells(n) - 1) - 2 >= PageSize \div 4

\* encodeLeafCell stores the length of the value in two bytes.
leafCell(k, v, ov) ==
    [key |-> k, val |-> IF ov = 0 THEN v ELSE Nil, len |-> ValueLen[v] % 65536, ov |-> ov]
internalCell(id, k) == [key |-> k, child |-> id]

RECURSIVE searchLeafIn(_, _, _, _)
searchLeafIn(n, k, lo, hi) ==
    LET mid == lo + (hi - lo) \div 2
    IN  CASE lo >= hi -> [idx |-> lo, found |-> FALSE]
          [] lo < hi /\ k = key(n, mid) -> [idx |-> mid, found |-> TRUE]
          [] lo < hi /\ k < key(n, mid) -> searchLeafIn(n, k, lo, mid)
          [] lo < hi /\ k > key(n, mid) -> searchLeafIn(n, k, mid + 1, hi)
searchLeaf(n, k) == searchLeafIn(n, k, 0, nCells(n))

RECURSIVE searchInternalIn(_, _, _, _)
searchInternalIn(n, k, lo, hi) ==
    LET mid == lo + (hi - lo) \div 2
    IN  CASE lo >= hi -> lo
          [] lo < hi /\ k < key(n, mid) -> searchInternalIn(n, k, lo, mid)
          [] lo < hi /\ k >= key(n, mid) -> searchInternalIn(n, k, mid + 1, hi)
searchInternal(n, k) == searchInternalIn(n, k, 0, nCells(n))
=============================================================================
