------------------------------- MODULE BTree -------------------------------
(***************************************************************************)
(* The copy-on-write B+tree of one bucket inside a write transaction:      *)
(* Search, Update, Delete and FreeAll (src/btree.go, update.go, delete.go, *)
(* overflow.go) over the pages of bnode.go.                                *)
(*                                                                         *)
(* An operation runs alone (one writer), so it is one action; what happens *)
(* within it is threaded through the record s, the part of the transaction *)
(* the tree uses: page contents, pins, the pages allocated, made reusable  *)
(* and freed, and err.  Any Get or AllocatePage may fail: s.luck of them   *)
(* succeed first, and every error path of the code is followed.            *)
(***************************************************************************)
EXTENDS BNode

CONSTANTS Puts,              \* the pairs <<key, value>> that callers put
          Modes,             \* the modes they put a key in: upsert, insert, update
          Luck               \* how many page accesses succeed; -1: all of them

Mode == {"upsert", "insert", "update"}

ASSUME CallsAssumption ==
    Puts \subseteq Key \X Value /\ Modes \in [Key -> SUBSET Mode] /\ Luck \subseteq Int

VARIABLES tx,                \* the record s between operations
          root,              \* t.root, 0 when the tree is empty
          content,           \* ghost: the map the tree stands for
          base,              \* ghost: the committed tree [root, pages, content]
          out                \* the last call's error and the one it should be

vars == <<tx, root, content, base, out>>

Ok(s) == s.err = "ok"
raise(s, e) == [s EXCEPT !.err = e]

----------------------------------------------------------------------------
(* The transaction, as the tree uses it.                                   *)

Get(s, id) ==
    CASE ~Ok(s) -> s
      [] Ok(s) /\ s.luck = 0 -> raise(s, "io")
      [] OTHER -> [s EXCEPT !.luck = @ - 1, !.pins = @ \cup {id}]

\* Page.Unpin panics when the page is not pinned.
Unpin(s, id) == IF id \in s.pins THEN [s EXCEPT !.pins = @ \ {id}] ELSE raise(s, "panic")

\* Mutant: the file is not counted as grown.
AllocatePageUncounted(s) ==
    LET again == s.reusable # <<>>
        id == IF again THEN Last(s.reusable) ELSE s.numPages
    IN  IF ~Ok(s) \/ s.luck = 0 THEN raise(s, IF Ok(s) THEN "io" ELSE s.err)
        ELSE [s EXCEPT !.luck = @ - 1, !.id = id, !.pins = @ \cup {id}, !.allocated = @ \cup {id},
                       !.reusable = IF again THEN Front(@) ELSE @]

AllocatePage(s) ==
    LET again == s.reusable # <<>>
        id == IF again THEN Last(s.reusable) ELSE s.numPages
    IN  CASE ~Ok(s) -> s
          [] Ok(s) /\ s.luck = 0 -> raise(s, "io")
          [] OTHER -> [s EXCEPT !.luck = @ - 1, !.id = id, !.pins = @ \cup {id},
                                !.allocated = @ \cup {id},
                                !.reusable = IF again THEN Front(@) ELSE @,
                                !.numPages = IF again THEN @ ELSE @ + 1]

\* Mutant: a page of this transaction is freed like a committed one.
FreePageAsCommitted(s, id) == [s EXCEPT !.freed = Append(@, id), !.allocated = @ \ {id}]

FreePage(s, id) ==
    IF id \in s.allocated
    THEN [s EXCEPT !.allocated = @ \ {id}, !.reusable = Append(@, id)]
    ELSE [s EXCEPT !.freed = Append(@, id)]

\* The page gets its cells.  The appends assert that they fit; copyRange does not look, and
\* a page it overfills has a cell outside the page or on top of the offsets: either is fatal.
store(s, id, n) ==
    CASE ~Ok(s) -> s
      [] Ok(s) /\ freeSpace(n) < 0 -> raise(s, "panic")
      [] OTHER -> [s EXCEPT !.mem = (id :> n) @@ @]

----------------------------------------------------------------------------
(* Overflow pages.                                                         *)

RECURSIVE writeOverflowFrom(_, _, _, _)
writeOverflowFrom(s, v, off, prev) ==
    LET a == AllocatePage(s)
        linked == [a EXCEPT !.mem = (a.id :> Overflow(v, off, 0)) @@
                               (IF prev = 0 THEN @ ELSE [@ EXCEPT ![prev].next = a.id]),
                            !.ov = IF prev = 0 THEN a.id ELSE @]
        release(t) == IF prev = 0 THEN t ELSE Unpin(t, prev)
    IN  IF off >= ValueLen[v] THEN release(s)
        ELSE IF ~Ok(a) THEN release(a)
        ELSE writeOverflowFrom(release(linked), v, off + overflowChunkSize, a.id)

\* The first page of the chain, or 0 for an inline value, is left in ov.
leafCellOverflow(s, k, v) ==
    IF ~Ok(s) \/ Inline(k, v) THEN [s EXCEPT !.ov = 0]
    ELSE writeOverflowFrom([s EXCEPT !.ov = 0], v, 0, 0)

RECURSIVE chain(_, _)
chain(mem, id) == IF id = 0 THEN <<>> ELSE <<id>> \o chain(mem, mem[id].next)

RECURSIVE freeOverflowPages(_, _)
freeOverflowPages(s, id) ==
    LET g == Get(s, id)
    IN  IF id = 0 \/ ~Ok(g) THEN IF id = 0 THEN s ELSE g
        ELSE freeOverflowPages(FreePage(Unpin(g, id), id), s.mem[id].next)

\* The bytes a cell stands for: its own, or the first len of those its chain holds.
leafValue(mem, c) ==
    LET ids == chain(mem, c.ov)
        v == mem[ids[1]].val
    IN  IF c.ov = 0 THEN c.val
        ELSE IF /\ \A i \in DOMAIN ids : mem[ids[i]] = [type |-> "overflow", val |-> v,
                          off |-> (i - 1) * overflowChunkSize, next |-> mem[ids[i]].next]
                /\ Len(ids) * overflowChunkSize >= ValueLen[v]
                /\ c.len = ValueLen[v]
             THEN v ELSE Nil

\* Reading it visits every page of the chain.
readValue(s, c) ==
    LET n == Len(chain(s.mem, c.ov))
    IN  IF s.luck \in 0 .. n - 1 THEN raise(s, "io") ELSE [s EXCEPT !.luck = @ - n]

----------------------------------------------------------------------------
(* Update.  A rewritten node is returned pinned: new, and extra after a    *)
(* split, with the separator between them; new = 0 when nothing changed.   *)

Done(s, new, extra, sep) == [s |-> s, new |-> new, extra |-> extra, sep |-> sep]
None(s) == Done(s, 0, 0, 0)

rewriteLeaf(s, before, k, v, after) ==
    LET a == AllocatePage(s)
        w == leafCellOverflow(a, k, v)
        leaf == Leaf(before \o <<leafCell(k, v, w.ov)>> \o after)
    IN  IF ~Ok(a) THEN None(a)
        ELSE IF ~Ok(w) THEN None(Unpin(w, a.id))
        ELSE Done(store(w, a.id, leaf), a.id, 0, 0)

\* The first index whose running size exceeds half, as the two loops find it.
FirstOver(size, total, target) ==
    LET upto[j \in 0 .. total - 1] == size[j] + 2 + IF j = 0 THEN 0 ELSE upto[j - 1]
        over == {j \in 0 .. total - 1 : upto[j] > target}
    IN  IF over = {} THEN -1 ELSE Min(over)

AtMost(splitIdx, total) == IF splitIdx >= total THEN total - 1 ELSE splitIdx

leafSplitIndex(n, i, total, newSize, target, replacing) ==
    LET src(j) == IF ~replacing /\ j > i THEN j - 1 ELSE j
        over == FirstOver([j \in 0 .. total - 1 |-> IF j = i THEN newSize ELSE cellSize(n, src(j))],
                          total, target)
    IN  AtMost(IF over = -1 THEN 1 ELSE over + 1, total)

\* The two halves of a leaf with the cell added, or replaced, at i.
leafHalves(n, i, cell, split, replacing) ==
    LET after == IF replacing THEN i + 1 ELSE i               \* the old cell that follows
        right == IF replacing THEN split ELSE split - 1       \* the first of node2's
    IN  IF i < split
        THEN [one |-> copyRange(n, 0, i) \o <<cell>> \o copyRange(n, after, split - i - 1),
              two |-> copyRange(n, right, nCells(n) - right)]
        ELSE [one |-> copyRange(n, 0, split),
              two |-> copyRange(n, split, i - split) \o <<cell>> \o copyRange(n, after, nCells(n) - after)]

\* Two pages a and b for the halves h of a node; the first is given up when there is no second.
twoPages(s, h, sep) ==
    LET a == AllocatePage(s)
        b == AllocatePage(a)
    IN  IF ~Ok(a) THEN None(a)
        ELSE IF ~Ok(b) THEN None(Unpin(FreePage(b, a.id), a.id))
        ELSE Done(store(store(b, a.id, h.one), b.id, h.two), a.id, b.id, sep)

leafPages(s, h) == twoPages(s, [one |-> Leaf(h.one), two |-> Leaf(h.two)], h.two[1].key)

splitLeaf(s, n, i, k, v, replacing) ==
    LET size == leafCellSize(k, v)
        total == IF replacing THEN nCells(n) ELSE nCells(n) + 1
        delta == IF replacing THEN size - cellSize(n, i) ELSE 2 + size
        target == (totalCellsSize(n) + delta + 2 * nCells(n)) \div 2
        w == leafCellOverflow(s, k, v)
    IN  leafPages(w, leafHalves(n, i, leafCell(k, v, w.ov),
                                leafSplitIndex(n, i, total, size, target, replacing), replacing))

replaceLeafValue(s, n, i, k, v, mode) ==
    LET c == n.cells[i + 1]
        r == readValue(s, c)
        f == freeOverflowPages(r, c.ov)
    IN  IF mode = "insert" THEN None(raise(s, "exists"))
        ELSE IF ~Ok(r) \/ leafValue(s.mem, c) = v THEN None(r)
        ELSE IF ~Ok(f) THEN None(f)
        ELSE IF leafCellSize(k, v) - cellSize(n, i) > freeSpace(n) THEN splitLeaf(f, n, i, k, v, TRUE)
        ELSE rewriteLeaf(f, copyRange(n, 0, i), k, v, copyRange(n, i + 1, nCells(n) - i - 1))

addLeafValue(s, n, i, k, v, mode) ==
    IF mode = "update" THEN None(raise(s, "notfound"))
    ELSE IF leafCellSize(k, v) + 2 > freeSpace(n) THEN splitLeaf(s, n, i, k, v, FALSE)
    ELSE rewriteLeaf(s, copyRange(n, 0, i), k, v, copyRange(n, i, nCells(n) - i))

\* Mutant: the new child stays pinned when the node cannot be allocated.
replaceChildPinned(s, n, i, new) ==
    LET a == AllocatePage(s)
    IN  IF ~Ok(a) THEN None(a)
        ELSE Done(Unpin(store(a, a.id, setChild(n, i, new)), new), a.id, 0, 0)

\* replaceInternalChild, and replaceChildAfterDelete of delete.go.
replaceChild(s, n, i, new) ==
    LET a == AllocatePage(s)
    IN  IF ~Ok(a) THEN None(Unpin(a, new))
        ELSE Done(Unpin(store(a, a.id, setChild(n, i, new)), new), a.id, 0, 0)

applyChildSplit(n, i, new, sep, extra) ==
    IF i < nCells(n)
    THEN Internal(copyRange(n, 0, i) \o <<internalCell(new, sep), internalCell(extra, key(n, i))>>
                      \o copyRange(n, i + 1, nCells(n) - i - 1), n.right)
    ELSE Internal(copyRange(n, 0, nCells(n)) \o <<internalCell(new, sep)>>, extra)

internalSplitIndex(n, i, newSize, target) ==
    LET total == nCells(n) + 1
        over == FirstOver([j \in 0 .. total - 1 |->
                              CASE j < i -> cellSize(n, j)
                                [] j = i -> newSize
                                [] j > i -> cellSize(n, j - 1)], total, target)
    IN  AtMost(IF over = -1 THEN 1 ELSE over, total)

\* The two halves of an internal node whose child i became new | sep | extra, and the
\* separator that is promoted from between them.
halves(n, i, new, sep, extra, split) ==
    LET nc == nCells(n)
        pair == <<internalCell(new, sep)>>
                \o IF i < nc THEN <<internalCell(extra, key(n, i))>> ELSE <<>>
        tail == IF i < nc THEN copyRange(n, i + 1, nc - i - 1) ELSE <<>>
        last == IF i < nc THEN n.right ELSE extra
    IN  CASE split = i + 1 ->
               [one |-> Internal(copyRange(n, 0, i) \o <<internalCell(new, sep)>>, extra),
                sep |-> key(n, i),
                two |-> Internal(tail, n.right)]
          [] split > i + 1 ->
               [one |-> Internal(copyRange(n, 0, i) \o pair \o copyRange(n, i + 1, split - i - 2),
                                 child(n, split - 1)),
                sep |-> key(n, split - 1),
                two |-> Internal(copyRange(n, split, nc - split), n.right)]
          [] split = i ->
               [one |-> Internal(copyRange(n, 0, i), new),
                sep |-> sep,
                two |-> Internal(Tail(pair) \o tail, last)]
          [] split < i ->
               [one |-> Internal(copyRange(n, 0, split), child(n, split)),
                sep |-> key(n, split),
                two |-> Internal(copyRange(n, split + 1, i - split - 1) \o pair \o tail, last)]

splitInternal(s, n, i, new, sep, extra) ==
    LET size == internalCellSize(sep)
        target == (totalCellsSize(n) + size + 2 * nCells(n) + 2) \div 2
        h == halves(n, i, new, sep, extra, internalSplitIndex(n, i, size, target))
    IN  twoPages(s, h, h.sep)

updateInternalAfterChildSplit(s, n, i, new, sep, extra) ==
    LET a == AllocatePage(s)
        r == IF internalCellSize(sep) + 2 > freeSpace(n) THEN splitInternal(s, n, i, new, sep, extra)
             ELSE IF ~Ok(a) THEN None(a)
             ELSE Done(store(a, a.id, applyChildSplit(n, i, new, sep, extra)), a.id, 0, 0)
    IN  [r EXCEPT !.s = Unpin(Unpin(@, new), extra)]

RECURSIVE updateNode(_, _, _, _, _)
updateNode(s, id, k, v, mode) ==
    LET n == s.mem[id]
        at == searchLeaf(n, k)
        i == searchInternal(n, k)
        c == child(n, i)
        g == Get(s, c)
        r == updateNode(g, c, k, v, mode)
        u == Unpin(r.s, c)
        f == FreePage(u, c)
    IN  IF n.type = "leaf"
        THEN IF at.found THEN replaceLeafValue(s, n, at.idx, k, v, mode)
             ELSE addLeafValue(s, n, at.idx, k, v, mode)
        ELSE IF ~Ok(g) THEN None(g)
        ELSE IF ~Ok(u) \/ r.new = 0 THEN None(u)
        ELSE IF r.extra = 0 THEN replaceChild(f, n, i, r.new)
        ELSE updateInternalAfterChildSplit(f, n, i, r.new, r.sep, r.extra)

Tree(s, r) == [s |-> s, root |-> r]

updateEmpty(s, k, v, mode) ==
    LET a == AllocatePage(s)
        w == leafCellOverflow(a, k, v)
        n == store(w, a.id, Leaf(<<leafCell(k, v, w.ov)>>))
    IN  IF mode = "update" THEN Tree(raise(s, "notfound"), 0)
        ELSE IF ~Ok(a) THEN Tree(a, 0)
        ELSE IF ~Ok(w) THEN Tree(FreePage(Unpin(w, a.id), a.id), 0)
        ELSE Tree(Unpin(n, a.id), a.id)

\* The root r was rewritten as u says.
replaceRoot(u, r) ==
    LET f == FreePage(Unpin(u.s, r), r)
        a == AllocatePage(f)
        n == store(a, a.id, Internal(<<internalCell(u.new, u.sep)>>, u.extra))
    IN  IF ~Ok(u.s) \/ u.new = 0 THEN Tree(Unpin(u.s, r), r)
        ELSE IF u.extra = 0 THEN Tree(Unpin(f, u.new), u.new)
        ELSE IF ~Ok(a) THEN Tree(Unpin(Unpin(a, u.new), u.extra), r)
        ELSE Tree(Unpin(Unpin(Unpin(n, u.new), u.extra), a.id), a.id)

updateRoot(s, r, k, v, mode) ==
    LET g == Get(s, r)
    IN  IF Ok(g) THEN replaceRoot(updateNode(g, r, k, v, mode), r) ELSE Tree(g, r)

update(s, r, k, v, mode) ==
    CASE KeyLen[k] > maxKeySize -> Tree(raise(s, "toobig"), r)
      [] KeyLen[k] <= maxKeySize /\ r = 0 -> updateEmpty(s, k, v, mode)
      [] KeyLen[k] <= maxKeySize /\ r # 0 -> updateRoot(s, r, k, v, mode)

----------------------------------------------------------------------------
(* Delete.  An underfull child borrows a cell from a sibling or is merged  *)
(* with one; the new child's page is still private and is changed in place.*)

rebuildParentForBorrow(n, j, left, sep, right) ==
    IF j + 1 < nCells(n)
    THEN Internal(copyRange(n, 0, j) \o <<internalCell(left, sep), internalCell(right, key(n, j + 1))>>
                      \o copyRange(n, j + 2, nCells(n) - j - 2), n.right)
    ELSE Internal(copyRange(n, 0, j) \o <<internalCell(left, sep)>>, right)

\* Mutant: the separator between the merged pair stays and the one after it goes.
rebuildParentForMergeStale(n, j, merged) ==
    IF j + 1 < nCells(n)
    THEN Internal(copyRange(n, 0, j) \o <<internalCell(merged, key(n, j))>>
                      \o copyRange(n, j + 2, nCells(n) - j - 2), n.right)
    ELSE Internal(copyRange(n, 0, j), merged)

rebuildParentForMerge(n, j, merged) ==
    IF j + 1 < nCells(n)
    THEN Internal(copyRange(n, 0, j) \o <<internalCell(merged, key(n, j + 1))>>
                      \o copyRange(n, j + 2, nCells(n) - j - 2), n.right)
    ELSE Internal(copyRange(n, 0, j), merged)

\* What a borrow makes of the child, of the sibling and of the separator between them.
borrowFromLeft(sib, sep, c) ==
    LET j == nCells(sib) - 1
    IN  IF c.type = "leaf"
        THEN [child |-> Leaf(<<sib.cells[j + 1]>> \o c.cells),
              sibling |-> copyWithoutCell(sib, j),
              sep |-> key(sib, j)]
        ELSE [child |-> Internal(<<internalCell(sib.right, sep)>> \o c.cells, c.right),
              sibling |-> Internal(copyRange(sib, 0, j), child(sib, j)),
              sep |-> key(sib, j)]

\* Mutant: a leaf's new separator is the key that moved.
borrowFromRightStale(sib, sep, c) ==
    IF c.type = "leaf"
    THEN [child |-> Leaf(Append(c.cells, sib.cells[1])), sibling |-> copyWithoutCell(sib, 0),
          sep |-> key(sib, 0)]
    ELSE [child |-> Internal(Append(c.cells, internalCell(c.right, sep)), child(sib, 0)),
          sibling |-> copyWithoutCell(sib, 0), sep |-> key(sib, 0)]

borrowFromRight(sib, sep, c) ==
    IF c.type = "leaf"
    THEN [child |-> Leaf(Append(c.cells, sib.cells[1])),
          sibling |-> copyWithoutCell(sib, 0),
          sep |-> key(sib, 1)]
    ELSE [child |-> Internal(Append(c.cells, internalCell(c.right, sep)), child(sib, 0)),
          sibling |-> copyWithoutCell(sib, 0),
          sep |-> key(sib, 0)]

\* Copying the cells of a page of the other type is asserted never to happen.
sameType(s, a, b) == IF s.mem[a].type = s.mem[b].type THEN s ELSE raise(s, "panic")

\* Mutant: the donor, a committed page perhaps, is rewritten in place.
borrowInPlace(s, n, j, sib, c, onLeft) ==
    LET b == IF onLeft THEN borrowFromLeft(s.mem[sib], key(n, j), s.mem[c])
             ELSE borrowFromRight(s.mem[sib], key(n, j), s.mem[c])
        w == Unpin(store(store(sameType(s, sib, c), c, b.child), sib, b.sibling), sib)
        p == AllocatePage(w)
        parent == IF onLeft THEN rebuildParentForBorrow(n, j, sib, b.sep, c)
                  ELSE rebuildParentForBorrow(n, j, c, b.sep, sib)
        d == store(p, p.id, parent)
    IN  Done(Unpin(d, c), IF Ok(d) THEN p.id ELSE 0, 0, 0)

\* The donor sib is pinned; j is the separator between it and the child c.
borrow(s, n, j, sib, c, onLeft) ==
    LET b == IF onLeft THEN borrowFromLeft(s.mem[sib], key(n, j), s.mem[c])
             ELSE borrowFromRight(s.mem[sib], key(n, j), s.mem[c])
        a == AllocatePage(store(sameType(s, sib, c), c, b.child))
        f == FreePage(Unpin(store(a, a.id, b.sibling), sib), sib)
        p == AllocatePage(f)
        parent == IF onLeft THEN rebuildParentForBorrow(n, j, a.id, b.sep, c)
                  ELSE rebuildParentForBorrow(n, j, c, b.sep, a.id)
        d == store(p, p.id, parent)
    IN  IF ~Ok(sameType(s, sib, c)) THEN None(raise(s, "panic"))
        ELSE IF ~Ok(a) THEN None(Unpin(Unpin(a, sib), c))
        ELSE Done(Unpin(Unpin(d, a.id), c), IF Ok(d) THEN p.id ELSE 0, 0, 0)

merge(left, sep, right) ==
    IF left.type = "leaf" THEN Leaf(left.cells \o right.cells)
    ELSE Internal(left.cells \o <<internalCell(left.right, sep)>> \o right.cells, right.right)

mergeUnderfullChild(s, n, i, c) ==
    LET onLeft == i > 0
        j == IF onLeft THEN i - 1 ELSE i
        sib == IF onLeft THEN child(n, i - 1) ELSE child(n, i + 1)
        g == Get(s, sib)
        merged == IF onLeft THEN merge(g.mem[sib], key(n, j), g.mem[c])
                  ELSE merge(g.mem[c], key(n, j), g.mem[sib])
        a == AllocatePage(sameType(g, sib, c))
        m == Unpin(store(a, a.id, merged), sib)
        f == FreePage(Unpin(FreePage(m, sib), c), c)
        p == AllocatePage(f)
        d == Unpin(store(p, p.id, rebuildParentForMerge(n, j, a.id)), a.id)
    IN  IF i = 0 /\ nCells(n) = 0 THEN Done(s, c, 0, 0)
        ELSE IF ~Ok(g) THEN None(Unpin(g, c))
        ELSE IF ~Ok(a) THEN None(Unpin(Unpin(a, sib), c))
        ELSE Done(d, IF Ok(d) THEN p.id ELSE 0, 0, 0)

\* borrowForUnderfullChild, left sibling first; a sibling that cannot donate is let go.
repairUnderfullChild(s, n, i, c) ==
    LET left == child(n, i - 1)
        l == Get(s, left)
        s1 == IF i > 0 THEN Unpin(l, left) ELSE s
        right == child(n, i + 1)
        r == Get(s1, right)
        s2 == IF i < nCells(n) THEN Unpin(r, right) ELSE s1
    IN  IF i > 0 /\ ~Ok(l) THEN None(Unpin(l, c))
        ELSE IF i > 0 /\ siblingCanDonate(s.mem[left]) THEN borrow(l, n, i - 1, left, c, TRUE)
        ELSE IF i < nCells(n) /\ ~Ok(r) THEN None(Unpin(r, c))
        ELSE IF i < nCells(n) /\ siblingCanDonate(s.mem[right]) THEN borrow(r, n, i, right, c, FALSE)
        ELSE mergeUnderfullChild(s2, n, i, c)

deleteFromLeaf(s, n, k) ==
    LET at == searchLeaf(n, k)
        a == AllocatePage(freeOverflowPages(s, n.cells[at.idx + 1].ov))
    IN  IF ~at.found THEN None(s)
        ELSE IF ~Ok(a) THEN None(a)
        ELSE Done(store(a, a.id, copyWithoutCell(n, at.idx)), a.id, 0, 0)

RECURSIVE deleteNode(_, _, _)
deleteNode(s, id, k) ==
    LET n == s.mem[id]
        i == searchInternal(n, k)
        c == child(n, i)
        g == Get(s, c)
        r == deleteNode(g, c, k)
        u == Unpin(r.s, c)
        f == FreePage(u, c)
    IN  IF n.type = "leaf" THEN deleteFromLeaf(s, n, k)
        ELSE IF ~Ok(g) THEN None(g)
        ELSE IF ~Ok(u) \/ r.new = 0 THEN None(u)
        ELSE IF ~underfull(u.mem[r.new]) THEN replaceChild(f, n, i, r.new)
        ELSE repairUnderfullChild(f, n, i, r.new)

\* The root r was rewritten as d says; an empty root is dropped.
shrinkRoot(d, r) ==
    LET u == Unpin(d.s, r)
        f == FreePage(u, r)
        n == f.mem[d.new]
        drop == FreePage(Unpin(f, d.new), d.new)
    IN  IF ~Ok(u) \/ d.new = 0 THEN Tree(u, r)
        ELSE IF n.cells = <<>> THEN Tree(drop, IF n.type = "leaf" THEN 0 ELSE n.right)
        ELSE Tree(Unpin(f, d.new), d.new)

delete(s, r, k) ==
    LET g == Get(s, r)
    IN  IF r = 0 THEN Tree(s, 0)
        ELSE IF Ok(g) THEN shrinkRoot(deleteNode(g, r, k), r)
        ELSE Tree(g, r)

RECURSIVE freeSubtree(_, _)
freeSubtree(s, id) ==
    LET g == Get(s, id)
        n == s.mem[id]
        overflows == FoldLeft(LAMBDA t, c : freeOverflowPages(t, c.ov), g, n.cells)
        children == [j \in 1 .. nCells(n) + 1 |-> child(n, j - 1)]
        below == FoldLeft(LAMBDA t, c : freeSubtree(t, c), Unpin(g, id), children)
    IN  IF ~Ok(s) \/ id = 0 THEN s
        ELSE IF ~Ok(g) THEN g
        ELSE IF n.type = "leaf"
             THEN IF Ok(overflows) THEN FreePage(Unpin(overflows, id), id) ELSE Unpin(overflows, id)
        ELSE IF Ok(below) THEN FreePage(below, id) ELSE below

----------------------------------------------------------------------------
(* Reading a tree.                                                         *)

RECURSIVE Search(_, _, _)
Search(mem, r, k) ==
    LET n == mem[r]
        at == searchLeaf(n, k)
    IN  IF r = 0 THEN Nil
        ELSE IF n.type = "internal" THEN Search(mem, child(n, searchInternal(n, k)), k)
        ELSE IF at.found THEN leafValue(mem, n.cells[at.idx + 1])
        ELSE Nil

Children(n) == [j \in 1 .. nCells(n) + 1 |-> child(n, j - 1)]

\* Every page of the tree, as often as it is referred to.
RECURSIVE PagesOf(_, _)
PagesOf(mem, id) ==
    LET n == mem[id]
        below == IF n.type = "leaf" THEN [j \in DOMAIN n.cells |-> chain(mem, n.cells[j].ov)]
                 ELSE [j \in DOMAIN Children(n) |-> PagesOf(mem, Children(n)[j])]
    IN  IF id = 0 THEN <<>> ELSE <<id>> \o FlattenSeq(below)

----------------------------------------------------------------------------
(* The operations of the bucket's tree in a transaction.                   *)

Empty == [k \in Key |-> Nil]
Fresh(mem, size) ==
    [mem |-> mem, pins |-> {}, allocated |-> {}, reusable |-> <<>>, freed |-> <<>>,
     numPages |-> size, luck |-> 0, err |-> "ok", id |-> 0, ov |-> 0]

Init ==
    /\ tx = Fresh(<<>>, 2)
    /\ root = 0
    /\ content = Empty
    /\ base = [root |-> 0, pages |-> {}, content |-> Empty]
    /\ out = [got |-> "ok", want |-> "ok"]

\* After an error the caller gives the transaction up (DB.Update rolls back).
Failed == out.got \in {"io", "panic"}

\* With luck to spare a call goes as it does with no failure at all.
Apply(t, want, map) ==
    /\ t.s.luck < 0 \/ t.s.err = "io"
    /\ tx' = [t.s EXCEPT !.luck = 0, !.id = 0, !.ov = 0, !.err = "ok"]
    /\ root' = t.root
    /\ content' = map
    /\ out' = [got |-> t.s.err, want |-> want]
    /\ UNCHANGED base

Update(k, v, mode, l) ==
    LET want == CASE KeyLen[k] > maxKeySize -> "toobig"
                  [] KeyLen[k] <= maxKeySize /\ mode = "insert" /\ content[k] # Nil -> "exists"
                  [] KeyLen[k] <= maxKeySize /\ mode = "update" /\ content[k] = Nil -> "notfound"
                  [] OTHER -> "ok"
    IN  /\ ~Failed
        /\ Apply(update([tx EXCEPT !.luck = l], root, k, v, mode), want,
                 IF want = "ok" THEN [content EXCEPT ![k] = v] ELSE content)

Delete(k, l) ==
    /\ ~Failed
    /\ Apply(delete([tx EXCEPT !.luck = l], root, k), "ok", [content EXCEPT ![k] = Nil])

\* Dropping the bucket frees its tree; one created again starts with none.
FreeAll(l) ==
    LET s == freeSubtree([tx EXCEPT !.luck = l], root)
    IN  /\ ~Failed /\ root # 0
        /\ Apply(Tree(s, IF Ok(s) THEN 0 ELSE root), "ok", Empty)

Commit ==
    LET ids == Range(PagesOf(tx.mem, root))
    IN  /\ ~Failed
        /\ tx' = Fresh(Restrict(tx.mem, ids), tx.numPages)
        /\ base' = [root |-> root, pages |-> ids, content |-> content]
        /\ out' = [got |-> "ok", want |-> "ok"]
        /\ UNCHANGED <<root, content>>

Abort ==
    /\ tx' = Fresh(Restrict(tx.mem, base.pages), tx.numPages)
    /\ root' = base.root
    /\ content' = base.content
    /\ out' = [got |-> "ok", want |-> "ok"]
    /\ UNCHANGED base

TreeStep ==
    \E l \in Luck :
      \/ \E p \in Puts : \E m \in Modes[p[1]] : Update(p[1], p[2], m, l)
      \/ \E k \in Key : Delete(k, l)
      \/ FreeAll(l)
Next == TreeStep \/ Commit \/ Abort

Spec == Init /\ [][Next]_vars

----------------------------------------------------------------------------
(* Correctness.                                                            *)

\* Types of the transaction's record, the root and the committed tree.
TypeOK ==
    /\ tx.pins \subseteq DOMAIN tx.mem /\ tx.allocated \subseteq DOMAIN tx.mem
    /\ \A id \in DOMAIN tx.mem : id \in 2 .. tx.numPages - 1
    /\ root = 0 \/ root \in DOMAIN tx.mem
    /\ base.pages \subseteq DOMAIN tx.mem
    /\ content \in [Key -> Value \cup {Nil}] /\ base.content \in [Key -> Value \cup {Nil}]

\* The tree is the map the calls built: every key reads back the value last put and every
\* other key nothing, and each call reports ErrKeyExists, ErrKeyNotFound or ErrKeyTooBig
\* exactly when the map says so (update.go, delete.go, btree.go Search).
TreeIsMap ==
    ~Failed => /\ out.got = out.want
               /\ \A k \in Key : Search(tx.mem, root, k) = content[k]

RECURSIVE Ordered(_, _, _, _)
Ordered(mem, id, lo, hi) ==
    LET n == mem[id]
        ks == [j \in DOMAIN n.cells |-> n.cells[j].key]
        fence == <<lo>> \o ks \o <<hi>>
    IN  /\ \A j \in DOMAIN ks : lo <= ks[j] /\ ks[j] < hi
        /\ \A j \in 1 .. Len(ks) - 1 : ks[j] < ks[j + 1]
        /\ n.type = "internal" =>
             \A j \in DOMAIN Children(n) : Ordered(mem, Children(n)[j], fence[j], fence[j + 1])

RECURSIVE Depths(_, _)
Depths(mem, id) ==
    LET n == mem[id]
    IN  IF n.type = "leaf" THEN {0}
        ELSE {d + 1 : d \in UNION {Depths(mem, c) : c \in Range(Children(n))}}

\* The shape a search and a cursor rely on, kept by splits, borrows and merges at any depth:
\* keys in order within their parent's separators, all leaves equally deep, and no node
\* left empty (update.go, delete.go).
WellFormed ==
    ~Failed /\ root # 0 =>
      /\ Ordered(tx.mem, root, 0, Max(Key) + 1)
      /\ Cardinality(Depths(tx.mem, root)) = 1
      /\ \A id \in Range(PagesOf(tx.mem, root)) :
           tx.mem[id].type # "overflow" => tx.mem[id].cells # <<>>

\* Page accounting is exact: the pages of the tree, overflow chains included, are those the
\* transaction holds (allocated by it, or committed and not freed), none is referred to
\* twice, and none is freed twice (the FreePage calls of update.go, delete.go, overflow.go).
PagesExact ==
    ~Failed =>
      LET ids == PagesOf(tx.mem, root)
      IN  /\ IsInjective(ids) /\ IsInjective(tx.freed) /\ IsInjective(tx.reusable)
          /\ Range(ids) = tx.allocated \cup (base.pages \ Range(tx.freed))
          /\ Range(tx.freed) \subseteq base.pages
          /\ Range(tx.reusable) \cap (base.pages \cup tx.allocated) = {}

\* Copy-on-write: whatever the transaction did, or failed to do half-way, the committed
\* tree still reads as committed, so a reader's snapshot and a rollback find it intact.
BaseIntact == \A k \in Key : Search(tx.mem, base.root, k) = base.content[k]

\* Every page an operation pinned is unpinned when it returns, by each of its error paths
\* too; a pin left behind keeps the page in the pool for ever.
PinsReturned == out.got # "panic" => tx.pins = {}

\* No call trips an assertion of bnode.go, writes a cell outside its page, or unpins a page
\* that is not pinned: Delete and Put end with a result (README.md:202, 303).
NoPanic == out.got # "panic"
=============================================================================
