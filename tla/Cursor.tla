------------------------------- MODULE Cursor -------------------------------
(***************************************************************************)
(* The cursor (src/cursor.go): a stack of pinned nodes from the root to a  *)
(* leaf, moved over trees that bulk loads, Put and Delete have built.  The *)
(* tree is not changed while the cursor stands in it.  A page access may   *)
(* fail; the methods then return nil, nil.                                 *)
(*                                                                         *)
(* With "cursor" in Hazards, Next and Prev may follow such a failure; the  *)
(* stack First and Last leave behind then ends in an internal node.        *)
(***************************************************************************)
EXTENDS BulkLoad

CONSTANT CursorLuck          \* as Luck, for the cursor's page accesses

VARIABLE cur                 \* stack, its pins, what the call returned and what it should

cursorVars == <<loadVars, cur>>

NoEntry == <<0, Nil>>
Frame(id, idx) == [id |-> id, idx |-> idx]
Moved(s, stack, kv) == [s |-> s, stack |-> stack, kv |-> kv]
IdsOf(stack) == [i \in DOMAIN stack |-> stack[i].id]

\* Valid, and kv: the entry under the cursor.
kv(s, stack) ==
    LET f == Last(stack)
        n == s.mem[f.id]
        c == n.cells[f.idx + 1]
        r == readValue(s, c)
    IN  IF stack = <<>> \/ f.idx >= nCells(n) THEN Moved(s, stack, NoEntry)
        ELSE IF n.type # "leaf" THEN Moved(raise(s, "panic"), stack, NoEntry)
        ELSE IF ~Ok(r) THEN Moved(r, stack, NoEntry)
        ELSE Moved(r, stack, <<c.key, leafValue(s.mem, c)>>)

\* descendLeftmost and descendRightmost.
RECURSIVE descend(_, _, _, _)
descend(s, stack, id, leftmost) ==
    LET g == Get(s, id)
        n == s.mem[id]
        idx == IF leftmost \/ n.cells = <<>> THEN 0
               ELSE IF n.type = "leaf" THEN nCells(n) - 1 ELSE nCells(n)
        deeper == Append(stack, Frame(id, idx))
    IN  IF ~Ok(g) THEN Moved(g, stack, NoEntry)
        ELSE IF n.type = "leaf" THEN Moved(g, deeper, NoEntry)
        ELSE descend(g, deeper, child(n, idx), leftmost)

\* Mutant: the stack is dropped with its pins.
closedPinned(s, stack) == Moved(s, <<>>, NoEntry)

closed(s, stack) == Moved(UnpinAll(s, IdsOf(stack)), <<>>, NoEntry)

\* First and Last, which close the cursor first.
toEnd(s, stack, r, leftmost) ==
    LET c == closed(s, stack)
        d == descend(c.s, <<>>, r, leftmost)
    IN  IF r = 0 THEN c ELSE IF Ok(d.s) THEN kv(d.s, d.stack) ELSE d

\* Mutant: the rightmost child is not counted.
hasMoreCells(n, idx, forward) == IF forward THEN idx + 1 < nCells(n) ELSE idx > 0

hasMore(n, idx, forward) == IF forward THEN idx < nCells(n) ELSE idx > 0

\* From a used-up leaf to the next one, forward or back, in the nearest node that has one.
RECURSIVE climb(_, _, _)
climb(s, stack, forward) ==
    LET u == Unpin(s, Last(stack).id)
        up == Front(stack)
        top == Last(up)
        n == s.mem[top.id]
        to == IF forward THEN top.idx + 1 ELSE top.idx - 1
        d == descend(u, [up EXCEPT ![Len(up)].idx = to], child(n, to), forward)
    IN  IF up = <<>> THEN Moved(u, <<>>, NoEntry)
        ELSE IF ~hasMore(n, top.idx, forward) THEN climb(u, up, forward)
        ELSE IF ~Ok(d.s) THEN closed(d.s, d.stack)
        ELSE kv(d.s, d.stack)

\* Next and Prev.
move(s, stack, forward) ==
    LET f == Last(stack)
        within == IF forward THEN f.idx + 1 < nCells(s.mem[f.id]) ELSE f.idx > 0
        to == IF forward THEN f.idx + 1 ELSE f.idx - 1
    IN  IF stack = <<>> THEN Moved(s, stack, NoEntry)
        ELSE IF within THEN kv(s, [stack EXCEPT ![Len(stack)].idx = to])
        ELSE climb(s, stack, forward)

RECURSIVE seekFrom(_, _, _, _)
seekFrom(s, stack, id, k) ==
    LET g == Get(s, id)
        n == s.mem[id]
        idx == IF n.type = "leaf" THEN searchLeaf(n, k).idx ELSE searchInternal(n, k)
        deeper == Append(stack, Frame(id, idx))
    IN  IF ~Ok(g) THEN closed(g, stack)
        ELSE IF n.type # "leaf" THEN seekFrom(g, deeper, child(n, idx), k)
        ELSE IF idx >= nCells(n) THEN move(g, deeper, TRUE)
        ELSE kv(g, deeper)

seek(s, stack, r, k) ==
    LET c == closed(s, stack)
    IN  IF r = 0 THEN c ELSE seekFrom(c.s, <<>>, r, k)

----------------------------------------------------------------------------
\* The first or last entry of the map among the keys of ks.
Least(ks) == IF ks = {} THEN NoEntry ELSE <<Min(ks), content[Min(ks)]>>
Greatest(ks) == IF ks = {} THEN NoEntry ELSE <<Max(ks), content[Max(ks)]>>
Keys == {k \in Key : content[k] # Nil}

\* The cursor's accesses run in the transaction; its pins are kept apart from the tree's.
At(l) == [tx EXCEPT !.luck = l, !.pins = cur.pins]

Move(p, want) ==
    /\ ~Failed /\ ~Loading
    /\ p.s.luck < 0 \/ p.s.err = "io"
    /\ cur' = [stack |-> p.stack, pins |-> p.s.pins, got |-> p.kv, want |-> want, err |-> p.s.err]
    /\ Report("ok", "ok")
    /\ UNCHANGED <<tx, root, content, base, ld, ops>>

CursorFirst(l) == Move(toEnd(At(l), cur.stack, root, TRUE), Least(Keys))
CursorLast(l) == Move(toEnd(At(l), cur.stack, root, FALSE), Greatest(Keys))
CursorSeek(k, l) == Move(seek(At(l), cur.stack, root, k), Least({j \in Keys : j >= k}))

CursorNext(l) ==
    /\ cur.err = "ok" \/ "cursor" \in Hazards
    /\ Move(move(At(l), cur.stack, TRUE),
            IF cur.stack = <<>> THEN NoEntry ELSE Least({j \in Keys : j > cur.got[1]}))

CursorPrev(l) ==
    /\ cur.err = "ok" \/ "cursor" \in Hazards
    /\ Move(move(At(l), cur.stack, FALSE),
            IF cur.stack = <<>> THEN NoEntry ELSE Greatest({j \in Keys : j < cur.got[1]}))

CursorClose == Move(closed(At(-1), cur.stack), NoEntry)

CursorStep ==
    \/ \E l \in CursorLuck : CursorFirst(l) \/ CursorLast(l) \/ CursorNext(l) \/ CursorPrev(l)
    \/ \E k \in Key, l \in CursorLuck : CursorSeek(k, l)
    \/ CursorClose

Unused == [stack |-> <<>>, pins |-> {}, got |-> NoEntry, want |-> NoEntry, err |-> "ok"]

CursorInit == LoadInit /\ cur = Unused
CursorNextStep == CursorStep \/ (LoadNext /\ cur.stack = <<>> /\ cur' = Unused)
CursorSpec == CursorInit /\ [][CursorNextStep]_cursorVars

----------------------------------------------------------------------------
\* A cursor walks the map in key order, both ways and from any start, across the leaves and
\* levels of every tree the loader and the updates build: First, Last, Seek, Next and Prev
\* return exactly the entry the map has there, or nil, nil at its ends, and none of them
\* reads an internal node as a leaf (cursor.go).
CursorRight == cur.err # "panic" /\ (cur.err = "ok" => cur.got = cur.want)

\* Between calls exactly the nodes on the stack are pinned, after a failed access too, so
\* that Close gives every pin back and no node under the cursor can be evicted.
CursorPins == cur.pins = Range(IdsOf(cur.stack)) /\ IsInjective(IdsOf(cur.stack))
=============================================================================
