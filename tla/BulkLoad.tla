------------------------------ MODULE BulkLoad ------------------------------
(***************************************************************************)
(* The bulk loader (src/bulkload.go): it builds an empty tree bottom-up    *)
(* from keys in order, keeping the right edge (the spine) pinned, and      *)
(* publishes it with Finish; the tree's own operations run before and      *)
(* after.  Four situations in which the loader does not keep its promises  *)
(* are left out unless Hazards names them:                                 *)
(*   "lone"    Delete in a tree whose right edge has a node with no        *)
(*             separator, as the loader leaves it;                         *)
(*   "spine"   AllocatePage failing in promote after the full node was     *)
(*             unpinned but is still on the spine;                         *)
(*   "leak"    going on with the transaction after Abort, which frees the  *)
(*             spine only;                                                 *)
(*   "meddle"  Put and Delete between BeginBulkLoad and Finish.            *)
(* ("cursor" belongs to the module Cursor.)                                *)
(***************************************************************************)
EXTENDS BTree

CONSTANTS FillFactor,        \* a set of fill factors, in percent
          MaxOps,            \* bound: operations on the tree besides the load
          Hazards            \* the situations that are let in

ASSUME LoadAssumption ==
    /\ FillFactor \subseteq Nat /\ MaxOps \in Nat
    /\ Hazards \subseteq {"lone", "spine", "leak", "meddle", "cursor"}

VARIABLES ld,                \* the BulkLoader
          ops                \* operations on the tree so far

loadVars == <<vars, ld, ops>>

NoLoader == [open |-> FALSE, finished |-> FALSE, spine |-> <<>>, target |-> 0, last |-> 0, map |-> Empty]

Loading == ld.open /\ ~ld.finished

\* shouldRollLeaf and shouldRollInternal.
shouldRoll(n, size, target) ==
    /\ nCells(n) # 0
    /\ freeSpace(n) < size + 2 \/ (PageSize - freeSpace(n)) + size + 2 > target

Loaded(s, spine) == [s |-> s, spine |-> spine]

RECURSIVE promote(_, _, _, _, _, _, _)
promote(s, spine, target, level, old, sep, new) ==
    LET a == AllocatePage(s)
        cur == spine[level + 1]
        n == s.mem[cur]
        b == AllocatePage(Unpin(s, cur))
    IN  IF level >= Len(spine)
        THEN IF ~Ok(a) THEN Loaded(a, spine)
             ELSE Loaded(store(a, a.id, Internal(<<internalCell(old, sep)>>, new)), Append(spine, a.id))
        ELSE IF n.right # old THEN Loaded(raise(s, "panic"), spine)
        ELSE IF ~shouldRoll(n, internalCellSize(sep), target)
             THEN Loaded(store(s, cur, Internal(Append(n.cells, internalCell(old, sep)), new)), spine)
        ELSE IF ~Ok(b) THEN Loaded(b, spine)
        ELSE promote(store(b, b.id, Internal(<<>>, new)), [spine EXCEPT ![level + 1] = b.id],
                     target, level + 1, cur, sep, b.id)

\* Mutants: the full leaf stays on the spine; the separator is the last key of that leaf.
openLeafStale(s, spine, target, k, v) ==
    LET a == AllocatePage(s)
        fresh == store(a, a.id, Leaf(<<>>))
        n == s.mem[spine[1]]
    IN  IF spine # <<>> /\ ~shouldRoll(n, leafCellSize(k, v), target) THEN Loaded(s, spine)
        ELSE IF ~Ok(a) THEN Loaded(a, spine)
        ELSE IF spine = <<>> THEN Loaded(fresh, <<a.id>>)
        ELSE promote(Unpin(fresh, spine[1]), spine, target, 1, spine[1], k, a.id)

openLeafLastKey(s, spine, target, k, v) ==
    LET a == AllocatePage(s)
        fresh == store(a, a.id, Leaf(<<>>))
        n == s.mem[spine[1]]
    IN  IF spine # <<>> /\ ~shouldRoll(n, leafCellSize(k, v), target) THEN Loaded(s, spine)
        ELSE IF ~Ok(a) THEN Loaded(a, spine)
        ELSE IF spine = <<>> THEN Loaded(fresh, <<a.id>>)
        ELSE promote(Unpin(fresh, spine[1]), [spine EXCEPT ![1] = a.id], target, 1, spine[1],
                     key(n, nCells(n) - 1), a.id)

\* The leaf the cell goes to: the one of the spine, the first ever, or a new sibling.
openLeaf(s, spine, target, k, v) ==
    LET a == AllocatePage(s)
        fresh == store(a, a.id, Leaf(<<>>))
    IN  IF spine # <<>> /\ ~shouldRoll(s.mem[spine[1]], leafCellSize(k, v), target)
        THEN Loaded(s, spine)
        ELSE IF ~Ok(a) THEN Loaded(a, spine)
        ELSE IF spine = <<>> THEN Loaded(fresh, <<a.id>>)
        ELSE promote(Unpin(fresh, spine[1]), [spine EXCEPT ![1] = a.id], target, 1, spine[1], k, a.id)

append(s, spine, target, k, v) ==
    LET o == openLeaf(s, spine, target, k, v)
        leaf == o.spine[1]
        w == leafCellOverflow(o.s, k, v)
        n == [o.s.mem[leaf] EXCEPT !.cells = Append(@, leafCell(k, v, w.ov))]
    IN  IF ~Ok(o.s) THEN o
        ELSE Loaded(IF Ok(w) THEN store(w, leaf, n) ELSE w, o.spine)

----------------------------------------------------------------------------
\* What a call that does not change the tree reports.
Report(got, want) == out' = [got |-> got, want |-> want]

BeginBulkLoad(f) ==
    LET pct == CASE f = 0 -> 70 [] f > 0 /\ f < 30 -> 30 [] f > 100 -> 100 [] OTHER -> f
    IN  /\ ~Failed /\ ~Loading
        /\ Report(IF root # 0 THEN "notempty" ELSE "ok", IF content # Empty THEN "notempty" ELSE "ok")
        /\ ld' = IF root # 0 THEN ld
                 ELSE [NoLoader EXCEPT !.open = TRUE, !.target = (PageSize * pct) \div 100]
        /\ UNCHANGED <<tx, root, content, base, ops>>

LoaderAppend(k, v, l) ==
    LET refused == CASE ld.finished -> "finished"
                     [] ~ld.finished /\ KeyLen[k] > maxKeySize -> "toobig"
                     [] ~ld.finished /\ KeyLen[k] <= maxKeySize /\ k <= ld.last -> "order"
                     [] OTHER -> "ok"
        p == append([tx EXCEPT !.luck = l], ld.spine, ld.target, k, v)
    IN  /\ ~Failed /\ ld.open
        /\ IF refused # "ok"
           THEN Report(refused, refused) /\ UNCHANGED <<tx, root, content, base, ld>>
           ELSE /\ "spine" \in Hazards \/ Ok(p.s) \/ Range(p.spine) \subseteq p.s.pins
                /\ Apply(Tree(p.s, root), "ok", content)
                /\ ld' = [ld EXCEPT !.spine = p.spine,
                                    !.last = IF Ok(p.s) THEN k ELSE @,
                                    !.map = IF Ok(p.s) THEN [@ EXCEPT ![k] = v] ELSE @]
        /\ UNCHANGED ops

\* Mutants: the top of the spine stays pinned; the leaf is published as the root.
UnpinAllButTop(s, ids) == FoldLeft(LAMBDA t, id : Unpin(t, id), s, IF ids = <<>> THEN ids ELSE Front(ids))
rootOfLeaf(spine) == Head(spine)

rootOf(spine) == Last(spine)
UnpinAll(s, ids) == FoldLeft(LAMBDA t, id : Unpin(t, id), s, ids)

Finish ==
    /\ ~Failed /\ ld.open
    /\ IF ld.finished THEN Report("finished", "finished") /\ UNCHANGED <<tx, root, content, base, ld>>
       ELSE /\ Apply(Tree(UnpinAll([tx EXCEPT !.luck = -1], ld.spine),
                          IF ld.spine = <<>> THEN root ELSE rootOf(ld.spine)),
                     "ok", [k \in Key |-> IF ld.map[k] # Nil THEN ld.map[k] ELSE content[k]])
            /\ ld' = [NoLoader EXCEPT !.open = TRUE, !.finished = TRUE]
    /\ UNCHANGED ops

\* BulkLoader.Abort, after a failed Append too; the caller then gives the transaction up.
LoaderAbort ==
    LET free(t, id) == FreePage(Unpin(t, id), id)
        s == FoldLeft(free, [tx EXCEPT !.luck = -1], ld.spine)
    IN  /\ Loading
        /\ tx' = [s EXCEPT !.luck = 0, !.err = "ok"]
        /\ ld' = [NoLoader EXCEPT !.open = TRUE, !.finished = TRUE]
        /\ Report(IF ~Ok(s) THEN "panic" ELSE IF "leak" \in Hazards THEN "ok" ELSE "io", "ok")
        /\ UNCHANGED <<root, content, base, ops>>

\* An internal node with a child and no separator.
HasLone ==
    \E id \in Range(PagesOf(tx.mem, root)) :
      tx.mem[id].type = "internal" /\ tx.mem[id].cells = <<>>

Operate ==
    /\ ops < MaxOps /\ ops' = ops + 1
    /\ ~Loading \/ "meddle" \in Hazards
    /\ \E l \in Luck :
         \/ \E p \in Puts : \E m \in Modes[p[1]] : Update(p[1], p[2], m, l)
         \/ \E k \in Key : ("lone" \in Hazards \/ ~HasLone) /\ Delete(k, l)
         \/ FreeAll(l)
    /\ UNCHANGED ld

Close == ~Loading /\ (Commit \/ Abort) /\ ld' = NoLoader /\ UNCHANGED ops

LoadStep ==
    \/ \E f \in FillFactor : BeginBulkLoad(f)
    \/ \E p \in Puts, l \in Luck : LoaderAppend(p[1], p[2], l)
    \/ Finish
    \/ LoaderAbort

LoadInit == Init /\ ld = NoLoader /\ ops = 0
LoadNext == LoadStep \/ Operate \/ Close
LoadSpec == LoadInit /\ [][LoadNext]_loadVars

----------------------------------------------------------------------------
\* Exactly the spine is pinned, after a failed Append too, and nothing once the load ended.
\* While it loads, every page the transaction holds is in the tree under the top of the
\* spine, each once, so that Finish publishes what was allocated, and the accounting is
\* exact before and after (bulkload.go Append, promote, Finish, Abort).
LoadExact ==
    /\ tx.pins = Range(ld.spine)
    /\ IF ld.spine = <<>> THEN PagesExact
       ELSE LET ids == PagesOf(tx.mem, Last(ld.spine))
            IN  ~Failed => /\ IsInjective(ids) /\ Range(ids) = tx.allocated
                           /\ Range(ld.spine) \subseteq Range(ids)

\* The tree that is being built, and the one published, has its keys in order and its leaves
\* equally deep, none of them empty, whatever the fill factor and the values' sizes.
LoadWellFormed ==
    LET top == IF ld.spine # <<>> THEN Last(ld.spine) ELSE root
    IN  ~Failed /\ top # 0 =>
          /\ Ordered(tx.mem, top, 0, Max(Key) + 1)
          /\ Cardinality(Depths(tx.mem, top)) = 1
          /\ \A id \in Range(PagesOf(tx.mem, top)) :
               tx.mem[id].type = "leaf" => tx.mem[id].cells # <<>>
=============================================================================
