------------------------------ MODULE MCCursor ------------------------------
(***************************************************************************)
(* Small instances of BulkLoad and Cursor for TLC.                         *)
(***************************************************************************)
EXTENDS Cursor

CONSTANTS K, middle, large

\* The last key is longer than maxKeySize.
MCKey == 1 .. K + 1
MCKeyLen == [k \in MCKey |-> IF k = K + 1 THEN maxKeySize + 1 ELSE 1]
MCValueLen == [v \in Value |-> IF v = middle THEN 16 ELSE 80]
MCPuts == {<<k, IF k = 3 THEN large ELSE middle>> : k \in MCKey}
MCModes == [k \in MCKey |-> IF k \in {2, 5} THEN Mode ELSE {"upsert"}]
\* No failure, or one at the second access.
MCLuck == {-1, 1}

Top == IF ld.spine # <<>> THEN Last(ld.spine) ELSE root

RECURSIVE Shape(_)
Shape(id) ==
    LET n == tx.mem[id]
        old(p) == p \in base.pages
        marks == <<old(id), id \in Range(ld.spine), {i \in DOMAIN cur.stack : cur.stack[i].id = id}>>
    IN  IF id = 0 THEN <<>>
        ELSE IF n.type = "leaf"
             THEN <<marks, [j \in DOMAIN n.cells |->
                       <<n.cells[j].key, leafValue(tx.mem, n.cells[j]), old(n.cells[j].ov)>>]>>
        ELSE <<marks, [j \in DOMAIN n.cells |-> n.cells[j].key],
               [j \in DOMAIN Children(n) |-> Shape(Children(n)[j])]>>

\* Page ids do not matter: two states with the same tree, the same of its pages committed, on
\* the spine and under the cursor, and the same verdicts of the invariants are one.
View ==
    <<out, ops, ld.open, ld.finished, ld.target, ld.last, Len(ld.spine),
      LoadExact, CursorPins, cur.got, cur.want, cur.err,
      [i \in DOMAIN cur.stack |-> cur.stack[i].idx],
      IF Failed THEN <<>> ELSE <<Shape(Top), content, ld.map>>>>
=============================================================================
