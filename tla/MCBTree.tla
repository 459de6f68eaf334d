------------------------------ MODULE MCBTree ------------------------------
(***************************************************************************)
(* Small instances of BTree for TLC.                                       *)
(***************************************************************************)
EXTENDS BTree

CONSTANTS K, small, middle, large, smallLen, middleLen, largeLen, LuckBound

\* The last key is longer than maxKeySize.
MCKey == 1 .. K + 1
MCKeyLen == [k \in MCKey |-> IF k = K + 1 THEN maxKeySize + 1 ELSE 1]
\* In MCBTree.cfg middle goes three to a leaf, small six, large to a chain of two pages.
MCValueLen == [v \in Value |-> CASE v = small -> smallLen [] v = middle -> middleLen [] OTHER -> largeLen]
\* Every key with a middle value, two of them with another.
MCPuts == (MCKey \X {middle}) \cup {<<2, small>>, <<3, large>>}
\* An Insert or Update that is not turned down is a Put; two keys show both.
MCModes == [k \in MCKey |-> IF k \in {2, 5} THEN Mode ELSE {"upsert"}]
MCLuck == {-1} \cup 0 .. LuckBound - 1

RECURSIVE Shape(_)
Shape(id) ==
    LET n == tx.mem[id]
        old(p) == p \in base.pages
    IN  IF id = 0 THEN <<>>
        ELSE IF n.type = "leaf"
             THEN <<old(id), [j \in DOMAIN n.cells |->
                       <<n.cells[j].key, leafValue(tx.mem, n.cells[j]), old(n.cells[j].ov)>>]>>
        ELSE <<old(id), [j \in DOMAIN n.cells |-> n.cells[j].key],
               [j \in DOMAIN Children(n) |-> Shape(Children(n)[j])]>>

\* Page ids do not matter: two states with the same tree, the same pages of it committed,
\* and the same verdict of every invariant are one.  A failed transaction can only abort.
View ==
    <<out, tx.pins = {}, BaseIntact,
      IF Failed THEN <<>> ELSE <<Shape(root), content, PagesExact>>>>
=============================================================================
