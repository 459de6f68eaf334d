---------------------------- MODULE MCBufferPool ----------------------------
(***************************************************************************)
(* Small instances of BufferPool for TLC.                                  *)
(***************************************************************************)
EXTENDS BufferPool, TLC

Symmetry == Permutations(Reader)

\* What is left in a free frame is overwritten before anyone reads it, as long as
\* no flush is disturbed.
Read == {mine[c] : c \in {x \in Proc : At(x, "install")}}
View == <<[f \in Frame |-> IF frames[f].pageId = freePageId /\ f \notin Read
                             THEN [frames[f] EXCEPT !.data = NewFrame.data] ELSE frames[f]],
          table, loading, clockHand, disk, callVars, flushVars, txnVars>>
============================================================================
