------------------------------- MODULE MCTxn -------------------------------
(***************************************************************************)
(* Small instances of Txn for TLC.                                         *)
(***************************************************************************)
EXTENDS TxnInv, TLC

Symmetry == Permutations(Reader)

\* Contents that no meta names and that the tree under construction does not hold
\* are all alike: no step and no property tells them apart.  The view counts states
\* that differ only there as one.
Named(p) == {m.img[p] : m \in {n \in Metas : p \in DOMAIN n.img}}
              \cup {mem[q] : q \in {p} \cap (wtree \cup Range(chainIDs))}
Seen(p, v) == IF v \in Named(p) THEN v ELSE 0

View == <<mode, metaErrors, metaVars, dirty, dbVars, pending, readVars, phase, writeVars,
          [p \in Page |-> <<Seen(p, mem[p]), Seen(p, disk[p]), {Seen(p, v) : v \in vol[p]}>>]>>

\* Without crashes the contents of data pages decide nothing.
ListView == <<mode, dirty, mdirty, mbuf, mdisk, dbVars, pending, readVars, phase, writeVars>>
============================================================================
