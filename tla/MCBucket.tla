------------------------------ MODULE MCBucket ------------------------------
(***************************************************************************)
(* Small instances of Bucket for TLC.                                      *)
(***************************************************************************)
EXTENDS Bucket, TLC

Symmetry == Permutations(Root) \cup Permutations(Name) \cup Permutations(Value)

\* What a call returned makes no difference to the next one, and what is left under a
\* root that nothing uses is never read.
View == <<[p \in Root |-> IF p \in InUse THEN tree[p] ELSE EmptyMap],
          catalog, writing, buckets, freed, snap>>
============================================================================
