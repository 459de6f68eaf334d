----------------------------- MODULE TxnReaders -----------------------------
(***************************************************************************)
(* The steps of read transactions, and the writer's look at the oldest of  *)
(* them, preserve the inductive invariant of Txn.                          *)
(***************************************************************************)
EXTENDS TxnLemmas, FiniteSetTheorems, WellFoundedInduction

\* A nonempty set of natural numbers has a least element.
LEMMA HasMin ==
  ASSUME NEW S \in SUBSET Nat, S # {}
  PROVE  \E t \in S : \A u \in S : t <= u
<1>1. \E t \in S : \A u \in S : ~(<<u, t>> \in OpToRel(<, Nat))
  BY NatLessThanWellFounded, WFMin
<1>2. PICK t \in S : \A u \in S : ~(<<u, t>> \in OpToRel(<, Nat))
  BY <1>1
<1>3. ASSUME NEW u \in S PROVE t <= u
  <2>1. ~(<<u, t>> \in OpToRel(<, Nat))
    BY <1>2
  <2>2. ~(u < t)
    BY <2>1 DEF OpToRel
  <2> QED BY <2>2
<1> QED BY <1>3

\* minReaderTxn returns the oldest snapshot counted, or the current one.
LEMMA MinReaderFacts ==
  ASSUME TypeOK, currentMeta.txnID >= 0
  PROVE  /\ minReaderTxn \in TxnID /\ minReaderTxn <= currentMeta.txnID
         /\ \A t \in TxnID : readers[t] > 0 => minReaderTxn <= t
<1> DEFINE older == {t \in TxnID : readers[t] > 0 /\ t < currentMeta.txnID}
<1>1. currentMeta.txnID \in TxnID /\ TxnID \subseteq Nat
  BY MetaTypes
<1>2. \A t \in TxnID : readers[t] > 0 => t \in older \/ currentMeta.txnID <= t
  BY <1>1, BoundsAssumption DEF TxnID
<1>3. CASE older = {}
  <2>1. minReaderTxn = currentMeta.txnID
    BY <1>3 DEF minReaderTxn
  <2> QED BY <2>1, <1>1, <1>2, <1>3, BoundsAssumption DEF TxnID
<1>4. CASE older # {}
  <2>1. \E t \in older : \A u \in older : t <= u
    BY <1>1, <1>4, HasMin, Zenon
  <2>2. minReaderTxn = CHOOSE t \in older : \A u \in older : t <= u
    BY <1>4 DEF minReaderTxn
  <2>3. minReaderTxn \in older /\ \A u \in older : minReaderTxn <= u
    BY <2>1, <2>2
  <2>4. minReaderTxn \in TxnID /\ minReaderTxn < currentMeta.txnID
    BY <2>3
  <2> HIDE DEF older
  <2> QED BY <2>3, <2>4, <1>1, <1>2, BoundsAssumption DEF TxnID
<1> QED BY <1>3, <1>4

\* A reader whose BeginRead has returned is counted.
LEMMA CountedFacts ==
  ASSUME TypeOK, ReadersInv, NEW r \in Reader, rstate[r] = "active"
  PROVE  readers[snap[r].txnID] \in Nat \ {0}
<1>1. snap[r].txnID \in TxnID
  BY SnapFacts
<1>2. readers[snap[r].txnID] = Cardinality(Counted(snap[r].txnID))
  BY <1>1 DEF ReadersInv
<1>3. r \in Counted(snap[r].txnID) /\ Counted(snap[r].txnID) \subseteq Reader
  BY DEF Counted
<1>4. IsFiniteSet(Counted(snap[r].txnID))
  BY <1>3, ReaderAssumption, FS_Subset
<1> QED BY <1>2, <1>3, <1>4, FS_EmptySet, FS_CardinalityType

\* minReaderTxn, read under readersMu, bounds every snapshot under way; later ones
\* are newer.
LEMMA LoadMinReaderPreserves ==
  ASSUME IInv, TypeOK', LoadMinReader
  PROVE  IInv'
<1>0. /\ TypeOK /\ MetasSound /\ IdleInv /\ ListsInv /\ WriterInv /\ BoundInv
      /\ ReadersInv /\ CleanInv /\ SnapshotIntact
  BY DEF IInv
<1> USE DEF metaVars, pageVars, dbVars, readVars
<1>1. /\ mode = "up" /\ phase # "none" /\ ReadersMuFree /\ minTxn' = minReaderTxn
      /\ UNCHANGED <<mode, metaVars, pageVars, dbVars, pending, readVars, phase,
                     numPages, wtree, allocated, freed, reusable, chainIDs>>
  BY DEF LoadMinReader, Allocating
<1>2. /\ minReaderTxn \in TxnID /\ minReaderTxn <= currentMeta.txnID
      /\ \A t \in TxnID : readers[t] > 0 => minReaderTxn <= t
  BY <1>0, <1>1, MinReaderFacts DEF IdleInv
<1>3. Free' = Free /\ Live' = Live /\ \A t \in TxnID : Counted(t)' = Counted(t)
  BY <1>1 DEF Free, Live, Counted
<1>4. MetasSound' /\ IdleInv'
  BY <1>0, <1>1 DEF MetasSound, IdleInv
<1>5. ListsInv' /\ WriterInv' /\ BoundInv'
  BY <1>0, <1>1, <1>3 DEF ListsInv, WriterInv, BoundInv
<1>6. ReadersInv'
  <2>1. ASSUME NEW r \in Reader, rstate[r] # "idle" PROVE minTxn' <= snap[r].txnID
    <3>1. rstate[r] = "active"
      BY <1>0, <1>1, <2>1, ReaderTypes DEF ReadersMuFree
    <3>2. snap[r].txnID \in TxnID /\ readers[snap[r].txnID] > 0
      BY <1>0, <2>1, <3>1, SnapFacts, CountedFacts
    <3> QED BY <1>1, <1>2, <3>2
  <2>2. ASSUME NEW r \in Reader, NEW q, Holds(r, q) PROVE Holds(r, q)'
    BY <1>1, <2>2 DEF Holds, Live
  <2> QED BY <1>0, <1>1, <1>2, <1>3, <2>1, <2>2 DEF ReadersInv
<1>7. CleanInv' /\ SnapshotIntact'
  BY <1>0, <1>1, ContentsFrame DEF Needed
<1> QED BY <1>4, <1>5, <1>6, <1>7 DEF IInv

\* BeginRead and Abort of read transactions keep the count of readers exact.
LEMMA ReadPreserves ==
  ASSUME IInv, TypeOK', ReadStep
  PROVE  IInv'
<1>0. /\ TypeOK /\ MetasSound /\ IdleInv /\ ListsInv /\ WriterInv /\ BoundInv
      /\ ReadersInv /\ CleanInv /\ SnapshotIntact
      /\ mode = "up" /\ UNCHANGED <<mode, metaVars, pageVars, dbVars, pending, evicting, phase, writeVars>>
  BY DEF IInv, ReadStep, BeginReadLoad, BeginReadRegister, ReadAbort
<1> USE DEF metaVars, pageVars, dbVars, writeVars
<1>1. MetasSound' /\ IdleInv'
  BY <1>0 DEF MetasSound, IdleInv
<1>2. ListsInv' /\ WriterInv' /\ BoundInv'
  <2>1. Free' = Free /\ Live' = Live
    BY <1>0 DEF Free, Live
  <2> QED BY <1>0, <2>1 DEF ListsInv, WriterInv, BoundInv
<1>3. /\ currentMeta.txnID \in TxnID /\ 0 <= currentMeta.txnID /\ currentMeta.txnID <= currentMeta.txnID
  BY <1>0, TxnFacts, BoundsAssumption DEF IdleInv, TxnID
<1>4. \A t \in TxnID : Counted(t) \subseteq Reader /\ IsFiniteSet(Counted(t))
  BY ReaderAssumption, FS_Subset DEF Counted
<1>5. ASSUME NEW r \in Reader, BeginReadLoad(r) PROVE IInv'
  <2>1. /\ rstate[r] = "idle" /\ snap' = [snap EXCEPT ![r] = currentMeta]
        /\ rstate' = [rstate EXCEPT ![r] = "loaded"] /\ UNCHANGED readers
    BY <1>5 DEF BeginReadLoad
  <2>2. /\ snap'[r] = currentMeta /\ rstate'[r] = "loaded"
        /\ \A q \in Reader \ {r} : snap'[q] = snap[q] /\ rstate'[q] = rstate[q]
    BY <1>0, <2>1, ReaderTypes
  <2>3. \A t \in TxnID : Counted(t)' = Counted(t)
    BY <2>1, <2>2 DEF Counted
  <2>4. ASSUME NEW q \in Reader, rstate'[q] # "idle"
        PROVE  /\ 0 <= snap'[q].txnID /\ snap'[q].txnID <= currentMeta.txnID
               /\ minTxn <= snap'[q].txnID
               /\ \A p \in DOMAIN snap'[q].img : Holds(q, p)'
               /\ Intact(snap'[q], mem) /\ DOMAIN snap'[q].img \subseteq Needed
    <3>1. CASE q = r
      BY <1>0, <1>3, <2>2, <3>1 DEF ReadersInv, Holds, Live, SnapshotIntact, Needed
    <3>2. CASE q # r
      <4>1. rstate[q] # "idle" /\ snap'[q] = snap[q]
        BY <2>2, <2>4, <3>2
      <4> QED BY <1>0, <4>1 DEF ReadersInv, Holds, Live, SnapshotIntact, Needed
    <3> QED BY <3>1, <3>2
  <2>5. ReadersInv'
    BY <1>0, <2>1, <2>3, <2>4 DEF ReadersInv
  <2>6. CleanInv' /\ SnapshotIntact'
    <3>1. Needed' \subseteq Needed
      BY <1>0, <2>4 DEF Needed, Live
    <3> QED BY <1>0, <2>4, <3>1 DEF CleanInv, SnapshotIntact, Intact
  <2> QED BY <1>1, <1>2, <2>5, <2>6 DEF IInv
<1>6. ASSUME NEW r \in Reader, BeginReadRegister(r) PROVE IInv'
  <2> DEFINE t0 == snap[r].txnID
  <2>0. TypeOK /\ \A t \in TxnID : readers[t] = Cardinality(Counted(t))
    BY <1>0 DEF ReadersInv
  <2>1. /\ rstate[r] = "loaded" /\ UNCHANGED snap /\ readers' = [readers EXCEPT ![t0] = @ + 1]
        /\ rstate' = [rstate EXCEPT ![r] = "active"] /\ t0 \in TxnID
    BY <1>0, <1>6, SnapFacts DEF BeginReadRegister
  <2>2. rstate'[r] = "active" /\ \A q \in Reader \ {r} : rstate'[q] = rstate[q]
    BY <1>0, <2>1, ReaderTypes
  <2>3. ASSUME NEW t \in TxnID PROVE readers'[t] = Cardinality(Counted(t)')
    <3>1. CASE t = t0
      <4>1. Counted(t)' = Counted(t) \cup {r} /\ r \notin Counted(t)
        BY <2>1, <2>2, <3>1 DEF Counted
      <4>2. Cardinality(Counted(t) \cup {r}) = Cardinality(Counted(t)) + 1
        BY <1>4, <4>1, FS_AddElement, Zenon
      <4> QED BY <2>0, <2>1, <3>1, <4>1, <4>2, ReaderTypes
    <3>2. CASE t # t0
      <4>1. Counted(t)' = Counted(t)
        BY <2>1, <2>2, <3>2 DEF Counted
      <4> QED BY <2>0, <2>1, <3>2, <4>1, ReaderTypes
    <3> QED BY <3>1, <3>2
  <2>4. \A q \in Reader : rstate'[q] # "idle" <=> rstate[q] # "idle"
    BY <2>1, <2>2
  <2>5. ReadersInv'
    BY <1>0, <2>1, <2>3, <2>4 DEF ReadersInv, Holds, Live
  <2>6. CleanInv' /\ SnapshotIntact'
    <3>1. Needed' = Needed
      BY <1>0, <2>1, <2>4 DEF Needed, Live
    <3> QED BY <1>0, <2>1, <2>4, <3>1 DEF CleanInv, SnapshotIntact, Intact
  <2> QED BY <1>1, <1>2, <2>5, <2>6 DEF IInv
<1>7. ASSUME NEW r \in Reader, ReadAbort(r) PROVE IInv'
  <2> DEFINE t0 == snap[r].txnID
  <2>0. TypeOK /\ \A t \in TxnID : readers[t] = Cardinality(Counted(t))
    BY <1>0 DEF ReadersInv
  <2>1. /\ rstate[r] = "active" /\ readers' = [readers EXCEPT ![t0] = @ - 1]
        /\ rstate' = [rstate EXCEPT ![r] = "idle"] /\ snap' = [snap EXCEPT ![r] = Invalid]
        /\ t0 \in TxnID
    BY <1>0, <1>7, SnapFacts DEF ReadAbort
  <2>2. /\ rstate'[r] = "idle"
        /\ \A q \in Reader \ {r} : rstate'[q] = rstate[q] /\ snap'[q] = snap[q]
    BY <1>0, <2>1, ReaderTypes
  <2>3. ASSUME NEW t \in TxnID PROVE readers'[t] = Cardinality(Counted(t)')
    <3>1. CASE t = t0
      <4>1. Counted(t)' = Counted(t) \ {r} /\ r \in Counted(t)
        BY <2>1, <2>2, <3>1 DEF Counted
      <4>2. Cardinality(Counted(t) \ {r}) = Cardinality(Counted(t)) - 1
        BY <1>4, <4>1, FS_RemoveElement, Zenon
      <4> QED BY <2>0, <2>1, <3>1, <4>1, <4>2, ReaderTypes
    <3>2. CASE t # t0
      <4>1. Counted(t)' = Counted(t)
        BY <2>1, <2>2, <3>2 DEF Counted
      <4> QED BY <2>0, <2>1, <3>2, <4>1, ReaderTypes
    <3> QED BY <3>1, <3>2
  <2>4. \A q \in Reader : rstate'[q] # "idle" => rstate[q] # "idle" /\ snap'[q] = snap[q]
    BY <2>2
  <2>5. ReadersInv'
    BY <1>0, <2>3, <2>4 DEF ReadersInv, Holds, Live
  <2>6. CleanInv' /\ SnapshotIntact'
    <3>1. Needed' \subseteq Needed
      BY <1>0, <2>4 DEF Needed, Live
    <3> QED BY <1>0, <2>4, <3>1, SMTT(30) DEF CleanInv, SnapshotIntact, Intact
  <2> QED BY <1>1, <1>2, <2>5, <2>6 DEF IInv
<1> QED BY <1>5, <1>6, <1>7 DEF ReadStep

=============================================================================
