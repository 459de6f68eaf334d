----------------------------- MODULE TxnProofs -----------------------------
(***************************************************************************)
(* The theorems about Txn, for any readers, any number of pages, versions and *)
(* transactions, and every combination of faults.                          *)
(***************************************************************************)
EXTENDS TxnTypes, TxnAlloc, TxnCommit, TxnReaders

\* While no process has the file open there is nothing but the file to speak of.
LEMMA DownPreserves ==
  ASSUME TypeOK', MetasSound', mode' # "up", phase' = "none", pending' = <<>>, dirty' = {},
         mem' = disk', \A r \in Reader : rstate'[r] = "idle", \A t \in TxnID : readers'[t] = 0,
         wtree' = {}, allocated' = {}, minTxn' = -1,
         freed' = <<>>, reusable' = <<>>, chainIDs' = <<>>
  PROVE  IInv'
<1>1. IdleInv'
  BY DEF IdleInv
<1>2. ListsInv'
  <2>1. Free' = {} /\ PageIDs(pending') = <<>>
    BY SMTT(30) DEF Free, Ids, PageIDs
  <2> QED BY <2>1, EmptyFacts DEF ListsInv
<1>3. WriterInv' /\ BoundInv' /\ CleanInv' /\ SnapshotIntact'
  BY DEF WriterInv, BoundInv, CleanInv, SnapshotIntact
<1>4. ReadersInv'
  <2>1. \A t \in TxnID : Counted(t)' = {}
    BY DEF Counted
  <2>2. -1 <= currentMeta'.txnID
    <3>1. MetaOK(currentMeta')
      BY Zenon DEF TypeOK
    <3>2. currentMeta'.txnID \in TxnID \cup {-1}
      BY <3>1, Zenon DEF MetaOK
    <3> QED BY <3>2, BoundsAssumption DEF TxnID
  <2> QED BY <2>1, <2>2, FS_EmptySet DEF ReadersInv
<1> QED BY <1>1, <1>2, <1>3, <1>4 DEF IInv

\* A database that is opened on a sound meta page, its pages intact, with nothing
\* else going on.
LEMMA UpPreserves ==
  ASSUME IInv, TypeOK', mode # "up", mode' = "up",
         MetasSound', currentMeta'.txnID >= 0, Intact(currentMeta', disk),
         UNCHANGED <<mem, disk, dirty, readers, rstate, snap, phase, writeVars>>,
         Free' = Range(currentMeta'.ids), IsInjective(PageIDs(pending'))
  PROVE  IInv'
<1>0. IdleInv /\ ReadersInv
  BY DEF IInv
<1> USE DEF writeVars
<1>1. /\ phase = "none" /\ dirty = {} /\ mem = disk /\ \A r \in Reader : rstate[r] = "idle"
      /\ wtree = {} /\ allocated = {} /\ minTxn = -1
      /\ freed = <<>> /\ reusable = <<>> /\ chainIDs = <<>> /\ Range(<<>>) = {} /\ IsInjective(<<>>)
  BY <1>0, EmptyFacts DEF IdleInv
<1>2. /\ Range(currentMeta'.ids) \cap Live' = {}
      /\ \A p \in Live' \cup Free' : p < currentMeta'.numPages
  BY DEF MetasSound, MetaSound, Live
<1>3. IdleInv'
  BY <1>1 DEF IdleInv
<1>4. ListsInv'
  BY <1>1 DEF ListsInv
<1>5. WriterInv' /\ BoundInv'
  BY <1>1, <1>2 DEF WriterInv, BoundInv
<1>6. ReadersInv'
  <2>1. \A t \in TxnID : Counted(t)' = Counted(t)
    BY DEF Counted
  <2>2. currentMeta'.txnID \in TxnID \cup {-1}
    <3>1. MetaOK(currentMeta')
      BY Zenon DEF TypeOK
    <3> QED BY <3>1, Zenon DEF MetaOK
  <2>3. -1 <= currentMeta'.txnID
    BY <2>2, BoundsAssumption DEF TxnID
  <2> QED BY <1>0, <1>1, <2>1, <2>3 DEF ReadersInv
<1>7. CleanInv' /\ SnapshotIntact'
  BY <1>1 DEF CleanInv, SnapshotIntact, Intact
<1> QED BY <1>3, <1>4, <1>5, <1>6, <1>7 DEF IInv

\* Creating, opening, closing and losing the file.
LEMMA FilePreserves ==
  ASSUME IInv, TypeOK', FileStep
  PROVE  IInv'
<1>0. /\ TypeOK /\ MetasSound /\ IdleInv /\ ReadersInv
      /\ MetaSound(Invalid) /\ MetaSound(base)
  BY BaseFacts DEF IInv
<1> USE DEF metaVars, pageVars, dbVars, readVars, writeVars
<1>1. ASSUME mode # "up", mode' # "up", MetasSound',
             UNCHANGED <<pageVars, pending, readVars, phase, writeVars>>
      PROVE  IInv'
  <2>1. \A t \in TxnID : Counted(t) = {}
    BY <1>0, <1>1 DEF Counted, IdleInv
  <2>2. \A t \in TxnID : readers[t] = 0
    BY <1>0, <2>1, FS_EmptySet DEF ReadersInv
  <2> QED BY <1>0, <1>1, <2>2, DownPreserves DEF IdleInv
<1>2. CASE InitMetas
  <2>1. MetasSound'
    BY <1>0, <1>2 DEF InitMetas, MetasSound
  <2> QED BY <1>1, <1>2, <2>1 DEF InitMetas
<1>3. CASE OpenFails \/ OpenDamaged
  <2>1. MetasSound'
    BY <1>0, <1>3 DEF OpenFails, OpenDamaged, MetasSound
  <2> QED BY <1>1, <1>3, <2>1 DEF OpenFails, OpenDamaged
<1>4. CASE InitMetasSync
  <2>1. MetasSound'
    BY <1>0, <1>4 DEF InitMetasSync, SyncFile, MetasSound
  <2>2. currentMeta' = base /\ DOMAIN base.img = {} /\ base.txnID = 0 /\ base.ids = <<>>
    BY <1>4, BaseFacts DEF InitMetasSync, base, Invalid
  <2>3. pending' = <<>>
    BY <1>0, <1>4 DEF InitMetasSync, IdleInv
  <2>4. Free' = Range(base.ids) /\ IsInjective(PageIDs(pending'))
    <3>1. Free' = {} /\ PageIDs(pending') = <<>>
      BY <2>3 DEF Free, Ids, PageIDs
    <3> QED BY <2>2, <3>1, EmptyFacts
  <2>5. Intact(currentMeta', disk)
    BY <2>2 DEF Intact
  <2> QED BY <1>4, <2>1, <2>2, <2>4, <2>5, UpPreserves, SMTT(30) DEF InitMetasSync
<1>5. CASE Open
  <2> DEFINE s == loadMeta(mdisk)
             m == mdisk[s]
  <2>1. s \in Slot /\ Decodes(m)
    BY <1>5 DEF Open, loadMeta, Readable, Slot
  <2>2. /\ currentMeta' = m /\ pending' = Entries(m.ids, 0) /\ Intact(m, disk) /\ mode' = "up"
        /\ mode # "up" /\ UNCHANGED <<mdisk, mvol, mdirty, pageVars, readVars, phase, writeVars>>
        /\ mbuf' = mdisk
    BY <1>5 DEF Open
  <2>3. MetaSound(m) /\ m.ids \in Seq(Page) /\ IsInjective(m.ids)
    <3>1. MetaOK(m)
      BY <1>0, <2>1, Zenon DEF TypeOK
    <3>2. m.ids \in Seq(Page)
      BY <3>1, Zenon DEF MetaOK
    <3>3. MetaSound(m)
      BY <1>0, <2>1, Zenon DEF MetasSound
    <3> QED BY <3>2, <3>3, Zenon DEF MetaSound
  <2>4. MetasSound'
    BY <1>0, <2>2, <2>3 DEF MetasSound
  <2>5. Free' = Range(m.ids) /\ IsInjective(PageIDs(pending'))
    <3>1. 0 \in TxnID
      BY BoundsAssumption DEF TxnID
    <3> HIDE DEF m
    <3> QED BY <2>2, <2>3, <3>1, LoadFacts DEF Free
  <2>6. currentMeta'.txnID >= 0
    BY <2>1, <2>2 DEF Decodes
  <2> HIDE DEF m
  <2> QED BY <2>2, <2>4, <2>5, <2>6, UpPreserves
<1>6. ASSUME Forget, SyncFile, mode' # "up", UNCHANGED currentMeta,
             \A s \in Slot : MetaSound(mdisk'[s])
      PROVE  IInv'
  <2>1. /\ phase' = "none" /\ minTxn' = -1 /\ wtree' = {} /\ allocated' = {}
        /\ freed' = <<>> /\ reusable' = <<>> /\ chainIDs' = <<>>
    BY <1>6 DEF Forget, IdleWriter
  <2>2. MetasSound'
    BY <1>0, <1>6 DEF Forget, SyncFile, MetasSound
  <2> QED BY <1>6, <2>1, <2>2, DownPreserves DEF Forget
<1>7. CASE Close
  <2>1. \A s \in Slot : MetaSound(mdisk'[s])
    BY <1>0, <1>7 DEF Close, MetasSound
  <2> QED BY <1>6, <1>7, <2>1 DEF Close
<1>8. CASE Crash
  <2>1. \A s \in Slot : MetaSound(mdisk'[s])
    BY <1>0, <1>8 DEF Crash, MetasSound
  <2>2. mode' # "up"
    BY <1>8 DEF Crash
  <2> QED BY <1>6, <1>8, <2>1, <2>2 DEF Crash
<1> QED BY <1>2, <1>3, <1>4, <1>5, <1>7, <1>8 DEF FileStep

-----------------------------------------------------------------------------
(* The theorems.                                                           *)

\* The state before the file exists satisfies the invariant.
LEMMA InitIInv == Init => IInv
<1> SUFFICES ASSUME Init PROVE IInv
  OBVIOUS
<1>1. TypeOK
  <2>1. (CHOOSE v \in Versions : TRUE) \in Versions
    BY VersionsAssumption
  <2>2. 2 \in 2 .. MaxPages /\ 0 \in 0 .. MaxMetaErrors
    BY BoundsAssumption
  <2> QED BY <2>1, <2>2, BaseFacts, EmptyFacts DEF Init, TypeOK, Slot
<1>2. MetasSound
  BY BaseFacts DEF Init, MetasSound
<1>3. IdleInv /\ WriterInv /\ BoundInv /\ CleanInv /\ SnapshotIntact
  BY DEF Init, IdleInv, WriterInv, BoundInv, CleanInv, SnapshotIntact
<1>4. ListsInv
  <2>1. Free = {} /\ PageIDs(pending) = <<>>
    BY SMTT(30) DEF Init, Free, Ids, PageIDs
  <2> QED BY <2>1, EmptyFacts DEF Init, ListsInv
<1>5. ReadersInv
  <2>1. \A t \in TxnID : Counted(t) = {}
    BY DEF Init, Counted
  <2>2. minTxn = -1 /\ currentMeta.txnID = -1 /\ -1 <= -1
    BY SMTT(30) DEF Init, Invalid
  <2> QED BY <2>1, <2>2, FS_EmptySet, Zenon DEF Init, ReadersInv
<1> QED BY <1>1, <1>2, <1>3, <1>4, <1>5 DEF IInv

\* Every step of the database, of its callers and of the machine preserves it.
LEMMA NextIInv == IInv /\ [Next]_vars => IInv'
<1> SUFFICES ASSUME IInv, [Next]_vars PROVE IInv'
  OBVIOUS
<1>0. TypeOK'
  <2>1. TypeOK /\ ReadersInv /\ IdleInv
    BY DEF IInv
  <2>2. \A r \in Reader : rstate[r] = "active" => readers[snap[r].txnID] \in Nat \ {0}
    BY <2>1, CountedFacts
  <2>3. LoadMinReader => minReaderTxn \in TxnID
    BY <2>1, MinReaderFacts DEF LoadMinReader, Allocating, IdleInv
  <2> QED BY <2>2, <2>3, TypeStep
<1>1. CASE FileStep
  BY <1>0, <1>1, FilePreserves
<1>2. CASE PoolStep
  BY <1>0, <1>2, EvictionPreserves
<1>3. CASE ReadStep
  BY <1>0, <1>3, ReadPreserves
<1>4. CASE BeginWrite
  BY <1>0, <1>4, BeginWritePreserves
<1>5. CASE AllocStep
  BY <1>0, <1>5, LoadMinReaderPreserves, AllocPreserves DEF AllocStep
<1>6. CASE CommitStep
  BY <1>0, <1>6, PersistBeginPreserves, PersistEndPreserves, FlushPreserves, PublishPreserves
  DEF CommitStep
<1>7. ASSUME NEW p \in Page, FreePage(p) PROVE IInv'
  BY <1>0, <1>7, FreePagePreserves
<1>8. CASE Abort \/ AllocFails \/ PersistFails \/ CommitFails \/ MetaFails
  BY <1>0, <1>8, FailuresPreserve
<1>9. CASE UNCHANGED vars
  <2>1. UNCHANGED <<mode, metaVars, pageVars, dbVars, pending, readVars, phase, writeVars>>
    BY <1>9 DEF vars
  <2> USE DEF metaVars, pageVars, dbVars, readVars, writeVars
  <2>2. /\ TypeOK /\ MetasSound /\ IdleInv /\ ListsInv /\ WriterInv /\ BoundInv
        /\ ReadersInv /\ CleanInv /\ SnapshotIntact
    BY DEF IInv
  <2>3. MetasSound' /\ IdleInv'
    BY <2>1, <2>2 DEF MetasSound, IdleInv
  <2>4. ListsInv' /\ WriterInv' /\ BoundInv' /\ ReadersInv'
    BY <2>1, <2>2, PagesFrame DEF pages, SamePhase
  <2>5. CleanInv' /\ SnapshotIntact'
    BY <2>1, <2>2, ContentsFrame DEF Needed
  <2> QED BY <1>0, <2>3, <2>4, <2>5 DEF IInv
<1> QED BY <1>1, <1>2, <1>3, <1>4, <1>5, <1>6, <1>7, <1>8, <1>9 DEF Next, WriteStep

\* The inductive invariant holds in every state of every execution.
THEOREM Invariance == Spec => []IInv
BY InitIInv, NextIInv, PTL DEF Spec

\* Every variable keeps its type; the counts of DB.readers never go below zero.
THEOREM TypeCorrect == Spec => []TypeOK
<1>1. IInv => TypeOK
  BY DEF IInv
<1> QED BY <1>1, Invariance, PTL

\* Snapshot isolation (BeginRead, AllocatePage, FreePage, Commit, Abort, evictions):
\* for any number of readers, pages, transactions and versions, and with every
\* fault switched on, the pages of every snapshot under way keep their contents.
THEOREM SnapshotIsolation == Spec => []SnapshotIntact
<1>1. IInv => SnapshotIntact
  BY DEF IInv
<1> QED BY <1>1, Invariance, PTL

\* The freelist and the writer's lists never repeat a page and never hold one that
\* is in use (popReusable, push, load, AllocatePage, FreePage, persistFreelist).
THEOREM FreelistSoundness == Spec => []FreelistSound
<1>1. IInv => FreelistSound
  <2> SUFFICES ASSUME IInv, mode = "up" PROVE FreelistSound
    BY DEF FreelistSound
  <2>1. TypeOK /\ ListsInv /\ WriterInv
    BY DEF IInv
  <2>2. IsInjective(persist) /\ Range(persist) = Free \cup Range(freed) \cup Range(reusable)
    BY <2>1, PersistFacts
  <2> QED BY <2>1, <2>2 DEF ListsInv, WriterInv, FreelistSound, Free, Live
<1> QED BY <1>1, Invariance, PTL
============================================================================
