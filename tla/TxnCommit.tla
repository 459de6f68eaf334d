----------------------------- MODULE TxnCommit -----------------------------
(***************************************************************************)
(* The other steps of a write transaction, from BeginWrite to the publication *)
(* of its meta page, preserve the inductive invariant of Txn.              *)
(***************************************************************************)
EXTENDS TxnLemmas

\* What lists and snapshots are made of.
pages == <<mode, currentMeta, pending, readers, rstate, snap, writeVars>>

\* The writer stays between two stages that the lists do not tell apart.
SamePhase ==
  \/ phase' = phase
  \/ phase \notin {"none", "active"} /\ phase' \notin {"none", "active"}

\* Steps of the pool, of flushing and of syncing leave lists and snapshots alone.
LEMMA PagesFrame ==
  ASSUME ListsInv, WriterInv, BoundInv, ReadersInv, UNCHANGED pages,
         SamePhase
  PROVE  ListsInv' /\ WriterInv' /\ BoundInv' /\ ReadersInv'
<1> USE DEF pages, writeVars, SamePhase
<1>1. /\ PageIDs(pending)' = PageIDs(pending) /\ Free' = Free /\ Live' = Live
      /\ \A t \in TxnID : Counted(t)' = Counted(t)
      /\ \A r \in Reader, p \in Page : Holds(r, p)' = Holds(r, p)
  BY DEF Free, Live, Counted, Holds
<1>2. ListsInv'
  BY <1>1 DEF ListsInv
<1>3. WriterInv'
  BY <1>1 DEF WriterInv
<1>4. BoundInv'
  BY <1>1 DEF BoundInv
<1>5. ReadersInv'
  BY DEF ReadersInv, Holds, Live, Counted
<1> QED BY <1>2, <1>3, <1>4, <1>5

\* BeginWrite starts from the pages of the current version.
LEMMA BeginWritePreserves ==
  ASSUME IInv, TypeOK', BeginWrite
  PROVE  IInv'
<1>0. /\ TypeOK /\ MetasSound /\ IdleInv /\ ListsInv /\ WriterInv /\ BoundInv
      /\ ReadersInv /\ CleanInv /\ SnapshotIntact
  BY DEF IInv
<1> USE DEF metaVars, pageVars, dbVars, readVars
<1>1. /\ mode = "up" /\ phase = "none" /\ phase' = "active" /\ currentMeta.txnID < MaxTxn
      /\ numPages' = currentMeta.numPages /\ wtree' = Live \ Range(currentMeta.chain)
      /\ UNCHANGED <<mode, metaVars, pageVars, dbVars, pending, readVars,
                     allocated, freed, reusable, minTxn, chainIDs>>
  BY DEF BeginWrite, Tree, Live
<1>2. /\ wtree = {} /\ allocated = {} /\ minTxn = -1
      /\ freed = <<>> /\ reusable = <<>> /\ chainIDs = <<>> /\ Range(<<>>) = {}
      /\ Live' = Live /\ Free' = Free /\ Free \cap Live = {}
  BY <1>0, <1>1, EmptyFacts DEF IdleInv, Live, Free, WriterInv
<1>3. MetasSound' /\ IdleInv'
  BY <1>0, <1>1 DEF MetasSound, IdleInv
<1>4. ListsInv'
  BY <1>0, <1>1, <1>2 DEF ListsInv
<1>5. WriterInv'
  BY <1>1, <1>2 DEF WriterInv
<1>6. BoundInv'
  <2>1. currentMeta.numPages \in Nat
    BY <1>0, PageFacts
  <2> QED BY <1>0, <1>1, <1>2, <2>1 DEF BoundInv
<1>7. ReadersInv' /\ CleanInv' /\ SnapshotIntact'
  BY <1>0, <1>1, <1>2, ReadersFrame, ContentsFrame DEF Needed
<1> QED BY <1>3, <1>4, <1>5, <1>6, <1>7 DEF IInv

\* FreePage: a page beyond the snapshot's page count is new, any other may be live.
LEMMA FreePagePreserves ==
  ASSUME IInv, TypeOK', NEW p \in Page, FreePage(p)
  PROVE  IInv'
<1>0. /\ TypeOK /\ MetasSound /\ IdleInv /\ ListsInv /\ WriterInv /\ BoundInv
      /\ ReadersInv /\ CleanInv /\ SnapshotIntact
  BY DEF IInv
<1> USE DEF metaVars, pageVars, dbVars, readVars
<1>1. /\ mode = "up" /\ phase = "active" /\ p \in wtree /\ wtree' = wtree \ {p}
      /\ UNCHANGED <<mode, metaVars, pageVars, dbVars, pending, readVars, phase,
                     numPages, minTxn, chainIDs>>
  BY DEF FreePage
<1>2. Free' = Free /\ Live' = Live /\ chainIDs = <<>> /\ Range(<<>>) = {}
  BY <1>0, <1>1, EmptyFacts DEF Free, Live, WriterInv
<1>3. freed \in Seq(Page) /\ reusable \in Seq(Page) /\ IsInjective(freed) /\ IsInjective(reusable)
  BY <1>0, WriterTypes DEF ListsInv
<1>4. p \notin Free \cup Range(freed) \cup Range(reusable) \cup Range(currentMeta.chain)
  BY <1>0, <1>1 DEF ListsInv, WriterInv
<1>5. \/ /\ p \notin Live /\ allocated' = allocated \ {p} /\ freed' = freed
         /\ Range(reusable') = Range(reusable) \cup {p} /\ IsInjective(reusable')
      \/ /\ allocated' = allocated /\ reusable' = reusable
         /\ Range(freed') = Range(freed) \cup {p} /\ IsInjective(freed')
  <2>1. CASE p >= initialPageCnt
    <3>1. p \notin Live
      <4>1. p \in Nat /\ currentMeta.numPages \in Nat
        BY <1>0, PageFacts
      <4> QED BY <1>0, <1>1, <2>1, <4>1 DEF BoundInv, initialPageCnt
    <3>2. ~(p < initialPageCnt)
      <4>1. p \in Nat /\ currentMeta.numPages \in Nat
        BY <1>0, PageFacts
      <4> QED BY <2>1, <4>1 DEF initialPageCnt
    <3>3. /\ Range(Append(reusable, p)) = Range(reusable) \cup {p}
          /\ IsInjective(Append(reusable, p))
      BY <1>3, <1>4, AppendFacts
    <3> QED BY <3>1, <3>2, <3>3, Zenon DEF FreePage
  <2>2. CASE ~(p >= initialPageCnt)
    <3>1. /\ Range(Append(freed, p)) = Range(freed) \cup {p}
          /\ IsInjective(Append(freed, p))
      BY <1>3, <1>4, AppendFacts
    <3> QED BY <2>2, <3>1, Zenon DEF FreePage
  <2> QED BY <2>1, <2>2
<1>6. MetasSound' /\ IdleInv'
  BY <1>0, <1>1 DEF MetasSound, IdleInv
<1>7. ListsInv'
  BY <1>0, <1>1, <1>2, <1>3, <1>4, <1>5, SMTT(30) DEF ListsInv
<1>8. WriterInv'
  BY <1>0, <1>1, <1>2, <1>4, <1>5, SMTT(30) DEF WriterInv
<1>9. BoundInv'
  BY <1>0, <1>1, <1>2, <1>5 DEF BoundInv
<1>10. ReadersInv' /\ CleanInv' /\ SnapshotIntact'
  BY <1>0, <1>1, ReadersFrame, ContentsFrame DEF Needed
<1> QED BY <1>6, <1>7, <1>8, <1>9, <1>10 DEF IInv

\* persistFreelist frees the pages of the old chain, which nobody has freed yet.
LEMMA PersistBeginPreserves ==
  ASSUME IInv, TypeOK', PersistBegin
  PROVE  IInv'
<1>0. /\ TypeOK /\ MetasSound /\ IdleInv /\ ListsInv /\ WriterInv /\ BoundInv
      /\ ReadersInv /\ CleanInv /\ SnapshotIntact
  BY DEF IInv
<1> USE DEF metaVars, pageVars, dbVars, readVars
<1>1. /\ mode = "up" /\ phase = "active" /\ phase' = "persist" /\ freed' = freed \o currentMeta.chain
      /\ UNCHANGED <<mode, metaVars, pageVars, dbVars, pending, readVars,
                     numPages, wtree, allocated, reusable, minTxn, chainIDs>>
  BY DEF PersistBegin, Step
<1>2. /\ Free' = Free /\ Live' = Live /\ chainIDs = <<>> /\ Range(<<>>) = {}
      /\ Range(currentMeta.chain) \subseteq Live /\ currentMeta.chain \in Seq(Page)
      /\ IsInjective(currentMeta.chain) /\ freed \in Seq(Page) /\ IsInjective(freed)
      /\ Range(freed) \cap Range(currentMeta.chain) = {}
  <2>1. Free' = Free /\ Live' = Live
    BY <1>1 DEF Free, Live
  <2>2. chainIDs = <<>> /\ Range(<<>>) = {}
    BY <1>0, <1>1, EmptyFacts DEF WriterInv
  <2>3. Range(currentMeta.chain) \subseteq Live /\ currentMeta.chain \in Seq(Page)
    BY <1>0, PageFacts
  <2>4. IsInjective(currentMeta.chain)
    BY <1>0, <1>1 DEF MetasSound, MetaSound
  <2>5. freed \in Seq(Page)
    BY <1>0, WriterTypes
  <2>6. IsInjective(freed)
    BY <1>0 DEF ListsInv
  <2>7. Range(freed) \cap Range(currentMeta.chain) = {}
    BY <1>0, <1>1 DEF WriterInv
  <2> QED BY <2>1, <2>2, <2>3, <2>4, <2>5, <2>6, <2>7
<1>3. IsInjective(freed') /\ Range(freed') = Range(freed) \cup Range(currentMeta.chain)
  <2>1. freed' = freed \o currentMeta.chain
    BY <1>1
  <2>2. /\ Range(freed \o currentMeta.chain) = Range(freed) \cup Range(currentMeta.chain)
        /\ IsInjective(freed \o currentMeta.chain)
    BY <1>2, ConcatFacts
  <2> QED BY <2>1, <2>2
<1>4. MetasSound' /\ IdleInv'
  BY <1>0, <1>1 DEF MetasSound, IdleInv
<1>5. ListsInv'
  BY <1>0, <1>1, <1>2, <1>3 DEF ListsInv, WriterInv
<1>6. WriterInv'
  BY <1>0, <1>1, <1>2, <1>3 DEF WriterInv
<1>7. BoundInv'
  <2>1. ASSUME NEW q \in Range(currentMeta.chain) PROVE q < numPages
    <3>1. q \in Nat /\ currentMeta.numPages \in Nat /\ numPages \in Nat
      BY <1>0, <1>2, PageFacts
    <3>2. q < currentMeta.numPages /\ currentMeta.numPages <= numPages
      BY <1>0, <1>1, <1>2 DEF BoundInv
    <3> QED BY <3>1, <3>2
  <2> QED BY <1>0, <1>1, <1>2, <1>3, <2>1 DEF BoundInv
<1>8. ReadersInv' /\ CleanInv' /\ SnapshotIntact'
  BY <1>0, <1>1, ReadersFrame, ContentsFrame DEF Needed
<1> QED BY <1>4, <1>5, <1>6, <1>7, <1>8 DEF IInv

\* Encoding the chain writes only pages that this transaction took.
LEMMA PersistEndPreserves ==
  ASSUME IInv, TypeOK', PersistEnd
  PROVE  IInv'
<1>0. /\ TypeOK /\ MetasSound /\ IdleInv /\ ListsInv /\ WriterInv /\ BoundInv
      /\ ReadersInv /\ CleanInv /\ SnapshotIntact
  BY DEF IInv
<1> USE DEF metaVars, diskVars, dbVars, readVars
<1> DEFINE C == Range(chainIDs)
<1>1. /\ mode = "up" /\ phase = "persist" /\ phase' = "persisted" /\ Write(C)
      /\ UNCHANGED <<mode, metaVars, diskVars, dbVars, pending, readVars, writeVars>>
  BY DEF PersistEnd, Step
<1>2. C \in SUBSET Page
  BY <1>0, PageFacts
<1>3. dirty' = dirty \cup C /\ \A q \in Page \ C : mem'[q] = mem[q]
  BY <1>0, <1>1, <1>2, WriteFacts
<1>4. MetasSound' /\ IdleInv'
  BY <1>0, <1>1 DEF MetasSound, IdleInv
<1>5. ListsInv' /\ WriterInv' /\ BoundInv' /\ ReadersInv'
  BY <1>0, <1>1, PagesFrame DEF pages, SamePhase
<1>6. /\ C \cap Live = {} /\ C \cap Free = {}
      /\ \A r \in Reader : rstate[r] # "idle" => C \cap DOMAIN snap[r].img = {}
  <2>1. C \cap Live = {} /\ C \cap Free = {}
    BY <1>0, <1>1 DEF WriterInv, ListsInv
  <2> QED BY <1>0, <2>1, OutsideNotHeld
<1>7. CleanInv'
  <2> SUFFICES ASSUME NEW q \in Needed', q \notin dirty' PROVE disk'[q] = mem'[q]
    BY DEF CleanInv
  <2>1. Needed' = Needed
    BY <1>1 DEF Needed, Live, writeVars
  <2>2. q \in Page /\ q \notin C
    BY <1>0, <1>3, <2>1, PageFacts DEF Needed
  <2> QED BY <1>0, <1>1, <1>3, <2>1, <2>2 DEF CleanInv
<1>8. SnapshotIntact'
  <2>1. ASSUME NEW r \in Reader, rstate[r] # "idle" PROVE Intact(snap[r], mem')
    BY <1>0, <1>3, <1>6, <2>1, PageFacts DEF SnapshotIntact, Intact
  <2>2. Intact(currentMeta, mem')
    BY <1>0, <1>1, <1>3, <1>6, PageFacts DEF SnapshotIntact, Intact, Live
  <2> QED BY <1>1, <2>1, <2>2 DEF SnapshotIntact, Intact
<1> QED BY <1>4, <1>5, <1>7, <1>8 DEF IInv

\* Publishing: what was live is live still, or on the freelist under the new id.
LEMMA PublishPreserves ==
  ASSUME IInv, TypeOK', Publish
  PROVE  IInv'
<1>0. /\ TypeOK /\ MetasSound /\ IdleInv /\ ListsInv /\ WriterInv /\ BoundInv
      /\ ReadersInv /\ CleanInv /\ SnapshotIntact
  BY DEF IInv
<1> USE DEF readVars
<1>1. /\ mode = "up" /\ phase = "metaFlushed" /\ currentMeta' = NewMeta
      /\ pending' = pending \o Entries(freed, NewMeta.txnID) \o Entries(reusable, NewMeta.txnID)
      /\ UNCHANGED <<mode, mdisk, disk, mbuf, mem, dirty, readVars>>
      /\ SyncFile /\ IdleWriter
  BY DEF Publish
<1>2. /\ phase' = "none" /\ minTxn' = -1 /\ wtree' = {} /\ allocated' = {}
      /\ freed' = <<>> /\ reusable' = <<>> /\ chainIDs' = <<>>
      /\ Range(<<>>) = {} /\ IsInjective(<<>>)
  BY <1>1, EmptyFacts DEF IdleWriter
<1>3. /\ MetaSound(NewMeta) /\ NewMeta.txnID = currentMeta.txnID + 1 /\ NewMeta.txnID \in TxnID
      /\ Live' = wtree \cup Range(chainIDs) /\ \A p \in Live' : NewMeta.img[p] = mem[p]
      /\ NewMeta.numPages = numPages
  BY <1>0, <1>1, NewMetaFacts DEF Live
<1>4. MetasSound'
  BY <1>0, <1>1, <1>3 DEF MetasSound, SyncFile
<1>5. IdleInv'
  BY <1>1, <1>2, <1>3, BoundsAssumption, SMTT(30) DEF IdleInv, TxnID
<1>6. /\ Free' = Free \cup Range(freed) \cup Range(reusable)
      /\ IsInjective(PageIDs(pending'))
      /\ \A i \in DOMAIN pending : \E j \in DOMAIN pending' : pending'[j] = pending[i]
      /\ \A p \in Range(freed) :
           \E j \in DOMAIN pending' : pending'[j].pageID = p /\ pending'[j].freedAt = NewMeta.txnID
  <2> DEFINE t == NewMeta.txnID
             n == pending \o Entries(freed, t)
             e == n \o Entries(reusable, t)
  <2>1. /\ pending \in Seq(Entry) /\ freed \in Seq(Page) /\ reusable \in Seq(Page) /\ t \in TxnID
        /\ IsInjective(PageIDs(pending)) /\ IsInjective(freed) /\ IsInjective(reusable)
        /\ Ids(pending) \cap Range(freed) = {} /\ Ids(pending) \cap Range(reusable) = {}
        /\ Range(freed) \cap Range(reusable) = {}
    <3>1. pending \in Seq(Entry) /\ freed \in Seq(Page) /\ reusable \in Seq(Page)
      BY <1>0, PageFacts, WriterTypes
    <3> QED BY <1>0, <1>3, <3>1, Zenon DEF ListsInv, Free
  <2>a. n = pending \o Entries(freed, t) /\ e = n \o Entries(reusable, t)
    OBVIOUS
  <2> HIDE DEF t, n, e
  <2>2. /\ n \in Seq(Entry) /\ Ids(n) = Ids(pending) \cup Range(freed)
        /\ IsInjective(PageIDs(n))
        /\ Keeps(n, pending) /\ Lists(n, freed, t)
    BY <2>1, <2>a, PushFacts, Zenon
  <2>3. /\ Ids(e) = Ids(n) \cup Range(reusable) /\ IsInjective(PageIDs(e))
        /\ Keeps(e, n)
    <3>1. /\ n \in Seq(Entry) /\ reusable \in Seq(Page) /\ t \in TxnID
          /\ e = n \o Entries(reusable, t)
      BY <2>1, <2>2, <2>a
    <3>2. /\ IsInjective(PageIDs(n)) /\ IsInjective(reusable)
          /\ Ids(n) \cap Range(reusable) = {}
      BY <2>1, <2>2
    <3> QED BY <3>1, <3>2, PushFacts, Zenon
  <2>4. pending' = e
    BY <1>1 DEF n, t, e
  <2>5. \A p \in Range(freed) : \E j \in DOMAIN e : e[j].pageID = p /\ e[j].freedAt = t
    BY <2>2, <2>3 DEF Keeps, Lists
  <2>6. \A i \in DOMAIN pending : \E j \in DOMAIN e : e[j] = pending[i]
    BY <2>2, <2>3 DEF Keeps, Lists
  <2> QED BY <2>2, <2>3, <2>4, <2>5, <2>6 DEF Free, t
<1>7. ListsInv'
  BY <1>2, <1>6 DEF ListsInv
<1>8. WriterInv'
  BY <1>0, <1>1, <1>2, <1>3, <1>6 DEF WriterInv, ListsInv
<1>9. BoundInv'
  <2>1. ASSUME NEW q \in Free PROVE q < numPages
    <3>1. q \in Nat /\ currentMeta.numPages \in Nat /\ numPages \in Nat
      BY <1>0, PageFacts
    <3>2. q < currentMeta.numPages /\ currentMeta.numPages <= numPages
      BY <1>0, <1>1 DEF BoundInv
    <3> QED BY <3>1, <3>2
  <2>2. \A q \in wtree \cup Range(freed) \cup Range(reusable) \cup Range(chainIDs) : q < numPages
    BY <1>0, <1>1 DEF BoundInv
  <2> QED BY <1>1, <1>2, <1>3, <1>6, <2>1, <2>2 DEF BoundInv
<1>10. ReadersInv'
  <2>1. currentMeta.txnID \in Int /\ currentMeta.txnID >= -1
    BY <1>0, TxnFacts
  <2>2. \A t \in TxnID : Counted(t)' = Counted(t)
    BY <1>1 DEF Counted
  <2>3. ASSUME NEW r \in Reader, rstate[r] # "idle"
        PROVE  /\ 0 <= snap[r].txnID /\ snap[r].txnID <= currentMeta.txnID
               /\ snap[r].txnID \in Int /\ \A p \in DOMAIN snap[r].img : Holds(r, p)
    BY <1>0, <2>3, SnapFacts DEF ReadersInv
  <2>4. ASSUME NEW r \in Reader, rstate[r] # "idle", NEW p \in DOMAIN snap[r].img
        PROVE  Holds(r, p)'
    <3>1. CASE p \in Live
      <4>1. p \in wtree \cup Range(freed)
        BY <1>0, <1>1, <3>1 DEF WriterInv
      <4>2. NewMeta.txnID > snap[r].txnID
        BY <1>3, <2>1, <2>3, <2>4, SMTT(30)
      <4> QED BY <1>1, <1>3, <1>6, <4>1, <4>2 DEF Holds
    <3>2. CASE \E i \in DOMAIN pending : pending[i].pageID = p /\ pending[i].freedAt > snap[r].txnID
      BY <1>1, <1>6, <3>2, SMTT(30) DEF Holds
    <3> QED BY <2>3, <2>4, <3>1, <3>2, SMTT(30) DEF Holds
  <2>5. -1 <= NewMeta.txnID /\ \A r \in Reader : rstate[r] # "idle" =>
          -1 <= snap[r].txnID /\ snap[r].txnID <= NewMeta.txnID
    BY <1>3, <2>1, <2>3, SMTT(30)
  <2> QED BY <1>0, <1>1, <1>2, <2>2, <2>3, <2>4, <2>5 DEF ReadersInv
<1>11. CleanInv'
  <2>1. Needed' \subseteq Needed
    BY <1>1, <1>2, <1>3 DEF Needed
  <2> QED BY <1>0, <1>1, <2>1 DEF CleanInv
<1>12. SnapshotIntact'
  BY <1>0, <1>1, <1>3 DEF SnapshotIntact, Intact, Live
<1> QED BY <1>4, <1>5, <1>7, <1>8, <1>9, <1>10, <1>11, <1>12 DEF IInv

-----------------------------------------------------------------------------
(* The buffer pool, and the stages of Commit that write and sync.           *)

\* Writing a page to the file, or dropping a clean one, changes no contents that
\* anybody needs.
LEMMA PoolPreserves ==
  ASSUME IInv, TypeOK', mode = "up", MetasSound',
         UNCHANGED pages, UNCHANGED <<mode, currentMeta, rstate, snap>>,
         SamePhase,
         \A q \in Needed : mem'[q] = mem[q],
         \A q \in Needed : q \notin dirty' => disk'[q] = mem[q]
  PROVE  IInv'
<1>0. /\ TypeOK /\ IdleInv /\ ListsInv /\ WriterInv /\ BoundInv
      /\ ReadersInv /\ CleanInv /\ SnapshotIntact
  BY DEF IInv
<1>1. Needed' = Needed
  BY DEF pages, writeVars, Needed, Live
<1>2. ListsInv' /\ WriterInv' /\ BoundInv' /\ ReadersInv'
  BY <1>0, PagesFrame
<1>3. IdleInv'
  BY <1>0 DEF IdleInv, pages, writeVars, SamePhase
<1>4. CleanInv'
  BY <1>1 DEF CleanInv
<1>5. SnapshotIntact'
  BY <1>0 DEF SnapshotIntact, Intact, Needed, Live
<1> QED BY <1>2, <1>3, <1>4, <1>5 DEF IInv

\* A meta page that reaches the file was sound in the buffer pool.
LEMMA WriteBackMetaSound ==
  ASSUME TypeOK, MetasSound, NEW s \in Slot, WriteBackMeta(s), UNCHANGED <<mbuf, currentMeta>>
  PROVE  MetasSound'
BY BaseFacts DEF WriteBackMeta, MetasSound, TypeOK

\* Evictions, in one step or in two.
LEMMA EvictionPreserves ==
  ASSUME IInv, TypeOK', PoolStep
  PROVE  IInv'
<1>0. TypeOK /\ MetasSound /\ CleanInv /\ mode = "up" /\ Needed \subseteq Page
  <2>1. TypeOK /\ MetasSound /\ CleanInv /\ mode = "up"
    BY Zenon DEF IInv, PoolStep, Evict, EvictMeta, EvictBegin, EvictEnd
  <2> QED BY <2>1, PageFacts DEF Needed
<1> USE DEF metaVars, diskVars, pageVars, dbVars, readVars, pages
<1>1. ASSUME NEW p \in Page, Evict(p) PROVE IInv'
  <2>1. /\ UNCHANGED <<mode, metaVars, currentMeta, pending, readVars, phase, writeVars>>
        /\ disk' = [q \in Page |-> IF q \in {p} \cap dirty THEN mem[q] ELSE disk[q]]
        /\ mem' = [mem EXCEPT ![p] = disk'[p]] /\ dirty' = dirty \ {p}
    BY <1>1 DEF Evict, WriteBack
  <2>a. SamePhase
    BY <2>1 DEF SamePhase
  <2>2. MetasSound'
    BY <1>0, <2>1 DEF MetasSound
  <2>3. ASSUME NEW q \in Needed PROVE mem'[q] = mem[q] /\ (q \notin dirty' => disk'[q] = mem[q])
    BY <1>0, <2>1, PoolTypes DEF CleanInv
  <2> QED BY <1>0, <2>1, <2>a, <2>2, <2>3, PoolPreserves
<1>2. ASSUME NEW s \in Slot, EvictMeta(s) PROVE IInv'
  <2>1. /\ UNCHANGED <<mode, mbuf, pageVars, currentMeta, pending, readVars, phase, writeVars>>
        /\ WriteBackMeta(s)
    BY <1>2 DEF EvictMeta
  <2>a. SamePhase
    BY <2>1 DEF SamePhase
  <2>2. MetasSound'
    BY <1>0, <2>1, WriteBackMetaSound
  <2>3. \A q \in Needed : mem'[q] = mem[q] /\ (q \notin dirty' => disk'[q] = mem[q])
    BY <1>0, <2>1 DEF CleanInv
  <2> QED BY <1>0, <2>1, <2>a, <2>2, <2>3, PoolPreserves
<1>3. ASSUME NEW r \in Reader, NEW p \in Slot \cup Page, EvictBegin(r, p) PROVE IInv'
  <2>1. UNCHANGED <<mode, metaVars, pageVars, currentMeta, pending, readers, rstate, snap, phase, writeVars>>
    BY <1>3 DEF EvictBegin
  <2>a. SamePhase
    BY <2>1 DEF SamePhase
  <2>2. MetasSound'
    BY <1>0, <2>1 DEF MetasSound
  <2>3. \A q \in Needed : mem'[q] = mem[q] /\ (q \notin dirty' => disk'[q] = mem[q])
    BY <1>0, <2>1 DEF CleanInv
  <2> QED BY <1>0, <2>1, <2>a, <2>2, <2>3, PoolPreserves
<1>4. ASSUME NEW r \in Reader, EvictEnd(r) PROVE IInv'
  <2>1. UNCHANGED <<mode, mbuf, mem, currentMeta, pending, readers, rstate, snap, phase, writeVars>>
    BY <1>4 DEF EvictEnd
  <2>a. SamePhase
    BY <2>1 DEF SamePhase
  <2>2. CASE WriteBack({evicting[r]}) /\ dirty' = dirty \ {evicting[r]} /\ UNCHANGED <<mdisk, mvol, mdirty>>
    <3>1. MetasSound'
      BY <1>0, <2>1, <2>2 DEF MetasSound
    <3>2. ASSUME NEW q \in Needed PROVE q \notin dirty' => disk'[q] = mem[q]
      BY <1>0, <2>2 DEF WriteBack, CleanInv
    <3> QED BY <1>0, <2>1, <2>a, <3>1, <3>2, PoolPreserves
  <2>3. CASE evicting[r] \in Slot /\ WriteBackMeta(evicting[r]) /\ UNCHANGED <<disk, vol, dirty>>
    <3>1. MetasSound'
      BY <1>0, <2>1, <2>3, WriteBackMetaSound
    <3>2. \A q \in Needed : q \notin dirty' => disk'[q] = mem[q]
      BY <1>0, <2>3 DEF CleanInv
    <3> QED BY <1>0, <2>1, <2>a, <3>1, <3>2, PoolPreserves
  <2> QED BY <1>4, <2>2, <2>3 DEF EvictEnd
<1> QED BY <1>1, <1>2, <1>3, <1>4 DEF PoolStep

\* The stages of Commit that write and sync.
LEMMA FlushPreserves ==
  ASSUME IInv, TypeOK', FlushPages \/ Sync \/ WriteMeta \/ FlushMeta
  PROVE  IInv'
<1>0. /\ TypeOK /\ MetasSound /\ CleanInv /\ IdleInv /\ ListsInv /\ BoundInv
      /\ mode = "up" /\ Needed \subseteq Page
      /\ phase # "none" /\ SamePhase /\ nextMetaPage \in Slot
  <2>1. /\ TypeOK /\ MetasSound /\ CleanInv /\ IdleInv /\ ListsInv /\ BoundInv /\ mode = "up"
        /\ phase \notin {"none", "active"} /\ phase' \notin {"none", "active"}
    BY DEF IInv, FlushPages, Sync, WriteMeta, FlushMeta, Step
  <2>2. nextMetaPage \in Slot
    BY <2>1, SizeFacts
  <2>3. Needed \subseteq Page
    BY <2>1, PageFacts DEF Needed
  <2> QED BY <2>1, <2>2, <2>3 DEF SamePhase
<1> USE DEF metaVars, diskVars, pageVars, dbVars, readVars, pages
<1>1. CASE FlushPages
  <2>1. /\ UNCHANGED <<mode, metaVars, mem, currentMeta, pending, readVars, writeVars>>
        /\ WriteBack((allocated \cap dirty) \ Evicting)
        /\ dirty' = dirty \ (allocated \ Evicting)
    BY <1>1 DEF FlushPages
  <2>2. MetasSound'
    BY <1>0, <2>1 DEF MetasSound
  <2>3. ASSUME NEW q \in Needed PROVE q \notin dirty' => disk'[q] = mem[q]
    BY <1>0, <2>1 DEF WriteBack, CleanInv
  <2> QED BY <1>0, <2>1, <2>2, <2>3, PoolPreserves
<1>2. CASE Sync
  <2>1. /\ UNCHANGED <<mode, disk, mdisk, mbuf, mem, dirty, currentMeta, pending, readVars, writeVars>>
        /\ SyncFile
    BY <1>2 DEF Sync
  <2>2. MetasSound'
    BY <1>0, <2>1 DEF MetasSound, SyncFile
  <2>3. \A q \in Needed : q \notin dirty' => disk'[q] = mem[q]
    BY <1>0, <2>1 DEF CleanInv
  <2> QED BY <1>0, <2>1, <2>2, <2>3, PoolPreserves
<1>3. CASE WriteMeta
  <2>1. /\ UNCHANGED <<mode, mdisk, mvol, pageVars, currentMeta, pending, readVars, writeVars>>
        /\ mbuf' = [mbuf EXCEPT ![nextMetaPage] = NewMeta]
    BY <1>3 DEF WriteMeta
  <2>2. MetasSound'
    BY <1>0, <2>1, NewMetaFacts, PoolTypes, Zenon DEF MetasSound
  <2>3. \A q \in Needed : q \notin dirty' => disk'[q] = mem[q]
    BY <1>0, <2>1 DEF CleanInv
  <2> QED BY <1>0, <2>1, <2>2, <2>3, PoolPreserves
<1>4. CASE FlushMeta
  <2>1. /\ UNCHANGED <<mode, mbuf, pageVars, currentMeta, pending, readVars, writeVars>>
        /\ WriteBackMeta(nextMetaPage) \/ UNCHANGED <<mdisk, mvol, mdirty>>
    BY <1>4 DEF FlushMeta
  <2>2. MetasSound'
    <3>1. CASE WriteBackMeta(nextMetaPage)
      BY <1>0, <2>1, <3>1, WriteBackMetaSound
    <3>2. CASE UNCHANGED <<mdisk, mvol, mdirty>>
      BY <1>0, <2>1, <3>2 DEF MetasSound
    <3> QED BY <2>1, <3>1, <3>2
  <2>3. \A q \in Needed : q \notin dirty' => disk'[q] = mem[q]
    BY <1>0, <2>1 DEF CleanInv
  <2> QED BY <1>0, <2>1, <2>2, <2>3, PoolPreserves
<1> QED BY <1>1, <1>2, <1>3, <1>4

============================================================================
