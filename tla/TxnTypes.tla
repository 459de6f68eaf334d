------------------------------ MODULE TxnTypes ------------------------------
(***************************************************************************)
(* Types of Txn: no step leaves them, given the inductive invariant.       *)
(***************************************************************************)
EXTENDS TxnLemmas

\* Every step keeps every variable in its type.
LEMMA TypeStep ==
  ASSUME IInv, [Next]_vars,
         \A r \in Reader : rstate[r] = "active" => readers[snap[r].txnID] \in Nat \ {0},
         LoadMinReader => minReaderTxn \in TxnID
  PROVE  TypeOK'
<1>0. /\ TypeOK /\ IdleInv /\ ListsInv /\ BoundInv /\ ReadersInv
      /\ MetaOK(Invalid) /\ MetaOK(base) /\ nextMetaPage \in Slot
  BY BaseFacts, SizeFacts, Zenon DEF IInv
<1> USE DEF metaVars, diskVars, pageVars, dbVars, readVars, writeVars
<1>1. CASE InitMetas
  BY <1>0, <1>1 DEF InitMetas, TypeOK
<1>2. CASE InitMetasSync
  BY <1>0, <1>2 DEF InitMetasSync, SyncFile, TypeOK, Slot
<1>3. CASE Open
  <2>1. loadMeta(mdisk) \in Slot
    BY DEF loadMeta, Slot
  <2>2. MetaOK(currentMeta') /\ currentMeta'.ids \in Seq(Page)
    BY <1>0, <1>3, <2>1 DEF Open, TypeOK, MetaOK
  <2>3. pending' = Entries(currentMeta'.ids, 0) /\ 0 \in TxnID
    BY <1>3, BoundsAssumption DEF Open, TxnID
  <2>4. pending' \in Seq([pageID : Page, freedAt : TxnID])
    BY <2>2, <2>3 DEF Entries
  <2> QED BY <1>0, <1>3, <2>1, <2>2, <2>4 DEF Open, TypeOK
<1>4. CASE OpenFails
  BY <1>0, <1>4 DEF OpenFails, TypeOK
<1>5. CASE OpenDamaged
  BY <1>0, <1>5 DEF OpenDamaged, TypeOK
<1>6. ASSUME Forget, disk' \in [Page -> Versions], SyncFile,
             DOMAIN mdisk' = Slot, \A s \in Slot : MetaOK(mdisk'[s]),
             mode' \in {"absent", "down"}, UNCHANGED <<dbVars, metaErrors>>
      PROVE  TypeOK'
  BY <1>0, <1>6, IdleWriterTypes DEF Forget, SyncFile, TypeOK, Slot
<1>7. CASE Close
  BY <1>0, <1>6, <1>7 DEF Close, TypeOK, Slot
<1>8. CASE Crash
  BY <1>0, <1>6, <1>8 DEF Crash, TypeOK, Slot
<1>9. ASSUME NEW p \in Page, Evict(p) PROVE TypeOK'
  BY <1>0, <1>9 DEF Evict, WriteBack, TypeOK
<1>10. ASSUME NEW s \in Slot, EvictMeta(s) PROVE TypeOK'
  BY <1>0, <1>10 DEF EvictMeta, WriteBackMeta, TypeOK
<1>11. ASSUME NEW r \in Reader, NEW p \in Slot \cup Page, EvictBegin(r, p) PROVE TypeOK'
  BY <1>0, <1>11 DEF EvictBegin, TypeOK
<1>12. ASSUME NEW r \in Reader, EvictEnd(r) PROVE TypeOK'
  <2>1. CASE evicting[r] \in Page
    <3>1. evicting[r] \notin Slot
      BY <2>1 DEF Page, Slot
    <3>2. disk' \in [Page -> Versions] /\ vol' \in [Page -> SUBSET Versions]
      BY <1>0, <1>12, <3>1, WriteBackTypes DEF EvictEnd
    <3>3. dirty' \subseteq Page /\ UNCHANGED <<mdisk, mvol, mdirty>>
      BY <1>0, <1>12, <3>1 DEF EvictEnd, TypeOK
    <3> QED BY <1>0, <1>12, <3>2, <3>3 DEF EvictEnd, TypeOK
  <2>2. CASE evicting[r] \in Slot
    <3>1. evicting[r] \notin Page
      BY <2>2 DEF Page, Slot
    <3>2. /\ DOMAIN mdisk' = Slot /\ DOMAIN mvol' = Slot /\ mdirty' \subseteq Slot
          /\ \A z \in Slot : MetaOK(mdisk'[z]) /\ \A m \in mvol'[z] : MetaOK(m)
      BY <1>0, <1>12, <2>2, <3>1, WriteBackMetaTypes DEF EvictEnd
    <3>3. UNCHANGED <<disk, vol, dirty>>
      BY <1>12, <3>1 DEF EvictEnd
    <3> QED BY <1>0, <1>12, <3>2, <3>3 DEF EvictEnd, TypeOK
  <2> QED BY <1>12, <2>1, <2>2 DEF EvictEnd
<1>13. ASSUME NEW r \in Reader, BeginReadLoad(r) PROVE TypeOK'
  BY <1>0, <1>13 DEF BeginReadLoad, TypeOK
<1>14. ASSUME NEW r \in Reader, BeginReadRegister(r) PROVE TypeOK'
  <2>1. snap[r].txnID \in TxnID
    BY <1>0, <1>14, SnapFacts DEF BeginReadRegister
  <2>2. readers' \in [TxnID -> Nat]
    BY <1>0, <1>14, <2>1 DEF BeginReadRegister, TypeOK
  <2> QED BY <1>0, <1>14, <2>2 DEF BeginReadRegister, TypeOK
<1>15. ASSUME NEW r \in Reader, ReadAbort(r) PROVE TypeOK'
  <2>1. snap[r].txnID \in TxnID
    BY <1>0, <1>15, SnapFacts DEF ReadAbort
  <2>2. readers[snap[r].txnID] \in Nat \ {0}
    BY <1>15 DEF ReadAbort
  <2> QED BY <1>0, <1>15, <2>1, <2>2, SMTT(30) DEF ReadAbort, TypeOK
<1>16. CASE BeginWrite
  <2>1. MetaOK(currentMeta)
    BY <1>0, Zenon DEF TypeOK
  <2>2. wtree' \subseteq Page /\ numPages' \in 2 .. MaxPages
    BY <1>16, <2>1, Zenon DEF BeginWrite, Tree, MetaOK
  <2> QED BY <1>0, <1>16, <2>2, Zenon DEF BeginWrite, TypeOK
<1>17. CASE LoadMinReader
  BY <1>0, <1>17 DEF LoadMinReader, TypeOK
<1>18. CASE PersistBegin
  <2>1. freed \o currentMeta.chain \in Seq(Page)
    <3>1. freed \in Seq(Page) /\ currentMeta.chain \in Seq(Page)
      BY <1>0, PageFacts DEF TypeOK
    <3> QED BY <3>1, ConcatFacts
  <2> QED BY <1>0, <1>18, <2>1 DEF PersistBegin, Step, TypeOK
<1>19. CASE PersistEnd
  <2>1. mem' \in [Page -> Versions] /\ dirty' \subseteq Page
    <3>1. Range(chainIDs) \in SUBSET Page /\ Write(Range(chainIDs)) /\ dirty \subseteq Page
      BY <1>0, <1>19, PageFacts DEF PersistEnd, TypeOK
    <3> QED BY <1>0, <3>1, WriteFacts
  <2> QED BY <1>0, <1>19, <2>1 DEF PersistEnd, Step, TypeOK
<1>20. CASE FlushPages
  BY <1>0, <1>20 DEF FlushPages, Step, WriteBack, TypeOK
<1>21. CASE Sync
  BY <1>0, <1>21 DEF Sync, Step, SyncFile, TypeOK
<1>22. CASE WriteMeta
  <2>1. MetaOK(NewMeta)
    BY <1>0, <1>22, NewMetaFacts DEF WriteMeta, Step
  <2> QED BY <1>0, <1>22, <2>1 DEF WriteMeta, Step, TypeOK
<1>23. CASE FlushMeta
  <2>1. CASE nextMetaPage \in mdirty \ Evicting
    <3>1. /\ DOMAIN mdisk' = Slot /\ DOMAIN mvol' = Slot /\ mdirty' \subseteq Slot
          /\ \A z \in Slot : MetaOK(mdisk'[z]) /\ \A m \in mvol'[z] : MetaOK(m)
      BY <1>0, <1>23, <2>1, WriteBackMetaTypes DEF FlushMeta
    <3> QED BY <1>0, <1>23, <3>1 DEF FlushMeta, Step, TypeOK
  <2>2. CASE nextMetaPage \notin mdirty \ Evicting
    BY <1>0, <1>23, <2>2 DEF FlushMeta, Step, TypeOK
  <2> QED BY <2>1, <2>2
<1>26. CASE Abort
  BY <1>0, <1>26, IdleWriterTypes DEF Abort, Discard, TypeOK
<1>28. CASE CommitFails
  BY <1>0, <1>28, IdleWriterTypes DEF CommitFails, Discard, TypeOK
<1>29. CASE MetaFails
  BY <1>0, <1>29, IdleWriterTypes, BoundsAssumption, SMTT(30) DEF MetaFails, TypeOK
<1>30. CASE UNCHANGED vars
  BY <1>0, <1>30 DEF TypeOK, vars
<1>31. CASE AllocReusable
  <2>1. Last(reusable) \in Page /\ Front(reusable) \in Seq(Page)
    BY <1>0, <1>31, FrontFacts DEF AllocReusable, TypeOK
  <2>2. mem' \in [Page -> Versions] /\ dirty' \subseteq Page
    BY <1>0, <1>31, <2>1, WriteFacts, SMTT(30) DEF AllocReusable, TypeOK
  <2>3. wtree' \subseteq Page /\ chainIDs' \in Seq(Page)
    BY <1>0, <1>31, <2>1, DeliverTypes DEF AllocReusable
  <2> QED BY <1>0, <1>31, <2>1, <2>2, <2>3 DEF AllocReusable, TypeOK
<1>32. CASE AllocPop
  <2>1. Head(pending).pageID \in Page /\ Tail(pending) \in Seq(Entry)
    BY <1>0, <1>32, PageFacts, PopFacts DEF AllocPop, PopReusable, Entry
  <2>2. mem' \in [Page -> Versions] /\ dirty' \subseteq Page
    BY <1>0, <1>32, <2>1, WriteFacts, SMTT(30) DEF AllocPop, TypeOK
  <2>3. wtree' \subseteq Page /\ chainIDs' \in Seq(Page)
    BY <1>0, <1>32, <2>1, DeliverTypes DEF AllocPop
  <2> QED BY <1>0, <1>32, <2>1, <2>2, <2>3 DEF AllocPop, TypeOK, Entry
<1>33. CASE AllocExtend
  <2>1. numPages \in Page /\ numPages + 1 \in 2 .. MaxPages
    BY <1>0, <1>33, BoundsAssumption, SMTT(30) DEF AllocExtend, TypeOK, Page
  <2>2. mem' \in [Page -> Versions] /\ dirty' \subseteq Page
    <3>1. {numPages} \in SUBSET Page /\ Write({numPages}) /\ dirty \subseteq Page
      BY <1>0, <1>33, <2>1 DEF AllocExtend, TypeOK
    <3> QED BY <1>0, <3>1, WriteFacts
  <2>3. wtree' \subseteq Page /\ chainIDs' \in Seq(Page)
    BY <1>0, <1>33, <2>1, DeliverTypes DEF AllocExtend
  <2> QED BY <1>0, <1>33, <2>1, <2>2, <2>3 DEF AllocExtend, TypeOK
<1>34. CASE AllocFails
  <2>1. /\ reusable' \in Seq(Page) /\ pending' \in Seq(Entry) /\ numPages' \in 2 .. MaxPages
    <3>1. reusable # <<>> => Front(reusable) \in Seq(Page)
      BY <1>0, FrontFacts DEF TypeOK
    <3>2. pending # <<>> => Tail(pending) \in Seq(Entry)
      BY <1>0, PageFacts, PopFacts
    <3>3. reusable \in Seq(Page) /\ pending \in Seq(Entry) /\ numPages \in 2 .. MaxPages
      BY <1>0, PageFacts DEF TypeOK
    <3>4. numPages < MaxPages => numPages + 1 \in 2 .. MaxPages
      BY <3>3, BoundsAssumption
    <3> QED BY <1>34, <3>1, <3>2, <3>3, <3>4 DEF AllocFails, LoseID, PopReusable
  <2> QED BY <1>0, <1>34, <2>1 DEF AllocFails, TypeOK, Entry
<1>35. ASSUME NEW p \in Page, FreePage(p) PROVE TypeOK'
  <2>1. Append(reusable, p) \in Seq(Page) /\ Append(freed, p) \in Seq(Page)
    <3>1. reusable \in Seq(Page) /\ freed \in Seq(Page)
      BY <1>0 DEF TypeOK
    <3> QED BY <3>1, AppendFacts
  <2> QED BY <1>0, <1>35, <2>1 DEF FreePage, TypeOK
<1>36. CASE PersistFails
  <2>1. pending' \in Seq(Entry)
    <3>1. pending \in Seq(Entry) /\ (pending # <<>> => Tail(pending) \in Seq(Entry))
      BY <1>0, PageFacts, PopFacts
    <3> QED BY <1>36, <3>1 DEF PersistFails, PopReusable
  <2> QED BY <1>0, <1>36, <2>1, IdleWriterTypes DEF PersistFails, TypeOK, Entry
<1>37. CASE Publish
  <2>1. MetaOK(NewMeta) /\ NewMeta.txnID \in TxnID
    BY <1>0, <1>37, NewMetaFacts DEF Publish
  <2>2. pending' \in Seq(Entry)
    <3> DEFINE n == pending \o Entries(freed, NewMeta.txnID)
    <3>1. n \in Seq(Entry)
      BY <1>0, <2>1, PageFacts, PushFacts DEF TypeOK
    <3> HIDE DEF n
    <3>2. n \o Entries(reusable, NewMeta.txnID) \in Seq(Entry)
      BY <1>0, <2>1, <3>1, PushFacts DEF TypeOK
    <3> QED BY <1>37, <3>2 DEF Publish, n
  <2> QED BY <1>0, <1>37, <2>1, <2>2, IdleWriterTypes, SMTT(30) DEF Publish, SyncFile, TypeOK, Entry
<1> QED
  BY <1>1, <1>2, <1>3, <1>4, <1>5, <1>7, <1>8, <1>9, <1>10, <1>11, <1>12, <1>13, <1>14, <1>15,
     <1>16, <1>17, <1>18, <1>19, <1>20, <1>21, <1>22, <1>23, <1>26, <1>28, <1>29, <1>30,
     <1>31, <1>32, <1>33, <1>34, <1>35, <1>36, <1>37
  DEF Next, FileStep, PoolStep, ReadStep, AllocStep, CommitStep, WriteStep
============================================================================
