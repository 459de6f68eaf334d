------------------------------ MODULE TxnAlloc ------------------------------
(***************************************************************************)
(* AllocatePage, its failures and the end of a write transaction preserve  *)
(* the inductive invariant of Txn.                                         *)
(***************************************************************************)
EXTENDS TxnLemmas

\* No snapshot under way, and no current version, has a page that is in none of
\* the places it may be.
LEMMA NotHeld ==
  ASSUME TypeOK, ReadersInv, NEW p, p \notin Live,
         \A r \in Reader : rstate[r] # "idle" =>
            \A i \in DOMAIN pending : pending[i].pageID = p => pending[i].freedAt <= snap[r].txnID
  PROVE  \A r \in Reader : rstate[r] # "idle" => p \notin DOMAIN snap[r].img
<1> SUFFICES ASSUME NEW r \in Reader, rstate[r] # "idle", p \in DOMAIN snap[r].img
             PROVE  FALSE
  OBVIOUS
<1>1. Holds(r, p)
  BY DEF ReadersInv
<1>2. PICK i \in DOMAIN pending : pending[i].pageID = p /\ pending[i].freedAt > snap[r].txnID
  BY <1>1 DEF Holds
<1>3. pending[i].freedAt <= snap[r].txnID
  BY <1>2
<1>4. pending[i].freedAt \in Int /\ snap[r].txnID \in Int
  <2>1. pending[i] \in Entry
    BY PageFacts
  <2> QED BY <2>1, SnapFacts, BoundsAssumption DEF Entry, TxnID
<1> QED BY <1>2, <1>3, <1>4

\* popReusable takes no page that a snapshot under way can reach, and leaves those
\* that one can reach on the list.
LEMMA PopSafe ==
  ASSUME TypeOK, ListsInv, WriterInv, ReadersInv, mode = "up", PopReusable, pending' = Tail(pending)
  PROVE  /\ Head(pending).pageID \notin Free' /\ Head(pending).pageID \in Free
         /\ Free = Free' \cup {Head(pending).pageID}
         /\ IsInjective(PageIDs(pending'))
         /\ \A r \in Reader : rstate[r] # "idle" =>
              /\ Head(pending).pageID \notin DOMAIN snap[r].img
              /\ \A i \in DOMAIN pending : pending[i].freedAt > snap[r].txnID =>
                   \E j \in DOMAIN pending' : pending'[j] = pending[i]
<1>1. /\ pending \in Seq(Entry) /\ pending # <<>>
      /\ IsInjective(PageIDs(pending)) /\ Head(pending).freedAt <= minTxn
  BY PageFacts DEF PopReusable, ListsInv
<1>2. /\ Free = {Head(pending).pageID} \cup Ids(Tail(pending))
      /\ IsInjective(PageIDs(Tail(pending))) /\ Head(pending).pageID \notin Ids(Tail(pending))
      /\ \A i \in DOMAIN pending : pending[i] = Head(pending) \/ \E j \in DOMAIN Tail(pending) : Tail(pending)[j] = pending[i]
      /\ Head(pending) \in Entry
  BY <1>1, PopFacts DEF Free
<1>3. ASSUME NEW r \in Reader, rstate[r] # "idle"
      PROVE  Head(pending).freedAt <= snap[r].txnID /\ ~(Head(pending).freedAt > snap[r].txnID)
  <2>1. Head(pending).freedAt \in Int /\ snap[r].txnID \in Int /\ minTxn \in Int
    <3>1. Head(pending).freedAt \in TxnID /\ minTxn \in TxnID \cup {-1} /\ snap[r].txnID \in Int
      BY <1>2, <1>3, SnapFacts DEF Entry, TypeOK
    <3> QED BY <3>1, BoundsAssumption DEF TxnID
  <2>2. minTxn <= snap[r].txnID
    BY <1>3 DEF ReadersInv
  <2> QED BY <1>1, <2>1, <2>2
<1>4. \A i \in DOMAIN pending : pending[i].pageID = Head(pending).pageID => pending[i] = Head(pending)
  <2> SUFFICES ASSUME NEW i \in DOMAIN pending, pending[i].pageID = Head(pending).pageID,
                      NEW j \in DOMAIN Tail(pending), Tail(pending)[j] = pending[i]
               PROVE  FALSE
    BY <1>2
  <2>1. Tail(pending)[j].pageID \in Ids(Tail(pending))
    BY DEF Ids
  <2> QED BY <2>1, <1>2
<1>5. Head(pending).pageID \notin Live
  BY <1>2 DEF WriterInv
<1>6. \A r \in Reader : rstate[r] # "idle" => Head(pending).pageID \notin DOMAIN snap[r].img
  BY <1>3, <1>4, <1>5, NotHeld
<1>7. ASSUME NEW r \in Reader, rstate[r] # "idle", NEW i \in DOMAIN pending,
             pending[i].freedAt > snap[r].txnID
      PROVE  \E j \in DOMAIN pending' : pending'[j] = pending[i]
  BY <1>2, <1>3, <1>7
<1> QED BY <1>2, <1>6, <1>7 DEF Free

\* What happens to the freelist while a page is taken off it, or nothing is: no
\* page that a snapshot under way can reach leaves it.
Shrinks ==
  /\ Free' \subseteq Free /\ IsInjective(PageIDs(pending'))
  /\ \A r \in Reader : rstate[r] # "idle" =>
       \A i \in DOMAIN pending : pending[i].freedAt > snap[r].txnID =>
         \E j \in DOMAIN pending' : pending'[j] = pending[i]

\* What is left of the freelist still holds the pages of the snapshots under way.
LEMMA ShrinksReaders ==
  ASSUME TypeOK, IdleInv, ReadersInv, Shrinks, UNCHANGED <<currentMeta, readers, rstate, snap>>,
         minTxn' = -1
  PROVE  ReadersInv'
<1>1. \A t \in TxnID : Counted(t)' = Counted(t)
  BY DEF Counted
<1>2. ASSUME NEW r \in Reader, rstate[r] # "idle", NEW q \in DOMAIN snap[r].img PROVE Holds(r, q)'
  BY <1>2 DEF ReadersInv, Holds, Shrinks, Live
<1>3. -1 <= currentMeta.txnID /\ \A r \in Reader : rstate[r] # "idle" => -1 <= snap[r].txnID
  BY TxnFacts, SnapFacts, BoundsAssumption DEF TxnID
<1> QED BY <1>1, <1>2, <1>3 DEF ReadersInv

\* AllocatePage hands out p, taken from a list or from beyond the end of the file:
\* whichever it was, the page belongs to nobody else.
LEMMA TakePage ==
  ASSUME IInv, TypeOK', Allocating, NEW p \in Page,
         Write({p}), allocated' = allocated \cup {p}, Deliver(p),
         UNCHANGED <<mode, metaVars, diskVars, dbVars, readVars, phase, freed>>,
         minTxn' = minTxn \/ minTxn' = -1,
         p \notin Live \cup wtree \cup Range(chainIDs) \cup Range(freed),
         \A r \in Reader : rstate[r] # "idle" => p \notin DOMAIN snap[r].img,
         Shrinks, p \notin Free',
         Range(reusable') \subseteq Range(reusable) \ {p}, IsInjective(reusable'),
         p < numPages', numPages <= numPages'
  PROVE  IInv'
<1>0. /\ TypeOK /\ MetasSound /\ IdleInv /\ ListsInv /\ WriterInv /\ BoundInv
      /\ ReadersInv /\ CleanInv /\ SnapshotIntact
  BY DEF IInv
<1> USE DEF metaVars, diskVars, dbVars, readVars
<1>1. mode = "up" /\ phase \in {"active", "persist"} /\ Live' = Live
  BY DEF Allocating, Live
<1>2. MetasSound'
  BY <1>0 DEF MetasSound
<1>3. IdleInv'
  BY <1>0, <1>1 DEF IdleInv
<1>4. /\ wtree' \subseteq wtree \cup {p} /\ chainIDs' \in Seq(Page) /\ IsInjective(chainIDs')
      /\ Range(chainIDs') \subseteq Range(chainIDs) \cup {p}
      /\ wtree \subseteq wtree' /\ (phase = "active" => chainIDs' = chainIDs)
      /\ (phase = "persist" => wtree' = wtree)
  <2>1. chainIDs \in Seq(Page) /\ IsInjective(chainIDs)
    BY <1>0, WriterTypes DEF ListsInv
  <2>2. /\ Append(chainIDs, p) \in Seq(Page) /\ IsInjective(Append(chainIDs, p))
        /\ Range(Append(chainIDs, p)) = Range(chainIDs) \cup {p}
    BY <2>1, AppendFacts
  <2> QED BY <2>1, <2>2 DEF Deliver
<1>5. ListsInv'
  BY <1>0, <1>4 DEF ListsInv, Shrinks
<1>6. WriterInv'
  <2>1. Range(currentMeta.chain) \subseteq Live
    BY <1>0, PageFacts
  <2>2. /\ (Free' \cup allocated' \cup Range(reusable') \cup Range(chainIDs')) \cap Live' = {}
        /\ Free' \cap allocated' = {} /\ wtree' \subseteq Live' \cup allocated'
    BY <1>0, <1>1, <1>4, SMTT(30) DEF WriterInv, Shrinks
  <2>3. phase = "active" =>
          /\ chainIDs' = <<>>
          /\ Live' \subseteq wtree' \cup Range(freed') \cup Range(currentMeta'.chain)
          /\ Range(currentMeta'.chain) \cap (wtree' \cup Range(freed')) = {}
    BY <1>0, <1>1, <1>4, <2>1 DEF WriterInv
  <2>4. phase = "persist" => Live' \subseteq wtree' \cup Range(freed')
    BY <1>0, <1>1, <1>4 DEF WriterInv
  <2> QED BY <1>1, <2>2, <2>3, <2>4 DEF WriterInv
<1>7. BoundInv'
  <2>1. /\ numPages \in Nat /\ numPages' \in Nat /\ Page \subseteq Nat /\ currentMeta.numPages \in Nat
        /\ wtree \cup allocated \cup Range(freed) \cup Range(reusable) \cup Range(chainIDs) \subseteq Page
    <3>1. numPages' \in 2 .. MaxPages
      BY Zenon DEF TypeOK
    <3>2. numPages' \in Nat
      BY <3>1, BoundsAssumption
    <3> QED BY <1>0, <3>2, PageFacts
  <2>2. /\ \A q \in Live \cup Free : q < currentMeta.numPages
        /\ currentMeta.numPages <= numPages
        /\ \A q \in wtree \cup allocated \cup Range(freed) \cup Range(reusable) \cup Range(chainIDs) :
             q < numPages
    BY <1>0, <1>1 DEF BoundInv
  <2>3. currentMeta.numPages <= numPages'
    BY <2>1, <2>2
  <2>4. \A q \in wtree \cup allocated \cup Range(freed) \cup Range(reusable) \cup Range(chainIDs) :
             q < numPages'
    <3> SUFFICES ASSUME NEW q \in wtree \cup allocated \cup Range(freed) \cup Range(reusable) \cup Range(chainIDs)
                 PROVE  q < numPages'
      OBVIOUS
    <3>1. q \in Nat /\ q < numPages
      BY <2>1, <2>2
    <3> QED BY <2>1, <3>1
  <2> QED BY <2>2, <2>3, <2>4, <1>1, <1>4 DEF BoundInv, Shrinks
<1>8. ReadersInv'
  <2>1. \A t \in TxnID : Counted(t)' = Counted(t)
    BY DEF Counted
  <2>2. ASSUME NEW r \in Reader, rstate[r] # "idle", NEW q \in DOMAIN snap[r].img PROVE Holds(r, q)'
    BY <1>0, <1>1, <2>2 DEF ReadersInv, Holds, Shrinks
  <2>3. -1 <= currentMeta.txnID /\ \A r \in Reader : rstate[r] # "idle" => -1 <= snap[r].txnID
    BY <1>0, TxnFacts, SnapFacts, BoundsAssumption, SMTT(30) DEF TxnID
  <2> QED BY <1>0, <2>1, <2>2, <2>3 DEF ReadersInv
<1>9. mem' \in [Page -> Versions] /\ dirty' = dirty \cup {p} /\ \A q \in Page \ {p} : mem'[q] = mem[q]
  BY <1>0, WriteFacts
<1>10. CleanInv'
  <2> SUFFICES ASSUME NEW q \in Needed', q \notin dirty' PROVE disk'[q] = mem'[q]
    BY DEF CleanInv
  <2>1. q \in Needed /\ q # p
    BY <1>1, <1>4, <1>9 DEF Needed
  <2>2. q \in Page
    BY <2>1, <1>0, PageFacts DEF Needed
  <2> QED BY <2>1, <2>2, <1>0, <1>1, <1>9 DEF CleanInv
<1>11. SnapshotIntact'
  <2>1. ASSUME NEW r \in Reader, rstate[r] # "idle" PROVE Intact(snap[r], mem')
    BY <1>0, <1>9, <2>1, PageFacts DEF SnapshotIntact, Intact
  <2>2. Intact(currentMeta, mem')
    BY <1>0, <1>1, <1>9, PageFacts DEF SnapshotIntact, Intact, Live
  <2> QED BY <2>1, <2>2 DEF SnapshotIntact, Intact
<1> QED BY <1>2, <1>3, <1>5, <1>6, <1>7, <1>8, <1>10, <1>11 DEF IInv

\* An error inside AllocatePage: a page may be lost, none changes hands.
LEMMA LosePage ==
  ASSUME IInv, TypeOK', Allocating, Shrinks, minTxn' = -1,
         UNCHANGED <<mode, metaVars, pageVars, dbVars, readVars, phase,
                     wtree, allocated, freed, chainIDs>>,
         Range(reusable') \subseteq Range(reusable), IsInjective(reusable'),
         numPages <= numPages'
  PROVE  IInv'
<1>0. /\ TypeOK /\ MetasSound /\ IdleInv /\ ListsInv /\ WriterInv /\ BoundInv
      /\ ReadersInv /\ CleanInv /\ SnapshotIntact
  BY DEF IInv
<1> USE DEF metaVars, pageVars, dbVars, readVars
<1>1. mode = "up" /\ phase \in {"active", "persist"} /\ Live' = Live /\ Needed' = Needed
  BY DEF Allocating, Live, Needed
<1>2. MetasSound'
  BY <1>0 DEF MetasSound
<1>3. IdleInv'
  BY <1>0, <1>1 DEF IdleInv
<1>4. ListsInv'
  BY <1>0 DEF ListsInv, Shrinks
<1>5. WriterInv'
  BY <1>0, <1>1 DEF WriterInv, Shrinks
<1>6. BoundInv'
  <2>1. /\ numPages \in Nat /\ numPages' \in Nat /\ Page \subseteq Nat /\ currentMeta.numPages \in Nat
        /\ wtree \cup allocated \cup Range(freed) \cup Range(reusable) \cup Range(chainIDs) \subseteq Page
    <3>1. numPages' \in 2 .. MaxPages
      BY Zenon DEF TypeOK
    <3>2. numPages' \in Nat
      BY <3>1, BoundsAssumption
    <3> QED BY <1>0, <3>2, PageFacts
  <2>2. /\ \A q \in Live \cup Free : q < currentMeta.numPages
        /\ currentMeta.numPages <= numPages
        /\ \A q \in wtree \cup allocated \cup Range(freed) \cup Range(reusable) \cup Range(chainIDs) :
             q < numPages
    BY <1>0, <1>1 DEF BoundInv
  <2>3. currentMeta.numPages <= numPages'
    BY <2>1, <2>2
  <2>4. ASSUME NEW q \in wtree \cup allocated \cup Range(freed) \cup Range(reusable) \cup Range(chainIDs)
        PROVE  q < numPages'
    <3>1. q \in Nat /\ q < numPages
      BY <2>1, <2>2
    <3> QED BY <2>1, <3>1
  <2> QED BY <2>2, <2>3, <2>4, <1>1 DEF BoundInv, Shrinks
<1>7. ReadersInv'
  BY <1>0, ShrinksReaders
<1>8. CleanInv' /\ SnapshotIntact'
  BY <1>0, <1>1 DEF CleanInv, SnapshotIntact, Intact
<1> QED BY <1>2, <1>3, <1>4, <1>5, <1>6, <1>7, <1>8 DEF IInv

\* A write transaction ends without publishing anything: the pages whose dirty
\* flags MarkClean clears are needed by nobody.
LEMMA EndWriter ==
  ASSUME IInv, TypeOK', mode = "up", IdleWriter, Shrinks,
         UNCHANGED <<mode, metaVars, diskVars, mem, dbVars, readVars>>,
         NEW D \in SUBSET (allocated \cup Range(reusable)), dirty' = dirty \ D
  PROVE  IInv'
<1>0. /\ TypeOK /\ MetasSound /\ IdleInv /\ ListsInv /\ WriterInv /\ BoundInv
      /\ ReadersInv /\ CleanInv /\ SnapshotIntact
  BY DEF IInv
<1> USE DEF metaVars, diskVars, dbVars, readVars
<1>1. /\ phase' = "none" /\ minTxn' = -1 /\ wtree' = {} /\ allocated' = {}
      /\ freed' = <<>> /\ reusable' = <<>> /\ chainIDs' = <<>> /\ Live' = Live
      /\ Range(<<>>) = {} /\ IsInjective(<<>>)
  BY EmptyFacts DEF IdleWriter, Live
<1>2. MetasSound'
  BY <1>0 DEF MetasSound
<1>3. IdleInv'
  BY <1>0, <1>1 DEF IdleInv
<1>4. ListsInv'
  BY <1>1 DEF ListsInv, Shrinks
<1>5. WriterInv'
  BY <1>0, <1>1 DEF WriterInv, Shrinks
<1>6. BoundInv'
  BY <1>0, <1>1 DEF BoundInv, Shrinks
<1>7. ReadersInv'
  BY <1>0, <1>1, ShrinksReaders
<1>8. CleanInv'
  <2> SUFFICES ASSUME NEW q \in Needed', q \notin dirty' PROVE disk'[q] = mem'[q]
    BY DEF CleanInv
  <2>1. q \in Live \/ \E r \in Reader : rstate[r] # "idle" /\ q \in DOMAIN snap[r].img
    BY <1>1 DEF Needed
  <2>2. q \in Needed
    BY <2>1 DEF Needed
  <2>3. q \in Live \cup Free
    <3>1. ASSUME NEW r \in Reader, rstate[r] # "idle", q \in DOMAIN snap[r].img
          PROVE  q \in Live \cup Free
      BY <1>0, <3>1 DEF ReadersInv, Holds, Free, Ids
    <3> QED BY <2>1, <3>1
  <2>4. q \notin D
    BY <1>0, <2>3 DEF WriterInv, ListsInv
  <2> QED BY <1>0, <2>2, <2>4 DEF CleanInv
<1>9. SnapshotIntact'
  BY <1>0 DEF SnapshotIntact, Intact
<1> QED BY <1>2, <1>3, <1>4, <1>5, <1>6, <1>7, <1>8, <1>9 DEF IInv

-----------------------------------------------------------------------------
(* The steps of the write transaction.                                     *)

\* popReusable shrinks the freelist by its head.
LEMMA PopShrinks ==
  ASSUME TypeOK, ListsInv, WriterInv, ReadersInv, mode = "up", PopReusable, pending' = Tail(pending)
  PROVE  Shrinks
BY PopSafe DEF Shrinks

\* So does a freelist that stays as it is.
LEMMA SameShrinks ==
  ASSUME ListsInv, UNCHANGED pending
  PROVE  Shrinks
BY DEF Shrinks, ListsInv, Free

\* AllocatePage, whichever way it finds a page.
LEMMA AllocPreserves ==
  ASSUME IInv, TypeOK', AllocReusable \/ AllocPop \/ AllocExtend
  PROVE  IInv'
<1>0. /\ TypeOK /\ MetasSound /\ IdleInv /\ ListsInv /\ WriterInv /\ BoundInv
      /\ ReadersInv /\ CleanInv /\ SnapshotIntact
      /\ Allocating /\ mode = "up" /\ phase # "none"
  BY DEF IInv, AllocReusable, AllocPop, AllocExtend, Allocating
<1>a. /\ \A q \in Live \cup Free : q < currentMeta.numPages
      /\ currentMeta.numPages <= numPages
      /\ \A q \in wtree \cup allocated \cup Range(freed) \cup Range(reusable) \cup Range(chainIDs) :
           q < numPages
  BY <1>0 DEF BoundInv
<1>b. /\ numPages \in Nat /\ Page \subseteq Nat /\ currentMeta.numPages \in Nat
      /\ Live \cup Free \subseteq Page
      /\ wtree \cup allocated \cup Range(freed) \cup Range(reusable) \cup Range(chainIDs) \subseteq Page
  BY <1>0, PageFacts
<1> USE DEF metaVars, diskVars, dbVars, readVars
<1>1. CASE AllocReusable
  <2> DEFINE p == Last(reusable)
  <2>1. /\ p \in Page /\ Range(reusable) = {p} \cup Range(reusable')
        /\ IsInjective(reusable') /\ p \notin Range(reusable')
    BY <1>0, <1>1, FrontFacts, WriterTypes DEF AllocReusable, ListsInv
  <2>2. /\ Write({p}) /\ allocated' = allocated \cup {p} /\ Deliver(p)
        /\ UNCHANGED <<mode, metaVars, diskVars, dbVars, pending, readVars, phase, numPages, freed, minTxn>>
    BY <1>1 DEF AllocReusable
  <2> HIDE DEF p
  <2>3. /\ p \notin Live \cup wtree \cup Range(chainIDs) \cup Range(freed)
        /\ p \notin Free /\ p \notin Free'
    BY <1>0, <2>1, <2>2 DEF WriterInv, ListsInv, Free
  <2>4. \A r \in Reader : rstate[r] # "idle" => p \notin DOMAIN snap[r].img
    BY <1>0, <2>3, OutsideNotHeld
  <2>5. Shrinks
    BY <1>0, <2>2, SameShrinks
  <2>6. p < numPages' /\ numPages <= numPages'
    BY <1>a, <1>b, <2>1, <2>2
  <2>7. Range(reusable') \subseteq Range(reusable) \ {p}
    BY <2>1
  <2> QED BY <1>0, <2>1, <2>2, <2>3, <2>4, <2>5, <2>6, <2>7, TakePage
<1>2. CASE AllocPop
  <2> DEFINE p == Head(pending).pageID
  <2>1. /\ Write({p}) /\ allocated' = allocated \cup {p} /\ Deliver(p) /\ minTxn' = -1
        /\ UNCHANGED <<mode, metaVars, diskVars, dbVars, readVars, phase, numPages, freed, reusable>>
        /\ PopReusable /\ pending' = Tail(pending)
    BY <1>2 DEF AllocPop
  <2>2. /\ p \notin Free' /\ p \in Free
        /\ \A r \in Reader : rstate[r] # "idle" => p \notin DOMAIN snap[r].img
    BY <1>0, <2>1, PopSafe
  <2> HIDE DEF p
  <2>3. Shrinks
    BY <1>0, <2>1, PopShrinks
  <2>4. p \notin Live \cup wtree \cup Range(chainIDs) \cup Range(freed) /\ p \notin Range(reusable)
    BY <1>0, <2>2 DEF WriterInv, ListsInv
  <2>5. p \in Nat /\ p < currentMeta.numPages
    BY <1>a, <1>b, <2>2
  <2>6. p < numPages' /\ numPages <= numPages'
    BY <1>a, <1>b, <2>1, <2>5
  <2>7. Range(reusable') \subseteq Range(reusable) \ {p} /\ IsInjective(reusable') /\ p \in Page
    BY <1>0, <1>b, <2>1, <2>2, <2>4 DEF ListsInv
  <2> QED BY <1>0, <2>1, <2>2, <2>3, <2>4, <2>6, <2>7, TakePage
<1>3. CASE AllocExtend
  <2> DEFINE p == numPages
  <2>1. /\ Write({p}) /\ allocated' = allocated \cup {p} /\ Deliver(p) /\ minTxn' = -1
        /\ UNCHANGED <<mode, metaVars, diskVars, dbVars, pending, readVars, phase, freed, reusable>>
        /\ numPages' = p + 1 /\ p < MaxPages
    BY <1>3 DEF AllocExtend
  <2>2. p \notin Live \cup Free
    BY <1>a, <1>b
  <2>3. p \notin wtree \cup Range(chainIDs) \cup Range(freed) \cup Range(reusable)
    BY <1>a, <1>b
  <2>4. p < numPages' /\ numPages <= numPages' /\ p \in Page
    BY <1>0, <2>1, SizeFacts
  <2> HIDE DEF p
  <2>5. \A r \in Reader : rstate[r] # "idle" => p \notin DOMAIN snap[r].img
    BY <1>0, <2>2, OutsideNotHeld
  <2>6. Shrinks
    BY <1>0, <2>1, SameShrinks
  <2>7. /\ Range(reusable') \subseteq Range(reusable) \ {p} /\ IsInjective(reusable')
        /\ p \notin Free'
    BY <1>0, <2>1, <2>2, <2>3 DEF ListsInv, Free
  <2> QED BY <1>0, <2>1, <2>2, <2>3, <2>4, <2>5, <2>6, <2>7, TakePage
<1> QED BY <1>1, <1>2, <1>3

\* Aborts, and errors at every stage of a transaction.
LEMMA FailuresPreserve ==
  ASSUME IInv, TypeOK', Abort \/ AllocFails \/ PersistFails \/ CommitFails \/ MetaFails
  PROVE  IInv'
<1>0. TypeOK /\ ListsInv /\ WriterInv /\ ReadersInv /\ mode = "up"
  BY DEF IInv, Abort, AllocFails, Allocating, PersistFails, CommitFails, MetaFails
<1>a. UNCHANGED pending \/ (PopReusable /\ pending' = Tail(pending)) => Shrinks
  BY <1>0, SameShrinks, PopShrinks
<1>b. reusable # <<>> => /\ Range(Front(reusable)) \subseteq Range(reusable)
                         /\ IsInjective(Front(reusable))
  <2>1. reusable \in Seq(Page) /\ IsInjective(reusable)
    BY <1>0, WriterTypes DEF ListsInv
  <2> QED BY <2>1, FrontFacts
<1>1. CASE AllocFails
  <2>1. /\ UNCHANGED pending \/ (PopReusable /\ pending' = Tail(pending))
        /\ Range(reusable') \subseteq Range(reusable) /\ IsInjective(reusable')
        /\ numPages <= numPages'
    <3>1. numPages \in Nat /\ IsInjective(reusable)
      BY <1>0, PageFacts DEF ListsInv
    <3> QED BY <1>1, <1>b, <3>1 DEF AllocFails, LoseID
  <2> QED BY <1>1, <1>a, <2>1, LosePage DEF AllocFails
<1>2. CASE PersistFails
  <2>1. UNCHANGED pending \/ (PopReusable /\ pending' = Tail(pending))
    BY <1>2 DEF PersistFails
  <2>2. PICK D \in SUBSET (allocated \cup Range(reusable)) : dirty' = dirty \ D
    BY <1>2, <1>b DEF PersistFails
  <2> QED BY <1>0, <1>2, <1>a, <2>1, <2>2, EndWriter DEF PersistFails
<1>3. CASE Abort \/ CommitFails \/ MetaFails
  <2>1. /\ dirty' = dirty \ (allocated \cup Range(reusable)) /\ IdleWriter
        /\ UNCHANGED <<mode, metaVars, diskVars, mem, dbVars, pending, readVars>>
    BY <1>3 DEF Abort, CommitFails, MetaFails, Discard
  <2> QED BY <1>0, <1>a, <2>1, EndWriter
<1> QED BY <1>1, <1>2, <1>3

=============================================================================
