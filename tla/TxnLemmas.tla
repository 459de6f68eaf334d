----------------------------- MODULE TxnLemmas -----------------------------
(***************************************************************************)
(* Facts about the operators of Txn that the proofs rest on.               *)
(***************************************************************************)
EXTENDS TxnInv, SeqLemmas

\* An entry of the freelist.
Entry == [pageID : Page, freedAt : TxnID]

\* What is left of a list when its last element is taken.
LEMMA FrontFacts ==
  ASSUME NEW S, NEW s \in Seq(S), s # <<>>
  PROVE  /\ Front(s) \in Seq(S) /\ Last(s) \in S
         /\ Range(s) = {Last(s)} \cup Range(Front(s))
         /\ IsInjective(s) => IsInjective(Front(s)) /\ Last(s) \notin Range(Front(s))
<1> DEFINE f == Front(s)
           l == Last(s)
<1>1. /\ f \in Seq(S) /\ l \in S /\ l = s[Len(s)]
      /\ DOMAIN f = 1 .. Len(s) - 1
      /\ \A i \in 1 .. Len(s) - 1 : f[i] = s[i]
      /\ DOMAIN s = 1 .. Len(s) /\ Len(s) \in Nat \ {0}
  BY DEF Front, Last
<1> HIDE DEF f, l
<1>2. Range(s) = {l} \cup Range(f)
  BY <1>1 DEF Range
<1>3. IsInjective(s) => IsInjective(f) /\ l \notin Range(f)
  BY <1>1 DEF Range, IsInjective
<1> QED BY <1>1, <1>2, <1>3 DEF f, l

-----------------------------------------------------------------------------
(* Freelist entries.                                                       *)

\* The page ids of a list of entries are a list of pages.
LEMMA PageIDsFacts ==
  ASSUME NEW s \in Seq(Entry)
  PROVE  /\ PageIDs(s) \in Seq(Page) /\ Len(PageIDs(s)) = Len(s)
         /\ Range(PageIDs(s)) = Ids(s) /\ Ids(s) \subseteq Page
<1>1. \A i \in 1 .. Len(s) : s[i].pageID \in Page
  <2>1. \A i \in 1 .. Len(s) : s[i] \in Entry
    OBVIOUS
  <2> QED BY <2>1 DEF Entry
<1>2. PageIDs(s) \in Seq(Page) /\ Len(PageIDs(s)) = Len(s)
  BY <1>1 DEF PageIDs
<1>3. Range(PageIDs(s)) = Ids(s)
  BY DEF Range, Ids, PageIDs
<1>4. Ids(s) \subseteq Page
  BY <1>1 DEF Ids
<1> QED BY <1>2, <1>3, <1>4

\* popReusable: the head leaves the list for good.
LEMMA PopFacts ==
  ASSUME NEW s \in Seq(Entry), s # <<>>
  PROVE  /\ Tail(s) \in Seq(Entry) /\ Head(s) \in Entry
         /\ Ids(s) = {Head(s).pageID} \cup Ids(Tail(s))
         /\ IsInjective(PageIDs(s)) =>
              IsInjective(PageIDs(Tail(s))) /\ Head(s).pageID \notin Ids(Tail(s))
         /\ \A i \in DOMAIN s : s[i] = Head(s) \/ \E j \in DOMAIN Tail(s) : Tail(s)[j] = s[i]
<1>1. Tail(s) \in Seq(Entry) /\ Head(s) \in Entry
  OBVIOUS
<1>2. PageIDs(s) \in Seq(Page) /\ PageIDs(s) # <<>>
  <2>1. PageIDs(s) \in Seq(Page) /\ Len(PageIDs(s)) = Len(s)
    BY PageIDsFacts
  <2>2. Len(s) # 0
    OBVIOUS
  <2> QED BY <2>1, <2>2
<1>3. PageIDs(Tail(s)) = Tail(PageIDs(s)) /\ Head(PageIDs(s)) = Head(s).pageID
  <2>1. /\ Tail(PageIDs(s)) \in Seq(Page) /\ PageIDs(Tail(s)) \in Seq(Page)
        /\ Len(Tail(PageIDs(s))) = Len(s) - 1 /\ Len(PageIDs(Tail(s))) = Len(s) - 1
    <3>1. Len(Tail(s)) = Len(s) - 1
      OBVIOUS
    <3>2. PageIDs(s) \in Seq(Page) /\ Len(PageIDs(s)) = Len(s)
      BY PageIDsFacts
    <3>3. PageIDs(Tail(s)) \in Seq(Page) /\ Len(PageIDs(Tail(s))) = Len(Tail(s))
      BY <1>1, PageIDsFacts
    <3>4. Tail(PageIDs(s)) \in Seq(Page) /\ Len(Tail(PageIDs(s))) = Len(PageIDs(s)) - 1
      BY <1>2
    <3> QED BY <3>1, <3>2, <3>3, <3>4
  <2>2. \A i \in 1 .. Len(s) - 1 : PageIDs(Tail(s))[i] = Tail(PageIDs(s))[i]
    BY DEF PageIDs
  <2>3. Head(PageIDs(s)) = Head(s).pageID
    BY <1>2 DEF PageIDs
  <2> QED BY <2>1, <2>2, <2>3
<1>4. Range(PageIDs(s)) = Ids(s) /\ Range(PageIDs(Tail(s))) = Ids(Tail(s))
  BY <1>1, PageIDsFacts
<1>5. \A i \in DOMAIN s : s[i] = Head(s) \/ \E j \in DOMAIN Tail(s) : Tail(s)[j] = s[i]
  <2> SUFFICES ASSUME NEW i \in DOMAIN s, i # 1
               PROVE  \E j \in DOMAIN Tail(s) : Tail(s)[j] = s[i]
    OBVIOUS
  <2>1. i - 1 \in DOMAIN Tail(s) /\ Tail(s)[i - 1] = s[i]
    OBVIOUS
  <2> QED BY <2>1
<1>6. /\ Range(PageIDs(s)) = {Head(PageIDs(s))} \cup Range(Tail(PageIDs(s)))
      /\ IsInjective(PageIDs(s)) => /\ IsInjective(Tail(PageIDs(s)))
                                    /\ Head(PageIDs(s)) \notin Range(Tail(PageIDs(s)))
  BY <1>2, TailFacts
<1> QED BY <1>1, <1>3, <1>4, <1>5, <1>6

\* freelist.load: one entry per id, in order.
LEMMA LoadFacts ==
  ASSUME NEW ids \in Seq(Page), NEW t \in TxnID
  PROVE  LET e == Entries(ids, t) IN
         /\ e \in Seq(Entry) /\ Len(e) = Len(ids)
         /\ \A i \in 1 .. Len(ids) : e[i].pageID = ids[i] /\ e[i].freedAt = t
         /\ Ids(e) = Range(ids) /\ PageIDs(e) = ids
<1> DEFINE e == Entries(ids, t)
<1>1. \A i \in 1 .. Len(ids) : [pageID |-> ids[i], freedAt |-> t] \in Entry
  BY DEF Entry
<1>2. e = [i \in 1 .. Len(ids) |-> [pageID |-> ids[i], freedAt |-> t]]
  BY DEF Entries
<1>3. e \in Seq(Entry) /\ Len(e) = Len(ids)
  BY <1>1, <1>2
<1>4. \A i \in 1 .. Len(ids) : e[i].pageID = ids[i] /\ e[i].freedAt = t
  BY <1>2
<1> HIDE DEF e
<1>5. PageIDs(e) = ids
  <2>1. PageIDs(e) \in Seq(Page) /\ Len(PageIDs(e)) = Len(ids)
    BY <1>3, PageIDsFacts
  <2>2. \A i \in 1 .. Len(ids) : PageIDs(e)[i] = ids[i]
    BY <1>3, <1>4 DEF PageIDs
  <2> QED BY <2>1, <2>2
<1>6. Ids(e) = Range(ids)
  BY <1>3, <1>5, PageIDsFacts
<1> QED BY <1>3, <1>4, <1>5, <1>6 DEF e

\* Every entry of s is in n; every page of ids is, as freed at transaction t.
Keeps(n, s) == \A i \in DOMAIN s : \E j \in DOMAIN n : n[j] = s[i]
Lists(n, ids, t) ==
  \A p \in Range(ids) : \E j \in DOMAIN n : n[j].pageID = p /\ n[j].freedAt = t

\* push: entries for the pages ids, freed at transaction t, at the end of the list.
LEMMA PushFacts ==
  ASSUME NEW s \in Seq(Entry), NEW ids \in Seq(Page), NEW t \in TxnID,
         NEW n, n = s \o Entries(ids, t)
  PROVE  /\ n \in Seq(Entry)
         /\ Ids(n) = Ids(s) \cup Range(ids)
         /\ IsInjective(PageIDs(s)) /\ IsInjective(ids) /\ Ids(s) \cap Range(ids) = {}
              => IsInjective(PageIDs(n))
         /\ Keeps(n, s) /\ Lists(n, ids, t)
<1> DEFINE e == Entries(ids, t)
<1>1. /\ e \in Seq(Entry) /\ Len(e) = Len(ids)
      /\ \A i \in 1 .. Len(ids) : e[i].pageID = ids[i] /\ e[i].freedAt = t
  BY LoadFacts
<1>a. n = s \o e
  OBVIOUS
<1> HIDE DEF e
<1>2. /\ n \in Seq(Entry) /\ Len(n) = Len(s) + Len(ids)
      /\ \A i \in 1 .. Len(s) : i \in DOMAIN n /\ n[i] = s[i]
      /\ \A i \in 1 .. Len(ids) : Len(s) + i \in DOMAIN n /\ n[Len(s) + i] = e[i]
  <2> e \in Seq(Entry) /\ n = s \o e
    BY <1>1, <1>a
  <2>1. n \in Seq(Entry) /\ Len(n) = Len(s) + Len(e)
    OBVIOUS
  <2>2. \A i \in 1 .. Len(s) : i \in DOMAIN n /\ n[i] = s[i]
    OBVIOUS
  <2>3. \A i \in 1 .. Len(e) : Len(s) + i \in DOMAIN n /\ n[Len(s) + i] = e[i]
    OBVIOUS
  <2> QED BY <2>1, <2>2, <2>3, <1>1
<1>3. PageIDs(n) = PageIDs(s) \o ids
  <2>1. /\ PageIDs(n) \in Seq(Page) /\ PageIDs(s) \o ids \in Seq(Page)
        /\ Len(PageIDs(n)) = Len(s) + Len(ids) /\ Len(PageIDs(s) \o ids) = Len(s) + Len(ids)
    <3>1. PageIDs(s) \in Seq(Page) /\ Len(PageIDs(s)) = Len(s)
      BY PageIDsFacts
    <3>2. PageIDs(n) \in Seq(Page) /\ Len(PageIDs(n)) = Len(n)
      BY <1>2, PageIDsFacts
    <3>3. PageIDs(s) \o ids \in Seq(Page) /\ Len(PageIDs(s) \o ids) = Len(PageIDs(s)) + Len(ids)
      <4> DEFINE a == PageIDs(s)
      <4>1. a \in Seq(Page)
        BY <3>1
      <4> HIDE DEF a
      <4>2. a \o ids \in Seq(Page) /\ Len(a \o ids) = Len(a) + Len(ids)
        BY <4>1, ConcatFacts
      <4> QED BY <4>2 DEF a
    <3> QED BY <3>1, <3>2, <3>3, <1>2
  <2>2. ASSUME NEW i \in 1 .. Len(s) + Len(ids) PROVE PageIDs(n)[i] = (PageIDs(s) \o ids)[i]
    <3>1. PageIDs(n)[i] = n[i].pageID
      BY <1>2 DEF PageIDs
    <3>2. CASE i \in 1 .. Len(s)
      <4>1. (PageIDs(s) \o ids)[i] = PageIDs(s)[i] /\ PageIDs(s)[i] = s[i].pageID
        BY <3>2, PageIDsFacts DEF PageIDs
      <4> QED BY <3>1, <3>2, <4>1, <1>2
    <3>3. CASE i \notin 1 .. Len(s)
      <4>1. i - Len(s) \in 1 .. Len(ids) /\ i = Len(s) + (i - Len(s))
        BY <3>3
      <4>2. (PageIDs(s) \o ids)[i] = ids[i - Len(s)]
        BY <3>3, <4>1, PageIDsFacts
      <4>3. n[i] = e[i - Len(s)]
        BY <4>1, <1>2
      <4> QED BY <3>1, <4>1, <4>2, <4>3, <1>1
    <3> QED BY <3>2, <3>3
  <2> QED BY <2>1, <2>2, SMTT(30)
<1>4. /\ PageIDs(s) \in Seq(Page) /\ Range(PageIDs(s)) = Ids(s) /\ Range(PageIDs(n)) = Ids(n)
  BY <1>2, PageIDsFacts
<1>5. Ids(n) = Ids(s) \cup Range(ids)
  BY <1>3, <1>4, ConcatFacts
<1>6. IsInjective(PageIDs(s)) /\ IsInjective(ids) /\ Ids(s) \cap Range(ids) = {}
        => IsInjective(PageIDs(n))
  BY <1>3, <1>4, ConcatFacts
<1>7. \A i \in DOMAIN s : \E j \in DOMAIN n : n[j] = s[i]
  <2>1. \A i \in DOMAIN s : i \in DOMAIN n /\ n[i] = s[i]
    BY <1>2
  <2> QED BY <2>1
<1>8. ASSUME NEW p \in Range(ids)
      PROVE  \E j \in DOMAIN n : n[j].pageID = p /\ n[j].freedAt = t
  <2>1. PICK i \in 1 .. Len(ids) : ids[i] = p
    BY DEF Range
  <2> QED BY <2>1, <1>1, <1>2
<1> QED BY <1>2, <1>5, <1>6, <1>7, <1>8 DEF Keeps, Lists

-----------------------------------------------------------------------------
(* Constants, contents and the meta to commit.                             *)

\* An invalid meta page and the meta of an empty database name no page.
LEMMA BaseFacts ==
  /\ MetaOK(Invalid) /\ MetaSound(Invalid) /\ DOMAIN Invalid.img = {}
  /\ MetaOK(base) /\ MetaSound(base) /\ DOMAIN base.img = {} /\ base.txnID = 0
  /\ ~Decodes(Invalid)
<1>1. /\ Invalid.txnID = -1 /\ DOMAIN Invalid.img = {} /\ Invalid.chain = <<>>
      /\ Invalid.ids = <<>> /\ Invalid.numPages = 2
  BY DEF Invalid, NoPages
<1>2. /\ base.txnID = 0 /\ DOMAIN base.img = {} /\ base.chain = <<>>
      /\ base.ids = <<>> /\ base.numPages = 2
  BY DEF Invalid, NoPages, base
<1>3. 0 \in TxnID /\ 2 \in 2 .. MaxPages
  BY BoundsAssumption DEF TxnID
<1>4. MetaOK(Invalid) /\ MetaOK(base)
  BY <1>1, <1>2, <1>3, EmptyFacts DEF MetaOK
<1>5. MetaSound(Invalid) /\ MetaSound(base)
  BY <1>1, <1>2, EmptyFacts DEF MetaSound
<1> QED BY <1>1, <1>2, <1>4, <1>5 DEF Decodes

\* Writing pages of P leaves the contents of every other page alone.
LEMMA WriteFacts ==
  ASSUME TypeOK, NEW P \in SUBSET Page, Write(P)
  PROVE  /\ mem' \in [Page -> Versions] /\ dirty' = dirty \cup P
         /\ \A p \in Page \ P : mem'[p] = mem[p]
<1>1. \A p \in P : Fresh(p) \in Versions
  BY DEF Write, HasFresh, Fresh
<1> QED BY <1>1 DEF Write, TypeOK

\* The types that writing back, and handing a page to its caller, preserve.
LEMMA WriteBackTypes ==
  ASSUME TypeOK, NEW P, WriteBack(P)
  PROVE  disk' \in [Page -> Versions] /\ vol' \in [Page -> SUBSET Versions]
BY DEF WriteBack, TypeOK

LEMMA WriteBackMetaTypes ==
  ASSUME TypeOK, NEW s \in Slot, WriteBackMeta(s)
  PROVE  /\ DOMAIN mdisk' = Slot /\ DOMAIN mvol' = Slot /\ mdirty' \subseteq Slot
         /\ \A z \in Slot : MetaOK(mdisk'[z]) /\ \A m \in mvol'[z] : MetaOK(m)
BY BaseFacts DEF WriteBackMeta, TypeOK

LEMMA DeliverTypes ==
  ASSUME TypeOK, NEW p \in Page, Deliver(p)
  PROVE  wtree' \subseteq Page /\ chainIDs' \in Seq(Page)
<1>1. Append(chainIDs, p) \in Seq(Page)
  BY DEF TypeOK
<1> QED BY <1>1 DEF Deliver, TypeOK

\* What the end of a write transaction resets.
LEMMA IdleWriterTypes ==
  ASSUME IdleWriter
  PROVE  /\ phase' = "none" /\ numPages' \in 2 .. MaxPages /\ minTxn' = -1
         /\ wtree' = {} /\ allocated' = {}
         /\ freed' = <<>> /\ reusable' = <<>> /\ chainIDs' = <<>>
         /\ freed' \in Seq(Page) /\ reusable' \in Seq(Page) /\ chainIDs' \in Seq(Page)
BY BoundsAssumption DEF IdleWriter

\* The pages in play are data pages, and page ids are numbers.
LEMMA PageFacts ==
  ASSUME TypeOK
  PROVE  /\ Page \subseteq Nat /\ numPages \in Nat /\ currentMeta.numPages \in Nat
         /\ pending \in Seq(Entry) /\ Free \subseteq Page /\ Live \subseteq Page
         /\ wtree \subseteq Page /\ allocated \subseteq Page /\ Range(freed) \subseteq Page
         /\ Range(reusable) \subseteq Page /\ Range(chainIDs) \subseteq Page
         /\ Range(currentMeta.chain) \subseteq Live /\ currentMeta.chain \in Seq(Page)
         /\ \A r \in Reader : DOMAIN snap[r].img \subseteq Page
<1>1. Page \subseteq Nat
  BY BoundsAssumption DEF Page
<1>2. numPages \in Nat /\ currentMeta.numPages \in Nat
  <2>1. numPages \in 2 .. MaxPages /\ MetaOK(currentMeta)
    BY Zenon DEF TypeOK
  <2>2. currentMeta.numPages \in 2 .. MaxPages
    BY <2>1, Zenon DEF MetaOK
  <2> QED BY <2>1, <2>2, BoundsAssumption
<1>3. pending \in Seq(Entry) /\ Free \subseteq Page
  BY PageIDsFacts DEF TypeOK, Entry, Free
<1>4. /\ wtree \subseteq Page /\ allocated \subseteq Page /\ Range(freed) \subseteq Page
      /\ Range(reusable) \subseteq Page /\ Range(chainIDs) \subseteq Page
  BY DEF TypeOK, Range
<1>5. /\ Live \subseteq Page /\ Range(currentMeta.chain) \subseteq Live /\ currentMeta.chain \in Seq(Page)
      /\ \A r \in Reader : DOMAIN snap[r].img \subseteq Page
  BY DEF TypeOK, MetaOK, Live
<1> QED BY <1>1, <1>2, <1>3, <1>4, <1>5

\* The counters of the file and the two meta slots, from the type invariant.
LEMMA SizeFacts ==
  ASSUME TypeOK
  PROVE  /\ numPages \in Int /\ numPages >= 2 /\ numPages <= MaxPages /\ MaxPages \in Int
         /\ \A n \in Int : n >= 2 /\ n < MaxPages => n \in Page
         /\ nextMetaPage \in Slot
<1>1. MaxPages \in Int
  BY BoundsAssumption
<1>2. numPages \in 2..MaxPages
  BY DEF TypeOK
<1>3. currentMetaPage \in Slot
  BY DEF TypeOK
<1>4. nextMetaPage \in Slot
  BY <1>3 DEF nextMetaPage, Slot
<1>5. \A n \in Int : n >= 2 /\ n < MaxPages => n \in Page
  BY <1>1 DEF Page
<1> QED BY <1>1, <1>2, <1>4, <1>5

\* The writer's lists, and the pool's copies of the pages, from the type invariant.
LEMMA WriterTypes ==
  ASSUME TypeOK
  PROVE  freed \in Seq(Page) /\ reusable \in Seq(Page) /\ chainIDs \in Seq(Page)
BY DEF TypeOK

LEMMA ReaderTypes ==
  ASSUME TypeOK
  PROVE  /\ readers \in [TxnID -> Nat] /\ rstate \in [Reader -> {"idle", "loaded", "active"}]
         /\ DOMAIN snap = Reader
BY DEF TypeOK

LEMMA MetaTypes ==
  ASSUME TypeOK
  PROVE  /\ currentMeta.txnID \in TxnID \cup {-1} /\ TxnID \subseteq Nat
         /\ -1 <= currentMeta.txnID
<1>1. MetaOK(currentMeta)
  BY Zenon DEF TypeOK
<1>2. currentMeta.txnID \in TxnID \cup {-1}
  BY <1>1, Zenon DEF MetaOK
<1>3. TxnID \subseteq Nat
  BY BoundsAssumption DEF TxnID
<1>4. -1 <= currentMeta.txnID
  BY <1>2, BoundsAssumption DEF TxnID
<1> QED BY <1>2, <1>3, <1>4, Zenon

LEMMA PoolTypes ==
  ASSUME TypeOK
  PROVE  /\ mem \in [Page -> Versions] /\ disk \in [Page -> Versions]
         /\ DOMAIN mbuf = Slot /\ DOMAIN mdisk = Slot
BY DEF TypeOK

\* While a writer runs there is room for one more transaction id.
LEMMA TxnFacts ==
  ASSUME TypeOK, IdleInv
  PROVE  /\ currentMeta.txnID \in Int /\ currentMeta.txnID >= -1
         /\ mode = "up" => currentMeta.txnID \in TxnID
         /\ mode = "up" /\ phase # "none" => currentMeta.txnID + 1 \in TxnID
<1>1. currentMeta.txnID \in TxnID \cup {-1}
  BY DEF TypeOK, MetaOK
<1>2. /\ mode = "up" => currentMeta.txnID >= 0
      /\ phase # "none" => currentMeta.txnID < MaxTxn
  BY DEF IdleInv
<1> QED BY <1>1, <1>2, BoundsAssumption DEF TxnID

\* The list to persist is the three lists, one after the other.
LEMMA PersistFacts ==
  ASSUME TypeOK, ListsInv
  PROVE  /\ persist \in Seq(Page) /\ IsInjective(persist)
         /\ Range(persist) = Free \cup Range(freed) \cup Range(reusable)
<1> DEFINE pids == PageIDs(pending)
           pf == pids \o freed
<1>1. /\ pids \in Seq(Page) /\ Range(pids) = Free
      /\ freed \in Seq(Page) /\ reusable \in Seq(Page)
  BY PageIDsFacts DEF TypeOK, Entry, Free
<1>2. /\ IsInjective(pids) /\ IsInjective(freed) /\ IsInjective(reusable)
      /\ Free \cap Range(freed) = {} /\ Free \cap Range(reusable) = {}
      /\ Range(freed) \cap Range(reusable) = {}
  BY DEF ListsInv
<1> HIDE DEF pids
<1>3. pf \in Seq(Page) /\ IsInjective(pf) /\ Range(pf) = Free \cup Range(freed)
  BY <1>1, <1>2, ConcatFacts
<1> HIDE DEF pf
<1>4. /\ pf \o reusable \in Seq(Page) /\ IsInjective(pf \o reusable)
      /\ Range(pf \o reusable) = Range(pf) \cup Range(reusable)
  BY <1>1, <1>2, <1>3, ConcatFacts
<1>5. persist = pf \o reusable
  BY DEF persist, pf, pids
<1> QED BY <1>3, <1>4, <1>5

\* The meta a commit writes is sound: its free pages do not repeat and are not
\* among the pages it names.
LEMMA NewMetaFacts ==
  ASSUME TypeOK, ListsInv, BoundInv, IdleInv, mode = "up", phase # "none"
  PROVE  /\ MetaOK(NewMeta) /\ MetaSound(NewMeta)
         /\ NewMeta.txnID = currentMeta.txnID + 1 /\ NewMeta.txnID \in TxnID
         /\ DOMAIN NewMeta.img = wtree \cup Range(chainIDs)
         /\ \A p \in DOMAIN NewMeta.img : NewMeta.img[p] = mem[p]
         /\ NewMeta.numPages = numPages /\ NewMeta.chain = chainIDs
<1>1. /\ NewMeta.txnID = currentMeta.txnID + 1 /\ NewMeta.chain = chainIDs
      /\ NewMeta.ids = Encoded /\ NewMeta.numPages = numPages
      /\ NewMeta.img = [p \in wtree \cup Range(chainIDs) |-> mem[p]]
  BY DEF NewMeta
<1>2. /\ DOMAIN NewMeta.img = wtree \cup Range(chainIDs)
      /\ \A p \in DOMAIN NewMeta.img : NewMeta.img[p] = mem[p]
  BY <1>1
<1>3. /\ persist \in Seq(Page) /\ IsInjective(persist)
      /\ Range(persist) = Free \cup Range(freed) \cup Range(reusable)
  BY PersistFacts
<1>4. /\ Encoded \in Seq(Page) /\ IsInjective(Encoded) /\ Range(Encoded) \subseteq Range(persist)
  <2> DEFINE room == Len(chainIDs) * PerPage
             n == IF room < Len(persist) THEN room ELSE Len(persist)
  <2>1. Len(chainIDs) \in Nat /\ Len(persist) \in Nat /\ PerPage \in Nat
    BY <1>3, PerPageAssumption DEF TypeOK
  <2>2. room \in Nat
    BY <2>1
  <2> HIDE DEF room
  <2>3. n \in 0 .. Len(persist)
    BY <2>1, <2>2
  <2>4. Encoded = SubSeq(persist, 1, n)
    BY DEF Encoded, room
  <2> HIDE DEF n
  <2> QED BY <1>3, <2>3, <2>4, PrefixFacts
<1>5. /\ chainIDs \in Seq(Page) /\ Range(chainIDs) \subseteq Page /\ wtree \subseteq Page
      /\ mem \in [Page -> Versions] /\ numPages \in 2 .. MaxPages
  BY DEF TypeOK, Range
<1>6. NewMeta.txnID \in TxnID
  BY <1>1, TxnFacts
<1>7. MetaOK(NewMeta)
  BY <1>1, <1>2, <1>4, <1>5, <1>6 DEF MetaOK
<1>8. ASSUME NEW p \in DOMAIN NewMeta.img \cup Range(NewMeta.ids) PROVE p < NewMeta.numPages
  <2>1. p \in Free \/ p \in wtree \cup Range(freed) \cup Range(reusable) \cup Range(chainIDs)
    BY <1>1, <1>2, <1>3, <1>4, <1>8
  <2>2. CASE p \in Free
    <3>1. p \in Nat /\ currentMeta.numPages \in Nat /\ numPages \in Nat
      BY <2>2, PageFacts
    <3>2. p < currentMeta.numPages /\ currentMeta.numPages <= numPages
      BY <2>2 DEF BoundInv
    <3> QED BY <2>2, <3>1, <3>2, <1>1
  <2>3. CASE p \in wtree \cup Range(freed) \cup Range(reusable) \cup Range(chainIDs)
    BY <2>3, <1>1 DEF BoundInv
  <2> QED BY <2>1, <2>2, <2>3
<1>9. MetaSound(NewMeta)
  <2>1. IsInjective(chainIDs) /\ Range(persist) \cap (wtree \cup Range(chainIDs)) = {}
    BY <1>3 DEF ListsInv
  <2> QED BY <1>1, <1>2, <1>4, <1>8, <2>1 DEF MetaSound
<1> QED BY <1>1, <1>2, <1>6, <1>7, <1>9

-----------------------------------------------------------------------------
(* Readers.                                                                *)

\* The snapshot of a transaction under way has a transaction id.
LEMMA SnapFacts ==
  ASSUME TypeOK, ReadersInv, NEW r \in Reader, rstate[r] # "idle"
  PROVE  snap[r].txnID \in TxnID /\ snap[r].txnID \in Int
<1>1. snap[r].txnID \in TxnID \cup {-1}
  BY DEF TypeOK, MetaOK
<1>2. 0 <= snap[r].txnID
  BY DEF ReadersInv
<1> QED BY <1>1, <1>2, BoundsAssumption DEF TxnID

\* A page that is neither live nor free is in no snapshot under way.
LEMMA OutsideNotHeld ==
  ASSUME TypeOK, ReadersInv, NEW p, p \notin Live, p \notin Free
  PROVE  \A r \in Reader : rstate[r] # "idle" => p \notin DOMAIN snap[r].img
BY DEF ReadersInv, Holds, Free, Ids

\* Readers are unaffected by what the writer keeps to itself.
LEMMA ReadersFrame ==
  ASSUME ReadersInv, UNCHANGED <<currentMeta, pending, readers, rstate, snap, minTxn>>
  PROVE  ReadersInv'
BY SMTT(30) DEF ReadersInv, Holds, Live, Counted

\* Contents stay what they are while no page is written and no new one needed.
LEMMA ContentsFrame ==
  ASSUME CleanInv, SnapshotIntact, UNCHANGED <<mode, currentMeta, rstate, snap, mem, disk, dirty>>,
         wtree' \cup Range(chainIDs') \subseteq Needed
  PROVE  CleanInv' /\ SnapshotIntact'
<1>1. Needed' \subseteq Needed
  BY DEF Needed, Live
<1>2. CleanInv'
  BY <1>1 DEF CleanInv
<1>3. SnapshotIntact'
  BY DEF SnapshotIntact, Intact
<1> QED BY <1>2, <1>3

============================================================================
