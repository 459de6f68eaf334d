-------------------------------- MODULE Txn --------------------------------
(***************************************************************************)
(* Transactions, page reuse, commit and recovery: txn.go, db.go, meta.go,  *)
(* freelist.go and freelist_page.go.                                       *)
(*                                                                         *)
(* A page is abstracted to the version of its contents.  A Meta names, in  *)
(* img, the pages reachable from it (those of the B+trees and those of the *)
(* freelist chain) and the version each must have.  The B+tree is the      *)
(* client of AllocatePage and FreePage: it adds the pages it allocates to  *)
(* its working tree (wtree) and frees pages of that tree.                  *)
(*                                                                         *)
(* The buffer pool is abstracted to its atomic effect: a page has contents *)
(* in memory (mem) and in the file (disk), dirty pages may be written back *)
(* at any moment, and what a crash leaves of the pages written since the   *)
(* last sync is any of the contents in vol.  The steps inside the buffer   *)
(* pool are the subject of module BufferPool.                              *)
(***************************************************************************)
EXTENDS Integers, FiniteSets, Sequences, Functions

CONSTANTS
    Reader,         \* goroutines that run read transactions
    Versions,       \* versions of a page's contents
    Frames,         \* Options.BufferSize: frames in the buffer pool
    PerPage,        \* freelistPerPage
    MaxPages,       \* bound on numPages
    MaxTxn,         \* bound on transaction ids
    Discards,       \* TRUE: write transactions may abort, or fail before the meta page
    AllocErrors,    \* TRUE: AllocatePage may fail after it has taken an id
    MaxMetaErrors,  \* bound on failures to write or sync the meta page
    SlowEvictions   \* TRUE: a reader's eviction may still be writing while others go on

ASSUME ReaderAssumption == IsFiniteSet(Reader)
ASSUME FramesAssumption == Frames \in Nat \ {0}
ASSUME PerPageAssumption == PerPage \in Nat \ {0}
ASSUME BoundsAssumption == /\ MaxPages \in Nat /\ MaxPages >= 2
                           /\ MaxTxn \in Nat /\ MaxMetaErrors \in Nat
ASSUME VersionsAssumption == Versions # {}
ASSUME FaultsAssumption == {Discards, AllocErrors, SlowEvictions} \subseteq BOOLEAN

VARIABLES
    mode,             \* life of the file and of the process that opened it
    mdisk, mvol,      \* meta pages 0 and 1: in the file, and what a crash may leave
    mbuf, mdirty,     \* meta pages 0 and 1 in the buffer pool
    disk, vol,        \* data pages: in the file, and what a crash may leave
    mem, dirty,       \* data pages in the buffer pool
    currentMeta,      \* DB.currentMeta; while the process is down, the last one published
    currentMetaPage,  \* DB.currentMetaPage
    pending,          \* freelist.pending
    readers,          \* DB.readers: count of read transactions per snapshot
    rstate, snap,     \* each reader: where it is, and Txn.meta of its transaction
    evicting,         \* each reader: the page it is writing back to free a frame, or -1
    phase,            \* the write transaction: how far it is
    numPages,         \* Txn.meta.numPages
    wtree,            \* pages of the B+trees the transaction is building
    allocated, freed, reusable,  \* Txn.allocated, Txn.freed, Txn.reusable
    minTxn,           \* result of minReaderTxn awaiting popReusable, or -1
    chainIDs,         \* persistFreelist: pages of the new chain
    metaErrors        \* failures to write or sync the meta page so far

metaVars  == <<mdisk, mvol, mbuf, mdirty>>
diskVars  == <<disk, vol>>
pageVars  == <<disk, vol, mem, dirty>>
dbVars    == <<currentMeta, currentMetaPage>>
readVars  == <<readers, rstate, snap, evicting>>
writeVars == <<numPages, wtree, allocated, freed, reusable, minTxn, chainIDs>>
vars == <<mode, metaVars, pageVars, dbVars, pending, readVars, phase, writeVars, metaErrors>>

-----------------------------------------------------------------------------

Slot == {0, 1}                      \* metaPage0 and metaPage1
Page == 2 .. MaxPages - 1           \* data pages
TxnID == 0 .. MaxTxn

\* The page ids of freelist entries.
Ids(s) == {s[i].pageID : i \in DOMAIN s}
PageIDs(s) == [i \in 1 .. Len(s) |-> s[i].pageID]

\* Txn.reusable is a stack: its top and what is below it.
Last(s) == s[Len(s)]
Front(s) == SubSeq(s, 1, Len(s) - 1)

NoPages == [p \in {} |-> 0]

\* A page whose checksum, magic, version or page size decodeMeta rejects.
Invalid == [txnID |-> -1, img |-> NoPages, chain |-> <<>>, ids |-> <<>>, numPages |-> 2]
Decodes(m) == m.txnID >= 0

\* Freelist entries for ids freed at transaction t.
Entries(ids, t) == [i \in 1 .. Len(ids) |-> [pageID |-> ids[i], freedAt |-> t]]

\* initMetas: the meta of an empty database.
base == [Invalid EXCEPT !.txnID = 0]

\* The pages a meta names hold what it was committed with.
Intact(m, contents) == \A p \in DOMAIN m.img : contents[p] = m.img[p]

\* Its pages that are not of the freelist chain.
Tree(m) == DOMAIN m.img \ Range(m.chain)

\* isNewer, for transaction ids less than 2^63 apart.
isNewer(a, b) == a - b > 0

\* loadMeta keeps page 0 pinned while it gets page 1: with one frame the second
\* Get fails with ErrBufferExhausted and page 1 counts as unreadable.
Readable(d, s) == Decodes(d[s]) /\ (s = 1 => Frames > 1)

loadMeta(d) == IF Readable(d, 0) /\ Readable(d, 1)
                 THEN IF isNewer(d[1].txnID, d[0].txnID) THEN 1 ELSE 0
                 ELSE IF Readable(d, 0) THEN 0 ELSE 1

\* Mutant: the current meta page is overwritten in place.
SameMetaPage == currentMetaPage

nextMetaPage == 1 - currentMetaPage

\* Txn.initialPageCnt: the page count of the snapshot the writer began with.
initialPageCnt == currentMeta.numPages

-----------------------------------------------------------------------------
(* Contents of pages.                                                      *)

Metas == {currentMeta} \cup {snap[r] : r \in Reader} \cup mvol[0] \cup mvol[1]
           \cup {mbuf[0], mbuf[1]}
InUse(p) == {mem[p], disk[p]} \cup vol[p]
              \cup {m.img[p] : m \in {n \in Metas : p \in DOMAIN n.img}}

\* Writing a page gives it contents no copy of it has; the guard is the bound.
HasFresh(p) == Versions \ InUse(p) # {}
Fresh(p) == CHOOSE v \in Versions \ InUse(p) : TRUE

\* Pages whose frames other goroutines are evicting: GetForWrite refuses them
\* with ErrInvalidWrite, FlushPage and FlushPages skip them.
Evicting == {evicting[r] : r \in Reader} \ {-1}

\* GetForWrite, clear and the caller's writes: new contents, dirty.
Write(P) == /\ P \cap Evicting = {} /\ \A p \in P : HasFresh(p)
            /\ mem' = [p \in Page |-> IF p \in P THEN Fresh(p) ELSE mem[p]]
            /\ dirty' = dirty \cup P

\* The pages of P reach the file; until the next sync a crash may lose them.
WriteBack(P) ==
    /\ disk' = [p \in Page |-> IF p \in P THEN mem[p] ELSE disk[p]]
    /\ vol' = [p \in Page |-> IF p \in P THEN vol[p] \cup {mem[p]} ELSE vol[p]]

\* The same for a meta page; a torn write leaves a page that does not decode.
WriteBackMeta(s) ==
    /\ mdisk' = [mdisk EXCEPT ![s] = mbuf[s]]
    /\ mvol' = [mvol EXCEPT ![s] = @ \cup {mbuf[s], Invalid}]
    /\ mdirty' = mdirty \ {s}

\* StorageManager.Sync: what is in the file survives a crash.
SyncFile == /\ vol' = [p \in Page |-> {disk'[p]}]
            /\ mvol' = [s \in Slot |-> {mdisk'[s]}]

-----------------------------------------------------------------------------
(* Creating, opening, closing and losing the database.                     *)

\* The write transaction has ended: writerMu is free.
IdleWriter ==
    /\ phase' = "none" /\ numPages' = 2 /\ minTxn' = -1
    /\ wtree' = {} /\ allocated' = {}
    /\ freed' = <<>> /\ reusable' = <<>> /\ chainIDs' = <<>>

\* The process has ended: everything in memory is gone.
Forget ==
    /\ mem' = disk' /\ dirty' = {}
    /\ mbuf' = [s \in Slot |-> Invalid] /\ mdirty' = {}
    /\ pending' = <<>>
    /\ readers' = [t \in TxnID |-> 0]
    /\ rstate' = [r \in Reader |-> "idle"] /\ snap' = [r \in Reader |-> Invalid]
    /\ evicting' = [r \in Reader |-> -1]
    /\ IdleWriter

Init ==
    /\ mode = "absent"
    /\ mdisk = [s \in Slot |-> Invalid] /\ mvol = [s \in Slot |-> {Invalid}]
    /\ mbuf = [s \in Slot |-> Invalid] /\ mdirty = {}
    /\ disk = [p \in Page |-> CHOOSE v \in Versions : TRUE]
    /\ vol = [p \in Page |-> {disk[p]}]
    /\ mem = disk /\ dirty = {}
    /\ currentMeta = Invalid /\ currentMetaPage = 0
    /\ pending = <<>>
    /\ readers = [t \in TxnID |-> 0]
    /\ rstate = [r \in Reader |-> "idle"] /\ snap = [r \in Reader |-> Invalid]
    /\ evicting = [r \in Reader |-> -1]
    /\ phase = "none" /\ numPages = 2 /\ minTxn = -1
    /\ wtree = {} /\ allocated = {}
    /\ freed = <<>> /\ reusable = <<>> /\ chainIDs = <<>>
    /\ metaErrors = 0

\* Open of an empty file, initMetas up to FlushAll: the file grows by zeroed
\* pages, both meta pages are encoded in the buffer pool and written.
InitMetas ==
    /\ mode = "absent"
    /\ mode' = "creating"
    /\ mbuf' = [s \in Slot |-> base]
    /\ mdisk' = [s \in Slot |-> base]
    /\ mvol' = [s \in Slot |-> {Invalid, base}]
    /\ UNCHANGED <<mdirty, pageVars, dbVars, pending, readVars, phase, writeVars, metaErrors>>

\* initMetas: Sync, then publish the empty database.
InitMetasSync ==
    /\ mode = "creating"
    /\ mode' = "up"
    /\ UNCHANGED <<mdisk, disk>> /\ SyncFile
    /\ currentMeta' = base /\ currentMetaPage' = 0
    /\ UNCHANGED <<mbuf, mdirty, mem, dirty, pending, readVars, phase, writeVars, metaErrors>>

\* Open of an existing file: loadMeta, readFreelistChain, freelist.load.
Open ==
    /\ mode \in {"down", "corrupt"}
    /\ \E s \in Slot : Readable(mdisk, s)
    /\ LET s == loadMeta(mdisk) IN
         /\ Intact(mdisk[s], disk)
         /\ currentMetaPage' = s
         /\ currentMeta' = mdisk[s]
         /\ pending' = Entries(mdisk[s].ids, 0)
    /\ mode' = "up"
    /\ mbuf' = mdisk
    /\ UNCHANGED <<mdisk, mvol, mdirty, pageVars, readVars, phase, writeVars, metaErrors>>

\* Open when neither meta page can be used: ErrMetaCorrupt.
OpenFails ==
    /\ mode \in {"down", "corrupt"}
    /\ \A s \in Slot : ~Readable(mdisk, s)
    /\ mode' = "corrupt"
    /\ UNCHANGED <<metaVars, pageVars, dbVars, pending, readVars, phase, writeVars, metaErrors>>

\* Open when the chosen meta names pages that hold something else: the freelist
\* chain may or may not decode, and the trees are no longer those committed.  The
\* model goes no further.
OpenDamaged ==
    /\ mode \in {"down", "corrupt"}
    /\ \E s \in Slot : Readable(mdisk, s)
    /\ ~Intact(mdisk[loadMeta(mdisk)], disk)
    /\ mode' = "corrupt"
    /\ UNCHANGED <<metaVars, pageVars, dbVars, pending, readVars, phase, writeVars, metaErrors>>

\* DB.Close once every transaction has ended: FlushAll and Sync.
Close ==
    /\ mode = "up" /\ phase = "none" /\ \A r \in Reader : rstate[r] = "idle"
    /\ mode' = "down"
    /\ disk' = [p \in Page |-> IF p \in dirty THEN mem[p] ELSE disk[p]]
    /\ mdisk' = [s \in Slot |-> IF s \in mdirty THEN mbuf[s] ELSE mdisk[s]]
    /\ SyncFile
    /\ Forget
    /\ UNCHANGED <<dbVars, metaErrors>>

\* The machine stops: each page written since the last sync holds any of the
\* contents it was given since.  A file that was never synced may be empty.
Crash ==
    /\ mode \in {"creating", "up"}
    /\ disk' \in {d \in [Page -> Versions] : \A p \in Page : d[p] \in vol[p]}
    /\ \/ /\ mode' = "down"
          /\ mdisk' \in {d \in [Slot -> mvol[0] \cup mvol[1]] : \A s \in Slot : d[s] \in mvol[s]}
       \/ /\ mode = "creating" /\ mode' = "absent"
          /\ mdisk' = [s \in Slot |-> Invalid]
    /\ SyncFile
    /\ Forget
    /\ UNCHANGED <<dbVars, metaErrors>>

-----------------------------------------------------------------------------
(* Evictions by the buffer pool.                                           *)

\* acquireFrame as one step: a dirty page is written back, a clean one dropped.
Evict(p) ==
    /\ mode = "up" /\ p \notin Evicting
    /\ p \in dirty \/ mem[p] # disk[p]
    /\ WriteBack({p} \cap dirty)
    /\ mem' = [mem EXCEPT ![p] = disk'[p]]
    /\ dirty' = dirty \ {p}
    /\ UNCHANGED <<mode, metaVars, dbVars, pending, readVars, phase, writeVars, metaErrors>>

EvictMeta(s) ==
    /\ mode = "up" /\ s \in mdirty \ Evicting
    /\ WriteBackMeta(s)
    /\ UNCHANGED <<mode, mbuf, pageVars, dbVars, pending, readVars, phase, writeVars, metaErrors>>

\* acquireFrame in two steps, on behalf of reader r: the victim is marked
\* evicting and found dirty ...
EvictBegin(r, p) ==
    /\ SlowEvictions
    /\ mode = "up" /\ rstate[r] = "active" /\ evicting[r] = -1
    /\ p \in (dirty \cup mdirty) \ Evicting
    /\ evicting' = [evicting EXCEPT ![r] = p]
    /\ UNCHANGED <<mode, metaVars, pageVars, dbVars, pending, readers, rstate, snap,
                   phase, writeVars, metaErrors>>

\* ... then it is written, whatever became of its dirty flag meanwhile.
EvictEnd(r) ==
    /\ mode = "up" /\ evicting[r] # -1
    /\ \/ /\ evicting[r] \in Page
          /\ WriteBack({evicting[r]})
          /\ dirty' = dirty \ {evicting[r]}
          /\ UNCHANGED <<mdisk, mvol, mdirty>>
       \/ /\ evicting[r] \in Slot
          /\ WriteBackMeta(evicting[r])
          /\ UNCHANGED <<disk, vol, dirty>>
    /\ evicting' = [evicting EXCEPT ![r] = -1]
    /\ UNCHANGED <<mode, mbuf, mem, dbVars, pending, readers, rstate, snap, phase, writeVars, metaErrors>>

-----------------------------------------------------------------------------
(* Read transactions.                                                      *)

\* Nobody is inside BeginRead holding readersMu.
ReadersMuFree == \A r \in Reader : rstate[r] # "loaded"

\* BeginRead: take readersMu and load currentMeta ...
BeginReadLoad(r) ==
    /\ mode = "up" /\ rstate[r] = "idle" /\ ReadersMuFree
    /\ snap' = [snap EXCEPT ![r] = currentMeta]
    /\ rstate' = [rstate EXCEPT ![r] = "loaded"]
    /\ UNCHANGED <<mode, metaVars, pageVars, dbVars, pending, readers, evicting, phase, writeVars, metaErrors>>

\* Mutant: the reader is never counted.
RegisterNothing(r) ==
    /\ mode = "up" /\ rstate[r] = "loaded"
    /\ rstate' = [rstate EXCEPT ![r] = "active"]
    /\ UNCHANGED <<mode, metaVars, pageVars, dbVars, pending, readers, snap, evicting, phase,
                   writeVars, metaErrors>>

\* ... then count the reader under its snapshot and release readersMu.
BeginReadRegister(r) ==
    /\ mode = "up" /\ rstate[r] = "loaded"
    /\ readers' = [readers EXCEPT ![snap[r].txnID] = @ + 1]
    /\ rstate' = [rstate EXCEPT ![r] = "active"]
    /\ UNCHANGED <<mode, metaVars, pageVars, dbVars, pending, snap, evicting, phase, writeVars, metaErrors>>

\* Abort of a read transaction: unregisterReader.
ReadAbort(r) ==
    /\ mode = "up" /\ rstate[r] = "active" /\ evicting[r] = -1 /\ ReadersMuFree
    /\ readers' = [readers EXCEPT ![snap[r].txnID] = @ - 1]
    /\ rstate' = [rstate EXCEPT ![r] = "idle"]
    /\ snap' = [snap EXCEPT ![r] = Invalid]
    /\ UNCHANGED <<mode, metaVars, pageVars, dbVars, pending, evicting, phase, writeVars, metaErrors>>

-----------------------------------------------------------------------------
(* The write transaction: AllocatePage and FreePage.                       *)

\* writerMu is held exactly while phase is not "none".
BeginWrite ==
    /\ mode = "up" /\ phase = "none" /\ currentMeta.txnID < MaxTxn
    /\ phase' = "active"
    /\ numPages' = currentMeta.numPages
    /\ wtree' = Tree(currentMeta)
    /\ UNCHANGED <<mode, metaVars, pageVars, dbVars, pending, readVars,
                   allocated, freed, reusable, minTxn, chainIDs, metaErrors>>

\* persistFreelist: how many pages the chain needs for the ids to persist.
count == Len(pending) + Len(freed) + Len(reusable)
\* Mutant: one page too many when the last one is full.
needOneMore == count \div PerPage + 1

need == (count + PerPage - 1) \div PerPage

\* AllocatePage is called by the B+tree and by the loop of persistFreelist.
Allocating == /\ mode = "up"
              /\ \/ phase = "active"
                 \/ phase = "persist" /\ Len(chainIDs) < need

\* What the caller does with the page it got.
Deliver(p) ==
    \/ /\ phase = "active"
       /\ wtree' = wtree \cup {p} /\ UNCHANGED chainIDs
    \/ /\ phase = "persist"
       /\ chainIDs' = Append(chainIDs, p) /\ UNCHANGED wtree

\* minReaderTxn, under readersMu: the oldest snapshot a reader is counted under,
\* or the current one.
minReaderTxn ==
    LET older == {t \in TxnID : readers[t] > 0 /\ t < currentMeta.txnID}
    IN  IF older = {} THEN currentMeta.txnID
                      ELSE CHOOSE t \in older : \A u \in older : t <= u

LoadMinReader ==
    /\ Allocating /\ reusable = <<>> /\ minTxn = -1 /\ ReadersMuFree
    /\ minTxn' = minReaderTxn
    /\ UNCHANGED <<mode, metaVars, pageVars, dbVars, pending, readVars, phase,
                   numPages, wtree, allocated, freed, reusable, chainIDs, metaErrors>>

\* Mutant: the page reused stays on the list.
AllocReusableAgain ==
    /\ Allocating /\ reusable # <<>>
    /\ Write({Last(reusable)})
    /\ allocated' = allocated \cup {Last(reusable)}
    /\ Deliver(Last(reusable))
    /\ UNCHANGED <<mode, metaVars, diskVars, dbVars, pending, readVars, phase,
                   numPages, freed, reusable, minTxn, metaErrors>>

\* AllocatePage 1: a page allocated and freed in this transaction.
AllocReusable ==
    /\ Allocating /\ reusable # <<>>
    /\ reusable' = Front(reusable)
    /\ Write({Last(reusable)})
    /\ allocated' = allocated \cup {Last(reusable)}
    /\ Deliver(Last(reusable))
    /\ UNCHANGED <<mode, metaVars, diskVars, dbVars, pending, readVars, phase,
                   numPages, freed, minTxn, metaErrors>>

\* Mutant: the head of the freelist is taken whatever snapshots are open.
PopUngated == pending # <<>>

\* popReusable(minTxn) succeeds: the head of the freelist is old enough.
PopReusable == pending # <<>> /\ Head(pending).freedAt <= minTxn

\* AllocatePage 2: the head of the freelist.
AllocPop ==
    /\ Allocating /\ minTxn >= 0 /\ PopReusable
    /\ pending' = Tail(pending)
    /\ Write({Head(pending).pageID})
    /\ allocated' = allocated \cup {Head(pending).pageID}
    /\ Deliver(Head(pending).pageID)
    /\ minTxn' = -1
    /\ UNCHANGED <<mode, metaVars, diskVars, dbVars, readVars, phase,
                   numPages, freed, reusable, metaErrors>>

\* AllocatePage 3: extend the file.
AllocExtend ==
    /\ Allocating /\ minTxn >= 0 /\ ~PopReusable /\ numPages < MaxPages
    /\ Write({numPages})
    /\ allocated' = allocated \cup {numPages}
    /\ Deliver(numPages)
    /\ numPages' = numPages + 1
    /\ minTxn' = -1
    /\ UNCHANGED <<mode, metaVars, diskVars, dbVars, pending, readVars, phase,
                   freed, reusable, metaErrors>>

\* GetForWrite fails inside AllocatePage (no frame is free, or the page's frame
\* is being evicted), or the file cannot grow: the id is already off its list.
LoseID ==
    \/ /\ reusable # <<>>
       /\ reusable' = Front(reusable)
       /\ UNCHANGED <<pending, numPages>>
    \/ /\ minTxn >= 0 /\ PopReusable
       /\ pending' = Tail(pending)
       /\ UNCHANGED <<reusable, numPages>>
    \/ /\ minTxn >= 0 /\ ~PopReusable /\ numPages < MaxPages
       /\ numPages' = numPages + 1
       /\ UNCHANGED <<reusable, pending>>

\* The B+tree hands the error to its caller, and the transaction goes on.
AllocFails ==
    /\ AllocErrors
    /\ Allocating /\ phase = "active"
    /\ LoseID
    /\ minTxn' = -1
    /\ UNCHANGED <<mode, metaVars, pageVars, dbVars, readVars, phase,
                   wtree, allocated, freed, chainIDs, metaErrors>>

\* FreePage(p), called by the B+tree on a page of its working tree.
FreePage(p) ==
    /\ mode = "up" /\ phase = "active" /\ minTxn = -1 /\ p \in wtree
    /\ wtree' = wtree \ {p}
    /\ \/ /\ p >= initialPageCnt
          /\ allocated' = allocated \ {p}
          /\ reusable' = Append(reusable, p)
          /\ UNCHANGED freed
       \/ /\ p < initialPageCnt
          /\ freed' = Append(freed, p)
          /\ UNCHANGED <<allocated, reusable>>
    /\ UNCHANGED <<mode, metaVars, pageVars, dbVars, pending, readVars, phase,
                   numPages, minTxn, chainIDs, metaErrors>>

\* Abort and abortInternal: MarkClean every page written, release writerMu.
\* Pages popped from the freelist are not pushed back.
Discard ==
    /\ Discards
    /\ dirty' = dirty \ (allocated \cup Range(reusable))
    /\ IdleWriter

Abort ==
    /\ mode = "up" /\ phase = "active" /\ minTxn = -1
    /\ Discard
    /\ UNCHANGED <<mode, metaVars, diskVars, mem, dbVars, pending, readVars, metaErrors>>

-----------------------------------------------------------------------------
(* Commit, step by step.  applyBucketChanges runs the B+tree of the catalog: *)
(* its AllocatePage and FreePage calls are those of phase "active".          *)

Step(from, to) == mode = "up" /\ phase = from /\ phase' = to

\* persistFreelist: the pages of the old chain are freed by this transaction.
PersistBegin ==
    /\ Step("active", "persist") /\ minTxn = -1
    /\ freed' = freed \o currentMeta.chain
    /\ UNCHANGED <<mode, metaVars, pageVars, dbVars, pending, readVars,
                   numPages, wtree, allocated, reusable, minTxn, chainIDs, metaErrors>>

\* persistFreelist: the loop has enough pages; each is encoded.
PersistEnd ==
    /\ Step("persist", "persisted") /\ Len(chainIDs) >= need
    /\ Write(Range(chainIDs))
    /\ UNCHANGED <<mode, metaVars, diskVars, dbVars, pending, readVars, writeVars, metaErrors>>

\* The page ids encoded on the chain, in order: chunks of PerPage of persist.
persist == PageIDs(pending) \o freed \o reusable
Encoded == LET room == Len(chainIDs) * PerPage
           IN  SubSeq(persist, 1, IF room < Len(persist) THEN room ELSE Len(persist))

\* The meta to commit: Txn.meta with its txnID incremented.
NewMeta == [txnID |-> currentMeta.txnID + 1,
            img |-> [p \in wtree \cup Range(chainIDs) |-> mem[p]],
            chain |-> chainIDs, ids |-> Encoded, numPages |-> numPages]

\* FlushPages(allocated): the dirty ones, but for those being evicted.
FlushPages ==
    /\ Step("persisted", "flushed")
    /\ WriteBack((allocated \cap dirty) \ Evicting)
    /\ dirty' = dirty \ (allocated \ Evicting)
    /\ UNCHANGED <<mode, metaVars, mem, dbVars, pending, readVars, writeVars, metaErrors>>

\* Mutant: the meta page is written without syncing the pages it names.
SyncNothing ==
    /\ Step("flushed", "synced")
    /\ UNCHANGED <<mode, metaVars, pageVars, dbVars, pending, readVars, writeVars, metaErrors>>

\* The first Sync.
Sync ==
    /\ Step("flushed", "synced")
    /\ UNCHANGED <<disk, mdisk>> /\ SyncFile
    /\ UNCHANGED <<mode, mbuf, mdirty, mem, dirty, dbVars, pending, readVars, writeVars, metaErrors>>

\* commitMeta: writeMeta into the other meta page.
WriteMeta ==
    /\ Step("synced", "metaWritten") /\ nextMetaPage \notin Evicting
    /\ mbuf' = [mbuf EXCEPT ![nextMetaPage] = NewMeta]
    /\ mdirty' = mdirty \cup {nextMetaPage}
    /\ UNCHANGED <<mode, mdisk, mvol, pageVars, dbVars, pending, readVars, writeVars, metaErrors>>

\* commitMeta: FlushPage, unless an eviction has written the page or is at it.
FlushMeta ==
    /\ Step("metaWritten", "metaFlushed")
    /\ \/ /\ nextMetaPage \in mdirty \ Evicting
          /\ WriteBackMeta(nextMetaPage)
       \/ /\ nextMetaPage \notin mdirty \ Evicting
          /\ UNCHANGED <<mdisk, mvol, mdirty>>
    /\ UNCHANGED <<mode, mbuf, pageVars, dbVars, pending, readVars, writeVars, metaErrors>>

\* Mutant: the pages freed go to the head of the freelist.
PublishInFront ==
    /\ mode = "up" /\ phase = "metaFlushed"
    /\ UNCHANGED <<disk, mdisk>> /\ SyncFile
    /\ currentMeta' = NewMeta
    /\ currentMetaPage' = nextMetaPage
    /\ pending' = Entries(freed \o reusable, NewMeta.txnID) \o pending
    /\ IdleWriter
    /\ UNCHANGED <<mode, mbuf, mdirty, mem, dirty, readVars, metaErrors>>

\* Mutant: the pages allocated and freed in the transaction are forgotten.
PublishFreedOnly ==
    /\ mode = "up" /\ phase = "metaFlushed"
    /\ UNCHANGED <<disk, mdisk>> /\ SyncFile
    /\ currentMeta' = NewMeta
    /\ currentMetaPage' = nextMetaPage
    /\ pending' = pending \o Entries(freed, NewMeta.txnID)
    /\ IdleWriter
    /\ UNCHANGED <<mode, mbuf, mdirty, mem, dirty, readVars, metaErrors>>

\* commitMeta: the final Sync, then publish; Commit pushes freed and reusable on
\* the freelist, releases writerMu and returns nil.
Publish ==
    /\ mode = "up" /\ phase = "metaFlushed"
    /\ UNCHANGED <<disk, mdisk>> /\ SyncFile
    /\ currentMeta' = NewMeta
    /\ currentMetaPage' = nextMetaPage
    /\ pending' = pending \o Entries(freed, NewMeta.txnID) \o Entries(reusable, NewMeta.txnID)
    /\ IdleWriter
    /\ UNCHANGED <<mode, mbuf, mdirty, mem, dirty, readVars, metaErrors>>

\* Mutant: the error is returned without abortInternal, writerMu stays locked.
PersistFailsHolding ==
    /\ mode = "up" /\ phase = "persist" /\ AllocErrors
    /\ Allocating /\ minTxn >= 0
    /\ minTxn' = -1
    /\ pending' = IF PopReusable THEN Tail(pending) ELSE pending
    /\ UNCHANGED <<mode, metaVars, pageVars, dbVars, readVars, phase, metaErrors,
                   numPages, wtree, allocated, freed, reusable, chainIDs>>

\* An error inside AllocatePage called by persistFreelist: abortInternal, with
\* the id in neither list any more.
PersistFails ==
    /\ mode = "up" /\ phase = "persist" /\ AllocErrors
    /\ \/ /\ Allocating /\ reusable # <<>>
          /\ dirty' = dirty \ (allocated \cup Range(Front(reusable)))
          /\ UNCHANGED pending
       \/ /\ Allocating /\ minTxn >= 0
          /\ dirty' = dirty \ allocated
          /\ pending' = IF PopReusable THEN Tail(pending) ELSE pending
    /\ IdleWriter
    /\ UNCHANGED <<mode, metaVars, diskVars, mem, dbVars, readVars, metaErrors>>

\* Any other error before the meta page is written: abortInternal.
CommitFails ==
    /\ mode = "up" /\ phase \in {"persist", "persisted", "flushed", "synced"} /\ minTxn = -1
    /\ Discard
    /\ UNCHANGED <<mode, metaVars, diskVars, mem, dbVars, pending, readVars, metaErrors>>

\* Mutant: the pages freed are pushed on the freelist although the commit failed.
MetaFailsFreeing ==
    /\ mode = "up" /\ phase \in {"metaWritten", "metaFlushed"}
    /\ metaErrors < MaxMetaErrors /\ metaErrors' = metaErrors + 1
    /\ dirty' = dirty \ (allocated \cup Range(reusable))
    /\ pending' = pending \o Entries(freed, NewMeta.txnID)
    /\ IdleWriter
    /\ UNCHANGED <<mode, metaVars, diskVars, mem, dbVars, readVars>>

\* FlushPage or the final Sync fails: abortInternal, with the new meta left in
\* the buffer pool or in the file.
MetaFails ==
    /\ mode = "up" /\ phase \in {"metaWritten", "metaFlushed"}
    /\ metaErrors < MaxMetaErrors /\ metaErrors' = metaErrors + 1
    /\ dirty' = dirty \ (allocated \cup Range(reusable))
    /\ IdleWriter
    /\ UNCHANGED <<mode, metaVars, diskVars, mem, dbVars, pending, readVars>>

-----------------------------------------------------------------------------

FileStep == InitMetas \/ InitMetasSync \/ Open \/ OpenFails \/ OpenDamaged \/ Close \/ Crash

PoolStep ==
    \/ \E p \in Page : Evict(p)
    \/ \E s \in Slot : EvictMeta(s)
    \/ \E r \in Reader, p \in Slot \cup Page : EvictBegin(r, p)
    \/ \E r \in Reader : EvictEnd(r)

ReadStep == \E r \in Reader : BeginReadLoad(r) \/ BeginReadRegister(r) \/ ReadAbort(r)

AllocStep == LoadMinReader \/ AllocReusable \/ AllocPop \/ AllocExtend

CommitStep ==
    PersistBegin \/ PersistEnd \/ FlushPages \/ Sync \/ WriteMeta \/ FlushMeta \/ Publish

WriteStep ==
    \/ BeginWrite \/ AllocStep \/ CommitStep
    \/ \E p \in Page : FreePage(p)
    \/ Abort \/ AllocFails \/ PersistFails \/ CommitFails \/ MetaFails

Next == FileStep \/ PoolStep \/ ReadStep \/ WriteStep

Spec == Init /\ [][Next]_vars

\* Once Commit is called the goroutine that runs it keeps going, readers leave
\* readersMu, evictions end, and an error is returned when the file cannot grow.
\* Strong fairness for the one step that takes readersMu: a sync.Mutex hands
\* itself to a goroutine that has waited for long.
Committing == phase \notin {"none", "active"}
Fairness ==
    /\ WF_vars(Committing /\ (AllocReusable \/ AllocPop \/ AllocExtend))
    /\ SF_vars(Committing /\ LoadMinReader)
    /\ WF_vars(PersistFails /\ numPages = MaxPages)
    /\ WF_vars(Committing /\ CommitStep)
    /\ \A r \in Reader : WF_vars(BeginReadRegister(r)) /\ WF_vars(EvictEnd(r))

\* The system while nothing crashes and only readers evict, if SlowEvictions lets them:
\* crashes and evictions that are over at once do not touch the lists of pages and
\* cannot hold up a commit.
CalmNext ==
    \/ InitMetas \/ InitMetasSync \/ Open \/ Close \/ ReadStep \/ WriteStep
    \/ \E r \in Reader : EvictEnd(r) \/ \E p \in Slot \cup Page : EvictBegin(r, p)
CalmSpec == Init /\ [][CalmNext]_vars
LiveSpec == CalmSpec /\ Fairness

-----------------------------------------------------------------------------
(* Properties.                                                             *)

MetaOK(m) ==
    /\ m.txnID \in TxnID \cup {-1}
    /\ DOMAIN m.img \subseteq Page /\ \A p \in DOMAIN m.img : m.img[p] \in Versions
    /\ m.chain \in Seq(Page) /\ Range(m.chain) \subseteq DOMAIN m.img
    /\ m.ids \in Seq(Page)
    /\ m.numPages \in 2 .. MaxPages

\* Every variable has its type; every meta that can be read names data pages
\* only, and its freelist chain is among the pages it names.
TypeOK ==
    /\ mode \in {"absent", "creating", "up", "down", "corrupt"}
    /\ DOMAIN mdisk = Slot /\ DOMAIN mvol = Slot /\ DOMAIN mbuf = Slot
    /\ \A s \in Slot : MetaOK(mdisk[s]) /\ MetaOK(mbuf[s]) /\ \A m \in mvol[s] : MetaOK(m)
    /\ mdirty \subseteq Slot
    /\ disk \in [Page -> Versions] /\ mem \in [Page -> Versions]
    /\ vol \in [Page -> SUBSET Versions] /\ dirty \subseteq Page
    /\ MetaOK(currentMeta) /\ currentMetaPage \in Slot
    /\ pending \in Seq([pageID : Page, freedAt : TxnID])
    /\ readers \in [TxnID -> Nat]
    /\ rstate \in [Reader -> {"idle", "loaded", "active"}]
    /\ DOMAIN snap = Reader /\ \A r \in Reader : MetaOK(snap[r])
    /\ evicting \in [Reader -> {-1} \cup Slot \cup Page]
    /\ phase \in {"none", "active", "persist", "persisted", "flushed", "synced",
                  "metaWritten", "metaFlushed"}
    /\ numPages \in 2 .. MaxPages
    /\ wtree \subseteq Page /\ allocated \subseteq Page
    /\ freed \in Seq(Page) /\ reusable \in Seq(Page) /\ chainIDs \in Seq(Page)
    /\ minTxn \in TxnID \cup {-1} /\ metaErrors \in 0 .. MaxMetaErrors

\* Snapshot isolation: whatever the writer allocates, frees, reuses, commits or
\* aborts, and whatever the buffer pool evicts and rereads, the pages reachable
\* from a reader's meta keep the contents they had when BeginRead returned; so do
\* those of currentMeta, on which the writer builds.
SnapshotIntact ==
    /\ \A r \in Reader : rstate[r] # "idle" => Intact(snap[r], mem)
    /\ mode = "up" => Intact(currentMeta, mem)

\* Durability and atomicity: once a meta was published (Commit returned nil, or
\* the file was created), a file that is closed or lost at any moment opens; Open
\* chooses that meta or the one whose commit was under way, never an older one;
\* and every page the chosen meta names holds what was committed.
RecoveryIntact ==
    mode \in {"down", "corrupt"} /\ currentMeta # Invalid =>
      /\ \E s \in Slot : Readable(mdisk, s)
      /\ LET m == mdisk[loadMeta(mdisk)] IN
           /\ m = currentMeta \/ m.txnID = currentMeta.txnID + 1
           /\ Intact(m, disk)

\* A commit that returned nil is never lost, even when later commits fail while
\* they write or sync the meta page: Open finds it or a later one.
NothingLost ==
    mode \in {"down", "corrupt"} /\ currentMeta # Invalid =>
      \E s \in Slot : Readable(mdisk, s) /\ mdisk[s].txnID >= currentMeta.txnID

\* The pages free now, the pages freed by the writer and the pages it may reuse
\* never repeat a page, and none of them is a page of the tree being built, a page
\* of the new chain or, if free now, a page of the current version: AllocatePage
\* never hands out a page twice, and FreePage is never undone.
FreelistSound ==
    mode = "up" =>
      /\ IsInjective(persist)
      /\ Range(persist) \cap (wtree \cup Range(chainIDs)) = {}
      /\ Ids(pending) \cap DOMAIN currentMeta.img = {}

\* popReusable looks at the head of the freelist only; no entry behind it was
\* freed earlier, so it hides no page that could be reused.
HeadIsOldest == \A i, j \in DOMAIN pending : i <= j => pending[i].freedAt <= pending[j].freedAt

\* persistFreelist cuts persist into one chunk per page of the chain: no chunk
\* starts beyond the end (persist[start:end] would panic) and none is left over.
ChunksInBounds ==
    phase = "persisted" => /\ \A i \in 1 .. Len(chainIDs) : (i - 1) * PerPage <= Len(persist)
                           /\ Len(persist) <= Len(chainIDs) * PerPage

\* The pages of the file that the database can still use: those of the current
\* version, of the freelist and of the running transaction; while the file is
\* closed, those of the meta that Open would choose.
Owned ==
    IF mode = "up"
      THEN DOMAIN currentMeta.img \cup Ids(pending) \cup wtree \cup Range(persist) \cup Range(chainIDs)
      ELSE LET m == mdisk[loadMeta(mdisk)] IN DOMAIN m.img \cup Range(m.ids)

\* No page is lost: through allocations, commits, closing and reopening every page
\* stays in use or on the freelist.  Only an abort or a failed call loses pages,
\* the ids it had taken off the freelist.
NoPageLost ==
    [][currentMeta # Invalid =>
         \/ Owned \subseteq Owned'
         \/ Abort \/ AllocFails \/ PersistFails \/ CommitFails \/ MetaFails]_vars

\* A Commit that was called ends, by publishing or by an error, and releases
\* writerMu: the loop of persistFreelist, whose pages come from the very list it
\* is writing, ends, and no reader can hold the commit up.
CommitEnds == Committing ~> phase = "none"
============================================================================
