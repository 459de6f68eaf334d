----------------------------- MODULE BufferPool -----------------------------
(***************************************************************************)
(* The buffer pool: bufferpool.go.                                         *)
(*                                                                         *)
(* A step is one critical section under Page.mu and PageTable.mu, one      *)
(* operation on BufferPool.loading, or one read or write of the file.  The *)
(* goroutines are one writer (writerMu) and any number of readers; each is *)
(* inside one call at a time and holds one pin at a time.                  *)
(*                                                                         *)
(* The callers keep the contract that module Txn establishes: a page that  *)
(* the running write transaction took (taken) is in no reader's snapshot,  *)
(* and so is a page that an aborted one left behind (junk).                *)
(***************************************************************************)
EXTENDS Integers, FiniteSets

CONSTANTS
    Reader, Writer,   \* goroutines
    Page,             \* page ids
    NFrames,          \* Options.BufferSize
    maxUsageCount,
    MaxTaken,         \* bound: pages a transaction writes
    IOErrors,         \* TRUE: reads and writes of the file may fail
    FlushUndisturbed  \* TRUE: no reader evicts what a flush is to write, while it does

ASSUME PageAssumption == Page \subseteq Nat /\ IsFiniteSet(Page) /\ Page # {}
ASSUME FramesAssumption == NFrames \in Nat \ {0} /\ maxUsageCount \in Nat \ {0} /\ MaxTaken \in Nat
ASSUME ProcAssumption == IsFiniteSet(Reader) /\ Writer \notin Reader
ASSUME SwitchAssumption == {IOErrors, FlushUndisturbed} \subseteq BOOLEAN

VARIABLES
    frames,     \* BufferPool.frames: the fields of Page
    table,      \* the page tables of all shards: page id -> frame, or -1
    loading,    \* BufferPool.loading: pages with an entry
    clockHand,
    disk,       \* contents of the file
    pc,         \* where each goroutine is
    page,       \* each goroutine: the argument of its call
    mine,       \* each goroutine: its frame (victim, or the one it has pinned), or -1
    tries,      \* each goroutine: tries of evictFrame
    forWrite,   \* the call of Writer is GetForWrite
    todo,       \* Writer: pages that FlushPages or the end of the Txn has yet to visit
    batch,      \* Writer: the frames FlushPages has collected
    runs,       \* Writer: flushDirty's runs of frames, [at: frame -> offset, written]
    taken,      \* pages of the running write transaction
    junk        \* pages whose contents an abort dropped

poolVars  == <<frames, table, loading, clockHand>>
callVars  == <<pc, page, mine, tries, forWrite>>
flushVars == <<todo, batch, runs>>
txnVars   == <<taken, junk>>
vars == <<poolVars, disk, callVars, flushVars, txnVars>>

-----------------------------------------------------------------------------

Proc == Reader \cup {Writer}
Frame == 0 .. NFrames - 1
freePageId == 2 + CHOOSE m \in Page : \A p \in Page : p <= m

\* Contents are told apart by the page they are of, and by whether they are what
\* was last written to it.
Contents == [of : Page, latest : BOOLEAN]
Latest(p) == [of |-> p, latest |-> TRUE]
Aged(d, p) == [d EXCEPT !.latest = @ /\ d.of # p]

Writing(c) == c = Writer /\ forWrite

\* Goroutine c goes on at s, with frame f.
Go(c, s) == pc' = [pc EXCEPT ![c] = s]
At(c, s) == pc[c] = s
Use(c, f) == mine' = [mine EXCEPT ![c] = f]

\* Its call returns.
Return(c) ==
    /\ Go(c, "idle") /\ Use(c, -1)
    /\ page' = [page EXCEPT ![c] = freePageId]
    /\ tries' = [tries EXCEPT ![c] = 0]
    /\ forWrite' = (forWrite /\ c # Writer)

\* An error ends the call; Get has its loading entry to close first.
Fail(c) ==
    \/ Writing(c) /\ Return(c)
    \/ ~Writing(c) /\ Go(c, "closeErr") /\ Use(c, -1) /\ UNCHANGED <<page, tries, forWrite>>

\* NewBufferPool, over a file with something in every page.
NewFrame == [pageId |-> freePageId, pinCount |-> 0, usageCount |-> 0, dirty |-> FALSE,
             evicting |-> FALSE, data |-> CHOOSE d \in Contents : ~d.latest]

Init ==
    /\ frames = [f \in Frame |-> NewFrame]
    /\ table = [p \in Page |-> -1] /\ loading = {} /\ clockHand = 0
    /\ disk = [p \in Page |-> Latest(p)]
    /\ pc = [c \in Proc |-> "idle"] /\ page = [c \in Proc |-> freePageId]
    /\ mine = [c \in Proc |-> -1] /\ tries = [c \in Proc |-> 0] /\ forWrite = FALSE
    /\ todo = {} /\ batch = {} /\ runs = {}
    /\ taken = {} /\ junk = {}

-----------------------------------------------------------------------------
(* Get.                                                                    *)

\* The call: a reader asks for pages of its snapshot, the writer also for its own.
Get(c, p) ==
    /\ At(c, "idle") /\ p \notin junk /\ (c \in Reader => p \notin taken)
    /\ Go(c, "look") /\ page' = [page EXCEPT ![c] = p]
    /\ UNCHANGED <<poolVars, disk, mine, tries, forWrite, flushVars, txnVars>>

Pinned(f) == [frames EXCEPT ![f].pinCount = @ + 1, ![f].usageCount = maxUsageCount]

\* The page is mapped, whether or not it is being evicted: pin it.
GetHit(c) ==
    /\ At(c, "look") /\ ~Writing(c) /\ table[page[c]] # -1
    /\ frames' = Pinned(table[page[c]])
    /\ Go(c, "using") /\ Use(c, table[page[c]])
    /\ UNCHANGED <<table, loading, clockHand, disk, page, tries, forWrite, flushVars, txnVars>>

GetMiss(c) ==
    /\ At(c, "look") /\ ~Writing(c) /\ table[page[c]] = -1
    /\ Go(c, "claim")
    /\ UNCHANGED <<poolVars, disk, page, mine, tries, forWrite, flushVars, txnVars>>

\* loading.LoadOrStore: wait for the goroutine that is loading the page, or load it.
Claim(c) ==
    /\ At(c, "claim")
    /\ \/ page[c] \in loading /\ Go(c, "wait") /\ UNCHANGED loading
       \/ page[c] \notin loading /\ Go(c, "recheck") /\ loading' = loading \cup {page[c]}
    /\ UNCHANGED <<frames, table, clockHand, disk, page, mine, tries, forWrite, flushVars, txnVars>>

\* close(done) and loading.Delete: whoever waits looks again, c goes on at s.
CloseLoading(c, s) ==
    /\ loading' = loading \ {page[c]}
    /\ pc' = [q \in Proc |-> IF q = c THEN s
                             ELSE IF pc[q] = "wait" /\ page[q] = page[c] THEN "look" ELSE pc[q]]

\* Mutant: the page tables are not looked at again before loading.
RecheckNothing(c) ==
    /\ At(c, "recheck")
    /\ Go(c, "scan") /\ tries' = [tries EXCEPT ![c] = NFrames]
    /\ UNCHANGED <<poolVars, disk, page, mine, forWrite, flushVars, txnVars>>

\* A loader may have installed the page since the tables were looked at.
Recheck(c) ==
    /\ At(c, "recheck")
    /\ \/ /\ table[page[c]] # -1
          /\ CloseLoading(c, "look") /\ UNCHANGED tries
       \/ /\ table[page[c]] = -1
          /\ Go(c, "scan") /\ tries' = [tries EXCEPT ![c] = NFrames] /\ UNCHANGED loading
    /\ UNCHANGED <<frames, table, clockHand, disk, page, mine, forWrite, flushVars, txnVars>>

\* loadAndInstall: ReadPage into the frame.
Load(c) ==
    /\ At(c, "have") /\ ~Writing(c)
    /\ frames' = [frames EXCEPT ![mine[c]].data = disk[page[c]]]
    /\ Go(c, "install")
    /\ UNCHANGED <<table, loading, clockHand, disk, page, mine, tries, forWrite, flushVars, txnVars>>

\* releaseToFree.
Released(f) == [frames EXCEPT ![f] = [NewFrame EXCEPT !.data = frames[f].data]]

\* Mutant: the frame is not given back.
LoadFailsHolding(c) ==
    /\ IOErrors /\ At(c, "have") /\ ~Writing(c)
    /\ Fail(c)
    /\ UNCHANGED <<poolVars, disk, flushVars, txnVars>>

LoadFails(c) ==
    /\ IOErrors /\ At(c, "have") /\ ~Writing(c)
    /\ frames' = Released(mine[c])
    /\ Fail(c)
    /\ UNCHANGED <<table, loading, clockHand, disk, flushVars, txnVars>>

Installed(c, f) == [frames EXCEPT ![f].pageId = page[c], ![f].pinCount = 1,
                                  ![f].usageCount = maxUsageCount,
                                  ![f].dirty = @ \/ Writing(c), ![f].evicting = FALSE]

\* Map the page to the frame, pinned; GetForWrite does the same with a page that is
\* about to be overwritten.
Install(c) ==
    /\ At(c, IF Writing(c) THEN "have" ELSE "install")
    /\ frames' = Installed(c, mine[c])
    /\ table' = [table EXCEPT ![page[c]] = mine[c]]
    /\ Go(c, IF Writing(c) THEN "fill" ELSE "close")
    /\ UNCHANGED <<loading, clockHand, disk, page, mine, tries, forWrite, flushVars, txnVars>>

\* Get returns: the frame, or the error.
GetEnds(c) ==
    /\ At(c, "close") /\ CloseLoading(c, "using")
    /\ UNCHANGED <<frames, table, clockHand, disk, page, mine, tries, forWrite, flushVars, txnVars>>

GetErrs(c) ==
    /\ At(c, "closeErr") /\ CloseLoading(c, "idle")
    /\ page' = [page EXCEPT ![c] = freePageId] /\ tries' = [tries EXCEPT ![c] = 0]
    /\ UNCHANGED <<frames, table, clockHand, disk, mine, forWrite, flushVars, txnVars>>

Unpin(c) ==
    /\ At(c, "using")
    /\ frames' = [frames EXCEPT ![mine[c]].pinCount = @ - 1]
    /\ Return(c)
    /\ UNCHANGED <<table, loading, clockHand, disk, flushVars, txnVars>>

-----------------------------------------------------------------------------
(* GetForWrite.                                                            *)

\* The call: the writer takes a page that no reader uses, or one of its own again.
GetForWrite(p) ==
    /\ At(Writer, "idle") /\ \A r \in Reader : page[r] # p
    /\ Go(Writer, "look") /\ page' = [page EXCEPT ![Writer] = p] /\ forWrite' = TRUE
    /\ taken' = taken \cup {p} /\ Cardinality(taken') <= MaxTaken
    /\ UNCHANGED <<poolVars, disk, mine, tries, flushVars, junk>>

WriteHit ==
    /\ At(Writer, "look") /\ forWrite /\ table[page[Writer]] # -1
    /\ LET f == table[page[Writer]] IN
         \/ /\ frames[f].evicting \/ frames[f].pinCount > 0     \* ErrInvalidWrite
            /\ Return(Writer)
            /\ UNCHANGED frames
         \/ /\ ~frames[f].evicting /\ frames[f].pinCount = 0
            /\ frames' = [Pinned(f) EXCEPT ![f].dirty = TRUE]
            /\ Go(Writer, "fill") /\ Use(Writer, f)
            /\ UNCHANGED <<page, tries, forWrite>>
    /\ UNCHANGED <<table, loading, clockHand, disk, flushVars, txnVars>>

WriteMiss ==
    /\ At(Writer, "look") /\ forWrite /\ table[page[Writer]] = -1
    /\ Go(Writer, "scan") /\ tries' = [tries EXCEPT ![Writer] = NFrames]
    /\ UNCHANGED <<poolVars, disk, page, mine, forWrite, flushVars, txnVars>>

\* The caller overwrites the page it got.
Fill ==
    /\ At(Writer, "fill")
    /\ LET p == page[Writer] IN
         /\ frames' = [f \in Frame |-> [frames[f] EXCEPT
                         !.data = IF f = mine[Writer] THEN Latest(p) ELSE Aged(@, p)]]
         /\ disk' = [q \in Page |-> Aged(disk[q], p)]
         /\ junk' = junk \ {p}
    /\ Go(Writer, "using")
    /\ UNCHANGED <<table, loading, clockHand, page, mine, tries, forWrite, flushVars, taken>>

-----------------------------------------------------------------------------
(* acquireFrame.                                                           *)

\* Frames that the flush under way found dirty, or may yet find: the modified pages
\* of the transaction.
OfTxn == {f \in Frame : frames[f].dirty /\ frames[f].pageId \in taken}
FlushPoints == {"collect", "check", "write", "writeErr", "pcheck", "pwrite"}
Flushing == IF pc[Writer] \in FlushPoints THEN batch \cup OfTxn ELSE {}

\* A flush starts while no reader is evicting one of them.
FlushCalm == FlushUndisturbed => \A f \in OfTxn : ~frames[f].evicting

\* Mutant: the clock takes pinned frames.
UnpinnedOrNot(f) == ~frames[f].evicting

\* A frame evictFrame may take once its usage count is down.
Evictable(f) == ~frames[f].evicting /\ frames[f].pinCount = 0

\* evictFrame: the clock moves on by one frame.
Scan(c) ==
    /\ At(c, "scan")
    /\ clockHand' = (clockHand + 1) % NFrames
    /\ LET f == clockHand IN
         \/ /\ frames[f].evicting
            /\ UNCHANGED <<frames, pc, page, mine, tries, forWrite>>
         \/ /\ Evictable(f) /\ (frames[f].pageId = freePageId \/ frames[f].usageCount = 0)
            /\ FlushUndisturbed => f \notin Flushing
            /\ frames' = [frames EXCEPT ![f].evicting = TRUE]
            /\ Go(c, "victim") /\ Use(c, f)
            /\ tries' = [tries EXCEPT ![c] = 0] /\ UNCHANGED <<page, forWrite>>
         \/ /\ Evictable(f) /\ frames[f].pageId # freePageId /\ frames[f].usageCount > 0
            /\ frames' = [frames EXCEPT ![f].usageCount = @ - 1]
            /\ tries' = [tries EXCEPT ![c] = NFrames] /\ UNCHANGED <<pc, page, mine, forWrite>>
         \/ /\ ~frames[f].evicting /\ ~Evictable(f) /\ tries[c] > 1
            /\ tries' = [tries EXCEPT ![c] = @ - 1]
            /\ UNCHANGED <<frames, pc, page, mine, forWrite>>
         \/ /\ ~frames[f].evicting /\ ~Evictable(f) /\ tries[c] = 1     \* ErrBufferExhausted
            /\ Fail(c) /\ UNCHANGED frames
    /\ UNCHANGED <<table, loading, disk, flushVars, txnVars>>

\* The victim is free, dirty or clean.
Victim(c) ==
    /\ At(c, "victim")
    /\ Go(c, IF frames[mine[c]].pageId = freePageId THEN "have"
             ELSE IF frames[mine[c]].dirty THEN "writeback" ELSE "unmap")
    /\ UNCHANGED <<poolVars, disk, page, mine, tries, forWrite, flushVars, txnVars>>

\* A dirty victim is written while it stays mapped.
WriteBack(c) ==
    /\ At(c, "writeback")
    /\ disk' = [disk EXCEPT ![frames[mine[c]].pageId] = frames[mine[c]].data]
    /\ Go(c, "unmap")
    /\ UNCHANGED <<poolVars, page, mine, tries, forWrite, flushVars, txnVars>>

WriteBackFails(c) ==
    /\ IOErrors /\ At(c, "writeback")
    /\ frames' = [frames EXCEPT ![mine[c]].evicting = FALSE]
    /\ Fail(c)
    /\ UNCHANGED <<table, loading, clockHand, disk, flushVars, txnVars>>

\* Mutant: the victim is dropped although a Get has pinned it meanwhile.
UnmapPinned(c) ==
    /\ At(c, "unmap")
    /\ LET f == mine[c] IN
         /\ table' = [table EXCEPT ![frames[f].pageId] = -1]
         /\ frames' = [frames EXCEPT ![f].pageId = freePageId, ![f].dirty = FALSE]
         /\ Go(c, "have") /\ UNCHANGED <<mine, tries>>
    /\ UNCHANGED <<loading, clockHand, disk, page, forWrite, flushVars, txnVars>>

\* A victim that a Get has pinned meanwhile is let go; any other is unmapped.
Unmap(c) ==
    /\ At(c, "unmap")
    /\ LET f == mine[c] IN
         \/ /\ frames[f].pinCount > 0
            /\ frames' = [frames EXCEPT ![f].dirty = FALSE, ![f].evicting = FALSE]
            /\ Go(c, "scan") /\ Use(c, -1) /\ tries' = [tries EXCEPT ![c] = NFrames]
            /\ UNCHANGED table
         \/ /\ frames[f].pinCount = 0
            /\ table' = [table EXCEPT ![frames[f].pageId] = -1]
            /\ frames' = [frames EXCEPT ![f].pageId = freePageId, ![f].dirty = FALSE]
            /\ Go(c, "have") /\ UNCHANGED <<mine, tries>>
    /\ UNCHANGED <<loading, clockHand, disk, page, forWrite, flushVars, txnVars>>

-----------------------------------------------------------------------------
(* FlushPages, FlushAll and FlushPage, and what the transaction does next.  *)

\* FlushPages of the pages the transaction allocated.
FlushPages ==
    /\ At(Writer, "idle") /\ taken # {} /\ FlushCalm
    /\ Go(Writer, "collect") /\ todo' = taken
    /\ UNCHANGED <<poolVars, disk, page, mine, tries, forWrite, batch, runs, txnVars>>

\* It looks a page up ...
Collect(p) ==
    /\ At(Writer, "collect") /\ p \in todo
    /\ todo' = todo \ {p}
    /\ \/ table[p] = -1 /\ UNCHANGED <<pc, mine>>
       \/ table[p] # -1 /\ Go(Writer, "check") /\ Use(Writer, table[p])
    /\ UNCHANGED <<poolVars, disk, page, tries, forWrite, batch, runs, txnVars>>

Flushable(f) == frames[f].dirty /\ ~frames[f].evicting

\* ... and, under the lock of the frame it found, collects it or skips it.
Check ==
    /\ At(Writer, "check")
    /\ batch' = batch \cup {f \in {mine[Writer]} : Flushable(f)}
    /\ Go(Writer, "collect") /\ Use(Writer, -1)
    /\ UNCHANGED <<poolVars, disk, page, tries, forWrite, todo, runs, txnVars>>

\* FlushAll, which initMetas and Close call when nobody else is at work.
FlushAll ==
    /\ At(Writer, "idle") /\ taken # {} /\ \A r \in Reader : At(r, "idle")
    /\ Go(Writer, "collect") /\ batch' = {f \in Frame : Flushable(f)}
    /\ UNCHANGED <<poolVars, disk, page, mine, tries, forWrite, todo, runs, txnVars>>

\* flushDirty sorts the frames by page id and cuts them into runs of consecutive ids.
\* Mutant: the ids of a run need not be consecutive.
RunOfAll(f) == {g \in batch : frames[g].pageId >= frames[f].pageId}

Run(f) == {g \in batch : /\ frames[g].pageId >= frames[f].pageId
                         /\ \A i \in frames[f].pageId .. frames[g].pageId :
                              \E h \in batch : frames[h].pageId = i}
Index(g, R) == Cardinality({h \in R : frames[h].pageId < frames[g].pageId})
RunStarts == {f \in batch : ~\E g \in batch : frames[g].pageId = frames[f].pageId - 1}
SortFrames ==
    /\ At(Writer, "collect") /\ todo = {}
    /\ runs' = {[at |-> [g \in Run(f) |-> Index(g, Run(f))],
                 written |-> FALSE] : f \in RunStarts}
    /\ Go(Writer, "write")
    /\ UNCHANGED <<poolVars, disk, page, mine, tries, forWrite, todo, batch, txnVars>>

FlushRunning == At(Writer, "write") \/ At(Writer, "writeErr")
First(r) == CHOOSE f \in DOMAIN r.at : r.at[f] = 0

\* WritePagesContiguous of a run, one goroutine each: the data of its frames go to
\* the page that the first frame holds now, and to those that follow.
WriteRun(r) ==
    /\ FlushRunning /\ ~r.written /\ frames[First(r)].pageId # freePageId
    /\ disk' = [p \in Page |->
                  LET here == {f \in DOMAIN r.at : frames[First(r)].pageId + r.at[f] = p}
                  IN  IF here = {} THEN disk[p] ELSE frames[CHOOSE f \in here : TRUE].data]
    /\ runs' = (runs \ {r}) \cup {[r EXCEPT !.written = TRUE]}
    /\ UNCHANGED <<poolVars, callVars, todo, batch, txnVars>>

\* Mutant: the error of a write is dropped.
WriteRunFailsSilently(r) ==
    /\ FlushRunning /\ ~r.written /\ IOErrors
    /\ runs' = runs \ {r}
    /\ UNCHANGED <<poolVars, disk, callVars, todo, batch, txnVars>>

\* The write fails (as it does when the first frame is free by now), or another
\* one has failed and this one is not started.
WriteRunFails(r) ==
    /\ FlushRunning /\ ~r.written
    /\ IOErrors \/ At(Writer, "writeErr") \/ frames[First(r)].pageId = freePageId
    /\ runs' = runs \ {r}
    /\ Go(Writer, "writeErr")
    /\ UNCHANGED <<poolVars, disk, page, mine, tries, forWrite, todo, batch, txnVars>>

\* The frames written are clean, but for those being evicted by now.
Cleaned(F) == [f \in Frame |-> IF f \in F /\ ~frames[f].evicting
                                 THEN [frames[f] EXCEPT !.dirty = FALSE] ELSE frames[f]]
CleanRun(r) ==
    /\ FlushRunning /\ r.written
    /\ frames' = Cleaned(DOMAIN r.at)
    /\ runs' = runs \ {r} /\ batch' = batch \ DOMAIN r.at
    /\ UNCHANGED <<table, loading, clockHand, disk, callVars, todo, txnVars>>

\* g.Wait returns.  After an error the transaction is aborted.
FlushEnds ==
    /\ FlushRunning /\ runs = {}
    /\ batch' = {}
    /\ \/ At(Writer, "write") /\ Go(Writer, "flushed") /\ UNCHANGED todo
       \/ At(Writer, "writeErr") /\ Go(Writer, "abort") /\ todo' = taken
    /\ UNCHANGED <<poolVars, disk, page, mine, tries, forWrite, runs, txnVars>>

\* Commit goes on to publish the transaction's pages.
Publish ==
    /\ At(Writer, "flushed")
    /\ taken' = {}
    /\ Go(Writer, "idle")
    /\ UNCHANGED <<poolVars, disk, page, mine, tries, forWrite, flushVars, junk>>

\* FlushPage of the meta page.
FlushPage(p) ==
    /\ At(Writer, "idle") /\ p \in taken /\ FlushCalm
    /\ \/ table[p] = -1 /\ UNCHANGED callVars
       \/ /\ table[p] # -1 /\ Go(Writer, "pcheck") /\ Use(Writer, table[p])
          /\ page' = [page EXCEPT ![Writer] = p] /\ UNCHANGED <<tries, forWrite>>
    /\ UNCHANGED <<poolVars, disk, flushVars, txnVars>>

FlushPageCheck ==
    /\ At(Writer, "pcheck")
    /\ \/ Flushable(mine[Writer]) /\ Go(Writer, "pwrite") /\ UNCHANGED <<page, mine, tries, forWrite>>
       \/ ~Flushable(mine[Writer]) /\ Return(Writer)
    /\ UNCHANGED <<poolVars, disk, flushVars, txnVars>>

FlushPageWrite ==
    /\ At(Writer, "pwrite")
    /\ \/ /\ disk' = [disk EXCEPT ![page[Writer]] = frames[mine[Writer]].data]
          /\ Go(Writer, "pclean") /\ UNCHANGED <<page, mine, tries, forWrite, todo>>
       \/ /\ IOErrors
          /\ pc' = [pc EXCEPT ![Writer] = "abort"] /\ todo' = taken
          /\ page' = [page EXCEPT ![Writer] = freePageId] /\ Use(Writer, -1)
          /\ UNCHANGED <<disk, tries, forWrite>>
    /\ UNCHANGED <<poolVars, batch, runs, txnVars>>

FlushPageClean ==
    /\ At(Writer, "pclean")
    /\ frames' = Cleaned({mine[Writer]})
    /\ Return(Writer)
    /\ UNCHANGED <<table, loading, clockHand, disk, flushVars, txnVars>>

\* Abort: MarkClean every page allocated.
Abort ==
    /\ At(Writer, "idle") /\ taken # {}
    /\ Go(Writer, "abort") /\ todo' = taken
    /\ UNCHANGED <<poolVars, disk, page, mine, tries, forWrite, batch, runs, txnVars>>

MarkClean(p) ==
    /\ At(Writer, "abort") /\ p \in todo
    /\ todo' = todo \ {p}
    /\ frames' = [f \in Frame |-> IF f = table[p] THEN [frames[f] EXCEPT !.dirty = FALSE] ELSE frames[f]]
    /\ UNCHANGED <<table, loading, clockHand, disk, callVars, batch, runs, txnVars>>

AbortEnds ==
    /\ At(Writer, "abort") /\ todo = {}
    /\ junk' = junk \cup taken /\ taken' = {}
    /\ Go(Writer, "idle")
    /\ UNCHANGED <<poolVars, disk, page, mine, tries, forWrite, flushVars>>

-----------------------------------------------------------------------------

GetStep(c) ==
    \/ \E p \in Page : Get(c, p)
    \/ GetHit(c) \/ GetMiss(c) \/ Claim(c) \/ Recheck(c) \/ Load(c) \/ LoadFails(c) \/ Install(c)
    \/ GetEnds(c) \/ GetErrs(c) \/ Unpin(c)

AcquireStep(c) == Scan(c) \/ Victim(c) \/ WriteBack(c) \/ WriteBackFails(c) \/ Unmap(c)

WriteStep == (\E p \in Page : GetForWrite(p)) \/ WriteHit \/ WriteMiss \/ Fill

FlushStep ==
    \/ FlushPages \/ FlushAll \/ SortFrames \/ Check \/ FlushEnds \/ Publish
    \/ \E p \in Page : Collect(p) \/ FlushPage(p)
    \/ \E r \in runs : WriteRun(r) \/ WriteRunFails(r) \/ CleanRun(r)
    \/ FlushPageCheck \/ FlushPageWrite \/ FlushPageClean

AbortStep == Abort \/ AbortEnds \/ \E p \in Page : MarkClean(p)

Next == (\E c \in Proc : GetStep(c) \/ AcquireStep(c)) \/ WriteStep \/ FlushStep \/ AbortStep

Spec == Init /\ [][Next]_vars

\* Inside a call a goroutine takes its next step when it can, and returns its pins;
\* it is up to the caller to make another call.
Calling(c) == \/ \E p \in Page : Get(c, p)
              \/ c = Writer /\ \/ \E p \in Page : GetForWrite(p) \/ FlushPage(p)
                               \/ FlushPages \/ FlushAll \/ Abort
Returning(c) ==
    /\ ~At(c, "idle")
    /\ \/ GetStep(c) \/ AcquireStep(c)
       \/ c = Writer /\ (WriteStep \/ FlushStep \/ AbortStep)
LiveSpec == Spec /\ \A c \in Proc : WF_vars(Returning(c))

-----------------------------------------------------------------------------
(* Properties.                                                             *)

Acquired == {"victim", "writeback", "unmap", "have", "install"}
Pinning == {"using", "fill", "close"}

\* Every variable has its type; pin counts never go below zero (Unpin would panic).
TypeOK ==
    /\ frames \in [Frame -> [pageId : Page \cup {freePageId}, pinCount : Nat,
                             usageCount : 0 .. maxUsageCount, dirty : BOOLEAN,
                             evicting : BOOLEAN, data : Contents]]
    /\ table \in [Page -> Frame \cup {-1}] /\ loading \subseteq Page /\ clockHand \in Frame
    /\ disk \in [Page -> Contents]
    /\ page \in [Proc -> Page \cup {freePageId}] /\ mine \in [Proc -> Frame \cup {-1}]
    /\ tries \in [Proc -> 0 .. NFrames] /\ forWrite \in BOOLEAN
    /\ todo \subseteq Page /\ batch \subseteq Frame
    /\ taken \subseteq Page /\ junk \subseteq Page

\* Get returns the bytes last written to the page, wherever they were: in a frame,
\* in a frame being evicted, or in the file.  Pinned pages are not evicted: they
\* stay what they are until Unpin.
PinnedIsLatest ==
    \A c \in Proc : At(c, "using") =>
      /\ frames[mine[c]].pageId = page[c] /\ table[page[c]] = mine[c]
      /\ frames[mine[c]].data = Latest(page[c])

\* The page tables and the frames agree: a page is in one frame at most, however
\* many goroutines miss it at once, and a frame that holds a page is mapped.
Mapping == \A p \in Page, f \in Frame : table[p] = f <=> frames[f].pageId = p

\* A frame marked evicting belongs to exactly one goroutine inside acquireFrame or
\* loadAndInstall, and no error path leaves one marked; pins are counted exactly.
Ownership ==
    \A f \in Frame :
      /\ Cardinality({c \in Proc : mine[c] = f /\ pc[c] \in Acquired})
           = IF frames[f].evicting THEN 1 ELSE 0
      /\ Cardinality({c \in Proc : mine[c] = f /\ pc[c] \in Pinning}) = frames[f].pinCount

\* A page in the file holds contents of that page.
FileSound == \A p \in Page : disk[p].of = p

\* When FlushPages or FlushAll returns nil the file holds what the transaction wrote.
FlushComplete == At(Writer, "flushed") => \A p \in taken \ junk : disk[p] = Latest(p)

\* Once no more calls are made, every call returns: nobody waits for a loader that
\* is gone, and no clock runs over frames that nobody will give back.
CallsReturn ==
    <>[][\A c \in Proc : ~Calling(c)]_vars => <>[](\A c \in Proc : At(c, "idle"))
============================================================================
