------------------------------ MODULE Storage ------------------------------
(***************************************************************************)
(* The storage manager: storage.go.  Sizes are in pages, offsets in the    *)
(* sectors that direct I/O transfers; a page has PageSize of them.         *)
(*                                                                         *)
(* The sectors of a vectored write are told apart by the place in the file *)
(* they are meant for; file records where the current write has put them.  *)
(***************************************************************************)
EXTENDS Integers, SequencesExt

CONSTANTS
    PageSize, initFileSize, maxGrowth, pwritevMaxIOV,
    MaxPages,     \* bound on the pages allocated
    MaxRun,       \* bound on the pages of one vectored write
    SectorWrites  \* TRUE: a write may stop inside a page, FALSE: only between pages

ASSUME SizesAssumption == {PageSize, initFileSize, maxGrowth, pwritevMaxIOV} \subseteq Nat \ {0}
ASSUME BoundsAssumption == {MaxPages, MaxRun} \subseteq Nat /\ SectorWrites \in BOOLEAN

VARIABLES
    fileSize,   \* StorageManager.fileSize
    allocated,  \* pages 0 .. allocated - 1 have been allocated by the callers
    run,        \* the vectored write under way: [start, len], len = 0 for none
    bufs,       \* pwritevFull: what is left of each buffer
    offset,     \* pwritevFull: where it goes
    file        \* what the current write has put where: sector -> sector

vars == <<fileSize, allocated, run, bufs, offset, file>>
writeVars == <<run, bufs, offset, file>>

Nothing == [s \in {} |-> 0]
NoRun == [start |-> 0, len |-> 0]

Init ==
    /\ fileSize = 0 /\ allocated = 0
    /\ run = NoRun /\ bufs = <<>> /\ offset = 0 /\ file = Nothing

-----------------------------------------------------------------------------
(* Allocate.                                                               *)

Larger(a, b) == IF a < b THEN b ELSE a

RECURSIVE grow(_, _)
grow(size, required) ==
    IF size < required THEN grow(size + Larger(size, maxGrowth), required) ELSE size

\* Mutant: the growth is not repeated until it is enough.
growOnce(required) == Larger(fileSize, initFileSize)

growSize(required) == grow(Larger(fileSize, initFileSize), required)

\* Allocate of the next page; Truncate may fail.
Allocate ==
    /\ run = NoRun /\ allocated < MaxPages
    /\ \/ allocated' = allocated + 1
          /\ fileSize' = IF allocated + 1 <= fileSize THEN fileSize ELSE growSize(allocated + 1)
       \/ /\ allocated + 1 > fileSize
          /\ UNCHANGED <<fileSize, allocated>>
    /\ UNCHANGED writeVars

-----------------------------------------------------------------------------
(* WritePagesContiguous.                                                   *)

\* The call, for pages start .. start + len - 1: getOffset and the size of the
\* file are within bounds, or the code panics.
WritePagesContiguous(start, len) ==
    /\ run = NoRun /\ start + len <= allocated
    /\ run' = [start |-> start, len |-> len]
    /\ bufs' = [k \in 1 .. len |-> [i \in 1 .. PageSize |-> (start + k - 1) * PageSize + i - 1]]
    /\ offset' = start * PageSize /\ file' = Nothing
    /\ UNCHANGED <<fileSize, allocated>>

\* Mutant: a vectored write is taken to be complete.
DropAll(n) == <<>>

\* What is left of the buffers after n sectors were written: whole buffers of
\* PageSize go, then the rest of n comes off the next one.
Drop(n) ==
    LET left == SubSeq(bufs, n \div PageSize + 1, Len(bufs))
        partial == n % PageSize
    IN  IF partial = 0 THEN left
        ELSE <<SubSeq(left[1], partial + 1, Len(left[1]))>> \o Tail(left)

\* One Pwritev of at most pwritevMaxIOV buffers: it writes n sectors of them, none
\* when the buffers left are empty.
Pwritev ==
    /\ bufs # <<>>
    /\ LET chunk == FlattenSeq(SubSeq(bufs, 1, IF Len(bufs) > pwritevMaxIOV THEN pwritevMaxIOV
                                               ELSE Len(bufs)))
       IN  \E n \in IF chunk = <<>> THEN {0} ELSE 1 .. Len(chunk) :
             /\ SectorWrites \/ n % PageSize = 0
             /\ file' = [s \in DOMAIN file \cup (offset .. offset + n - 1) |->
                           IF s >= offset THEN chunk[s - offset + 1] ELSE file[s]]
             /\ bufs' = Drop(n)
             /\ offset' = offset + n
    /\ UNCHANGED <<fileSize, allocated, run>>

\* The write under way is over: every buffer was written, or Pwritev failed.
Over == /\ run' = NoRun /\ bufs' = <<>> /\ offset' = 0 /\ file' = Nothing
        /\ UNCHANGED <<fileSize, allocated>>
Return == run # NoRun /\ bufs = <<>> /\ Over
PwritevFails == bufs # <<>> /\ Over

\* Close and NewStorageManager: the file keeps its size, the callers keep the pages
\* they had committed.
Reopen ==
    /\ run = NoRun
    /\ \E n \in 0 .. allocated : allocated' = n
    /\ UNCHANGED <<fileSize, writeVars>>

Next ==
    \/ Allocate \/ Pwritev \/ Return \/ PwritevFails \/ Reopen
    \/ \E start \in 0 .. MaxPages, len \in 1 .. MaxRun : WritePagesContiguous(start, len)

Spec == Init /\ [][Next]_vars

-----------------------------------------------------------------------------
(* Properties.                                                             *)

\* Every page that was allocated lies in the file, so that getOffset and
\* WritePagesContiguous never panic on it, and a new file starts with initFileSize.
PagesInFile == allocated <= fileSize /\ (fileSize > 0 => fileSize >= initFileSize)

\* A vectored write puts each sector in its own place, touches nothing else, and is
\* complete when it returns, however many short writes it took.
RunInPlace ==
    /\ \A s \in DOMAIN file : file[s] = s /\ s < (run.start + run.len) * PageSize
    /\ run # NoRun /\ bufs = <<>> =>
         DOMAIN file = run.start * PageSize .. (run.start + run.len) * PageSize - 1
============================================================================
