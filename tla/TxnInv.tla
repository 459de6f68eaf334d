------------------------------ MODULE TxnInv -------------------------------
(***************************************************************************)
(* The inductive invariant of Txn: why snapshots stay intact and why the   *)
(* freelist stays sound, in any number of steps and whatever fails.        *)
(***************************************************************************)
EXTENDS Txn

\* What every meta page ever encoded says: its free pages do not repeat, none of
\* them is a page it names, and all of them are below its page count.
MetaSound(m) ==
    /\ IsInjective(m.ids) /\ IsInjective(m.chain)
    /\ Range(m.ids) \cap DOMAIN m.img = {}
    /\ \A p \in DOMAIN m.img \cup Range(m.ids) : p < m.numPages

MetasSound ==
    /\ \A s \in Slot : MetaSound(mdisk[s]) /\ MetaSound(mbuf[s]) /\ \A m \in mvol[s] : MetaSound(m)
    /\ MetaSound(currentMeta)

\* What is there while no process has the file open, and while no writer runs.
IdleInv ==
    /\ mode # "up" => /\ phase = "none" /\ pending = <<>> /\ dirty = {} /\ mem = disk
                      /\ \A r \in Reader : rstate[r] = "idle"
    /\ phase = "none" => /\ wtree = {} /\ allocated = {} /\ minTxn = -1
                         /\ freed = <<>> /\ reusable = <<>> /\ chainIDs = <<>>
    /\ mode = "up" => currentMeta.txnID >= 0
    /\ phase # "none" => currentMeta.txnID < MaxTxn

\* The pages of the current version, and those free since it or before.
Live == DOMAIN currentMeta.img
Free == Ids(pending)

\* The lists do not repeat a page and do not share one.
ListsInv ==
    /\ IsInjective(PageIDs(pending)) /\ IsInjective(freed) /\ IsInjective(reusable)
    /\ IsInjective(chainIDs)
    /\ Free \cap Range(freed) = {} /\ Free \cap Range(reusable) = {}
    /\ Range(freed) \cap Range(reusable) = {}
    /\ (Free \cup Range(freed) \cup Range(reusable)) \cap (wtree \cup Range(chainIDs)) = {}

\* What the writer takes was neither live nor is still free; what it builds is
\* made of live pages and of what it took; what it drops of the current version
\* is on its way to the freelist.
WriterInv ==
    mode = "up" =>
      /\ (Free \cup allocated \cup Range(reusable) \cup Range(chainIDs)) \cap Live = {}
      /\ Free \cap allocated = {}
      /\ wtree \subseteq Live \cup allocated
      /\ phase = "active" =>
           /\ chainIDs = <<>>
           /\ Live \subseteq wtree \cup Range(freed) \cup Range(currentMeta.chain)
           /\ Range(currentMeta.chain) \cap (wtree \cup Range(freed)) = {}
      /\ phase \notin {"none", "active"} => Live \subseteq wtree \cup Range(freed)

\* Every page in play is below the page count: a page the file is extended by is new.
BoundInv ==
    mode = "up" =>
      /\ \A p \in Live \cup Free : p < currentMeta.numPages
      /\ phase # "none" =>
           /\ currentMeta.numPages <= numPages
           /\ \A p \in wtree \cup allocated \cup Range(freed) \cup Range(reusable) \cup Range(chainIDs) :
                p < numPages

\* A page of r's snapshot is live, or was freed later than that snapshot.
Holds(r, p) ==
    \/ p \in Live
    \/ \E i \in DOMAIN pending : pending[i].pageID = p /\ pending[i].freedAt > snap[r].txnID

\* The readers that BeginRead has counted under snapshot t.
Counted(t) == {r \in Reader : rstate[r] = "active" /\ snap[r].txnID = t}

ReadersInv ==
    /\ \A t \in TxnID : readers[t] = Cardinality(Counted(t))
    /\ minTxn <= currentMeta.txnID
    /\ \A r \in Reader : rstate[r] # "idle" =>
         /\ 0 <= snap[r].txnID /\ snap[r].txnID <= currentMeta.txnID
         /\ minTxn <= snap[r].txnID
         /\ \A p \in DOMAIN snap[r].img : Holds(r, p)

\* The pages whose contents somebody relies on.  The clean ones are in the file as
\* they are in memory: dropping their frames loses nothing.
Needed == Live \cup wtree \cup Range(chainIDs)
            \cup UNION {DOMAIN snap[r].img : r \in {q \in Reader : rstate[q] # "idle"}}
CleanInv == mode = "up" => \A p \in Needed : p \notin dirty => disk[p] = mem[p]

IInv == /\ TypeOK /\ MetasSound /\ IdleInv /\ ListsInv /\ WriterInv /\ BoundInv
        /\ ReadersInv /\ CleanInv /\ SnapshotIntact
============================================================================
