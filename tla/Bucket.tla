------------------------------- MODULE Bucket -------------------------------
(***************************************************************************)
(* Buckets and the catalog: bucket.go, over B+trees (btree.go, update.go,  *)
(* delete.go) taken as maps.                                               *)
(*                                                                         *)
(* A B+tree is known by its root page; root 0 is the empty tree.  A change *)
(* builds a tree under a new root and frees the old one; that the new root *)
(* is a page that nothing committed, no snapshot and no other tree of the  *)
(* transaction uses is what module Txn shows of AllocatePage (it may be a  *)
(* page that the transaction itself allocated and freed before).  Errors   *)
(* of AllocatePage inside an operation are left out.                       *)
(***************************************************************************)
EXTENDS Integers, FiniteSets

CONSTANTS
    Reader, Name, Key, Value,
    Nil, NoBucket,
    Root,        \* pages that can be the root of a bucket
    NoEntry,     \* a name that is not in the catalog
    NoHandle,    \* a name without an entry in Txn.buckets
    EmptyDrops   \* TRUE: buckets that were committed empty may be dropped

ASSUME RootAssumption == 0 \notin Root
ASSUME NilAssumption == Nil \notin Value /\ EmptyDrops \in BOOLEAN
ASSUME MarkAssumption == NoEntry \notin Root \cup {0}

VARIABLES
    tree,     \* the map held by the tree under each root
    catalog,  \* the committed catalog: name -> root
    writing,  \* there is a write transaction
    buckets,  \* Txn.buckets: name -> [root, origRoot, created, dropped]
    freed,    \* roots freed by the write transaction, or by the one just committed
    snap,     \* each reader: the catalog of its snapshot
    reply     \* what the last call returned

vars == <<tree, catalog, writing, buckets, freed, snap, reply>>

-----------------------------------------------------------------------------

NoNames == [n \in Name |-> NoEntry]
EmptyMap == [k \in Key |-> Nil]
NoHandles == [n \in Name |-> NoHandle]

Map(root) == IF root = 0 THEN EmptyMap ELSE tree[root]
Handle(root, origRoot, created) ==
    [root |-> root, origRoot |-> origRoot, created |-> created, dropped |-> FALSE]

Has(n) == buckets[n] # NoHandle
Usable(n) == Has(n) /\ ~buckets[n].dropped

\* Roots of something that is committed, in a snapshot or in the transaction.
InUse == {catalog[n] : n \in Name} \cup {snap[r][n] : r \in Reader, n \in Name}
           \cup {buckets[n].root : n \in {m \in Name : Has(m)}}
           \cup {buckets[n].origRoot : n \in {m \in Name : Has(m)}}

Init ==
    /\ tree = [p \in Root |-> EmptyMap] /\ catalog = NoNames
    /\ writing = FALSE /\ buckets = NoHandles /\ freed = {}
    /\ snap = [r \in Reader |-> NoNames] /\ reply = "ok"

\* BeginWrite, and BeginRead of reader r.
BeginWrite ==
    /\ ~writing /\ writing' = TRUE /\ freed' = {}
    /\ UNCHANGED <<tree, catalog, buckets, snap, reply>>

BeginRead(r) ==
    /\ snap' = [snap EXCEPT ![r] = catalog]
    /\ UNCHANGED <<tree, catalog, writing, buckets, freed, reply>>

EndRead(r) ==
    /\ snap' = [snap EXCEPT ![r] = NoNames]
    /\ UNCHANGED <<tree, catalog, writing, buckets, freed, reply>>

-----------------------------------------------------------------------------
(* Bucket management.                                                      *)

\* lookupBucket: the handle of the transaction, else one for the catalog's root.
lookupBucket(n) ==
    IF Has(n) THEN buckets[n]
    ELSE IF catalog[n] = NoEntry THEN NoHandle
    ELSE Handle(catalog[n], catalog[n], FALSE)
Found(n) == lookupBucket(n) # NoHandle /\ ~lookupBucket(n).dropped

\* Txn.Bucket.
Lookup(n) ==
    /\ writing
    /\ buckets' = [buckets EXCEPT ![n] = lookupBucket(n)]
    /\ reply' = IF Found(n) THEN "ok" ELSE "ErrBucketNotFound"
    /\ UNCHANGED <<tree, catalog, writing, freed, snap>>

\* Mutant: a bucket recreated after a drop forgets the root it had.
CreateForgetting(n) ==
    /\ writing /\ ~Found(n)
    /\ buckets' = [buckets EXCEPT ![n] = Handle(0, 0, TRUE)]
    /\ reply' = "ok"
    /\ UNCHANGED <<tree, catalog, writing, freed, snap>>

\* CreateBucket: a bucket dropped in this transaction keeps its origRoot.
CreateBucket(n) ==
    /\ writing
    /\ \/ /\ Found(n)
          /\ reply' = "ErrBucketExists" /\ UNCHANGED buckets
       \/ /\ ~Found(n)
          /\ buckets' = [buckets EXCEPT ![n] =
                           Handle(0, IF Has(n) THEN buckets[n].origRoot ELSE 0, TRUE)]
          /\ reply' = "ok"
    /\ UNCHANGED <<tree, catalog, writing, freed, snap>>

\* The transaction found the bucket in the catalog with an empty tree.
CommittedEmpty(n) == lookupBucket(n).origRoot = 0 /\ catalog[n] = 0

\* DropBucket: FreeAll, then the handle is dead.
DropBucket(n) ==
    /\ writing
    /\ \/ /\ ~Found(n)
          /\ reply' = "ErrBucketNotFound" /\ UNCHANGED <<buckets, freed>>
       \/ /\ Found(n) /\ (EmptyDrops \/ ~CommittedEmpty(n))
          /\ freed' = freed \cup ({lookupBucket(n).root} \ {0})
          /\ buckets' = [buckets EXCEPT ![n] = [lookupBucket(n) EXCEPT !.root = 0, !.dropped = TRUE]]
          /\ reply' = "ok"
    /\ UNCHANGED <<tree, catalog, writing, snap>>

-----------------------------------------------------------------------------
(* Operations on the handle of bucket n.                                   *)

\* The call returns res and changes nothing.
Answer(res) == reply' = res /\ UNCHANGED <<tree, catalog, writing, buckets, freed, snap>>

Dead(n) == writing /\ Has(n) /\ buckets[n].dropped /\ Answer("ErrBucketNotFound")
Alive(n) == writing /\ Usable(n)
Old(n) == Map(buckets[n].root)

\* Mutant: a tree that has become empty keeps its last leaf as its root.
RebuildEmpty(n, m) ==
    /\ \E p \in Root \ InUse :
         /\ tree' = [tree EXCEPT ![p] = m]
         /\ buckets' = [buckets EXCEPT ![n].root = p]
         /\ freed' = (freed \cup {buckets[n].root}) \ {0, p}
    /\ reply' = "ok"
    /\ UNCHANGED <<catalog, writing, snap>>

\* The tree is rebuilt with contents m under a new root, which is 0 for no contents.
Rebuild(n, m) ==
    /\ \E p \in IF m = EmptyMap THEN {0} ELSE Root \ InUse :
         /\ tree' = [q \in Root |-> IF q = p THEN m ELSE tree[q]]
         /\ buckets' = [buckets EXCEPT ![n].root = p]
         /\ freed' = (freed \cup {buckets[n].root}) \ {0, p}
    /\ reply' = "ok"
    /\ UNCHANGED <<catalog, writing, snap>>

\* BTree.Update sets a key, or leaves the tree alone when nothing would change.
Set(n, k, v) ==
    \/ Old(n)[k] = v /\ Answer("ok")
    \/ Old(n)[k] # v /\ Rebuild(n, [Old(n) EXCEPT ![k] = v])

Get(n, k) == Dead(n) \/ (Alive(n) /\ Answer(Old(n)[k]))

Put(n, k, v) == Dead(n) \/ (Alive(n) /\ Set(n, k, v))

Insert(n, k, v) ==
    \/ Dead(n)
    \/ Alive(n) /\ Old(n)[k] = Nil /\ Set(n, k, v)
    \/ Alive(n) /\ Old(n)[k] # Nil /\ Answer("ErrKeyExists")

Update(n, k, v) ==
    \/ Dead(n)
    \/ Alive(n) /\ Old(n)[k] # Nil /\ Set(n, k, v)
    \/ Alive(n) /\ Old(n)[k] = Nil /\ Answer("ErrKeyNotFound")

Delete(n, k) == Dead(n) \/ (Alive(n) /\ Set(n, k, Nil))

\* A reader looks a bucket up in its snapshot and gets a key.
ReadGet(r, n, k) ==
    Answer(IF snap[r][n] = NoEntry THEN "ErrBucketNotFound" ELSE Map(snap[r][n])[k])

-----------------------------------------------------------------------------
(* Commit and Abort.                                                       *)

\* Mutant: only new buckets are written to the catalog.
ApplyCreated(n) ==
    IF ~Has(n) THEN catalog[n]
    ELSE IF buckets[n].dropped THEN IF buckets[n].origRoot = 0 THEN catalog[n] ELSE NoEntry
    ELSE IF buckets[n].created THEN buckets[n].root ELSE catalog[n]

\* applyBucketChanges, for one name.
applyBucketChanges(n) ==
    IF ~Has(n) THEN catalog[n]
    ELSE IF buckets[n].dropped THEN IF buckets[n].origRoot = 0 THEN catalog[n] ELSE NoEntry
    ELSE IF buckets[n].created \/ buckets[n].root # buckets[n].origRoot
      THEN buckets[n].root ELSE catalog[n]

End(res) == writing' = FALSE /\ buckets' = NoHandles /\ reply' = res /\ UNCHANGED <<tree, snap>>

Commit ==
    /\ writing /\ End("ok")
    /\ catalog' = [n \in Name |-> applyBucketChanges(n)]
    /\ UNCHANGED freed

\* Abort, or a Commit that fails.
Abort == writing /\ End("aborted") /\ freed' = {} /\ UNCHANGED catalog

-----------------------------------------------------------------------------

HandleStep(n) ==
    \/ \E k \in Key : Get(n, k) \/ Delete(n, k)
    \/ \E k \in Key, v \in Value : Put(n, k, v) \/ Insert(n, k, v) \/ Update(n, k, v)

ReadStep(r) == BeginRead(r) \/ EndRead(r) \/ \E n \in Name, k \in Key : ReadGet(r, n, k)

Next ==
    \/ BeginWrite \/ Commit \/ Abort
    \/ \E n \in Name : Lookup(n) \/ CreateBucket(n) \/ DropBucket(n) \/ HandleStep(n)
    \/ \E r \in Reader : ReadStep(r)

Spec == Init /\ [][Next]_vars

-----------------------------------------------------------------------------
(* Properties.                                                             *)

HandleType == [root : Root \cup {0}, origRoot : Root \cup {0}, created : BOOLEAN, dropped : BOOLEAN]

\* Every variable has its type, and a tree in use is empty only if its root is 0.
TypeOK ==
    /\ tree \in [Root -> [Key -> Value \cup {Nil}]]
    /\ catalog \in [Name -> Root \cup {0, NoEntry}]
    /\ writing \in BOOLEAN /\ freed \subseteq Root
    /\ buckets \in [Name -> HandleType \cup {NoHandle}]
    /\ snap \in [Reader -> [Name -> Root \cup {0, NoEntry}]]
    /\ \A p \in InUse \cap Root : tree[p] # EmptyMap

\* Trees are never shared and never freed while they can be reached: two names of
\* a catalog, of the committed one or of the one the transaction is about to
\* commit, have different trees, and neither names a tree that was freed.
Roots(c) == {n \in Name : c[n] \in Root}
TreesOwned ==
    LET next == [n \in Name |-> applyBucketChanges(n)]
    IN  /\ \A m, n \in Roots(next) : next[m] = next[n] => m = n
        /\ \A n \in Roots(next) : next[n] \notin freed

\* The catalog and the handles implement the map of maps of module Store.  The
\* transaction sees, for each name, its handle if there is one, else the catalog.
Contents(root) == IF root = NoEntry THEN NoBucket ELSE Map(root)
Committed == [n \in Name |-> Contents(catalog[n])]
Working == [n \in Name |-> IF Usable(n) THEN Contents(buckets[n].root)
                           ELSE IF Has(n) THEN NoBucket ELSE Contents(catalog[n])]
StoreView == [r \in Reader |-> [n \in Name |-> Contents(snap[r][n])]]
Abstract == INSTANCE Store WITH committed <- Committed, working <- Working, view <- StoreView

\* Whatever the order of creating, looking up, dropping, recreating and changing
\* buckets, each call returns what it would on a plain map of maps, readers see
\* what was committed when they began, and Commit publishes what the transaction
\* saw.
ImplementsStore == Abstract!Spec
============================================================================
