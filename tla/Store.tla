------------------------------- MODULE Store -------------------------------
(***************************************************************************)
(* What the buckets of a database promise to their users: a map from names *)
(* to maps from keys to values, one writer that works on a copy of its own *)
(* until it commits, and readers that each see what was committed when     *)
(* they began.                                                             *)
(***************************************************************************)
EXTENDS Integers

CONSTANTS Reader, Name, Key, Value,
          Nil,       \* what Get returns for a key that is not there
          NoBucket   \* what a name without a bucket has instead of one

VARIABLES
    committed,  \* the buckets, as of the last commit
    working,    \* the buckets as the write transaction sees them
    writing,    \* there is a write transaction
    view,       \* each reader: the buckets it sees, or none
    reply       \* what the last call returned

vars == <<committed, working, writing, view, reply>>

None == [n \in Name |-> NoBucket]
Empty == [k \in Key |-> Nil]

Init ==
    /\ committed = None /\ working = None /\ writing = FALSE
    /\ view = [r \in Reader |-> None] /\ reply = "ok"

BeginWrite == ~writing /\ writing' = TRUE /\ UNCHANGED <<committed, working, view, reply>>

\* One call of the writer on name n returns res and leaves b as the bucket.
Answer(n, res, b) ==
    /\ writing /\ reply' = res
    /\ working' = [working EXCEPT ![n] = b]
    /\ UNCHANGED <<committed, writing, view>>

Exists(n) == working[n] # NoBucket
Lookup(n) == Answer(n, IF Exists(n) THEN "ok" ELSE "ErrBucketNotFound", working[n])
Create(n) == Answer(n, IF Exists(n) THEN "ErrBucketExists" ELSE "ok",
                    IF Exists(n) THEN working[n] ELSE Empty)
Drop(n)   == Answer(n, IF Exists(n) THEN "ok" ELSE "ErrBucketNotFound", NoBucket)

NotFound(n) == ~Exists(n) /\ Answer(n, "ErrBucketNotFound", working[n])
Get(n, k) == NotFound(n) \/ (Exists(n) /\ Answer(n, working[n][k], working[n]))
Set(n, k, v) == Answer(n, "ok", [working[n] EXCEPT ![k] = v])
Put(n, k, v) == NotFound(n) \/ (Exists(n) /\ Set(n, k, v))
Insert(n, k, v) ==
    \/ NotFound(n)
    \/ Exists(n) /\ working[n][k] = Nil /\ Set(n, k, v)
    \/ Exists(n) /\ working[n][k] # Nil /\ Answer(n, "ErrKeyExists", working[n])
Update(n, k, v) ==
    \/ NotFound(n)
    \/ Exists(n) /\ working[n][k] # Nil /\ Set(n, k, v)
    \/ Exists(n) /\ working[n][k] = Nil /\ Answer(n, "ErrKeyNotFound", working[n])
Delete(n, k) == NotFound(n) \/ (Exists(n) /\ Set(n, k, Nil))

\* Commit makes the copy what everyone sees from now on; Abort drops it.
Commit == /\ writing /\ writing' = FALSE /\ reply' = "ok"
          /\ committed' = working /\ UNCHANGED <<working, view>>
Abort == /\ writing /\ writing' = FALSE /\ reply' = "aborted"
         /\ working' = committed /\ UNCHANGED <<committed, view>>

BeginRead(r) == /\ view' = [view EXCEPT ![r] = committed]
                /\ UNCHANGED <<committed, working, writing, reply>>
ReadGet(r, n, k) ==
    /\ reply' = IF view[r][n] = NoBucket THEN "ErrBucketNotFound" ELSE view[r][n][k]
    /\ UNCHANGED <<committed, working, writing, view>>
EndRead(r) == /\ view' = [view EXCEPT ![r] = None]
              /\ UNCHANGED <<committed, working, writing, reply>>

Next ==
    \/ BeginWrite \/ Commit \/ Abort
    \/ \E n \in Name :
         \/ Lookup(n) \/ Create(n) \/ Drop(n)
         \/ \E k \in Key : Get(n, k) \/ Delete(n, k)
         \/ \E k \in Key, v \in Value : Put(n, k, v) \/ Insert(n, k, v) \/ Update(n, k, v)
    \/ \E r \in Reader : BeginRead(r) \/ EndRead(r) \/ \E n \in Name, k \in Key : ReadGet(r, n, k)

Spec == Init /\ [][Next]_vars
============================================================================
