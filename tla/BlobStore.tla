----------------------------- MODULE BlobStore -----------------------------
(***************************************************************************)
(* The write and reclaim protocol of blob.Service (internal/blob) over its *)
(* two stores: PostgreSQL, which holds the rows of `blobs` and of          *)
(* `cache_objects`, and storage.Store, which holds the bytes and takes no  *)
(* part in any transaction.                                                *)
(*                                                                         *)
(* A session is one database transaction in flight, driven by one request  *)
(* goroutine (Clients) or by the garbage collector (Collectors).  Between  *)
(* two actions of a session any other session may step.  The rows hold     *)
(* committed data only: a transaction's own writes appear at its commit,   *)
(* and the locks it holds until then are explicit.  Abort stands for every *)
(* way a transaction ends without committing: an error, a cancelled        *)
(* request, a deadlock victim, a dead process.                             *)
(*                                                                         *)
(* The GC's write barrier compares a row with the current run's started_at *)
(* and snapshot.  Only the outcomes of the two comparisons matter, so the  *)
(* model keeps the sets of rows that pass each.                            *)
(***************************************************************************)
EXTENDS Integers, FiniteSets

CONSTANTS
    Keys,        \* object names: (backend, namespace, key)
    Mutable,     \* the keys of overwritable namespaces (/ac/, sccache, tags)
    Digests,     \* content addresses; numbers, as locks are taken in digest order
    Clients,     \* sessions that serve requests
    Collectors,  \* sessions that belong to the garbage collector
    PublishAtSync,  \* the S3 store: Writer.Sync publishes; Local does in Commit
    None         \* no digest, or no session

Sessions == Clients \cup Collectors

ASSUME ConstantsAssumption ==
    /\ IsFiniteSet(Keys)
    /\ Mutable \subseteq Keys
    /\ Digests \subseteq Nat
    /\ Keys \cap Digests = {}
    /\ Clients \cap Collectors = {}
    /\ PublishAtSync \in BOOLEAN
    /\ None \notin Digests \cup Sessions

VARIABLES
    names,          \* cache_objects: key -> digest, None when there is no row
    state,          \* blobs.state, "absent" when there is no row
    refcount,       \* blobs.refcount
    bytes,          \* the digests whose bytes are in storage.Store
    createdBefore,  \* rows with created_at < gc_run.started_at
    visible,        \* rows whose live_xid is visible in gc_run.snapshot
    op,             \* what each session is doing, "none" when idle
    pc,             \* its next step
    digest,         \* the digest it puts or reaps
    keys,           \* the keys it has yet to write or delete
    todo,           \* the digests a sweep has yet to lock
    wrote,          \* the object rows its transaction has written or deleted
    old,            \* the OLD digest of each of those rows
    begunBefore,    \* sessions whose transaction began before the run started
    digestLock,     \* pg_advisory_xact_lock(bakery_blob_lock_key(digest))
    rowLock,        \* the row lock of a blobs row
    objectLock      \* the row lock of a cache_objects row

rows == <<names, state, refcount, createdBefore, visible>>
session == <<op, pc, digest, keys, todo, wrote, old>>
locks == <<digestLock, rowLock, objectLock>>
vars == <<rows, bytes, session, begunBefore, locks>>

Ops == {"none", "put", "delete", "sweep", "reap"}
PCs == {"idle", "lock", "probe", "upload", "prelock", "object", "trigger",
        "unlink", "commit"}

NoOld == [k \in Keys |-> None]

Init ==
    /\ names = [k \in Keys |-> None]
    /\ state = [d \in Digests |-> "absent"]
    /\ refcount = [d \in Digests |-> 0]
    /\ bytes = {}
    /\ createdBefore = {}
    /\ visible = {}
    /\ op = [s \in Sessions |-> "none"]
    /\ pc = [s \in Sessions |-> "idle"]
    /\ digest = [s \in Sessions |-> None]
    /\ keys = [s \in Sessions |-> {}]
    /\ todo = [s \in Sessions |-> {}]
    /\ wrote = [s \in Sessions |-> {}]
    /\ old = [s \in Sessions |-> NoOld]
    /\ begunBefore = {}
    /\ digestLock = [d \in Digests |-> None]
    /\ rowLock = [d \in Digests |-> None]
    /\ objectLock = [k \in Keys |-> None]

-----------------------------------------------------------------------------
(* Helpers *)

\* The blobs rows the refcount trigger updates for the OLD rows of a session.
OldDigests(s) == {old[s][k] : k \in wrote[s]} \ {None}

\* The references to d that a session's OLD rows give up.
Dropped(s, d) == {k \in wrote[s] : old[s][k] = d}

\* Mutant: the documented timestamp barrier alone.
PassesBarrier_TimestampOnly(r) == r \in createdBefore

\* Both halves of the write barrier, for a cache_objects or a blobs row.
PassesBarrier(r) == r \in createdBefore /\ r \in visible

\* A PUT revived a listed blob, or another reap removed it.
Revived(d) == ~(state[d] = "pending_delete" /\ refcount[d] = 0)

\* A session at a step of a transaction.
At(s, o, p) == op[s] = o /\ pc[s] = p

Goto(s, p) ==
    /\ pc' = [pc EXCEPT ![s] = p]
    /\ UNCHANGED <<op, digest, keys, todo, wrote, old>>

\* An idle session starts a transaction.
Begin(s, o, p, d, ks, ds) ==
    /\ op[s] = "none"
    /\ op' = [op EXCEPT ![s] = o]
    /\ pc' = [pc EXCEPT ![s] = p]
    /\ digest' = [digest EXCEPT ![s] = d]
    /\ keys' = [keys EXCEPT ![s] = ks]
    /\ todo' = [todo EXCEPT ![s] = ds]
    /\ UNCHANGED <<rows, wrote, old, begunBefore, locks>>

\* The end of a transaction, committed or not, releases every lock it holds.
EndTx(s) ==
    /\ op' = [op EXCEPT ![s] = "none"]
    /\ pc' = [pc EXCEPT ![s] = "idle"]
    /\ digest' = [digest EXCEPT ![s] = None]
    /\ keys' = [keys EXCEPT ![s] = {}]
    /\ todo' = [todo EXCEPT ![s] = {}]
    /\ wrote' = [wrote EXCEPT ![s] = {}]
    /\ old' = [old EXCEPT ![s] = NoOld]
    /\ begunBefore' = begunBefore \ {s}
    /\ digestLock' = [d \in Digests |-> IF digestLock[d] = s THEN None ELSE digestLock[d]]
    /\ rowLock' = [d \in Digests |-> IF rowLock[d] = s THEN None ELSE rowLock[d]]
    /\ objectLock' = [k \in Keys |-> IF objectLock[k] = s THEN None ELSE objectLock[k]]

\* A row written by this transaction: created_at is its start (now() is the
\* transaction's start), live_xid its own id, invisible in any earlier snapshot.
Stamp(s, written) ==
    /\ createdBefore' = IF s \in begunBefore THEN createdBefore \cup written
                                             ELSE createdBefore \ written
    /\ visible' = visible \ written

-----------------------------------------------------------------------------
(* Put *)

\* The bytes are staged, hashed, verified and synced, which the S3 store does by
\* copying them to the content address, under no lock; the transaction begins.
PutBegin(s, k, d) ==
    /\ Begin(s, "put", "lock", d, {k}, {})
    /\ bytes' = IF PublishAtSync THEN bytes \cup {d} ELSE bytes

\* The first statement of both Put and ReapDigest.
LockBlobDigest(s) ==
    /\ pc[s] = "lock"
    /\ digestLock[digest[s]] = None
    /\ digestLock' = [digestLock EXCEPT ![digest[s]] = s]
    /\ Goto(s, "probe")
    /\ UNCHANGED <<rows, bytes, begunBefore, rowLock, objectLock>>

\* Mutant: any row, a tombstone too, elides the upload.
GetBlobForWrite_TrustsTombstone(s) ==
    /\ At(s, "put", "probe")
    /\ \/ /\ state[digest[s]] = "absent"
          /\ Goto(s, "upload")
          /\ UNCHANGED rowLock
       \/ /\ state[digest[s]] # "absent"
          /\ rowLock[digest[s]] = None
          /\ rowLock' = [rowLock EXCEPT ![digest[s]] = s]
          /\ Goto(s, "object")
    /\ UNCHANGED <<rows, bytes, begunBefore, digestLock, objectLock>>

\* SELECT ... FOR UPDATE: no row locks nothing; only a live row elides the upload.
GetBlobForWrite(s) ==
    /\ At(s, "put", "probe")
    /\ \/ /\ state[digest[s]] = "absent"
          /\ Goto(s, "upload")
          /\ UNCHANGED rowLock
       \/ /\ state[digest[s]] # "absent"
          /\ rowLock[digest[s]] = None
          /\ rowLock' = [rowLock EXCEPT ![digest[s]] = s]
          /\ Goto(s, IF state[digest[s]] = "live" THEN "object" ELSE "upload")
    /\ UNCHANGED <<rows, bytes, begunBefore, digestLock, objectLock>>

\* Mutant: the S3 store's Commit trusts what Sync published.
CommitBytes_TrustsSync(s) ==
    /\ At(s, "put", "upload")
    /\ bytes' = IF PublishAtSync THEN bytes ELSE bytes \cup {digest[s]}
    /\ Goto(s, "object")
    /\ UNCHANGED <<rows, begunBefore, locks>>

\* Writer.Commit: the staged bytes get their name at once, whatever becomes of
\* the transaction around them.  The S3 store heads the address and copies the
\* staged bytes there again when a reap removed what Sync published.
CommitBytes(s) ==
    /\ At(s, "put", "upload")
    /\ bytes' = bytes \cup {digest[s]}
    /\ Goto(s, "object")
    /\ UNCHANGED <<rows, begunBefore, locks>>

\* The upsert writes key k over the row it finds; a change of digest leaves the
\* trigger's row locks to take.
WriteObject(s, k) ==
    /\ objectLock' = [objectLock EXCEPT ![k] = s]
    /\ wrote' = [wrote EXCEPT ![s] = {k}]
    /\ old' = [old EXCEPT ![s] = [NoOld EXCEPT ![k] = names[k]]]
    /\ pc' = [pc EXCEPT ![s] = IF names[k] \in {None, digest[s]} THEN "commit" ELSE "trigger"]
    /\ UNCHANGED <<op, digest, keys, todo>>

\* Mutant: the upsert reads the old row without waiting for its lock.
PutObject_NoWait(s) ==
    /\ At(s, "put", "object")
    /\ \E k \in keys[s] :
        /\ rowLock' = [rowLock EXCEPT ![digest[s]] = s]
        /\ WriteObject(s, k)
    /\ UNCHANGED <<rows, bytes, begunBefore, digestLock>>

\* Mutant: an immutable key is overwritten as a mutable one is.
PutObject_AlwaysOverwrites(s) ==
    /\ At(s, "put", "object")
    /\ \E k \in keys[s] :
        /\ objectLock[k] = None
        /\ rowLock' = [rowLock EXCEPT ![digest[s]] = s]
        /\ WriteObject(s, k)
    /\ UNCHANGED <<rows, bytes, begunBefore, digestLock>>

\* CreateOrReviveBlob, then the upsert.  An immutable key that has a row is left
\* alone (DO NOTHING).
PutObject(s) ==
    /\ At(s, "put", "object")
    /\ \E k \in keys[s] :
        /\ objectLock[k] = None
        /\ rowLock' = [rowLock EXCEPT ![digest[s]] = s]
        /\ \/ /\ k \notin Mutable /\ names[k] # None
              /\ Goto(s, "commit")
              /\ UNCHANGED objectLock
           \/ /\ k \in Mutable \/ names[k] = None
              /\ WriteObject(s, k)
    /\ UNCHANGED <<rows, bytes, begunBefore, digestLock>>

\* The trigger's UPDATE branch locks OLD and NEW in digest order; NEW is held
\* already, so only OLD can block.
LockReplaced(s) ==
    /\ At(s, "put", "trigger")
    /\ \E d \in OldDigests(s) :
        /\ rowLock[d] = None
        /\ rowLock' = [rowLock EXCEPT ![d] = s]
    /\ Goto(s, "commit")
    /\ UNCHANGED <<rows, bytes, begunBefore, digestLock, objectLock>>

\* The commit makes the blob live and, when the object row was written, moves one
\* reference from the OLD digest to the new one.
PutCommit(s) ==
    LET d == digest[s] IN
    /\ At(s, "put", "commit")
    /\ state' = [state EXCEPT ![d] = "live"]
    /\ names' = [k \in Keys |-> IF k \in wrote[s] THEN d ELSE names[k]]
    /\ refcount' = [e \in Digests |-> refcount[e] - Cardinality(Dropped(s, e))
                                      + IF e = d THEN Cardinality(wrote[s]) ELSE 0]
    /\ Stamp(s, wrote[s] \cup {d})
    /\ EndTx(s)
    /\ UNCHANGED bytes

-----------------------------------------------------------------------------
(* Delete and DeleteBatch: one DELETE statement and its row triggers *)

\* Service.Delete: one key, no barrier, no lock before the row's own.
DeleteBegin(s, k) == Begin(s, "delete", "object", None, {k}, {}) /\ UNCHANGED bytes

\* Mutant: the batch delete relies on its own ORDER BY and takes no locks first.
SweepBegin_NoPrelock(s, page) ==
    /\ page # {}
    /\ \A k \in page : names[k] # None /\ PassesBarrier(k)
    /\ Begin(s, "sweep", "object", None, page, {})
    /\ UNCHANGED bytes

\* The GC scanned a page of sweepable rows; DeleteBatch will lock the digests the
\* scan saw.
SweepBegin(s, page) ==
    /\ page # {}
    /\ \A k \in page : names[k] # None /\ PassesBarrier(k)
    /\ Begin(s, "sweep", "prelock", None, page, {names[k] : k \in page})
    /\ UNCHANGED bytes

\* LockBlobDigests: ORDER BY digest FOR NO KEY UPDATE; a digest without a row
\* locks nothing.
LockBlobDigests(s) ==
    /\ At(s, "sweep", "prelock")
    /\ \E d \in todo[s] :
        /\ \A e \in todo[s] : d <= e
        /\ \/ state[d] = "absent" /\ UNCHANGED rowLock
           \/ /\ state[d] # "absent"
              /\ rowLock[d] = None
              /\ rowLock' = [rowLock EXCEPT ![d] = s]
        /\ todo' = [todo EXCEPT ![s] = @ \ {d}]
        /\ pc' = [pc EXCEPT ![s] = IF todo[s] = {d} THEN "object" ELSE "prelock"]
    /\ UNCHANGED <<rows, bytes, op, digest, keys, wrote, old, begunBefore, digestLock, objectLock>>

\* Mutant: the DELETE takes the row it read, without waiting for its lock.
DeleteRow_NoWait(s, k) ==
    /\ op[s] \in {"delete", "sweep"} /\ pc[s] = "object"
    /\ k \in keys[s]
    /\ keys' = [keys EXCEPT ![s] = @ \ {k}]
    /\ objectLock' = [objectLock EXCEPT ![k] = s]
    /\ wrote' = [wrote EXCEPT ![s] = @ \cup {k}]
    /\ old' = [old EXCEPT ![s] = [@ EXCEPT ![k] = names[k]]]
    /\ UNCHANGED <<rows, bytes, op, pc, digest, todo, begunBefore, digestLock, rowLock>>

\* The DELETE reaches one row of its set.  It waits for the row's lock and checks
\* its predicate again on the version it finds: a sweep spares a row that no
\* longer passes the barrier.
DeleteRow(s, k) ==
    /\ op[s] \in {"delete", "sweep"} /\ pc[s] = "object"
    /\ k \in keys[s]
    /\ objectLock[k] = None
    /\ keys' = [keys EXCEPT ![s] = @ \ {k}]
    /\ IF names[k] # None /\ (op[s] = "sweep" => PassesBarrier(k))
       THEN /\ objectLock' = [objectLock EXCEPT ![k] = s]
            /\ wrote' = [wrote EXCEPT ![s] = @ \cup {k}]
            /\ old' = [old EXCEPT ![s] = [@ EXCEPT ![k] = names[k]]]
       ELSE UNCHANGED <<objectLock, wrote, old>>
    /\ UNCHANGED <<rows, bytes, op, pc, digest, todo, begunBefore, digestLock, rowLock>>

\* The trigger's DELETE branch updates the OLD digest's blobs row.
LockDeleted(s, d) ==
    /\ op[s] \in {"delete", "sweep"} /\ pc[s] = "object" /\ keys[s] = {}
    /\ d \in OldDigests(s)
    /\ rowLock[d] = None
    /\ rowLock' = [rowLock EXCEPT ![d] = s]
    /\ UNCHANGED <<rows, bytes, session, begunBefore, digestLock, objectLock>>

DeleteCommit(s) ==
    /\ op[s] \in {"delete", "sweep"} /\ pc[s] = "object" /\ keys[s] = {}
    /\ \A d \in OldDigests(s) : rowLock[d] = s
    /\ names' = [k \in Keys |-> IF k \in wrote[s] THEN None ELSE names[k]]
    /\ refcount' = [d \in Digests |-> refcount[d] - Cardinality(Dropped(s, d))]
    /\ createdBefore' = createdBefore \ wrote[s]
    /\ visible' = visible \ wrote[s]
    /\ EndTx(s)
    /\ UNCHANGED <<state, bytes>>

-----------------------------------------------------------------------------
(* The garbage collector *)

\* StartGCRun stamps started_at and the snapshot: every committed row passes both
\* comparisons, every transaction in flight began before it.  One run at a time,
\* so no batch of an earlier run is in flight.
StartRun ==
    /\ \A s \in Sessions : op[s] # "sweep"
    /\ createdBefore' = {k \in Keys : names[k] # None} \cup
                        {d \in Digests : state[d] # "absent"}
    /\ visible' = createdBefore'
    /\ begunBefore' = {s \in Sessions : op[s] # "none"}
    /\ UNCHANGED <<names, state, refcount, bytes, session, locks>>

\* MarkBlobsPendingDelete, one candidate.  SKIP LOCKED passes over a locked row.
\* The grace period may be zero, so no waiting is assumed.
MarkBlobPendingDelete(d) ==
    /\ state[d] = "live"
    /\ refcount[d] = 0
    /\ PassesBarrier(d)
    /\ rowLock[d] = None
    /\ state' = [state EXCEPT ![d] = "pending_delete"]
    /\ UNCHANGED <<names, refcount, bytes, createdBefore, visible, session, begunBefore, locks>>

\* ListPendingDeleteBlobs handed this digest to ReapDigest.
ReapBegin(s, d) ==
    /\ state[d] = "pending_delete"
    /\ Begin(s, "reap", "lock", d, {}, {})
    /\ UNCHANGED bytes

\* Mutant: the digest listed as pending is unlinked without a second look.
GetBlobForPhysicalDelete_NoRecheck(s) ==
    /\ At(s, "reap", "probe")
    /\ rowLock[digest[s]] = None
    /\ rowLock' = [rowLock EXCEPT ![digest[s]] = s]
    /\ Goto(s, "unlink")
    /\ UNCHANGED <<rows, bytes, begunBefore, digestLock, objectLock>>

\* The recheck under the digest lock.  No row that is pending and unreferenced
\* means a PUT revived it: roll back, unlink nothing.
GetBlobForPhysicalDelete(s) ==
    LET d == digest[s] IN
    /\ At(s, "reap", "probe")
    /\ \/ /\ ~Revived(d)
          /\ rowLock[d] = None
          /\ rowLock' = [rowLock EXCEPT ![d] = s]
          /\ Goto(s, "unlink")
          /\ UNCHANGED <<begunBefore, digestLock, objectLock>>
       \/ Revived(d) /\ EndTx(s)
    /\ UNCHANGED <<rows, bytes>>

\* Mutant: deleting bytes that are already gone is an error.
Unlink_NotIdempotent(s) ==
    /\ At(s, "reap", "unlink")
    /\ digest[s] \in bytes
    /\ bytes' = bytes \ {digest[s]}
    /\ Goto(s, "commit")
    /\ UNCHANGED <<rows, begunBefore, locks>>

\* storage.Delete, inside the transaction and irrevocable.
Unlink(s) ==
    /\ At(s, "reap", "unlink")
    /\ bytes' = bytes \ {digest[s]}
    /\ Goto(s, "commit")
    /\ UNCHANGED <<rows, begunBefore, locks>>

\* ReapBlob and the commit.  ON DELETE RESTRICT refuses a row an object names.
ReapCommit(s) ==
    LET d == digest[s] IN
    /\ At(s, "reap", "commit")
    /\ \A k \in Keys : names[k] # d
    /\ state' = [state EXCEPT ![d] = "absent"]
    /\ createdBefore' = createdBefore \ {d}
    /\ visible' = visible \ {d}
    /\ EndTx(s)
    /\ UNCHANGED <<names, refcount, bytes>>

\* Any transaction may end without committing, at any step.
Abort(s) ==
    /\ op[s] # "none"
    /\ EndTx(s)
    /\ UNCHANGED <<rows, bytes>>

-----------------------------------------------------------------------------
PutStep(s) ==
    \/ GetBlobForWrite(s)
    \/ CommitBytes(s)
    \/ PutObject(s)
    \/ LockReplaced(s)
    \/ PutCommit(s)

DeleteStep(s) ==
    \/ LockBlobDigests(s)
    \/ \E k \in Keys : DeleteRow(s, k)
    \/ \E d \in Digests : LockDeleted(s, d)
    \/ DeleteCommit(s)

ReapStep(s) ==
    \/ GetBlobForPhysicalDelete(s)
    \/ Unlink(s)
    \/ ReapCommit(s)

Step(s) == LockBlobDigest(s) \/ PutStep(s) \/ DeleteStep(s) \/ ReapStep(s)

ClientBegin(s) ==
    \/ \E k \in Keys, d \in Digests : PutBegin(s, k, d)
    \/ \E k \in Keys : DeleteBegin(s, k)

CollectorBegin(s) ==
    \/ \E page \in SUBSET Keys : SweepBegin(s, page)
    \/ \E d \in Digests : ReapBegin(s, d)

Next ==
    \/ \E s \in Clients : ClientBegin(s)
    \/ \E s \in Collectors : CollectorBegin(s)
    \/ \E s \in Sessions : Step(s) \/ Abort(s)
    \/ \E d \in Digests : MarkBlobPendingDelete(d)
    \/ StartRun

Spec == Init /\ [][Next]_vars

\* A collector's transaction fails, as opposed to rolling back a revived digest.
Fault(s) == Abort(s) /\ ~(At(s, "reap", "probe") /\ Revived(digest[s]))

\* No request's transaction stays open for ever (requests carry deadlines, and the
\* database breaks a deadlock); the lock queues are first come first served, so a
\* collector that waits is served; runs recur, and each marks and reaps what it
\* finds; the collector's own transactions do not fail for ever.
Fairness ==
    /\ \A s \in Clients : WF_vars(Step(s) \/ Abort(s))
    /\ \A s \in Collectors : SF_vars(Step(s))
    /\ SF_vars(StartRun)
    /\ \A d \in Digests :
        /\ SF_vars(MarkBlobPendingDelete(d))
        /\ \A s \in Collectors : SF_vars(ReapBegin(s, d))
    /\ <>[][\A s \in Collectors : ~Fault(s)]_vars

FairSpec == Spec /\ Fairness

-----------------------------------------------------------------------------
(* Properties *)

\* The type of every variable.
TypeOK ==
    /\ names \in [Keys -> Digests \cup {None}]
    /\ state \in [Digests -> {"absent", "live", "pending_delete"}]
    /\ refcount \in [Digests -> Nat]
    /\ bytes \subseteq Digests
    /\ createdBefore \subseteq Keys \cup Digests
    /\ visible \subseteq Keys \cup Digests
    /\ op \in [Sessions -> Ops]
    /\ pc \in [Sessions -> PCs]
    /\ digest \in [Sessions -> Digests \cup {None}]
    /\ keys \in [Sessions -> SUBSET Keys]
    /\ todo \in [Sessions -> SUBSET Digests]
    /\ wrote \in [Sessions -> SUBSET Keys]
    /\ old \in [Sessions -> [Keys -> Digests \cup {None}]]
    /\ begunBefore \subseteq Sessions
    /\ digestLock \in [Digests -> Sessions \cup {None}]
    /\ rowLock \in [Digests -> Sessions \cup {None}]
    /\ objectLock \in [Keys -> Sessions \cup {None}]

\* 'live' means the bytes are durably in storage: the fact a deduplicating Put
\* relies on when it elides its upload, whatever reaps, failed reaps and revivals
\* came before it.
LiveHasBytes == \A d \in Digests : state[d] = "live" => d \in bytes

\* No object row ever names content that cannot be read (Get's
\* ErrDanglingMetadata, a permanent 500), at any step of any Put, Delete, sweep
\* or reap, or after any of them fails half way.
NoDanglingMetadata ==
    \A k \in Keys : names[k] # None => state[names[k]] = "live" /\ names[k] \in bytes

\* The trigger's arithmetic: the refcount of a blob is the number of object rows
\* that name it, under concurrent overwrites, deletes and batch deletes.
RefcountExact == \A d \in Digests : refcount[d] = Cardinality({k \in Keys : names[k] = d})

\* The write barrier: the collector never deletes an object row, nor condemns a
\* blob, that a transaction committed after the current run started, even one that
\* began before it.
FreshRowsSurviveTheRun ==
    [][/\ \A k \in Keys : names[k] # None /\ names'[k] = None /\ k \notin visible
             => \E s \in Clients : At(s, "delete", "object") /\ op'[s] = "none"
       /\ \A d \in Digests : d \notin visible => ~(state[d] = "live" /\ state'[d] = "pending_delete")
      ]_vars

\* The sessions that hold what s asks for next.
WaitsFor(s) ==
    LET wanted ==
            CASE pc[s] = "lock" -> {digestLock[digest[s]]}
              [] pc[s] = "probe" -> {rowLock[digest[s]]}
              [] pc[s] = "prelock" -> {rowLock[d] : d \in {d \in todo[s] :
                                                 \A e \in todo[s] : d <= e}}
              [] pc[s] = "object" /\ keys[s] # {} ->
                                          {objectLock[k] : k \in keys[s]}
              [] pc[s] = "trigger" \/ (pc[s] = "object" /\ keys[s] = {}) ->
                                          {rowLock[d] : d \in OldDigests(s)}
              [] OTHER -> {}
    IN  wanted \ {None, s}

\* Every session of S waits for another one of S.
Deadlocked(S) == S # {} /\ \A s \in S : WaitsFor(s) \cap S # {}

\* Writes of immutable keys, batch deletes and reaps never wait for one another
\* in a cycle: DeleteBatch takes the blobs rows before the object rows, as Put
\* does, so a re-PUT of a key that is being swept only waits.
ImmutableTrafficDeadlockFree ==
    LET calm == {s \in Sessions : \/ op[s] \in {"sweep", "reap"}
                                  \/ op[s] = "put" /\ keys[s] \cap Mutable = {}}
    IN  \A S \in SUBSET calm : ~Deadlocked(S)

Wanted(d) == \E s \in Sessions : op[s] = "put" /\ digest[s] = d

\* A tombstone never sticks: after any number of failed reaps, with the bytes
\* already unlinked or not, it is reaped or revived.
TombstonesResolve ==
    \A d \in Digests : state[d] = "pending_delete" ~> state[d] # "pending_delete"

\* The row of content that nothing names and nobody uploads any more goes away.
UnreferencedRowsReclaimed ==
    \A d \in Digests : <>[](refcount[d] = 0 /\ ~Wanted(d)) => <>[](state[d] = "absent")

\* Why bytes are where the rows say, step by step.  A put or a reap past its first
\* statement owns its digest's advisory lock; a put past its upload, or past the
\* decision to elide it, has its bytes in storage until it ends; a reap that
\* decided to unlink still faces the tombstone it saw.
DigestLockProtects ==
    \A s \in Sessions :
        /\ op[s] \in {"put", "reap"} => digest[s] \in Digests
        /\ op[s] \in {"put", "reap"} /\ pc[s] # "lock"
              => digestLock[digest[s]] = s
        /\ op[s] = "put" /\ pc[s] \in {"object", "trigger", "commit"}
              => digest[s] \in bytes
        /\ op[s] = "reap" /\ pc[s] \in {"unlink", "commit"}
              => state[digest[s]] = "pending_delete"

\* Why the trigger's arithmetic is exact.  The OLD row a statement saw is still the
\* committed one when its transaction ends, because it holds the row's lock; and a
\* put writes its one key only where the namespace allows it.
ObjectLockProtects ==
    \A s \in Sessions : \A k \in wrote[s] :
        /\ objectLock[k] = s
        /\ old[s][k] = names[k]
        /\ \/ op[s] \in {"delete", "sweep"}
           \/ /\ op[s] = "put" /\ pc[s] \in {"trigger", "commit"} /\ keys[s] = {k}
              /\ k \in Mutable \/ names[k] = None

\* A put serves one key.
PutHasOneKey == \A s \in Sessions : op[s] = "put" => \E k \in Keys : keys[s] = {k}

\* The inductive invariant of the protocol.
Inv ==
    /\ TypeOK
    /\ PutHasOneKey
    /\ \A s \in Sessions : pc[s] = "lock" => op[s] \in {"put", "reap"}
    /\ DigestLockProtects
    /\ ObjectLockProtects
    /\ LiveHasBytes
    /\ NoDanglingMetadata
    /\ RefcountExact

Promise == INSTANCE ContentStore WITH available <- bytes

\* The protocol implements the store that ContentStore describes.
ImplementsContentStore == Promise!Spec
=============================================================================
