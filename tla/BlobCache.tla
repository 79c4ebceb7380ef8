----------------------------- MODULE BlobCache -----------------------------
(***************************************************************************)
(* The in-memory half of blob.Service: one shard of the LRU over object    *)
(* metadata (internal/blob/lru.go), the lookups that fill it, the writes   *)
(* that publish to it, and the access toucher that flushes the read marks  *)
(* its entries carry (internal/blob/toucher.go).  The transactions of the  *)
(* writes are BlobStore's; here each is its commit.                        *)
(*                                                                         *)
(* An action is what happens under one acquisition of the shard's mutex,   *)
(* or one statement of the database.  Two counters are kept only as the    *)
(* comparisons the code makes with them.  A lookup compares the shard's    *)
(* write generation with the one it read: `current` holds the keys it may  *)
(* still fill.  A flush compares an entry's stamp with the one it          *)
(* collected: `held` holds the marks that are unchanged since.             *)
(***************************************************************************)
EXTENDS Integers, Sequences, FiniteSets, SequencesExt

CONSTANTS
    Keys,         \* the keys that hash to this shard
    Mutable,      \* the keys of overwritable namespaces
    Digests,      \* content addresses
    Capacity,     \* lruShard.cap
    AuxCapacity,  \* auxShardCap
    Batches,      \* requests that run ExistsBatch
    Writers,      \* requests, and the collector, that write
    Flushers,     \* the ticker's flush and the collector's FlushAccessNow
    Overlap,      \* TRUE when two writes of one key may be in flight at once
    LostAcks,     \* TRUE when a commit may succeed and report an error
    Absent,       \* no row; as an entry, a negative one
    NotCached,    \* no entry
    None          \* no key

\* A lookup: the singleflight of a key, named by the key, or a batch.
Probes == Keys \cup Batches

\* A mark is an unflushed read, stamped on an LRU entry or kept in the aux map.
Marks == {"lru", "aux"} \X Keys

CacheAssumption ==
    /\ IsFiniteSet(Keys)
    /\ Mutable \subseteq Keys
    /\ Capacity \in Nat \ {0}
    /\ AuxCapacity \in Nat
    /\ Keys \cap Batches = {}
    /\ Overlap \in BOOLEAN /\ LostAcks \in BOOLEAN
    /\ Absent \notin Digests /\ NotCached \notin Digests \cup {Absent}
    /\ None \notin Keys

ASSUME CacheConstants == CacheAssumption

VARIABLES
    rows,      \* cache_objects: key -> digest or Absent
    lru,       \* lruShard.ll, most recently used first
    meta,      \* lruShard.m: key -> digest, Absent or NotCached
    marks,     \* entries with markedAt # 0, and the aux map
    marked,    \* lruShard.marked
    todo,      \* per lookup: keys not yet looked up in the LRU
    missed,    \* per lookup: the key that missed and whose generation comes next
    ask,       \* per lookup: keys to query, then to fill
    current,   \* per lookup: keys of ask whose generation has not moved since
    found,     \* per lookup: what the query answered, NotCached before it
    writing,   \* per writer: keys committed but not yet published
    publish,   \* per writer: the entry to publish, NotCached to drop it
    flush,     \* per flusher: keys not yet written to accessed_at
    held,      \* per flusher: collected marks that still carry the same stamp
    unsaved    \* history: marks of reads that accessed_at does not cover

cache == <<lru, meta, marks, marked>>
lookups == <<todo, missed, ask, current, found>>
writes == <<writing, publish>>
flushes == <<flush, held>>
vars == <<rows, cache, lookups, writes, flushes, unsaved>>

NoAnswer == [k \in Keys |-> NotCached]

Init ==
    /\ rows \in [Keys -> Digests \cup {Absent}]
    /\ lru = <<>>
    /\ meta = [k \in Keys |-> NotCached]
    /\ marks = {}
    /\ marked = 0
    /\ todo = [p \in Probes |-> {}]
    /\ missed = [p \in Probes |-> None]
    /\ ask = [p \in Probes |-> {}]
    /\ current = [p \in Probes |-> {}]
    /\ found = [p \in Probes |-> NoAnswer]
    /\ writing = [w \in Writers |-> {}]
    /\ publish = [w \in Writers |-> NotCached]
    /\ flush = [f \in Flushers |-> {}]
    /\ held = [f \in Flushers |-> {}]
    /\ unsaved = {}

-----------------------------------------------------------------------------
(* The shard *)

Cached(k) == meta[k] # NotCached

LruMarks == {m \in marks : m[1] = "lru"}

MoveToFront(k) == <<k>> \o SelectSeq(lru, LAMBDA j : j # k)

\* Marks that go away are no longer the ones a flush collected.
Forget(gone) ==
    /\ held' = [f \in Flushers |-> held[f] \ gone]
    /\ unsaved' = unsaved \ gone

\* A flush has written this mark's key to accessed_at and has yet to clear it: a
\* read in between is folded into the write.
BeingCleared(m) == \E f \in Flushers : m \in held[f] /\ m[2] \notin flush[f]

\* A read is recorded under mark m.
Record(m, dropped) ==
    /\ held' = [f \in Flushers |-> held[f] \ dropped]
    /\ unsaved' = (unsaved \ dropped) \cup (IF BeingCleared(m) THEN {} ELSE {m})

\* lruCache.get on an entry: a positive one is marked unless it is already.
Hit(k) ==
    LET m == <<"lru", k>>
    IN  /\ Cached(k)
        /\ lru' = MoveToFront(k)
        /\ IF meta[k] # Absent
           THEN /\ marks' = marks \cup {m}
                /\ marked' = marked + IF m \in marks THEN 0 ELSE 1
                /\ Record(m, {})
           ELSE UNCHANGED <<marks, marked, held, unsaved>>
        /\ UNCHANGED <<rows, meta, flush>>

\* Mutant: the count of marks does not follow an evicted entry out.
InsertLocked_MiscountsEviction(k, e, isRead) ==
    LET grown == MoveToFront(k)
        victims == IF Len(grown) > Capacity THEN {Last(grown)} ELSE {}
        m == <<"lru", k>>
        dropped == marks \cap ({"lru"} \X victims)
    IN  /\ lru' = SelectSeq(grown, LAMBDA j : j \notin victims)
        /\ meta' = [j \in Keys |-> IF j \in victims THEN NotCached
                                   ELSE IF j = k THEN e ELSE meta[j]]
        /\ marks' = (marks \ dropped) \cup (IF isRead THEN {m} ELSE {})
        /\ marked' = marked + IF isRead /\ m \notin marks THEN 1 ELSE 0
        /\ IF isRead THEN Record(m, dropped) ELSE Forget(dropped)

\* insertLocked: insert or refresh an entry, and evict the tail over capacity.
\* An existing stamp is kept, whatever the new entry says.
InsertLocked(k, e, isRead) ==
    LET grown == MoveToFront(k)
        victims == IF Len(grown) > Capacity THEN {Last(grown)} ELSE {}
        m == <<"lru", k>>
        dropped == marks \cap ({"lru"} \X victims)
    IN  /\ lru' = SelectSeq(grown, LAMBDA j : j \notin victims)
        /\ meta' = [j \in Keys |-> IF j \in victims THEN NotCached
                                   ELSE IF j = k THEN e ELSE meta[j]]
        /\ marks' = (marks \ dropped) \cup (IF isRead THEN {m} ELSE {})
        /\ marked' = marked - Cardinality(dropped)
                     + IF isRead /\ m \notin marks THEN 1 ELSE 0
        /\ IF isRead THEN Record(m, dropped) ELSE Forget(dropped)

\* Every authoritative write moves the generation: no lookup in flight may fill.
Bump == current' = [p \in Probes |-> {}]

\* lruCache.put.
PutEntry(k, e) == Bump /\ InsertLocked(k, e, FALSE)

\* Mutant: the generation moves only when there is an entry to remove.
DelEntries_BumpsIfCached(ks) ==
    LET dropped == marks \cap ({"lru"} \X ks)
    IN  /\ IF \E k \in ks : Cached(k) THEN Bump ELSE UNCHANGED current
        /\ lru' = SelectSeq(lru, LAMBDA j : j \notin ks)
        /\ meta' = [j \in Keys |-> IF j \in ks THEN NotCached ELSE meta[j]]
        /\ marks' = marks \ dropped
        /\ marked' = marked - Cardinality(dropped)
        /\ Forget(dropped)

\* Mutant: the entries leave the map and not the list.
DelEntries_KeepsList(ks) ==
    LET dropped == marks \cap ({"lru"} \X ks)
    IN  /\ Bump
        /\ meta' = [j \in Keys |-> IF j \in ks THEN NotCached ELSE meta[j]]
        /\ marks' = marks \ dropped
        /\ marked' = marked - Cardinality(dropped)
        /\ Forget(dropped)
        /\ UNCHANGED lru

\* Mutant: every dropped entry is counted as a marked one.
DelEntries_Miscounts(ks) ==
    LET dropped == marks \cap ({"lru"} \X ks)
    IN  /\ Bump
        /\ lru' = SelectSeq(lru, LAMBDA j : j \notin ks)
        /\ meta' = [j \in Keys |-> IF j \in ks THEN NotCached ELSE meta[j]]
        /\ marks' = marks \ dropped
        /\ marked' = marked - Cardinality({k \in ks : Cached(k)})
        /\ Forget(dropped)

\* lruCache.del of one key and delBatch of several, which moves the generation once.
DelEntries(ks) ==
    LET dropped == marks \cap ({"lru"} \X ks)
    IN  /\ Bump
        /\ lru' = SelectSeq(lru, LAMBDA j : j \notin ks)
        /\ meta' = [j \in Keys |-> IF j \in ks THEN NotCached ELSE meta[j]]
        /\ marks' = marks \ dropped
        /\ marked' = marked - Cardinality(dropped)
        /\ Forget(dropped)

-----------------------------------------------------------------------------
(* Lookups: stat through a singleflight, ExistsBatch without one *)

Idle(p) == todo[p] = {} /\ missed[p] = None /\ ask[p] = {}

Answered(p) == found[p] # NoAnswer

StatHit(k) == Hit(k) /\ UNCHANGED <<lookups, writes>>

\* A miss starts the key's flight; a miss while one is in progress joins it.
StatMiss(k) ==
    /\ ~Cached(k)
    /\ Idle(k)
    /\ missed' = [missed EXCEPT ![k] = k]
    /\ UNCHANGED <<rows, cache, todo, ask, current, found, writes, flushes, unsaved>>

BatchBegin(b, ks) ==
    /\ Idle(b)
    /\ ks # {}
    /\ todo' = [todo EXCEPT ![b] = ks]
    /\ UNCHANGED <<rows, cache, missed, ask, current, found, writes, flushes, unsaved>>

\* The batch looks one of its keys up in the LRU.
BatchGet(b, k) ==
    /\ k \in todo[b] /\ missed[b] = None
    /\ todo' = [todo EXCEPT ![b] = @ \ {k}]
    /\ \/ Hit(k) /\ UNCHANGED missed
       \/ /\ ~Cached(k)
          /\ missed' = [missed EXCEPT ![b] = k]
          /\ UNCHANGED <<rows, cache, flushes, unsaved>>
    /\ UNCHANGED <<ask, current, found, writes>>

\* lruCache.seq, before the query.
ReadSeq(p) ==
    /\ missed[p] # None
    /\ ask' = [ask EXCEPT ![p] = @ \cup {missed[p]}]
    /\ current' = [current EXCEPT ![p] = @ \cup {missed[p]}]
    /\ missed' = [missed EXCEPT ![p] = None]
    /\ UNCHANGED <<rows, cache, todo, found, writes, flushes, unsaved>>

\* queryObject, or the one StatObjectsBatch of the batch.
Query(p) ==
    /\ ask[p] # {} /\ todo[p] = {} /\ missed[p] = None /\ ~Answered(p)
    /\ found' = [found EXCEPT ![p] = [k \in Keys |-> IF k \in ask[p] THEN rows[k] ELSE NotCached]]
    /\ UNCHANGED <<rows, cache, todo, missed, ask, current, writes, flushes, unsaved>>

\* The query fails: the lookup returns its error and fills nothing.
QueryFails(p) ==
    /\ ask[p] # {} /\ todo[p] = {} /\ missed[p] = None /\ ~Answered(p)
    /\ ask' = [ask EXCEPT ![p] = {}]
    /\ current' = [current EXCEPT ![p] = {}]
    /\ UNCHANGED <<rows, cache, todo, missed, found, writes, flushes, unsaved>>

\* putIfUnchanged, for one answer; a batch lands the rows it found first.  A
\* positive fill is a read, and only if it lands.
Fill(p, k) ==
    /\ Answered(p) /\ k \in ask[p]
    /\ found[p][k] = Absent => \A j \in ask[p] : found[p][j] = Absent
    /\ ask' = [ask EXCEPT ![p] = @ \ {k}]
    /\ current' = [current EXCEPT ![p] = @ \ {k}]
    /\ found' = [found EXCEPT ![p] = IF ask[p] = {k} THEN NoAnswer ELSE @]
    /\ \/ k \in current[p] /\ InsertLocked(k, found[p][k], found[p][k] # Absent)
       \/ k \notin current[p] /\ UNCHANGED <<cache, held, unsaved>>
    /\ UNCHANGED <<rows, todo, missed, writes, flush>>

-----------------------------------------------------------------------------
(* Writes: a commit, then the publication of what it did *)

\* The environment: without Overlap no two writes of one key are in flight.
MayWrite(w, ks) ==
    /\ writing[w] = {}
    /\ Overlap \/ \A v \in Writers : writing[v] \cap ks = {}

Commit(w, ks, e) ==
    /\ MayWrite(w, ks)
    /\ writing' = [writing EXCEPT ![w] = ks]
    /\ publish' = [publish EXCEPT ![w] = e]
    /\ UNCHANGED <<cache, lookups, flushes, unsaved>>

\* Mutant: the entry asserts the digest just uploaded even when an existing
\* immutable row kept its own.
PutCommitted_AssertsLoser(w, k, d) ==
    \/ /\ k \in Mutable \/ rows[k] = Absent
       /\ rows' = [rows EXCEPT ![k] = d]
       /\ Commit(w, {k}, d)
    \/ /\ k \notin Mutable /\ rows[k] # Absent
       /\ Commit(w, {k}, d)
       /\ UNCHANGED rows

\* Put's transaction commits.  A row it did not create is not the one it
\* describes, so the entry will be dropped.
PutCommitted(w, k, d) ==
    \/ /\ k \in Mutable \/ rows[k] = Absent
       /\ rows' = [rows EXCEPT ![k] = d]
       /\ Commit(w, {k}, d)
    \/ /\ k \notin Mutable /\ rows[k] # Absent
       /\ Commit(w, {k}, NotCached)
       /\ UNCHANGED rows

\* Delete commits and publishes a negative entry, whether there was a row or not.
DeleteCommitted(w, k) ==
    /\ rows' = [rows EXCEPT ![k] = Absent]
    /\ Commit(w, {k}, Absent)

\* Touch moves updated_at of a row that exists; its entry is dropped.
TouchCommitted(w, k) ==
    /\ rows[k] # Absent
    /\ Commit(w, {k}, NotCached)
    /\ UNCHANGED rows

\* DeleteBatch: the write barrier may spare some of the keys; the entries of all
\* of them are dropped.  A sweep by statement (InvalidateKeys) spares none it names.
DeleteBatchCommitted(w, ks, spared) ==
    /\ ks # {} /\ spared \subseteq ks
    /\ rows' = [k \in Keys |-> IF k \in ks \ spared THEN Absent ELSE rows[k]]
    /\ Commit(w, ks, NotCached)

\* The write's last act, after the commit.
Publish(w) ==
    /\ writing[w] # {}
    /\ IF publish[w] = NotCached THEN DelEntries(writing[w])
       ELSE \E k \in writing[w] : PutEntry(k, publish[w])
    /\ writing' = [writing EXCEPT ![w] = {}]
    /\ publish' = [publish EXCEPT ![w] = NotCached]
    /\ UNCHANGED <<rows, todo, missed, ask, found, flush>>

\* tx.Commit returns an error although the server committed (the connection broke
\* on the answer): the write reports failure and publishes nothing.
CommitUnacknowledged(w) ==
    /\ LostAcks
    /\ writing[w] # {}
    /\ writing' = [writing EXCEPT ![w] = {}]
    /\ publish' = [publish EXCEPT ![w] = NotCached]
    /\ UNCHANGED <<rows, cache, lookups, flushes, unsaved>>

-----------------------------------------------------------------------------
(* The access toucher *)

\* A read that bypasses the LRU: the outputs an action result names.  The first
\* mark of a key stands; a full map drops the read.
MarkAccessed(k) ==
    LET m == <<"aux", k>>
        room == Cardinality(marks \ LruMarks) < AuxCapacity
    IN  /\ \/ m \in marks /\ UNCHANGED marks /\ Record(m, {})
           \/ m \notin marks /\ room /\ marks' = marks \cup {m} /\ Record(m, {})
           \/ m \notin marks /\ ~room /\ UNCHANGED <<marks, held, unsaved>>
        /\ UNCHANGED <<rows, lru, meta, marked, lookups, writes, flush>>

\* collectMarks walks from the front and stops at the marked-th marked entry.
CollectMarks ==
    LET order == SelectSeq(lru, LAMBDA k : <<"lru", k>> \in marks)
    IN  {<<"lru", order[i]>> : i \in {i \in DOMAIN order : i <= marked}}

\* flushAccess collects the marks that are old enough, or every one: it clears
\* none of them yet.
Collect(f, young) ==
    LET batch == (CollectMarks \cup (marks \ LruMarks)) \ young
    IN  /\ held[f] = {} /\ flush[f] = {}
        /\ batch # {}
        /\ flush' = [flush EXCEPT ![f] = {m[2] : m \in batch}]
        /\ held' = [held EXCEPT ![f] = batch]
        /\ UNCHANGED <<rows, cache, lookups, writes, unsaved>>

\* One touchChunk commits accessed_at = now().
TouchChunk(f, ks) ==
    /\ ks # {} /\ ks \subseteq flush[f]
    /\ flush' = [flush EXCEPT ![f] = @ \ ks]
    /\ unsaved' = {m \in unsaved : m[2] \notin ks}
    /\ UNCHANGED <<rows, cache, lookups, writes, held>>

\* Mutant: a failed chunk clears what was collected, as a completed flush does.
TouchChunkFails_Clears(f) ==
    /\ flush[f] # {}
    /\ flush' = [flush EXCEPT ![f] = {}]
    /\ held' = [g \in Flushers |-> held[g] \ held[f]]
    /\ marks' = marks \ held[f]
    /\ marked' = marked - Cardinality(held[f] \cap LruMarks)
    /\ UNCHANGED <<rows, lru, meta, lookups, writes, unsaved>>

\* A chunk fails: the flush returns and clears nothing, not even what it wrote.
TouchChunkFails(f) ==
    /\ flush[f] # {}
    /\ flush' = [flush EXCEPT ![f] = {}]
    /\ held' = [held EXCEPT ![f] = {}]
    /\ UNCHANGED <<rows, cache, lookups, writes, unsaved>>

\* clearMarks and auxPending.clear: exactly the marks collected, if unchanged.
Clear(f) ==
    /\ held[f] # {} /\ flush[f] = {}
    /\ marks' = marks \ held[f]
    /\ marked' = marked - Cardinality(held[f] \cap LruMarks)
    /\ held' = [g \in Flushers |-> held[g] \ held[f]]
    /\ UNCHANGED <<rows, lru, meta, lookups, writes, flush, unsaved>>

-----------------------------------------------------------------------------
Lookup ==
    \/ \E k \in Keys : StatHit(k) \/ StatMiss(k)
    \/ \E b \in Batches, ks \in SUBSET Keys : BatchBegin(b, ks)
    \/ \E b \in Batches, k \in Keys : BatchGet(b, k)
    \/ \E p \in Probes : ReadSeq(p) \/ Query(p) \/ QueryFails(p)
    \/ \E p \in Probes, k \in Keys : Fill(p, k)

Write ==
    \/ \E w \in Writers, k \in Keys, d \in Digests : PutCommitted(w, k, d)
    \/ \E w \in Writers, k \in Keys : DeleteCommitted(w, k) \/ TouchCommitted(w, k)
    \/ \E w \in Writers, ks \in SUBSET Keys : \E spared \in SUBSET ks :
            DeleteBatchCommitted(w, ks, spared)
    \/ \E w \in Writers : Publish(w) \/ CommitUnacknowledged(w)

Flush ==
    \/ \E k \in Keys : MarkAccessed(k)
    \/ \E f \in Flushers, young \in SUBSET marks : Collect(f, young)
    \/ \E f \in Flushers, ks \in SUBSET Keys : TouchChunk(f, ks)
    \/ \E f \in Flushers : TouchChunkFails(f) \/ Clear(f)

Next == Lookup \/ Write \/ Flush

Spec == Init /\ [][Next]_vars

-----------------------------------------------------------------------------
(* Properties *)

Answers == Digests \cup {Absent, NotCached}

\* The type of every variable.
CacheTypeOK ==
    /\ rows \in [Keys -> Digests \cup {Absent}]
    /\ lru \in Seq(Keys)
    /\ meta \in [Keys -> Answers]
    /\ marks \subseteq Marks
    /\ marked \in Nat
    /\ todo \in [Probes -> SUBSET Keys]
    /\ missed \in [Probes -> Keys \cup {None}]
    /\ ask \in [Probes -> SUBSET Keys]
    /\ current \in [Probes -> SUBSET Keys]
    /\ found \in [Probes -> [Keys -> Answers]]
    /\ writing \in [Writers -> SUBSET Keys]
    /\ publish \in [Writers -> Answers]
    /\ flush \in [Flushers -> SUBSET Keys]
    /\ held \in [Flushers -> SUBSET Marks]
    /\ unsaved \subseteq Marks

\* The list and the map of the shard hold the same keys, once each, and never more
\* than the capacity, however inserts, evictions, drops and batch drops interleave.
ListMatchesMap ==
    /\ IsInjective(lru)
    /\ Range(lru) = {k \in Keys : Cached(k)}
    /\ Len(lru) <= Capacity

\* lruShard.marked counts the marked entries on every path that makes or destroys
\* one; collectMarks stops its walk at that count, so an undercount loses reads.
MarkedIsExact ==
    /\ marked = Cardinality(LruMarks)
    /\ CollectMarks = LruMarks

\* A read that was marked stays visible to the collector's veto (PendingTouch)
\* until accessed_at has it: a failed flush, or a second flusher that clears late,
\* never loses it.  Only an entry that leaves the cache takes its mark along.
ReadsStayPending == unsaved \subseteq marks

\* A key between the commit of one of its writes and the publication of it.
InFlight(k) == k \in UNION Range(writing)

\* The generation guard: a lookup never installs an answer that the database
\* contradicts, unless a write of that key is about to publish over it.
FillsAreFresh ==
    [][\A p \in DOMAIN ask : \A k \in ask[p] \ ask'[p] :
          meta'[k] \notin {meta[k], NotCached} => meta'[k] = rows[k] \/ InFlight(k)]_vars

\* Once every write of a key has published, its entry is what the database holds:
\* no stale positive serves a digest the row gave up, no stale negative hides an
\* object that exists.
Coherent == \A k \in Keys : ~InFlight(k) => meta[k] \in {NotCached, rows[k]}
=============================================================================
