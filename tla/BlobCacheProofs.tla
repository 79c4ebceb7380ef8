-------------------------- MODULE BlobCacheProofs --------------------------
(***************************************************************************)
(* Proofs about BlobCache, for any keys, capacities, lookups, writers and  *)
(* flushers.                                                               *)
(*                                                                         *)
(* Two arguments.  The toucher's: a mark that a flush collected and has    *)
(* already written out stands for no read that is still unsaved, so its    *)
(* clear, however late, takes nothing with it.  The generation's: an       *)
(* answer that may still be filled is the row, or the row's next write has *)
(* yet to publish; the publication moves the generation.                   *)
(***************************************************************************)
EXTENDS BlobCache, TLAPS

-----------------------------------------------------------------------------
(* The toucher: a read stays pending until accessed_at has it. *)

\* What is unsaved is marked, and no mark that a flush has written out is unsaved.
PendingInv ==
    /\ held = [f \in Flushers |-> held[f]]
    /\ flush = [f \in Flushers |-> flush[f]]
    /\ unsaved \subseteq marks
    /\ \A f \in Flushers : \A m \in held[f] : m[2] \notin flush[f] => m \notin unsaved

\* Dropping marks keeps it.
LEMMA ForgetPending ==
    ASSUME PendingInv, NEW gone, Forget(gone), marks \ gone \subseteq marks',
           flush' = flush
    PROVE  PendingInv'
  BY DEF PendingInv, Forget

\* Recording a read keeps it: either the mark is new to every flush, or the flush that
\* is about to clear it has not stamped accessed_at yet, or the read rides on that stamp.
LEMMA RecordPending ==
    ASSUME PendingInv, NEW m, NEW dropped, Record(m, dropped),
           (marks \ dropped) \cup {m} \subseteq marks', flush' = flush
    PROVE  PendingInv'
  <1>1. held' = [f \in Flushers |-> held'[f]] /\ \A f \in Flushers : held'[f] \subseteq held[f]
    BY DEF Record
  <1>2. unsaved' \subseteq marks'
    BY DEF Record, PendingInv
  <1>3. ASSUME NEW f \in Flushers, NEW n \in held'[f], n[2] \notin flush'[f]
        PROVE  n \notin unsaved'
    <2>1. n \in held[f] /\ n[2] \notin flush[f] /\ n \notin unsaved
      BY <1>1, <1>3 DEF PendingInv
    <2>2. n = m => BeingCleared(m)
      BY <2>1 DEF BeingCleared
    <2> QED
      BY <2>1, <2>2 DEF Record
  <1> QED
    BY <1>1, <1>2, <1>3 DEF PendingInv

\* An insert keeps it, and so does a hit.
LEMMA InsertPending ==
    ASSUME PendingInv, NEW k, NEW e, NEW isRead, InsertLocked(k, e, isRead), flush' = flush
    PROVE  PendingInv'
  <1> DEFINE grown == MoveToFront(k)
             victims == IF Len(grown) > Capacity THEN {Last(grown)} ELSE {}
             m == <<"lru", k>>
             dropped == marks \cap ({"lru"} \X victims)
  <1>1. /\ marks' = (marks \ dropped) \cup (IF isRead THEN {m} ELSE {})
        /\ IF isRead THEN Record(m, dropped) ELSE Forget(dropped)
    BY DEF InsertLocked
  <1> HIDE DEF dropped, m
  <1>2. CASE isRead
    BY <1>1, <1>2, RecordPending
  <1>3. CASE ~isRead
    BY <1>1, <1>3, ForgetPending
  <1> QED
    BY <1>2, <1>3

LEMMA HitPending ==
    ASSUME PendingInv, NEW k, Hit(k)
    PROVE  PendingInv'
  <1> DEFINE m == <<"lru", k>>
  <1>1. CASE meta[k] # Absent
    <2>1. marks' = marks \cup {m} /\ Record(m, {}) /\ flush' = flush
      BY <1>1 DEF Hit
    <2> QED
      BY <2>1, RecordPending
  <1>2. CASE meta[k] = Absent
    BY <1>2 DEF Hit, PendingInv
  <1> QED
    BY <1>1, <1>2

\* No lookup loses a read.
LEMMA LookupPending ==
    ASSUME PendingInv, Lookup
    PROVE  PendingInv'
  <1>1. CASE \E k \in Keys : StatHit(k)
    BY <1>1, HitPending DEF StatHit
  <1>2. CASE UNCHANGED <<cache, flushes, unsaved>>
    BY <1>2 DEF PendingInv, cache, flushes
  <1>3. CASE \E b \in Batches, k \in Keys : BatchGet(b, k)
    BY <1>2, <1>3, HitPending DEF BatchGet
  <1>4. CASE \E p \in Probes, k \in Keys : Fill(p, k)
    <2>1. PICK p \in Probes, k \in Keys : Fill(p, k)
      BY <1>4
    <2>2. flush' = flush
      BY <2>1 DEF Fill
    <2>3. CASE InsertLocked(k, found[p][k], found[p][k] # Absent)
      BY <2>2, <2>3, InsertPending
    <2>4. CASE UNCHANGED <<cache, held, unsaved>>
      BY <1>2, <2>2, <2>4 DEF flushes
    <2> QED
      BY <2>1, <2>3, <2>4 DEF Fill
  <1> QED
    BY <1>1, <1>2, <1>3, <1>4
    DEF Lookup, StatMiss, BatchBegin, ReadSeq, Query, QueryFails

\* No write loses one, but with the entry it drops.
LEMMA WritePending ==
    ASSUME PendingInv, Write
    PROVE  PendingInv'
  <1>1. CASE UNCHANGED <<cache, flushes, unsaved>>
    BY <1>1 DEF PendingInv, cache, flushes
  <1>2. ASSUME NEW w \in Writers, Publish(w) PROVE PendingInv'
    <2>1. flush' = flush
      BY <1>2 DEF Publish
    <2>2. CASE DelEntries(writing[w])
      <3> DEFINE dropped == marks \cap ({"lru"} \X writing[w])
      <3>1. Forget(dropped) /\ marks' = marks \ dropped
        BY <2>2 DEF DelEntries
      <3> HIDE DEF dropped
      <3> QED
        BY <2>1, <3>1, ForgetPending
    <2>3. CASE \E k \in writing[w] : PutEntry(k, publish[w])
      BY <2>1, <2>3, InsertPending DEF PutEntry
    <2> QED
      BY <1>2, <2>2, <2>3 DEF Publish
  <1> QED
    BY <1>1, <1>2 DEF Write, PutCommitted, DeleteCommitted, TouchCommitted,
                      DeleteBatchCommitted, Commit, CommitUnacknowledged

\* No flush loses one, whether it completes, fails or clears late.
LEMMA FlushPending ==
    ASSUME PendingInv, Flush
    PROVE  PendingInv'
  <1>1. ASSUME NEW k \in Keys, MarkAccessed(k) PROVE PendingInv'
    <2> DEFINE m == <<"aux", k>>
    <2>1. flush' = flush
      BY <1>1 DEF MarkAccessed
    <2>2. CASE marks' = marks \cup {m} /\ Record(m, {})
      BY <2>1, <2>2, RecordPending
    <2>3. CASE m \in marks /\ UNCHANGED marks /\ Record(m, {})
      BY <2>1, <2>3, RecordPending
    <2>4. CASE UNCHANGED <<marks, held, unsaved>>
      BY <2>1, <2>4 DEF PendingInv
    <2> QED
      BY <1>1, <2>2, <2>3, <2>4 DEF MarkAccessed
  <1>2. ASSUME NEW f \in Flushers, NEW young, Collect(f, young) PROVE PendingInv'
    <2>1. PICK batch :
            /\ flush' = [flush EXCEPT ![f] = {m[2] : m \in batch}]
            /\ held' = [held EXCEPT ![f] = batch]
            /\ unsaved' = unsaved /\ marks' = marks
      BY <1>2 DEF Collect, cache
    <2> QED
      BY <2>1 DEF PendingInv
  <1>3. ASSUME NEW f \in Flushers, NEW ks \in SUBSET Keys, TouchChunk(f, ks) PROVE PendingInv'
    BY <1>3 DEF TouchChunk, PendingInv, cache
  <1>4. ASSUME NEW f \in Flushers, TouchChunkFails(f) PROVE PendingInv'
    BY <1>4 DEF TouchChunkFails, PendingInv, cache
  <1>5. ASSUME NEW f \in Flushers, Clear(f) PROVE PendingInv'
    BY <1>5 DEF Clear, PendingInv
  <1> QED
    BY <1>1, <1>2, <1>3, <1>4, <1>5 DEF Flush

\* A marked read stays visible to the collector's veto until accessed_at has it: not a
\* failed flush, not a second flusher that clears late, not a racing read loses it.
THEOREM ReadsAreNotLost == Spec => []ReadsStayPending
  <1>1. Init => PendingInv
    BY DEF Init, PendingInv
  <1>2. PendingInv /\ [Next]_vars => PendingInv'
    <2>1. ASSUME PendingInv, UNCHANGED vars PROVE PendingInv'
      BY <2>1 DEF vars, cache, flushes, PendingInv
    <2> QED
      BY <2>1, LookupPending, WritePending, FlushPending DEF Next
  <1>3. PendingInv => ReadsStayPending
    BY DEF PendingInv, ReadsStayPending
  <1> QED
    BY <1>1, <1>2, <1>3, PTL DEF Spec

-----------------------------------------------------------------------------
(* The generation: what may still be filled is the row. *)

\* What the lookups and the writes keep: functions over their actors.
LookupTypes ==
    /\ rows = [k \in Keys |-> rows[k]]
    /\ missed = [p \in Probes |-> missed[p]]
    /\ todo = [p \in Probes |-> todo[p]]
    /\ ask = [p \in Probes |-> ask[p]]
    /\ current = [p \in Probes |-> current[p]]
    /\ found = [p \in Probes |-> found[p]]
    /\ writing = [w \in Writers |-> writing[w]]

\* A lookup that has its answer asks for nothing more.
AnswersAreLast ==
    \A p \in Probes : Answered(p) => ask[p] # {} /\ todo[p] = {} /\ missed[p] = None

\* An answer that may still be filled is the row, or a write of the key is about to
\* publish, which moves the generation.
AnswersAreFresh ==
    \A p \in Probes : Answered(p) =>
        \A k \in ask[p] \cap current[p] \cap Keys : found[p][k] = rows[k] \/ InFlight(k)

FreshInv == LookupTypes /\ AnswersAreLast /\ AnswersAreFresh

\* A key in flight is one that some writer has committed and not published.
LEMMA InFlightMeans ==
    ASSUME LookupTypes, NEW k
    PROVE  InFlight(k) <=> \E w \in Writers : k \in writing[w]
  <1>1. DOMAIN writing = Writers
    BY DEF LookupTypes
  <1> QED
    BY <1>1 DEF InFlight, Range

\* A lookup's step keeps it.
LEMMA LookupFresh ==
    ASSUME FreshInv, Lookup
    PROVE  FreshInv'
  <1> USE DEF FreshInv, LookupTypes, AnswersAreLast, AnswersAreFresh, Answered
  <1>1. rows' = rows /\ writing' = writing
    BY DEF Lookup, StatHit, Hit, StatMiss, BatchBegin, BatchGet, ReadSeq, Query, QueryFails,
           Fill, writes
  <1>2. \A k : InFlight(k)' <=> InFlight(k)
    BY <1>1 DEF InFlight
  <1>3. CASE UNCHANGED lookups
    BY <1>1, <1>2, <1>3 DEF lookups
  <1>4. ASSUME NEW k \in Keys, StatMiss(k) PROVE FreshInv'
    <2>1. k \in Probes
      BY DEF Probes
    <2>2. /\ missed' = [missed EXCEPT ![k] = k] /\ UNCHANGED <<todo, ask, current, found>>
          /\ ask[k] = {}
      BY <1>4 DEF StatMiss, Idle
    <2>3. LookupTypes'
      BY <1>1, <2>1, <2>2
    <2>4. AnswersAreLast'
      BY <2>1, <2>2
    <2>5. AnswersAreFresh'
      BY <1>1, <1>2, <2>2
    <2> QED
      BY <2>3, <2>4, <2>5
  <1>5. ASSUME NEW b \in Batches, NEW ks, BatchBegin(b, ks) PROVE FreshInv'
    <2>1. b \in Probes
      BY DEF Probes
    <2> QED
      BY <1>1, <1>2, <1>5, <2>1 DEF BatchBegin, Idle
  <1>6. ASSUME NEW b \in Batches, NEW k \in Keys, BatchGet(b, k) PROVE FreshInv'
    <2>1. b \in Probes
      BY DEF Probes
    <2>2. todo' = [todo EXCEPT ![b] = @ \ {k}] /\ k \in todo[b]
      BY <1>6 DEF BatchGet
    <2>3. missed' = missed \/ missed' = [missed EXCEPT ![b] = k]
      BY <1>6 DEF BatchGet
    <2>4. UNCHANGED <<ask, current, found>>
      BY <1>6 DEF BatchGet
    <2>5. ~Answered(b)
      BY <2>1, <2>2
    <2> QED
      BY <1>1, <1>2, <2>1, <2>2, <2>3, <2>4, <2>5
  <1>7. ASSUME NEW p \in Probes, ReadSeq(p) PROVE FreshInv'
    <2>1. /\ ask' = [ask EXCEPT ![p] = @ \cup {missed[p]}]
          /\ current' = [current EXCEPT ![p] = @ \cup {missed[p]}]
          /\ missed' = [missed EXCEPT ![p] = None]
          /\ UNCHANGED <<todo, found>>
          /\ ~Answered(p)
      BY <1>7 DEF ReadSeq
    <2>2. LookupTypes'
      BY <1>1, <2>1
    <2>3. AnswersAreLast'
      BY <2>1
    <2>4. AnswersAreFresh'
      BY <1>1, <1>2, <2>1
    <2> QED
      BY <2>2, <2>3, <2>4
  <1>8. ASSUME NEW p \in Probes, Query(p) PROVE FreshInv'
    BY <1>1, <1>2, <1>8 DEF Query
  <1>9. ASSUME NEW p \in Probes, QueryFails(p) PROVE FreshInv'
    <2>1. /\ ask' = [ask EXCEPT ![p] = {}] /\ current' = [current EXCEPT ![p] = {}]
          /\ UNCHANGED <<todo, missed, found>>
          /\ ~Answered(p)
      BY <1>9 DEF QueryFails
    <2>2. LookupTypes'
      BY <1>1, <2>1
    <2>3. AnswersAreLast'
      BY <2>1
    <2>4. AnswersAreFresh'
      BY <1>1, <1>2, <2>1
    <2> QED
      BY <2>2, <2>3, <2>4
  <1>10. ASSUME NEW p \in Probes, NEW k \in Keys, Fill(p, k) PROVE FreshInv'
    <2>1. /\ ask' = [ask EXCEPT ![p] = @ \ {k}]
          /\ current' = [current EXCEPT ![p] = @ \ {k}]
          /\ found' = [found EXCEPT ![p] = IF ask[p] = {k} THEN NoAnswer ELSE @]
          /\ UNCHANGED <<todo, missed>>
      BY <1>10 DEF Fill
    <2>2. Answered(p)' => found'[p] = found[p] /\ ask'[p] # {}
      BY <2>1
    <2>3. LookupTypes'
      BY <1>1, <2>1
    <2>4. AnswersAreLast'
      BY <2>1, <2>2
    <2>5. AnswersAreFresh'
      BY <1>1, <1>2, <2>1, <2>2
    <2> QED
      BY <2>3, <2>4, <2>5
  <1> QED
    BY <1>3, <1>4, <1>5, <1>6, <1>7, <1>8, <1>9, <1>10 DEF Lookup, StatHit

\* A commit changes no row but those of the keys it then has in flight.
LEMMA CommitEffect ==
    ASSUME LookupTypes, NEW w \in Writers,
           \/ \E k \in Keys, d \in Digests : PutCommitted(w, k, d)
           \/ \E k \in Keys : DeleteCommitted(w, k) \/ TouchCommitted(w, k)
           \/ \E ks \in SUBSET Keys : \E spared \in SUBSET ks : DeleteBatchCommitted(w, ks, spared)
    PROVE  /\ UNCHANGED <<cache, lookups, flushes, unsaved>>
           /\ rows' = [k \in Keys |-> rows'[k]]
           /\ writing[w] = {}
           /\ writing' = [v \in Writers |-> IF v = w THEN writing'[w] ELSE writing[v]]
           /\ Overlap \/ \A v \in Writers : writing[v] \cap writing'[w] = {}
           /\ \A k \in Keys : k \notin writing'[w] => rows'[k] = rows[k]
  <1>1. ASSUME NEW ks, NEW e, Commit(w, ks, e)
        PROVE  /\ UNCHANGED <<cache, lookups, flushes, unsaved>>
               /\ writing[w] = {}
               /\ writing'[w] = ks
               /\ writing' = [v \in Writers |-> IF v = w THEN writing'[w] ELSE writing[v]]
               /\ Overlap \/ \A v \in Writers : writing[v] \cap writing'[w] = {}
    BY <1>1 DEF Commit, MayWrite, LookupTypes
  <1>2. ASSUME NEW k \in Keys, NEW d \in Digests, PutCommitted(w, k, d)
        PROVE  \E e : /\ Commit(w, {k}, e)
                      /\ rows' = [j \in Keys |-> rows'[j]]
                      /\ \A j \in Keys : j # k => rows'[j] = rows[j]
    BY <1>2 DEF PutCommitted, LookupTypes
  <1>3. ASSUME NEW k \in Keys, DeleteCommitted(w, k) \/ TouchCommitted(w, k)
        PROVE  \E e : /\ Commit(w, {k}, e)
                      /\ rows' = [j \in Keys |-> rows'[j]]
                      /\ \A j \in Keys : j # k => rows'[j] = rows[j]
    BY <1>3 DEF DeleteCommitted, TouchCommitted, LookupTypes
  <1>4. ASSUME NEW ks \in SUBSET Keys, NEW spared \in SUBSET ks, DeleteBatchCommitted(w, ks, spared)
        PROVE  \E e : /\ Commit(w, ks, e)
                      /\ rows' = [j \in Keys |-> rows'[j]]
                      /\ \A j \in Keys : j \notin ks => rows'[j] = rows[j]
    BY <1>4 DEF DeleteBatchCommitted
  <1>5. PICK ks, e : /\ Commit(w, ks, e)
                     /\ rows' = [j \in Keys |-> rows'[j]]
                     /\ \A j \in Keys : j \notin ks => rows'[j] = rows[j]
    BY <1>2, <1>3, <1>4
  <1> QED
    BY <1>1, <1>5

\* A write keeps it: its commit puts the keys in flight, its publication moves the
\* generation.
LEMMA WriteFresh ==
    ASSUME FreshInv, Write, ~LostAcks
    PROVE  FreshInv'
  <1> USE DEF FreshInv
  <1>1. ASSUME NEW w \in Writers,
               \/ \E k \in Keys, d \in Digests : PutCommitted(w, k, d)
               \/ \E k \in Keys : DeleteCommitted(w, k) \/ TouchCommitted(w, k)
               \/ \E ks \in SUBSET Keys : \E spared \in SUBSET ks :
                     DeleteBatchCommitted(w, ks, spared)
        PROVE  FreshInv'
    <2>1. /\ UNCHANGED lookups
          /\ rows' = [k \in Keys |-> rows'[k]]
          /\ writing[w] = {}
          /\ writing' = [v \in Writers |-> IF v = w THEN writing'[w] ELSE writing[v]]
          /\ \A k \in Keys : k \notin writing'[w] => rows'[k] = rows[k]
      BY <1>1, CommitEffect
    <2>2. LookupTypes'
      BY <2>1 DEF LookupTypes, lookups
    <2>3. \A k \in Keys : InFlight(k) => InFlight(k)'
      BY <2>1, <2>2, InFlightMeans
      DEF InFlight, Range, LookupTypes
    <2>4. \A k \in Keys : rows'[k] = rows[k] \/ InFlight(k)'
      BY <2>1, <2>2 DEF InFlight, Range, LookupTypes
    <2>5. AnswersAreLast' /\ AnswersAreFresh'
      BY <2>1, <2>3, <2>4 DEF lookups, AnswersAreLast, AnswersAreFresh, Answered
    <2> QED
      BY <2>2, <2>5
  <1>2. ASSUME NEW w \in Writers, Publish(w) PROVE FreshInv'
    <2>1. current' = [p \in Probes |-> {}]
      BY <1>2 DEF Publish, DelEntries, PutEntry, Bump
    <2> QED
      BY <1>2, <2>1 DEF Publish, LookupTypes, AnswersAreLast, AnswersAreFresh, Answered
  <1> QED
    BY <1>1, <1>2 DEF Write, CommitUnacknowledged

\* A flush reads and writes none of it.
LEMMA FlushFresh ==
    ASSUME FreshInv, Flush
    PROVE  FreshInv'
  <1>1. rows' = rows /\ UNCHANGED lookups /\ writing' = writing
    BY DEF Flush, MarkAccessed, Collect, TouchChunk, TouchChunkFails, Clear, writes
  <1> QED
    BY <1>1 DEF FreshInv, LookupTypes, AnswersAreLast, AnswersAreFresh, Answered, InFlight, lookups

LEMMA FreshAlways ==
    ASSUME ~LostAcks
    PROVE  Spec => []FreshInv
  <1>1. Init => FreshInv
    BY DEF Init, FreshInv, LookupTypes, AnswersAreLast, AnswersAreFresh, Answered
  <1>2. FreshInv /\ [Next]_vars => FreshInv'
    <2>1. ASSUME FreshInv, UNCHANGED vars PROVE FreshInv'
      BY <2>1 DEF vars, lookups, writes, FreshInv, LookupTypes, AnswersAreLast, AnswersAreFresh,
                  Answered, InFlight
    <2> QED
      BY <2>1, LookupFresh, WriteFresh, FlushFresh DEF Next
  <1> QED
    BY <1>1, <1>2, PTL DEF Spec

\* A fill installs its answer, if it installs anything.
LEMMA InsertEffect ==
    ASSUME NEW k, NEW e, NEW isRead, InsertLocked(k, e, isRead)
    PROVE  /\ \A j \in Keys : meta'[j] \in {NotCached, IF j = k THEN e ELSE meta[j]}
           /\ meta' = [j \in Keys |-> meta'[j]]
  BY DEF InsertLocked

\* The generation guard: for any lookups and writes, overlapping or not, a lookup never
\* installs an answer that the database contradicts, unless a write of that key is about
\* to publish over it.  A commit whose acknowledgement is lost publishes nothing, so the
\* guard cannot cover it.
THEOREM GenerationGuards == ~LostAcks => (Spec => FillsAreFresh)
  <1> SUFFICES ASSUME ~LostAcks PROVE Spec => FillsAreFresh
    OBVIOUS
  <1> DEFINE Guarded == \A p \in DOMAIN ask : \A k \in ask[p] \ ask'[p] :
                 meta'[k] \notin {meta[k], NotCached} => meta'[k] = rows[k] \/ InFlight(k)
  <1>1. FreshInv /\ [Next]_vars => Guarded \/ UNCHANGED vars
    <2> SUFFICES ASSUME FreshInv, Next, NEW p \in Probes, NEW k \in ask[p] \ ask'[p],
                        meta'[k] \notin {meta[k], NotCached}
                 PROVE  meta'[k] = rows[k] \/ InFlight(k)
      BY DEF FreshInv, LookupTypes
    <2>1. CASE ask' = ask \/ meta' = meta
      BY <2>1
    <2>2. ASSUME NEW q \in Probes, ReadSeq(q) PROVE ask[p] \subseteq ask'[p]
      BY <2>2 DEF ReadSeq, FreshInv, LookupTypes
    <2>3. ASSUME NEW q \in Probes, NEW j \in Keys, Fill(q, j)
          PROVE  meta'[k] = rows[k] \/ InFlight(k)
      <3>1. q = p /\ j = k
        BY <2>3 DEF Fill, FreshInv, LookupTypes
      <3>2. k \in current[p] /\ InsertLocked(k, found[p][k], found[p][k] # Absent)
        BY <2>1, <2>3, <3>1 DEF Fill, cache
      <3>3. meta'[k] = found[p][k]
        BY <2>3, <3>1, <3>2, InsertEffect
      <3> QED
        BY <2>3, <3>1, <3>2, <3>3 DEF Fill, FreshInv, AnswersAreFresh
    <2>4. CASE Lookup
      BY <2>1, <2>2, <2>3, <2>4
      DEF Lookup, StatHit, StatMiss, BatchBegin, BatchGet, Query, QueryFails, lookups, cache
    <2>5. CASE Write
      BY <2>1, <2>5
      DEF Write, PutCommitted, DeleteCommitted, TouchCommitted, DeleteBatchCommitted, Commit,
          Publish, CommitUnacknowledged, lookups
    <2>6. CASE Flush
      BY <2>1, <2>6
      DEF Flush, MarkAccessed, Collect, TouchChunk, TouchChunkFails, Clear, lookups
    <2> QED
      BY <2>4, <2>5, <2>6 DEF Next
  <1>2. Spec => []FreshInv
    BY FreshAlways
  <1> QED
    BY <1>1, <1>2, PTL DEF Spec, FillsAreFresh

-----------------------------------------------------------------------------
(* Coherence, where the writes of one key do not overlap. *)

\* Writers in flight have disjoint keys, and an entry about to be published is the row.
PublishesTheRow ==
    /\ publish = [w \in Writers |-> publish[w]]
    /\ \A w, v \in Writers : w # v => writing[w] \cap writing[v] = {}
    /\ \A w \in Writers : writing[w] # {} /\ publish[w] # NotCached =>
          \E k \in Keys : writing[w] = {k} /\ publish[w] = rows[k]

CoherentInv ==
    /\ FreshInv
    /\ meta = [k \in Keys |-> meta[k]]
    /\ PublishesTheRow
    /\ Coherent

\* A step that moves neither rows nor writes keeps it if every entry it installs is the
\* row, or has a write in flight.
LEMMA EntriesCoherent ==
    ASSUME CoherentInv, FreshInv', rows' = rows, UNCHANGED writes,
           meta' = [k \in Keys |-> meta'[k]],
           \A k \in Keys : meta'[k] \in {NotCached, meta[k], rows[k]} \/ InFlight(k)
    PROVE  CoherentInv'
  BY DEF CoherentInv, PublishesTheRow, Coherent, InFlight, writes

LEMMA LookupCoherent ==
    ASSUME CoherentInv, FreshInv', Lookup
    PROVE  CoherentInv'
  <1>1. rows' = rows /\ UNCHANGED writes
    BY DEF Lookup, StatHit, Hit, StatMiss, BatchBegin, BatchGet, ReadSeq, Query, QueryFails,
           Fill, writes
  <1>2. CASE meta' = meta
    BY <1>1, <1>2, EntriesCoherent DEF CoherentInv
  <1>3. ASSUME NEW p \in Probes, NEW k \in Keys, Fill(p, k) PROVE CoherentInv'
    <2>1. CASE k \in current[p] /\ InsertLocked(k, found[p][k], found[p][k] # Absent)
      <3>1. found[p][k] = rows[k] \/ InFlight(k)
        BY <1>3, <2>1 DEF Fill, CoherentInv, FreshInv, AnswersAreFresh
      <3>2. /\ \A j \in Keys : meta'[j] \in {NotCached, IF j = k THEN found[p][k] ELSE meta[j]}
            /\ meta' = [j \in Keys |-> meta'[j]]
        BY <2>1, InsertEffect
      <3>3. \A j \in Keys : meta'[j] \in {NotCached, meta[j], rows[j]} \/ InFlight(j)
        BY <3>1, <3>2
      <3> QED
        BY <1>1, <3>2, <3>3, EntriesCoherent
    <2> QED
      BY <1>2, <1>3, <2>1 DEF Fill, cache
  <1> QED
    BY <1>2, <1>3
    DEF Lookup, StatHit, Hit, StatMiss, BatchBegin, BatchGet, ReadSeq, Query, QueryFails, cache

\* What a commit will publish, where it will publish anything.
LEMMA CommitPublishes ==
    ASSUME LookupTypes, PublishesTheRow, NEW w \in Writers,
           \/ \E k \in Keys, d \in Digests : PutCommitted(w, k, d)
           \/ \E k \in Keys : DeleteCommitted(w, k) \/ TouchCommitted(w, k)
           \/ \E ks \in SUBSET Keys : \E spared \in SUBSET ks : DeleteBatchCommitted(w, ks, spared)
    PROVE  /\ publish' = [v \in Writers |-> IF v = w THEN publish'[w] ELSE publish[v]]
           /\ publish'[w] # NotCached =>
                \E k \in Keys : writing'[w] = {k} /\ publish'[w] = rows'[k]
  <1> USE DEF LookupTypes, PublishesTheRow
  <1>1. ASSUME NEW ks, NEW e, Commit(w, ks, e)
        PROVE  /\ publish' = [v \in Writers |-> IF v = w THEN publish'[w] ELSE publish[v]]
               /\ publish'[w] = e /\ writing'[w] = ks
    BY <1>1 DEF Commit
  <1>2. ASSUME NEW k \in Keys, NEW d \in Digests, PutCommitted(w, k, d)
        PROVE  \E e : Commit(w, {k}, e) /\ (e = NotCached \/ e = rows'[k])
    BY <1>2 DEF PutCommitted
  <1>3. ASSUME NEW k \in Keys, DeleteCommitted(w, k) \/ TouchCommitted(w, k)
        PROVE  \E e : Commit(w, {k}, e) /\ (e = NotCached \/ e = rows'[k])
    BY <1>3 DEF DeleteCommitted, TouchCommitted
  <1>4. ASSUME NEW ks, NEW spared, DeleteBatchCommitted(w, ks, spared)
        PROVE  Commit(w, ks, NotCached)
    BY <1>4 DEF DeleteBatchCommitted
  <1>5. CASE \E k \in Keys : \E e : Commit(w, {k}, e) /\ (e = NotCached \/ e = rows'[k])
    BY <1>1, <1>5
  <1>6. CASE \E ks : Commit(w, ks, NotCached)
    BY <1>1, <1>6
  <1> QED
    BY <1>2, <1>3, <1>4, <1>5, <1>6

LEMMA WriteCoherent ==
    ASSUME CoherentInv, FreshInv', Write, ~LostAcks, ~Overlap
    PROVE  CoherentInv'
  <1> USE DEF CoherentInv
  <1>0. LookupTypes /\ LookupTypes'
    BY DEF FreshInv
  <1>1. ASSUME NEW w \in Writers,
               \/ \E k \in Keys, d \in Digests : PutCommitted(w, k, d)
               \/ \E k \in Keys : DeleteCommitted(w, k) \/ TouchCommitted(w, k)
               \/ \E ks \in SUBSET Keys : \E spared \in SUBSET ks :
                     DeleteBatchCommitted(w, ks, spared)
        PROVE  CoherentInv'
    <2>1. /\ meta' = meta
          /\ writing[w] = {}
          /\ writing' = [v \in Writers |-> IF v = w THEN writing'[w] ELSE writing[v]]
          /\ \A v \in Writers : writing[v] \cap writing'[w] = {}
          /\ \A k \in Keys : k \notin writing'[w] => rows'[k] = rows[k]
      BY <1>0, <1>1, CommitEffect DEF cache
    <2>2. /\ publish' = [v \in Writers |-> IF v = w THEN publish'[w] ELSE publish[v]]
          /\ publish'[w] # NotCached =>
                \E k \in Keys : writing'[w] = {k} /\ publish'[w] = rows'[k]
      BY <1>0, <1>1, CommitPublishes
    <2>3. PublishesTheRow'
      <3>1. \A v, u \in Writers : v # u => writing'[v] \cap writing'[u] = {}
        BY <2>1 DEF PublishesTheRow
      <3>2. ASSUME NEW v \in Writers, writing'[v] # {}, publish'[v] # NotCached
            PROVE  \E k \in Keys : writing'[v] = {k} /\ publish'[v] = rows'[k]
        <4>1. CASE v = w
          BY <2>2, <3>2, <4>1
        <4>2. CASE v # w
          <5>1. writing'[v] = writing[v] /\ publish'[v] = publish[v]
            BY <2>1, <2>2, <4>2
          <5>2. PICK k \in Keys : writing[v] = {k} /\ publish[v] = rows[k]
            BY <3>2, <5>1 DEF PublishesTheRow
          <5> QED
            BY <2>1, <5>1, <5>2
        <4> QED
          BY <4>1, <4>2
      <3> QED
        BY <2>2, <3>1, <3>2 DEF PublishesTheRow
    <2>4. Coherent'
      <3>1. ASSUME NEW k \in Keys, ~InFlight(k)' PROVE meta'[k] \in {NotCached, rows'[k]}
        <4>1. \A v \in Writers : k \notin writing'[v]
          BY <1>0, <3>1 DEF LookupTypes, InFlight, Range
        <4>2. ~InFlight(k)
          BY <1>0, <2>1, <4>1, InFlightMeans
        <4> QED
          BY <2>1, <4>1, <4>2 DEF Coherent
      <3> QED
        BY <3>1 DEF Coherent
    <2> QED
      BY <2>1, <2>3, <2>4
  <1>2. ASSUME NEW w \in Writers, Publish(w) PROVE CoherentInv'
    <2>1. /\ writing' = [writing EXCEPT ![w] = {}]
          /\ publish' = [publish EXCEPT ![w] = NotCached]
          /\ rows' = rows /\ writing[w] # {}
      BY <1>2 DEF Publish
    <2>2. PublishesTheRow'
      BY <1>0, <2>1 DEF PublishesTheRow, LookupTypes
    <2>3. /\ meta' = [j \in Keys |-> meta'[j]]
          /\ \A j \in Keys : IF j \in writing[w] THEN meta'[j] \in {NotCached, rows[j]}
                             ELSE meta'[j] \in {NotCached, meta[j]}
      <3>1. CASE publish[w] = NotCached
        BY <1>2, <3>1 DEF Publish, DelEntries
      <3>2. CASE publish[w] # NotCached
        <4>1. PICK k \in Keys : writing[w] = {k} /\ publish[w] = rows[k]
          BY <2>1, <3>2 DEF PublishesTheRow
        <4>2. InsertLocked(k, rows[k], FALSE)
          BY <1>2, <3>2, <4>1 DEF Publish, PutEntry
        <4> QED
          BY <4>1, <4>2, InsertEffect
      <3> QED
        BY <3>1, <3>2
    <2>4. \A j \in Keys : ~InFlight(j)' => j \in writing[w] \/ ~InFlight(j)
      BY <1>0, <2>1 DEF LookupTypes, InFlight, Range
    <2>5. Coherent'
      BY <2>1, <2>3, <2>4 DEF Coherent
    <2> QED
      BY <2>2, <2>3, <2>5
  <1> QED
    BY <1>1, <1>2 DEF Write, CommitUnacknowledged

LEMMA FlushCoherent ==
    ASSUME CoherentInv, FreshInv', Flush
    PROVE  CoherentInv'
  <1>1. rows' = rows /\ UNCHANGED writes /\ meta' = meta
    BY DEF Flush, MarkAccessed, Collect, TouchChunk, TouchChunkFails, Clear, cache
  <1> QED
    BY <1>1, EntriesCoherent DEF CoherentInv

\* Once every write of a key has published, its entry is what the database holds, if the
\* writes of one key do not overlap and a commit's answer is not lost: no stale positive
\* serves a digest the row gave up, no stale negative hides an object that exists,
\* whatever lookups were in flight.
THEOREM CacheIsCoherent == ~LostAcks /\ ~Overlap => (Spec => []Coherent)
  <1> SUFFICES ASSUME ~LostAcks, ~Overlap PROVE Spec => []Coherent
    OBVIOUS
  <1>1. Init => CoherentInv
    <2> SUFFICES ASSUME Init PROVE CoherentInv
      OBVIOUS
    <2>1. FreshInv
      BY DEF Init, FreshInv, LookupTypes, AnswersAreLast, AnswersAreFresh, Answered
    <2> QED
      BY <2>1 DEF Init, CoherentInv, PublishesTheRow, Coherent
  <1>2. CoherentInv /\ [Next]_vars => CoherentInv'
    <2> SUFFICES ASSUME CoherentInv, [Next]_vars PROVE CoherentInv'
      OBVIOUS
    <2>1. CASE UNCHANGED vars
      BY <2>1 DEF vars, cache, lookups, writes, CoherentInv, FreshInv, LookupTypes,
                  AnswersAreLast, AnswersAreFresh, Answered, InFlight, PublishesTheRow, Coherent
    <2>2. CASE Next
      <3>1. FreshInv'
        BY <2>2, LookupFresh, WriteFresh, FlushFresh DEF Next, CoherentInv
      <3> QED
        BY <2>2, <3>1, LookupCoherent, WriteCoherent, FlushCoherent DEF Next
    <2> QED
      BY <2>1, <2>2
  <1>3. CoherentInv => Coherent
    BY DEF CoherentInv
  <1> QED
    BY <1>1, <1>2, <1>3, PTL DEF Spec
=============================================================================
