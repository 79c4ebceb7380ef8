-------------------------- MODULE BlobStoreProofs --------------------------
(***************************************************************************)
(* Proofs about BlobStore, for every finite set of keys and every set of   *)
(* digests, clients and collectors.                                        *)
(*                                                                         *)
(* The argument rests on Inv.  LiveHasBytes and NoDanglingMetadata are not *)
(* inductive by themselves: an upload elided on the strength of a row read *)
(* earlier, and an unlink decided by a recheck made earlier, are sound     *)
(* only because the digest's advisory lock was held in between             *)
(* (DigestLockProtects).  The refcount, in turn, is exact only because the *)
(* OLD row a trigger saw cannot change before the transaction commits      *)
(* (ObjectLockProtects).  One lemma per action shows that it preserves     *)
(* Inv.                                                                    *)
(***************************************************************************)
EXTENDS BlobStore, FiniteSetTheorems, WellFoundedInduction, TLAPS

\* The initial state satisfies the invariant.
LEMMA InitInv == Init => Inv
  <1> SUFFICES ASSUME Init PROVE Inv
    OBVIOUS
  <1>1. TypeOK
    BY DEF Init, TypeOK, Ops, PCs, NoOld
  <1>2. RefcountExact
    <2> SUFFICES ASSUME NEW d \in Digests
                 PROVE  refcount[d] = Cardinality({k \in Keys : names[k] = d})
      BY DEF RefcountExact
    <2>1. {k \in Keys : names[k] = d} = {}
      BY ConstantsAssumption DEF Init
    <2> QED
      BY <2>1, FS_EmptySet DEF Init
  <1>3. DigestLockProtects /\ ObjectLockProtects /\ PutHasOneKey
    BY DEF Init, DigestLockProtects, ObjectLockProtects, PutHasOneKey
  <1>4. LiveHasBytes /\ NoDanglingMetadata
    BY DEF Init, LiveHasBytes, NoDanglingMetadata
  <1> QED
    BY <1>1, <1>2, <1>3, <1>4 DEF Init, Inv

\* Steps that leave the rows and the bytes alone owe only the lock invariants.
LEMMA SessionStep ==
    ASSUME Inv, UNCHANGED <<rows, bytes>>,
           TypeOK', DigestLockProtects', ObjectLockProtects', PutHasOneKey',
           \A s \in Sessions : pc'[s] = "lock" => op'[s] \in {"put", "reap"}
    PROVE  Inv'
  BY DEF Inv, rows, LiveHasBytes, NoDanglingMetadata, RefcountExact

\* Starting a transaction preserves it, whether or not the sync before it published
\* bytes.
LEMMA BeginInv ==
    ASSUME Inv, NEW s \in Sessions, NEW o \in Ops \ {"none"}, NEW p \in PCs,
           NEW d \in Digests \cup {None}, NEW ks \in SUBSET Keys,
           NEW ds \in SUBSET Digests, Begin(s, o, p, d, ks, ds),
           o \in {"put", "reap"} <=> p = "lock",
           o \in {"put", "reap"} => d \in Digests,
           o = "put" => \E k \in Keys : ks = {k},
           bytes \subseteq bytes', bytes' \subseteq Digests
    PROVE  Inv'
  <1>1. TypeOK'
    BY DEF Begin, Inv, TypeOK, rows, locks
  <1>2. DigestLockProtects'
    BY DEF Begin, Inv, TypeOK, rows, locks, DigestLockProtects
  <1>3. ObjectLockProtects'
    BY DEF Begin, Inv, TypeOK, rows, locks, ObjectLockProtects
  <1>4. \A t \in Sessions : pc'[t] = "lock" => op'[t] \in {"put", "reap"}
    BY DEF Begin, Inv, TypeOK
  <1>5. PutHasOneKey'
    BY DEF Begin, Inv, TypeOK, PutHasOneKey
  <1> QED
    BY <1>1, <1>2, <1>3, <1>4, <1>5
    DEF Begin, Inv, TypeOK, rows, LiveHasBytes, NoDanglingMetadata, RefcountExact

\* Taking the digest's advisory lock preserves it.
LEMMA LockBlobDigestInv ==
    ASSUME Inv, NEW s \in Sessions, LockBlobDigest(s)
    PROVE  Inv'
  <1>1. TypeOK'
    BY DEF LockBlobDigest, Goto, Inv, TypeOK, PCs, rows
  <1>2. DigestLockProtects'
    BY ConstantsAssumption
    DEF LockBlobDigest, Goto, Inv, TypeOK, rows, DigestLockProtects
  <1>3. ObjectLockProtects'
    BY DEF LockBlobDigest, Goto, Inv, TypeOK, rows, ObjectLockProtects
  <1>4. \A t \in Sessions : pc'[t] = "lock" => op'[t] \in {"put", "reap"}
    BY DEF LockBlobDigest, Goto, Inv, TypeOK
  <1>5. PutHasOneKey'
    BY DEF LockBlobDigest, Goto, At, Inv, TypeOK, PutHasOneKey
  <1> QED
    BY <1>1, <1>2, <1>3, <1>4, <1>5, SessionStep DEF LockBlobDigest

\* Put's probe preserves it: only a live row, whose bytes are there, elides the upload.
LEMMA GetBlobForWriteInv ==
    ASSUME Inv, NEW s \in Sessions, GetBlobForWrite(s)
    PROVE  Inv'
  <1>1. TypeOK'
    <2>1. pc' \in [Sessions -> PCs]
      BY DEF GetBlobForWrite, Goto, Inv, TypeOK, PCs
    <2>2. rowLock' \in [Digests -> Sessions \cup {None}]
      BY DEF GetBlobForWrite, Inv, TypeOK
    <2>3. UNCHANGED <<rows, bytes, op, digest, keys, todo, wrote, old, begunBefore, digestLock, objectLock>>
      BY DEF GetBlobForWrite, Goto
    <2> QED
      BY <2>1, <2>2, <2>3 DEF Inv, TypeOK, rows
  <1>2. DigestLockProtects'
    BY DEF GetBlobForWrite, Goto, At, Inv, TypeOK, rows, DigestLockProtects, LiveHasBytes
  <1>3. ObjectLockProtects'
    BY DEF GetBlobForWrite, Goto, At, Inv, TypeOK, rows, ObjectLockProtects
  <1>4. \A t \in Sessions : pc'[t] = "lock" => op'[t] \in {"put", "reap"}
    BY DEF GetBlobForWrite, Goto, At, Inv, TypeOK
  <1>5. PutHasOneKey'
    BY DEF GetBlobForWrite, Goto, At, Inv, TypeOK, PutHasOneKey
  <1> QED
    BY <1>1, <1>2, <1>3, <1>4, <1>5, SessionStep DEF GetBlobForWrite

\* Naming the staged bytes preserves it.
LEMMA CommitBytesInv ==
    ASSUME Inv, NEW s \in Sessions, CommitBytes(s)
    PROVE  Inv'
  <1>1. TypeOK'
    BY DEF CommitBytes, Goto, At, Inv, TypeOK, PCs, rows, locks, DigestLockProtects
  <1>2. DigestLockProtects'
    BY DEF CommitBytes, Goto, At, Inv, TypeOK, rows, locks, DigestLockProtects
  <1>3. ObjectLockProtects'
    BY DEF CommitBytes, Goto, At, Inv, TypeOK, rows, locks, ObjectLockProtects
  <1>4. \A t \in Sessions : pc'[t] = "lock" => op'[t] \in {"put", "reap"}
    BY DEF CommitBytes, Goto, At, Inv, TypeOK
  <1>5. PutHasOneKey'
    BY DEF CommitBytes, Goto, At, Inv, TypeOK, PutHasOneKey
  <1> QED
    BY <1>1, <1>2, <1>3, <1>4, <1>5
    DEF CommitBytes, Inv, rows, LiveHasBytes, NoDanglingMetadata, RefcountExact

\* The upsert of the object row preserves it.
LEMMA PutObjectInv ==
    ASSUME Inv, NEW s \in Sessions, PutObject(s)
    PROVE  Inv'
  <1> PICK k \in keys[s] :
        /\ objectLock[k] = None
        /\ \/ Goto(s, "commit") /\ UNCHANGED objectLock
           \/ (k \in Mutable \/ names[k] = None) /\ WriteObject(s, k)
    BY DEF PutObject
  <1> k \in Keys
    BY DEF Inv, TypeOK
  <1>0. /\ At(s, "put", "object")
        /\ rowLock' = [rowLock EXCEPT ![digest[s]] = s]
        /\ UNCHANGED <<rows, bytes, begunBefore, digestLock>>
    BY DEF PutObject
  <1>5. keys[s] = {k}
    BY <1>0 DEF Inv, At, PutHasOneKey
  <1>6. wrote[s] = {}
    BY <1>0 DEF Inv, At, ObjectLockProtects, TypeOK
  <1>7. CASE Goto(s, "commit") /\ UNCHANGED objectLock
    <2>1. TypeOK'
      BY <1>0, <1>7 DEF Goto, At, Inv, TypeOK, PCs, rows, DigestLockProtects
    <2>2. DigestLockProtects'
      BY <1>0, <1>7 DEF Goto, At, Inv, TypeOK, rows, DigestLockProtects
    <2>3. ObjectLockProtects'
      BY <1>0, <1>7 DEF Goto, At, Inv, TypeOK, rows, ObjectLockProtects
    <2>4. \A t \in Sessions : pc'[t] = "lock" => op'[t] \in {"put", "reap"}
      BY <1>0, <1>7 DEF Goto, At, Inv, TypeOK
    <2>5. PutHasOneKey'
      BY <1>0, <1>7 DEF Goto, At, Inv, TypeOK, PutHasOneKey
    <2> QED
      BY <1>0, <2>1, <2>2, <2>3, <2>4, <2>5, SessionStep
  <1>8. CASE (k \in Mutable \/ names[k] = None) /\ WriteObject(s, k)
    <2>1. TypeOK'
      BY <1>0, <1>8 DEF WriteObject, NoOld, At, Inv, TypeOK, PCs, rows, DigestLockProtects
    <2>2. DigestLockProtects'
      BY <1>0, <1>8 DEF WriteObject, At, Inv, TypeOK, rows, DigestLockProtects
    <2>3. ObjectLockProtects'
      <3> SUFFICES ASSUME NEW t \in Sessions, NEW j \in wrote'[t]
                   PROVE  /\ objectLock'[j] = t
                          /\ old'[t][j] = names'[j]
                          /\ \/ op'[t] \in {"delete", "sweep"}
                             \/ /\ op'[t] = "put" /\ pc'[t] \in {"trigger", "commit"}
                                /\ keys'[t] = {j}
                                /\ j \in Mutable \/ names'[j] = None
        BY DEF ObjectLockProtects
      <3>1. CASE t = s
        BY <1>0, <1>5, <1>8, <3>1 DEF WriteObject, NoOld, At, Inv, TypeOK, rows
      <3>2. CASE t # s
        <4>1. j \in wrote[t] /\ j \in Keys
          BY <1>8, <3>2 DEF WriteObject, Inv, TypeOK
        <4>2. j # k
          BY <4>1, ConstantsAssumption DEF Inv, ObjectLockProtects
        <4> QED
          BY <1>0, <1>8, <3>2, <4>1, <4>2 DEF WriteObject, Inv, TypeOK, rows, ObjectLockProtects
      <3> QED
        BY <3>1, <3>2
    <2>4. \A t \in Sessions : pc'[t] = "lock" => op'[t] \in {"put", "reap"}
      BY <1>0, <1>8 DEF WriteObject, At, Inv, TypeOK
    <2>5. PutHasOneKey'
      BY <1>0, <1>8 DEF WriteObject, At, Inv, TypeOK, PutHasOneKey
    <2> QED
      BY <1>0, <2>1, <2>2, <2>3, <2>4, <2>5, SessionStep
  <1> QED
    BY <1>7, <1>8

\* The overwrite trigger's row lock preserves it.
LEMMA LockReplacedInv ==
    ASSUME Inv, NEW s \in Sessions, LockReplaced(s)
    PROVE  Inv'
  <1>1. TypeOK'
    BY DEF LockReplaced, Goto, At, Inv, TypeOK, PCs, rows
  <1>2. DigestLockProtects'
    BY DEF LockReplaced, Goto, At, Inv, TypeOK, rows, DigestLockProtects
  <1>3. ObjectLockProtects'
    BY DEF LockReplaced, Goto, At, Inv, TypeOK, rows, ObjectLockProtects
  <1>4. \A t \in Sessions : pc'[t] = "lock" => op'[t] \in {"put", "reap"}
    BY DEF LockReplaced, Goto, At, Inv, TypeOK
  <1>5. PutHasOneKey'
    BY DEF LockReplaced, Goto, At, Inv, TypeOK, PutHasOneKey
  <1> QED
    BY <1>1, <1>2, <1>3, <1>4, <1>5, SessionStep DEF LockReplaced

\* Two counting facts about the trigger's arithmetic: rows that give up their
\* reference, and rows that move it.
LEMMA CountDropped ==
    ASSUME NEW A \in SUBSET Keys, NEW W \in SUBSET Keys
    PROVE  /\ Cardinality(A \ W) \in Nat
           /\ Cardinality(A \ W) = Cardinality(A) - Cardinality(A \cap W)
  <1>1. IsFiniteSet(A)
    BY ConstantsAssumption, FS_Subset
  <1> QED
    BY <1>1, FS_Difference, FS_CardinalityType

\* Cardinality when one key moves from a digest to another.
LEMMA CountMoved ==
    ASSUME NEW A \in SUBSET Keys, NEW W \in SUBSET Keys
    PROVE  /\ Cardinality((A \ W) \cup W) \in Nat
           /\ Cardinality((A \ W) \cup W)
                = Cardinality(A) - Cardinality(A \cap W) + Cardinality(W)
  <1>1. IsFiniteSet(A) /\ IsFiniteSet(W)
    BY ConstantsAssumption, FS_Subset
  <1>2. IsFiniteSet(A \ W) /\ Cardinality(A \ W) = Cardinality(A) - Cardinality(A \cap W)
    BY <1>1, FS_Difference
  <1>3. (A \ W) \cap W = {}
    OBVIOUS
  <1>4. /\ IsFiniteSet((A \ W) \cup W)
        /\ Cardinality((A \ W) \cup W)
              = Cardinality(A \ W) + Cardinality(W) - Cardinality((A \ W) \cap W)
    BY <1>1, <1>2, FS_Union
  <1>5. /\ Cardinality(W) \in Nat
        /\ Cardinality(A \ W) \in Nat
        /\ Cardinality((A \ W) \cup W) \in Nat
    BY <1>1, <1>2, <1>4, FS_CardinalityType
  <1>6. Cardinality((A \ W) \cap W) = 0
    BY <1>3, FS_EmptySet
  <1> QED
    BY <1>2, <1>4, <1>5, <1>6

\* What the end of a transaction does to the lock invariants of the others, when
\* it changed only what its own locks covered.
LEMMA EndTxLocks ==
    ASSUME Inv, NEW s \in Sessions, EndTx(s), UNCHANGED bytes,
           \A k \in Keys \ wrote[s] : names'[k] = names[k],
           \A d \in Digests : digestLock[d] # s => state'[d] = state[d]
    PROVE  /\ DigestLockProtects'
           /\ ObjectLockProtects'
           /\ PutHasOneKey'
           /\ \A t \in Sessions : pc'[t] = "lock" => op'[t] \in {"put", "reap"}
  <1>1. DigestLockProtects'
    BY DEF EndTx, Inv, TypeOK, DigestLockProtects
  <1>2. ObjectLockProtects'
    <2> SUFFICES ASSUME NEW t \in Sessions, NEW j \in wrote'[t]
                 PROVE  /\ objectLock'[j] = t
                        /\ old'[t][j] = names'[j]
                        /\ \/ op'[t] \in {"delete", "sweep"}
                           \/ /\ op'[t] = "put" /\ pc'[t] \in {"trigger", "commit"}
                              /\ keys'[t] = {j}
                              /\ j \in Mutable \/ names'[j] = None
      BY DEF ObjectLockProtects
    <2>1. t # s /\ j \in wrote[t] /\ j \in Keys
      BY DEF EndTx, Inv, TypeOK
    <2>2. j \notin wrote[s]
      BY <2>1 DEF Inv, ObjectLockProtects
    <2> QED
      BY <2>1, <2>2 DEF EndTx, Inv, TypeOK, ObjectLockProtects
  <1>3. PutHasOneKey'
    BY DEF EndTx, Inv, TypeOK, PutHasOneKey
  <1>4. \A t \in Sessions : pc'[t] = "lock" => op'[t] \in {"put", "reap"}
    BY DEF EndTx, Inv, TypeOK
  <1> QED
    BY <1>1, <1>2, <1>3, <1>4

\* The end of a transaction keeps the session variables typed.
LEMMA EndTxType ==
    ASSUME TypeOK, NEW s \in Sessions, EndTx(s),
           names' \in [Keys -> Digests \cup {None}],
           state' \in [Digests -> {"absent", "live", "pending_delete"}],
           refcount' \in [Digests -> Nat],
           bytes' \subseteq Digests,
           createdBefore' \subseteq Keys \cup Digests,
           visible' \subseteq Keys \cup Digests
    PROVE  TypeOK'
  BY DEF EndTx, TypeOK, NoOld, Ops, PCs

\* A rollback preserves the invariant.
LEMMA RollbackInv ==
    ASSUME Inv, NEW s \in Sessions, EndTx(s), UNCHANGED <<rows, bytes>>
    PROVE  Inv'
  <1>1. TypeOK'
    BY EndTxType DEF Inv, TypeOK, rows
  <1> QED
    BY <1>1, EndTxLocks, SessionStep DEF rows

\* Put's commit preserves it: the bytes are there and one reference moves.
LEMMA PutCommitInv ==
    ASSUME Inv, NEW s \in Sessions, PutCommit(s)
    PROVE  Inv'
  <1> DEFINE d == digest[s]
             W == wrote[s]
             Named(e) == {k \in Keys : names[k] = e}
  <1>1. d \in Digests /\ d \in bytes /\ digestLock[d] = s
    BY DEF PutCommit, At, Inv, DigestLockProtects
  <1>2. W \in SUBSET Keys
    BY DEF Inv, TypeOK
  <1>3. names' = [k \in Keys |-> IF k \in W THEN d ELSE names[k]]
    BY DEF PutCommit
  <1>4. state' = [state EXCEPT ![d] = "live"]
    BY DEF PutCommit
  <1>5. ASSUME NEW e \in Digests
        PROVE  /\ refcount'[e] = Cardinality({k \in Keys : names'[k] = e})
               /\ refcount'[e] \in Nat
    <2>1. refcount[e] = Cardinality(Named(e))
      BY DEF Inv, RefcountExact
    <2>2. Dropped(s, e) = Named(e) \cap W
      BY <1>2 DEF Inv, ObjectLockProtects, Dropped
    <2>3. refcount'[e] = refcount[e] - Cardinality(Dropped(s, e))
                          + IF e = d THEN Cardinality(W) ELSE 0
      BY DEF PutCommit
    <2>4. CASE e = d
      <3>1. {k \in Keys : names'[k] = e} = (Named(e) \ W) \cup W
        BY <1>2, <1>3, <2>4
      <3>2. /\ Cardinality((Named(e) \ W) \cup W) \in Nat
            /\ Cardinality((Named(e) \ W) \cup W)
                 = Cardinality(Named(e)) - Cardinality(Named(e) \cap W) + Cardinality(W)
        BY <1>2, CountMoved
      <3>3. refcount'[e] = Cardinality(Named(e)) - Cardinality(Named(e) \cap W) + Cardinality(W)
        BY <2>1, <2>2, <2>3, <2>4
      <3> QED
        BY <3>1, <3>2, <3>3
    <2>5. CASE e # d
      <3>1. {k \in Keys : names'[k] = e} = Named(e) \ W
        BY <1>2, <1>3, <2>5
      <3>2. /\ Cardinality(Named(e) \ W) \in Nat
            /\ Cardinality(Named(e) \ W) = Cardinality(Named(e)) - Cardinality(Named(e) \cap W)
        BY <1>2, CountDropped
      <3>3. refcount'[e] = Cardinality(Named(e)) - Cardinality(Named(e) \cap W) + 0
        BY <2>1, <2>2, <2>3, <2>5
      <3>4. Cardinality(Named(e)) - Cardinality(Named(e) \cap W) + 0
             = Cardinality(Named(e)) - Cardinality(Named(e) \cap W)
        BY <3>2
      <3> QED
        BY <3>1, <3>2, <3>3, <3>4
    <2> QED
      BY <2>4, <2>5
  <1>6. refcount' \in [Digests -> Nat]
    BY <1>5 DEF PutCommit
  <1>7. TypeOK'
    <2>1. names' \in [Keys -> Digests \cup {None}]
      BY <1>1, <1>3 DEF Inv, TypeOK
    <2>2. state' \in [Digests -> {"absent", "live", "pending_delete"}]
      BY <1>1, <1>4 DEF Inv, TypeOK
    <2>3. createdBefore' \subseteq Keys \cup Digests /\ visible' \subseteq Keys \cup Digests
      BY <1>1, <1>2 DEF PutCommit, Stamp, Inv, TypeOK
    <2> QED
      BY <1>6, <2>1, <2>2, <2>3, EndTxType DEF PutCommit, Inv, TypeOK
  <1>8. /\ DigestLockProtects'
        /\ ObjectLockProtects'
        /\ PutHasOneKey'
        /\ \A t \in Sessions : pc'[t] = "lock" => op'[t] \in {"put", "reap"}
    <2>1. \A k \in Keys \ wrote[s] : names'[k] = names[k]
      BY <1>3
    <2>2. \A e \in Digests : digestLock[e] # s => state'[e] = state[e]
      BY <1>1, <1>4 DEF Inv, TypeOK
    <2> QED
      BY <2>1, <2>2, EndTxLocks DEF PutCommit
  <1>9. LiveHasBytes' /\ NoDanglingMetadata'
    <2>1. LiveHasBytes'
      BY <1>1, <1>4 DEF PutCommit, Inv, TypeOK, LiveHasBytes
    <2>2. NoDanglingMetadata'
      BY <1>1, <1>3, <1>4 DEF PutCommit, Inv, TypeOK, NoDanglingMetadata
    <2> QED
      BY <2>1, <2>2
  <1> QED
    BY <1>5, <1>7, <1>8, <1>9 DEF Inv, RefcountExact

\* The batch delete's pre-lock preserves it.
LEMMA LockBlobDigestsInv ==
    ASSUME Inv, NEW s \in Sessions, LockBlobDigests(s)
    PROVE  Inv'
  <1>1. TypeOK'
    BY DEF LockBlobDigests, At, Inv, TypeOK, PCs, rows
  <1>2. DigestLockProtects'
    BY DEF LockBlobDigests, At, Inv, TypeOK, rows, DigestLockProtects
  <1>3. ObjectLockProtects'
    BY DEF LockBlobDigests, At, Inv, TypeOK, rows, ObjectLockProtects
  <1>4. \A t \in Sessions : pc'[t] = "lock" => op'[t] \in {"put", "reap"}
    BY DEF LockBlobDigests, At, Inv, TypeOK
  <1>5. PutHasOneKey'
    BY DEF LockBlobDigests, At, Inv, TypeOK, PutHasOneKey
  <1> QED
    BY <1>1, <1>2, <1>3, <1>4, <1>5, SessionStep DEF LockBlobDigests

\* Reaching one row of a DELETE preserves it.
LEMMA DeleteRowInv ==
    ASSUME Inv, NEW s \in Sessions, NEW k \in Keys, DeleteRow(s, k)
    PROVE  Inv'
  <1> DEFINE seen == [old[s] EXCEPT ![k] = names[k]]
  <1>0. \/ UNCHANGED <<objectLock, wrote, old>>
        \/ /\ objectLock' = [objectLock EXCEPT ![k] = s]
           /\ wrote' = [wrote EXCEPT ![s] = wrote[s] \cup {k}]
           /\ old' = [old EXCEPT ![s] = seen]
    BY DEF DeleteRow
  <1>6. keys' = [keys EXCEPT ![s] = keys[s] \ {k}]
    BY DEF DeleteRow
  <1>1. TypeOK'
    <2>1. old' \in [Sessions -> [Keys -> Digests \cup {None}]]
      <3>1. old \in [Sessions -> [Keys -> Digests \cup {None}]]
        BY DEF Inv, TypeOK
      <3>2. seen \in [Keys -> Digests \cup {None}]
        BY <3>1 DEF Inv, TypeOK
      <3> HIDE DEF seen
      <3> QED
        BY <1>0, <3>1, <3>2
    <2>2. wrote' \in [Sessions -> SUBSET Keys]
      <3>1. wrote \in [Sessions -> SUBSET Keys]
        BY DEF Inv, TypeOK
      <3>2. wrote[s] \cup {k} \in SUBSET Keys
        BY <3>1
      <3> QED
        BY <1>0, <3>1, <3>2
    <2>4. keys' \in [Sessions -> SUBSET Keys]
      <3>1. keys \in [Sessions -> SUBSET Keys]
        BY DEF Inv, TypeOK
      <3>2. keys[s] \ {k} \in SUBSET Keys
        BY <3>1
      <3> QED
        BY <1>6, <3>1, <3>2
    <2>5. objectLock' \in [Keys -> Sessions \cup {None}]
      BY <1>0 DEF Inv, TypeOK
    <2>3. UNCHANGED <<rows, bytes, op, pc, digest, todo, begunBefore, digestLock, rowLock>>
      BY DEF DeleteRow
    <2> QED
      BY <2>1, <2>2, <2>3, <2>4, <2>5 DEF Inv, TypeOK, rows
  <1>2. DigestLockProtects'
    BY DEF DeleteRow, Inv, TypeOK, rows, DigestLockProtects
  <1>3. ObjectLockProtects'
    <2> SUFFICES ASSUME NEW t \in Sessions, NEW j \in wrote'[t]
                 PROVE  /\ objectLock'[j] = t
                        /\ old'[t][j] = names'[j]
                        /\ \/ op'[t] \in {"delete", "sweep"}
                           \/ /\ op'[t] = "put" /\ pc'[t] \in {"trigger", "commit"}
                              /\ keys'[t] = {j}
                              /\ j \in Mutable \/ names'[j] = None
      BY DEF ObjectLockProtects
    <2>1. CASE t = s /\ j = k /\ k \notin wrote[s]
      BY <2>1 DEF DeleteRow, Inv, TypeOK, rows
    <2>2. CASE j \in wrote[t]
      <3>1. j # k
        BY <2>2, ConstantsAssumption DEF DeleteRow, Inv, ObjectLockProtects
      <3>2. objectLock'[j] = objectLock[j]
        BY <1>0, <2>2, <3>1 DEF Inv, TypeOK
      <3>5. seen[j] = old[s][j]
        BY <2>2, <3>1 DEF Inv, TypeOK
      <3>6. old'[t][j] = old[t][j]
        BY <1>0, <3>5 DEF Inv, TypeOK
      <3>3. op[s] \in {"delete", "sweep"} /\ UNCHANGED <<op, pc, names>>
        BY DEF DeleteRow, rows
      <3>4. t # s => keys'[t] = keys[t]
        BY <1>6 DEF Inv, TypeOK
      <3> QED
        BY <2>2, <3>2, <3>3, <3>4, <3>6 DEF Inv, ObjectLockProtects
    <2> QED
      BY <2>1, <2>2 DEF DeleteRow, Inv, TypeOK
  <1>4. \A t \in Sessions : pc'[t] = "lock" => op'[t] \in {"put", "reap"}
    BY DEF DeleteRow, Inv, TypeOK
  <1>5. PutHasOneKey'
    BY DEF DeleteRow, Inv, TypeOK, PutHasOneKey
  <1> QED
    BY <1>1, <1>2, <1>3, <1>4, <1>5, SessionStep DEF DeleteRow

\* The delete trigger's row lock preserves it.
LEMMA LockDeletedInv ==
    ASSUME Inv, NEW s \in Sessions, NEW d \in Digests, LockDeleted(s, d)
    PROVE  Inv'
  <1>1. TypeOK'
    BY DEF LockDeleted, Inv, TypeOK, rows, session
  <1>2. DigestLockProtects' /\ ObjectLockProtects' /\ PutHasOneKey'
    BY DEF LockDeleted, Inv, rows, session, DigestLockProtects, ObjectLockProtects, PutHasOneKey
  <1> QED
    BY <1>1, <1>2, SessionStep DEF LockDeleted, Inv, session

\* The commit of a DELETE preserves it: it drops the references of the rows it locked.
LEMMA DeleteCommitInv ==
    ASSUME Inv, NEW s \in Sessions, DeleteCommit(s)
    PROVE  Inv'
  <1> DEFINE W == wrote[s]
             Named(e) == {k \in Keys : names[k] = e}
  <1>1. W \in SUBSET Keys
    BY DEF Inv, TypeOK
  <1>2. names' = [k \in Keys |-> IF k \in W THEN None ELSE names[k]]
    BY DEF DeleteCommit
  <1>3. ASSUME NEW e \in Digests
        PROVE  /\ refcount'[e] = Cardinality({k \in Keys : names'[k] = e})
               /\ refcount'[e] \in Nat
    <2>1. refcount[e] = Cardinality(Named(e))
      BY DEF Inv, RefcountExact
    <2>2. Dropped(s, e) = Named(e) \cap W
      BY <1>1 DEF Inv, ObjectLockProtects, Dropped
    <2>3. refcount'[e] = Cardinality(Named(e)) - Cardinality(Named(e) \cap W)
      BY <2>1, <2>2 DEF DeleteCommit
    <2>4. {k \in Keys : names'[k] = e} = Named(e) \ W
      BY <1>1, <1>2, ConstantsAssumption
    <2>5. /\ Cardinality(Named(e) \ W) \in Nat
          /\ Cardinality(Named(e) \ W) = Cardinality(Named(e)) - Cardinality(Named(e) \cap W)
      BY <1>1, CountDropped
    <2> QED
      BY <2>3, <2>4, <2>5
  <1>4. refcount' \in [Digests -> Nat]
    BY <1>3 DEF DeleteCommit
  <1>5. TypeOK'
    <2>1. names' \in [Keys -> Digests \cup {None}]
      BY <1>2 DEF Inv, TypeOK
    <2> QED
      BY <1>4, <2>1, EndTxType DEF DeleteCommit, Inv, TypeOK
  <1>6. /\ DigestLockProtects'
        /\ ObjectLockProtects'
        /\ PutHasOneKey'
        /\ \A t \in Sessions : pc'[t] = "lock" => op'[t] \in {"put", "reap"}
    BY <1>2, EndTxLocks DEF DeleteCommit
  <1>7. LiveHasBytes' /\ NoDanglingMetadata'
    BY <1>2 DEF DeleteCommit, Inv, LiveHasBytes, NoDanglingMetadata
  <1> QED
    BY <1>3, <1>5, <1>6, <1>7 DEF Inv, RefcountExact

\* The start of a GC run preserves it.
LEMMA StartRunInv ==
    ASSUME Inv, StartRun
    PROVE  Inv'
  <1>1. TypeOK'
    BY DEF StartRun, Inv, TypeOK, session, locks
  <1> QED
    BY <1>1 DEF StartRun, Inv, session, locks, DigestLockProtects, ObjectLockProtects,
                PutHasOneKey, LiveHasBytes, NoDanglingMetadata, RefcountExact

\* A digest that no row counts is a digest that no row names.
LEMMA UncountedIsUnnamed ==
    ASSUME Inv, NEW d \in Digests, refcount[d] = 0
    PROVE  \A k \in Keys : names[k] # d
  <1>1. IsFiniteSet({k \in Keys : names[k] = d})
    BY ConstantsAssumption, FS_Subset
  <1>2. Cardinality({k \in Keys : names[k] = d}) = 0
    BY DEF Inv, RefcountExact
  <1> QED
    BY <1>1, <1>2, FS_EmptySet

\* Marking an unreferenced blob pending preserves it.
LEMMA MarkInv ==
    ASSUME Inv, NEW d \in Digests, MarkBlobPendingDelete(d)
    PROVE  Inv'
  <1>1. \A k \in Keys : names[k] # d
    BY UncountedIsUnnamed DEF MarkBlobPendingDelete
  <1>2. TypeOK'
    BY DEF MarkBlobPendingDelete, Inv, TypeOK, session, locks
  <1>3. DigestLockProtects'
    BY DEF MarkBlobPendingDelete, Inv, TypeOK, session, locks, DigestLockProtects
  <1>4. NoDanglingMetadata'
    BY <1>1 DEF MarkBlobPendingDelete, Inv, TypeOK, NoDanglingMetadata
  <1> QED
    BY <1>2, <1>3, <1>4
    DEF MarkBlobPendingDelete, Inv, TypeOK, session, locks, ObjectLockProtects, PutHasOneKey,
        LiveHasBytes, RefcountExact

\* The reap's recheck preserves it.
LEMMA GetBlobForPhysicalDeleteInv ==
    ASSUME Inv, NEW s \in Sessions, GetBlobForPhysicalDelete(s)
    PROVE  Inv'
  <1>1. CASE Revived(digest[s]) /\ EndTx(s)
    BY <1>1, RollbackInv DEF GetBlobForPhysicalDelete
  <1>2. CASE /\ At(s, "reap", "probe")
             /\ ~Revived(digest[s])
             /\ rowLock' = [rowLock EXCEPT ![digest[s]] = s]
             /\ Goto(s, "unlink")
             /\ UNCHANGED <<begunBefore, digestLock, objectLock, rows, bytes>>
    <2>1. TypeOK'
      BY <1>2 DEF Goto, At, Inv, TypeOK, PCs, rows
    <2>2. DigestLockProtects'
      BY <1>2 DEF Goto, At, Revived, Inv, TypeOK, rows, DigestLockProtects
    <2>3. ObjectLockProtects'
      BY <1>2 DEF Goto, At, Inv, TypeOK, rows, ObjectLockProtects
    <2>4. \A t \in Sessions : pc'[t] = "lock" => op'[t] \in {"put", "reap"}
      BY <1>2 DEF Goto, Inv, TypeOK
    <2>5. PutHasOneKey'
      BY <1>2 DEF Goto, Inv, TypeOK, PutHasOneKey
    <2> QED
      BY <1>2, <2>1, <2>2, <2>3, <2>4, <2>5, SessionStep
  <1> QED
    BY <1>1, <1>2 DEF GetBlobForPhysicalDelete

\* Unlinking preserves it: the digest lock keeps every put of the digest out.
LEMMA UnlinkInv ==
    ASSUME Inv, NEW s \in Sessions, Unlink(s)
    PROVE  Inv'
  <1>1. /\ digest[s] \in Digests
        /\ digestLock[digest[s]] = s
        /\ state[digest[s]] = "pending_delete"
    BY DEF Unlink, At, Inv, DigestLockProtects
  <1>2. TypeOK'
    BY DEF Unlink, Goto, Inv, TypeOK, PCs, rows, locks
  <1>3. DigestLockProtects'
    BY <1>1 DEF Unlink, Goto, At, Inv, TypeOK, rows, locks, DigestLockProtects
  <1>4. ObjectLockProtects'
    BY DEF Unlink, Goto, At, Inv, TypeOK, rows, locks, ObjectLockProtects
  <1>5. LiveHasBytes' /\ NoDanglingMetadata'
    BY <1>1 DEF Unlink, Inv, TypeOK, rows, LiveHasBytes, NoDanglingMetadata
  <1>6. \A t \in Sessions : pc'[t] = "lock" => op'[t] \in {"put", "reap"}
    BY DEF Unlink, Goto, Inv, TypeOK
  <1>7. PutHasOneKey'
    BY DEF Unlink, Goto, Inv, TypeOK, PutHasOneKey
  <1> QED
    BY <1>2, <1>3, <1>4, <1>5, <1>6, <1>7 DEF Unlink, Inv, rows, RefcountExact

\* Removing the tombstone preserves it.
LEMMA ReapCommitInv ==
    ASSUME Inv, NEW s \in Sessions, ReapCommit(s)
    PROVE  Inv'
  <1>1. /\ digest[s] \in Digests
        /\ digestLock[digest[s]] = s
        /\ state[digest[s]] = "pending_delete"
    BY DEF ReapCommit, At, Inv, DigestLockProtects
  <1>2. state' = [state EXCEPT ![digest[s]] = "absent"]
    BY DEF ReapCommit
  <1>3. TypeOK'
    <2>1. state' \in [Digests -> {"absent", "live", "pending_delete"}]
      BY <1>2 DEF Inv, TypeOK
    <2> QED
      BY <2>1, EndTxType DEF ReapCommit, Inv, TypeOK
  <1>4. /\ DigestLockProtects'
        /\ ObjectLockProtects'
        /\ PutHasOneKey'
        /\ \A t \in Sessions : pc'[t] = "lock" => op'[t] \in {"put", "reap"}
    <2>1. \A e \in Digests : digestLock[e] # s => state'[e] = state[e]
      BY <1>1, <1>2 DEF Inv, TypeOK
    <2> QED
      BY <2>1, EndTxLocks DEF ReapCommit
  <1>5. LiveHasBytes' /\ NoDanglingMetadata'
    BY <1>1, <1>2 DEF ReapCommit, Inv, TypeOK, LiveHasBytes, NoDanglingMetadata
  <1> QED
    BY <1>3, <1>4, <1>5 DEF ReapCommit, Inv, RefcountExact

\* Every request's first step preserves it.
LEMMA ClientBeginInv ==
    ASSUME Inv, NEW s \in Clients, ClientBegin(s)
    PROVE  Inv'
  <1>1. ASSUME NEW k \in Keys, NEW d \in Digests, PutBegin(s, k, d) PROVE Inv'
    <2>1. bytes \subseteq bytes' /\ bytes' \subseteq Digests
      BY <1>1 DEF PutBegin, Inv, TypeOK
    <2> QED
      BY <1>1, <2>1, BeginInv DEF PutBegin, Sessions, Ops, PCs
  <1>2. ASSUME NEW k \in Keys, DeleteBegin(s, k) PROVE Inv'
    <2>1. bytes \subseteq bytes' /\ bytes' \subseteq Digests
      BY <1>2 DEF DeleteBegin, Inv, TypeOK
    <2> QED
      BY <1>2, <2>1, BeginInv DEF DeleteBegin, Sessions, Ops, PCs
  <1> QED
    BY <1>1, <1>2 DEF ClientBegin

\* Every first step of the collector preserves it.
LEMMA CollectorBeginInv ==
    ASSUME Inv, NEW s \in Collectors, CollectorBegin(s)
    PROVE  Inv'
  <1>1. ASSUME NEW page \in SUBSET Keys, SweepBegin(s, page) PROVE Inv'
    <2>1. {names[k] : k \in page} \in SUBSET Digests
      BY <1>1 DEF SweepBegin, Inv, TypeOK
    <2>2. Begin(s, "sweep", "prelock", None, page, {names[k] : k \in page})
      BY <1>1 DEF SweepBegin
    <2>3. bytes \subseteq bytes' /\ bytes' \subseteq Digests
      BY <1>1 DEF SweepBegin, Inv, TypeOK
    <2> QED
      BY <2>1, <2>2, <2>3, BeginInv DEF Sessions, Ops, PCs
  <1>2. ASSUME NEW d \in Digests, ReapBegin(s, d) PROVE Inv'
    <2>1. bytes \subseteq bytes' /\ bytes' \subseteq Digests
      BY <1>2 DEF ReapBegin, Inv, TypeOK
    <2> QED
      BY <1>2, <2>1, BeginInv DEF ReapBegin, Sessions, Ops, PCs
  <1> QED
    BY <1>1, <1>2 DEF CollectorBegin

\* Every step of a session preserves it.
LEMMA StepInv ==
    ASSUME Inv, NEW s \in Sessions, Step(s)
    PROVE  Inv'
  <1>1. CASE LockBlobDigest(s)
    BY <1>1, LockBlobDigestInv
  <1>2. CASE PutStep(s)
    BY <1>2, GetBlobForWriteInv, CommitBytesInv, PutObjectInv, LockReplacedInv, PutCommitInv
    DEF PutStep
  <1>3. CASE DeleteStep(s)
    BY <1>3, LockBlobDigestsInv, DeleteRowInv, LockDeletedInv, DeleteCommitInv
    DEF DeleteStep
  <1>4. CASE ReapStep(s)
    BY <1>4, GetBlobForPhysicalDeleteInv, UnlinkInv, ReapCommitInv DEF ReapStep
  <1> QED
    BY <1>1, <1>2, <1>3, <1>4 DEF Step

\* The invariant is inductive.
LEMMA NextInv == Inv /\ [Next]_vars => Inv'
  <1> SUFFICES ASSUME Inv, [Next]_vars PROVE Inv'
    OBVIOUS
  <1>1. ASSUME NEW s \in Sessions, Abort(s) PROVE Inv'
    BY <1>1, RollbackInv DEF Abort
  <1>2. CASE UNCHANGED vars
    BY <1>2 DEF vars, rows, session, locks, Inv, TypeOK, PutHasOneKey, DigestLockProtects,
                ObjectLockProtects, LiveHasBytes, NoDanglingMetadata, RefcountExact
  <1>3. CASE Next
    BY <1>1, <1>3, ClientBeginInv, CollectorBeginInv, StepInv, MarkInv, StartRunInv DEF Next
  <1> QED
    BY <1>2, <1>3

\* Inv is an invariant of the protocol, for any sets of keys, digests and sessions.
THEOREM Invariance == Spec => []Inv
  BY InitInv, NextInv, PTL DEF Spec

\* Type correctness of every reachable state of the protocol.
THEOREM TypeCorrect == Spec => []TypeOK
  <1>1. Inv => TypeOK
    BY DEF Inv
  <1> QED
    BY <1>1, Invariance, PTL

\* A blob whose row says 'live' has its bytes in storage, so a deduplicating Put
\* never elides an upload that was needed.
THEOREM LiveBlobsHaveBytes == Spec => []LiveHasBytes
  <1>1. Inv => LiveHasBytes
    BY DEF Inv
  <1> QED
    BY <1>1, Invariance, PTL

\* No object row names content that is not there, at any step of any operation.
THEOREM MetadataNeverDangles == Spec => []NoDanglingMetadata
  <1>1. Inv => NoDanglingMetadata
    BY DEF Inv
  <1> QED
    BY <1>1, Invariance, PTL

\* The trigger's refcounts are exact.
THEOREM RefcountsAreExact == Spec => []RefcountExact
  <1>1. Inv => RefcountExact
    BY DEF Inv
  <1> QED
    BY <1>1, Invariance, PTL

\* Every step of the protocol is a step of ContentStore, or leaves its names and
\* its contents alone.
LEMMA StepSimulation == Inv /\ [Next]_vars => [Promise!Next]_(Promise!vars)
  <1> SUFFICES ASSUME Inv, [Next]_vars
               PROVE  Promise!Next \/ UNCHANGED <<names, bytes>>
    BY DEF Promise!vars
  <1>1. ASSUME NEW s \in Sessions, CommitBytes(s) PROVE Promise!Next
    <2>1. digest[s] \in Digests
      BY <1>1 DEF CommitBytes, At, Inv, DigestLockProtects
    <2> QED
      BY <1>1, <2>1 DEF CommitBytes, rows, Promise!Next, Promise!Upload
  <1>2. ASSUME NEW s \in Sessions, PutCommit(s) PROVE Promise!Next \/ UNCHANGED <<names, bytes>>
    <2>1. digest[s] \in Digests /\ digest[s] \in bytes
      BY <1>2 DEF PutCommit, At, Inv, DigestLockProtects
    <2>2. names' = [k \in Keys |-> IF k \in wrote[s] THEN digest[s] ELSE names[k]]
      BY <1>2 DEF PutCommit
    <2>3. bytes' = bytes
      BY <1>2 DEF PutCommit
    <2>4. CASE wrote[s] = {}
      <3>1. names' = names
        BY <2>2, <2>4 DEF Inv, TypeOK
      <3> QED
        BY <2>3, <3>1
    <2>5. CASE wrote[s] # {}
      <3>1. PICK k \in Keys : keys[s] = {k}
        BY <1>2 DEF PutCommit, At, Inv, PutHasOneKey
      <3>2. \A j \in wrote[s] : j = k /\ (j \in Mutable \/ names[j] = None)
        BY <1>2, <3>1 DEF PutCommit, At, Inv, ObjectLockProtects
      <3>3. wrote[s] = {k}
        BY <2>5, <3>2
      <3>4. names' = [names EXCEPT ![k] = digest[s]]
        BY <2>2, <3>3 DEF Inv, TypeOK
      <3> QED
        BY <2>1, <2>3, <3>2, <3>3, <3>4 DEF Promise!Next, Promise!Bind
    <2> QED
      BY <2>4, <2>5
  <1>3. ASSUME NEW s \in Sessions, DeleteCommit(s) PROVE Promise!Next
    <2>1. wrote[s] \in SUBSET Keys
      BY DEF Inv, TypeOK
    <2>2. Promise!Unbind(wrote[s])
      BY <1>3 DEF DeleteCommit, Promise!Unbind
    <2> QED
      BY <2>1, <2>2 DEF Promise!Next
  <1>4. ASSUME NEW s \in Sessions, Unlink(s) PROVE Promise!Next
    <2>1. digest[s] \in Digests /\ state[digest[s]] = "pending_delete"
      BY <1>4 DEF Unlink, At, Inv, DigestLockProtects
    <2>2. \A k \in Keys : names[k] # digest[s]
      BY <2>1, ConstantsAssumption DEF Inv, NoDanglingMetadata
    <2> QED
      BY <1>4, <2>1, <2>2 DEF Unlink, rows, Promise!Next, Promise!Reclaim
  <1>5. ASSUME NEW s \in Sessions, Step(s) PROVE Promise!Next \/ UNCHANGED <<names, bytes>>
    <2>1. CASE LockBlobDigest(s)
      BY <2>1 DEF LockBlobDigest, rows
    <2>2. CASE PutStep(s)
      BY <1>1, <1>2, <2>2 DEF PutStep, GetBlobForWrite, PutObject, LockReplaced, rows
    <2>3. CASE DeleteStep(s)
      BY <1>3, <2>3 DEF DeleteStep, LockBlobDigests, DeleteRow, LockDeleted, rows
    <2>4. CASE ReapStep(s)
      BY <1>4, <2>4 DEF ReapStep, GetBlobForPhysicalDelete, ReapCommit, rows
    <2> QED
      BY <1>5, <2>1, <2>2, <2>3, <2>4 DEF Step
  <1>6. ASSUME NEW s \in Sessions, Abort(s) PROVE UNCHANGED <<names, bytes>>
    BY <1>6 DEF Abort, rows
  <1>7. ASSUME NEW s \in Clients, ClientBegin(s) PROVE Promise!Next \/ UNCHANGED <<names, bytes>>
    <2>1. ASSUME NEW k \in Keys, NEW d \in Digests, PutBegin(s, k, d)
          PROVE  Promise!Next \/ UNCHANGED <<names, bytes>>
      BY <2>1 DEF PutBegin, Begin, rows, Promise!Next, Promise!Upload
    <2>2. ASSUME NEW k \in Keys, DeleteBegin(s, k) PROVE UNCHANGED <<names, bytes>>
      BY <2>2 DEF DeleteBegin, Begin, rows
    <2> QED
      BY <1>7, <2>1, <2>2 DEF ClientBegin
  <1>8. ASSUME NEW s \in Collectors, CollectorBegin(s) PROVE UNCHANGED <<names, bytes>>
    BY <1>8 DEF CollectorBegin, SweepBegin, ReapBegin, Begin, rows
  <1>9. CASE UNCHANGED vars
    BY <1>9 DEF vars, rows
  <1>10. CASE Next
    BY <1>5, <1>6, <1>7, <1>8, <1>10 DEF Next, MarkBlobPendingDelete, StartRun
  <1> QED
    BY <1>9, <1>10

\* The protocol implements ContentStore: bytes first then metadata, metadata first
\* then bytes, and immutable keys bound once.
THEOREM Refinement == Spec => ImplementsContentStore
  <1>1. Init => Promise!Init
    BY DEF Init, Promise!Init
  <1> QED
    BY <1>1, Invariance, StepSimulation, PTL DEF Spec, ImplementsContentStore, Promise!Spec

-----------------------------------------------------------------------------
(* The write barrier *)

\* What FreshRowsSurviveTheRun rests on between the steps of a batch delete: every
\* row a sweep has taken is one the run saw, until the sweep ends.  Its own lock
\* keeps writers away from the row, and no new run starts meanwhile.
BarrierHolds ==
    \A s \in Sessions :
        /\ op[s] = "delete" => s \in Clients
        /\ op[s] = "sweep" => wrote[s] \subseteq visible

\* The end of a transaction that stamps only rows it holds leaves the sweeps of the
\* others with rows the run saw.
LEMMA EndTxBarrier ==
    ASSUME Inv, BarrierHolds, NEW s \in Sessions, EndTx(s),
           \A k \in Keys : k \in visible /\ k \notin wrote[s] => k \in visible'
    PROVE  BarrierHolds'
  <1> SUFFICES ASSUME NEW t \in Sessions
               PROVE  /\ op'[t] = "delete" => t \in Clients
                      /\ op'[t] = "sweep" => wrote'[t] \subseteq visible'
    BY DEF BarrierHolds
  <1>1. CASE t = s
    BY <1>1 DEF EndTx, Inv, TypeOK
  <1>2. CASE t # s
    <2>1. op'[t] = op[t] /\ wrote'[t] = wrote[t] /\ wrote[t] \subseteq Keys
      BY <1>2 DEF EndTx, Inv, TypeOK
    <2>2. wrote[t] \cap wrote[s] = {}
      BY <1>2 DEF Inv, ObjectLockProtects
    <2> QED
      BY <2>1, <2>2 DEF BarrierHolds
  <1> QED
    BY <1>1, <1>2

\* Steps inside a transaction.
LEMMA StepBarrier ==
    ASSUME Inv, BarrierHolds, NEW s \in Sessions, Step(s)
    PROVE  BarrierHolds'
  <1>1. CASE LockBlobDigest(s) \/ GetBlobForWrite(s) \/ CommitBytes(s) \/ LockReplaced(s) \/ Unlink(s)
    BY <1>1 DEF LockBlobDigest, GetBlobForWrite, CommitBytes, LockReplaced, Unlink, Goto, rows,
                BarrierHolds
  <1>2. CASE PutObject(s)
    <2>1. op[s] = "put" /\ op' = op /\ visible' = visible
      BY <1>2 DEF PutObject, WriteObject, Goto, At, rows
    <2>2. \A t \in Sessions \ {s} : wrote'[t] = wrote[t]
      BY <1>2 DEF PutObject, WriteObject, Goto, Inv, TypeOK
    <2> QED
      BY <2>1, <2>2 DEF BarrierHolds
  <1>3. CASE PutCommit(s)
    <2>1. digest[s] \in Digests
      BY <1>3 DEF PutCommit, At, Inv, DigestLockProtects
    <2> QED
      BY <1>3, <2>1, EndTxBarrier, ConstantsAssumption DEF PutCommit, Stamp
  <1>4. CASE LockBlobDigests(s)
    BY <1>4 DEF LockBlobDigests, rows, BarrierHolds
  <1>5. ASSUME NEW k \in Keys, DeleteRow(s, k) PROVE BarrierHolds'
    <2>1. op' = op /\ visible' = visible
      BY <1>5 DEF DeleteRow, rows
    <2>2. \A t \in Sessions \ {s} : wrote'[t] = wrote[t]
      BY <1>5 DEF DeleteRow, Inv, TypeOK
    <2>3. op[s] = "sweep" => \A j \in wrote'[s] : j \in wrote[s] \/ j \in visible
      BY <1>5 DEF DeleteRow, PassesBarrier, Inv, TypeOK
    <2> QED
      BY <2>1, <2>2, <2>3 DEF BarrierHolds
  <1>6. ASSUME NEW d \in Digests, LockDeleted(s, d) PROVE BarrierHolds'
    BY <1>6 DEF LockDeleted, rows, session, BarrierHolds
  <1>7. CASE DeleteCommit(s)
    BY <1>7, EndTxBarrier DEF DeleteCommit
  <1>8. CASE GetBlobForPhysicalDelete(s)
    BY <1>8, EndTxBarrier DEF GetBlobForPhysicalDelete, Goto, rows, BarrierHolds
  <1>9. CASE ReapCommit(s)
    <2>1. digest[s] \in Digests
      BY <1>9 DEF ReapCommit, At, Inv, DigestLockProtects
    <2> QED
      BY <1>9, <2>1, EndTxBarrier, ConstantsAssumption DEF ReapCommit
  <1> QED
    BY <1>1, <1>2, <1>3, <1>4, <1>5, <1>6, <1>7, <1>8, <1>9
    DEF Step, PutStep, DeleteStep, ReapStep

\* The barrier's invariant is inductive relative to Inv.
LEMMA NextBarrier == Inv /\ BarrierHolds /\ [Next]_vars => BarrierHolds'
  <1> SUFFICES ASSUME Inv, BarrierHolds, [Next]_vars PROVE BarrierHolds'
    OBVIOUS
  <1>1. ASSUME NEW s \in Clients, ClientBegin(s) PROVE BarrierHolds'
    BY <1>1 DEF ClientBegin, PutBegin, DeleteBegin, Begin, rows, Inv, TypeOK, BarrierHolds, Sessions
  <1>2. ASSUME NEW s \in Collectors, CollectorBegin(s) PROVE BarrierHolds'
    <2>1. op[s] = "none" /\ s \in Sessions
      BY <1>2 DEF CollectorBegin, SweepBegin, ReapBegin, Begin, Sessions
    <2>2. wrote[s] = {}
      BY <2>1 DEF Inv, ObjectLockProtects
    <2> QED
      BY <1>2, <2>1, <2>2
      DEF CollectorBegin, SweepBegin, ReapBegin, Begin, rows, Inv, TypeOK, BarrierHolds
  <1>3. ASSUME NEW s \in Sessions, Abort(s) PROVE BarrierHolds'
    BY <1>3, EndTxBarrier DEF Abort, rows
  <1>4. ASSUME NEW d \in Digests, MarkBlobPendingDelete(d) PROVE BarrierHolds'
    BY <1>4 DEF MarkBlobPendingDelete, session, BarrierHolds
  <1>5. CASE StartRun
    BY <1>5 DEF StartRun, session, BarrierHolds
  <1>6. CASE UNCHANGED vars
    BY <1>6 DEF vars, rows, session, BarrierHolds
  <1> QED
    BY <1>1, <1>2, <1>3, <1>4, <1>5, <1>6, StepBarrier DEF Next

\* What a step may never do to a row the run did not see.
LEMMA FreshRowsStep ==
    ASSUME Inv, BarrierHolds, [Next]_vars
    PROVE  /\ \A k \in Keys : names[k] # None /\ names'[k] = None /\ k \notin visible
                  => \E s \in Clients : At(s, "delete", "object") /\ op'[s] = "none"
           /\ \A d \in Digests : d \notin visible =>
                  ~(state[d] = "live" /\ state'[d] = "pending_delete")
  <1> DEFINE Spares == /\ \A k \in Keys : names[k] # None /\ names'[k] = None /\ k \notin visible
                              => \E s \in Clients : At(s, "delete", "object") /\ op'[s] = "none"
                       /\ \A d \in Digests : d \notin visible =>
                              ~(state[d] = "live" /\ state'[d] = "pending_delete")
             Still == UNCHANGED <<names, state>>
  <1>1. Still => Spares
    OBVIOUS
  <1>2. ASSUME NEW s \in Sessions, PutCommit(s) PROVE Spares
    <2>1. digest[s] \in Digests
      BY <1>2 DEF PutCommit, At, Inv, DigestLockProtects
    <2> QED
      BY <1>2, <2>1, ConstantsAssumption DEF PutCommit, Inv, TypeOK
  <1>3. ASSUME NEW s \in Sessions, DeleteCommit(s) PROVE Spares
    <2>1. state' = state /\ op'[s] = "none"
      BY <1>3 DEF DeleteCommit, EndTx, Inv, TypeOK
    <2>2. ASSUME NEW k \in Keys, names[k] # None, names'[k] = None, k \notin visible
          PROVE  s \in Clients /\ At(s, "delete", "object")
      <3>1. k \in wrote[s]
        BY <1>3, <2>2 DEF DeleteCommit
      <3> QED
        BY <1>3, <2>2, <3>1 DEF DeleteCommit, BarrierHolds, At
    <2> QED
      BY <2>1, <2>2
  <1>4. ASSUME NEW s \in Sessions, ReapCommit(s) PROVE Spares
    <2>1. digest[s] \in Digests
      BY <1>4 DEF ReapCommit, At, Inv, DigestLockProtects
    <2> QED
      BY <1>4, <2>1 DEF ReapCommit, Inv, TypeOK
  <1>5. ASSUME NEW d \in Digests, MarkBlobPendingDelete(d) PROVE Spares
    BY <1>5 DEF MarkBlobPendingDelete, PassesBarrier, Inv, TypeOK
  <1>6. ASSUME NEW s \in Sessions, Step(s) PROVE Spares
    <2>1. CASE LockBlobDigest(s)
      BY <1>1, <2>1 DEF LockBlobDigest, rows
    <2>2. CASE PutStep(s)
      BY <1>1, <1>2, <2>2
      DEF PutStep, GetBlobForWrite, CommitBytes, PutObject, LockReplaced, rows
    <2>3. CASE DeleteStep(s)
      BY <1>1, <1>3, <2>3 DEF DeleteStep, LockBlobDigests, DeleteRow, LockDeleted, rows
    <2>4. CASE ReapStep(s)
      BY <1>1, <1>4, <2>4 DEF ReapStep, GetBlobForPhysicalDelete, Unlink, rows
    <2> QED
      BY <1>6, <2>1, <2>2, <2>3, <2>4 DEF Step
  <1>7. ASSUME NEW s \in Sessions, ClientBegin(s) \/ CollectorBegin(s) \/ Abort(s) PROVE Still
    BY <1>7 DEF ClientBegin, PutBegin, DeleteBegin, CollectorBegin, SweepBegin, ReapBegin, Begin,
                Abort, rows
  <1>8. CASE StartRun \/ UNCHANGED vars
    BY <1>8 DEF StartRun, vars, rows
  <1> QED
    BY <1>1, <1>5, <1>6, <1>7, <1>8 DEF Next, Sessions

\* The write barrier: no run ever deletes an object row, or condemns a blob, that was
\* written after it started, whatever transactions were in flight when it did.
THEOREM WriteBarrier == Spec => FreshRowsSurviveTheRun
  <1>1. Init => BarrierHolds
    BY DEF Init, BarrierHolds
  <1> QED
    BY <1>1, Invariance, NextBarrier, FreshRowsStep, PTL DEF Spec, FreshRowsSurviveTheRun

-----------------------------------------------------------------------------
(* Deadlock freedom of immutable traffic.                                  *)
(*                                                                         *)
(* The locks have an order: advisory lock, then rows of blobs, then object *)
(* rows.  A put of an immutable key and a reap hold one blobs row, their   *)
(* own digest's; a sweep takes the blobs rows of its page in digest order  *)
(* before it touches an object row.  So nobody who waits for an object row *)
(* can be part of a cycle, and a cycle of sweeps would have to climb       *)
(* through the digests for ever.                                           *)

\* The steps at which each kind of transaction can be.
Stages ==
    \A s \in Sessions :
        \/ op[s] = "none" /\ pc[s] = "idle"
        \/ op[s] = "put" /\ pc[s] \in {"lock", "probe", "upload", "object", "trigger", "commit"}
        \/ op[s] = "delete" /\ pc[s] = "object"
        \/ op[s] = "sweep" /\ pc[s] \in {"prelock", "object"}
        \/ op[s] = "reap" /\ pc[s] \in {"lock", "probe", "unlink", "commit"}

\* A put that serves an immutable key.
ImmutablePut(s) == op[s] = "put" /\ keys[s] \cap Mutable = {}

\* The advisory lock of a digest is held by the put or reap of that digest.
DigestLocksAreUsed ==
    \A d \in Digests : \A t \in Sessions : digestLock[d] = t =>
        op[t] \in {"put", "reap"} /\ digest[t] = d /\ pc[t] # "lock"

\* An object row is held by the transaction that wrote it.
ObjectLocksAreUsed ==
    \A k \in Keys : \A t \in Sessions : objectLock[k] = t => k \in wrote[t]

\* Who holds a blobs row.  A put of an immutable key and a reap hold no row but their
\* digest's, past their probe; a sweep holds rows below those it has yet to lock; a row
\* that is not there yet is held by the put that is creating it.
RowLocksAreOrdered ==
    \A d \in Digests : \A t \in Sessions : rowLock[d] = t =>
        /\ op[t] # "none"
        /\ ImmutablePut(t) => digest[t] = d
        /\ op[t] = "put" => pc[t] \notin {"lock", "probe"}
        /\ op[t] = "reap" => digest[t] = d /\ pc[t] \in {"unlink", "commit"}
        /\ op[t] = "sweep" => \A e \in todo[t] : d < e
        /\ state[d] = "absent" =>
              op[t] = "put" /\ digest[t] = d /\ pc[t] \in {"trigger", "commit"}

\* Between its probe and the row it creates or revives, a put holds the row or there is
\* none that another could hold; a reap past its recheck holds the row.
ProbedRowsAreFree ==
    \A s \in Sessions :
        /\ op[s] = "put" /\ pc[s] \in {"upload", "object"} =>
              \/ rowLock[digest[s]] = s
              \/ state[digest[s]] = "absent" /\ rowLock[digest[s]] = None
        /\ op[s] = "reap" /\ pc[s] \in {"unlink", "commit"} => rowLock[digest[s]] = s

\* A put of an immutable key never replaces a row, so no trigger makes it wait.
ImmutablePutsReplaceNothing ==
    \A s \in Sessions : ImmutablePut(s) => pc[s] # "trigger"

\* A sweep has locked, or is about to lock, the digest of every row it may still delete:
\* a row whose digest changed since the scan was written again and fails the barrier.
SweepsAreLockedAhead ==
    \A s \in Sessions : op[s] = "sweep" =>
        /\ pc[s] = "object" => todo[s] = {}
        /\ pc[s] = "prelock" => wrote[s] = {}
        /\ \A k \in keys[s] \cup wrote[s] : k \in visible /\ names[k] # None =>
              names[k] \in todo[s] \/ rowLock[names[k]] = s

\* Every row the run can see is there.
VisibleRowsExist == \A k \in Keys : k \in visible => names[k] # None

\* The lock discipline, inductive relative to Inv and BarrierHolds.
LocksInOrder ==
    /\ Stages
    /\ DigestLocksAreUsed
    /\ ObjectLocksAreUsed
    /\ RowLocksAreOrdered
    /\ ProbedRowsAreFree
    /\ ImmutablePutsReplaceNothing
    /\ SweepsAreLockedAhead
    /\ VisibleRowsExist

\* A bounded set of digests has a highest one.
LEMMA Highest ==
    ASSUME NEW n \in Nat, NEW M \in SUBSET (0 .. n), M # {}
    PROVE  \E m \in M : \A x \in M : x <= m
  <1> DEFINE R == OpToRel(<, Nat)
             T == {t \in Nat : \E m \in M : t = n - m}
  <1> HIDE DEF R
  <1>1. T \subseteq Nat /\ T # {}
    <2>1. PICK m \in M : TRUE
      OBVIOUS
    <2>2. n - m \in T
      OBVIOUS
    <2> QED
      BY <2>2
  <1>2. \E x \in T : \A y \in T : <<y, x>> \notin R
    <2> HIDE DEF T
    <2>1. IsWellFoundedOn(R, Nat)
      BY NatLessThanWellFounded DEF R
    <2> QED
      BY <1>1, <2>1, WFMin
  <1>3. PICK x \in T : \A y \in T : <<y, x>> \notin R
    BY <1>2
  <1>4. \A y \in T : ~(y < x)
    BY <1>1, <1>3 DEF R, OpToRel
  <1>5. PICK m \in M : x = n - m
    OBVIOUS
  <1>6. ASSUME NEW z \in M PROVE z <= m
    <2>1. n - z \in T
      OBVIOUS
    <2> QED
      BY <1>4, <1>5, <2>1
  <1> QED
    BY <1>6

\* All that a step may assume.
Ordered == Inv /\ BarrierHolds /\ LocksInOrder

\* Initially nothing is locked.
LEMMA InitOrder == Init => LocksInOrder
  BY ConstantsAssumption
  DEF Init, LocksInOrder, Stages, DigestLocksAreUsed, ObjectLocksAreUsed, RowLocksAreOrdered,
      ProbedRowsAreFree, ImmutablePutsReplaceNothing, SweepsAreLockedAhead, ImmutablePut,
      VisibleRowsExist

\* A transaction that ends gives back only its own locks, and what it committed is hidden
\* from the run that is sweeping.
LEMMA EndTxOrder ==
    ASSUME Ordered, NEW s \in Sessions, EndTx(s),
           \A k \in Keys : k \in visible' => k \in visible /\ names'[k] = names[k],
           \A d \in Digests : digestLock[d] # s => state'[d] = state[d],
           \A d \in Digests : state'[d] = "absent" => state[d] = "absent" \/ rowLock[d] = s
    PROVE  LocksInOrder'
  <1>1. Stages'
    BY DEF Ordered, LocksInOrder, Inv, TypeOK, EndTx, Stages
  <1>2. DigestLocksAreUsed'
    BY ConstantsAssumption DEF Ordered, LocksInOrder, Inv, TypeOK, EndTx, DigestLocksAreUsed
  <1>3. ObjectLocksAreUsed'
    BY ConstantsAssumption DEF Ordered, LocksInOrder, Inv, TypeOK, EndTx, ObjectLocksAreUsed
  <1>4. RowLocksAreOrdered'
    BY ConstantsAssumption
    DEF Ordered, LocksInOrder, Inv, TypeOK, EndTx, RowLocksAreOrdered, ImmutablePut
  <1>5. ProbedRowsAreFree'
    <2> SUFFICES ASSUME NEW t \in Sessions, op'[t] \in {"put", "reap"}, pc'[t] # "lock"
                 PROVE  /\ op'[t] = "put" /\ pc'[t] \in {"upload", "object"} =>
                              \/ rowLock'[digest'[t]] = t
                              \/ state'[digest'[t]] = "absent" /\ rowLock'[digest'[t]] = None
                        /\ op'[t] = "reap" /\ pc'[t] \in {"unlink", "commit"} =>
                              rowLock'[digest'[t]] = t
      BY DEF ProbedRowsAreFree
    <2>1. t # s /\ op[t] = op'[t] /\ pc[t] = pc'[t] /\ digest'[t] = digest[t]
      BY DEF Ordered, Inv, TypeOK, EndTx
    <2>2. digest[t] \in Digests /\ digestLock[digest[t]] = t
      BY <2>1 DEF Ordered, Inv, DigestLockProtects
    <2> QED
      BY <2>1, <2>2 DEF Ordered, LocksInOrder, ProbedRowsAreFree, EndTx
  <1>6. ImmutablePutsReplaceNothing'
    BY DEF Ordered, LocksInOrder, Inv, TypeOK, EndTx, ImmutablePutsReplaceNothing, ImmutablePut
  <1>7. SweepsAreLockedAhead'
    <2> SUFFICES ASSUME NEW t \in Sessions, op'[t] = "sweep"
                 PROVE  /\ pc'[t] = "object" => todo'[t] = {}
                        /\ pc'[t] = "prelock" => wrote'[t] = {}
                        /\ \A k \in keys'[t] \cup wrote'[t] : k \in visible' /\ names'[k] # None =>
                              names'[k] \in todo'[t] \/ rowLock'[names'[k]] = t
      BY DEF SweepsAreLockedAhead
    <2>1. /\ t # s /\ op[t] = "sweep" /\ pc[t] = pc'[t] /\ todo'[t] = todo[t]
          /\ keys'[t] = keys[t] /\ wrote'[t] = wrote[t]
      BY DEF Ordered, Inv, TypeOK, EndTx
    <2>2. ASSUME NEW k \in keys[t] \cup wrote[t], k \in visible', names'[k] # None
          PROVE  names'[k] \in todo[t] \/ rowLock'[names'[k]] = t
      <3>1. k \in Keys /\ k \in visible /\ names'[k] = names[k] /\ names[k] \in Digests
        BY <2>2 DEF Ordered, Inv, TypeOK
      <3> QED
        BY <2>1, <2>2, <3>1 DEF Ordered, LocksInOrder, SweepsAreLockedAhead, EndTx
    <2> QED
      BY <2>1, <2>2 DEF Ordered, LocksInOrder, SweepsAreLockedAhead
  <1>8. VisibleRowsExist'
    BY DEF Ordered, LocksInOrder, VisibleRowsExist
  <1> QED
    BY <1>1, <1>2, <1>3, <1>4, <1>5, <1>6, <1>7, <1>8 DEF LocksInOrder

\* Beginning a transaction: an idle session holds nothing.
LEMMA BeginOrder ==
    ASSUME Ordered, NEW s \in Sessions, NEW o, NEW p, NEW d, NEW ks \in SUBSET Keys, NEW ds,
           Begin(s, o, p, d, ks, ds),
           \/ o = "put" /\ p = "lock"
           \/ o = "delete" /\ p = "object"
           \/ o = "reap" /\ p = "lock"
           \/ o = "sweep" /\ p = "prelock" /\ \A k \in ks : names[k] \in ds
    PROVE  LocksInOrder'
  <1>1. /\ op[s] = "none" /\ UNCHANGED <<rows, wrote, old, locks>>
        /\ op' = [op EXCEPT ![s] = o] /\ pc' = [pc EXCEPT ![s] = p]
        /\ digest' = [digest EXCEPT ![s] = d] /\ keys' = [keys EXCEPT ![s] = ks]
        /\ todo' = [todo EXCEPT ![s] = ds]
    BY DEF Begin
  <1>2. wrote[s] = {}
    BY <1>1 DEF Ordered, Inv, ObjectLockProtects
  <1>3. \A e \in Digests : rowLock[e] # s /\ digestLock[e] # s
    BY <1>1 DEF Ordered, LocksInOrder, RowLocksAreOrdered, DigestLocksAreUsed
  <1>4. Stages'
    BY <1>1 DEF Ordered, LocksInOrder, Inv, TypeOK, Stages
  <1>5. DigestLocksAreUsed'
    BY <1>1, <1>3 DEF Ordered, LocksInOrder, Inv, TypeOK, DigestLocksAreUsed, locks
  <1>6. ObjectLocksAreUsed'
    BY <1>1 DEF Ordered, LocksInOrder, ObjectLocksAreUsed, locks
  <1>7. RowLocksAreOrdered'
    BY <1>1, <1>3 DEF Ordered, LocksInOrder, Inv, TypeOK, RowLocksAreOrdered, ImmutablePut, rows, locks
  <1>8. ProbedRowsAreFree'
    BY <1>1 DEF Ordered, LocksInOrder, Inv, TypeOK, ProbedRowsAreFree, rows, locks
  <1>9. ImmutablePutsReplaceNothing'
    BY <1>1 DEF Ordered, LocksInOrder, Inv, TypeOK, ImmutablePutsReplaceNothing, ImmutablePut
  <1>10. SweepsAreLockedAhead'
    BY <1>1, <1>2 DEF Ordered, LocksInOrder, Inv, TypeOK, SweepsAreLockedAhead, rows, locks
  <1>11. VisibleRowsExist'
    BY <1>1 DEF Ordered, LocksInOrder, VisibleRowsExist, rows
  <1> QED
    BY <1>4, <1>5, <1>6, <1>7, <1>8, <1>9, <1>10, <1>11 DEF LocksInOrder

\* Taking the advisory lock.
LEMMA LockBlobDigestOrder ==
    ASSUME Ordered, NEW s \in Sessions, LockBlobDigest(s)
    PROVE  LocksInOrder'
  <1>1. /\ pc[s] = "lock" /\ pc' = [pc EXCEPT ![s] = "probe"] /\ op[s] \in {"put", "reap"}
        /\ digestLock[digest[s]] = None /\ digestLock' = [digestLock EXCEPT ![digest[s]] = s]
        /\ UNCHANGED <<rows, op, digest, keys, todo, wrote, old, rowLock, objectLock>>
    BY DEF LockBlobDigest, Goto, Ordered, Inv
  <1>2. Stages'
    BY <1>1 DEF Ordered, LocksInOrder, Inv, TypeOK, Stages
  <1>3. DigestLocksAreUsed'
    BY <1>1 DEF Ordered, LocksInOrder, Inv, TypeOK, DigestLocksAreUsed
  <1>4. ObjectLocksAreUsed'
    BY <1>1 DEF Ordered, LocksInOrder, ObjectLocksAreUsed
  <1>5. RowLocksAreOrdered'
    BY <1>1 DEF Ordered, LocksInOrder, Inv, TypeOK, RowLocksAreOrdered, ImmutablePut, rows
  <1>6. ProbedRowsAreFree'
    BY <1>1 DEF Ordered, LocksInOrder, Inv, TypeOK, ProbedRowsAreFree, rows
  <1>7. ImmutablePutsReplaceNothing'
    BY <1>1 DEF Ordered, LocksInOrder, Inv, TypeOK, ImmutablePutsReplaceNothing, ImmutablePut
  <1>8. SweepsAreLockedAhead'
    BY <1>1 DEF Ordered, LocksInOrder, Inv, TypeOK, SweepsAreLockedAhead, rows
  <1>9. VisibleRowsExist'
    BY <1>1 DEF Ordered, LocksInOrder, VisibleRowsExist, rows
  <1> QED
    BY <1>2, <1>3, <1>4, <1>5, <1>6, <1>7, <1>8, <1>9 DEF LocksInOrder

\* A step of s that takes one blobs row, or none, and goes on.  It may take the row when
\* its place in the order allows it.
TakesRow(s, d, p) ==
    /\ pc' = [pc EXCEPT ![s] = p]
    /\ rowLock' \in {rowLock, [rowLock EXCEPT ![d] = s]}
    /\ UNCHANGED <<rows, op, digest, keys, todo, wrote, old, digestLock, objectLock>>

\* What such a step owes to the lock discipline.
LEMMA TakesRowOrder ==
    ASSUME Ordered, NEW s \in Sessions, NEW d \in Digests, NEW p, TakesRow(s, d, p),
           Stages', rowLock[d] \in {None, s},
           op[s] # "none",
           ImmutablePut(s) => digest[s] = d /\ p # "trigger",
           op[s] \in {"put", "reap"} => p # "lock",
           op[s] = "put" => p # "probe",
           op[s] = "reap" => digest[s] = d /\ p \in {"unlink", "commit"},
           op[s] = "sweep" => todo[s] = {} /\ p = "object",
           op[s] = "reap" => rowLock'[d] = s,
           pc[s] \in {"trigger", "commit"} => p \in {"trigger", "commit"},
           state[d] # "absent" \/ rowLock' = rowLock,
           op[s] = "put" /\ p \in {"upload", "object"} =>
              \/ rowLock'[digest[s]] = s
              \/ state[digest[s]] = "absent" /\ rowLock'[digest[s]] = None
    PROVE  LocksInOrder'
  <1>1. DigestLocksAreUsed'
    BY DEF TakesRow, Ordered, LocksInOrder, Inv, TypeOK, DigestLocksAreUsed
  <1>2. ObjectLocksAreUsed'
    BY DEF TakesRow, Ordered, LocksInOrder, ObjectLocksAreUsed
  <1>3. RowLocksAreOrdered'
    <2>1. ASSUME NEW e \in Digests, NEW t \in Sessions, rowLock'[e] = t, t # s
          PROVE  rowLock[e] = t /\ pc'[t] = pc[t]
      BY <2>1 DEF TakesRow, Ordered, Inv, TypeOK
    <2>2. ASSUME NEW e \in Digests, rowLock'[e] = s
          PROVE  (rowLock[e] = s \/ e = d) /\ pc'[s] = p
      BY <2>2 DEF TakesRow, Ordered, Inv, TypeOK
    <2> QED
      BY <2>1, <2>2 DEF TakesRow, Ordered, LocksInOrder, RowLocksAreOrdered, ImmutablePut, rows
  <1>4. ProbedRowsAreFree'
    <2> SUFFICES ASSUME NEW t \in Sessions, op'[t] \in {"put", "reap"}, pc'[t] # "lock"
                 PROVE  /\ op'[t] = "put" /\ pc'[t] \in {"upload", "object"} =>
                              \/ rowLock'[digest'[t]] = t
                              \/ state'[digest'[t]] = "absent" /\ rowLock'[digest'[t]] = None
                        /\ op'[t] = "reap" /\ pc'[t] \in {"unlink", "commit"} =>
                              rowLock'[digest'[t]] = t
      BY DEF ProbedRowsAreFree
    <2>1. CASE t = s
      BY <2>1 DEF TakesRow, Ordered, Inv, TypeOK, rows
    <2>2. CASE t # s
      <3>1. op[t] = op'[t] /\ pc[t] = pc'[t] /\ digest'[t] = digest[t] /\ state' = state
        BY <2>2 DEF TakesRow, Ordered, Inv, TypeOK, rows
      <3>2. digest[t] \in Digests /\ digestLock[digest[t]] = t
        BY <3>1 DEF Ordered, Inv, DigestLockProtects
      <3>3. ASSUME rowLock[digest[t]] = t PROVE rowLock'[digest[t]] = t
        <4>1. digest[t] # d
          BY <2>2, <3>3, ConstantsAssumption
        <4> QED
          BY <3>2, <3>3, <4>1 DEF TakesRow, Ordered, Inv, TypeOK
      <3>4. ASSUME state[digest[t]] = "absent", rowLock[digest[t]] = None
            PROVE  rowLock'[digest[t]] = None
        BY <3>2, <3>4 DEF TakesRow, Ordered, Inv, TypeOK
      <3> QED
        BY <3>1, <3>3, <3>4 DEF Ordered, LocksInOrder, ProbedRowsAreFree
    <2> QED
      BY <2>1, <2>2
  <1>5. ImmutablePutsReplaceNothing'
    BY DEF TakesRow, Ordered, LocksInOrder, Inv, TypeOK, ImmutablePutsReplaceNothing, ImmutablePut
  <1>6. SweepsAreLockedAhead'
    <2> SUFFICES ASSUME NEW t \in Sessions, op'[t] = "sweep"
                 PROVE  /\ pc'[t] = "object" => todo'[t] = {}
                        /\ pc'[t] = "prelock" => wrote'[t] = {}
                        /\ \A k \in keys'[t] \cup wrote'[t] : k \in visible' /\ names'[k] # None =>
                              names'[k] \in todo'[t] \/ rowLock'[names'[k]] = t
      BY DEF SweepsAreLockedAhead
    <2>1. (pc'[t] = "object" => todo'[t] = {}) /\ (pc'[t] = "prelock" => wrote'[t] = {})
      BY DEF TakesRow, Ordered, LocksInOrder, Inv, TypeOK, SweepsAreLockedAhead
    <2>2. ASSUME NEW k \in keys[t] \cup wrote[t], k \in visible, names[k] # None
          PROVE  names[k] \in todo[t] \/ rowLock'[names[k]] = t
      <3>1. names[k] \in Digests
        BY <2>2 DEF Ordered, Inv, TypeOK
      <3>2. names[k] \in todo[t] \/ rowLock[names[k]] = t
        BY <2>2 DEF TakesRow, Ordered, LocksInOrder, SweepsAreLockedAhead
      <3>3. ASSUME rowLock[names[k]] = t PROVE rowLock'[names[k]] = t
        <4>1. CASE names[k] = d
          BY <3>3, <4>1, ConstantsAssumption DEF TakesRow, Ordered, Inv, TypeOK
        <4>2. CASE names[k] # d
          BY <3>1, <3>3, <4>2 DEF TakesRow, Ordered, Inv, TypeOK
        <4> QED
          BY <4>1, <4>2
      <3> QED
        BY <3>2, <3>3
    <2> QED
      BY <2>1, <2>2 DEF TakesRow, rows
  <1>7. VisibleRowsExist'
    BY DEF TakesRow, Ordered, LocksInOrder, VisibleRowsExist, rows
  <1> QED
    BY <1>1, <1>2, <1>3, <1>4, <1>5, <1>6, <1>7 DEF LocksInOrder

\* Put's probe: it takes its own digest's row, if there is one.
LEMMA GetBlobForWriteOrder ==
    ASSUME Ordered, NEW s \in Sessions, GetBlobForWrite(s)
    PROVE  LocksInOrder'
  <1>1. op[s] = "put" /\ pc[s] = "probe"
    BY DEF GetBlobForWrite, At
  <1>2. digest[s] \in Digests /\ digestLock[digest[s]] = s
    BY <1>1 DEF Ordered, Inv, DigestLockProtects
  <1>3. ASSUME NEW p \in {"upload", "object"}, TakesRow(s, digest[s], p),
               rowLock[digest[s]] \in {None, s},
               state[digest[s]] # "absent" \/ rowLock' = rowLock,
               \/ rowLock'[digest[s]] = s
               \/ state[digest[s]] = "absent" /\ rowLock'[digest[s]] = None
        PROVE  LocksInOrder'
    <2>1. Stages'
      BY <1>1, <1>3 DEF TakesRow, Ordered, LocksInOrder, Inv, TypeOK, Stages
    <2> QED
      BY <1>1, <1>2, <1>3, <2>1, TakesRowOrder
  <1>4. CASE state[digest[s]] = "absent" /\ Goto(s, "upload") /\ UNCHANGED rowLock
    <2>1. rowLock[digest[s]] = None
      <3>1. rowLock[digest[s]] \in Sessions \cup {None}
        BY <1>2 DEF Ordered, Inv, TypeOK
      <3>2. ASSUME NEW t \in Sessions, rowLock[digest[s]] = t PROVE FALSE
        BY <1>1, <1>2, <1>4, <3>2 DEF Ordered, LocksInOrder, RowLocksAreOrdered, Inv, DigestLockProtects
      <3> QED
        BY <3>1, <3>2
    <2> QED
      BY <1>3, <1>4, <2>1 DEF TakesRow, Goto, GetBlobForWrite
  <1>5. CASE /\ state[digest[s]] # "absent" /\ rowLock[digest[s]] = None
             /\ rowLock' = [rowLock EXCEPT ![digest[s]] = s]
             /\ Goto(s, IF state[digest[s]] = "live" THEN "object" ELSE "upload")
    <2>1. rowLock'[digest[s]] = s
      BY <1>2, <1>5 DEF Ordered, Inv, TypeOK
    <2> QED
      BY <1>3, <1>5, <2>1 DEF TakesRow, Goto, GetBlobForWrite
  <1> QED
    BY <1>4, <1>5 DEF GetBlobForWrite

\* Naming the staged bytes takes no lock.
LEMMA CommitBytesOrder ==
    ASSUME Ordered, NEW s \in Sessions, CommitBytes(s)
    PROVE  LocksInOrder'
  <1>1. op[s] = "put" /\ pc[s] = "upload"
    BY DEF CommitBytes, At
  <1>2. digest[s] \in Digests
    BY <1>1 DEF Ordered, Inv, DigestLockProtects
  <1>3. \/ rowLock[digest[s]] = s
        \/ state[digest[s]] = "absent" /\ rowLock[digest[s]] = None
    BY <1>1 DEF Ordered, LocksInOrder, ProbedRowsAreFree
  <1>4. TakesRow(s, digest[s], "object") /\ rowLock' = rowLock
    BY DEF CommitBytes, Goto, TakesRow, locks
  <1>5. Stages'
    BY <1>1, <1>4 DEF TakesRow, Ordered, LocksInOrder, Inv, TypeOK, Stages
  <1> QED
    BY <1>1, <1>2, <1>3, <1>4, <1>5, TakesRowOrder

\* The digest of a row that a transaction has taken is a live blob's.
LEMMA OldDigestsAreLive ==
    ASSUME Inv, NEW s \in Sessions, NEW d \in OldDigests(s)
    PROVE  d \in Digests /\ state[d] = "live" /\ \E k \in wrote[s] : names[k] = d
  BY DEF OldDigests, Inv, TypeOK, ObjectLockProtects, NoDanglingMetadata

\* The trigger of an overwrite.
LEMMA LockReplacedOrder ==
    ASSUME Ordered, NEW s \in Sessions, LockReplaced(s)
    PROVE  LocksInOrder'
  <1>1. op[s] = "put" /\ pc[s] = "trigger" /\ ~ImmutablePut(s)
    BY DEF LockReplaced, At, Ordered, LocksInOrder, ImmutablePutsReplaceNothing
  <1>2. PICK d \in OldDigests(s) : rowLock[d] = None /\ rowLock' = [rowLock EXCEPT ![d] = s]
    BY DEF LockReplaced
  <1>3. d \in Digests /\ state[d] # "absent"
    BY OldDigestsAreLive DEF Ordered
  <1>4. TakesRow(s, d, "commit")
    BY <1>2 DEF LockReplaced, Goto, TakesRow
  <1>5. Stages'
    BY <1>1, <1>4 DEF TakesRow, Ordered, LocksInOrder, Inv, TypeOK, Stages
  <1> QED
    BY <1>1, <1>2, <1>3, <1>4, <1>5, TakesRowOrder

\* The trigger of a delete.
LEMMA LockDeletedOrder ==
    ASSUME Ordered, NEW s \in Sessions, NEW d \in Digests, LockDeleted(s, d)
    PROVE  LocksInOrder'
  <1>1. op[s] \in {"delete", "sweep"} /\ pc[s] = "object" /\ d \in OldDigests(s)
    BY DEF LockDeleted
  <1>2. op[s] = "sweep" => todo[s] = {}
    BY <1>1 DEF Ordered, LocksInOrder, SweepsAreLockedAhead
  <1>3. rowLock[d] = None /\ state[d] # "absent"
    BY <1>1, OldDigestsAreLive DEF LockDeleted, Ordered
  <1>4. TakesRow(s, d, "object")
    BY <1>1 DEF LockDeleted, TakesRow, session, Ordered, Inv, TypeOK
  <1>5. Stages'
    BY <1>1, <1>4 DEF TakesRow, Ordered, LocksInOrder, Inv, TypeOK, Stages
  <1> QED
    BY <1>1, <1>2, <1>3, <1>4, <1>5, TakesRowOrder DEF ImmutablePut

\* The reaper's recheck takes the row it will remove, or rolls back.
LEMMA GetBlobForPhysicalDeleteOrder ==
    ASSUME Ordered, NEW s \in Sessions, GetBlobForPhysicalDelete(s)
    PROVE  LocksInOrder'
  <1>1. op[s] = "reap" /\ pc[s] = "probe" /\ digest[s] \in Digests
    BY DEF GetBlobForPhysicalDelete, At, Ordered, Inv, DigestLockProtects
  <1>2. CASE Revived(digest[s]) /\ EndTx(s)
    BY <1>2, EndTxOrder DEF GetBlobForPhysicalDelete, rows
  <1>3. CASE /\ ~Revived(digest[s]) /\ rowLock[digest[s]] = None
             /\ rowLock' = [rowLock EXCEPT ![digest[s]] = s] /\ Goto(s, "unlink")
             /\ UNCHANGED <<begunBefore, digestLock, objectLock>>
    <2>1. TakesRow(s, digest[s], "unlink")
      BY <1>3 DEF GetBlobForPhysicalDelete, Goto, TakesRow
    <2>2. Stages'
      BY <1>1, <2>1 DEF TakesRow, Ordered, LocksInOrder, Inv, TypeOK, Stages
    <2>3. rowLock'[digest[s]] = s /\ state[digest[s]] # "absent"
      BY <1>1, <1>3 DEF Ordered, Inv, TypeOK, Revived
    <2> QED
      BY <1>1, <1>3, <2>1, <2>2, <2>3, TakesRowOrder DEF ImmutablePut
  <1> QED
    BY <1>2, <1>3 DEF GetBlobForPhysicalDelete

\* Removing the bytes takes no lock.
LEMMA UnlinkOrder ==
    ASSUME Ordered, NEW s \in Sessions, Unlink(s)
    PROVE  LocksInOrder'
  <1>1. op[s] = "reap" /\ pc[s] = "unlink" /\ digest[s] \in Digests
    BY DEF Unlink, At, Ordered, Inv, DigestLockProtects
  <1>2. rowLock[digest[s]] = s
    BY <1>1 DEF Ordered, LocksInOrder, ProbedRowsAreFree
  <1>3. TakesRow(s, digest[s], "commit") /\ rowLock' = rowLock
    BY DEF Unlink, Goto, TakesRow, locks
  <1>4. Stages'
    BY <1>1, <1>3 DEF TakesRow, Ordered, LocksInOrder, Inv, TypeOK, Stages
  <1> QED
    BY <1>1, <1>2, <1>3, <1>4, TakesRowOrder DEF ImmutablePut

\* The upsert: the put creates or holds its digest's row and takes one object row.  A put
\* of an immutable key finds no row there, or leaves it alone.
LEMMA PutObjectOrder ==
    ASSUME Ordered, NEW s \in Sessions, PutObject(s)
    PROVE  LocksInOrder'
  <1>1. op[s] = "put" /\ pc[s] = "object"
    BY DEF PutObject, At
  <1>2. digest[s] \in Digests
    BY <1>1 DEF Ordered, Inv, DigestLockProtects
  <1>3. rowLock[digest[s]] \in {s, None}
    BY <1>1 DEF Ordered, LocksInOrder, ProbedRowsAreFree
  <1>4. PICK k \in keys[s] :
          /\ objectLock[k] = None
          /\ \/ Goto(s, "commit") /\ UNCHANGED objectLock
             \/ (k \in Mutable \/ names[k] = None) /\ WriteObject(s, k)
    BY DEF PutObject
  <1>5. k \in Keys /\ keys[s] = {k}
    BY <1>1 DEF Ordered, Inv, PutHasOneKey
  <1>6. /\ UNCHANGED <<rows, op, digest, keys, todo, digestLock>>
        /\ rowLock' = [rowLock EXCEPT ![digest[s]] = s]
        /\ pc' \in {[pc EXCEPT ![s] = "commit"], [pc EXCEPT ![s] = "trigger"]}
        /\ ImmutablePut(s) => pc' = [pc EXCEPT ![s] = "commit"]
    BY <1>4, <1>5 DEF PutObject, Goto, WriteObject, ImmutablePut
  <1>7. /\ \A j \in Keys : objectLock'[j] = objectLock[j] \/ (objectLock'[j] = s /\ j \in wrote'[s])
        /\ \A t \in Sessions : t # s => wrote'[t] = wrote[t]
        /\ wrote[s] = {}
    <2>1. wrote[s] = {}
      BY <1>1 DEF Ordered, Inv, ObjectLockProtects
    <2> QED
      BY <1>4, <1>5, <2>1 DEF Goto, WriteObject, Ordered, Inv, TypeOK
  <1>8. Stages'
    BY <1>1, <1>6 DEF Ordered, LocksInOrder, Inv, TypeOK, Stages
  <1>9. DigestLocksAreUsed'
    BY <1>6 DEF Ordered, LocksInOrder, Inv, TypeOK, DigestLocksAreUsed
  <1>10. ObjectLocksAreUsed'
    BY <1>7 DEF Ordered, LocksInOrder, ObjectLocksAreUsed
  <1>11. \A t \in Sessions : t # s =>
            pc'[t] = pc[t] /\ \A d \in Digests : rowLock'[d] = t <=> rowLock[d] = t
    BY <1>2, <1>3, <1>6, ConstantsAssumption DEF Ordered, Inv, TypeOK
  <1>12. \A d \in Digests : rowLock'[d] = s <=> rowLock[d] = s \/ d = digest[s]
    BY <1>2, <1>6 DEF Ordered, Inv, TypeOK
  <1>13. RowLocksAreOrdered'
    BY <1>1, <1>6, <1>11, <1>12
    DEF Ordered, LocksInOrder, Inv, TypeOK, RowLocksAreOrdered, ImmutablePut, rows
  <1>14. ProbedRowsAreFree'
    <2>0. pc'[s] \in {"commit", "trigger"}
      BY <1>6 DEF Ordered, Inv, TypeOK
    <2> SUFFICES ASSUME NEW t \in Sessions, t # s, op[t] \in {"put", "reap"}, pc[t] # "lock"
                 PROVE  rowLock'[digest[t]] = rowLock[digest[t]]
      BY <1>1, <1>6, <1>11, <2>0 DEF Ordered, LocksInOrder, ProbedRowsAreFree, rows
    <2>1. digest[t] \in Digests /\ digest[t] # digest[s]
      BY <1>1 DEF Ordered, Inv, DigestLockProtects
    <2> QED
      BY <1>2, <1>6, <2>1 DEF Ordered, Inv, TypeOK
  <1>15. ImmutablePutsReplaceNothing'
    BY <1>6 DEF Ordered, LocksInOrder, Inv, TypeOK, ImmutablePutsReplaceNothing, ImmutablePut
  <1>16. SweepsAreLockedAhead'
    <2> SUFFICES ASSUME NEW t \in Sessions, op[t] = "sweep"
                 PROVE  /\ pc[t] = "object" => todo[t] = {}
                        /\ pc[t] = "prelock" => wrote[t] = {}
                        /\ \A j \in keys[t] \cup wrote[t] : j \in visible /\ names[j] # None =>
                              names[j] \in todo[t] \/ rowLock'[names[j]] = t
      BY <1>1, <1>6, <1>7, <1>11 DEF Ordered, Inv, TypeOK, SweepsAreLockedAhead, rows
    <2>1. t # s
      BY <1>1
    <2>2. \A j \in keys[t] \cup wrote[t] : names[j] # None => names[j] \in Digests
      BY DEF Ordered, Inv, TypeOK
    <2> QED
      BY <1>11, <2>1, <2>2 DEF Ordered, LocksInOrder, SweepsAreLockedAhead
  <1>17. VisibleRowsExist'
    BY <1>6 DEF Ordered, LocksInOrder, VisibleRowsExist, rows
  <1> QED
    BY <1>8, <1>9, <1>10, <1>13, <1>14, <1>15, <1>16, <1>17 DEF LocksInOrder

\* DeleteBatch takes the next blobs row of its page, the lowest that is left.
LEMMA LockBlobDigestsOrder ==
    ASSUME Ordered, NEW s \in Sessions, LockBlobDigests(s)
    PROVE  LocksInOrder'
  <1>1. op[s] = "sweep" /\ pc[s] = "prelock"
    BY DEF LockBlobDigests, At
  <1>2. PICK d \in todo[s] :
          /\ \A e \in todo[s] : d <= e
          /\ \/ state[d] = "absent" /\ UNCHANGED rowLock
             \/ /\ state[d] # "absent" /\ rowLock[d] = None
                /\ rowLock' = [rowLock EXCEPT ![d] = s]
          /\ todo' = [todo EXCEPT ![s] = @ \ {d}]
          /\ pc' = [pc EXCEPT ![s] = IF todo[s] = {d} THEN "object" ELSE "prelock"]
    BY DEF LockBlobDigests
  <1>3. d \in Digests /\ todo[s] \subseteq Digests
    BY DEF Ordered, Inv, TypeOK
  <1>4. UNCHANGED <<rows, op, digest, keys, wrote, old, digestLock, objectLock>>
    BY DEF LockBlobDigests
  <1>5. Stages'
    BY <1>1, <1>2, <1>4 DEF Ordered, LocksInOrder, Inv, TypeOK, Stages
  <1>6. DigestLocksAreUsed'
    BY <1>1, <1>2, <1>4 DEF Ordered, LocksInOrder, Inv, TypeOK, DigestLocksAreUsed
  <1>7. ObjectLocksAreUsed'
    BY <1>4 DEF Ordered, LocksInOrder, ObjectLocksAreUsed
  <1>8. \A t \in Sessions : t # s =>
            /\ pc'[t] = pc[t] /\ todo'[t] = todo[t]
            /\ \A e \in Digests : rowLock'[e] = t <=> rowLock[e] = t
    BY <1>2, <1>3, ConstantsAssumption DEF Ordered, Inv, TypeOK
  <1>9. \A e \in Digests :
            /\ rowLock'[e] = s => rowLock[e] = s \/ (e = d /\ state[d] # "absent")
            /\ rowLock[e] = s \/ (e = d /\ state[d] # "absent") => rowLock'[e] = s
    BY <1>2, <1>3, ConstantsAssumption DEF Ordered, Inv, TypeOK
  <1>10. todo'[s] = todo[s] \ {d}
    BY <1>2 DEF Ordered, Inv, TypeOK
  <1>11. RowLocksAreOrdered'
    <2> SUFFICES ASSUME NEW e \in Digests, NEW t \in Sessions, rowLock'[e] = t
                 PROVE  /\ op[t] # "none"
                        /\ ImmutablePut(t) => digest[t] = e
                        /\ op[t] = "put" => pc'[t] \notin {"lock", "probe"}
                        /\ op[t] = "reap" => digest[t] = e /\ pc'[t] \in {"unlink", "commit"}
                        /\ op[t] = "sweep" => \A f \in todo'[t] : e < f
                        /\ state[e] = "absent" =>
                              op[t] = "put" /\ digest[t] = e /\ pc'[t] \in {"trigger", "commit"}
      BY <1>4 DEF RowLocksAreOrdered, ImmutablePut, rows
    <2>1. CASE t # s
      BY <1>8, <2>1 DEF Ordered, LocksInOrder, RowLocksAreOrdered
    <2>2. CASE t = s /\ rowLock[e] = s
      BY <1>1, <1>10, <2>2 DEF Ordered, LocksInOrder, RowLocksAreOrdered, ImmutablePut
    <2>3. CASE t = s /\ e = d /\ state[d] # "absent"
      <3>1. \A f \in todo'[s] : d < f
        <4> SUFFICES ASSUME NEW f \in todo[s], f # d PROVE d < f
          BY <1>10
        <4>1. d \in Nat /\ f \in Nat
          BY <1>3, ConstantsAssumption
        <4>2. d <= f
          BY <1>2
        <4> QED
          BY <4>1, <4>2
      <3> QED
        BY <1>1, <2>3, <3>1 DEF ImmutablePut
    <2> QED
      BY <1>9, <2>1, <2>2, <2>3
  <1>12. ProbedRowsAreFree'
    <2> SUFFICES ASSUME NEW t \in Sessions, op[t] \in {"put", "reap"}, pc[t] # "lock"
                 PROVE  /\ rowLock[digest[t]] = t => rowLock'[digest[t]] = t
                        /\ state[digest[t]] = "absent" /\ rowLock[digest[t]] = None
                              => rowLock'[digest[t]] = None
      BY <1>1, <1>4, <1>8 DEF Ordered, LocksInOrder, ProbedRowsAreFree, rows
    <2>1. digest[t] \in Digests /\ t # s
      BY <1>1 DEF Ordered, Inv, DigestLockProtects
    <2>2. state[digest[t]] = "absent" /\ rowLock[digest[t]] = None => rowLock'[digest[t]] = None
      BY <1>2, <2>1 DEF Ordered, Inv, TypeOK
    <2> QED
      BY <1>8, <2>1, <2>2
  <1>13. ImmutablePutsReplaceNothing'
    BY <1>1, <1>4, <1>8 DEF Ordered, LocksInOrder, ImmutablePutsReplaceNothing, ImmutablePut
  <1>14. SweepsAreLockedAhead'
    <2> SUFFICES ASSUME NEW t \in Sessions, op[t] = "sweep"
                 PROVE  /\ pc'[t] = "object" => todo'[t] = {}
                        /\ pc'[t] = "prelock" => wrote'[t] = {}
                        /\ \A j \in keys[t] \cup wrote[t] : j \in visible /\ names[j] # None =>
                              names[j] \in todo'[t] \/ rowLock'[names[j]] = t
      BY <1>4 DEF SweepsAreLockedAhead, rows
    <2>1. \A j \in keys[t] \cup wrote[t] : names[j] # None =>
              names[j] \in Digests /\ state[names[j]] = "live"
      BY DEF Ordered, Inv, TypeOK, NoDanglingMetadata
    <2>2. CASE t # s
      BY <1>4, <1>8, <2>1, <2>2 DEF Ordered, LocksInOrder, SweepsAreLockedAhead
    <2>3. CASE t = s
      <3>1. (pc'[s] = "object" => todo'[s] = {}) /\ wrote'[s] = {}
        BY <1>1, <1>2, <1>4, <1>10 DEF Ordered, LocksInOrder, SweepsAreLockedAhead, Inv, TypeOK
      <3>2. ASSUME NEW j \in keys[s] \cup wrote[s], j \in visible, names[j] # None
            PROVE  names[j] \in todo'[s] \/ rowLock'[names[j]] = s
        <4>1. names[j] \in todo[s] \/ rowLock[names[j]] = s
          BY <1>1, <3>2 DEF Ordered, LocksInOrder, SweepsAreLockedAhead
        <4>2. names[j] \in Digests /\ state[names[j]] = "live"
          BY <2>1, <2>3, <3>2
        <4> QED
          BY <1>9, <1>10, <4>1, <4>2
      <3> QED
        BY <2>3, <3>1, <3>2
    <2> QED
      BY <2>2, <2>3
  <1>15. VisibleRowsExist'
    BY <1>4 DEF Ordered, LocksInOrder, VisibleRowsExist, rows
  <1> QED
    BY <1>5, <1>6, <1>7, <1>11, <1>12, <1>13, <1>14, <1>15 DEF LocksInOrder

\* The DELETE takes an object row, or passes it over.
LEMMA DeleteRowOrder ==
    ASSUME Ordered, NEW s \in Sessions, NEW k \in Keys, DeleteRow(s, k)
    PROVE  LocksInOrder'
  <1>1. /\ op[s] \in {"delete", "sweep"} /\ k \in keys[s] /\ objectLock[k] = None /\ pc[s] = "object"
        /\ keys' = [keys EXCEPT ![s] = @ \ {k}]
        /\ UNCHANGED <<rows, op, pc, digest, todo, digestLock, rowLock>>
    BY DEF DeleteRow
  <1>2. /\ \A j \in Keys : objectLock'[j] = objectLock[j] \/ (objectLock'[j] = s /\ j \in wrote'[s])
        /\ \A t \in Sessions : t # s => wrote'[t] = wrote[t] /\ keys'[t] = keys[t]
        /\ wrote[s] \subseteq wrote'[s]
        /\ keys'[s] \cup wrote'[s] \subseteq keys[s] \cup wrote[s]
    BY <1>1 DEF DeleteRow, Ordered, Inv, TypeOK
  <1>3. Stages' /\ DigestLocksAreUsed' /\ ProbedRowsAreFree'
    BY <1>1 DEF Ordered, LocksInOrder, Stages, DigestLocksAreUsed, ProbedRowsAreFree, rows
  <1>4. ObjectLocksAreUsed'
    BY <1>2 DEF Ordered, LocksInOrder, ObjectLocksAreUsed
  <1>5. \A t \in Sessions : ImmutablePut(t)' <=> ImmutablePut(t)
    BY <1>1, <1>2 DEF ImmutablePut
  <1>6. RowLocksAreOrdered' /\ ImmutablePutsReplaceNothing'
    BY <1>1, <1>5 DEF Ordered, LocksInOrder, RowLocksAreOrdered, ImmutablePutsReplaceNothing, rows
  <1>7. SweepsAreLockedAhead'
    BY <1>1, <1>2 DEF Ordered, LocksInOrder, SweepsAreLockedAhead, rows
  <1>8. VisibleRowsExist'
    BY <1>1 DEF Ordered, LocksInOrder, VisibleRowsExist, rows
  <1> QED
    BY <1>3, <1>4, <1>6, <1>7, <1>8 DEF LocksInOrder

\* Steps inside a transaction.
LEMMA StepOrder ==
    ASSUME Ordered, NEW s \in Sessions, Step(s)
    PROVE  LocksInOrder'
  <1>1. CASE PutCommit(s)
    <2>1. digest[s] \in Digests /\ digestLock[digest[s]] = s
      BY <1>1 DEF PutCommit, At, Ordered, Inv, DigestLockProtects
    <2>2. \A k \in Keys : k \in visible' => k \in visible /\ names'[k] = names[k]
      BY <1>1 DEF PutCommit, Stamp
    <2>3. state' = [state EXCEPT ![digest[s]] = "live"] /\ EndTx(s)
      BY <1>1 DEF PutCommit
    <2>4. \A d \in Digests : /\ digestLock[d] # s => state'[d] = state[d]
                             /\ state'[d] = "absent" => state[d] = "absent"
      BY <2>1, <2>3 DEF Ordered, Inv, TypeOK
    <2> QED
      BY <2>2, <2>3, <2>4, EndTxOrder
  <1>2. CASE DeleteCommit(s)
    BY <1>2, EndTxOrder DEF DeleteCommit
  <1>3. CASE ReapCommit(s)
    <2>1. /\ digest[s] \in Digests /\ digestLock[digest[s]] = s /\ op[s] = "reap"
          /\ pc[s] = "commit"
      BY <1>3 DEF ReapCommit, At, Ordered, Inv, DigestLockProtects
    <2>2. rowLock[digest[s]] = s
      BY <2>1 DEF Ordered, LocksInOrder, ProbedRowsAreFree
    <2>3. \A k \in Keys : k \in visible' => k \in visible /\ names'[k] = names[k]
      BY <1>3 DEF ReapCommit
    <2>4. state' = [state EXCEPT ![digest[s]] = "absent"] /\ EndTx(s)
      BY <1>3 DEF ReapCommit
    <2>5. \A d \in Digests : /\ digestLock[d] # s => state'[d] = state[d]
                             /\ state'[d] = "absent" => state[d] = "absent" \/ rowLock[d] = s
      BY <2>1, <2>2, <2>4 DEF Ordered, Inv, TypeOK
    <2> QED
      BY <2>3, <2>4, <2>5, EndTxOrder
  <1> QED
    BY <1>1, <1>2, <1>3, LockBlobDigestOrder, GetBlobForWriteOrder, CommitBytesOrder,
       PutObjectOrder, LockReplacedOrder, LockBlobDigestsOrder, DeleteRowOrder, LockDeletedOrder,
       GetBlobForPhysicalDeleteOrder, UnlinkOrder
    DEF Step, PutStep, DeleteStep, ReapStep

\* The lock discipline is inductive.
LEMMA NextOrder == Ordered /\ [Next]_vars => LocksInOrder'
  <1> SUFFICES ASSUME Ordered, [Next]_vars PROVE LocksInOrder'
    OBVIOUS
  <1>1. ASSUME NEW s \in Clients, ClientBegin(s) PROVE LocksInOrder'
    <2>1. s \in Sessions
      BY DEF Sessions
    <2>2. ASSUME NEW k \in Keys, NEW d \in Digests, PutBegin(s, k, d) PROVE LocksInOrder'
      <3>1. Begin(s, "put", "lock", d, {k}, {})
        BY <2>2 DEF PutBegin
      <3>2. {k} \in SUBSET Keys
        OBVIOUS
      <3> QED
        BY <2>1, <3>1, <3>2, BeginOrder
    <2>3. ASSUME NEW k \in Keys, DeleteBegin(s, k) PROVE LocksInOrder'
      <3>1. Begin(s, "delete", "object", None, {k}, {})
        BY <2>3 DEF DeleteBegin
      <3>2. {k} \in SUBSET Keys
        OBVIOUS
      <3> QED
        BY <2>1, <3>1, <3>2, BeginOrder
    <2> QED
      BY <1>1, <2>2, <2>3 DEF ClientBegin
  <1>2. ASSUME NEW s \in Collectors, CollectorBegin(s) PROVE LocksInOrder'
    <2>1. s \in Sessions
      BY DEF Sessions
    <2>2. ASSUME NEW page \in SUBSET Keys, SweepBegin(s, page) PROVE LocksInOrder'
      <3> DEFINE ds == {names[k] : k \in page}
      <3>1. Begin(s, "sweep", "prelock", None, page, ds) /\ \A k \in page : names[k] \in ds
        BY <2>2 DEF SweepBegin
      <3> HIDE DEF ds
      <3> QED
        BY <2>1, <3>1, BeginOrder
    <2>3. ASSUME NEW d \in Digests, ReapBegin(s, d) PROVE LocksInOrder'
      <3>1. Begin(s, "reap", "lock", d, {}, {})
        BY <2>3 DEF ReapBegin
      <3>2. {} \in SUBSET Keys
        OBVIOUS
      <3> QED
        BY <2>1, <3>1, <3>2, BeginOrder
    <2> QED
      BY <1>2, <2>2, <2>3 DEF CollectorBegin
  <1>3. ASSUME NEW s \in Sessions, Abort(s) PROVE LocksInOrder'
    BY <1>3, EndTxOrder DEF Abort, rows
  <1>4. ASSUME NEW d \in Digests, MarkBlobPendingDelete(d) PROVE LocksInOrder'
    <2>1. /\ state' = [state EXCEPT ![d] = "pending_delete"] /\ state[d] = "live"
          /\ UNCHANGED <<names, visible, session, locks>>
      BY <1>4 DEF MarkBlobPendingDelete
    <2>2. \A e \in Digests : state'[e] = "absent" <=> state[e] = "absent"
      BY <2>1 DEF Ordered, Inv, TypeOK
    <2>3. \A s \in Sessions : op[s] = "put" /\ pc[s] # "lock" => digest[s] \in Digests
      BY DEF Ordered, Inv, DigestLockProtects
    <2>4. RowLocksAreOrdered'
      BY <2>1, <2>2 DEF Ordered, LocksInOrder, RowLocksAreOrdered, ImmutablePut, session, locks
    <2>5. ProbedRowsAreFree'
      BY <2>1, <2>2, <2>3 DEF Ordered, LocksInOrder, ProbedRowsAreFree, session, locks
    <2> QED
      BY <2>1, <2>4, <2>5
      DEF Ordered, LocksInOrder, Stages, DigestLocksAreUsed, ObjectLocksAreUsed,
          ImmutablePutsReplaceNothing, ImmutablePut, SweepsAreLockedAhead, VisibleRowsExist, session, locks
  <1>5. CASE StartRun
    BY <1>5, ConstantsAssumption
    DEF StartRun, Ordered, LocksInOrder, Stages, DigestLocksAreUsed, ObjectLocksAreUsed,
        RowLocksAreOrdered, ProbedRowsAreFree, ImmutablePutsReplaceNothing, ImmutablePut,
        SweepsAreLockedAhead, VisibleRowsExist, session, locks
  <1>6. CASE UNCHANGED vars
    BY <1>6
    DEF vars, rows, Ordered, LocksInOrder, Stages, DigestLocksAreUsed, ObjectLocksAreUsed,
        RowLocksAreOrdered, ProbedRowsAreFree, ImmutablePutsReplaceNothing, ImmutablePut,
        SweepsAreLockedAhead, VisibleRowsExist, session, locks
  <1> QED
    BY <1>1, <1>2, <1>3, <1>4, <1>5, <1>6, StepOrder DEF Next

-----------------------------------------------------------------------------
(* No cycle *)

\* Batch deletes, reaps and puts of immutable keys.
Calm(s) == op[s] \in {"sweep", "reap"} \/ ImmutablePut(s)

\* What a session waits for at each of its steps.
LEMMA Waits ==
    ASSUME NEW s, NEW t \in WaitsFor(s)
    PROVE  /\ t # s /\ t # None
           /\ pc[s] = "lock" => t = digestLock[digest[s]]
           /\ pc[s] = "probe" => t = rowLock[digest[s]]
           /\ pc[s] = "prelock" => \E d \in todo[s] : t = rowLock[d] /\ \A e \in todo[s] : d <= e
           /\ pc[s] = "object" /\ keys[s] # {} => \E k \in keys[s] : t = objectLock[k]
           /\ pc[s] = "object" /\ keys[s] = {} => \E d \in OldDigests(s) : t = rowLock[d]
           /\ pc[s] \in {"lock", "probe", "prelock", "object", "trigger"}
  <1>1. t # s /\ t # None
    BY DEF WaitsFor
  <1>2. CASE pc[s] = "lock"
    BY <1>1, <1>2 DEF WaitsFor
  <1>3. CASE pc[s] = "probe"
    BY <1>1, <1>3 DEF WaitsFor
  <1>4. CASE pc[s] = "prelock"
    <2> DEFINE First == {d \in todo[s] : \A e \in todo[s] : d <= e}
    <2>1. t \in {rowLock[d] : d \in First}
      BY <1>4 DEF WaitsFor
    <2> QED
      BY <1>1, <1>4, <2>1
  <1>5. CASE pc[s] = "object" /\ keys[s] # {}
    <2>1. t \in {objectLock[k] : k \in keys[s]}
      BY <1>5 DEF WaitsFor
    <2> QED
      BY <1>1, <1>5, <2>1
  <1>6. CASE pc[s] = "object" /\ keys[s] = {}
    BY <1>1, <1>6 DEF WaitsFor
  <1>7. pc[s] \in {"lock", "probe", "prelock", "object", "trigger"}
    BY DEF WaitsFor
  <1> QED
    BY <1>1, <1>2, <1>3, <1>4, <1>5, <1>6, <1>7

\* A calm session that holds an object row is a put about to commit or a sweep past its
\* locks, and a sweep that wants the row is not past them.
LEMMA ObjectRowHolders ==
    ASSUME Ordered, NEW t \in Sessions, Calm(t), NEW k \in Keys, objectLock[k] = t
    PROVE  /\ \/ op[t] = "put" /\ pc[t] = "commit"
              \/ op[t] = "sweep" /\ pc[t] = "object"
           /\ \A s \in Sessions : s # t /\ op[s] = "sweep" /\ op[t] = "sweep" /\ pc[s] = "object"
                                    => k \notin keys[s]
  <1>1. k \in wrote[t]
    BY DEF Ordered, LocksInOrder, ObjectLocksAreUsed
  <1>2. \/ op[t] = "put" /\ pc[t] = "commit"
        \/ op[t] = "sweep" /\ pc[t] = "object"
    BY <1>1
    DEF Ordered, Inv, ObjectLockProtects, LocksInOrder, Stages, SweepsAreLockedAhead,
        ImmutablePutsReplaceNothing, ImmutablePut, Calm
  <1>3. ASSUME NEW s \in Sessions, s # t, op[s] = "sweep", op[t] = "sweep", pc[s] = "object",
               k \in keys[s]
        PROVE  FALSE
    <2>1. k \in visible
      BY <1>1, <1>3 DEF Ordered, BarrierHolds
    <2>2. names[k] # None
      BY <2>1 DEF Ordered, LocksInOrder, VisibleRowsExist
    <2>3. todo[s] = {} /\ todo[t] = {}
      BY <1>2, <1>3 DEF Ordered, LocksInOrder, SweepsAreLockedAhead
    <2>4. rowLock[names[k]] = s
      BY <1>3, <2>1, <2>2, <2>3 DEF Ordered, LocksInOrder, SweepsAreLockedAhead
    <2>5. rowLock[names[k]] = t
      BY <1>1, <1>3, <2>1, <2>2, <2>3 DEF Ordered, LocksInOrder, SweepsAreLockedAhead
    <2> QED
      BY <1>3, <2>4, <2>5
  <1> QED
    BY <1>2, <1>3

\* A sweep that has deleted its rows holds every blobs row its triggers update.
LEMMA SweepsDoNotWaitForTriggers ==
    ASSUME Ordered, NEW s \in Sessions, op[s] = "sweep", pc[s] = "object", NEW d \in OldDigests(s)
    PROVE  rowLock[d] = s
  <1>1. PICK k \in wrote[s] : names[k] = d
    BY OldDigestsAreLive DEF Ordered
  <1>2. k \in visible /\ k \in Keys
    BY <1>1 DEF Ordered, BarrierHolds, Inv, TypeOK
  <1>3. names[k] # None /\ todo[s] = {}
    BY <1>2 DEF Ordered, LocksInOrder, VisibleRowsExist, SweepsAreLockedAhead
  <1> QED
    BY <1>1, <1>2, <1>3 DEF Ordered, LocksInOrder, SweepsAreLockedAhead

\* In a set of calm sessions that all wait for one another, each is still at a lock that
\* comes before the object rows.
LEMMA OnlyEarlyWaiters ==
    ASSUME Ordered, NEW S \in SUBSET Sessions, \A s \in S : Calm(s), Deadlocked(S)
    PROVE  \A s \in S : pc[s] \in {"lock", "probe", "prelock"}
  <1>1. \A s \in S : \E t \in S : t \in WaitsFor(s)
    BY DEF Deadlocked
  <1>2. \A s \in S : pc[s] \in {"lock", "probe", "prelock", "object"}
    <2> SUFFICES ASSUME NEW s \in S PROVE pc[s] \in {"lock", "probe", "prelock", "object"}
      OBVIOUS
    <2>1. pc[s] \in {"lock", "probe", "prelock", "object", "trigger"}
      BY <1>1, Waits
    <2>2. pc[s] # "trigger"
      BY DEF Ordered, LocksInOrder, Stages, ImmutablePutsReplaceNothing, ImmutablePut, Calm
    <2> QED
      BY <2>1, <2>2
  <1>3. ASSUME NEW s \in S, pc[s] = "object", op[s] = "sweep" PROVE FALSE
    <2>1. PICK t \in S : t \in WaitsFor(s)
      BY <1>1
    <2>2. t # s
      BY <2>1, Waits
    <2>3. CASE keys[s] = {}
      <3>1. PICK d \in OldDigests(s) : t = rowLock[d]
        BY <1>3, <2>1, <2>3, Waits
      <3> QED
        BY <1>3, <2>2, <3>1, SweepsDoNotWaitForTriggers
    <2>4. CASE keys[s] # {}
      <3>1. PICK k \in keys[s] : t = objectLock[k]
        BY <1>3, <2>1, <2>4, Waits
      <3>2. k \in Keys
        BY DEF Ordered, Inv, TypeOK
      <3>3. op[t] = "put" /\ pc[t] = "commit"
        BY <1>3, <2>2, <3>1, <3>2, ObjectRowHolders
      <3> QED
        BY <1>2, <3>3
    <2> QED
      BY <2>3, <2>4
  <1>4. ASSUME NEW s \in S, pc[s] = "object", op[s] = "put" PROVE FALSE
    <2>1. PICK t \in S : t \in WaitsFor(s)
      BY <1>1
    <2>2. keys[s] # {}
      BY <1>4 DEF Ordered, Inv, PutHasOneKey
    <2>3. PICK k \in keys[s] : t = objectLock[k]
      BY <1>4, <2>1, <2>2, Waits
    <2>4. k \in Keys
      BY DEF Ordered, Inv, TypeOK
    <2>5. \/ op[t] = "put" /\ pc[t] = "commit"
          \/ op[t] = "sweep" /\ pc[t] = "object"
      BY <2>3, <2>4, ObjectRowHolders
    <2> QED
      BY <1>2, <1>3, <2>5
  <1> QED
    BY <1>2, <1>3, <1>4 DEF Calm, ImmutablePut, Ordered, LocksInOrder, Stages

\* Such a set is held up by sweeps that are taking their blobs rows: whoever waits for an
\* advisory lock waits for one that probes, and whoever probes waits for a sweep.
LEMMA SweepsHoldUp ==
    ASSUME Ordered, NEW S \in SUBSET Sessions, \A s \in S : Calm(s), Deadlocked(S)
    PROVE  /\ \E s \in S : pc[s] = "prelock"
           /\ \A s \in S : pc[s] = "prelock" =>
                \E d \in todo[s] : \E t \in S :
                    /\ \A e \in todo[s] : d <= e
                    /\ pc[t] = "prelock" /\ \A e \in todo[t] : d < e
  <1>1. \A s \in S : \E t \in S : t \in WaitsFor(s)
    BY DEF Deadlocked
  <1>2. \A s \in S : pc[s] \in {"lock", "probe", "prelock"}
    BY OnlyEarlyWaiters
  <1>3. ASSUME NEW s \in S, pc[s] = "lock" PROVE \E t \in S : pc[t] = "probe"
    <2>1. PICK t \in S : t \in WaitsFor(s)
      BY <1>1
    <2>2. digest[s] \in Digests
      BY <1>3 DEF Ordered, Inv, DigestLockProtects
    <2>3. digestLock[digest[s]] = t
      BY <1>3, <2>1, Waits
    <2>4. op[t] \in {"put", "reap"} /\ pc[t] # "lock"
      BY <2>2, <2>3 DEF Ordered, LocksInOrder, DigestLocksAreUsed
    <2> QED
      BY <1>2, <2>4 DEF Ordered, LocksInOrder, Stages
  <1>4. ASSUME NEW t \in S, NEW d \in Digests, rowLock[d] = t
        PROVE  pc[t] = "prelock" /\ \A e \in todo[t] : d < e
    <2>1. op[t] \notin {"put", "reap"}
      BY <1>2, <1>4 DEF Ordered, LocksInOrder, RowLocksAreOrdered, Stages
    <2>2. op[t] = "sweep"
      BY <2>1 DEF Calm, ImmutablePut
    <2> QED
      BY <1>2, <1>4, <2>2 DEF Ordered, LocksInOrder, RowLocksAreOrdered, Stages
  <1>5. ASSUME NEW s \in S, pc[s] = "probe" PROVE \E t \in S : pc[t] = "prelock"
    <2>1. PICK t \in S : t \in WaitsFor(s)
      BY <1>1
    <2>2. digest[s] \in Digests
      BY <1>5 DEF Ordered, Inv, DigestLockProtects, LocksInOrder, Stages
    <2>3. rowLock[digest[s]] = t
      BY <1>5, <2>1, Waits
    <2> QED
      BY <1>4, <2>2, <2>3
  <1>6. ASSUME NEW s \in S, pc[s] = "prelock"
        PROVE  \E d \in todo[s] : \E t \in S :
                    /\ \A e \in todo[s] : d <= e
                    /\ pc[t] = "prelock" /\ \A e \in todo[t] : d < e
    <2>1. PICK t \in S : t \in WaitsFor(s)
      BY <1>1
    <2>2. PICK d \in todo[s] : t = rowLock[d] /\ \A e \in todo[s] : d <= e
      BY <1>6, <2>1, Waits
    <2>3. d \in Digests
      BY DEF Ordered, Inv, TypeOK
    <2> QED
      BY <1>4, <2>2, <2>3
  <1>7. \E s \in S : pc[s] = "prelock"
    <2>1. PICK s \in S : TRUE
      BY DEF Deadlocked
    <2> QED
      BY <1>2, <1>3, <1>5, <2>1
  <1> QED
    BY <1>6, <1>7

\* Deadlock freedom, from the lock discipline: of the digests such sweeps wait for one
\* would be the highest, and its holder waits for a higher one.
LEMMA NoCalmDeadlock ==
    ASSUME Ordered, NEW n \in Nat, Digests \subseteq 0 .. n
    PROVE  ImmutableTrafficDeadlockFree
  <1> SUFFICES ASSUME NEW S \in SUBSET Sessions, \A s \in S : Calm(s), Deadlocked(S)
               PROVE  FALSE
    BY DEF ImmutableTrafficDeadlockFree, Calm, ImmutablePut
  <1> DEFINE Next1(s, d) == d \in todo[s] /\ \A e \in todo[s] : d <= e
             M == {d \in Digests : \E s \in S : pc[s] = "prelock" /\ Next1(s, d)}
  <1>1. \A s \in S : todo[s] \subseteq Digests
    BY DEF Ordered, Inv, TypeOK
  <1>2. M # {} /\ M \in SUBSET (0 .. n)
    <2>1. PICK s \in S : pc[s] = "prelock"
      BY SweepsHoldUp
    <2>2. PICK d \in todo[s] : \A e \in todo[s] : d <= e
      BY <2>1, SweepsHoldUp
    <2>3. d \in M
      BY <1>1, <2>1, <2>2
    <2> QED
      BY <2>3
  <1>3. PICK m \in M : \A x \in M : x <= m
    <2> HIDE DEF M
    <2> QED
      BY <1>2, Highest
  <1>4. PICK s \in S : pc[s] = "prelock" /\ Next1(s, m)
    BY <1>3
  <1>5. PICK d \in todo[s] : \E t \in S :
          /\ \A e \in todo[s] : d <= e
          /\ pc[t] = "prelock" /\ \A e \in todo[t] : d < e
    BY <1>4, SweepsHoldUp
  <1>6. d \in Nat /\ m \in Nat
    BY <1>1, ConstantsAssumption
  <1>7. d = m
    BY <1>4, <1>5, <1>6
  <1>8. PICK t \in S : pc[t] = "prelock" /\ \A e \in todo[t] : m < e
    BY <1>5, <1>7
  <1>9. PICK f \in todo[t] : \A e \in todo[t] : f <= e
    BY <1>8, SweepsHoldUp
  <1>10. f \in M
    BY <1>1, <1>8, <1>9
  <1>11. f <= m /\ m < f /\ f \in Nat
    BY <1>1, <1>3, <1>8, <1>9, <1>10, ConstantsAssumption
  <1> QED
    BY <1>6, <1>11

\* Writes of immutable keys, batch deletes and reaps never deadlock, for any number of
\* sessions and keys.  Digests are 256-bit numbers, so they are bounded.
THEOREM ImmutableTrafficNeverDeadlocks ==
    (\E n \in Nat : Digests \subseteq 0 .. n) => (Spec => []ImmutableTrafficDeadlockFree)
  <1> SUFFICES ASSUME NEW n \in Nat, Digests \subseteq 0 .. n
               PROVE  Spec => []ImmutableTrafficDeadlockFree
    OBVIOUS
  <1>1. Init => BarrierHolds /\ LocksInOrder
    BY InitOrder DEF Init, BarrierHolds
  <1>2. Inv /\ BarrierHolds /\ LocksInOrder /\ [Next]_vars => BarrierHolds' /\ LocksInOrder'
    BY NextBarrier, NextOrder DEF Ordered
  <1>3. Inv /\ BarrierHolds /\ LocksInOrder => ImmutableTrafficDeadlockFree
    BY NoCalmDeadlock DEF Ordered
  <1> QED
    BY <1>1, <1>2, <1>3, Invariance, PTL DEF Spec

=============================================================================
