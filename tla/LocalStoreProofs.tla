-------------------------- MODULE LocalStoreProofs --------------------------
(***************************************************************************)
(* Proofs about LocalStore, for any content addresses, writers, fan-out    *)
(* and number of power failures, over fan-out directories that are already *)
(* on the disk.  (A directory made for its first object is not: only the   *)
(* names in it are synced, never its own.)                                 *)
(*                                                                         *)
(* What holds across a crash is a statement about the disk, which no       *)
(* reader sees: the bytes of whatever the disk names are durable, and it   *)
(* names something for every row.  The advisory lock carries that from the *)
(* fsync of the directory to the row's commit.                             *)
(***************************************************************************)
EXTENDS LocalStore, S3Writer, TLAPS

Wheres == {"new", "staged", "dir", "rename", "fsync", "row", "done"}

Writer == [at : Wheres, key : Addresses, synced : BOOLEAN]

\* The type of every variable.
StoreTypeOK ==
    /\ dir \in [Dirs -> {"absent", "cached", "durable"}]
    /\ name \in [Addresses -> Uploads \cup {Nothing}]
    /\ disk \in [Addresses -> Uploads \cup {Nothing}]
    /\ data \in [Uploads -> {"absent", "cached", "durable", "torn"}]
    /\ staged \subseteq Uploads
    /\ w \in [Uploads -> Writer]
    /\ named \subseteq Addresses
    /\ crashes \in Nat

\* Nothing gets a name, in memory or on the disk, before its bytes are durable.
NamesAreDurable ==
    /\ \A k \in Addresses : name[k] # Nothing => data[name[k]] = "durable"
    /\ \A k \in Addresses : disk[k] # Nothing => data[disk[k]] = "durable"
    /\ \A x \in Uploads : w[x].at \in {"dir", "rename", "fsync", "row"} => data[x] = "durable"
    /\ \A x \in Uploads : w[x].at = "new" => data[x] = "absent"

\* What a row names, or the holder of the digest's lock is about to name, is there, and
\* a crash would leave it there.
RowsAreDurable ==
    /\ \A k \in named : name[k] # Nothing /\ disk[k] # Nothing
    /\ \A x \in Uploads : w[x].at = "fsync" => name[w[x].key] # Nothing
    /\ \A x \in Uploads : w[x].at = "row" => name[w[x].key] # Nothing /\ disk[w[x].key] # Nothing

StoreInv ==
    /\ StoreTypeOK
    /\ \A d \in Dirs : dir[d] = "durable"
    /\ NamesAreDurable
    /\ RowsAreDurable

\* What a writer's step does to the writers: it alone moves, and keeps its key.
LEMMA GotoStep ==
    ASSUME StoreTypeOK, NEW x \in Uploads, NEW where \in Wheres, Goto(x, where)
    PROVE  /\ w' \in [Uploads -> Writer]
           /\ w'[x].at = where /\ w'[x].key = w[x].key
           /\ \A y \in Uploads : y # x => w'[y] = w[y]
  BY DEF Goto, StoreTypeOK, Writer

\* A sync moves nobody.
LEMMA SyncStep ==
    ASSUME StoreTypeOK, NEW x \in Uploads, w' = [w EXCEPT ![x].synced = TRUE]
    PROVE  /\ w' \in [Uploads -> Writer]
           /\ \A y \in Uploads : w'[y].at = w[y].at /\ w'[y].key = w[y].key
  <1>1. w' \in [Uploads -> Writer]
    BY DEF StoreTypeOK, Writer
  <1>2. w'[x].at = w[x].at /\ w'[x].key = w[x].key
    BY DEF StoreTypeOK, Writer
  <1>3. \A y \in Uploads : y # x => w'[y] = w[y]
    BY DEF StoreTypeOK
  <1> QED
    BY <1>1, <1>2, <1>3

\* Commit's own sync moves the writer's record and keeps it one.
LEMMA WriterRecord ==
    ASSUME NEW r \in Writer
    PROVE  /\ [r EXCEPT !.at = "dir", !.synced = TRUE] \in Writer
           /\ [r EXCEPT !.at = "dir", !.synced = TRUE].at = "dir"
  BY DEF Writer, Wheres

\* Every step of a writer keeps the invariant.
LEMMA WriterStep ==
    ASSUME StoreInv, NEW x \in Uploads,
           \/ Create(x) \/ Sync(x) \/ CommitSyncs(x) \/ MkdirAll(x)
           \/ Rename(x) \/ FsyncDir(x) \/ FsyncFails(x) \/ Row(x) \/ Abort(x)
    PROVE  StoreInv'
  <1> USE CrashConstants DEF StoreInv, StoreTypeOK, NamesAreDurable, RowsAreDurable, CrashAssumption
  <1>0. w[x].key \in Addresses
    BY DEF Writer
  <1>1. CASE Create(x)
    <2>1. /\ w' \in [Uploads -> Writer] /\ w'[x].at = "staged"
          /\ \A y \in Uploads : y # x => w'[y] = w[y]
      BY <1>1, GotoStep DEF Create, Wheres
    <2>2. data[x] = "absent"
      BY <1>1 DEF Create
    <2>3. NamesAreDurable'
      BY <1>1, <2>1, <2>2 DEF Create
    <2>4. RowsAreDurable'
      BY <1>1, <2>1 DEF Create
    <2> QED
      BY <1>1, <2>1, <2>3, <2>4 DEF Create
  <1>2. CASE Sync(x)
    <2>1. /\ w' \in [Uploads -> Writer]
          /\ \A y \in Uploads : w'[y].at = w[y].at /\ w'[y].key = w[y].key
      BY <1>2, SyncStep DEF Sync
    <2>2. /\ data' \in [Uploads -> {"absent", "cached", "durable", "torn"}] /\ data'[x] = "durable"
          /\ \A y \in Uploads : y # x => data'[y] = data[y]
      BY <1>2 DEF Sync
    <2>3. name' = name /\ disk' = disk /\ named' = named /\ dir' = dir /\ w[x].at = "staged"
      BY <1>2 DEF Sync
    <2>4. NamesAreDurable'
      BY <2>1, <2>2, <2>3
    <2>5. RowsAreDurable'
      BY <2>1, <2>3
    <2> QED
      BY <1>2, <2>1, <2>2, <2>3, <2>4, <2>5 DEF Sync
  <1>3. CASE CommitSyncs(x)
    <2>1. /\ w' \in [Uploads -> Writer] /\ w'[x].at = "dir"
          /\ \A y \in Uploads : y # x => w'[y] = w[y]
      <3>1. w' = [w EXCEPT ![x] = [w[x] EXCEPT !.at = "dir", !.synced = TRUE]]
        BY <1>3 DEF CommitSyncs
      <3> QED
        BY <3>1, WriterRecord
    <2>2. /\ data' \in [Uploads -> {"absent", "cached", "durable", "torn"}] /\ data'[x] = "durable"
          /\ \A y \in Uploads : y # x => data'[y] = data[y]
      BY <1>3 DEF CommitSyncs
    <2>3. name' = name /\ disk' = disk /\ named' = named /\ dir' = dir
      BY <1>3 DEF CommitSyncs
    <2>4. NamesAreDurable'
      BY <2>1, <2>2, <2>3
    <2>5. RowsAreDurable'
      BY <2>1, <2>3
    <2> QED
      BY <1>3, <2>1, <2>2, <2>3, <2>4, <2>5 DEF CommitSyncs
  <1>4. CASE MkdirAll(x)
    <2>1. /\ w' \in [Uploads -> Writer] /\ w'[x].at = "rename"
          /\ \A y \in Uploads : y # x => w'[y] = w[y]
      BY <1>4, GotoStep DEF MkdirAll, Wheres
    <2>2. dir' = dir
      BY <1>0, <1>4 DEF MkdirAll, Dirs
    <2>3. /\ name' = name /\ disk' = disk /\ named' = named /\ data' = data /\ staged' = staged
          /\ crashes' = crashes /\ w[x].at = "dir"
      BY <1>4 DEF MkdirAll
    <2>4. NamesAreDurable'
      BY <2>1, <2>3
    <2>5. RowsAreDurable'
      BY <2>1, <2>3
    <2> QED
      BY <2>1, <2>2, <2>3, <2>4, <2>5
  <1>5. CASE Rename(x)
    <2>1. /\ w' \in [Uploads -> Writer] /\ w'[x].at = "fsync" /\ w'[x].key = w[x].key
          /\ \A y \in Uploads : y # x => w'[y] = w[y]
      BY <1>5, GotoStep DEF Rename, Wheres
    <2> QED
      BY <1>0, <1>5, <2>1 DEF Rename
  <1>6. CASE FsyncDir(x)
    <2>1. /\ w' \in [Uploads -> Writer] /\ w'[x].at = "row" /\ w'[x].key = w[x].key
          /\ \A y \in Uploads : y # x => w'[y] = w[y]
      BY <1>6, GotoStep DEF FsyncDir, Wheres
    <2>2. \A y \in Uploads : w[y].key \in Addresses /\ w'[y].key = w[y].key
      BY <2>1 DEF Writer
    <2>3. disk' \in [Addresses -> Uploads \cup {Nothing}]
      BY <1>6 DEF FsyncDir
    <2>4. /\ \A k \in Addresses : disk'[k] \in {name[k], disk[k]}
          /\ disk'[w[x].key] = name[w[x].key]
      BY <1>0, <1>6 DEF FsyncDir
    <2>5. NamesAreDurable'
      BY <1>6, <2>1, <2>3, <2>4 DEF FsyncDir
    <2>6. RowsAreDurable'
      BY <1>6, <2>1, <2>2, <2>3, <2>4 DEF FsyncDir
    <2> QED
      BY <1>6, <2>1, <2>3, <2>5, <2>6 DEF FsyncDir
  <1>7. CASE FsyncFails(x) \/ Abort(x)
    <2>1. /\ w' \in [Uploads -> Writer] /\ w'[x].at = "done"
          /\ \A y \in Uploads : y # x => w'[y] = w[y]
      BY <1>7, GotoStep DEF FsyncFails, Abort, Wheres
    <2> QED
      BY <1>7, <2>1 DEF FsyncFails, Abort
  <1>8. CASE Row(x)
    <2>1. /\ w' \in [Uploads -> Writer] /\ w'[x].at = "done"
          /\ \A y \in Uploads : y # x => w'[y] = w[y]
      BY <1>8, GotoStep DEF Row, Wheres
    <2> QED
      BY <1>0, <1>8, <2>1 DEF Row
  <1> QED
    BY <1>1, <1>2, <1>3, <1>4, <1>5, <1>6, <1>7, <1>8

\* A delete of bytes nothing names or locks keeps it.
LEMMA DeleteStep ==
    ASSUME StoreInv, NEW k \in Addresses, Unname(k) \/ Delete(k)
    PROVE  StoreInv'
  <1> USE CrashConstants DEF StoreInv, StoreTypeOK, NamesAreDurable, RowsAreDurable, CrashAssumption
  <1>1. CASE Unname(k)
    BY <1>1 DEF Unname
  <1>2. CASE Delete(k)
    BY <1>2 DEF Delete, Locked
  <1> QED
    BY <1>1, <1>2

\* A power failure keeps it: what it may lose, nobody was promised.
LEMMA CrashStep ==
    ASSUME StoreInv, Crash
    PROVE  StoreInv'
  <1> USE CrashConstants DEF StoreInv, StoreTypeOK, CrashAssumption
  <1>1. PICK kept \in SUBSET {d \in Dirs : dir[d] = "cached"} :
            dir' = [d \in Dirs |-> CASE dir[d] = "cached" /\ d \in kept -> "durable"
                                     [] dir[d] = "cached" -> "absent"
                                     [] OTHER -> dir[d]]
    BY DEF Crash
  <1>2. dir' = dir
    BY <1>1
  <1>3. PICK now \in SUBSET Addresses :
            disk' = [k \in Addresses |-> IF dir'[Dir(k)] = "absent" THEN Nothing
                                         ELSE IF k \in now THEN name[k] ELSE disk[k]]
    BY DEF Crash
  <1>4. \A k \in Addresses : disk'[k] = IF k \in now THEN name[k] ELSE disk[k]
    BY <1>2, <1>3 DEF Dirs
  <1>5. name' = disk' /\ disk' \in [Addresses -> Uploads \cup {Nothing}]
    BY <1>3, <1>4 DEF Crash
  <1>6. /\ w' \in [Uploads -> Writer]
        /\ \A x \in Uploads : w'[x].at \in {"new", "done"}
        /\ \A x \in Uploads : w'[x].at = "new" => w[x].at = "new"
    <2>1. \A x \in Uploads : w'[x] = IF w[x].at = "new" THEN w[x] ELSE [w[x] EXCEPT !.at = "done"]
      BY DEF Crash
    <2>2. w' = [x \in Uploads |-> w'[x]]
      BY DEF Crash
    <2>3. ASSUME NEW x \in Uploads
          PROVE  /\ w'[x] \in Writer
                 /\ w'[x].at \in {"new", "done"}
                 /\ w'[x].at = "new" => w[x].at = "new"
      <3>1. CASE w[x].at = "new"
        BY <2>1, <3>1
      <3>2. CASE w[x].at # "new"
        <4>1. w'[x] = [w[x] EXCEPT !.at = "done"]
          BY <2>1, <3>2
        <4>2. w[x] \in Writer
          OBVIOUS
        <4> QED
          BY <4>1, <4>2 DEF Writer, Wheres
      <3> QED
        BY <3>1, <3>2
    <2> QED
      BY <2>2, <2>3
  <1>7. /\ data' \in [Uploads -> {"absent", "cached", "durable", "torn"}]
        /\ \A x \in Uploads : data[x] \in {"absent", "durable"} => data'[x] = data[x]
    BY DEF Crash
  <1>8. NamesAreDurable'
    BY <1>4, <1>5, <1>6, <1>7 DEF NamesAreDurable
  <1>9. RowsAreDurable'
    BY <1>4, <1>5, <1>6 DEF RowsAreDurable, Crash
  <1> QED
    BY <1>2, <1>5, <1>6, <1>7, <1>8, <1>9 DEF Crash

\* The publication contract of the local driver, through any number of power failures: a
\* content address never names torn bytes, and no row is left without its bytes.
THEOREM FilesStayWhole == ~Fresh => (StoreSpec => []FilesAreWhole)
  <1> SUFFICES ASSUME ~Fresh PROVE StoreSpec => []FilesAreWhole
    OBVIOUS
  <1>1. StoreInit => StoreInv
    <2> SUFFICES ASSUME StoreInit PROVE StoreInv
      OBVIOUS
    <2>1. w \in [Uploads -> Writer] /\ \A x \in Uploads : w[x].at = "new"
      BY DEF StoreInit, Writer, Wheres
    <2>2. StoreTypeOK /\ \A d \in Dirs : dir[d] = "durable"
      BY <2>1 DEF StoreInit, StoreTypeOK
    <2>3. NamesAreDurable
      BY <2>1 DEF StoreInit, NamesAreDurable
    <2>4. RowsAreDurable
      BY <2>1 DEF StoreInit, RowsAreDurable
    <2> QED
      BY <2>2, <2>3, <2>4 DEF StoreInv
  <1>2. StoreInv /\ [StoreNext]_storeVars => StoreInv'
    <2> SUFFICES ASSUME StoreInv, [StoreNext]_storeVars PROVE StoreInv'
      OBVIOUS
    <2>1. CASE UNCHANGED storeVars
      BY <2>1 DEF storeVars, StoreInv, StoreTypeOK, NamesAreDurable, RowsAreDurable
    <2>2. CASE StoreNext
      BY <2>2, WriterStep, DeleteStep, CrashStep DEF StoreNext
    <2> QED
      BY <2>1, <2>2
  <1>3. StoreInv => FilesAreWhole
    BY DEF StoreInv, StoreTypeOK, NamesAreDurable, RowsAreDurable, FilesAreWhole, NeverTorn,
           RowsHaveBytes
  <1> QED
    BY <1>1, <1>2, <1>3, PTL DEF StoreSpec

-----------------------------------------------------------------------------
(* S3Writer: one writer, its uploading goroutine and the reaper, for any   *)
(* number of chunks and parts.                                             *)

\* The upload is over with the pipe closed, so that nothing is written after it; its
\* object stays at the staging key until the writer's own end; and the lock keeps what
\* the head or the copy found at the content address until then.
WriterInv ==
    /\ got = written
    /\ upload \in {"sending", "ok"} => pipe = "closed"
    /\ upload = "sending" => answer = "none"
    /\ at = "copy" \/ (synced /\ at \in {"open", "recopy", "publish"}) =>
           upload = "ok"
    /\ upload = "ok" /\ at # "done" => staging = written
    /\ at \in {"recopy", "publish"} => synced
    /\ at = "write" => ~synced
    /\ at = "publish" => final
    /\ answer # "none" => at = "done" /\ upload \in {"ok", "failed"}
    /\ answer = "committed" => final
    /\ answer = "aborted" => staging = Absent

LEMMA GoroutineKeeps ==
  ASSUME WriterInv, Handoff \/ Goroutine
  PROVE  WriterInv'
  <1>1. CASE Handoff
    BY <1>1 DEF Handoff, WriterInv
  <1>2. CASE SendLast
    BY <1>2 DEF SendLast, WriterInv
  <1>3. CASE UploadEnds
    BY <1>3 DEF UploadEnds, WriterInv
  <1>4. CASE UploadFails
    BY <1>4 DEF UploadFails, WriterInv
  <1> QED
    BY <1>1, <1>2, <1>3, <1>4 DEF Goroutine

LEMMA CopyKeeps ==
  ASSUME WriterInv, SyncCopies \/ CommitRecopies
  PROVE  WriterInv'
  <1>1. CASE SyncCopies
    BY <1>1 DEF SyncCopies, Copy, WriterInv
  <1>2. CASE CommitRecopies
    BY <1>2 DEF CommitRecopies, Copy, WriterInv
  <1> QED
    BY <1>1, <1>2

LEMMA CommitKeeps ==
  ASSUME WriterInv, CommitHead \/ CommitHeadFails \/ CommitEnds \/ CopyFails
  PROVE  WriterInv'
  <1>1. CASE CommitHead
    BY <1>1 DEF CommitHead, WriterInv
  <1>2. CASE CommitHeadFails
    BY <1>2 DEF CommitHeadFails, WriterInv
  <1>3. CASE CommitEnds
    BY <1>3 DEF CommitEnds, WriterInv, Absent
  <1>4. CASE CopyFails
    BY <1>4 DEF CopyFails, WriterInv
  <1> QED
    BY <1>1, <1>2, <1>3, <1>4

LEMMA AbortKeeps ==
  ASSUME WriterInv, GiveUp \/ WriteFails \/ AbortBreaks \/ AbortDeletes
  PROVE  WriterInv'
  <1>1. CASE GiveUp \/ WriteFails
    BY <1>1 DEF GiveUp, WriteFails, WriterInv
  <1>2. CASE AbortBreaks
    BY <1>2 DEF AbortBreaks, WriterInv
  <1>3. CASE AbortDeletes
    BY <1>3 DEF AbortDeletes, UploadDone, WriterInv, Absent
  <1> QED
    BY <1>1, <1>2, <1>3

\* The contract of the S3 writer, however the upload, the copies, the reaper and the
\* caller's calls interleave and fail: what is copied to a content address is everything
\* the digest covers, a commit that succeeds leaves the object there, and an abort that
\* succeeds leaves nothing at the staging key, then or later.
THEOREM S3WritesEndWhole == Spec => []WritesEndWhole
  <1>1. Init => WriterInv
    BY DEF Init, WriterInv
  <1>2. WriterInv /\ [Next]_vars => WriterInv'
    <2> SUFFICES ASSUME WriterInv, [Next]_vars PROVE WriterInv'
      OBVIOUS
    <2>1. CASE Write
      BY <2>1 DEF Write, WriterInv
    <2>2. CASE SyncCloses
      BY <2>2 DEF SyncCloses, WriterInv
    <2>3. CASE SyncJoins
      BY <2>3 DEF SyncJoins, UploadDone, WriterInv
    <2>4. CASE Reap
      BY <2>4 DEF Reap, InLock, WriterInv
    <2>5. CASE UNCHANGED vars
      BY <2>5 DEF vars, WriterInv
    <2> QED
      BY <2>1, <2>2, <2>3, <2>4, <2>5, GoroutineKeeps, CopyKeeps, CommitKeeps, AbortKeeps
      DEF Next, Caller
  <1>3. WriterInv => WritesEndWhole
    BY DEF WriterInv, WritesEndWhole, CopiesAreWhole, CommittedIsThere, AbortLeavesNothing
  <1> QED
    BY <1>1, <1>2, <1>3, PTL DEF Spec

=============================================================================
