----------------------------- MODULE LocalStore -----------------------------
(***************************************************************************)
(* The local driver of the byte store, and what a power loss leaves of it. *)
(* A writer stages a file, fsyncs it, creates the fan-out directory of the *)
(* content address, renames the file into it and fsyncs that directory;    *)
(* then the caller's transaction, which holds the digest's lock from       *)
(* before the directory is made, names the bytes in a row.                 *)
(*                                                                         *)
(* What is written reaches the disk at once only by an fsync: of a file    *)
(* for its data, of a directory for the names in it.  A crash keeps or     *)
(* loses everything else, piece by piece.                                  *)
(***************************************************************************)
EXTENDS Naturals, FiniteSets

CONSTANTS
    Addresses,  \* content addresses
    Uploads,    \* writers of one object each
    Dir(_),     \* the fan-out directory of a key
    Fresh,      \* are the fan-out directories still to be made
    MaxCrashes

Nothing == "none"

CrashAssumption == Fresh \in BOOLEAN /\ MaxCrashes \in Nat /\ Nothing \notin Uploads

ASSUME CrashConstants == CrashAssumption

Dirs == {Dir(k) : k \in Addresses}

VARIABLES
    dir,      \* each fan-out directory: absent, cached or durable
    name,     \* the file each content address names, or Nothing
    disk,     \* the same on the disk, as far as fsync guarantees it
    data,     \* each writer's bytes: absent, cached, durable, torn
    staged,   \* the files under staging/
    w,        \* each writer: [at, key, synced]
    named,    \* the keys with a live row
    crashes

storeVars == <<dir, name, disk, data, staged, w, named, crashes>>

StoreInit ==
    /\ dir = [d \in Dirs |-> IF Fresh THEN "absent" ELSE "durable"]
    /\ name = [k \in Addresses |-> Nothing]
    /\ disk = [k \in Addresses |-> Nothing]
    /\ data = [x \in Uploads |-> "absent"]
    /\ staged = {}
    /\ w \in [Uploads -> [at : {"new"}, key : Addresses, synced : {FALSE}]]
    /\ named = {}
    /\ crashes = 0

Goto(x, where) == w' = [w EXCEPT ![x].at = where]

\* The digest's advisory lock: one writer's Commit, or a delete, at a time.
Locked(k) == \E x \in Uploads : w[x].key = k /\ w[x].at \in {"dir", "rename", "fsync", "row"}

-----------------------------------------------------------------------------
(* One writer.                                                             *)

Create(x) ==
    /\ w[x].at = "new"
    /\ staged' = staged \cup {x}
    /\ data' = [data EXCEPT ![x] = "cached"]
    /\ Goto(x, "staged")
    /\ UNCHANGED <<dir, name, disk, named, crashes>>

Sync(x) ==
    /\ w[x].at = "staged"
    /\ ~w[x].synced
    /\ data' = [data EXCEPT ![x] = "durable"]
    /\ w' = [w EXCEPT ![x].synced = TRUE]
    /\ UNCHANGED <<dir, name, disk, staged, named, crashes>>

CommitSyncs_Never(x) ==
    /\ w[x].at = "staged"
    /\ ~Locked(w[x].key)
    /\ Goto(x, "dir")
    /\ UNCHANGED <<dir, name, disk, data, staged, named, crashes>>

\* Commit pays for the fsync when Sync was not called.
CommitSyncs(x) ==
    /\ w[x].at = "staged"
    /\ ~Locked(w[x].key)
    /\ data' = [data EXCEPT ![x] = "durable"]
    /\ w' = [w EXCEPT ![x].at = "dir", ![x].synced = TRUE]
    /\ UNCHANGED <<dir, name, disk, staged, named, crashes>>

MkdirAll(x) ==
    /\ w[x].at = "dir"
    /\ dir' = [dir EXCEPT ![Dir(w[x].key)] = IF @ = "absent" THEN "cached" ELSE @]
    /\ Goto(x, "rename")
    /\ UNCHANGED <<name, disk, data, staged, named, crashes>>

Rename(x) ==
    /\ w[x].at = "rename"
    /\ name' = [name EXCEPT ![w[x].key] = x]
    /\ staged' = staged \ {x}
    /\ Goto(x, "fsync")
    /\ UNCHANGED <<dir, disk, data, named, crashes>>

FsyncDir_Skipped(x) ==
    /\ w[x].at = "fsync"
    /\ Goto(x, "row")
    /\ UNCHANGED <<dir, name, disk, data, staged, named, crashes>>

\* The fsync of the directory makes the names in it durable, not its own.
FsyncDir(x) ==
    /\ w[x].at = "fsync"
    /\ disk' = [k \in Addresses |-> IF Dir(k) = Dir(w[x].key) THEN name[k] ELSE disk[k]]
    /\ Goto(x, "row")
    /\ UNCHANGED <<dir, name, data, staged, named, crashes>>

\* The directory cannot be synced: Commit fails with the name in place.
FsyncFails(x) ==
    /\ w[x].at = "fsync"
    /\ Goto(x, "done")
    /\ UNCHANGED <<dir, name, disk, data, staged, named, crashes>>

\* The transaction that held the lock commits the row, or fails to.
Row(x) ==
    /\ w[x].at = "row"
    /\ named' \in {named, named \cup {w[x].key}}
    /\ Goto(x, "done")
    /\ UNCHANGED <<dir, name, disk, data, staged, crashes>>

\* Abort removes the staged file and nothing else.
Abort(x) ==
    /\ w[x].at \in {"staged", "dir", "rename"}
    /\ staged' = staged \ {x}
    /\ Goto(x, "done")
    /\ UNCHANGED <<dir, name, disk, data, named, crashes>>

-----------------------------------------------------------------------------
(* Metadata goes first, bytes after it; and the power may fail.            *)

Unname(k) ==
    /\ k \in named
    /\ named' = named \ {k}
    /\ UNCHANGED <<dir, name, disk, data, staged, w, crashes>>

Delete(k) ==
    /\ k \notin named
    /\ ~Locked(k)
    /\ name[k] # Nothing
    /\ name' = [name EXCEPT ![k] = Nothing]
    /\ UNCHANGED <<dir, disk, data, staged, w, named, crashes>>

\* Each cached directory and unsynced name is kept or lost; unsynced data tears.
\* Names in a lost directory are lost with it.
Crash ==
    /\ crashes < MaxCrashes
    /\ crashes' = crashes + 1
    /\ \E kept \in SUBSET {d \in Dirs : dir[d] = "cached"} :
         /\ dir' = [d \in Dirs |-> CASE dir[d] = "cached" /\ d \in kept -> "durable"
                                     [] dir[d] = "cached" -> "absent"
                                     [] OTHER -> dir[d]]
         /\ \E now \in SUBSET Addresses :
              disk' = [k \in Addresses |-> IF dir'[Dir(k)] = "absent" THEN Nothing
                                      ELSE IF k \in now THEN name[k] ELSE disk[k]]
    /\ name' = disk'
    /\ data' = [x \in Uploads |-> IF data[x] = "cached" THEN "torn" ELSE data[x]]
    /\ w' = [x \in Uploads |-> IF w[x].at = "new" THEN w[x] ELSE [w[x] EXCEPT !.at = "done"]]
    /\ UNCHANGED <<staged, named>>

StoreNext ==
    \/ \E x \in Uploads : \/ Create(x) \/ Sync(x) \/ CommitSyncs(x) \/ MkdirAll(x)
                          \/ Rename(x) \/ FsyncDir(x) \/ FsyncFails(x) \/ Row(x) \/ Abort(x)
    \/ \E k \in Addresses : Unname(k) \/ Delete(k)
    \/ Crash

StoreSpec == StoreInit /\ [][StoreNext]_storeVars

-----------------------------------------------------------------------------
(* Properties.                                                             *)

\* "A torn file is not observable -- not after a crash, not under a concurrent
\* read, not ever": whatever a content address names is whole.
NeverTorn == \A k \in Addresses : name[k] # Nothing => data[name[k]] \in {"cached", "durable"}

\* The publication contract: bytes are durable at their content address before a
\* row names them, so no crash leaves a row without its bytes.
RowsHaveBytes == \A k \in named : name[k] # Nothing

\* Both halves of the publication contract: a content address names whole bytes or
\* nothing, and a row names an address that names something.
FilesAreWhole == NeverTorn /\ RowsHaveBytes

=============================================================================
