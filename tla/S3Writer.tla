------------------------------ MODULE S3Writer ------------------------------
(***************************************************************************)
(* The writer of the S3 driver: a caller that feeds a pipe, and a goroutine *)
(* that uploads what comes out of it to a staging key.  Sync ends the      *)
(* upload and copies the object to its content address, in one call or in  *)
(* parts; Commit, under the digest's lock, looks whether it is still there *)
(* and copies again if it is not; Abort breaks the pipe, waits for the     *)
(* goroutine and deletes the staging key.  A reaper deletes the object     *)
(* whenever the lock is free, the network fails, the request is cancelled. *)
(***************************************************************************)
EXTENDS Naturals

CONSTANTS
    MaxChunks,   \* how many chunks the caller writes
    Parts        \* how many parts a copy takes; 1 is a CopyObject

BoundsAssumption == MaxChunks \in Nat /\ Parts \in Nat \ {0}

VARIABLES
    at,        \* where the caller is
    written,   \* the chunks the pipe has taken, which the digest covers
    pipe,      \* the write half: open, closed or broken
    reading,   \* is the read half open
    upload,    \* the goroutine: running, sending, ok or failed
    got,       \* the chunks it has read
    staging,   \* the object at the staging key: its chunks, or Absent
    final,     \* is the whole object at the content address
    parts,     \* the parts a copy has copied
    synced,
    answer     \* what the last call of the writer's life returned

vars == <<at, written, pipe, reading, upload, got, staging, final, parts, synced, answer>>

Absent == MaxChunks + 1

Init ==
    /\ at = "open"
    /\ written = 0
    /\ pipe = "open"
    /\ reading = TRUE
    /\ upload = "running"
    /\ got = 0
    /\ staging = Absent
    /\ final \in BOOLEAN
    /\ parts = 0
    /\ synced = FALSE
    /\ answer = "none"

-----------------------------------------------------------------------------
(* The uploading goroutine.                                                *)

\* A chunk passes from a waiting Write to the uploader.
Handoff ==
    /\ at = "write"
    /\ upload = "running" /\ reading /\ pipe = "open"
    /\ written' = written + 1
    /\ got' = got + 1
    /\ at' = "open"
    /\ UNCHANGED <<pipe, reading, upload, staging, final, parts, synced, answer>>

\* The end of the pipe: the last request is sent, and lands.
SendLast ==
    /\ upload = "running" /\ pipe = "closed"
    /\ upload' = "sending"
    /\ UNCHANGED <<at, written, pipe, reading, got, staging, final, parts, synced, answer>>

UploadEnds ==
    /\ upload = "sending"
    /\ staging' = got
    /\ upload' = "ok"
    /\ reading' = FALSE
    /\ UNCHANGED <<at, written, pipe, got, final, parts, synced, answer>>

\* A goroutine that ends without closing its half of the pipe.
UploadFails_Silently ==
    /\ upload \in {"running", "sending"}
    /\ upload' = "failed"
    /\ UNCHANGED <<at, written, pipe, reading, got, staging, final, parts, synced, answer>>

\* The network, a cancelled request or a broken pipe: the uploader aborts its
\* own upload, and whoever feeds the pipe is told.
UploadFails ==
    /\ upload \in {"running", "sending"}
    /\ upload' = "failed"
    /\ reading' = FALSE
    /\ UNCHANGED <<at, written, pipe, got, staging, final, parts, synced, answer>>

UploadDone == upload \in {"ok", "failed"}

-----------------------------------------------------------------------------
(* The caller.                                                             *)

Write ==
    /\ at = "open" /\ ~synced
    /\ written < MaxChunks
    /\ at' = "write"
    /\ UNCHANGED <<written, pipe, reading, upload, got, staging, final, parts, synced, answer>>

\* Nobody reads the pipe any more: waitUpload, and its error.
WriteFails ==
    /\ at = "write"
    /\ ~reading
    /\ UploadDone
    /\ at' = "abort"
    /\ UNCHANGED <<written, pipe, reading, upload, got, staging, final, parts, synced, answer>>

\* Sync closes the write half and joins the goroutine.
SyncCloses ==
    /\ at = "open" /\ ~synced
    /\ pipe' = "closed"
    /\ at' = "sync"
    /\ UNCHANGED <<written, reading, upload, got, staging, final, parts, synced, answer>>

SyncJoins ==
    /\ at = "sync"
    /\ UploadDone
    /\ at' = IF upload = "ok" THEN "copy" ELSE "abort"
    /\ parts' = 0
    /\ UNCHANGED <<written, pipe, reading, upload, got, staging, final, synced, answer>>

\* copyToFinal: part by part, visible with the last one.
Copy(next) ==
    /\ staging # Absent
    /\ parts < Parts
    /\ parts' = parts + 1
    /\ final' = (final \/ parts' = Parts)
    /\ at' = IF parts' = Parts THEN next ELSE at
    /\ synced' = (synced \/ parts' = Parts)
    /\ UNCHANGED <<written, pipe, reading, upload, got, staging, answer>>

SyncCopies == at = "copy" /\ Copy("open")

\* A failed copy aborts its parts; the error goes to the caller.
CopyFails ==
    /\ at \in {"copy", "recopy"}
    /\ at' = "abort"
    /\ UNCHANGED <<written, pipe, reading, upload, got, staging, final, parts, synced, answer>>

\* Commit runs with the digest's lock held from here on.
CommitHead_Trusting ==
    /\ at = "open" /\ synced
    /\ parts' = 0
    /\ at' = "publish"
    /\ UNCHANGED <<written, pipe, reading, upload, got, staging, final, synced, answer>>

CommitHead ==
    /\ at = "open" /\ synced
    /\ parts' = 0
    /\ at' = IF final THEN "publish" ELSE "recopy"
    /\ UNCHANGED <<written, pipe, reading, upload, got, staging, final, synced, answer>>

\* The head itself fails: the object's presence is not known.
CommitHeadFails ==
    /\ at = "open" /\ synced
    /\ at' = "abort"
    /\ UNCHANGED <<written, pipe, reading, upload, got, staging, final, parts, synced, answer>>

CommitRecopies == at = "recopy" /\ Copy("publish")

\* The staging key goes, if it can; a failure is not the caller's.
CommitEnds ==
    /\ at = "publish"
    /\ staging' \in {staging, Absent}
    /\ at' = "done"
    /\ answer' = "committed"
    /\ UNCHANGED <<written, pipe, reading, upload, got, final, parts, synced>>

\* The caller dedups, or gives up, before Commit.
GiveUp ==
    /\ at = "open"
    /\ at' = "abort"
    /\ UNCHANGED <<written, pipe, reading, upload, got, staging, final, parts, synced, answer>>

AbortBreaks ==
    /\ at = "abort"
    /\ pipe' = IF pipe = "open" THEN "broken" ELSE pipe
    /\ at' = "abort_join"
    /\ UNCHANGED <<written, reading, upload, got, staging, final, parts, synced, answer>>

\* A delete on the request's own context, which may be dead, its error dropped.
AbortDeletes_Attached ==
    /\ at = "abort_join"
    /\ UploadDone
    /\ staging' \in {staging, Absent}
    /\ answer' = "aborted"
    /\ at' = "done"
    /\ UNCHANGED <<written, pipe, reading, upload, got, final, parts, synced>>

\* The goroutine is joined, then the key deleted with a context of its own.
AbortDeletes ==
    /\ at = "abort_join"
    /\ UploadDone
    /\ \/ staging' = Absent /\ answer' = "aborted"
       \/ answer' = "error" /\ UNCHANGED staging
    /\ at' = "done"
    /\ UNCHANGED <<written, pipe, reading, upload, got, final, parts, synced>>

-----------------------------------------------------------------------------

InLock == at \in {"recopy", "publish"}

\* A reap of the same digest, which the lock keeps out of Commit.
Reap ==
    /\ final
    /\ ~InLock
    /\ at # "done"
    /\ final' = FALSE
    /\ UNCHANGED <<at, written, pipe, reading, upload, got, staging, parts, synced, answer>>

Goroutine == SendLast \/ UploadEnds \/ UploadFails

Caller ==
    \/ WriteFails \/ SyncJoins \/ SyncCopies \/ CopyFails
    \/ CommitHead \/ CommitHeadFails \/ CommitRecopies \/ CommitEnds
    \/ AbortBreaks \/ AbortDeletes

Next == Handoff \/ Goroutine \/ Caller \/ Write \/ SyncCloses \/ GiveUp \/ Reap

Spec == Init /\ [][Next]_vars

-----------------------------------------------------------------------------
(* Properties.                                                             *)

\* What Sync, and Commit after a reap, copy to the content address is everything that
\* went into the digest: the upload is joined first, and nothing is written after it.
CopiesAreWhole == at \in {"copy", "recopy"} => staging = written

\* A commit that succeeds leaves the object at its content address, whatever a reap did
\* between Sync's copy and the lock.
CommittedIsThere == answer = "committed" => final

\* An Abort that succeeds leaves nothing at the staging key, and nothing arrives
\* there later: the goroutine is joined before the key is deleted, and the delete
\* does not depend on the request that was aborted.
AbortLeavesNothing == answer = "aborted" => staging = Absent

\* A writer's life ends with the whole object at its content address, or with nothing at
\* its staging key.
WritesEndWhole == CopiesAreWhole /\ CommittedIsThere /\ AbortLeavesNothing

=============================================================================
