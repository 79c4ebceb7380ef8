----------------------------- MODULE LateDelete -----------------------------
(***************************************************************************)
(* The blob protocol over a remote store, whose answers may be lost.       *)
(*                                                                         *)
(* ReapDigest runs under a deadline (chunkCtx in gc/sweep.go), and the S3  *)
(* store's Delete is a request over the network.  When the deadline passes *)
(* the transaction rolls back and frees the digest's lock; the request is  *)
(* still on its way, and the bucket may carry it out later.                *)
(***************************************************************************)
EXTENDS BlobStore

VARIABLE late  \* digests with a DeleteObject on its way that nobody waits for

lateVars == <<vars, late>>

LateInit == Init /\ late = {}

\* The deadline passes while storage.Delete waits for an answer.
UnlinkTimesOut(s) ==
    /\ At(s, "reap", "unlink")
    /\ Abort(s)
    /\ late' = late \cup {digest[s]}

\* The bucket carries out an abandoned request, or never gets it.
DeleteArrives(d) ==
    /\ d \in late
    /\ late' = late \ {d}
    /\ bytes' \in {bytes, bytes \ {d}}
    /\ UNCHANGED <<rows, session, begunBefore, locks>>

LateNext ==
    \/ Next /\ UNCHANGED late
    \/ \E s \in Collectors : UnlinkTimesOut(s)
    \/ \E d \in Digests : DeleteArrives(d)

LateSpec == LateInit /\ [][LateNext]_lateVars

\* storage/s3.go on Commit: "One HeadObject re-establishes the mutual exclusion the
\* lock is supposed to provide."  So no object names content that is not in the
\* bucket, however late the collector's delete requests arrive.
MetadataNamesBytes == \A k \in Keys : names[k] # None => names[k] \in bytes
=============================================================================
