------------------------------- MODULE Reaper -------------------------------
(***************************************************************************)
(* Stages 0 and 10 of a run (markLayerB and reapPending of                 *)
(* internal/gc/sweep.go): unreferenced blobs are marked a batch at a time, *)
(* and the pending ones, oldest first, are driven through ReapDigest in    *)
(* rounds that stop when one makes no progress.  Some digests cannot be    *)
(* reaped; others are revived by a write.  The queue survives a crash.     *)
(***************************************************************************)
EXTENDS Naturals, Sequences, SequencesExt, FiniteSets

CONSTANTS
    Blobs,       \* digests that fall out of use
    Stuck,       \* digests whose bytes cannot be unlinked
    BatchSize,   \* --gc-batch-size
    ReapRounds   \* reapRounds

ReaperAssumption ==
    IsFiniteSet(Blobs) /\ Stuck \subseteq Blobs /\ {BatchSize, ReapRounds} \subseteq Nat \ {0}

VARIABLES
    dead,      \* unreferenced blobs past the grace period, not marked
    queue,     \* pending_delete blobs by delete_started_at
    page,      \* what is left of the page the round listed
    progress,  \* whether this round made any
    failed,    \* whether a digest of this round failed
    round,     \* rounds so far
    at,        \* idle, redrive (stage 0), mark, drain (stage 10), between (the stages)
    revived,   \* history: blobs written again while pending
    outcome    \* how the last run ended

vars == <<dead, queue, page, progress, failed, round, at, revived, outcome>>
loop == <<page, progress, failed, round>>

Init ==
    /\ dead = Blobs /\ queue = << >> /\ page = << >> /\ progress = FALSE /\ failed = FALSE
    /\ round = 0 /\ at = "idle" /\ revived = {} /\ outcome = "none"

Pending == ToSet(queue)

\* The run begins with the crash re-drive.
StartRun ==
    /\ at = "idle" /\ at' = "redrive" /\ round' = 0
    /\ UNCHANGED <<dead, queue, page, progress, failed, revived, outcome>>

Ends(why) == at' = "idle" /\ outcome' = why

\* A reapPending call returned nil: the stages follow stage 0, stage 10 ends the run.
Returns == IF at = "redrive" THEN at' = "between" /\ UNCHANGED outcome ELSE Ends("done")

\* The retention stages, of which only the end matters here.
Stages ==
    /\ at = "between" /\ at' = "mark"
    /\ UNCHANGED <<dead, queue, loop, revived, outcome>>

\* A batch of unreferenced blobs is marked; a batch that is not full is the last.
MarkLayerB ==
    /\ at = "mark"
    /\ \E S \in SUBSET dead :
         /\ Cardinality(S) = IF Cardinality(dead) < BatchSize THEN Cardinality(dead) ELSE BatchSize
         /\ dead' = dead \ S
         /\ queue' = queue \o SetToSeq(S)
         /\ IF Cardinality(S) < BatchSize THEN at' = "drain" /\ round' = 0 ELSE UNCHANGED <<at, round>>
    /\ UNCHANGED <<page, progress, failed, revived, outcome>>

\* A round lists the oldest pending blobs; an empty list, or the last round, is the end.
ListPending ==
    /\ at \in {"redrive", "drain"} /\ page = << >> /\ progress = FALSE /\ failed = FALSE
    /\ IF queue = << >> \/ round = ReapRounds
       THEN Returns /\ UNCHANGED <<page, round>>
       ELSE /\ page' = SubSeq(queue, 1, IF Len(queue) < BatchSize THEN Len(queue) ELSE BatchSize)
            /\ round' = round + 1 /\ UNCHANGED <<at, outcome>>
    /\ UNCHANGED <<dead, queue, progress, failed, revived>>

\* Mutant: a digest that fails ends the round and the run.
ReapDigest_Aborts ==
    LET d == Head(page) IN
    /\ page # << >>
    /\ IF d \in Stuck /\ d \in Pending
       THEN page' = << >> /\ Ends("error") /\ progress' = FALSE /\ failed' = FALSE /\ UNCHANGED queue
       ELSE page' = Tail(page) /\ progress' = TRUE /\ UNCHANGED <<failed, at, outcome>>
            /\ queue' = SelectSeq(queue, LAMBDA x : x # d)
    /\ UNCHANGED <<dead, round, revived>>

\* ReapDigest of the next one: it goes, or it was revived meanwhile and is none of ours
\* any more, or it fails and stays where it is.
ReapDigest ==
    LET d == Head(page) IN
    /\ page # << >> /\ page' = Tail(page)
    /\ IF d \in Stuck /\ d \in Pending
       THEN failed' = TRUE /\ UNCHANGED <<queue, progress>>
       ELSE progress' = TRUE /\ queue' = SelectSeq(queue, LAMBDA x : x # d) /\ UNCHANGED failed
    /\ UNCHANGED <<dead, round, at, revived, outcome>>

\* Mutant: rounds go on while the queue is not empty.
EndRound_Spins ==
    /\ at \in {"redrive", "drain"} /\ page = << >> /\ (progress \/ failed)
    /\ progress' = FALSE /\ failed' = FALSE /\ round' = 0
    /\ UNCHANGED <<dead, queue, page, at, revived, outcome>>

\* The round is over: with no progress it is the last, and an error if one failed.
EndRound ==
    /\ at \in {"redrive", "drain"} /\ page = << >> /\ (progress \/ failed)
    /\ progress' = FALSE /\ failed' = FALSE
    /\ IF progress THEN UNCHANGED <<at, outcome>> ELSE Ends("error")
    /\ UNCHANGED <<dead, queue, page, round, revived>>

\* A write of the same content revives a pending blob.
Revive(d) ==
    /\ d \in Pending /\ d \notin revived
    /\ queue' = SelectSeq(queue, LAMBDA x : x # d)
    /\ revived' = revived \cup {d}
    /\ UNCHANGED <<dead, loop, at, outcome>>

\* The process dies; marks are rows and stay.
Crash ==
    /\ at # "idle" /\ Ends("crash")
    /\ page' = << >> /\ progress' = FALSE /\ failed' = FALSE
    /\ UNCHANGED <<dead, queue, round, revived>>

Step == StartRun \/ Stages \/ MarkLayerB \/ ListPending \/ ReapDigest \/ EndRound
Next == Step \/ Crash \/ \E d \in Blobs : Revive(d)

Spec == Init /\ [][Next]_vars

=============================================================================
