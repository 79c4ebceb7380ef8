------------------------------- MODULE GcSweep -------------------------------
(***************************************************************************)
(* The retention stages of a run (sweep, sweepHashserv, sweepBackend,      *)
(* runStage, processPage and sweepManifests of internal/gc/sweep.go) over  *)
(* one backend, against the builds that go on reading and writing it.      *)
(* Reads are recorded in memory and reach accessed_at through a flush, so  *)
(* a run must look in both places.  One key stands for each namespace, a   *)
(* page holds one row, and time is a counter.                              *)
(***************************************************************************)
EXTENDS Integers, Sequences

CONSTANTS
    SweptKinds,  \* the kinds of backend the run may find: bazel, registry, sstate
    Window,      \* its retention_window
    Staleness,   \* --gc-touch-staleness
    BuildTime,   \* how long a build may act on an answer it was given
    FlushDuringPage,  \* whether a background flush may fall between a page's scan and its probes
    Reuploads,   \* namespaces a client writes without asking whether they are missing
    Used,        \* the namespaces the builds use
    DryRuns,     \* whether runs are dry: a set of Booleans
    MaxClock     \* bound on the clock

\* The namespaces of each kind in the order their stages run, stage 1 of the paired
\* hashserv first.
StagesOf == [bazel    |-> <<"ac", "cas">>,
             registry |-> <<"tags", "manifests", "blobs">>,
             sstate   |-> <<"unihashes", "objects">>]

Namespaces == {"ac", "cas", "tags", "manifests", "blobs", "unihashes", "objects"}

GcSweepAssumption ==
    /\ SweptKinds \subseteq DOMAIN StagesOf
    /\ Used \subseteq Namespaces
    /\ DryRuns \subseteq BOOLEAN
    /\ {Window, Staleness, BuildTime, MaxClock} \subseteq Nat

\* W_cas = 2 W_ac, W_manifests = W_blobs = 2 W_tags.
LadderFactor == 2

\* Stages that are one SQL statement; the others scan, decide, probe and delete.
OneStatement == {"unihashes", "manifests"}

Overwritable == {"ac", "tags"}

\* What an entry names.
Refs(k) == CASE k = "ac" -> {"cas"} [] k = "tags" -> {"manifests"} [] OTHER -> {}

WindowOf(k) == IF k \in {"cas", "manifests", "blobs"} THEN LadderFactor * Window ELSE Window

VARIABLES
    kind,      \* the backend's kind, which never changes
    clock,
    row,       \* the row of each key, with the barrier's verdict on it (fresh)
    marks,     \* keys whose read is only in the LRU's marks (markedAt)
    aux,       \* keys whose touch is only in the auxiliary map (MarkAccessed)
    touching,  \* a GetActionResult between its hit and its touchOutputs
    held,      \* what the build under way has been told is present
    heldAt,    \* when it was first told so
    ack,       \* history: when each key was last answered present or stored
    late,      \* history: keys answered since the run last looked
    raced,     \* history: keys deleted while such an answer was out
    run        \* the run: step, remaining stages, row read, dry or not

sweepVars == <<kind, clock, row, marks, aux, touching, held, heldAt, ack, late, raced, run>>
build == <<touching, held, heldAt>>
history == <<ack, late, raced>>

NoRow == [in |-> FALSE, created |-> 0, accessed |-> -1, updated |-> 0, fresh |-> FALSE]
NoRun == [at |-> "idle", todo |-> << >>, seen |-> NoRow, start |-> 0, dead |-> FALSE, dry |-> FALSE]
Never == -MaxClock

\* The namespaces of the backend, in the order of their stages.
Stages == StagesOf[kind]

SweepInit ==
    /\ kind \in SweptKinds
    /\ clock = 0 /\ row = [k \in Namespaces |-> NoRow]
    /\ marks = {} /\ aux = {} /\ touching = FALSE /\ held = {} /\ heldAt = 0
    /\ ack = [k \in Namespaces |-> Never] /\ late = {} /\ raced = {}
    /\ run = NoRun

-----------------------------------------------------------------------------
(* Builds *)

\* A key was answered present, or stored, to the build under way.
Answered(k) ==
    /\ held' = held \cup {k}
    /\ heldAt' = IF held = {} THEN clock ELSE heldAt
    /\ ack' = [ack EXCEPT ![k] = clock]
    /\ late' = late \cup {k}

\* Time passes within what a build and an RPC may take.
Pass ==
    /\ clock < MaxClock /\ ~touching /\ (held # {} => clock < heldAt + BuildTime)
    /\ clock' = clock + 1
    /\ UNCHANGED <<kind, row, marks, aux, build, history, run>>

\* A write of a missing key, or of an overwritable one: the row is new to the barrier,
\* and its read record, if it had one, stays.
Put(k) ==
    /\ Refs(k) \subseteq held
    /\ ~row[k].in \/ k \in Overwritable
    /\ row' = [row EXCEPT ![k] = [in |-> TRUE, created |-> clock, accessed |-> row[k].accessed,
                    updated |-> IF k = "tags" THEN clock ELSE 0,
                    fresh |-> run.at # "idle"]]
    /\ Answered(k)
    /\ raced' = raced \ {k}
    /\ UNCHANGED <<kind, clock, marks, aux, touching, run>>

\* A write of an immutable key that is there: DO NOTHING, and Service.cache drops the
\* entry with its mark.
PutAgain(k) ==
    /\ k \in Reuploads /\ row[k].in
    /\ marks' = marks \ {k}
    /\ Answered(k)
    /\ UNCHANGED <<kind, clock, row, aux, touching, raced, run>>

\* A read, or FindMissingBlobs finding the key: the LRU entry is stamped.  A tag is read
\* uncached and touched instead.
Read(k) ==
    /\ row[k].in /\ ~(k = "ac" /\ touching)
    /\ \/ k # "tags" /\ marks' = marks \cup {k} /\ UNCHANGED row
       \/ k = "tags" /\ row' = [row EXCEPT ![k].updated = clock] /\ UNCHANGED marks
    /\ touching' = (touching \/ k = "ac")
    /\ Answered(k)
    /\ UNCHANGED <<kind, clock, aux, raced, run>>

\* Mutant: the hit's outputs are not touched (the ladder alone).
TouchOutputs_Nothing ==
    /\ touching /\ touching' = FALSE
    /\ UNCHANGED <<kind, clock, row, marks, aux, held, heldAt, history, run>>

\* touchOutputs: the outputs an action-cache hit names go into the auxiliary map.
TouchOutputs ==
    /\ touching /\ touching' = FALSE
    /\ aux' = aux \cup Refs("ac") /\ late' = late \cup Refs("ac")
    /\ UNCHANGED <<kind, clock, row, marks, held, heldAt, ack, raced, run>>

\* The build is over; what it was told no longer matters to it.
EndBuild ==
    /\ held # {} /\ held' = {} /\ heldAt' = 0
    /\ UNCHANGED <<kind, clock, row, marks, aux, touching, history, run>>

-----------------------------------------------------------------------------
(* The touchers *)

PendingTouch(k) == k \in marks \cup aux

\* TouchObjectsAccessed for the keys of S with a pending mark, unless the record is no
\* older than the staleness given.  A mark stays pending until its write is in, and rows
\* that are gone take no write.
Flushed(S, staleness) ==
    [k \in Namespaces |->
        IF k \in S /\ PendingTouch(k) /\ row[k].in
           /\ (row[k].accessed < 0 \/ row[k].accessed < clock - staleness)
        THEN [row[k] EXCEPT !.accessed = clock] ELSE row[k]]

\* The background flush, of the marks S and touches A that are old enough.  A hit stamps its
\* entry before its outputs; an entry stamped again since is taken with the touch that is
\* still pending, though by its own stamp it may wait for the next flush.
Flush ==
    /\ run.at \in {"decide", "veto"} => FlushDuringPage
    /\ \E S \in SUBSET marks, A \in SUBSET aux :
          /\ S \cup A # {} /\ (A # {} => "ac" \notin marks \ S)
          /\ row' = Flushed(S \cup A, Staleness) /\ marks' = marks \ S /\ aux' = aux \ A
    /\ UNCHANGED <<kind, clock, build, history, run>>

-----------------------------------------------------------------------------
(* The run *)

\* The run's row freezes the snapshot; what was written before it is old.
StartSweep(dry) ==
    /\ run.at = "idle"
    /\ row' = [k \in Namespaces |-> [row[k] EXCEPT !.fresh = FALSE]]
    /\ run' = [NoRun EXCEPT !.at = "flush", !.todo = Stages, !.start = clock, !.dry = dry]
    /\ UNCHANGED <<kind, clock, marks, aux, build, history>>

\* Mutant: the flush before the stages is left to the background.
FlushMarks_Skipped ==
    /\ run.at = "flush"
    /\ run' = [run EXCEPT !.at = "stage"]
    /\ late' = late \ OneStatement
    /\ UNCHANGED <<kind, clock, row, marks, aux, build, ack, raced>>

\* flushUnihashMarks before stage 1, flushAccessMarks before the first object stage: every
\* mark, with a staleness of zero.  A dry run writes nothing.
FlushMarks ==
    LET S == IF Head(run.todo) = "unihashes" THEN {"unihashes"} ELSE Namespaces \ {"unihashes"} IN
    /\ run.at = "flush"
    /\ run' = [run EXCEPT !.at = "stage"]
    /\ row' = IF run.dry THEN row ELSE Flushed(S, 0)
    /\ marks' = IF run.dry THEN marks ELSE marks \ S
    /\ aux' = IF run.dry THEN aux ELSE aux \ S
    /\ late' = late \ (S \cap OneStatement)
    /\ UNCHANGED <<kind, clock, build, ack, raced>>

\* coalesce(accessed_at, created_at).
LivenessOf(r) == IF r.accessed >= 0 THEN r.accessed ELSE r.created

\* deciderFor's rules; a window of zero never reaches them.
Expired(k, r, t) ==
    LET cutoff == t - WindowOf(k) IN
    /\ Window > 0
    /\ \/ k = "tags" /\ r.updated < cutoff
       \/ k = "ac" /\ r.created < cutoff /\ LivenessOf(r) < cutoff
       \/ k \notin {"tags", "ac"} /\ LivenessOf(r) < cutoff

\* The stage is done: the next one, the second flush between hashserv and objects, or
\* the end of the run.
NextStage(r) ==
    IF Len(r.todo) = 1 THEN NoRun
    ELSE [r EXCEPT !.todo = Tail(@), !.seen = NoRow, !.dead = FALSE,
                   !.at = IF Head(r.todo) = "unihashes" THEN "flush" ELSE "stage"]

\* The rows of S go, with the marks of their cache entries (delBatch, InvalidateKeys).
Erase(S) ==
    /\ row' = [k \in Namespaces |-> IF k \in S THEN NoRow ELSE row[k]]
    /\ marks' = marks \ S
    /\ raced' = raced \cup {k \in S : k \in late \/ (touching /\ k \in Refs("ac"))}

\* Mutant: the anti-join on tags is dropped.
SweepStatement_NoAntiJoin ==
    LET k == Head(run.todo) IN
    /\ run.at = "stage" /\ k \in OneStatement
    /\ Erase({x \in {k} : row[x].in /\ ~row[x].fresh /\ ~run.dry /\ Expired(x, row[x], clock)})
    /\ run' = NextStage(run)
    /\ UNCHANGED <<kind, clock, aux, build, ack, late>>

\* SweepUnihashes and SweepUnreferencedManifests: barrier, age and, for a manifest, the
\* anti-join on tags, as things stand when the statement runs.  No mark is consulted.
SweepStatement ==
    LET k == Head(run.todo) IN
    /\ run.at = "stage" /\ k \in OneStatement
    /\ Erase({x \in {k} : /\ row[x].in /\ ~row[x].fresh /\ ~run.dry /\ Expired(x, row[x], clock)
                           /\ (x = "manifests" => ~row["tags"].in)})
    /\ run' = NextStage(run)
    /\ UNCHANGED <<kind, clock, aux, build, ack, late>>

\* ScanObjectsForGC returns the row if the barrier passes it; an empty page ends the stage.
Scan ==
    LET k == Head(run.todo) IN
    /\ run.at = "stage" /\ k \notin OneStatement
    /\ run' = IF row[k].in /\ ~row[k].fresh THEN [run EXCEPT !.at = "decide", !.seen = row[k]]
              ELSE NextStage(run)
    /\ late' = late \ ({k} \cap {"tags"})
    /\ UNCHANGED <<kind, clock, row, marks, aux, build, ack, raced>>

\* The decider, on the row as scanned; for sstate it asks the paired hashserv.
Decide ==
    LET k == Head(run.todo) IN
    /\ run.at = "decide"
    /\ run' = [run EXCEPT !.at = "veto",
                          !.dead = /\ Expired(k, run.seen, run.start)
                                   /\ (k = "objects" => ~row["unihashes"].in)]
    /\ UNCHANGED <<kind, clock, row, marks, aux, build, history>>

\* Mutant: the probe for pending marks is dropped.
Veto_Dropped ==
    LET k == Head(run.todo) IN
    /\ run.at = "veto"
    /\ run' = IF ~run.dead THEN NextStage(run) ELSE [run EXCEPT !.at = "delete"]
    /\ late' = late \ ({k} \ {"tags"})
    /\ UNCHANGED <<kind, clock, row, marks, aux, build, ack, raced>>

\* processPage's probe: a row that lives, or has a pending mark, is left alone.
Veto ==
    LET k == Head(run.todo) IN
    /\ run.at = "veto"
    /\ run' = IF ~run.dead \/ PendingTouch(k) THEN NextStage(run) ELSE [run EXCEPT !.at = "delete"]
    /\ late' = late \ ({k} \ {"tags"})
    /\ UNCHANGED <<kind, clock, row, marks, aux, build, ack, raced>>

\* DeleteBatch: the barrier is asked again, the age and the marks are not.
DeleteBatch ==
    LET k == Head(run.todo) IN
    /\ run.at = "delete"
    /\ Erase({x \in {k} : row[x].in /\ ~row[x].fresh /\ ~run.dry})
    /\ run' = NextStage(run)
    /\ UNCHANGED <<kind, clock, aux, build, ack, late>>

\* An error, or the end of the process's lifetime, cuts the run short.
SweepFails ==
    /\ run.at # "idle" /\ run' = NoRun
    /\ UNCHANGED <<kind, clock, row, marks, aux, build, history>>

-----------------------------------------------------------------------------
SweepNext ==
    \/ Pass \/ TouchOutputs \/ EndBuild \/ Flush
    \/ \E k \in Used \cap {Stages[i] : i \in DOMAIN Stages} : Put(k) \/ PutAgain(k) \/ Read(k)
    \/ \E dry \in DryRuns : StartSweep(dry)
    \/ FlushMarks \/ SweepStatement \/ Scan \/ Decide \/ Veto \/ DeleteBatch \/ SweepFails

SweepSpec == SweepInit /\ [][SweepNext]_sweepVars

-----------------------------------------------------------------------------
(* Properties *)

Deleted(k) == row[k].in /\ ~row'[k].in

\* Read lately enough that nothing with this window may call the key cold.
Warm(k) == ack[k] >= clock - WindowOf(k) + Staleness

\* A sweep never deletes a key that was answered present, or stored, within its window
\* less the staleness of the record, unless the answer went out after the run's last
\* look: the flush for the stages that are one statement, the scan for a tag, whose reads
\* leave no mark, and the veto for the rest.
SweepSparesTheRead == \A k \in Namespaces : Deleted(k) /\ Warm(k) => k \in late

\* An sstate object survives as long as builds look up the unihash it is reachable from,
\* though nobody reads the object itself: stage 1 runs behind its flush and the object
\* stage behind stage 1.  Only a lookup that crossed stage 1 escapes.
ReadRootKeepsItsObject ==
    Deleted("objects") =>
        ack["unihashes"] < clock - Window + Staleness \/ "unihashes" \in late \cup raced

\* An action-cache entry names outputs that are there: the ladder of windows and the
\* touch of a hit's outputs keep them longer than the entry, when a record's staleness
\* and a build's length fit in the window.  Only an answer that crossed the sweep's own
\* look at the output escapes.
EntryNamesItsOutputs ==
    row["ac"].in => row["cas"].in \/ "cas" \in raced

\* A tag names a manifest that is there, unless the client that tagged it was told of the
\* manifest after the run's flush and tagged it after the statement.
TaggedManifestSurvives ==
    row["tags"].in => row["manifests"].in \/ "manifests" \in raced

\* What an action result or a tag names outlives the sweeps that spare the entry itself:
\* retention never leaves an entry that names what it has collected.
NamedContentSurvives == EntryNamesItsOutputs /\ TaggedManifestSurvives

=============================================================================
