------------------------------ MODULE MCStorage -----------------------------
(***************************************************************************)
(* The store and the processes in front of it: the metadata cache and its  *)
(* toucher, the local files through power failures, and collector runs     *)
(* across processes, each on a small instance.                             *)
(***************************************************************************)
EXTENDS BlobCache, LocalStore

CONSTANTS Free

VARIABLES
    part,  \* which of the models below the behaviour is one of
    asked, \* BlobCache's ask where acknowledgements are lost: its answers may be stale
    \* GcRuns
    phase, live, lock, conn, watch, overtaken, deaths, runs, running, job, reads

\* Two of the three objects share a fan-out directory.
Fanout(k) == IF k = 3 THEN "d2" ELSE "d1"

TwoFlushers == INSTANCE BlobCache WITH
    Digests <- {"d1"}, Writers <- {"w1"}, Flushers <- {"f1", "f2"}, LostAcks <- TRUE,
    ask <- asked

Overwrites == INSTANCE BlobCache WITH
    AuxCapacity <- 0, Batches <- {"b1"}, Writers <- {"w1"}, Flushers <- {},
    Overlap <- FALSE

Creates == INSTANCE BlobCache WITH
    Keys <- {"i1"}, Mutable <- {}, AuxCapacity <- 0, Batches <- {"b1"},
    Writers <- {"w1"}, Flushers <- {}, Overlap <- FALSE

Evictions == INSTANCE BlobCache WITH
    Keys <- {"m1", "i1"}, Digests <- {"d1"}, AuxCapacity <- 0, Batches <- {"b1"},
    Writers <- {"w1"}, Flushers <- {}, Overlap <- FALSE

Toucher == INSTANCE BlobCache WITH
    Keys <- {"m1", "m2"}, Mutable <- {"m1", "m2"}, Digests <- {"d1"}, Writers <- {"w1"},
    Overlap <- FALSE

Runs == INSTANCE GcRuns WITH
    Procs <- {"p1", "p2"}, FastDrain <- TRUE, SlowWorkers <- FALSE,
    AllowMultiInstance <- FALSE, Interrupts <- FALSE, MaxDeaths <- 1, MaxRuns <- 1,
    FinishErrors <- TRUE

Multi == INSTANCE GcRuns WITH
    Procs <- {"p1", "p2"}, FastDrain <- TRUE, SlowWorkers <- FALSE,
    AllowMultiInstance <- TRUE, Interrupts <- TRUE, MaxDeaths <- 0, MaxRuns <- 2,
    FinishErrors <- TRUE

runsVars ==
    <<phase, live, lock, conn, watch, overtaken, deaths, runs, running, job, reads>>
partVars == <<part, asked, vars, storeVars, runsVars>>

\* Every instance is one its module is meant for.
ASSUME InstancesAssumption ==
    /\ CacheAssumption
    /\ TwoFlushers!CacheAssumption
    /\ Overwrites!CacheAssumption
    /\ Creates!CacheAssumption
    /\ Evictions!CacheAssumption
    /\ Toucher!CacheAssumption
    /\ CrashAssumption
    /\ Runs!GcRunsAssumption
    /\ Multi!GcRunsAssumption

-----------------------------------------------------------------------------
(* A part's initial states and steps; the other parts' variables rest at 0. *)

NoCache ==
    /\ rows = 0 /\ lru = 0 /\ meta = 0 /\ marks = {} /\ marked = 0 /\ todo = 0 /\ missed = 0
    /\ ask = <<>> /\ current = 0 /\ found = 0 /\ writing = 0 /\ publish = 0 /\ flush = 0
    /\ held = 0 /\ unsaved = {}

NoFiles ==
    /\ dir = 0 /\ name = [k \in Addresses |-> Nothing] /\ disk = 0 /\ data = 0 /\ staged = 0
    /\ w = 0 /\ named = {} /\ crashes = 0

NoRuns ==
    /\ phase = 0 /\ live = 0 /\ lock = 0 /\ conn = 0 /\ watch = 0 /\ overtaken = 0
    /\ deaths = 0 /\ runs = 0 /\ running = 0 /\ job = 0 /\ reads = 0

PartInit ==
    \/ part = "cache" /\ Init /\ NoFiles /\ NoRuns /\ asked = 0
    \/ part = "flushers" /\ TwoFlushers!Init /\ NoFiles /\ NoRuns /\ ask = <<>>
    \/ part = "overwrites" /\ Overwrites!Init /\ NoFiles /\ NoRuns /\ asked = 0
    \/ part = "creates" /\ Creates!Init /\ NoFiles /\ NoRuns /\ asked = 0
    \/ part = "evictions" /\ Evictions!Init /\ NoFiles /\ NoRuns /\ asked = 0
    \/ part = "toucher" /\ Toucher!Init /\ NoFiles /\ NoRuns /\ asked = 0
    \/ part = "files" /\ StoreInit /\ NoCache /\ NoRuns /\ asked = 0
    \/ part = "runs" /\ Runs!Init /\ NoCache /\ NoFiles /\ asked = 0
    \/ part = "multi" /\ Multi!Init /\ NoCache /\ NoFiles /\ asked = 0

PartNext ==
    \/ part = "cache" /\ Next /\ UNCHANGED <<part, asked, storeVars, runsVars>>
    \/ part = "flushers" /\ TwoFlushers!Next /\ UNCHANGED <<part, ask, storeVars, runsVars>>
    \/ part = "overwrites" /\ Overwrites!Next /\ UNCHANGED <<part, asked, storeVars, runsVars>>
    \/ part = "creates" /\ Creates!Next /\ UNCHANGED <<part, asked, storeVars, runsVars>>
    \/ part = "evictions" /\ Evictions!Next /\ UNCHANGED <<part, asked, storeVars, runsVars>>
    \/ part = "toucher" /\ Toucher!Next /\ UNCHANGED <<part, asked, storeVars, runsVars>>
    \/ part = "files" /\ StoreNext /\ UNCHANGED <<part, asked, vars, runsVars>>
    \/ part = "runs" /\ Runs!Next /\ UNCHANGED <<part, asked, vars, storeVars>>
    \/ part = "multi" /\ Multi!Next /\ UNCHANGED <<part, asked, vars, storeVars>>
    \/ part = "files" /\ UNCHANGED partVars  \* these writers may end

PartSpec == PartInit /\ [][PartNext]_partVars

-----------------------------------------------------------------------------
(* Properties *)

\* When the writes of a key do not overlap, the cache agrees with the database as soon
\* as they have published; list and map hold the same entries, and the counter that lets
\* collectMarks skip a shard is exact, through evictions and failed flushes.
CacheAgrees ==
    /\ part = "overwrites" => Overwrites!Coherent
    /\ part = "creates" => Creates!Coherent
    /\ part = "evictions" => Evictions!Coherent /\ Evictions!ListMatchesMap
    /\ part = "toucher" => Toucher!ListMatchesMap /\ Toucher!MarkedIsExact

\* A recorded outcome is final, a stop through a lost lock waits for runs and reads, and
\* the reaper of an instance that booted without the lock never fails the run of the one
\* that holds it.
RunsEndInOrder ==
    [][/\ part = "runs" => Runs!OutcomeIsFinal /\ Runs!StopIsClean
       /\ part = "multi" => Multi!ReapSparesTheHolder]_partVars

=============================================================================
