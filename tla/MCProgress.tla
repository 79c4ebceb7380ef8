------------------------------ MODULE MCProgress ----------------------------
(***************************************************************************)
(* What must happen in the end: teardown and reaping finish, waits and     *)
(* calls return, pulled tags become fresh, pushes are acknowledged; each   *)
(* on a small instance, under the fairness its own goroutines, timers and  *)
(* retries give.                                                           *)
(***************************************************************************)
EXTENDS S3Writer

VARIABLES
    part,  \* which of the models below the behaviour is one of
    \* Teardown
    project, backend, objects, hashes, fill, cached, writing, adminReq, run,
    \* Reaper
    dead, queue, page, progress, failed, reapRound, stage, revived, result,
    \* UpstreamPool
    sem, idle, closed, call, backlog, pending, open, round, life, wait, items, faults,
    \* OciMirror
    up, moves, row, stored, req, flight, bg, outages,
    \* OciRegistry
    route, blobs, manifests, tag, cli, policies, drops,
    \* AuthzLocks
    member, live, held, shared, pc, op, writes, todo, attempts, outcome

Teardown == INSTANCE Teardown WITH
    Hashserv <- {}, Admins <- {"a1"}, OrgAdmins <- {"a1"}, MaxPages <- 1,
    BackendKinds <- {"sstate"}, ObjectKeys <- {1, 2}, MaxBackends <- 1, MaxProjects <- 2,
    BatchSize <- 1, Stuck <- {},
    AdminOps <- {"create", "update", "delete", "delete project"}, call <- adminReq, stage <- run,
    route <- cached

StuckKind == INSTANCE Teardown WITH
    Hashserv <- {}, Admins <- {"a1"}, OrgAdmins <- {"a1"}, MaxPages <- 1,
    BackendKinds <- {"sstate", "downloads"}, ObjectKeys <- {1}, MaxBackends <- 2, MaxProjects <- 1,
    BatchSize <- 2, Stuck <- {"sstate"}, AdminOps <- {"create", "delete project"},
    call <- adminReq, stage <- run, route <- cached

Reaper == INSTANCE Reaper WITH
    Blobs <- {"b1", "b2", "b3", "b4"}, Stuck <- {"b1"}, BatchSize <- 2, ReapRounds <- 3,
    round <- reapRound, at <- stage, outcome <- result

Pool == INSTANCE UpstreamPool WITH
    Callers <- {"c1"}, Workers <- {"w1"}, Waiters <- {"v1"}, Items <- {"i1", "i2"},
    MaxConns <- 1, QueueSize <- 1, Legs <- {1}, MaxFaults <- 1, op <- call,
    todo <- items

Mirror == INSTANCE OciMirror WITH
    Clients <- {"c1", "a1"}, Anonymous <- {"a1"}, Steady <- {"c1"},
    Digests <- {"d1", "d2"}, MaxMoves <- 1, MaxFaults <- 1, Collects <- {"tag"},
    faults <- outages

Registry == INSTANCE OciRegistry WITH
    Pushers <- {"p1", "p2"}, Readers <- {}, Members <- {"p1", "p2"}, Writers <- {"p1"},
    Layers <- {"b1"}, MaxPolicies <- 2, MaxFaults <- 1, faults <- drops

Locks == INSTANCE AuthzLocks WITH
    Users <- {1}, SigningIn <- {1}, Drops <- {"org", "project"}

teardownVars ==
    <<project, backend, objects, hashes, fill, cached, writing, adminReq, run>>
reaperVars ==
    <<dead, queue, page, progress, failed, reapRound, stage, revived, result>>
poolVars ==
    <<sem, idle, closed, call, backlog, pending, open, round, life, wait, items, faults>>
mirrorVars == <<up, moves, row, stored, req, flight, bg, outages>>
registryVars == <<route, blobs, manifests, tag, cli, policies, drops>>
locksVars == <<member, live, held, shared, pc, op, writes, todo, attempts, outcome>>
partVars == <<part, teardownVars, reaperVars, poolVars, mirrorVars, registryVars, locksVars, vars>>

\* Every instance is one its module is meant for.
ASSUME InstancesAssumption ==
    /\ Teardown!TeardownAssumption
    /\ StuckKind!TeardownAssumption
    /\ Reaper!ReaperAssumption
    /\ Pool!UpstreamPoolAssumption
    /\ Mirror!OciMirrorAssumption
    /\ Registry!OciRegistryAssumption
    /\ Locks!UsersAssumption
    /\ Locks!DropsAssumption
    /\ BoundsAssumption

-----------------------------------------------------------------------------
(* A part's initial states and steps; the other parts' variables rest at 0. *)

NoTeardown ==
    /\ project = 0 /\ backend = 0 /\ objects = 0 /\ hashes = 0 /\ fill = 0
    /\ cached = 0 /\ writing = 0 /\ adminReq = 0 /\ run = 0

NoReaper ==
    /\ dead = 0 /\ queue = 0 /\ page = 0 /\ progress = 0 /\ failed = 0
    /\ reapRound = 0 /\ stage = 0 /\ revived = 0 /\ result = 0

NoPool ==
    /\ sem = 0 /\ idle = 0 /\ closed = 0 /\ call = 0 /\ backlog = 0 /\ pending = 0
    /\ open = 0 /\ round = 0 /\ life = 0 /\ wait = 0 /\ items = 0 /\ faults = 0

NoMirror ==
    /\ up = 0 /\ moves = 0 /\ row = 0 /\ stored = 0 /\ req = 0 /\ flight = 0 /\ bg = 0
    /\ outages = 0

NoRegistry ==
    /\ route = 0 /\ blobs = 0 /\ manifests = 0 /\ tag = 0 /\ cli = 0 /\ policies = 0
    /\ drops = 0

NoLocks ==
    /\ member = 0 /\ live = 0 /\ held = 0 /\ shared = 0 /\ pc = 0 /\ op = 0
    /\ writes = 0 /\ todo = 0 /\ attempts = 0 /\ outcome = 0

NoWriter ==
    /\ at = "done" /\ written = 0 /\ pipe = 0 /\ reading = 0 /\ upload = 0 /\ got = 0
    /\ staging = 0 /\ final = 0 /\ parts = 0 /\ synced = 0 /\ answer = "none"

PartInit ==
    \/ part = "teardown" /\ Teardown!TeardownInit /\ NoReaper /\ NoPool /\ NoMirror /\ NoRegistry
       /\ NoLocks /\ NoWriter
    \/ part = "stuck" /\ StuckKind!TeardownInit /\ NoReaper /\ NoPool /\ NoMirror /\ NoRegistry
       /\ NoLocks /\ NoWriter
    \/ part = "reaper" /\ Reaper!Init /\ NoTeardown /\ NoPool /\ NoMirror /\ NoRegistry
       /\ NoLocks /\ NoWriter
    \/ part = "pool" /\ Pool!PoolInit /\ NoTeardown /\ NoReaper /\ NoMirror /\ NoRegistry
       /\ NoLocks /\ NoWriter
    \/ part = "mirror" /\ Mirror!Init /\ NoTeardown /\ NoReaper /\ NoPool /\ NoRegistry
       /\ NoLocks /\ NoWriter
    \/ part = "registry" /\ Registry!Init /\ NoTeardown /\ NoReaper /\ NoPool /\ NoMirror
       /\ NoLocks /\ NoWriter
    \/ part = "locks" /\ Locks!Init /\ NoTeardown /\ NoReaper /\ NoPool /\ NoMirror
       /\ NoRegistry /\ NoWriter
    \/ part = "s3" /\ Init /\ NoTeardown /\ NoReaper /\ NoPool /\ NoMirror
       /\ NoRegistry /\ NoLocks

PartNext ==
    \/ part = "teardown" /\ Teardown!TeardownNext
       /\ UNCHANGED <<part, reaperVars, poolVars, mirrorVars, registryVars, locksVars, vars>>
    \/ part = "stuck" /\ StuckKind!TeardownNext
       /\ UNCHANGED <<part, reaperVars, poolVars, mirrorVars, registryVars, locksVars, vars>>
    \/ part = "reaper" /\ Reaper!Next
       /\ UNCHANGED <<part, teardownVars, poolVars, mirrorVars, registryVars, locksVars, vars>>
    \/ part = "pool" /\ Pool!PoolNext
       /\ UNCHANGED <<part, teardownVars, reaperVars, mirrorVars, registryVars, locksVars, vars>>
    \/ part = "mirror" /\ Mirror!Next
       /\ UNCHANGED <<part, teardownVars, reaperVars, poolVars, registryVars, locksVars, vars>>
    \/ part = "registry" /\ Registry!Next
       /\ UNCHANGED <<part, teardownVars, reaperVars, poolVars, mirrorVars, locksVars, vars>>
    \/ part = "locks" /\ Locks!Next
       /\ UNCHANGED <<part, teardownVars, reaperVars, poolVars, mirrorVars, registryVars, vars>>
    \/ part = "s3" /\ Next
       /\ UNCHANGED <<part, teardownVars, reaperVars, poolVars, mirrorVars, registryVars, locksVars>>
    \/ part \in {"pool", "s3"} /\ UNCHANGED partVars  \* these may end


\* The collector's loop goes on, and the statement of MarkStragglers does not fail on every
\* run from some run on; requests come to an end; a route's time runs out.
TeardownFairness ==
    /\ WF_teardownVars(part = "teardown" /\ (Teardown!SweepStep \/ Teardown!MarkStragglers))
    /\ []<>(part = "teardown" => run.at = "list" /\ ~run.failed)
    /\ WF_teardownVars(part = "teardown" /\ Teardown!AdminAnswer("a1"))
    /\ WF_teardownVars(part = "teardown" /\ Teardown!GetBackend("sstate"))
    /\ WF_teardownVars(part = "teardown" /\ Teardown!StoreRoute("sstate"))
    /\ WF_teardownVars(part = "teardown" /\ Teardown!Expire("sstate"))
    /\ WF_teardownVars(part = "teardown" /\ Teardown!WriteRow(1))

\* The same where one kind's deletes always fail.
StuckFairness ==
    /\ WF_teardownVars(part = "stuck" /\ (StuckKind!SweepStep \/ StuckKind!MarkStragglers))
    /\ []<>(part = "stuck" => run.at = "list" /\ ~run.failed)
    /\ WF_teardownVars(part = "stuck" /\ StuckKind!AdminAnswer("a1"))
    /\ \A k \in {"sstate", "downloads"} :
          /\ WF_teardownVars(part = "stuck" /\ StuckKind!GetBackend(k))
          /\ WF_teardownVars(part = "stuck" /\ StuckKind!StoreRoute(k))
          /\ WF_teardownVars(part = "stuck" /\ StuckKind!Expire(k))
    /\ \A b \in 1 .. 2 : WF_teardownVars(part = "stuck" /\ StuckKind!WriteRow(b))

\* Runs are started by a ticker and their steps are statements with deadlines; crashes do
\* not go on for ever.
ReaperFairness ==
    /\ WF_reaperVars(part = "reaper" /\ Reaper!Step)
    /\ <>[][part = "reaper" => ~Reaper!Crash]_reaperVars

\* Goroutines run and every operation has its timeout; requests, items and Close need not
\* come.
PoolFairness ==
    /\ WF_poolVars(part = "pool" /\ Pool!CloseChain)
    /\ WF_poolVars(part = "pool" /\ Pool!Operation("c1"))
    /\ WF_poolVars(part = "pool" /\ Pool!Worker("w1"))
    /\ WF_poolVars(part = "pool" /\ Pool!WaitReturn("v1"))

\* Time passes, handlers and goroutines run, and the steady client pulls again and again.
MirrorFairness ==
    /\ WF_mirrorVars(part = "mirror" /\ Mirror!Expire)
    /\ \A k \in {"d1", "d2", Mirror!Tag} : WF_mirrorVars(part = "mirror" /\ Mirror!Ingest(k))
    /\ \A c \in {"c1", "a1"} : /\ WF_mirrorVars(part = "mirror" /\ Mirror!Revalidate(c))
                               /\ WF_mirrorVars(part = "mirror" /\ Mirror!Serve(c))
    /\ WF_mirrorVars(part = "mirror" /\ Mirror!Pull("c1"))

\* Clients go on with what they have begun, and the pushers begin again.
RegistryFairness ==
    \A c \in {"p1", "p2"} :
        /\ WF_registryVars(part = "registry" /\ Registry!ServeToken(c))
        /\ WF_registryVars(part = "registry" /\ Registry!Push(c))
        /\ WF_registryVars(part = "registry" /\ Registry!StartPush(c))

\* A request runs to its end: nothing but a lock held by another stops it.
LocksFairness == WF_locksVars(part = "locks" /\ Locks!Next)

\* A broken pipe or a failed request ends the upload, and a call under way goes on.
WriterFairness ==
    /\ WF_vars(part = "s3" /\ Handoff)
    /\ WF_vars(part = "s3" /\ (SendLast \/ UploadEnds))
    /\ WF_vars(part = "s3" /\ pipe = "broken" /\ UploadFails)
    /\ WF_vars(part = "s3" /\ Caller)

Fairness ==
    /\ TeardownFairness /\ StuckFairness /\ ReaperFairness /\ PoolFairness
    /\ MirrorFairness /\ RegistryFairness /\ LocksFairness /\ WriterFairness

PartSpec == PartInit /\ [][PartNext]_partVars /\ Fairness

-----------------------------------------------------------------------------
(* Properties, besides those of S3Writer *)

\* What is condemned goes. A marked backend, and a marked project with all it had, is
\* gone one day (a mark is never taken back), however many runs its pages take, whatever
\* stale routes still write and whichever backend was created under the mark; with one
\* kind failing for ever the other kinds are still torn down. A pending blob that can be
\* reaped is reaped or revived, through revivals and crashes, and every run of rounds
\* ends.
CondemnedGoes ==
    /\ []<>(part = "teardown" => ~Teardown!Marked(1))
    /\ \A p \in 1 .. 2 : []<>(part = "teardown" => project[p] # "deleting")
    /\ \A b \in 1 .. 2 :
          []<>(part = "stuck" => ~(StuckKind!Marked(b) /\ backend[b].kind = "downloads"))
    /\ \A d \in {"b2", "b3", "b4"} : []<>(part = "reaper" => d \notin Reaper!Pending)
    /\ []<>(part = "reaper" => stage = "idle")

\* Nobody waits for ever. Every backfill-wait returns, also when the backfiller is
\* closed under it, and only after everything it saw queued is finished or abandoned; no
\* call of an S3 writer blocks on its pipe or its goroutine; every authority request
\* ends, deadlocks and retries included; a tag that is pulled becomes fresh again and
\* again; and while its route is enabled a writer gets its pushes acknowledged.
NobodyWaitsForEver ==
    /\ []<>(part = "pool" => wait["v1"].at = "no")
    /\ []<>(part = "s3" => at \notin {"write", "sync", "abort_join"})
    /\ []<>(part = "locks" => \A p \in Locks!Transactions : pc[p] = "done")
    /\ []<>(part = "mirror" => row # Mirror!NoRow /\ Mirror!Fresh)
    /\ []<>(part = "registry" => ~route.enabled \/ cli["p1"].at = "acked")
    /\ [][part = "pool" => Pool!WaitCoversWhatItSaw]_partVars

=============================================================================
