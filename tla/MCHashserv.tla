------------------------------ MODULE MCHashserv ----------------------------
(***************************************************************************)
(* Hash equivalence: reports and lookups of concurrent connections, the    *)
(* upstream client with its pool and backfill, and the unihash toucher,    *)
(* each on a small instance.                                               *)
(***************************************************************************)
EXTENDS Hashserv, UpstreamPool, UnihashToucher

VARIABLES
    part,  \* which of the models below the behaviour is one of
    reported, heard  \* Hashserv's reports and told where there is an upstream

Failures == INSTANCE Hashserv WITH
    Outs <- {"o1"}, MaxFails <- 1

ThreeTasks == INSTANCE Hashserv WITH
    Outs <- {"o1"}, Tasks <- {"t1", "t2", "t3"}, Sessions <- {"s1"}, MaxReports <- 3

Upstream == INSTANCE Hashserv WITH
    Outs <- {"o1"}, Sessions <- {"s1"}, HasUpstream <- TRUE, ReadAuthRequired <- FALSE,
    Creds <- {"read", "write"}, MaxReports <- 1, reports <- reported, told <- heard

\* One permit for both callers, and operations of three exchanges.
PoolOne == INSTANCE UpstreamPool WITH
    MaxConns <- 1, Legs <- {3}, MaxFaults <- 2

\* A clock that runs on, and flushes that do not fail.
Ticks == INSTANCE UnihashToucher WITH
    MaxTime <- 3, MaxFlushFails <- 0, MaxFlushes <- 3

partVars == <<part, reported, heard, vars, poolVars, toucherVars>>

\* Every instance is one its module is meant for.
ASSUME InstancesAssumption ==
    /\ HashservAssumption
    /\ Failures!HashservAssumption
    /\ ThreeTasks!HashservAssumption
    /\ Upstream!HashservAssumption
    /\ UpstreamPoolAssumption
    /\ PoolOne!UpstreamPoolAssumption
    /\ UnihashToucherAssumption
    /\ Ticks!UnihashToucherAssumption

-----------------------------------------------------------------------------
(* A part's initial states and steps; the other parts' variables rest at 0. *)

NoHashes ==
    /\ uni = 0 /\ out = 0 /\ since = 0 /\ sess = 0 /\ queue = 0 /\ fails = 0
    /\ reports = {} /\ crossed = 0 /\ removed = 0 /\ told = [t \in Tasks |-> {}]

NoUpstream == reported = 0 /\ heard = 0

NoPool ==
    /\ sem = 0 /\ idle = 0 /\ closed = 0 /\ op = [p \in Procs |-> Rest] /\ backlog = 0
    /\ pending = 0 /\ open = 0 /\ round = 0 /\ life = 0 /\ wait = 0 /\ todo = 0 /\ faults = 0

NoToucher ==
    /\ clock = 0 /\ marks = Empty /\ flushing = 0 /\ fl = [f \in Flushers |-> Off]
    /\ stage = 0 /\ flushFails = 0 /\ flushes = 0

PartInit ==
    \/ part = "reports" /\ Init /\ NoUpstream /\ NoPool /\ NoToucher
    \/ part = "failures" /\ Failures!Init /\ NoUpstream /\ NoPool /\ NoToucher
    \/ part = "three tasks" /\ ThreeTasks!Init /\ NoUpstream /\ NoPool /\ NoToucher
    \/ part = "upstream" /\ Upstream!Init /\ NoPool /\ NoToucher
       /\ reports = {} /\ told = [t \in Tasks |-> {}]
    \/ part = "pool one" /\ PoolOne!PoolInit /\ NoHashes /\ NoUpstream /\ NoToucher
    \/ part = "pool" /\ PoolInit /\ NoHashes /\ NoUpstream /\ NoToucher
    \/ part = "ticks" /\ Ticks!ToucherInit /\ NoHashes /\ NoUpstream /\ NoPool
    \/ part = "flushes" /\ ToucherInit /\ NoHashes /\ NoUpstream /\ NoPool

\* With three tasks nothing is removed, and with an upstream only what it has: what
\* removals do shows with two tasks.
PartNext ==
    \/ part = "reports" /\ Next /\ UNCHANGED <<part, reported, heard, poolVars, toucherVars>>
    \/ part = "failures" /\ Failures!Next
       /\ UNCHANGED <<part, reported, heard, poolVars, toucherVars>>
    \/ part = "three tasks" /\ ThreeTasks!Next /\ removed' = {}
       /\ UNCHANGED <<part, reported, heard, poolVars, toucherVars>>
    \/ part = "upstream" /\ Upstream!Next /\ removed' \subseteq {UpTask}
       /\ UNCHANGED <<part, reports, told, poolVars, toucherVars>>
    \/ part = "pool one" /\ PoolOne!PoolNext /\ UNCHANGED <<part, reported, heard, vars, toucherVars>>
    \/ part = "pool" /\ PoolNext /\ UNCHANGED <<part, reported, heard, vars, toucherVars>>
    \/ part = "ticks" /\ Ticks!ToucherNext /\ UNCHANGED <<part, reported, heard, vars, poolVars>>
    \/ part = "flushes" /\ ToucherNext /\ UNCHANGED <<part, reported, heard, vars, poolVars>>
    \/ part \in {"pool", "pool one", "ticks", "flushes"} /\ UNCHANGED partVars  \* these may end

PartSpec == PartInit /\ [][PartNext]_partVars

-----------------------------------------------------------------------------
(* Properties, besides those of the modules *)

\* A request on a connection without @report writes nothing but what the upstream holds,
\* under its own taskhash; and a mark leaves the toucher only by being written.
HashservStepsAreSound ==
    [][/\ part = "upstream" => Upstream!ReadersOnlyImport
       /\ part = "flushes" => MarksLeaveByWriting]_partVars

=============================================================================
