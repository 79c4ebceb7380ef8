------------------------------ MODULE MCCollector ---------------------------
(***************************************************************************)
(* The models of a collector run: retention sweeps of three kinds of       *)
(* backend, the quota engine, the resolution of windows and the pacing of  *)
(* usage measurements, each on a small instance.                           *)
(***************************************************************************)
EXTENDS GcSweep, Measure, RetentionPlan

VARIABLES
    part,  \* which of the models below the behaviour is one of
    \* QuotaSweep
    obj, kept, broken, quota, phase, at, usage, plan, pending, read, target, evicted, db

\* Sweeps besides the run's own: over records that may be a tick old, and dry.
SweepStale == INSTANCE GcSweep WITH
    SweptKinds <- {"bazel"}, Staleness <- 1, BuildTime <- 0

SweepDry == INSTANCE GcSweep WITH
    SweptKinds <- {"registry"}, DryRuns <- {TRUE, FALSE}

Quota == INSTANCE QuotaSweep WITH
    Objs <- {"o1", "o2", "o3"}, Bounds <- {0, 1, 2}, MaxAge <- 2, NStages <- 2,
    Window <- 0, Quotas <- {1, 2, 3, 4}, Sstate <- FALSE, Reads <- FALSE

QuotaReads == INSTANCE QuotaSweep WITH
    Objs <- {"o1", "o2", "o3"}, Bounds <- {0, 1, 2}, MaxAge <- 2, NStages <- 2,
    Window <- 1, Quotas <- {3}, Sstate <- FALSE, Reads <- TRUE

QuotaSstate == INSTANCE QuotaSweep WITH
    Objs <- {"o1", "o2", "o3"}, Bounds <- {0, 1, 2}, MaxAge <- 2, NStages <- 1,
    Window <- 1, Quotas <- {3}, Sstate <- TRUE, Reads <- TRUE

quotaVars ==
    <<obj, kept, broken, quota, phase, at, usage, plan, pending, read, target, evicted,
      db>>
partVars == <<part, sweepVars, quotaVars, planVars, measureVars>>

\* Every instance is one its module is meant for.
ASSUME InstancesAssumption ==
    /\ GcSweepAssumption
    /\ SweepStale!GcSweepAssumption
    /\ SweepDry!GcSweepAssumption
    /\ Quota!QuotaSweepAssumption
    /\ QuotaReads!QuotaSweepAssumption
    /\ QuotaSstate!QuotaSweepAssumption
    /\ RetentionPlanAssumption
    /\ MeasureAssumption

-----------------------------------------------------------------------------
(* A part's initial states and steps; the other parts' variables rest. *)

NoSweep == SweepInit /\ kind = "bazel"

NoQuota ==
    /\ obj = 0 /\ kept = 0 /\ broken = 0 /\ quota = 0 /\ phase = 0 /\ at = 0
    /\ usage = 0 /\ plan = 0 /\ pending = 0 /\ read = 0 /\ target = 0 /\ evicted = 0
    /\ db = 0

NoPlan == cfg = 0 /\ plans = << >>

NoMeasure ==
    /\ now = 0 /\ backends = 0 /\ attempt = 0 /\ flight = 0 /\ caller = 0
    /\ measured = 0 /\ spent = {}

PartInit ==
    \/ part = "sweep" /\ SweepInit /\ NoQuota /\ NoPlan /\ NoMeasure
    \/ part = "stale" /\ SweepStale!SweepInit /\ NoQuota /\ NoPlan /\ NoMeasure
    \/ part = "dry" /\ SweepDry!SweepInit /\ NoQuota /\ NoPlan /\ NoMeasure
    \/ part = "quota" /\ Quota!Init /\ NoSweep /\ NoPlan /\ NoMeasure
    \/ part = "quota reads" /\ QuotaReads!Init /\ NoSweep /\ NoPlan /\ NoMeasure
    \/ part = "quota sstate" /\ QuotaSstate!Init /\ NoSweep /\ NoPlan /\ NoMeasure
    \/ part = "plan" /\ PlanInit /\ NoSweep /\ NoQuota /\ NoMeasure
    \/ part = "measure" /\ MeasureInit /\ NoSweep /\ NoQuota /\ NoPlan

PartNext ==
    \/ part = "sweep" /\ SweepNext
       /\ UNCHANGED <<part, quotaVars, planVars, measureVars>>
    \/ part = "stale" /\ SweepStale!SweepNext
       /\ UNCHANGED <<part, quotaVars, planVars, measureVars>>
    \/ part = "dry" /\ SweepDry!SweepNext
       /\ UNCHANGED <<part, quotaVars, planVars, measureVars>>
    \/ part = "quota" /\ Quota!Next
       /\ UNCHANGED <<part, sweepVars, planVars, measureVars>>
    \/ part = "quota reads" /\ QuotaReads!Next
       /\ UNCHANGED <<part, sweepVars, planVars, measureVars>>
    \/ part = "quota sstate" /\ QuotaSstate!Next
       /\ UNCHANGED <<part, sweepVars, planVars, measureVars>>
    \/ part = "plan" /\ PlanNext /\ UNCHANGED <<part, sweepVars, quotaVars, measureVars>>
    \/ part = "measure" /\ MeasureNext
       /\ UNCHANGED <<part, sweepVars, quotaVars, planVars>>

PartSpec == PartInit /\ [][PartNext]_partVars

-----------------------------------------------------------------------------
(* Properties, besides those of GcSweep, RetentionPlan and Measure *)

\* A quota pass frees its target and less than one bucket more; it takes entries before
\* what they name and old rows before young ones, and when reads land while it runs,
\* every byte it falls short of the target was read meanwhile.
EvictionMeetsTheQuota ==
    /\ part = "quota" => /\ Quota!FreesAtLeastTheTarget
                         /\ Quota!OvershootsByLessThanABucket
    /\ part = "quota reads" => /\ QuotaReads!StagesInOrder
                               /\ QuotaReads!OldestFirst
                               /\ QuotaReads!ShortfallIsExplained

\* A sweep spares a row that was read within its window, in memory or in the table, and
\* the object under a root that was read; and a derivation that matches nothing deletes
\* nothing.
SweepsSpare ==
    [][/\ part = "sweep" => SweepSparesTheRead /\ ReadRootKeepsItsObject
       /\ part = "stale" => SweepStale!SweepSparesTheRead
       /\ part = "dry" => SweepDry!SweepSparesTheRead
       /\ part = "quota sstate" => QuotaSstate!BrokenDerivationDeletesNothing]_partVars

=============================================================================
