----------------------------- MODULE QuotaSweep -----------------------------
(***************************************************************************)
(* One backend's pass of a run: the sstate refusal, the retention stages   *)
(* that measure while they delete, the eviction plan the measurement       *)
(* yields (internal/gc/quota.go) and the eviction stages, against clients  *)
(* whose reads land between the two passes.  Ages are taken at the run's   *)
(* started_at, so a read during the run gives a negative one.              *)
(***************************************************************************)
EXTENDS Integers, FiniteSets, FiniteSetsExt, Sequences

CONSTANTS
    Objs,        \* the rows the barrier lets the run see
    NStages,     \* stages of the backend's plan, in order
    Bounds,      \* ageBuckets: the buckets, each named by its lower bound
    MaxAge,      \* bound on a row's age
    Window,      \* the stages' window; 0 stands for no window
    Quotas,      \* quota_bytes to try; 0 stands for none
    Sstate,      \* whether the backend is an sstate one paired with a hashserv
    Reads        \* whether clients read while the run is under way

QuotaSweepAssumption ==
    /\ IsFiniteSet(Objs) /\ {NStages, MaxAge, Window} \subseteq Nat /\ Quotas \subseteq Nat
    /\ Bounds \subseteq Nat /\ 0 \in Bounds /\ IsFiniteSet(Bounds)

Stages == 1..NStages

VARIABLES
    obj,       \* per row: stage, size, age, in the table
    kept,      \* rows a reachability rule protects: live unihash, or named by a tag
    broken,    \* deriveUnihash resolves no key
    quota,     \* quota_bytes
    phase,     \* start, retain, plan, evict, done
    at,        \* the stage the pass is in
    usage,     \* bytes of the surviving rows, per stage and age bucket
    plan,      \* the eviction plan
    pending,   \* rows with an unflushed read
    read,      \* history: rows read since started_at
    target,    \* history: bytes the plan set out to free
    evicted,   \* history: rows the eviction deleted
    db         \* the figure on file, -1 when none

vars == <<obj, kept, broken, quota, phase, at, usage, plan, pending, read, target, evicted, db>>
fixed == <<kept, broken, quota>>

NoUsage == [i \in Stages |-> [b \in Bounds |-> 0]]
NoPlan == [full |-> 0, partial |-> 0, minAge |-> 0]

Init ==
    /\ obj \in [Objs -> [stage : Stages, size : 1..2, age : 0..MaxAge, in : {TRUE}]]
    /\ kept \in IF Sstate THEN SUBSET Objs ELSE {{}}
    /\ broken \in IF Sstate THEN BOOLEAN ELSE {FALSE}
    /\ quota \in Quotas
    /\ phase = "start" /\ at = 1 /\ usage = NoUsage /\ plan = NoPlan
    /\ pending = {} /\ read = {} /\ target = 0 /\ evicted = {} /\ db = -1

In == {o \in Objs : obj[o].in}
Bytes(S) == MapThenSumSet(LAMBDA o : obj[o].size, S)

-----------------------------------------------------------------------------
(* Clients and the background toucher *)

Read(o) ==
    /\ Reads /\ phase \notin {"start", "done"} /\ obj[o].in
    /\ pending' = pending \cup {o} /\ read' = read \cup {o}
    /\ UNCHANGED <<obj, fixed, phase, at, usage, plan, target, evicted, db>>

Flush ==
    /\ pending # {}
    /\ obj' = [o \in Objs |-> IF o \in pending THEN [obj[o] EXCEPT !.age = -1] ELSE obj[o]]
    /\ pending' = {}
    /\ UNCHANGED <<fixed, phase, at, usage, plan, read, target, evicted, db>>

-----------------------------------------------------------------------------
(* The plan *)

\* The first bucket whose bound the age meets; a negative age is in the youngest.
BucketOf(age) ==
    Max({0} \cup {b \in Bounds : age >= b})

\* observe: the rows of S survive stage i.
Observed(u, i, S) ==
    [u EXCEPT ![i] = [b \in Bounds |->
        @[b] + Bytes({o \in S : BucketOf(obj[o].age) = b})]]

StageBytes(u, i) == MapThenSumSet(LAMBDA b : u[i][b], Bounds)
Through(u, i) == MapThenSumSet(LAMBDA j : StageBytes(u, j), 1..i)
Total(u) == Through(u, NStages)

\* quotaTargetRatio, and the conversion to int64 that truncates.
Cap(q) == (q * 9) \div 10
Target(u, q) == IF q = 0 \/ Total(u) <= q THEN 0 ELSE Total(u) - Cap(q)

\* Mutant: a stage larger than what is left to free goes whole.
PlanEviction_WholeStages(u, q) ==
    LET t == Target(u, q)
        full == Min({i \in 0..NStages : Through(u, i) >= t})
    IN [NoPlan EXCEPT !.full = full]

\* Whole stages while they fit, then the oldest buckets of the next stage, until the
\* target is met.
PlanEviction(u, q) ==
    LET t == Target(u, q)
        fits == {i \in 0..NStages : Through(u, i) <= t}
        full == IF \E i \in fits : Through(u, i) = t THEN Min({i \in fits : Through(u, i) = t})
                ELSE Max(fits)
        left == t - Through(u, full)
        older(b) == {c \in Bounds : c >= b}
        bucket == Max({b \in Bounds :
                     MapThenSumSet(LAMBDA c : u[full + 1][c], older(b)) >= left})
    IN IF t = 0 THEN NoPlan
       ELSE IF left = 0 THEN [NoPlan EXCEPT !.full = full]
       ELSE [full |-> full, partial |-> full + 1, minAge |-> bucket]

\* Mutant: a row exactly on the cutoff stays.
Doomed_Strict(i, o) ==
    \/ i <= plan.full
    \/ i = plan.partial /\ obj[o].age > plan.minAge

\* Mutant: the whole stages are skipped when there is a partial one.
Doomed_PartialOnly(i, o) ==
    IF plan.partial # 0 THEN i = plan.partial /\ obj[o].age >= plan.minAge ELSE i <= plan.full

\* Mutant: the cutoff is taken from the wrong side.
Doomed_Young(i, o) ==
    \/ i <= plan.full
    \/ i = plan.partial /\ obj[o].age <= plan.minAge

Doomed(i, o) ==
    \/ i <= plan.full
    \/ i = plan.partial /\ obj[o].age >= plan.minAge

-----------------------------------------------------------------------------
(* The pass *)

\* Mutant: no probe of the derivation.
SstateRefused_Never == FALSE

\* sstateRefused: keys were scanned, the hashserv has rows, and none resolved.
SstateRefused == Sstate /\ Window > 0 /\ kept # {} /\ In # {} /\ broken

\* A row of an sstate backend may go only if its unihash does not resolve.
Reachable(o) == o \in kept /\ ~broken

\* sweepBackend: an unmanaged backend is not scanned, a refused one not swept.
SweepBackend ==
    /\ phase = "start"
    /\ phase' = IF (Window = 0 /\ quota = 0) \/ SstateRefused THEN "done" ELSE "retain"
    /\ UNCHANGED <<obj, fixed, at, usage, plan, pending, read, target, evicted, db>>

\* runStage with the mask dead: what is dead and not vetoed goes, the rest is observed.
RunStage(dead) ==
    LET here == {o \in In : obj[o].stage = at}
        gone == {o \in here : o \in dead /\ o \notin pending}
    IN /\ obj' = [o \in Objs |-> IF o \in gone THEN [obj[o] EXCEPT !.in = FALSE] ELSE obj[o]]
       /\ pending' = pending \ gone
       /\ usage' = Observed(usage, at, here \ gone)
       /\ evicted' = IF phase = "evict" THEN evicted \cup gone ELSE evicted

\* A retention stage; the last one ends in publishUsage.
RetainStage ==
    /\ phase = "retain"
    /\ RunStage({o \in Objs : Window > 0 /\ obj[o].age > Window /\ ~Reachable(o)})
    /\ phase' = IF at = NStages THEN "plan" ELSE "retain"
    /\ at' = IF at = NStages THEN 1 ELSE at + 1
    /\ db' = IF at = NStages THEN Total(usage') ELSE db
    /\ UNCHANGED <<fixed, plan, read, target>>

\* evictToQuota's plan, from the usage just measured.
MakePlan ==
    /\ phase = "plan"
    /\ plan' = PlanEviction(usage, quota)
    /\ target' = Target(usage, quota)
    /\ usage' = NoUsage
    /\ phase' = IF plan' = NoPlan THEN "done" ELSE "evict"
    /\ UNCHANGED <<obj, fixed, at, pending, read, evicted, db>>

\* An eviction stage: the window is not asked, reachability and the veto are.
EvictStage ==
    /\ phase = "evict"
    /\ RunStage({o \in Objs : Doomed(at, o) /\ ~Reachable(o)})
    /\ phase' = IF at = NStages THEN "done" ELSE "evict"
    /\ at' = IF at = NStages THEN 1 ELSE at + 1
    /\ db' = IF at = NStages THEN Total(usage') ELSE db
    /\ UNCHANGED <<fixed, plan, read, target>>

-----------------------------------------------------------------------------
Next ==
    \/ SweepBackend \/ RetainStage \/ MakePlan \/ EvictStage \/ Flush
    \/ \E o \in Objs : Read(o)
    \/ phase = "done" /\ UNCHANGED vars

Spec == Init /\ [][Next]_vars

-----------------------------------------------------------------------------
(* Properties *)

Freed == Bytes(evicted)

\* A pass over a backend above its quota frees at least what brings it to nine tenths:
\* the plan is made of bucket totals and carried out row by row.
FreesAtLeastTheTarget == phase = "done" => Freed >= target

\* The same when reads and reachability intervene: what was not freed is accounted for
\* by rows that were read during the run or that a rule protects.
ShortfallIsExplained ==
    phase = "done" =>
        Freed + Bytes({o \in In : o \in read \/ Reachable(o)}) >= target

\* Eviction exhausts a stage before it touches the next: once a row of a later stage is
\* gone, what is left of an earlier one was read during the run or is protected.
StagesInOrder ==
    \A o \in evicted, p \in In :
        obj[p].stage < obj[o].stage => p \in read \/ Reachable(p)

\* Within a stage the older bucket goes first.
OldestFirst ==
    phase = "done" => \A o \in evicted, p \in In :
        obj[p].stage = obj[o].stage /\ obj[p].age > obj[o].age => p \in read \/ Reachable(p)

\* The overshoot is less than one bucket of one stage.
OvershootsByLessThanABucket ==
    phase = "done" /\ evicted # {} =>
        LET last == Max({obj[o].stage : o \in evicted})
            young == Min({BucketOf(obj[o].age) : o \in {e \in evicted : obj[e].stage = last}})
        IN Freed - Bytes({o \in evicted : obj[o].stage = last /\ BucketOf(obj[o].age) = young})
             < target

\* A derivation that resolves nothing while roots exist deletes nothing, whatever the
\* window and the quota say.
BrokenDerivationDeletesNothing ==
    broken /\ kept # {} /\ Window > 0 => \A o \in Objs : obj[o].in => obj'[o].in

=============================================================================
