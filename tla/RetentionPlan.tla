---------------------------- MODULE RetentionPlan ----------------------------
(***************************************************************************)
(* How a run turns configured windows into plans (buildPlans,              *)
(* effectiveWindow and stagesFor of internal/gc/plan.go), while            *)
(* administrators change windows, quotas and the enabled flag between      *)
(* runs.  Windows are numbers and Forever, above them all, is the null     *)
(* window.                                                                 *)
(***************************************************************************)
EXTENDS Integers, FiniteSets, FiniteSetsExt, Sequences

CONSTANTS
    Kinds,      \* the kinds one project configures, at most one backend of each
    Windows,    \* configurable windows
    Forever,    \* no window
    Ceiling     \* disabledBackendCeiling

CasWindowFactor == 2

RetentionPlanAssumption ==
    /\ Kinds \subseteq {"sstate", "hashserv", "downloads", "bazel", "oci"}
    /\ Windows \subseteq Nat /\ Ceiling \in Nat /\ Forever \in Nat
    /\ \A w \in Windows \cup {Ceiling} : CasWindowFactor * w < Forever

VARIABLES
    cfg,     \* per kind: present, enabled, window, quota set or not
    plans    \* the plans of the run under way, per kind of a configured backend

planVars == <<cfg, plans>>

NoBackend == [in |-> FALSE, enabled |-> FALSE, window |-> Forever, quota |-> FALSE]

PlanInit == cfg = [k \in Kinds |-> NoBackend] /\ plans = << >>

\* A create or an update.
Configure(k) ==
    /\ \E e, q \in BOOLEAN, w \in Windows \cup {Forever} :
         cfg' = [cfg EXCEPT ![k] = [in |-> TRUE, enabled |-> e, window |-> w, quota |-> q]]
    /\ plans' = << >>

Delete(k) == cfg[k].in /\ cfg' = [cfg EXCEPT ![k] = NoBackend] /\ plans' = << >>

\* Mutant: a disabled archive is clamped like a cache.
EffectiveWindow_Clamped(k) ==
    IF cfg[k].enabled THEN cfg[k].window ELSE Min({cfg[k].window, Ceiling})

\* effectiveWindow: a disabled backend is swept harder, but an archive kept for ever is.
EffectiveWindow(k) ==
    CASE cfg[k].enabled -> cfg[k].window
      [] k = "downloads" /\ cfg[k].window = Forever -> Forever
      [] OTHER -> Min({cfg[k].window, Ceiling})

\* Mutant: the sstate window is its own.
PlanWindow_Own(k) == EffectiveWindow(k)

\* The sstate rung: the larger of its own and its paired hashserv's.
PlanWindow(k) ==
    IF k = "sstate" /\ "hashserv" \in Kinds /\ cfg["hashserv"].in
    THEN Max({EffectiveWindow("sstate"), EffectiveWindow("hashserv")})
    ELSE EffectiveWindow(k)

\* stagesFor: the namespaces in eviction order, what is named twice as patient.
StagesFor(k, w) ==
    LET named == IF w = Forever THEN Forever ELSE CasWindowFactor * w IN
    CASE k \in {"sstate", "downloads"} -> <<[ns |-> "default", window |-> w]>>
      [] k = "bazel" -> <<[ns |-> "ac", window |-> w], [ns |-> "cas", window |-> named]>>
      [] k = "oci" -> <<[ns |-> "tags", window |-> w], [ns |-> "manifests", window |-> named],
                        [ns |-> "blobs", window |-> named]>>
      [] k = "hashserv" -> << >>

\* The plan of a configured backend, with managed().
PlanFor(k) ==
    [stages |-> StagesFor(k, PlanWindow(k)), window |-> PlanWindow(k),
     managed |-> PlanWindow(k) # Forever \/ cfg[k].quota]

\* buildPlans, over the backends there are.
BuildPlans ==
    /\ plans' = [k \in {x \in Kinds : cfg[x].in} |-> PlanFor(k)]
    /\ UNCHANGED cfg

PlanNext == BuildPlans \/ \E k \in Kinds : Configure(k) \/ Delete(k)

PlanSpec == PlanInit /\ [][PlanNext]_planVars

-----------------------------------------------------------------------------
(* Properties, of the plans as a run makes them *)

Planned(k) == k \in DOMAIN plans
Shortest(k) == Min({plans[k].stages[i].window : i \in DOMAIN plans[k].stages} \cup {Forever})

\* An sstate object is never judged by a window shorter than the one that keeps the
\* unihash it hangs from, whichever of the two backends is disabled, changed or unset.
RootsExpireFirst ==
    Planned("sstate") /\ Planned("hashserv") => Shortest("sstate") >= plans["hashserv"].window

\* Disabling an archive that is kept for ever deletes nothing from it, and a window of
\* for ever on an enabled backend is for ever.
ForeverIsForever ==
    \A k \in DOMAIN plans :
        cfg[k].window = Forever /\ (cfg[k].enabled \/ k = "downloads") => Shortest(k) = Forever

\* Both: for every combination of windows, ceilings and flags.
WindowsAreOrdered == RootsExpireFirst /\ ForeverIsForever

=============================================================================
