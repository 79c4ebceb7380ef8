---------------------------- MODULE MCProcesses ----------------------------
(***************************************************************************)
(* Server processes over time: the boot lock through crashes and lost      *)
(* sessions, and the collector's runs and slot through shutdowns and       *)
(* reboots, each on a small instance.                                      *)
(***************************************************************************)
EXTENDS GcRuns

CONSTANTS p1, p2

\* Nothing fails but processes: what the collector's slot is promised under.
Steady == INSTANCE GcRuns WITH MaxDeaths <- 0, FinishErrors <- FALSE

VARIABLE part  \* which of the two the behaviour is one of

\* Every instance is one its module is meant for.
ASSUME InstancesAssumption ==
    BootLockAssumption /\ GcRunsAssumption /\ Steady!GcRunsAssumption

-----------------------------------------------------------------------------
PartInit == part \in {"lock", "steady"} /\ Init

PartNext ==
    /\ \/ part = "lock" /\ LockNext /\ UNCHANGED gcVars
       \/ part = "steady" /\ Steady!Next
    /\ UNCHANGED part

\* Of the lock: the watcher's timers fire, waits are bounded, and the database does not
\* stay out of reach of a recovering process for ever, hence strong fairness on the two
\* verdicts.
LockFairness ==
    /\ WF_lockVars(part = "lock" /\ BackendExits)
    /\ \A p \in {p1, p2} :
          /\ WF_lockVars(part = "lock" /\ (Serve(p) \/ RunCancelled(p) \/ ClosePool(p) \/ Release(p)))
          /\ WF_lockVars(part = "lock" /\ Check(p))
          /\ WF_lockVars(part = "lock" /\ WatchBootLock(p))
          /\ SF_lockVars(part = "lock" /\ (Retaken(p) \/ WindowCloses(p)))

\* Of the runs: a worker's statements and deferred calls end, the loops tick, and a
\* process that is down is started again and gets the lock when it is free often enough.
RunsFairness ==
    /\ WF_vars(part = "steady" /\ BackendExits /\ UNCHANGED gcVars)
    /\ \A p \in {p1, p2} :
          /\ SF_vars(part = "steady" /\ AcquireBootLock(p) /\ UNCHANGED gcVars)
          /\ SF_vars(part = "steady" /\ BootToServe(p))
          /\ WF_vars(part = "steady" /\ RunCancelled(p) /\ UNCHANGED gcVars)
          /\ WF_vars(part = "steady" /\ WaitForBackground(p))
          /\ WF_vars(part = "steady" /\ phase[p] = "unlocking" /\ Exit(p))
          /\ \A w \in Workers : WF_vars(part = "steady" /\ Steady!RunStep(p, w))

PartSpec == PartInit /\ [][PartNext]_<<part, vars>> /\ LockFairness /\ RunsFairness

-----------------------------------------------------------------------------
(* Properties *)

\* Processes recover: two that serve at once, after a session died, do not stay so (the
\* one that lost the lock finds out and stops); and the collector's active slot comes free
\* again (a real run that is recorded as running ends, or its process does and the next
\* boot fails it).
ProcessesRecover ==
    /\ []<>(part = "lock" => ~(phase[p1] = "serving" /\ phase[p2] = "serving"))
    /\ []<>(part = "steady" => ~SlotTaken)

=============================================================================
