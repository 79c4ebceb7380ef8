------------------------------- MODULE GcRuns -------------------------------
(***************************************************************************)
(* The runs of the collector and the rows that record them (gc_runs), over *)
(* the life of the processes that start them: Engine.Run, TriggerAsync and *)
(* finish (internal/gc/sweep.go), the loops and the boot reaper            *)
(* (internal/gc/runtime.go), the trigger endpoint (internal/api/gc.go) and *)
(* Boot's wait for the workers at shutdown.  What a run deletes is         *)
(* BlobStore's and GcSweep's.                                              *)
(***************************************************************************)
EXTENDS BootLock, Sequences

CONSTANTS
    MaxRuns,        \* bound on the rows of gc_runs
    FinishErrors,   \* TRUE when FinishGCRun may fail
    SlowWorkers     \* TRUE when backgroundDrainTimeout may cut a working worker off

GcRunsAssumption ==
    MaxRuns \in Nat /\ {FinishErrors, SlowWorkers} \subseteq BOOLEAN

ASSUME RunsConstants == GcRunsAssumption

\* The goroutines of a process that run: Loop, an API trigger, UsageLoop.
Workers == {"loop", "api", "usage"}

VARIABLES
    runs,     \* gc_runs, by id: dry_run and status
    running,  \* the processes whose Engine.running is set
    job,      \* what each worker is doing: where, in which run, dry or not, outcome
    reads     \* the processes with read marks no flush has written

gcVars == <<runs, running, job, reads>>
vars == <<lockVars, gcVars>>

Idle == [at |-> "idle", run |-> 0, dry |-> TRUE, status |-> "running"]

NoJobs == [w \in Workers |-> Idle]

Init ==
    /\ LockInit
    /\ runs = << >>
    /\ running = {}
    /\ job = [p \in Procs |-> NoJobs]
    /\ reads = {}

\* A real run holds the one active slot of gc_runs_single_active_idx.
SlotTaken == \E i \in DOMAIN runs : runs[i].status = "running" /\ ~runs[i].dry

To(p, w, j) == job' = [job EXCEPT ![p][w] = j]

-----------------------------------------------------------------------------
(* A run *)

\* mayRun, and for a real run the CompareAndSwap.
Claim(p, w, dry) ==
    /\ job[p][w].at = "idle"
    /\ ~dry => p \notin running
    /\ running' = IF dry THEN running ELSE running \cup {p}
    /\ To(p, w, [Idle EXCEPT !.at = "claimed", !.dry = dry])
    /\ UNCHANGED <<lockVars, runs, reads>>

\* The loops of a process that has booted run while its lifetime context lives.
Looping(p) == phase[p] \in {"serving", "draining"} /\ p \in live

\* Loop's ticker fires: a real run, unless mayRun refuses it.
LoopTick(p) == ~AllowMultiInstance /\ Looping(p) /\ Claim(p, "loop", FALSE)

\* POST /gc/run while the listener serves: real or dry; a refusal changes nothing.
HandleTriggerGCRun(p, dry) ==
    ~AllowMultiInstance /\ phase[p] = "serving" /\ Claim(p, "api", dry)

\* UsageLoop's ticker fires: MeasureUsage runs under a dry row, in any deployment,
\* and does not ask mayRun.
UsageTick(p) == Looping(p) /\ Claim(p, "usage", TRUE)

\* Mutant: the id of the row is off by one.
StartGCRun_OffByOne(p, w) ==
    /\ Up(p) /\ job[p][w].at = "claimed" /\ Len(runs) < MaxRuns
    /\ job[p][w].dry \/ ~SlotTaken
    /\ runs' = Append(runs, [dry |-> job[p][w].dry, status |-> "running"])
    /\ To(p, w, [job[p][w] EXCEPT !.at = "sweep", !.run = Len(runs) + 2])
    /\ UNCHANGED <<lockVars, running, reads>>

\* The insert commits; gc_runs_single_active_idx admits one real running row.
StartGCRun(p, w) ==
    /\ Up(p) /\ job[p][w].at = "claimed" /\ Len(runs) < MaxRuns
    /\ job[p][w].dry \/ ~SlotTaken
    /\ runs' = Append(runs, [dry |-> job[p][w].dry, status |-> "running"])
    /\ To(p, w, [job[p][w] EXCEPT !.at = "sweep", !.run = Len(runs) + 1])
    /\ UNCHANGED <<lockVars, running, reads>>

\* Mutant: TriggerAsync returns the error and leaves the flag set.
StartFails_KeepsFlag(p, w) ==
    /\ job[p][w].at = "claimed"
    /\ To(p, w, Idle)
    /\ UNCHANGED <<lockVars, runs, running, reads>>

\* The insert fails, on the index or for any other reason: the flag is reset.
StartFails(p, w) ==
    /\ job[p][w].at = "claimed"
    /\ To(p, w, Idle)
    /\ running' = IF job[p][w].dry THEN running ELSE running \ {p}
    /\ UNCHANGED <<lockVars, runs, reads>>

\* sweep (or measureAll) returns.  Without a pool it can only fail.
Sweep(p, w, status) ==
    /\ job[p][w].at = "sweep"
    /\ status = "succeeded" => Up(p)
    /\ To(p, w, [job[p][w] EXCEPT !.at = "finish", !.status = status])
    /\ UNCHANGED <<lockVars, runs, running, reads>>

\* Mutant: FinishGCRun without its status predicate.
FinishGCRun_Overwrites(p, w) ==
    /\ Up(p) /\ job[p][w].at = "finish"
    /\ runs' = [runs EXCEPT ![job[p][w].run].status = job[p][w].status]
    /\ To(p, w, [job[p][w] EXCEPT !.at = "return"])
    /\ UNCHANGED <<lockVars, running, reads>>

\* finish, under WithoutCancel: a row that is no longer running keeps its status.
FinishGCRun(p, w) ==
    /\ Up(p) /\ job[p][w].at = "finish"
    /\ runs' = [runs EXCEPT ![job[p][w].run].status =
                    IF @ = "running" THEN job[p][w].status ELSE @]
    /\ To(p, w, [job[p][w] EXCEPT !.at = "return"])
    /\ UNCHANGED <<lockVars, running, reads>>

\* FinishGCRun fails or times out; the error is logged and the row keeps the slot.
FinishFails(p, w) ==
    /\ FinishErrors \/ ~Up(p)
    /\ job[p][w].at = "finish"
    /\ To(p, w, [job[p][w] EXCEPT !.at = "return"])
    /\ UNCHANGED <<lockVars, runs, running, reads>>

\* The deferred reset of the flag.
Return(p, w) ==
    /\ job[p][w].at = "return"
    /\ To(p, w, Idle)
    /\ running' = IF job[p][w].dry THEN running ELSE running \ {p}
    /\ UNCHANGED <<lockVars, runs, reads>>

-----------------------------------------------------------------------------
(* The touchers *)

MarkRead(p) ==
    /\ phase[p] = "serving"
    /\ reads' = reads \cup {p}
    /\ UNCHANGED <<lockVars, runs, running, job>>

\* A tick's flush, or the final one once the context is cancelled.
FlushReads(p) ==
    /\ Up(p) /\ p \in reads
    /\ reads' = reads \ {p}
    /\ UNCHANGED <<lockVars, runs, running, job>>

-----------------------------------------------------------------------------
(* Boot, shutdown and crash *)

\* MarkOrphanedGCRunsFailed.
Reaped == [i \in DOMAIN runs |-> [runs[i] EXCEPT !.status = IF @ = "running" THEN "failed" ELSE @]]

\* Mutant: the reaper runs in every boot.
BootToServe_AlwaysReaps(p) ==
    /\ Serve(p)
    /\ runs' = Reaped
    /\ UNCHANGED <<running, job, reads>>

\* Mutant: nobody reaps.
BootToServe_NeverReaps(p) == Serve(p) /\ UNCHANGED gcVars

\* Boot reaps iff this process has a lock, then starts its loops and listeners.
BootToServe(p) ==
    /\ Serve(p)
    /\ runs' = IF watch[p] # "none" THEN Reaped ELSE runs
    /\ UNCHANGED <<running, job, reads>>

\* What waitForBackground waits for: the loop's exit, the triggered runs and the
\* touchers' final flush.  Neither loop nor toucher exits while the context lives.
Quiet(p) ==
    /\ p \notin live
    /\ job[p]["loop"].at = "idle" /\ job[p]["api"].at = "idle"
    /\ p \notin reads

\* Mutant: Boot returns without waiting.
WaitForBackground_Skipped(p) == ClosePool(p) /\ UNCHANGED gcVars

\* The wait ends when all is quiet, or at its deadline: at the latest once nothing
\* it waits for will ever happen.
WaitForBackground(p) ==
    /\ Quiet(p) \/ p \in live \/ SlowWorkers
    /\ ClosePool(p)
    /\ UNCHANGED gcVars

\* The end of a process takes its memory along; the rows stay.
Exit(p) ==
    /\ Release(p) \/ Crash(p)
    /\ running' = running \ {p}
    /\ job' = [job EXCEPT ![p] = NoJobs]
    /\ reads' = reads \ {p}
    /\ UNCHANGED runs

-----------------------------------------------------------------------------
RunStep(p, w) ==
    \/ StartGCRun(p, w) \/ StartFails(p, w)
    \/ \E status \in {"succeeded", "failed"} : Sweep(p, w, status)
    \/ FinishGCRun(p, w) \/ FinishFails(p, w) \/ Return(p, w)

LockStep(p) ==
    \/ AcquireBootLock(p) \/ ContinueUnlocked(p) \/ BootFails(p)
    \/ RunInterrupted(p) \/ RunCancelled(p) \/ Watcher(p) \/ SessionDies(p)

Next ==
    \/ \E p \in Procs, w \in Workers : RunStep(p, w)
    \/ \E p \in Procs :
          \/ LoopTick(p) \/ UsageTick(p)
          \/ \E dry \in BOOLEAN : HandleTriggerGCRun(p, dry)
          \/ MarkRead(p) \/ FlushReads(p) \/ BootToServe(p) \/ WaitForBackground(p) \/ Exit(p)
          \/ LockStep(p) /\ UNCHANGED gcVars
    \/ BackendExits /\ UNCHANGED gcVars

Spec == Init /\ [][Next]_vars

-----------------------------------------------------------------------------
(* Properties *)

\* The type of every variable; a job's run is a row that exists.
RunsTypeOK ==
    /\ LockTypeOK
    /\ runs \in Seq([dry : BOOLEAN, status : {"running", "succeeded", "failed"}])
    /\ running \subseteq Procs
    /\ job \in [Procs -> [Workers -> [at : {"idle", "claimed", "sweep", "finish", "return"},
                                      run : 0..MaxRuns, dry : BOOLEAN,
                                      status : {"running", "succeeded", "failed"}]]]
    /\ reads \subseteq Procs

\* Engine.running is set exactly while a real run of the process is between its
\* CompareAndSwap and its return, whichever way it ends: a flag left set refuses
\* every later run with ErrAlreadyRunning.
FlagIsExact ==
    \A p \in Procs :
        p \in running <=> \E w \in Workers : job[p][w].at # "idle" /\ ~job[p][w].dry

\* A run that has ended keeps its outcome: neither a reaper nor a late finisher
\* changes a row that is no longer running.
OutcomeIsFinal ==
    \A i \in DOMAIN runs : runs[i].status # "running" => runs'[i] = runs[i]

\* The boot reaper never fails a run that the process holding the lock is working on,
\* whoever boots beside it.
ReapSparesTheHolder ==
    \A p, q \in Procs, w \in Workers :
        BootToServe(p) /\ p # q /\ lock = <<q, "live">> /\ job[q][w].at \in {"sweep", "finish"}
            => runs'[job[q][w].run] = runs[job[q][w].run]

\* A process that stops in order leaves nothing behind: its runs are finished and
\* its reads are written before the pool closes.
StopIsClean ==
    \A p \in Procs : phase[p] = "draining" /\ phase'[p] = "unlocking" =>
        /\ p \notin reads
        /\ \A w \in {"loop", "api"} : job[p][w].at \notin {"sweep", "finish"}

\* The same of every step, as waitForBackground promises it, signal or not.
OrderlyStopIsClean == [][StopIsClean]_vars

=============================================================================
