---------------------------- MODULE GcRunsProofs ----------------------------
(***************************************************************************)
(* Proofs about the collector's runs and the boot lock they extend, for    *)
(* any set of processes and any bounds; about the pacing of measurements   *)
(* (Measure), for any callers and intervals; about the windows a run       *)
(* judges by (RetentionPlan), for any configuration; and about the stages  *)
(* of a sweep (GcSweep), for any windows, stalenesses and namespaces in    *)
(* use; and about the teardown of backends and projects (Teardown), for    *)
(* any admins, kinds, keys and bounds.                                     *)
(***************************************************************************)
EXTENDS GcRuns, GcSweep, Teardown, Measure, RetentionPlan, FiniteSetTheorems, TLAPS

-----------------------------------------------------------------------------
(* Steps of the lock, by what they do to its variables *)

\* Every step of the composed system is a step of the lock, or leaves it alone.
LEMMA NextIsLockNext == [Next]_vars => [LockNext]_lockVars
  <1> SUFFICES ASSUME [Next]_vars PROVE LockNext \/ UNCHANGED lockVars
    OBVIOUS
  <1>1. ASSUME NEW p \in Procs, NEW w \in Workers, RunStep(p, w) PROVE UNCHANGED lockVars
    BY <1>1 DEF RunStep, StartGCRun, StartFails, Sweep, FinishGCRun, FinishFails, Return
  <1>2. ASSUME NEW p \in Procs,
               LoopTick(p) \/ UsageTick(p) \/ (\E dry \in BOOLEAN : HandleTriggerGCRun(p, dry))
        PROVE  UNCHANGED lockVars
    BY <1>2 DEF LoopTick, UsageTick, HandleTriggerGCRun, Claim
  <1>3. ASSUME NEW p \in Procs, MarkRead(p) \/ FlushReads(p) PROVE UNCHANGED lockVars
    BY <1>3 DEF MarkRead, FlushReads
  <1>4. ASSUME NEW p \in Procs,
               BootToServe(p) \/ WaitForBackground(p) \/ Exit(p) \/ (LockStep(p) /\ UNCHANGED gcVars)
        PROVE  LockNext
    BY <1>4 DEF BootToServe, WaitForBackground, Exit, LockStep, LockNext, Fault
  <1>5. CASE BackendExits /\ UNCHANGED gcVars
    BY <1>5 DEF LockNext
  <1>6. CASE UNCHANGED vars
    BY <1>6 DEF vars
  <1>7. CASE Next
    <2>1. CASE \E p \in Procs, w \in Workers : RunStep(p, w)
      BY <1>1, <2>1
    <2>2. ASSUME NEW p \in Procs,
                 \/ LoopTick(p) \/ UsageTick(p) \/ (\E dry \in BOOLEAN : HandleTriggerGCRun(p, dry))
                 \/ MarkRead(p) \/ FlushReads(p)
                 \/ BootToServe(p) \/ WaitForBackground(p) \/ Exit(p)
                 \/ LockStep(p) /\ UNCHANGED gcVars
          PROVE  LockNext \/ UNCHANGED lockVars
      BY <1>2, <1>3, <1>4, <2>2
    <2> QED
      BY <1>5, <1>7, <2>1, <2>2 DEF Next
  <1> QED
    BY <1>6, <1>7

\* The variables of the lock are typed in every reachable state.
LEMMA LockTypeStep == LockTypeOK /\ [LockNext]_lockVars => LockTypeOK'
  <1> SUFFICES ASSUME LockTypeOK, [LockNext]_lockVars PROVE LockTypeOK'
    OBVIOUS
  <1> USE LockConstants DEF LockTypeOK, Phases, BootLockAssumption
  <1>1. ASSUME NEW p \in Procs, AcquireBootLock(p) PROVE LockTypeOK'
    BY <1>1 DEF AcquireBootLock, Others
  <1>2. ASSUME NEW p \in Procs, ContinueUnlocked(p) \/ Serve(p) \/ BootFails(p) PROVE LockTypeOK'
    BY <1>2 DEF ContinueUnlocked, Serve, BootFails
  <1>3. ASSUME NEW p \in Procs, RunInterrupted(p) \/ RunCancelled(p) \/ ClosePool(p) PROVE LockTypeOK'
    BY <1>3 DEF RunInterrupted, RunCancelled, ClosePool
  <1>4. ASSUME NEW p \in Procs, Release(p) \/ Crash(p) PROVE LockTypeOK'
    BY <1>4 DEF Release, Crash
  <1>5. ASSUME NEW p \in Procs, SessionDies(p) PROVE LockTypeOK'
    BY <1>5 DEF SessionDies
  <1>6. ASSUME NEW p \in Procs, Check(p) \/ Unreachable(p) \/ WindowCloses(p) \/ WatchBootLock(p)
        PROVE  LockTypeOK'
    BY <1>6 DEF Check, Unreachable, WindowCloses, WatchBootLock
  <1>7. ASSUME NEW p \in Procs, Retaken(p) PROVE LockTypeOK'
    BY <1>7 DEF Retaken, Others
  <1>8. CASE BackendExits
    BY <1>8 DEF BackendExits
  <1>9. CASE UNCHANGED lockVars
    BY <1>9 DEF lockVars
  <1> QED
    BY <1>1, <1>2, <1>3, <1>4, <1>5, <1>6, <1>7, <1>8, <1>9 DEF LockNext, Watcher, Fault

-----------------------------------------------------------------------------
(* What a process may believe about the lock *)

\* Only a process that is up watches, and the session that holds the lock is the one
\* its process pings.
WatchersAreUp ==
    /\ \A p \in Procs : phase[p] = "down" => watch[p] = "none"
    /\ \A p \in Procs : lock = <<p, "live">> => p \in conn /\ watch[p] = "tick"

\* While no session has died, whoever watches holds the lock; and without
\* --allow-multi-instance whoever is up watches.
HolderIsAlone ==
    /\ deaths = 0 => \A p \in Procs : watch[p] # "none" => lock = <<p, "live">>
    /\ ~AllowMultiInstance => \A p \in Procs : phase[p] # "down" => watch[p] # "none"

\* A lock in other hands was taken during the life of everyone who watches it, and a
\* verdict against the process is remembered only of such a lock.
LossIsWitnessed ==
    /\ \A p, q \in Procs : p # q /\ watch[p] # "none" /\ lock \in {<<q, "live">>, <<q, "dead">>}
            => p \in overtaken
    /\ \A p \in Procs : watch[p] = "lost" => p \in overtaken

LockInv == LockTypeOK /\ WatchersAreUp /\ HolderIsAlone /\ (FastDrain => LossIsWitnessed)

\* Every action of the lock keeps the three.
LEMMA LockInvStep == LockInv /\ [LockNext]_lockVars => LockInv'
  <1> SUFFICES ASSUME LockInv, [LockNext]_lockVars
               PROVE  WatchersAreUp' /\ HolderIsAlone' /\ (FastDrain => LossIsWitnessed')
    BY LockTypeStep DEF LockInv
  <1> USE LockConstants DEF LockInv, LockTypeOK, Phases, BootLockAssumption, WatchersAreUp,
                            HolderIsAlone, LossIsWitnessed
  <1>1. ASSUME NEW p \in Procs, AcquireBootLock(p)
        PROVE  WatchersAreUp' /\ HolderIsAlone' /\ (FastDrain => LossIsWitnessed')
    BY <1>1 DEF AcquireBootLock, Others
  <1>2. ASSUME NEW p \in Procs, ContinueUnlocked(p) \/ Serve(p) \/ BootFails(p)
        PROVE  WatchersAreUp' /\ HolderIsAlone' /\ (FastDrain => LossIsWitnessed')
    BY <1>2 DEF ContinueUnlocked, Serve, BootFails
  <1>3. ASSUME NEW p \in Procs, RunInterrupted(p) \/ RunCancelled(p) \/ ClosePool(p)
        PROVE  WatchersAreUp' /\ HolderIsAlone' /\ (FastDrain => LossIsWitnessed')
    BY <1>3 DEF RunInterrupted, RunCancelled, ClosePool
  <1>4. ASSUME NEW p \in Procs, Release(p) \/ Crash(p)
        PROVE  WatchersAreUp' /\ HolderIsAlone' /\ (FastDrain => LossIsWitnessed')
    BY <1>4 DEF Release, Crash
  <1>5. ASSUME NEW p \in Procs, SessionDies(p)
        PROVE  WatchersAreUp' /\ HolderIsAlone' /\ (FastDrain => LossIsWitnessed')
    BY <1>5 DEF SessionDies
  <1>6. ASSUME NEW p \in Procs, Check(p)
        PROVE  WatchersAreUp' /\ HolderIsAlone' /\ (FastDrain => LossIsWitnessed')
    BY <1>6 DEF Check
  <1>7. ASSUME NEW p \in Procs, Unreachable(p) \/ WindowCloses(p) \/ WatchBootLock(p)
        PROVE  WatchersAreUp' /\ HolderIsAlone' /\ (FastDrain => LossIsWitnessed')
    BY <1>7 DEF Unreachable, WindowCloses, WatchBootLock
  <1>8. ASSUME NEW p \in Procs, Retaken(p)
        PROVE  WatchersAreUp' /\ HolderIsAlone' /\ (FastDrain => LossIsWitnessed')
    BY <1>8 DEF Retaken, Others
  <1>9. CASE BackendExits
    BY <1>9 DEF BackendExits
  <1>10. CASE UNCHANGED lockVars
    BY <1>10 DEF lockVars
  <1> QED
    BY <1>1, <1>2, <1>3, <1>4, <1>5, <1>6, <1>7, <1>8, <1>9, <1>10 DEF LockNext, Watcher, Fault

\* The lock's invariant holds of the whole system.
LEMMA LockInvariance == Spec => []LockInv
  <1>1. Init => LockInv
    BY LockConstants DEF Init, LockInit, LockInv, LockTypeOK, Phases, BootLockAssumption,
                         WatchersAreUp, HolderIsAlone, LossIsWitnessed
  <1>2. LockInv /\ [Next]_vars => LockInv'
    BY NextIsLockNext, LockInvStep
  <1> QED
    BY <1>1, <1>2, PTL DEF Spec

\* While sessions do not die, two processes never have their serving pools open at
\* once, through every boot, failed boot, shutdown and crash.
THEOREM OneServerAtATime == Spec => []SoleServer
  <1>1. LockInv => SoleServer
    <2> SUFFICES ASSUME LockInv, ~AllowMultiInstance, ~(deaths > 0)
                 PROVE  Cardinality({p \in Procs : Up(p)}) <= 1
      BY DEF SoleServer
    <2>1. deaths = 0
      BY LockConstants DEF LockInv, LockTypeOK, BootLockAssumption
    <2>2. \A p \in Procs : Up(p) => lock = <<p, "live">>
      BY <2>1 DEF LockInv, HolderIsAlone, Up
    <2>3. CASE \A p \in Procs : ~Up(p)
      <3>1. {p \in Procs : Up(p)} = {}
        BY <2>3
      <3> QED
        BY <3>1, FS_EmptySet
    <2>4. CASE \E p \in Procs : Up(p)
      <3>1. PICK p \in Procs : Up(p)
        BY <2>4
      <3>2. \A q \in Procs : Up(q) => q = p
        BY <2>2, <3>1
      <3>3. {q \in Procs : Up(q)} = {p}
        BY <3>1, <3>2
      <3> QED
        BY <3>3, FS_Singleton
    <2> QED
      BY <2>3, <2>4
  <1> QED
    BY <1>1, LockInvariance, PTL

\* When a dead session's backend is gone within recoverRetryWindow, a process that shuts
\* itself down over the lock has really been overtaken: it never takes its own corpse for
\* another instance.
THEOREM LossesAreReal == FastDrain => (Spec => []LossIsReal)
  <1> SUFFICES ASSUME FastDrain PROVE Spec => []LossIsReal
    OBVIOUS
  <1>1. LockInv => LossIsReal
    BY DEF LockInv, LossIsWitnessed, LossIsReal
  <1> QED
    BY <1>1, LockInvariance, PTL

-----------------------------------------------------------------------------
(* Jobs and the flag *)

Jobs == [at : {"idle", "claimed", "sweep", "finish", "return"}, run : 0..MaxRuns,
         dry : BOOLEAN, status : {"running", "succeeded", "failed"}]

Row == [dry : BOOLEAN, status : {"running", "succeeded", "failed"}]

\* The worker is between the CompareAndSwap of a real run and its return.
Real(p, w) == job[p][w].at # "idle" /\ ~job[p][w].dry

\* The flag is a lock: one worker of a process at a time holds it.
OneRealRun == \A p \in Procs : \A v, w \in Workers : Real(p, v) /\ Real(p, w) => v = w

\* What a worker's step does to the jobs: its own becomes j.
LEMMA JobStep ==
    ASSUME RunsTypeOK, NEW p \in Procs, NEW w \in Workers, NEW j \in Jobs, To(p, w, j)
    PROVE  /\ job' \in [Procs -> [Workers -> Jobs]]
           /\ job'[p][w] = j
           /\ \A q \in Procs, v \in Workers : q # p \/ v # w => job'[q][v] = job[q][v]
  BY DEF To, RunsTypeOK, Jobs

\* A row of gc_runs may change its status; the table stays one.
LEMMA RowStep ==
    ASSUME NEW r \in Seq(Row), NEW i \in Nat, NEW s \in {"running", "succeeded", "failed"},
           NEW r2, r2 = [r EXCEPT ![i].status = s]
    PROVE  r2 \in Seq(Row) /\ Len(r2) = Len(r)
  <1>1. r \in [1..Len(r) -> Row] /\ Len(r) \in Nat
    OBVIOUS
  <1>2. \A x \in Row : [x EXCEPT !.status = s] \in Row
    BY DEF Row
  <1>3. r2 \in [1..Len(r) -> Row]
    BY <1>1, <1>2
  <1> QED
    BY <1>1, <1>3

RunsInv == RunsTypeOK /\ FlagIsExact /\ OneRealRun

\* A step that replaces one job by one just as real keeps the flag exact.
LEMMA SameReality ==
    ASSUME RunsInv, NEW p \in Procs, NEW w \in Workers, NEW j \in Jobs, To(p, w, j),
           UNCHANGED <<lockVars, running, reads>>, runs' \in Seq(Row),
           job[p][w].at # "idle", j.at # "idle", j.dry = job[p][w].dry
    PROVE  RunsInv'
  <1> USE DEF RunsInv
  <1>1. RunsTypeOK'
    BY JobStep DEF RunsTypeOK, lockVars, LockTypeOK, Jobs, Row
  <1>2. \A q \in Procs, v \in Workers : Real(q, v)' <=> Real(q, v)
    BY JobStep DEF Real
  <1> QED
    BY <1>1, <1>2 DEF FlagIsExact, OneRealRun, Real

\* Claiming a run preserves the invariant: a real one takes a flag that was free.
LEMMA ClaimInv ==
    ASSUME RunsInv, NEW p \in Procs, NEW w \in Workers, NEW dry \in BOOLEAN, Claim(p, w, dry)
    PROVE  RunsInv'
  <1> USE DEF RunsInv
  <1> DEFINE j == [Idle EXCEPT !.at = "claimed", !.dry = dry]
  <1>1. j \in Jobs /\ j.at = "claimed" /\ j.dry = dry
    <2>1. Idle \in Jobs
      BY RunsConstants DEF Idle, Jobs, GcRunsAssumption
    <2> QED
      BY <2>1 DEF Jobs
  <1>2. /\ job' \in [Procs -> [Workers -> Jobs]]
        /\ job'[p][w] = j
        /\ \A q \in Procs, v \in Workers : q # p \/ v # w => job'[q][v] = job[q][v]
    BY <1>1, JobStep DEF Claim
  <1> HIDE DEF j
  <1>3. RunsTypeOK'
    BY <1>2 DEF Claim, RunsTypeOK, lockVars, LockTypeOK, Jobs
  <1>4. \A q \in Procs, v \in Workers :
            Real(q, v)' <=> IF q = p /\ v = w THEN ~dry ELSE Real(q, v)
    BY <1>1, <1>2 DEF Real
  <1>5. ~Real(p, w)
    BY DEF Claim, Real
  <1>6. running' = IF dry THEN running ELSE running \cup {p}
    BY DEF Claim
  <1>7. ~dry => \A v \in Workers : ~Real(p, v)
    BY DEF Claim, FlagIsExact, Real
  <1>8. FlagIsExact'
    BY <1>4, <1>5, <1>6 DEF FlagIsExact, Real
  <1>9. OneRealRun'
    BY <1>4, <1>5, <1>7 DEF OneRealRun
  <1> QED
    BY <1>3, <1>8, <1>9

\* A run that ends, or never started, gives back the flag it held, and no other.
LEMMA EndInv ==
    ASSUME RunsInv, NEW p \in Procs, NEW w \in Workers, job[p][w].at # "idle", To(p, w, Idle),
           running' = IF job[p][w].dry THEN running ELSE running \ {p},
           UNCHANGED <<lockVars, runs, reads>>
    PROVE  RunsInv'
  <1> USE DEF RunsInv
  <1>1. Idle \in Jobs /\ Idle.at = "idle"
    BY RunsConstants DEF Idle, Jobs, GcRunsAssumption
  <1>2. /\ job' \in [Procs -> [Workers -> Jobs]]
        /\ job'[p][w] = Idle
        /\ \A q \in Procs, v \in Workers : q # p \/ v # w => job'[q][v] = job[q][v]
    BY <1>1, JobStep
  <1>3. RunsTypeOK'
    BY <1>2 DEF RunsTypeOK, lockVars, LockTypeOK, Jobs
  <1>4. \A q \in Procs, v \in Workers : Real(q, v)' <=> (q # p \/ v # w) /\ Real(q, v)
    BY <1>1, <1>2 DEF Real
  <1>5. Real(p, w) => \A v \in Workers : Real(p, v) => v = w
    BY DEF OneRealRun
  <1>6. job[p][w].dry => ~Real(p, w)
    BY DEF Real
  <1>7. ~job[p][w].dry => Real(p, w)
    BY DEF Real
  <1>8. FlagIsExact'
    BY <1>4, <1>5, <1>6, <1>7 DEF FlagIsExact, Real
  <1>9. OneRealRun'
    BY <1>4 DEF OneRealRun
  <1> QED
    BY <1>3, <1>8, <1>9

\* Every step of a worker preserves it.
LEMMA RunStepInv ==
    ASSUME RunsInv, NEW p \in Procs, NEW w \in Workers, RunStep(p, w)
    PROVE  RunsInv'
  <1> DEFINE old == job[p][w]
  <1>1. old \in Jobs /\ runs \in Seq(Row)
    BY DEF RunsInv, RunsTypeOK, Jobs, Row
  <1>2. CASE StartGCRun(p, w)
    <2> DEFINE j == [old EXCEPT !.at = "sweep", !.run = Len(runs) + 1]
    <2>1. j \in Jobs /\ j.at = "sweep" /\ j.dry = old.dry
      <3>1. Len(runs) + 1 \in 0..MaxRuns
        BY <1>1, <1>2, RunsConstants DEF StartGCRun, GcRunsAssumption
      <3> QED
        BY <1>1, <3>1 DEF Jobs
    <2>2. runs' \in Seq(Row)
      BY <1>1, <1>2 DEF StartGCRun, Row, Jobs
    <2> QED
      BY <1>2, <2>1, <2>2, SameReality DEF StartGCRun
  <1>3. CASE StartFails(p, w)
    BY <1>3, EndInv DEF StartFails
  <1>4. ASSUME NEW status \in {"succeeded", "failed"}, Sweep(p, w, status) PROVE RunsInv'
    <2> DEFINE j == [old EXCEPT !.at = "finish", !.status = status]
    <2>1. j \in Jobs /\ j.at = "finish" /\ j.dry = old.dry
      BY <1>1 DEF Jobs
    <2> QED
      BY <1>1, <1>4, <2>1, SameReality DEF Sweep
  <1>5. [old EXCEPT !.at = "return"] \in Jobs
        /\ [old EXCEPT !.at = "return"].at = "return"
        /\ [old EXCEPT !.at = "return"].dry = old.dry
    BY <1>1 DEF Jobs
  <1>6. CASE FinishGCRun(p, w)
    <2>1. runs' \in Seq(Row)
      <3> DEFINE s == IF runs[old.run].status = "running" THEN old.status ELSE runs[old.run].status
      <3>1. CASE old.run \in DOMAIN runs
        <4>1. runs[old.run] \in Row
          BY <1>1, <3>1
        <4>2. s \in {"running", "succeeded", "failed"} /\ old.run \in Nat
          BY <1>1, <4>1 DEF Row, Jobs
        <4>3. runs' = [runs EXCEPT ![old.run].status = s]
          BY <1>6 DEF FinishGCRun
        <4> QED
          BY <1>1, <4>2, <4>3, RowStep
      <3>2. CASE old.run \notin DOMAIN runs
        <4>1. runs' = runs
          BY <1>1, <1>6, <3>2 DEF FinishGCRun
        <4> QED
          BY <1>1, <4>1
      <3> QED
        BY <3>1, <3>2
    <2> QED
      BY <1>5, <1>6, <2>1, SameReality DEF FinishGCRun
  <1>7. CASE FinishFails(p, w)
    BY <1>1, <1>5, <1>7, SameReality DEF FinishFails
  <1>8. CASE Return(p, w)
    BY <1>8, EndInv DEF Return
  <1> QED
    BY <1>2, <1>3, <1>4, <1>6, <1>7, <1>8 DEF RunStep

\* What the boot reaper makes of the table: running rows fail, the others stay.
LEMMA ReapedRows ==
    ASSUME runs \in Seq(Row)
    PROVE  /\ Reaped \in Seq(Row)
           /\ \A i \in DOMAIN runs : runs[i].status # "running" => Reaped[i] = runs[i]
  <1>1. runs \in [1..Len(runs) -> Row] /\ Len(runs) \in Nat /\ DOMAIN runs = 1..Len(runs)
    OBVIOUS
  <1>2. \A x \in Row : /\ [x EXCEPT !.status = "failed"] \in Row
                        /\ [x EXCEPT !.status = x.status] = x
    BY DEF Row
  <1>3. \A i \in 1..Len(runs) :
            Reaped[i] = IF runs[i].status = "running" THEN [runs[i] EXCEPT !.status = "failed"]
                                                      ELSE runs[i]
    BY <1>1, <1>2 DEF Reaped
  <1>4. Reaped \in [1..Len(runs) -> Row]
    BY <1>1, <1>2, <1>3 DEF Reaped
  <1> QED
    BY <1>1, <1>3, <1>4

\* The invariant is inductive.
LEMMA RunsInvStep == RunsInv /\ [Next]_vars => RunsInv'
  <1> SUFFICES ASSUME RunsInv, [Next]_vars PROVE RunsInv'
    OBVIOUS
  <1>1. LockTypeOK'
    BY NextIsLockNext, LockTypeStep DEF RunsInv, RunsTypeOK
  <1>2. ASSUME UNCHANGED gcVars PROVE RunsInv'
    BY <1>1, <1>2 DEF gcVars, RunsInv, RunsTypeOK, FlagIsExact, OneRealRun, Real
  <1>3. ASSUME NEW p \in Procs,
               LoopTick(p) \/ UsageTick(p) \/ (\E dry \in BOOLEAN : HandleTriggerGCRun(p, dry))
        PROVE  RunsInv'
    BY <1>3, ClaimInv DEF LoopTick, UsageTick, HandleTriggerGCRun, Workers
  <1>4. ASSUME NEW p \in Procs, MarkRead(p) \/ FlushReads(p) PROVE RunsInv'
    BY <1>1, <1>4 DEF MarkRead, FlushReads, RunsInv, RunsTypeOK, FlagIsExact, OneRealRun, Real
  <1>5. ASSUME NEW p \in Procs, BootToServe(p) PROVE RunsInv'
    <2>1. runs' \in Seq(Row)
      BY <1>5, ReapedRows DEF BootToServe, RunsInv, RunsTypeOK, Row
    <2> QED
      BY <1>1, <1>5, <2>1
      DEF BootToServe, RunsInv, RunsTypeOK, Row, FlagIsExact, OneRealRun, Real
  <1>6. ASSUME NEW p \in Procs, Exit(p) PROVE RunsInv'
    <2>1. Idle \in Jobs /\ Idle.at = "idle"
      BY RunsConstants DEF Idle, Jobs, GcRunsAssumption
    <2>2. job \in [Procs -> [Workers -> Jobs]]
      BY DEF RunsInv, RunsTypeOK, Jobs
    <2>3. /\ job' \in [Procs -> [Workers -> Jobs]]
          /\ \A q \in Procs, v \in Workers : job'[q][v] = IF q = p THEN Idle ELSE job[q][v]
      BY <1>6, <2>1, <2>2 DEF Exit, NoJobs
    <2>4. \A q \in Procs, v \in Workers : Real(q, v)' <=> q # p /\ Real(q, v)
      BY <2>1, <2>3 DEF Real
    <2>5. RunsTypeOK'
      BY <1>1, <1>6, <2>3 DEF Exit, RunsInv, RunsTypeOK, Jobs
    <2>6. running' = running \ {p}
      BY <1>6 DEF Exit
    <2> QED
      BY <2>4, <2>5, <2>6 DEF RunsInv, FlagIsExact, OneRealRun, Real
  <1>7. ASSUME NEW p \in Procs, WaitForBackground(p) PROVE UNCHANGED gcVars
    BY <1>7 DEF WaitForBackground
  <1>8. CASE UNCHANGED vars
    BY <1>2, <1>8 DEF vars
  <1>9. CASE Next
    <2>1. CASE \E p \in Procs, w \in Workers : RunStep(p, w)
      BY <2>1, RunStepInv
    <2>2. ASSUME NEW p \in Procs,
                 \/ LoopTick(p) \/ UsageTick(p) \/ (\E dry \in BOOLEAN : HandleTriggerGCRun(p, dry))
                 \/ MarkRead(p) \/ FlushReads(p) \/ BootToServe(p) \/ WaitForBackground(p) \/ Exit(p)
                 \/ LockStep(p) /\ UNCHANGED gcVars
          PROVE  RunsInv'
      BY <1>2, <1>3, <1>4, <1>5, <1>6, <1>7, <2>2
    <2> QED
      BY <1>2, <1>9, <2>1, <2>2 DEF Next
  <1> QED
    BY <1>8, <1>9

LEMMA RunsInvariance == Spec => []RunsInv
  <1>1. Init => RunsInv
    <2> SUFFICES ASSUME Init PROVE RunsInv
      OBVIOUS
    <2>1. Idle \in Jobs /\ Idle.at = "idle"
      BY RunsConstants DEF Idle, Jobs, GcRunsAssumption
    <2>2. job \in [Procs -> [Workers -> Jobs]] /\ \A p \in Procs, w \in Workers : job[p][w] = Idle
      BY <2>1 DEF Init, NoJobs
    <2>3. LockTypeOK
      BY LockConstants DEF Init, LockInit, LockTypeOK, Phases, BootLockAssumption
    <2>4. RunsTypeOK
      BY <2>2, <2>3 DEF Init, RunsTypeOK, Jobs
    <2> QED
      BY <2>1, <2>2, <2>4 DEF Init, RunsInv, FlagIsExact, OneRealRun, Real
  <1> QED
    BY <1>1, RunsInvStep, PTL DEF Spec

\* Type correctness: a job always names a row within the table's bound.
THEOREM RunsAreTyped == Spec => []RunsTypeOK
  <1>1. RunsInv => RunsTypeOK
    BY DEF RunsInv
  <1> QED
    BY <1>1, RunsInvariance, PTL

\* Engine.running is set exactly while a real run of its process is under way, whichever
\* of the three loops began it and whichever way it ends.
THEOREM FlagsAreExact == Spec => []FlagIsExact
  <1>1. RunsInv => FlagIsExact
    BY DEF RunsInv
  <1> QED
    BY <1>1, RunsInvariance, PTL

\* No step changes the outcome of a run that has one.
LEMMA OutcomeStep == RunsInv /\ [Next]_vars => OutcomeIsFinal
  <1> SUFFICES ASSUME RunsInv, [Next]_vars, NEW i \in DOMAIN runs, runs[i].status # "running"
               PROVE  runs'[i] = runs[i]
    BY DEF OutcomeIsFinal
  <1>1. runs \in Seq(Row) /\ runs[i] \in Row /\ i \in 1..Len(runs) /\ Len(runs) \in Nat
    <2>1. runs \in Seq(Row)
      BY DEF RunsInv, RunsTypeOK, Row
    <2> QED
      BY <2>1
  <1>2. ASSUME NEW p \in Procs, NEW w \in Workers, StartGCRun(p, w) PROVE runs'[i] = runs[i]
    BY <1>1, <1>2 DEF StartGCRun
  <1>3. ASSUME NEW p \in Procs, NEW w \in Workers, FinishGCRun(p, w) PROVE runs'[i] = runs[i]
    <2>1. [runs[i] EXCEPT !.status = runs[i].status] = runs[i]
      BY <1>1 DEF Row
    <2> QED
      BY <1>1, <1>3, <2>1 DEF FinishGCRun
  <1>4. ASSUME NEW p \in Procs, BootToServe(p) PROVE runs'[i] = runs[i]
    BY <1>1, <1>4, ReapedRows DEF BootToServe
  <1>5. ASSUME NEW p \in Procs, NEW w \in Workers, RunStep(p, w) PROVE runs'[i] = runs[i]
    BY <1>2, <1>3, <1>5 DEF RunStep, StartFails, Sweep, FinishFails, Return
  <1>6. ASSUME NEW p \in Procs,
               LoopTick(p) \/ UsageTick(p) \/ (\E dry \in BOOLEAN : HandleTriggerGCRun(p, dry))
        PROVE  runs' = runs
    BY <1>6 DEF LoopTick, UsageTick, HandleTriggerGCRun, Claim
  <1>7. ASSUME NEW p \in Procs, MarkRead(p) \/ FlushReads(p) \/ WaitForBackground(p) \/ Exit(p)
        PROVE  runs' = runs
    BY <1>7 DEF MarkRead, FlushReads, WaitForBackground, Exit, gcVars
  <1>8. ASSUME UNCHANGED gcVars PROVE runs' = runs
    BY <1>8 DEF gcVars
  <1>9. CASE UNCHANGED vars
    BY <1>8, <1>9 DEF vars
  <1>10. CASE Next
    <2>1. ASSUME NEW p \in Procs,
                 \/ LoopTick(p) \/ UsageTick(p) \/ (\E dry \in BOOLEAN : HandleTriggerGCRun(p, dry))
                 \/ MarkRead(p) \/ FlushReads(p) \/ BootToServe(p) \/ WaitForBackground(p) \/ Exit(p)
                 \/ LockStep(p) /\ UNCHANGED gcVars
          PROVE  runs'[i] = runs[i]
      BY <1>4, <1>6, <1>7, <1>8, <2>1
    <2> QED
      BY <1>5, <1>8, <1>10, <2>1 DEF Next
  <1> QED
    BY <1>9, <1>10

\* A recorded outcome is final: neither the boot reaper nor a finisher that comes late
\* changes a row that is no longer running.
THEOREM OutcomesAreFinal == Spec => [][OutcomeIsFinal]_vars
  BY RunsInvariance, OutcomeStep, PTL DEF Spec

\* While no session dies, the reaper of an instance that boots beside the holder of the
\* lock never fails a run of the holder: only a process that has a lock reaps.
THEOREM ReaperSparesTheHolder == MaxDeaths = 0 => (Spec => [][ReapSparesTheHolder]_vars)
  <1> SUFFICES ASSUME MaxDeaths = 0 PROVE Spec => [][ReapSparesTheHolder]_vars
    OBVIOUS
  <1>1. LockInv => ReapSparesTheHolder
    <2> SUFFICES ASSUME LockInv, NEW p \in Procs, NEW q \in Procs, BootToServe(p), p # q,
                        lock = <<q, "live">>
                 PROVE  runs' = runs
      BY DEF ReapSparesTheHolder
    <2>1. deaths = 0
      BY DEF LockInv, LockTypeOK
    <2>2. watch[p] = "none"
      BY <2>1 DEF LockInv, HolderIsAlone
    <2> QED
      BY <2>2 DEF BootToServe
  <1> QED
    BY <1>1, LockInvariance, PTL

-----------------------------------------------------------------------------
(* Measure: the pacing of usage measurements, for any callers, interval    *)
(* and deadline.                                                           *)

Steps == {"none", "query", "upsert", "release", "return"}
Flights == [at : Steps, start : Nat, rows : BOOLEAN]

\* The flight that may still use up its window holds the claim.
Measuring == flight.at \in {"query", "upsert", "release"}

MeasureTypes ==
    /\ now \in 0 .. MaxTime /\ attempt \in 0 .. None /\ flight \in Flights
    /\ backends \in BOOLEAN
    /\ caller \in [Callers -> {"ready", "claimed", "waiting", "answered"}]
    /\ spent \subseteq Nat

\* A claim is as young as the clock, at most one is not acted upon, and none is taken while
\* a flight measures: the deadline ends that flight before the window does.
ClaimsAreSingle ==
    /\ attempt # None => attempt <= now
    /\ \A c \in Callers : caller[c] = "claimed" => attempt = now /\ ~Measuring
    /\ \A c, d \in Callers : caller[c] = "claimed" /\ caller[d] = "claimed" => c = d
    /\ flight.at # "none" => now <= flight.start + Timeout
    /\ Measuring => attempt = flight.start /\ attempt # None

\* What a measurement cost lies an interval before the present claim, or before now.
SpentLiesBack ==
    \A s \in spent :
        /\ attempt # None => s = attempt \/ s + Interval <= attempt
        /\ attempt = None => s + Interval <= now

MeasureInv == MeasureTypes /\ ClaimsAreSingle /\ SpentLiesBack /\ MeasurementsAreSpaced

\* The constants, the clock, the claim and the spent windows are numbers.
LEMMA MeasureNumbers ==
  ASSUME MeasureAssumption, MeasureTypes
  PROVE  Interval \in Nat /\ now \in Nat /\ attempt \in Nat /\ spent \subseteq Nat
  <1>1. Interval \in Nat /\ MaxTime \in Nat
    BY DEF MeasureAssumption
  <1>2. now \in 0 .. MaxTime /\ attempt \in 0 .. (MaxTime + 1) /\ spent \subseteq Nat
    BY DEF MeasureTypes, None
  <1> QED  BY <1>1, <1>2


LEMMA ClaimKeeps ==
  ASSUME MeasureAssumption, MeasureInv, NEW c \in Callers, ClaimMeasureAttempt(c)
  PROVE  MeasureInv'
  <1> USE DEF MeasureAssumption, MeasureInv, MeasureTypes
  <1>1. caller[c] = "ready" /\ UNCHANGED <<now, backends, flight, measured, spent>>
    BY DEF ClaimMeasureAttempt
  <1>2. CASE attempt # None /\ now < attempt + Interval
    <2>1. caller' = [caller EXCEPT ![c] = "answered"] /\ attempt' = attempt
      BY <1>2 DEF ClaimMeasureAttempt
    <2>2. MeasureTypes' /\ \A d \in Callers : caller'[d] = "claimed" => caller[d] = "claimed"
      BY <1>1, <2>1
    <2>3. ClaimsAreSingle'
      BY <1>1, <2>1, <2>2 DEF ClaimsAreSingle, Measuring, None
    <2> QED
      BY <1>1, <2>1, <2>2, <2>3 DEF SpentLiesBack, MeasurementsAreSpaced, None
  <1>3. CASE ~(attempt # None /\ now < attempt + Interval)
    <2>1. caller' = [caller EXCEPT ![c] = "claimed"] /\ attempt' = now
      BY <1>3 DEF ClaimMeasureAttempt
    <2>2. MeasureTypes' /\ attempt' # None
      BY <1>1, <2>1 DEF None
    <2>3. \A d \in Callers : caller'[d] = "claimed" => d = c
      <3>1. \A d \in Callers : caller[d] # "claimed"
        BY <1>3 DEF ClaimsAreSingle, None
      <3> QED
        BY <2>1, <3>1
    <2>4. ~Measuring
      BY <1>3 DEF ClaimsAreSingle, Measuring, Flights, None
    <2>5. ClaimsAreSingle'
      BY <1>1, <2>1, <2>3, <2>4 DEF ClaimsAreSingle, Measuring
    <2>6. SpentLiesBack'
      <3> SUFFICES ASSUME NEW s \in spent PROVE s + Interval <= now
        BY <1>1, <2>1, <2>2 DEF SpentLiesBack
      <3>1. s \in Nat /\ now \in Nat /\ attempt \in Nat /\ Interval \in Nat
        <4> HIDE DEF MeasureAssumption, MeasureTypes
        <4> QED  BY MeasureNumbers
      <3>2. attempt # None => s = attempt \/ s + Interval <= attempt
        BY DEF SpentLiesBack
      <3>3. attempt = None => s + Interval <= now
        BY DEF SpentLiesBack
      <3> HIDE DEF MeasureAssumption, MeasureInv, MeasureTypes
      <3> QED
        BY <1>3, <3>1, <3>2, <3>3
    <2> QED
      BY <1>1, <2>2, <2>5, <2>6 DEF MeasurementsAreSpaced
  <1> QED
    BY <1>2, <1>3

LEMMA DoChanKeeps ==
  ASSUME MeasureAssumption, MeasureInv, NEW c \in Callers, DoChan(c)
  PROVE  MeasureInv'
  <1> USE DEF MeasureAssumption, MeasureInv, MeasureTypes
  <1>1. /\ caller[c] = "claimed" /\ caller' = [caller EXCEPT ![c] = "waiting"]
        /\ UNCHANGED <<now, backends, attempt, measured>>
    BY DEF DoChan
  <1>2. attempt = now /\ ~Measuring /\ \A d \in Callers : caller'[d] # "claimed"
    BY <1>1 DEF ClaimsAreSingle
  <1>3. CASE flight.at = "none"
    <2>1. flight' = [NoFlight EXCEPT !.at = "query", !.start = now] /\ spent' = spent \cup {now}
      BY <1>3 DEF DoChan
    <2>2. flight' = [at |-> "query", start |-> now, rows |-> FALSE]
      BY <2>1 DEF NoFlight
    <2>3. MeasureTypes' /\ flight'.at = "query" /\ flight'.start = now
      <3>1. flight' \in Flights /\ flight'.at = "query" /\ flight'.start = now
        BY <2>2 DEF Flights, Steps
      <3>2. spent' \subseteq Nat
        BY <2>1
      <3> QED
        BY <1>1, <3>1, <3>2 DEF None
    <2>4. ClaimsAreSingle'
      <3>1. now # None /\ now <= now + Timeout
        BY DEF None
      <3> QED
        BY <1>1, <1>2, <2>3, <3>1 DEF ClaimsAreSingle, Measuring, None
    <2>5. \A s \in spent : s = now \/ s + Interval <= now
      BY <1>2 DEF SpentLiesBack
    <2>6. SpentLiesBack'
      BY <1>1, <1>2, <2>1, <2>5 DEF SpentLiesBack, None
    <2>7. MeasurementsAreSpaced'
      BY <2>1, <2>5 DEF MeasurementsAreSpaced
    <2> QED
      BY <2>3, <2>4, <2>6, <2>7
  <1>4. CASE flight.at # "none"
    <2>1. UNCHANGED <<flight, spent>>
      BY <1>4 DEF DoChan
    <2>2. MeasureTypes'
      BY <1>1, <2>1
    <2>3. ClaimsAreSingle'
      BY <1>1, <1>2, <2>1 DEF ClaimsAreSingle, Measuring, None
    <2> QED
      BY <1>1, <2>1, <2>2, <2>3 DEF SpentLiesBack, MeasurementsAreSpaced, None
  <1> QED
    BY <1>3, <1>4

\* A flight goes on, or returns, with its claim where it is.
LEMMA FlightKeeps ==
  ASSUME MeasureAssumption, MeasureInv, flight' \in Flights,
         flight'.at = "none" \/ (flight.at # "none" /\ flight'.start = flight.start),
         Measuring' => Measuring,
         caller' \in [Callers -> {"ready", "claimed", "waiting", "answered"}],
         \A c \in Callers : caller'[c] = "claimed" => caller[c] = "claimed",
         backends' \in BOOLEAN, UNCHANGED <<now, attempt, spent>>
  PROVE  MeasureInv'
  <1> USE DEF MeasureInv
  <1>1. MeasureTypes'
    BY DEF MeasureTypes, None
  <1>2. ClaimsAreSingle'
    BY DEF ClaimsAreSingle, None, Measuring
  <1> QED
    BY <1>1, <1>2 DEF SpentLiesBack, MeasurementsAreSpaced, None

LEMMA ReleaseKeeps ==
  ASSUME MeasureAssumption, MeasureInv, ReleaseMeasureAttempt
  PROVE  MeasureInv'
  <1> USE DEF MeasureAssumption, MeasureInv, MeasureTypes
  <1>1. /\ flight.at = "release" /\ flight' = [flight EXCEPT !.at = "return"]
        /\ attempt' = None /\ spent' = spent \ {flight.start}
        /\ UNCHANGED <<now, backends, caller, measured>>
    BY DEF ReleaseMeasureAttempt
  <1>2. flight' \in Flights /\ flight'.at = "return" /\ flight'.start = flight.start
    BY <1>1 DEF Flights, Steps
  <1>3. attempt = flight.start /\ attempt <= now /\ attempt # None
    BY <1>1 DEF ClaimsAreSingle, Measuring, None, Flights
  <1>4. MeasureTypes'
    BY <1>1, <1>2 DEF None
  <1>5. \A c \in Callers : caller[c] # "claimed"
    BY <1>1 DEF ClaimsAreSingle, Measuring
  <1>6. ClaimsAreSingle'
    BY <1>1, <1>2, <1>5 DEF ClaimsAreSingle, Measuring, None
  <1>7. SpentLiesBack'
    <2> SUFFICES ASSUME NEW s \in spent, s # flight.start PROVE s + Interval <= now
      BY <1>1 DEF SpentLiesBack, None
    <2> QED
      BY <1>3 DEF SpentLiesBack
  <1> QED
    BY <1>1, <1>4, <1>6, <1>7 DEF MeasurementsAreSpaced

LEMMA MeasureTickKeeps ==
  ASSUME MeasureAssumption, MeasureInv, Tick
  PROVE  MeasureInv'
  <1> USE DEF MeasureAssumption, MeasureInv, MeasureTypes
  <1>1. /\ now < MaxTime /\ \A c \in Callers : caller[c] # "claimed"
        /\ flight.at # "none" => now < flight.start + Timeout
        /\ now' = now + 1 /\ UNCHANGED <<backends, attempt, flight, caller, measured, spent>>
    BY DEF Tick
  <1>2. MeasureTypes'
    BY <1>1 DEF None
  <1>3. ClaimsAreSingle'
    BY <1>1 DEF ClaimsAreSingle, Measuring, None, Flights
  <1>4. SpentLiesBack'
    <2>1. /\ Interval \in Nat /\ now \in Nat /\ spent' = spent /\ attempt' = attempt /\ now' = now + 1
          /\ \A s \in spent : s \in Nat
      BY <1>1
    <2> HIDE DEF MeasureAssumption, MeasureInv, MeasureTypes
    <2>2. SpentLiesBack
      BY DEF MeasureInv
    <2> QED
      BY <2>1, <2>2 DEF SpentLiesBack
  <1> QED
    BY <1>1, <1>2, <1>3, <1>4 DEF MeasurementsAreSpaced

\* Measurements that cost something are an interval apart (Engine.MeasureProject,
\* claimMeasureAttempt and releaseMeasureAttempt), for any number of callers that come,
\* join, give up and come again, whether the flights succeed, fail, time out or give their
\* window back.  That a flight's deadline is shorter than the interval is what it needs.
THEOREM MeasurementsStaySpaced ==
  ASSUME MeasureAssumption
  PROVE  MeasureSpec => []MeasurementsAreSpaced
  <1>1. MeasureInit => MeasureInv
    <2> SUFFICES ASSUME MeasureInit PROVE MeasureInv
      OBVIOUS
    <2>1. flight \in Flights /\ flight.at = "none"
      BY DEF MeasureInit, NoFlight, Flights, Steps
    <2>2. now = 0 /\ attempt = None /\ spent = {} /\ backends = FALSE
          /\ caller = [c \in Callers |-> "ready"]
      BY DEF MeasureInit
    <2>3. MeasureTypes
      <3>1. now \in 0 .. MaxTime /\ attempt \in 0 .. None
        BY <2>2 DEF MeasureAssumption, None
      <3>2. caller \in [Callers -> {"ready", "claimed", "waiting", "answered"}]
        BY <2>2
      <3> QED
        BY <2>1, <2>2, <3>1, <3>2 DEF MeasureTypes
    <2>4. ClaimsAreSingle
      <3>1. \A c \in Callers : caller[c] # "claimed"
        BY <2>2
      <3>2. ~Measuring
        BY <2>1 DEF Measuring
      <3> QED
        BY <2>1, <2>2, <3>1, <3>2 DEF ClaimsAreSingle
    <2> QED
      BY <2>2, <2>3, <2>4 DEF MeasureInv, SpentLiesBack, MeasurementsAreSpaced
  <1>2. MeasureInv /\ [MeasureNext]_measureVars => MeasureInv'
    <2> SUFFICES ASSUME MeasureInv, [MeasureNext]_measureVars PROVE MeasureInv'
      OBVIOUS
    <2> USE DEF MeasureInv, MeasureTypes
    <2>1. CASE Query
      <3>1. flight.at = "query" /\ UNCHANGED <<now, backends, attempt, caller, spent>>
        BY <2>1 DEF Query
      <3>2. ASSUME flight' = [flight EXCEPT !.at = "return"]
            PROVE  flight' \in Flights /\ flight'.start = flight.start
        BY <3>2 DEF Flights, Steps
      <3>3. ASSUME NEW a \in Steps, flight' = [flight EXCEPT !.at = a, !.rows = backends]
            PROVE  flight' \in Flights /\ flight'.start = flight.start
        <4> DEFINE f == [flight EXCEPT !.at = a]
        <4>1. f \in Flights /\ f.start = flight.start
          BY DEF Flights
        <4>2. flight' = [f EXCEPT !.rows = backends]
          BY <3>3, Zenon
        <4> HIDE DEF f
        <4> QED
          BY <4>1, <4>2 DEF Flights
      <3>4. flight' \in Flights /\ flight'.start = flight.start
        <4>1. "upsert" \in Steps /\ "release" \in Steps
          BY DEF Steps
        <4> QED
          BY <2>1, <3>2, <3>3, <4>1 DEF Query
      <3> QED
        BY <3>1, <3>4, FlightKeeps DEF Measuring
    <2>2. CASE Upsert
      <3>1. /\ flight' \in Flights /\ flight'.start = flight.start /\ flight.at = "upsert"
            /\ UNCHANGED <<now, backends, attempt, caller, spent>>
        BY <2>2 DEF Upsert, Flights, Steps
      <3> QED
        BY <3>1, FlightKeeps DEF Measuring
    <2>3. CASE FlightReturns
      <3>1. flight' = NoFlight /\ UNCHANGED <<now, backends, attempt, spent>>
        BY <2>3 DEF FlightReturns
      <3>2. flight' \in Flights /\ flight'.at = "none"
        BY <3>1 DEF NoFlight, Flights, Steps
      <3>3. /\ caller' \in [Callers -> {"ready", "claimed", "waiting", "answered"}]
            /\ \A c \in Callers : caller'[c] = "claimed" => caller[c] = "claimed"
        BY <2>3 DEF FlightReturns
      <3> QED
        BY <3>1, <3>2, <3>3, FlightKeeps DEF Measuring
    <2>4. ASSUME NEW c \in Callers, Cancel(c) \/ Again(c) PROVE MeasureInv'
      <3>1. /\ caller' \in [Callers -> {"ready", "claimed", "waiting", "answered"}]
            /\ \A d \in Callers : caller'[d] = "claimed" => caller[d] = "claimed"
            /\ UNCHANGED <<now, backends, attempt, spent, flight>>
        BY <2>4 DEF Cancel, Again
      <3> QED
        BY <3>1, FlightKeeps DEF Measuring
    <2>5. CASE CreateBackend \/ UNCHANGED measureVars
      <3>1. backends' \in BOOLEAN /\ UNCHANGED <<now, attempt, flight, caller, spent>>
        BY <2>5 DEF CreateBackend, measureVars
      <3> QED
        BY <3>1, FlightKeeps DEF Measuring
    <2> QED
      BY <2>1, <2>2, <2>3, <2>4, <2>5, ClaimKeeps, DoChanKeeps, ReleaseKeeps, MeasureTickKeeps
      DEF MeasureNext
  <1>3. MeasureInv => MeasurementsAreSpaced
    BY DEF MeasureInv
  <1> QED
    BY <1>1, <1>2, <1>3, PTL DEF MeasureSpec

-----------------------------------------------------------------------------
(* RetentionPlan: the windows a run judges by, for any configured windows, *)
(* any ceiling and any combination of backends.                            *)

Backends == [in : BOOLEAN, enabled : BOOLEAN, window : Windows \cup {Forever}, quota : BOOLEAN]

\* The plans are those of the configuration as it is: a change of it ends the run they
\* were made for.
PlanInv ==
    /\ cfg \in [Kinds -> Backends]
    /\ plans = << >> \/ plans = [k \in {x \in Kinds : cfg[x].in} |-> PlanFor(k)]

LEMMA MinOfTwo ==
  ASSUME NEW a \in Nat, NEW b \in Nat
  PROVE  Min({a, b}) = IF a <= b THEN a ELSE b
  BY DEF Min

LEMMA MaxOfTwo ==
  ASSUME NEW a \in Nat, NEW b \in Nat
  PROVE  Max({a, b}) = IF a <= b THEN b ELSE a
  BY DEF Max

LEMMA WindowsAreBounded ==
  ASSUME RetentionPlanAssumption, PlanInv, NEW k \in Kinds
  PROVE  /\ EffectiveWindow(k) \in Nat /\ EffectiveWindow(k) <= Forever
         /\ PlanWindow(k) \in Nat /\ PlanWindow(k) <= Forever
         /\ k = "sstate" /\ "hashserv" \in Kinds /\ cfg["hashserv"].in =>
               PlanWindow(k) >= EffectiveWindow("hashserv")
         /\ PlanWindow(k) >= EffectiveWindow(k)
  <1>1. \A x \in Kinds : /\ cfg[x].window \in Nat /\ cfg[x].window <= Forever
    <2> SUFFICES ASSUME NEW x \in Kinds
                 PROVE  cfg[x].window \in Nat /\ cfg[x].window <= Forever
      OBVIOUS
    <2>1. cfg[x].window \in Windows \cup {Forever}
      BY DEF PlanInv, Backends
    <2>2. \A w \in Windows : w \in Nat /\ w <= Forever
      <3> SUFFICES ASSUME NEW w \in Windows PROVE w \in Nat /\ w <= Forever
        OBVIOUS
      <3>1. w \in Nat /\ Forever \in Nat /\ 2 * w < Forever
        BY DEF RetentionPlanAssumption, CasWindowFactor
      <3> QED
        BY <3>1
    <2>3. Forever \in Nat /\ Forever <= Forever
      BY DEF RetentionPlanAssumption
    <2>4. CASE cfg[x].window \in Windows
      BY <2>2, <2>4
    <2>5. CASE cfg[x].window = Forever
      BY <2>3, <2>5
    <2> QED
      BY <2>1, <2>4, <2>5
  <1>2. Ceiling \in Nat /\ Ceiling <= Forever /\ Forever \in Nat
    BY DEF RetentionPlanAssumption, CasWindowFactor
  <1>3. \A x \in Kinds : EffectiveWindow(x) \in Nat /\ EffectiveWindow(x) <= Forever
    <2> SUFFICES ASSUME NEW x \in Kinds
                 PROVE  EffectiveWindow(x) \in Nat /\ EffectiveWindow(x) <= Forever
      OBVIOUS
    <2>1. Min({cfg[x].window, Ceiling}) \in Nat /\ Min({cfg[x].window, Ceiling}) <= Forever
      BY <1>1, <1>2, MinOfTwo
    <2> QED
      BY <1>1, <1>2, <2>1 DEF EffectiveWindow
  <1>4. CASE k = "sstate" /\ "hashserv" \in Kinds /\ cfg["hashserv"].in
    <2>1. PlanWindow(k) = Max({EffectiveWindow("sstate"), EffectiveWindow("hashserv")})
      BY <1>4 DEF PlanWindow
    <2> QED
      BY <1>3, <1>4, <2>1, MaxOfTwo
  <1>5. CASE ~(k = "sstate" /\ "hashserv" \in Kinds /\ cfg["hashserv"].in)
    <2>1. PlanWindow(k) = EffectiveWindow(k)
      BY <1>5 DEF PlanWindow
    <2> QED
      BY <1>3, <1>5, <2>1
  <1> QED
    BY <1>4, <1>5

\* The stages of a plan have its own window, and what is named the doubled one.
LEMMA StageWindows ==
  ASSUME RetentionPlanAssumption, NEW k \in Kinds, NEW w \in Nat
  PROVE  LET st == StagesFor(k, w) IN
         /\ \A i \in DOMAIN st : st[i].window = w \/ (w # Forever /\ st[i].window = 2 * w)
         /\ w = Forever => \A i \in DOMAIN st : st[i].window = Forever
  <1> DEFINE st == StagesFor(k, w)
             named == IF w = Forever THEN Forever ELSE 2 * w
  <1>1. CASE k \in {"sstate", "downloads"}
    <2>1. st = <<[ns |-> "default", window |-> w]>>
      BY <1>1 DEF StagesFor
    <2> QED
      BY <2>1
  <1>2. CASE k = "bazel"
    <2>1. st = <<[ns |-> "ac", window |-> w], [ns |-> "cas", window |-> named]>>
      BY <1>2 DEF StagesFor, CasWindowFactor
    <2> QED
      BY <2>1
  <1>3. CASE k = "oci"
    <2>1. st = <<[ns |-> "tags", window |-> w], [ns |-> "manifests", window |-> named],
                 [ns |-> "blobs", window |-> named]>>
      BY <1>3 DEF StagesFor, CasWindowFactor
    <2> QED
      BY <2>1
  <1>4. CASE k = "hashserv"
    <2>1. st = << >>
      BY <1>4 DEF StagesFor
    <2> QED
      BY <2>1
  <1> QED
    BY <1>1, <1>2, <1>3, <1>4 DEF RetentionPlanAssumption

LEMMA MinIsLeast ==
  ASSUME NEW S \in SUBSET Nat, NEW m \in S, \A x \in S : m <= x
  PROVE  Min(S) = m
  <1> DEFINE P(y) == \A x \in S : y <= x
  <1>1. Min(S) = CHOOSE y \in S : P(y)
    BY Zenon DEF Min
  <1>2. P(m)
    OBVIOUS
  <1>3. \A y \in S : P(y) => y = m
    <2> SUFFICES ASSUME NEW y \in S, P(y) PROVE y = m
      OBVIOUS
    <2>1. y <= m /\ m <= y /\ y \in Nat /\ m \in Nat
      OBVIOUS
    <2> QED
      BY <2>1
  <1> HIDE DEF P
  <1>4. (CHOOSE y \in S : P(y)) \in S /\ P(CHOOSE y \in S : P(y))
    BY <1>2
  <1> QED
    BY <1>1, <1>3, <1>4

\* The shortest window of a plan is no longer than its own, and its own when that is for
\* ever.
LEMMA ShortestWindow ==
  ASSUME RetentionPlanAssumption, NEW k \in Kinds, NEW w \in Nat, w <= Forever,
         k \in DOMAIN plans, plans[k].stages = StagesFor(k, w)
  PROVE  /\ Shortest(k) \in Nat /\ Shortest(k) >= w
         /\ w = Forever => Shortest(k) = Forever
  <1> DEFINE st == StagesFor(k, w)
             S == {plans[k].stages[i].window : i \in DOMAIN plans[k].stages} \cup {Forever}
  <1>1. /\ \A i \in DOMAIN st : st[i].window = w \/ (w # Forever /\ st[i].window = 2 * w)
        /\ w = Forever => \A i \in DOMAIN st : st[i].window = Forever
    BY StageWindows
  <1>2. S = {st[i].window : i \in DOMAIN st} \cup {Forever}
    OBVIOUS
  <1> HIDE DEF st
  <1>3. S \subseteq {w, 2 * w, Forever} /\ Forever \in S /\ Forever \in Nat
    BY <1>1, <1>2 DEF RetentionPlanAssumption
  <1>4. w = Forever => S = {Forever}
    BY <1>1, <1>2
  <1>5. Shortest(k) = Min(S)
    BY DEF Shortest
  <1> HIDE DEF S
  <1>6. CASE w = Forever
    BY <1>3, <1>4, <1>5, <1>6, MinIsLeast
  <1>7. CASE w # Forever
    <2>1. S \subseteq Nat /\ \A x \in S : w <= x
      BY <1>3
    <2>2. \E m \in S : \A x \in S : m <= x
      <3>1. CASE w \in S
        BY <2>1, <3>1
      <3>2. CASE w \notin S /\ 2 * w \in S /\ 2 * w <= Forever
        BY <1>3, <3>2
      <3>3. CASE w \notin S /\ ~(2 * w \in S /\ 2 * w <= Forever)
        BY <1>3, <3>3
      <3> QED
        BY <3>1, <3>2, <3>3
    <2> QED
      BY <1>5, <1>7, <2>1, <2>2, MinIsLeast
  <1> QED
    BY <1>6, <1>7

\* What a run judges by, for every combination of windows, ceilings and flags (buildPlans,
\* effectiveWindow, stagesFor): an sstate object never has a shorter window than the
\* unihash it hangs from, and a policy of for ever deletes nothing, on a disabled archive
\* either.
THEOREM WindowsStayOrdered ==
  ASSUME RetentionPlanAssumption
  PROVE  PlanSpec => []WindowsAreOrdered
  <1>1. PlanInit => PlanInv
    BY DEF PlanInit, PlanInv, NoBackend, Backends
  <1>2. PlanInv /\ [PlanNext]_planVars => PlanInv'
    <2> SUFFICES ASSUME PlanInv, [PlanNext]_planVars PROVE PlanInv'
      OBVIOUS
    <2>1. CASE BuildPlans
      <3>1. cfg' = cfg /\ plans' = [k \in {x \in Kinds : cfg[x].in} |-> PlanFor(k)]
        BY <2>1 DEF BuildPlans
      <3>2. \A k \in Kinds : PlanFor(k)' = PlanFor(k)
        BY <3>1 DEF PlanFor, PlanWindow, EffectiveWindow
      <3> QED
        BY <3>1, <3>2 DEF PlanInv
    <2>2. ASSUME NEW k \in Kinds, Configure(k) PROVE PlanInv'
      BY <2>2 DEF Configure, PlanInv, Backends
    <2>3. ASSUME NEW k \in Kinds, Delete(k) PROVE PlanInv'
      BY <2>3 DEF Delete, PlanInv, Backends, NoBackend
    <2>4. CASE UNCHANGED planVars
      <3>1. cfg' = cfg /\ plans' = plans
        BY <2>4 DEF planVars
      <3>2. \A k \in Kinds : PlanFor(k)' = PlanFor(k)
        BY <3>1 DEF PlanFor, PlanWindow, EffectiveWindow
      <3> QED
        BY <3>1, <3>2 DEF PlanInv
    <2> QED
      BY <2>1, <2>2, <2>3, <2>4 DEF PlanNext
  <1>3. PlanInv => WindowsAreOrdered
    <2> SUFFICES ASSUME PlanInv, NEW k \in DOMAIN plans PROVE
                   /\ k = "sstate" /\ "hashserv" \in DOMAIN plans =>
                         Shortest(k) >= plans["hashserv"].window
                   /\ cfg[k].window = Forever /\ (cfg[k].enabled \/ k = "downloads") =>
                         Shortest(k) = Forever
      BY DEF WindowsAreOrdered, RootsExpireFirst, ForeverIsForever, Planned
    <2>1. plans = [x \in {y \in Kinds : cfg[y].in} |-> PlanFor(x)]
      BY DEF PlanInv
    <2>2. \A x \in DOMAIN plans :
            /\ x \in Kinds /\ cfg[x].in
            /\ plans[x].stages = StagesFor(x, PlanWindow(x)) /\ plans[x].window = PlanWindow(x)
      BY <2>1 DEF PlanFor
    <2>3. PlanWindow(k) \in Nat /\ PlanWindow(k) <= Forever /\ PlanWindow(k) >= EffectiveWindow(k)
          /\ EffectiveWindow(k) \in Nat
      BY <2>2, WindowsAreBounded
    <2>4. Shortest(k) \in Nat /\ Shortest(k) >= PlanWindow(k) /\ (PlanWindow(k) = Forever => Shortest(k) = Forever)
      BY <2>2, <2>3, ShortestWindow
    <2>5. ASSUME k = "sstate", "hashserv" \in DOMAIN plans
          PROVE  Shortest(k) >= plans["hashserv"].window
      <3>1. plans["hashserv"].window = EffectiveWindow("hashserv")
        BY <2>2, <2>5 DEF PlanWindow
      <3>2. PlanWindow(k) >= EffectiveWindow("hashserv") /\ EffectiveWindow("hashserv") \in Nat
        BY <2>2, <2>5, WindowsAreBounded
      <3> QED
        BY <2>3, <2>4, <3>1, <3>2
    <2>6. ASSUME cfg[k].window = Forever, cfg[k].enabled \/ k = "downloads"
          PROVE  Shortest(k) = Forever
      <3>1. EffectiveWindow(k) = Forever
        BY <2>6 DEF EffectiveWindow
      <3> QED
        BY <2>3, <2>4, <3>1 DEF RetentionPlanAssumption
    <2> QED
      BY <2>5, <2>6
  <1> QED
    BY <1>1, <1>2, <1>3, PTL DEF PlanSpec

-----------------------------------------------------------------------------
(* The stages of a sweep *)

Rows == [in : BOOLEAN, created : Nat, accessed : Int, updated : Nat, fresh : BOOLEAN]

\* The run goes through the stages of one kind, in order; it waits for a flush before the
\* first of them and before the objects.
StagesLeft == {<<"ac", "cas">>, <<"cas">>, <<"tags", "manifests", "blobs">>,
               <<"manifests", "blobs">>, <<"blobs">>, <<"unihashes", "objects">>, <<"objects">>}

SweepRuns == [at : {"idle", "flush", "stage", "decide", "veto", "delete"},
              todo : StagesLeft \cup {<< >>}, seen : Rows, start : Nat,
              dead : BOOLEAN, dry : BOOLEAN]

AtStage(k) == run.at # "idle" /\ Head(run.todo) = k

SweepTypeOK ==
    /\ kind \in SweptKinds
    /\ clock \in Nat /\ heldAt \in Nat
    /\ row \in [Namespaces -> Rows]
    /\ marks \subseteq Namespaces /\ aux \subseteq {"cas"}
    /\ touching \in BOOLEAN
    /\ held \subseteq Namespaces /\ late \subseteq Namespaces /\ raced \subseteq Namespaces
    /\ ack \in [Namespaces -> Int]
    /\ run \in SweepRuns
    /\ run.at # "idle" => run.todo \in StagesLeft
    /\ run.at \in {"decide", "veto", "delete"} => Head(run.todo) \notin OneStatement

\* What is on record happened by now, and the build under way is not too old.
TimesInOrder ==
    /\ run.start <= clock
    /\ \A k \in Namespaces : /\ ack[k] <= clock
                             /\ ~row[k].in => row[k] = NoRow
                             /\ row[k].created <= clock /\ row[k].accessed <= clock
                             /\ row[k].fresh => row[k].created >= run.start
                             /\ k \in held => heldAt <= ack[k]
    /\ held # {} => heldAt <= clock /\ clock <= heldAt + BuildTime

\* The row r of namespace k shows a use at t or later: the deciders' rules.
Shows(k, r, t) ==
    IF k = "tags" THEN r.updated >= t
    ELSE LivenessOf(r) >= t \/ (k = "ac" /\ r.created >= t)

\* An answer is on record in the row, up to the staleness, or pending in memory.
AnswersAreRecorded ==
    \A k \in Namespaces : row[k].in => Shows(k, row[k], ack[k] - Staleness) \/ PendingTouch(k)

TagsAreCurrent == "tags" \notin marks /\ (row["tags"].in => row["tags"].updated >= ack["tags"])

\* Behind a run's flush it is in the row, where no mark will be consulted.
FlushedAreRecorded ==
    \A k \in OneStatement :
        /\ run.at \notin {"idle", "flush"} /\ ~run.dry
        /\ Head(run.todo) \in (IF k = "manifests" THEN {"tags", "manifests"} ELSE {"unihashes"})
        /\ row[k].in /\ k \notin late
        => Shows(k, row[k], ack[k] - Staleness)

\* Between a page's scan and its delete the row is as it was scanned, or new to the
\* barrier, or its client was answered after the last look.
PageIsCurrent ==
    \A k \in Namespaces :
        AtStage(k) =>
            /\ run.at \in {"decide", "veto"} =>
                  /\ row[k].in /\ run.seen.in
                  /\ row[k].fresh \/ row[k] = run.seen \/ (k = "tags" /\ k \in late)
            /\ run.at = "veto" /\ k # "objects" => (run.dead <=> Expired(k, run.seen, run.start))
            /\ run.at \in {"veto", "delete"} /\ run.dead => Expired(k, run.seen, run.start)
            /\ run.at = "delete" =>
                  run.dead /\ (\/ k \in late \/ row[k].fresh
                               \/ ack[k] < run.start - WindowOf(k) + Staleness)

\* A root that is gone was not asked for lately, or went while an answer was out; and an
\* object is condemned only when its root is gone.
RootsGoCold ==
    /\ row["unihashes"].in \/ ack["unihashes"] = Never \/ "unihashes" \in raced
       \/ ack["unihashes"] < clock - Window + Staleness
    /\ AtStage("objects") /\ run.at \in {"veto", "delete"} /\ run.dead =>
          "unihashes" \in late \/ ~row["unihashes"].in

ReadsInv ==
    /\ SweepTypeOK /\ TimesInOrder /\ AnswersAreRecorded /\ TagsAreCurrent /\ FlushedAreRecorded
    /\ PageIsCurrent /\ RootsGoCold

\* What a build was told of is there, unless it went while the answer was out.
HeldIsThere == \A k \in held : row[k].in \/ k \in raced

\* An output's record is no older than its entry's, up to a build and the staleness,
\* once the hit's touch is in.
OutputsOutlast ==
    /\ "ac" \in marks => touching \/ "cas" \in aux
    /\ row["ac"].in /\ row["cas"].in =>
          \/ touching \/ PendingTouch("cas")
          \/ /\ LivenessOf(row["cas"]) >= row["ac"].created - BuildTime - Staleness
             /\ LivenessOf(row["cas"]) >= row["ac"].accessed - BuildTime - Staleness

\* An entry that is there when its outputs' stage runs was in use within its window.
EntriesAreWarm ==
    /\ AtStage("cas") /\ ~run.dry /\ row["ac"].in /\ Window > 0 =>
          "ac" \in marks \/ Shows("ac", row["ac"], run.start - Window)
    /\ AtStage("cas") /\ run.at = "delete" /\ ~run.dry =>
          "cas" \in late \/ touching \/ ~row["ac"].in \/ row["cas"].fresh

NamesInv ==
    /\ NamedContentSurvives /\ HeldIsThere /\ OutputsOutlast /\ EntriesAreWarm

-----------------------------------------------------------------------------

\* Heads and tails of the stages left.
LEMMA StageHeads ==
    /\ Head(<<"ac", "cas">>) = "ac" /\ Tail(<<"ac", "cas">>) = <<"cas">>
    /\ Head(<<"cas">>) = "cas" /\ Tail(<<"cas">>) = << >>
    /\ Head(<<"tags", "manifests", "blobs">>) = "tags"
    /\ Tail(<<"tags", "manifests", "blobs">>) = <<"manifests", "blobs">>
    /\ Head(<<"manifests", "blobs">>) = "manifests" /\ Tail(<<"manifests", "blobs">>) = <<"blobs">>
    /\ Head(<<"blobs">>) = "blobs"
    /\ Head(<<"unihashes", "objects">>) = "unihashes"
    /\ Tail(<<"unihashes", "objects">>) = <<"objects">>
    /\ Head(<<"objects">>) = "objects"
  OBVIOUS

\* Which of the stages left is the last.
LEMMA StageLengths ==
    /\ Len(<<"ac", "cas">>) # 1 /\ Len(<<"cas">>) = 1
    /\ Len(<<"tags", "manifests", "blobs">>) # 1
    /\ Len(<<"manifests", "blobs">>) # 1 
    /\ Len(<<"blobs">>) = 1
    /\ Len(<<"unihashes", "objects">>) # 1
    /\ Len(<<"objects">>) = 1
  OBVIOUS

\* What comes after each stage.
After(k) == CASE k = "ac" -> "cas" [] k = "tags" -> "manifests" [] k = "manifests" -> "blobs"
              [] k = "unihashes" -> "objects" [] OTHER -> "none"

\* Ending a stage ends the run, or goes on to the stage after it.
LEMMA NextStageLeft ==
    ASSUME SweepTypeOK, run.at # "idle", NEW k, k = Head(run.todo)
    PROVE  /\ k \in Namespaces
           /\ \/ NextStage(run) = NoRun
              \/ /\ NextStage(run) =
                      [at |-> IF k = "unihashes" THEN "flush" ELSE "stage", todo |-> Tail(run.todo),
                       seen |-> NoRow, start |-> run.start, dead |-> FALSE, dry |-> run.dry]
                 /\ Tail(run.todo) \in StagesLeft /\ After(k) # "none"
                 /\ Head(Tail(run.todo)) = After(k)
<1> USE StageHeads, StageLengths
<1>1. run.todo \in StagesLeft  BY DEF SweepTypeOK
<1>2. run = [at |-> run.at, todo |-> run.todo, seen |-> run.seen, start |-> run.start,
             dead |-> run.dead, dry |-> run.dry]
  BY DEF SweepTypeOK, SweepRuns
<1>3. CASE run.todo \in {<<"cas">>, <<"blobs">>, <<"objects">>}
  BY <1>3 DEF NextStage, Namespaces
<1>4. CASE run.todo \in {<<"ac", "cas">>, <<"tags", "manifests", "blobs">>,
                         <<"manifests", "blobs">>, <<"unihashes", "objects">>}
  <2>1. Len(run.todo) # 1  BY <1>4
  <2>2. NextStage(run) = [at |-> IF k = "unihashes" THEN "flush" ELSE "stage", todo |-> Tail(run.todo),
                          seen |-> NoRow, start |-> run.start, dead |-> FALSE, dry |-> run.dry]
    BY <1>2, <2>1 DEF NextStage
  <2>3. /\ k \in Namespaces /\ Tail(run.todo) \in StagesLeft /\ After(k) # "none"
        /\ Head(Tail(run.todo)) = After(k)
    BY <1>4 DEF Namespaces, StagesLeft, After
  <2> QED  BY <2>2, <2>3
<1> QED  BY <1>1, <1>3, <1>4 DEF StagesLeft

\* Answers of a write that changes nothing leave no record, and a flush in the middle of a
\* page moves one where the page has already looked: the two gaps are left out here.
NoGaps == GcSweepAssumption /\ Reuploads = {} /\ ~FlushDuringPage

\* The constants are natural numbers.
LEMMA SweepConstants ==
    ASSUME NoGaps
    PROVE  Window \in Nat /\ Staleness \in Nat /\ BuildTime \in Nat /\ MaxClock \in Nat
  BY DEF NoGaps, GcSweepAssumption

\* The namespaces the deciders name are namespaces.
LEMMA AllNamed ==
    /\ "ac" \in Namespaces /\ "cas" \in Namespaces /\ "tags" \in Namespaces
    /\ "manifests" \in Namespaces /\ "unihashes" \in Namespaces /\ "objects" \in Namespaces
    /\ OneStatement \subseteq Namespaces
  BY DEF Namespaces, OneStatement

\* The fields of a row.
LEMMA RowFields ==
    ASSUME NEW x \in Rows
    PROVE  /\ x.in \in BOOLEAN /\ x.created \in Nat /\ x.accessed \in Int /\ x.updated \in Nat
           /\ x.fresh \in BOOLEAN /\ LivenessOf(x) \in Nat
  BY DEF Rows, LivenessOf

\* The fields of a run.
LEMMA RunFields ==
    ASSUME NEW x \in SweepRuns
    PROVE  /\ x.seen \in Rows /\ x.start \in Nat /\ x.dead \in BOOLEAN /\ x.dry \in BOOLEAN
           /\ x.at \in {"idle", "flush", "stage", "decide", "veto", "delete"}
  BY DEF SweepRuns

\* A missing row is a row.
LEMMA NoRowTyped == NoRow \in Rows /\ ~NoRow.in /\ ~NoRow.fresh /\ NoRow.created = 0 /\ NoRow.accessed = -1
  BY DEF NoRow, Rows

\* An idle run is a run.
LEMMA NoRunTyped ==
    /\ NoRun \in SweepRuns /\ NoRun.at = "idle" /\ NoRun.start = 0 /\ ~NoRun.dead /\ ~NoRun.dry
  BY NoRowTyped DEF NoRun, SweepRuns

\* A row with another accessed_at, updated_at or verdict of the barrier.
LEMMA AccessedRow ==
    ASSUME NEW x \in Rows, NEW c \in Nat, NEW r, r = [x EXCEPT !.accessed = c]
    PROVE  /\ r \in Rows /\ (r.in <=> x.in) /\ r.created = x.created /\ r.updated = x.updated
           /\ (r.fresh <=> x.fresh) /\ r.accessed = c /\ LivenessOf(r) = c
  BY DEF Rows, LivenessOf

\* A tag that is read has a later updated, and is otherwise as it was.
LEMMA UpdatedRow ==
    ASSUME NEW x \in Rows, NEW c \in Nat, NEW r, r = [x EXCEPT !.updated = c]
    PROVE  /\ r \in Rows /\ (r.in <=> x.in) /\ r.created = x.created /\ r.updated = c
           /\ (r.fresh <=> x.fresh) /\ r.accessed = x.accessed /\ LivenessOf(r) = LivenessOf(x)
  BY DEF Rows, LivenessOf

\* A row that a new run finds is no longer fresh, and is otherwise as it was.
LEMMA AgedRow ==
    ASSUME NEW x \in Rows, NEW r, r = [x EXCEPT !.fresh = FALSE]
    PROVE  /\ r \in Rows /\ (r.in <=> x.in) /\ r.created = x.created /\ r.updated = x.updated
           /\ ~r.fresh /\ r.accessed = x.accessed /\ LivenessOf(r) = LivenessOf(x)
           /\ ~x.fresh => r = x
  BY DEF Rows, LivenessOf

\* The run moves on: to another step of its stage, or to what comes after the stage.
LEMMA SteppedRun ==
    ASSUME NEW x \in SweepRuns, NEW y \in {"stage", "veto", "delete"}, NEW r, r = [x EXCEPT !.at = y]
    PROVE  /\ r \in SweepRuns /\ r.at = y /\ r.todo = x.todo /\ r.seen = x.seen /\ r.start = x.start
           /\ (r.dead <=> x.dead) /\ (r.dry <=> x.dry)
  BY DEF SweepRuns

\* A run starts before its first flush.
LEMMA StartedRun ==
    ASSUME NEW dry \in BOOLEAN, NEW c \in Nat, NEW t \in StagesLeft, NEW r,
           r = [at |-> "flush", todo |-> t, seen |-> NoRow, start |-> c, dead |-> FALSE, dry |-> dry]
    PROVE  r \in SweepRuns /\ r.at = "flush" /\ r.todo = t /\ r.start = c /\ ~r.dead /\ (r.dry <=> dry)
  BY NoRowTyped DEF SweepRuns

\* The stages of a kind are stages left.
LEMMA FirstStage ==
    ASSUME kind \in SweptKinds, GcSweepAssumption
    PROVE  Stages \in StagesLeft /\ Head(Stages) \in {"ac", "tags", "unihashes"}
<1>1. Stages \in {<<"ac", "cas">>, <<"tags", "manifests", "blobs">>, <<"unihashes", "objects">>}
  BY DEF Stages, StagesOf, GcSweepAssumption
<1> QED  BY <1>1, StageHeads DEF StagesLeft

\* Ending a stage keeps a run a run.
LEMMA NextRun ==
    ASSUME SweepTypeOK, run.at # "idle", NEW r, r = NextStage(run)
    PROVE  /\ r \in SweepRuns /\ ~r.dead /\ r.start <= run.start
           /\ \/ r.at = "idle"
              \/ /\ r.at = IF Head(run.todo) = "unihashes" THEN "flush" ELSE "stage"
                 /\ r.todo \in StagesLeft /\ r.start = run.start /\ (r.dry <=> run.dry)
                 /\ Head(r.todo) = After(Head(run.todo)) /\ After(Head(run.todo)) # "none"
<1>1. CASE NextStage(run) = NoRun
  BY <1>1, NoRunTyped, RunFields DEF SweepTypeOK
<1>2. CASE /\ NextStage(run) =
                [at |-> IF Head(run.todo) = "unihashes" THEN "flush" ELSE "stage", todo |-> Tail(run.todo),
                 seen |-> NoRow, start |-> run.start, dead |-> FALSE, dry |-> run.dry]
           /\ Tail(run.todo) \in StagesLeft /\ After(Head(run.todo)) # "none"
           /\ Head(Tail(run.todo)) = After(Head(run.todo))
  <2>1. run.start \in Nat /\ run.dry \in BOOLEAN
    BY RunFields DEF SweepTypeOK
  <2>2. r \in SweepRuns  BY <1>2, <2>1, NoRowTyped DEF SweepRuns
  <2>3. r.start = run.start /\ r.todo = Tail(run.todo)
        /\ r.at = IF Head(run.todo) = "unihashes" THEN "flush" ELSE "stage"
    BY <1>2
  <2>4. ~r.dead /\ (r.dry <=> run.dry)  BY <1>2, <2>1
  <2>5. r.todo \in StagesLeft /\ After(Head(run.todo)) # "none"
        /\ Head(r.todo) = After(Head(run.todo))
    BY <1>2, <2>3
  <2>6. r.start <= run.start  BY <2>1, <2>3
  <2> QED  BY <2>2, <2>3, <2>4, <2>5, <2>6, Zenon
<1> QED  BY <1>1, <1>2, NextStageLeft

\* What the touchers' statement does to a row: nothing but accessed_at, forwards.
LEMMA FlushedRow ==
    ASSUME SweepTypeOK, TimesInOrder, NoGaps, NEW S, NEW d \in {0, Staleness}, NEW k \in Namespaces
    PROVE  LET r == Flushed(S, d)[k] IN
           /\ r \in Rows
           /\ (r.in <=> row[k].in) /\ r.created = row[k].created /\ r.updated = row[k].updated
           /\ (r.fresh <=> row[k].fresh)
           /\ r = row[k] \/ (k \in S /\ PendingTouch(k) /\ row[k].in /\ r.accessed = clock)
           /\ r.accessed <= clock
           /\ \A t \in Int : Shows(k, row[k], t) => Shows(k, r, t)
           /\ k \in S /\ PendingTouch(k) /\ row[k].in => r.accessed >= 0 /\ LivenessOf(r) >= clock - Staleness
<1> DEFINE r == Flushed(S, d)[k]
<1>0. row[k] \in Rows /\ clock \in Nat /\ Staleness \in Nat /\ d \in Nat /\ d <= Staleness
      /\ row[k].created <= clock /\ row[k].accessed <= clock
  BY SweepConstants DEF SweepTypeOK, TimesInOrder
<1>1. r = IF k \in S /\ PendingTouch(k) /\ row[k].in
             /\ (row[k].accessed < 0 \/ row[k].accessed < clock - d)
          THEN [row[k] EXCEPT !.accessed = clock] ELSE row[k]
  BY DEF Flushed
<1>2. CASE r = row[k] /\ ~(k \in S /\ PendingTouch(k) /\ row[k].in
                           /\ (row[k].accessed < 0 \/ row[k].accessed < clock - d))
  <2>1. row[k].accessed >= 0 => LivenessOf(row[k]) = row[k].accessed
    BY DEF LivenessOf
  <2> QED  BY <1>0, <1>2, <2>1, RowFields
<1>3. CASE r = [row[k] EXCEPT !.accessed = clock] /\ k \in S /\ PendingTouch(k) /\ row[k].in
  <2>1. r \in Rows /\ (r.in <=> row[k].in) /\ r.created = row[k].created /\ r.updated = row[k].updated
        /\ (r.fresh <=> row[k].fresh) /\ r.accessed = clock /\ LivenessOf(r) = clock
    BY <1>0, <1>3, AccessedRow
  <2>2. LivenessOf(row[k]) <= clock
    BY <1>0 DEF LivenessOf
  <2>3. \A t \in Int : Shows(k, row[k], t) => Shows(k, r, t)
    BY <1>0, <2>1, <2>2, RowFields DEF Shows
  <2> QED  BY <1>0, <1>3, <2>1, <2>3
<1> QED  BY <1>1, <1>2, <1>3

\* A flush keeps rows rows.
LEMMA FlushedRows ==
    ASSUME SweepTypeOK, TimesInOrder, NoGaps, NEW S, NEW d \in {0, Staleness}
    PROVE  Flushed(S, d) \in [Namespaces -> Rows]
<1>1. Flushed(S, d) = [k \in Namespaces |-> Flushed(S, d)[k]]
  BY DEF Flushed
<1> QED  BY <1>1, FlushedRow

\* Each step keeps the record of reads: one lemma per action.
LEMMA PassKeepsReads ==
    ASSUME ReadsInv, NoGaps, Pass
    PROVE  ReadsInv'
<1> USE SweepConstants, AllNamed, RowFields, RunFields DEF ReadsInv
<1>1. SweepTypeOK'
  BY DEF SweepTypeOK, Pass, build, history
<1>2. TimesInOrder'
  BY <1>1 DEF TimesInOrder, Pass, build, history, SweepTypeOK
<1>3. AnswersAreRecorded'
  BY <1>1 DEF AnswersAreRecorded, PendingTouch, Pass, build, history, SweepTypeOK
<1>4. TagsAreCurrent'
  BY <1>1 DEF TagsAreCurrent, Pass, build, history, SweepTypeOK
<1>5. FlushedAreRecorded'
  BY <1>1 DEF FlushedAreRecorded, Pass, build, history, SweepTypeOK
<1>6. PageIsCurrent'
  BY <1>1 DEF PageIsCurrent, AtStage, Pass, build, history, SweepTypeOK
<1>7. RootsGoCold'
  BY <1>1 DEF RootsGoCold, AtStage, Never, Pass, build, history, SweepTypeOK
<1> QED  BY <1>1, <1>2, <1>3, <1>4, <1>5, <1>6, <1>7

LEMMA TouchOutputsKeepsReads ==
    ASSUME ReadsInv, NoGaps, TouchOutputs
    PROVE  ReadsInv'
<1> USE SweepConstants, AllNamed, RowFields, RunFields DEF ReadsInv
<1>1. SweepTypeOK'
  BY DEF SweepTypeOK, TouchOutputs, Refs
<1>2. TimesInOrder'
  BY <1>1 DEF TimesInOrder, TouchOutputs, Refs, SweepTypeOK
<1>3. AnswersAreRecorded'
  BY <1>1 DEF AnswersAreRecorded, PendingTouch, TouchOutputs, Refs, SweepTypeOK
<1>4. TagsAreCurrent'
  BY <1>1 DEF TagsAreCurrent, TouchOutputs, Refs, SweepTypeOK
<1>5. FlushedAreRecorded'
  BY <1>1 DEF FlushedAreRecorded, TouchOutputs, Refs, SweepTypeOK
<1>6. PageIsCurrent'
  BY <1>1 DEF PageIsCurrent, AtStage, TouchOutputs, Refs, SweepTypeOK
<1>7. RootsGoCold'
  BY <1>1 DEF RootsGoCold, AtStage, Never, TouchOutputs, Refs, SweepTypeOK
<1> QED  BY <1>1, <1>2, <1>3, <1>4, <1>5, <1>6, <1>7

LEMMA EndBuildKeepsReads ==
    ASSUME ReadsInv, NoGaps, EndBuild
    PROVE  ReadsInv'
<1> USE SweepConstants, AllNamed, RowFields, RunFields DEF ReadsInv
<1>1. SweepTypeOK'
  BY DEF SweepTypeOK, EndBuild, history
<1>2. TimesInOrder'
  BY <1>1 DEF TimesInOrder, EndBuild, history, SweepTypeOK
<1>3. AnswersAreRecorded'
  BY <1>1 DEF AnswersAreRecorded, PendingTouch, EndBuild, history, SweepTypeOK
<1>4. TagsAreCurrent'
  BY <1>1 DEF TagsAreCurrent, EndBuild, history, SweepTypeOK
<1>5. FlushedAreRecorded'
  BY <1>1 DEF FlushedAreRecorded, EndBuild, history, SweepTypeOK
<1>6. PageIsCurrent'
  BY <1>1 DEF PageIsCurrent, AtStage, EndBuild, history, SweepTypeOK
<1>7. RootsGoCold'
  BY <1>1 DEF RootsGoCold, AtStage, Never, EndBuild, history, SweepTypeOK
<1> QED  BY <1>1, <1>2, <1>3, <1>4, <1>5, <1>6, <1>7

LEMMA FlushKeepsReads ==
    ASSUME ReadsInv, NoGaps, Flush
    PROVE  ReadsInv'
<1> USE SweepConstants, AllNamed, RowFields, RunFields DEF ReadsInv
<1>p. PICK S \in SUBSET marks, A \in SUBSET aux :
          row' = Flushed(S \cup A, Staleness) /\ marks' = marks \ S /\ aux' = aux \ A
  BY DEF Flush
<1> DEFINE U == S \cup A
<1>r. row' \in [Namespaces -> Rows] /\ row' = Flushed(U, Staleness)
  BY <1>p, FlushedRows
<1> HIDE DEF U
<1>f. \A k \in Namespaces :
           /\ (row'[k].in <=> row[k].in) /\ row'[k].created = row[k].created /\ row'[k].updated = row[k].updated
           /\ (row'[k].fresh <=> row[k].fresh)
           /\ row'[k] = row[k] \/ (PendingTouch(k) /\ row[k].in)
           /\ row'[k].accessed <= clock
           /\ \A t \in Int : Shows(k, row[k], t) => Shows(k, row'[k], t)
           /\ PendingTouch(k) /\ row[k].in /\ k \in U => LivenessOf(row'[k]) >= clock - Staleness
  BY <1>r, FlushedRow
<1>1. SweepTypeOK'
  BY <1>p, <1>r, <1>f DEF SweepTypeOK, Flush, PendingTouch, build, history
<1>2. TimesInOrder'
  BY <1>1, <1>r, <1>f DEF TimesInOrder, Flush, PendingTouch, build, history, SweepTypeOK
<1>3. AnswersAreRecorded'
  <2> SUFFICES ASSUME NEW j \in Namespaces, row'[j].in
               PROVE  Shows(j, row'[j], ack[j] - Staleness) \/ j \in marks' \/ j \in aux'
    BY DEF AnswersAreRecorded, PendingTouch, Flush, history
  <2>1. ack[j] \in Int /\ ack[j] <= clock /\ clock \in Nat /\ row'[j] \in Rows /\ row[j].in
    BY <1>r, <1>f DEF SweepTypeOK, TimesInOrder
  <2>2. CASE PendingTouch(j) /\ j \in U
    <3>1. j # "tags"  BY <2>2 DEF PendingTouch, TagsAreCurrent, SweepTypeOK
    <3>2. LivenessOf(row'[j]) >= clock - Staleness /\ LivenessOf(row'[j]) \in Nat
      BY <1>f, <2>1, <2>2
    <3> QED  BY <2>1, <3>1, <3>2 DEF Shows
  <2>3. CASE PendingTouch(j) /\ j \notin U
    BY <1>p, <2>3 DEF PendingTouch, U
  <2>4. CASE ~PendingTouch(j)
    BY <1>f, <2>1, <2>4 DEF AnswersAreRecorded
  <2> QED  BY <2>2, <2>3, <2>4
<1>4. TagsAreCurrent'
  <2>1. "tags" \notin marks'  BY <1>p DEF TagsAreCurrent
  <2> QED  BY <1>f, <2>1 DEF TagsAreCurrent, Flush, history
<1>5. FlushedAreRecorded'
  <2>1. run' = run /\ late' = late /\ ack' = ack  BY DEF Flush, history
  <2>2. \A k \in OneStatement : k \in Namespaces /\ ack[k] - Staleness \in Int
    BY DEF SweepTypeOK
  <2> QED  BY <1>f, <2>1, <2>2 DEF FlushedAreRecorded
<1>6. PageIsCurrent'
  <2>1. run' = run /\ late' = late /\ ack' = ack /\ run.at \notin {"decide", "veto"}
    BY DEF Flush, NoGaps, history
  <2> QED  BY <1>f, <2>1 DEF PageIsCurrent, AtStage
<1>7. RootsGoCold'
  BY <1>1, <1>r, <1>f DEF RootsGoCold, AtStage, Never, Flush, PendingTouch, build, history, SweepTypeOK
<1> QED  BY <1>1, <1>2, <1>3, <1>4, <1>5, <1>6, <1>7

LEMMA PutKeepsReads ==
    ASSUME ReadsInv, NoGaps, NEW k \in Namespaces, Put(k)
    PROVE  ReadsInv'
<1> USE SweepConstants, AllNamed, RowFields, RunFields DEF ReadsInv
<1>r. /\ row'[k] = [in |-> TRUE, created |-> clock, accessed |-> row[k].accessed,
                    updated |-> IF k = "tags" THEN clock ELSE 0, fresh |-> run.at # "idle"]
      /\ \A j \in Namespaces \ {k} : row'[j] = row[j]
  BY DEF Put, SweepTypeOK
<1>f. /\ row'[k] \in Rows /\ row'[k].in /\ row'[k].created = clock /\ row'[k].accessed = row[k].accessed
      /\ (k = "tags" => row'[k].updated = clock) /\ (row'[k].fresh <=> run.at # "idle")
  <2>1. row[k].accessed \in Int /\ clock \in Nat  BY DEF SweepTypeOK
  <2>2. row'[k] \in Rows  BY <1>r, <2>1 DEF Rows
  <2> QED  BY <1>r, <2>2
<1>1. SweepTypeOK'
  BY <1>r, <1>f DEF SweepTypeOK, Put, Answered
<1>2. TimesInOrder'
  BY <1>1 DEF TimesInOrder, Put, Answered, Refs, SweepTypeOK
<1>3. AnswersAreRecorded'
  <2> SUFFICES ASSUME NEW j \in Namespaces, row'[j].in
               PROVE  Shows(j, row'[j], ack'[j] - Staleness) \/ PendingTouch(j)
    BY DEF AnswersAreRecorded, Put, PendingTouch
  <2>1. CASE j # k
    BY <1>r, <2>1 DEF AnswersAreRecorded, Put, Answered, SweepTypeOK
  <2>2. CASE j = k
    <3>1. ack'[k] = clock  BY DEF Put, Answered, SweepTypeOK
    <3>2. k \notin Overwritable => LivenessOf(row'[k]) = clock
      BY <1>f, NoRowTyped DEF Put, TimesInOrder, LivenessOf
    <3> QED  BY <1>f, <2>2, <3>1, <3>2 DEF Shows, Overwritable, SweepTypeOK
  <2> QED  BY <2>1, <2>2
<1>4. TagsAreCurrent'
  BY <1>1 DEF TagsAreCurrent, Put, Answered, Refs, SweepTypeOK
<1>5. FlushedAreRecorded'
  BY <1>1 DEF FlushedAreRecorded, Put, Answered, Refs, SweepTypeOK
<1>6. PageIsCurrent'
  BY <1>1 DEF PageIsCurrent, AtStage, Put, Answered, Refs, SweepTypeOK
<1>7. RootsGoCold'
  BY <1>1 DEF RootsGoCold, AtStage, Never, Put, Answered, Refs, SweepTypeOK
<1> QED  BY <1>1, <1>2, <1>3, <1>4, <1>5, <1>6, <1>7

LEMMA ReadKeepsReads ==
    ASSUME ReadsInv, NoGaps, NEW k \in Namespaces, Read(k)
    PROVE  ReadsInv'
<1> USE SweepConstants, AllNamed, RowFields, RunFields DEF ReadsInv
<1>r. row' \in [Namespaces -> Rows]
  BY UpdatedRow DEF Read, SweepTypeOK
<1>f. \A j \in Namespaces :
           /\ (row'[j].in <=> row[j].in) /\ row'[j].created = row[j].created /\ row'[j].accessed = row[j].accessed
           /\ (row'[j].fresh <=> row[j].fresh)
           /\ j # "tags" => row'[j] = row[j]
           /\ j = "tags" => row'[j].updated = IF k = "tags" THEN clock ELSE row[j].updated
           /\ row'[j] = row[j] \/ (j = "tags" /\ k = "tags" /\ row[j].in)
  BY UpdatedRow DEF Read, SweepTypeOK
<1>1. SweepTypeOK'
  <2>0. Answered(k) /\ UNCHANGED <<kind, clock, aux, raced, run>>  BY DEF Read
  <2>1. touching' \in BOOLEAN
    <3>1. touching' = (touching \/ k = "ac")  BY DEF Read
    <3>2. (touching \/ k = "ac") \in BOOLEAN  OBVIOUS
    <3> QED  BY <3>1, <3>2
  <2>2. marks' \subseteq Namespaces
    BY DEF Read, SweepTypeOK
  <2> QED  BY <1>r, <2>0, <2>1, <2>2 DEF SweepTypeOK, Answered
<1>2. TimesInOrder'
  BY <1>1, <1>r, <1>f DEF TimesInOrder, Read, Answered, build, SweepTypeOK
<1>3. AnswersAreRecorded'
  <2> SUFFICES ASSUME NEW j \in Namespaces, row'[j].in
               PROVE  Shows(j, row'[j], ack'[j] - Staleness) \/ j \in marks' \/ j \in aux
    BY DEF AnswersAreRecorded, Read, PendingTouch
  <2>1. CASE j # k
    <3>1. row'[j] = row[j] /\ ack'[j] = ack[j] /\ marks \subseteq marks'
      BY <1>f, <2>1 DEF Read, Answered, SweepTypeOK
    <3> QED  BY <3>1 DEF AnswersAreRecorded, PendingTouch
  <2>2. CASE j = k /\ k # "tags"
    BY <2>2 DEF Read
  <2>3. CASE j = k /\ k = "tags"
    <3>1. ack'[k] = clock /\ row'[k].updated = clock
      BY <1>f, <2>3 DEF Read, Answered, SweepTypeOK
    <3> QED  BY <2>3, <3>1 DEF Shows, SweepTypeOK
  <2> QED  BY <2>1, <2>2, <2>3
<1>4. TagsAreCurrent'
  BY <1>1, <1>r, <1>f DEF TagsAreCurrent, Read, Answered, build, SweepTypeOK
<1>5. FlushedAreRecorded'
  BY <1>1, <1>r, <1>f DEF FlushedAreRecorded, Read, Answered, build, SweepTypeOK
<1>6. PageIsCurrent'
  BY <1>1, <1>r, <1>f DEF PageIsCurrent, AtStage, Read, Answered, build, SweepTypeOK
<1>7. RootsGoCold'
  BY <1>1, <1>r, <1>f DEF RootsGoCold, AtStage, Never, Read, Answered, build, SweepTypeOK
<1> QED  BY <1>1, <1>2, <1>3, <1>4, <1>5, <1>6, <1>7

LEMMA StartSweepKeepsReads ==
    ASSUME ReadsInv, NoGaps, NEW dry \in BOOLEAN, StartSweep(dry)
    PROVE  ReadsInv'
<1> USE SweepConstants, AllNamed, RowFields, RunFields DEF ReadsInv
<1>r. row' \in [Namespaces -> Rows]
  BY AgedRow DEF StartSweep, SweepTypeOK
<1>f. \A k \in Namespaces :
           /\ (row'[k].in <=> row[k].in) /\ row'[k].created = row[k].created /\ row'[k].updated = row[k].updated
           /\ row'[k].accessed = row[k].accessed /\ ~row'[k].fresh
           /\ ~row[k].fresh => row'[k] = row[k]
           /\ \A t \in Int : Shows(k, row[k], t) => Shows(k, row'[k], t)
  BY AgedRow DEF StartSweep, SweepTypeOK, Shows
<1>q. /\ run' \in SweepRuns /\ run'.at = "flush" /\ run'.todo \in StagesLeft /\ run'.start = clock
      /\ ~run'.dead /\ Head(run'.todo) \in {"ac", "tags", "unihashes"}
  <2>1. run' = [at |-> "flush", todo |-> Stages, seen |-> NoRow, start |-> clock, dead |-> FALSE,
                dry |-> dry]
    BY DEF StartSweep, NoRun
  <2>2. Stages \in StagesLeft /\ Head(Stages) \in {"ac", "tags", "unihashes"}
    BY FirstStage DEF SweepTypeOK, NoGaps
  <2>3. clock \in Nat  BY DEF SweepTypeOK
  <2> QED  BY <2>1, <2>2, <2>3, StartedRun
<1>1. SweepTypeOK'
  BY <1>r, <1>f, <1>q DEF SweepTypeOK, StartSweep, build, history
<1>2. TimesInOrder'
  <2>1. \A k \in Namespaces : ~row'[k].in => row'[k] = NoRow
    <3> TAKE k \in Namespaces
    <3>1. ~row[k].in => row[k] = NoRow /\ ~row[k].fresh
      BY NoRowTyped DEF TimesInOrder
    <3>2. (row'[k].in <=> row[k].in) /\ (~row[k].fresh => row'[k] = row[k])  BY <1>f
    <3> QED  BY <3>1, <3>2
  <2>2. UNCHANGED <<clock, ack, held, heldAt>>  BY DEF StartSweep, build, history
  <2> QED  BY <1>r, <1>f, <1>q, <2>1, <2>2 DEF TimesInOrder, SweepTypeOK
<1>3. AnswersAreRecorded'
  <2> SUFFICES ASSUME NEW j \in Namespaces, row'[j].in
               PROVE  Shows(j, row'[j], ack[j] - Staleness) \/ PendingTouch(j)
    BY DEF AnswersAreRecorded, StartSweep, PendingTouch, history
  <2>1. ack[j] - Staleness \in Int  BY DEF SweepTypeOK
  <2> QED  BY <1>f, <2>1 DEF AnswersAreRecorded
<1>4. TagsAreCurrent'
  BY <1>1, <1>r, <1>f, <1>q DEF TagsAreCurrent, StartSweep, build, history, SweepTypeOK
<1>5. FlushedAreRecorded'
  BY <1>1, <1>r, <1>f, <1>q DEF FlushedAreRecorded, StartSweep, build, history, SweepTypeOK
<1>6. PageIsCurrent'
  BY <1>1, <1>r, <1>f, <1>q DEF PageIsCurrent, AtStage, StartSweep, build, history, SweepTypeOK
<1>7. RootsGoCold'
  BY <1>1, <1>r, <1>f, <1>q DEF RootsGoCold, AtStage, Never, StartSweep, build, history, SweepTypeOK
<1> QED  BY <1>1, <1>2, <1>3, <1>4, <1>5, <1>6, <1>7

LEMMA FlushMarksKeepsReads ==
    ASSUME ReadsInv, NoGaps, FlushMarks
    PROVE  ReadsInv'
<1> USE SweepConstants, AllNamed, RowFields, RunFields DEF ReadsInv
<1> DEFINE S == IF Head(run.todo) = "unihashes" THEN {"unihashes"} ELSE Namespaces \ {"unihashes"}
<1>r. row' \in [Namespaces -> Rows] /\ row' = IF run.dry THEN row ELSE Flushed(S, 0)
  BY FlushedRows DEF FlushMarks, SweepTypeOK
<1>f. \A k \in Namespaces :
           /\ (row'[k].in <=> row[k].in) /\ row'[k].created = row[k].created /\ row'[k].updated = row[k].updated
           /\ (row'[k].fresh <=> row[k].fresh)
           /\ row'[k] = row[k] \/ (PendingTouch(k) /\ row[k].in)
           /\ row'[k].accessed <= clock
           /\ \A t \in Int : Shows(k, row[k], t) => Shows(k, row'[k], t)
           /\ PendingTouch(k) /\ row[k].in /\ k \in S /\ ~run.dry => LivenessOf(row'[k]) >= clock - Staleness
  <2>1. CASE run.dry  BY <1>r, <2>1 DEF TimesInOrder
  <2>2. CASE ~run.dry  BY <1>r, <2>2, FlushedRow
  <2> QED  BY <2>1, <2>2
<1>q. /\ run' \in SweepRuns /\ run'.at = "stage" /\ run'.todo = run.todo /\ run'.start = run.start
      /\ (run'.dead <=> run.dead) /\ (run'.dry <=> run.dry)
  BY SteppedRun DEF FlushMarks, SweepTypeOK
<1>1. SweepTypeOK'
  BY <1>r, <1>f, <1>q DEF SweepTypeOK, FlushMarks, PendingTouch, build
<1>2. TimesInOrder'
  <2>1. \A k \in Namespaces : ~row'[k].in => row'[k] = NoRow
    BY <1>f DEF TimesInOrder
  <2> HIDE DEF S
  <2> QED  BY <1>1, <1>r, <1>f, <1>q, <2>1 DEF TimesInOrder, FlushMarks, build, SweepTypeOK
<1>m. marks' = (IF run.dry THEN marks ELSE marks \ S) /\ aux' = (IF run.dry THEN aux ELSE aux \ S)
      /\ late' = late \ (S \cap OneStatement) /\ ack' = ack
  BY DEF FlushMarks
<1> HIDE DEF S
<1>3. AnswersAreRecorded'
  <2> SUFFICES ASSUME NEW j \in Namespaces, row'[j].in
               PROVE  Shows(j, row'[j], ack[j] - Staleness) \/ j \in marks' \/ j \in aux'
    BY <1>m DEF AnswersAreRecorded, PendingTouch
  <2>1. ack[j] \in Int /\ ack[j] <= clock /\ clock \in Nat /\ row'[j] \in Rows /\ row[j].in
    BY <1>r, <1>f DEF SweepTypeOK, TimesInOrder
  <2>2. CASE PendingTouch(j) /\ j \in S /\ ~run.dry
    <3>1. j # "tags"  BY <2>2 DEF PendingTouch, TagsAreCurrent, SweepTypeOK
    <3>2. LivenessOf(row'[j]) >= clock - Staleness /\ LivenessOf(row'[j]) \in Nat
      BY <1>f, <2>1, <2>2
    <3> QED  BY <2>1, <3>1, <3>2 DEF Shows
  <2>3. CASE PendingTouch(j) /\ ~(j \in S /\ ~run.dry)
    BY <1>m, <2>3 DEF PendingTouch
  <2>4. CASE ~PendingTouch(j)
    BY <1>f, <2>1, <2>4 DEF AnswersAreRecorded
  <2> QED  BY <2>2, <2>3, <2>4
<1>4. TagsAreCurrent'
  BY <1>1, <1>r, <1>f, <1>q DEF TagsAreCurrent, FlushMarks, PendingTouch, build, SweepTypeOK
<1>5. FlushedAreRecorded'
  <2> SUFFICES ASSUME NEW k \in OneStatement, ~run.dry, row'[k].in,
                      Head(run.todo) \in (IF k = "manifests" THEN {"tags", "manifests"} ELSE {"unihashes"})
               PROVE  Shows(k, row'[k], ack[k] - Staleness)
    BY <1>m, <1>q DEF FlushedAreRecorded
  <2>1. k \in Namespaces /\ row[k].in /\ ack[k] \in Int /\ k # "tags" /\ ack[k] <= clock /\ clock \in Nat
    BY <1>f DEF SweepTypeOK, OneStatement, TimesInOrder
  <2>2. k \in S
    BY DEF S, OneStatement, Namespaces
  <2>3. CASE PendingTouch(k)
    <3>1. LivenessOf(row'[k]) >= clock - Staleness /\ LivenessOf(row'[k]) \in Nat
      BY <1>f, <1>r, <2>1, <2>2, <2>3
    <3> QED  BY <2>1, <3>1 DEF Shows
  <2>4. CASE ~PendingTouch(k)
    <3>1. ack[k] - Staleness \in Int  BY <2>1
    <3> QED  BY <1>f, <2>1, <2>4, <3>1 DEF AnswersAreRecorded
  <2> QED  BY <2>3, <2>4
<1>6. PageIsCurrent'
  BY <1>1, <1>r, <1>f, <1>q DEF PageIsCurrent, AtStage, FlushMarks, PendingTouch, build, SweepTypeOK
<1>7. RootsGoCold'
  BY <1>1, <1>r, <1>f, <1>q DEF RootsGoCold, AtStage, Never, FlushMarks, PendingTouch, build, SweepTypeOK
<1> QED  BY <1>1, <1>2, <1>3, <1>4, <1>5, <1>6, <1>7

LEMMA SweepStatementKeepsReads ==
    ASSUME ReadsInv, NoGaps, SweepStatement
    PROVE  ReadsInv'
<1> USE SweepConstants, AllNamed, RowFields, RunFields DEF ReadsInv
<1> DEFINE h == Head(run.todo)
<1>r. row' \in [Namespaces -> Rows]
  BY NoRowTyped DEF SweepStatement, Erase, SweepTypeOK
<1>f. \A j \in Namespaces : row'[j] = row[j] \/ (j = h /\ row'[j] = NoRow /\ row[j].in /\ ~row[j].fresh /\ ~run.dry /\ Expired(j, row[j], clock) /\ j \in OneStatement)
  BY DEF SweepStatement, Erase, SweepTypeOK
<1>h. Head(run.todo) \in Namespaces /\ run.at # "idle"
  BY NextStageLeft DEF SweepStatement
<1>q. /\ run' \in SweepRuns /\ ~run'.dead /\ run'.start <= run.start
      /\ \/ run'.at = "idle"
         \/ /\ run'.at = IF Head(run.todo) = "unihashes" THEN "flush" ELSE "stage"
            /\ run'.todo \in StagesLeft /\ run'.start = run.start /\ (run'.dry <=> run.dry)
            /\ Head(run'.todo) = After(Head(run.todo)) /\ After(Head(run.todo)) # "none"
  BY <1>h, NextRun DEF SweepStatement
<1>1. SweepTypeOK'
  BY <1>r, <1>f, <1>h, <1>q DEF SweepTypeOK, SweepStatement, Erase, build
<1>2. TimesInOrder'
  <2>1. \A k \in Namespaces : /\ ~row'[k].in => row'[k] = NoRow
                              /\ row'[k].created <= clock /\ row'[k].accessed <= clock
                              /\ row'[k].fresh => row'[k].created >= run'.start
    <3> TAKE k \in Namespaces
    <3>1. CASE row'[k] = NoRow
      BY <3>1, NoRowTyped DEF SweepTypeOK
    <3>2. CASE row'[k] = row[k]
      BY <3>2, <1>q DEF TimesInOrder, SweepTypeOK
    <3> QED  BY <3>1, <3>2, <1>f
  <2> QED  BY <1>1, <1>q, <2>1 DEF TimesInOrder, SweepStatement, build, SweepTypeOK
<1>3. AnswersAreRecorded'
  <2> SUFFICES ASSUME NEW j \in Namespaces, row'[j].in
               PROVE  Shows(j, row'[j], ack[j] - Staleness) \/ j \in marks' \/ j \in aux
    BY DEF AnswersAreRecorded, SweepStatement, PendingTouch
  <2>1. row'[j] = row[j]
    BY <1>f, NoRowTyped
  <2>2. j \in marks => j \in marks'
    BY <2>1, NoRowTyped DEF SweepStatement, Erase, SweepTypeOK
  <2> QED  BY <2>1, <2>2 DEF AnswersAreRecorded, PendingTouch
<1>4. TagsAreCurrent'
  BY <1>f, NoRowTyped DEF TagsAreCurrent, SweepStatement, Erase
<1>5. FlushedAreRecorded'
  <2> SUFFICES ASSUME NEW k \in OneStatement, run'.at \notin {"idle", "flush"}, ~run'.dry,
                      Head(run'.todo) \in (IF k = "manifests" THEN {"tags", "manifests"} ELSE {"unihashes"}),
                      row'[k].in, k \notin late
               PROVE  Shows(k, row'[k], ack[k] - Staleness)
    BY DEF FlushedAreRecorded, SweepStatement
  <2>1. row'[k] = row[k] /\ row[k].in
    BY <1>f, NoRowTyped
  <2>2. Head(run.todo) = "tags" /\ k = "manifests"
    BY <1>q DEF After, OneStatement
  <2> QED  BY <1>q, <2>1, <2>2 DEF FlushedAreRecorded, SweepStatement
<1>6. PageIsCurrent'
  BY <1>1, <1>r, <1>f, <1>h, <1>q DEF PageIsCurrent, AtStage, SweepStatement, Erase, build, SweepTypeOK
<1>7. RootsGoCold'
  <2>1. CASE row'["unihashes"] = row["unihashes"]
    BY <1>q, <2>1 DEF RootsGoCold, AtStage, SweepStatement, Erase
  <2>2. CASE row'["unihashes"] # row["unihashes"]
    <3>1. /\ run.at = "stage" /\ Head(run.todo) = "unihashes" /\ ~run.dry /\ row["unihashes"].in
          /\ Expired("unihashes", row["unihashes"], clock)
      BY <1>f, <2>2 DEF SweepStatement
    <3>2. CASE "unihashes" \in late
      <4>1. "unihashes" \in raced'
        BY <2>2, <3>2 DEF SweepStatement, Erase
      <4> QED  BY <1>q, <4>1 DEF RootsGoCold, AtStage, SweepStatement
    <3>3. CASE "unihashes" \notin late
      <4>1. LivenessOf(row["unihashes"]) >= ack["unihashes"] - Staleness
        BY <3>1, <3>3 DEF FlushedAreRecorded, OneStatement, Shows
      <4>2. LivenessOf(row["unihashes"]) < clock - Window
        BY <3>1 DEF Expired, WindowOf
      <4>3. ack["unihashes"] < clock - Window + Staleness
        BY <4>1, <4>2 DEF SweepTypeOK
      <4> QED  BY <1>q, <4>3 DEF RootsGoCold, AtStage, SweepStatement
    <3> QED  BY <3>2, <3>3
  <2> QED  BY <2>1, <2>2
<1> QED  BY <1>1, <1>2, <1>3, <1>4, <1>5, <1>6, <1>7

LEMMA ScanKeepsReads ==
    ASSUME ReadsInv, NoGaps, Scan
    PROVE  ReadsInv'
<1> USE SweepConstants, AllNamed, RowFields, RunFields DEF ReadsInv
<1>h. Head(run.todo) \in Namespaces /\ run.at # "idle"
  BY NextStageLeft DEF Scan
<1> DEFINE p == row[Head(run.todo)].in /\ ~row[Head(run.todo)].fresh
<1>p. p => /\ run' \in SweepRuns /\ run'.at = "decide" /\ run'.todo = run.todo /\ run'.start = run.start
           /\ run'.seen = row[Head(run.todo)] /\ (run'.dry <=> run.dry)
  <2>1. p => run' = [run EXCEPT !.at = "decide", !.seen = row[Head(run.todo)]]
    BY DEF Scan
  <2>2. run \in SweepRuns /\ row[Head(run.todo)] \in Rows  BY <1>h DEF SweepTypeOK
  <2> QED  BY <2>1, <2>2 DEF SweepRuns
<1>q. ~p => /\ run' \in SweepRuns /\ ~run'.dead /\ run'.start <= run.start
            /\ \/ run'.at = "idle"
               \/ /\ run'.at = IF Head(run.todo) = "unihashes" THEN "flush" ELSE "stage"
                  /\ run'.todo \in StagesLeft /\ run'.start = run.start /\ (run'.dry <=> run.dry)
                  /\ Head(run'.todo) = After(Head(run.todo)) /\ After(Head(run.todo)) # "none"
  BY <1>h, NextRun DEF Scan
<1> HIDE DEF p
<1>1. SweepTypeOK'
  BY <1>h, <1>q, <1>p DEF SweepTypeOK, Scan, build
<1>2. TimesInOrder'
  BY <1>1, <1>h, <1>q, <1>p DEF TimesInOrder, Scan, build, SweepTypeOK
<1>3. AnswersAreRecorded'
  BY <1>1, <1>h, <1>q, <1>p DEF AnswersAreRecorded, PendingTouch, Scan, build, SweepTypeOK
<1>4. TagsAreCurrent'
  BY <1>1, <1>h, <1>q, <1>p DEF TagsAreCurrent, Scan, build, SweepTypeOK
<1>5. FlushedAreRecorded'
  <2> SUFFICES ASSUME NEW k \in OneStatement, run'.at \notin {"idle", "flush"}, ~run'.dry,
                      Head(run'.todo) \in (IF k = "manifests" THEN {"tags", "manifests"} ELSE {"unihashes"}),
                      row[k].in, k \notin late'
               PROVE  Shows(k, row[k], ack[k] - Staleness)
    BY DEF FlushedAreRecorded, Scan
  <2>1. run.at \notin {"idle", "flush"} /\ ~run.dry
    BY <1>q, <1>p DEF Scan
  <2>2. Head(run.todo) \in (IF k = "manifests" THEN {"tags", "manifests"} ELSE {"unihashes"})
    <3>1. CASE run'.todo = run.todo  BY <3>1
    <3>2. CASE Head(run'.todo) = After(Head(run.todo))  BY <3>2 DEF After, OneStatement
    <3> QED  BY <1>p, <1>q, <3>1, <3>2
  <2>3. k \notin late
    BY <2>2 DEF Scan, OneStatement, SweepTypeOK
  <2> QED  BY <2>1, <2>2, <2>3 DEF FlushedAreRecorded
<1>6. PageIsCurrent'
  <2>1. CASE p
    <3> SUFFICES ASSUME NEW k \in Namespaces, AtStage(k)'
                 PROVE  /\ row[k].in /\ run'.seen.in /\ row[k] = run'.seen
      BY <1>p, <2>1 DEF PageIsCurrent, Scan
    <3>1. k = Head(run.todo)  BY <1>p, <2>1 DEF AtStage
    <3> QED  BY <1>p, <2>1, <3>1 DEF p
  <2>2. CASE ~p
    BY <1>q, <2>2 DEF PageIsCurrent
  <2> QED  BY <2>1, <2>2
<1>7. RootsGoCold'
  BY <1>1, <1>h, <1>q, <1>p DEF RootsGoCold, AtStage, Never, Scan, build, SweepTypeOK
<1> QED  BY <1>1, <1>2, <1>3, <1>4, <1>5, <1>6, <1>7

LEMMA DecideKeepsReads ==
    ASSUME ReadsInv, NoGaps, Decide
    PROVE  ReadsInv'
<1> USE SweepConstants, AllNamed, RowFields, RunFields DEF ReadsInv
<1>q. /\ run' \in SweepRuns /\ run'.at = "veto" /\ run'.todo = run.todo /\ run'.start = run.start
      /\ run'.seen = run.seen /\ (run'.dry <=> run.dry)
      /\ run'.dead <=> /\ Expired(Head(run.todo), run.seen, run.start)
                       /\ (Head(run.todo) = "objects" => ~row["unihashes"].in)
  <2> DEFINE d == /\ Expired(Head(run.todo), run.seen, run.start)
                  /\ (Head(run.todo) = "objects" => ~row["unihashes"].in)
  <2>1. d \in BOOLEAN  OBVIOUS
  <2>2. run' = [run EXCEPT !.at = "veto", !.dead = d]  BY DEF Decide
  <2> HIDE DEF d
  <2>3. /\ run' \in SweepRuns /\ run'.at = "veto" /\ run'.todo = run.todo /\ run'.start = run.start
        /\ run'.seen = run.seen /\ (run'.dry <=> run.dry) /\ (run'.dead <=> d)
    <3>1. run \in SweepRuns  BY DEF SweepTypeOK
    <3> QED  BY <2>1, <2>2, <3>1 DEF SweepRuns
  <2> QED  BY <2>3 DEF d
<1>1. SweepTypeOK'
  BY <1>q DEF SweepTypeOK, Decide, build, history
<1>2. TimesInOrder'
  BY <1>1, <1>q DEF TimesInOrder, Decide, build, history, SweepTypeOK
<1>3. AnswersAreRecorded'
  BY <1>1, <1>q DEF AnswersAreRecorded, PendingTouch, Decide, build, history, SweepTypeOK
<1>4. TagsAreCurrent'
  BY <1>1, <1>q DEF TagsAreCurrent, Decide, build, history, SweepTypeOK
<1>5. FlushedAreRecorded'
  BY <1>1, <1>q DEF FlushedAreRecorded, Decide, build, history, SweepTypeOK
<1>6. PageIsCurrent'
  BY <1>1, <1>q DEF PageIsCurrent, AtStage, Decide, build, history, SweepTypeOK
<1>7. RootsGoCold'
  BY <1>1, <1>q DEF RootsGoCold, AtStage, Never, Decide, build, history, SweepTypeOK
<1> QED  BY <1>1, <1>2, <1>3, <1>4, <1>5, <1>6, <1>7

LEMMA VetoKeepsReads ==
    ASSUME ReadsInv, NoGaps, Veto
    PROVE  ReadsInv'
<1> USE SweepConstants, AllNamed, RowFields, RunFields DEF ReadsInv
<1>h. Head(run.todo) \in Namespaces /\ run.at # "idle"
  BY NextStageLeft DEF Veto
<1> DEFINE p == run.dead /\ ~PendingTouch(Head(run.todo))
<1>p. p => /\ run' \in SweepRuns /\ run'.at = "delete" /\ run'.todo = run.todo /\ run'.start = run.start
           /\ run'.seen = run.seen /\ (run'.dead <=> run.dead) /\ (run'.dry <=> run.dry)
  BY <1>h, SteppedRun DEF Veto, SweepTypeOK
<1>q. ~p => /\ run' \in SweepRuns /\ ~run'.dead /\ run'.start <= run.start
            /\ \/ run'.at = "idle"
               \/ /\ run'.at = IF Head(run.todo) = "unihashes" THEN "flush" ELSE "stage"
                  /\ run'.todo \in StagesLeft /\ run'.start = run.start /\ (run'.dry <=> run.dry)
                  /\ Head(run'.todo) = After(Head(run.todo)) /\ After(Head(run.todo)) # "none"
  BY <1>h, NextRun DEF Veto
<1>1. SweepTypeOK'
  BY <1>h, <1>q, <1>p DEF SweepTypeOK, Veto, build
<1>2. TimesInOrder'
  BY <1>1, <1>h, <1>q, <1>p DEF TimesInOrder, Veto, build, SweepTypeOK
<1>3. AnswersAreRecorded'
  BY <1>1, <1>h, <1>q, <1>p DEF AnswersAreRecorded, PendingTouch, Veto, build, SweepTypeOK
<1>4. TagsAreCurrent'
  BY <1>1, <1>h, <1>q, <1>p DEF TagsAreCurrent, Veto, build, SweepTypeOK
<1>5. FlushedAreRecorded'
  <2> SUFFICES ASSUME NEW k \in OneStatement, run'.at \notin {"idle", "flush"}, ~run'.dry,
                      Head(run'.todo) \in (IF k = "manifests" THEN {"tags", "manifests"} ELSE {"unihashes"}),
                      row[k].in, k \notin late'
               PROVE  Shows(k, row[k], ack[k] - Staleness)
    BY DEF FlushedAreRecorded, Veto
  <2>1. run.at \notin {"idle", "flush"} /\ ~run.dry
    BY <1>q, <1>p DEF Veto
  <2>2. Head(run.todo) \in (IF k = "manifests" THEN {"tags", "manifests"} ELSE {"unihashes"})
    <3>1. CASE run'.todo = run.todo  BY <3>1
    <3>2. CASE Head(run'.todo) = After(Head(run.todo))  BY <3>2 DEF After, OneStatement
    <3> QED  BY <1>p, <1>q, <3>1, <3>2
  <2>3. k \notin late
    BY <2>2 DEF Veto, OneStatement, SweepTypeOK
  <2> QED  BY <2>1, <2>2, <2>3 DEF FlushedAreRecorded
<1>6. PageIsCurrent'
  <2>1. CASE p
    <3> SUFFICES ASSUME NEW k \in Namespaces, AtStage(k)'
                 PROVE  /\ Expired(k, run.seen, run.start)
                        /\ k \in late' \/ row[k].fresh \/ ack[k] < run.start - WindowOf(k) + Staleness
      BY <1>p, <2>1 DEF PageIsCurrent, Veto
    <3>1. k = Head(run.todo) /\ AtStage(k) /\ run.at = "veto" /\ run.dead /\ ~PendingTouch(k)
      BY <1>p, <2>1 DEF AtStage, Veto, p
    <3>2. Expired(k, run.seen, run.start) /\ row[k].in
      BY <3>1 DEF PageIsCurrent
    <3>3. CASE row[k] = run.seen
      <4>1. Shows(k, row[k], ack[k] - Staleness)
        BY <3>1, <3>2 DEF AnswersAreRecorded
      <4>2. ~Shows(k, row[k], run.start - WindowOf(k))
        BY <3>2, <3>3, RunFields DEF Expired, Shows, SweepTypeOK, WindowOf, LadderFactor
      <4>3. ack[k] - Staleness < run.start - WindowOf(k)
        BY <4>1, <4>2 DEF Shows, SweepTypeOK, WindowOf, LadderFactor
      <4> QED  BY <3>2, <4>3 DEF SweepTypeOK, WindowOf, LadderFactor
    <3>4. CASE k = "tags" /\ k \in late
      BY <3>1, <3>2, <3>4 DEF Veto
    <3> QED  BY <3>1, <3>2, <3>3, <3>4 DEF PageIsCurrent
  <2>2. CASE ~p
    BY <1>q, <2>2 DEF PageIsCurrent
  <2> QED  BY <2>1, <2>2
<1>7. RootsGoCold'
  BY <1>1, <1>h, <1>q, <1>p DEF RootsGoCold, AtStage, Never, Veto, build, SweepTypeOK
<1> QED  BY <1>1, <1>2, <1>3, <1>4, <1>5, <1>6, <1>7

LEMMA DeleteBatchKeepsReads ==
    ASSUME ReadsInv, NoGaps, DeleteBatch
    PROVE  ReadsInv'
<1> USE SweepConstants, AllNamed, RowFields, RunFields DEF ReadsInv
<1> DEFINE h == Head(run.todo)
<1>r. row' \in [Namespaces -> Rows]
  BY NoRowTyped DEF DeleteBatch, Erase, SweepTypeOK
<1>f. \A j \in Namespaces : row'[j] = row[j] \/ (j = h /\ row'[j] = NoRow /\ row[j].in /\ ~row[j].fresh /\ ~run.dry)
  BY DEF DeleteBatch, Erase, SweepTypeOK
<1>h. Head(run.todo) \in Namespaces /\ run.at # "idle"
  BY NextStageLeft DEF DeleteBatch
<1>q. /\ run' \in SweepRuns /\ ~run'.dead /\ run'.start <= run.start
      /\ \/ run'.at = "idle"
         \/ /\ run'.at = IF Head(run.todo) = "unihashes" THEN "flush" ELSE "stage"
            /\ run'.todo \in StagesLeft /\ run'.start = run.start /\ (run'.dry <=> run.dry)
            /\ Head(run'.todo) = After(Head(run.todo)) /\ After(Head(run.todo)) # "none"
  BY <1>h, NextRun DEF DeleteBatch
<1>1. SweepTypeOK'
  BY <1>r, <1>f, <1>h, <1>q DEF SweepTypeOK, DeleteBatch, Erase, build
<1>2. TimesInOrder'
  <2>1. \A k \in Namespaces : /\ ~row'[k].in => row'[k] = NoRow
                              /\ row'[k].created <= clock /\ row'[k].accessed <= clock
                              /\ row'[k].fresh => row'[k].created >= run'.start
    <3> TAKE k \in Namespaces
    <3>1. CASE row'[k] = NoRow
      BY <3>1, NoRowTyped DEF SweepTypeOK
    <3>2. CASE row'[k] = row[k]
      BY <3>2, <1>q DEF TimesInOrder, SweepTypeOK
    <3> QED  BY <3>1, <3>2, <1>f
  <2> QED  BY <1>1, <1>q, <2>1 DEF TimesInOrder, DeleteBatch, build, SweepTypeOK
<1>3. AnswersAreRecorded'
  <2> SUFFICES ASSUME NEW j \in Namespaces, row'[j].in
               PROVE  Shows(j, row'[j], ack[j] - Staleness) \/ j \in marks' \/ j \in aux
    BY DEF AnswersAreRecorded, DeleteBatch, PendingTouch
  <2>1. row'[j] = row[j]
    BY <1>f, NoRowTyped
  <2>2. j \in marks => j \in marks'
    BY <2>1, NoRowTyped DEF DeleteBatch, Erase, SweepTypeOK
  <2> QED  BY <2>1, <2>2 DEF AnswersAreRecorded, PendingTouch
<1>4. TagsAreCurrent'
  BY <1>f, NoRowTyped DEF TagsAreCurrent, DeleteBatch, Erase
<1>5. FlushedAreRecorded'
  <2> SUFFICES ASSUME NEW k \in OneStatement, run'.at \notin {"idle", "flush"}, ~run'.dry,
                      Head(run'.todo) \in (IF k = "manifests" THEN {"tags", "manifests"} ELSE {"unihashes"}),
                      row'[k].in, k \notin late
               PROVE  Shows(k, row'[k], ack[k] - Staleness)
    BY DEF FlushedAreRecorded, DeleteBatch
  <2>1. row'[k] = row[k] /\ row[k].in
    BY <1>f, NoRowTyped
  <2>2. Head(run.todo) = "tags" /\ k = "manifests"
    BY <1>q DEF After, OneStatement
  <2> QED  BY <1>q, <2>1, <2>2 DEF FlushedAreRecorded, DeleteBatch
<1>6. PageIsCurrent'
  BY <1>1, <1>r, <1>f, <1>h, <1>q DEF PageIsCurrent, AtStage, DeleteBatch, Erase, build, SweepTypeOK
<1>7. RootsGoCold'
  <2>1. row'["unihashes"] = row["unihashes"]
    BY <1>f DEF DeleteBatch, SweepTypeOK, OneStatement
  <2> QED  BY <1>q, <2>1 DEF RootsGoCold, AtStage, DeleteBatch, Erase
<1> QED  BY <1>1, <1>2, <1>3, <1>4, <1>5, <1>6, <1>7

LEMMA SweepFailsKeepsReads ==
    ASSUME ReadsInv, NoGaps, SweepFails
    PROVE  ReadsInv'
<1> USE SweepConstants, AllNamed, RowFields, RunFields DEF ReadsInv
<1>q. /\ run' \in SweepRuns /\ run'.at = "idle" /\ run'.start = 0
  BY NoRunTyped DEF SweepFails
<1>1. SweepTypeOK'
  BY <1>q DEF SweepTypeOK, SweepFails, build, history
<1>2. TimesInOrder'
  BY <1>1, <1>q DEF TimesInOrder, SweepFails, build, history, SweepTypeOK
<1>3. AnswersAreRecorded'
  BY <1>1, <1>q DEF AnswersAreRecorded, PendingTouch, SweepFails, build, history, SweepTypeOK
<1>4. TagsAreCurrent'
  BY <1>1, <1>q DEF TagsAreCurrent, SweepFails, build, history, SweepTypeOK
<1>5. FlushedAreRecorded'
  BY <1>1, <1>q DEF FlushedAreRecorded, SweepFails, build, history, SweepTypeOK
<1>6. PageIsCurrent'
  BY <1>1, <1>q DEF PageIsCurrent, AtStage, SweepFails, build, history, SweepTypeOK
<1>7. RootsGoCold'
  BY <1>1, <1>q DEF RootsGoCold, AtStage, Never, SweepFails, build, history, SweepTypeOK
<1> QED  BY <1>1, <1>2, <1>3, <1>4, <1>5, <1>6, <1>7

\* It holds before the first run.
LEMMA SweepStartsSound ==
    ASSUME NoGaps, SweepInit
    PROVE  ReadsInv
<1> USE SweepConstants, AllNamed, NoRowTyped, NoRunTyped
<1>1. SweepTypeOK
  <2>1. ack \in [Namespaces -> Int]  BY DEF SweepInit, Never
  <2>2. row \in [Namespaces -> Rows]  BY DEF SweepInit
  <2>3. run \in SweepRuns /\ run.at = "idle"  BY DEF SweepInit
  <2> QED  BY <2>1, <2>2, <2>3 DEF SweepTypeOK, SweepInit
<1>2. TimesInOrder
  BY DEF TimesInOrder, SweepInit, Never
<1>3. AnswersAreRecorded /\ TagsAreCurrent /\ FlushedAreRecorded /\ PageIsCurrent /\ RootsGoCold
  BY DEF AnswersAreRecorded, TagsAreCurrent, FlushedAreRecorded, PageIsCurrent, RootsGoCold,
         SweepInit, AtStage
<1> QED  BY <1>1, <1>2, <1>3 DEF ReadsInv

\* Every step keeps it.
LEMMA SweepKeepsReads ==
    ASSUME NoGaps, ReadsInv, [SweepNext]_sweepVars
    PROVE  ReadsInv'
<1>1. CASE UNCHANGED sweepVars
  BY <1>1 DEF sweepVars, ReadsInv, SweepTypeOK, TimesInOrder, AnswersAreRecorded, TagsAreCurrent,
              FlushedAreRecorded, PageIsCurrent, RootsGoCold, AtStage, PendingTouch
<1>2. CASE \E k \in Used \cap {Stages[i] : i \in DOMAIN Stages} : Put(k) \/ PutAgain(k) \/ Read(k)
  <2>1. PICK k \in Namespaces : Put(k) \/ Read(k)
    BY <1>2 DEF PutAgain, NoGaps, GcSweepAssumption
  <2> QED  BY <2>1, PutKeepsReads, ReadKeepsReads
<1>3. CASE \E dry \in DryRuns : StartSweep(dry)
  BY <1>3, StartSweepKeepsReads DEF NoGaps, GcSweepAssumption
<1> QED
  BY <1>1, <1>2, <1>3, PassKeepsReads, TouchOutputsKeepsReads, EndBuildKeepsReads, FlushKeepsReads,
     FlushMarksKeepsReads, SweepStatementKeepsReads, ScanKeepsReads, DecideKeepsReads,
     VetoKeepsReads, DeleteBatchKeepsReads, SweepFailsKeepsReads
  DEF SweepNext

\* A row goes only in a statement that sweeps or in a batch delete.
LEMMA OnlySweepsDelete ==
    ASSUME NoGaps, ReadsInv, SweepNext, NEW k \in Namespaces, Deleted(k)
    PROVE  k = Head(run.todo) /\ ~run.dry /\ ~row[k].fresh
           /\ \/ SweepStatement /\ Expired(k, row[k], clock) /\ k \in OneStatement
              \/ DeleteBatch /\ k \notin OneStatement
<1> USE SweepConstants, AllNamed, RowFields DEF ReadsInv, Deleted
<1>1. CASE Pass \/ TouchOutputs \/ EndBuild \/ Scan \/ Decide \/ Veto \/ SweepFails
  BY <1>1 DEF Pass, TouchOutputs, EndBuild, Scan, Decide, Veto, SweepFails
<1>2. CASE Flush \/ FlushMarks
  <2>1. PICK S, d : d \in {0, Staleness} /\ (row' = row \/ row' = Flushed(S, d))
    <3>1. CASE Flush  BY <3>1 DEF Flush
    <3>2. CASE FlushMarks  BY <3>2 DEF FlushMarks
    <3> QED  BY <1>2, <3>1, <3>2
  <2> QED  BY <2>1, FlushedRow
<1>3. CASE \E j \in Used \cap {Stages[i] : i \in DOMAIN Stages} : Put(j) \/ PutAgain(j) \/ Read(j)
  <2>1. PICK j \in Namespaces : Put(j) \/ Read(j)
    BY <1>3 DEF PutAgain, NoGaps, GcSweepAssumption
  <2>2. CASE Put(j)
    BY <2>2 DEF Put, SweepTypeOK
  <2>3. CASE Read(j)
    BY <2>3, UpdatedRow DEF Read, SweepTypeOK
  <2> QED  BY <2>1, <2>2, <2>3
<1>4. CASE \E dry \in DryRuns : StartSweep(dry)
  BY <1>4, AgedRow DEF StartSweep, SweepTypeOK
<1>5. CASE SweepStatement
  <2>1. row'[k] = row[k]
        \/ (/\ k = Head(run.todo) /\ ~row[k].fresh /\ ~run.dry /\ Expired(k, row[k], clock)
            /\ k \in OneStatement)
    BY <1>5 DEF SweepStatement, Erase, SweepTypeOK
  <2>2. row'[k] # row[k]  OBVIOUS
  <2> QED  BY <1>5, <2>1, <2>2, Zenon
<1>6. CASE DeleteBatch
  BY <1>6 DEF DeleteBatch, Erase, SweepTypeOK
<1> QED  BY <1>1, <1>2, <1>3, <1>4, <1>5, <1>6 DEF SweepNext

\* What a sweep deletes was not answered within its window, unless since the last look.
LEMMA DeletedWasCold ==
    ASSUME NoGaps, ReadsInv, SweepNext, NEW k \in Namespaces, Deleted(k), k \notin late
    PROVE  ack[k] < clock - WindowOf(k) + Staleness /\ Window > 0
<1> USE SweepConstants, AllNamed, RowFields, RunFields DEF ReadsInv
<1>0. /\ ack[k] \in Int /\ clock \in Nat /\ WindowOf(k) \in Nat /\ row[k] \in Rows /\ row[k].in
      /\ run.start <= clock /\ run.start \in Nat
  BY DEF SweepTypeOK, WindowOf, LadderFactor, TimesInOrder, Deleted
<1>1. CASE SweepStatement /\ Expired(k, row[k], clock) /\ k \in OneStatement
  <2>1. run.at = "stage" /\ Head(run.todo) = k /\ ~run.dry
    BY <1>1, OnlySweepsDelete DEF SweepStatement
  <2>2. Shows(k, row[k], ack[k] - Staleness)
    BY <1>0, <1>1, <2>1 DEF FlushedAreRecorded, OneStatement
  <2> QED  BY <1>0, <1>1, <2>2 DEF Shows, Expired, OneStatement
<1>2. CASE DeleteBatch
  <2>1. AtStage(k) /\ run.at = "delete" /\ ~row[k].fresh
    BY <1>2, OnlySweepsDelete DEF DeleteBatch, AtStage
  <2>2. ack[k] < run.start - WindowOf(k) + Staleness /\ run.dead
    BY <2>1 DEF PageIsCurrent
  <2>3. Window > 0  BY <2>1, <2>2 DEF PageIsCurrent, Expired
  <2> QED  BY <1>0, <2>2, <2>3
<1> QED  BY <1>1, <1>2, OnlySweepsDelete

\* A sweep never deletes what was answered within its window, nor an object whose root was
\* asked for, but for an answer that crossed the run's last look: the retention stages of
\* internal/gc/sweep.go with their flushes, scans and vetoes.
THEOREM SweepsSpareTheRead ==
    ASSUME NoGaps
    PROVE  SweepSpec => [][SweepSparesTheRead /\ ReadRootKeepsItsObject]_sweepVars
<1>1. SweepInit => ReadsInv
  BY SweepStartsSound
<1>2. ReadsInv /\ [SweepNext]_sweepVars => ReadsInv'
  BY SweepKeepsReads
<1>3. ReadsInv /\ SweepNext => SweepSparesTheRead
  <2> SUFFICES ASSUME ReadsInv, SweepNext, NEW k \in Namespaces, Deleted(k), Warm(k), k \notin late
               PROVE  FALSE
    BY DEF SweepSparesTheRead
  <2>1. ack[k] < clock - WindowOf(k) + Staleness  BY DeletedWasCold
  <2>2. ack[k] \in Int /\ clock \in Nat /\ WindowOf(k) \in Nat /\ Staleness \in Nat
    BY SweepConstants DEF ReadsInv, SweepTypeOK, WindowOf, LadderFactor
  <2> QED  BY <2>1, <2>2 DEF Warm
<1>4. ReadsInv /\ SweepNext => ReadRootKeepsItsObject
  <2> SUFFICES ASSUME ReadsInv, SweepNext, Deleted("objects"), "unihashes" \notin late \cup raced
               PROVE  ack["unihashes"] < clock - Window + Staleness
    BY DEF ReadRootKeepsItsObject
  <2> USE AllNamed, SweepConstants, RowFields, RunFields DEF ReadsInv
  <2>1. DeleteBatch /\ Head(run.todo) = "objects" /\ ~row["objects"].fresh
    BY OnlySweepsDelete DEF OneStatement
  <2>2. AtStage("objects") /\ run.at = "delete"  BY <2>1 DEF DeleteBatch, AtStage
  <2>3. run.dead /\ Expired("objects", run.seen, run.start)  BY <2>2 DEF PageIsCurrent
  <2>4. ~row["unihashes"].in  BY <2>2, <2>3 DEF RootsGoCold
  <2>5. run.start <= clock /\ clock \in Nat /\ run.start \in Nat /\ ack["unihashes"] \in Int
        /\ LivenessOf(run.seen) \in Nat
    BY DEF SweepTypeOK, TimesInOrder
  <2>6. Never < clock - Window + Staleness
    BY <2>3, <2>5 DEF Expired, WindowOf, Never
  <2> QED  BY <2>4, <2>6 DEF RootsGoCold
<1>5. ReadsInv /\ [SweepNext]_sweepVars => [SweepSparesTheRead /\ ReadRootKeepsItsObject]_sweepVars
  BY <1>3, <1>4
<1> QED  BY <1>1, <1>2, <1>5, PTL DEF SweepSpec

-----------------------------------------------------------------------------
(* What an entry names *)

\* A build and the staleness of a record fit in the window.
WindowFits == NoGaps /\ BuildTime + Staleness <= Window

\* Whatever goes while nobody was told of it since the last look is held by nobody.
LEMMA DeletedIsNotHeld ==
    ASSUME WindowFits, ReadsInv, SweepNext, NEW k \in held, Deleted(k)
    PROVE  k \in late
<1> SUFFICES ASSUME k \notin late PROVE FALSE
  OBVIOUS
<1> USE SweepConstants DEF WindowFits, ReadsInv
<1>1. k \in Namespaces  BY DEF SweepTypeOK
<1>2. ack[k] < clock - WindowOf(k) + Staleness /\ Window > 0  BY <1>1, DeletedWasCold
<1>3. heldAt <= ack[k] /\ clock <= heldAt + BuildTime  BY <1>1 DEF TimesInOrder
<1>4. ack[k] \in Int /\ clock \in Nat /\ heldAt \in Nat /\ WindowOf(k) \in Nat /\ WindowOf(k) >= Window
  BY <1>1 DEF SweepTypeOK, WindowOf, LadderFactor
<1> QED  BY <1>2, <1>3, <1>4

\* What went while an answer was out is on record as such.
LEMMA DeletedIsRaced ==
    ASSUME WindowFits, ReadsInv, SweepNext, NEW k \in Namespaces, Deleted(k),
           k \in late \/ (touching /\ k = "cas")
    PROVE  k \in raced'
<1>1. SweepStatement \/ DeleteBatch
  BY OnlySweepsDelete DEF WindowFits
<1>2. PICK S : Erase(S)
  BY <1>1 DEF SweepStatement, DeleteBatch
<1>3. k \in S
  BY <1>2 DEF Erase, Deleted, ReadsInv, SweepTypeOK
<1> QED  BY <1>2, <1>3 DEF Erase, Refs

\* What a step may do to the history and to what a build holds.
LEMMA HistorySteps ==
    ASSUME WindowFits, ReadsInv, SweepNext, NEW k \in Namespaces
    PROVE  /\ k \in raced => k \in raced' \/ row'[k].in
           /\ k \in held' => k \in held \/ row'[k].in
<1>1. CASE \E j \in Used \cap {Stages[i] : i \in DOMAIN Stages} : Put(j) \/ PutAgain(j) \/ Read(j)
  <2>1. PICK j \in Namespaces : Put(j) \/ Read(j)
    BY <1>1 DEF PutAgain, WindowFits, NoGaps, GcSweepAssumption
  <2>2. CASE Put(j)
    BY <2>2 DEF Put, Answered, ReadsInv, SweepTypeOK
  <2>3. CASE Read(j)
    <3>1. row'[j].in  BY <2>3, UpdatedRow DEF Read, ReadsInv, SweepTypeOK
    <3> QED  BY <2>3, <3>1 DEF Read, Answered
  <2> QED  BY <2>1, <2>2, <2>3
<1>2. CASE \E dry \in DryRuns : StartSweep(dry)
  BY <1>2 DEF StartSweep, build, history
<1>3. CASE Pass \/ TouchOutputs \/ EndBuild \/ Flush \/ FlushMarks \/ Scan \/ Decide \/ Veto \/ SweepFails
  BY <1>3 DEF Pass, TouchOutputs, EndBuild, Flush, FlushMarks, Scan, Decide, Veto, SweepFails, build, history
<1>4. CASE SweepStatement \/ DeleteBatch
  BY <1>4 DEF SweepStatement, DeleteBatch, Erase, build
<1> QED  BY <1>1, <1>2, <1>3, <1>4 DEF SweepNext

\* An entry appears only over what the build that writes it was told of.
LEMMA EntriesAppearOverHeld ==
    ASSUME WindowFits, ReadsInv, SweepNext, NEW k \in Namespaces, row'[k].in, ~row[k].in
    PROVE  Refs(k) \subseteq held /\ \A j \in Namespaces \ {k} : row'[j] = row[j]
<1> USE RowFields DEF ReadsInv
<1>1. CASE \E j \in Used \cap {Stages[i] : i \in DOMAIN Stages} : Put(j) \/ PutAgain(j) \/ Read(j)
  <2>1. PICK j \in Namespaces : Put(j) \/ Read(j)
    BY <1>1 DEF PutAgain, WindowFits, NoGaps, GcSweepAssumption
  <2>2. CASE Put(j)
    BY <2>2 DEF Put, SweepTypeOK
  <2>3. CASE Read(j)
    BY <2>3, UpdatedRow DEF Read, SweepTypeOK
  <2> QED  BY <2>1, <2>2, <2>3
<1>2. CASE \E dry \in DryRuns : StartSweep(dry)
  BY <1>2, AgedRow DEF StartSweep, SweepTypeOK
<1>3. CASE Pass \/ TouchOutputs \/ EndBuild \/ Scan \/ Decide \/ Veto \/ SweepFails
  BY <1>3 DEF Pass, TouchOutputs, EndBuild, Scan, Decide, Veto, SweepFails
<1>4. CASE Flush \/ FlushMarks
  <2>1. PICK S, d : d \in {0, Staleness} /\ (row' = row \/ row' = Flushed(S, d))
    <3>1. CASE Flush  BY <3>1 DEF Flush
    <3>2. CASE FlushMarks  BY <3>2 DEF FlushMarks
    <3> QED  BY <1>4, <3>1, <3>2
  <2> QED  BY <2>1, FlushedRow DEF WindowFits
<1>5. CASE SweepStatement \/ DeleteBatch
  <2>1. PICK S : Erase(S)
    BY <1>5 DEF SweepStatement, DeleteBatch
  <2>2. row'[k] = NoRow \/ row'[k] = row[k]  BY <2>1 DEF Erase, SweepTypeOK
  <2> QED  BY <2>2, NoRowTyped
<1> QED  BY <1>1, <1>2, <1>3, <1>4, <1>5 DEF SweepNext

\* Every step keeps what a build was told of.
LEMMA HeldStaysThere ==
    ASSUME WindowFits, ReadsInv, NamesInv, SweepNext
    PROVE  HeldIsThere'
<1> SUFFICES ASSUME NEW k \in held', ~row'[k].in
             PROVE  k \in raced'
  BY DEF HeldIsThere
<1>1. k \in Namespaces
  BY SweepKeepsReads DEF ReadsInv, SweepTypeOK, WindowFits
<1>2. k \in held  BY <1>1, HistorySteps
<1>3. CASE row[k].in
  <2>1. Deleted(k)  BY <1>3 DEF Deleted
  <2> QED  BY <1>1, <1>2, <2>1, DeletedIsNotHeld, DeletedIsRaced
<1>4. CASE ~row[k].in
  BY <1>1, <1>2, <1>4, HistorySteps DEF NamesInv, HeldIsThere
<1> QED  BY <1>3, <1>4

\* Every step keeps what an entry that stays names.
LEMMA NamedStaysThere ==
    ASSUME WindowFits, ReadsInv, NamesInv, SweepNext
    PROVE  NamedContentSurvives'
<1> USE AllNamed DEF NamesInv, NamedContentSurvives
<1>1. EntryNamesItsOutputs'
  <2> SUFFICES ASSUME row'["ac"].in, ~row'["cas"].in
               PROVE  "cas" \in raced'
    BY DEF EntryNamesItsOutputs
  <2>1. CASE ~row["cas"].in
    <3>1. "cas" \in raced
      <4>1. CASE row["ac"].in  BY <2>1, <4>1 DEF EntryNamesItsOutputs
      <4>2. CASE ~row["ac"].in
        <5>1. "cas" \in held  BY <4>2, EntriesAppearOverHeld DEF Refs
        <5> QED  BY <2>1, <5>1 DEF HeldIsThere
      <4> QED  BY <4>1, <4>2
    <3> QED  BY <3>1, HistorySteps
  <2>2. CASE row["cas"].in
    <3>1. Deleted("cas")  BY <2>2 DEF Deleted
    <3>2. row["ac"].in
      BY <2>2, EntriesAppearOverHeld
    <3>3. DeleteBatch /\ Head(run.todo) = "cas" /\ ~row["cas"].fresh /\ ~run.dry
      BY <3>1, OnlySweepsDelete DEF OneStatement, WindowFits
    <3>4. AtStage("cas") /\ run.at = "delete"  BY <3>3 DEF AtStage, DeleteBatch
    <3>5. "cas" \in late \/ touching  BY <3>2, <3>3, <3>4 DEF EntriesAreWarm
    <3> QED  BY <3>1, <3>5, DeletedIsRaced
  <2> QED  BY <2>1, <2>2
<1>2. TaggedManifestSurvives'
  <2> SUFFICES ASSUME row'["tags"].in, ~row'["manifests"].in
               PROVE  "manifests" \in raced'
    BY DEF TaggedManifestSurvives
  <2>1. CASE ~row["manifests"].in
    <3>1. "manifests" \in raced
      <4>1. CASE row["tags"].in  BY <2>1, <4>1 DEF TaggedManifestSurvives
      <4>2. CASE ~row["tags"].in
        <5>1. "manifests" \in held  BY <4>2, EntriesAppearOverHeld DEF Refs
        <5> QED  BY <2>1, <5>1 DEF HeldIsThere
      <4> QED  BY <4>1, <4>2
    <3> QED  BY <3>1, HistorySteps
  <2>2. CASE row["manifests"].in
    <3>1. Deleted("manifests")  BY <2>2 DEF Deleted
    <3>2. row["tags"].in  BY <2>2, EntriesAppearOverHeld
    <3>3. SweepStatement
      BY <3>1, OnlySweepsDelete DEF OneStatement, WindowFits
    <3> QED  BY <2>2, <3>1, <3>2, <3>3 DEF SweepStatement, Erase, Deleted, ReadsInv, SweepTypeOK
  <2> QED  BY <2>1, <2>2
<1> QED  BY <1>1, <1>2

\* Every step keeps the outputs' record ahead of their entry's.
LEMMA OutputsKeepOutlasting ==
    ASSUME WindowFits, ReadsInv, NamesInv, SweepNext
    PROVE  OutputsOutlast'
<1> USE SweepConstants, AllNamed, RowFields DEF WindowFits, ReadsInv
<1>0. /\ row["ac"] \in Rows /\ row["cas"] \in Rows /\ clock \in Nat
      /\ row["ac"].created <= clock /\ row["ac"].accessed <= clock /\ aux \subseteq {"cas"}
  BY DEF SweepTypeOK, TimesInOrder
<1>1. OutputsOutlast  BY DEF NamesInv
<1>2. CASE Pass \/ TouchOutputs \/ EndBuild \/ Scan \/ Decide \/ Veto \/ SweepFails
  BY <1>1, <1>2
     DEF OutputsOutlast, PendingTouch, Pass, TouchOutputs, EndBuild, Scan, Decide, Veto, SweepFails, Refs, build
<1>3. ASSUME NEW S, NEW A, NEW d \in {0, Staleness}, NEW U, U = S \cup A, row' = Flushed(U, d),
             marks' = marks \ S, aux' = aux \ A, touching' = touching,
             "cas" \in aux /\ "cas" \in A => "ac" \notin marks \ S
      PROVE  OutputsOutlast'
  <2>1. "ac" \in marks' => touching' \/ "cas" \in aux'
    BY <1>1, <1>3 DEF OutputsOutlast
  <2>2. ASSUME row'["ac"].in, row'["cas"].in, ~touching, ~("cas" \in marks' \/ "cas" \in aux')
        PROVE  /\ LivenessOf(row'["cas"]) >= row'["ac"].created - BuildTime - Staleness
               /\ LivenessOf(row'["cas"]) >= row'["ac"].accessed - BuildTime - Staleness
    <3>1. /\ row'["ac"] \in Rows /\ row'["cas"] \in Rows /\ row["ac"].in /\ row["cas"].in
          /\ row'["ac"].created = row["ac"].created /\ row'["ac"].accessed <= clock
          /\ row'["ac"] = row["ac"] \/ ("ac" \in U /\ PendingTouch("ac"))
          /\ row'["cas"] = row["cas"] \/ ("cas" \in U /\ PendingTouch("cas"))
          /\ "cas" \in U /\ PendingTouch("cas") => LivenessOf(row'["cas"]) >= clock - Staleness
      BY <1>3, <2>2, FlushedRow
    <3>2. CASE PendingTouch("cas")
      <4>1. "cas" \in U  BY <1>3, <2>2, <3>2 DEF PendingTouch
      <4> QED  BY <1>0, <3>1, <3>2, <4>1
    <3>3. CASE ~PendingTouch("cas")
      <4>1. ~PendingTouch("ac")
        BY <1>0, <1>1, <2>2, <3>3 DEF PendingTouch, OutputsOutlast
      <4>2. row'["ac"] = row["ac"] /\ row'["cas"] = row["cas"]  BY <3>1, <3>3, <4>1
      <4> QED  BY <1>1, <2>2, <3>1, <3>3, <4>2 DEF OutputsOutlast
    <3> QED  BY <3>2, <3>3
  <2> QED  BY <1>3, <2>1, <2>2 DEF OutputsOutlast, PendingTouch
<1>4. CASE Flush
  <2>1. PICK S \in SUBSET marks, A \in SUBSET aux :
            /\ A # {} => "ac" \notin marks \ S
            /\ row' = Flushed(S \cup A, Staleness) /\ marks' = marks \ S /\ aux' = aux \ A
    BY <1>4 DEF Flush
  <2>2. touching' = touching  BY <1>4 DEF Flush, build
  <2> QED  BY <1>3, <2>1, <2>2
<1>5. CASE FlushMarks
  <2>1. CASE run.dry
    BY <1>1, <1>5, <2>1 DEF FlushMarks, build, OutputsOutlast, PendingTouch
  <2>2. CASE ~run.dry
    <3> DEFINE S == IF Head(run.todo) = "unihashes" THEN {"unihashes"} ELSE Namespaces \ {"unihashes"}
    <3>1. row' = Flushed(S, 0) /\ marks' = marks \ S /\ aux' = aux \ S /\ touching' = touching
      BY <1>5, <2>2 DEF FlushMarks, build
    <3>2. "cas" \in S => "ac" \in S  OBVIOUS
    <3>3. S = S \cup S  OBVIOUS
    <3> HIDE DEF S
    <3> QED  BY <1>3, <3>1, <3>2, <3>3
  <2> QED  BY <2>1, <2>2
<1>6. ASSUME NEW k \in Namespaces, Put(k)
      PROVE  OutputsOutlast'
  <2>1. marks' = marks /\ aux' = aux /\ touching' = touching  BY <1>6 DEF Put
  <2>2. /\ row'[k] = [in |-> TRUE, created |-> clock, accessed |-> row[k].accessed,
                    updated |-> IF k = "tags" THEN clock ELSE 0, fresh |-> run.at # "idle"]
        /\ \A j \in Namespaces \ {k} : row'[j] = row[j]
    BY <1>6 DEF Put, SweepTypeOK
  <2>3. CASE k = "ac"
    <3>1. "cas" \in held  BY <1>6, <2>3 DEF Put, Refs
    <3>2. heldAt <= ack["cas"] /\ clock <= heldAt + BuildTime /\ ack["cas"] \in Int /\ heldAt \in Nat
      BY <3>1 DEF TimesInOrder, SweepTypeOK
    <3>3. row["cas"].in => PendingTouch("cas") \/ LivenessOf(row["cas"]) >= ack["cas"] - Staleness
      BY DEF AnswersAreRecorded, Shows
    <3>4. row'["cas"] = row["cas"] /\ row'["ac"].created = clock /\ row'["ac"].accessed = row["ac"].accessed
      BY <2>2, <2>3
    <3> QED  BY <1>0, <1>1, <2>1, <3>2, <3>3, <3>4 DEF OutputsOutlast, PendingTouch
  <2>4. CASE k = "cas"
    <3>1. row["cas"] = NoRow  BY <1>6, <2>4 DEF Put, Overwritable, TimesInOrder
    <3>2. LivenessOf(row'["cas"]) = clock
      BY <2>2, <2>4, <3>1, NoRowTyped DEF LivenessOf
    <3>3. row'["ac"] = row["ac"]  BY <2>2, <2>4
    <3> QED  BY <1>0, <1>1, <2>1, <3>2, <3>3 DEF OutputsOutlast, PendingTouch
  <2>5. CASE k \notin {"ac", "cas"}
    <3>1. row'["ac"] = row["ac"] /\ row'["cas"] = row["cas"]  BY <2>2, <2>5
    <3> QED  BY <1>1, <2>1, <3>1 DEF OutputsOutlast, PendingTouch
  <2> QED  BY <2>3, <2>4, <2>5
<1>7. ASSUME NEW k \in Namespaces, Read(k)
      PROVE  OutputsOutlast'
  <2>1. aux' = aux /\ marks \subseteq marks' /\ (touching' <=> touching \/ k = "ac") /\ marks' \subseteq marks \cup {k}
    BY <1>7 DEF Read
  <2>2. row'["ac"] = row["ac"] /\ row'["cas"] = row["cas"]
    BY <1>7 DEF Read, SweepTypeOK
  <2> QED  BY <1>1, <2>1, <2>2 DEF OutputsOutlast, PendingTouch
<1>8. ASSUME NEW dry \in BOOLEAN, StartSweep(dry)
      PROVE  OutputsOutlast'
  <2>1. /\ (row'["ac"].in <=> row["ac"].in) /\ (row'["cas"].in <=> row["cas"].in)
        /\ row'["ac"].created = row["ac"].created /\ row'["ac"].accessed = row["ac"].accessed
        /\ LivenessOf(row'["cas"]) = LivenessOf(row["cas"])
    BY <1>8, AgedRow DEF StartSweep, SweepTypeOK
  <2>2. marks' = marks /\ aux' = aux /\ touching' = touching  BY <1>8 DEF StartSweep, build
  <2> QED  BY <1>1, <2>1, <2>2 DEF OutputsOutlast, PendingTouch
<1>9. CASE SweepStatement \/ DeleteBatch
  <2>1. PICK S : Erase(S) /\ aux' = aux /\ touching' = touching
    BY <1>9 DEF SweepStatement, DeleteBatch, build
  <2>2. \A k \in Namespaces : row'[k] = IF k \in S THEN NoRow ELSE row[k]
    BY <2>1 DEF Erase
  <2>3. marks' = marks \ S  BY <2>1 DEF Erase
  <2>4. row'["ac"].in => row'["ac"] = row["ac"]  BY <2>2, NoRowTyped
  <2>5. row'["cas"].in => row'["cas"] = row["cas"] /\ "cas" \notin S  BY <2>2, NoRowTyped
  <2> QED  BY <1>1, <2>1, <2>3, <2>4, <2>5 DEF OutputsOutlast, PendingTouch
<1> QED
  <2>1. CASE \E k \in Used \cap {Stages[i] : i \in DOMAIN Stages} : Put(k) \/ PutAgain(k) \/ Read(k)
    <3>1. PICK j \in Namespaces : Put(j) \/ Read(j)
      BY <2>1 DEF PutAgain, NoGaps, GcSweepAssumption
    <3> QED  BY <3>1, <1>6, <1>7
  <2>2. CASE \E dry \in DryRuns : StartSweep(dry)
    BY <2>2, <1>8 DEF NoGaps, GcSweepAssumption
  <2> QED  BY <1>2, <1>4, <1>5, <1>9, <2>1, <2>2 DEF SweepNext

\* Every step keeps the entries that pass their own stage warm.
LEMMA EntriesStayWarm ==
    ASSUME WindowFits, ReadsInv, NamesInv, SweepNext
    PROVE  EntriesAreWarm'
<1> USE SweepConstants, AllNamed, RowFields, RunFields DEF WindowFits, ReadsInv
<1>0. /\ row["ac"] \in Rows /\ row["cas"] \in Rows /\ clock \in Nat /\ run.start \in Nat /\ run.start <= clock
      /\ row["ac"].created <= clock /\ row["ac"].accessed <= clock /\ aux \subseteq {"cas"}
      /\ row["ac"].fresh => row["ac"].created >= run.start
  BY DEF SweepTypeOK, TimesInOrder
<1>1. EntriesAreWarm  BY DEF NamesInv
<1>2. CASE Pass \/ TouchOutputs \/ EndBuild
  BY <1>1, <1>2 DEF EntriesAreWarm, AtStage, Pass, TouchOutputs, EndBuild, Refs, build, history
<1>3. ASSUME NEW S, NEW U, S \subseteq U, NEW d \in {0, Staleness}, row' = Flushed(U, d), marks' = marks \ S
      PROVE  row'["ac"].in /\ Window > 0 /\ ("ac" \in marks \/ Shows("ac", row["ac"], run.start - Window))
             => "ac" \in marks' \/ Shows("ac", row'["ac"], run.start - Window)
  <2>1. CASE "ac" \in marks /\ "ac" \in S /\ row["ac"].in
    <3>1. LivenessOf(row'["ac"]) >= clock - Staleness /\ LivenessOf(row'["ac"]) \in Nat
      BY <1>3, <2>1, FlushedRow DEF PendingTouch
    <3> QED  BY <1>0, <3>1 DEF Shows
  <2>2. CASE "ac" \in marks /\ "ac" \notin S
    BY <1>3, <2>2
  <2>3. CASE Shows("ac", row["ac"], run.start - Window)
    BY <1>0, <1>3, <2>3, FlushedRow
  <2>4. row'["ac"].in => row["ac"].in  BY <1>3, FlushedRow
  <2> QED  BY <2>1, <2>2, <2>3, <2>4
<1>4. CASE Flush
  <2>1. PICK S, U : S \subseteq U /\ row' = Flushed(U, Staleness) /\ marks' = marks \ S
    BY <1>4 DEF Flush
  <2>3. run' = run /\ late' = late /\ touching' = touching
    BY <1>4 DEF Flush, build, history
  <2>2. (row'["ac"].in <=> row["ac"].in) /\ (row'["cas"].fresh <=> row["cas"].fresh)
    BY <2>1, FlushedRow
  <2> QED  BY <1>1, <1>3, <2>1, <2>2, <2>3 DEF EntriesAreWarm, AtStage
<1>5. CASE FlushMarks
  <2>1. run'.at = "stage" /\ run'.todo = run.todo /\ run'.start = run.start /\ (run'.dry <=> run.dry) /\ run.at # "idle"
    BY <1>5, SteppedRun DEF FlushMarks, SweepTypeOK
  <2>2. CASE run.dry
    BY <2>1, <2>2 DEF EntriesAreWarm
  <2>3. CASE ~run.dry
    <3>1. PICK S : row' = Flushed(S, 0) /\ marks' = marks \ S
      BY <1>5, <2>3 DEF FlushMarks
    <3>2. row'["ac"].in <=> row["ac"].in  BY <3>1, FlushedRow
    <3> QED  BY <1>1, <1>3, <2>1, <3>1, <3>2 DEF EntriesAreWarm, AtStage
  <2> QED  BY <2>2, <2>3
<1>6. ASSUME NEW k \in Namespaces, Put(k)
      PROVE  EntriesAreWarm'
  <2>1. marks' = marks /\ touching' = touching /\ run' = run /\ late' = late \cup {k}
    BY <1>6 DEF Put, Answered
  <2>2. /\ row'[k] = [in |-> TRUE, created |-> clock, accessed |-> row[k].accessed,
                    updated |-> IF k = "tags" THEN clock ELSE 0, fresh |-> run.at # "idle"]
        /\ \A j \in Namespaces \ {k} : row'[j] = row[j]
    BY <1>6 DEF Put, SweepTypeOK
  <2>3. CASE k = "ac"
    <3>1. "cas" \in held  BY <1>6, <2>3 DEF Put, Refs
    <3>2. heldAt <= ack["cas"] /\ clock <= heldAt + BuildTime /\ ack["cas"] \in Int /\ heldAt \in Nat
      BY <3>1 DEF TimesInOrder, SweepTypeOK
    <3>3. row'["cas"] = row["cas"] /\ row'["ac"].created = clock
      BY <2>2, <2>3
    <3>4. AtStage("cas") /\ run.at = "delete" => "cas" \in late \/ row["cas"].fresh
      <4> SUFFICES ASSUME AtStage("cas"), run.at = "delete", ack["cas"] < run.start - WindowOf("cas") + Staleness
                   PROVE  FALSE
        BY DEF PageIsCurrent
      <4>1. Window > 0  BY DEF PageIsCurrent, Expired
      <4> QED  BY <1>0, <3>2, <4>1 DEF WindowOf, LadderFactor
    <3>5. Shows("ac", row'["ac"], run.start - Window)
      BY <1>0, <3>3 DEF Shows
    <3> QED  BY <2>1, <3>3, <3>4, <3>5 DEF EntriesAreWarm, AtStage
  <2>4. CASE k # "ac"
    <3>1. row'["ac"] = row["ac"] /\ (k # "cas" => row'["cas"] = row["cas"])  BY <2>2, <2>4
    <3> QED  BY <1>1, <2>1, <3>1 DEF EntriesAreWarm, AtStage
  <2> QED  BY <2>3, <2>4
<1>7. ASSUME NEW k \in Namespaces, Read(k)
      PROVE  EntriesAreWarm'
  <2>1. run' = run /\ late \subseteq late' /\ marks \subseteq marks' /\ (touching => touching')
        /\ (k = "ac" => touching' /\ "ac" \in marks')
    BY <1>7 DEF Read, Answered
  <2>2. row'["ac"] = row["ac"] /\ row'["cas"] = row["cas"]
    BY <1>7 DEF Read, SweepTypeOK
  <2> QED  BY <1>1, <2>1, <2>2 DEF EntriesAreWarm, AtStage
<1>8. ASSUME NEW dry \in BOOLEAN, StartSweep(dry)
      PROVE  EntriesAreWarm'
  <2>1. run' = [at |-> "flush", todo |-> Stages, seen |-> NoRow, start |-> clock, dead |-> FALSE, dry |-> dry]
    BY <1>8 DEF StartSweep, NoRun
  <2>2. Stages \in StagesLeft /\ Head(Stages) \in {"ac", "tags", "unihashes"}
    BY FirstStage DEF SweepTypeOK, NoGaps
  <2> QED  BY <2>1, <2>2 DEF EntriesAreWarm, AtStage
<1>9. CASE SweepStatement \/ SweepFails
  <2>1. CASE SweepFails
    BY <2>1, NoRunTyped DEF SweepFails, EntriesAreWarm, AtStage
  <2>2. CASE SweepStatement
    <3>1. run' = NextStage(run) /\ run.at # "idle" /\ Head(run.todo) \in OneStatement  BY <2>2 DEF SweepStatement
    <3>2. run'.at = "idle" \/ (Head(run'.todo) = After(Head(run.todo)))  BY <3>1, NextRun
    <3> QED  BY <3>1, <3>2 DEF EntriesAreWarm, AtStage, After, OneStatement
  <2> QED  BY <1>9, <2>1, <2>2
<1>10. ASSUME run' = NextStage(run), run.at # "idle", row'["ac"] = row["ac"] \/ ~row'["ac"].in, "ac" \in marks => "ac" \in marks' \/ ~row'["ac"].in,
              Head(run.todo) = "ac" /\ ~run.dry /\ row'["ac"].in /\ Window > 0 =>
                  "ac" \in marks' \/ Shows("ac", row["ac"], run.start - Window)
       PROVE  EntriesAreWarm'
  <2>1. \/ run'.at = "idle"
        \/ /\ run'.at = IF Head(run.todo) = "unihashes" THEN "flush" ELSE "stage"
           /\ run'.start = run.start /\ (run'.dry <=> run.dry)
           /\ Head(run'.todo) = After(Head(run.todo))
    BY <1>10, NextRun
  <2>2. After(Head(run.todo)) = "cas" => Head(run.todo) = "ac"  BY DEF After
  <2> QED  BY <1>10, <2>1, <2>2 DEF EntriesAreWarm, AtStage
<1>11. CASE Scan
  <2> DEFINE h == Head(run.todo)
  <2>0. h \in Namespaces /\ run.at = "stage" /\ row' = row /\ marks' = marks /\ touching' = touching
    BY <1>11, NextStageLeft DEF Scan, build
  <2>1. CASE row[h].in /\ ~row[h].fresh
    <3>1. run' = [run EXCEPT !.at = "decide", !.seen = row[h]] /\ run \in SweepRuns /\ row[h] \in Rows
      BY <1>11, <2>0, <2>1 DEF Scan, SweepTypeOK
    <3>2. run'.at = "decide" /\ run'.todo = run.todo /\ run'.start = run.start /\ (run'.dry <=> run.dry)
      BY <3>1 DEF SweepRuns
    <3> QED  BY <1>1, <2>0, <3>2 DEF EntriesAreWarm, AtStage
  <2>2. CASE ~(row[h].in /\ ~row[h].fresh)
    <3>1. run' = NextStage(run)  BY <1>11, <2>2 DEF Scan
    <3>2. h = "ac" /\ row["ac"].in => Shows("ac", row["ac"], run.start - Window)
      BY <1>0, <2>2 DEF Shows
    <3> QED  BY <1>10, <2>0, <3>1, <3>2
  <2> QED  BY <2>1, <2>2
<1>12. CASE Decide
  <2>1. run' = [run EXCEPT !.at = "veto", !.dead = run'.dead] /\ run \in SweepRuns /\ run.at = "decide"
    BY <1>12 DEF Decide, SweepTypeOK, SweepRuns
  <2>2. run'.at = "veto" /\ run'.todo = run.todo /\ run'.start = run.start /\ (run'.dry <=> run.dry)
    BY <2>1 DEF SweepRuns
  <2>3. UNCHANGED <<row, marks, touching, late>>  BY <1>12 DEF Decide, build, history
  <2> QED  BY <1>1, <2>1, <2>2, <2>3 DEF EntriesAreWarm, AtStage
<1>13. CASE Veto
  <2> DEFINE h == Head(run.todo)
  <2>0. h \in Namespaces /\ run.at = "veto" /\ row' = row /\ marks' = marks /\ touching' = touching
        /\ late' = late \ ({h} \ {"tags"})
    BY <1>13, NextStageLeft DEF Veto, build
  <2>1. CASE run.dead /\ ~PendingTouch(h)
    <3>1. run' = [run EXCEPT !.at = "delete"] /\ run \in SweepRuns
      BY <1>13, <2>1 DEF Veto, SweepTypeOK
    <3>2. run'.at = "delete" /\ run'.todo = run.todo /\ run'.start = run.start /\ (run'.dry <=> run.dry)
      BY <3>1 DEF SweepRuns
    <3>3. ASSUME h = "cas", ~run.dry, ~touching, row["ac"].in, ~row["cas"].fresh PROVE FALSE
      <4>1. AtStage("cas")  BY <2>0, <3>3 DEF AtStage
      <4>2. row["cas"].in /\ row["cas"] = run.seen /\ Expired("cas", run.seen, run.start)
        BY <2>0, <2>1, <3>3, <4>1 DEF PageIsCurrent
      <4>3. Window > 0 /\ LivenessOf(row["cas"]) < run.start - 2 * Window
        BY <4>2 DEF Expired, WindowOf, LadderFactor
      <4>4. /\ LivenessOf(row["cas"]) >= row["ac"].created - BuildTime - Staleness
            /\ LivenessOf(row["cas"]) >= row["ac"].accessed - BuildTime - Staleness
            /\ "ac" \notin marks
        BY <2>1, <3>3, <4>2 DEF NamesInv, OutputsOutlast, PendingTouch
      <4>5. Shows("ac", row["ac"], run.start - Window)
        BY <1>1, <3>3, <4>1, <4>3, <4>4 DEF EntriesAreWarm
      <4>6. row["ac"].created >= run.start - Window \/ row["ac"].accessed >= run.start - Window
        BY <4>5 DEF Shows, LivenessOf
      <4> QED  BY <1>0, <4>3, <4>4, <4>6
    <3> QED  BY <1>1, <2>0, <3>2, <3>3 DEF EntriesAreWarm, AtStage
  <2>2. CASE ~(run.dead /\ ~PendingTouch(h))
    <3>1. run' = NextStage(run)  BY <1>13, <2>2 DEF Veto
    <3>2. ASSUME h = "ac", row["ac"].in, Window > 0
          PROVE  "ac" \in marks \/ Shows("ac", row["ac"], run.start - Window)
      <4>1. AtStage("ac")  BY <2>0, <3>2 DEF AtStage
      <4>2. CASE PendingTouch("ac")  BY <1>0, <4>2 DEF PendingTouch
      <4>3. CASE ~run.dead
        <5>1. row["ac"].fresh \/ row["ac"] = run.seen  BY <2>0, <4>1 DEF PageIsCurrent
        <5>2. ~Expired("ac", run.seen, run.start)  BY <2>0, <4>1, <4>3 DEF PageIsCurrent
        <5>3. CASE row["ac"].fresh  BY <1>0, <5>3 DEF Shows
        <5>4. CASE row["ac"] = run.seen
          BY <1>0, <3>2, <5>2, <5>4 DEF Shows, Expired, WindowOf
        <5> QED  BY <5>1, <5>3, <5>4
      <4> QED  BY <2>2, <3>2, <4>2, <4>3
    <3> QED  BY <1>10, <2>0, <3>1, <3>2
  <2> QED  BY <2>1, <2>2
<1>14. CASE DeleteBatch
  <2> DEFINE h == Head(run.todo)
  <2>0. h \in Namespaces /\ run.at = "delete" /\ run' = NextStage(run)
    BY <1>14, NextStageLeft DEF DeleteBatch
  <2>1. row'["ac"] = IF h = "ac" /\ row["ac"].in /\ ~row["ac"].fresh /\ ~run.dry THEN NoRow ELSE row["ac"]
    BY <1>14 DEF DeleteBatch, Erase
  <2>2. "ac" \in marks => "ac" \in marks' \/ ~row'["ac"].in
    BY <1>14, <2>1, NoRowTyped DEF DeleteBatch, Erase
  <2>3. h = "ac" /\ ~run.dry /\ row'["ac"].in => Shows("ac", row["ac"], run.start - Window)
    BY <1>0, <2>1, NoRowTyped DEF Shows
  <2> QED  BY <1>10, <2>0, <2>1, <2>2, <2>3, NoRowTyped
<1> QED
  <2>1. CASE \E k \in Used \cap {Stages[i] : i \in DOMAIN Stages} : Put(k) \/ PutAgain(k) \/ Read(k)
    <3>1. PICK j \in Namespaces : Put(j) \/ Read(j)
      BY <2>1 DEF PutAgain, NoGaps, GcSweepAssumption
    <3> QED  BY <3>1, <1>6, <1>7
  <2>2. CASE \E dry \in DryRuns : StartSweep(dry)
    BY <2>2, <1>8 DEF NoGaps, GcSweepAssumption
  <2> QED  BY <1>2, <1>4, <1>5, <1>9, <1>11, <1>12, <1>13, <1>14, <2>1, <2>2 DEF SweepNext

\* What an action result or a tag names is there, unless an answer crossed the sweep's
\* last look: for any windows in which a build and the staleness of a record fit, the
\* ladder of windows, the touch of a hit's outputs and the anti-join on tags suffice.
THEOREM NamedContentAlwaysSurvives ==
    ASSUME WindowFits
    PROVE  SweepSpec => []NamedContentSurvives
<1>1. SweepInit => ReadsInv /\ NamesInv
  <2> SUFFICES ASSUME SweepInit PROVE NamesInv
    BY SweepStartsSound DEF WindowFits
  <2>1. run.at = "idle" /\ held = {} /\ marks = {} /\ ~row["ac"].in /\ ~row["tags"].in
    BY AllNamed, NoRowTyped, NoRunTyped DEF SweepInit
  <2> QED
    BY <2>1 DEF NamesInv, NamedContentSurvives, EntryNamesItsOutputs, TaggedManifestSurvives, HeldIsThere,
                OutputsOutlast, EntriesAreWarm, AtStage
<1>2. ReadsInv /\ NamesInv /\ [SweepNext]_sweepVars => ReadsInv' /\ NamesInv'
  <2> SUFFICES ASSUME ReadsInv, NamesInv, [SweepNext]_sweepVars PROVE ReadsInv' /\ NamesInv'
    OBVIOUS
  <2>1. ReadsInv'  BY SweepKeepsReads DEF WindowFits
  <2>2. CASE SweepNext
    BY <2>1, <2>2, NamedStaysThere, HeldStaysThere, OutputsKeepOutlasting, EntriesStayWarm DEF NamesInv
  <2>3. CASE UNCHANGED sweepVars
    BY <2>1, <2>3 DEF sweepVars, NamesInv, NamedContentSurvives, EntryNamesItsOutputs, TaggedManifestSurvives,
                HeldIsThere, OutputsOutlast, EntriesAreWarm, AtStage, PendingTouch
  <2> QED  BY <2>2, <2>3
<1>3. NamesInv => NamedContentSurvives  BY DEF NamesInv
<1> QED  BY <1>1, <1>2, <1>3, PTL DEF SweepSpec

-----------------------------------------------------------------------------
(* Teardown: rows go only under a mark.  The invariant says whose rows a run works on:   *)
(* those of backends that are marked, gone, or under a project that is no longer live.   *)

\* A run is a record, whatever its cursor and its counters hold.
StageShape(r) ==
    r = [at |-> r.at, todo |-> r.todo, now |-> r.now, pages |-> r.pages, after |-> r.after,
         page |-> r.page, done |-> r.done, failed |-> r.failed]

BackendRows == [project : Projects \cup {0}, kind : BackendKinds \cup {""},
                st : {"none", "live", "deleting"}, enabled : BOOLEAN]

AdminCalls == [at : {"idle", "create", "update", "probe", "delete", "mark"}, project : Projects \cup {0},
         backend : Ids \cup {0}, kind : BackendKinds \cup {""}]

TeardownTypes ==
    /\ project \in [Projects -> {"none", "live", "deleting", "gone"}]
    /\ backend \in [Ids -> BackendRows]
    /\ objects \in [Ids -> [ObjectKeys -> {"none", "old", "fresh"}]]
    /\ hashes \in [Ids -> SUBSET {"unihashes", "outhashes"}]
    /\ call \in [Admins -> AdminCalls]
    /\ StageShape(stage) /\ stage.todo \subseteq Ids

\* Referential integrity: what a backend holds is under its row, and its row under a project's.
RowsUnderRows ==
    \A b \in Ids : /\ Exists(b) => /\ backend[b].project \in Projects
                                   /\ project[backend[b].project] \in {"live", "deleting"}
                   /\ Holds(b) => Exists(b)

\* A request that has read a backend's row names an id that was given out.
RequestsNameRows ==
    \A a \in Admins :
        /\ call[a].at = "create" => call[a].project \in Projects
        /\ call[a].at \in {"update", "probe", "delete", "mark"} =>
              call[a].backend \in Ids /\ backend[call[a].backend].project # 0

\* Somebody has asked for the backend, or its project, to be deleted; or it is gone, and
\* then its id is not given out again.
Doomed(b) ==
    \/ Marked(b)
    \/ ~Exists(b) /\ backend[b].project # 0
    \/ Exists(b) /\ project[backend[b].project] # "live"

Working == stage.at \in {"scan", "delete", "unihashes", "outhashes", "drop"}

WorkIsDoomed ==
    /\ \A b \in stage.todo : Doomed(b)
    /\ Working => stage.now \in Ids /\ Doomed(stage.now)

\* Without an org admin nothing is ever marked, and a run finds no work.
NobodyMarks ==
    OrgAdmins = {} =>
        /\ \A p \in Projects : project[p] \in {"none", "live"}
        /\ \A b \in Ids : ~Marked(b)
        /\ stage.todo = {} /\ ~Working

TeardownInv ==
    TeardownTypes /\ RowsUnderRows /\ RequestsNameRows /\ WorkIsDoomed /\ NobodyMarks

-----------------------------------------------------------------------------

\* What any step may do to a backend's row and to a project's: a mark is not taken back, an
\* id is not reused, and a project that is going does not come back.
RowsMoveOn ==
    /\ \A b \in Ids : backend[b].project # 0 =>
          /\ backend'[b].project = backend[b].project
          /\ Marked(b) => backend'[b].st \in {"deleting", "none"}
          /\ ~Exists(b) => backend'[b].st = "none"
    /\ \A p \in Projects : project[p] \in {"deleting", "gone"} => project'[p] \in {"deleting", "gone"}

\* A doom is for ever.
LEMMA DoomIsForEver ==
    ASSUME TeardownTypes, RowsUnderRows, RowsMoveOn, NEW b \in Ids, Doomed(b)
    PROVE  Doomed(b)'
<1>1. backend[b].project # 0
  BY DEF Doomed, Marked, Exists, RowsUnderRows, Projects
<1>2. CASE Marked(b)
  BY <1>1, <1>2 DEF RowsMoveOn, Doomed, Marked, Exists
<1>3. CASE ~Exists(b)
  BY <1>1, <1>3 DEF RowsMoveOn, Doomed, Marked, Exists
<1>4. CASE Exists(b) /\ project[backend[b].project] # "live"
  <2>1. backend[b].project \in Projects /\ project[backend[b].project] = "deleting"
    BY <1>4 DEF RowsUnderRows
  <2>2. project'[backend'[b].project] # "live" /\ backend'[b].project # 0
    BY <1>1, <2>1 DEF RowsMoveOn
  <2> QED  BY <2>2 DEF Doomed, Exists
<1> QED  BY <1>2, <1>3, <1>4 DEF Doomed

\* The least of a set of naturals is one of them.
LEMMA LeastIsIn ==
    ASSUME NEW S \in SUBSET Nat, S # {}
    PROVE  Min(S) \in S
<1> DEFINE R == OpToRel(<, Nat)
<1> HIDE DEF R
<1>1. IsWellFoundedOn(R, Nat)  BY NatLessThanWellFounded DEF R
<1>2. PICK x \in S : \A y \in S : <<y, x>> \notin R  BY <1>1, WFMin
<1>3. \A y \in S : ~(y < x)  BY <1>2 DEF R, OpToRel
<1>4. \A y \in S : x <= y  BY <1>3
<1> QED  BY <1>4 DEF Min

\* The next backend of the worklist is one of it.
LEMMA NextOfTheList ==
    ASSUME NEW r, StageShape(r), r.todo \subseteq Ids, NEW s, s = NextBackend(r)
    PROVE  /\ StageShape(s) /\ s.todo \subseteq r.todo
           /\ \/ s.at = "projects" /\ r.todo = {}
              \/ s.at = "scan" /\ s.now \in r.todo
<1>1. CASE r.todo = {}
  <2>1. s = [at |-> "projects", todo |-> r.todo, now |-> 0, pages |-> r.pages, after |-> r.after,
             page |-> r.page, done |-> r.done, failed |-> r.failed]
    BY <1>1 DEF NextBackend, StageShape
  <2> QED  BY <1>1, <2>1 DEF StageShape
<1>2. CASE r.todo # {}
  <2>1. Min(r.todo) \in r.todo
    BY <1>2, LeastIsIn DEF Ids
  <2>2. s = [at |-> "scan", todo |-> r.todo \ {Min(r.todo)}, now |-> Min(r.todo), pages |-> 0, after |-> 0,
             page |-> {}, done |-> TRUE, failed |-> r.failed]
    BY <1>2 DEF NextBackend, StageShape
  <2> QED  BY <2>1, <2>2 DEF StageShape
<1> QED  BY <1>1, <1>2

\* A step that leaves the tables and the run alone keeps everything but what it does to the
\* requests.
LEMMA RequestsKeep ==
    ASSUME TeardownInv, UNCHANGED <<project, backend, objects, hashes, stage>>,
           call' \in [Admins -> AdminCalls], RequestsNameRows'
    PROVE  TeardownInv'
<1>1. TeardownTypes' /\ RowsUnderRows'
  BY DEF TeardownInv, TeardownTypes, RowsUnderRows, Exists, Holds
<1>2. WorkIsDoomed' /\ NobodyMarks'
  BY DEF TeardownInv, WorkIsDoomed, NobodyMarks, Working, Doomed, Marked, Exists
<1> QED  BY <1>1, <1>2 DEF TeardownInv

\* What the run goes on to work on is doomed already; without an org admin it is nothing.
Onward ==
    /\ StageShape(stage') /\ stage'.todo \subseteq Ids
    /\ \A b \in stage'.todo : Doomed(b)
    /\ Working' => stage'.now \in Ids /\ Doomed(stage'.now)
    /\ OrgAdmins = {} => stage'.todo = {} /\ ~Working'

LEMMA WaitingIsOnward ==
    ASSUME TeardownInv, stage' = stage
    PROVE  Onward
BY DEF Onward, TeardownInv, TeardownTypes, WorkIsDoomed, NobodyMarks, Working

\* When rows move on, so does the doom of what the run works on.
LEMMA OnwardKeeps ==
    ASSUME TeardownInv, RowsMoveOn, Onward
    PROVE  WorkIsDoomed'
<1>1. \A b \in Ids : Doomed(b) => Doomed(b)'
  BY DoomIsForEver DEF TeardownInv
<1>2. \A b \in stage'.todo : Doomed(b)'
  BY <1>1 DEF Onward
<1>3. Working' => stage'.now \in Ids /\ Doomed(stage.now)'
  BY <1>1 DEF Onward
<1> QED  BY <1>2, <1>3 DEF WorkIsDoomed

\* A step that moves rows on, and leaves the run alone, keeps the worklist doomed.
LEMMA RowsKeepTheWork ==
    ASSUME TeardownInv, RowsMoveOn, stage' = stage
    PROVE  WorkIsDoomed'
BY WaitingIsOnward, OnwardKeeps

\* A request that begins names a live project, or the row of a backend it has read.
LEMMA BeginKeeps ==
    ASSUME TeardownInv, NEW a \in Admins, NEW p \in Projects, NEW k \in BackendKinds,
           BeginCreate(a, p, k) \/ BeginUpdate(a, p, k) \/ BeginDelete(a, p, k)
    PROVE  TeardownInv'
<1> USE DEF TeardownInv
<1>1. UNCHANGED <<project, backend, objects, hashes, stage>>
  BY DEF BeginCreate, BeginUpdate, BeginDelete, data
<1>2. PICK r : /\ call' = [call EXCEPT ![a] = r] /\ r \in AdminCalls
               /\ r.at = "create" => r.project \in Projects
               /\ r.at \in {"update", "probe", "delete", "mark"} =>
                     r.backend \in Ids /\ backend[r.backend].project # 0
  <2>1. CASE BeginCreate(a, p, k)
    <3>1. PICK r : r = [NoAdminCall EXCEPT !.at = "create", !.project = p, !.kind = k]
      OBVIOUS
    <3>2. call' = [call EXCEPT ![a] = r]
      BY <2>1, <3>1 DEF BeginCreate, BeginCall
    <3>3. r \in AdminCalls /\ r.at = "create" /\ r.project \in Projects
      BY <3>1 DEF NoAdminCall, AdminCalls
    <3> QED  BY <3>2, <3>3
  <2>2. ASSUME NEW b \in BackendOf(p, k), NEW at \in {"update", "probe"},
               BeginCall(a, [NoAdminCall EXCEPT !.at = at, !.backend = b])
        PROVE  \E r : /\ call' = [call EXCEPT ![a] = r] /\ r \in AdminCalls
                      /\ r.at = "create" => r.project \in Projects
                      /\ r.at \in {"update", "probe", "delete", "mark"} =>
                            r.backend \in Ids /\ backend[r.backend].project # 0
    <3>1. PICK r : r = [NoAdminCall EXCEPT !.at = at, !.backend = b]
      OBVIOUS
    <3>2. call' = [call EXCEPT ![a] = r]
      BY <2>2, <3>1 DEF BeginCall
    <3>3. b \in Ids /\ backend[b].project # 0
      BY <2>2 DEF BackendOf, Projects
    <3>4. r \in AdminCalls /\ r.at = at /\ r.backend = b
      BY <2>2, <3>1, <3>3 DEF NoAdminCall, AdminCalls
    <3> QED  BY <2>2, <3>2, <3>3, <3>4
  <2>3. CASE BeginUpdate(a, p, k)  BY <2>2, <2>3 DEF BeginUpdate
  <2>4. CASE BeginDelete(a, p, k)  BY <2>2, <2>4 DEF BeginDelete
  <2> QED  BY <2>1, <2>3, <2>4
<1>3. call' \in [Admins -> AdminCalls]
  BY <1>2 DEF TeardownTypes
<1>4. RequestsNameRows'
  BY <1>1, <1>2 DEF RequestsNameRows, TeardownTypes
<1> QED  BY <1>1, <1>3, <1>4, RequestsKeep

\* deleteEmptyBackend's probe keeps the row it named.
LEMMA ProbeKeeps ==
    ASSUME TeardownInv, NEW a \in Admins, BackendHasObjects(a)
    PROVE  TeardownInv'
<1> USE DEF TeardownInv
<1>1. UNCHANGED <<project, backend, objects, hashes, stage>>
  BY DEF BackendHasObjects, data
<1>2. PICK y \in {"mark", "delete"} : call' = [call EXCEPT ![a].at = y]
  BY DEF BackendHasObjects
<1>3. call[a] \in AdminCalls /\ call[a].at = "probe"
  BY DEF BackendHasObjects, TeardownTypes
<1>4. call' \in [Admins -> AdminCalls] /\ call'[a].backend = call[a].backend /\ call'[a].at = y
      /\ \A c \in Admins \ {a} : call'[c] = call[c]
  BY <1>2, <1>3 DEF TeardownTypes, AdminCalls
<1>5. RequestsNameRows'
  BY <1>1, <1>3, <1>4 DEF RequestsNameRows
<1> QED  BY <1>1, <1>4, <1>5, RequestsKeep

\* An answered request, or one that is to mark, asks nothing new of the rows.
LEMMA ReplyKeepsRequests ==
    ASSUME TeardownInv, RowsMoveOn, NEW a \in Admins,
           \/ EndCall(a)
           \/ call[a].at = "delete" /\ call' = [call EXCEPT ![a].at = "mark"]
    PROVE  call' \in [Admins -> AdminCalls] /\ RequestsNameRows'
<1> USE DEF TeardownInv
<1>1. CASE EndCall(a)
  <2>1. NoAdminCall \in AdminCalls /\ NoAdminCall.at = "idle"  BY DEF NoAdminCall, AdminCalls
  <2>2. call' \in [Admins -> AdminCalls] /\ call'[a] = NoAdminCall /\ \A c \in Admins \ {a} : call'[c] = call[c]
    BY <1>1, <2>1 DEF EndCall, TeardownTypes
  <2> QED  BY <2>1, <2>2 DEF RequestsNameRows, RowsMoveOn
<1>2. CASE call[a].at = "delete" /\ call' = [call EXCEPT ![a].at = "mark"]
  <2>1. call[a] \in AdminCalls  BY DEF TeardownTypes
  <2>2. /\ call' \in [Admins -> AdminCalls] /\ call'[a].backend = call[a].backend /\ call'[a].at = "mark"
        /\ \A c \in Admins \ {a} : call'[c] = call[c]
    BY <1>2, <2>1 DEF TeardownTypes, AdminCalls
  <2> QED  BY <1>2, <2>2 DEF RequestsNameRows, RowsMoveOn
<1> QED  BY <1>1, <1>2

\* Nothing that is stored goes.
StoredStays ==
    \A b \in Ids : /\ \A x \in ObjectKeys : objects[b][x] # "none" => objects'[b][x] # "none"
                   /\ hashes[b] \subseteq hashes'[b]

\* A step that moves rows on and keeps what is stored loses nothing.
LEMMA NothingGoes ==
    ASSUME TeardownInv, RowsMoveOn, StoredStays,
           OnlyOrgAdminsMark
    PROVE  LossIsAskedFor
<1>1. \A b \in Ids : Marked(b) => backend[b].project # 0
  BY DEF TeardownInv, RowsUnderRows, Marked, Exists, Projects
<1>2. OnlyTheDoomedAreEmptied
  BY <1>1 DEF OnlyTheDoomedAreEmptied, RowsMoveOn, StoredStays
<1> QED  BY <1>2 DEF LossIsAskedFor

\* A step that leaves the tables alone loses nothing.
LEMMA NothingMoves ==
    ASSUME TeardownInv, UNCHANGED <<project, backend, objects, hashes>>
    PROVE  RowsMoveOn /\ StoredStays /\ LossIsAskedFor
<1>1. RowsMoveOn /\ StoredStays /\ OnlyOrgAdminsMark
  BY DEF RowsMoveOn, StoredStays, OnlyOrgAdminsMark, Marked, Exists
<1> QED  BY <1>1, NothingGoes

\* A backend's row is a row.
LEMMA RowOf ==
    ASSUME TeardownTypes, NEW b \in Ids
    PROVE  backend[b] \in BackendRows
BY DEF TeardownTypes

\* A new row is under its project's, and takes an id that was free.
LEMMA InsertKeeps ==
    ASSUME TeardownInv, NEW a \in Admins, InsertBackend(a)
    PROVE  TeardownInv' /\ LossIsAskedFor
<1> USE DEF TeardownInv
<1>0. UNCHANGED <<project, objects, hashes, stage>> /\ EndCall(a)
  BY DEF InsertBackend, data
<1>1. CASE UNCHANGED backend
  <2>1. RowsMoveOn /\ LossIsAskedFor  BY <1>0, <1>1, NothingMoves
  <2>2. call' \in [Admins -> AdminCalls] /\ RequestsNameRows'  BY <1>0, <2>1, ReplyKeepsRequests
  <2> QED  BY <1>0, <1>1, <2>1, <2>2, RequestsKeep
<1>2. CASE backend' # backend
  <2>1. call[a].at = "create" /\ project[call[a].project] \in {"live", "deleting"}
    BY <1>2 DEF InsertBackend
  <2>2. call[a].project \in Projects /\ call[a].kind \in BackendKinds \cup {""}
    BY <2>1 DEF RequestsNameRows, TeardownTypes, AdminCalls
  <2>3. PICK b \in Ids :
            /\ \A c \in Ids : c < b <=> backend[c].project # 0
            /\ backend' = [backend EXCEPT ![b] =
                    [project |-> call[a].project, kind |-> call[a].kind, st |-> "live", enabled |-> TRUE]]
    BY <1>2 DEF InsertBackend
  <2>4. backend[b].project = 0
    BY <2>3 DEF Ids
  <2>5. PICK r : r = [project |-> call[a].project, kind |-> call[a].kind, st |-> "live", enabled |-> TRUE]
    OBVIOUS
  <2>6. r \in BackendRows /\ r.project = call[a].project /\ r.st = "live"
    BY <2>2, <2>5 DEF BackendRows
  <2>7. backend' \in [Ids -> BackendRows] /\ backend'[b] = r /\ \A c \in Ids \ {b} : backend'[c] = backend[c]
    BY <2>3, <2>5, <2>6 DEF TeardownTypes
  <2>8. ~Exists(b) /\ ~Holds(b)
    BY <2>4 DEF RowsUnderRows, Projects
  <2>9. RowsMoveOn
    BY <1>0, <2>4, <2>7 DEF RowsMoveOn, Marked, Exists
  <2>10. RowsUnderRows'
    <3>1. \A c \in Ids : Holds(c)' <=> Holds(c)
      BY <1>0 DEF Holds
    <3>2. backend'[b].project \in Projects /\ project'[backend'[b].project] \in {"live", "deleting"}
      BY <1>0, <2>1, <2>2, <2>6, <2>7
    <3>3. \A c \in Ids \ {b} : Exists(c)' <=> Exists(c)
      BY <2>7 DEF Exists
    <3> QED  BY <1>0, <2>7, <2>8, <3>1, <3>2, <3>3 DEF RowsUnderRows
  <2>11. LossIsAskedFor
    <3>1. StoredStays  BY <1>0 DEF StoredStays
    <3>2. OnlyOrgAdminsMark  BY <2>7, <2>8 DEF OnlyOrgAdminsMark
    <3> QED  BY <2>9, <3>1, <3>2, NothingGoes
  <2>12. TeardownTypes' /\ RequestsNameRows'
    BY <1>0, <2>7, <2>9, ReplyKeepsRequests DEF TeardownTypes
  <2>13. NobodyMarks'
    BY <1>0, <2>6, <2>7 DEF NobodyMarks, Marked, Working
  <2>14. WorkIsDoomed'  BY <1>0, <2>9, RowsKeepTheWork
  <2> QED  BY <2>10, <2>11, <2>12, <2>13, <2>14
<1> QED  BY <1>1, <1>2

\* handleUpdateBackend and the two deletes write one row, or none.
LEMMA RowWriteKeeps ==
    ASSUME TeardownInv, UNCHANGED <<project, objects, hashes, stage>>, NEW a \in Admins,
           \/ EndCall(a)
           \/ call[a].at = "delete" /\ call' = [call EXCEPT ![a].at = "mark"],
           NEW b \in Ids, NEW r \in BackendRows, backend[b].project # 0,
           backend' = [backend EXCEPT ![b] = r],
           r.project = backend[b].project,
           \/ r.st = backend[b].st
           \/ r.st = "none" /\ ~Holds(b)
           \/ /\ r.st = "deleting" /\ Exists(b)
              /\ a \in OrgAdmins /\ call[a].at = "mark" /\ call[a].backend = b /\ EndCall(a)
    PROVE  TeardownInv' /\ LossIsAskedFor
<1> USE DEF TeardownInv
<1>1. backend' \in [Ids -> BackendRows] /\ backend'[b] = r /\ \A c \in Ids \ {b} : backend'[c] = backend[c]
  BY DEF TeardownTypes
<1>2. RowsMoveOn
  BY <1>1 DEF RowsMoveOn, Marked, Exists
<1>3. RowsUnderRows'
  BY <1>1 DEF RowsUnderRows, Exists, Holds
<1>4. LossIsAskedFor
  <2>1. StoredStays  BY DEF StoredStays
  <2>2. EndCall(a) => call'[a] = NoAdminCall  BY DEF EndCall, TeardownTypes
  <2>3. OnlyOrgAdminsMark  BY <1>1, <2>2 DEF OnlyOrgAdminsMark
  <2> QED  BY <1>2, <2>1, <2>3, NothingGoes
<1>5. TeardownTypes' /\ RequestsNameRows'
  BY <1>1, <1>2, ReplyKeepsRequests DEF TeardownTypes
<1>6. NobodyMarks'
  BY <1>1 DEF NobodyMarks, Marked, Working
<1>7. WorkIsDoomed'  BY <1>2, RowsKeepTheWork
<1> QED  BY <1>3, <1>4, <1>5, <1>6, <1>7

\* A handler that finds its row gone, or may not touch it, answers and leaves it.
LEMMA AnswerOnlyKeeps ==
    ASSUME TeardownInv, UNCHANGED <<project, backend, objects, hashes, stage>>, NEW a \in Admins,
           \/ EndCall(a)
           \/ call[a].at = "delete" /\ call' = [call EXCEPT ![a].at = "mark"]
    PROVE  TeardownInv' /\ LossIsAskedFor
<1>1. RowsMoveOn /\ LossIsAskedFor  BY NothingMoves
<1>2. call' \in [Admins -> AdminCalls] /\ RequestsNameRows'  BY <1>1, ReplyKeepsRequests
<1> QED  BY <1>1, <1>2, RequestsKeep

\* handleUpdateBackend's write leaves the mark as it is.
LEMMA UpdateKeeps ==
    ASSUME TeardownInv, NEW a \in Admins, NEW e \in BOOLEAN, UpdateBackend(a, e)
    PROVE  TeardownInv' /\ LossIsAskedFor
<1>1. PICK b : b = call[a].backend  OBVIOUS
<1>2. b \in Ids /\ backend[b].project # 0
  BY <1>1 DEF TeardownInv, RequestsNameRows, UpdateBackend
<1>3. UNCHANGED <<project, objects, hashes, stage>> /\ EndCall(a)
  BY DEF UpdateBackend, data
<1>4. CASE Exists(b)
  <2>1. PICK r : r = [backend[b] EXCEPT !.enabled = e]  OBVIOUS
  <2>2. r \in BackendRows /\ r.project = backend[b].project /\ r.st = backend[b].st
    BY <1>2, <2>1, RowOf DEF BackendRows, TeardownInv
  <2>3. backend' = [backend EXCEPT ![b] = r]
    BY <1>1, <1>2, <1>4, <2>1 DEF UpdateBackend, TeardownInv, TeardownTypes
  <2> QED  BY <1>2, <1>3, <2>2, <2>3, RowWriteKeeps
<1>5. CASE ~Exists(b)
  <2>1. backend' = backend  BY <1>1, <1>5 DEF UpdateBackend
  <2> QED  BY <1>3, <2>1, AnswerOnlyKeeps
<1> QED  BY <1>4, <1>5

\* deleteEmptyBackend's delete takes an empty row or falls back on the mark.
LEMMA DeleteKeeps ==
    ASSUME TeardownInv, NEW a \in Admins, DeleteBackend(a)
    PROVE  TeardownInv' /\ LossIsAskedFor
<1>1. PICK b : b = call[a].backend  OBVIOUS
<1>2. b \in Ids /\ backend[b].project # 0
  BY <1>1 DEF TeardownInv, RequestsNameRows, DeleteBackend
<1>3. UNCHANGED <<project, objects, hashes, stage>> /\ call[a].at = "delete"
  BY DEF DeleteBackend, data
<1>4. CASE Holds(b)
  <2>1. backend' = backend /\ call' = [call EXCEPT ![a].at = "mark"]  BY <1>1, <1>4 DEF DeleteBackend
  <2> QED  BY <1>3, <2>1, AnswerOnlyKeeps
<1>5. CASE ~Holds(b)
  <2>1. PICK r : r = [backend[b] EXCEPT !.st = "none"]  OBVIOUS
  <2>2. r \in BackendRows /\ r.project = backend[b].project /\ r.st = "none"
    BY <1>2, <2>1, RowOf DEF BackendRows, TeardownInv
  <2>3. backend' = [backend EXCEPT ![b] = r] /\ EndCall(a)
    BY <1>1, <1>2, <1>5, <2>1 DEF DeleteBackend, TeardownInv, TeardownTypes
  <2> QED  BY <1>2, <1>3, <1>5, <2>2, <2>3, RowWriteKeeps
<1> QED  BY <1>4, <1>5

\* The mark needs an org admin.
LEMMA MarkKeeps ==
    ASSUME TeardownInv, NEW a \in Admins, MarkBackendDeleting(a)
    PROVE  TeardownInv' /\ LossIsAskedFor
<1>1. PICK b : b = call[a].backend  OBVIOUS
<1>2. b \in Ids /\ backend[b].project # 0
  BY <1>1 DEF TeardownInv, RequestsNameRows, MarkBackendDeleting
<1>3. UNCHANGED <<project, objects, hashes, stage>> /\ EndCall(a)
  BY DEF MarkBackendDeleting, data
<1>4. CASE a \in OrgAdmins /\ Exists(b)
  <2>1. PICK r : r = [backend[b] EXCEPT !.st = "deleting", !.enabled = FALSE]  OBVIOUS
  <2>2. r \in BackendRows /\ r.project = backend[b].project /\ r.st = "deleting"
    BY <1>2, <2>1, RowOf DEF BackendRows, TeardownInv
  <2>3. backend' = Mark({b})
    BY <1>1, <1>4 DEF MarkBackendDeleting
  <2>4. backend' = [backend EXCEPT ![b] = r]
    BY <1>2, <2>1, <2>3 DEF Mark, TeardownInv, TeardownTypes
  <2>5. call[a].at = "mark" /\ call[a].backend = b
    BY <1>1 DEF MarkBackendDeleting
  <2> QED  BY <1>2, <1>3, <1>4, <2>2, <2>4, <2>5, RowWriteKeeps
<1>5. CASE ~(a \in OrgAdmins /\ Exists(b))
  <2>1. backend' = backend  BY <1>1, <1>5 DEF MarkBackendDeleting
  <2> QED  BY <1>3, <2>1, AnswerOnlyKeeps
<1> QED  BY <1>4, <1>5

\* Marking a set of backends rewrites their rows and no others.
LEMMA MarkedRows ==
    ASSUME TeardownTypes, NEW S \in SUBSET Ids
    PROVE  /\ Mark(S) \in [Ids -> BackendRows]
           /\ \A b \in Ids : /\ Mark(S)[b].project = backend[b].project
                             /\ b \in S => Mark(S)[b].st = "deleting"
                             /\ b \notin S => Mark(S)[b] = backend[b]
<1>1. ASSUME NEW b \in Ids, NEW r, r = [backend[b] EXCEPT !.st = "deleting", !.enabled = FALSE]
      PROVE  r \in BackendRows /\ r.project = backend[b].project /\ r.st = "deleting"
  BY <1>1, RowOf DEF BackendRows
<1>2. \A b \in Ids : backend[b] \in BackendRows
  BY RowOf
<1> QED  BY <1>1, <1>2 DEF Mark

\* A step that rewrites many rows at once: each is left, marked, or dropped when empty.
LEMMA RowsRewritten ==
    ASSUME TeardownInv, UNCHANGED <<objects, hashes, call>>, Onward,
           project' \in [Projects -> {"none", "live", "deleting", "gone"}],
           backend' \in [Ids -> BackendRows],
           \A p \in Projects : project[p] \in {"deleting", "gone"} => project'[p] \in {"deleting", "gone"},
           \A b \in Ids : /\ backend'[b].project = backend[b].project
                          /\ \/ backend'[b].st = backend[b].st
                             \/ backend'[b].st = "none" /\ ~Holds(b)
                             \/ /\ backend'[b].st = "deleting" /\ Exists(b) /\ OrgAdmins # {}
                                /\ project'[backend[b].project] = "deleting"
                          /\ backend'[b].st # "none" => project'[backend[b].project] \in {"live", "deleting"},
           OrgAdmins = {} => \A p \in Projects : project'[p] \in {"none", "live"}
    PROVE  TeardownInv' /\ LossIsAskedFor
<1> USE DEF TeardownInv
<1>1. RowsMoveOn
  BY DEF RowsMoveOn, Marked, Exists
<1>2. RowsUnderRows'
  <2>1. \A b \in Ids : Holds(b)' <=> Holds(b)  BY DEF Holds
  <2> QED  BY <2>1 DEF RowsUnderRows, Exists
<1>3. LossIsAskedFor
  <2>1. StoredStays  BY DEF StoredStays
  <2>2. OnlyOrgAdminsMark  BY DEF OnlyOrgAdminsMark
  <2> QED  BY <1>1, <2>1, <2>2, NothingGoes
<1>4. TeardownTypes' /\ RequestsNameRows'
  BY <1>1 DEF TeardownTypes, RequestsNameRows, Onward
<1>5. NobodyMarks'
  BY DEF NobodyMarks, Marked, Onward
<1>6. WorkIsDoomed'  BY <1>1, OnwardKeeps
<1> QED  BY <1>2, <1>3, <1>4, <1>5, <1>6

\* A new project has no backends yet.
LEMMA CreateProjectKeeps ==
    ASSUME TeardownInv, NEW p \in Projects, CreateProject(p)
    PROVE  TeardownInv' /\ LossIsAskedFor
<1>1. UNCHANGED <<backend, objects, hashes, stage, call>> /\ project[p] = "none"
      /\ project' = [project EXCEPT ![p] = "live"]
  BY DEF CreateProject, data
<1>2. project' \in [Projects -> {"none", "live", "deleting", "gone"}] /\ project'[p] = "live"
      /\ \A q \in Projects \ {p} : project'[q] = project[q]
  BY <1>1 DEF TeardownInv, TeardownTypes
<1>3. \A b \in Ids : backend'[b].st # "none" => project'[backend[b].project] \in {"live", "deleting"}
  BY <1>1, <1>2 DEF TeardownInv, RowsUnderRows, Exists
<1>4. OrgAdmins = {} => \A q \in Projects : project'[q] \in {"none", "live"}
  BY <1>2 DEF TeardownInv, NobodyMarks
<1>5. backend' \in [Ids -> BackendRows]
  BY <1>1 DEF TeardownInv, TeardownTypes
<1> QED  BY <1>1, <1>2, <1>3, <1>4, <1>5, RowsRewritten, WaitingIsOnward

\* handleDeleteProject drops the empty backends and marks the others, under an org admin's call.
LEMMA DeleteProjectKeeps ==
    ASSUME TeardownInv, NEW a \in Admins, NEW p \in Projects, DeleteProject(a, p)
    PROVE  TeardownInv' /\ LossIsAskedFor
<1> DEFINE all == {b \in Ids : Exists(b) /\ backend[b].project = p}
           empty == {b \in all : ~Holds(b)}
<1>1. UNCHANGED <<objects, hashes, stage, call>> /\ OrgAdmins # {} /\ project[p] = "live"
      /\ project' = [project EXCEPT ![p] = IF all = empty THEN "gone" ELSE "deleting"]
      /\ backend' = [b \in Ids |-> IF b \in empty THEN [backend[b] EXCEPT !.st = "none"]
                                                  ELSE Mark(all)[b]]
  BY DEF DeleteProject, data, Live
<1>2. project' \in [Projects -> {"none", "live", "deleting", "gone"}]
      /\ project'[p] = (IF all = empty THEN "gone" ELSE "deleting")
      /\ \A q \in Projects \ {p} : project'[q] = project[q]
  BY <1>1 DEF TeardownInv, TeardownTypes
<1>3. ASSUME NEW b \in empty
      PROVE  backend'[b] \in BackendRows /\ backend'[b].project = backend[b].project /\ backend'[b].st = "none"
  <2>1. PICK r : r = [backend[b] EXCEPT !.st = "none"]  OBVIOUS
  <2>2. r \in BackendRows /\ r.project = backend[b].project /\ r.st = "none"
    BY <2>1, RowOf DEF BackendRows, TeardownInv
  <2> QED  BY <1>1, <2>1, <2>2
<1>4. ASSUME NEW b \in Ids \ empty
      PROVE  /\ backend'[b] \in BackendRows /\ backend'[b].project = backend[b].project
             /\ b \in all => backend'[b].st = "deleting"
             /\ b \notin all => backend'[b] = backend[b]
  <2>1. all \in SUBSET Ids  OBVIOUS
  <2>2. backend'[b] = Mark(all)[b]  BY <1>1
  <2> HIDE DEF all, empty
  <2> QED  BY <2>1, <2>2, MarkedRows DEF TeardownInv
<1>5. backend' \in [Ids -> BackendRows]
  BY <1>1, <1>3, <1>4
<1>6. \A b \in Ids : Exists(b) => backend[b].project \in Projects
          /\ project[backend[b].project] \in {"live", "deleting"}
  BY DEF TeardownInv, RowsUnderRows
<1>7. \A b \in Ids : /\ backend'[b].project = backend[b].project
                     /\ \/ backend'[b].st = backend[b].st
                        \/ backend'[b].st = "none" /\ ~Holds(b)
                        \/ /\ backend'[b].st = "deleting" /\ Exists(b) /\ OrgAdmins # {}
                           /\ project'[backend[b].project] = "deleting"
  <2> SUFFICES ASSUME NEW b \in Ids
               PROVE  /\ backend'[b].project = backend[b].project
                      /\ \/ backend'[b].st = backend[b].st
                         \/ backend'[b].st = "none" /\ ~Holds(b)
                         \/ /\ backend'[b].st = "deleting" /\ Exists(b) /\ OrgAdmins # {}
                            /\ project'[backend[b].project] = "deleting"
    OBVIOUS
  <2>1. CASE b \in empty  BY <1>3, <2>1
  <2>2. CASE b \in all \ empty
    <3>1. Exists(b) /\ backend[b].project = p /\ all # empty  BY <2>2
    <3>2. project'[p] = "deleting"  BY <1>2, <3>1
    <3> HIDE DEF all, empty
    <3> QED  BY <1>1, <1>4, <2>2, <3>1, <3>2
  <2>3. CASE b \notin all
    <3>1. b \notin empty  BY <2>3
    <3> HIDE DEF all, empty
    <3> QED  BY <1>4, <2>3, <3>1
  <2> QED  BY <2>1, <2>2, <2>3
<1>8. ASSUME NEW b \in Ids, backend'[b].st # "none"
      PROVE  project'[backend[b].project] \in {"live", "deleting"}
  <2>1. b \notin empty  BY <1>3, <1>8
  <2>2. CASE b \in all  BY <1>2, <2>1, <2>2
  <2>3. CASE b \notin all
    <3>1. Exists(b) /\ backend[b].project # p  BY <1>4, <1>8, <2>1, <2>3 DEF Exists
    <3> QED  BY <1>2, <1>6, <3>1
  <2> QED  BY <2>2, <2>3
<1>9. \A q \in Projects : project[q] \in {"deleting", "gone"} => project'[q] \in {"deleting", "gone"}
  BY <1>1, <1>2
<1> QED  BY <1>1, <1>2, <1>5, <1>7, <1>8, <1>9, RowsRewritten, WaitingIsOnward

\* A build's write adds a row under a backend that exists.
LEMMA WriteKeeps ==
    ASSUME TeardownInv, NEW b \in Ids, WriteRow(b)
    PROVE  TeardownInv' /\ LossIsAskedFor
<1> USE DEF TeardownInv
<1>1. UNCHANGED <<project, backend, call, stage>>
  BY DEF WriteRow
<1>2. /\ objects' \in [Ids -> [ObjectKeys -> {"none", "old", "fresh"}]]
      /\ hashes' \in [Ids -> SUBSET {"unihashes", "outhashes"}]
      /\ StoredStays
      /\ \A c \in Ids \ {b} : objects'[c] = objects[c] /\ hashes'[c] = hashes[c]
      /\ ~Exists(b) => objects'[b] = objects[b] /\ hashes'[b] = hashes[b]
  <2>1. CASE ~Exists(b) /\ UNCHANGED data
    BY <2>1 DEF TeardownTypes, StoredStays, data
  <2>2. ASSUME NEW t \in {"unihashes", "outhashes"}, hashes' = [hashes EXCEPT ![b] = @ \cup {t}],
               UNCHANGED objects, Exists(b)
        PROVE  <1>2!1 /\ <1>2!2 /\ <1>2!3 /\ <1>2!4 /\ <1>2!5
    BY <2>2 DEF TeardownTypes, StoredStays
  <2>3. ASSUME NEW x \in ObjectKeys, NEW w \in {"old", "fresh"}, objects' = [objects EXCEPT ![b][x] = w],
               UNCHANGED hashes, Exists(b)
        PROVE  <1>2!1 /\ <1>2!2 /\ <1>2!3 /\ <1>2!4 /\ <1>2!5
    BY <2>3 DEF TeardownTypes, StoredStays
  <2> QED  BY <2>1, <2>2, <2>3 DEF WriteRow
<1>3. RowsMoveOn /\ OnlyOrgAdminsMark
  BY <1>1 DEF RowsMoveOn, OnlyOrgAdminsMark, Marked, Exists
<1>4. LossIsAskedFor
  BY <1>2, <1>3, NothingGoes
<1>5. RowsUnderRows'
  BY <1>1, <1>2 DEF RowsUnderRows, Exists, Holds
<1>6. TeardownTypes' /\ RequestsNameRows'
  BY <1>1, <1>2 DEF TeardownTypes, RequestsNameRows
<1>7. NobodyMarks' /\ WorkIsDoomed'
  BY <1>1 DEF NobodyMarks, WorkIsDoomed, Working, Marked, Doomed, Exists
<1> QED  BY <1>4, <1>5, <1>6, <1>7

\* A step of the run that stores nothing and writes no row keeps the invariant when what it
\* goes on to work on is doomed.
LEMMA RunKeeps ==
    ASSUME TeardownInv, UNCHANGED <<project, backend, call>>,
           objects' \in [Ids -> [ObjectKeys -> {"none", "old", "fresh"}]],
           hashes' \in [Ids -> SUBSET {"unihashes", "outhashes"}],
           \A b \in Ids : Holds(b)' => Holds(b),
           Onward
    PROVE  TeardownInv'
<1> USE DEF TeardownInv
<1>1. RowsMoveOn
  BY DEF RowsMoveOn, Marked, Exists
<1>2. WorkIsDoomed'
  BY <1>1, OnwardKeeps
<1>3. TeardownTypes'
  BY DEF TeardownTypes, Onward
<1>4. RowsUnderRows' /\ RequestsNameRows'
  BY DEF RowsUnderRows, RequestsNameRows, Exists
<1>5. NobodyMarks'
  BY DEF NobodyMarks, Marked, Onward
<1> QED  BY <1>2, <1>3, <1>4, <1>5

\* Taking the next backend of a doomed worklist.
LEMMA NextIsDoomed ==
    ASSUME NEW r, StageShape(r), r.todo \subseteq Ids, \A b \in r.todo : Doomed(b),
           OrgAdmins = {} => r.todo = {},
           stage' = NextBackend(r)
    PROVE  Onward
<1>1. /\ StageShape(stage') /\ stage'.todo \subseteq r.todo
      /\ \/ stage'.at = "projects" /\ r.todo = {}
         \/ stage'.at = "scan" /\ stage'.now \in r.todo
  BY NextOfTheList
<1> QED  BY <1>1 DEF Onward, Working

\* The steps that only move the run along: the failures, the worklist, a page's scan, the end.
LEMMA RunMovesKeep ==
    ASSUME TeardownInv,
           \/ MarkStragglersFails \/ ListBackendsForTeardown \/ PurgeScan \/ PurgeFails \/ EndRun
    PROVE  TeardownInv' /\ LossIsAskedFor
<1> USE DEF TeardownInv
<1>1. UNCHANGED <<project, backend, objects, hashes, call>>
  BY DEF MarkStragglersFails, ListBackendsForTeardown, PurgeScan, PurgeFails, EndRun, data
<1>2. LossIsAskedFor
  BY <1>1, NothingMoves
<1>3. /\ objects' \in [Ids -> [ObjectKeys -> {"none", "old", "fresh"}]]
      /\ hashes' \in [Ids -> SUBSET {"unihashes", "outhashes"}]
      /\ \A b \in Ids : Holds(b)' => Holds(b)
  BY <1>1 DEF TeardownTypes, Holds
<1>4. /\ StageShape(stage) /\ stage.todo \subseteq Ids /\ (\A b \in stage.todo : Doomed(b))
      /\ (Working => stage.now \in Ids /\ Doomed(stage.now))
      /\ (OrgAdmins = {} => stage.todo = {} /\ ~Working)
  BY DEF TeardownTypes, WorkIsDoomed, NobodyMarks
<1>5. CASE MarkStragglersFails
  <2>1. stage' = [stage EXCEPT !.at = "list", !.failed = TRUE]  BY <1>5 DEF MarkStragglersFails
  <2>2. StageShape(stage') /\ stage'.todo = stage.todo /\ stage'.at = "list"
    BY <1>4, <2>1 DEF StageShape
  <2> QED  BY <1>1, <1>2, <1>3, <1>4, <2>2, RunKeeps DEF Onward, Working
<1>6. CASE ListBackendsForTeardown
  <2>1. PICK L : L = {b \in Ids : Exists(b) /\ (Marked(b) \/ ~Live(backend[b].project))}
    OBVIOUS
  <2>2. PICK r : r = [stage EXCEPT !.todo = L]
    OBVIOUS
  <2>3. stage' = NextBackend(r)
    BY <1>6, <2>1, <2>2 DEF ListBackendsForTeardown
  <2>4. StageShape(r) /\ r.todo = L
    BY <1>4, <2>2 DEF StageShape
  <2>5. L \subseteq Ids /\ \A b \in L : Doomed(b)
    BY <2>1 DEF Doomed, Live
  <2>6. OrgAdmins = {} => L = {}
    BY <2>1 DEF NobodyMarks, RowsUnderRows, Live
  <2>7. Onward
    BY <2>3, <2>4, <2>5, <2>6, NextIsDoomed
  <2> QED  BY <1>1, <1>2, <1>3, <2>7, RunKeeps
<1>7. CASE PurgeScan
  <2>1. PICK page, after : stage' = IF page = {} THEN [stage EXCEPT !.at = "unihashes", !.pages = 0]
                                    ELSE [stage EXCEPT !.at = "delete", !.page = page, !.after = after]
    BY <1>7 DEF PurgeScan
  <2>2. StageShape(stage') /\ stage'.todo = stage.todo /\ stage'.now = stage.now
        /\ stage'.at \in {"unihashes", "delete"}
    BY <1>4, <2>1 DEF StageShape
  <2>3. Working  BY <1>7 DEF Working, PurgeScan
  <2> QED  BY <1>1, <1>2, <1>3, <1>4, <2>2, <2>3, RunKeeps DEF Onward
<1>8. CASE PurgeFails
  <2>1. PICK r : r = [stage EXCEPT !.failed = TRUE]
    OBVIOUS
  <2>2. stage' = NextBackend(r)  BY <1>8, <2>1 DEF PurgeFails
  <2>3. StageShape(r) /\ r.todo = stage.todo
    BY <1>4, <2>1 DEF StageShape
  <2>4. Onward
    BY <1>4, <2>2, <2>3, NextIsDoomed
  <2> QED  BY <1>1, <1>2, <1>3, <2>4, RunKeeps
<1>9. CASE EndRun
  <2>1. StageShape(stage') /\ stage'.todo = {} /\ stage'.at = "idle"
    BY <1>9 DEF EndRun, NoStage, StageShape
  <2> QED  BY <1>1, <1>2, <1>3, <2>1, RunKeeps DEF Onward, Working
<1> QED  BY <1>5, <1>6, <1>7, <1>8, <1>9

\* A run's snapshot renames rows and loses none.
LEMMA StartKeeps ==
    ASSUME TeardownInv, StartRun
    PROVE  TeardownInv' /\ LossIsAskedFor
<1> USE DEF TeardownInv
<1>1. UNCHANGED <<project, backend, hashes, call>>
  BY DEF StartRun
<1>2. /\ objects' \in [Ids -> [ObjectKeys -> {"none", "old", "fresh"}]]
      /\ \A b \in Ids, x \in ObjectKeys : objects'[b][x] = "none" <=> objects[b][x] = "none"
  BY DEF StartRun, TeardownTypes
<1>3. RowsMoveOn /\ StoredStays /\ OnlyOrgAdminsMark
  BY <1>1, <1>2 DEF RowsMoveOn, StoredStays, OnlyOrgAdminsMark, Marked, Exists
<1>4. LossIsAskedFor
  BY <1>3, NothingGoes
<1>5. hashes' \in [Ids -> SUBSET {"unihashes", "outhashes"}] /\ \A b \in Ids : Holds(b)' => Holds(b)
  BY <1>1, <1>2 DEF TeardownTypes, Holds
<1>6. StageShape(stage') /\ stage'.todo = {} /\ stage'.at = "mark"
  BY DEF StartRun, NoStage, StageShape
<1> QED  BY <1>1, <1>2, <1>4, <1>5, <1>6, RunKeeps DEF Onward, Working

\* A run's deletes take rows from the backend it works on and from no other.
LEMMA PurgeLosesTheDoomed ==
    ASSUME TeardownInv, UNCHANGED <<project, backend>>, Working,
           \A b \in Ids \ {stage.now} : objects'[b] = objects[b] /\ hashes'[b] = hashes[b]
    PROVE  LossIsAskedFor
<1> USE DEF TeardownInv
<1>1. stage.now \in Ids /\ Doomed(stage.now) /\ OnlyOrgAdminsMark
  BY DEF WorkIsDoomed, OnlyOrgAdminsMark
<1>2. \A b \in Ids : Marked(b) => backend'[b].st \in {"deleting", "none"}
  BY DEF Marked
<1>3. ASSUME NEW b \in Ids,
             \/ \E x \in ObjectKeys : objects[b][x] # "none" /\ objects'[b][x] = "none"
             \/ ~(hashes[b] \subseteq hashes'[b])
      PROVE  Marked(b) \/ ~Live(backend[b].project)
  <2>1. b = stage.now  BY <1>3
  <2>2. Holds(b)  BY <1>3 DEF Holds
  <2>3. Exists(b)  BY <2>2 DEF RowsUnderRows
  <2> QED  BY <1>1, <2>1, <2>3 DEF Doomed, Live
<1> QED  BY <1>1, <1>2, <1>3 DEF LossIsAskedFor, OnlyTheDoomedAreEmptied

\* A page of objects goes from the doomed backend only.
LEMMA DeletePageKeeps ==
    ASSUME TeardownInv, DeletePage
    PROVE  TeardownInv' /\ LossIsAskedFor
<1> USE DEF TeardownInv
<1>1. UNCHANGED <<project, backend, hashes, call>> /\ Working
  BY DEF DeletePage, Working
<1>2. stage.now \in Ids /\ Doomed(stage.now) /\ OrgAdmins # {}
  BY <1>1 DEF WorkIsDoomed, NobodyMarks
<1>3. objects' = [objects EXCEPT ![stage.now] =
          [x \in ObjectKeys |-> IF x \in stage.page /\ @[x] = "old" THEN "none" ELSE @[x]]]
  BY DEF DeletePage
<1>4. /\ objects' \in [Ids -> [ObjectKeys -> {"none", "old", "fresh"}]]
      /\ \A b \in Ids \ {stage.now} : objects'[b] = objects[b]
      /\ \A b \in Ids, x \in ObjectKeys : objects'[b][x] # "none" => objects[b][x] # "none"
  BY <1>2, <1>3 DEF TeardownTypes
<1>5. LossIsAskedFor
  BY <1>1, <1>4, PurgeLosesTheDoomed
<1>6. hashes' \in [Ids -> SUBSET {"unihashes", "outhashes"}] /\ \A b \in Ids : Holds(b)' => Holds(b)
  BY <1>1, <1>4 DEF TeardownTypes, Holds
<1>7. PICK short, pages : \/ stage' = [stage EXCEPT !.at = "unihashes", !.pages = 0, !.page = {}, !.done = short]
                          \/ stage' = [stage EXCEPT !.at = "scan", !.pages = pages, !.page = {}]
  BY DEF DeletePage
<1>8. StageShape(stage') /\ stage'.todo = stage.todo /\ stage'.now = stage.now
  BY <1>7 DEF StageShape, TeardownTypes
<1>9. \A b \in stage'.todo : Doomed(b)
  BY <1>8 DEF WorkIsDoomed
<1>10. stage'.todo \subseteq Ids
  BY <1>8 DEF TeardownTypes
<1> QED  BY <1>1, <1>2, <1>4, <1>5, <1>6, <1>8, <1>9, <1>10, RunKeeps DEF Onward

\* So does a chunk of hashserv rows.
LEMMA PurgeHashservKeeps ==
    ASSUME TeardownInv, PurgeHashserv
    PROVE  TeardownInv' /\ LossIsAskedFor
<1> USE DEF TeardownInv
<1>1. UNCHANGED <<project, backend, objects, call>> /\ Working
  BY DEF PurgeHashserv, Working
<1>2. stage.now \in Ids /\ Doomed(stage.now) /\ OrgAdmins # {}
  BY <1>1 DEF WorkIsDoomed, NobodyMarks
<1>3. hashes' = [hashes EXCEPT ![stage.now] = @ \ {stage.at}]
  BY DEF PurgeHashserv
<1>4. /\ hashes' \in [Ids -> SUBSET {"unihashes", "outhashes"}]
      /\ \A b \in Ids \ {stage.now} : hashes'[b] = hashes[b]
      /\ \A b \in Ids : hashes'[b] \subseteq hashes[b]
  BY <1>2, <1>3 DEF TeardownTypes
<1>5. LossIsAskedFor
  BY <1>1, <1>4, PurgeLosesTheDoomed
<1>6. objects' \in [Ids -> [ObjectKeys -> {"none", "old", "fresh"}]] /\ \A b \in Ids : Holds(b)' => Holds(b)
  BY <1>1, <1>4 DEF TeardownTypes, Holds
<1>7. PICK next, pages : \/ stage' = [stage EXCEPT !.at = next, !.pages = 0]
                         \/ stage' = [stage EXCEPT !.pages = pages]
                         \/ stage' = [stage EXCEPT !.at = "drop", !.done = FALSE]
  BY DEF PurgeHashserv
<1>8. StageShape(stage') /\ stage'.todo = stage.todo /\ stage'.now = stage.now
  BY <1>7 DEF StageShape, TeardownTypes
<1>9. \A b \in stage'.todo : Doomed(b)
  BY <1>8 DEF WorkIsDoomed
<1>10. stage'.todo \subseteq Ids
  BY <1>8 DEF TeardownTypes
<1> QED  BY <1>1, <1>2, <1>4, <1>5, <1>6, <1>8, <1>9, <1>10, RunKeeps DEF Onward

\* The backends of a marked project follow it: nobody's mark but an org admin's.
LEMMA StragglersKeep ==
    ASSUME TeardownInv, MarkStragglers
    PROVE  TeardownInv' /\ LossIsAskedFor
<1> USE DEF TeardownInv
<1>1. PICK S : S = {b \in Ids : Exists(b) /\ project[backend[b].project] = "deleting"}
  OBVIOUS
<1>2. UNCHANGED <<project, objects, hashes, call>> /\ backend' = Mark(S)
      /\ stage' = [stage EXCEPT !.at = "list"]
  BY <1>1 DEF MarkStragglers, data
<1>3. backend' \in [Ids -> BackendRows]
      /\ \A b \in Ids : /\ backend'[b].project = backend[b].project
                        /\ b \in S => backend'[b].st = "deleting"
                        /\ b \notin S => backend'[b] = backend[b]
  BY <1>1, <1>2, MarkedRows
<1>4. StageShape(stage') /\ stage'.todo = stage.todo /\ stage'.at = "list"
  BY <1>2 DEF StageShape, TeardownTypes
<1>5. Onward
  BY <1>4 DEF Onward, Working, WorkIsDoomed, NobodyMarks, TeardownTypes
<1>6. S # {} => OrgAdmins # {}
  BY <1>1 DEF RowsUnderRows, NobodyMarks
<1>7. \A b \in Ids : backend'[b].st # "none" => project'[backend[b].project] \in {"live", "deleting"}
  BY <1>1, <1>2, <1>3 DEF RowsUnderRows, Exists
<1>8. \A b \in Ids : \/ backend'[b].st = backend[b].st
                     \/ /\ backend'[b].st = "deleting" /\ Exists(b) /\ OrgAdmins # {}
                        /\ project'[backend[b].project] = "deleting"
  BY <1>1, <1>2, <1>3, <1>6
<1>9. /\ project' \in [Projects -> {"none", "live", "deleting", "gone"}]
      /\ OrgAdmins = {} => \A p \in Projects : project'[p] \in {"none", "live"}
  BY <1>2 DEF TeardownTypes, NobodyMarks
<1> QED  BY <1>2, <1>3, <1>5, <1>7, <1>8, <1>9, RowsRewritten

\* A row is dropped only when it is marked and nothing is under it.
LEMMA DropKeeps ==
    ASSUME TeardownInv, DropBackendRow
    PROVE  TeardownInv' /\ LossIsAskedFor
<1> USE DEF TeardownInv
<1>1. PICK b : b = stage.now  OBVIOUS
<1>2. b \in Ids /\ Doomed(b) /\ stage.todo \subseteq Ids /\ StageShape(stage)
  BY <1>1 DEF WorkIsDoomed, Working, DropBackendRow, TeardownTypes
<1>3. UNCHANGED <<project, objects, hashes, call>> /\ stage' = NextBackend(stage)
  BY DEF DropBackendRow, data
<1>4. (\A c \in stage.todo : Doomed(c)) /\ (OrgAdmins = {} => stage.todo = {})
  BY DEF WorkIsDoomed, NobodyMarks
<1>5. Onward
  BY <1>2, <1>3, <1>4, NextIsDoomed
<1>6. /\ backend' \in [Ids -> BackendRows]
      /\ \A c \in Ids : /\ backend'[c].project = backend[c].project
                        /\ backend'[c].st = backend[c].st \/ (backend'[c].st = "none" /\ ~Holds(c))
  <2>1. CASE backend' = backend
    BY <2>1 DEF TeardownTypes
  <2>2. CASE backend' # backend
    <3>1. PICK r : r = [backend[b] EXCEPT !.st = "none"]  OBVIOUS
    <3>2. r \in BackendRows /\ r.project = backend[b].project /\ r.st = "none"
      BY <1>2, <3>1, RowOf DEF BackendRows
    <3>3. backend' = [backend EXCEPT ![b] = r] /\ ~Holds(b)
      BY <1>1, <1>2, <2>2, <3>1 DEF DropBackendRow, TeardownTypes
    <3> QED  BY <1>2, <3>2, <3>3 DEF TeardownTypes
  <2> QED  BY <2>1, <2>2
<1>7. \A c \in Ids : backend'[c].st # "none" => project'[backend[c].project] \in {"live", "deleting"}
  BY <1>3, <1>6 DEF RowsUnderRows, Exists
<1>8. /\ project' \in [Projects -> {"none", "live", "deleting", "gone"}]
      /\ OrgAdmins = {} => \A p \in Projects : project'[p] \in {"none", "live"}
  BY <1>3 DEF TeardownTypes, NobodyMarks
<1> QED  BY <1>3, <1>5, <1>6, <1>7, <1>8, RowsRewritten

\* A project's row goes only when no backend is under it.
LEMMA FinishKeeps ==
    ASSUME TeardownInv, FinishTornDownProjects
    PROVE  TeardownInv' /\ LossIsAskedFor
<1> USE DEF TeardownInv
<1>1. PICK at \in {"failed", "retain"} : stage' = [stage EXCEPT !.at = at]
  BY DEF FinishTornDownProjects
<1>2. UNCHANGED <<backend, objects, hashes, call>>
      /\ project' = [p \in Projects |->
            IF project[p] = "deleting" /\ \A b \in Ids : Exists(b) => backend[b].project # p
            THEN "gone" ELSE project[p]]
  BY DEF FinishTornDownProjects, data
<1>3. StageShape(stage') /\ stage'.todo = stage.todo /\ stage'.at = at
  BY <1>1 DEF StageShape, TeardownTypes
<1>4. Onward
  BY <1>1, <1>3 DEF Onward, Working, WorkIsDoomed, NobodyMarks, TeardownTypes
<1>5. project' \in [Projects -> {"none", "live", "deleting", "gone"}] /\ backend' \in [Ids -> BackendRows]
      /\ \A p \in Projects : project[p] \in {"deleting", "gone"} => project'[p] \in {"deleting", "gone"}
  BY <1>2 DEF TeardownTypes
<1>6. \A b \in Ids : backend'[b].st # "none" => project'[backend[b].project] \in {"live", "deleting"}
  BY <1>2 DEF RowsUnderRows, Exists
<1>7. OrgAdmins = {} => \A p \in Projects : project'[p] \in {"none", "live"}
  BY <1>2 DEF NobodyMarks
<1> QED  BY <1>2, <1>4, <1>5, <1>6, <1>7, RowsRewritten

\* The rows start empty.
LEMMA TeardownStarts ==
    ASSUME TeardownAssumption, TeardownInit
    PROVE  TeardownInv
<1>1. NoAdminCall \in AdminCalls /\ NoAdminCall.at = "idle"
  BY DEF NoAdminCall, AdminCalls
<1>2. StageShape(NoStage) /\ NoStage.todo = {} /\ NoStage.at = "idle"
  BY DEF NoStage, StageShape
<1>3. FreeId \in BackendRows /\ FreeId.st = "none"
  BY DEF FreeId, BackendRows
<1>4. TeardownTypes
  BY <1>1, <1>2, <1>3 DEF TeardownInit, TeardownTypes
<1>5. RowsUnderRows /\ RequestsNameRows
  BY <1>1, <1>3 DEF TeardownInit, RowsUnderRows, RequestsNameRows, Exists, Holds
<1>6. WorkIsDoomed /\ NobodyMarks
  BY <1>2, <1>3 DEF TeardownInit, WorkIsDoomed, NobodyMarks, Working, Marked
<1> QED  BY <1>4, <1>5, <1>6 DEF TeardownInv

\* Every step of the API, the resolver, the builds and the collector keeps the invariant and
\* loses nothing it was not asked to.
LEMMA TeardownSteps ==
    ASSUME TeardownInv, [TeardownNext]_teardownVars
    PROVE  TeardownInv' /\ (LossIsAskedFor \/ UNCHANGED teardownVars)
<1>1. CASE SweepStep
  BY <1>1, StartKeeps, RunMovesKeep, DeletePageKeeps, PurgeHashservKeeps, DropKeeps, FinishKeeps
     DEF SweepStep
<1>2. CASE MarkStragglers
  BY <1>2, StragglersKeep
<1>3. ASSUME NEW p \in Projects, CreateProject(p)
      PROVE  TeardownInv' /\ LossIsAskedFor
  BY <1>3, CreateProjectKeeps
<1>4. ASSUME NEW a \in Admins, AdminRequest(a)
      PROVE  TeardownInv' /\ LossIsAskedFor
  <2>1. PICK p \in Projects, k \in BackendKinds :
            \/ BeginCreate(a, p, k) \/ BeginUpdate(a, p, k) \/ BeginDelete(a, p, k)
            \/ DeleteProject(a, p)
    BY <1>4 DEF AdminRequest
  <2>2. CASE DeleteProject(a, p)
    BY <2>2, DeleteProjectKeeps
  <2>3. CASE BeginCreate(a, p, k) \/ BeginUpdate(a, p, k) \/ BeginDelete(a, p, k)
    <3>1. UNCHANGED <<project, backend, objects, hashes>>
      BY <2>3 DEF BeginCreate, BeginUpdate, BeginDelete, data
    <3> QED  BY <2>3, <3>1, BeginKeeps, NothingMoves
  <2> QED  BY <2>1, <2>2, <2>3
<1>5. ASSUME NEW a \in Admins, AdminAnswer(a)
      PROVE  TeardownInv' /\ LossIsAskedFor
  <2>1. CASE BackendHasObjects(a)
    <3>1. UNCHANGED <<project, backend, objects, hashes>>
      BY <2>1 DEF BackendHasObjects, data
    <3> QED  BY <2>1, <3>1, ProbeKeeps, NothingMoves
  <2> QED  BY <1>5, <2>1, InsertKeeps, DeleteKeeps, MarkKeeps, UpdateKeeps DEF AdminAnswer
<1>6. ASSUME NEW k \in BackendKinds, Build(k) \/ GetBackend(k) \/ StoreRoute(k) \/ Expire(k)
      PROVE  TeardownInv' /\ LossIsAskedFor
  <2>1. UNCHANGED <<project, backend, objects, hashes, stage, call>>
    BY <1>6 DEF Build, ResolveRoute, RouteWrite, GetBackend, StoreRoute, Expire, data
  <2>2. call' \in [Admins -> AdminCalls] /\ RequestsNameRows'
    BY <2>1 DEF TeardownInv, TeardownTypes, RequestsNameRows
  <2> QED  BY <2>1, <2>2, RequestsKeep, NothingMoves
<1>7. ASSUME NEW b \in Ids, WriteRow(b)
      PROVE  TeardownInv' /\ LossIsAskedFor
  BY <1>7, WriteKeeps
<1>8. CASE UNCHANGED teardownVars
  <2>1. UNCHANGED <<project, backend, objects, hashes, stage, call>>
    BY <1>8 DEF teardownVars
  <2>2. call' \in [Admins -> AdminCalls] /\ RequestsNameRows'
    BY <2>1 DEF TeardownInv, TeardownTypes, RequestsNameRows
  <2> QED  BY <1>8, <2>1, <2>2, RequestsKeep
<1> QED  BY <1>1, <1>2, <1>3, <1>4, <1>5, <1>6, <1>7, <1>8 DEF TeardownNext

\* The collector's teardown (internal/gc/teardown.go) and the handlers that ask for it
\* (internal/api/backends.go, projects.go): at every step, whatever builds write through
\* routes resolved before the mark, a backend loses rows only once it or its project is
\* marked, a mark is never taken back, and a backend that holds something is marked by an
\* org admin or with its project.
THEOREM NothingIsEverLostUnasked ==
    ASSUME TeardownAssumption
    PROVE  TeardownSpec => NothingLostUnasked
<1>1. TeardownInit => TeardownInv
  BY TeardownStarts
<1>2. TeardownInv /\ [TeardownNext]_teardownVars => TeardownInv'
  BY TeardownSteps
<1>3. TeardownInv /\ [TeardownNext]_teardownVars => [LossIsAskedFor]_teardownVars
  BY TeardownSteps
<1> QED  BY <1>1, <1>2, <1>3, PTL DEF TeardownSpec, NothingLostUnasked

\* The role floor of handleDeleteBackend and handleDeleteProject: without an org admin
\* nothing a build stored is ever deleted and no backend that holds anything is marked,
\* whatever builds write between deleteEmptyBackend's probe and its delete.
THEOREM ProjectAdminsNeverDestroy ==
    ASSUME TeardownAssumption, OrgAdmins = {}
    PROVE  TeardownSpec => [][ProjectAdminsDestroyNothing]_teardownVars
<1>1. TeardownInit => TeardownInv
  BY TeardownStarts
<1>2. TeardownInv /\ [TeardownNext]_teardownVars => TeardownInv'
  BY TeardownSteps
<1>3. ASSUME TeardownInv, TeardownInv', LossIsAskedFor, NEW b \in Ids, Holds(b)
      PROVE  Holds(b)' /\ backend'[b].st = backend[b].st
  <2>1. Exists(b) /\ backend[b].project \in Projects /\ ~Marked(b)
    BY <1>3 DEF TeardownInv, RowsUnderRows, NobodyMarks
  <2>2. Live(backend[b].project) /\ project'[backend[b].project] # "deleting"
    BY <1>3, <2>1 DEF TeardownInv, RowsUnderRows, NobodyMarks, Live
  <2>3. Holds(b)'
    BY <1>3, <2>1, <2>2 DEF LossIsAskedFor, OnlyTheDoomedAreEmptied, Holds
  <2>4. backend[b].st = "live"
    BY <1>3, <2>1 DEF TeardownInv, TeardownTypes, BackendRows, Exists, Marked
  <2>5. backend'[b].st = "live"
    BY <1>3, <2>2, <2>4 DEF LossIsAskedFor, OnlyOrgAdminsMark
  <2> QED  BY <2>3, <2>4, <2>5
<1>4. TeardownInv /\ [TeardownNext]_teardownVars => [ProjectAdminsDestroyNothing]_teardownVars
  BY <1>3, TeardownSteps DEF ProjectAdminsDestroyNothing
<1> QED  BY <1>1, <1>2, <1>4, PTL DEF TeardownSpec

=============================================================================
