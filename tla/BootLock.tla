------------------------------ MODULE BootLock ------------------------------
(***************************************************************************)
(* The life of a bakery process and the advisory lock that keeps it alone  *)
(* on its database: internal/db/bootlock.go, Boot in internal/server/      *)
(* boot.go and Run in internal/server/server.go.                           *)
(*                                                                         *)
(* The lock belongs to a database session.  A session that dies (a server  *)
(* restart, a failover, a terminated backend) keeps the lock until its     *)
(* backend has exited: until then it is a corpse.  A process learns of the *)
(* death only when its watcher next pings.                                 *)
(***************************************************************************)
EXTENDS Integers, FiniteSets

CONSTANTS
    Procs,               \* instances of the server on one database
    AllowMultiInstance,  \* --allow-multi-instance
    MaxDeaths,           \* bound on the sessions that die
    Interrupts,          \* TRUE when signals and dead listeners end Server.Run
    FastDrain,           \* TRUE when a corpse always goes within recoverRetryWindow
    Free                 \* nobody holds the lock

BootLockAssumption ==
    /\ {AllowMultiInstance, Interrupts, FastDrain} \subseteq BOOLEAN
    /\ MaxDeaths \in Nat
    /\ Free \notin Procs \X {"live", "dead"}

ASSUME LockConstants == BootLockAssumption

VARIABLES
    phase,      \* where Boot is in each process
    live,       \* the processes whose server lifetime context is not cancelled
    lock,       \* Free, or the process and the state of the session that has it
    conn,       \* the processes that believe their pinned session is good
    watch,      \* what each process's watcher is doing
    overtaken,  \* ghost: processes during whose life another took the lock
    deaths

lockVars == <<phase, live, lock, conn, watch, overtaken, deaths>>

Phases == {"down", "booting", "serving", "draining", "unlocking"}

\* The serving pool is open: the process may write.
Up(p) == phase[p] \in {"booting", "serving", "draining"}

\* Whoever else runs joins the set; p itself starts afresh.
Others(p, set) == (set \cup {q \in Procs : phase[q] # "down"}) \ {p}

LockInit ==
    /\ phase = [p \in Procs |-> "down"]
    /\ live = {}
    /\ lock = Free
    /\ conn = {}
    /\ watch = [p \in Procs |-> "none"]
    /\ overtaken = {}
    /\ deaths = 0

-----------------------------------------------------------------------------
(* Boot *)

\* AcquireBootLock succeeds, at once or after polling: pg_try_advisory_lock on a
\* connection that stays pinned, and a watcher on it.
AcquireBootLock(p) ==
    /\ phase[p] = "down" /\ lock = Free
    /\ phase' = [phase EXCEPT ![p] = "booting"]
    /\ live' = live \cup {p}
    /\ lock' = <<p, "live">>
    /\ conn' = conn \cup {p}
    /\ watch' = [watch EXCEPT ![p] = "tick"]
    /\ overtaken' = Others(p, overtaken)
    /\ UNCHANGED deaths

\* ErrLocked: the boot goes on only under --allow-multi-instance, with no lock and
\* no watcher.  Otherwise it polls for --boot-lock-wait or gives up.
ContinueUnlocked(p) ==
    /\ AllowMultiInstance
    /\ phase[p] = "down" /\ lock # Free
    /\ phase' = [phase EXCEPT ![p] = "booting"]
    /\ live' = live \cup {p}
    /\ UNCHANGED <<lock, conn, watch, overtaken, deaths>>

\* Migrations, pools, services and listeners came up.
Serve(p) ==
    /\ phase[p] = "booting"
    /\ phase' = [phase EXCEPT ![p] = "serving"]
    /\ UNCHANGED <<live, lock, conn, watch, overtaken, deaths>>

\* Some step of Boot returns an error: the deferred calls run.
BootFails(p) ==
    /\ phase[p] = "booting"
    /\ phase' = [phase EXCEPT ![p] = "unlocking"]
    /\ UNCHANGED <<live, lock, conn, watch, overtaken, deaths>>

-----------------------------------------------------------------------------
(* Shutdown *)

\* A signal or a dead listener ends Server.Run.  The context NotifyContext
\* cancels is Run's own; the one Boot gave the background workers lives on.
RunInterrupted(p) ==
    /\ Interrupts /\ phase[p] = "serving"
    /\ phase' = [phase EXCEPT ![p] = "draining"]
    /\ UNCHANGED <<live, lock, conn, watch, overtaken, deaths>>

\* The lifetime context was cancelled: Run drains its listeners and returns.
RunCancelled(p) ==
    /\ phase[p] = "serving" /\ p \notin live
    /\ phase' = [phase EXCEPT ![p] = "draining"]
    /\ UNCHANGED <<live, lock, conn, watch, overtaken, deaths>>

\* Mutant: the lock goes before the serving pool is closed.
ClosePool_UnlocksFirst(p) ==
    /\ phase[p] = "draining"
    /\ lock' = IF lock = <<p, "live">> THEN Free ELSE lock
    /\ UNCHANGED <<phase, live, conn, watch, overtaken, deaths>>

\* waitForBackground has returned; pool.Close waits for the connections in use.
ClosePool(p) ==
    /\ phase[p] = "draining"
    /\ phase' = [phase EXCEPT ![p] = "unlocking"]
    /\ UNCHANGED <<live, lock, conn, watch, overtaken, deaths>>

\* Release, the end of the process and of its sessions.
Release(p) ==
    /\ phase[p] = "unlocking"
    /\ phase' = [phase EXCEPT ![p] = "down"]
    /\ lock' = IF lock = <<p, "live">> THEN Free ELSE lock
    /\ live' = live \ {p}
    /\ conn' = conn \ {p}
    /\ watch' = [watch EXCEPT ![p] = "none"]
    /\ overtaken' = overtaken \ {p}
    /\ UNCHANGED deaths

Crash(p) ==
    /\ phase[p] # "down"
    /\ phase' = [phase EXCEPT ![p] = "down"]
    /\ lock' = IF lock = <<p, "live">> THEN <<p, "dead">> ELSE lock
    /\ live' = live \ {p}
    /\ conn' = conn \ {p}
    /\ watch' = [watch EXCEPT ![p] = "none"]
    /\ overtaken' = overtaken \ {p}
    /\ UNCHANGED deaths

-----------------------------------------------------------------------------
(* The database session and the watcher *)

SessionDies(p) ==
    /\ lock = <<p, "live">> /\ deaths < MaxDeaths
    /\ lock' = <<p, "dead">>
    /\ deaths' = deaths + 1
    /\ UNCHANGED <<phase, live, conn, watch, overtaken>>

\* The backend of a dead session exits and its locks come free.
BackendExits ==
    /\ \E p \in Procs : lock = <<p, "dead">>
    /\ lock' = Free
    /\ UNCHANGED <<phase, live, conn, watch, overtaken, deaths>>

\* check: the ping of the pinned session fails, or there is none since a recovery
\* that could not reach the database; the session is given up.
Check(p) ==
    /\ watch[p] = "tick" /\ p \in live
    /\ p \in conn => lock # <<p, "live">>
    /\ conn' = conn \ {p}
    /\ watch' = [watch EXCEPT ![p] = "recover"]
    /\ UNCHANGED <<phase, live, lock, overtaken, deaths>>

\* tryTakeLock succeeds on a fresh connection.
Retaken(p) ==
    /\ watch[p] = "recover" /\ lock = Free
    /\ lock' = <<p, "live">>
    /\ conn' = conn \cup {p}
    /\ watch' = [watch EXCEPT ![p] = "tick"]
    /\ overtaken' = overtaken \cup Others(p, {})
    /\ UNCHANGED <<phase, live, deaths>>

\* tryTakeLock cannot reach the database: the verdict waits for the next tick.
Unreachable(p) ==
    /\ watch[p] = "recover"
    /\ watch' = [watch EXCEPT ![p] = "tick"]
    /\ UNCHANGED <<phase, live, lock, conn, overtaken, deaths>>

\* Mutant: the first refusal is the verdict.
WindowCloses_NoRetry(p) ==
    /\ watch[p] = "recover" /\ lock # Free
    /\ watch' = [watch EXCEPT ![p] = "lost"]
    /\ UNCHANGED <<phase, live, lock, conn, overtaken, deaths>>

\* Held at every attempt until the retry window closed: checkLost.  A lock that is
\* still there when a window has passed is not the process's own corpse, if corpses
\* go that fast.
WindowCloses(p) ==
    /\ watch[p] = "recover" /\ lock # Free
    /\ FastDrain => lock # <<p, "dead">>
    /\ watch' = [watch EXCEPT ![p] = "lost"]
    /\ UNCHANGED <<phase, live, lock, conn, overtaken, deaths>>

\* Mutant: nobody selects on Lost().
WatchBootLock_Ignored(p) == watch[p] = "lost" /\ UNCHANGED lockVars

\* watchBootLock cancels the lifetime context.
WatchBootLock(p) ==
    /\ watch[p] = "lost" /\ p \in live
    /\ live' = live \ {p}
    /\ UNCHANGED <<phase, lock, conn, watch, overtaken, deaths>>

-----------------------------------------------------------------------------
Watcher(p) ==
    Check(p) \/ Retaken(p) \/ Unreachable(p) \/ WindowCloses(p) \/ WatchBootLock(p)

Fault(p) == Crash(p) \/ SessionDies(p)

LockNext ==
    \/ \E p \in Procs :
          \/ AcquireBootLock(p) \/ ContinueUnlocked(p) \/ Serve(p) \/ BootFails(p)
          \/ RunInterrupted(p) \/ RunCancelled(p) \/ ClosePool(p) \/ Release(p)
          \/ Watcher(p) \/ Fault(p)
    \/ BackendExits

LockSpec == LockInit /\ [][LockNext]_lockVars

-----------------------------------------------------------------------------
(* Properties *)

\* The type of every variable; GcRuns checks it as part of its own.
LockTypeOK ==
    /\ phase \in [Procs -> Phases]
    /\ live \subseteq Procs
    /\ lock \in {Free} \cup (Procs \X {"live", "dead"})
    /\ conn \subseteq Procs
    /\ watch \in [Procs -> {"none", "tick", "recover", "lost"}]
    /\ overtaken \subseteq Procs
    /\ deaths \in 0..MaxDeaths

\* While sessions do not die, at most one process has its serving pool open, through
\* every boot, failed boot, shutdown and crash: the lock is taken before the first
\* statement and given back after the last.
SoleServer ==
    AllowMultiInstance \/ deaths > 0 \/ Cardinality({p \in Procs : Up(p)}) <= 1

\* A process that shuts itself down over the lock has really been overtaken: its own
\* corpse, still draining, is never taken for another instance.
LossIsReal == \A p \in Procs : watch[p] = "lost" => p \in overtaken

=============================================================================
