---------------------------- MODULE UpstreamPool ----------------------------
(***************************************************************************)
(* A hash server's upstream (upstream.go, upstreams.go): the client of one *)
(* connection, whose answers come back in order and carry no request ids;  *)
(* the pool of such connections behind permits; and the backfiller, whose  *)
(* workers ask through the pool.  Operations of the pool are run by        *)
(* requests (Callers) and by Workers.  A connection is what has been       *)
(* written and not yet answered, and whether its peer is there.            *)
(***************************************************************************)
EXTENDS Naturals, Sequences, SequencesExt, FiniteSets

CONSTANTS
    Callers, Workers, Waiters,
    Items,       \* get-stream misses that are enqueued, each once
    MaxConns,    \* permits
    QueueSize,
    Legs,        \* exchanges of an operation: 1, or 3 for exists-stream
    MaxFaults    \* bound on refused dials, invoke-errors and dropped peers

UpstreamPoolAssumption ==
    /\ MaxConns \in Nat \ {0} /\ QueueSize \in Nat \ {0} /\ MaxFaults \in Nat
    /\ Legs \subseteq {1, 3} /\ Callers \cap Workers = {}
    /\ IsFiniteSet(Callers) /\ IsFiniteSet(Workers) /\ "none" \notin Items

Procs == Callers \cup Workers
Nil == "none"
NewConn == [owed |-> << >>, up |-> TRUE]
Rest == [at |-> "rest", fresh |-> FALSE, reused |-> FALSE, conn |-> NewConn, broken |-> FALSE,
         legs |-> 0, total |-> 0, err |-> Nil, answer |-> Nil, item |-> Nil]

VARIABLES
    sem,      \* permits taken
    idle,     \* the pool's idle connections, the last one is taken first
    closed,   \* the pool is closed
    op,       \* per process: its operation on the pool
    backlog, pending, open,   \* the backfiller's queue, its count and whether `drained` is open
    round,    \* which `drained` channel is current
    life,     \* the backfiller: "running", "closing", "draining", "closed"
    wait,     \* per waiter: the channel it captured and what was unfinished then
    todo,     \* items not yet enqueued or dropped
    faults

pool == <<sem, idle, closed>>
back == <<backlog, pending, open, round, life>>
poolVars == <<sem, idle, closed, op, backlog, pending, open, round, life, wait, todo, faults>>

NotWaiting == [at |-> "no", round |-> 0, seen |-> {}]

PoolInit ==
    /\ sem = 0 /\ idle = << >> /\ closed = FALSE /\ op = [p \in Procs |-> Rest]
    /\ backlog = << >> /\ pending = 0 /\ open = FALSE /\ round = 0 /\ life = "running"
    /\ wait = [w \in Waiters |-> NotWaiting] /\ todo = Items /\ faults = 0

\* An operation of n exchanges that waits for its permit.
Asks(fresh, n, item) ==
    [Rest EXCEPT !.at = "permit", !.fresh = fresh, !.legs = n, !.total = n, !.item = item]

Set(p, r) == op' = [op EXCEPT ![p] = r]
Fault == faults < MaxFaults /\ faults' = faults + 1

\* An operation returns: a request is over, a worker goes on to the insert or is done.
Returned(p, found) ==
    IF p \in Callers THEN Rest
    ELSE [Rest EXCEPT !.at = IF found THEN "insert" ELSE "done", !.item = op[p].item]

-----------------------------------------------------------------------------
(* The pool *)

\* A request misses locally and asks upstream, within OpTimeout.
Begin(c) ==
    /\ op[c].at = "rest"
    /\ \E n \in Legs : Set(c, Asks(FALSE, n, Nil))
    /\ UNCHANGED <<pool, back, wait, todo, faults>>

\* checkout waits for a permit ...
TakePermit(p) ==
    /\ op[p].at = "permit" /\ sem < MaxConns
    /\ sem' = sem + 1 /\ Set(p, [op[p] EXCEPT !.at = "checkout"])
    /\ UNCHANGED <<idle, closed, back, wait, todo, faults>>

\* ... or until its context ends.
GiveUp(p) ==
    /\ op[p].at = "permit" /\ Set(p, Returned(p, FALSE))
    /\ UNCHANGED <<pool, back, wait, todo, faults>>

\* The latest idle connection, a fresh one, or none when the pool is closed.
Checkout(p) ==
    /\ op[p].at = "checkout"
    /\ \/ closed /\ sem' = sem - 1 /\ Set(p, Returned(p, FALSE)) /\ UNCHANGED idle
       \/ /\ ~closed /\ ~op[p].fresh /\ idle # << >>
          /\ Set(p, [op[p] EXCEPT !.at = "write", !.reused = TRUE, !.conn = Last(idle)])
          /\ idle' = Front(idle) /\ UNCHANGED sem
       \/ /\ ~closed /\ (op[p].fresh \/ idle = << >>)
          /\ Set(p, [op[p] EXCEPT !.at = "dial"]) /\ UNCHANGED <<sem, idle>>
    /\ UNCHANGED <<closed, back, wait, todo, faults>>

\* Mutant: a failed dial keeps its permit.
Dial_Leaks(p) ==
    /\ op[p].at = "dial"
    /\ \/ Set(p, [op[p] EXCEPT !.at = "write"]) /\ UNCHANGED <<sem, faults>>
       \/ Fault /\ Set(p, Returned(p, FALSE)) /\ UNCHANGED sem
    /\ UNCHANGED <<idle, closed, back, wait, todo>>

\* DialUpstream: upgrade, handshake and the in-band auth, or the permit is given back.
Dial(p) ==
    /\ op[p].at = "dial"
    /\ \/ Set(p, [op[p] EXCEPT !.at = "write"]) /\ UNCHANGED <<sem, faults>>
       \/ Fault /\ Set(p, Returned(p, FALSE)) /\ sem' = sem - 1
    /\ UNCHANGED <<idle, closed, back, wait, todo>>

Breaks(p, err) == Set(p, [op[p] EXCEPT !.at = "checkin", !.broken = TRUE, !.err = err])

\* A request message goes out; the peer owes an answer.
WriteMsg(p) ==
    /\ op[p].at = "write"
    /\ IF op[p].conn.up
       THEN Set(p, [op[p] EXCEPT !.at = "read", !.conn.owed = Append(@, p)])
       ELSE Breaks(p, "transport")
    /\ UNCHANGED <<pool, back, wait, todo, faults>>

\* The oldest answer owed is taken for the one that was asked for.
Answered(o) ==
    [o EXCEPT !.at = IF o.legs = 1 THEN "checkin" ELSE "write", !.legs = @ - 1,
              !.conn.owed = Tail(@), !.answer = Head(o.conn.owed)]

\* The next message is read: the answer, an invoke-error, or the end of the connection.
ReadMsg(p) ==
    /\ op[p].at = "read"
    /\ \/ op[p].conn.up /\ Set(p, Answered(op[p])) /\ UNCHANGED faults
       \/ op[p].conn.up /\ Fault /\ Breaks(p, "invoke")
       \/ ~op[p].conn.up /\ Breaks(p, "transport") /\ UNCHANGED faults
    /\ UNCHANGED <<pool, back, wait, todo>>

\* OpTimeout, the request's end or the worker's cancellation, in the middle of an exchange.
Expire(p) ==
    /\ op[p].at \in {"write", "read"} /\ Breaks(p, "expired")
    /\ UNCHANGED <<pool, back, wait, todo, faults>>

\* What try decides: once more on a fresh connection, or the operation returns.
AfterTry(p) ==
    LET o == op[p] IN
    IF o.reused /\ o.broken /\ o.err = "transport" /\ ~o.fresh
    THEN Asks(TRUE, o.total, o.item)
    ELSE Returned(p, o.err = Nil)

\* Mutant: every connection goes back to the pool.
Checkin_Pools(p) ==
    /\ op[p].at = "checkin"
    /\ idle' = IF closed THEN idle ELSE Append(idle, op[p].conn)
    /\ sem' = sem - 1 /\ Set(p, AfterTry(p))
    /\ UNCHANGED <<closed, back, wait, todo, faults>>

\* checkin: a broken connection, or one of a closed pool, is destroyed.
Checkin(p) ==
    /\ op[p].at = "checkin"
    /\ idle' = IF closed \/ op[p].broken THEN idle ELSE Append(idle, op[p].conn)
    /\ sem' = sem - 1 /\ Set(p, AfterTry(p))
    /\ UNCHANGED <<closed, back, wait, todo, faults>>

\* The upstream restarts, or drops the connections it finds idle.
PeerDrops ==
    /\ Fault
    /\ idle' = [i \in DOMAIN idle |-> [idle[i] EXCEPT !.up = FALSE]]
    /\ op' \in {op, [p \in Procs |-> [op[p] EXCEPT !.conn.up = FALSE]]}
    /\ UNCHANGED <<sem, closed, back, wait, todo>>

-----------------------------------------------------------------------------
(* The backfiller *)

\* Enqueue never blocks: a full or closed queue drops.
Enqueue ==
    /\ \E i \in todo :
         /\ todo' = todo \ {i}
         /\ IF life # "running" \/ Len(backlog) = QueueSize
            THEN UNCHANGED <<backlog, pending, open, round>>
            ELSE /\ backlog' = Append(backlog, i) /\ pending' = pending + 1
                 /\ open' = TRUE /\ round' = IF pending = 0 THEN round + 1 ELSE round
    /\ UNCHANGED <<pool, op, life, wait, faults>>

Done ==
    /\ pending' = pending - 1 /\ open' = (pending # 1) /\ UNCHANGED round

\* Mutant: an item is counted until a worker takes it.
WorkerTake_Counts(w) ==
    /\ op[w].at = "rest" /\ backlog # << >> /\ life \in {"running", "closing"}
    /\ backlog' = Tail(backlog) /\ Done
    /\ Set(w, Asks(FALSE, 1, Head(backlog)))
    /\ UNCHANGED <<pool, life, wait, todo, faults>>

\* run: the select takes an item, also after the cancellation ...
WorkerTake(w) ==
    /\ op[w].at = "rest" /\ backlog # << >> /\ life \in {"running", "closing"}
    /\ backlog' = Tail(backlog) /\ UNCHANGED <<pending, open, round>>
    /\ Set(w, Asks(FALSE, 1, Head(backlog)))
    /\ UNCHANGED <<pool, life, wait, todo, faults>>

\* ... or the worker leaves.
WorkerExit(w) ==
    /\ op[w].at = "rest" /\ life = "closing" /\ Set(w, [Rest EXCEPT !.at = "gone"])
    /\ UNCHANGED <<pool, back, wait, todo, faults>>

\* process: the insert of a unihash the upstream knows; it may fail, or the answer was a miss.
WorkerInsert(w) ==
    /\ op[w].at = "insert" /\ Set(w, [op[w] EXCEPT !.at = "done"])
    /\ UNCHANGED <<pool, back, wait, todo, faults>>

WorkerDone(w) ==
    /\ op[w].at = "done" /\ Done /\ Set(w, Rest)
    /\ UNCHANGED <<pool, backlog, life, wait, todo, faults>>

Unfinished == ToSet(backlog) \cup ({op[w].item : w \in Workers} \ {Nil})

\* Wait: depth and channel are read under one lock ...
WaitEnter(v) ==
    /\ wait[v].at = "no"
    /\ wait' = [wait EXCEPT ![v] = [at |-> "waits", round |-> round, seen |-> Unfinished]]
    /\ UNCHANGED <<pool, op, back, todo, faults>>

\* ... and it returns when that channel is closed.  Its own context may end it too.
WaitReturn(v) ==
    /\ wait[v].at = "waits" /\ ~(open /\ wait[v].round = round)
    /\ wait' = [wait EXCEPT ![v] = NotWaiting]
    /\ UNCHANGED <<pool, op, back, todo, faults>>

-----------------------------------------------------------------------------
(* closeChain: the backfiller, then the pool *)

\* A rewritten address or the shutdown: closed, and the workers' context cancelled.
CloseBackfiller ==
    /\ life = "running" /\ life' = "closing"
    /\ UNCHANGED <<pool, op, backlog, pending, open, round, wait, todo, faults>>

WorkersGone ==
    /\ life = "closing" /\ life' = "draining" /\ \A w \in Workers : op[w].at = "gone"
    /\ UNCHANGED <<pool, op, backlog, pending, open, round, wait, todo, faults>>

\* Mutant: what is left in the queue is left.
Drain_Skips ==
    /\ life = "draining" /\ life' = "closed"
    /\ UNCHANGED <<backlog, pending, open, round>>
    /\ UNCHANGED <<pool, op, wait, todo, faults>>

\* What the workers left is retired; then CloseChain returns.
Drain ==
    /\ life = "draining"
    /\ IF backlog = << >> THEN life' = "closed" /\ UNCHANGED <<backlog, pending, open, round>>
       ELSE backlog' = Tail(backlog) /\ Done /\ UNCHANGED life
    /\ UNCHANGED <<pool, op, wait, todo, faults>>

\* Upstream.CloseChain: the idle connections are destroyed; those in use at their checkin.
ClosePool ==
    /\ life = "closed" /\ ~closed /\ closed' = TRUE /\ idle' = << >>
    /\ UNCHANGED <<sem, op, back, wait, todo, faults>>

-----------------------------------------------------------------------------
Operation(p) ==
    \/ TakePermit(p) \/ GiveUp(p) \/ Checkout(p) \/ Dial(p) \/ WriteMsg(p) \/ ReadMsg(p)
    \/ Expire(p) \/ Checkin(p)

Worker(w) == Operation(w) \/ WorkerTake(w) \/ WorkerExit(w) \/ WorkerInsert(w) \/ WorkerDone(w)

CloseChain == WorkersGone \/ Drain \/ ClosePool

PoolNext ==
    \/ \E c \in Callers : Begin(c) \/ Operation(c)
    \/ \E w \in Workers : Worker(w)
    \/ \E v \in Waiters : WaitEnter(v) \/ WaitReturn(v)
    \/ PeerDrops \/ Enqueue \/ CloseBackfiller \/ CloseChain

PoolSpec == PoolInit /\ [][PoolNext]_poolVars

-----------------------------------------------------------------------------
(* Properties *)

\* Whoever reads an answer reads the one to its own question, whatever timed out on that
\* connection before: without request ids nothing else would tell.
AnswersMatch == \A p \in Procs : op[p].answer \in {Nil, p}

\* When nobody is using the pool every permit is back, whichever way operations ended.
PermitsComeBack == (\A p \in Procs : op[p].at \in {"rest", "permit", "gone"}) => sem = 0

\* Both: what the pool promises those who ask through it.
PoolIsSound == AnswersMatch /\ PermitsComeBack

\* backfill-wait returns only after everything that was queued or being written when it
\* was called is finished or abandoned.
WaitCoversWhatItSaw ==
    \A v \in Waiters : wait[v].at = "waits" /\ wait'[v].at = "no" =>
        wait[v].seen \cap Unfinished = {}

=============================================================================
