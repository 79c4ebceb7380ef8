------------------------- MODULE UpstreamPoolProofs -------------------------
(***************************************************************************)
(* Proofs about UpstreamPool, for any number of requests, workers, waiters *)
(* and connections: answers go to those who asked, permits come back, and  *)
(* backfill-wait waits for what it saw.                                    *)
(*                                                                         *)
(* An answer finds its question because a connection that is idle, or has  *)
(* just been taken, owes nothing: one that was given up in the middle of   *)
(* an exchange is broken and never pooled.  The permits are as many as the *)
(* operations between their checkout and their checkin.  And `pending`     *)
(* counts the backlog and the workers with an item, so the channel a       *)
(* waiter holds stays open as long as anything it saw is unfinished.       *)
(***************************************************************************)
EXTENDS UpstreamPool, FiniteSetTheorems, TLAPS

Conns == [owed : Seq(Procs), up : BOOLEAN]

Places == {"rest", "permit", "checkout", "dial", "write", "read", "checkin", "insert", "done", "gone"}
Errors == {Nil, "transport", "invoke", "expired"}

Operations ==
    [at : Places, fresh : BOOLEAN, reused : BOOLEAN, conn : Conns, broken : BOOLEAN,
     legs : Nat, total : Nat, err : Errors, answer : Procs \cup {Nil},
     item : Items \cup {Nil}]

Asking == {"permit", "checkout", "dial", "write", "read"}
Using == {"checkout", "dial", "write", "read", "checkin"}
Resting == {"rest", "gone"}

\* What holds of the operation o of a process p.
Sound(p, o) ==
    /\ o.at # "checkin" => ~o.broken
    /\ ~o.broken => o.conn.owed = IF o.at = "read" THEN <<p>> ELSE << >>
    /\ o.answer \in {Nil, p}
    /\ o.at \in Asking => o.legs # 0
    /\ o.at \in Asking \cup {"checkin"} => o.total # 0
    /\ p \in Workers => (o.item = Nil <=> o.at \in Resting)

InUse == {p \in Procs : op[p].at \in Using}

PoolInv ==
    /\ op \in [Procs -> Operations]
    /\ \A p \in Procs : Sound(p, op[p])
    /\ idle \in Seq(Conns)
    /\ \A i \in DOMAIN idle : idle[i].owed = << >>
    /\ closed \in BOOLEAN
    /\ sem = Cardinality(InUse)

Busy == {w \in Workers : op[w].at \notin Resting}

Waits == [at : {"no", "waits"}, round : Nat, seen : SUBSET Items]

\* What a waiter saw is over, or the channel it holds is the open one; and nothing it saw
\* is enqueued again.
Covered(v) ==
    wait[v].at = "waits" =>
        /\ wait[v].seen \cap todo = {}
        /\ wait[v].seen \cap Unfinished = {} \/ (open /\ wait[v].round = round)

QueueInv ==
    /\ backlog \in Seq(Items) /\ todo \subseteq Items /\ round \in Nat
    /\ pending = Len(backlog) + Cardinality(Busy)
    /\ open = (pending # 0)
    /\ Unfinished \cap todo = {}
    /\ wait \in [Waiters -> Waits]
    /\ \A v \in Waiters : Covered(v)

Inv == PoolInv /\ QueueInv

-----------------------------------------------------------------------------
(* The records of operations *)

LEMMA RestRecord ==
  /\ Rest \in Operations
  /\ Rest.at = "rest" /\ ~Rest.broken /\ Rest.conn.owed = << >> /\ Rest.answer = Nil
  /\ Rest.item = Nil
  BY DEF Rest, Operations, Places, Errors, Conns, NewConn

LEMMA AtRecord ==
  ASSUME NEW o \in Operations, NEW a \in Places
  PROVE  LET n == [o EXCEPT !.at = a] IN
         /\ n \in Operations
         /\ n.at = a /\ n.broken = o.broken /\ n.conn = o.conn /\ n.answer = o.answer
         /\ n.legs = o.legs /\ n.total = o.total /\ n.item = o.item
  BY DEF Operations

LEMMA AsksRecord ==
  ASSUME NEW f \in BOOLEAN, NEW n \in Nat, NEW i \in Items \cup {Nil}
  PROVE  LET o == Asks(f, n, i) IN
         /\ o \in Operations
         /\ o.at = "permit" /\ ~o.broken /\ o.conn.owed = << >> /\ o.answer = Nil
         /\ o.legs = n /\ o.total = n /\ o.item = i
  <1> DEFINE a == [Rest EXCEPT !.at = "permit"]
             b == [a EXCEPT !.fresh = f]
             c == [b EXCEPT !.legs = n]
             d == [c EXCEPT !.total = n]
             e == [d EXCEPT !.item = i]
  <1>1. /\ a \in Operations
        /\ a.at = "permit" /\ ~a.broken /\ a.conn.owed = << >> /\ a.answer = Nil
    BY RestRecord, AtRecord DEF Places
  <1>2. /\ b \in Operations
        /\ b.at = a.at /\ b.broken = a.broken /\ b.conn = a.conn /\ b.answer = a.answer
    <2> HIDE DEF a
    <2> QED
      BY <1>1 DEF Operations
  <1>3. /\ c \in Operations
        /\ c.at = b.at /\ c.broken = b.broken /\ c.conn = b.conn /\ c.answer = b.answer
        /\ c.legs = n
    <2> HIDE DEF b
    <2> QED
      BY <1>2 DEF Operations
  <1>4. /\ d \in Operations
        /\ d.at = c.at /\ d.broken = c.broken /\ d.conn = c.conn /\ d.answer = c.answer
        /\ d.legs = n /\ d.total = n
    <2> HIDE DEF c
    <2> QED
      BY <1>3 DEF Operations
  <1>5. /\ e \in Operations
        /\ e.at = d.at /\ e.broken = d.broken /\ e.conn = d.conn /\ e.answer = d.answer
        /\ e.legs = n /\ e.total = n /\ e.item = i
    <2> HIDE DEF d
    <2> QED
      BY <1>4 DEF Operations
  <1>6. Asks(f, n, i) = e
    BY Zenon DEF Asks
  <1> HIDE DEF a, b, c, d, e
  <1> QED
    BY <1>1, <1>2, <1>3, <1>4, <1>5, <1>6

LEMMA ReturnedRecord ==
  ASSUME NEW p \in Procs, op[p] \in Operations, NEW found \in BOOLEAN
  PROVE  LET o == Returned(p, found) IN
         /\ o \in Operations
         /\ o.at \in {"rest", "insert", "done"} /\ (p \notin Callers => o.at # "rest")
         /\ ~o.broken /\ o.conn.owed = << >> /\ o.answer = Nil
         /\ o.item = IF p \in Callers THEN Nil ELSE op[p].item
  <1>1. CASE p \in Callers
    BY <1>1, RestRecord DEF Returned
  <1>2. CASE p \notin Callers
    <2> DEFINE x == IF found THEN "insert" ELSE "done"
               a == [Rest EXCEPT !.at = x]
               b == [a EXCEPT !.item = op[p].item]
    <2>1. /\ a \in Operations
          /\ a.at = x /\ ~a.broken /\ a.conn.owed = << >> /\ a.answer = Nil
      <3>1. x \in Places
        BY DEF Places
      <3> QED
        BY <3>1, RestRecord, AtRecord
    <2>2. /\ b \in Operations
          /\ b.at = a.at /\ b.broken = a.broken /\ b.conn = a.conn /\ b.answer = a.answer
          /\ b.item = op[p].item
      <3> HIDE DEF a
      <3> QED
        BY <2>1 DEF Operations
    <2>3. Returned(p, found) = [Rest EXCEPT !.at = x, !.item = op[p].item]
      BY <1>2 DEF Returned
    <2>5. @ = b
      BY Zenon
    <2>4. x \in {"insert", "done"}
      OBVIOUS
    <2> HIDE DEF a, b, x
    <2> QED
      BY <1>2, <2>1, <2>2, <2>3, <2>4, <2>5
  <1> QED
    BY <1>1, <1>2

LEMMA BrokenRecord ==
  ASSUME NEW o \in Operations, NEW e \in Errors
  PROVE  LET n == [o EXCEPT !.at = "checkin", !.broken = TRUE, !.err = e] IN
         /\ n \in Operations
         /\ n.at = "checkin" /\ n.broken /\ n.conn = o.conn /\ n.answer = o.answer
         /\ n.legs = o.legs /\ n.total = o.total /\ n.item = o.item
  <1> DEFINE a == [o EXCEPT !.at = "checkin"]
             b == [a EXCEPT !.broken = TRUE]
             c == [b EXCEPT !.err = e]
  <1>1. /\ a \in Operations
        /\ a.at = "checkin" /\ a.conn = o.conn /\ a.answer = o.answer
        /\ a.legs = o.legs /\ a.total = o.total /\ a.item = o.item
    BY AtRecord DEF Places
  <1>2. /\ b \in Operations
        /\ b.at = a.at /\ b.broken /\ b.conn = a.conn /\ b.answer = a.answer
        /\ b.legs = a.legs /\ b.total = a.total /\ b.item = a.item
    <2> HIDE DEF a
    <2> QED
      BY <1>1 DEF Operations
  <1>3. /\ c \in Operations
        /\ c.at = b.at /\ c.broken /\ c.conn = b.conn /\ c.answer = b.answer
        /\ c.legs = b.legs /\ c.total = b.total /\ c.item = b.item
    <2> HIDE DEF b
    <2> QED
      BY <1>2 DEF Operations
  <1>4. [o EXCEPT !.at = "checkin", !.broken = TRUE, !.err = e] = c
    BY Zenon
  <1> QED
    BY <1>1, <1>2, <1>3, <1>4

LEMMA TakenRecord ==
  ASSUME NEW o \in Operations, NEW k \in Conns
  PROVE  LET n == [o EXCEPT !.at = "write", !.reused = TRUE, !.conn = k] IN
         /\ n \in Operations
         /\ n.at = "write" /\ n.broken = o.broken /\ n.conn = k /\ n.answer = o.answer
         /\ n.legs = o.legs /\ n.total = o.total /\ n.item = o.item
  <1> DEFINE a == [o EXCEPT !.at = "write"]
             b == [a EXCEPT !.reused = TRUE]
             c == [b EXCEPT !.conn = k]
  <1>1. /\ a \in Operations
        /\ a.at = "write" /\ a.broken = o.broken /\ a.answer = o.answer
        /\ a.legs = o.legs /\ a.total = o.total /\ a.item = o.item
    BY AtRecord DEF Places
  <1>2. /\ b \in Operations
        /\ b.at = a.at /\ b.broken = a.broken /\ b.answer = a.answer
        /\ b.legs = a.legs /\ b.total = a.total /\ b.item = a.item
    <2> HIDE DEF a
    <2> QED
      BY <1>1 DEF Operations
  <1>3. /\ c \in Operations
        /\ c.at = b.at /\ c.broken = b.broken /\ c.conn = k /\ c.answer = b.answer
        /\ c.legs = b.legs /\ c.total = b.total /\ c.item = b.item
    <2> HIDE DEF b
    <2> QED
      BY <1>2 DEF Operations
  <1>4. [o EXCEPT !.at = "write", !.reused = TRUE, !.conn = k] = c
    BY Zenon
  <1> QED
    BY <1>1, <1>2, <1>3, <1>4

LEMMA OwingRecord ==
  ASSUME NEW o \in Operations, NEW s \in Seq(Procs)
  PROVE  LET n == [o EXCEPT !.conn = [o.conn EXCEPT !.owed = s]] IN
         /\ n \in Operations
         /\ n.at = o.at /\ n.broken = o.broken /\ n.conn.owed = s /\ n.answer = o.answer
         /\ n.legs = o.legs /\ n.total = o.total /\ n.item = o.item
  <1>1. [o.conn EXCEPT !.owed = s] \in Conns /\ [o.conn EXCEPT !.owed = s].owed = s
    BY DEF Operations, Conns
  <1> QED
    BY <1>1 DEF Operations

LEMMA AskedRecord ==
  ASSUME NEW o \in Operations, NEW p \in Procs
  PROVE  LET n == [o EXCEPT !.at = "read", !.conn.owed = Append(@, p)] IN
         /\ n \in Operations
         /\ n.at = "read" /\ n.broken = o.broken /\ n.conn.owed = Append(o.conn.owed, p)
         /\ n.answer = o.answer /\ n.legs = o.legs /\ n.total = o.total /\ n.item = o.item
  <1> DEFINE a == [o EXCEPT !.at = "read"]
             c == [a EXCEPT !.conn = [a.conn EXCEPT !.owed = Append(a.conn.owed, p)]]
  <1>1. /\ a \in Operations
        /\ a.at = "read" /\ a.broken = o.broken /\ a.conn = o.conn /\ a.answer = o.answer
        /\ a.legs = o.legs /\ a.total = o.total /\ a.item = o.item
    BY AtRecord DEF Places
  <1>2. Append(a.conn.owed, p) \in Seq(Procs)
    BY <1>1 DEF Operations, Conns
  <1>3. /\ c \in Operations
        /\ c.at = a.at /\ c.broken = a.broken /\ c.conn.owed = Append(a.conn.owed, p)
        /\ c.answer = a.answer /\ c.legs = a.legs /\ c.total = a.total /\ c.item = a.item
    <2> HIDE DEF a
    <2> QED
      BY <1>1, <1>2, OwingRecord
  <1>4. [o EXCEPT !.at = "read", !.conn.owed = Append(@, p)] = c
    BY SMT
  <1> QED
    BY <1>1, <1>3, <1>4

LEMMA AnsweredRecord ==
  ASSUME NEW o \in Operations, NEW p \in Procs, o.legs # 0, o.conn.owed = <<p>>
  PROVE  LET n == Answered(o) IN
         /\ n \in Operations
         /\ n.at \in {"checkin", "write"} /\ (n.at # "checkin" => n.legs # 0)
         /\ n.broken = o.broken /\ n.conn.owed = << >> /\ n.answer = p
         /\ n.total = o.total /\ n.item = o.item
  <1> DEFINE w == IF o.legs = 1 THEN "checkin" ELSE "write"
             q == Head(o.conn.owed)
             a == [o EXCEPT !.at = w]
             b == [a EXCEPT !.legs = @ - 1]
             c == [b EXCEPT !.conn = [b.conn EXCEPT !.owed = Tail(b.conn.owed)]]
             d == [c EXCEPT !.answer = q]
  <1>1. /\ a \in Operations
        /\ a.at = w /\ a.broken = o.broken /\ a.conn = o.conn
        /\ a.legs = o.legs /\ a.total = o.total /\ a.item = o.item
    <2>1. w \in Places
      BY DEF Places
    <2> QED
      BY <2>1, AtRecord
  <1>2. /\ b \in Operations
        /\ b.at = a.at /\ b.broken = a.broken /\ b.conn = a.conn
        /\ b.legs = a.legs - 1 /\ b.total = a.total /\ b.item = a.item
    <2> HIDE DEF a
    <2> QED
      BY <1>1 DEF Operations
  <1>3. Tail(b.conn.owed) \in Seq(Procs)
    <2>1. b.conn.owed = <<p>>
      BY <1>1, <1>2
    <2> HIDE DEF b
    <2> QED
      BY <2>1
  <1>4. /\ c \in Operations
        /\ c.at = b.at /\ c.broken = b.broken /\ c.conn.owed = Tail(b.conn.owed)
        /\ c.legs = b.legs /\ c.total = b.total /\ c.item = b.item
    <2> HIDE DEF b
    <2> QED
      BY <1>2, <1>3, OwingRecord
  <1>5. /\ d \in Operations
        /\ d.at = c.at /\ d.broken = c.broken /\ d.conn = c.conn /\ d.answer = q
        /\ d.legs = c.legs /\ d.total = c.total /\ d.item = c.item
    <2>1. q \in Procs
      OBVIOUS
    <2> HIDE DEF c, q
    <2> QED
      BY <1>4, <2>1 DEF Operations
  <1>6. Answered(o) = d
    <2>1. Answered(o) = [o EXCEPT !.at = w, !.legs = @ - 1, !.conn.owed = Tail(@), !.answer = q]
      BY DEF Answered
    <2> HIDE DEF w, q
    <2>2. [o EXCEPT !.at = w, !.legs = @ - 1, !.conn.owed = Tail(@), !.answer = q] = d
      BY ONLY SMT DEF a, b, c, d
    <2> QED
      BY <2>1, <2>2
  <1>7. q = p /\ Tail(o.conn.owed) = << >> /\ o.legs \in Nat
    BY DEF Operations
  <1>8. w \in {"checkin", "write"} /\ (w # "checkin" => o.legs - 1 # 0)
    BY <1>7
  <1> HIDE DEF a, b, c, d, w, q
  <1> QED
    BY <1>1, <1>2, <1>4, <1>5, <1>6, <1>7, <1>8

LEMMA DroppedRecord ==
  ASSUME NEW o \in Operations
  PROVE  LET n == [o EXCEPT !.conn.up = FALSE] IN
         /\ n \in Operations
         /\ n.at = o.at /\ n.broken = o.broken /\ n.conn.owed = o.conn.owed /\ n.answer = o.answer
         /\ n.legs = o.legs /\ n.total = o.total /\ n.item = o.item
  <1> DEFINE k == [o.conn EXCEPT !.up = FALSE]
  <1>1. k \in Conns /\ k.owed = o.conn.owed
    BY DEF Operations, Conns
  <1>2. [o EXCEPT !.conn.up = FALSE] = [o EXCEPT !.conn = k]
    BY SMT
  <1> HIDE DEF k
  <1> QED
    BY <1>1, <1>2 DEF Operations

-----------------------------------------------------------------------------
(* What a step of one operation leaves alone *)

LEMMA FiniteProcs ==
  ASSUME UpstreamPoolAssumption
  PROVE  /\ IsFiniteSet(Procs) /\ IsFiniteSet(InUse) /\ IsFiniteSet(Busy)
         /\ Cardinality(InUse) \in Nat /\ Cardinality(Busy) \in Nat
  <1>1. IsFiniteSet(Procs)
    BY FS_Union DEF UpstreamPoolAssumption, Procs
  <1>2. InUse \subseteq Procs /\ Busy \subseteq Procs
    BY DEF InUse, Busy, Procs
  <1> QED
    BY <1>1, <1>2, FS_Subset, FS_CardinalityType

Permit(a) == IF a \in Using THEN 1 ELSE 0

\* One operation moves: the permits stay as many as the operations that use the pool.
LEMMA PoolStep ==
  ASSUME UpstreamPoolAssumption, PoolInv, NEW p \in Procs, NEW r \in Operations, Sound(p, r),
         Set(p, r), idle' \in Seq(Conns), \A i \in DOMAIN idle' : idle'[i].owed = << >>,
         closed' = closed, sem' = sem - Permit(op[p].at) + Permit(r.at)
  PROVE  PoolInv'
  <1>1. /\ op' \in [Procs -> Operations] /\ op'[p] = r
        /\ \A q \in Procs \ {p} : op'[q] = op[q]
    BY DEF PoolInv, Set
  <1>2. \A q \in Procs : Sound(q, op'[q])
    BY <1>1 DEF PoolInv
  <1>3. sem' = Cardinality(InUse')
    <2> DEFINE Others == InUse \ {p}
    <2>1. p \notin Others /\ IsFiniteSet(Others) /\ Cardinality(Others) \in Nat
      BY FiniteProcs, FS_Subset, FS_CardinalityType
    <2>2. InUse = IF op[p].at \in Using THEN Others \cup {p} ELSE Others
      BY DEF InUse
    <2>3. InUse' = IF r.at \in Using THEN Others \cup {p} ELSE Others
      BY <1>1 DEF InUse
    <2>4. Cardinality(Others \cup {p}) = Cardinality(Others) + 1
      BY <2>1, FS_AddElement
    <2> HIDE DEF Others
    <2>5. sem = Cardinality(Others) + Permit(op[p].at)
      BY <2>1, <2>2, <2>4 DEF PoolInv, Permit
    <2>6. Cardinality(InUse') = Cardinality(Others) + Permit(r.at)
      BY <2>1, <2>3, <2>4 DEF Permit
    <2> QED
      BY <2>1, <2>5, <2>6 DEF Permit
  <1>4. \A q \in Procs : Sound(q, op[q])'
    BY <1>2 DEF Sound
  <1> QED
    BY <1>1, <1>3, <1>4 DEF PoolInv

\* Nothing the backfiller counts is touched.
LEMMA QueueFrame ==
  ASSUME QueueInv, Busy' = Busy, Unfinished' = Unfinished,
         UNCHANGED <<backlog, pending, open, round, wait, todo>>
  PROVE  QueueInv'
  <1>1. \A v \in Waiters : Covered(v)'
    BY DEF QueueInv, Covered
  <1> QED
    BY <1>1 DEF QueueInv

\* An operation of the pool leaves a worker its item.
LEMMA OperationKeepsQueue ==
  ASSUME UpstreamPoolAssumption, PoolInv, QueueInv, NEW p \in Procs, NEW r \in Operations,
         Set(p, r), p \in Workers => /\ r.item = op[p].item
                                     /\ r.at \in Resting <=> op[p].at \in Resting,
         UNCHANGED <<backlog, pending, open, round, wait, todo>>
  PROVE  QueueInv'
  <1>1. \A w \in Workers : /\ op'[w].item = op[w].item
                           /\ op'[w].at \in Resting <=> op[w].at \in Resting
    BY DEF PoolInv, Set, Procs
  <1>2. Busy' = Busy
    BY <1>1 DEF Busy
  <1>3. {op'[w].item : w \in Workers} = {op[w].item : w \in Workers}
    BY <1>1
  <1>4. Unfinished' = Unfinished
    BY <1>3 DEF Unfinished
  <1> QED
    BY <1>2, <1>4, QueueFrame

-----------------------------------------------------------------------------
(* The operations of the pool *)

\* The operation of p becomes r and keeps its item; the idle connections and the permits
\* change as r says.
Moves(p, r) ==
    /\ r \in Operations /\ Sound(p, r) /\ Set(p, r)
    /\ p \in Workers => r.item = op[p].item
    /\ idle' \in Seq(Conns) /\ (\A i \in DOMAIN idle' : idle'[i].owed = << >>)
    /\ sem' = sem - Permit(op[p].at) + Permit(r.at)
    /\ UNCHANGED <<closed, backlog, pending, open, round, wait, todo>>

LEMMA MovesKeeps ==
  ASSUME UpstreamPoolAssumption, Inv, NEW p \in Procs, NEW r, Moves(p, r)
  PROVE  Inv'
  <1>1. PoolInv'
    BY PoolStep DEF Moves, Inv
  <1>2. p \in Workers => (r.at \in Resting <=> op[p].at \in Resting)
    BY DEF Moves, Inv, PoolInv, Sound
  <1>3. QueueInv'
    BY <1>2, OperationKeepsQueue DEF Moves, Inv
  <1> QED
    BY <1>1, <1>3 DEF Inv

\* What is known of an operation before its step.
LEMMA Before ==
  ASSUME UpstreamPoolAssumption, Inv, NEW p \in Procs
  PROVE  /\ op[p] \in Operations /\ Sound(p, op[p]) /\ sem \in Nat
         /\ op[p].item \in Items \cup {Nil} /\ op[p].total \in Nat /\ op[p].legs \in Nat
         /\ idle \in Seq(Conns) /\ \A i \in DOMAIN idle : idle[i].owed = << >>
  <1>1. sem \in Nat
    BY FiniteProcs DEF Inv, PoolInv
  <1> QED
    BY <1>1 DEF Inv, PoolInv, Operations

\* A return is sound, whoever returns.
LEMMA ReturnedIsSound ==
  ASSUME UpstreamPoolAssumption, Inv, NEW p \in Procs, NEW found \in BOOLEAN,
         op[p].at \notin Resting
  PROVE  /\ Returned(p, found) \in Operations /\ Sound(p, Returned(p, found))
         /\ p \in Workers => Returned(p, found).item = op[p].item
         /\ Permit(Returned(p, found).at) = 0
  <1> DEFINE o == Returned(p, found)
  <1>1. /\ o \in Operations
        /\ o.at \in {"rest", "insert", "done"} /\ (p \notin Callers => o.at # "rest")
        /\ ~o.broken /\ o.conn.owed = << >> /\ o.answer = Nil
        /\ o.item = IF p \in Callers THEN Nil ELSE op[p].item
    BY Before, ReturnedRecord
  <1> HIDE DEF o
  <1>2. p \in Workers => p \notin Callers
    BY DEF UpstreamPoolAssumption
  <1>3. p \in Workers => op[p].item # Nil
    BY Before DEF Sound
  <1> QED
    BY <1>1, <1>2, <1>3 DEF Sound, Asking, Resting, Permit, Using, o

LEMMA ReturnKeeps ==
  ASSUME UpstreamPoolAssumption, Inv, NEW p \in Procs, NEW found \in BOOLEAN,
         op[p].at \notin Resting, Set(p, Returned(p, found)),
         sem' = sem - Permit(op[p].at),
         idle' \in Seq(Conns), \A i \in DOMAIN idle' : idle'[i].owed = << >>,
         UNCHANGED <<closed, back, wait, todo>>
  PROVE  Inv'
  <1>1. /\ Returned(p, found) \in Operations /\ Sound(p, Returned(p, found))
        /\ p \in Workers => Returned(p, found).item = op[p].item
        /\ Permit(Returned(p, found).at) = 0
    BY ReturnedIsSound
  <1>2. sem' = sem - Permit(op[p].at) + Permit(Returned(p, found).at)
    BY <1>1, Before DEF Permit
  <1>3. Moves(p, Returned(p, found))
    BY <1>1, <1>2 DEF Moves, back
  <1> QED
    BY <1>3, MovesKeeps

LEMMA TakePermitKeeps ==
  ASSUME UpstreamPoolAssumption, Inv, NEW p \in Procs, TakePermit(p)
  PROVE  Inv'
  <1> DEFINE r == [op[p] EXCEPT !.at = "checkout"]
  <1>1. /\ r \in Operations
        /\ r.at = "checkout" /\ r.broken = op[p].broken /\ r.conn = op[p].conn
        /\ r.answer = op[p].answer /\ r.legs = op[p].legs /\ r.total = op[p].total
        /\ r.item = op[p].item
    BY Before, AtRecord DEF Places
  <1>2. Set(p, r) /\ sem' = sem + 1 /\ op[p].at = "permit" /\ UNCHANGED <<idle, closed, back, wait, todo>>
    BY DEF TakePermit
  <1> HIDE DEF r
  <1>3. Sound(p, r)
    BY <1>1, <1>2, Before DEF Sound, Asking, Resting
  <1>4. Moves(p, r)
    BY <1>1, <1>2, <1>3, Before DEF Moves, Permit, Using, back
  <1> QED
    BY <1>4, MovesKeeps

LEMMA GiveUpKeeps ==
  ASSUME UpstreamPoolAssumption, Inv, NEW p \in Procs, GiveUp(p)
  PROVE  Inv'
  <1>1. /\ op[p].at = "permit" /\ Set(p, Returned(p, FALSE))
        /\ UNCHANGED <<pool, back, wait, todo>>
    BY DEF GiveUp
  <1>2. op[p].at \notin Resting /\ Permit(op[p].at) = 0
    BY <1>1 DEF Resting, Permit, Using
  <1>3. sem' = sem - Permit(op[p].at) /\ idle' = idle /\ closed' = closed
    BY <1>1, <1>2, Before DEF pool
  <1> QED
    BY <1>1, <1>2, <1>3, Before, ReturnKeeps

\* The last idle connection is taken, the others stay.
LEMMA TakeLast ==
  ASSUME NEW s \in Seq(Conns), s # << >>, \A i \in DOMAIN s : s[i].owed = << >>
  PROVE  /\ Last(s) \in Conns /\ Last(s).owed = << >>
         /\ Front(s) \in Seq(Conns) /\ \A i \in DOMAIN Front(s) : Front(s)[i].owed = << >>
  BY DEF Last, Front

LEMMA CheckoutKeeps ==
  ASSUME UpstreamPoolAssumption, Inv, NEW p \in Procs, Checkout(p)
  PROVE  Inv'
  <1>1. op[p].at = "checkout" /\ UNCHANGED <<closed, back, wait, todo>>
    BY DEF Checkout
  <1>2. CASE sem' = sem - 1 /\ Set(p, Returned(p, FALSE)) /\ UNCHANGED idle
    <2>1. op[p].at \notin Resting /\ Permit(op[p].at) = 1
      BY <1>1 DEF Resting, Permit, Using
    <2> QED
      BY <1>1, <1>2, <2>1, Before, ReturnKeeps
  <1>3. CASE /\ idle # << >> /\ idle' = Front(idle) /\ UNCHANGED sem
             /\ Set(p, [op[p] EXCEPT !.at = "write", !.reused = TRUE, !.conn = Last(idle)])
    <2> DEFINE r == [op[p] EXCEPT !.at = "write", !.reused = TRUE, !.conn = Last(idle)]
    <2>1. /\ Last(idle) \in Conns /\ Last(idle).owed = << >>
          /\ idle' \in Seq(Conns) /\ \A i \in DOMAIN idle' : idle'[i].owed = << >>
      BY <1>3, Before, TakeLast
    <2>2. /\ r \in Operations
          /\ r.at = "write" /\ r.broken = op[p].broken /\ r.conn = Last(idle)
          /\ r.answer = op[p].answer /\ r.legs = op[p].legs /\ r.total = op[p].total
          /\ r.item = op[p].item
      BY <2>1, Before, TakenRecord
    <2>3. Set(p, r)
      BY <1>3
    <2> HIDE DEF r
    <2>4. Sound(p, r)
      BY <1>1, <2>1, <2>2, Before DEF Sound, Asking, Resting
    <2>5. Moves(p, r)
      BY <1>1, <1>3, <2>1, <2>2, <2>3, <2>4, Before DEF Moves, Permit, Using, back
    <2> QED
      BY <2>5, MovesKeeps
  <1>4. CASE Set(p, [op[p] EXCEPT !.at = "dial"]) /\ UNCHANGED <<sem, idle>>
    <2> DEFINE r == [op[p] EXCEPT !.at = "dial"]
    <2>1. /\ r \in Operations
          /\ r.at = "dial" /\ r.broken = op[p].broken /\ r.conn = op[p].conn
          /\ r.answer = op[p].answer /\ r.legs = op[p].legs /\ r.total = op[p].total
          /\ r.item = op[p].item
      BY Before, AtRecord DEF Places
    <2>2. Set(p, r)
      BY <1>4
    <2> HIDE DEF r
    <2>3. Sound(p, r)
      BY <1>1, <2>1, Before DEF Sound, Asking, Resting
    <2>4. Moves(p, r)
      BY <1>1, <1>4, <2>1, <2>2, <2>3, Before DEF Moves, Permit, Using, back
    <2> QED
      BY <2>4, MovesKeeps
  <1> QED
    BY <1>2, <1>3, <1>4 DEF Checkout

LEMMA DialKeeps ==
  ASSUME UpstreamPoolAssumption, Inv, NEW p \in Procs, Dial(p)
  PROVE  Inv'
  <1>1. op[p].at = "dial" /\ UNCHANGED <<idle, closed, back, wait, todo>>
    BY DEF Dial
  <1>2. CASE Set(p, [op[p] EXCEPT !.at = "write"]) /\ UNCHANGED sem
    <2> DEFINE r == [op[p] EXCEPT !.at = "write"]
    <2>1. /\ r \in Operations
          /\ r.at = "write" /\ r.broken = op[p].broken /\ r.conn = op[p].conn
          /\ r.answer = op[p].answer /\ r.legs = op[p].legs /\ r.total = op[p].total
          /\ r.item = op[p].item
      BY Before, AtRecord DEF Places
    <2>2. Set(p, r)
      BY <1>2
    <2> HIDE DEF r
    <2>3. Sound(p, r)
      BY <1>1, <2>1, Before DEF Sound, Asking, Resting
    <2>4. Moves(p, r)
      BY <1>1, <1>2, <2>1, <2>2, <2>3, Before DEF Moves, Permit, Using, back
    <2> QED
      BY <2>4, MovesKeeps
  <1>3. CASE Set(p, Returned(p, FALSE)) /\ sem' = sem - 1
    <2>1. op[p].at \notin Resting /\ Permit(op[p].at) = 1
      BY <1>1 DEF Resting, Permit, Using
    <2> QED
      BY <1>1, <1>3, <2>1, Before, ReturnKeeps
  <1> QED
    BY <1>2, <1>3 DEF Dial

\* A connection that breaks in an exchange may owe what it likes.
LEMMA BreaksKeeps ==
  ASSUME UpstreamPoolAssumption, Inv, NEW p \in Procs, op[p].at \in {"write", "read"},
         NEW e \in Errors, Breaks(p, e), UNCHANGED <<pool, back, wait, todo>>
  PROVE  Inv'
  <1> DEFINE r == [op[p] EXCEPT !.at = "checkin", !.broken = TRUE, !.err = e]
  <1>1. /\ r \in Operations
        /\ r.at = "checkin" /\ r.broken /\ r.answer = op[p].answer
        /\ r.total = op[p].total /\ r.item = op[p].item
    BY Before, BrokenRecord
  <1>2. Set(p, r)
    BY DEF Breaks
  <1> HIDE DEF r
  <1>3. Sound(p, r)
    BY <1>1, Before DEF Sound, Asking, Resting
  <1>4. Moves(p, r)
    BY <1>1, <1>2, <1>3, Before DEF Moves, Permit, Using, back, pool
  <1> QED
    BY <1>4, MovesKeeps

LEMMA WriteMsgKeeps ==
  ASSUME UpstreamPoolAssumption, Inv, NEW p \in Procs, WriteMsg(p)
  PROVE  Inv'
  <1>1. op[p].at = "write" /\ UNCHANGED <<pool, back, wait, todo>>
    BY DEF WriteMsg
  <1>2. CASE Breaks(p, "transport")
    BY <1>1, <1>2, BreaksKeeps DEF Errors
  <1>3. CASE Set(p, [op[p] EXCEPT !.at = "read", !.conn.owed = Append(@, p)])
    <2> DEFINE r == [op[p] EXCEPT !.at = "read", !.conn.owed = Append(@, p)]
    <2>1. /\ r \in Operations
          /\ r.at = "read" /\ r.broken = op[p].broken
          /\ r.conn.owed = Append(op[p].conn.owed, p)
          /\ r.answer = op[p].answer /\ r.legs = op[p].legs /\ r.total = op[p].total
          /\ r.item = op[p].item
      BY Before, AskedRecord
    <2>2. Set(p, r)
      BY <1>3
    <2> HIDE DEF r
    <2>3. op[p].conn.owed = << >>
      BY <1>1, Before DEF Sound
    <2>4. r.conn.owed = <<p>>
      BY <2>1, <2>3
    <2>5. Sound(p, r)
      BY <1>1, <2>1, <2>4, Before DEF Sound, Asking, Resting
    <2>6. Moves(p, r)
      BY <1>1, <2>1, <2>2, <2>5, Before DEF Moves, Permit, Using, back, pool
    <2> QED
      BY <2>6, MovesKeeps
  <1> QED
    BY <1>2, <1>3 DEF WriteMsg

LEMMA ReadMsgKeeps ==
  ASSUME UpstreamPoolAssumption, Inv, NEW p \in Procs, ReadMsg(p)
  PROVE  Inv'
  <1>1. op[p].at = "read" /\ UNCHANGED <<pool, back, wait, todo>>
    BY DEF ReadMsg
  <1>2. CASE Breaks(p, "transport") \/ Breaks(p, "invoke")
    BY <1>1, <1>2, BreaksKeeps DEF Errors
  <1>3. CASE Set(p, Answered(op[p]))
    <2> DEFINE r == Answered(op[p])
    <2>1. op[p].conn.owed = <<p>> /\ op[p].legs # 0
      BY <1>1, Before DEF Sound, Asking
    <2>2. /\ r \in Operations
          /\ r.at \in {"checkin", "write"} /\ (r.at # "checkin" => r.legs # 0)
          /\ r.broken = op[p].broken /\ r.conn.owed = << >> /\ r.answer = p
          /\ r.total = op[p].total /\ r.item = op[p].item
      BY <2>1, Before, AnsweredRecord
    <2>3. Set(p, r)
      BY <1>3
    <2> HIDE DEF r
    <2>4. Sound(p, r)
      BY <1>1, <2>2, Before DEF Sound, Asking, Resting
    <2>5. Moves(p, r)
      BY <1>1, <2>2, <2>3, <2>4, Before DEF Moves, Permit, Using, back, pool
    <2> QED
      BY <2>5, MovesKeeps
  <1> QED
    BY <1>2, <1>3 DEF ReadMsg

LEMMA CheckinKeeps ==
  ASSUME UpstreamPoolAssumption, Inv, NEW p \in Procs, Checkin(p)
  PROVE  Inv'
  <1>1. /\ op[p].at = "checkin" /\ UNCHANGED <<closed, back, wait, todo>>
        /\ idle' = IF closed \/ op[p].broken THEN idle ELSE Append(idle, op[p].conn)
        /\ sem' = sem - 1 /\ Set(p, AfterTry(p))
    BY DEF Checkin
  <1>2. idle' \in Seq(Conns) /\ \A i \in DOMAIN idle' : idle'[i].owed = << >>
    <2>1. op[p].conn \in Conns
      BY Before DEF Operations
    <2>2. ~op[p].broken => op[p].conn.owed = << >>
      BY <1>1, Before DEF Sound
    <2> QED
      BY <1>1, <2>1, <2>2, Before
  <1>3. CASE AfterTry(p) = Asks(TRUE, op[p].total, op[p].item)
    <2> DEFINE r == Asks(TRUE, op[p].total, op[p].item)
    <2>1. /\ r \in Operations
          /\ r.at = "permit" /\ ~r.broken /\ r.conn.owed = << >> /\ r.answer = Nil
          /\ r.legs = op[p].total /\ r.total = op[p].total /\ r.item = op[p].item
      <3> DEFINE n == op[p].total
                 i == op[p].item
      <3>1. n \in Nat /\ i \in Items \cup {Nil}
        BY Before
      <3> HIDE DEF n, i
      <3>2. ASSUME NEW f \in BOOLEAN
            PROVE  LET o == Asks(f, n, i) IN
                   /\ o \in Operations
                   /\ o.at = "permit" /\ ~o.broken /\ o.conn.owed = << >> /\ o.answer = Nil
                   /\ o.legs = n /\ o.total = n /\ o.item = i
        BY ONLY <3>1, f \in BOOLEAN, AsksRecord
      <3>3. r = Asks(TRUE, n, i)
        BY DEF n, i
      <3> HIDE DEF r
      <3> QED
        BY <3>2, <3>3 DEF n, i
    <2> HIDE DEF r
    <2>2. Sound(p, r)
      BY <1>1, <2>1, Before DEF Sound, Asking, Resting
    <2>3. Set(p, r)
      BY <1>1, <1>3 DEF r
    <2>4. Moves(p, r)
      BY <1>1, <1>2, <2>1, <2>2, <2>3, Before DEF Moves, Permit, Using, back
    <2> QED
      BY <2>4, MovesKeeps
  <1>4. CASE AfterTry(p) = Returned(p, op[p].err = Nil)
    <2> DEFINE found == op[p].err = Nil
    <2>1. found \in BOOLEAN /\ Set(p, Returned(p, found))
      BY <1>1, <1>4
    <2> HIDE DEF found
    <2>2. op[p].at \notin Resting /\ Permit(op[p].at) = 1
      BY <1>1 DEF Resting, Permit, Using
    <2> QED
      BY <1>1, <1>2, <2>1, <2>2, ReturnKeeps
  <1> QED
    BY <1>3, <1>4 DEF AfterTry

LEMMA OperationKeeps ==
  ASSUME UpstreamPoolAssumption, Inv, NEW p \in Procs, Operation(p)
  PROVE  Inv'
  <1>1. CASE Expire(p)
    BY <1>1, BreaksKeeps DEF Expire, Errors
  <1> QED
    BY <1>1, TakePermitKeeps, GiveUpKeeps, CheckoutKeeps, DialKeeps, WriteMsgKeeps, ReadMsgKeeps,
       CheckinKeeps DEF Operation

-----------------------------------------------------------------------------
(* The backfiller *)

\* When nothing is counted nothing is unfinished (after a step).
LEMMA NothingPending ==
  ASSUME UpstreamPoolAssumption, PoolInv', backlog' \in Seq(Items),
         Len(backlog') + Cardinality(Busy') = 0
  PROVE  Unfinished' = {}
  <1>1. IsFiniteSet(Busy') /\ Cardinality(Busy') \in Nat
    BY FS_Subset, FS_CardinalityType DEF Busy, UpstreamPoolAssumption
  <1>2. Len(backlog') = 0 /\ Cardinality(Busy') = 0
    BY <1>1
  <1>3. ToSet(backlog') = {}
    BY <1>2 DEF ToSet
  <1>4. Busy' = {}
    BY <1>1, <1>2, FS_EmptySet
  <1>5. \A w \in Workers : op'[w].item = Nil
    BY <1>4 DEF PoolInv, Sound, Busy, Procs
  <1> QED
    BY <1>3, <1>5 DEF Unfinished

\* Something is finished, or nothing is: a waiter's channel closes with the last item.
LEMMA FinishingKeeps ==
  ASSUME UpstreamPoolAssumption, QueueInv, PoolInv', backlog' \in Seq(Items),
         Unfinished' \subseteq Unfinished, pending' = Len(backlog') + Cardinality(Busy'),
         open' = (pending' # 0), UNCHANGED <<round, wait, todo>>
  PROVE  QueueInv'
  <1>1. pending' = 0 => Unfinished' = {}
    BY NothingPending
  <1>2. \A v \in Waiters : Covered(v)'
    BY <1>1 DEF QueueInv, Covered
  <1> QED
    BY <1>2 DEF QueueInv

LEMMA BeginKeeps ==
  ASSUME UpstreamPoolAssumption, Inv, NEW c \in Callers, Begin(c)
  PROVE  Inv'
  <1>1. PICK n \in Legs : Set(c, Asks(FALSE, n, Nil))
    BY DEF Begin
  <1>2. op[c].at = "rest" /\ UNCHANGED <<pool, back, wait, todo>>
    BY DEF Begin
  <1> DEFINE r == Asks(FALSE, n, Nil)
  <1>3. n \in Nat /\ n # 0
    BY DEF UpstreamPoolAssumption
  <1>4. \A f \in BOOLEAN : LET o == Asks(f, n, Nil) IN
          /\ o \in Operations
          /\ o.at = "permit" /\ ~o.broken /\ o.conn.owed = << >> /\ o.answer = Nil
          /\ o.legs = n /\ o.total = n
    BY <1>3, AsksRecord
  <1>5. /\ r \in Operations
        /\ r.at = "permit" /\ ~r.broken /\ r.conn.owed = << >> /\ r.answer = Nil
        /\ r.legs = n /\ r.total = n
    BY <1>4
  <1>6. Set(c, r)
    BY <1>1
  <1> HIDE DEF r
  <1>7. c \in Procs /\ c \notin Workers
    BY DEF Procs, UpstreamPoolAssumption
  <1>8. Sound(c, r)
    BY <1>3, <1>5, <1>7 DEF Sound, Asking
  <1>9. Moves(c, r)
    BY <1>2, <1>5, <1>6, <1>7, <1>8, Before DEF Moves, Permit, Using, back, pool
  <1> QED
    BY <1>7, <1>9, MovesKeeps

LEMMA WorkerTakeKeeps ==
  ASSUME UpstreamPoolAssumption, Inv, NEW w \in Workers, WorkerTake(w)
  PROVE  Inv'
  <1> DEFINE i == Head(backlog)
             r == Asks(FALSE, 1, i)
  <1>1. /\ op[w].at = "rest" /\ backlog # << >> /\ backlog' = Tail(backlog)
        /\ UNCHANGED <<pool, pending, open, round, wait, todo>> /\ Set(w, r)
    BY DEF WorkerTake
  <1>2. backlog \in Seq(Items) /\ i \in Items /\ Tail(backlog) \in Seq(Items)
        /\ Len(Tail(backlog)) = Len(backlog) - 1 /\ Len(backlog) \in Nat
    BY <1>1 DEF Inv, QueueInv
  <1>3. w \in Procs /\ i # Nil
    BY <1>2 DEF Procs, UpstreamPoolAssumption, Nil
  <1> HIDE DEF i
  <1>4. \A f \in BOOLEAN, n \in Nat : LET o == Asks(f, n, i) IN
          /\ o \in Operations
          /\ o.at = "permit" /\ ~o.broken /\ o.conn.owed = << >> /\ o.answer = Nil
          /\ o.legs = n /\ o.total = n /\ o.item = i
    <2>1. i \in Items \cup {Nil}
      BY <1>2
    <2> QED
      BY <2>1, AsksRecord
  <1>5. /\ r \in Operations
        /\ r.at = "permit" /\ ~r.broken /\ r.conn.owed = << >> /\ r.answer = Nil
        /\ r.legs = 1 /\ r.total = 1 /\ r.item = i
    BY <1>4
  <1> HIDE DEF r
  <1>6. Sound(w, r)
    BY <1>3, <1>5 DEF Sound, Asking, Resting
  <1>7. PoolInv'
    BY <1>1, <1>3, <1>5, <1>6, Before, PoolStep DEF Inv, PoolInv, pool, Permit, Using
  <1>8. /\ op'[w] = r /\ \A x \in Workers \ {w} : op'[x] = op[x]
    BY <1>1, <1>3 DEF Inv, PoolInv, Set, Procs
  <1>9. pending' = Len(backlog') + Cardinality(Busy')
    <2>1. Busy' = Busy \cup {w} /\ w \notin Busy
      BY <1>1, <1>5, <1>8 DEF Busy, Resting
    <2>2. Cardinality(Busy') = Cardinality(Busy) + 1
      BY <2>1, FiniteProcs, FS_AddElement
    <2> QED
      BY <1>1, <1>2, <2>2, FiniteProcs DEF Inv, QueueInv
  <1>10. Unfinished' \subseteq Unfinished
    <2>1. ToSet(backlog') \subseteq ToSet(backlog) /\ i \in ToSet(backlog)
      BY <1>1, <1>2 DEF ToSet, i
    <2>2. \A x \in Workers : op'[x].item \in {op[x].item, i}
      BY <1>5, <1>8
    <2> QED
      BY <2>1, <2>2 DEF Unfinished
  <1>11. QueueInv'
    BY <1>1, <1>2, <1>7, <1>9, <1>10, FinishingKeeps DEF Inv, QueueInv
  <1> QED
    BY <1>7, <1>11 DEF Inv

LEMMA WorkerExitKeeps ==
  ASSUME UpstreamPoolAssumption, Inv, NEW w \in Workers, WorkerExit(w)
  PROVE  Inv'
  <1> DEFINE r == [Rest EXCEPT !.at = "gone"]
  <1>1. op[w].at = "rest" /\ Set(w, r) /\ UNCHANGED <<pool, back, wait, todo>>
    BY DEF WorkerExit
  <1>2. /\ r \in Operations
        /\ r.at = "gone" /\ ~r.broken /\ r.conn.owed = << >> /\ r.answer = Nil
        /\ r.item = Nil
    BY RestRecord, AtRecord DEF Places
  <1> HIDE DEF r
  <1>3. w \in Procs
    BY DEF Procs
  <1>4. op[w].item = Nil
    BY <1>1, <1>3, Before DEF Sound, Resting
  <1>5. Sound(w, r)
    BY <1>2 DEF Sound, Asking, Resting
  <1>6. Moves(w, r)
    BY <1>1, <1>2, <1>3, <1>4, <1>5, Before DEF Moves, Permit, Using, back, pool
  <1> QED
    BY <1>3, <1>6, MovesKeeps

LEMMA WorkerInsertKeeps ==
  ASSUME UpstreamPoolAssumption, Inv, NEW w \in Workers, WorkerInsert(w)
  PROVE  Inv'
  <1> DEFINE r == [op[w] EXCEPT !.at = "done"]
  <1>1. op[w].at = "insert" /\ Set(w, r) /\ UNCHANGED <<pool, back, wait, todo>>
    BY DEF WorkerInsert
  <1>2. w \in Procs
    BY DEF Procs
  <1>3. /\ r \in Operations
        /\ r.at = "done" /\ r.broken = op[w].broken /\ r.conn = op[w].conn
        /\ r.answer = op[w].answer /\ r.legs = op[w].legs /\ r.total = op[w].total
        /\ r.item = op[w].item
    BY <1>2, Before, AtRecord DEF Places
  <1> HIDE DEF r
  <1>4. Sound(w, r)
    BY <1>1, <1>2, <1>3, Before DEF Sound, Asking, Resting
  <1>5. Moves(w, r)
    BY <1>1, <1>2, <1>3, <1>4, Before DEF Moves, Permit, Using, back, pool
  <1> QED
    BY <1>2, <1>5, MovesKeeps

LEMMA WorkerDoneKeeps ==
  ASSUME UpstreamPoolAssumption, Inv, NEW w \in Workers, WorkerDone(w)
  PROVE  Inv'
  <1>1. /\ op[w].at = "done" /\ Set(w, Rest) /\ UNCHANGED <<pool, backlog, round, wait, todo>>
        /\ pending' = pending - 1 /\ open' = (pending # 1)
    BY DEF WorkerDone, Done
  <1>2. w \in Procs
    BY DEF Procs
  <1>3. Sound(w, Rest)
    BY RestRecord DEF Sound, Asking, Resting
  <1>4. PoolInv'
    BY <1>1, <1>2, <1>3, Before, RestRecord, PoolStep DEF Inv, PoolInv, pool, Permit, Using
  <1>5. /\ op'[w] = Rest /\ \A x \in Workers \ {w} : op'[x] = op[x]
    BY <1>1, <1>2 DEF Inv, PoolInv, Set, Procs
  <1>6. pending' = Len(backlog') + Cardinality(Busy') /\ open' = (pending' # 0)
    <2>1. Busy' = Busy \ {w} /\ w \in Busy
      BY <1>1, <1>5, RestRecord DEF Busy, Resting
    <2>2. Cardinality(Busy') = Cardinality(Busy) - 1
      BY <2>1, FiniteProcs, FS_RemoveElement
    <2> QED
      BY <1>1, <2>2, FiniteProcs DEF Inv, QueueInv
  <1>7. Unfinished' \subseteq Unfinished
    <2>1. \A x \in Workers : op'[x].item \in {op[x].item, Nil}
      BY <1>5, RestRecord
    <2> QED
      BY <1>1, <2>1 DEF Unfinished
  <1>8. QueueInv'
    BY <1>1, <1>4, <1>6, <1>7, FinishingKeeps DEF Inv, QueueInv
  <1> QED
    BY <1>4, <1>8 DEF Inv

LEMMA PeerDropsKeeps ==
  ASSUME UpstreamPoolAssumption, Inv, PeerDrops
  PROVE  Inv'
  <1> DEFINE Dropped(p) == [op[p] EXCEPT !.conn.up = FALSE]
  <1>1. /\ idle' = [i \in DOMAIN idle |-> [idle[i] EXCEPT !.up = FALSE]]
        /\ op' \in {op, [p \in Procs |-> Dropped(p)]}
        /\ UNCHANGED <<sem, closed, back, wait, todo>>
    BY DEF PeerDrops
  <1>2. idle' \in Seq(Conns) /\ \A i \in DOMAIN idle' : idle'[i].owed = << >>
    <2>1. \A i \in DOMAIN idle : idle[i] \in Conns /\ idle[i].owed = << >>
      BY DEF Inv, PoolInv
    <2>2. \A i \in DOMAIN idle : idle'[i] \in Conns /\ idle'[i].owed = << >>
      BY <1>1, <2>1 DEF Conns
    <2>3. DOMAIN idle' = 1 .. Len(idle) /\ Len(idle) \in Nat
      BY <1>1 DEF Inv, PoolInv
    <2> QED
      BY <1>1, <2>2, <2>3 DEF Inv, PoolInv
  <1>3. \A p \in Procs :
          LET n == Dropped(p) IN
          /\ n \in Operations
          /\ n.at = op[p].at /\ n.broken = op[p].broken /\ n.conn.owed = op[p].conn.owed
          /\ n.answer = op[p].answer /\ n.legs = op[p].legs /\ n.total = op[p].total
          /\ n.item = op[p].item
    BY Before, DroppedRecord
  <1> HIDE DEF Dropped
  <1>4. op' \in [Procs -> Operations] /\ \A p \in Procs :
          /\ op'[p].at = op[p].at /\ op'[p].broken = op[p].broken
          /\ op'[p].conn.owed = op[p].conn.owed
          /\ op'[p].answer = op[p].answer /\ op'[p].legs = op[p].legs
          /\ op'[p].total = op[p].total /\ op'[p].item = op[p].item
    BY <1>1, <1>3 DEF Inv, PoolInv
  <1>5. \A p \in Procs : Sound(p, op[p])'
    BY <1>4 DEF Sound, Inv, PoolInv
  <1>6. InUse' = InUse /\ Busy' = Busy
    BY <1>4 DEF InUse, Busy, Procs
  <1>7. {op'[w].item : w \in Workers} = {op[w].item : w \in Workers}
    BY <1>4 DEF Procs
  <1>8. Unfinished' = Unfinished
    BY <1>1, <1>7 DEF Unfinished, back
  <1>9. PoolInv'
    BY <1>1, <1>2, <1>4, <1>5, <1>6 DEF Inv, PoolInv
  <1>10. QueueInv'
    BY <1>1, <1>6, <1>8, QueueFrame DEF Inv, back
  <1> QED
    BY <1>9, <1>10 DEF Inv

\* A step that leaves the operations and the pool alone.
LEMMA PoolFrame ==
  ASSUME PoolInv, UNCHANGED <<pool, op>>
  PROVE  PoolInv' /\ Busy' = Busy
  <1>1. \A p \in Procs : Sound(p, op[p])'
    BY DEF PoolInv, Sound
  <1>2. InUse' = InUse /\ Busy' = Busy
    BY DEF InUse, Busy
  <1> QED
    BY <1>1, <1>2 DEF PoolInv, pool

LEMMA EnqueueKeeps ==
  ASSUME UpstreamPoolAssumption, Inv, Enqueue
  PROVE  Inv'
  <1>1. PoolInv' /\ Busy' = Busy /\ UNCHANGED <<op, wait>>
    BY PoolFrame DEF Inv, Enqueue
  <1>2. PICK i \in todo :
          /\ todo' = todo \ {i}
          /\ \/ UNCHANGED <<backlog, pending, open, round>>
             \/ /\ backlog' = Append(backlog, i) /\ pending' = pending + 1
                /\ open' = TRUE /\ round' = IF pending = 0 THEN round + 1 ELSE round
    BY DEF Enqueue
  <1>3. CASE UNCHANGED <<backlog, pending, open, round>>
    <2>1. Unfinished' = Unfinished
      BY <1>1, <1>3 DEF Unfinished
    <2>2. \A v \in Waiters : Covered(v)'
      BY <1>1, <1>2, <1>3, <2>1 DEF Inv, QueueInv, Covered
    <2> QED
      BY <1>1, <1>2, <1>3, <2>1, <2>2 DEF Inv, QueueInv
  <1>4. CASE /\ backlog' = Append(backlog, i) /\ pending' = pending + 1
             /\ open' = TRUE /\ round' = IF pending = 0 THEN round + 1 ELSE round
    <2>1. pending \in Nat /\ i \in Items /\ backlog \in Seq(Items)
      BY <1>2, FiniteProcs DEF Inv, QueueInv
    <2>2. ToSet(backlog') = ToSet(backlog) \cup {i}
      BY <1>4, <2>1 DEF ToSet
    <2>3. Unfinished' = Unfinished \cup {i}
      <3>1. i # Nil
        BY <2>1 DEF UpstreamPoolAssumption, Nil
      <3> QED
        BY <1>1, <2>2, <3>1 DEF Unfinished
    <2>4. pending = 0 => Unfinished = {}
      <3>1. ASSUME pending = 0
            PROVE  ToSet(backlog) = {} /\ \A w \in Workers : op[w].item = Nil
        <4>1. Len(backlog) = 0 /\ Cardinality(Busy) = 0
          BY <3>1, <2>1, FiniteProcs DEF Inv, QueueInv
        <4>2. Busy = {}
          BY <4>1, FiniteProcs, FS_EmptySet
        <4>3. ToSet(backlog) = {}
          BY <4>1, <2>1 DEF ToSet
        <4>4. ASSUME NEW w \in Workers PROVE op[w].item = Nil
          <5>1. w \in Procs /\ op[w].at \in Resting
            BY <4>2 DEF Busy, Procs
          <5> QED
            BY <5>1 DEF Inv, PoolInv, Sound
        <4> QED
          BY <4>3, <4>4
      <3> QED
        BY <3>1 DEF Unfinished
    <2>5. \A v \in Waiters : Covered(v)'
      <3> SUFFICES ASSUME NEW v \in Waiters, wait[v].at = "waits"
                   PROVE  /\ wait[v].seen \cap todo' = {}
                          /\ wait[v].seen \cap Unfinished' = {} \/ (open' /\ wait[v].round = round')
        BY <1>1 DEF Covered
      <3>1. wait[v].seen \cap todo = {} /\ i \notin wait[v].seen
        BY <1>2 DEF Inv, QueueInv, Covered
      <3>2. wait[v].seen \cap Unfinished = {} \/ (open /\ wait[v].round = round)
        BY DEF Inv, QueueInv, Covered
      <3> QED
        BY <1>2, <1>4, <2>3, <2>4, <3>1, <3>2
    <2>6. backlog' \in Seq(Items) /\ Len(backlog') = Len(backlog) + 1 /\ round' \in Nat
      BY <1>4, <2>1 DEF Inv, QueueInv
    <2>7. pending' = Len(backlog') + Cardinality(Busy') /\ open' = (pending' # 0)
      <3>1. pending = Len(backlog) + Cardinality(Busy) /\ Len(backlog) \in Nat
        BY <2>1 DEF Inv, QueueInv
      <3>2. pending' # 0
        BY <1>4, <2>1
      <3>3. pending' = Len(backlog') + Cardinality(Busy')
        BY <1>1, <1>4, <2>6, <3>1, FiniteProcs
      <3> QED
        BY <1>4, <3>2, <3>3
    <2>8. Unfinished' \cap todo' = {} /\ todo' \subseteq Items
      BY <1>2, <2>3 DEF Inv, QueueInv
    <2> QED
      BY <1>1, <2>5, <2>6, <2>7, <2>8 DEF Inv, QueueInv
  <1> QED
    BY <1>2, <1>3, <1>4

LEMMA DrainKeeps ==
  ASSUME UpstreamPoolAssumption, Inv, Drain
  PROVE  Inv'
  <1>1. PoolInv' /\ Busy' = Busy /\ UNCHANGED <<op, wait, todo>>
    BY PoolFrame DEF Inv, Drain
  <1>2. CASE UNCHANGED <<backlog, pending, open, round>>
    <2>1. Unfinished' = Unfinished
      BY <1>1, <1>2 DEF Unfinished
    <2> QED
      BY <1>1, <1>2, <2>1, QueueFrame DEF Inv
  <1>3. CASE backlog # << >> /\ backlog' = Tail(backlog) /\ Done
    <2>1. /\ backlog \in Seq(Items) /\ backlog' \in Seq(Items) /\ Len(backlog') = Len(backlog) - 1
          /\ Len(backlog) \in Nat /\ ToSet(backlog') \subseteq ToSet(backlog)
      BY <1>3 DEF Inv, QueueInv, ToSet
    <2>2. Unfinished' \subseteq Unfinished
      BY <1>1, <2>1 DEF Unfinished
    <2>3. pending' = Len(backlog') + Cardinality(Busy') /\ open' = (pending' # 0) /\ round' = round
      BY <1>1, <1>3, <2>1, FiniteProcs DEF Inv, QueueInv, Done
    <2>4. QueueInv'
      BY <1>1, <2>1, <2>2, <2>3, FinishingKeeps DEF Inv
    <2> QED
      BY <1>1, <2>4 DEF Inv
  <1> QED
    BY <1>2, <1>3 DEF Drain

LEMMA WaitEnterKeeps ==
  ASSUME UpstreamPoolAssumption, Inv, NEW v \in Waiters, WaitEnter(v)
  PROVE  Inv'
  <1>1. /\ wait' = [wait EXCEPT ![v] = [at |-> "waits", round |-> round, seen |-> Unfinished]]
        /\ UNCHANGED <<pool, op, back, todo>>
    BY DEF WaitEnter
  <1>2. PoolInv' /\ Busy' = Busy
    BY <1>1, PoolFrame DEF Inv
  <1>3. Unfinished' = Unfinished
    BY <1>1 DEF Unfinished, back
  <1>4. Unfinished \subseteq Items
    <2>1. ToSet(backlog) \subseteq Items
      BY DEF Inv, QueueInv, ToSet
    <2>2. \A w \in Workers : op[w].item \in Items \cup {Nil}
      BY Before DEF Procs
    <2> QED
      BY <2>1, <2>2 DEF Unfinished
  <1>5. wait' \in [Waiters -> Waits]
    BY <1>1, <1>4 DEF Inv, QueueInv, Waits
  <1>6. Unfinished = {} \/ open
    <2> SUFFICES ASSUME pending = 0 PROVE Unfinished = {}
      BY DEF Inv, QueueInv
    <2>1. Len(backlog') + Cardinality(Busy') = 0 /\ backlog' \in Seq(Items)
      BY <1>1, <1>2 DEF Inv, QueueInv, back
    <2> QED
      BY <1>2, <1>3, <2>1, NothingPending
  <1>7. \A x \in Waiters : Covered(x)'
    <2>1. \A x \in Waiters \ {v} : wait'[x] = wait[x]
      BY <1>1 DEF Inv, QueueInv
    <2>2. wait'[v] = [at |-> "waits", round |-> round, seen |-> Unfinished]
      BY <1>1 DEF Inv, QueueInv
    <2>3. Covered(v)'
      BY <1>1, <1>3, <1>6, <2>2 DEF Inv, QueueInv, Covered, back
    <2>4. \A x \in Waiters \ {v} : Covered(x)'
      BY <1>1, <1>3, <2>1 DEF Inv, QueueInv, Covered, back
    <2> QED
      BY <2>3, <2>4
  <1> QED
    BY <1>1, <1>2, <1>3, <1>5, <1>7 DEF Inv, QueueInv, back

LEMMA OtherStepsKeep ==
  ASSUME UpstreamPoolAssumption, Inv,
         \/ \E v \in Waiters : WaitReturn(v)
         \/ CloseBackfiller \/ WorkersGone \/ ClosePool \/ UNCHANGED poolVars
  PROVE  Inv'
  <1>1. ASSUME NEW v \in Waiters, WaitReturn(v) PROVE Inv'
    <2>1. wait' = [wait EXCEPT ![v] = NotWaiting] /\ UNCHANGED <<pool, op, back, todo>>
      BY <1>1 DEF WaitReturn
    <2>2. PoolInv' /\ Busy' = Busy
      BY <2>1, PoolFrame DEF Inv
    <2>3. Unfinished' = Unfinished
      BY <2>1 DEF Unfinished, back
    <2>4. wait' \in [Waiters -> Waits]
      BY <2>1 DEF Inv, QueueInv, Waits, NotWaiting
    <2>5. \A x \in Waiters : wait'[x] = wait[x] \/ wait'[x].at = "no"
      BY <2>1 DEF Inv, QueueInv, NotWaiting
    <2>6. \A x \in Waiters : Covered(x)'
      BY <2>1, <2>3, <2>5 DEF Inv, QueueInv, Covered, back
    <2> QED
      BY <2>1, <2>2, <2>3, <2>4, <2>6 DEF Inv, QueueInv, back
  <1>2. ASSUME UNCHANGED <<op, backlog, pending, open, round, wait, todo, sem>>,
               UNCHANGED <<idle, closed>> \/ (idle' = << >> /\ closed' = TRUE)
        PROVE  Inv'
    <2>1. \A p \in Procs : Sound(p, op[p])'
      BY <1>2 DEF Inv, PoolInv, Sound
    <2>2. InUse' = InUse /\ Busy' = Busy /\ Unfinished' = Unfinished
      BY <1>2 DEF InUse, Busy, Unfinished
    <2>3. idle' \in Seq(Conns) /\ \A i \in DOMAIN idle' : idle'[i].owed = << >>
      <3>1. CASE idle' = << >>
        BY <3>1
      <3>2. CASE idle' = idle
        BY <3>2 DEF Inv, PoolInv
      <3> QED
        BY <1>2, <3>1, <3>2
    <2>4. PoolInv'
      BY <1>2, <2>1, <2>2, <2>3 DEF Inv, PoolInv
    <2>5. QueueInv'
      BY <1>2, <2>2, QueueFrame DEF Inv
    <2> QED
      BY <2>4, <2>5 DEF Inv
  <1>3. CASE CloseBackfiller \/ WorkersGone
    BY <1>2, <1>3 DEF CloseBackfiller, WorkersGone, pool
  <1>4. CASE ClosePool
    BY <1>2, <1>4 DEF ClosePool, back
  <1>5. CASE UNCHANGED poolVars
    BY <1>2, <1>5 DEF poolVars
  <1> QED
    BY <1>1, <1>3, <1>4, <1>5

-----------------------------------------------------------------------------

LEMMA Inductive ==
  ASSUME UpstreamPoolAssumption, Inv, [PoolNext]_poolVars
  PROVE  Inv'
  <1>1. ASSUME NEW c \in Callers, Begin(c) \/ Operation(c) PROVE Inv'
    BY <1>1, BeginKeeps, OperationKeeps DEF Procs
  <1>2. ASSUME NEW w \in Workers, Worker(w) PROVE Inv'
    BY <1>2, OperationKeeps, WorkerTakeKeeps, WorkerExitKeeps, WorkerInsertKeeps, WorkerDoneKeeps
    DEF Worker, Procs
  <1>3. ASSUME NEW v \in Waiters, WaitEnter(v) \/ WaitReturn(v) PROVE Inv'
    BY <1>3, WaitEnterKeeps, OtherStepsKeep
  <1>4. CASE PeerDrops \/ Enqueue \/ Drain
    BY <1>4, PeerDropsKeeps, EnqueueKeeps, DrainKeeps
  <1>5. CASE CloseBackfiller \/ WorkersGone \/ ClosePool \/ UNCHANGED poolVars
    BY <1>5, OtherStepsKeep
  <1> QED
    BY <1>1, <1>2, <1>3, <1>4, <1>5 DEF PoolNext, CloseChain

LEMMA Initially ==
  ASSUME UpstreamPoolAssumption, PoolInit
  PROVE  Inv
  <1>1. op \in [Procs -> Operations] /\ \A p \in Procs : op[p] = Rest
    BY RestRecord DEF PoolInit
  <1>2. \A p \in Procs : Sound(p, op[p])
    BY <1>1, RestRecord DEF Sound, Asking, Resting
  <1>3. InUse = {} /\ Busy = {}
    BY <1>1, RestRecord DEF InUse, Busy, Using, Resting, Procs
  <1>4. Cardinality(InUse) = 0 /\ Cardinality(Busy) = 0
    BY <1>3, FS_EmptySet
  <1>5. PoolInv
    <2>1. idle \in Seq(Conns) /\ \A i \in DOMAIN idle : idle[i].owed = << >>
      BY DEF PoolInit
    <2>2. sem = 0 /\ closed \in BOOLEAN
      BY DEF PoolInit
    <2> QED
      BY <1>1, <1>2, <1>4, <2>1, <2>2 DEF PoolInv
  <1>6. Unfinished = {}
    BY <1>1, RestRecord DEF Unfinished, ToSet, PoolInit, Procs
  <1>7. QueueInv
    <2>1. backlog \in Seq(Items) /\ Len(backlog) = 0 /\ pending = 0 /\ open = FALSE
          /\ todo \subseteq Items /\ round \in Nat
      BY DEF PoolInit
    <2>2. wait \in [Waiters -> Waits] /\ \A v \in Waiters : wait[v].at = "no"
      BY DEF PoolInit, Waits, NotWaiting
    <2>3. pending = Len(backlog) + Cardinality(Busy) /\ open = (pending # 0)
      <3>1. pending = Len(backlog) + Cardinality(Busy)
        BY <1>4, <2>1
      <3>2. (pending # 0) = FALSE
        BY <2>1
      <3> QED
        BY <2>1, <3>1, <3>2
    <2>4. \A v \in Waiters : Covered(v)
      BY <2>2 DEF Covered
    <2> QED
      BY <1>6, <2>1, <2>2, <2>3, <2>4 DEF QueueInv
  <1> QED
    BY <1>5, <1>7 DEF Inv

\* Whoever reads an answer from an upstream connection reads the one to its own question
\* (Upstream.try, checkout and checkin): for any number of requests, workers and
\* connections, through timeouts in the middle of an exchange, invoke-errors, dropped
\* peers and retries on fresh connections.
THEOREM AnswersReachTheirQuestions ==
  ASSUME UpstreamPoolAssumption
  PROVE  PoolSpec => []AnswersMatch
  <1>1. PoolInit => Inv
    BY Initially
  <1>2. Inv /\ [PoolNext]_poolVars => Inv'
    BY Inductive
  <1>3. Inv => AnswersMatch
    BY DEF Inv, PoolInv, Sound, AnswersMatch
  <1> QED
    BY <1>1, <1>2, <1>3, PTL DEF PoolSpec

\* The permits taken are exactly those of the operations between checkout and checkin, so
\* when nobody uses the pool every permit is back, whichever way operations ended.
THEOREM PermitsAlwaysComeBack ==
  ASSUME UpstreamPoolAssumption
  PROVE  PoolSpec => []PermitsComeBack
  <1>1. PoolInit => Inv
    BY Initially
  <1>2. Inv /\ [PoolNext]_poolVars => Inv'
    BY Inductive
  <1>3. Inv => PermitsComeBack
    <2> SUFFICES ASSUME Inv, \A p \in Procs : op[p].at \in {"rest", "permit", "gone"}
                 PROVE  sem = 0
      BY DEF PermitsComeBack
    <2>1. InUse = {}
      BY DEF InUse, Using
    <2> QED
      BY <2>1, FS_EmptySet DEF Inv, PoolInv
  <1> QED
    BY <1>1, <1>2, <1>3, PTL DEF PoolSpec

\* What the pool promises those who ask through it (upstreamPool.do, checkout, checkin).
THEOREM PoolStaysSound ==
  ASSUME UpstreamPoolAssumption
  PROVE  PoolSpec => []PoolIsSound
  <1>1. AnswersMatch /\ PermitsComeBack => PoolIsSound
    BY DEF PoolIsSound
  <1> QED
    BY <1>1, AnswersReachTheirQuestions, PermitsAlwaysComeBack, PTL

\* backfill-wait (backfiller.Wait) returns only when everything that was queued or being
\* written at its call is finished or abandoned, however many items are enqueued behind
\* it, and also when the backfiller is closed under it.
THEOREM WaitsCoverWhatTheySaw ==
  ASSUME UpstreamPoolAssumption
  PROVE  PoolSpec => [][WaitCoversWhatItSaw]_poolVars
  <1>1. PoolInit => Inv
    BY Initially
  <1>2. Inv /\ [PoolNext]_poolVars => Inv'
    BY Inductive
  <1>3. Inv /\ [PoolNext]_poolVars => [WaitCoversWhatItSaw]_poolVars
    <2> SUFFICES ASSUME Inv, PoolNext, NEW v \in Waiters, wait[v].at = "waits", wait'[v].at = "no"
                 PROVE  wait[v].seen \cap Unfinished = {}
      BY DEF WaitCoversWhatItSaw
    <2>1. PICK x \in Waiters : WaitReturn(x)
      <3>1. wait' # wait
        OBVIOUS
      <3>2. ASSUME NEW x \in Waiters, WaitEnter(x) PROVE FALSE
        BY <3>2 DEF WaitEnter, Inv, QueueInv
      <3> QED
        BY <3>1, <3>2 DEF PoolNext, Begin, Operation, Worker, TakePermit, GiveUp, Checkout, Dial,
           WriteMsg, ReadMsg, Expire, Checkin, WorkerTake, WorkerExit, WorkerInsert, WorkerDone,
           PeerDrops, Enqueue, CloseBackfiller, CloseChain, WorkersGone, Drain, ClosePool
    <2>2. x = v
      BY <2>1 DEF WaitReturn, Inv, QueueInv
    <2> QED
      BY <2>1, <2>2 DEF WaitReturn, Inv, QueueInv, Covered
  <1> QED
    BY <1>1, <1>2, <1>3, PTL DEF PoolSpec

=============================================================================
