--------------------------- MODULE UnihashToucher ---------------------------
(***************************************************************************)
(* The unihash toucher (hashserv/toucher.go): hits mark a taskhash in      *)
(* memory, flushes carry due marks to accessed_at, and the collector asks  *)
(* whether a read is pending.  A flush is a sequence of critical sections  *)
(* of one mutex with the partition and the statements between them; the    *)
(* ticker's flush and the collector's FlushNow may overlap.                *)
(***************************************************************************)
EXTENDS Naturals, FiniteSets, FiniteSetsExt

CONSTANTS
    Keys, Flushers,   \* flushers: "tick" and "now"
    Cap,              \* unihashMarksCap
    Staleness,        \* T
    MaxTime,          \* bound on the clock
    MaxFlushFails,    \* bound on failing statements
    MaxFlushes        \* bound on flushes begun

UnihashToucherAssumption ==
    /\ Flushers \subseteq {"tick", "now"}
    /\ {Cap, Staleness, MaxTime, MaxFlushFails, MaxFlushes} \subseteq Nat /\ MaxTime # 0

NoMark == 0
Marks == [Keys -> 0..MaxTime]
Empty == [k \in Keys |-> NoMark]
Has(m) == {k \in Keys : m[k] # NoMark}

VARIABLES
    clock, marks, flushing,
    fl,       \* per flusher: its step, what it swapped out, what is due; history: saw, the
              \* reads it found in marks that are not in the table yet, and crossed, whether
              \* another flush was under way at the same time
    stage,    \* "up", or "final" once the shutdown flush has begun
    flushFails, flushes

toucherVars == <<clock, marks, flushing, fl, stage, flushFails, flushes>>

Off == [at |-> "off", cutoff |-> 0, old |-> Empty, due |-> Empty,
        saw |-> {}, ok |-> TRUE, crossed |-> FALSE]

ToucherInit ==
    /\ clock = 1 /\ marks = Empty /\ flushing = Empty
    /\ fl = [f \in Flushers |-> Off] /\ stage = "up" /\ flushFails = 0 /\ flushes = 0

Tick ==
    /\ clock < MaxTime /\ clock' = clock + 1
    /\ UNCHANGED <<marks, flushing, fl, stage, flushFails, flushes>>

\* mark: the first mark wins; past the cap it is dropped.
Mark ==
    /\ \E k \in Keys :
         /\ marks[k] = NoMark /\ Cardinality(Has(marks)) < Cap
         /\ marks' = [marks EXCEPT ![k] = clock]
    /\ UNCHANGED <<clock, flushing, fl, stage, flushFails, flushes>>

\* pending, the veto: in either map.
Pending(k) == marks[k] # NoMark \/ flushing[k] # NoMark

\* What a flusher has taken out of marks and not resolved yet.
Held(f) == IF fl[f].at = "part" THEN fl[f].old ELSE fl[f].due

\* The keys with a read that is not in the table.
Unflushed == Has(marks) \cup UNION {Has(Held(f)) : f \in Flushers}

-----------------------------------------------------------------------------
(* flush *)

\* What a flush that begins leaves of the flushers: its own record, and whom it crosses.
Begun(f, cutoff) ==
    [g \in Flushers |->
        IF g = f
        THEN [at |-> "part", cutoff |-> cutoff, old |-> marks, due |-> Empty, saw |-> Has(marks),
              ok |-> TRUE, crossed |-> \E h \in Flushers : fl[h].at # "off"]
        ELSE [fl[g] EXCEPT !.crossed = @ \/ fl[g].at # "off"]]

\* Mutant: flushing is set only after the partition.
Swap_Late(f, cutoff) ==
    /\ fl[f].at = "off" /\ flushes < MaxFlushes
    /\ fl' = Begun(f, cutoff)
    /\ marks' = Empty /\ UNCHANGED flushing
    /\ flushes' = flushes + 1 /\ UNCHANGED <<clock, flushFails>>

\* The swap: one critical section.
Swap(f, cutoff) ==
    /\ fl[f].at = "off" /\ flushes < MaxFlushes
    /\ fl' = Begun(f, cutoff)
    /\ marks' = Empty /\ flushing' = marks
    /\ flushes' = flushes + 1 /\ UNCHANGED <<clock, flushFails>>

\* The ticker's: marks at least T old.
StartTick ==
    /\ "tick" \in Flushers /\ stage = "up" /\ clock > Staleness
    /\ Swap("tick", clock - Staleness) /\ UNCHANGED stage

\* The shutdown flush takes everything.
StartFinal ==
    /\ "tick" \in Flushers /\ stage = "up" /\ Swap("tick", MaxTime) /\ stage' = "final"

\* Mutant: FlushNow leaves the young marks, as the ticker does.
FlushNow_Threshold ==
    /\ "now" \in Flushers /\ clock > Staleness
    /\ Swap("now", clock - Staleness) /\ UNCHANGED stage

\* FlushNow takes everything.
FlushNow ==
    /\ "now" \in Flushers /\ Swap("now", MaxTime) /\ UNCHANGED stage

\* partitionMarks, with no lock held ...
Due(f) == [k \in Keys |-> IF fl[f].old[k] <= fl[f].cutoff THEN fl[f].old[k] ELSE NoMark]

\* ... and the fold: what is not due returns, joined with what was marked meanwhile.
Fold(f) ==
    /\ fl[f].at = "part"
    /\ marks' = [k \in Keys |->
          LET kept == IF Due(f)[k] = NoMark THEN fl[f].old[k] ELSE NoMark
          IN IF kept = NoMark THEN marks[k]
             ELSE IF marks[k] # NoMark /\ marks[k] < kept THEN marks[k] ELSE kept]
    /\ fl' = [fl EXCEPT ![f].due = Due(f), ![f].old = Empty,
                        ![f].at = IF Due(f) = Empty THEN "none" ELSE "narrow"]
    /\ UNCHANGED <<clock, flushing, stage, flushFails, flushes>>

\* Nothing was due.
NothingDue(f) ==
    /\ fl[f].at = "none" /\ flushing' = Empty
    /\ fl' = [fl EXCEPT ![f].at = "back"]
    /\ UNCHANGED <<clock, marks, stage, flushFails, flushes>>

\* flushing becomes exactly what is being written.
Narrow(f) ==
    /\ fl[f].at = "narrow" /\ flushing' = fl[f].due
    /\ fl' = [fl EXCEPT ![f].at = "write"]
    /\ UNCHANGED <<clock, marks, stage, flushFails, flushes>>

Written(S) == [f \in Flushers |-> [fl[f] EXCEPT !.saw = @ \ S]]

\* writeTouches: chunks of keys.  A failure ends it; the chunks before it are written but
\* stay in the batch.
WriteTouches(f) ==
    /\ fl[f].at = "write"
    /\ \/ fl' = [Written(Has(fl[f].due)) EXCEPT ![f].at = "clear"] /\ UNCHANGED flushFails
       \/ /\ flushFails < MaxFlushFails /\ flushFails' = flushFails + 1
          /\ \E S \in SUBSET Has(fl[f].due) :
                fl' = [Written(S) EXCEPT ![f].at = "clear", ![f].ok = FALSE]
    /\ UNCHANGED <<clock, marks, flushing, stage, flushes>>

\* flushing = nil.
Clear(f) ==
    /\ fl[f].at = "clear" /\ flushing' = Empty
    /\ fl' = [fl EXCEPT ![f].at = IF fl[f].ok THEN "back" ELSE "merge",
                        ![f].due = IF fl[f].ok THEN Empty ELSE @]
    /\ UNCHANGED <<clock, marks, stage, flushFails, flushes>>

\* Mutant: the newer mark wins.
MergeBack_Newer(f) ==
    /\ fl[f].at = "merge"
    /\ marks' = [k \in Keys |-> IF marks[k] = NoMark THEN fl[f].due[k] ELSE marks[k]]
    /\ fl' = [fl EXCEPT ![f].at = "back", ![f].due = Empty]
    /\ UNCHANGED <<clock, flushing, stage, flushFails, flushes>>

\* mergeBack, after a failure: the older mark wins.
MergeBack(f) ==
    /\ fl[f].at = "merge"
    /\ marks' = [k \in Keys |->
          IF fl[f].due[k] # NoMark /\ (marks[k] = NoMark \/ fl[f].due[k] < marks[k])
          THEN fl[f].due[k] ELSE marks[k]]
    /\ fl' = [fl EXCEPT ![f].at = "back", ![f].due = Empty]
    /\ UNCHANGED <<clock, flushing, stage, flushFails, flushes>>

Return(f) ==
    /\ fl[f].at = "back" /\ fl' = [fl EXCEPT ![f] = Off]
    /\ UNCHANGED <<clock, marks, flushing, stage, flushFails, flushes>>

-----------------------------------------------------------------------------
ToucherNext ==
    \/ Tick \/ Mark \/ StartTick \/ StartFinal \/ FlushNow
    \/ \E f \in Flushers :
         \/ Fold(f) \/ NothingDue(f) \/ Narrow(f) \/ WriteTouches(f)
         \/ Clear(f) \/ MergeBack(f) \/ Return(f)

ToucherSpec == ToucherInit /\ [][ToucherNext]_toucherVars

-----------------------------------------------------------------------------
(* Properties *)

\* The veto has no gap: while a read is in memory or on its way to the table, pending says
\* so, at every step of a flush that no other flush crosses; and when the write fails, until
\* the batch is let go of to be merged back.
VetoHasNoGap ==
    \A k \in Unflushed :
        \/ Pending(k)
        \/ \E f \in Flushers : k \in Has(Held(f)) /\ (fl[f].crossed \/ fl[f].at = "merge")

\* The oldest unflushed read of a key: the staleness clock starts there.
OldestMark(k) ==
    LET S == {marks[k]} \cup {Held(f)[k] : f \in Flushers} IN
    IF S = {NoMark} THEN NoMark ELSE Min(S \ {NoMark})

\* A read leaves memory only by being written: until then the oldest unflushed read of a
\* key never gets younger or disappears, whatever fails and whoever else flushes.
MarksLeaveByWriting ==
    \A k \in Keys : OldestMark(k) # NoMark =>
        \/ OldestMark(k)' # NoMark /\ OldestMark(k)' <= OldestMark(k)
        \/ \E f \in Flushers : fl[f].at = "clear" /\ fl[f].ok /\ fl'[f].at = "back" /\ fl[f].due[k] = OldestMark(k)

\* When FlushNow has returned without an error, every read it found in marks is in the
\* table: the sweep that follows reads accessed_at there.  Reads the ticker's flush had
\* taken out before are that flush's to write.
FlushNowIsDurable ==
    "now" \in Flushers /\ fl["now"].at = "back" /\ fl["now"].ok => fl["now"].saw = {}

\* Both: what the collector relies on before it takes a read for an old one.
ReadsReachTheTable == VetoHasNoGap /\ FlushNowIsDurable

=============================================================================
