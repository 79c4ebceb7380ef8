------------------------------- MODULE Measure -------------------------------
(***************************************************************************)
(* Measuring a project's usage on read (internal/gc/measure.go): a caller  *)
(* claims the project's attempt window and then runs, or joins, the one    *)
(* flight of that project; a flight that found nothing to measure gives    *)
(* the window back.  The flight outlives its callers.                      *)
(***************************************************************************)
EXTENDS Naturals

CONSTANTS
    Callers,     \* requests that find the figure stale
    Interval,    \* MinMeasureInterval
    Timeout,     \* measureTimeout
    MaxTime      \* bound on the clock

MeasureAssumption == {Interval, Timeout, MaxTime} \subseteq Nat /\ Timeout < Interval

VARIABLES
    now,
    backends,   \* whether the project has a measurable backend
    attempt,    \* measureAttempts: when the window was claimed, or none
    flight,     \* the singleflight entry: its step, its start and what it found
    caller,     \* per request: ready, claimed, waiting, answered
    measured,   \* cache_backend_usage: when the figure on file was read, or none
    spent       \* history: starts of measurements that used up a window

measureVars == <<now, backends, attempt, flight, caller, measured, spent>>

None == MaxTime + 1
NoFlight == [at |-> "none", start |-> 0, rows |-> FALSE]

MeasureInit ==
    /\ now = 0 /\ backends = FALSE /\ attempt = None /\ flight = NoFlight
    /\ caller = [c \in Callers |-> "ready"] /\ measured = None /\ spent = {}

\* A flight ends within its deadline, and a caller does not dwell between two statements.
Tick ==
    /\ now < MaxTime /\ (\A c \in Callers : caller[c] # "claimed")
    /\ (flight.at # "none" => now < flight.start + Timeout)
    /\ now' = now + 1
    /\ UNCHANGED <<backends, attempt, flight, caller, measured, spent>>

\* An administrator configures the first backend.
CreateBackend ==
    /\ ~backends /\ backends' = TRUE
    /\ UNCHANGED <<now, attempt, flight, caller, measured, spent>>

\* Mutant: the window is counted from the last success.
ClaimMeasureAttempt_Success(c) ==
    /\ caller[c] = "ready"
    /\ IF measured # None /\ now < measured + Interval
       THEN caller' = [caller EXCEPT ![c] = "answered"] /\ UNCHANGED attempt
       ELSE caller' = [caller EXCEPT ![c] = "claimed"] /\ attempt' = now
    /\ UNCHANGED <<now, backends, flight, measured, spent>>

\* claimMeasureAttempt: refused within the window of the last attempt.
ClaimMeasureAttempt(c) ==
    /\ caller[c] = "ready"
    /\ IF attempt # None /\ now < attempt + Interval
       THEN caller' = [caller EXCEPT ![c] = "answered"] /\ UNCHANGED attempt
       ELSE caller' = [caller EXCEPT ![c] = "claimed"] /\ attempt' = now
    /\ UNCHANGED <<now, backends, flight, measured, spent>>

\* DoChan: joins the flight that is under way, or starts one.
DoChan(c) ==
    /\ caller[c] = "claimed" /\ caller' = [caller EXCEPT ![c] = "waiting"]
    /\ IF flight.at = "none"
       THEN /\ flight' = [NoFlight EXCEPT !.at = "query", !.start = now]
            /\ spent' = spent \cup {now}
       ELSE UNCHANGED <<flight, spent>>
    /\ UNCHANGED <<now, backends, attempt, measured>>

\* MeasureProjectUsage: the aggregate returns, or the flight's deadline or an error ends it.
Query ==
    /\ flight.at = "query"
    /\ \/ flight' = [flight EXCEPT !.at = IF backends THEN "upsert" ELSE "release", !.rows = backends]
       \/ flight' = [flight EXCEPT !.at = "return"]
    /\ UNCHANGED <<now, backends, attempt, caller, measured, spent>>

\* UpsertBackendUsage, which may fail.
Upsert ==
    /\ flight.at = "upsert" /\ flight' = [flight EXCEPT !.at = "return"]
    /\ measured' \in {now, measured}
    /\ UNCHANGED <<now, backends, attempt, caller, spent>>

\* releaseMeasureAttempt: nothing was measurable, so the window is given back.
ReleaseMeasureAttempt ==
    /\ flight.at = "release" /\ flight' = [flight EXCEPT !.at = "return"]
    /\ attempt' = None
    /\ spent' = spent \ {flight.start}
    /\ UNCHANGED <<now, backends, caller, measured>>

\* The function returns: singleflight forgets the key and answers everyone who waits.
FlightReturns ==
    /\ flight.at = "return" /\ flight' = NoFlight
    /\ caller' = [c \in Callers |-> IF caller[c] = "waiting" THEN "answered" ELSE caller[c]]
    /\ UNCHANGED <<now, backends, attempt, measured, spent>>

\* A waiting caller's own context ends.
Cancel(c) ==
    /\ caller[c] = "waiting" /\ caller' = [caller EXCEPT ![c] = "answered"]
    /\ UNCHANGED <<now, backends, attempt, flight, measured, spent>>

\* The page is opened again.
Again(c) ==
    /\ caller[c] = "answered" /\ caller' = [caller EXCEPT ![c] = "ready"]
    /\ UNCHANGED <<now, backends, attempt, flight, measured, spent>>

MeasureNext ==
    \/ Tick \/ CreateBackend \/ Query \/ Upsert \/ ReleaseMeasureAttempt \/ FlightReturns
    \/ \E c \in Callers : ClaimMeasureAttempt(c) \/ DoChan(c) \/ Cancel(c) \/ Again(c)

MeasureSpec == MeasureInit /\ [][MeasureNext]_measureVars

-----------------------------------------------------------------------------
(* Properties *)

\* Measurements that cost something are an interval apart, whether they succeed, fail or
\* time out, and whatever the callers do; at the interval's end the earlier one is over.
MeasurementsAreSpaced ==
    \A s, t \in spent : s < t => t >= s + Interval

=============================================================================
