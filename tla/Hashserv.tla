------------------------------ MODULE Hashserv ------------------------------
(***************************************************************************)
(* The hash equivalence server: its connections (conn.go, framing.go,      *)
(* protocol.go), what each may do (perms.go), its handlers (handlers.go)   *)
(* and the two tables behind them (store.go), over one backend and one     *)
(* method.  Every SQL statement is a step of its own, as no handler opens  *)
(* a transaction, and may fail, which ends the connection.  A client's own *)
(* unihash is its taskhash.                                                *)
(***************************************************************************)
EXTENDS Naturals, FiniteSets

CONSTANTS
    Sessions, Tasks, Outs,
    UpTask, UpOut, UpUni,  \* the row an upstream holds: its taskhash, outhash and unihash
    HasUpstream,           \* whether the backend has one
    ReadAuthRequired,      \* the project's read policy
    Creds,                 \* credentials clients hold: subset of "none", "read", "write"
    MaxFails,              \* bound on failing statements
    MaxReports             \* bound on reports begun

None == "none"
Unihashes == Tasks \cup {UpUni}

HashservAssumption ==
    /\ UpTask \in Tasks /\ UpOut \in Outs /\ {HasUpstream, ReadAuthRequired} \subseteq BOOLEAN
    /\ Creds \subseteq {"none", "read", "write"} /\ {MaxFails, MaxReports} \subseteq Nat
    /\ None \notin Unihashes

ASSUME HashservConstants == HashservAssumption

VARIABLES
    uni,      \* hashserv_unihashes: taskhash -> unihash
    out,      \* hashserv_outhashes: its rows, as <<taskhash, outhash>>
    since,    \* their created_at: <<r, q>> when row r is older than row q
    sess,     \* per connection: step, permissions, request, how it began
    queue,    \* taskhashes queued for backfill
    fails,    \* failures so far
    reports,  \* history: reports begun, as <<taskhash, outhash>>
    crossed,  \* history: taskhashes with a report that overlapped another or failed, or bound by hand
    removed,  \* history: taskhashes a removal has touched
    told      \* history: unihashes answered for a taskhash since it was last removed

vars == <<uni, out, since, sess, queue, fails, reports, crossed, removed, told>>
tables == <<uni, out, since>>
outhashes == <<out, since>>
history == <<reports, crossed, removed, told>>

\* A connection: what it may do, and the step and the hashes of the request it serves.
Conn(at, perms, t, o, u) == [at |-> at, perms |-> perms, t |-> t, o |-> o, u |-> u]
Closed == Conn("closed", {}, None, None, None)
Idle(perms) == Conn("idle", perms, None, None, None)

Init ==
    /\ uni = [t \in Tasks |-> None] /\ out = {} /\ since = {}
    /\ sess = [s \in Sessions |-> Closed]
    /\ queue = {} /\ fails = 0 /\ reports = {} /\ crossed = {} /\ removed = {}
    /\ told = [t \in Tasks |-> {}]

-----------------------------------------------------------------------------
(* Connections *)

\* grant: what a principal may do here.  @db-admin comes with @report.
Grant(cred) ==
    CASE cred = "write" -> {"read", "report", "admin"}
      [] cred = "read" -> {"read"}
      [] OTHER -> IF ReadAuthRequired THEN {} ELSE {"read"}

\* Upgrade and handshake: a connection starts with what an anonymous caller may do.
Accept(s) ==
    /\ sess[s].at = "closed"
    /\ sess' = [sess EXCEPT ![s] = Idle(Grant("none"))]
    /\ UNCHANGED <<tables, queue, fails, history>>

\* The client hangs up, sends something the protocol does not know, or the request ends
\* in an error: a connection never survives one.
Close(s) ==
    /\ sess[s].at # "closed" /\ sess' = [sess EXCEPT ![s] = Closed]
    /\ crossed' = IF sess[s].at \in {"resolve", "mint"} THEN crossed \cup {sess[s].t} ELSE crossed
    /\ UNCHANGED <<tables, queue, fails, reports, removed, told>>

\* A statement fails; only a write-through of an upstream row survives that.
Fails(s) ==
    /\ fails < MaxFails /\ sess[s].at \in {"report", "resolve", "mint", "reread", "removeout"}
    /\ fails' = fails + 1
    /\ sess' = [sess EXCEPT ![s] = Closed]
    /\ crossed' = crossed \cup {sess[s].t}
    /\ UNCHANGED <<tables, queue, reports, removed, told>>

\* handleAuth: the permissions are replaced; without @read the answer is an error.
HandleAuth(s) ==
    /\ sess[s].at = "idle"
    /\ \E c \in Creds : sess' = [sess EXCEPT ![s] =
          IF Grant(c) = {} THEN Closed ELSE Idle(Grant(c))]
    /\ UNCHANGED <<tables, queue, fails, history>>

\* A request needs the permission; without it the connection is told and closed.
Requires(s, p) == sess[s].at = "idle" /\ p \in sess[s].perms

\* The request goes on at another step, with these hashes ...
Serves(s, at, t, o, u) ==
    sess' = [sess EXCEPT ![s] = Conn(at, sess[s].perms, t, o, u)]
Goes(s, at) == Serves(s, at, sess[s].t, sess[s].o, sess[s].u)

\* ... or it is answered.
Replies(s) == sess' = [sess EXCEPT ![s] = Idle(sess[s].perms)]
Tells(t, u) == told' = [told EXCEPT ![t] = @ \cup {u}]
Answers(s, t, u) == Replies(s) /\ Tells(t, u)

-----------------------------------------------------------------------------
(* The store *)

InsertUnihash(t, u) == uni' = IF uni[t] = None THEN [uni EXCEPT ![t] = u] ELSE uni

InsertOuthash(t, o) ==
    /\ out' = out \cup {<<t, o>>}
    /\ since' = IF <<t, o>> \in out THEN since ELSE since \cup (out \X {<<t, o>>})

DeleteOuthashes(rows) ==
    /\ out' = out \ rows
    /\ since' = {x \in since : x[1] \notin rows /\ x[2] \notin rows}

\* The taskhashes of S with a row of this output and a unihash, and the one of them whose
\* row is the oldest.
Bound(o, S) == {t \in S : <<t, o>> \in out /\ uni[t] # None}

Oldest(o, S) ==
    IF Bound(o, S) = {} THEN None
    ELSE CHOOSE t \in Bound(o, S) : \A v \in Bound(o, S) \ {t} : <<<<t, o>>, <<v, o>>>> \in since

UpKnows(t) == HasUpstream /\ t = UpTask
UpHasOut(o) == HasUpstream /\ o = UpOut

-----------------------------------------------------------------------------
(* Lookups *)

\* get: the local row; on a miss the upstream's, written through; null when it has none or
\* cannot be asked.
HandleGet(s) ==
    /\ Requires(s, "read")
    /\ \E t \in Tasks :
         \/ uni[t] # None /\ Answers(s, t, uni[t]) /\ UNCHANGED uni
         \/ uni[t] = None /\ Replies(s) /\ UNCHANGED <<uni, told>>
         \/ /\ uni[t] = None /\ UpKnows(t)
            /\ Serves(s, "through", t, None, None) /\ UNCHANGED <<uni, told>>
    /\ UNCHANGED <<outhashes, queue, fails, reports, crossed, removed>>

\* upstreamUnihash: the write-through is best effort and the answer is the upstream's.
WriteThrough(s) ==
    /\ sess[s].at = "through"
    /\ InsertUnihash(sess[s].t, UpUni) \/ UNCHANGED uni
    /\ Answers(s, sess[s].t, UpUni)
    /\ UNCHANGED <<outhashes, queue, fails, reports, crossed, removed>>

\* get-stream and exists-stream: "ok", then an answer per line until the end marker, each
\* a query of its own; a get-stream miss that the upstream knows is queued for backfill.
OpenStream(s) ==
    /\ Requires(s, "read") /\ Goes(s, "stream")
    /\ UNCHANGED <<tables, queue, fails, history>>

StreamLine(s) ==
    /\ sess[s].at = "stream"
    /\ \E t \in Tasks :
         \/ uni[t] # None /\ Tells(t, uni[t]) /\ UNCHANGED queue
         \/ uni[t] = None /\ UpKnows(t) /\ queue' = queue \cup {t} /\ Tells(t, UpUni)
    /\ UNCHANGED <<tables, sess, fails, reports, crossed, removed>>

EndStream(s) ==
    /\ sess[s].at = "stream" /\ Replies(s)
    /\ UNCHANGED <<tables, queue, fails, history>>

\* The background writer inserts what the upstream answered.
Backfill ==
    /\ \E t \in queue : InsertUnihash(t, UpUni) /\ queue' = queue \ {t}
    /\ UNCHANGED <<outhashes, sess, fails, history>>

\* get-outhash: the oldest local row of this output, else the upstream's.
HandleGetOuthash(s) ==
    /\ Requires(s, "read")
    /\ \E o \in Outs, t \in Tasks :
         LET row == Oldest(o, Tasks) IN
         \/ row # None /\ Answers(s, row, uni[row])
         \/ row = None /\ Replies(s) /\ UNCHANGED told
         \/ row = None /\ UpHasOut(o) /\ Serves(s, "adoptuni", t, None, None) /\ UNCHANGED told
    /\ UNCHANGED <<tables, queue, fails, reports, crossed, removed>>

\* Mutant: the upstream's unihash is bound to the caller's taskhash.
PersistUpstreamUni_Callers(s) ==
    /\ sess[s].at = "adoptuni"
    /\ InsertUnihash(sess[s].t, UpUni)
    /\ Goes(s, "adoptout")
    /\ UNCHANGED <<outhashes, queue, fails, history>>

\* persistUpstream: the upstream row's own taskhash is bound, not the caller's ...
PersistUpstreamUni(s) ==
    /\ sess[s].at = "adoptuni"
    /\ InsertUnihash(UpTask, UpUni)
    /\ Goes(s, "adoptout")
    /\ UNCHANGED <<outhashes, queue, fails, history>>

\* ... then the outhash row.  Either may fail: the answer is the upstream's row all the same.
PersistUpstreamOut(s) ==
    /\ \/ sess[s].at = "adoptout" /\ InsertOuthash(UpTask, UpOut)
       \/ sess[s].at \in {"adoptuni", "adoptout"} /\ UNCHANGED outhashes
    /\ Answers(s, UpTask, UpUni)
    /\ UNCHANGED <<uni, queue, fails, reports, crossed, removed>>

-----------------------------------------------------------------------------
(* Reports *)

Reporting == {s \in Sessions : sess[s].at \in {"report", "resolve", "mint", "reread"}}

\* report, for a caller that may: the outhash row is next.
HandleReport(s) ==
    /\ Requires(s, "report") /\ Cardinality(reports) < MaxReports
    /\ \E t \in Tasks, o \in Outs :
         /\ Serves(s, "report", t, o, None)
         /\ reports' = reports \cup {<<t, o>>}
         /\ crossed' = IF Reporting = {} THEN crossed
                       ELSE crossed \cup {t} \cup {sess[r].t : r \in Reporting}
    /\ UNCHANGED <<tables, queue, fails, removed, told>>

\* report, for a caller that may only read: looked up by output, else the caller's own
\* unihash, and never written.
ReportReadOnly(s) ==
    /\ Requires(s, "read") /\ "report" \notin sess[s].perms
    /\ \E t \in Tasks, o \in Outs :
         LET row == Oldest(o, Tasks) IN Answers(s, t, IF row = None THEN t ELSE uni[row])
    /\ UNCHANGED <<tables, queue, fails, reports, crossed, removed>>

\* report-equiv, for a caller that may only read: looked up by taskhash.
ReportEquivReadOnly(s) ==
    /\ Requires(s, "read") /\ "report" \notin sess[s].perms
    /\ \E t, u \in Tasks : Answers(s, t, IF uni[t] = None THEN u ELSE uni[t])
    /\ UNCHANGED <<tables, queue, fails, reports, crossed, removed>>

\* (3) The outhash row; whether it is new gates the rest.
ReportOuthash(s) ==
    /\ sess[s].at = "report"
    /\ InsertOuthash(sess[s].t, sess[s].o)
    /\ Goes(s, IF <<sess[s].t, sess[s].o>> \in out THEN "reread" ELSE "resolve")
    /\ UNCHANGED <<uni, queue, fails, history>>

\* Mutant: the equivalence is skipped.
ResolveUnihash_Mints(s) ==
    /\ sess[s].at = "resolve"
    /\ Serves(s, "mint", sess[s].t, sess[s].o, sess[s].t)
    /\ UNCHANGED <<tables, queue, fails, history>>

\* (3a) The oldest other taskhash with this output, the upstream, or the client's own.
ResolveUnihash(s) ==
    LET row == Oldest(sess[s].o, Tasks \ {sess[s].t}) IN
    /\ sess[s].at = "resolve"
    /\ \E u \in IF row # None THEN {uni[row]}
                ELSE {sess[s].t} \cup (IF UpHasOut(sess[s].o) THEN {UpUni} ELSE {}) :
          Serves(s, "mint", sess[s].t, sess[s].o, u)
    /\ UNCHANGED <<tables, queue, fails, history>>

\* (3b) The write-once insert.
ReportUnihash(s) ==
    /\ sess[s].at = "mint"
    /\ InsertUnihash(sess[s].t, sess[s].u)
    /\ Goes(s, "reread")
    /\ UNCHANGED <<outhashes, queue, fails, history>>

\* Mutant: the answer is what this report computed.
ReportAnswer_Minted(s) ==
    /\ sess[s].at = "reread"
    /\ Answers(s, sess[s].t, IF sess[s].u # None THEN sess[s].u
                             ELSE IF uni[sess[s].t] = None THEN sess[s].t ELSE uni[sess[s].t])
    /\ UNCHANGED <<tables, queue, fails, reports, crossed, removed>>

\* (4) Always re-read; with no row, the client's own is echoed, which binds nothing.
ReportAnswer(s) ==
    LET t == sess[s].t IN
    /\ sess[s].at = "reread"
    /\ IF uni[t] = None THEN Replies(s) /\ UNCHANGED told ELSE Answers(s, t, uni[t])
    /\ UNCHANGED <<tables, queue, fails, reports, crossed, removed>>

\* report-equiv: the insert; the re-read is shared with report.
ReportEquiv(s) ==
    /\ Requires(s, "report")
    /\ \E t \in Tasks, u \in Tasks :
         /\ InsertUnihash(t, u)
         /\ Serves(s, "reread", t, None, None)
         /\ crossed' = crossed \cup {t}
    /\ UNCHANGED <<outhashes, queue, fails, reports, removed, told>>

-----------------------------------------------------------------------------
(* Removal *)

\* remove by one column: taskhash and method clear the unihash rows, then the outhash
\* rows; unihash leaves the outhash rows standing ...
HandleRemove(s) ==
    /\ Requires(s, "admin")
    /\ \E S \in {{t} : t \in Tasks} \cup {Tasks} \cup {{t \in Tasks : uni[t] = u} : u \in Unihashes} :
         /\ uni' = [t \in Tasks |-> IF t \in S THEN None ELSE uni[t]]
         /\ \/ S = Tasks /\ Serves(s, "removeout", None, None, None)
            \/ \E t \in Tasks : S = {t} /\ Serves(s, "removeout", t, None, None)
            \/ (\E u \in Unihashes : S = {t \in Tasks : uni[t] = u}) /\ Replies(s)
         /\ removed' = removed \cup S
         /\ told' = [t \in Tasks |-> IF t \in S THEN {} ELSE told[t]]
    /\ UNCHANGED <<outhashes, queue, fails, reports, crossed>>

\* ... the second statement of those ...
RemoveOuthashes(s) ==
    /\ sess[s].at = "removeout"
    /\ DeleteOuthashes({r \in out : sess[s].t \in {None, r[1]}})
    /\ Replies(s)
    /\ UNCHANGED <<uni, queue, fails, history>>

\* ... and outhash leaves the unihash rows.
RemoveByOuthash(s) ==
    /\ Requires(s, "admin")
    /\ \E o \in Outs :
         /\ DeleteOuthashes({r \in out : r[2] = o})
         /\ removed' = removed \cup {t \in Tasks : <<t, o>> \in out}
    /\ Replies(s)
    /\ UNCHANGED <<uni, queue, fails, reports, crossed, told>>

-----------------------------------------------------------------------------
Step(s) ==
    \/ Accept(s) \/ Close(s) \/ Fails(s) \/ HandleAuth(s)
    \/ HandleGet(s) \/ WriteThrough(s) \/ OpenStream(s) \/ StreamLine(s) \/ EndStream(s)
    \/ HandleGetOuthash(s) \/ PersistUpstreamUni(s) \/ PersistUpstreamOut(s)
    \/ HandleReport(s) \/ ReportReadOnly(s) \/ ReportOuthash(s) \/ ResolveUnihash(s)
    \/ ReportUnihash(s) \/ ReportAnswer(s) \/ ReportEquiv(s)
    \/ HandleRemove(s) \/ RemoveOuthashes(s) \/ RemoveByOuthash(s) \/ ReportEquivReadOnly(s)

Next == Backfill \/ \E s \in Sessions : Step(s)

Spec == Init /\ [][Next]_vars

-----------------------------------------------------------------------------
(* Properties *)

OutsOf(t) == {o \in Outs : <<t, o>> \in reports}

\* The history of an output: nobody's report of it ran at the same time as another or was
\* cut short, and none of those taskhashes was removed or bound by hand.
Undisturbed(o) == \A r \in reports : r[2] = o => r[1] \notin crossed \cup removed

\* Two taskhashes that each produced one and the same output share a unihash, whatever else
\* the taskhashes that came before them produced, as long as that output's history is
\* undisturbed: the rebuild stops propagating.
EqualOutputsConverge ==
    \A o \in Outs : Undisturbed(o) =>
        \A t, v \in Tasks : OutsOf(t) = {o} /\ OutsOf(v) = {o} /\ uni[t] # None /\ uni[v] # None
            => uni[t] = uni[v]

\* Between two removals nobody is told two unihashes for one taskhash, whatever races: the
\* table is write-once and every answer to a writer is read back from it.  A build that saw
\* two would look for two objects.
OneAnswerPerTask == \A t \in Tasks : Cardinality(told[t]) <= 1

\* A request on a connection without @report writes nothing but what the upstream really
\* holds, under the upstream's own taskhash.
ReadersOnlyImport ==
    \A s \in Sessions : sess'[s] # sess[s] /\ "report" \notin sess[s].perms =>
        /\ \A t \in Tasks : uni'[t] # uni[t] => t = UpTask /\ uni'[t] = UpUni
        /\ out' \ out \subseteq {<<UpTask, UpOut>>}

=============================================================================
