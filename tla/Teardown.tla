------------------------------ MODULE Teardown ------------------------------
(***************************************************************************)
(* Deleting a backend or a project: the API marks it                       *)
(* (internal/api/backends.go, projects.go), the collector's first stage    *)
(* empties and drops it over as many runs as it takes                      *)
(* (internal/gc/teardown.go), and builds go on writing through routes the  *)
(* resolver cached before the mark (internal/cache/httpblob/resolver.go).  *)
(* One slug is modelled; ids are never reused.                             *)
(***************************************************************************)
EXTENDS Naturals, FiniteSets, FiniteSetsExt

CONSTANTS
    BackendKinds,  \* backend kinds in use
    Hashserv,      \* the kinds that keep hashserv rows and no objects
    ObjectKeys,    \* object keys, in keyset order
    Admins,        \* project admins calling the API
    OrgAdmins,     \* those of them who administer the org too
    MaxBackends,   \* bound on the backends ever created
    MaxProjects,   \* bound on the projects ever created
    BatchSize,     \* --gc-batch-size
    MaxPages,      \* teardownMaxPages
    Stuck,         \* the kinds whose deletes fail on every run
    AdminOps       \* the requests the admins make

TeardownAssumption ==
    /\ Hashserv \subseteq BackendKinds /\ Stuck \subseteq BackendKinds
    /\ OrgAdmins \subseteq Admins
    /\ AdminOps \subseteq {"create", "update", "delete", "delete project"}
    /\ ObjectKeys \subseteq Nat \ {0}
    /\ {MaxBackends, MaxProjects, BatchSize, MaxPages} \subseteq Nat \ {0}

Ids == 1 .. MaxBackends
Projects == 1 .. MaxProjects

VARIABLES
    project,   \* the projects rows: none, live or deleting
    backend,   \* the cache_backends rows: project, kind, state, enabled
    objects,   \* cache_objects, by backend: each key absent, old or fresh, that is,
               \* written after the current run's snapshot
    hashes,    \* which of the two hashserv tables hold rows, by backend
    fill,      \* the route fill under way for a kind
    route,     \* the resolver's cache: the backend a kind resolves to, 0 for none
    writing,   \* backends some request has resolved and is about to write to
    call,      \* the control-plane request of each admin
    stage      \* the collector's run, in its first stage

teardownVars == <<project, backend, objects, hashes, fill, route, writing, call, stage>>
data == <<objects, hashes>>
routes == <<fill, route, writing>>

FreeId == [project |-> 0, kind |-> "", st |-> "none", enabled |-> FALSE]
NoAdminCall == [at |-> "idle", project |-> 0, backend |-> 0, kind |-> ""]
NoStage == [at |-> "idle", todo |-> {}, now |-> 0, pages |-> 0, after |-> 0,
            page |-> {}, done |-> TRUE, failed |-> FALSE]

TeardownInit ==
    /\ project = [p \in Projects |-> IF p = 1 THEN "live" ELSE "none"]
    /\ backend = [b \in Ids |-> FreeId]
    /\ objects = [b \in Ids |-> [x \in ObjectKeys |-> "none"]]
    /\ hashes = [b \in Ids |-> {}]
    /\ fill = [k \in BackendKinds |-> [at |-> "idle", id |-> 0]]
    /\ route = [k \in BackendKinds |-> 0]
    /\ writing = {}
    /\ call = [a \in Admins |-> NoAdminCall]
    /\ stage = NoStage

Exists(b) == backend[b].st # "none"
Marked(b) == backend[b].st = "deleting"
Live(p) == project[p] = "live"

\* BackendHasObjects: the three tables with a RESTRICT key to the backend.
Holds(b) == hashes[b] # {} \/ \E x \in ObjectKeys : objects[b][x] # "none"

\* ListBackendsForProject, by kind: live and marked rows alike.
BackendOf(p, k) == {b \in Ids : Exists(b) /\ backend[b].project = p /\ backend[b].kind = k}

\* The two UPDATEs that mark: deleting_at, and enabled = false with it.
Mark(S) == [b \in Ids |-> IF b \in S THEN [backend[b] EXCEPT !.st = "deleting", !.enabled = FALSE]
                                     ELSE backend[b]]

-----------------------------------------------------------------------------
(* The control plane.  Every handler has passed scopeFrom's project guard,   *)
(* which resolves live projects only, before its first step.                 *)

\* handleCreateProject: the slug is free once the old row is gone (slugConflict).
CreateProject(p) ==
    /\ project[p] = "none" /\ \A q \in Projects : q < p <=> project[q] = "gone"
    /\ project' = [project EXCEPT ![p] = "live"]
    /\ UNCHANGED <<backend, data, routes, call, stage>>

BeginCall(a, r) == call[a] = NoAdminCall /\ call' = [call EXCEPT ![a] = r]
EndCall(a) == call' = [call EXCEPT ![a] = NoAdminCall]

\* handleCreateBackend has resolved its scope and decoded the body.
BeginCreate(a, p, k) ==
    /\ Live(p) /\ BeginCall(a, [NoAdminCall EXCEPT !.at = "create", !.project = p, !.kind = k])
    /\ UNCHANGED <<project, backend, data, routes, stage>>

\* The INSERT of CreateBackend.  The foreign key wants the project's row, in whatever
\* state; the unique key wants the kind to be free; MaxBackends bounds the ids.
InsertBackend(a) ==
    LET r == call[a] IN
    /\ r.at = "create"
    /\ EndCall(a)
    /\ \/ /\ project[r.project] \in {"live", "deleting"} /\ BackendOf(r.project, r.kind) = {}
          /\ \E b \in Ids :
                /\ \A c \in Ids : c < b <=> backend[c].project # 0
                /\ backend' = [backend EXCEPT ![b] =
                        [project |-> r.project, kind |-> r.kind, st |-> "live", enabled |-> TRUE]]
       \/ /\ project[r.project] = "gone" \/ BackendOf(r.project, r.kind) # {}
                \/ \A b \in Ids : backend[b].project # 0
          /\ UNCHANGED backend
    /\ UNCHANGED <<project, data, routes, stage>>

\* handleUpdateBackend reads the row and refuses a marked one.
BeginUpdate(a, p, k) ==
    /\ Live(p)
    /\ \E b \in BackendOf(p, k) :
            ~Marked(b) /\ BeginCall(a, [NoAdminCall EXCEPT !.at = "update", !.backend = b])
    /\ UNCHANGED <<project, backend, data, routes, stage>>

\* Mutant: UpdateBackend writes the whole row it read, the mark included.
UpdateBackend_WholeRow(a, e) ==
    LET b == call[a].backend IN
    /\ call[a].at = "update"
    /\ backend' = IF Exists(b) THEN [backend EXCEPT ![b].enabled = e, ![b].st = "live"] ELSE backend
    /\ EndCall(a)
    /\ UNCHANGED <<project, data, routes, stage>>

\* UpdateBackend: every column but deleting_at, whatever happened since the read.
UpdateBackend(a, e) ==
    LET b == call[a].backend IN
    /\ call[a].at = "update"
    /\ backend' = IF Exists(b) THEN [backend EXCEPT ![b].enabled = e] ELSE backend
    /\ EndCall(a)
    /\ UNCHANGED <<project, data, routes, stage>>

\* handleDeleteBackend reads the row; a marked one is answered 202 at once.
BeginDelete(a, p, k) ==
    /\ Live(p)
    /\ \E b \in BackendOf(p, k) :
            ~Marked(b) /\ BeginCall(a, [NoAdminCall EXCEPT !.at = "probe", !.backend = b])
    /\ UNCHANGED <<project, backend, data, routes, stage>>

\* deleteEmptyBackend's probe.
BackendHasObjects(a) ==
    /\ call[a].at = "probe"
    /\ call' = [call EXCEPT ![a].at = IF Holds(call[a].backend) THEN "mark" ELSE "delete"]
    /\ UNCHANGED <<project, backend, data, routes, stage>>

\* Mutant: the foreign key cascades, as the probe seemed to allow.
DeleteBackend_Cascades(a) ==
    LET b == call[a].backend IN
    /\ call[a].at = "delete"
    /\ backend' = [backend EXCEPT ![b].st = "none"]
    /\ objects' = [objects EXCEPT ![b] = [x \in ObjectKeys |-> "none"]]
    /\ hashes' = [hashes EXCEPT ![b] = {}]
    /\ EndCall(a)
    /\ UNCHANGED <<project, routes, stage>>

\* Its delete: a row written since the probe is a foreign-key violation, which lands
\* on the mark; zero rows deleted is success.
DeleteBackend(a) ==
    LET b == call[a].backend IN
    /\ call[a].at = "delete"
    /\ \/ Holds(b) /\ call' = [call EXCEPT ![a].at = "mark"] /\ UNCHANGED backend
       \/ ~Holds(b) /\ backend' = [backend EXCEPT ![b].st = "none"] /\ EndCall(a)
    /\ UNCHANGED <<project, data, routes, stage>>

\* Only an org admin may destroy what a backend holds.  A row that is gone is a 404.
MarkBackendDeleting(a) ==
    LET b == call[a].backend IN
    /\ call[a].at = "mark"
    /\ backend' = IF a \in OrgAdmins /\ Exists(b) THEN Mark({b}) ELSE backend
    /\ EndCall(a)
    /\ UNCHANGED <<project, data, routes, stage>>

\* handleDeleteProject: one transaction behind LockProjectForTeardown.
DeleteProject(a, p) ==
    LET all   == {b \in Ids : Exists(b) /\ backend[b].project = p}
        empty == {b \in all : ~Holds(b)}
    IN
    /\ a \in OrgAdmins /\ Live(p)
    /\ backend' = [b \in Ids |-> IF b \in empty THEN [backend[b] EXCEPT !.st = "none"]
                                               ELSE Mark(all)[b]]
    /\ project' = [project EXCEPT ![p] = IF all = empty THEN "gone" ELSE "deleting"]
    /\ UNCHANGED <<data, routes, call, stage>>

-----------------------------------------------------------------------------
(* The resolver and the writers *)

\* Resolve misses and load asks for the project.
ResolveRoute(k) ==
    /\ route[k] = 0 /\ fill[k].at = "idle"
    /\ \E p \in Projects : Live(p) /\ fill' = [fill EXCEPT ![k] = [at |-> "project", id |-> p]]
    /\ UNCHANGED <<project, backend, data, route, writing, call, stage>>

\* Mutant: the probe does not filter on the mark.
GetBackend_Marked(k) ==
    /\ fill[k].at = "project"
    /\ LET found == BackendOf(fill[k].id, k)
       IN  fill' = [fill EXCEPT ![k] = [at |-> IF found = {} THEN "idle" ELSE "store",
                                        id |-> IF found = {} THEN 0 ELSE Max(found)]]
    /\ UNCHANGED <<project, backend, data, route, writing, call, stage>>

\* load asks for the backend, which must carry no mark.
GetBackend(k) ==
    /\ fill[k].at = "project"
    /\ LET found == {b \in BackendOf(fill[k].id, k) : ~Marked(b)}
       IN  fill' = [fill EXCEPT ![k] = [at |-> IF found = {} THEN "idle" ELSE "store",
                                        id |-> IF found = {} THEN 0 ELSE Max(found)]]
    /\ UNCHANGED <<project, backend, data, route, writing, call, stage>>

\* Resolve stores what it loaded, however old that has become.
StoreRoute(k) ==
    /\ fill[k].at = "store"
    /\ route' = [route EXCEPT ![k] = fill[k].id]
    /\ fill' = [fill EXCEPT ![k] = [at |-> "idle", id |-> 0]]
    /\ UNCHANGED <<project, backend, data, writing, call, stage>>

\* defaultRouteTTL has passed.  Nothing calls Invalidate.
Expire(k) ==
    /\ route[k] # 0
    /\ route' = [route EXCEPT ![k] = 0]
    /\ UNCHANGED <<project, backend, data, fill, writing, call, stage>>

\* A build's write is routed by the cached entry.
RouteWrite(k) ==
    /\ route[k] # 0
    /\ writing' = writing \cup {route[k]}
    /\ UNCHANGED <<project, backend, data, fill, route, call, stage>>

\* It stores its row, or finds the backend's row gone (a foreign-key violation).
WriteRow(b) ==
    /\ b \in writing
    /\ writing' = writing \ {b}
    /\ \/ ~Exists(b) /\ UNCHANGED data
       \/ /\ Exists(b) /\ backend[b].kind \in Hashserv
          /\ \E t \in {"unihashes", "outhashes"} : hashes' = [hashes EXCEPT ![b] = @ \cup {t}]
          /\ UNCHANGED objects
       \/ /\ Exists(b) /\ backend[b].kind \notin Hashserv
          /\ \E x \in ObjectKeys :
                objects' = [objects EXCEPT ![b][x] = IF stage.at = "idle" THEN "old" ELSE "fresh"]
          /\ UNCHANGED hashes
    /\ UNCHANGED <<project, backend, fill, route, call, stage>>

-----------------------------------------------------------------------------
(* The collector's stage *)

\* A run starts and freezes its snapshot: everything written so far is before it.
StartRun ==
    /\ stage.at = "idle"
    /\ objects' = [b \in Ids |-> [x \in ObjectKeys |-> IF objects[b][x] = "fresh" THEN "old" ELSE objects[b][x]]]
    /\ stage' = [NoStage EXCEPT !.at = "mark"]
    /\ UNCHANGED <<project, backend, hashes, routes, call>>

\* markStragglers: the backends of a marked project follow it.
MarkStragglers ==
    /\ stage.at = "mark"
    /\ backend' = Mark({b \in Ids : Exists(b) /\ project[backend[b].project] = "deleting"})
    /\ stage' = [stage EXCEPT !.at = "list"]
    /\ UNCHANGED <<project, data, routes, call>>

\* The statement fails: the error is kept and the stage goes on.
MarkStragglersFails ==
    /\ stage.at = "mark"
    /\ stage' = [stage EXCEPT !.at = "list", !.failed = TRUE]
    /\ UNCHANGED <<project, backend, data, routes, call>>

\* The backend the stage works on, in id order, and the run once it is done with it.
NextBackend(r) ==
    IF r.todo = {} THEN [r EXCEPT !.at = "projects", !.now = 0]
    ELSE [r EXCEPT !.at = "scan", !.now = Min(r.todo), !.todo = r.todo \ {Min(r.todo)},
                   !.pages = 0, !.after = 0, !.page = {}, !.done = TRUE]

\* The worklist: marked, or under a marked project.
ListBackendsForTeardown ==
    /\ stage.at = "list"
    /\ stage' = NextBackend([stage EXCEPT !.todo =
                    {b \in Ids : Exists(b) /\ (Marked(b) \/ ~Live(backend[b].project))}])
    /\ UNCHANGED <<project, backend, data, routes, call>>

\* purgeObjects scans one page of what its snapshot holds beyond the cursor.
PurgeScan ==
    LET b == stage.now
        ahead == {x \in ObjectKeys : x > stage.after /\ objects[b][x] = "old"}
        page  == {x \in ahead : Cardinality({y \in ahead : y < x}) < BatchSize}
    IN
    /\ stage.at = "scan"
    /\ stage' = IF page = {} THEN [stage EXCEPT !.at = "unihashes", !.pages = 0]
              ELSE [stage EXCEPT !.at = "delete", !.page = page, !.after = Max(page)]
    /\ UNCHANGED <<project, backend, data, routes, call>>

\* Mutant: the error of one backend ends the stage.
PurgeFails_Aborts ==
    /\ stage.at \in {"delete", "unihashes"} /\ backend[stage.now].kind \in Stuck
    /\ stage.at = "unihashes" => backend[stage.now].kind \in Hashserv
    /\ stage' = NoStage
    /\ UNCHANGED <<project, backend, data, routes, call>>

\* The delete of a stuck backend fails: its error is kept, the next one is taken.
PurgeFails ==
    /\ stage.at \in {"delete", "unihashes"} /\ backend[stage.now].kind \in Stuck
    /\ stage.at = "unihashes" => backend[stage.now].kind \in Hashserv
    /\ stage' = NextBackend([stage EXCEPT !.failed = TRUE])
    /\ UNCHANGED <<project, backend, data, routes, call>>

\* deletePage: DeleteBatch spares what was overwritten since the scan.  The walk ends
\* on a short page, or unfinished at the tick's budget.
DeletePage ==
    LET b == stage.now
        short == Cardinality(stage.page) < BatchSize
        spent == stage.pages + 1 >= MaxPages
    IN
    /\ stage.at = "delete" /\ backend[b].kind \notin Stuck
    /\ objects' = [objects EXCEPT ![b] =
            [x \in ObjectKeys |-> IF x \in stage.page /\ @[x] = "old" THEN "none" ELSE @[x]]]
    /\ stage' = IF short \/ spent
              THEN [stage EXCEPT !.at = "unihashes", !.pages = 0, !.page = {}, !.done = short]
              ELSE [stage EXCEPT !.at = "scan", !.pages = @ + 1, !.page = {}]
    /\ UNCHANGED <<project, backend, hashes, routes, call>>

\* purgeHashserv, a table at a time, roots first.  A chunk of one row is a full one: the
\* table counts as drained when a chunk finds nothing.
PurgeHashserv ==
    LET b == stage.now  t == stage.at
        full  == t \in hashes[b]
        spent == stage.pages + 1 >= MaxPages
        next  == IF t = "unihashes" THEN "outhashes" ELSE "drop"
    IN
    /\ t \in {"unihashes", "outhashes"}
    /\ backend[b].kind \notin Stuck \/ backend[b].kind \notin Hashserv
    /\ hashes' = [hashes EXCEPT ![b] = @ \ {t}]
    /\ stage' = IF ~full THEN [stage EXCEPT !.at = next, !.pages = 0]
              ELSE IF ~spent THEN [stage EXCEPT !.pages = @ + 1]
              ELSE [stage EXCEPT !.at = "drop", !.done = FALSE]
    /\ UNCHANGED <<project, backend, objects, routes, call>>

\* Mutant: the row's foreign key does not refuse what the barrier spared.
DropBackendRow_Cascades ==
    LET b == stage.now IN
    /\ stage.at = "drop"
    /\ backend' = IF Marked(b) THEN [backend EXCEPT ![b].st = "none"] ELSE backend
    /\ stage' = NextBackend(stage)
    /\ UNCHANGED <<project, data, routes, call>>

\* dropBackendRow: the mark is in the predicate, and a row left behind refuses it.
DropBackendRow ==
    LET b == stage.now IN
    /\ stage.at = "drop"
    /\ backend' = IF stage.done /\ Marked(b) /\ ~Holds(b) THEN [backend EXCEPT ![b].st = "none"]
                  ELSE backend
    /\ stage' = NextBackend(stage)
    /\ UNCHANGED <<project, data, routes, call>>

\* finishTornDownProjects: marked, and no backend left.
FinishTornDownProjects ==
    /\ stage.at = "projects"
    /\ project' = [p \in Projects |->
            IF project[p] = "deleting" /\ \A b \in Ids : Exists(b) => backend[b].project # p
            THEN "gone" ELSE project[p]]
    /\ stage' = [stage EXCEPT !.at = IF stage.failed THEN "failed" ELSE "retain"]
    /\ UNCHANGED <<backend, data, routes, call>>

\* sweep returns the stage's error, or goes on to the retention stages.
EndRun ==
    /\ stage.at \in {"failed", "retain"}
    /\ stage' = NoStage
    /\ UNCHANGED <<project, backend, data, routes, call>>

-----------------------------------------------------------------------------
SweepStep ==
    \/ StartRun \/ MarkStragglersFails \/ ListBackendsForTeardown
    \/ PurgeScan \/ PurgeFails \/ DeletePage \/ PurgeHashserv
    \/ DropBackendRow \/ FinishTornDownProjects \/ EndRun

AdminAnswer(a) ==
    \/ InsertBackend(a) \/ BackendHasObjects(a) \/ DeleteBackend(a) \/ MarkBackendDeleting(a)
    \/ \E e \in BOOLEAN : UpdateBackend(a, e)

AdminRequest(a) ==
    \E p \in Projects, k \in BackendKinds :
        \/ "create" \in AdminOps /\ BeginCreate(a, p, k)
        \/ "update" \in AdminOps /\ BeginUpdate(a, p, k)
        \/ "delete" \in AdminOps /\ BeginDelete(a, p, k)
        \/ "delete project" \in AdminOps /\ DeleteProject(a, p)

Build(k) == ResolveRoute(k) \/ RouteWrite(k)

TeardownNext ==
    \/ SweepStep \/ MarkStragglers
    \/ \E p \in Projects : CreateProject(p)
    \/ \E a \in Admins : AdminRequest(a) \/ AdminAnswer(a)
    \/ \E k \in BackendKinds : Build(k) \/ GetBackend(k) \/ StoreRoute(k) \/ Expire(k)
    \/ \E b \in Ids : WriteRow(b)

TeardownSpec == TeardownInit /\ [][TeardownNext]_teardownVars

-----------------------------------------------------------------------------
(* Properties *)

\* Rows keep their shape and their referential integrity: what a backend holds, and a
\* backend itself, is under a row that exists, at every step of every teardown.
TeardownTypeOK ==
    /\ project \in [Projects -> {"none", "live", "deleting", "gone"}]
    /\ \A b \in Ids :
        /\ backend[b].st \in {"none", "live", "deleting"} /\ backend[b].enabled \in BOOLEAN
        /\ Exists(b) => project[backend[b].project] \in {"live", "deleting"}
        /\ Holds(b) => Exists(b)
    /\ stage.now \in Ids \cup {0} /\ stage.todo \subseteq Ids

\* A backend loses rows only once somebody has asked for it or its project to be
\* deleted, and a mark is never taken back: no request that read the row before the
\* mark (handleUpdateBackend) undoes it, and no run empties the wrong backend.
OnlyTheDoomedAreEmptied ==
    \A b \in Ids :
      /\ Marked(b) => backend'[b].st \in {"deleting", "none"}
      /\ (\/ \E x \in ObjectKeys : objects[b][x] # "none" /\ objects'[b][x] = "none"
          \/ ~(hashes[b] \subseteq hashes'[b]))
         => Marked(b) \/ ~Live(backend[b].project)

\* A backend that holds something leaves its live state for the mark only, whatever a
\* build writes between deleteEmptyBackend's probe and its delete, and the mark is an org
\* admin's answer or follows the project's: the role floor of handleDeleteBackend.
OnlyOrgAdminsMark ==
    \A b \in Ids : Holds(b) /\ backend[b].st = "live" /\ backend'[b].st # "live" =>
        /\ backend'[b].st = "deleting"
        /\ \/ project'[backend[b].project] = "deleting"
           \/ \E a \in OrgAdmins : call[a].at = "mark" /\ call[a].backend = b /\ call'[a] = NoAdminCall

\* With no org admin about, nothing a build stored is ever deleted and no backend that
\* holds anything is marked.
ProjectAdminsDestroyNothing ==
    \A b \in Ids : Holds(b) => Holds(b)' /\ backend'[b].st = backend[b].st

\* Both halves of what a step may lose.
LossIsAskedFor == OnlyTheDoomedAreEmptied /\ OnlyOrgAdminsMark

\* Nothing is lost that nobody with the right to asked for: rows go only under a mark,
\* marks stay, and what holds something is marked by an org admin or with its project.
NothingLostUnasked == [][LossIsAskedFor]_teardownVars

=============================================================================
