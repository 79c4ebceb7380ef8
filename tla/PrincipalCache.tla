-------------------------- MODULE PrincipalCache --------------------------
(* How a request that acts as a user gets that user's roles                *)
(* (internal/auth: usertoken.go, principalcache.go, reconcile.go,          *)
(* principal.go).  A personal access token is probed in one statement that *)
(* also reads users.authz_epoch; the role set is then looked up under      *)
(* (user, epoch) and, on a miss, read by three separate statements.  A     *)
(* session or an ID token reads the three tables every time.  The epoch is *)
(* bumped by a trigger inside every transaction that writes a role.        *)
(* The module follows one user, one organization and one project; the user *)
(* id in the cache's key keeps users apart.                                *)
EXTENDS Integers, FiniteSets

CONSTANTS
  Requests,        \* requests; each is served once
  MaxEpoch,        \* bound: role writes follow until the epoch reaches it
  SiteRoles, OrgRoles, ProjectRoles   \* the roles written, of the ones below

RolesAssumption ==
  /\ MaxEpoch \in Nat
  /\ SiteRoles \subseteq {"user", "admin"}
  /\ OrgRoles \subseteq {"none", "member", "admin", "owner"}
  /\ ProjectRoles \subseteq {"none", "reader", "writer", "admin"}

ASSUME RolesConstants == RolesAssumption

VARIABLES
  user,     \* the three tables: site role, org role, project role; or Gone
  epoch,    \* users.authz_epoch
  token,    \* the token row: its max_scope, or "revoked"
  cache,    \* principalShard.m for this user: epoch -> role set or NoEntry
  req,      \* each request: where it is, what it holds
  seen      \* history: the states of the tables since the request began

vars == <<user, epoch, token, cache, req, seen>>

Scopes       == {"read", "write"}
Gone         == [site |-> "gone"]
NoEntry      == [site |-> "no entry"]
Nobody       == [site |-> "user", org |-> "none", proj |-> "none"]

Idle == [pc |-> "idle", method |-> "none", scope |-> "read", epoch |-> 0, authz |-> Nobody]

Init ==
  /\ user = [site |-> "user", org |-> "member", proj |-> "writer"]
  /\ epoch = 0
  /\ token \in Scopes
  /\ cache = [e \in 0 .. MaxEpoch |-> NoEntry]
  /\ req = [r \in Requests |-> Idle]
  /\ seen = [r \in Requests |-> {}]

-----------------------------------------------------------------------------
(* The tables.  Each write commits with the bumps its triggers make, and    *)
(* every request under way may see it.                                      *)

Witness(u) == seen' = [r \in Requests |->
                 IF req[r].pc \in {"idle", "done", "refused"} THEN seen[r] ELSE seen[r] \cup {u}]

(* One bump per row whose role changed: the users row for the site role,    *)
(* one for the org membership, one for the project membership (the cascade  *)
(* of a membership delete fires the project table's own trigger).           *)
Write(u) ==
  LET bumps == Cardinality({f \in {"site", "org", "proj"} : user[f] # u[f]})
  IN  /\ bumps > 0 /\ epoch + bumps <= MaxEpoch
      /\ epoch' = epoch + bumps
      /\ user' = u
      /\ Witness(u)
      /\ UNCHANGED <<token, cache, req>>

SetSiteRole == user # Gone /\ \E s \in SiteRoles : Write([user EXCEPT !.site = s])

SetOrgRole == user # Gone /\ \E o \in OrgRoles \ {"none"} : Write([user EXCEPT !.org = o])

LeaveOrg == user # Gone /\ Write([user EXCEPT !.org = "none", !.proj = "none"])

(* A project role needs the org membership its foreign key names. *)
SetProjectRole ==
  user # Gone /\ user.org # "none" /\ \E p \in ProjectRoles : Write([user EXCEPT !.proj = p])

(* An operator removes the user's row; tokens and roles cascade. *)
DropUser ==
  /\ user # Gone
  /\ user' = Gone
  /\ token' = "revoked"
  /\ Witness(Gone)
  /\ UNCHANGED <<epoch, cache, req>>

RevokeToken == token' = "revoked" /\ token # "revoked" /\ UNCHANGED <<user, epoch, cache, req, seen>>

-----------------------------------------------------------------------------
(* A request. *)

Begin(r, m) ==
  /\ req[r].pc = "idle"
  /\ req' = [req EXCEPT ![r] = [@ EXCEPT !.pc = IF m = "user_token" THEN "probe" ELSE "user",
                                         !.method = m, !.scope = "write"]]
  /\ seen' = [seen EXCEPT ![r] = {user}]
  /\ UNCHANGED <<user, epoch, token, cache>>

(* The token's row and the epoch, in one statement. *)
validateUserToken(r) ==
  /\ req[r].pc = "probe"
  /\ req' = [req EXCEPT ![r] = [@ EXCEPT !.pc = IF token = "revoked" THEN "refused" ELSE "load",
                                         !.scope = IF token = "revoked" THEN "read" ELSE token,
                                         !.epoch = epoch]]
  /\ UNCHANGED <<user, epoch, token, cache, seen>>

LookupKey_User(r) == CHOOSE e \in 0 .. MaxEpoch :
  \/ cache[e] # NoEntry
  \/ (\A f \in 0 .. MaxEpoch : cache[f] = NoEntry) /\ e = 0

(* The key of the entry a request reads and writes. *)
LookupKey(r) == req[r].epoch

get(r) ==
  /\ req[r].pc = "load"
  /\ LET e == cache[LookupKey(r)]
     IN  req' = [req EXCEPT ![r] = [@ EXCEPT
           !.pc = IF e = NoEntry THEN "user" ELSE IF e = Gone THEN "refused" ELSE "done",
           !.authz = IF e \in {NoEntry, Gone} THEN Nobody ELSE e]]
  /\ UNCHANGED <<user, epoch, token, cache, seen>>

(* GetUser: without a row a token is refused, and the refusal is remembered *)
(* under its key; a session is simply unauthenticated.                      *)
loadUser(r) ==
  /\ req[r].pc = "user"
  /\ IF user = Gone
     THEN /\ req' = [req EXCEPT ![r].pc = "refused"]
          /\ cache' = IF req[r].method = "user_token" THEN [cache EXCEPT ![LookupKey(r)] = Gone] ELSE cache
     ELSE /\ req' = [req EXCEPT ![r] = [@ EXCEPT !.pc = "orgs", !.authz.site = user.site]]
          /\ UNCHANGED cache
  /\ UNCHANGED <<user, epoch, token, seen>>

loadOrgs(r) ==
  /\ req[r].pc = "orgs"
  /\ req' = [req EXCEPT ![r] = [@ EXCEPT
       !.pc = "projects", !.authz.org = IF user = Gone THEN "none" ELSE user.org]]
  /\ UNCHANGED <<user, epoch, token, cache, seen>>

loadProjects(r) ==
  /\ req[r].pc = "projects"
  /\ req' = [req EXCEPT ![r] = [@ EXCEPT
       !.pc = IF req[r].method = "user_token" THEN "put" ELSE "done",
       !.authz.proj = IF user = Gone THEN "none" ELSE user.proj]]
  /\ UNCHANGED <<user, epoch, token, cache, seen>>

put_Fresh(r) ==
  /\ req[r].pc = "put"
  /\ cache' = [cache EXCEPT ![epoch] = req[r].authz]
  /\ req' = [req EXCEPT ![r].pc = "done"]
  /\ UNCHANGED <<user, epoch, token, seen>>

put(r) ==
  /\ req[r].pc = "put"
  /\ cache' = [cache EXCEPT ![LookupKey(r)] = req[r].authz]
  /\ req' = [req EXCEPT ![r].pc = "done"]
  /\ UNCHANGED <<user, epoch, token, seen>>

(* One of the statements fails: nothing is cached. *)
Fail(r) ==
  /\ req[r].pc \in {"probe", "user", "orgs", "projects"}
  /\ req' = [req EXCEPT ![r] = [Idle EXCEPT !.pc = "refused"]]
  /\ UNCHANGED <<user, epoch, token, cache, seen>>

(* The time to live, and a full shard, take entries away at any time. *)
evict ==
  /\ \E e \in 0 .. MaxEpoch : cache[e] # NoEntry /\ cache' = [cache EXCEPT ![e] = NoEntry]
  /\ UNCHANGED <<user, epoch, token, req, seen>>

Next ==
  \/ SetSiteRole \/ SetOrgRole \/ LeaveOrg \/ SetProjectRole \/ DropUser \/ RevokeToken \/ evict
  \/ \E r \in Requests :
       \/ \E m \in {"session", "user_token"} : Begin(r, m)
       \/ validateUserToken(r) \/ get(r)
       \/ loadUser(r) \/ loadOrgs(r) \/ loadProjects(r) \/ put(r)
       \/ Fail(r)

Spec == Init /\ [][Next]_vars

-----------------------------------------------------------------------------
(* What a principal may do (principal.go).  a is a role set, m the method   *)
(* it came by and s the most its credential may do.                         *)

isInteractive(m) == m = "session"

IsSiteAdmin(a, m) == isInteractive(m) /\ a.site = "admin"

CanViewOrg(a, m) == IsSiteAdmin(a, m) \/ a.org # "none"

CanAdminOrg(a, m) == isInteractive(m) /\ (IsSiteAdmin(a, m) \/ a.org \in {"admin", "owner"})

CanOwnOrg(a, m) == isInteractive(m) /\ (IsSiteAdmin(a, m) \/ a.org = "owner")

CanReadProject(a, m) == IsSiteAdmin(a, m) \/ a.org # "none" \/ a.proj # "none"

CanWriteProject_Uncapped(a, m, s) ==
  \/ CanAdminOrg(a, m)
  \/ a.proj \in {"writer", "admin"}

CanWriteProject(a, m, s) ==
  \/ isInteractive(m) /\ CanAdminOrg(a, m)
  \/ (isInteractive(m) \/ s = "write") /\ a.proj \in {"writer", "admin"}

CanAdminProject(a, m) == isInteractive(m) /\ (CanAdminOrg(a, m) \/ a.proj = "admin")

Powers(a, m, s) ==
  {p \in {"view org", "admin org", "own org", "read project", "write project", "admin project"} :
    \/ p = "view org" /\ CanViewOrg(a, m)
    \/ p = "admin org" /\ CanAdminOrg(a, m)
    \/ p = "own org" /\ CanOwnOrg(a, m)
    \/ p = "read project" /\ CanReadProject(a, m)
    \/ p = "write project" /\ CanWriteProject(a, m, s)
    \/ p = "admin project" /\ CanAdminProject(a, m)}

-----------------------------------------------------------------------------
(* Properties *)

\* The next probe reads the present epoch, and what it finds cached there
\* is what the tables hold now, although entries are filled by three
\* statements, by requests whose probe is long past (principalcache.go:
\* load).
CurrentEntryIsExact == (user # Gone /\ cache[epoch] # NoEntry) => cache[epoch] = user

\* Every power a request is given, it had in the tables at one instant
\* since it began: no demotion, removal or cascade that committed before a
\* request began is missed by it, cached or not (usertoken.go:
\* authenticateUserToken, reconcile.go: loadPrincipal).
AuthorityWasLive ==
  \A r \in Requests : req[r].pc = "done" =>
    \A p \in Powers(req[r].authz, req[r].method, req[r].scope) :
      \E u \in seen[r] : u # Gone /\ p \in Powers(u, req[r].method, req[r].scope)

\* The ladder: who may administer may write, who may write may read, and a
\* token never reaches past reading and writing the cache, whatever torn
\* mixture of the three tables its role set is (principal.go).
PowersAreNested ==
  \A r \in Requests : req[r].pc = "done" =>
    LET a == req[r].authz
        m == req[r].method
        s == req[r].scope
    IN  /\ CanOwnOrg(a, m) => CanAdminOrg(a, m)
        /\ CanAdminOrg(a, m) => CanViewOrg(a, m) /\ CanAdminProject(a, m)
        /\ CanAdminProject(a, m) => CanWriteProject(a, m, s)
        /\ CanWriteProject(a, m, s) => CanReadProject(a, m)
        /\ CanWriteProject(a, m, s) => m = "session" \/ s = "write"

\* What a request is given: an entry that is current is exact, every power was live at
\* one instant since the request began, and the powers are nested.
AuthorityIsSound == CurrentEntryIsExact /\ AuthorityWasLive /\ PowersAreNested

=============================================================================
