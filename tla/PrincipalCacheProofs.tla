------------------------ MODULE PrincipalCacheProofs ------------------------
(***************************************************************************)
(* Proofs about PrincipalCache and, below it, about Claims, Sessions and   *)
(* Members, for any number of requests, role writes, tokens and keys.      *)
(*                                                                         *)
(* A role set is read by three statements and may be a mixture of three    *)
(* states of the tables; it is then cached, and served to requests that    *)
(* read nothing themselves.  What makes that sound is the epoch: while it  *)
(* stands no role has moved, so a set that is being read, or was cached,   *)
(* under the present epoch is exact; and once it moves, a set under the    *)
(* old one reaches only requests that began before the move, which have    *)
(* seen every state it is mixed from.                                      *)
(*                                                                         *)
(* Sessions are copied too, by requests that write their copies back late: *)
(* what makes that sound is that a token is drawn for good at every change *)
(* of user, so that all copies under one token agree.                      *)
(***************************************************************************)
EXTENDS PrincipalCache, Members, Claims, Sessions, FiniteSetTheorems, TLAPS

Users == [site : {"user", "admin"}, org : {"none", "member", "admin", "owner"},
          proj : {"none", "reader", "writer", "admin"}]

Active == {"probe", "load", "user", "orgs", "projects", "put"}

Loading == {"orgs", "projects", "put"}

RequestRecord == [pc : Active \cup {"idle", "done", "refused"}, method : {"none", "session", "user_token"},
            scope : Scopes, epoch : 0 .. MaxEpoch, authz : Users]

\* The type of every variable.
RolesTypeOK ==
  /\ user \in Users \cup {Gone}
  /\ epoch \in 0 .. MaxEpoch
  /\ token \in Scopes \cup {"revoked"}
  /\ cache \in [0 .. MaxEpoch -> Users \cup {Gone, NoEntry}]
  /\ req \in [Requests -> RequestRecord]
  /\ seen \in [Requests -> SUBSET (Users \cup {Gone})]

\* Every role in a is one that some user row in S has, or no role at all.
Under(a, S) ==
  /\ a.site = "user" \/ \E u \in S : u # Gone /\ u.site = a.site
  /\ a.org = "none" \/ \E u \in S : u # Gone /\ u.org = a.org
  /\ a.proj = "none" \/ \E u \in S : u # Gone /\ u.proj = a.proj

\* A request under way sees the tables as they are; a token without its user is dead.
Watching ==
  /\ \A r \in Requests : req[r].pc \in Active => user \in seen[r]
  /\ token # "revoked" => user # Gone

\* No request and no entry is ahead of the epoch.
EpochsAreOld ==
  /\ \A r \in Requests : req[r].epoch <= epoch
  /\ \A e \in 0 .. MaxEpoch : cache[e] # NoEntry => e <= epoch

\* Under the present epoch, what is cached is exact.
EntryIsExact == user # Gone => cache[epoch] \in {NoEntry, user}

\* Under the present epoch, what a token's request has read so far is exact.
LoadsAreExact ==
  \A r \in Requests : req[r].method = "user_token" /\ req[r].epoch = epoch /\ user # Gone =>
    /\ req[r].pc \in Loading => req[r].authz.site = user.site
    /\ req[r].pc \in {"projects", "put"} => req[r].authz.org = user.org
    /\ req[r].pc = "put" => req[r].authz.proj = user.proj

\* What is not read yet is no role, and only a token's request caches what it read.
NothingYet ==
  \A r \in Requests :
    /\ req[r].pc = "put" => req[r].method = "user_token"
    /\ req[r].pc \in {"idle", "probe", "load", "user"} => req[r].authz = Nobody
    /\ req[r].pc = "orgs" => req[r].authz.org = "none" /\ req[r].authz.proj = "none"
    /\ req[r].pc = "projects" => req[r].authz.proj = "none"

\* What a request holds, it has seen.
OwnRolesSeen == \A r \in Requests : Under(req[r].authz, seen[r])

\* A request between its probe and its lookup has seen all that is cached under its
\* epoch, and all that another request may yet cache there.
PeerRolesSeen ==
  \A r \in Requests : req[r].pc = "load" =>
    /\ cache[req[r].epoch] \in Users => Under(cache[req[r].epoch], seen[r])
    /\ \A q \in Requests : req[q].method = "user_token" /\ req[q].epoch = req[r].epoch
                           /\ req[q].pc \in Loading => Under(req[q].authz, seen[r])

RolesInv ==
  /\ RolesTypeOK
  /\ Watching
  /\ EpochsAreOld
  /\ EntryIsExact
  /\ LoadsAreExact
  /\ NothingYet
  /\ OwnRolesSeen
  /\ PeerRolesSeen

-----------------------------------------------------------------------------
(* Role sets. *)

LEMMA NotUsers == Gone \notin Users /\ NoEntry \notin Users /\ Gone # NoEntry /\ Nobody \in Users
  <1>1. Gone.site = "gone" /\ NoEntry.site = "no entry"
    BY DEF Gone, NoEntry
  <1>2. \A u \in Users : u.site \in {"user", "admin"}
    BY DEF Users
  <1>3. Nobody \in Users
    BY DEF Nobody, Users
  <1> QED
    BY <1>1, <1>2, <1>3

LEMMA UnderMore ==
  ASSUME NEW a, NEW S, NEW T, Under(a, S), S \subseteq T
  PROVE  Under(a, T)
  BY DEF Under

LEMMA UnderNobody ==
  ASSUME NEW S
  PROVE  Under(Nobody, S)
  BY DEF Under, Nobody

LEMMA UnderOne ==
  ASSUME NEW S, NEW u \in S, u # Gone
  PROVE  Under(u, S)
  BY DEF Under

\* A role set with one of its roles read anew, or left out.
LEMMA UnderRead ==
  ASSUME NEW a, NEW b, NEW S, Under(a, S), NEW u \in S,
         b.site \in {a.site, "user"} \/ (u # Gone /\ b.site = u.site),
         b.org \in {a.org, "none"} \/ (u # Gone /\ b.org = u.org),
         b.proj \in {a.proj, "none"} \/ (u # Gone /\ b.proj = u.proj)
  PROVE  Under(b, S)
  BY DEF Under

\* Two users with the same roles are the same.
LEMMA SameRoles ==
  ASSUME NEW a \in Users, NEW b \in Users, a.site = b.site, a.org = b.org, a.proj = b.proj
  PROVE  a = b
  BY DEF Users

\* Every power rests on one role.
LEMMA PowersAreSeen ==
  ASSUME NEW a, NEW S, Under(a, S), NEW m, NEW s, NEW p \in Powers(a, m, s)
  PROVE  \E u \in S : u # Gone /\ p \in Powers(u, m, s)
  <1> USE DEF CanViewOrg, CanAdminOrg, CanOwnOrg, CanReadProject, CanWriteProject,
              CanAdminProject, IsSiteAdmin, isInteractive
  <1>1. CASE a.site = "admin" /\ m = "session"
    <2>1. PICK u \in S : u # Gone /\ u.site = "admin"
      BY <1>1 DEF Under
    <2> QED
      BY <1>1, <2>1 DEF Powers
  <1>2. CASE a.org # "none" /\ (a.org \in {"admin", "owner"} \/ p \in {"view org", "read project"})
             /\ ~(a.site = "admin" /\ m = "session")
             /\ (p = "own org" => a.org = "owner")
             /\ (p = "write project" => CanAdminOrg(a, m))
             /\ (p = "admin project" => CanAdminOrg(a, m))
    <2>1. PICK u \in S : u # Gone /\ u.org = a.org
      BY <1>2 DEF Under
    <2> QED
      BY <1>2, <2>1 DEF Powers
  <1>3. CASE a.proj # "none" /\ p \in {"read project", "write project", "admin project"}
             /\ (p = "write project" => ~CanAdminOrg(a, m))
             /\ (p = "admin project" => ~CanAdminOrg(a, m))
    <2>1. PICK u \in S : u # Gone /\ u.proj = a.proj
      BY <1>3 DEF Under
    <2> QED
      BY <1>3, <2>1 DEF Powers
  <1>4. p \in {"view org", "admin org", "own org", "read project", "write project", "admin project"}
    BY DEF Powers
  <1> QED
    BY <1>1, <1>2, <1>3, <1>4 DEF Powers

-----------------------------------------------------------------------------
(* The tables. *)

LEMMA WitnessEffect ==
  ASSUME RolesTypeOK, NEW u \in Users \cup {Gone}, Witness(u), req' = req
  PROVE  /\ seen' \in [Requests -> SUBSET (Users \cup {Gone})]
         /\ \A r \in Requests : seen[r] \subseteq seen'[r]
         /\ \A r \in Requests : req[r].pc \in Active => u \in seen'[r]
  <1>1. \A r \in Requests : seen'[r] = IF req[r].pc \in {"idle", "done", "refused"} THEN seen[r]
                                       ELSE seen[r] \cup {u}
    BY DEF Witness
  <1>2. seen' = [r \in Requests |-> seen'[r]]
    BY DEF Witness
  <1>3. \A r \in Requests : req[r].pc \in Active => req[r].pc \notin {"idle", "done", "refused"}
    BY DEF Active
  <1> QED
    BY <1>1, <1>2, <1>3 DEF RolesTypeOK

\* What the requests have seen, they have seen still.
LEMMA SeenGrows ==
  ASSUME RolesInv, req' = req, cache' = cache, \A r \in Requests : seen[r] \subseteq seen'[r]
  PROVE  NothingYet' /\ OwnRolesSeen' /\ PeerRolesSeen'
  <1>1. NothingYet'
    BY DEF RolesInv, NothingYet
  <1>2. OwnRolesSeen'
    BY UnderMore DEF RolesInv, OwnRolesSeen
  <1>3. PeerRolesSeen'
    BY UnderMore DEF RolesInv, PeerRolesSeen
  <1> QED
    BY <1>1, <1>2, <1>3

\* A role write moves the epoch past every entry and every request.
LEMMA WriteStep ==
  ASSUME RolesInv, user # Gone, NEW u \in Users, Write(u)
  PROVE  RolesInv'
  <1> DEFINE changed == {f \in {"site", "org", "proj"} : user[f] # u[f]}
  <1>1. IsFiniteSet({"site", "org", "proj"})
    <2>1. IsFiniteSet({"site"})
      BY FS_Singleton
    <2>2. IsFiniteSet({"site"} \cup {"org"})
      BY <2>1, FS_AddElement
    <2>3. IsFiniteSet(({"site"} \cup {"org"}) \cup {"proj"})
      BY <2>2, FS_AddElement
    <2>4. ({"site"} \cup {"org"}) \cup {"proj"} = {"site", "org", "proj"}
      OBVIOUS
    <2> QED
      BY <2>3, <2>4
  <1>2. Cardinality(changed) \in Nat
    BY <1>1, FS_Subset, FS_CardinalityType
  <1>3. /\ Cardinality(changed) > 0 /\ epoch + Cardinality(changed) <= MaxEpoch
        /\ epoch' = epoch + Cardinality(changed)
        /\ user' = u /\ Witness(u) /\ UNCHANGED <<token, cache, req>>
    BY DEF Write
  <1> HIDE DEF changed
  <1>4. epoch' \in 0 .. MaxEpoch /\ epoch' > epoch /\ epoch \in Nat
    BY <1>2, <1>3, RolesConstants DEF RolesInv, RolesTypeOK, RolesAssumption
  <1>5. /\ seen' \in [Requests -> SUBSET (Users \cup {Gone})]
        /\ \A r \in Requests : seen[r] \subseteq seen'[r]
        /\ \A r \in Requests : req[r].pc \in Active => u \in seen'[r]
    BY <1>3, WitnessEffect DEF RolesInv
  <1>6. RolesTypeOK'
    BY <1>3, <1>4, <1>5 DEF RolesInv, RolesTypeOK
  <1>7. Watching'
    BY <1>3, <1>5, NotUsers DEF RolesInv, Watching
  <1>8. \A r \in Requests : req[r].epoch \in Nat /\ req[r].epoch < epoch'
    BY <1>4 DEF RolesInv, RolesTypeOK, RequestRecord, EpochsAreOld
  <1>9. EpochsAreOld'
    BY <1>3, <1>4, <1>8 DEF RolesInv, EpochsAreOld
  <1>10. EntryIsExact'
    BY <1>3, <1>4 DEF RolesInv, EpochsAreOld, EntryIsExact
  <1>11. LoadsAreExact'
    <2>1. \A r \in Requests : req'[r].epoch # epoch'
      BY <1>3, <1>4, <1>8
    <2> QED
      BY <2>1 DEF LoadsAreExact
  <1> QED
    BY <1>3, <1>5, <1>6, <1>7, <1>9, <1>10, <1>11, SeenGrows DEF RolesInv

\* Each of the writes is one.
LEMMA RoleStep ==
  ASSUME RolesInv, SetSiteRole \/ SetOrgRole \/ LeaveOrg \/ SetProjectRole
  PROVE  RolesInv'
  <1>1. user # Gone /\ user \in Users
    BY DEF SetSiteRole, SetOrgRole, LeaveOrg, SetProjectRole, RolesInv, RolesTypeOK
  <1>2. PICK u : Write(u) /\ (\/ \E s \in SiteRoles : u = [user EXCEPT !.site = s]
                              \/ \E o \in OrgRoles : u = [user EXCEPT !.org = o]
                              \/ u = [user EXCEPT !.org = "none", !.proj = "none"]
                              \/ \E p \in ProjectRoles : u = [user EXCEPT !.proj = p])
    BY DEF SetSiteRole, SetOrgRole, LeaveOrg, SetProjectRole
  <1>3. u \in Users
    BY <1>1, <1>2, RolesConstants DEF Users, RolesAssumption
  <1> QED
    BY <1>1, <1>2, <1>3, WriteStep

LEMMA DropStep ==
  ASSUME RolesInv, DropUser
  PROVE  RolesInv'
  <1>1. user' = Gone /\ token' = "revoked" /\ Witness(Gone) /\ UNCHANGED <<epoch, cache, req>>
    BY DEF DropUser
  <1>2. /\ seen' \in [Requests -> SUBSET (Users \cup {Gone})]
        /\ \A r \in Requests : seen[r] \subseteq seen'[r]
        /\ \A r \in Requests : req[r].pc \in Active => Gone \in seen'[r]
    BY <1>1, WitnessEffect DEF RolesInv
  <1>3. RolesTypeOK'
    BY <1>1, <1>2 DEF RolesInv, RolesTypeOK
  <1>4. Watching' /\ EpochsAreOld' /\ EntryIsExact' /\ LoadsAreExact'
    BY <1>1, <1>2 DEF RolesInv, Watching, EpochsAreOld, EntryIsExact, LoadsAreExact
  <1> QED
    BY <1>1, <1>2, <1>3, <1>4, SeenGrows DEF RolesInv

LEMMA RevokeStep ==
  ASSUME RolesInv, RevokeToken
  PROVE  RolesInv'
  <1>1. NothingYet' /\ OwnRolesSeen' /\ PeerRolesSeen'
    BY SeenGrows DEF RevokeToken
  <1> QED
    BY <1>1 DEF RevokeToken, RolesInv, RolesTypeOK, Watching, EpochsAreOld, EntryIsExact,
                LoadsAreExact

LEMMA EvictStep ==
  ASSUME RolesInv, evict
  PROVE  RolesInv'
  <1>1. PICK e \in 0 .. MaxEpoch : cache' = [cache EXCEPT ![e] = NoEntry]
    BY DEF evict
  <1>2. UNCHANGED <<user, epoch, token, req, seen>>
    BY DEF evict
  <1>3. /\ cache' \in [0 .. MaxEpoch -> Users \cup {Gone, NoEntry}]
        /\ \A d \in 0 .. MaxEpoch : cache'[d] \in {NoEntry, cache[d]}
    BY <1>1 DEF RolesInv, RolesTypeOK
  <1>4. RolesTypeOK' /\ Watching' /\ NothingYet' /\ OwnRolesSeen' /\ LoadsAreExact'
    BY <1>2, <1>3
    DEF RolesInv, RolesTypeOK, Watching, NothingYet, OwnRolesSeen, LoadsAreExact
  <1>5. EpochsAreOld' /\ EntryIsExact'
    BY <1>2, <1>3 DEF RolesInv, RolesTypeOK, EpochsAreOld, EntryIsExact
  <1>6. PeerRolesSeen'
    <2>1. \A r \in Requests : req[r].epoch \in 0 .. MaxEpoch
      BY DEF RolesInv, RolesTypeOK, RequestRecord
    <2> QED
      BY <1>2, <1>3, <2>1, NotUsers DEF RolesInv, PeerRolesSeen
  <1> QED
    BY <1>4, <1>5, <1>6 DEF RolesInv

-----------------------------------------------------------------------------
(* The requests. *)

\* What the invariant says of one request alone.
RequestOK(r) ==
  /\ req[r].pc \in Active => user \in seen[r]
  /\ req[r].epoch <= epoch
  /\ req[r].method = "user_token" /\ req[r].epoch = epoch /\ user # Gone =>
       /\ req[r].pc \in Loading => req[r].authz.site = user.site
       /\ req[r].pc \in {"projects", "put"} => req[r].authz.org = user.org
       /\ req[r].pc = "put" => req[r].authz.proj = user.proj
  /\ req[r].pc = "put" => req[r].method = "user_token"
  /\ req[r].pc \in {"idle", "probe", "load", "user"} => req[r].authz = Nobody
  /\ req[r].pc = "orgs" => req[r].authz.org = "none" /\ req[r].authz.proj = "none"
  /\ req[r].pc = "projects" => req[r].authz.proj = "none"
  /\ Under(req[r].authz, seen[r])

\* What it says of the cache.
CacheOK ==
  /\ cache \in [0 .. MaxEpoch -> Users \cup {Gone, NoEntry}]
  /\ \A e \in 0 .. MaxEpoch : cache[e] # NoEntry => e <= epoch
  /\ EntryIsExact
  /\ \A q \in Requests : req[q].pc = "load" /\ cache[req[q].epoch] \in Users =>
       Under(cache[req[q].epoch], seen[q])

\* What r, that reads under q's epoch, may cache there, q has seen.
Shares(q, r) ==
  req[q].pc = "load" /\ req[r].method = "user_token" /\ req[r].pc \in Loading
  /\ req[r].epoch = req[q].epoch => Under(req[r].authz, seen[q])

\* Only r moves, and stays a request.
Moves(r) ==
  /\ UNCHANGED <<user, epoch, token>>
  /\ req' \in [Requests -> RequestRecord]
  /\ seen' \in [Requests -> SUBSET (Users \cup {Gone})]
  /\ \A q \in Requests : q # r => req'[q] = req[q] /\ seen'[q] = seen[q]

\* A request's step keeps the invariant if what it leaves behind satisfies it, for
\* itself and for those that share its epoch.
LEMMA RequestStep ==
  ASSUME RolesInv, NEW r \in Requests, Moves(r), CacheOK', RequestOK(r)',
         \A q \in Requests : q # r => Shares(r, q)' /\ Shares(q, r)'
  PROVE  RolesInv'
  <1> USE DEF Moves, CacheOK, RequestOK, Shares
  <1>1. RolesTypeOK'
    BY DEF RolesInv, RolesTypeOK
  <1>2. Watching'
    BY DEF RolesInv, Watching
  <1>3. EpochsAreOld'
    BY DEF RolesInv, EpochsAreOld
  <1>4. LoadsAreExact'
    BY DEF RolesInv, LoadsAreExact
  <1>5. NothingYet'
    BY DEF RolesInv, NothingYet
  <1>6. OwnRolesSeen'
    BY DEF RolesInv, OwnRolesSeen
  <1>7. PeerRolesSeen'
    <2>1. ASSUME NEW p \in Requests, req'[p].pc = "load", NEW q \in Requests,
                 req'[q].method = "user_token", req'[q].epoch = req'[p].epoch,
                 req'[q].pc \in Loading
          PROVE  Under(req'[q].authz, seen'[p])
      <3>1. CASE p # r /\ q # r
        BY <2>1, <3>1 DEF RolesInv, PeerRolesSeen
      <3>2. CASE p = r /\ q # r
        BY <2>1, <3>2
      <3>3. CASE p # r /\ q = r
        BY <2>1, <3>3
      <3>4. CASE p = r /\ q = r
        BY <2>1, <3>4 DEF Loading
      <3> QED
        BY <3>1, <3>2, <3>3, <3>4
    <2> QED
      BY <2>1 DEF PeerRolesSeen
  <1> QED
    BY <1>1, <1>2, <1>3, <1>4, <1>5, <1>6, <1>7 DEF RolesInv

\* What the invariant says of one request, and of the cache for every request.
LEMMA RequestFacts ==
  ASSUME RolesInv, NEW r \in Requests
  PROVE  /\ req[r] \in RequestRecord /\ req[r].epoch \in 0 .. MaxEpoch /\ req[r].authz \in Users
         /\ RequestOK(r)
  BY DEF RolesInv, RolesTypeOK, RequestRecord, EpochsAreOld, Watching, OwnRolesSeen, LoadsAreExact,
         NothingYet, RequestOK

\* A step that leaves the cache alone, and leaves no request at its lookup that was not
\* there, keeps what the cache owes the requests.
LEMMA CacheKept ==
  ASSUME RolesInv, UNCHANGED <<user, epoch, cache>>,
         \A q \in Requests : req'[q].pc = "load" => req'[q] = req[q] /\ seen'[q] = seen[q]
  PROVE  CacheOK'
  BY DEF CacheOK, RolesInv, RolesTypeOK, EpochsAreOld, EntryIsExact, PeerRolesSeen

\* What each step makes of its request's record.
Begun(n, c, m) == [n EXCEPT !.pc = c, !.method = m, !.scope = "write"]

Probed(n, c, s, e) == [n EXCEPT !.pc = c, !.scope = s, !.epoch = e]

LookedUp(n, c, a) == [n EXCEPT !.pc = c, !.authz = a]

WithSite(n, t) == [n EXCEPT !.pc = "orgs", !.authz.site = t]

WithOrg(n, t) == [n EXCEPT !.pc = "projects", !.authz.org = t]

WithProject(n, c, t) == [n EXCEPT !.pc = c, !.authz.proj = t]

Placed(n, c) == [n EXCEPT !.pc = c]

LEMMA BegunRecord ==
  ASSUME NEW n \in RequestRecord, NEW c \in Active, NEW m \in {"session", "user_token"}, NEW x,
         x = Begun(n, c, m)
  PROVE  x \in RequestRecord /\ x.pc = c /\ x.epoch = n.epoch /\ x.authz = n.authz
  BY DEF Begun, RequestRecord, Scopes

LEMMA ProbedRecord ==
  ASSUME NEW n \in RequestRecord, NEW c \in {"refused", "load"}, NEW s \in Scopes,
         NEW e \in 0 .. MaxEpoch, NEW x, x = Probed(n, c, s, e)
  PROVE  x \in RequestRecord /\ x.pc = c /\ x.epoch = e /\ x.authz = n.authz
  BY DEF Probed, RequestRecord, Active

LEMMA LookedUpRecord ==
  ASSUME NEW n \in RequestRecord, NEW c \in {"user", "refused", "done"}, NEW a \in Users, NEW x,
         x = LookedUp(n, c, a)
  PROVE  x \in RequestRecord /\ x.pc = c /\ x.epoch = n.epoch /\ x.authz = a
  BY DEF LookedUp, RequestRecord, Active

LEMMA SiteRecord ==
  ASSUME NEW n \in RequestRecord, NEW t \in {"user", "admin"}, NEW x,
         x = WithSite(n, t)
  PROVE  /\ x \in RequestRecord /\ x.pc = "orgs" /\ x.epoch = n.epoch /\ x.method = n.method
         /\ x.authz.site = t /\ x.authz.org = n.authz.org /\ x.authz.proj = n.authz.proj
  BY DEF WithSite, RequestRecord, Active, Users

LEMMA OrgRecord ==
  ASSUME NEW n \in RequestRecord, NEW t \in {"none", "member", "admin", "owner"}, NEW x,
         x = WithOrg(n, t)
  PROVE  /\ x \in RequestRecord /\ x.pc = "projects" /\ x.epoch = n.epoch /\ x.method = n.method
         /\ x.authz.site = n.authz.site /\ x.authz.org = t /\ x.authz.proj = n.authz.proj
  BY DEF WithOrg, RequestRecord, Active, Users

LEMMA ProjectRecord ==
  ASSUME NEW n \in RequestRecord, NEW c \in {"put", "done"},
         NEW t \in {"none", "reader", "writer", "admin"}, NEW x,
         x = WithProject(n, c, t)
  PROVE  /\ x \in RequestRecord /\ x.pc = c /\ x.epoch = n.epoch /\ x.method = n.method
         /\ x.authz.site = n.authz.site /\ x.authz.org = n.authz.org /\ x.authz.proj = t
  BY DEF WithProject, RequestRecord, Active, Users

LEMMA PlacedRecord ==
  ASSUME NEW n \in RequestRecord, NEW c \in {"refused", "done"}, NEW x, x = Placed(n, c)
  PROVE  /\ x \in RequestRecord /\ x.pc = c /\ x.epoch = n.epoch /\ x.method = n.method
         /\ x.authz = n.authz
  BY DEF Placed, RequestRecord, Active

\* A step that replaces r's record moves r alone.
LEMMA ReplaceMoves ==
  ASSUME RolesInv, NEW r \in Requests, NEW x \in RequestRecord, req' = [req EXCEPT ![r] = x],
         UNCHANGED <<user, epoch, token>>, NEW S \in SUBSET (Users \cup {Gone}),
         seen' = [seen EXCEPT ![r] = S]
  PROVE  Moves(r) /\ req'[r] = x /\ seen'[r] = S
  BY DEF RolesInv, RolesTypeOK, Moves

LEMMA ReplaceOnly ==
  ASSUME RolesInv, NEW r \in Requests, NEW x \in RequestRecord, req' = [req EXCEPT ![r] = x],
         UNCHANGED <<user, epoch, token, seen>>
  PROVE  Moves(r) /\ req'[r] = x /\ seen'[r] = seen[r]
  BY DEF RolesInv, RolesTypeOK, Moves

LEMMA BeginStep ==
  ASSUME RolesInv, NEW r \in Requests, NEW m \in {"session", "user_token"}, Begin(r, m)
  PROVE  RolesInv'
  <1> DEFINE c == IF m = "user_token" THEN "probe" ELSE "user"
             x == Begun(req[r], c, m)
  <1>1. req' = [req EXCEPT ![r] = x]
    BY DEF Begin, Begun
  <1>2. /\ UNCHANGED <<user, epoch, token, cache>>
        /\ req[r].pc = "idle" /\ seen' = [seen EXCEPT ![r] = {user}]
    BY DEF Begin
  <1>3. req[r] \in RequestRecord /\ RequestOK(r)
    BY RequestFacts
  <1>4. /\ x \in RequestRecord /\ x.pc \in {"probe", "user"} /\ x.epoch = req[r].epoch
        /\ x.authz = req[r].authz
    <2>1. c \in {"probe", "user"} /\ c \in Active
      BY DEF Active
    <2> HIDE DEF c
    <2> QED
      BY <1>3, <2>1, BegunRecord
  <1> HIDE DEF c, x
  <1>5. Moves(r) /\ req'[r] = x /\ seen'[r] = {user}
    <2>1. {user} \in SUBSET (Users \cup {Gone})
      BY DEF RolesInv, RolesTypeOK
    <2> QED
      BY <1>1, <1>2, <1>4, <2>1, ReplaceMoves
  <1>6. RequestOK(r)'
    BY <1>2, <1>3, <1>4, <1>5, UnderNobody DEF RequestOK, Loading
  <1>7. CacheOK'
    BY <1>2, <1>4, <1>5, CacheKept DEF Moves
  <1>8. \A q \in Requests : q # r => Shares(r, q)' /\ Shares(q, r)'
    BY <1>4, <1>5 DEF Shares, Loading
  <1> QED
    BY <1>5, <1>6, <1>7, <1>8, RequestStep

\* The probe: under the present epoch all that is cached, or may be, is the tables.
LEMMA ProbeStep ==
  ASSUME RolesInv, NEW r \in Requests, validateUserToken(r)
  PROVE  RolesInv'
  <1> DEFINE c == IF token = "revoked" THEN "refused" ELSE "load"
             s == IF token = "revoked" THEN "read" ELSE token
             x == Probed(req[r], c, s, epoch)
  <1>1. req' = [req EXCEPT ![r] = x]
    BY DEF validateUserToken, Probed
  <1>2. UNCHANGED <<user, epoch, token, cache, seen>> /\ req[r].pc = "probe"
    BY DEF validateUserToken
  <1>3. /\ req[r] \in RequestRecord /\ RequestOK(r) /\ epoch \in 0 .. MaxEpoch
        /\ token \in Scopes \cup {"revoked"} /\ user \in Users \cup {Gone}
    BY RequestFacts DEF RolesInv, RolesTypeOK
  <1>4. /\ x \in RequestRecord /\ x.epoch = epoch /\ x.authz = req[r].authz
        /\ x.pc = c
    <2>1. c \in {"refused", "load"} /\ s \in Scopes
      BY <1>3 DEF Scopes
    <2> HIDE DEF c, s
    <2> QED
      BY <1>3, <2>1, ProbedRecord
  <1> HIDE DEF x
  <1>5. Moves(r) /\ req'[r] = x /\ seen'[r] = seen[r]
    BY <1>1, <1>2, <1>4, ReplaceOnly
  <1>6. req[r].authz = Nobody /\ user \in seen[r]
    BY <1>2, <1>3 DEF RequestOK, Active
  <1>7. RequestOK(r)'
    <2>1. epoch <= epoch
      BY <1>3
    <2> QED
      BY <1>2, <1>4, <1>5, <1>6, <2>1, UnderNobody DEF RequestOK, Loading
  <1>8. token # "revoked" => user # Gone
    BY DEF RolesInv, Watching
  <1>9. CacheOK'
    <2>1. /\ cache \in [0 .. MaxEpoch -> Users \cup {Gone, NoEntry}]
          /\ \A e \in 0 .. MaxEpoch : cache[e] # NoEntry => e <= epoch
          /\ EntryIsExact' /\ EntryIsExact
      BY <1>2 DEF RolesInv, RolesTypeOK, EpochsAreOld, EntryIsExact
    <2>2. ASSUME NEW q \in Requests, req'[q].pc = "load", cache[req'[q].epoch] \in Users
          PROVE  Under(cache[req'[q].epoch], seen[q])
      <3>1. CASE q = r
        <4>1. token # "revoked" /\ req'[q].epoch = epoch
          BY <1>4, <1>5, <2>2, <3>1
        <4>2. cache[epoch] = user
          BY <1>8, <2>1, <2>2, <4>1, NotUsers DEF EntryIsExact
        <4> QED
          BY <1>6, <1>8, <3>1, <4>1, <4>2, UnderOne
      <3>2. CASE q # r
        BY <1>5, <2>2, <3>2 DEF Moves, RolesInv, PeerRolesSeen
      <3> QED
        BY <3>1, <3>2
    <2> QED
      BY <1>2, <2>1, <2>2 DEF CacheOK
  <1>10. ASSUME NEW q \in Requests, q # r PROVE Shares(r, q)' /\ Shares(q, r)'
    <2>1. Shares(q, r)'
      BY <1>4, <1>5 DEF Shares, Loading
    <2>2. Shares(r, q)'
      <3> SUFFICES ASSUME token # "revoked", req[q].method = "user_token", req[q].pc \in Loading,
                          req[q].epoch = epoch
                   PROVE  Under(req[q].authz, seen[r])
        BY <1>2, <1>4, <1>5, <1>10 DEF Shares, Moves
      <3>1. RequestOK(q) /\ req[q].authz \in Users
        BY RequestFacts
      <3>2. /\ req[q].authz.site = user.site
            /\ req[q].authz.org \in {user.org, "none"}
            /\ req[q].authz.proj \in {user.proj, "none"}
        BY <1>8, <3>1 DEF RequestOK, Loading
      <3>3. Under(user, seen[r])
        BY <1>6, <1>8, UnderOne
      <3> QED
        BY <1>6, <1>8, <3>2, <3>3, UnderRead
    <2> QED
      BY <2>1, <2>2
  <1> QED
    BY <1>5, <1>7, <1>9, <1>10, RequestStep

\* The lookup: what it takes from the cache, the request has seen.
LEMMA LookupStep ==
  ASSUME RolesInv, NEW r \in Requests, get(r)
  PROVE  RolesInv'
  <1> DEFINE e == cache[req[r].epoch]
             c == IF e = NoEntry THEN "user" ELSE IF e = Gone THEN "refused" ELSE "done"
             a == IF e \in {NoEntry, Gone} THEN Nobody ELSE e
             x == LookedUp(req[r], c, a)
  <1>1. req' = [req EXCEPT ![r] = x]
    BY DEF get, LookupKey, LookedUp
  <1>2. UNCHANGED <<user, epoch, token, cache, seen>> /\ req[r].pc = "load"
    BY DEF get
  <1>3. req[r] \in RequestRecord /\ RequestOK(r) /\ e \in Users \cup {Gone, NoEntry}
    BY RequestFacts DEF RolesInv, RolesTypeOK
  <1>4. c \in {"user", "refused", "done"} /\ a \in Users /\ (c = "user" => a = Nobody)
    BY <1>3, NotUsers
  <1>5. Under(a, seen[r])
    <2>1. e \in Users => Under(e, seen[r])
      BY <1>2 DEF RolesInv, PeerRolesSeen
    <2> QED
      BY <1>3, <2>1, UnderNobody
  <1> HIDE DEF a, c, e
  <1>6. x \in RequestRecord /\ x.pc = c /\ x.epoch = req[r].epoch /\ x.authz = a
    <2>1. x = LookedUp(req[r], c, a)
      OBVIOUS
    <2>2. req[r] \in RequestRecord /\ c \in {"user", "refused", "done"} /\ a \in Users
      BY <1>3, <1>4
    <2> HIDE DEF x
    <2>3. x \in RequestRecord
      BY <2>1, <2>2, LookedUpRecord
    <2>4. x.pc = c
      BY <2>1, <2>2, LookedUpRecord
    <2>5. x.epoch = req[r].epoch
      BY <2>1, <2>2, LookedUpRecord
    <2>6. x.authz = a
      BY <2>1, <2>2, LookedUpRecord
    <2> QED
      BY <2>3, <2>4, <2>5, <2>6
  <1> HIDE DEF x
  <1>7. Moves(r) /\ req'[r] = x /\ seen'[r] = seen[r]
    BY <1>1, <1>2, <1>6, ReplaceOnly
  <1>8. RequestOK(r)'
    BY <1>2, <1>3, <1>4, <1>5, <1>6, <1>7 DEF RequestOK, Loading, Active
  <1>9. CacheOK'
    BY <1>2, <1>4, <1>6, <1>7, CacheKept DEF Moves
  <1>10. \A q \in Requests : q # r => Shares(r, q)' /\ Shares(q, r)'
    BY <1>4, <1>6, <1>7 DEF Shares, Loading
  <1> QED
    BY <1>7, <1>8, <1>9, <1>10, RequestStep

\* A read of one table by r: its present row is one that every request under way has
\* seen, and exact if the epoch is.
LEMMA ReadStep ==
  ASSUME RolesInv, NEW r \in Requests, NEW x \in RequestRecord, req' = [req EXCEPT ![r] = x],
         UNCHANGED <<user, epoch, token, cache, seen>>,
         req[r].pc \in Active, x.epoch = req[r].epoch, x.method = req[r].method,
         x.pc \in Loading \cup {"done"},
         x.authz.site = req[r].authz.site \/ (user # Gone /\ x.authz.site = user.site),
         x.authz.org \in {req[r].authz.org, "none"} \/ (user # Gone /\ x.authz.org = user.org),
         x.authz.proj \in {req[r].authz.proj, "none"} \/ (user # Gone /\ x.authz.proj = user.proj),
         req[r].pc \in Loading \/ req[r].authz = Nobody,
         x.method = "user_token" /\ x.epoch = epoch /\ user # Gone =>
           /\ x.pc \in Loading => x.authz.site = user.site
           /\ x.pc \in {"projects", "put"} => x.authz.org = user.org
           /\ x.pc = "put" => x.authz.proj = user.proj,
         x.pc = "put" => x.method = "user_token",
         x.pc = "orgs" => x.authz.org = "none" /\ x.authz.proj = "none",
         x.pc = "projects" => x.authz.proj = "none"
  PROVE  RolesInv'
  <1>1. RequestOK(r) /\ user \in seen[r]
    BY RequestFacts DEF RequestOK
  <1>2. Moves(r) /\ req'[r] = x /\ seen'[r] = seen[r]
    BY ReplaceOnly
  <1>3. Under(x.authz, seen[r])
    BY <1>1, UnderRead DEF RequestOK
  <1>4. RequestOK(r)'
    BY <1>1, <1>2, <1>3 DEF RequestOK, Loading
  <1>5. CacheOK'
    BY <1>2, CacheKept DEF Moves, Loading
  <1>6. ASSUME NEW q \in Requests, q # r PROVE Shares(r, q)' /\ Shares(q, r)'
    <2>1. Shares(r, q)'
      BY <1>2 DEF Shares, Loading
    <2>2. ASSUME req[q].pc = "load", x.method = "user_token", x.epoch = req[q].epoch
          PROVE  Under(x.authz, seen[q])
      <3>1. user \in seen[q]
        BY <2>2, RequestFacts DEF RequestOK, Active
      <3>2. Under(req[r].authz, seen[q])
        BY <2>2, UnderNobody DEF RolesInv, PeerRolesSeen
      <3> QED
        BY <3>1, <3>2, UnderRead
    <2>3. Shares(q, r)'
      BY <1>2, <1>6, <2>2 DEF Shares, Moves
    <2> QED
      BY <2>1, <2>3
  <1> QED
    BY <1>2, <1>4, <1>5, <1>6, RequestStep

\* A request that only moves to its end, and remembers there at most what the cache may
\* hold.
LEMMA EndStep ==
  ASSUME RolesInv, NEW r \in Requests, NEW x \in RequestRecord, req' = [req EXCEPT ![r] = x],
         UNCHANGED <<user, epoch, token, seen>>, x.pc \in {"refused", "done"},
         x.epoch <= epoch, Under(x.authz, seen[r]),
         NEW v \in Users \cup {Gone, NoEntry},
         cache' = cache \/ cache' = [cache EXCEPT ![req[r].epoch] = v],
         req[r].epoch = epoch /\ user # Gone => v = user,
         \A q \in Requests : req[q].pc = "load" /\ req[q].epoch = req[r].epoch /\ v \in Users =>
             Under(v, seen[q])
  PROVE  RolesInv'
  <1>1. Moves(r) /\ req'[r] = x /\ seen'[r] = seen[r]
    BY ReplaceOnly
  <1>2. RequestOK(r)'
    BY <1>1 DEF RequestOK, Loading, Active
  <1>3. req[r].epoch \in 0 .. MaxEpoch /\ req[r].epoch <= epoch /\ epoch \in 0 .. MaxEpoch
    BY RequestFacts DEF RequestOK, RolesInv, RolesTypeOK
  <1>4. /\ cache \in [0 .. MaxEpoch -> Users \cup {Gone, NoEntry}]
        /\ \A e \in 0 .. MaxEpoch : cache[e] # NoEntry => e <= epoch
        /\ EntryIsExact
    BY DEF RolesInv, RolesTypeOK, EpochsAreOld
  <1>5. CacheOK'
    <2>1. cache' \in [0 .. MaxEpoch -> Users \cup {Gone, NoEntry}]
      BY <1>4
    <2>2. \A e \in 0 .. MaxEpoch : cache'[e] # NoEntry => e <= epoch
      BY <1>3, <1>4
    <2>3. EntryIsExact'
      BY <1>3, <1>4 DEF EntryIsExact
    <2>4. ASSUME NEW q \in Requests, req'[q].pc = "load", cache'[req'[q].epoch] \in Users
          PROVE  Under(cache'[req'[q].epoch], seen'[q])
      <3>1. q # r /\ req'[q] = req[q] /\ seen'[q] = seen[q]
        BY <1>1, <2>4 DEF Moves
      <3>2. req[q].epoch \in 0 .. MaxEpoch
        BY RequestFacts
      <3>3. CASE cache'[req[q].epoch] = cache[req[q].epoch]
        BY <2>4, <3>1, <3>3 DEF RolesInv, PeerRolesSeen
      <3>4. CASE req[q].epoch = req[r].epoch /\ cache'[req[q].epoch] = v
        BY <2>4, <3>1, <3>4
      <3> QED
        BY <1>3, <1>4, <3>2, <3>3, <3>4
    <2> QED
      BY <2>1, <2>2, <2>3, <2>4 DEF CacheOK
  <1>6. \A q \in Requests : q # r => Shares(r, q)' /\ Shares(q, r)'
    BY <1>1 DEF Shares, Loading
  <1> QED
    BY <1>1, <1>2, <1>5, <1>6, RequestStep

LEMMA LoadUserStep ==
  ASSUME RolesInv, NEW r \in Requests, loadUser(r)
  PROVE  RolesInv'
  <1>1. /\ UNCHANGED <<user, epoch, token, seen>> /\ req[r].pc = "user"
        /\ req[r] \in RequestRecord /\ RequestOK(r) /\ user \in Users \cup {Gone}
    BY RequestFacts DEF loadUser, RolesInv, RolesTypeOK
  <1>2. CASE user = Gone
    <2> DEFINE x == Placed(req[r], "refused")
    <2>1. /\ req' = [req EXCEPT ![r] = x]
          /\ cache' = cache \/ cache' = [cache EXCEPT ![req[r].epoch] = Gone]
      BY <1>2 DEF loadUser, LookupKey, Placed
    <2>2. x \in RequestRecord /\ x.pc = "refused" /\ x.epoch = req[r].epoch /\ x.authz = req[r].authz
      BY <1>1, PlacedRecord
    <2> HIDE DEF x
    <2>3. x.epoch <= epoch /\ Under(x.authz, seen[r])
      BY <1>1, <2>2 DEF RequestOK
    <2>4. Gone \in Users \cup {Gone, NoEntry} /\ Gone \notin Users
      BY NotUsers
    <2> QED
      BY <1>1, <1>2, <2>1, <2>2, <2>3, <2>4, EndStep
  <1>3. CASE user # Gone
    <2> DEFINE x == WithSite(req[r], user.site)
    <2>1. req' = [req EXCEPT ![r] = x] /\ cache' = cache
      BY <1>3 DEF loadUser, WithSite
    <2>2. user.site \in {"user", "admin"}
      BY <1>1, <1>3 DEF Users
    <2>3. /\ x \in RequestRecord /\ x.pc = "orgs" /\ x.epoch = req[r].epoch /\ x.method = req[r].method
          /\ x.authz.site = user.site /\ x.authz.org = req[r].authz.org
          /\ x.authz.proj = req[r].authz.proj
      BY <1>1, <2>2, SiteRecord
    <2> HIDE DEF x
    <2>4. req[r].authz = Nobody /\ req[r].authz.org = "none" /\ req[r].authz.proj = "none"
      BY <1>1 DEF RequestOK, Nobody
    <2> QED
      BY <1>1, <1>3, <2>1, <2>3, <2>4, ReadStep DEF Loading, Active
  <1> QED
    BY <1>2, <1>3

LEMMA LoadOrgsStep ==
  ASSUME RolesInv, NEW r \in Requests, loadOrgs(r)
  PROVE  RolesInv'
  <1> DEFINE t == IF user = Gone THEN "none" ELSE user.org
             x == WithOrg(req[r], t)
  <1>1. /\ UNCHANGED <<user, epoch, token, cache, seen>> /\ req[r].pc = "orgs"
        /\ req[r] \in RequestRecord /\ RequestOK(r) /\ user \in Users \cup {Gone}
    BY RequestFacts DEF loadOrgs, RolesInv, RolesTypeOK
  <1>2. req' = [req EXCEPT ![r] = x]
    BY DEF loadOrgs, WithOrg
  <1>3. /\ t \in {"none", "member", "admin", "owner"}
        /\ IF user = Gone THEN t = "none" ELSE t = user.org
    BY <1>1 DEF Users
  <1> HIDE DEF t
  <1>4. /\ x \in RequestRecord /\ x.pc = "projects" /\ x.epoch = req[r].epoch /\ x.method = req[r].method
        /\ x.authz.site = req[r].authz.site /\ x.authz.org = t /\ x.authz.proj = req[r].authz.proj
    BY <1>1, <1>3, OrgRecord
  <1> HIDE DEF x
  <1> QED
    BY <1>1, <1>2, <1>3, <1>4, ReadStep DEF RequestOK, Loading, Active

LEMMA LoadProjectsStep ==
  ASSUME RolesInv, NEW r \in Requests, loadProjects(r)
  PROVE  RolesInv'
  <1> DEFINE t == IF user = Gone THEN "none" ELSE user.proj
             c == IF req[r].method = "user_token" THEN "put" ELSE "done"
             x == WithProject(req[r], c, t)
  <1>1. /\ UNCHANGED <<user, epoch, token, cache, seen>> /\ req[r].pc = "projects"
        /\ req[r] \in RequestRecord /\ RequestOK(r) /\ user \in Users \cup {Gone}
    BY RequestFacts DEF loadProjects, RolesInv, RolesTypeOK
  <1>2. req' = [req EXCEPT ![r] = x]
    BY DEF loadProjects, WithProject
  <1>3. /\ t \in {"none", "reader", "writer", "admin"}
        /\ IF user = Gone THEN t = "none" ELSE t = user.proj
        /\ c \in {"put", "done"} /\ (c = "put" => req[r].method = "user_token")
    BY <1>1 DEF Users
  <1> HIDE DEF t, c
  <1>4. /\ x \in RequestRecord /\ x.pc = c /\ x.epoch = req[r].epoch /\ x.method = req[r].method
        /\ x.authz.site = req[r].authz.site /\ x.authz.org = req[r].authz.org /\ x.authz.proj = t
    BY <1>1, <1>3, ProjectRecord
  <1> HIDE DEF x
  <1> QED
    BY <1>1, <1>2, <1>3, <1>4, ReadStep DEF RequestOK, Loading, Active

LEMMA PutStep ==
  ASSUME RolesInv, NEW r \in Requests, put(r)
  PROVE  RolesInv'
  <1> DEFINE x == Placed(req[r], "done")
             v == req[r].authz
  <1>1. /\ UNCHANGED <<user, epoch, token, seen>> /\ req[r].pc = "put"
        /\ req[r] \in RequestRecord /\ RequestOK(r) /\ user \in Users \cup {Gone} /\ v \in Users
    BY RequestFacts DEF put, RolesInv, RolesTypeOK
  <1>2. req' = [req EXCEPT ![r] = x] /\ cache' = [cache EXCEPT ![req[r].epoch] = v]
    BY DEF put, LookupKey, Placed
  <1>3. x \in RequestRecord /\ x.pc = "done" /\ x.epoch = req[r].epoch /\ x.authz = v
    BY <1>1, PlacedRecord
  <1>4. x.epoch <= epoch /\ Under(x.authz, seen[r])
    BY <1>1, <1>3 DEF RequestOK
  <1>5. req[r].epoch = epoch /\ user # Gone => v = user
    BY <1>1, SameRoles DEF RequestOK, Loading
  <1>6. \A q \in Requests : req[q].pc = "load" /\ req[q].epoch = req[r].epoch => Under(v, seen[q])
    BY <1>1 DEF RequestOK, Loading, RolesInv, PeerRolesSeen
  <1> HIDE DEF x, v
  <1> QED
    BY <1>1, <1>2, <1>3, <1>4, <1>5, <1>6, EndStep

LEMMA FailStep ==
  ASSUME RolesInv, NEW r \in Requests, Fail(r)
  PROVE  RolesInv'
  <1> DEFINE x == Placed(Idle, "refused")
  <1>1. Idle \in RequestRecord /\ Idle.epoch = 0 /\ Idle.authz = Nobody
    BY NotUsers, RolesConstants DEF Idle, RequestRecord, Scopes, RolesAssumption
  <1>2. x \in RequestRecord /\ x.pc = "refused" /\ x.epoch = 0 /\ x.authz = Nobody
    BY <1>1, PlacedRecord
  <1>3. req' = [req EXCEPT ![r] = x] /\ UNCHANGED <<user, epoch, token, cache, seen>>
    BY DEF Fail, Placed
  <1> HIDE DEF x
  <1>4. x.epoch <= epoch /\ Under(x.authz, seen[r])
    BY <1>2, UnderNobody DEF RolesInv, RolesTypeOK
  <1>5. user \in Users \cup {Gone, NoEntry}
    BY DEF RolesInv, RolesTypeOK
  <1>6. Moves(r) /\ req'[r] = x /\ seen'[r] = seen[r]
    BY <1>2, <1>3, ReplaceOnly
  <1>7. RequestOK(r)'
    BY <1>2, <1>3, <1>4, <1>6 DEF RequestOK, Loading, Active
  <1>8. CacheOK'
    BY <1>2, <1>3, <1>6, CacheKept DEF Moves
  <1>9. \A q \in Requests : q # r => Shares(r, q)' /\ Shares(q, r)'
    BY <1>2, <1>6 DEF Shares, Loading
  <1> QED
    BY <1>6, <1>7, <1>8, <1>9, RequestStep

-----------------------------------------------------------------------------

\* Whatever role writes, probes, reads, fills and evictions interleave: an entry under
\* the present epoch is exact, every power a request is given it had at one instant since
\* it began, and the powers are nested.
THEOREM AuthorityAlwaysSound == Spec => []AuthorityIsSound
  <1>1. Init => RolesInv
    <2> SUFFICES ASSUME Init PROVE RolesInv
      OBVIOUS
    <2>1. /\ user \in Users /\ epoch \in 0 .. MaxEpoch /\ Idle \in RequestRecord
          /\ Idle.pc = "idle" /\ Idle.epoch = 0 /\ Idle.authz = Nobody
      BY NotUsers, RolesConstants DEF Init, Users, Idle, RequestRecord, Scopes, RolesAssumption
    <2>2. \A r \in Requests : req[r] = Idle
      BY DEF Init
    <2>3. RolesTypeOK
      BY <2>1 DEF Init, RolesTypeOK
    <2>4. Watching /\ EpochsAreOld /\ EntryIsExact
      BY <2>1, <2>2, NotUsers DEF Init, Watching, EpochsAreOld, EntryIsExact, Active
    <2>5. LoadsAreExact /\ NothingYet
      BY <2>1, <2>2 DEF LoadsAreExact, NothingYet, Loading
    <2>6. OwnRolesSeen /\ PeerRolesSeen
      BY <2>1, <2>2, UnderNobody DEF OwnRolesSeen, PeerRolesSeen
    <2> QED
      BY <2>3, <2>4, <2>5, <2>6 DEF RolesInv
  <1>2. RolesInv /\ [Next]_vars => RolesInv'
    <2> SUFFICES ASSUME RolesInv, [Next]_vars PROVE RolesInv'
      OBVIOUS
    <2>1. CASE UNCHANGED vars
      BY <2>1 DEF vars, RolesInv, RolesTypeOK, Watching, EpochsAreOld, EntryIsExact,
                  LoadsAreExact, NothingYet, OwnRolesSeen, PeerRolesSeen
    <2>2. CASE Next
      BY <2>2, RoleStep, DropStep, RevokeStep, EvictStep, BeginStep, ProbeStep, LookupStep,
         LoadUserStep, LoadOrgsStep, LoadProjectsStep, PutStep, FailStep DEF Next
    <2> QED
      BY <2>1, <2>2
  <1>3. RolesInv => AuthorityIsSound
    <2> SUFFICES ASSUME RolesInv PROVE AuthorityIsSound
      OBVIOUS
    <2>1. CurrentEntryIsExact
      BY DEF RolesInv, EntryIsExact, CurrentEntryIsExact
    <2>2. AuthorityWasLive
      BY PowersAreSeen DEF RolesInv, OwnRolesSeen, AuthorityWasLive
    <2>3. PowersAreNested
      BY DEF PowersAreNested, CanViewOrg, CanAdminOrg, CanOwnOrg, CanReadProject,
             CanWriteProject, CanAdminProject, IsSiteAdmin, isInteractive
    <2> QED
      BY <2>1, <2>2, <2>3 DEF AuthorityIsSound
  <1> QED
    BY <1>1, <1>2, <1>3, PTL DEF Spec

-----------------------------------------------------------------------------
(* Claims: when a token's groups reach the memberships.                     *)

IdToken == [iat : Nat, in : BOOLEAN, present : BOOLEAN]

Login == [at : {"idle", "reconcile", "load"}, token : IdToken,
          kind : {"none", "bearer", "callback"}]

\* The type of the clock, the user's row, the tokens and the requests.
ClaimsTypeOK ==
  /\ now \in Nat
  /\ groups \in BOOLEAN
  /\ tokens \subseteq IdToken
  /\ account \in [exists : BOOLEAN, lastLogin : Nat, member : BOOLEAN]
  /\ login \in [SignIns -> Login]

\* Nothing was issued, and nobody signed in, later than now.
NothingIsEarly ==
  /\ \A k \in tokens : k.iat <= now
  /\ \A r \in SignIns : login[r].token.iat <= now
  /\ account.lastLogin <= now

\* A request that is past the reconciliation finds a login no older than its token.
LoadsAreCovered ==
  \A r \in SignIns : login[r].at = "load" =>
    account.exists /\ login[r].token.iat <= account.lastLogin

ClaimsInv == ClaimsTypeOK /\ NothingIsEarly /\ LoadsAreCovered

\* A token drawn from the provider is well formed, and issued at the time given.
LEMMA TokenOfType ==
  ASSUME NEW t \in Nat, NEW in \in BOOLEAN, NEW form \in Forms
  PROVE  TokenOf(t, in, form) \in IdToken /\ TokenOf(t, in, form).iat = t
  BY Zenon DEF TokenOf, IdToken, Forms

LEMMA NoLoginType == NoLogin \in Login /\ NoLogin.at = "idle" /\ NoLogin.token.iat = 0
  BY Zenon DEF NoLogin, NoIdToken, Login, IdToken

LEMMA AccountType ==
  ASSUME NEW n \in Nat, NEW m \in BOOLEAN
  PROVE  [exists |-> TRUE, lastLogin |-> n, member |-> m]
           \in [exists : BOOLEAN, lastLogin : Nat, member : BOOLEAN]
  BY Zenon

\* What a step of one request does to the others: nothing.
LEMMA LoginStep ==
  ASSUME ClaimsInv, NEW r \in SignIns, NEW l \in Login,
         login' = [login EXCEPT ![r] = l], now' = now, groups' = groups, tokens' = tokens,
         account' \in [exists : BOOLEAN, lastLogin : Nat, member : BOOLEAN],
         account.lastLogin <= account'.lastLogin, account'.lastLogin <= now,
         account.exists => account'.exists,
         l.token.iat <= now,
         l.at = "load" => account'.exists /\ l.token.iat <= account'.lastLogin
  PROVE  ClaimsInv'
<1>1. login' \in [SignIns -> Login] /\ login'[r] = l /\ \A q \in SignIns \ {r} : login'[q] = login[q]
  BY DEF ClaimsInv, ClaimsTypeOK
<1>2. ClaimsTypeOK'
  BY <1>1, Zenon DEF ClaimsInv, ClaimsTypeOK
<1>3. NothingIsEarly'
  <2>1. \A q \in SignIns : login'[q].token.iat <= now
    BY <1>1 DEF ClaimsInv, NothingIsEarly
  <2> QED BY <2>1 DEF ClaimsInv, NothingIsEarly
<1>4. LoadsAreCovered'
  <2> SUFFICES ASSUME NEW q \in SignIns, login'[q].at = "load"
               PROVE  account'.exists /\ login'[q].token.iat <= account'.lastLogin
    BY DEF LoadsAreCovered
  <2>1. CASE q = r
    BY <2>1, <1>1
  <2>2. CASE q # r
    <3>1. login'[q] = login[q] /\ login[q] \in Login
      BY <2>2, <1>1 DEF ClaimsInv, ClaimsTypeOK
    <3>2. account.exists /\ login[q].token.iat <= account.lastLogin
      BY <3>1 DEF ClaimsInv, LoadsAreCovered
    <3>3. account.lastLogin \in Nat /\ account'.lastLogin \in Nat /\ login[q].token.iat \in Nat
      BY <3>1 DEF ClaimsInv, ClaimsTypeOK, Login, IdToken
    <3> QED BY <3>1, <3>2, <3>3
  <2> QED BY <2>1, <2>2
<1> QED BY <1>2, <1>3, <1>4 DEF ClaimsInv

LEMMA ClaimsInitially == ClaimsInit => ClaimsInv
<1> SUFFICES ASSUME ClaimsInit PROVE ClaimsInv OBVIOUS
<1>1. \A r \in SignIns : login[r] = NoLogin
  BY DEF ClaimsInit
<1>2. ClaimsTypeOK
  BY NoLoginType, Zenon DEF ClaimsInit, ClaimsTypeOK, NoUser
<1>3. account.lastLogin = 0
  BY DEF ClaimsInit, NoUser
<1> QED BY <1>1, <1>2, <1>3, NoLoginType DEF ClaimsInit, ClaimsInv, NothingIsEarly, LoadsAreCovered

LEMMA TickStep ==
  ASSUME ClaimsInv, Tick PROVE ClaimsInv'
<1>1. ClaimsTypeOK'
  <2>1. now' \in Nat
    BY DEF ClaimsInv, ClaimsTypeOK, Tick
  <2> QED BY <2>1, Zenon DEF ClaimsInv, ClaimsTypeOK, Tick
<1>2. NothingIsEarly'
  <2>1. \A r \in SignIns : login[r].token.iat \in Nat
    BY DEF ClaimsInv, ClaimsTypeOK, Login, IdToken
  <2>2. \A k \in tokens : k.iat \in Nat
    BY DEF ClaimsInv, ClaimsTypeOK, IdToken
  <2>3. account.lastLogin \in Nat
    BY DEF ClaimsInv, ClaimsTypeOK
  <2> QED BY <2>1, <2>2, <2>3 DEF ClaimsInv, ClaimsTypeOK, NothingIsEarly, Tick
<1> QED BY <1>1, <1>2, Zenon DEF ClaimsInv, LoadsAreCovered, Tick

LEMMA IssueStep ==
  ASSUME ClaimsInv, Issue PROVE ClaimsInv'
<1> PICK form \in Forms : tokens' = tokens \cup {TokenOf(now, groups, form)}
  BY DEF Issue
<1> DEFINE k == TokenOf(now, groups, form)
<1>1. k \in IdToken /\ k.iat = now
  BY TokenOfType DEF ClaimsInv, ClaimsTypeOK
<1> HIDE DEF k
<1>2. tokens' = tokens \cup {k}
  BY DEF k
<1>3. ClaimsTypeOK'
  BY <1>1, <1>2, Zenon DEF ClaimsInv, ClaimsTypeOK, Issue
<1>4. NothingIsEarly'
  BY <1>1, <1>2 DEF ClaimsInv, ClaimsTypeOK, NothingIsEarly, Issue
<1> QED BY <1>3, <1>4, Zenon DEF ClaimsInv, LoadsAreCovered, Issue

LEMMA CallbackStep ==
  ASSUME ClaimsInv, NEW r \in SignIns, HandleCallback(r) PROVE ClaimsInv'
<1> PICK form \in Forms :
      login' = [login EXCEPT ![r] = [at |-> "reconcile", kind |-> "callback",
                                     token |-> TokenOf(now, groups, form)]]
  BY DEF HandleCallback
<1> DEFINE l == [at |-> "reconcile", kind |-> "callback", token |-> TokenOf(now, groups, form)]
<1>1. l \in Login /\ l.at = "reconcile" /\ l.token.iat = now
  BY TokenOfType, Zenon DEF ClaimsInv, ClaimsTypeOK, Login
<1>2. login' = [login EXCEPT ![r] = l]
  OBVIOUS
<1> HIDE DEF l
<1>3. account' = account /\ now' = now /\ groups' = groups /\ tokens' = tokens
  BY DEF HandleCallback
<1>4. account.lastLogin \in Nat /\ now \in Nat /\ account.lastLogin <= now
      /\ account \in [exists : BOOLEAN, lastLogin : Nat, member : BOOLEAN]
  BY DEF ClaimsInv, ClaimsTypeOK, NothingIsEarly
<1>5. account.lastLogin <= account'.lastLogin /\ account'.lastLogin <= now /\ l.token.iat <= now
  BY <1>1, <1>3, <1>4
<1> QED BY <1>1, <1>2, <1>3, <1>4, <1>5, LoginStep

LEMMA BearerStep ==
  ASSUME ClaimsInv, NEW r \in SignIns, authenticateBearer(r) PROVE ClaimsInv'
<1> DEFINE at(k) == IF ~account.exists \/ staleLogin(account.lastLogin, k.iat)
                    THEN "reconcile" ELSE "load"
<1>0. PICK k \in tokens : login' = [login EXCEPT ![r] = [token |-> k, kind |-> "bearer", at |-> at(k)]]
  BY DEF authenticateBearer
<1> DEFINE l == [token |-> k, kind |-> "bearer", at |-> at(k)]
<1>1. k \in IdToken /\ k.iat <= now /\ k.iat \in Nat
  BY DEF ClaimsInv, ClaimsTypeOK, NothingIsEarly, IdToken
<1>2. l \in Login /\ l.at = at(k) /\ l.token = k
  BY <1>1, Zenon DEF Login
<1>3. account' = account /\ now' = now /\ groups' = groups /\ tokens' = tokens
  BY DEF authenticateBearer
<1>4. account.lastLogin \in Nat /\ now \in Nat /\ account.lastLogin <= now
      /\ account \in [exists : BOOLEAN, lastLogin : Nat, member : BOOLEAN]
  BY DEF ClaimsInv, ClaimsTypeOK, NothingIsEarly
<1>5. l.at = "load" => account.exists /\ k.iat <= account.lastLogin
  BY <1>1, <1>2, <1>4 DEF staleLogin
<1>6. login' = [login EXCEPT ![r] = l]
  BY <1>0
<1> HIDE DEF l
<1>7. account.lastLogin <= account'.lastLogin /\ account'.lastLogin <= now /\ l.token.iat <= now
  BY <1>1, <1>2, <1>3, <1>4
<1>8. l.at = "load" => account'.exists /\ l.token.iat <= account'.lastLogin
  BY <1>2, <1>3, <1>5
<1> QED BY <1>2, <1>3, <1>4, <1>6, <1>7, <1>8, LoginStep

LEMMA ReconcileTokenStep ==
  ASSUME ClaimsInv, NEW r \in SignIns, ReconcileToken(r) PROVE ClaimsInv'
<1> DEFINE old == login[r]
           l == IF old.kind = "bearer" THEN [old EXCEPT !.at = "load"] ELSE NoLogin
<1>1. old \in Login /\ old.token.iat <= now /\ old.token \in IdToken
  BY DEF ClaimsInv, ClaimsTypeOK, NothingIsEarly, Login
<1>2. login' = [login EXCEPT ![r] = l]
  BY DEF ReconcileToken
<1>3. l \in Login /\ (l.token = old.token \/ l.token.iat = 0)
  <2> HIDE DEF old
  <2>1. CASE old.kind = "bearer"
    <3>1. l = [old EXCEPT !.at = "load"]
      BY <2>1
    <3> QED BY <3>1, <1>1 DEF Login
  <2>2. CASE old.kind # "bearer"
    BY <2>2, NoLoginType, Zenon
  <2> QED BY <2>1, <2>2
<1>4. account'.exists = TRUE /\ account'.lastLogin = now /\ old.token.in \in BOOLEAN
      /\ account' = [exists |-> TRUE, lastLogin |-> now, member |-> old.token.in]
  BY <1>1, Zenon DEF ReconcileToken, IdToken
<1>5. now \in Nat /\ account.lastLogin \in Nat /\ account.lastLogin <= now
  BY DEF ClaimsInv, ClaimsTypeOK, NothingIsEarly
<1>6. account' \in [exists : BOOLEAN, lastLogin : Nat, member : BOOLEAN]
  BY <1>4, <1>5, AccountType, Zenon
<1>7. now' = now /\ groups' = groups /\ tokens' = tokens
  BY DEF ReconcileToken
<1> HIDE DEF l
<1>8. l.token.iat <= now
  BY <1>1, <1>3, <1>5
<1> HIDE DEF old
<1>9. account.lastLogin <= account'.lastLogin /\ account'.lastLogin <= now /\ l.token.iat <= account'.lastLogin
  BY <1>4, <1>5, <1>8
<1> QED BY <1>2, <1>3, <1>4, <1>6, <1>7, <1>8, <1>9, LoginStep

\* A request that ends, served or refused, leaves the user's row alone.
LEMMA LoginEnds ==
  ASSUME ClaimsInv, NEW r \in SignIns, login' = [login EXCEPT ![r] = NoLogin],
         UNCHANGED <<now, groups, tokens, account>>
  PROVE  ClaimsInv'
<1>1. account.lastLogin \in Nat /\ now \in Nat /\ account.lastLogin <= now
      /\ account \in [exists : BOOLEAN, lastLogin : Nat, member : BOOLEAN]
  BY DEF ClaimsInv, ClaimsTypeOK, NothingIsEarly
<1>2. account.lastLogin <= account'.lastLogin /\ account'.lastLogin <= now /\ NoLogin.token.iat <= now
  BY <1>1, NoLoginType
<1> QED BY <1>1, <1>2, NoLoginType, LoginStep

LEMMA ClaimsStep == ClaimsInv /\ [ClaimsNext]_claimsVars => ClaimsInv'
<1> SUFFICES ASSUME ClaimsInv, [ClaimsNext]_claimsVars PROVE ClaimsInv'
  OBVIOUS
<1>1. CASE UNCHANGED claimsVars
  BY <1>1, Zenon DEF claimsVars, ClaimsInv, ClaimsTypeOK, NothingIsEarly, LoadsAreCovered
<1>2. CASE Tick
  BY <1>2, TickStep
<1>3. CASE Issue
  BY <1>3, IssueStep
<1>4. ASSUME NEW r \in SignIns, HandleCallback(r) PROVE ClaimsInv'
  BY <1>4, CallbackStep
<1>5. ASSUME NEW r \in SignIns, authenticateBearer(r) PROVE ClaimsInv'
  BY <1>5, BearerStep
<1>6. ASSUME NEW r \in SignIns, ReconcileToken(r) PROVE ClaimsInv'
  BY <1>6, ReconcileTokenStep
<1>7. ASSUME NEW r \in SignIns, Refuse(r) \/ loadPrincipal(r) PROVE ClaimsInv'
  BY <1>7, LoginEnds DEF Refuse, loadPrincipal
<1> QED BY <1>1, <1>2, <1>3, <1>4, <1>5, <1>6, <1>7, Zenon DEF ClaimsNext

LEMMA ClaimsAlways == ClaimsSpec => []ClaimsInv
  BY ClaimsInitially, ClaimsStep, PTL DEF ClaimsSpec

\* A membership moves only with a reconciliation, which has a readable token.
LEMMA ReadableClaimsDecideStep ==
  ASSUME ClaimsInv, [ClaimsNext]_claimsVars PROVE ReadableClaimsDecide
<1>1. ASSUME NEW r \in SignIns, ReconcileToken(r) PROVE ReadableClaimsDecide
  <2>1. r \in DOMAIN login
    BY DEF ClaimsInv, ClaimsTypeOK
  <2>2. account'.member = login[r].token.in
    BY <1>1, Zenon DEF ReconcileToken
  <2>3. login[r].at = "reconcile" /\ login[r].token.present
    BY <1>1 DEF ReconcileToken
  <2> QED BY <2>1, <2>2, <2>3, Zenon DEF ReadableClaimsDecide
<1>2. ASSUME account' = account PROVE ReadableClaimsDecide
  BY <1>2, Zenon DEF ReadableClaimsDecide
<1> QED BY <1>1, <1>2, Zenon DEF ClaimsNext, claimsVars, Tick, Issue, HandleCallback,
          authenticateBearer, Refuse, loadPrincipal

LEMMA ServedStep ==
  ASSUME ClaimsInv, [ClaimsNext]_claimsVars PROVE ServedAfterALogin
<1>1. ASSUME NEW r \in SignIns, loadPrincipal(r) PROVE ServedAfterALogin
  <2>1. served' \ served \subseteq {login[r].token} /\ login[r].at = "load"
    BY <1>1, Zenon DEF loadPrincipal
  <2>2. account.exists /\ login[r].token.iat <= account.lastLogin
    BY <2>1, <1>1 DEF ClaimsInv, LoadsAreCovered
  <2> QED BY <2>1, <2>2, Zenon DEF ServedAfterALogin
<1>2. ASSUME served' = served PROVE ServedAfterALogin
  BY <1>2, Zenon DEF ServedAfterALogin
<1> QED BY <1>1, <1>2, Zenon DEF ClaimsNext, claimsVars, Tick, Issue, HandleCallback,
          authenticateBearer, Refuse, ReconcileToken

\* In every behaviour of the login service, with any number of requests and
\* tokens, a membership changes only on a readable token that says so, and a
\* bearer token is answered for only once a login is recorded that is no older
\* (service.go: authenticateBearer, staleLogin; reconcile.go: Reconcile).
THEOREM ClaimsAreFollowed == ClaimsSpec => MembershipsFollowReadableClaims
<1>1. ClaimsInv /\ [ClaimsNext]_claimsVars => [ReadableClaimsDecide /\ ServedAfterALogin]_claimsVars
  BY ReadableClaimsDecideStep, ServedStep, Zenon
<1> QED BY <1>1, ClaimsAlways, PTL DEF ClaimsSpec, MembershipsFollowReadableClaims

-----------------------------------------------------------------------------
(* Sessions: who is signed in under a token.                                *)

Session == [live : BOOLEAN, user : BOOLEAN, flow : Nat]

WebCall == [at : {"idle", "loaded", "exchange", "establish", "handled"},
            kind : {"none", "api", "login", "callback", "logout"}, tok : Nat, data : Session,
            status : {"unmodified", "modified", "destroyed"}, flow : Nat]

\* The type of the sessions table, the counters, the cookie and the requests.
SessionsTypeOK ==
  /\ store \in [Tokens -> Session]
  /\ drawn \in Nat /\ drawn <= MaxTokens
  /\ flows \in Nat
  /\ cookie \in Nat
  /\ web \in [Calls -> WebCall]

\* Every token somewhere is one that was drawn.
HeldIsDrawn ==
  /\ \A t \in Tokens : store[t].live => t <= drawn
  /\ \A r \in Calls : web[r].tok <= drawn
  /\ cookie <= drawn
  /\ \A t \in anonymous \cup loggedOut : t \in Tokens /\ t <= drawn

\* A request that will write back has a token to write under, a callback names a flow,
\* and a session that was not found has none.
CallIsSound(c) ==
  /\ c.status = "modified" => c.tok # NoToken
  /\ c.kind = "callback" => c.flow # NoFlow
  /\ c.at = "loaded" /\ c.tok = NoToken => c.data.flow = NoFlow

CallsAreSound == \A r \in Calls : CallIsSound(web[r])

\* All copies of a session, the row and those requests hold, agree on who is signed in.
CopiesAgree ==
  /\ \A r \in Calls : web[r].tok # NoToken /\ store[web[r].tok].live =>
       (web[r].data.user <=> store[web[r].tok].user)
  /\ \A r, q \in Calls : web[r].tok # NoToken /\ web[r].tok = web[q].tok =>
       (web[r].data.user <=> web[q].data.user)

\* No copy of a session that was once stored with nobody signed in has a user.
AnonymousStays ==
  \A t \in anonymous :
    /\ store[t].live => ~store[t].user
    /\ \A r \in Calls : web[r].tok = t => ~web[r].data.user

\* There is no copy of a session that was logged out and nobody held.
LoggedOutStays ==
  \A t \in loggedOut : store[t] = NoSession /\ \A r \in Calls : web[r].tok # t

SessionsInv ==
  /\ SessionsTypeOK
  /\ HeldIsDrawn
  /\ CallsAreSound
  /\ CopiesAgree
  /\ AnonymousStays
  /\ LoggedOutStays

LEMMA SessionTypes ==
  /\ NoSession \in Session /\ Fresh \in Session /\ NoCall \in WebCall
  /\ ~NoSession.live /\ ~NoSession.user /\ Fresh.flow = NoFlow
  /\ NoCall.tok = NoToken /\ CallIsSound(NoCall)
  BY DEF NoSession, Fresh, NoCall, Session, WebCall, CallIsSound, NoToken, NoFlow

\* A step of one request that writes no row back: rows may go, and the request ends with
\* no token, with its own, with a new one, or with a copy of a stored session.
LEMMA CallStep ==
  ASSUME SessionsInv, NEW r \in Calls,
         web' \in [Calls -> WebCall], \A q \in Calls \ {r} : web'[q] = web[q],
         store' \in [Tokens -> Session], \A t \in Tokens : store'[t] \in {store[t], NoSession},
         drawn' \in Nat, drawn <= drawn', drawn' <= MaxTokens,
         cookie' = cookie, flows' \in Nat, anonymous' = anonymous,
         CallIsSound(web'[r]), web'[r].tok <= drawn',
         \/ web'[r].tok = NoToken
         \/ web'[r].tok = web[r].tok /\ (web'[r].data.user <=> web[r].data.user)
         \/ web'[r].tok > drawn
         \/ /\ web'[r].tok \in Tokens /\ store[web'[r].tok].live
            /\ web'[r].data.user <=> store[web'[r].tok].user,
         \A t \in loggedOut' \ loggedOut :
            /\ t \in Tokens /\ t <= drawn /\ store'[t] = NoSession
            /\ \A q \in Calls : web'[q].tok # t
  PROVE  SessionsInv'
<1> USE DEF SessionsInv
<1>1. SessionsTypeOK'
  BY DEF SessionsTypeOK
<1>2. /\ \A t \in Tokens : t \in Nat /\ t # NoToken
      /\ \A q \in Calls : web[q].tok \in Nat /\ web'[q].tok \in Nat
      /\ drawn \in Nat /\ drawn' \in Nat /\ cookie \in Nat /\ MaxTokens \in Nat
      /\ \A q \in Calls : web[q].tok # NoToken => web[q].tok \in Tokens
      /\ \A q \in Calls : web'[q].tok # NoToken => web'[q].tok \in Tokens
  <2>1. \A q \in Calls : web[q].tok \in Nat /\ web'[q].tok \in Nat
    BY DEF SessionsTypeOK, WebCall
  <2>2. drawn \in Nat /\ drawn' \in Nat /\ MaxTokens \in Nat /\ cookie \in Nat /\ drawn <= MaxTokens
    BY SessionsAssumption DEF SessionsTypeOK
  <2>3. \A q \in Calls : web[q].tok <= drawn /\ web'[q].tok <= drawn'
    BY <2>1, <2>2 DEF HeldIsDrawn
  <2> QED BY <2>1, <2>2, <2>3 DEF Tokens, NoToken
<1>3. HeldIsDrawn'
  <2>1. \A t \in Tokens : store'[t].live => t <= drawn'
    BY <1>2, SessionTypes DEF HeldIsDrawn
  <2>2. \A q \in Calls : web'[q].tok <= drawn'
    BY <1>2 DEF HeldIsDrawn
  <2>3. \A t \in anonymous' \cup loggedOut' : t \in Tokens /\ t <= drawn'
    BY <1>2 DEF HeldIsDrawn
  <2> QED BY <1>2, <2>1, <2>2, <2>3 DEF HeldIsDrawn
<1>4. CallsAreSound'
  BY DEF CallsAreSound
<1>5. \A t \in Tokens : store'[t].live => store'[t] = store[t]
  BY SessionTypes
<1>6. CopiesAgree'
  <2>1. ASSUME NEW q \in Calls, web'[q].tok # NoToken, store'[web'[q].tok].live
        PROVE  web'[q].data.user <=> store'[web'[q].tok].user
    <3>1. web'[q].tok \in Tokens /\ store'[web'[q].tok] = store[web'[q].tok] /\ store[web'[q].tok].live
      BY <1>2, <1>5, <2>1
    <3>2. web'[q].tok <= drawn
      BY <3>1 DEF HeldIsDrawn
    <3>3. CASE q # r
      BY <3>1, <3>3, <2>1 DEF CopiesAgree
    <3>4. CASE q = r
      BY <3>1, <3>2, <3>4, <2>1, <1>2 DEF CopiesAgree
    <3> QED BY <3>3, <3>4
  <2>2. ASSUME NEW q \in Calls \ {r}, web'[r].tok # NoToken, web'[r].tok = web'[q].tok
        PROVE  web'[r].data.user <=> web'[q].data.user
    <3>1. web'[q] = web[q] /\ web[q].tok <= drawn /\ web[q].tok # NoToken
      BY <2>2 DEF HeldIsDrawn
    <3>2. CASE web'[r].tok = web[r].tok /\ (web'[r].data.user <=> web[r].data.user)
      BY <3>1, <3>2, <2>2 DEF CopiesAgree
    <3>3. CASE store[web'[r].tok].live /\ (web'[r].data.user <=> store[web'[r].tok].user)
      BY <3>1, <3>3, <2>2 DEF CopiesAgree
    <3> QED BY <3>1, <3>2, <3>3, <2>2, <1>2
  <2>3. ASSUME NEW p \in Calls, NEW q \in Calls, web'[p].tok # NoToken, web'[p].tok = web'[q].tok
        PROVE  web'[p].data.user <=> web'[q].data.user
    <3>1. CASE p # r /\ q # r
      BY <3>1, <2>3 DEF CopiesAgree
    <3> QED BY <2>2, <2>3, <3>1
  <2> QED BY <2>1, <2>3 DEF CopiesAgree
<1>7. AnonymousStays'
  <2> SUFFICES ASSUME NEW t \in anonymous
               PROVE  /\ store'[t].live => ~store'[t].user
                      /\ \A q \in Calls : web'[q].tok = t => ~web'[q].data.user
    BY DEF AnonymousStays
  <2>1. t \in Tokens /\ t <= drawn /\ t # NoToken
    BY <1>2 DEF HeldIsDrawn
  <2>2. store'[t].live => ~store'[t].user
    BY <1>5, <2>1 DEF AnonymousStays
  <2>3. ASSUME NEW q \in Calls \ {r}, web'[q].tok = t PROVE ~web'[q].data.user
    BY <2>3 DEF AnonymousStays
  <2>4. ASSUME web'[r].tok = t PROVE ~web'[r].data.user
    BY <1>2, <2>1, <2>4 DEF AnonymousStays
  <2> QED BY <2>2, <2>3, <2>4
<1>8. LoggedOutStays'
  <2> SUFFICES ASSUME NEW t \in loggedOut
               PROVE  store'[t] = NoSession /\ \A q \in Calls : web'[q].tok # t
    BY DEF LoggedOutStays
  <2>1. t \in Tokens /\ t <= drawn /\ t # NoToken /\ store[t] = NoSession
    BY <1>2 DEF HeldIsDrawn, LoggedOutStays
  <2>2. \A q \in Calls \ {r} : web'[q].tok # t
    BY DEF LoggedOutStays
  <2>3. web'[r].tok # t
    BY <1>2, <2>1, SessionTypes DEF LoggedOutStays
  <2> QED BY <2>1, <2>2, <2>3
<1> QED BY <1>1, <1>3, <1>4, <1>6, <1>7, <1>8

LEMMA SessionsInitially == SessionsInit => SessionsInv
<1> SUFFICES ASSUME SessionsInit PROVE SessionsInv OBVIOUS
<1>1. SessionsTypeOK
  BY SessionTypes, SessionsAssumption DEF SessionsInit, SessionsTypeOK, NoToken
<1>2. \A r \in Calls : web[r] = NoCall
  BY DEF SessionsInit
<1>3. \A t \in Tokens : ~store[t].live
  BY SessionTypes DEF SessionsInit
<1> QED BY <1>1, <1>2, <1>3, SessionTypes DEF SessionsInit, SessionsInv, HeldIsDrawn, CallsAreSound,
          CopiesAgree, AnonymousStays, LoggedOutStays, NoToken

\* What a step may rely on: the bounds and the types.
LEMMA SessionFacts ==
  ASSUME SessionsInv
  PROVE  /\ drawn \in Nat /\ drawn <= MaxTokens /\ MaxTokens \in Nat
         /\ flows \in Nat /\ cookie \in Nat /\ cookie <= drawn
         /\ web \in [Calls -> WebCall] /\ store \in [Tokens -> Session]
         /\ \A r \in Calls : CallIsSound(web[r]) /\ web[r].tok \in Nat /\ web[r].tok <= drawn
                             /\ web[r].data \in Session
  BY SessionsAssumption DEF SessionsInv, SessionsTypeOK, HeldIsDrawn, CallsAreSound, WebCall

\* A request that only moves on, its token and its user staying.
LEMMA MoveStep ==
  ASSUME SessionsInv, NEW r \in Calls, NEW a \in {"exchange", "establish", "handled"},
         web' = [web EXCEPT ![r].at = a],
         UNCHANGED <<store, drawn, flows, cookie, anonymous, loggedOut>>
  PROVE  SessionsInv'
<1>1. /\ web' \in [Calls -> WebCall] /\ \A q \in Calls \ {r} : web'[q] = web[q]
      /\ web'[r].at = a /\ web'[r].kind = web[r].kind /\ web'[r].tok = web[r].tok
      /\ web'[r].data = web[r].data /\ web'[r].status = web[r].status /\ web'[r].flow = web[r].flow
  BY SessionFacts DEF WebCall
<1>2. CallIsSound(web'[r])
  BY <1>1, SessionFacts DEF CallIsSound
<1>3. /\ store' \in [Tokens -> Session] /\ \A t \in Tokens : store'[t] \in {store[t], NoSession}
      /\ drawn' \in Nat /\ drawn <= drawn' /\ drawn' <= MaxTokens
      /\ flows' \in Nat /\ web'[r].tok <= drawn'
  BY <1>1, SessionFacts
<1> QED BY <1>1, <1>2, <1>3, CallStep

LEMMA CheckStateStep ==
  ASSUME SessionsInv, NEW r \in Calls, CheckState(r) PROVE SessionsInv'
<1> DEFINE d == [web[r].data EXCEPT !.flow = NoFlow]
<1>1. d \in Session /\ (d.user <=> web[r].data.user)
  BY SessionFacts DEF Session, NoFlow
<1> HIDE DEF d
<1>2. web' = [web EXCEPT ![r] = [at |-> "exchange", kind |-> @.kind, tok |-> @.tok, data |-> d,
                                 status |-> "modified", flow |-> @.flow]]
  BY Zenon DEF CheckState, d
<1>3. /\ web' \in [Calls -> WebCall] /\ \A q \in Calls \ {r} : web'[q] = web[q]
      /\ web'[r].at = "exchange" /\ web'[r].kind = web[r].kind /\ web'[r].tok = web[r].tok
      /\ web'[r].data = d /\ web'[r].status = "modified" /\ web'[r].flow = web[r].flow
  BY <1>1, <1>2, SessionFacts DEF WebCall
<1>4. web[r].tok # NoToken
  BY SessionFacts DEF CallIsSound, CheckState
<1>5. CallIsSound(web'[r])
  BY <1>3, <1>4, SessionFacts DEF CallIsSound
<1>6. /\ store' \in [Tokens -> Session] /\ \A t \in Tokens : store'[t] \in {store[t], NoSession}
      /\ drawn' \in Nat /\ drawn <= drawn' /\ drawn' <= MaxTokens
      /\ flows' \in Nat /\ web'[r].tok <= drawn' /\ cookie' = cookie
      /\ anonymous' = anonymous /\ loggedOut' = loggedOut
  BY <1>3, SessionFacts DEF CheckState
<1> QED BY <1>1, <1>3, <1>5, <1>6, CallStep

\* Taking the row of a token away leaves the other rows.
LEMMA WithoutEffect ==
  ASSUME SessionsInv, NEW t \in Nat, t <= drawn
  PROVE  /\ Without(t) \in [Tokens -> Session]
         /\ \A u \in Tokens : Without(t)[u] \in {store[u], NoSession}
         /\ t # NoToken => t \in Tokens /\ Without(t)[t] = NoSession
<1>1. t # NoToken => t \in Tokens
  BY SessionFacts DEF Tokens, NoToken
<1> QED BY <1>1, SessionFacts, SessionTypes DEF Without

LEMMA RenewStep ==
  ASSUME SessionsInv, NEW r \in Calls, NEW d \in Session, Renew(r, d), flows' \in Nat,
         UNCHANGED <<cookie, anonymous, loggedOut>>
  PROVE  SessionsInv'
<1>1. /\ web' \in [Calls -> WebCall] /\ \A q \in Calls \ {r} : web'[q] = web[q]
      /\ web'[r].at = "handled" /\ web'[r].kind = web[r].kind /\ web'[r].tok = drawn + 1
      /\ web'[r].data = d /\ web'[r].status = "modified" /\ web'[r].flow = web[r].flow
  BY SessionFacts DEF Renew, WebCall
<1>2. CallIsSound(web'[r])
  BY <1>1, SessionFacts DEF CallIsSound, NoToken
<1>3. store' \in [Tokens -> Session] /\ \A t \in Tokens : store'[t] \in {store[t], NoSession}
  BY WithoutEffect, SessionFacts DEF Renew
<1>4. drawn' \in Nat /\ drawn <= drawn' /\ drawn' <= MaxTokens /\ web'[r].tok <= drawn' /\ web'[r].tok > drawn
  BY <1>1, SessionFacts DEF Renew
<1> QED BY <1>1, <1>2, <1>3, <1>4, CallStep

LEMMA LoginRenews ==
  ASSUME SessionsInv, NEW r \in Calls, HandleLogin(r) \/ establish(r) PROVE SessionsInv'
<1>1. web[r].data \in Session /\ flows \in Nat
  BY SessionFacts
<1>2. CASE HandleLogin(r)
  <2> DEFINE d == [web[r].data EXCEPT !.flow = flows + 1]
  <2>1. d \in Session /\ flows' \in Nat
    BY <1>1, <1>2 DEF Session, HandleLogin
  <2>2. Renew(r, d) /\ UNCHANGED <<cookie, anonymous, loggedOut>>
    BY <1>2 DEF HandleLogin
  <2> HIDE DEF d
  <2> QED BY <2>1, <2>2, RenewStep
<1>3. CASE establish(r)
  <2> DEFINE d == [web[r].data EXCEPT !.user = TRUE]
  <2>1. d \in Session /\ flows' \in Nat
    BY <1>1, <1>3 DEF Session, establish
  <2>2. Renew(r, d) /\ UNCHANGED <<cookie, anonymous, loggedOut>>
    BY <1>3 DEF establish
  <2> HIDE DEF d
  <2> QED BY <2>1, <2>2, RenewStep
<1> QED BY <1>2, <1>3

LEMMA LogoutStep ==
  ASSUME SessionsInv, NEW r \in Calls, HandleLogout(r) PROVE SessionsInv'
<1>1. /\ web' \in [Calls -> WebCall] /\ \A q \in Calls \ {r} : web'[q] = web[q]
      /\ web'[r].at = "handled" /\ web'[r].kind = web[r].kind /\ web'[r].tok = NoToken
      /\ web'[r].data = Fresh /\ web'[r].status = "destroyed" /\ web'[r].flow = web[r].flow
  BY SessionFacts, SessionTypes DEF HandleLogout, WebCall, NoToken
<1>2. CallIsSound(web'[r])
  BY <1>1, SessionFacts DEF CallIsSound
<1>3. /\ store' \in [Tokens -> Session] /\ \A t \in Tokens : store'[t] \in {store[t], NoSession}
      /\ web[r].tok # NoToken => web[r].tok \in Tokens /\ store'[web[r].tok] = NoSession
  BY WithoutEffect, SessionFacts DEF HandleLogout
<1>4. /\ drawn' \in Nat /\ drawn <= drawn' /\ drawn' <= MaxTokens
      /\ flows' \in Nat /\ web'[r].tok <= drawn' /\ cookie' = cookie /\ anonymous' = anonymous
  BY <1>1, SessionFacts DEF HandleLogout, NoToken
<1>5. \A t \in loggedOut' \ loggedOut : t = web[r].tok /\ t # NoToken /\ \A q \in Calls \ {r} : web[q].tok # t
  BY Zenon DEF HandleLogout
<1>6. \A t \in loggedOut' \ loggedOut :
         /\ t \in Tokens /\ t <= drawn /\ store'[t] = NoSession
         /\ \A q \in Calls : web'[q].tok # t
  BY <1>1, <1>3, <1>5, SessionFacts
<1> QED BY <1>1, <1>2, <1>3, <1>4, <1>6, CallStep

LEMMA ArriveStep ==
  ASSUME SessionsInv, NEW r \in Calls, Arrive(r) PROVE SessionsInv'
<1>0. PICK kind \in {"api", "login", "callback", "logout"}, f \in 0 .. flows :
        (kind = "callback" <=> f # NoFlow) /\ Load(r, kind, f)
  BY DEF Arrive
<1> DEFINE found == cookie # NoToken /\ store[cookie].live
           t == IF found THEN cookie ELSE NoToken
           d == IF found THEN store[cookie] ELSE Fresh
           s == IF found THEN "modified" ELSE "unmodified"
<1>1. f \in Nat /\ (cookie # NoToken => cookie \in Tokens)
  BY SessionFacts DEF Tokens, NoToken
<1>2. /\ t \in Nat /\ t <= drawn /\ d \in Session /\ s \in {"modified", "unmodified"}
      /\ t = NoToken => d.flow = NoFlow
      /\ s = "modified" => t # NoToken
      /\ t # NoToken => t \in Tokens /\ store[t].live /\ d = store[t]
  BY <1>1, SessionFacts, SessionTypes DEF NoToken
<1>3. web' = [web EXCEPT ![r] = [at |-> "loaded", kind |-> kind, flow |-> f, tok |-> t, data |-> d, status |-> s]]
  BY <1>0, Zenon DEF Load
<1> HIDE DEF t, d, s, found
<1>4. /\ web' \in [Calls -> WebCall] /\ \A q \in Calls \ {r} : web'[q] = web[q]
      /\ web'[r].at = "loaded" /\ web'[r].kind = kind /\ web'[r].tok = t
      /\ web'[r].data = d /\ web'[r].status = s /\ web'[r].flow = f
  BY <1>1, <1>2, <1>3, SessionFacts DEF WebCall
<1>5. CallIsSound(web'[r])
  BY <1>0, <1>2, <1>4 DEF CallIsSound
<1>6. /\ store' \in [Tokens -> Session] /\ \A u \in Tokens : store'[u] \in {store[u], NoSession}
      /\ drawn' \in Nat /\ drawn <= drawn' /\ drawn' <= MaxTokens
      /\ flows' \in Nat /\ web'[r].tok <= drawn' /\ cookie' = cookie
      /\ anonymous' = anonymous /\ loggedOut' = loggedOut
  BY <1>2, <1>4, SessionFacts DEF Arrive
<1>7. \/ web'[r].tok = NoToken
      \/ /\ web'[r].tok \in Tokens /\ store[web'[r].tok].live
         /\ web'[r].data.user <=> store[web'[r].tok].user
  BY <1>2, <1>4
<1> QED BY <1>4, <1>5, <1>6, <1>7, CallStep

LEMMA ExpireStep ==
  ASSUME SessionsInv, NEW t \in Tokens, DeleteExpired(t) PROVE SessionsInv'
<1>1. store' \in [Tokens -> Session] /\ \A u \in Tokens : store'[u] \in {store[u], NoSession}
  BY SessionFacts, SessionTypes DEF DeleteExpired
<1>2. \A u \in Tokens : store'[u].live => store'[u] = store[u]
  BY <1>1, SessionTypes
<1>3. UNCHANGED <<drawn, flows, cookie, web, anonymous, loggedOut>>
  BY DEF DeleteExpired
<1>4. \A r \in Calls : web[r].tok # NoToken => web[r].tok \in Tokens
  BY SessionFacts DEF Tokens, NoToken
<1>5. \A u \in anonymous \cup loggedOut : u \in Tokens
  BY DEF SessionsInv, HeldIsDrawn
<1>6. SessionsTypeOK'
  BY <1>1, <1>3 DEF SessionsInv, SessionsTypeOK
<1>7. HeldIsDrawn'
  BY <1>2, <1>3 DEF SessionsInv, HeldIsDrawn
<1>8. CallsAreSound'
  BY <1>3 DEF SessionsInv, CallsAreSound
<1>9. CopiesAgree'
  BY <1>2, <1>3, <1>4 DEF SessionsInv, CopiesAgree
<1>10. AnonymousStays'
  BY <1>2, <1>3, <1>5 DEF SessionsInv, AnonymousStays
<1>11. LoggedOutStays'
  BY <1>1, <1>3, <1>5 DEF SessionsInv, LoggedOutStays
<1> QED BY <1>6, <1>7, <1>8, <1>9, <1>10, <1>11 DEF SessionsInv

\* The write-back of a request's copy: no other copy of the session disagrees with it, so
\* the row may come back, and a session is anonymous only if all its copies are.
LEMMA CommitStep ==
  ASSUME SessionsInv, NEW r \in Calls, Commit(r) PROVE SessionsInv'
<1> DEFINE c == web[r]
<1>1. c \in WebCall /\ CallIsSound(c) /\ c.tok \in Nat /\ c.tok <= drawn /\ c.data \in Session
  BY SessionFacts
<1>2. /\ web' \in [Calls -> WebCall] /\ \A q \in Calls \ {r} : web'[q] = web[q]
      /\ web'[r] = NoCall
  BY SessionFacts, SessionTypes DEF Commit
<1>3. drawn' = drawn /\ flows' = flows /\ loggedOut' = loggedOut
  BY DEF Commit
<1>4. CASE c.status = "modified"
  <2>1. c.tok \in Tokens /\ c.tok # NoToken
    BY <1>1, <1>4, SessionFacts DEF CallIsSound, Tokens, NoToken
  <2>2. /\ store' = [store EXCEPT ![c.tok] = c.data] /\ cookie' = c.tok
        /\ anonymous' = IF c.data.user THEN anonymous ELSE anonymous \cup {c.tok}
    BY <1>4, Zenon DEF Commit
  <2> HIDE DEF c
  <2>3. /\ store' \in [Tokens -> Session] /\ store'[c.tok] = c.data
        /\ \A t \in Tokens \ {c.tok} : store'[t] = store[t]
    BY <1>1, <2>1, <2>2, SessionFacts
  <2>4. SessionsTypeOK'
    BY <1>1, <1>2, <1>3, <2>2, <2>3 DEF SessionsInv, SessionsTypeOK
  <2>5. /\ \A t \in anonymous \cup loggedOut : t \in Tokens /\ t <= drawn
        /\ c.tok \notin loggedOut
        /\ \A q \in Calls \ {r} : web[q].tok = c.tok => (web[q].data.user <=> c.data.user)
        /\ c.tok \in anonymous => ~c.data.user
    BY <2>1 DEF SessionsInv, HeldIsDrawn, LoggedOutStays, CopiesAgree, AnonymousStays, c
  <2>6. HeldIsDrawn'
    <3>1. \A t \in Tokens : store'[t].live => t <= drawn
      BY <1>1, <2>3 DEF SessionsInv, HeldIsDrawn
    <3>2. \A q \in Calls : web'[q].tok <= drawn
      BY <1>2, SessionFacts, SessionTypes DEF NoToken
    <3> QED BY <1>1, <1>3, <2>1, <2>2, <2>5, <3>1, <3>2 DEF HeldIsDrawn
  <2>7. CallsAreSound'
    BY <1>2, SessionTypes DEF SessionsInv, CallsAreSound
  <2>8. CopiesAgree'
    <3>1. ASSUME NEW q \in Calls, web'[q].tok # NoToken, store'[web'[q].tok].live
          PROVE  web'[q].data.user <=> store'[web'[q].tok].user
      <4>1. q # r /\ web'[q] = web[q] /\ web[q].tok \in Tokens
        BY <1>2, <3>1, SessionTypes, SessionFacts DEF Tokens, NoToken
      <4>2. CASE web[q].tok = c.tok
        BY <2>3, <2>5, <4>1, <4>2
      <4>3. CASE web[q].tok # c.tok
        BY <2>3, <3>1, <4>1, <4>3 DEF SessionsInv, CopiesAgree
      <4> QED BY <4>2, <4>3
    <3>2. ASSUME NEW p \in Calls, NEW q \in Calls, web'[p].tok # NoToken, web'[p].tok = web'[q].tok
          PROVE  web'[p].data.user <=> web'[q].data.user
      BY <1>2, <3>2, SessionTypes DEF SessionsInv, CopiesAgree
    <3> QED BY <3>1, <3>2 DEF CopiesAgree
  <2>9. AnonymousStays'
    <3> SUFFICES ASSUME NEW t \in anonymous'
                 PROVE  /\ store'[t].live => ~store'[t].user
                        /\ \A q \in Calls : web'[q].tok = t => ~web'[q].data.user
      BY DEF AnonymousStays
    <3>1. t \in Tokens /\ t # NoToken
      BY <2>1, <2>2, <2>5 DEF Tokens, NoToken
    <3>2. CASE t = c.tok
      <4>1. ~c.data.user
        BY <2>2, <2>5, <3>2
      <4> QED BY <1>2, <2>3, <2>5, <3>1, <3>2, <4>1, SessionTypes
    <3>3. CASE t # c.tok
      <4>1. t \in anonymous
        BY <2>2, <3>3
      <4> QED BY <1>2, <2>3, <3>1, <3>3, <4>1, SessionTypes DEF SessionsInv, AnonymousStays
    <3> QED BY <3>2, <3>3
  <2>10. LoggedOutStays'
    BY <1>2, <1>3, <2>3, <2>5, SessionTypes DEF SessionsInv, LoggedOutStays, Tokens, NoToken
  <2> QED BY <2>4, <2>6, <2>7, <2>8, <2>9, <2>10 DEF SessionsInv
<1>5. CASE c.status # "modified"
  <2>1. store' = store /\ anonymous' = anonymous /\ cookie' \in {cookie, NoToken}
    BY <1>5 DEF Commit
  <2>2. cookie' \in Nat /\ cookie' <= drawn
    BY <2>1, SessionFacts DEF NoToken
  <2> HIDE DEF c
  <2>3. SessionsTypeOK'
    BY <1>2, <1>3, <2>1, <2>2 DEF SessionsInv, SessionsTypeOK
  <2>4. HeldIsDrawn'
    <3>1. \A q \in Calls : web'[q].tok <= drawn
      BY <1>2, SessionFacts, SessionTypes DEF NoToken
    <3> QED BY <1>3, <2>1, <2>2, <3>1 DEF SessionsInv, HeldIsDrawn
  <2>5. CallsAreSound'
    BY <1>2, SessionTypes DEF SessionsInv, CallsAreSound
  <2>6. CopiesAgree'
    BY <1>2, <2>1, SessionTypes DEF SessionsInv, CopiesAgree
  <2>7. \A t \in anonymous \cup loggedOut : t # NoToken
    BY DEF SessionsInv, HeldIsDrawn, Tokens, NoToken
  <2>8. AnonymousStays'
    BY <1>2, <2>1, <2>7, SessionTypes DEF SessionsInv, AnonymousStays
  <2>9. LoggedOutStays'
    BY <1>2, <1>3, <2>1, <2>7, SessionTypes DEF SessionsInv, LoggedOutStays
  <2> QED BY <2>3, <2>4, <2>5, <2>6, <2>8, <2>9 DEF SessionsInv
<1> QED BY <1>4, <1>5

LEMMA SessionsStep == SessionsInv /\ [SessionsNext]_sessionsVars => SessionsInv'
<1> SUFFICES ASSUME SessionsInv, [SessionsNext]_sessionsVars PROVE SessionsInv'
  OBVIOUS
<1>1. CASE UNCHANGED sessionsVars
  BY <1>1, Zenon DEF sessionsVars, SessionsInv, SessionsTypeOK, HeldIsDrawn, CallsAreSound, CopiesAgree,
     AnonymousStays, LoggedOutStays
<1>2. ASSUME NEW r \in Calls, Authenticate(r) \/ StateMismatch(r) PROVE SessionsInv'
  BY <1>2, MoveStep DEF Authenticate, StateMismatch
<1>3. ASSUME NEW r \in Calls, Exchange(r) PROVE SessionsInv'
  BY <1>3, MoveStep DEF Exchange
<1>4. ASSUME NEW r \in Calls, Arrive(r) PROVE SessionsInv'
  BY <1>4, ArriveStep
<1>5. ASSUME NEW r \in Calls, HandleLogin(r) \/ establish(r) PROVE SessionsInv'
  BY <1>5, LoginRenews
<1>6. ASSUME NEW r \in Calls, CheckState(r) PROVE SessionsInv'
  BY <1>6, CheckStateStep
<1>7. ASSUME NEW r \in Calls, HandleLogout(r) PROVE SessionsInv'
  BY <1>7, LogoutStep
<1>8. ASSUME NEW r \in Calls, Commit(r) PROVE SessionsInv'
  BY <1>8, CommitStep
<1>9. ASSUME NEW t \in Tokens, DeleteExpired(t) PROVE SessionsInv'
  BY <1>9, ExpireStep
<1> QED BY <1>1, <1>2, <1>3, <1>4, <1>5, <1>6, <1>7, <1>8, <1>9, Zenon DEF SessionsNext

\* In every behaviour of the session manager, with any number of requests, tokens and
\* flows, nobody is signed in under a token that was stored before the login, nor under
\* one that a logout destroyed while no other request held a copy (service.go: establish,
\* HandleLogout).
THEOREM SessionsAlwaysFollow == SessionsSpec => []SessionsFollowTheLogin
<1>1. SessionsInv => SessionsFollowTheLogin
  <2> SUFFICES ASSUME SessionsInv PROVE SessionsFollowTheLogin
    OBVIOUS
  <2>1. LoginRenewsTheToken
    BY DEF SessionsInv, AnonymousStays, LoginRenewsTheToken
  <2>2. LogoutDestroys
    BY SessionTypes DEF SessionsInv, LoggedOutStays, LogoutDestroys
  <2> QED BY <2>1, <2>2 DEF SessionsFollowTheLogin
<1> QED BY <1>1, SessionsInitially, SessionsStep, PTL DEF SessionsSpec

-----------------------------------------------------------------------------
(* Members: what logins and the API do to one user's authority.             *)

Answers == {"none", "ok", "forbidden", "not found", "claim derived", "still a member", "error",
            "gone", "conflict", "still an admin", "scope exceeds role", "not revoked"}

\* The answers that say what is left of a membership.
Verdicts == {"gone", "still a member", "still an admin"}

Slot == [pc : {"idle", "check", "commit", "done"}, kind : AllKinds \cup {"none"}, owner : BOOLEAN,
         role : {Member, Owner, "none", "revoke", "delete", "reader", "writer", "read", "write"},
         key : Keys \cup {"none"}, answer : Answers]

Key == [state : {"unused", "live", "revoked", "gone"}, scope : {"read", "write"}, late : BOOLEAN]

Membership == [oidc : OrgRanks, local : OrgRanks]

\* The type of the tables and of the requests.
MembersTypeOK ==
  /\ mem \in Membership
  /\ site \in [oidc : BOOLEAN, local : BOOLEAN]
  /\ proj \in {"none", "reader", "writer"}
  /\ keys \in [Keys -> Key]
  /\ slot \in [Slots -> Slot]

\* What a handler carries from its check to its transaction is what the transaction takes.
SlotIsSound(c) == c.pc = "commit" =>
  /\ c.kind = "put org" => c.role \in {Member, Owner}
  /\ c.kind = "put project" => c.role \in {"reader", "writer"}
  /\ c.kind = "mint" => c.role \in {"read", "write"}
  /\ c.kind \in {"revoke", "purge"} => c.key \in Keys

SlotsAreSound == \A s \in Slots : SlotIsSound(slot[s])

\* Only a member has a project role.
RolesHangOffMembers == proj # "none" => IsMember(mem)

MembersInv == MembersTypeOK /\ SlotsAreSound /\ RolesHangOffMembers /\ KeysFollowTheRole

\* What the proof shows of every step.
HonestStep == MembersInv' /\ HalvesNeverTouch /\ RemovalsAreHonest

LEMMA RankFacts ==
  /\ OrgRanks \subseteq Nat /\ 0 \in OrgRanks /\ Member \in OrgRanks /\ Owner \in OrgRanks
  /\ Member > 0 /\ Owner > 0
  BY DEF OrgRanks, Member, Admin, Owner

LEMMA NoRequestType == NoRequest \in Slot /\ SlotIsSound(NoRequest) /\ NoRequest.pc = "idle"
  BY Zenon DEF NoRequest, Slot, Answers, AllKinds, SlotIsSound

LEMMA NoKeyType == NoKey \in Key /\ NoKey.state = "unused"
  BY Zenon DEF NoKey, Key

\* A handler's two assignments to its own record, one after the other.
LEMMA AnswerEffect ==
  ASSUME slot \in [Slots -> Slot], NEW s \in Slots, NEW a \in Answers, Answer(s, a)
  PROVE  /\ slot' \in [Slots -> Slot] /\ \A q \in Slots \ {s} : slot'[q] = slot[q]
         /\ slot'[s].pc = "done" /\ slot'[s].kind = slot[s].kind /\ slot'[s].answer = a
<1> DEFINE f == [slot EXCEPT ![s].pc = "done"]
<1>1. /\ f \in [Slots -> Slot] /\ \A q \in Slots \ {s} : f[q] = slot[q]
      /\ f[s].pc = "done" /\ f[s].kind = slot[s].kind
  BY DEF Slot
<1>2. slot' = [f EXCEPT ![s].answer = a]
  BY Zenon DEF Answer
<1> HIDE DEF f
<1>3. slot' \in [Slots -> Slot]
  BY ONLY <1>1, <1>2, s \in Slots, a \in Answers DEF Slot
<1>4. slot'[s].pc = "done" /\ slot'[s].kind = slot[s].kind /\ slot'[s].answer = a
  BY <1>1, <1>2 DEF Slot
<1> QED BY <1>1, <1>2, <1>3, <1>4

LEMMA ProceedEffect ==
  ASSUME slot \in [Slots -> Slot], NEW s \in Slots,
         NEW x \in {Member, Owner, "none", "revoke", "delete", "reader", "writer", "read", "write"},
         Proceed(s, x)
  PROVE  /\ slot' \in [Slots -> Slot] /\ \A q \in Slots \ {s} : slot'[q] = slot[q]
         /\ slot'[s].pc = "commit" /\ slot'[s].kind = slot[s].kind /\ slot'[s].role = x
         /\ slot'[s].answer = slot[s].answer
<1> DEFINE f == [slot EXCEPT ![s].pc = "commit"]
<1>1. /\ f \in [Slots -> Slot] /\ \A q \in Slots \ {s} : f[q] = slot[q]
      /\ f[s].pc = "commit" /\ f[s].kind = slot[s].kind /\ f[s].answer = slot[s].answer
  BY DEF Slot
<1>2. slot' = [f EXCEPT ![s].role = x]
  BY Zenon DEF Proceed
<1> HIDE DEF f
<1> QED BY <1>1, <1>2 DEF Slot

\* A step that writes no table and gives no verdict.
LEMMA QuietStep ==
  ASSUME MembersInv, NEW s \in Slots, UNCHANGED <<mem, site, proj, keys>>,
         slot' \in [Slots -> Slot], \A q \in Slots \ {s} : slot'[q] = slot[q],
         SlotIsSound(slot'[s]), slot'[s].answer = slot[s].answer \/ slot'[s].answer \notin Verdicts
  PROVE  HonestStep
<1>1. MembersTypeOK'
  BY Zenon DEF MembersInv, MembersTypeOK
<1>2. SlotsAreSound'
  BY DEF MembersInv, SlotsAreSound
<1>3. RolesHangOffMembers' /\ KeysFollowTheRole'
  BY Zenon DEF MembersInv, RolesHangOffMembers, KeysFollowTheRole
<1>4. HalvesNeverTouch
  BY Zenon DEF HalvesNeverTouch
<1>5. RemovalsAreHonest
  <2>1. DOMAIN slot = Slots
    BY DEF MembersInv, MembersTypeOK
  <2>2. \A q \in Slots : slot'[q].answer # slot[q].answer => slot'[q].answer \notin Verdicts
    BY Zenon
  <2> QED BY <2>1, <2>2, Zenon DEF RemovalsAreHonest, Verdicts
<1> QED BY <1>1, <1>2, <1>3, <1>4, <1>5 DEF HonestStep, MembersInv

LEMMA QuietAnswer ==
  ASSUME MembersInv, NEW s \in Slots, NEW a \in Answers \ Verdicts, Answer(s, a),
         UNCHANGED <<mem, site, proj, keys>>
  PROVE  HonestStep
<1>1. /\ slot' \in [Slots -> Slot] /\ \A q \in Slots \ {s} : slot'[q] = slot[q]
      /\ slot'[s].pc = "done" /\ slot'[s].answer = a
  BY AnswerEffect DEF MembersInv, MembersTypeOK
<1>2. SlotIsSound(slot'[s])
  BY <1>1 DEF SlotIsSound
<1> QED BY <1>1, <1>2, QuietStep

\* A handler goes on with what its check found.
LEMMA QuietProceed ==
  ASSUME MembersInv, NEW s \in Slots,
         NEW x \in {Member, Owner, "none", "revoke", "delete", "reader", "writer", "read", "write"},
         Proceed(s, x), UNCHANGED <<mem, site, proj, keys>>,
         slot[s].kind = "put org" => x \in {Member, Owner},
         slot[s].kind = "put project" => x \in {"reader", "writer"},
         slot[s].kind = "mint" => x \in {"read", "write"},
         slot[s].kind \notin {"revoke", "purge"}
  PROVE  HonestStep
<1>1. /\ slot' \in [Slots -> Slot] /\ \A q \in Slots \ {s} : slot'[q] = slot[q]
      /\ slot'[s].pc = "commit" /\ slot'[s].kind = slot[s].kind /\ slot'[s].role = x
      /\ slot'[s].answer = slot[s].answer
  BY ProceedEffect DEF MembersInv, MembersTypeOK
<1>2. SlotIsSound(slot'[s])
  BY <1>1 DEF SlotIsSound
<1> QED BY <1>1, <1>2, QuietStep

LEMMA StartStep ==
  ASSUME MembersInv, NEW s \in Slots, Start(s) PROVE HonestStep
<1> PICK kind \in Kinds, owner \in BOOLEAN :
      slot' = [slot EXCEPT ![s].pc = "check", ![s].kind = kind, ![s].owner = owner]
  BY DEF Start
<1> DEFINE f == [slot EXCEPT ![s].pc = "check"]
           g == [f EXCEPT ![s].kind = kind]
<1>1. /\ f \in [Slots -> Slot] /\ \A q \in Slots \ {s} : f[q] = slot[q]
      /\ f[s].pc = "check" /\ f[s].answer = slot[s].answer
  BY DEF MembersInv, MembersTypeOK, Slot
<1>2. slot' = [g EXCEPT ![s].owner = owner]
  BY Zenon
<1> HIDE DEF f
<1>3. /\ g \in [Slots -> Slot] /\ \A q \in Slots \ {s} : g[q] = slot[q]
      /\ g[s].pc = "check" /\ g[s].answer = slot[s].answer
  BY <1>1, MembersAssumption DEF Slot
<1> HIDE DEF g
<1>4. /\ slot' \in [Slots -> Slot] /\ \A q \in Slots \ {s} : slot'[q] = slot[q]
      /\ slot'[s].pc = "check" /\ slot'[s].answer = slot[s].answer
  BY ONLY <1>2, <1>3, s \in Slots, owner \in BOOLEAN DEF Slot
<1>5. SlotIsSound(slot'[s])
  BY <1>4 DEF SlotIsSound
<1>6. UNCHANGED <<mem, site, proj, keys>>
  BY DEF Start
<1> QED BY <1>4, <1>5, <1>6, QuietStep

LEMMA CheckStep ==
  ASSUME MembersInv, NEW s \in Slots,
         CheckPutOrgMember(s) \/ CheckDeleteOrgMember(s) \/ resolveOrgMember(s)
           \/ CheckDeleteSiteAdmin(s) \/ CheckCreateAPIKey(s)
  PROVE  HonestStep
<1>0. UNCHANGED <<mem, site, proj, keys>>
  BY DEF CheckPutOrgMember, CheckDeleteOrgMember, resolveOrgMember, CheckDeleteSiteAdmin, CheckCreateAPIKey
<1>1. \A a \in {"forbidden", "not found", "claim derived", "scope exceeds role"} : a \in Answers \ Verdicts
  BY DEF Answers, Verdicts
<1>2. CASE CheckPutOrgMember(s)
  <2>1. slot[s].kind = "put org"
    BY <1>2 DEF CheckPutOrgMember, At
  <2>2. PICK x \in {Member, Owner} : Proceed(s, x) \/ Answer(s, "forbidden")
    BY <1>2, Zenon DEF CheckPutOrgMember
  <2> QED BY <1>0, <1>1, <2>1, <2>2, QuietAnswer, QuietProceed
<1>3. CASE CheckDeleteOrgMember(s)
  <2>1. slot[s].kind = "delete org"
    BY <1>3 DEF CheckDeleteOrgMember, At
  <2>2. \/ \E a \in {"forbidden", "not found", "claim derived"} : Answer(s, a)
        \/ \E x \in {"revoke", "delete"} : Proceed(s, x)
    BY <1>3, Zenon DEF CheckDeleteOrgMember
  <2> QED BY <1>0, <1>1, <2>1, <2>2, QuietAnswer, QuietProceed
<1>4. CASE resolveOrgMember(s)
  <2>1. slot[s].kind \in {"put project", "delete project"}
    BY <1>4 DEF resolveOrgMember
  <2>2. Answer(s, "not found") \/ \E x \in {"reader", "writer"} : Proceed(s, x)
    BY <1>4, Zenon DEF resolveOrgMember
  <2> QED BY <1>0, <1>1, <2>1, <2>2, QuietAnswer, QuietProceed
<1>5. CASE CheckDeleteSiteAdmin(s)
  <2>1. slot[s].kind = "delete site"
    BY <1>5 DEF CheckDeleteSiteAdmin, At
  <2>2. Proceed(s, "revoke") \/ \E a \in {"claim derived", "not found"} : Answer(s, a)
    BY <1>5, Zenon DEF CheckDeleteSiteAdmin
  <2> QED BY <1>0, <1>1, <2>1, <2>2, QuietAnswer, QuietProceed
<1>6. CASE CheckCreateAPIKey(s)
  <2>1. slot[s].kind = "mint"
    BY <1>6 DEF CheckCreateAPIKey, At
  <2>2. Answer(s, "scope exceeds role") \/ \E x \in {"read", "write"} : Proceed(s, x)
    BY <1>6, Zenon DEF CheckCreateAPIKey
  <2> QED BY <1>0, <1>1, <2>1, <2>2, QuietAnswer, QuietProceed
<1> QED BY <1>2, <1>3, <1>4, <1>5, <1>6

LEMMA CheckKeyStep ==
  ASSUME MembersInv, NEW s \in Slots, CheckRevokeKey(s) PROVE HonestStep
<1>0. UNCHANGED <<mem, site, proj, keys>> /\ slot[s].kind \in {"revoke", "purge"} /\ slot \in [Slots -> Slot]
  BY DEF CheckRevokeKey, MembersInv, MembersTypeOK
<1>1. PICK k \in Keys : \/ \E a \in {"not found", "not revoked"} : Answer(s, a)
                        \/ slot' = [slot EXCEPT ![s].pc = "commit", ![s].key = k]
  BY Zenon DEF CheckRevokeKey
<1>2. CASE \E a \in {"not found", "not revoked"} : Answer(s, a)
  <2>1. {"not found", "not revoked"} \subseteq Answers \ Verdicts
    BY DEF Answers, Verdicts
  <2> QED BY <1>0, <1>2, <2>1, QuietAnswer
<1>3. CASE slot' = [slot EXCEPT ![s].pc = "commit", ![s].key = k]
  <2> DEFINE f == [slot EXCEPT ![s].pc = "commit"]
  <2>1. /\ f \in [Slots -> Slot] /\ \A q \in Slots \ {s} : f[q] = slot[q]
        /\ f[s].pc = "commit" /\ f[s].kind = slot[s].kind /\ f[s].answer = slot[s].answer
    BY <1>0 DEF Slot
  <2>2. slot' = [f EXCEPT ![s].key = k]
    BY <1>3, Zenon
  <2> HIDE DEF f
  <2>3. /\ slot' \in [Slots -> Slot] /\ \A q \in Slots \ {s} : slot'[q] = slot[q]
        /\ slot'[s].pc = "commit" /\ slot'[s].kind = slot[s].kind /\ slot'[s].answer = slot[s].answer
        /\ slot'[s].key = k
    BY ONLY <2>1, <2>2, s \in Slots, k \in Keys DEF Slot
  <2>4. SlotIsSound(slot'[s])
    BY <1>0, <2>3 DEF SlotIsSound
  <2> QED BY <1>0, <2>3, <2>4, QuietStep
<1> QED BY <1>1, <1>2, <1>3

\* A membership that is written, with the cascade.
LEMMA WriteMembershipEffect ==
  ASSUME MembersInv, NEW m \in Membership, WriteMembership(m)
  PROVE  /\ mem' = m
         /\ mem' \in Membership /\ proj' \in {"none", "reader", "writer"} /\ keys' \in [Keys -> Key]
         /\ RolesHangOffMembers' /\ KeysFollowTheRole'
         /\ ~IsMember(m) => proj' = "none" /\ \A k \in Keys : keys'[k].state # "live"
         /\ IsMember(m) => proj' = proj /\ keys' = keys
<1>1. mem' = m /\ DOMAIN keys = Keys /\ keys \in [Keys -> Key] /\ proj \in {"none", "reader", "writer"}
  BY DEF WriteMembership, MembersInv, MembersTypeOK
<1>2. CASE IsMember(m)
  <2>1. proj' = proj /\ keys' = keys
    BY <1>2 DEF WriteMembership
  <2> QED BY <1>1, <1>2, <2>1 DEF MembersInv, RolesHangOffMembers, KeysFollowTheRole
<1>3. CASE ~IsMember(m)
  <2>1. /\ proj' = "none"
        /\ keys' = [k \in Keys |-> IF keys[k].state = "unused" THEN keys[k]
                                   ELSE [keys[k] EXCEPT !.state = "gone"]]
    BY <1>3, Zenon DEF WriteMembership
  <2>2. keys' \in [Keys -> Key] /\ \A k \in Keys : keys'[k].state # "live"
    BY <1>1, <2>1 DEF Key
  <2>3. DOMAIN keys' = Keys
    BY <2>2
  <2> QED BY <1>1, <1>3, <2>1, <2>2, <2>3 DEF RolesHangOffMembers, KeysFollowTheRole
<1> QED BY <1>2, <1>3

\* A transaction of the API that answers: what is left to show is about the tables.
LEMMA AnswerStep ==
  ASSUME MembersInv, NEW s \in Slots, NEW a \in Answers, Answer(s, a), slot[s].pc # "done",
         mem' \in Membership, site' \in [oidc : BOOLEAN, local : BOOLEAN],
         proj' \in {"none", "reader", "writer"}, keys' \in [Keys -> Key],
         RolesHangOffMembers', KeysFollowTheRole',
         mem'.oidc = mem.oidc, site'.oidc = site.oidc,
         slot[s].kind = "delete org" /\ a = "gone" =>
            ~IsMember(mem') /\ proj' = "none" /\ \A k \in Keys : keys'[k].state # "live",
         a = "still a member" => IsMember(mem'),
         slot[s].kind = "delete site" /\ a = "gone" => ~SiteAdmin(site'),
         a = "still an admin" => SiteAdmin(site')
  PROVE  HonestStep
<1>1. /\ slot' \in [Slots -> Slot] /\ \A q \in Slots \ {s} : slot'[q] = slot[q]
      /\ slot'[s].pc = "done" /\ slot'[s].kind = slot[s].kind /\ slot'[s].answer = a
  BY AnswerEffect DEF MembersInv, MembersTypeOK
<1>2. MembersTypeOK'
  BY <1>1 DEF MembersTypeOK
<1>3. SlotsAreSound'
  BY <1>1 DEF MembersInv, SlotsAreSound, SlotIsSound
<1>4. HalvesNeverTouch
  <2>1. slot' # slot
    BY <1>1
  <2> QED BY <2>1, Zenon DEF HalvesNeverTouch
<1>5. RemovalsAreHonest
  <2>1. DOMAIN slot = Slots /\ DOMAIN keys = Keys
    BY DEF MembersInv, MembersTypeOK
  <2>2. \A q \in Slots : slot'[q].answer # slot[q].answer => q = s
    BY <1>1, Zenon
  <2> QED BY <1>1, <2>1, <2>2, Zenon DEF RemovalsAreHonest
<1> QED BY <1>2, <1>3, <1>4, <1>5 DEF HonestStep, MembersInv

LEMMA PutOrgStep ==
  ASSUME MembersInv, NEW s \in Slots, CommitPutOrgMember(s) PROVE HonestStep
<1> DEFINE m == [mem EXCEPT !.local = slot[s].role]
<1>1. slot[s].pc = "commit" /\ slot[s].kind = "put org" /\ slot[s].role \in {Member, Owner}
  BY DEF CommitPutOrgMember, At, MembersInv, SlotsAreSound, SlotIsSound
<1>2. m \in Membership /\ m.oidc = mem.oidc
  BY <1>1, RankFacts DEF MembersInv, MembersTypeOK, Membership
<1>3. WriteMembership(m) /\ Answer(s, "ok") /\ site' = site
  BY DEF CommitPutOrgMember
<1> HIDE DEF m
<1>4. "ok" \in Answers
  BY DEF Answers
<1>5. site' \in [oidc : BOOLEAN, local : BOOLEAN] /\ site'.oidc = site.oidc
  BY <1>3, Zenon DEF MembersInv, MembersTypeOK
<1> QED BY <1>1, <1>2, <1>3, <1>4, <1>5, WriteMembershipEffect, AnswerStep

\* Clearing the local half.
LEMMA ClearedLocal ==
  ASSUME MembersInv
  PROVE  /\ [mem EXCEPT !.local = 0] \in Membership
         /\ [mem EXCEPT !.local = 0].oidc = mem.oidc
         /\ IsMember([mem EXCEPT !.local = 0]) <=> mem.oidc > 0
<1>1. [mem EXCEPT !.local = 0] \in Membership
  BY RankFacts DEF MembersInv, MembersTypeOK, Membership
<1>2. [mem EXCEPT !.local = 0].oidc = mem.oidc /\ [mem EXCEPT !.local = 0].local = 0 /\ mem.oidc \in Nat
  BY RankFacts DEF MembersInv, MembersTypeOK, Membership
<1> QED BY <1>1, <1>2 DEF IsMember, Role

LEMMA DeleteOrgStep ==
  ASSUME MembersInv, NEW s \in Slots, RevokeLocal(s) \/ DeleteLocal(s) PROVE HonestStep
<1> DEFINE m == [mem EXCEPT !.local = 0]
<1>1. slot[s].pc = "commit" /\ slot[s].kind = "delete org" /\ site' = site
  BY DEF RevokeLocal, DeleteLocal, At
<1>2. /\ m \in Membership /\ m.oidc = mem.oidc /\ (IsMember(m) <=> mem.oidc > 0)
      /\ mem.oidc \in Nat
  BY ClearedLocal, RankFacts DEF MembersInv, MembersTypeOK, Membership
<1>3. site' \in [oidc : BOOLEAN, local : BOOLEAN] /\ site'.oidc = site.oidc
  BY <1>1, Zenon DEF MembersInv, MembersTypeOK
<1>4. {"still a member", "gone", "error", "conflict"} \subseteq Answers
      /\ {"error", "conflict"} \subseteq Answers \ Verdicts
  BY DEF Answers, Verdicts
<1>5. \/ mem.oidc > 0 /\ WriteMembership(m) /\ Answer(s, "still a member")
      \/ mem.oidc = 0 /\ WriteMembership(m) /\ Answer(s, "gone")
      \/ UNCHANGED <<mem, proj, keys>> /\ \E a \in {"error", "conflict"} : Answer(s, a)
  BY Zenon DEF RevokeLocal, DeleteLocal
<1> HIDE DEF m
<1>6. CASE mem.oidc > 0 /\ WriteMembership(m) /\ Answer(s, "still a member")
  BY <1>1, <1>2, <1>3, <1>4, <1>6, WriteMembershipEffect, AnswerStep
<1>7. CASE mem.oidc = 0 /\ WriteMembership(m) /\ Answer(s, "gone")
  <2>1. ~IsMember(m)
    BY <1>2, <1>7
  <2> QED BY <1>1, <1>2, <1>3, <1>4, <1>7, <2>1, WriteMembershipEffect, AnswerStep
<1>8. CASE UNCHANGED <<mem, proj, keys>> /\ \E a \in {"error", "conflict"} : Answer(s, a)
  BY <1>1, <1>4, <1>8, QuietAnswer
<1> QED BY <1>5, <1>6, <1>7, <1>8

\* No key outlives the role it hangs off.
LEMMA DropKeys ==
  ASSUME MembersInv,
         keys' = [k \in Keys |-> IF keys[k].state = "unused" THEN keys[k]
                                 ELSE [keys[k] EXCEPT !.state = "gone"]]
  PROVE  keys' \in [Keys -> Key] /\ KeysFollowTheRole'
<1>1. keys' \in [Keys -> Key] /\ \A k \in Keys : keys'[k].state # "live"
  BY DEF Key, MembersInv, MembersTypeOK
<1>2. DOMAIN keys' = Keys
  BY <1>1
<1> QED BY <1>1, <1>2 DEF KeysFollowTheRole

LEMMA PutProjectStep ==
  ASSUME MembersInv, NEW s \in Slots, CommitPutProjectMember(s) PROVE HonestStep
<1> DEFINE x == slot[s].role
<1>1. slot[s].pc = "commit" /\ slot[s].kind = "put project" /\ x \in {"reader", "writer"}
      /\ mem' = mem /\ site' = site
  BY DEF CommitPutProjectMember, At, MembersInv, SlotsAreSound, SlotIsSound
<1>2. /\ mem' \in Membership /\ mem'.oidc = mem.oidc
      /\ site' \in [oidc : BOOLEAN, local : BOOLEAN] /\ site'.oidc = site.oidc
  BY <1>1, Zenon DEF MembersInv, MembersTypeOK
<1>3. "ok" \in Answers /\ "error" \in Answers \ Verdicts
  BY DEF Answers, Verdicts
<1>4. CASE IsMember(mem)
  <2>1. /\ proj' = x /\ Answer(s, "ok")
        /\ keys' = [k \in Keys |->
             IF keys[k].state = "live" /\ keys[k].scope \in scopesExceedingRole(x)
             THEN [keys[k] EXCEPT !.state = "revoked"] ELSE keys[k]]
    BY <1>4, Zenon DEF CommitPutProjectMember
  <2> HIDE DEF x
  <2>2. keys' \in [Keys -> Key]
        /\ \A k \in Keys : keys'[k].state = "live" =>
             keys'[k] = keys[k] /\ keys[k].scope \notin scopesExceedingRole(x)
    BY <2>1 DEF Key, MembersInv, MembersTypeOK
  <2>3. \A k \in Keys : keys[k].scope \in {"read", "write"}
    BY DEF Key, MembersInv, MembersTypeOK
  <2>4. \A k \in Keys : keys'[k].state = "live" => ScopeWithinRole(keys'[k].scope, x)
    BY <2>2, <2>3 DEF scopesExceedingRole
  <2>5. DOMAIN keys' = Keys /\ proj' # "none" /\ proj' \in {"none", "reader", "writer"}
    BY <1>1, <2>1, <2>2
  <2>6. RolesHangOffMembers' /\ KeysFollowTheRole'
    BY <1>1, <1>4, <2>1, <2>4, <2>5, Zenon DEF RolesHangOffMembers, KeysFollowTheRole
  <2> QED BY <1>1, <1>2, <1>3, <2>1, <2>2, <2>5, <2>6, AnswerStep
<1>5. CASE ~IsMember(mem)
  <2>1. UNCHANGED <<proj, keys>> /\ Answer(s, "error")
    BY <1>5, Zenon DEF CommitPutProjectMember
  <2> QED BY <1>1, <1>3, <2>1, QuietAnswer
<1> QED BY <1>4, <1>5

LEMMA DeleteProjectStep ==
  ASSUME MembersInv, NEW s \in Slots, CommitDeleteProjectMember(s) PROVE HonestStep
<1>1. slot[s].pc = "commit" /\ slot[s].kind = "delete project" /\ mem' = mem /\ site' = site /\ proj' = "none"
  BY DEF CommitDeleteProjectMember, At
<1>2. /\ mem' \in Membership /\ mem'.oidc = mem.oidc
      /\ site' \in [oidc : BOOLEAN, local : BOOLEAN] /\ site'.oidc = site.oidc
  BY <1>1, Zenon DEF MembersInv, MembersTypeOK
<1>3. keys' \in [Keys -> Key] /\ KeysFollowTheRole'
  BY DropKeys DEF CommitDeleteProjectMember
<1>4. PICK a \in {"not found", "ok"} : Answer(s, a)
  BY Zenon DEF CommitDeleteProjectMember
<1>5. a \in Answers
  BY DEF Answers
<1>6. RolesHangOffMembers'
  BY <1>1 DEF RolesHangOffMembers
<1> QED BY <1>1, <1>2, <1>3, <1>4, <1>5, <1>6, AnswerStep

LEMMA SiteStep ==
  ASSUME MembersInv, NEW s \in Slots, PutSiteAdmin(s) \/ CommitDeleteSiteAdmin(s) PROVE HonestStep
<1>1. slot[s].pc # "done" /\ mem' = mem /\ proj' = proj /\ keys' = keys
  BY DEF PutSiteAdmin, CommitDeleteSiteAdmin, At
<1>2. /\ mem' \in Membership /\ mem'.oidc = mem.oidc /\ proj' \in {"none", "reader", "writer"}
      /\ keys' \in [Keys -> Key] /\ RolesHangOffMembers' /\ KeysFollowTheRole'
  BY <1>1, Zenon DEF MembersInv, MembersTypeOK, RolesHangOffMembers, KeysFollowTheRole
<1>3. {"ok", "forbidden", "conflict", "still an admin", "gone"} \subseteq Answers
  BY DEF Answers
<1>4. site \in [oidc : BOOLEAN, local : BOOLEAN]
  BY DEF MembersInv, MembersTypeOK
<1>5. CASE PutSiteAdmin(s)
  <2>1. \/ site' = [site EXCEPT !.local = TRUE] /\ Answer(s, "ok")
        \/ site' = site /\ Answer(s, "forbidden")
    BY <1>5, Zenon DEF PutSiteAdmin
  <2>2. site' \in [oidc : BOOLEAN, local : BOOLEAN] /\ site'.oidc = site.oidc
    BY <1>4, <2>1
  <2> QED BY <1>1, <1>2, <1>3, <2>1, <2>2, AnswerStep
<1>6. CASE CommitDeleteSiteAdmin(s)
  <2>1. site' = [site EXCEPT !.local = FALSE] /\ slot[s].kind = "delete site"
    BY <1>6 DEF CommitDeleteSiteAdmin, At
  <2>2. site' \in [oidc : BOOLEAN, local : BOOLEAN] /\ site'.oidc = site.oidc /\ ~site'.local
    BY <1>4, <2>1
  <2>3. SiteAdmin(site') <=> site.oidc
    BY <2>2, Zenon DEF SiteAdmin
  <2>4. \/ Answer(s, "conflict")
        \/ site.oidc /\ Answer(s, "still an admin")
        \/ ~site.oidc /\ Answer(s, "gone")
    <3> DEFINE a == IF ~site.local THEN "conflict" ELSE IF site.oidc THEN "still an admin" ELSE "gone"
    <3>1. Answer(s, a)
      BY <1>6 DEF CommitDeleteSiteAdmin
    <3>2. a = "conflict" \/ (site.oidc /\ a = "still an admin") \/ (~site.oidc /\ a = "gone")
      OBVIOUS
    <3> HIDE DEF a
    <3> QED BY <3>1, <3>2
  <2>5. CASE Answer(s, "conflict")
    BY <1>1, <1>2, <1>3, <2>2, <2>5, AnswerStep
  <2>6. CASE site.oidc /\ Answer(s, "still an admin")
    BY <1>1, <1>2, <1>3, <2>2, <2>3, <2>6, AnswerStep
  <2>7. CASE ~site.oidc /\ Answer(s, "gone")
    <3>1. slot[s].kind # "delete org" /\ ~SiteAdmin(site')
      BY <2>1, <2>3, <2>7
    <3> QED BY <1>1, <1>2, <1>3, <2>2, <2>7, <3>1, AnswerStep
  <2> QED BY <2>4, <2>5, <2>6, <2>7
<1> QED BY <1>5, <1>6

LEMMA CreateKeyStep ==
  ASSUME MembersInv, NEW s \in Slots, CreateAPIKey(s) PROVE HonestStep
<1> DEFINE x == slot[s].role
<1>1. slot[s].pc = "commit" /\ slot[s].kind = "mint" /\ x \in {"read", "write"}
      /\ mem' = mem /\ site' = site /\ proj' = proj
  BY DEF CreateAPIKey, At, MembersInv, SlotsAreSound, SlotIsSound
<1>2. /\ mem' \in Membership /\ mem'.oidc = mem.oidc /\ proj' \in {"none", "reader", "writer"}
      /\ site' \in [oidc : BOOLEAN, local : BOOLEAN] /\ site'.oidc = site.oidc /\ RolesHangOffMembers'
  BY <1>1, Zenon DEF MembersInv, MembersTypeOK, RolesHangOffMembers
<1>3. "ok" \in Answers /\ "error" \in Answers \ Verdicts
  BY DEF Answers, Verdicts
<1>4. CASE proj = "none"
  <2>1. UNCHANGED keys /\ Answer(s, "error")
    BY <1>4, Zenon DEF CreateAPIKey
  <2> QED BY <1>1, <1>3, <2>1, QuietAnswer
<1>5. CASE proj # "none"
  <2> DEFINE l == ~ScopeWithinRole(x, proj)
             n == [state |-> "live", scope |-> x, late |-> l]
  <2>0. Answer(s, "ok")
    BY <1>5, Zenon DEF CreateAPIKey
  <2>1. PICK k \in Keys : keys' = [keys EXCEPT ![k] = n]
    BY <1>5, Zenon DEF CreateAPIKey
  <2>2. n \in Key /\ (ScopeWithinRole(n.scope, proj) \/ n.late)
    <3>1. l \in BOOLEAN /\ (ScopeWithinRole(x, proj) \/ l)
      BY DEF ScopeWithinRole
    <3> HIDE DEF l, x
    <3>2. n \in Key
      BY <1>1, <3>1, Zenon DEF Key
    <3> QED BY <3>1, <3>2, Zenon
  <2> HIDE DEF n
  <2>3. keys' \in [Keys -> Key] /\ keys'[k] = n /\ \A j \in Keys \ {k} : keys'[j] = keys[j]
    BY <2>1, <2>2 DEF MembersInv, MembersTypeOK
  <2>4. DOMAIN keys' = Keys /\ DOMAIN keys = Keys
    BY <2>3 DEF MembersInv, MembersTypeOK
  <2>5. IsMember(mem)
    BY <1>5 DEF MembersInv, RolesHangOffMembers
  <2>6. KeysFollowTheRole'
    BY <1>1, <1>5, <2>2, <2>3, <2>4, <2>5, Zenon DEF MembersInv, KeysFollowTheRole
  <2> HIDE DEF x
  <2> QED BY <1>1, <1>2, <1>3, <2>0, <2>3, <2>6, AnswerStep
<1> QED BY <1>4, <1>5

LEMMA RevokeKeyStep ==
  ASSUME MembersInv, NEW s \in Slots, CommitRevokeKey(s) PROVE HonestStep
<1> DEFINE k == slot[s].key
<1>1. slot[s].pc = "commit" /\ slot[s].kind \in {"revoke", "purge"} /\ k \in Keys
      /\ mem' = mem /\ site' = site /\ proj' = proj /\ Answer(s, "ok")
  BY DEF CommitRevokeKey, MembersInv, SlotsAreSound, SlotIsSound
<1>2. /\ mem' \in Membership /\ mem'.oidc = mem.oidc /\ proj' \in {"none", "reader", "writer"}
      /\ site' \in [oidc : BOOLEAN, local : BOOLEAN] /\ site'.oidc = site.oidc /\ RolesHangOffMembers'
  BY <1>1, Zenon DEF MembersInv, MembersTypeOK, RolesHangOffMembers
<1>3. "ok" \in Answers
  BY DEF Answers
<1> DEFINE st == CASE slot[s].kind = "revoke" /\ keys[k].state = "live" -> "revoked"
                   [] slot[s].kind = "purge" /\ keys[k].state = "revoked" -> "gone"
                   [] OTHER -> keys[k].state
<1>4. keys' = [keys EXCEPT ![k].state = st] /\ keys \in [Keys -> Key]
  BY DEF CommitRevokeKey, MembersInv, MembersTypeOK
<1>5. st \in {keys[k].state, "revoked", "gone"}
  BY <1>1
<1> HIDE DEF st, k
<1>6. keys' \in [Keys -> Key] /\ \A j \in Keys : keys'[j].state = "live" => keys'[j] = keys[j]
  BY <1>1, <1>4, <1>5 DEF Key
<1>7. DOMAIN keys' = Keys /\ DOMAIN keys = Keys
  BY <1>4, <1>6
<1>8. KeysFollowTheRole'
  BY <1>1, <1>6, <1>7, Zenon DEF MembersInv, KeysFollowTheRole
<1> QED BY <1>1, <1>2, <1>3, <1>6, <1>8, AnswerStep

\* A login writes the claim half and no other.
LEMMA ReconcileStep ==
  ASSUME MembersInv, Reconcile PROVE HonestStep
<1>1. PICK c \in Claims, adm \in BOOLEAN :
        WriteMembership([mem EXCEPT !.oidc = c]) /\ site' = [site EXCEPT !.oidc = adm]
  BY DEF Reconcile
<1> DEFINE m == [mem EXCEPT !.oidc = c]
<1>2. m \in Membership /\ m.local = mem.local /\ m.oidc \in Nat /\ mem.local \in Nat
  BY MembersAssumption, RankFacts DEF MembersInv, MembersTypeOK, Membership
<1>3. WriteMembership(m)
  BY <1>1
<1> HIDE DEF m
<1>4. site' \in [oidc : BOOLEAN, local : BOOLEAN] /\ site'.local = site.local
  BY <1>1 DEF MembersInv, MembersTypeOK
<1>5. slot' = slot
  BY DEF Reconcile
<1>6. /\ mem' = m /\ proj' \in {"none", "reader", "writer"} /\ keys' \in [Keys -> Key]
      /\ RolesHangOffMembers' /\ KeysFollowTheRole'
      /\ IsMember(m) => proj' = proj /\ keys' = keys
  BY <1>2, <1>3, WriteMembershipEffect
<1>7. MembersInv'
  BY <1>2, <1>4, <1>5, <1>6 DEF MembersInv, MembersTypeOK, SlotsAreSound
<1>8. mem.local > 0 => IsMember(m)
  BY <1>2 DEF IsMember, Role
<1>9. HalvesNeverTouch
  BY <1>2, <1>4, <1>5, <1>6, <1>8, Zenon DEF HalvesNeverTouch
<1>10. RemovalsAreHonest
  BY <1>5, Zenon DEF RemovalsAreHonest
<1> QED BY <1>7, <1>9, <1>10 DEF HonestStep

LEMMA MembersInitially == MembersInit => MembersInv
<1> SUFFICES ASSUME MembersInit PROVE MembersInv OBVIOUS
<1>1. mem \in Membership
  BY MembersAssumption, RankFacts DEF MembersInit, Membership
<1>2. keys \in [Keys -> Key] /\ \A k \in Keys : keys[k].state = "unused"
  BY NoKeyType DEF MembersInit
<1>3. slot \in [Slots -> Slot] /\ \A s \in Slots : SlotIsSound(slot[s])
  BY NoRequestType DEF MembersInit
<1>4. site \in [oidc : BOOLEAN, local : BOOLEAN] /\ proj = "none"
  BY Zenon DEF MembersInit
<1>5. KeysFollowTheRole
  BY <1>2 DEF KeysFollowTheRole
<1> QED BY <1>1, <1>2, <1>3, <1>4, <1>5 DEF MembersInv, MembersTypeOK, SlotsAreSound, RolesHangOffMembers

LEMMA MembersStep == MembersInv /\ [MembersNext]_membersVars => HonestStep
<1> SUFFICES ASSUME MembersInv, [MembersNext]_membersVars PROVE HonestStep
  OBVIOUS
<1>1. CASE UNCHANGED membersVars
  <2>1. MembersInv'
    BY <1>1, Zenon DEF membersVars, MembersInv, MembersTypeOK, SlotsAreSound, RolesHangOffMembers,
       KeysFollowTheRole
  <2>2. HalvesNeverTouch /\ RemovalsAreHonest
    BY <1>1, Zenon DEF membersVars, HalvesNeverTouch, RemovalsAreHonest
  <2> QED BY <2>1, <2>2 DEF HonestStep
<1>2. CASE Reconcile
  BY <1>2, ReconcileStep
<1>3. ASSUME NEW s \in Slots, Request(s) PROVE HonestStep
  BY <1>3, StartStep, CheckStep, CheckKeyStep, PutOrgStep, DeleteOrgStep, PutProjectStep,
     DeleteProjectStep, SiteStep, CreateKeyStep, RevokeKeyStep, Zenon DEF Request
<1> QED BY <1>1, <1>2, <1>3, Zenon DEF MembersNext

LEMMA MembersAlways == MembersSpec => []MembersInv
<1>1. MembersInv /\ [MembersNext]_membersVars => MembersInv'
  BY MembersStep DEF HonestStep
<1> QED BY <1>1, MembersInitially, PTL DEF MembersSpec

\* In every behaviour of the members API and the logins, with any number of requests and
\* keys, a live key hangs off a member's role, and writes only if the role does or was
\* lowered while the key was being minted (members.go: handlePutProjectMember; service.go:
\* CreateAPIKey).
THEOREM KeysAlwaysFollowTheRole == MembersSpec => []KeysFollowTheRole
<1>1. MembersInv => KeysFollowTheRole
  BY DEF MembersInv
<1> QED BY <1>1, MembersAlways, PTL

\* No login writes a local grant, no request writes a claim, and every removal answers
\* what it left (reconcile.go: Reconcile; members.go: handleDeleteOrgMember; siteadmins.go:
\* handleDeleteSiteAdmin).
THEOREM MembershipsStayHonest == MembersSpec => MembershipsAreHonest
<1>1. MembersInv /\ [MembersNext]_membersVars => [HalvesNeverTouch /\ RemovalsAreHonest]_membersVars
  BY MembersStep DEF HonestStep
<1> QED BY <1>1, MembersAlways, PTL DEF MembersSpec, MembershipsAreHonest

=============================================================================
