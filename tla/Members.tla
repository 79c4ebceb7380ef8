------------------------------ MODULE Members ------------------------------
(* The authority plane (internal/api: members.go, siteadmins.go, keys.go;   *)
(* internal/auth: reconcile.go, service.go): what a login and the members   *)
(* API do to one user's place in one organization and one project.  A       *)
(* membership has two halves, one written by logins (the identity           *)
(* provider's claim) and one by the API (a local grant); its role is the    *)
(* greater.  A project role hangs off the membership and API keys off the   *)
(* project role, by foreign keys that cascade.                              *)
(* Every transaction opens with the user's row lock (AuthzLocks), so its    *)
(* writes are one step; what a handler reads before its transaction is a    *)
(* step of its own.                                                         *)
EXTENDS Integers, FiniteSets

CONSTANTS
  Slots,      \* requests to the API, each served once
  Keys,       \* ids of the API keys that may be minted
  Kinds,      \* the requests a run makes, of AllKinds
  Claims,     \* the org roles an identity provider may claim, of OrgRanks
  AllowLocalSiteAdmins

AllKinds == {"put org", "delete org", "put project", "delete project",
             "put site", "delete site", "mint", "revoke", "purge"}

(* Org roles by rank; 0 is NULL. *)
Member == 1
Admin  == 2
Owner  == 3
OrgRanks == {0, Member, Admin, Owner}

ASSUME MembersAssumption == Kinds \subseteq AllKinds /\ Claims \subseteq OrgRanks

VARIABLES
  mem,     \* org_memberships: oidc_role and local_role; no row when both are NULL
  site,    \* users: site_role_oidc and site_role_local
  proj,    \* project_memberships: the role, "none" without a row
  keys,    \* api_keys: state, scope and (history) minted past its role
  slot     \* the requests

membersVars == <<mem, site, proj, keys, slot>>

Role(m)     == IF m.oidc > m.local THEN m.oidc ELSE m.local
IsMember(m) == Role(m) > 0
SiteAdmin(s) == s.oidc \/ s.local

NoKey == [state |-> "unused", scope |-> "read", late |-> FALSE]
NoRequest == [pc |-> "idle", kind |-> "none", owner |-> FALSE, role |-> "none",
              key |-> "none", answer |-> "none"]

MembersInit ==
  /\ mem \in [oidc : Claims, local : {0, Member}]
  /\ site = [oidc |-> FALSE, local |-> FALSE]
  /\ proj = "none"
  /\ keys = [k \in Keys |-> NoKey]
  /\ slot = [s \in Slots |-> NoRequest]

MaxScopeForRole(r) == IF r \in {"writer", "admin"} THEN "write" ELSE "read"

ScopeWithinRole(sc, r) == sc = "read" \/ MaxScopeForRole(r) = "write"

scopesExceedingRole(r) == {sc \in {"read", "write"} : ~ScopeWithinRole(sc, r)}

(* The foreign keys' cascade: a membership that goes takes the project role *)
(* and every key with it.                                                   *)
WriteMembership(m) ==
  /\ mem' = m
  /\ IF IsMember(m) THEN UNCHANGED <<proj, keys>>
     ELSE /\ proj' = "none"
          /\ keys' = [k \in Keys |-> IF keys[k].state = "unused" THEN keys[k] ELSE [keys[k] EXCEPT !.state = "gone"]]

-----------------------------------------------------------------------------
(* A login.  An unreadable claim or a user outside the login groups is      *)
(* refused before the first write, so only an admitted one is a step.       *)

Reconcile_Blind ==
  /\ \E c \in Claims, adm \in BOOLEAN :
       /\ WriteMembership(IF c = 0 THEN [oidc |-> 0, local |-> 0] ELSE [mem EXCEPT !.oidc = c])
       /\ site' = [site EXCEPT !.oidc = adm]
  /\ UNCHANGED slot

(* UpsertUser writes the claim half of the site role; the membership upsert *)
(* writes the claim half of a claimed org; of an unclaimed one, a row with  *)
(* no local grant is deleted and a row with one has its claim half cleared. *)
Reconcile ==
  /\ \E c \in Claims, adm \in BOOLEAN :
       /\ WriteMembership([mem EXCEPT !.oidc = c])
       /\ site' = [site EXCEPT !.oidc = adm]
  /\ UNCHANGED slot

-----------------------------------------------------------------------------
(* Requests to the API. *)

Start(s) ==
  /\ slot[s].pc = "idle"
  /\ \E kind \in Kinds, owner \in BOOLEAN :
       slot' = [slot EXCEPT ![s].pc = "check", ![s].kind = kind, ![s].owner = owner]
  /\ UNCHANGED <<mem, site, proj, keys>>

At(s, pc, kind) == slot[s].pc = pc /\ slot[s].kind = kind

Answer(s, a) == slot' = [slot EXCEPT ![s].pc = "done", ![s].answer = a]

Proceed(s, r) == slot' = [slot EXCEPT ![s].pc = "commit", ![s].role = r]

requireAuthorityOverTarget(s) == Role(mem) = Owner => slot[s].owner

(* PUT /orgs/{org}/members/{user}: only an owner grants owner, or writes    *)
(* over one.                                                                *)
CheckPutOrgMember(s) ==
  /\ At(s, "check", "put org")
  /\ \E r \in {Member, Owner} :
       IF (r = Owner => slot[s].owner) /\ requireAuthorityOverTarget(s)
       THEN Proceed(s, r) ELSE Answer(s, "forbidden")
  /\ UNCHANGED <<mem, site, proj, keys>>

CommitPutOrgMember(s) ==
  /\ At(s, "commit", "put org")
  /\ WriteMembership([mem EXCEPT !.local = slot[s].role])
  /\ Answer(s, "ok")
  /\ UNCHANGED site

(* DELETE of an org member: what is there decides which of two statements   *)
(* will run.                                                                *)
CheckDeleteOrgMember(s) ==
  /\ At(s, "check", "delete org")
  /\ IF ~IsMember(mem) THEN Answer(s, "not found")
     ELSE IF ~requireAuthorityOverTarget(s) THEN Answer(s, "forbidden")
     ELSE IF mem.local = 0 THEN Answer(s, "claim derived")
     ELSE Proceed(s, IF mem.oidc > 0 THEN "revoke" ELSE "delete")
  /\ UNCHANGED <<mem, site, proj, keys>>

RevokeLocal(s) ==
  /\ At(s, "commit", "delete org") /\ slot[s].role = "revoke"
  /\ IF mem.oidc > 0
     THEN WriteMembership([mem EXCEPT !.local = 0]) /\ Answer(s, "still a member")
     ELSE UNCHANGED <<mem, proj, keys>> /\ Answer(s, "error")
  /\ UNCHANGED site

DeleteLocal_Unguarded(s) ==
  /\ At(s, "commit", "delete org") /\ slot[s].role = "delete"
  /\ WriteMembership([oidc |-> 0, local |-> 0]) /\ Answer(s, "gone")
  /\ UNCHANGED site

DeleteLocal(s) ==
  /\ At(s, "commit", "delete org") /\ slot[s].role = "delete"
  /\ IF IsMember(mem) /\ mem.oidc = 0
     THEN WriteMembership([mem EXCEPT !.local = 0]) /\ Answer(s, "gone")
     ELSE UNCHANGED <<mem, proj, keys>> /\ Answer(s, "conflict")
  /\ UNCHANGED site

(* The roster decides whether the user may be given a project role; the     *)
(* foreign key decides again when it is written.                            *)
resolveOrgMember(s) ==
  /\ slot[s].pc = "check" /\ slot[s].kind \in {"put project", "delete project"}
  /\ IF IsMember(mem) THEN \E r \in {"reader", "writer"} : Proceed(s, r) ELSE Answer(s, "not found")
  /\ UNCHANGED <<mem, site, proj, keys>>

CommitPutProjectMember_KeepKeys(s) ==
  /\ At(s, "commit", "put project")
  /\ IF IsMember(mem)
     THEN /\ proj' = slot[s].role
          /\ Answer(s, "ok")
     ELSE UNCHANGED proj /\ Answer(s, "error")
  /\ UNCHANGED <<mem, site, keys>>

(* The role and the revocation of the keys above it, one transaction. *)
CommitPutProjectMember(s) ==
  /\ At(s, "commit", "put project")
  /\ IF IsMember(mem)
     THEN /\ proj' = slot[s].role
          /\ keys' = [k \in Keys |->
               IF keys[k].state = "live" /\ keys[k].scope \in scopesExceedingRole(slot[s].role)
               THEN [keys[k] EXCEPT !.state = "revoked"] ELSE keys[k]]
          /\ Answer(s, "ok")
     ELSE UNCHANGED <<proj, keys>> /\ Answer(s, "error")
  /\ UNCHANGED <<mem, site>>

CommitDeleteProjectMember(s) ==
  /\ At(s, "commit", "delete project")
  /\ proj' = "none"
  /\ keys' = [k \in Keys |-> IF keys[k].state = "unused" THEN keys[k] ELSE [keys[k] EXCEPT !.state = "gone"]]
  /\ Answer(s, IF proj = "none" THEN "not found" ELSE "ok")
  /\ UNCHANGED <<mem, site>>

(* Local site administrators: a grant is one statement, a removal a read    *)
(* and a guarded statement that returns the row it left.                    *)
PutSiteAdmin(s) ==
  /\ At(s, "check", "put site")
  /\ IF AllowLocalSiteAdmins
     THEN site' = [site EXCEPT !.local = TRUE] /\ Answer(s, "ok")
     ELSE UNCHANGED site /\ Answer(s, "forbidden")
  /\ UNCHANGED <<mem, proj, keys>>

CheckDeleteSiteAdmin(s) ==
  /\ At(s, "check", "delete site")
  /\ IF site.local THEN Proceed(s, "revoke")
     ELSE Answer(s, IF site.oidc THEN "claim derived" ELSE "not found")
  /\ UNCHANGED <<mem, site, proj, keys>>

CommitDeleteSiteAdmin_Assumed(s) ==
  /\ At(s, "commit", "delete site")
  /\ site' = [site EXCEPT !.local = FALSE]
  /\ Answer(s, "gone")
  /\ UNCHANGED <<mem, proj, keys>>

CommitDeleteSiteAdmin(s) ==
  /\ At(s, "commit", "delete site")
  /\ site' = [site EXCEPT !.local = FALSE]
  /\ Answer(s, IF ~site.local THEN "conflict" ELSE IF site.oidc THEN "still an admin" ELSE "gone")
  /\ UNCHANGED <<mem, proj, keys>>

(* CreateAPIKey: the role is read and the scope capped, then the key is     *)
(* inserted; the foreign key asks for a role, not for which one.            *)
CheckCreateAPIKey(s) ==
  /\ At(s, "check", "mint")
  /\ \E sc \in {"read", "write"} :
       IF proj # "none" /\ ScopeWithinRole(sc, proj) THEN Proceed(s, sc) ELSE Answer(s, "scope exceeds role")
  /\ UNCHANGED <<mem, site, proj, keys>>

CreateAPIKey(s) ==
  /\ At(s, "commit", "mint")
  /\ IF proj = "none" THEN UNCHANGED keys /\ Answer(s, "error")
     ELSE /\ \E k \in Keys :
               /\ keys[k].state = "unused"
               /\ keys' = [keys EXCEPT ![k] = [state |-> "live", scope |-> slot[s].role,
                                               late |-> ~ScopeWithinRole(slot[s].role, proj)]]
          /\ Answer(s, "ok")
  /\ UNCHANGED <<mem, site, proj>>

(* DELETE of a key: the key is looked for among the project's; only a       *)
(* revoked one may be purged.                                               *)
CheckRevokeKey(s) ==
  /\ slot[s].pc = "check" /\ slot[s].kind \in {"revoke", "purge"}
  /\ \E k \in Keys :
       LET st == keys[k].state
       IN  CASE st \in {"unused", "gone"} -> Answer(s, "not found")
             [] slot[s].kind = "purge" /\ st = "live" -> Answer(s, "not revoked")
             [] OTHER -> slot' = [slot EXCEPT ![s].pc = "commit", ![s].key = k]
  /\ UNCHANGED <<mem, site, proj, keys>>

CommitRevokeKey(s) ==
  /\ slot[s].pc = "commit" /\ slot[s].kind \in {"revoke", "purge"}
  /\ LET k == slot[s].key
     IN  keys' = [keys EXCEPT ![k].state =
           CASE slot[s].kind = "revoke" /\ keys[k].state = "live" -> "revoked"
             [] slot[s].kind = "purge" /\ keys[k].state = "revoked" -> "gone"
             [] OTHER -> keys[k].state]
  /\ Answer(s, "ok")
  /\ UNCHANGED <<mem, site, proj>>

Request(s) ==
  \/ Start(s)
  \/ CheckPutOrgMember(s) \/ CommitPutOrgMember(s)
  \/ CheckDeleteOrgMember(s) \/ RevokeLocal(s) \/ DeleteLocal(s)
  \/ resolveOrgMember(s) \/ CommitPutProjectMember(s) \/ CommitDeleteProjectMember(s)
  \/ PutSiteAdmin(s) \/ CheckDeleteSiteAdmin(s) \/ CommitDeleteSiteAdmin(s)
  \/ CheckCreateAPIKey(s) \/ CreateAPIKey(s)
  \/ CheckRevokeKey(s) \/ CommitRevokeKey(s)

MembersNext == Reconcile \/ \E s \in Slots : Request(s)

MembersSpec == MembersInit /\ [][MembersNext]_membersVars

-----------------------------------------------------------------------------
(* Properties *)

\* A login never takes a local grant, nor what hangs off it, and the API
\* never takes a claim, however the reads of a handler interleave with
\* logins (reconcile.go: Reconcile; members.go: handleDeleteOrgMember).
HalvesNeverTouch ==
    IF slot' = slot
    THEN mem'.local = mem.local /\ site'.local = site.local /\ (mem.local > 0 => proj' = proj /\ keys' = keys)
    ELSE mem'.oidc = mem.oidc /\ site'.oidc = site.oidc

\* The answer of a removal is true when it is given: "gone" means no
\* membership, no role and no usable key, "still" means what it says
\* (members.go: handleDeleteOrgMember; siteadmins.go:
\* handleDeleteSiteAdmin).
RemovalsAreHonest ==
    \A s \in DOMAIN slot : slot'[s].answer # slot[s].answer =>
      /\ (slot'[s].kind = "delete org" /\ slot'[s].answer = "gone") =>
           ~IsMember(mem') /\ proj' = "none" /\ \A k \in DOMAIN keys : keys'[k].state # "live"
      /\ slot'[s].answer = "still a member" => IsMember(mem')
      /\ (slot'[s].kind = "delete site" /\ slot'[s].answer = "gone") => ~SiteAdmin(site')
      /\ slot'[s].answer = "still an admin" => SiteAdmin(site')

\* Both, of every step: neither half of a membership is written by the other
\* side, and what a removal answers is true when it is answered.
MembershipsAreHonest == [][HalvesNeverTouch /\ RemovalsAreHonest]_membersVars

\* A live key hangs off a role of a member, and a key that writes off a
\* role that writes, unless the role was lowered between the mint's read
\* of it and its insert (members.go: handlePutProjectMember, service.go:
\* CreateAPIKey).
KeysFollowTheRole ==
  \A k \in DOMAIN keys : keys[k].state = "live" =>
    IsMember(mem) /\ proj # "none" /\ (ScopeWithinRole(keys[k].scope, proj) \/ keys[k].late)

=============================================================================
