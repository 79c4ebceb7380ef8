------------------------------ MODULE MCControlPlane ------------------------
(***************************************************************************)
(* The control plane: deletion and teardown of backends and projects,      *)
(* memberships and keys, the lock order of their transactions, cached      *)
(* principals, browser sessions and group claims, each on a small          *)
(* instance.                                                               *)
(***************************************************************************)
EXTENDS PrincipalCache, Members, Claims, Sessions, Teardown

VARIABLES
    part,  \* which of the models below the behaviour is one of
    \* AuthzLocks
    member, live, held, shared, pc, op, writes, todo, attempts, outcome

HashservTeardown == INSTANCE Teardown WITH
    BackendKinds <- {"hashserv"}, Hashserv <- {"hashserv"}, Admins <- {"a1", "a2"},
    AdminOps <- {"create", "delete"}

RoleKeys == INSTANCE Members WITH
    Slots <- {"s1", "s2"}, Keys <- {"k1", "k2"},
    Kinds <- {"delete org", "put project", "delete project", "mint", "revoke", "purge"},
    Claims <- {0, 1}, AllowLocalSiteAdmins <- FALSE

Demotion == INSTANCE Members WITH
    Slots <- {"s1", "s2", "s3"}, Keys <- {"k1"},
    Kinds <- {"put project", "delete project", "mint"}, Claims <- {0, 1},
    AllowLocalSiteAdmins <- FALSE

Locks == INSTANCE AuthzLocks WITH
    Users <- {1, 2}, SigningIn <- {1}, Drops <- {"org", "project"}

LateClaims == INSTANCE Claims WITH SignIns <- {"r1"}, MaxTime <- 2

locksVars == <<member, live, held, shared, pc, op, writes, todo, attempts, outcome>>
partVars == <<part, teardownVars, membersVars, locksVars, vars, sessionsVars, claimsVars>>

\* Every instance is one its module is meant for.
ASSUME InstancesAssumption ==
    /\ TeardownAssumption
    /\ HashservTeardown!TeardownAssumption
    /\ RoleKeys!MembersAssumption
    /\ Demotion!MembersAssumption
    /\ Locks!UsersAssumption
    /\ Locks!DropsAssumption
    /\ RolesAssumption
    /\ LateClaims!ClaimsAssumption

-----------------------------------------------------------------------------
(* A part's initial states and steps; the other parts' variables rest at 0, *)
(* or in the initial state of a service nobody has called.                  *)

NoMembers == MembersInit /\ mem = [oidc |-> 0, local |-> 0]

NoLocks ==
    /\ member = 0 /\ live = 0 /\ held = 0 /\ shared = 0 /\ pc = 0 /\ op = 0
    /\ writes = 0 /\ todo = 0 /\ attempts = 0 /\ outcome = 0

NoPrincipals == Init /\ token = "read"

NoClaims == ClaimsInit /\ groups = FALSE

PartInit ==
    \/ part = "teardown" /\ TeardownInit /\ NoMembers /\ NoLocks /\ NoPrincipals
       /\ SessionsInit /\ NoClaims
    \/ part = "hashserv teardown" /\ HashservTeardown!TeardownInit /\ NoMembers /\ NoLocks
       /\ NoPrincipals /\ SessionsInit /\ NoClaims
    \/ part = "members" /\ MembersInit /\ TeardownInit /\ NoLocks /\ NoPrincipals
       /\ SessionsInit /\ NoClaims
    \/ part = "keys" /\ RoleKeys!MembersInit /\ TeardownInit /\ NoLocks /\ NoPrincipals
       /\ SessionsInit /\ NoClaims
    \/ part = "demotion" /\ Demotion!MembersInit /\ TeardownInit /\ NoLocks /\ NoPrincipals
       /\ SessionsInit /\ NoClaims
    \/ part = "locks" /\ Locks!Init /\ TeardownInit /\ NoMembers /\ NoPrincipals
       /\ SessionsInit /\ NoClaims
    \/ part = "principals" /\ Init /\ TeardownInit /\ NoMembers /\ NoLocks /\ SessionsInit
       /\ NoClaims
    \/ part = "sessions" /\ SessionsInit /\ TeardownInit /\ NoMembers /\ NoLocks
       /\ NoPrincipals /\ NoClaims
    \/ part = "claims" /\ ClaimsInit /\ TeardownInit /\ NoMembers /\ NoLocks
       /\ NoPrincipals /\ SessionsInit
    \/ part = "late claims" /\ LateClaims!ClaimsInit /\ TeardownInit /\ NoMembers /\ NoLocks
       /\ NoPrincipals /\ SessionsInit

PartNext ==
    \/ part = "teardown" /\ TeardownNext
       /\ UNCHANGED <<part, membersVars, locksVars, vars, sessionsVars, claimsVars>>
    \/ part = "hashserv teardown" /\ HashservTeardown!TeardownNext
       /\ UNCHANGED <<part, membersVars, locksVars, vars, sessionsVars, claimsVars>>
    \/ part = "members" /\ MembersNext
       /\ UNCHANGED <<part, teardownVars, locksVars, vars, sessionsVars, claimsVars>>
    \/ part = "keys" /\ RoleKeys!MembersNext
       /\ UNCHANGED <<part, teardownVars, locksVars, vars, sessionsVars, claimsVars>>
    \/ part = "demotion" /\ Demotion!MembersNext
       /\ UNCHANGED <<part, teardownVars, locksVars, vars, sessionsVars, claimsVars>>
    \/ part = "locks" /\ Locks!Next
       /\ UNCHANGED <<part, teardownVars, membersVars, vars, sessionsVars, claimsVars>>
    \/ part = "principals" /\ Next
       /\ UNCHANGED <<part, teardownVars, membersVars, locksVars, sessionsVars, claimsVars>>
    \/ part = "sessions" /\ SessionsNext
       /\ UNCHANGED <<part, teardownVars, membersVars, locksVars, vars, claimsVars>>
    \/ part = "claims" /\ ClaimsNext
       /\ UNCHANGED <<part, teardownVars, membersVars, locksVars, vars, sessionsVars>>
    \/ part = "late claims" /\ LateClaims!ClaimsNext
       /\ UNCHANGED <<part, teardownVars, membersVars, locksVars, vars, sessionsVars>>
    \/ part \in {"members", "keys", "demotion", "principals", "sessions"} /\ UNCHANGED partVars  \* these may end

PartSpec == PartInit /\ [][PartNext]_partVars

-----------------------------------------------------------------------------
(* Properties *)

\* Whatever waits in a circle waits for a deletion that cascades over a membership
\* committed after its roster query, and no login is refused for a deadlock.
LocksAreOrdered ==
    /\ part = "locks" => Locks!OnlyLateJoinersDeadlock /\ Locks!LoginsSurvive

=============================================================================
