----------------------------- MODULE AuthzLocks -----------------------------
(***************************************************************************)
(* The row locks of the transactions that write memberships.  A trigger on *)
(* both membership tables updates the user's row, so every such            *)
(* transaction takes two locks; the rule is that the users row comes       *)
(* first.  A login upserts the user and then reconciles the organization   *)
(* membership, and is retried when Postgres aborts it to break a deadlock; *)
(* an API request locks the user and writes one membership; deleting an    *)
(* organization or a project locks its roster in id order, then its row,   *)
(* and then cascades over the memberships that are there by then.          *)
(*                                                                         *)
(* A transaction's locks last until it commits or rolls back.  The row of  *)
(* an organization or a project is locked outright by its deletion and     *)
(* shared by the insertion of a membership (the foreign key's lock).       *)
(***************************************************************************)
EXTENDS Integers, FiniteSets, FiniteSetsExt

CONSTANTS
    Users,      \* the ids of the users, numbers: their order is ORDER BY u.id
    SigningIn,  \* those of them who log in meanwhile
    Drops       \* which of "org" and "project" a request deletes

UsersAssumption == /\ Users \subseteq Nat /\ IsFiniteSet(Users)
                          /\ SigningIn \subseteq Users
DropsAssumption == Drops \subseteq {"org", "project"}

Containers == {"org", "project"}   \* the project belongs to the organization

Logins == {<<"login", u>> : u \in SigningIn}
Writers == {<<"api", u>> : u \in Users}
Deleters == {<<"drop", c>> : c \in Drops}
Transactions == Logins \cup Writers \cup Deleters

UserRow(u) == <<"user", u>>
MemberRow(c, u) == <<"member", c, u>>
ParentRow(c) == <<"parent", c>>

VARIABLES
    member,    \* the committed membership rows, pairs of a container and a user
    live,      \* the containers that exist
    held,      \* the rows each request has locked
    shared,    \* the containers each request has locked in KEY SHARE mode
    pc,        \* where each request is
    op,        \* what each request does
    writes,    \* its uncommitted rows: [add, del]
    todo,      \* the users a deletion has still to lock
    attempts,  \* the aborted attempts of a login
    outcome    \* how each request ended

vars == <<member, live, held, shared, pc, op, writes, todo, attempts, outcome>>

\* Without the retry, a deadlock is the login's answer.
ReconcileOnce == 1

\* reconcileAttempts
ReconcileAttempts == 3

Nothing == [add |-> {}, del |-> {}]

NoOp == <<"none", "none">>

\* What a request may be asked to do, and keeps doing when it is retried.
Ops(p) ==
    CASE p[1] = "login" -> {<<"claim", "org">>, <<"noclaim", "org">>}
      [] p[1] = "api"   -> {"put", "remove"} \X Containers
      [] p[1] = "drop"  -> IF p[2] = "org" THEN {<<"delete", "org">>}
                           ELSE {<<"delete", "project">>, <<"mark", "project">>}

Init ==
    /\ live \in {{"org"}, {"org", "project"}}
    /\ member \in {m \in SUBSET (live \X Users) :
                     \A u \in Users : <<"project", u>> \in m => <<"org", u>> \in m}
    /\ held = [p \in Transactions |-> {}]
    /\ shared = [p \in Transactions |-> {}]
    /\ pc = [p \in Transactions |-> IF p \in Deleters THEN "idle" ELSE "user"]
    /\ op = [p \in Transactions |-> NoOp]
    /\ writes = [p \in Transactions |-> Nothing]
    /\ todo = [p \in Transactions |-> {}]
    /\ attempts = [p \in Transactions |-> 0]
    /\ outcome = [p \in Transactions |-> "none"]

-----------------------------------------------------------------------------
(* What a request's next statement locks, and whom it waits for.           *)

\* The rows a write of container c's membership of u locks: removing the
\* organization's membership cascades over the project's.
MemberRows(c, u, removes) ==
    {MemberRow(c, u)} \cup (IF removes /\ c = "org" /\ <<"project", u>> \in member
                            THEN {MemberRow("project", u)} ELSE {})

Removes(p) == op[p][1] \in {"noclaim", "remove"}

\* The members a deletion's cascade finds, and those it has not locked yet.
Cascade(c) == {u \in Users : <<c, u>> \in member}

Uncascaded(p) == {u \in Cascade(p[2]) : MemberRow(p[2], u) \notin held[p]}

Unbumped(p) == {u \in Users : /\ MemberRow(p[2], u) \in held[p]
                              /\ UserRow(u) \notin held[p]}

\* The rows the next statement needs, given where the request is.
NeedsUserFirst(p) ==
    CASE pc[p] = "user"    -> {UserRow(p[2])}
      [] pc[p] = "member"  -> MemberRows(op[p][2], p[2], Removes(p))
      [] pc[p] = "lock" /\ todo[p] # {} -> {UserRow(Min(todo[p]))}
      [] pc[p] = "lock" /\ todo[p] = {} -> {ParentRow(p[2])}
      [] pc[p] = "cascade" /\ Uncascaded(p) # {} -> {MemberRow(p[2], Min(Uncascaded(p)))}
      [] pc[p] = "epochs" /\ Unbumped(p) # {} -> {UserRow(Min(Unbumped(p)))}
      [] OTHER -> {}

\* Without the rule, a writer reaches the users row through the trigger.
NeedsMemberFirst(p) ==
    IF p \in Writers /\ pc[p] = "user" THEN {MemberRow("org", p[2])}
    ELSE IF p \in Writers /\ pc[p] = "member" THEN {UserRow(p[2])} \cup NeedsUserFirst(p)
    ELSE NeedsUserFirst(p)

\* Without ORDER BY, two deletions may meet a shared roster in two orders.
NeedsUnordered(p) ==
    IF pc[p] = "lock" /\ todo[p] # {} /\ p[2] = "org"
    THEN {UserRow(Max(todo[p]))} ELSE NeedsUserFirst(p)

Needs(p) == NeedsUserFirst(p)

\* An inserted membership shares its container's row.
Inserts(p) == /\ pc[p] = "member"
              /\ ~Removes(p)
              /\ <<op[p][2], p[2]>> \notin member

Blockers(p) ==
    {q \in Transactions \ {p} :
        \/ Needs(p) \cap held[q] # {}
        \/ Inserts(p) /\ ParentRow(op[p][2]) \in held[q]
        \/ \E c \in shared[q] : ParentRow(c) \in Needs(p)}

Free(p) == Blockers(p) = {}

\* A request is deadlocked when a chain of waiting leads back to it.
Deadlocked(p) ==
    LET leads[n \in 0..Cardinality(Transactions), q \in Transactions] ==
          \E r \in Blockers(q) : r = p \/ (n > 0 /\ leads[n - 1, r])
    IN leads[Cardinality(Transactions), p]

Lock(p, rows) == held' = [held EXCEPT ![p] = @ \cup rows]

Goto(p, where) == pc' = [pc EXCEPT ![p] = where]

\* Release whatever the transaction holds, its writes kept or dropped.
Release(p) ==
    /\ held' = [held EXCEPT ![p] = {}]
    /\ shared' = [shared EXCEPT ![p] = {}]
    /\ writes' = [writes EXCEPT ![p] = Nothing]
    /\ todo' = [todo EXCEPT ![p] = {}]

Fail(p, why) ==
    /\ Release(p)
    /\ Goto(p, "done")
    /\ outcome' = [outcome EXCEPT ![p] = why]
    /\ UNCHANGED <<member, live, op, attempts>>

-----------------------------------------------------------------------------
(* A login, and the requests that grant or remove one membership.          *)

\* UpsertUser of a login, lockUserFirst of an API request.
LockUser(p) ==
    /\ pc[p] = "user"
    /\ Free(p)
    /\ Lock(p, Needs(p))
    /\ Goto(p, "member")
    /\ \E o \in Ops(p) :
         /\ op[p] \in {NoOp, o}
         /\ op' = [op EXCEPT ![p] = o]
    /\ UNCHANGED <<member, live, shared, writes, todo, attempts, outcome>>

\* The membership row must have what its foreign keys name.
HasParents(c, u) == c \in live /\ (c = "project" => <<"org", u>> \in member)

WriteMembership(p) ==
    LET c == op[p][2]
        u == p[2]
    IN /\ pc[p] = "member"
       /\ Free(p)
       /\ Removes(p) \/ HasParents(c, u)
       /\ Lock(p, Needs(p))
       /\ shared' = [shared EXCEPT ![p] = IF Inserts(p) THEN {c} ELSE {}]
       /\ writes' = [writes EXCEPT ![p] =
            IF Removes(p) THEN [add |-> {}, del |-> {<<c, u>>} \cup (IF c = "org"
                                                     THEN {<<"project", u>>} ELSE {})]
            ELSE [add |-> {<<c, u>>}, del |-> {}]]
       /\ Goto(p, "commit")
       /\ UNCHANGED <<member, live, op, todo, attempts, outcome>>

\* The organization or project went away first: the foreign key refuses.
RefuseMembership(p) ==
    /\ pc[p] = "member"
    /\ Free(p)
    /\ ~Removes(p)
    /\ ~HasParents(op[p][2], p[2])
    /\ Fail(p, "refused")

Commit(p) ==
    /\ pc[p] = "commit" \/ (pc[p] = "epochs" /\ Unbumped(p) = {})
    /\ member' = (member \ writes[p].del) \cup writes[p].add
    /\ live' = IF p \in Deleters /\ op[p][1] = "delete" THEN live \ {p[2]} ELSE live
    /\ Release(p)
    /\ Goto(p, "done")
    /\ outcome' = [outcome EXCEPT ![p] = "ok"]
    /\ UNCHANGED <<op, attempts>>

-----------------------------------------------------------------------------
(* The deletion of an organization or of a project.                        *)

\* The guard has resolved the container; the roster is what is committed now.
Snapshot(p) ==
    /\ p \in Deleters
    /\ pc[p] = "idle"
    /\ IF p[2] \in live
       THEN /\ todo' = [todo EXCEPT ![p] = Cascade(p[2])]
            /\ Goto(p, "lock")
            /\ \E o \in Ops(p) : op' = [op EXCEPT ![p] = o]
            /\ UNCHANGED outcome
       ELSE /\ Goto(p, "done")
            /\ outcome' = [outcome EXCEPT ![p] = "refused"]
            /\ UNCHANGED <<op, todo>>
    /\ UNCHANGED <<member, live, held, shared, writes, attempts>>

LockRoster(p) ==
    /\ pc[p] = "lock"
    /\ todo[p] # {}
    /\ Free(p)
    /\ Lock(p, Needs(p))
    /\ todo' = [todo EXCEPT ![p] = {u \in @ : UserRow(u) \notin Needs(p)}]
    /\ UNCHANGED <<member, live, shared, pc, op, writes, attempts, outcome>>

\* LockProjectForTeardown, or the DELETE of the organization itself; a project
\* with bytes in it is only marked, and its memberships stay.
LockParent(p) ==
    /\ pc[p] = "lock"
    /\ todo[p] = {}
    /\ Free(p)
    /\ ~(p[2] = "org" /\ "project" \in live)
    /\ Lock(p, Needs(p))
    /\ Goto(p, IF op[p][1] = "mark" THEN "commit" ELSE "cascade")
    /\ UNCHANGED <<member, live, shared, op, writes, todo, attempts, outcome>>

\* An organization that still has a project is not deleted.
RefuseDelete(p) ==
    /\ pc[p] = "lock"
    /\ todo[p] = {}
    /\ Free(p)
    /\ p[2] = "org" /\ "project" \in live
    /\ Fail(p, "refused")

\* The cascade deletes the memberships that are there, late arrivals included.
CascadeRow(p) ==
    /\ pc[p] = "cascade"
    /\ Uncascaded(p) # {}
    /\ Free(p)
    /\ Lock(p, Needs(p))
    /\ UNCHANGED <<member, live, shared, pc, op, writes, todo, attempts, outcome>>

CascadeEnds(p) ==
    /\ pc[p] = "cascade"
    /\ Uncascaded(p) = {}
    /\ writes' = [writes EXCEPT ![p] = [add |-> {}, del |-> {p[2]} \X Cascade(p[2])]]
    /\ Goto(p, "epochs")
    /\ UNCHANGED <<member, live, held, shared, op, todo, attempts, outcome>>

\* The triggers bump the epoch of every user whose row went.
BumpEpoch(p) ==
    /\ pc[p] = "epochs"
    /\ Unbumped(p) # {}
    /\ Free(p)
    /\ Lock(p, Needs(p))
    /\ UNCHANGED <<member, live, shared, pc, op, writes, todo, attempts, outcome>>

-----------------------------------------------------------------------------
(* Postgres aborts one transaction of a cycle.  reconcileTx runs a login's *)
(* again, a bounded number of times; nobody retries the others.            *)

\* A retry with neither a bound nor a pause meets the same lock again.
AbortLoginForever(p) ==
    /\ p \in Logins
    /\ Deadlocked(p)
    /\ Release(p)
    /\ Goto(p, "user")
    /\ UNCHANGED <<member, live, op, attempts, outcome>>

AbortLogin(p) ==
    /\ p \in Logins
    /\ Deadlocked(p)
    /\ attempts' = [attempts EXCEPT ![p] = @ + 1]
    /\ Release(p)
    /\ IF attempts'[p] < ReconcileAttempts
       THEN Goto(p, "backoff") /\ UNCHANGED outcome
       ELSE Goto(p, "done") /\ outcome' = [outcome EXCEPT ![p] = "deadlock"]
    /\ UNCHANGED <<member, live, op>>

\* The pause is long enough for whoever was queued on the users row.
Retry(p) ==
    /\ pc[p] = "backoff"
    /\ \A q \in Deleters : UserRow(p[2]) \notin Needs(q)
    /\ Goto(p, "user")
    /\ UNCHANGED <<member, live, held, shared, op, writes, todo, attempts, outcome>>

AbortOther(p) ==
    /\ p \notin Logins
    /\ Deadlocked(p)
    /\ Fail(p, "deadlock")

Next ==
    \/ \E p \in Transactions :
         \/ LockUser(p) \/ WriteMembership(p) \/ RefuseMembership(p)
         \/ Commit(p)
         \/ Snapshot(p) \/ LockRoster(p) \/ LockParent(p) \/ RefuseDelete(p)
         \/ CascadeRow(p) \/ CascadeEnds(p) \/ BumpEpoch(p)
         \/ AbortLogin(p) \/ Retry(p) \/ AbortOther(p)
    \/ (\A p \in Transactions : pc[p] = "done") /\ UNCHANGED vars

Spec == Init /\ [][Next]_vars

-----------------------------------------------------------------------------
(* Properties.                                                             *)

\* Deletions that cascade over a member who joined after the roster was read.
LateJoiners ==
    {p \in Deleters : /\ pc[p] = "epochs"
                      /\ Unbumped(p) # {}}

\* "Users row first" leaves one cycle only: whatever waits in a circle waits
\* for a deletion (handleDeleteOrg, handleDeleteProject) that is cascading over
\* a membership committed after its roster query.  Logins, grants, removals and
\* two deletions with a common roster never deadlock among themselves.
OnlyLateJoinersDeadlock ==
    (\E p \in Transactions : Deadlocked(p)) => LateJoiners # {}

\* reconcileTx's three attempts carry a login through the deletion of an
\* organization and of a project around it: no login is refused for a deadlock.
LoginsSurvive == \A p \in Logins : outcome[p] # "deadlock"

=============================================================================
