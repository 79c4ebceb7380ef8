------------------------------- MODULE Claims -------------------------------
(***************************************************************************)
(* When the groups an identity provider asserts reach the memberships.     *)
(* An ID token carries its issue time and the user's groups at that time   *)
(* (or no readable groups).  The browser flow reconciles every token it    *)
(* gets in exchange for a code.  A bearer token is reconciled when there   *)
(* is no user yet, or when it was issued after the last recorded login; *)
(* that record is the time of the reconciliation, not of the token.        *)
(***************************************************************************)
EXTENDS Naturals, FiniteSets

CONSTANTS
    SignIns,    \* requests of one user, each a bearer request or a callback
    MaxTime     \* the clock's bound

ASSUME ClaimsAssumption == MaxTime \in Nat

Times == 0..MaxTime

\* A token: issued when, is the user in the mapped group, are groups readable.
IdTokens == [iat : Times, in : BOOLEAN, present : BOOLEAN]

NoUser == [exists |-> FALSE, lastLogin |-> 0, member |-> FALSE]

\* The forms a groups claim takes: a list, a reference to a list kept elsewhere
\* (with or without a list beside it), something that is no list, or nothing.
Forms == [elsewhere : BOOLEAN, value : {"list", "scalar", "absent"}]

\* groups, as read from a token issued at t when the user was in the group or not:
\* only a list that is not overruled by a reference can be read.
TokenOf(t, in, form) ==
    LET present == ~form.elsewhere /\ form.value = "list"
    IN [iat |-> t, in |-> present /\ in, present |-> present]

VARIABLES
    now,        \* the clock
    groups,     \* the provider: is the user in the mapped group
    tokens,     \* the bearer tokens issued so far
    account,    \* the users row and its membership
    login,      \* the requests: [at, token, kind]
    served      \* history: the tokens a bearer request was answered for

claimsVars == <<now, groups, tokens, account, login, served>>

NoIdToken == [iat |-> 0, in |-> FALSE, present |-> FALSE]
NoLogin == [at |-> "idle", token |-> NoIdToken, kind |-> "none"]

ClaimsInit ==
    /\ now = 0
    /\ groups \in BOOLEAN
    /\ tokens = {}
    /\ account = NoUser
    /\ login = [r \in SignIns |-> NoLogin]
    /\ served = {}

-----------------------------------------------------------------------------
(* The provider.                                                           *)

Tick ==
    /\ now < MaxTime
    /\ now' = now + 1
    /\ groups' \in BOOLEAN
    /\ UNCHANGED <<tokens, account, login, served>>

\* A device grant, or the refresh of one; an overage leaves no readable groups.
Issue ==
    /\ \E form \in Forms : tokens' = tokens \cup {TokenOf(now, groups, form)}
    /\ tokens' # tokens
    /\ UNCHANGED <<now, groups, account, login, served>>

-----------------------------------------------------------------------------
(* The service.                                                            *)

\* Exchange and verify: a callback's token is fresh, and its groups may be
\* unreadable too.
HandleCallback(r) ==
    /\ login[r].at = "idle"
    /\ \E form \in Forms :
         login' = [login EXCEPT ![r] = [at |-> "reconcile", kind |-> "callback",
                                        token |-> TokenOf(now, groups, form)]]
    /\ UNCHANGED <<now, groups, tokens, account, served>>

staleLogin_Never(lastLogin, iat) == FALSE

staleLogin(lastLogin, iat) == iat > lastLogin

\* VerifyIDToken, then the user is looked up.
authenticateBearer(r) ==
    /\ login[r].at = "idle"
    /\ \E k \in tokens :
         login' = [login EXCEPT ![r] =
           [token |-> k, kind |-> "bearer",
            at |-> IF ~account.exists \/ staleLogin(account.lastLogin, k.iat)
                   THEN "reconcile" ELSE "load"]]
    /\ UNCHANGED <<now, groups, tokens, account, served>>

\* Unreadable groups read as no groups.
ReconcileToken_Guess(r) ==
    /\ login[r].at = "reconcile"
    /\ account' = [exists |-> TRUE, lastLogin |-> now, member |-> login[r].token.in]
    /\ login' = [login EXCEPT ![r] = IF @.kind = "bearer" THEN [@ EXCEPT !.at = "load"] ELSE NoLogin]
    /\ UNCHANGED <<now, groups, tokens, served>>

\* The transaction of a reconciliation: the user, last_login_at, the memberships.
ReconcileToken(r) ==
    /\ login[r].at = "reconcile"
    /\ login[r].token.present
    /\ account' = [exists |-> TRUE, lastLogin |-> now, member |-> login[r].token.in]
    /\ login' = [login EXCEPT ![r] = IF @.kind = "bearer" THEN [@ EXCEPT !.at = "load"] ELSE NoLogin]
    /\ UNCHANGED <<now, groups, tokens, served>>

\* Groups nobody can read refuse the login and change nothing.
Refuse(r) ==
    /\ login[r].at = "reconcile"
    /\ ~login[r].token.present
    /\ login' = [login EXCEPT ![r] = NoLogin]
    /\ UNCHANGED <<now, groups, tokens, account, served>>

loadPrincipal(r) ==
    /\ login[r].at = "load"
    /\ served' = served \cup {login[r].token}
    /\ login' = [login EXCEPT ![r] = NoLogin]
    /\ UNCHANGED <<now, groups, tokens, account>>

ClaimsNext ==
    \/ Tick
    \/ Issue
    \/ \E r \in SignIns : \/ HandleCallback(r) \/ authenticateBearer(r)
                          \/ ReconcileToken(r) \/ Refuse(r) \/ loadPrincipal(r)

ClaimsSpec == ClaimsInit /\ [][ClaimsNext]_claimsVars

-----------------------------------------------------------------------------
(* Properties.                                                             *)

\* A bearer token is answered for only after some login was recorded no
\* earlier than its issue, and only if there is a user: the check that skips
\* the reconciliation errs by the order of logins, never by their absence.
ServedAfterALogin ==
    \A k \in served' \ served : account.exists /\ account.lastLogin >= k.iat

\* A membership comes or goes only on a token that says so readably: a claim
\* that is missing or is an overage reference is never taken for "no groups".
ReadableClaimsDecide ==
    account'.member # account.member =>
       \E r \in DOMAIN login : /\ login[r].at = "reconcile"
                               /\ login[r].token.present
                               /\ login[r].token.in = account'.member

\* Both, of every step: a membership follows a readable claim, and a bearer
\* token is served on a login no older than itself (service.go:
\* authenticateBearer, staleLogin; reconcile.go: Reconcile).
MembershipsFollowReadableClaims ==
    [][ReadableClaimsDecide /\ ServedAfterALogin]_claimsVars

=============================================================================
