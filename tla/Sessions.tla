------------------------------ MODULE Sessions ------------------------------
(***************************************************************************)
(* Browser sessions.  A request loads its session when it arrives and      *)
(* works on the copy; the copy is written back when the response is sent,  *)
(* by an upsert.  With an idle timeout every loaded session is written     *)
(* back, changed or not, because its expiry moves.  HandleLogin stores the *)
(* state, nonce and verifier of an authorization request (a flow) under a  *)
(* renewed token; HandleCallback checks and removes them, exchanges the    *)
(* code and signs the session in under another renewed token; HandleLogout *)
(* destroys the session.                                                   *)
(***************************************************************************)
EXTENDS Naturals

CONSTANTS
    Calls,      \* requests of one browser, several at a time
    MaxTokens,  \* how many session tokens are drawn
    MaxFlows    \* how many authorization requests are started

ASSUME SessionsAssumption == MaxTokens \in Nat /\ MaxFlows \in Nat

Tokens == 1..MaxTokens
NoToken == 0
NoFlow == 0

\* A stored session: is a user signed in, and the flow under way.
NoSession == [live |-> FALSE, user |-> FALSE, flow |-> NoFlow]
Fresh == [live |-> TRUE, user |-> FALSE, flow |-> NoFlow]

VARIABLES
    store,      \* the sessions table: what each token names, NoSession for no row
    drawn,      \* how many tokens have been drawn
    flows,      \* how many flows have been started
    spent,      \* the flows whose authorization code has been exchanged
    cookie,     \* the token in the browser's cookie
    web,        \* the requests in flight: [at, kind, tok, data, status, flow]
    anonymous,  \* history: tokens that were stored with nobody signed in
    loggedOut   \* history: the tokens HandleLogout destroyed that no other request had loaded

sessionsVars == <<store, drawn, flows, spent, cookie, web, anonymous, loggedOut>>

NoCall == [at |-> "idle", kind |-> "none", tok |-> NoToken, data |-> Fresh,
           status |-> "unmodified", flow |-> NoFlow]

SessionsInit ==
    /\ store = [t \in Tokens |-> NoSession]
    /\ drawn = 0
    /\ flows = 0
    /\ spent = {}
    /\ cookie = NoToken
    /\ web = [r \in Calls |-> NoCall]
    /\ anonymous = {}
    /\ loggedOut = {}

-----------------------------------------------------------------------------
(* The session manager: load, renew, write back.                           *)

\* FindCtx: an unknown token, or one whose row has expired, is a new session.
Load(r, kind, flow) ==
    LET found == cookie # NoToken /\ store[cookie].live
    IN web' = [web EXCEPT ![r] =
         [at |-> "loaded", kind |-> kind, flow |-> flow,
          tok |-> IF found THEN cookie ELSE NoToken,
          data |-> IF found THEN store[cookie] ELSE Fresh,
          status |-> IF found THEN "modified" ELSE "unmodified"]]

\* The row of a renewed session goes at once; the new one comes with the commit.
Without(t) == IF t = NoToken THEN store ELSE [store EXCEPT ![t] = NoSession]

\* RenewToken followed by Puts, the session going on as d.
Renew(r, d) ==
    /\ drawn < MaxTokens
    /\ drawn' = drawn + 1
    /\ store' = Without(web[r].tok)
    /\ web' = [web EXCEPT ![r] = [at |-> "handled", kind |-> @.kind, tok |-> drawn + 1,
                                  data |-> d, status |-> "modified", flow |-> @.flow]]

\* A session that keeps its token across the login (for the mutant of establish).
KeepToken(r, d) ==
    /\ IF web[r].tok = NoToken THEN drawn < MaxTokens /\ drawn' = drawn + 1
                               ELSE UNCHANGED drawn
    /\ UNCHANGED store
    /\ web' = [web EXCEPT ![r].at = "handled",
                          ![r].tok = IF @ = NoToken THEN drawn + 1 ELSE @,
                          ![r].data = d, ![r].status = "modified"]

\* CommitCtx, and the cookie of the response.
Commit(r) ==
    /\ web[r].at = "handled"
    /\ CASE web[r].status = "modified" ->
              /\ store' = [store EXCEPT ![web[r].tok] = web[r].data]
              /\ cookie' = web[r].tok
              /\ anonymous' = IF web[r].data.user THEN anonymous
                              ELSE anonymous \cup {web[r].tok}
         [] web[r].status = "destroyed" -> cookie' = NoToken /\ UNCHANGED <<store, anonymous>>
         [] OTHER -> UNCHANGED <<store, cookie, anonymous>>
    /\ web' = [web EXCEPT ![r] = NoCall]
    /\ UNCHANGED <<drawn, flows, spent, loggedOut>>

\* DeleteExpired; FindCtx no longer sees the row from the same moment on.
DeleteExpired(t) ==
    /\ store[t].live
    /\ store' = [store EXCEPT ![t] = NoSession]
    /\ UNCHANGED <<drawn, flows, spent, cookie, web, anonymous, loggedOut>>

-----------------------------------------------------------------------------
(* The handlers.                                                           *)

Arrive(r) ==
    /\ web[r].at = "idle"
    /\ \E kind \in {"api", "login", "callback", "logout"}, f \in 0..flows :
         /\ kind = "callback" <=> f # NoFlow
         /\ Load(r, kind, f)
    /\ UNCHANGED <<store, drawn, flows, spent, cookie, anonymous, loggedOut>>

\* Authenticate only reads the session.
Authenticate(r) ==
    /\ web[r].at = "loaded" /\ web[r].kind = "api"
    /\ web' = [web EXCEPT ![r].at = "handled"]
    /\ UNCHANGED <<store, drawn, flows, spent, cookie, anonymous, loggedOut>>

HandleLogin(r) ==
    /\ web[r].at = "loaded" /\ web[r].kind = "login"
    /\ flows < MaxFlows
    /\ flows' = flows + 1
    /\ Renew(r, [web[r].data EXCEPT !.flow = flows + 1])
    /\ UNCHANGED <<spent, cookie, anonymous, loggedOut>>

\* The state must be the session's own, and is removed whatever comes next.
CheckState(r) ==
    /\ web[r].at = "loaded" /\ web[r].kind = "callback"
    /\ web[r].data.flow = web[r].flow
    /\ web' = [web EXCEPT ![r] = [at |-> "exchange", kind |-> @.kind, tok |-> @.tok,
                                  data |-> [@.data EXCEPT !.flow = NoFlow],
                                  status |-> "modified", flow |-> @.flow]]
    /\ UNCHANGED <<store, drawn, flows, spent, cookie, anonymous, loggedOut>>

StateMismatch(r) ==
    /\ web[r].at = "loaded" /\ web[r].kind = "callback"
    /\ web[r].data.flow # web[r].flow
    /\ web' = [web EXCEPT ![r].at = "handled"]
    /\ UNCHANGED <<store, drawn, flows, spent, cookie, anonymous, loggedOut>>

\* The provider honours a code once; everything else redirects to the login page.
Exchange(r) ==
    /\ web[r].at = "exchange"
    /\ \/ /\ web[r].flow \notin spent
          /\ spent' = spent \cup {web[r].flow}
          /\ web' = [web EXCEPT ![r].at = "establish"]
       \/ /\ UNCHANGED spent
          /\ web' = [web EXCEPT ![r].at = "handled"]
    /\ UNCHANGED <<store, drawn, flows, cookie, anonymous, loggedOut>>

establish_SameToken(r) ==
    /\ web[r].at = "establish"
    /\ KeepToken(r, [web[r].data EXCEPT !.user = TRUE])
    /\ UNCHANGED <<flows, spent, cookie, anonymous, loggedOut>>

establish(r) ==
    /\ web[r].at = "establish"
    /\ Renew(r, [web[r].data EXCEPT !.user = TRUE])
    /\ UNCHANGED <<flows, spent, cookie, anonymous, loggedOut>>

\* Mutant: a logout that only drops the cookie.
HandleLogout_CookieOnly(r) ==
    /\ web[r].at = "loaded" /\ web[r].kind = "logout"
    /\ UNCHANGED store
    /\ loggedOut' = loggedOut \cup
         ({web[r].tok} \ ({NoToken} \cup {web[q].tok : q \in Calls \ {r}}))
    /\ web' = [web EXCEPT ![r] = [at |-> "handled", kind |-> @.kind, tok |-> NoToken,
                                  data |-> Fresh, status |-> "destroyed", flow |-> @.flow]]
    /\ UNCHANGED <<drawn, flows, spent, cookie, anonymous>>

HandleLogout(r) ==
    /\ web[r].at = "loaded" /\ web[r].kind = "logout"
    /\ store' = Without(web[r].tok)
    /\ loggedOut' = loggedOut \cup
         ({web[r].tok} \ ({NoToken} \cup {web[q].tok : q \in Calls \ {r}}))
    /\ web' = [web EXCEPT ![r] = [at |-> "handled", kind |-> @.kind, tok |-> NoToken,
                                  data |-> Fresh, status |-> "destroyed", flow |-> @.flow]]
    /\ UNCHANGED <<drawn, flows, spent, cookie, anonymous>>

SessionsNext ==
    \/ \E r \in Calls : \/ Arrive(r) \/ Authenticate(r) \/ HandleLogin(r)
                        \/ CheckState(r) \/ StateMismatch(r) \/ Exchange(r)
                        \/ establish(r) \/ HandleLogout(r) \/ Commit(r)
    \/ \E t \in Tokens : DeleteExpired(t)

SessionsSpec == SessionsInit /\ [][SessionsNext]_sessionsVars

-----------------------------------------------------------------------------
(* Properties.                                                             *)

\* A token the browser held before anyone signed in never becomes signed in:
\* establish renews it, and no late write-back of an old copy undoes that.
LoginRenewsTheToken ==
    \A t \in Tokens : store[t].live /\ store[t].user => t \notin anonymous

\* A logout destroys the session: nobody is signed in under its token again, unless a
\* request that loaded the session before the logout was still to write it back.
LogoutDestroys == \A t \in loggedOut : ~store[t].user

\* Both: who is signed in under a token follows the login and the logout that were
\* made with it (service.go: establish, HandleLogout).
SessionsFollowTheLogin == LoginRenewsTheToken /\ LogoutDestroys

=============================================================================
