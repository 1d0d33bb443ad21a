------------------------------ MODULE Session ------------------------------
(* The session of one user in one browser: the access token in localStorage *)
(* and its copy in a cookie, the HttpOnly refresh cookie, and the axios     *)
(* interceptors that turn the first 401 of a tab into POST /auth/refresh    *)
(* and let the other requests of that tab wait for it.  Tabs share the      *)
(* storage and the cookies, but not the queue.                              *)
(*                                                                          *)
(* A pair of tokens is a number: IssuePair gives both tokens one JTI.       *)
(* 0 stands for none.  AuthService.Refresh is three Redis commands; any of  *)
(* them may fail and any answer may be lost.  The front end never calls     *)
(* POST /auth/logout.  Expiry of refresh tokens is left out.                *)
EXTENDS Integers, FiniteSets

CONSTANTS
    Tabs, Reqs,     \* open tabs; requests of their pages to protected routes
    Placements,     \* which tab each request may belong to
    FormTabs,       \* bound: the tabs in which the user fills a form
    MaxTokens       \* bound: no login once so many pairs were issued, later tokens do not expire

ASSUME SessionAssumption ==
    /\ Placements \subseteq [Reqs -> Tabs] /\ Placements # {}
    /\ FormTabs \subseteq Tabs /\ MaxTokens \in Nat \ {0}
    /\ IsFiniteSet(Reqs)

VARIABLES
    ls,         \* localStorage: the access token
    cookie,     \* the cookie middleware.ts reads: a token, and whether it has a max-age
    jar,        \* the refresh cookie
    account,    \* whether the user is registered
    keys,       \* Redis: the live refresh keys
    issued,     \* the number of pairs issued
    expired,    \* access tokens past their lifetime
    tab,        \* each tab's page, form, header and isRefreshing
    req,        \* each request
    rf,         \* the call of /auth/refresh that each request leads
    aborted     \* history: a page was left while its refresh was running

browser == <<ls, cookie, jar>>
backend == <<account, keys, issued, expired>>
vars    == <<browser, backend, tab, req, rf, aborted>>

NoCookie == [token |-> 0, aged |-> FALSE]
NoCall   == [st |-> "none", with |-> 0, new |-> 0, heard |-> FALSE]
Finished == {"done", "failed", "gone"}

\* A visitor, or a user who signed in before the tabs were opened.
Init ==
    /\ ls \in {0, 1} /\ jar = ls /\ issued = ls
    /\ cookie = [token |-> ls, aged |-> ls = 1]
    /\ keys = {ls} \ {0}
    /\ expired = {}
    /\ account = (ls = 1)
    /\ tab = [t \in Tabs |-> [page |-> "app", form |-> "idle", isLogin |-> ls # 0,
                           isRefreshing |-> FALSE]]
    /\ \E on \in Placements :
          req = [r \in Reqs |-> [tab |-> on[r], st |-> "new", token |-> 0, retry |-> FALSE, sent |-> 0]]
    /\ rf = [r \in Reqs |-> NoCall]
    /\ aborted = FALSE

-----------------------------------------------------------------------------
(* Storage and pages.                                                       *)

\* Mutant of Persist: the cookie of the middleware is forgotten.
PersistNoCookie(token) == ls' = token /\ UNCHANGED cookie

\* persistAuthSession, and what a refresh stores: token and cookie together.
Persist(token) == ls' = token /\ cookie' = [token |-> token, aged |-> TRUE]

\* clearAuthSession; it cannot reach the HttpOnly refresh cookie.
Clear == ls' = 0 /\ cookie' = NoCookie

\* middleware.ts: a protected page needs the cookie, any cookie.
Served(protected) == IF protected /\ cookie.token = 0 THEN "login" ELSE "app"

\* A full page load kills the requests of the old page.  The header of the new
\* page reads the storage once and renews the cookie without a max-age.
Leave(t, requests) ==
    [r \in Reqs |-> IF req[r].tab = t /\ requests[r].st \notin Finished \cup {"new"}
                      THEN [requests[r] EXCEPT !.st = "gone"] ELSE requests[r]]

\* The server goes on with a call nobody waits for.
Running(r) == rf[r].heard
Aborts(t)  == \E r \in Reqs : req[r].tab = t /\ Running(r)
Unheard(t) == [r \in Reqs |-> IF req[r].tab = t THEN [rf[r] EXCEPT !.heard = FALSE] ELSE rf[r]]

\* Login and registration have no header.
HasHeader(page) == page = "app"

Fresh(page, token) == [page |-> page, form |-> "idle", isRefreshing |-> FALSE,
                       isLogin |-> HasHeader(page) /\ token # 0]

Load(t, protected) ==
    /\ tab[t].page = "app"
    /\ LET page == Served(protected) IN
         /\ tab' = [tab EXCEPT ![t] = Fresh(page, ls)]
         /\ cookie' = IF page = "app" /\ ls # 0 THEN [token |-> ls, aged |-> FALSE] ELSE cookie
    /\ req' = Leave(t, req)
    /\ rf' = Unheard(t)
    /\ aborted' = (aborted \/ Aborts(t))
    /\ UNCHANGED <<ls, jar, backend>>

\* The menu of the header, as of the last page load.
HeaderMenu(t) ==
    IF ~HasHeader(tab[t].page) THEN {}
    ELSE IF tab[t].isLogin THEN {"profile", "my auctions", "log out"} ELSE {"log in", "register"}

\* handleLogout: storage only, then the start page.
Logout(t) ==
    /\ "log out" \in HeaderMenu(t)
    /\ Clear
    /\ tab' = [tab EXCEPT ![t] = Fresh("app", 0)]
    /\ req' = Leave(t, req)
    /\ rf' = Unheard(t)
    /\ aborted' = (aborted \/ Aborts(t))
    /\ UNCHANGED <<jar, backend>>

\* An access token and the cookie that was given its lifetime expire together.
\* A token that nobody holds any more need not expire.
Held == {ls} \cup {req[r].token : r \in {q \in Reqs : req[q].st = "sent"}}

Expire(n) ==
    /\ n \in Held \ expired /\ n <= MaxTokens
    /\ expired' = expired \cup {n}
    /\ cookie' = IF cookie = [token |-> n, aged |-> TRUE] THEN NoCookie ELSE cookie
    /\ UNCHANGED <<ls, jar, account, keys, issued, tab, req, rf, aborted>>

-----------------------------------------------------------------------------
(* Registering and signing in.                                              *)

\* Links of the header: the page changes without a load.
GoTo(t, page) ==
    /\ t \in FormTabs
    /\ \/ page = "login" /\ "log in" \in HeaderMenu(t)
       \/ page = "register" /\ ("register" \in HeaderMenu(t) \/ tab[t].page = "login")
    /\ tab' = [tab EXCEPT ![t].page = page, ![t].form = "idle"]
    /\ UNCHANGED <<browser, backend, req, rf, aborted>>

\* What the forms show: the button is off while a request runs.
LoginForm(t) ==
    IF tab[t].page = "login" THEN [button |-> tab[t].form # "sending", alert |-> tab[t].form = "error"]
    ELSE [button |-> FALSE, alert |-> FALSE]
RegisterForm(t) ==
    IF tab[t].page = "register" THEN [button |-> tab[t].form # "sending", alert |-> tab[t].form = "error"]
    ELSE [button |-> FALSE, alert |-> FALSE]

SetForm(t, form) ==
    /\ tab' = [tab EXCEPT ![t].form = form]
    /\ UNCHANGED <<browser, backend, req, rf, aborted>>

\* Passwords that differ, or no agreement: an error and no request.
RegisterSubmit(t) == RegisterForm(t).button /\ \E form \in {"sending", "error"} : SetForm(t, form)

RegisterReturns(t) ==
    /\ tab[t].page = "register" /\ tab[t].form = "sending"
    /\ \/ /\ ~account /\ account' = TRUE
          /\ tab' = [tab EXCEPT ![t].page = "login", ![t].form = "idle"]
       \/ /\ tab' = [tab EXCEPT ![t].form = "error"]
          /\ UNCHANGED account
    /\ UNCHANGED <<browser, keys, issued, expired, req, rf, aborted>>

LoginSubmit(t) == t \in FormTabs /\ LoginForm(t).button /\ SetForm(t, "sending")

\* Wrong password, server error, lost answer (then the new key stays unused).
LoginFails(t) ==
    /\ tab[t].page = "login" /\ tab[t].form = "sending"
    /\ tab' = [tab EXCEPT ![t].form = "error"]
    /\ UNCHANGED <<browser, backend, req, rf, aborted>>

\* AuthService.Login, persistAuthSession, and the load of the start page, whose
\* header takes the max-age off the cookie again.
LoginSucceeds(t) ==
    /\ tab[t].page = "login" /\ tab[t].form = "sending" /\ account
    /\ issued < MaxTokens
    /\ issued' = issued + 1
    /\ keys' = keys \cup {issued'}
    /\ jar' = issued' /\ ls' = issued'
    /\ cookie' = [token |-> issued', aged |-> FALSE]
    /\ tab' = [tab EXCEPT ![t] = Fresh("app", ls')]
    /\ req' = Leave(t, req)
    /\ rf' = Unheard(t)
    /\ aborted' = (aborted \/ Aborts(t))
    /\ UNCHANGED <<account, expired>>

-----------------------------------------------------------------------------
(* Requests: the interceptors of lib/axios.ts.                              *)

\* The request interceptor: the token is the one stored when the request leaves.
Sent(call, token) == [call EXCEPT !.st = "sent", !.token = token, !.sent = @ + 1]

Send(r) ==
    /\ req[r].st = "new" /\ tab[req[r].tab].page = "app"
    /\ req' = [req EXCEPT ![r] = Sent(@, ls)]
    /\ UNCHANGED <<browser, backend, tab, rf, aborted>>

\* AuthMiddleware (no token is ever blacklisted by this front end).
Authorized(r) == req[r].token \in 1 .. issued \ expired

Settles(r, st) ==
    /\ req' = [req EXCEPT ![r].st = st]
    /\ UNCHANGED <<browser, backend, tab, rf, aborted>>

\* Any answer but 401, or none.
Answered(r) ==
    /\ req[r].st = "sent"
    /\ \E st \in {"done", "failed"} : (st = "done" => Authorized(r)) /\ Settles(r, st)

\* Mutant of MayRefresh: the request that leads a refresh is not marked.
MayAlwaysRefresh(r) == TRUE

MayRefresh(r) == ~req[r].retry

Refused(r) == req[r].st = "sent" /\ ~Authorized(r)

GivesUp(r) == Refused(r) /\ ~MayRefresh(r) /\ Settles(r, "failed")

\* isRefreshing: wait for the refresh of this tab.
Queues(r) == Refused(r) /\ MayRefresh(r) /\ tab[req[r].tab].isRefreshing /\ Settles(r, "queued")

\* The first 401 of the tab calls /auth/refresh with the cookie of the moment.
Leads(r) ==
    /\ Refused(r) /\ MayRefresh(r) /\ ~tab[req[r].tab].isRefreshing
    /\ rf' = [rf EXCEPT ![r] = [st |-> "sent", with |-> jar, new |-> 0, heard |-> TRUE]]
    /\ tab' = [tab EXCEPT ![req[r].tab].isRefreshing = TRUE]
    /\ req' = [req EXCEPT ![r].st = "leading", ![r].retry = TRUE]
    /\ UNCHANGED <<browser, backend, aborted>>

-----------------------------------------------------------------------------
(* AuthService.Refresh.                                                     *)

Goes(r, from, to) ==
    /\ rf[r].st = from
    /\ rf' = [rf EXCEPT ![r].st = to]
    /\ UNCHANGED <<browser, account, issued, expired, tab, req, aborted>>

RefreshChecks(r) ==
    /\ Goes(r, "sent", IF rf[r].with \in keys THEN "checked" ELSE "refused")
    /\ UNCHANGED keys

RefreshDeletes(r) ==
    /\ Goes(r, "checked", "deleted")
    /\ keys' = keys \ {rf[r].with}

\* Mutant of RefreshStores: the new key is not stored.
RefreshStoresNothing(r) ==
    /\ rf[r].st = "deleted"
    /\ issued' = issued + 1
    /\ rf' = [rf EXCEPT ![r].st = "granted", ![r].new = issued']
    /\ UNCHANGED <<browser, account, keys, expired, tab, req, aborted>>

RefreshStores(r) ==
    /\ rf[r].st = "deleted"
    /\ issued' = issued + 1
    /\ keys' = keys \cup {issued'}
    /\ rf' = [rf EXCEPT ![r].st = "granted", ![r].new = issued']
    /\ UNCHANGED <<browser, account, expired, tab, req, aborted>>

\* Redis fails, the rate limit says no, the answer is lost.
RefreshErrs(r) ==
    /\ \E st \in {"sent", "checked", "deleted", "granted"} : Goes(r, st, "error")
    /\ UNCHANGED keys

\* Mutant of Released: only the request that led goes on.
ReleasedLeadOnly(t, token) ==
    [r \in Reqs |-> IF req[r].tab = t /\ req[r].st = "leading"
                      THEN Sent(req[r], token) ELSE req[r]]

\* processQueue(null, token), and the request that led is sent again.
Released(t, token) ==
    [r \in Reqs |-> IF req[r].tab = t /\ req[r].st \in {"queued", "leading"}
                      THEN Sent(req[r], token) ELSE req[r]]

RefreshSucceeds(r) ==
    /\ rf[r].st = "granted" /\ rf[r].heard
    /\ jar' = rf[r].new
    /\ Persist(rf[r].new)
    /\ rf' = [rf EXCEPT ![r] = NoCall]
    /\ tab' = [tab EXCEPT ![req[r].tab].isRefreshing = FALSE]
    /\ req' = Released(req[r].tab, rf[r].new)
    /\ UNCHANGED <<backend, aborted>>

\* processQueue(error): whoever waited fails with the request that led.
Rejected(t) ==
    [r \in Reqs |-> IF req[r].tab = t /\ req[r].st \in {"queued", "leading"}
                      THEN [req[r] EXCEPT !.st = "failed"] ELSE req[r]]

\* A refusal takes the refresh cookie with it; every failure signs the browser
\* out and loads the login page, which kills what the tab still has in flight.
RefreshFails(r) ==
    /\ rf[r].st \in {"refused", "error"} /\ rf[r].heard
    /\ jar' = IF rf[r].st = "refused" /\ rf[r].with # 0 THEN 0 ELSE jar
    /\ Clear
    /\ rf' = [rf EXCEPT ![r] = NoCall]
    /\ tab' = [tab EXCEPT ![req[r].tab] = Fresh("login", 0)]
    /\ req' = Leave(req[r].tab, Rejected(req[r].tab))
    /\ UNCHANGED <<backend, aborted>>

-----------------------------------------------------------------------------
ReqStep(r) == Answered(r) \/ GivesUp(r) \/ Queues(r) \/ Leads(r)
ServerStep(r) == RefreshChecks(r) \/ RefreshDeletes(r) \/ RefreshStores(r)
ReturnStep(r) == RefreshSucceeds(r) \/ RefreshFails(r)
TabStep(t) ==
    \/ \E protected \in BOOLEAN : Load(t, protected)
    \/ Logout(t)
    \/ \E page \in {"login", "register"} : GoTo(t, page)
    \/ RegisterSubmit(t) \/ RegisterReturns(t)
    \/ LoginSubmit(t) \/ LoginFails(t) \/ LoginSucceeds(t)

Next ==
    \/ \E t \in Tabs : TabStep(t)
    \/ \E r \in Reqs : Send(r) \/ ReqStep(r) \/ ServerStep(r) \/ RefreshErrs(r) \/ ReturnStep(r)
    \/ \E n \in 1 .. issued : Expire(n)

\* Servers answer and browsers deliver, or the connection ends with an error.
Spec ==
    /\ Init /\ [][Next]_vars
    /\ \A r \in Reqs : WF_vars(ReqStep(r)) /\ WF_vars(ServerStep(r) \/ ReturnStep(r))

-----------------------------------------------------------------------------
(* Properties.                                                              *)

TypeOK ==
    /\ issued \in Nat /\ account \in BOOLEAN /\ aborted \in BOOLEAN
    /\ ls \in 0 .. issued /\ jar \in 0 .. issued
    /\ keys \subseteq 1 .. issued /\ expired \subseteq 1 .. issued
    /\ cookie \in [token : Nat, aged : BOOLEAN]
    /\ tab \in [Tabs -> [page : {"app", "login", "register"}, form : {"idle", "sending", "error"},
                         isLogin : BOOLEAN, isRefreshing : BOOLEAN]]
    /\ req \in [Reqs -> [tab : Tabs, st : Finished \cup {"new", "sent", "queued", "leading"},
                         token : Nat, retry : BOOLEAN, sent : Nat]]
    /\ rf \in [Reqs -> [st : {"none", "sent", "checked", "deleted", "granted", "refused", "error"},
                        with : Nat, new : Nat, heard : BOOLEAN]]
    /\ \A r \in Reqs : rf[r].with <= issued /\ rf[r].new <= issued

\* The pages the middleware lets through and the requests axios signs belong to
\* one session: the cookie is the stored token or has run out.  Several handlers
\* of several tabs write the two.
CookieFollowsToken == cookie.token \in {0, ls}

\* Nobody waits in the queue of a tab without a refresh that will let him go,
\* and a tab never leads two refreshes.
QueueHasALeader ==
    /\ \A r \in Reqs : req[r].st \in {"queued", "leading"} =>
          /\ tab[req[r].tab].isRefreshing
          /\ \E q \in Reqs : req[q].tab = req[r].tab /\ req[q].st = "leading" /\ Running(q)
    /\ \A q, r \in Reqs : Running(q) /\ Running(r) /\ req[q].tab = req[r].tab => q = r

\* A browser that looks signed in can renew its session: unless a refresh is
\* under way or its page was left, the refresh cookie is live in Redis, although
\* two tabs may spend one cookie and a refusal of one deletes what the other got.
SignedInCanRefresh ==
    ls # 0 /\ ~aborted /\ (\A r \in Reqs : ~Running(r)) => jar \in keys

\* No storm of retries: the requests of a tab are repeated at most once for each
\* of them that has led a refresh, and each leads one at most.
Leaders(t)  == {r \in Reqs : req[r].tab = t /\ req[r].retry}
NoRetryLoop == \A r \in Reqs : req[r].sent <= 1 + Cardinality(Leaders(req[r].tab))

\* What makes them inductive.  A refresh belongs to the request that leads it, and
\* a tab that refreshes has one, marked _retry.
LeaderRuns ==
    /\ \A r \in Reqs : Running(r) => req[r].st = "leading"
    /\ \A t \in Tabs : tab[t].isRefreshing =>
          \E r \in Reqs : Running(r) /\ req[r].tab = t /\ req[r].st = "leading" /\ req[r].retry

\* A request sent while its tab refreshes has that refresh to its credit.
SentBound ==
    \A r \in Reqs :
        /\ req[r].st = "new" => req[r].sent = 0
        /\ req[r].sent <= Cardinality(Leaders(req[r].tab)) + IF tab[req[r].tab].isRefreshing THEN 0 ELSE 1

\* A pair that is granted and not yet received is live and known to nobody else.
GrantIsFresh ==
    \A r \in Reqs : Running(r) /\ rf[r].st = "granted" =>
        /\ rf[r].new \in keys /\ rf[r].new # jar
        /\ \A q \in Reqs : rf[q].with # rf[r].new /\ (q # r => rf[q].new # rf[r].new)

\* Until a page is left too early the browser hears of every refresh, and a dead
\* refresh cookie is one that a running refresh has spent.
SpentIsRunning ==
    ~aborted =>
        /\ \A r \in Reqs : rf[r].st # "none" => Running(r)
        /\ ls # 0 /\ jar \notin keys => \E q \in Reqs : Running(q) /\ rf[q].with = jar

\* Tokens, cookies, Redis keys and refreshes of all tabs agree in every way stated
\* above: nobody is left in a queue, sends a token of one session with the cookie
\* of another, or is given a pair of tokens that somebody else holds.
SessionInv ==
    /\ TypeOK /\ CookieFollowsToken /\ QueueHasALeader
    /\ LeaderRuns /\ SentBound /\ GrantIsFresh /\ SpentIsRunning

\* Every request ends, with an answer, an error, or its page.
RequestsSettle == \A r \in Reqs : req[r].st # "new" ~> req[r].st \in Finished
=============================================================================
