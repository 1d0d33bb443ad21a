--------------------------- MODULE SessionProofs ----------------------------
(* Theorems about Session, for every number of tabs and of requests, in any *)
(* of their tabs, and every number of pairs of tokens.                      *)
EXTENDS Session, FiniteSetTheorems, TLAPS

\* The requests of a tab that have led a refresh are finitely many.
LEMMA LeadersFinite ==
    ASSUME NEW t, NEW L, L = {r \in Reqs : req[r].tab = t /\ req[r].retry}
    PROVE  /\ IsFiniteSet(L) /\ Cardinality(L) \in Nat
           /\ (\E r \in Reqs : req[r].tab = t /\ req[r].retry) => Cardinality(L) >= 1
<1>1. IsFiniteSet(L)
  BY FS_Subset, SessionAssumption
<1>2. Cardinality(L) \in Nat
  BY <1>1, FS_CardinalityType
<1>3. ASSUME NEW r \in Reqs, req[r].tab = t, req[r].retry PROVE Cardinality(L) >= 1
  <2>1. L # {}
    BY <1>3
  <2>2. Cardinality(L) # 0
    BY <1>1, <2>1, FS_EmptySet
  <2> QED BY <1>2, <2>2
<1> QED BY <1>1, <1>2, <1>3

\* A step that marks no request keeps SentBound, if it sends a request once and
\* only when that has no refresh to wait for, or when the refresh has ended.
LEMMA SentLemma ==
    ASSUME TypeOK, SentBound, LeaderRuns, TypeOK',
           \A r \in Reqs : req'[r].tab = req[r].tab /\ req'[r].retry = req[r].retry,
           \A r \in Reqs : req'[r].st = "new" => req[r].st = "new" /\ req'[r].sent = req[r].sent,
           \A r \in Reqs :
              \/ /\ req'[r].sent = req[r].sent
                 /\ tab'[req[r].tab].isRefreshing => tab[req[r].tab].isRefreshing
              \/ /\ req'[r].sent = req[r].sent + 1
                 /\ tab[req[r].tab].isRefreshing /\ ~tab'[req[r].tab].isRefreshing
              \/ /\ req[r].st = "new" /\ req'[r].sent = req[r].sent + 1
                 /\ tab'[req[r].tab].isRefreshing => tab[req[r].tab].isRefreshing
    PROVE  SentBound'
<1> SUFFICES ASSUME NEW r \in Reqs
             PROVE  /\ req'[r].st = "new" => req'[r].sent = 0
                    /\ req'[r].sent <= Cardinality({q \in Reqs : req'[q].tab = req'[r].tab /\ req'[q].retry})
                                        + IF tab'[req'[r].tab].isRefreshing THEN 0 ELSE 1
  BY DEF SentBound, Leaders
<1> DEFINE L == {q \in Reqs : req[q].tab = req[r].tab /\ req[q].retry}
<1>1. {q \in Reqs : req'[q].tab = req'[r].tab /\ req'[q].retry} = L
  OBVIOUS
<1>2. /\ Cardinality(L) \in Nat
      /\ (\E q \in Reqs : req[q].tab = req[r].tab /\ req[q].retry) => Cardinality(L) >= 1
  BY LeadersFinite
<1>3. /\ req[r].sent <= Cardinality(L) + IF tab[req[r].tab].isRefreshing THEN 0 ELSE 1
      /\ req[r].st = "new" => req[r].sent = 0
  BY DEF SentBound, Leaders
<1>4. /\ req[r].tab \in Tabs /\ req[r].sent \in Nat /\ req'[r].tab = req[r].tab
      /\ tab[req[r].tab].isRefreshing \in BOOLEAN /\ tab'[req[r].tab].isRefreshing \in BOOLEAN
  BY DEF TypeOK
<1>5. tab[req[r].tab].isRefreshing => Cardinality(L) >= 1
  BY <1>2, <1>4 DEF LeaderRuns
<1> HIDE DEF L
<1>6. req'[r].sent <= Cardinality(L) + IF tab'[req[r].tab].isRefreshing THEN 0 ELSE 1
  BY <1>2, <1>3, <1>4, <1>5
<1>7. req'[r].st = "new" => req'[r].sent = 0
  BY <1>3
<1> QED BY <1>1, <1>4, <1>6, <1>7

-----------------------------------------------------------------------------
(* The steps.                                                               *)

LEMMA InitLemma == Init => SessionInv
<1> SUFFICES ASSUME Init PROVE SessionInv
  OBVIOUS
<1>1. PICK on \in Placements :
        req = [r \in Reqs |-> [tab |-> on[r], st |-> "new", token |-> 0, retry |-> FALSE, sent |-> 0]]
  BY DEF Init
<1>2. on \in [Reqs -> Tabs]
  BY SessionAssumption
<1>3. /\ \A r \in Reqs : /\ rf[r] = NoCall /\ req[r].st = "new" /\ ~req[r].retry /\ req[r].sent = 0
      /\ \A t \in Tabs : ~tab[t].isRefreshing
  BY <1>1 DEF Init
<1>4. TypeOK
  <2>1. req \in [Reqs -> [tab : Tabs, st : Finished \cup {"new", "sent", "queued", "leading"},
                          token : Nat, retry : BOOLEAN, sent : Nat]]
    BY <1>1, <1>2
  <2>2. /\ issued \in Nat /\ ls \in 0 .. issued /\ jar \in 0 .. issued /\ keys \subseteq 1 .. issued
        /\ expired \subseteq 1 .. issued /\ cookie \in [token : Nat, aged : BOOLEAN]
    <3>1. /\ ls \in {0, 1} /\ jar = ls /\ issued = ls /\ keys = {ls} \ {0} /\ expired = {}
          /\ cookie = [token |-> ls, aged |-> ls = 1]
      BY DEF Init
    <3>2. (ls = 1) \in BOOLEAN
      OBVIOUS
    <3>3. cookie \in [token : Nat, aged : BOOLEAN]
      BY <3>1, <3>2
    <3> QED BY <3>1, <3>3
  <2>3. /\ tab \in [Tabs -> [page : {"app", "login", "register"}, form : {"idle", "sending", "error"},
                             isLogin : BOOLEAN, isRefreshing : BOOLEAN]]
        /\ rf \in [Reqs -> [st : {"none", "sent", "checked", "deleted", "granted", "refused", "error"},
                            with : Nat, new : Nat, heard : BOOLEAN]]
    BY DEF Init, NoCall
  <2>4. \A r \in Reqs : rf[r].with <= issued /\ rf[r].new <= issued
    BY <1>3, <2>2 DEF NoCall
  <2>5. account \in BOOLEAN /\ aborted \in BOOLEAN
    BY Zenon DEF Init
  <2> QED BY <2>1, <2>2, <2>3, <2>4, <2>5 DEF TypeOK
<1>5. CookieFollowsToken
  BY DEF Init, CookieFollowsToken
<1>6. QueueHasALeader /\ LeaderRuns /\ GrantIsFresh
  BY <1>3 DEF QueueHasALeader, LeaderRuns, GrantIsFresh, Running, NoCall
<1>7. SentBound
  <2> SUFFICES ASSUME NEW r \in Reqs
               PROVE  req[r].sent <= Cardinality(Leaders(req[r].tab))
                                      + IF tab[req[r].tab].isRefreshing THEN 0 ELSE 1
    BY <1>3 DEF SentBound
  <2>1. Cardinality(Leaders(req[r].tab)) \in Nat
    BY LeadersFinite DEF Leaders
  <2>2. req[r].tab \in Tabs
    BY <1>4 DEF TypeOK
  <2> QED BY <1>3, <2>1, <2>2
<1>8. SpentIsRunning
  BY <1>3 DEF Init, SpentIsRunning, NoCall
<1> QED BY <1>4, <1>5, <1>6, <1>7, <1>8 DEF SessionInv

\* A page load: the requests of the tab end, its refresh is not heard any more.
LEMMA LeaveLemma ==
    ASSUME SessionInv, NEW t \in Tabs, req' = Leave(t, req), rf' = Unheard(t),
           aborted' = (aborted \/ Aborts(t)),
           tab' \in [Tabs -> [page : {"app", "login", "register"}, form : {"idle", "sending", "error"},
                              isLogin : BOOLEAN, isRefreshing : BOOLEAN]],
           ~tab'[t].isRefreshing, \A u \in Tabs \ {t} : tab'[u] = tab[u],
           issued' \in Nat, issued' >= issued, account' \in BOOLEAN,
           ls' \in 0 .. issued', jar' \in 0 .. issued',
           keys' \subseteq 1 .. issued', expired' \subseteq 1 .. issued',
           cookie' \in [token : Nat, aged : BOOLEAN], cookie'.token \in {0, ls'},
           keys \subseteq keys',
           \/ UNCHANGED <<jar, keys>> /\ ls' \in {0, ls}
           \/ jar' \in keys' /\ jar' > issued
    PROVE  SessionInv'
<1> USE DEF SessionInv
<1>1. /\ \A r \in Reqs : req[r].tab # t => req'[r] = req[r] /\ rf'[r] = rf[r]
      /\ \A r \in Reqs : req[r].tab = t =>
            /\ req'[r] = IF req[r].st \notin Finished \cup {"new"} THEN [req[r] EXCEPT !.st = "gone"] ELSE req[r]
            /\ rf'[r] = [rf[r] EXCEPT !.heard = FALSE]
  BY DEF Leave, Unheard
<1>2. /\ req' \in [Reqs -> [tab : Tabs, st : Finished \cup {"new", "sent", "queued", "leading"},
                            token : Nat, retry : BOOLEAN, sent : Nat]]
      /\ \A r \in Reqs : /\ req'[r].tab = req[r].tab /\ req'[r].retry = req[r].retry
                         /\ req'[r].sent = req[r].sent
                         /\ req'[r].st = "new" => req[r].st = "new"
                         /\ req[r].tab = t => req'[r].st \in Finished \cup {"new"}
  <2>1. req' = [r \in Reqs |-> req'[r]]
    BY DEF Leave
  <2>2. ASSUME NEW r \in Reqs
        PROVE  /\ req'[r] \in [tab : Tabs, st : Finished \cup {"new", "sent", "queued", "leading"},
                                token : Nat, retry : BOOLEAN, sent : Nat]
               /\ req'[r].tab = req[r].tab /\ req'[r].retry = req[r].retry
               /\ req'[r].sent = req[r].sent
               /\ req'[r].st = "new" => req[r].st = "new"
               /\ req[r].tab = t => req'[r].st \in Finished \cup {"new"}
    <3>1. req[r] \in [tab : Tabs, st : Finished \cup {"new", "sent", "queued", "leading"},
                      token : Nat, retry : BOOLEAN, sent : Nat]
      BY DEF TypeOK
    <3>2. \/ req'[r] = req[r] /\ (req[r].tab = t => req[r].st \in Finished \cup {"new"})
          \/ req'[r] = [req[r] EXCEPT !.st = "gone"]
      BY <1>1
    <3> QED BY <3>1, <3>2 DEF Finished
  <2> QED BY <2>1, <2>2
<1>3. /\ rf' \in [Reqs -> [st : {"none", "sent", "checked", "deleted", "granted", "refused", "error"},
                           with : Nat, new : Nat, heard : BOOLEAN]]
      /\ \A r \in Reqs : /\ rf'[r].st = rf[r].st /\ rf'[r].with = rf[r].with /\ rf'[r].new = rf[r].new
                         /\ rf'[r].heard <=> rf[r].heard /\ req[r].tab # t
  <2>1. rf' = [r \in Reqs |-> rf'[r]]
    BY DEF Unheard
  <2>2. ASSUME NEW r \in Reqs
        PROVE  /\ rf'[r] \in [st : {"none", "sent", "checked", "deleted", "granted", "refused", "error"},
                               with : Nat, new : Nat, heard : BOOLEAN]
               /\ rf'[r].st = rf[r].st /\ rf'[r].with = rf[r].with /\ rf'[r].new = rf[r].new
               /\ rf'[r].heard <=> rf[r].heard /\ req[r].tab # t
    <3>1. rf[r] \in [st : {"none", "sent", "checked", "deleted", "granted", "refused", "error"},
                     with : Nat, new : Nat, heard : BOOLEAN]
      BY DEF TypeOK
    <3>2. CASE req[r].tab # t
      BY <1>1, <3>1, <3>2
    <3>3. CASE req[r].tab = t
      BY <1>1, <3>1, <3>3
    <3> QED BY <3>2, <3>3
  <2> QED BY <2>1, <2>2
<1>4. TypeOK'
  <2>1. \A r \in Reqs : rf'[r].with <= issued' /\ rf'[r].new <= issued'
    BY <1>3 DEF TypeOK
  <2>2. aborted' \in BOOLEAN
    BY DEF TypeOK, Aborts
  <2> QED BY <1>2, <1>3, <2>1, <2>2 DEF TypeOK
<1>5. CookieFollowsToken'
  BY DEF CookieFollowsToken
<1>6. QueueHasALeader'
  BY <1>1, <1>2, <1>3 DEF QueueHasALeader, Running, Finished, TypeOK
<1>7. LeaderRuns'
  <2>1. \A r \in Reqs : rf'[r].heard => req'[r].st = "leading"
    BY <1>1, <1>3 DEF LeaderRuns, Running
  <2>2. ASSUME NEW u \in Tabs, tab'[u].isRefreshing
        PROVE  \E r \in Reqs : rf'[r].heard /\ req'[r].tab = u /\ req'[r].st = "leading" /\ req'[r].retry
    <3>1. tab[u].isRefreshing /\ u # t
      BY <2>2
    <3>2. PICK r \in Reqs : Running(r) /\ req[r].tab = u /\ req[r].st = "leading" /\ req[r].retry
      BY <3>1 DEF LeaderRuns
    <3> QED BY <1>1, <3>1, <3>2 DEF Running
  <2> QED BY <2>1, <2>2 DEF LeaderRuns, Running
<1>8. SentBound'
  <2>1. \A r \in Reqs : tab'[req[r].tab].isRefreshing => tab[req[r].tab].isRefreshing
    BY DEF TypeOK
  <2> QED BY <1>2, <1>4, <2>1, SentLemma
<1>9. GrantIsFresh'
  BY <1>3 DEF GrantIsFresh, Running, TypeOK
<1>10. SpentIsRunning'
  <2> SUFFICES ASSUME ~aborted, \A r \in Reqs : req[r].tab = t => ~rf[r].heard
               PROVE  /\ \A r \in Reqs : rf'[r].st # "none" => rf'[r].heard
                      /\ ls' # 0 /\ jar' \notin keys' => \E q \in Reqs : rf'[q].heard /\ rf'[q].with = jar'
    BY DEF SpentIsRunning, Running, Aborts
  <2>1. \A r \in Reqs : rf'[r].st # "none" => rf'[r].heard
    BY <1>3 DEF SpentIsRunning, Running
  <2>2. ASSUME ls' # 0, jar' \notin keys'
        PROVE  \E q \in Reqs : rf'[q].heard /\ rf'[q].with = jar'
    <3>1. ls # 0 /\ jar \notin keys /\ jar' = jar
      BY <2>2
    <3>2. PICK q \in Reqs : Running(q) /\ rf[q].with = jar
      BY <3>1 DEF SpentIsRunning
    <3> QED BY <1>3, <3>1, <3>2 DEF Running
  <2> QED BY <2>1, <2>2
<1> QED BY <1>4, <1>5, <1>6, <1>7, <1>8, <1>9, <1>10

\* What happens on a form touches neither the tokens nor a request.
LEMMA FormLemma ==
    ASSUME SessionInv, UNCHANGED <<browser, keys, issued, expired, req, rf, aborted>>, account' \in BOOLEAN,
           tab' \in [Tabs -> [page : {"app", "login", "register"}, form : {"idle", "sending", "error"},
                              isLogin : BOOLEAN, isRefreshing : BOOLEAN]],
           \A t \in Tabs : tab'[t].isRefreshing = tab[t].isRefreshing
    PROVE  SessionInv'
<1> USE DEF SessionInv
<1>1. UNCHANGED <<ls, cookie, jar, keys, issued, expired, req, rf, aborted>>
  BY DEF browser
<1>2. TypeOK' /\ CookieFollowsToken'
  BY <1>1 DEF TypeOK, CookieFollowsToken
<1>3. QueueHasALeader' /\ LeaderRuns'
  BY <1>1 DEF QueueHasALeader, LeaderRuns, Running, TypeOK
<1>4. SentBound'
  <2>1. \A r \in Reqs : tab'[req[r].tab].isRefreshing = tab[req[r].tab].isRefreshing
    BY DEF TypeOK
  <2> QED BY <1>1, <1>2, <2>1, SentLemma
<1>5. GrantIsFresh' /\ SpentIsRunning'
  BY <1>1 DEF GrantIsFresh, SpentIsRunning, Running
<1> QED BY <1>2, <1>3, <1>4, <1>5

LEMMA TabLemma ==
    ASSUME SessionInv, NEW t \in Tabs, TabStep(t) PROVE SessionInv'
<1> USE DEF SessionInv
<1> DEFINE TabStates == [page : {"app", "login", "register"}, form : {"idle", "sending", "error"},
                         isLogin : BOOLEAN, isRefreshing : BOOLEAN]
<1>1. tab \in [Tabs -> TabStates] /\ account \in BOOLEAN
  BY DEF TypeOK
<1>2. ASSUME NEW page \in {"app", "login"}, NEW token
      PROVE  Fresh(page, token) \in TabStates /\ ~Fresh(page, token).isRefreshing
  <2>1. (HasHeader(page) /\ token # 0) \in BOOLEAN
    BY Zenon
  <2> QED BY <2>1 DEF Fresh
<1>3. ASSUME NEW p, tab' = [tab EXCEPT ![t] = p], p \in TabStates, ~p.isRefreshing
      PROVE  tab' \in [Tabs -> TabStates] /\ ~tab'[t].isRefreshing /\ \A u \in Tabs \ {t} : tab'[u] = tab[u]
  BY <1>1, <1>3
<1> HIDE DEF TabStates
<1>4. ASSUME NEW protected \in BOOLEAN, Load(t, protected) PROVE SessionInv'
  <2>1. PICK page \in {"app", "login"} :
          /\ tab' = [tab EXCEPT ![t] = Fresh(page, ls)]
          /\ cookie' = IF page = "app" /\ ls # 0 THEN [token |-> ls, aged |-> FALSE] ELSE cookie
    BY <1>4 DEF Load, Served
  <2>2. /\ UNCHANGED <<ls, jar, keys, issued, expired, account>>
        /\ req' = Leave(t, req) /\ rf' = Unheard(t) /\ aborted' = (aborted \/ Aborts(t))
    BY <1>4 DEF Load, backend
  <2>3. /\ tab' \in [Tabs -> TabStates] /\ ~tab'[t].isRefreshing
        /\ \A u \in Tabs \ {t} : tab'[u] = tab[u]
    BY <1>2, <1>3, <2>1
  <2>4. cookie' \in [token : Nat, aged : BOOLEAN] /\ cookie'.token \in {0, ls}
    BY <2>1 DEF TypeOK, CookieFollowsToken
  <2> QED BY <2>2, <2>3, <2>4, LeaveLemma DEF TabStates, TypeOK
<1>5. CASE Logout(t)
  <2>1. /\ UNCHANGED <<jar, keys, issued, expired, account>> /\ ls' = 0 /\ cookie' = NoCookie
        /\ tab' = [tab EXCEPT ![t] = Fresh("app", 0)]
        /\ req' = Leave(t, req) /\ rf' = Unheard(t) /\ aborted' = (aborted \/ Aborts(t))
    BY <1>5 DEF Logout, Clear, backend
  <2>2. /\ tab' \in [Tabs -> TabStates] /\ ~tab'[t].isRefreshing
        /\ \A u \in Tabs \ {t} : tab'[u] = tab[u]
    BY <1>2, <1>3, <2>1
  <2>3. cookie' \in [token : Nat, aged : BOOLEAN] /\ cookie'.token = 0
    BY <2>1 DEF NoCookie
  <2> QED BY <2>1, <2>2, <2>3, LeaveLemma DEF TabStates, TypeOK
<1>6. CASE LoginSucceeds(t)
  <2>1. /\ issued' = issued + 1 /\ keys' = keys \cup {issued'} /\ jar' = issued' /\ ls' = issued'
        /\ cookie' = [token |-> issued', aged |-> FALSE] /\ UNCHANGED <<account, expired>>
        /\ tab' = [tab EXCEPT ![t] = Fresh("app", ls')]
        /\ req' = Leave(t, req) /\ rf' = Unheard(t) /\ aborted' = (aborted \/ Aborts(t))
    BY <1>6 DEF LoginSucceeds
  <2>2. /\ tab' \in [Tabs -> TabStates] /\ ~tab'[t].isRefreshing
        /\ \A u \in Tabs \ {t} : tab'[u] = tab[u]
    BY <1>2, <1>3, <2>1
  <2>3. /\ issued \in Nat /\ keys \subseteq 1 .. issued /\ expired \subseteq 1 .. issued
        /\ account \in BOOLEAN
    BY DEF TypeOK
  <2>4. /\ issued' \in Nat /\ issued' > issued /\ issued' \in 0 .. issued'
        /\ keys' \subseteq 1 .. issued' /\ expired' \subseteq 1 .. issued'
        /\ cookie' \in [token : Nat, aged : BOOLEAN] /\ cookie'.token = ls'
        /\ jar' \in keys' /\ keys \subseteq keys'
    BY <2>1, <2>3
  <2> QED BY <2>1, <2>2, <2>3, <2>4, LeaveLemma DEF TabStates
<1>7. ASSUME NEW p, tab' = [tab EXCEPT ![t] = p], p \in TabStates, p.isRefreshing = tab[t].isRefreshing,
             UNCHANGED <<browser, keys, issued, expired, req, rf, aborted>>, account' \in BOOLEAN
      PROVE  SessionInv'
  <2>1. tab' \in [Tabs -> TabStates] /\ \A u \in Tabs : tab'[u].isRefreshing = tab[u].isRefreshing
    BY <1>1, <1>7
  <2> QED BY <1>7, <2>1, FormLemma DEF TabStates
<1>8. tab[t] \in TabStates
  BY <1>1
<1>9. ASSUME NEW page \in {"login", "register"}, NEW form \in {"idle", "sending", "error"}
      PROVE  LET p == [tab[t] EXCEPT !.page = page, !.form = form]
             IN  p \in TabStates /\ p.isRefreshing = tab[t].isRefreshing
  BY <1>8 DEF TabStates
<1>10. ASSUME NEW form \in {"idle", "sending", "error"}
      PROVE  LET p == [tab[t] EXCEPT !.form = form]
             IN  p \in TabStates /\ p.isRefreshing = tab[t].isRefreshing
  BY <1>8 DEF TabStates
<1>11. ASSUME NEW page \in {"login", "register"}, GoTo(t, page) PROVE SessionInv'
  <2>1. tab' = [tab EXCEPT ![t] = [tab[t] EXCEPT !.page = page, !.form = "idle"]]
    BY <1>1, <1>11 DEF GoTo
  <2> QED BY <1>1, <1>7, <1>9, <1>11, <2>1 DEF GoTo, backend
<1>12. ASSUME NEW form \in {"idle", "sending", "error"}, SetForm(t, form) PROVE SessionInv'
  <2>1. tab' = [tab EXCEPT ![t] = [tab[t] EXCEPT !.form = form]]
    BY <1>1, <1>12 DEF SetForm
  <2> QED BY <1>1, <1>7, <1>10, <1>12, <2>1 DEF SetForm, backend
<1>13. CASE RegisterReturns(t)
  <2>1. \/ tab' = [tab EXCEPT ![t] = [tab[t] EXCEPT !.page = "login", !.form = "idle"]]
        \/ tab' = [tab EXCEPT ![t] = [tab[t] EXCEPT !.form = "error"]]
    BY <1>1, <1>13 DEF RegisterReturns
  <2>2. account' \in BOOLEAN /\ UNCHANGED <<browser, keys, issued, expired, req, rf, aborted>>
    BY <1>1, <1>13 DEF RegisterReturns
  <2> QED BY <1>7, <1>9, <1>10, <2>1, <2>2
<1>14. CASE RegisterSubmit(t) \/ LoginSubmit(t)
  BY <1>12, <1>14 DEF RegisterSubmit, LoginSubmit
<1>15. CASE LoginFails(t)
  <2>1. tab' = [tab EXCEPT ![t] = [tab[t] EXCEPT !.form = "error"]]
    BY <1>1, <1>15 DEF LoginFails
  <2> QED BY <1>1, <1>7, <1>10, <1>15, <2>1 DEF LoginFails, backend
<1> QED BY <1>4, <1>5, <1>6, <1>11, <1>13, <1>14, <1>15 DEF TabStep

\* A request changes its own state, and no refresh begins or ends.
LEMMA CallLemma ==
    ASSUME SessionInv, NEW r \in Reqs, NEW c,
           c \in [tab : Tabs, st : Finished \cup {"new", "sent", "queued", "leading"},
                  token : Nat, retry : BOOLEAN, sent : Nat],
           req' = [req EXCEPT ![r] = c], UNCHANGED <<browser, backend, tab, rf, aborted>>,
           c.tab = req[r].tab, c.retry = req[r].retry, c.st # "new", c.st # "leading",
           req[r].st \in {"new", "sent"},
           c.st = "queued" => tab[req[r].tab].isRefreshing,
           c.st = "queued" => \E q \in Reqs : req[q].tab = req[r].tab /\ req[q].st = "leading" /\ Running(q),
           c.sent = req[r].sent \/ (req[r].st = "new" /\ c.sent = req[r].sent + 1)
    PROVE  SessionInv'
<1> USE DEF SessionInv
<1>1. UNCHANGED <<ls, cookie, jar, keys, issued, expired, account, tab, rf, aborted>>
  BY DEF browser, backend
<1>2. /\ req'[r] = c /\ \A q \in Reqs \ {r} : req'[q] = req[q]
      /\ \A q \in Reqs : req'[q].tab = req[q].tab /\ req'[q].retry = req[q].retry
      /\ \A q \in Reqs : req[q].st = "leading" => req'[q] = req[q]
  BY DEF TypeOK
<1>3. TypeOK'
  BY <1>1 DEF TypeOK
<1>4. CookieFollowsToken'
  BY <1>1 DEF CookieFollowsToken
<1>5. QueueHasALeader'
  <2>1. ASSUME NEW q \in Reqs, req'[q].st \in {"queued", "leading"}
        PROVE  /\ tab[req[q].tab].isRefreshing
               /\ \E p \in Reqs : req[p].tab = req[q].tab /\ req[p].st = "leading" /\ Running(p)
    <3>1. CASE q = r
      BY <1>2, <2>1, <3>1
    <3>2. CASE q # r
      BY <1>2, <2>1, <3>2 DEF QueueHasALeader
    <3> QED BY <3>1, <3>2
  <2> QED BY <1>1, <1>2, <2>1 DEF QueueHasALeader, Running
<1>6. LeaderRuns'
  BY <1>1, <1>2 DEF LeaderRuns, Running
<1>7. SentBound'
  <2>1. \A q \in Reqs : req'[q].st = "new" => req[q].st = "new" /\ req'[q].sent = req[q].sent
    BY <1>2
  <2>2. \A q \in Reqs : \/ req'[q].sent = req[q].sent
                        \/ req[q].st = "new" /\ req'[q].sent = req[q].sent + 1
    BY <1>2
  <2> QED BY <1>1, <1>2, <1>3, <2>1, <2>2, SentLemma
<1>8. GrantIsFresh' /\ SpentIsRunning'
  BY <1>1 DEF GrantIsFresh, SpentIsRunning, Running
<1> QED BY <1>3, <1>4, <1>5, <1>6, <1>7, <1>8

LEMMA RequestLemma ==
    ASSUME SessionInv, NEW r \in Reqs, Send(r) \/ Answered(r) \/ GivesUp(r) \/ Queues(r)
    PROVE  SessionInv'
<1>1. /\ req[r] \in [tab : Tabs, st : Finished \cup {"new", "sent", "queued", "leading"},
                      token : Nat, retry : BOOLEAN, sent : Nat]
      /\ req \in [Reqs -> [tab : Tabs, st : Finished \cup {"new", "sent", "queued", "leading"},
                      token : Nat, retry : BOOLEAN, sent : Nat]]
      /\ ls \in Nat
  BY DEF SessionInv, TypeOK
<1>2. CASE Send(r)
  <2> DEFINE c == [tab |-> req[r].tab, st |-> "sent", token |-> ls, retry |-> req[r].retry,
                   sent |-> req[r].sent + 1]
  <2>1. req[r].tab \in Tabs /\ req[r].retry \in BOOLEAN /\ req[r].sent \in Nat /\ req[r].sent + 1 \in Nat
    BY <1>1
  <2>2. /\ c \in [tab : Tabs, st : Finished \cup {"new", "sent", "queued", "leading"},
                   token : Nat, retry : BOOLEAN, sent : Nat]
        /\ c.tab = req[r].tab /\ c.retry = req[r].retry /\ c.st = "sent" /\ c.sent = req[r].sent + 1
    BY <1>1, <2>1
  <2>3. req'[r] = c
    BY <1>1, <1>2 DEF Send, Sent
  <2>4. req' = [req EXCEPT ![r] = req'[r]]
    BY <1>1, <1>2 DEF Send
  <2>5. UNCHANGED <<browser, backend, tab, rf, aborted>> /\ req[r].st = "new"
    BY <1>2 DEF Send
  <2> HIDE DEF c
  <2> QED BY <2>2, <2>3, <2>4, <2>5, CallLemma
<1>3. ASSUME NEW st \in {"done", "failed", "queued"}, Settles(r, st), req[r].st = "sent",
             st = "queued" => tab[req[r].tab].isRefreshing,
             st = "queued" => \E q \in Reqs : req[q].tab = req[r].tab /\ req[q].st = "leading" /\ Running(q)
      PROVE  SessionInv'
  <2> DEFINE c == [req[r] EXCEPT !.st = st]
  <2>1. /\ c \in [tab : Tabs, st : Finished \cup {"new", "sent", "queued", "leading"},
                   token : Nat, retry : BOOLEAN, sent : Nat]
        /\ c.tab = req[r].tab /\ c.retry = req[r].retry /\ c.st = st /\ c.sent = req[r].sent
    BY <1>1 DEF Finished
  <2>2. req' = [req EXCEPT ![r] = c] /\ UNCHANGED <<browser, backend, tab, rf, aborted>>
    BY <1>1, <1>3 DEF Settles
  <2> HIDE DEF c
  <2> QED BY <1>3, <2>1, <2>2, CallLemma
<1>4. CASE Answered(r) \/ GivesUp(r)
  BY <1>3, <1>4 DEF Answered, GivesUp, Refused
<1>5. CASE Queues(r)
  <2>1. req[r].st = "sent" /\ tab[req[r].tab].isRefreshing /\ Settles(r, "queued")
    BY <1>5 DEF Queues, Refused
  <2>2. \E q \in Reqs : req[q].tab = req[r].tab /\ req[q].st = "leading" /\ Running(q)
    BY <1>1, <2>1 DEF SessionInv, LeaderRuns
  <2> QED BY <1>3, <2>1, <2>2
<1> QED BY <1>2, <1>4, <1>5

\* A token that runs out.
LEMMA ExpireLemma ==
    ASSUME SessionInv, NEW n, Expire(n), n \in 1 .. issued PROVE SessionInv'
<1> USE DEF SessionInv
<1>1. UNCHANGED <<ls, jar, account, keys, issued, tab, req, rf, aborted>>
  BY DEF Expire
<1>2. expired' = expired \cup {n} /\ (cookie' = cookie \/ cookie' = NoCookie)
  BY DEF Expire
<1>3. TypeOK' /\ CookieFollowsToken'
  <2>1. NoCookie \in [token : Nat, aged : BOOLEAN] /\ NoCookie.token = 0
    BY DEF NoCookie
  <2>2. cookie' \in [token : Nat, aged : BOOLEAN] /\ expired' \subseteq 1 .. issued
    BY <1>2, <2>1 DEF TypeOK
  <2>3. TypeOK'
    BY <1>1, <2>2 DEF TypeOK
  <2>4. CookieFollowsToken'
    BY <1>1, <1>2, <2>1 DEF CookieFollowsToken
  <2> QED BY <2>3, <2>4
<1>4. QueueHasALeader' /\ LeaderRuns' /\ SentBound' /\ GrantIsFresh' /\ SpentIsRunning'
  BY <1>1 DEF QueueHasALeader, LeaderRuns, SentBound, Leaders, GrantIsFresh, SpentIsRunning, Running
<1> QED BY <1>3, <1>4

\* The 401 that begins a refresh: nobody in the tab waits or refreshes, and the
\* new leader pays for what the tab has sent so far.
LEMMA LeadsLemma ==
    ASSUME SessionInv, NEW r \in Reqs, Leads(r) PROVE SessionInv'
<1> USE DEF SessionInv
<1> DEFINE t == req[r].tab
           c == [req[r] EXCEPT !.st = "leading", !.retry = TRUE]
           f == [st |-> "sent", with |-> jar, new |-> 0, heard |-> TRUE]
           w == [tab[t] EXCEPT !.isRefreshing = TRUE]
<1>1. /\ req[r] \in [tab : Tabs, st : Finished \cup {"new", "sent", "queued", "leading"},
                      token : Nat, retry : BOOLEAN, sent : Nat]
      /\ req \in [Reqs -> [tab : Tabs, st : Finished \cup {"new", "sent", "queued", "leading"},
                      token : Nat, retry : BOOLEAN, sent : Nat]]
      /\ rf \in [Reqs -> [st : {"none", "sent", "checked", "deleted", "granted", "refused", "error"},
                          with : Nat, new : Nat, heard : BOOLEAN]]
      /\ tab \in [Tabs -> [page : {"app", "login", "register"}, form : {"idle", "sending", "error"},
                           isLogin : BOOLEAN, isRefreshing : BOOLEAN]]
      /\ tab[t] \in [page : {"app", "login", "register"}, form : {"idle", "sending", "error"},
                     isLogin : BOOLEAN, isRefreshing : BOOLEAN]
      /\ issued \in Nat /\ jar \in 0 .. issued /\ keys \subseteq 1 .. issued /\ t \in Tabs
  BY DEF TypeOK
<1>2. /\ req[r].st = "sent" /\ ~req[r].retry /\ ~tab[t].isRefreshing
      /\ req' = [req EXCEPT ![r] = c] /\ rf' = [rf EXCEPT ![r] = f] /\ tab' = [tab EXCEPT ![t] = w]
      /\ UNCHANGED <<ls, cookie, jar, account, keys, issued, expired, aborted>>
  BY <1>1 DEF Leads, Refused, MayRefresh, browser, backend
<1>3. /\ c.tab = t /\ c.st = "leading" /\ c.retry /\ c.sent = req[r].sent
      /\ c \in [tab : Tabs, st : Finished \cup {"new", "sent", "queued", "leading"},
                token : Nat, retry : BOOLEAN, sent : Nat]
      /\ w.isRefreshing
      /\ w \in [page : {"app", "login", "register"}, form : {"idle", "sending", "error"},
                isLogin : BOOLEAN, isRefreshing : BOOLEAN]
      /\ f.st = "sent" /\ f.with = jar /\ f.new = 0 /\ f.heard
      /\ f \in [st : {"none", "sent", "checked", "deleted", "granted", "refused", "error"},
                with : Nat, new : Nat, heard : BOOLEAN]
  <2>1. /\ c.tab = t /\ c.st = "leading" /\ c.retry /\ c.sent = req[r].sent
        /\ c \in [tab : Tabs, st : Finished \cup {"new", "sent", "queued", "leading"},
                  token : Nat, retry : BOOLEAN, sent : Nat]
    BY <1>1
  <2>2. /\ w.isRefreshing
        /\ w \in [page : {"app", "login", "register"}, form : {"idle", "sending", "error"},
                  isLogin : BOOLEAN, isRefreshing : BOOLEAN]
    BY <1>1
  <2>3. jar \in Nat
    BY <1>1
  <2>4. /\ f.st = "sent" /\ f.with = jar /\ f.new = 0 /\ f.heard
        /\ f \in [st : {"none", "sent", "checked", "deleted", "granted", "refused", "error"},
                  with : Nat, new : Nat, heard : BOOLEAN]
    BY <2>3
  <2> QED BY <2>1, <2>2, <2>4
<1> HIDE DEF c, f, w
<1>4. /\ req'[r] = c /\ \A q \in Reqs \ {r} : req'[q] = req[q]
      /\ rf'[r] = f /\ \A q \in Reqs \ {r} : rf'[q] = rf[q]
      /\ tab'[t] = w /\ \A u \in Tabs \ {t} : tab'[u] = tab[u]
      /\ \A q \in Reqs : req'[q].tab = req[q].tab /\ req'[q].sent = req[q].sent
  BY <1>1, <1>2, <1>3
<1>5. /\ \A q \in Reqs : req[q].tab = t => req[q].st \notin {"queued", "leading"} /\ ~Running(q)
      /\ ~Running(r)
  BY <1>2 DEF QueueHasALeader, LeaderRuns
<1>6. TypeOK'
  <2>1. \A q \in Reqs : rf'[q].with <= issued' /\ rf'[q].new <= issued'
    BY <1>1, <1>2, <1>3, <1>4 DEF TypeOK
  <2> QED BY <1>1, <1>2, <1>3, <2>1 DEF TypeOK
<1>7. CookieFollowsToken'
  BY <1>2 DEF CookieFollowsToken
<1>8. QueueHasALeader'
  <2>1. ASSUME NEW q \in Reqs, req'[q].st \in {"queued", "leading"}
        PROVE  /\ tab'[req'[q].tab].isRefreshing
               /\ \E p \in Reqs : req'[p].tab = req'[q].tab /\ req'[p].st = "leading" /\ rf'[p].heard
    <3>1. CASE q = r
      BY <1>3, <1>4, <3>1
    <3>2. CASE q # r
      <4>1. req[q].st \in {"queued", "leading"} /\ req[q].tab # t /\ req[q].tab \in Tabs
        BY <1>1, <1>4, <1>5, <2>1, <3>2
      <4>2. tab[req[q].tab].isRefreshing
        BY <4>1 DEF QueueHasALeader
      <4>3. PICK p \in Reqs : req[p].tab = req[q].tab /\ req[p].st = "leading" /\ Running(p)
        BY <4>1 DEF QueueHasALeader
      <4> QED BY <1>4, <4>1, <4>2, <4>3 DEF Running
    <3> QED BY <3>1, <3>2
  <2>2. ASSUME NEW p \in Reqs, NEW q \in Reqs, rf'[p].heard, rf'[q].heard, req'[p].tab = req'[q].tab
        PROVE  p = q
    BY <1>4, <1>5, <2>2 DEF QueueHasALeader, Running
  <2> QED BY <2>1, <2>2 DEF QueueHasALeader, Running
<1>9. LeaderRuns'
  <2>1. \A q \in Reqs : rf'[q].heard => req'[q].st = "leading"
    BY <1>3, <1>4 DEF LeaderRuns, Running
  <2>2. ASSUME NEW u \in Tabs, tab'[u].isRefreshing
        PROVE  \E p \in Reqs : rf'[p].heard /\ req'[p].tab = u /\ req'[p].st = "leading" /\ req'[p].retry
    <3>1. CASE u = t
      BY <1>3, <1>4, <3>1
    <3>2. CASE u # t
      <4>1. PICK p \in Reqs : Running(p) /\ req[p].tab = u /\ req[p].st = "leading" /\ req[p].retry
        BY <1>4, <2>2, <3>2 DEF LeaderRuns
      <4> QED BY <1>4, <1>5, <4>1 DEF Running
    <3> QED BY <3>1, <3>2
  <2> QED BY <2>1, <2>2 DEF LeaderRuns, Running
<1>10. SentBound'
  <2> SUFFICES ASSUME NEW q \in Reqs
               PROVE  /\ req'[q].st = "new" => req'[q].sent = 0
                      /\ req'[q].sent <= Cardinality({p \in Reqs : req'[p].tab = req'[q].tab /\ req'[p].retry})
                                          + IF tab'[req'[q].tab].isRefreshing THEN 0 ELSE 1
    BY DEF SentBound, Leaders
  <2> DEFINE L == {p \in Reqs : req[p].tab = req[q].tab /\ req[p].retry}
             M == {p \in Reqs : req'[p].tab = req'[q].tab /\ req'[p].retry}
  <2>1. /\ req[q].st = "new" => req[q].sent = 0
        /\ req[q].sent <= Cardinality(L) + IF tab[req[q].tab].isRefreshing THEN 0 ELSE 1
        /\ req[q].sent \in Nat /\ req[q].tab \in Tabs
    BY <1>1 DEF SentBound, Leaders
  <2>2. IsFiniteSet(L) /\ Cardinality(L) \in Nat
    BY LeadersFinite
  <2>3. req'[q].st = "new" => req'[q].sent = 0
    BY <1>3, <1>4, <2>1
  <2>4. CASE req[q].tab # t
    <3>1. M = L /\ tab'[req'[q].tab] = tab[req[q].tab]
      BY <1>2, <1>3, <1>4, <2>1, <2>4
    <3> QED BY <1>4, <2>1, <2>3, <3>1
  <2>5. CASE req[q].tab = t
    <3>1. M = L \cup {r} /\ r \notin L
      BY <1>2, <1>3, <1>4, <2>5
    <3>2. Cardinality(M) = Cardinality(L) + 1
      BY <2>2, <3>1, FS_AddElement
    <3>3. tab'[req'[q].tab].isRefreshing /\ req'[q].sent = req[q].sent
      BY <1>3, <1>4, <2>5
    <3>4. req[q].sent <= Cardinality(L) + 1
      BY <1>2, <2>1, <2>5
    <3> HIDE DEF L, M
    <3>5. req'[q].sent <= Cardinality(M)
      BY <3>2, <3>3, <3>4
    <3>6. Cardinality(M) + 0 = Cardinality(M)
      BY <2>2, <3>2
    <3> QED BY <2>3, <3>3, <3>5, <3>6 DEF M
  <2> QED BY <2>4, <2>5
<1>11. GrantIsFresh'
  <2> SUFFICES ASSUME NEW p \in Reqs, rf'[p].heard, rf'[p].st = "granted"
               PROVE  /\ rf'[p].new \in keys /\ rf'[p].new # jar
                      /\ \A q \in Reqs : rf'[q].with # rf'[p].new /\ (q # p => rf'[q].new # rf'[p].new)
    BY <1>2 DEF GrantIsFresh, Running
  <2>1. p # r /\ rf'[p] = rf[p]
    BY <1>3, <1>4
  <2>2. /\ rf[p].new \in keys /\ rf[p].new # jar /\ rf[p].new # 0
        /\ \A q \in Reqs : rf[q].with # rf[p].new /\ (q # p => rf[q].new # rf[p].new)
    BY <1>1, <2>1 DEF GrantIsFresh, Running
  <2> QED BY <1>3, <1>4, <2>1, <2>2
<1>12. SpentIsRunning'
  BY <1>2, <1>3, <1>4, <1>5 DEF SpentIsRunning, Running
<1> QED BY <1>6, <1>7, <1>8, <1>9, <1>10, <1>11, <1>12

\* A step of the server changes no page and no request.
LEMMA ServerLemma ==
    ASSUME SessionInv, NEW r \in Reqs, NEW f,
           f \in [st : {"none", "sent", "checked", "deleted", "granted", "refused", "error"},
                  with : Nat, new : Nat, heard : BOOLEAN],
           rf' = [rf EXCEPT ![r] = f], rf[r].st # "none", f.heard = rf[r].heard, f.with = rf[r].with,
           UNCHANGED <<browser, account, expired, tab, req, aborted>>,
           \/ f.st # "granted" /\ f.new = rf[r].new /\ UNCHANGED <<keys, issued>>
           \/ f.st # "granted" /\ f.new = rf[r].new /\ UNCHANGED issued /\ keys' = keys \ {rf[r].with}
           \/ f.new = issued' /\ issued' = issued + 1 /\ keys' = keys \cup {issued'}
    PROVE  SessionInv'
<1> USE DEF SessionInv
<1>1. UNCHANGED <<ls, cookie, jar, account, expired, tab, req, aborted>>
  BY DEF browser
<1>2. /\ rf'[r] = f /\ \A q \in Reqs \ {r} : rf'[q] = rf[q]
      /\ \A q \in Reqs : rf'[q].heard = rf[q].heard /\ rf'[q].with = rf[q].with
      /\ \A q \in Reqs : rf[q].with \in Nat /\ rf[q].new \in Nat /\ rf[q].with <= issued /\ rf[q].new <= issued
      /\ issued \in Nat /\ jar \in 0 .. issued /\ keys \subseteq 1 .. issued
  BY DEF TypeOK
<1>3. TypeOK'
  <2>1. /\ issued' \in Nat /\ issued' >= issued /\ f.new <= issued'
        /\ keys' \subseteq keys \cup {issued'} /\ (issued' = issued => keys' \subseteq keys)
        /\ issued' \in {issued, issued + 1}
    <3>1. CASE UNCHANGED issued /\ f.new = rf[r].new /\ keys' \subseteq keys
      BY <1>2, <3>1
    <3>2. CASE f.new = issued' /\ issued' = issued + 1 /\ keys' = keys \cup {issued'}
      BY <1>2, <3>2
    <3> QED BY <3>1, <3>2
  <2>5. keys' \subseteq 1 .. issued'
    BY <1>2, <2>1
  <2>2. \A q \in Reqs : rf'[q].with <= issued' /\ rf'[q].new <= issued'
    BY <1>2, <2>1
  <2>3. /\ ls \in 0 .. issued' /\ jar \in 0 .. issued' /\ expired \subseteq 1 .. issued'
    BY <1>2, <2>1 DEF TypeOK
  <2>4. rf' \in [Reqs -> [st : {"none", "sent", "checked", "deleted", "granted", "refused", "error"},
                          with : Nat, new : Nat, heard : BOOLEAN]]
    BY DEF TypeOK
  <2> QED BY <1>1, <2>1, <2>2, <2>3, <2>4, <2>5 DEF TypeOK
<1>4. CookieFollowsToken' /\ QueueHasALeader' /\ LeaderRuns' /\ SentBound'
  <2>1. CookieFollowsToken' /\ SentBound'
    BY <1>1 DEF CookieFollowsToken, SentBound, Leaders
  <2>2. QueueHasALeader'
    BY <1>1, <1>2 DEF QueueHasALeader, Running
  <2>3. LeaderRuns'
    BY <1>1, <1>2 DEF LeaderRuns, Running
  <2> QED BY <2>1, <2>2, <2>3
<1>5. GrantIsFresh'
  <2> SUFFICES ASSUME NEW p \in Reqs, rf[p].heard, rf'[p].st = "granted"
               PROVE  /\ rf'[p].new \in keys' /\ rf'[p].new # jar
                      /\ \A q \in Reqs : rf[q].with # rf'[p].new /\ (q # p => rf'[q].new # rf'[p].new)
    BY <1>1, <1>2 DEF GrantIsFresh, Running
  <2>1. CASE p # r
    <3>1. /\ rf[p].new \in keys /\ rf[p].new # jar /\ rf'[p] = rf[p]
          /\ \A q \in Reqs : rf[q].with # rf[p].new /\ (q # p => rf[q].new # rf[p].new)
      BY <1>2, <2>1 DEF GrantIsFresh, Running
    <3>2. rf[p].new \in keys'
      BY <3>1
    <3>3. f.new # rf[p].new
      BY <1>2, <2>1, <3>1
    <3> QED BY <1>2, <3>1, <3>2, <3>3
  <2>2. CASE p = r
    <3>1. f.st = "granted" /\ f.new = issued + 1 /\ f.new \in keys'
      BY <1>2, <2>2
    <3> QED BY <1>2, <2>2, <3>1
  <2> QED BY <2>1, <2>2
<1>6. SpentIsRunning'
  <2> SUFFICES ASSUME ~aborted
               PROVE  /\ \A q \in Reqs : rf'[q].st # "none" => rf[q].heard
                      /\ ls # 0 /\ jar \notin keys' => \E q \in Reqs : rf[q].heard /\ rf[q].with = jar
    BY <1>1, <1>2 DEF SpentIsRunning, Running
  <2>1. rf[r].heard
    BY DEF SpentIsRunning, Running
  <2> QED BY <1>2, <2>1 DEF SpentIsRunning, Running
<1> QED BY <1>3, <1>4, <1>5, <1>6

LEMMA RefreshLemma ==
    ASSUME SessionInv, NEW r \in Reqs, ServerStep(r) \/ RefreshErrs(r) PROVE SessionInv'
<1>1. /\ rf[r] \in [st : {"none", "sent", "checked", "deleted", "granted", "refused", "error"},
                     with : Nat, new : Nat, heard : BOOLEAN]
      /\ rf \in [Reqs -> [st : {"none", "sent", "checked", "deleted", "granted", "refused", "error"},
                     with : Nat, new : Nat, heard : BOOLEAN]]
      /\ issued \in Nat
  BY DEF SessionInv, TypeOK
<1>2. ASSUME NEW from \in {"sent", "checked", "deleted", "granted"},
             NEW to \in {"checked", "deleted", "refused", "error"}, Goes(r, from, to),
             keys' = keys \/ keys' = keys \ {rf[r].with}
      PROVE  SessionInv'
  <2> DEFINE f == [rf[r] EXCEPT !.st = to]
  <2>1. /\ f \in [st : {"none", "sent", "checked", "deleted", "granted", "refused", "error"},
                  with : Nat, new : Nat, heard : BOOLEAN]
        /\ f.heard = rf[r].heard /\ f.with = rf[r].with /\ f.new = rf[r].new /\ f.st = to
    BY <1>1
  <2>2. /\ rf' = [rf EXCEPT ![r] = f] /\ rf[r].st # "none"
        /\ UNCHANGED <<browser, account, expired, tab, req, aborted>> /\ UNCHANGED issued
    BY <1>1, <1>2 DEF Goes
  <2> HIDE DEF f
  <2> QED BY <1>2, <2>1, <2>2, ServerLemma
<1>3. CASE RefreshChecks(r)
  BY <1>2, <1>3 DEF RefreshChecks
<1>4. CASE RefreshDeletes(r)
  BY <1>2, <1>4 DEF RefreshDeletes
<1>5. CASE RefreshErrs(r)
  BY <1>2, <1>5 DEF RefreshErrs
<1>6. CASE RefreshStores(r)
  <2> DEFINE f == [st |-> "granted", with |-> rf[r].with, new |-> issued + 1, heard |-> rf[r].heard]
  <2>1. rf[r].with \in Nat /\ rf[r].heard \in BOOLEAN /\ issued + 1 \in Nat
    BY <1>1
  <2>2. /\ f \in [st : {"none", "sent", "checked", "deleted", "granted", "refused", "error"},
                  with : Nat, new : Nat, heard : BOOLEAN]
        /\ f.heard = rf[r].heard /\ f.with = rf[r].with /\ f.new = issued + 1
    BY <2>1
  <2>3. rf'[r] = f
    BY <1>1, <1>6 DEF RefreshStores
  <2>4. rf' = [rf EXCEPT ![r] = rf'[r]]
    BY <1>1, <1>6 DEF RefreshStores
  <2>5. /\ rf[r].st # "none" /\ issued' = issued + 1 /\ keys' = keys \cup {issued'}
        /\ UNCHANGED <<browser, account, expired, tab, req, aborted>>
    BY <1>6 DEF RefreshStores
  <2> HIDE DEF f
  <2> QED BY <2>2, <2>3, <2>4, <2>5, ServerLemma
<1> QED BY <1>3, <1>4, <1>5, <1>6 DEF ServerStep

\* The answer of a refresh: whoever waited goes on or fails, and the tab is free.
LEMMA ReturnLemma ==
    ASSUME SessionInv, NEW r \in Reqs, NEW v, rf[r].heard,
           v \in [page : {"app", "login", "register"}, form : {"idle", "sending", "error"},
                  isLogin : BOOLEAN, isRefreshing : BOOLEAN],
           ~v.isRefreshing,
           tab' = [tab EXCEPT ![req[r].tab] = v], rf' = [rf EXCEPT ![r] = NoCall],
           UNCHANGED backend, UNCHANGED aborted,
           ls' \in 0 .. issued, jar' \in 0 .. issued, cookie' \in [token : Nat, aged : BOOLEAN],
           cookie'.token \in {0, ls'},
           req' \in [Reqs -> [tab : Tabs, st : Finished \cup {"new", "sent", "queued", "leading"},
                              token : Nat, retry : BOOLEAN, sent : Nat]],
           \A q \in Reqs : req[q].tab # req[r].tab => req'[q] = req[q],
           \A q \in Reqs : req[q].tab = req[r].tab =>
              /\ req'[q].tab = req[q].tab /\ req'[q].retry = req[q].retry
              /\ req'[q].st \notin {"queued", "leading"}
              /\ req'[q].st = "new" => req[q].st = "new" /\ req'[q].sent = req[q].sent
              /\ req'[q].sent \in {req[q].sent, req[q].sent + 1},
           \/ rf[r].st = "granted" /\ jar' = rf[r].new
           \/ ls' = 0 /\ jar' \in {0, jar}
    PROVE  SessionInv'
<1> USE DEF SessionInv
<1> DEFINE t == req[r].tab
<1>1. /\ UNCHANGED <<account, keys, issued, expired, aborted>>
      /\ issued \in Nat /\ keys \subseteq 1 .. issued /\ t \in Tabs
      /\ rf \in [Reqs -> [st : {"none", "sent", "checked", "deleted", "granted", "refused", "error"},
                          with : Nat, new : Nat, heard : BOOLEAN]]
      /\ tab \in [Tabs -> [page : {"app", "login", "register"}, form : {"idle", "sending", "error"},
                           isLogin : BOOLEAN, isRefreshing : BOOLEAN]]
      /\ \A q \in Reqs : req[q].tab \in Tabs
  BY DEF backend, TypeOK
<1>2. /\ NoCall.st = "none" /\ NoCall.with = 0 /\ NoCall.new = 0 /\ ~NoCall.heard
      /\ NoCall \in [st : {"none", "sent", "checked", "deleted", "granted", "refused", "error"},
                     with : Nat, new : Nat, heard : BOOLEAN]
  BY DEF NoCall
<1>3. /\ rf'[r] = NoCall /\ \A q \in Reqs \ {r} : rf'[q] = rf[q]
      /\ tab'[t] = v /\ \A u \in Tabs \ {t} : tab'[u] = tab[u]
      /\ \A q \in Reqs : req'[q].tab = req[q].tab /\ req'[q].retry = req[q].retry
  BY <1>1
<1>4. /\ req[r].st = "leading" /\ tab[t].isRefreshing
      /\ \A q \in Reqs : req[q].tab = t /\ rf[q].heard => q = r
  BY DEF LeaderRuns, QueueHasALeader, Running
<1>5. TypeOK'
  <2>1. rf' \in [Reqs -> [st : {"none", "sent", "checked", "deleted", "granted", "refused", "error"},
                          with : Nat, new : Nat, heard : BOOLEAN]]
    BY <1>1, <1>2
  <2>2. \A q \in Reqs : rf'[q].with <= issued /\ rf'[q].new <= issued
    BY <1>1, <1>2, <1>3 DEF TypeOK
  <2>3. tab' \in [Tabs -> [page : {"app", "login", "register"}, form : {"idle", "sending", "error"},
                           isLogin : BOOLEAN, isRefreshing : BOOLEAN]]
    BY <1>1
  <2> QED BY <1>1, <2>1, <2>2, <2>3 DEF TypeOK
<1>6. CookieFollowsToken'
  BY DEF CookieFollowsToken
<1>7. QueueHasALeader'
  <2>1. ASSUME NEW q \in Reqs, req'[q].st \in {"queued", "leading"}
        PROVE  /\ tab'[req'[q].tab].isRefreshing
               /\ \E p \in Reqs : req'[p].tab = req'[q].tab /\ req'[p].st = "leading" /\ rf'[p].heard
    <3>1. req[q].tab # t /\ req[q].st \in {"queued", "leading"}
      BY <2>1
    <3>2. tab[req[q].tab].isRefreshing
      BY <3>1 DEF QueueHasALeader
    <3>3. PICK p \in Reqs : req[p].tab = req[q].tab /\ req[p].st = "leading" /\ Running(p)
      BY <3>1 DEF QueueHasALeader
    <3>4. req'[p] = req[p] /\ rf'[p] = rf[p] /\ tab'[req[q].tab] = tab[req[q].tab]
      BY <1>1, <1>3, <3>1, <3>3
    <3> QED BY <1>3, <3>2, <3>3, <3>4 DEF Running
  <2>2. ASSUME NEW p \in Reqs, NEW q \in Reqs, rf'[p].heard, rf'[q].heard, req'[p].tab = req'[q].tab
        PROVE  p = q
    BY <1>2, <1>3, <2>2 DEF QueueHasALeader, Running
  <2> QED BY <2>1, <2>2 DEF QueueHasALeader, Running
<1>8. LeaderRuns'
  <2>1. ASSUME NEW q \in Reqs, rf'[q].heard PROVE req'[q].st = "leading"
    <3>1. q # r /\ rf[q].heard
      BY <1>2, <1>3, <2>1
    <3>2. req[q].tab # t
      BY <1>4, <3>1
    <3> QED BY <3>1, <3>2 DEF LeaderRuns, Running
  <2>2. ASSUME NEW u \in Tabs, tab'[u].isRefreshing
        PROVE  \E p \in Reqs : rf'[p].heard /\ req'[p].tab = u /\ req'[p].st = "leading" /\ req'[p].retry
    <3>1. u # t /\ tab[u].isRefreshing
      BY <1>3, <2>2
    <3>2. PICK p \in Reqs : Running(p) /\ req[p].tab = u /\ req[p].st = "leading" /\ req[p].retry
      BY <3>1 DEF LeaderRuns
    <3>3. req'[p] = req[p] /\ rf'[p] = rf[p]
      BY <1>3, <3>1, <3>2
    <3> QED BY <3>2, <3>3 DEF Running
  <2> QED BY <2>1, <2>2 DEF LeaderRuns, Running
<1>9. SentBound'
  <2>1. ASSUME NEW q \in Reqs
        PROVE  /\ req'[q].st = "new" => req[q].st = "new" /\ req'[q].sent = req[q].sent
               /\ \/ /\ req'[q].sent = req[q].sent
                     /\ tab'[req[q].tab].isRefreshing => tab[req[q].tab].isRefreshing
                  \/ /\ req'[q].sent = req[q].sent + 1
                     /\ tab[req[q].tab].isRefreshing /\ ~tab'[req[q].tab].isRefreshing
    <3>1. CASE req[q].tab = t
      BY <1>3, <1>4, <3>1
    <3>2. CASE req[q].tab # t
      BY <1>1, <1>3, <3>2
    <3> QED BY <3>1, <3>2
  <2> QED BY <1>3, <1>5, <2>1, SentLemma
<1>10. GrantIsFresh'
  <2> SUFFICES ASSUME NEW p \in Reqs, rf'[p].heard, rf'[p].st = "granted"
               PROVE  /\ rf'[p].new \in keys /\ rf'[p].new # jar'
                      /\ \A q \in Reqs : rf'[q].with # rf'[p].new /\ (q # p => rf'[q].new # rf'[p].new)
    BY <1>1 DEF GrantIsFresh, Running
  <2>1. p # r /\ rf'[p] = rf[p]
    BY <1>2, <1>3
  <2>2. /\ rf[p].new \in keys /\ rf[p].new # jar /\ rf[p].new # 0 /\ rf[r].new # rf[p].new
        /\ \A q \in Reqs : rf[q].with # rf[p].new /\ (q # p => rf[q].new # rf[p].new)
    BY <1>1, <2>1 DEF GrantIsFresh, Running
  <2> QED BY <1>2, <1>3, <2>1, <2>2
<1>11. SpentIsRunning'
  <2>1. jar' = rf[r].new => ls' = 0 \/ jar' \in keys
    BY DEF GrantIsFresh, Running
  <2>2. ls' # 0 => jar' \in keys'
    BY <1>1, <2>1 DEF GrantIsFresh, Running
  <2> QED BY <1>1, <1>2, <1>3, <2>2 DEF SpentIsRunning, Running
<1> QED BY <1>5, <1>6, <1>7, <1>8, <1>9, <1>10, <1>11

LEMMA AnswerLemma ==
    ASSUME SessionInv, NEW r \in Reqs, ReturnStep(r) PROVE SessionInv'
<1>1. /\ \A q \in Reqs : req[q] \in [tab : Tabs, st : Finished \cup {"new", "sent", "queued", "leading"},
                      token : Nat, retry : BOOLEAN, sent : Nat]
      /\ rf[r] \in [st : {"none", "sent", "checked", "deleted", "granted", "refused", "error"},
                    with : Nat, new : Nat, heard : BOOLEAN]
      /\ tab \in [Tabs -> [page : {"app", "login", "register"}, form : {"idle", "sending", "error"},
                           isLogin : BOOLEAN, isRefreshing : BOOLEAN]]
      /\ tab[req[r].tab] \in [page : {"app", "login", "register"}, form : {"idle", "sending", "error"},
                     isLogin : BOOLEAN, isRefreshing : BOOLEAN]
      /\ issued \in Nat /\ jar \in 0 .. issued /\ req[r].tab \in Tabs /\ rf[r].new \in 0 .. issued
  BY DEF SessionInv, TypeOK
<1>2. CASE RefreshSucceeds(r)
  <2> DEFINE v == [tab[req[r].tab] EXCEPT !.isRefreshing = FALSE]
  <2>1. /\ v \in [page : {"app", "login", "register"}, form : {"idle", "sending", "error"},
                  isLogin : BOOLEAN, isRefreshing : BOOLEAN]
        /\ ~v.isRefreshing
    BY <1>1
  <2>2. /\ rf[r].st = "granted" /\ rf[r].heard /\ jar' = rf[r].new
        /\ ls' = rf[r].new /\ cookie' = [token |-> rf[r].new, aged |-> TRUE]
        /\ tab' = [tab EXCEPT ![req[r].tab] = v] /\ rf' = [rf EXCEPT ![r] = NoCall]
        /\ req' = Released(req[r].tab, rf[r].new) /\ UNCHANGED <<backend, aborted>>
    BY <1>1, <1>2 DEF RefreshSucceeds, Persist
  <2> HIDE DEF v
  <2>3. req' = [q \in Reqs |-> req'[q]]
    BY <2>2 DEF Released
  <2>4. ASSUME NEW q \in Reqs
        PROVE  /\ req'[q] \in [tab : Tabs, st : Finished \cup {"new", "sent", "queued", "leading"},
                               token : Nat, retry : BOOLEAN, sent : Nat]
               /\ req[q].tab # req[r].tab => req'[q] = req[q]
               /\ req[q].tab = req[r].tab =>
                    /\ req'[q].tab = req[q].tab /\ req'[q].retry = req[q].retry
                    /\ req'[q].st \notin {"queued", "leading"}
                    /\ req'[q].st = "new" => req[q].st = "new" /\ req'[q].sent = req[q].sent
                    /\ req'[q].sent \in {req[q].sent, req[q].sent + 1}
    <3>1. /\ req[q].tab \in Tabs /\ req[q].token \in Nat /\ req[q].retry \in BOOLEAN /\ req[q].sent \in Nat
      BY <1>1
    <3>2. CASE req[q].tab = req[r].tab /\ req[q].st \in {"queued", "leading"}
      <4>1. req'[q] = [tab |-> req[q].tab, st |-> "sent", token |-> rf[r].new, retry |-> req[q].retry,
                       sent |-> req[q].sent + 1]
        BY <1>1, <2>2, <3>2 DEF Released, Sent
      <4>2. req[q].sent + 1 \in Nat /\ rf[r].new \in Nat
        BY <1>1, <3>1
      <4> QED BY <3>1, <3>2, <4>1, <4>2
    <3>3. CASE ~(req[q].tab = req[r].tab /\ req[q].st \in {"queued", "leading"})
      <4>1. req'[q] = req[q]
        BY <2>2, <3>3 DEF Released
      <4> QED BY <1>1, <3>3, <4>1
    <3> QED BY <3>2, <3>3
  <2>5. /\ ls' \in 0 .. issued /\ jar' \in 0 .. issued /\ cookie' \in [token : Nat, aged : BOOLEAN]
        /\ cookie'.token \in {0, ls'}
    BY <1>1, <2>2
  <2>6. req' \in [Reqs -> [tab : Tabs, st : Finished \cup {"new", "sent", "queued", "leading"},
                           token : Nat, retry : BOOLEAN, sent : Nat]]
    BY <2>3, <2>4
  <2>7. rf[r].heard /\ UNCHANGED backend /\ UNCHANGED aborted
    BY <2>2
  <2>8. /\ \A q \in Reqs : req[q].tab # req[r].tab => req'[q] = req[q]
        /\ \A q \in Reqs : req[q].tab = req[r].tab =>
             /\ req'[q].tab = req[q].tab /\ req'[q].retry = req[q].retry
             /\ req'[q].st \notin {"queued", "leading"}
             /\ req'[q].st = "new" => req[q].st = "new" /\ req'[q].sent = req[q].sent
             /\ req'[q].sent \in {req[q].sent, req[q].sent + 1}
    BY <2>4
  <2> QED BY <2>1, <2>2, <2>5, <2>6, <2>7, <2>8, ReturnLemma
<1>3. CASE RefreshFails(r)
  <2> DEFINE v == Fresh("login", 0)
  <2>1. /\ v \in [page : {"app", "login", "register"}, form : {"idle", "sending", "error"},
                  isLogin : BOOLEAN, isRefreshing : BOOLEAN]
        /\ ~v.isRefreshing
    <3>1. v = [page |-> "login", form |-> "idle", isRefreshing |-> FALSE, isLogin |-> FALSE]
      BY DEF Fresh, HasHeader
    <3> HIDE DEF v
    <3> QED BY <3>1
  <2>2. /\ rf[r].heard /\ jar' \in {0, jar} /\ ls' = 0 /\ cookie' = NoCookie
        /\ tab' = [tab EXCEPT ![req[r].tab] = v] /\ rf' = [rf EXCEPT ![r] = NoCall]
        /\ req' = Leave(req[r].tab, Rejected(req[r].tab)) /\ UNCHANGED <<backend, aborted>>
    BY <1>3 DEF RefreshFails, Clear
  <2> HIDE DEF v
  <2>3. req' = [q \in Reqs |-> req'[q]]
    BY <2>2 DEF Leave
  <2>4. ASSUME NEW q \in Reqs
        PROVE  /\ req'[q] \in [tab : Tabs, st : Finished \cup {"new", "sent", "queued", "leading"},
                               token : Nat, retry : BOOLEAN, sent : Nat]
               /\ req[q].tab # req[r].tab => req'[q] = req[q]
               /\ req[q].tab = req[r].tab =>
                    /\ req'[q].tab = req[q].tab /\ req'[q].retry = req[q].retry
                    /\ req'[q].st \notin {"queued", "leading"}
                    /\ req'[q].st = "new" => req[q].st = "new" /\ req'[q].sent = req[q].sent
                    /\ req'[q].sent = req[q].sent
    <3> DEFINE o == Rejected(req[r].tab)[q]
    <3>1. /\ o = IF req[q].tab = req[r].tab /\ req[q].st \in {"queued", "leading"}
                   THEN [req[q] EXCEPT !.st = "failed"] ELSE req[q]
          /\ req'[q] = IF req[q].tab = req[r].tab /\ o.st \notin Finished \cup {"new"}
                         THEN [o EXCEPT !.st = "gone"] ELSE o
      BY <2>2 DEF Rejected, Leave
    <3> HIDE DEF o
    <3>2. /\ o \in [tab : Tabs, st : Finished \cup {"new", "sent", "queued", "leading"},
                    token : Nat, retry : BOOLEAN, sent : Nat]
          /\ req[q].tab # req[r].tab => o = req[q]
          /\ o.tab = req[q].tab /\ o.retry = req[q].retry /\ o.sent = req[q].sent
          /\ o.st = "new" => req[q].st = "new"
      BY <1>1, <3>1 DEF Finished
    <3> QED BY <3>1, <3>2 DEF Finished
  <2>5. /\ ls' \in 0 .. issued /\ jar' \in 0 .. issued /\ cookie' \in [token : Nat, aged : BOOLEAN]
        /\ cookie'.token \in {0, ls'}
    BY <1>1, <2>2 DEF NoCookie
  <2>6. req' \in [Reqs -> [tab : Tabs, st : Finished \cup {"new", "sent", "queued", "leading"},
                           token : Nat, retry : BOOLEAN, sent : Nat]]
    BY <2>3, <2>4
  <2>7. rf[r].heard /\ UNCHANGED backend /\ UNCHANGED aborted
    BY <2>2
  <2>8. /\ \A q \in Reqs : req[q].tab # req[r].tab => req'[q] = req[q]
        /\ \A q \in Reqs : req[q].tab = req[r].tab =>
             /\ req'[q].tab = req[q].tab /\ req'[q].retry = req[q].retry
             /\ req'[q].st \notin {"queued", "leading"}
             /\ req'[q].st = "new" => req[q].st = "new" /\ req'[q].sent = req[q].sent
             /\ req'[q].sent \in {req[q].sent, req[q].sent + 1}
    BY <2>4
  <2> QED BY <2>1, <2>2, <2>5, <2>6, <2>7, <2>8, ReturnLemma
<1> QED BY <1>2, <1>3 DEF ReturnStep

LEMMA NextLemma == SessionInv /\ [Next]_vars => SessionInv'
<1> SUFFICES ASSUME SessionInv, [Next]_vars PROVE SessionInv'
  OBVIOUS
<1>1. CASE UNCHANGED vars
  BY <1>1 DEF vars, browser, backend, SessionInv, TypeOK, CookieFollowsToken, QueueHasALeader,
              LeaderRuns, SentBound, Leaders, GrantIsFresh, SpentIsRunning, Running
<1>2. ASSUME NEW t \in Tabs, TabStep(t) PROVE SessionInv'
  BY <1>2, TabLemma
<1>3. ASSUME NEW r \in Reqs, Send(r) \/ ReqStep(r) PROVE SessionInv'
  BY <1>3, RequestLemma, LeadsLemma DEF ReqStep
<1>4. ASSUME NEW r \in Reqs, ServerStep(r) \/ RefreshErrs(r) PROVE SessionInv'
  BY <1>4, RefreshLemma
<1>5. ASSUME NEW r \in Reqs, ReturnStep(r) PROVE SessionInv'
  BY <1>5, AnswerLemma
<1>6. ASSUME NEW n \in 1 .. issued, Expire(n) PROVE SessionInv'
  BY <1>6, ExpireLemma
<1> QED BY <1>1, <1>2, <1>3, <1>4, <1>5, <1>6 DEF Next

-----------------------------------------------------------------------------
(* The theorems.                                                            *)

\* The cookie that middleware.ts reads and the token that axios sends belong to
\* one session whatever the tabs do, and no request waits for a refresh that is
\* not running (lib/axios.ts, session.ts).
THEOREM OneSession == Spec => []SessionInv
<1> QED BY InitLemma, NextLemma, PTL DEF Spec

\* A browser that looks signed in holds a live refresh key whenever it is not
\* refreshing, although tabs may spend one cookie twice (AuthService.Refresh).
THEOREM SignedInIsLive == Spec => []SignedInCanRefresh
<1>1. SessionInv => SignedInCanRefresh
  BY DEF SessionInv, SpentIsRunning, SignedInCanRefresh
<1> QED BY <1>1, OneSession, PTL

\* A request is repeated at most once for each request of its tab that has led a
\* refresh (_retry and isRefreshing of lib/axios.ts).
THEOREM RetriesBounded == Spec => []NoRetryLoop
<1>1. ASSUME SessionInv PROVE NoRetryLoop
  <2>1. ASSUME NEW r \in Reqs PROVE req[r].sent <= 1 + Cardinality(Leaders(req[r].tab))
    <3>1. req[r].sent <= Cardinality(Leaders(req[r].tab)) + IF tab[req[r].tab].isRefreshing THEN 0 ELSE 1
      BY <1>1 DEF SessionInv, SentBound
    <3>2. Cardinality(Leaders(req[r].tab)) \in Nat
      BY LeadersFinite DEF Leaders
    <3>3. req[r].sent \in Nat
      BY <1>1 DEF SessionInv, TypeOK
    <3>4. tab[req[r].tab].isRefreshing \in BOOLEAN
      BY <1>1 DEF SessionInv, TypeOK
    <3> QED BY <3>1, <3>2, <3>3, <3>4
  <2> QED BY <2>1 DEF NoRetryLoop
<1> QED BY <1>1, OneSession, PTL
=============================================================================
