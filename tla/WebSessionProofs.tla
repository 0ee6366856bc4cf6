----------------------------- MODULE WebSessionProofs -----------------------------
(* Theorems about the browser's session with the auth server, for any number *)
(* of tabs, web servers, requests, tokens and faults.                        *)
EXTENDS WebSession, RefreshTokensProofs

-----------------------------------------------------------------------------
(* What the browser and the web servers hold.                              *)

Places == {"idle", "sent", "waiting", "answered", "refused", "renewing", "provider",
           "callback", "logout"}
Counts == {"loads", "logins", "runs", "lost", "time", "calls"}
TabRecords == [at : Places, refresh : Token \cup {None}, access : BOOLEAN,
               by : Instance \cup Req \cup Nat \cup {None}, set : Token \cup {Keep, Expire},
               heart : {"none", "known", "anonymous"}]
Jars == [refresh : Token \cup {None}, access : BOOLEAN, state : Nat]

WebTypeOK ==
  /\ jar \in Jars /\ tab \in [Tab -> TabRecords] /\ ended \in Token \cup {None}
  /\ inFlight \in [Instance -> [Token -> Req \cup {None}]]
  /\ tally \in [Counts -> Nat] /\ failures \in Nat

\* Cookies, pages and answers carry tokens that were issued.
TokensIssued ==
  /\ jar.refresh # None => Used(jar.refresh)
  /\ \A t \in Tab : /\ tab[t].refresh # None => Used(tab[t].refresh)
                    /\ tab[t].set \in Token => Used(tab[t].set)
  /\ \A r \in Req : req[r].at = "answered" /\ req[r].op \in {"refresh", "login"}
                    /\ req[r].answer = "ok" => req[r].fresh \in Token

\* A page waits at a server, for the refresh of the token it came with.
PagesWait ==
  \A t \in Tab :
    /\ tab[t].at \in {"sent", "waiting"} => tab[t].by \in Instance
    /\ tab[t].at = "waiting" => tab[t].refresh # None /\ ~tab[t].access
    /\ tab[t].at = "logout" => tab[t].refresh # None
    /\ tab[t].set # Keep => tab[t].at = "answered"

\* A request that somebody waits for is under way in a slot of its own.
Owned(r, op) == r \in Req /\ req[r].op = op /\ req[r].waited /\ req[r].at # "idle"
Holds(t) == tab[t].at \in {"renewing", "callback", "logout"}
SlotsHeld ==
  /\ \A t \in Tab : /\ tab[t].at = "renewing" => Owned(tab[t].by, "refresh")
                    /\ tab[t].at = "callback" => Owned(tab[t].by, "login")
                    /\ tab[t].at = "logout" => Owned(tab[t].by, "logout")
  /\ \A t, u \in Tab : Holds(t) /\ Holds(u) /\ tab[t].by = tab[u].by => t = u
  /\ \A i \in Instance, k \in Token : inFlight[i][k] # None =>
       /\ Owned(inFlight[i][k], "refresh")
       /\ \A t \in Tab : tab[t].at = "renewing" => tab[t].by # inFlight[i][k]
  /\ \A i, j \in Instance, k, l \in Token :
       inFlight[i][k] # None /\ inFlight[i][k] = inFlight[j][l] => i = j /\ k = l

\* A logout's request holds the token of the tab, until its answer says that
\* the token has ended; so has the one that was logged out last.
LogoutsEnd ==
  /\ \A t \in Tab : tab[t].at = "logout" =>
       \/ req[tab[t].by].at # "answered" /\ req[tab[t].by].token = tab[t].refresh
       \/ req[tab[t].by].at = "answered"
          /\ (req[tab[t].by].answer = "ok" => Spent(tab[t].refresh))
  /\ ended # None => Spent(ended)

CookieInv == WebTypeOK /\ TokensIssued /\ PagesWait /\ SlotsHeld /\ LogoutsEnd
WebInv == ServerInv /\ SuccessionInv /\ CookieInv

LEMMA ValuesDiffer ==
  /\ None \notin Token /\ None \notin Req /\ None # Keep /\ None # Expire /\ Keep # Expire
  /\ Keep \notin Token /\ Expire \notin Token
<1>1. Token \subseteq Nat
  BY DEF Token
<1> QED
  BY <1>1, WebAssumption, TokensAssumption

LEMMA QuietFacts ==
  /\ Quiet \in TabRecords /\ Quiet.at = "idle" /\ Quiet.refresh = None /\ Quiet.set = Keep
  BY DEF Quiet, TabRecords, Places

LEMMA TabFacts ==
  ASSUME WebTypeOK, NEW t \in Tab, NEW where \in Places
  PROVE  /\ With(t, where) \in TabRecords /\ With(t, where).at = where
         /\ With(t, where).refresh = tab[t].refresh /\ With(t, where).access = tab[t].access
         /\ With(t, where).by = tab[t].by /\ With(t, where).set = tab[t].set
  BY DEF With, WebTypeOK, TabRecords

LEMMA CookieFacts ==
  ASSUME WebTypeOK, NEW set \in Token \cup {Keep, Expire}
  PROVE  /\ SetCookies(set) \in Jars
         /\ SetCookies(set).refresh = IF set = Keep THEN jar.refresh ELSE IF set = Expire THEN None ELSE set
         /\ set \in Token => SetCookies(set).access
         /\ SetCookies(set).state = jar.state
  BY ValuesDiffer DEF SetCookies, WebTypeOK, Jars

LEMMA FreeSlotIdle == Idle # {} => FreeSlot \in Req /\ req[FreeSlot].at = "idle"
  BY DEF Idle, FreeSlot

-----------------------------------------------------------------------------
(* What a step of the browser or a web server does to the requests.        *)

Sends(r, op, token) == req[r].at = "idle" /\ req' = [req EXCEPT ![r] = Sent(op, token)]
ClientReq ==
  /\ row' = row /\ failures' = failures
  /\ \/ req' = req
     \/ \E r \in Req, op \in {"refresh", "logout"}, token \in Token :
          /\ Used(token) /\ Sends(r, op, token)
          /\ op = "logout" => \E t \in Tab : Logout(t)
     \/ \E r \in Req : Sends(r, "login", None)
     \/ \E r \in Req : req' = Taken(r) \/ req' = GivenUp(r)

Clock == \E t \in Token : (GracePasses(t) /\ ~Hurried(t)) \/ TokenExpires(t)

LEMMA StepsByKind ==
  ASSUME WebInv, [WebNext]_vars
  PROVE  \/ ServerStep /\ UNCHANGED webVars
         \/ Clock /\ UNCHANGED <<jar, tab, inFlight, ended, failures>>
         \/ ClientReq
<1> USE ValuesDiffer, FreeSlotIdle DEF WebInv, CookieInv
<1>1. CASE Server
  BY <1>1 DEF Server
<1>2. CASE TimePasses
  BY <1>2 DEF TimePasses, Clock, GracePasses, TokenExpires
<1>3. CASE AccessRunsOut \/ UNCHANGED vars
  BY <1>3 DEF AccessRunsOut, vars, serverVars, ClientReq
<1>4. ASSUME NEW t \in Tab,
             \/ \E i \in Instance : PageRequest(t, i)
             \/ PagePasses(t) \/ PageArrives(t) \/ PageLost(t) \/ ListFavorites(t)
             \/ CallRefused(t) \/ StartLogin(t)
      PROVE  ClientReq
  BY <1>4 DEF PageRequest, PagePasses, PageArrives, PageLost, ListFavorites, CallRefused,
              StartLogin, serverVars, ClientReq
<1>5. ASSUME NEW t \in Tab, RefreshOnce(t) PROVE ClientReq
  <2>1. tab[t].refresh \in Token /\ Used(tab[t].refresh)
    BY <1>5 DEF RefreshOnce, NeedsSessionRefresh, TokensIssued, WebTypeOK, TabRecords
  <2> QED
    BY <1>5, <2>1 DEF RefreshOnce, ClientReq, Sends
<1>6. ASSUME NEW t \in Tab, CallRefreshes(t) \/ Logout(t) PROVE ClientReq
  <2>1. jar.refresh # None => jar.refresh \in Token /\ Used(jar.refresh)
    BY DEF TokensIssued, WebTypeOK, Jars
  <2> QED
    BY <1>6, <2>1 DEF CallRefreshes, Logout, ClientReq, Sends
<1>7. ASSUME NEW t \in Tab, Callback(t) PROVE ClientReq
  BY <1>7 DEF Callback, ClientReq, Sends
<1>8. ASSUME NEW i \in Instance, NEW k \in Token, RefreshAnswered(i, k) \/ RefreshTimesOut(i, k)
      PROVE  ClientReq
  BY <1>8 DEF RefreshAnswered, RefreshTimesOut, ClientReq, WebTypeOK
<1>9. ASSUME NEW t \in Tab, CallRetried(t) \/ CallLost(t) \/ LoggedIn(t) \/ LoggedOut(t)
      PROVE  ClientReq
  BY <1>9 DEF CallRetried, CallLost, LoggedIn, LoggedOut, ClientReq, SlotsHeld, Owned
<1> QED
  BY <1>1, <1>2, <1>3, <1>4, <1>5, <1>6, <1>7, <1>8, <1>9 DEF WebNext

LEMMA ClientKeepsRequests ==
  ASSUME WebInv, ClientReq
  PROVE  ClientOnly /\ ClientSends
<1>0. req \in [Req -> Requests] /\ None \notin Token
  BY ValuesDiffer DEF WebInv, ServerInv, ServerTypeOK
<1>1. CASE req' = req
  <2>1. ClientOnly
    BY <1>0, <1>1 DEF ClientReq, ClientOnly
  <2> QED
    BY <1>1, <2>1 DEF ClientReq, ClientSends
<1>2. ASSUME NEW r \in Req, NEW op \in {"refresh", "logout", "login"}, NEW token \in Token \cup {None},
             Sends(r, op, token), op # "login" => token \in Token /\ Used(token)
      PROVE  ClientOnly /\ ClientSends
  <2>1. op \in Op
    BY DEF Op
  <2> DEFINE new == Sent(op, token)
  <2>2. /\ req' = [req EXCEPT ![r] = new] /\ req' \in [Req -> Requests] /\ new.at = "sent"
        /\ new.op = op /\ new.token = token /\ new.fresh = None
    BY <1>0, <1>2, <2>1, SendEffects DEF Sends
  <2> HIDE DEF new
  <2> QED
    BY <1>0, <1>2, <2>2 DEF ClientOnly, ClientSends, ClientReq
<1>3. ASSUME NEW r \in Req, req' = Taken(r) \/ req' = GivenUp(r) PROVE ClientOnly /\ ClientSends
  BY <1>0, <1>3, SlotEffects DEF ClientOnly, ClientSends, ClientReq
<1> QED
  BY <1>1, <1>2, <1>3 DEF ClientReq

LEMMA ServerSideKept ==
  ASSUME WebInv, [WebNext]_vars
  PROVE  ServerInv' /\ SuccessionInv'
<1> USE DEF WebInv
<1>1. CASE ServerStep
  BY <1>1, ServerKeepsServer, ServerKeepsSuccession
<1>2. CASE Clock
  BY <1>2, TimeKeepsServer, TimeKeepsSuccession DEF Clock
<1>3. CASE ClientReq
  BY <1>3, ClientKeepsRequests, ClientKeepsServer, ClientKeepsSuccession
<1> QED
  BY <1>1, <1>2, <1>3, StepsByKind

-----------------------------------------------------------------------------
(* The types.                                                              *)

LEMMA OutcomeFacts ==
  ASSUME WebInv, NEW r \in Req, req[r].at = "answered", req[r].op \in {"refresh", "logout"}
  PROVE  /\ Outcome(r) \in Token \cup {Keep, Expire}
         /\ Outcome(r) \in Token => /\ Outcome(r) = req[r].fresh /\ Used(Outcome(r))
                                   /\ req[r].op = "refresh" /\ req[r].answer = "ok"
  BY ValuesDiffer DEF Outcome, WebInv, CookieInv, TokensIssued, SuccessionInv, RequestsFit

LEMMA JarKept == WebInv /\ [WebNext]_vars => jar' \in Jars
<1> SUFFICES ASSUME WebInv, [WebNext]_vars PROVE jar' \in Jars
  OBVIOUS
<1> USE DEF WebInv, CookieInv
<1>0. jar \in Jars /\ tab \in [Tab -> TabRecords] /\ tally \in [Counts -> Nat]
  BY DEF WebTypeOK
<1>1. CASE UNCHANGED jar
  BY <1>0, <1>1
<1>2. ASSUME NEW t \in Tab, PageArrives(t) PROVE jar' \in Jars
  BY <1>0, <1>2, CookieFacts DEF PageArrives, TabRecords
<1>3. ASSUME NEW t \in Tab, CallRetried(t) \/ LoggedOut(t) PROVE jar' \in Jars
  <2>1. tab[t].by \in Req /\ req[tab[t].by].op \in {"refresh", "logout"}
    BY <1>3 DEF CallRetried, LoggedOut, SlotsHeld, Owned
  <2> QED
    BY <1>3, <2>1, OutcomeFacts, CookieFacts DEF CallRetried, LoggedOut
<1>4. ASSUME NEW t \in Tab, StartLogin(t) PROVE jar' \in Jars
  <2>1. tally.logins + 1 \in Nat
    BY <1>0 DEF Counts
  <2> QED
    BY <1>0, <1>4, <2>1 DEF StartLogin, Jars
<1>5. ASSUME NEW t \in Tab, Callback(t) PROVE jar' \in Jars
  BY <1>0, <1>5 DEF Callback, Jars
<1>6. ASSUME NEW t \in Tab, LoggedIn(t) PROVE jar' \in Jars
  <2> DEFINE r == tab[t].by
             c == SetCookies(req[r].fresh)
  <2>1. r \in Req /\ req[r].op = "login" /\ req[r].at = "answered"
    BY <1>6 DEF LoggedIn, SlotsHeld, Owned
  <2>2. req[r].answer = "ok" => c \in Jars
    BY <2>1, CookieFacts DEF TokensIssued
  <2>3. jar' = IF req[r].answer = "ok" THEN [c EXCEPT !.state = 0] ELSE jar
    BY <1>6 DEF LoggedIn
  <2> HIDE DEF c
  <2>4. c \in Jars => [c EXCEPT !.state = 0] \in Jars
    BY DEF Jars
  <2> QED
    BY <1>0, <2>2, <2>3, <2>4
<1>7. CASE AccessRunsOut
  BY <1>0, <1>7 DEF AccessRunsOut, Jars
<1>8. CASE Server \/ TimePasses \/ UNCHANGED vars
  BY <1>1, <1>8 DEF Server, TimePasses, webVars, vars
<1>9. ASSUME NEW t \in Tab,
             \/ \E i \in Instance : PageRequest(t, i)
             \/ PagePasses(t) \/ RefreshOnce(t) \/ PageLost(t) \/ ListFavorites(t) \/ CallRefused(t)
             \/ CallRefreshes(t) \/ CallLost(t) \/ Logout(t)
      PROVE  jar' \in Jars
  BY <1>1, <1>9 DEF PageRequest, PagePasses, RefreshOnce, PageLost, ListFavorites, CallRefused,
                    CallRefreshes, CallLost, Logout
<1>10. ASSUME NEW i \in Instance, NEW k \in Token, RefreshAnswered(i, k) \/ RefreshTimesOut(i, k)
       PROVE  jar' \in Jars
  BY <1>1, <1>10 DEF RefreshAnswered, RefreshTimesOut
<1> QED
  BY <1>2, <1>3, <1>4, <1>5, <1>6, <1>7, <1>8, <1>9, <1>10 DEF WebNext

LEMMA TallyKept == WebInv /\ [WebNext]_vars => tally' \in [Counts -> Nat] /\ failures' \in Nat
<1> SUFFICES ASSUME WebInv, [WebNext]_vars PROVE tally' \in [Counts -> Nat] /\ failures' \in Nat
  OBVIOUS
<1>0. tally \in [Counts -> Nat] /\ failures \in Nat
  BY DEF WebInv, CookieInv, WebTypeOK
<1>1. tally' = tally \/ (\E what \in Counts : Tallied(what)) \/ tally' = [tally EXCEPT !.calls = 1]
  BY DEF WebNext, Server, TimePasses, AccessRunsOut, webVars, vars, PageRequest, PagePasses,
         RefreshOnce, PageArrives, PageLost, RefreshAnswered, RefreshTimesOut, ListFavorites,
         CallRefused, CallRefreshes, CallRetried, CallLost, StartLogin, Callback, LoggedIn, Logout,
         LoggedOut, Counts
<1>2. tally' \in [Counts -> Nat]
  BY <1>0, <1>1 DEF Tallied, Counts
<1>3. ServerStep => failures' = failures \/ failures' = failures + 1
  BY DEF ServerStep, RequestStep, RefreshRefused, RefreshDetectsReuse, RefreshLocks, RotationCommits, LogoutLocks,
         FamilySnapshot, FamilyRevoked, SessionInserted, DeleteStarts, DeleteCommits, RolledBack
<1>4. failures' \in Nat
  BY <1>0, <1>3, StepsByKind DEF ClientReq
<1> QED
  BY <1>2, <1>4

LEMMA UsedForGood ==
  ASSUME WebInv, [WebNext]_vars, NEW t \in Token, Used(t) PROVE row'[t].state # "unused"
<1>1. row' = row \/ RowsMove
  BY StepsByKind, TokensMove DEF ClientReq, Clock, WebInv
<1> QED
  BY <1>1 DEF RowsMove, Used

\* What a tab holds, as one record.
Fits(rec) ==
  /\ rec \in TabRecords
  /\ rec.at \in {"sent", "waiting"} => rec.by \in Instance
  /\ rec.at = "waiting" => rec.refresh # None /\ ~rec.access
  /\ rec.at = "logout" => rec.refresh # None
  /\ rec.set # Keep => rec.at = "answered"
  /\ rec.refresh # None => Used(rec.refresh)
  /\ rec.set \in Token => Used(rec.set)

LEMMA TabsFit ==
  ASSUME WebInv, [WebNext]_vars
  PROVE  tab' \in [Tab -> TabRecords] /\ \A u \in Tab : Fits(tab'[u])
<1> USE DEF WebInv, CookieInv
<1> DEFINE Good == tab' \in [Tab -> TabRecords] /\ \A u \in Tab : Fits(tab'[u])
<1>0. /\ tab \in [Tab -> TabRecords] /\ \A u \in Tab : Fits(tab[u])
      /\ jar.refresh \in Token \cup {None} /\ (jar.refresh # None => Used(jar.refresh))
      /\ jar.access \in BOOLEAN
  BY DEF WebTypeOK, PagesWait, TokensIssued, Fits, Jars
<1>1. ASSUME UNCHANGED tab PROVE Good
  BY <1>0, <1>1
<1>2. ASSUME NEW t \in Tab, NEW rec, Fits(rec), tab' = [tab EXCEPT ![t] = rec] PROVE Good
  BY <1>0, <1>2 DEF Fits
<1>3. Fits(Quiet)
  BY QuietFacts, ValuesDiffer DEF Fits
<1>4. ASSUME NEW t \in Tab, NEW i \in Instance, PageRequest(t, i) PROVE Good
  <2> DEFINE rec == [Quiet EXCEPT !.at = "sent", !.by = i, !.refresh = jar.refresh, !.access = jar.access]
  <2>1. Fits(rec)
    BY <1>0, QuietFacts, ValuesDiffer DEF Fits, TabRecords, Places
  <2>2. tab' = [tab EXCEPT ![t] = rec]
    BY <1>4 DEF PageRequest
  <2> HIDE DEF rec
  <2> QED
    BY <1>2, <2>1, <2>2
<1>5. ASSUME NEW t \in Tab, NEW where \in {"answered", "waiting", "renewing", "callback"},
             where = "waiting" => tab[t].at = "sent" /\ NeedsSessionRefresh(t),
             tab[t].set = Keep
      PROVE  Fits(With(t, where))
  BY <1>0, <1>5, TabFacts, ValuesDiffer DEF Fits, Places, NeedsSessionRefresh
<1>6. ASSUME NEW t \in Tab, PagePasses(t) PROVE Good
  <2>1. tab' = [tab EXCEPT ![t] = With(t, "answered")] /\ tab[t].set = Keep
    BY <1>0, <1>6 DEF PagePasses, Fits
  <2> QED
    BY <1>2, <1>5, <2>1
<1>7. ASSUME NEW t \in Tab, RefreshOnce(t) PROVE Good
  <2>1. /\ tab' = [tab EXCEPT ![t] = With(t, "waiting")] /\ tab[t].set = Keep
        /\ tab[t].at = "sent" /\ NeedsSessionRefresh(t)
    BY <1>0, <1>7 DEF RefreshOnce, Fits
  <2> QED
    BY <1>2, <1>5, <2>1
<1>8. ASSUME NEW i \in Instance, NEW k \in Token, NEW set \in Token \cup {Keep, Expire},
             Released(i, k, set), set \in Token => Used(set)
      PROVE  Good
  <2> DEFINE rec(t) == [With(t, "answered") EXCEPT !.set = set]
  <2>1. ASSUME NEW t \in Waiters(i, k) PROVE Fits(rec(t))
    <3>1. t \in Tab /\ tab[t].at = "waiting"
      BY DEF Waiters
    <3>2. Fits(With(t, "answered")) /\ With(t, "answered").at = "answered"
      BY <1>0, <1>5, <3>1, TabFacts DEF Fits, Places
    <3> QED
      BY <1>8, <3>2, ValuesDiffer DEF Fits, TabRecords
  <2>2. tab' = [t \in Tab |-> IF t \in Waiters(i, k) THEN rec(t) ELSE tab[t]]
    BY <1>8 DEF Released
  <2> HIDE DEF rec
  <2> QED
    BY <1>0, <2>1, <2>2 DEF Fits
<1>9. ASSUME NEW i \in Instance, NEW k \in Token, RefreshAnswered(i, k) PROVE Good
  <2> DEFINE r == inFlight[i][k]
  <2>1. r \in Req /\ req[r].op = "refresh" /\ req[r].at = "answered" /\ Released(i, k, Outcome(r))
    BY <1>9 DEF RefreshAnswered, SlotsHeld, Owned
  <2> HIDE DEF r
  <2>2. Outcome(r) \in Token \cup {Keep, Expire} /\ (Outcome(r) \in Token => Used(Outcome(r)))
    BY <2>1, OutcomeFacts
  <2> QED
    BY <1>8, <2>1, <2>2
<1>10. ASSUME NEW i \in Instance, NEW k \in Token, RefreshTimesOut(i, k) PROVE Good
  BY <1>8, <1>10, ValuesDiffer DEF RefreshTimesOut
<1>11. ASSUME NEW t \in Tab,
              \/ PageArrives(t) \/ PageLost(t) \/ CallLost(t) \/ LoggedIn(t) \/ LoggedOut(t)
       PROVE  Good
  BY <1>2, <1>3, <1>11 DEF PageArrives, PageLost, CallLost, LoggedIn, LoggedOut
<1>12. ASSUME NEW heart \in {"none", "known", "anonymous"}
       PROVE  Fits([Quiet EXCEPT !.heart = heart])
  BY <1>3, QuietFacts DEF Fits, TabRecords
<1>13. ASSUME NEW t \in Tab, ListFavorites(t) \/ CallRetried(t) PROVE Good
  <2>1. \E heart \in {"none", "known", "anonymous"} : tab' = [tab EXCEPT ![t] = [Quiet EXCEPT !.heart = heart]]
    BY <1>13 DEF ListFavorites, CallRetried
  <2> QED
    BY <1>2, <1>12, <2>1
<1>14. ASSUME NEW t \in Tab, CallRefused(t) PROVE Good
  <2>1. Fits([Quiet EXCEPT !.at = "refused"])
    BY <1>3, QuietFacts, ValuesDiffer DEF Fits, TabRecords, Places
  <2> QED
    BY <1>2, <1>14, <2>1 DEF CallRefused
<1>15. ASSUME NEW t \in Tab, CallRefreshes(t) PROVE Good
  <2> DEFINE rec == [With(t, "renewing") EXCEPT !.refresh = jar.refresh, !.by = FreeSlot]
  <2>1. tab[t].set = Keep
    BY <1>0, <1>15 DEF CallRefreshes, Fits
  <2>2. Fits(With(t, "renewing")) /\ With(t, "renewing").at = "renewing"
    BY <1>5, <2>1, TabFacts DEF Places, WebTypeOK
  <2>3. Idle # {} => Fits(rec)
    BY <1>0, <2>2, FreeSlotIdle DEF Fits, TabRecords
  <2>4. \/ tab' = [tab EXCEPT ![t] = [Quiet EXCEPT !.heart = "anonymous"]]
        \/ Idle # {} /\ tab' = [tab EXCEPT ![t] = rec]
    BY <1>15 DEF CallRefreshes
  <2> HIDE DEF rec
  <2> QED
    BY <1>2, <1>12, <2>3, <2>4
<1>16. ASSUME NEW t \in Tab, StartLogin(t) PROVE Good
  <2>1. tally.logins + 1 \in Nat
    BY DEF WebTypeOK, Counts
  <2> DEFINE n == tally.logins + 1
             rec == [Quiet EXCEPT !.at = "provider", !.by = n]
  <2>2. tab' = [tab EXCEPT ![t] = rec]
    BY <1>16 DEF StartLogin
  <2> HIDE DEF n
  <2>3. Fits(rec)
    BY <1>3, <2>1, QuietFacts, ValuesDiffer DEF Fits, TabRecords, Places, n
  <2> HIDE DEF rec
  <2> QED
    BY <1>2, <2>2, <2>3
<1>17. ASSUME NEW t \in Tab, Callback(t) PROVE Good
  <2> DEFINE rec == [With(t, "callback") EXCEPT !.by = FreeSlot]
  <2>1. tab[t].set = Keep
    BY <1>0, <1>17 DEF Callback, Fits
  <2>2. Fits(With(t, "callback")) /\ With(t, "callback").at = "callback"
    BY <1>5, <2>1, TabFacts DEF Places, WebTypeOK
  <2>3. Idle # {} => Fits(rec)
    BY <1>0, <2>2, FreeSlotIdle DEF Fits, TabRecords
  <2>4. \/ tab' = [tab EXCEPT ![t] = Quiet]
        \/ Idle # {} /\ tab' = [tab EXCEPT ![t] = rec]
    BY <1>17 DEF Callback
  <2> HIDE DEF rec
  <2> QED
    BY <1>2, <1>3, <2>3, <2>4
<1>18. ASSUME NEW t \in Tab, Logout(t) PROVE Good
  <2> DEFINE rec == [Quiet EXCEPT !.at = "logout", !.by = FreeSlot, !.refresh = jar.refresh]
  <2>1. tab' = [tab EXCEPT ![t] = rec] /\ Idle # {} /\ jar.refresh # None
    BY <1>18 DEF Logout
  <2>2. Fits(rec)
    BY <1>0, <1>3, <2>1, FreeSlotIdle, QuietFacts, ValuesDiffer DEF Fits, TabRecords, Places
  <2> HIDE DEF rec
  <2> QED
    BY <1>2, <2>1, <2>2
<1>19. ASSUME Server \/ TimePasses \/ AccessRunsOut \/ UNCHANGED vars PROVE Good
  BY <1>1, <1>19 DEF Server, TimePasses, AccessRunsOut, webVars, vars
<1> HIDE DEF Good
<1>20. Good
  BY <1>4, <1>6, <1>7, <1>9, <1>10, <1>11, <1>13, <1>14, <1>15, <1>16, <1>17, <1>18, <1>19 DEF WebNext
<1> QED
  BY <1>20 DEF Good

LEMMA SlotsTyped ==
  ASSUME WebInv, [WebNext]_vars
  PROVE  inFlight' \in [Instance -> [Token -> Req \cup {None}]] /\ ended' \in Token \cup {None}
<1> USE DEF WebInv, CookieInv, WebTypeOK
<1>1. CASE Server \/ TimePasses \/ AccessRunsOut \/ UNCHANGED vars
  BY <1>1 DEF Server, TimePasses, AccessRunsOut, webVars, vars
<1>2. ASSUME NEW i \in Instance, NEW k \in Token, RefreshAnswered(i, k) \/ RefreshTimesOut(i, k)
      PROVE  inFlight' \in [Instance -> [Token -> Req \cup {None}]] /\ ended' = ended
  <2>1. inFlight' = [inFlight EXCEPT ![i][k] = None] /\ ended' = ended
    BY <1>2 DEF RefreshAnswered, RefreshTimesOut, Released
  <2> QED
    BY <2>1
<1>3. ASSUME NEW t \in Tab, RefreshOnce(t)
      PROVE  inFlight' \in [Instance -> [Token -> Req \cup {None}]] /\ ended' = ended
  <2>1. tab[t].by \in Instance /\ tab[t].refresh \in Token
    BY <1>3 DEF RefreshOnce, NeedsSessionRefresh, PagesWait, TabRecords
  <2>2. inFlight' = inFlight \/ (Idle # {} /\ inFlight' = [inFlight EXCEPT ![tab[t].by][tab[t].refresh] = FreeSlot])
    BY <1>3 DEF RefreshOnce
  <2> QED
    BY <1>3, <2>1, <2>2, FreeSlotIdle DEF RefreshOnce
<1>4. ASSUME NEW t \in Tab, LoggedOut(t) PROVE inFlight' = inFlight /\ ended' \in Token \cup {None}
  BY <1>4 DEF LoggedOut, TabRecords
<1>5. ASSUME NEW t \in Tab,
             \/ \E i \in Instance : PageRequest(t, i)
             \/ PagePasses(t) \/ PageArrives(t) \/ PageLost(t) \/ ListFavorites(t) \/ CallRefused(t)
             \/ CallRefreshes(t) \/ CallRetried(t) \/ CallLost(t) \/ StartLogin(t) \/ Callback(t)
             \/ LoggedIn(t) \/ Logout(t)
      PROVE  inFlight' = inFlight /\ ended' = ended
  BY <1>5 DEF PageRequest, PagePasses, PageArrives, PageLost, ListFavorites, CallRefused,
              CallRefreshes, CallRetried, CallLost, StartLogin, Callback, LoggedIn, Logout
<1> QED
  BY <1>1, <1>2, <1>3, <1>4, <1>5 DEF WebNext

LEMMA TypesKept == WebInv /\ [WebNext]_vars => WebTypeOK' /\ PagesWait'
<1> SUFFICES ASSUME WebInv, [WebNext]_vars PROVE WebTypeOK' /\ PagesWait'
  OBVIOUS
<1>1. WebTypeOK'
  BY JarKept, TallyKept, TabsFit, SlotsTyped DEF WebTypeOK
<1>2. PagesWait'
  BY TabsFit DEF PagesWait, Fits
<1> QED
  BY <1>1, <1>2

-----------------------------------------------------------------------------
(* Tokens and slots.                                                       *)

LEMMA JarIssued ==
  ASSUME WebInv, [WebNext]_vars, jar'.refresh # None
  PROVE  jar'.refresh \in Token /\ row'[jar'.refresh].state # "unused"
<1> USE DEF WebInv, CookieInv
<1>0. jar \in Jars /\ tab \in [Tab -> TabRecords] /\ (jar.refresh # None => Used(jar.refresh))
  BY DEF WebTypeOK, TokensIssued
<1>1. jar'.refresh = jar.refresh \/ jar'.refresh = None \/ (jar'.refresh \in Token /\ Used(jar'.refresh))
  <2> DEFINE Issued == jar'.refresh = jar.refresh \/ jar'.refresh = None
                       \/ (jar'.refresh \in Token /\ Used(jar'.refresh))
  <2>1. ASSUME NEW t \in Tab, PageArrives(t) PROVE Issued
    <3>1. tab[t].set \in Token \cup {Keep, Expire} /\ (tab[t].set \in Token => Used(tab[t].set))
      BY <1>0 DEF TabRecords, TokensIssued
    <3> QED
      BY <2>1, <3>1, CookieFacts DEF PageArrives
  <2>2. ASSUME NEW t \in Tab, CallRetried(t) \/ LoggedOut(t) PROVE Issued
    <3> DEFINE r == tab[t].by
    <3>1. r \in Req /\ req[r].op \in {"refresh", "logout"} /\ req[r].at = "answered"
      BY <2>2 DEF CallRetried, LoggedOut, SlotsHeld, Owned
    <3>2. jar' = SetCookies(Outcome(r))
      BY <2>2 DEF CallRetried, LoggedOut
    <3> HIDE DEF r
    <3> QED
      BY <3>1, <3>2, OutcomeFacts, CookieFacts
  <2>3. ASSUME NEW t \in Tab, LoggedIn(t) PROVE Issued
    <3> DEFINE r == tab[t].by
               c == SetCookies(req[r].fresh)
    <3>1. r \in Req /\ req[r].op = "login" /\ req[r].at = "answered"
      BY <2>3 DEF LoggedIn, SlotsHeld, Owned
    <3>2. jar' = IF req[r].answer = "ok" THEN [c EXCEPT !.state = 0] ELSE jar
      BY <2>3 DEF LoggedIn
    <3>3. req[r].answer = "ok" => req[r].fresh \in Token /\ Used(req[r].fresh)
      BY <3>1, ValuesDiffer DEF TokensIssued, SuccessionInv, RequestsFit
    <3>4. req[r].answer = "ok" => c \in Jars /\ c.refresh = req[r].fresh
      BY <3>3, CookieFacts, ValuesDiffer
    <3> HIDE DEF c, r
    <3>5. c \in Jars => [c EXCEPT !.state = 0].refresh = c.refresh
      BY DEF Jars
    <3> QED
      BY <3>2, <3>3, <3>4, <3>5
  <2>4. ASSUME NEW t \in Tab, StartLogin(t) \/ Callback(t) PROVE Issued
    BY <1>0, <2>4 DEF StartLogin, Callback, Jars
  <2>5. ASSUME AccessRunsOut PROVE Issued
    BY <1>0, <2>5 DEF AccessRunsOut, Jars
  <2>6. ASSUME NEW t \in Tab,
               \/ \E i \in Instance : PageRequest(t, i)
               \/ PagePasses(t) \/ RefreshOnce(t) \/ PageLost(t) \/ ListFavorites(t)
               \/ CallRefused(t) \/ CallRefreshes(t) \/ CallLost(t) \/ Logout(t)
        PROVE  jar' = jar
    BY <2>6 DEF PageRequest, PagePasses, RefreshOnce, PageLost, ListFavorites, CallRefused,
                CallRefreshes, CallLost, Logout
  <2>7. ASSUME NEW i \in Instance, NEW k \in Token, RefreshAnswered(i, k) \/ RefreshTimesOut(i, k)
        PROVE  jar' = jar
    BY <2>7 DEF RefreshAnswered, RefreshTimesOut
  <2>8. ASSUME Server \/ TimePasses \/ UNCHANGED vars PROVE jar' = jar
    BY <2>8 DEF Server, TimePasses, webVars, vars
  <2>9. jar' = jar => Issued
    OBVIOUS
  <2> HIDE DEF Issued
  <2>10. Issued
    BY <2>1, <2>2, <2>3, <2>4, <2>5, <2>6, <2>7, <2>8, <2>9 DEF WebNext
  <2> QED
    BY <2>10 DEF Issued
<1>2. jar'.refresh \in Token /\ Used(jar'.refresh)
  BY <1>0, <1>1 DEF Jars
<1> QED
  BY <1>2, UsedForGood

LEMMA AnswersKept ==
  ASSUME WebInv, [WebNext]_vars, NEW r \in Req, req'[r].at = "answered",
         req'[r].op \in {"refresh", "login"}, req'[r].answer = "ok"
  PROVE  req'[r].fresh \in Token
<1> USE DEF WebInv, CookieInv
<1>1. CASE req'[r] = req[r]
  BY <1>1 DEF TokensIssued
<1>2. CASE ServerStep
  <2>1. RequestMoves(r)
    BY <1>2, RequestsMove
  <2> QED
    BY <1>1, <2>1 DEF RequestMoves, GoesOn, GetsAnswer, Forgotten, NoRequest, Holding
<1>3. CASE Clock
  BY <1>1, <1>3 DEF Clock, GracePasses, TokenExpires
<1>4. CASE ClientReq
  <2>0. req \in [Req -> Requests]
    BY DEF ServerInv, ServerTypeOK
  <2>1. \A q \in Req, op \in Op, token \in Token \cup {None} : Sends(q, op, token) => r # q \/ req'[q].at = "sent"
    BY <2>0, SendEffects DEF Sends
  <2>2. \A q \in Req : req' = Taken(q) \/ req' = GivenUp(q) => req'[r] = req[r] \/ req'[r].at # "answered"
    BY <2>0, SlotEffects
  <2>3. \A q \in Req, op \in Op, token \in Token \cup {None} : Sends(q, op, token) /\ r # q => req'[r] = req[r]
    BY <2>0 DEF Sends
  <2> QED
    BY <1>1, <1>4, <2>1, <2>2, <2>3 DEF ClientReq, Op
<1> QED
  BY <1>2, <1>3, <1>4, StepsByKind

LEMMA IssuedKept == WebInv /\ [WebNext]_vars => TokensIssued'
<1> SUFFICES ASSUME WebInv, [WebNext]_vars PROVE TokensIssued'
  OBVIOUS
<1>1. \A t \in Tab : /\ tab'[t].refresh # None => row'[tab'[t].refresh].state # "unused"
                     /\ tab'[t].set \in Token => row'[tab'[t].set].state # "unused"
  <2>1. \A t \in Tab : Fits(tab'[t])
    BY TabsFit
  <2> QED
    BY <2>1, UsedForGood DEF Fits, TabRecords
<1> QED
  BY <1>1, JarIssued, AnswersKept DEF TokensIssued, Used

\* A slot that stays with its owner.
Kept(r) == /\ req'[r].op = req[r].op
           /\ req[r].waited => req'[r].waited
           /\ req[r].at # "idle" => req'[r].at # "idle"
TabKept(u) == tab'[u].at = tab[u].at /\ tab'[u].by = tab[u].by

\* Owners that only let go.
LEMMA SlotsFewer ==
  ASSUME SlotsHeld,
         \A u \in Tab : tab'[u].at \in {"renewing", "callback", "logout"}
                       => TabKept(u) /\ Kept(tab[u].by),
         \A i \in Instance, k \in Token : inFlight'[i][k] # None
                       => inFlight'[i][k] = inFlight[i][k] /\ Kept(inFlight[i][k])
  PROVE  SlotsHeld'
  BY DEF SlotsHeld, Owned, Holds, Kept, TabKept

\* A tab that sends a request gets a slot of its own.
LEMMA SlotsMore ==
  ASSUME SlotsHeld, NEW t \in Tab, NEW r \in Req, req[r].at = "idle",
         tab'[t].by = r, req'[r].at = "sent", req'[r].waited,
         \/ tab'[t].at = "renewing" /\ req'[r].op = "refresh"
         \/ tab'[t].at = "callback" /\ req'[r].op = "login"
         \/ tab'[t].at = "logout" /\ req'[r].op = "logout",
         \A u \in Tab \ {t} : tab'[u] = tab[u], \A q \in Req \ {r} : req'[q] = req[q],
         inFlight' = inFlight
  PROVE  SlotsHeld'
<1>1. \A u \in Tab : Holds(u) => tab[u].by \in Req /\ tab[u].by # r
  BY DEF SlotsHeld, Owned, Holds
<1>2. \A i \in Instance, k \in Token : inFlight[i][k] # None => inFlight[i][k] \in Req /\ inFlight[i][k] # r
  BY DEF SlotsHeld, Owned
<1>3. \A u \in Tab : /\ tab'[u].at = "renewing" => Owned(tab[u].by, "refresh")'
                     /\ tab'[u].at = "callback" => Owned(tab[u].by, "login")'
                     /\ tab'[u].at = "logout" => Owned(tab[u].by, "logout")'
  BY <1>1 DEF SlotsHeld, Owned, Holds
<1>4. \A u, v \in Tab : Holds(u)' /\ Holds(v)' /\ tab'[u].by = tab'[v].by => u = v
  BY <1>1 DEF SlotsHeld, Holds
<1>5. \A i \in Instance, k \in Token : inFlight[i][k] # None =>
        /\ Owned(inFlight[i][k], "refresh")'
        /\ \A u \in Tab : tab'[u].at = "renewing" => tab'[u].by # inFlight[i][k]
  BY <1>2 DEF SlotsHeld, Owned
<1> QED
  BY <1>3, <1>4, <1>5 DEF SlotsHeld

LEMMA SlotsKept == WebInv /\ [WebNext]_vars => SlotsHeld'
<1> SUFFICES ASSUME WebInv, [WebNext]_vars PROVE SlotsHeld'
  OBVIOUS
<1> USE DEF WebInv, CookieInv
<1> DEFINE Hold == SlotsHeld'
<1>0. /\ tab \in [Tab -> TabRecords] /\ inFlight \in [Instance -> [Token -> Req \cup {None}]]
      /\ req \in [Req -> Requests] /\ SlotsHeld
  BY DEF WebTypeOK, ServerInv, ServerTypeOK
<1>q. Quiet.at = "idle"
  BY QuietFacts
<1>w. \A r, q \in Req : q # r => /\ req' = Taken(r) \/ req' = GivenUp(r) => Kept(q)
  BY <1>0, SlotEffects DEF Kept
<1>x. \A u \in Tab : Holds(u) => tab[u].by \in Req
  BY DEF SlotsHeld, Owned, Holds
<1>y. \A i \in Instance, k \in Token : inFlight[i][k] # None => inFlight[i][k] \in Req
  BY DEF SlotsHeld, Owned
<1>1. ASSUME ServerStep, UNCHANGED <<tab, inFlight>> PROVE Hold
  <2>1. \A r \in Req : req[r].at # "idle" /\ req[r].waited => Kept(r)
    BY <1>1, ServerKeepsSlots DEF Kept
  <2>2. \A u \in Tab : Holds(u) => Kept(tab[u].by)
    BY <2>1 DEF SlotsHeld, Owned, Holds
  <2>3. \A i \in Instance, k \in Token : inFlight[i][k] # None => Kept(inFlight[i][k])
    BY <2>1 DEF SlotsHeld, Owned
  <2> QED
    BY <1>1, <2>2, <2>3, SlotsFewer DEF TabKept, Holds
\* Tabs that hold no slot come and go.
<1>2. ASSUME UNCHANGED <<req, inFlight>>,
             \A u \in Tab : tab'[u] = tab[u]
                           \/ tab'[u].at \notin {"renewing", "callback", "logout"}
      PROVE  Hold
  BY <1>2, SlotsFewer DEF TabKept, Kept
<1>3. ASSUME Server \/ TimePasses \/ AccessRunsOut \/ UNCHANGED vars PROVE Hold
  BY <1>1, <1>2, <1>3 DEF Server, TimePasses, AccessRunsOut, webVars, vars, serverVars, GracePasses,
                          TokenExpires
<1>4. ASSUME NEW t \in Tab, \E i \in Instance : PageRequest(t, i) PROVE Hold
  <2>1. PICK i \in Instance : PageRequest(t, i)
    BY <1>4
  <2> DEFINE rec == [Quiet EXCEPT !.at = "sent", !.by = i, !.refresh = jar.refresh, !.access = jar.access]
  <2>2. rec.at = "sent"
    BY QuietFacts DEF TabRecords
  <2>3. tab' = [tab EXCEPT ![t] = rec]
    BY <2>1 DEF PageRequest
  <2> HIDE DEF rec
  <2> QED
    BY <1>0, <1>2, <2>1, <2>2, <2>3 DEF PageRequest, serverVars
<1>5. ASSUME NEW t \in Tab, PagePasses(t) \/ PageArrives(t) \/ PageLost(t) PROVE Hold
  <2>1. With(t, "answered").at = "answered"
    BY TabFacts DEF Places
  <2> QED
    BY <1>0, <1>2, <1>5, <1>q, <2>1 DEF PagePasses, PageArrives, PageLost, serverVars
<1>6. \A heart \in {"none", "known", "anonymous"} : [Quiet EXCEPT !.heart = heart].at = "idle"
  BY QuietFacts DEF TabRecords
<1>7. ASSUME NEW t \in Tab, ListFavorites(t) PROVE Hold
  <2>1. \E heart \in {"none", "known", "anonymous"} : tab' = [tab EXCEPT ![t] = [Quiet EXCEPT !.heart = heart]]
    BY <1>7 DEF ListFavorites
  <2> QED
    BY <1>0, <1>2, <1>6, <1>7, <2>1 DEF ListFavorites, serverVars
<1>8. ASSUME NEW t \in Tab, CallRefused(t) \/ StartLogin(t) PROVE Hold
  <2>1. \E n : tab' = [tab EXCEPT ![t] = [Quiet EXCEPT !.at = "refused"]]
              \/ tab' = [tab EXCEPT ![t] = [Quiet EXCEPT !.at = "provider", !.by = n]]
    BY <1>8 DEF CallRefused, StartLogin
  <2>2. /\ [Quiet EXCEPT !.at = "refused"].at = "refused"
        /\ \A n : [Quiet EXCEPT !.at = "provider", !.by = n].at = "provider"
    BY QuietFacts DEF TabRecords
  <2> QED
    BY <1>0, <1>2, <1>8, <2>1, <2>2 DEF CallRefused, StartLogin, serverVars
\* A slot is taken from its owner, or given up by it.
<1>9. ASSUME NEW t \in Tab, CallRetried(t) \/ CallLost(t) \/ LoggedIn(t) \/ LoggedOut(t) PROVE Hold
  <2> DEFINE r == tab[t].by
  <2>1. Holds(t) /\ r \in Req /\ inFlight' = inFlight /\ (req' = Taken(r) \/ req' = GivenUp(r))
    BY <1>9, <1>x DEF CallRetried, CallLost, LoggedIn, LoggedOut, Holds
  <2>2. \E heart \in {"none", "known", "anonymous"} :
          tab' = [tab EXCEPT ![t] = Quiet] \/ tab' = [tab EXCEPT ![t] = [Quiet EXCEPT !.heart = heart]]
    BY <1>9 DEF CallRetried, CallLost, LoggedIn, LoggedOut
  <2>3. tab'[t].at = "idle" /\ \A u \in Tab \ {t} : tab'[u] = tab[u]
    BY <1>0, <1>6, <1>q, <2>2
  <2>4. req[r].op # "refresh" \/ tab[t].at = "renewing"
    BY <1>9, <2>1 DEF CallRetried, CallLost, LoggedIn, LoggedOut, SlotsHeld, Owned
  <2> HIDE DEF r
  <2>5. \A u \in Tab : tab'[u].at \in {"renewing", "callback", "logout"} => TabKept(u) /\ Kept(tab[u].by)
    <3> SUFFICES ASSUME NEW u \in Tab, tab'[u].at \in {"renewing", "callback", "logout"}
                 PROVE  TabKept(u) /\ Kept(tab[u].by)
      OBVIOUS
    <3>1. u # t /\ Holds(u) /\ TabKept(u)
      BY <2>3 DEF Holds, TabKept
    <3>2. tab[u].by \in Req /\ tab[u].by # r
      BY <1>x, <2>1, <3>1 DEF SlotsHeld, r
    <3> QED
      BY <1>w, <2>1, <3>1, <3>2
  <2>6. \A i \in Instance, k \in Token : inFlight[i][k] # None => Kept(inFlight[i][k])
    <3> SUFFICES ASSUME NEW i \in Instance, NEW k \in Token, inFlight[i][k] # None
                 PROVE  Kept(inFlight[i][k])
      OBVIOUS
    <3>1. inFlight[i][k] \in Req /\ inFlight[i][k] # r
      BY <2>4 DEF SlotsHeld, Owned, r
    <3> QED
      BY <1>w, <2>1, <3>1
  <2> QED
    BY <2>1, <2>5, <2>6, SlotsFewer
<1>10. ASSUME NEW i \in Instance, NEW k \in Token, RefreshAnswered(i, k) \/ RefreshTimesOut(i, k)
       PROVE  Hold
  <2> DEFINE r == inFlight[i][k]
  <2>1. r # None /\ r \in Req /\ (req' = Taken(r) \/ req' = GivenUp(r)) /\ req[r].op = "refresh"
    BY <1>10, <1>y DEF RefreshAnswered, RefreshTimesOut, SlotsHeld, Owned
  <2>2. PICK set : Released(i, k, set)
    BY <1>10 DEF RefreshAnswered, RefreshTimesOut
  <2>3. inFlight' = [inFlight EXCEPT ![i][k] = None]
    BY <2>2 DEF Released
  <2> DEFINE rec(u) == [With(u, "answered") EXCEPT !.set = set]
  <2>4. \A u \in Tab : rec(u).at = "answered"
    BY TabFacts DEF Places, TabRecords
  <2>5. \A u \in Tab : tab'[u] = tab[u] \/ tab'[u] = rec(u)
    BY <2>2 DEF Released
  <2> HIDE DEF rec, r
  <2>6. \A u \in Tab : tab'[u].at \in {"renewing", "callback", "logout"} => TabKept(u) /\ Kept(tab[u].by)
    <3> SUFFICES ASSUME NEW u \in Tab, tab'[u].at \in {"renewing", "callback", "logout"}
                 PROVE  TabKept(u) /\ Kept(tab[u].by)
      OBVIOUS
    <3>1. Holds(u) /\ TabKept(u)
      BY <2>4, <2>5 DEF Holds, TabKept
    <3>2. tab[u].by \in Req /\ tab[u].by # r
      BY <2>1, <3>1 DEF SlotsHeld, Owned, Holds, r
    <3> QED
      BY <1>w, <2>1, <3>1, <3>2
  <2>7. \A j \in Instance, l \in Token : inFlight'[j][l] # None
          => inFlight'[j][l] = inFlight[j][l] /\ Kept(inFlight[j][l])
    <3> SUFFICES ASSUME NEW j \in Instance, NEW l \in Token, inFlight'[j][l] # None
                 PROVE  inFlight'[j][l] = inFlight[j][l] /\ Kept(inFlight[j][l])
      OBVIOUS
    <3>1. ~(j = i /\ l = k) /\ inFlight'[j][l] = inFlight[j][l]
      BY <1>0, <2>3
    <3>2. inFlight[j][l] \in Req /\ inFlight[j][l] # r
      BY <1>y, <3>1 DEF SlotsHeld, r
    <3> QED
      BY <1>w, <2>1, <3>1, <3>2
  <2> QED
    BY <2>6, <2>7, SlotsFewer
\* A request is sent: by a tab, or by a web server for its pages.
<1>11. ASSUME NEW t \in Tab, NEW rec, NEW op \in {"refresh", "login", "logout"},
              NEW token \in Token \cup {None}, Idle # {}, tab' = [tab EXCEPT ![t] = rec],
              req' = [req EXCEPT ![FreeSlot] = Sent(op, token)], inFlight' = inFlight,
              rec.by = FreeSlot,
              \/ rec.at = "renewing" /\ op = "refresh"
              \/ rec.at = "callback" /\ op = "login"
              \/ rec.at = "logout" /\ op = "logout"
       PROVE  Hold
  <2>1. FreeSlot \in Req /\ req[FreeSlot].at = "idle"
    BY <1>11, FreeSlotIdle
  <2>2. op \in Op
    BY DEF Op
  <2>3. Sent(op, token).at = "sent" /\ Sent(op, token).op = op /\ Sent(op, token).waited
    BY <1>0, <2>1, <2>2, SendEffects
  <2>4. req'[FreeSlot] = Sent(op, token) /\ tab'[t] = rec
    BY <1>0, <1>11, <2>1
  <2>5. (\A u \in Tab \ {t} : tab'[u] = tab[u]) /\ (\A q \in Req \ {FreeSlot} : req'[q] = req[q])
    BY <1>0, <1>11
  <2> QED
    BY <1>0, <1>11, <2>1, <2>3, <2>4, <2>5, SlotsMore
<1>12. ASSUME NEW t \in Tab, CallRefreshes(t) PROVE Hold
  <2>1. CASE jar.refresh = None
    BY <1>0, <1>2, <1>6, <1>12, <2>1 DEF CallRefreshes
  <2>2. CASE jar.refresh # None
    <3> DEFINE rec == [With(t, "renewing") EXCEPT !.refresh = jar.refresh, !.by = FreeSlot]
    <3>1. rec.at = "renewing" /\ rec.by = FreeSlot
      BY TabFacts DEF Places, TabRecords
    <3>2. /\ tab' = [tab EXCEPT ![t] = rec] /\ Idle # {} /\ inFlight' = inFlight
          /\ req' = [req EXCEPT ![FreeSlot] = Sent("refresh", jar.refresh)]
      BY <1>12, <2>2 DEF CallRefreshes
    <3>3. jar.refresh \in Token \cup {None}
      BY DEF WebTypeOK, Jars
    <3> HIDE DEF rec
    <3> QED
      BY <1>11, <3>1, <3>2, <3>3
  <2> QED
    BY <2>1, <2>2
<1>13. ASSUME NEW t \in Tab, Callback(t) PROVE Hold
  <2>1. CASE jar.state # tab[t].by
    BY <1>0, <1>2, <1>q, <1>13, <2>1 DEF Callback
  <2>2. CASE jar.state = tab[t].by
    <3> DEFINE rec == [With(t, "callback") EXCEPT !.by = FreeSlot]
    <3>1. rec.at = "callback" /\ rec.by = FreeSlot
      BY TabFacts DEF Places, TabRecords
    <3>2. /\ tab' = [tab EXCEPT ![t] = rec] /\ Idle # {} /\ inFlight' = inFlight
          /\ req' = [req EXCEPT ![FreeSlot] = Sent("login", None)]
      BY <1>13, <2>2 DEF Callback
    <3> HIDE DEF rec
    <3> QED
      BY <1>11, <3>1, <3>2
  <2> QED
    BY <2>1, <2>2
<1>14. ASSUME NEW t \in Tab, Logout(t) PROVE Hold
  <2> DEFINE rec == [Quiet EXCEPT !.at = "logout", !.by = FreeSlot, !.refresh = jar.refresh]
  <2>1. rec.at = "logout" /\ rec.by = FreeSlot
    BY QuietFacts DEF TabRecords
  <2>2. /\ tab' = [tab EXCEPT ![t] = rec] /\ Idle # {} /\ inFlight' = inFlight
        /\ req' = [req EXCEPT ![FreeSlot] = Sent("logout", jar.refresh)]
    BY <1>14 DEF Logout
  <2>3. jar.refresh \in Token \cup {None}
    BY DEF WebTypeOK, Jars
  <2> HIDE DEF rec
  <2> QED
    BY <1>11, <2>1, <2>2, <2>3
<1>15. ASSUME NEW t \in Tab, RefreshOnce(t) PROVE Hold
  <2> DEFINE i == tab[t].by
             k == tab[t].refresh
  <2>1. With(t, "waiting").at = "waiting" /\ tab' = [tab EXCEPT ![t] = With(t, "waiting")]
    BY <1>15, TabFacts DEF Places, RefreshOnce
  <2>2. i \in Instance /\ k \in Token
    BY <1>15 DEF RefreshOnce, NeedsSessionRefresh, PagesWait, WebTypeOK, TabRecords
  <2>3. CASE UNCHANGED <<req, inFlight>>
    BY <1>0, <1>2, <2>1, <2>3
  <2>4. CASE inFlight[i][k] = None /\ Idle # {} /\ req' = [req EXCEPT ![FreeSlot] = Sent("refresh", k)]
             /\ inFlight' = [inFlight EXCEPT ![i][k] = FreeSlot]
    <3> DEFINE r == FreeSlot
    <3>1. r \in Req /\ req[r].at = "idle"
      BY <2>4, FreeSlotIdle
    <3>2. Sent("refresh", k).at = "sent" /\ Sent("refresh", k).op = "refresh" /\ Sent("refresh", k).waited
      BY <1>0, <2>2, <3>1, SendEffects DEF Op
    <3>3. req'[r] = Sent("refresh", k) /\ \A q \in Req \ {r} : req'[q] = req[q]
      BY <1>0, <2>4, <3>1
    <3>4. /\ inFlight'[i][k] = r
          /\ \A j \in Instance, l \in Token : ~(j = i /\ l = k) => inFlight'[j][l] = inFlight[j][l]
      BY <1>0, <2>2, <2>4
    <3>5. \A u \in Tab : tab'[u].at \in {"renewing", "callback", "logout"} => u # t /\ tab'[u] = tab[u]
      BY <1>0, <2>1
    <3> HIDE DEF i, k, r
    <3>6. \A u \in Tab : Holds(u) => tab[u].by # r
      BY <3>1 DEF SlotsHeld, Owned, Holds
    <3>7. \A j \in Instance, l \in Token : inFlight[j][l] # None => inFlight[j][l] \in Req \ {r}
      BY <3>1 DEF SlotsHeld, Owned
    <3>8. /\ \A u \in Tab :
               /\ tab'[u].at = "renewing" => Owned(tab[u].by, "refresh")'
               /\ tab'[u].at = "callback" => Owned(tab[u].by, "login")'
               /\ tab'[u].at = "logout" => Owned(tab[u].by, "logout")'
          /\ \A u, v \in Tab : Holds(u)' /\ Holds(v)' /\ tab'[u].by = tab'[v].by => u = v
      BY <3>3, <3>5, <3>6 DEF SlotsHeld, Owned, Holds
    <3>9. ASSUME NEW j \in Instance, NEW l \in Token, inFlight'[j][l] # None
          PROVE  /\ Owned(inFlight[j][l], "refresh")'
                 /\ \A u \in Tab : tab'[u].at = "renewing" => tab'[u].by # inFlight'[j][l]
      <4>1. CASE j = i /\ l = k
        BY <3>1, <3>2, <3>3, <3>4, <3>5, <3>6, <4>1 DEF Owned, Holds
      <4>2. CASE ~(j = i /\ l = k)
        BY <3>3, <3>4, <3>5, <3>7, <3>9, <4>2 DEF SlotsHeld, Owned
      <4> QED
        BY <4>1, <4>2
    <3>10. \A j, m \in Instance, l, n \in Token :
             inFlight'[j][l] # None /\ inFlight'[j][l] = inFlight'[m][n] => j = m /\ l = n
      BY <3>4, <3>7 DEF SlotsHeld
    <3> QED
      BY <3>8, <3>9, <3>10 DEF SlotsHeld
  <2> QED
    BY <1>15, <2>3, <2>4 DEF RefreshOnce
<1> HIDE DEF Hold
<1>16. Hold
  BY <1>3, <1>4, <1>5, <1>7, <1>8, <1>9, <1>10, <1>12, <1>13, <1>14, <1>15 DEF WebNext
<1> QED
  BY <1>16 DEF Hold

-----------------------------------------------------------------------------
(* Logouts.                                                                *)

LEMMA SpentStays ==
  ASSUME WebInv, [WebNext]_vars, NEW e \in Token, Spent(e) PROVE Spent(e)'
<1>1. CASE row' = row
  BY <1>1 DEF Spent
<1>2. CASE RowsMove
  BY <1>2, SpentForGood
<1> QED
  BY <1>1, <1>2, StepsByKind, TokensMove DEF ClientReq, Clock, WebInv

\* The request of a logout, and the token it is to end.
Ending(r, e) ==
  \/ req[r].at # "answered" /\ req[r].token = e
  \/ req[r].at = "answered" /\ (req[r].answer = "ok" => Spent(e))

LEMMA EndingStays ==
  ASSUME WebInv, [WebNext]_vars, NEW r \in Req, NEW e \in Token, Ending(r, e),
         Owned(r, "logout"), ServerStep \/ req'[r] = req[r]
  PROVE  Ending(r, e)'
<1> USE DEF WebInv
<1>1. CASE req'[r] = req[r]
  BY <1>1, SpentStays DEF Ending
<1>2. CASE ServerStep
  <2>1. GoesOn(r) \/ GetsAnswer(r) \/ req'[r] = req[r]
    BY <1>2, RequestsMove DEF RequestMoves, Forgotten, Owned
  <2>2. CASE GoesOn(r)
    BY <2>2 DEF GoesOn, Ending, Holding
  <2>3. CASE GetsAnswer(r)
    <3>1. req'[r].answer = "ok" => Spent(e)'
      BY <2>3 DEF GetsAnswer, Ending, Owned
    <3> QED
      BY <2>3, <3>1 DEF GetsAnswer, Ending
  <2> QED
    BY <1>1, <2>1, <2>2, <2>3
<1> QED
  BY <1>1, <1>2

\* A logout that is under way keeps its tab and its slot to itself.
LEMMA LogoutWaits ==
  ASSUME WebInv, [WebNext]_vars, NEW t \in Tab, ~Logout(t),
         \/ tab'[t].at = "logout"
         \/ tab[t].at = "logout" /\ ~LoggedOut(t) /\ ~CallLost(t)
  PROVE  tab'[t] = tab[t] /\ (ServerStep \/ req'[tab[t].by] = req[tab[t].by])
<1> USE DEF WebInv, CookieInv
<1> DEFINE Waits == tab'[t] = tab[t] /\ (ServerStep \/ req'[tab[t].by] = req[tab[t].by])
<1>0. tab \in [Tab -> TabRecords] /\ req \in [Req -> Requests]
  BY DEF WebTypeOK, ServerInv, ServerTypeOK
<1>q. /\ Quiet.at = "idle"
      /\ \A heart \in {"none", "known", "anonymous"} : [Quiet EXCEPT !.heart = heart].at = "idle"
  BY QuietFacts DEF TabRecords
<1>w. \A u \in Tab : /\ With(u, "answered").at = "answered" /\ With(u, "waiting").at = "waiting"
                     /\ \A set : [With(u, "answered") EXCEPT !.set = set].at = "answered"
  BY TabFacts DEF Places, TabRecords
<1>1. ASSUME tab' = tab, UNCHANGED req \/ ServerStep PROVE Waits
  BY <1>1
<1>2. ASSUME NEW u \in Tab, NEW rec, rec.at # "logout", tab' = [tab EXCEPT ![u] = rec],
             tab[u].at # "logout" \/ LoggedOut(u) \/ CallLost(u)
      PROVE  u # t /\ tab'[t] = tab[t] /\ Owned(tab[t].by, "logout")
  <2>1. u # t /\ tab'[t] = tab[t]
    BY <1>0, <1>2
  <2> QED
    BY <2>1 DEF SlotsHeld
\* Somebody sends a request, or takes or gives up that of a slot of its own.
<1>3. ASSUME tab'[t] = tab[t], Owned(tab[t].by, "logout"),
             \/ UNCHANGED req
             \/ Idle # {} /\ \E new : req' = [req EXCEPT ![FreeSlot] = new]
             \/ \E r \in Req : r # tab[t].by /\ (req' = Taken(r) \/ req' = GivenUp(r))
      PROVE  Waits
  <2>1. tab[t].by \in Req /\ req[tab[t].by].at # "idle"
    BY <1>3 DEF Owned
  <2> QED
    BY <1>0, <1>3, <2>1, FreeSlotIdle, SlotEffects
<1>4. ASSUME NEW u \in Tab,
             \/ \E i \in Instance : PageRequest(u, i)
             \/ PagePasses(u) \/ PageArrives(u) \/ PageLost(u) \/ ListFavorites(u)
             \/ CallRefused(u) \/ StartLogin(u)
      PROVE  Waits
  <2> DEFINE sent(i) == [Quiet EXCEPT !.at = "sent", !.by = i, !.refresh = jar.refresh,
                                      !.access = jar.access]
             heart(x) == [Quiet EXCEPT !.heart = x]
             refused == [Quiet EXCEPT !.at = "refused"]
             away == [Quiet EXCEPT !.at = "provider", !.by = tally.logins + 1]
             Is(rec) == tab' = [tab EXCEPT ![u] = rec]
  <2>q. /\ \A i : sent(i).at = "sent"
        /\ \A x : heart(x).at = "idle"
        /\ refused.at = "refused" /\ away.at = "provider"
    BY QuietFacts DEF TabRecords
  <2>1. \E rec : rec.at # "logout" /\ Is(rec)
    <3>1. \/ \E i \in Instance : Is(sent(i))
          \/ Is(With(u, "answered")) \/ Is(Quiet) \/ Is(refused) \/ Is(away)
          \/ \E x : Is(heart(x))
      BY <1>4 DEF PageRequest, PagePasses, PageArrives, PageLost, ListFavorites, CallRefused, StartLogin
    <3> HIDE DEF sent, heart, refused, away, Is
    <3> QED
      BY <1>q, <1>w, <2>q, <3>1
  <2>2. req' = req
    BY <1>4 DEF PageRequest, PagePasses, PageArrives, PageLost, ListFavorites, CallRefused,
                StartLogin, serverVars
  <2>3. tab[u].at # "logout"
    BY <1>4 DEF PageRequest, PagePasses, PageArrives, PageLost, ListFavorites, CallRefused, StartLogin
  <2> QED
    BY <1>2, <1>3, <2>1, <2>2, <2>3
<1>5. ASSUME NEW u \in Tab, RefreshOnce(u) \/ CallRefreshes(u) \/ Callback(u) PROVE Waits
  <2> DEFINE renewing == [With(u, "renewing") EXCEPT !.refresh = jar.refresh, !.by = FreeSlot]
             callback == [With(u, "callback") EXCEPT !.by = FreeSlot]
             heart == [Quiet EXCEPT !.heart = "anonymous"]
             Is(rec) == tab' = [tab EXCEPT ![u] = rec]
  <2>q. renewing.at = "renewing" /\ callback.at = "callback" /\ heart.at = "idle"
    BY QuietFacts, TabFacts DEF TabRecords, Places
  <2>1. \E rec : rec.at # "logout" /\ Is(rec)
    <3>1. Is(With(u, "waiting")) \/ Is(Quiet) \/ Is(heart) \/ Is(renewing) \/ Is(callback)
      BY <1>5 DEF RefreshOnce, CallRefreshes, Callback
    <3> HIDE DEF renewing, callback, heart, Is
    <3> QED
      BY <1>q, <1>w, <2>q, <3>1
  <2>2. UNCHANGED req \/ (Idle # {} /\ \E new : req' = [req EXCEPT ![FreeSlot] = new])
    BY <1>5 DEF RefreshOnce, CallRefreshes, Callback
  <2>3. tab[u].at # "logout"
    BY <1>5 DEF RefreshOnce, CallRefreshes, Callback
  <2> QED
    BY <1>2, <1>3, <2>1, <2>2, <2>3
<1>6. ASSUME NEW u \in Tab, Logout(u) PROVE Waits
  <2> DEFINE rec == [Quiet EXCEPT !.at = "logout", !.by = FreeSlot, !.refresh = jar.refresh]
  <2>1. u # t /\ tab' = [tab EXCEPT ![u] = rec]
    BY <1>6 DEF Logout
  <2> HIDE DEF rec
  <2>2. tab'[t] = tab[t] /\ Owned(tab[t].by, "logout")
    BY <1>0, <2>1 DEF SlotsHeld
  <2> QED
    BY <1>3, <1>6, <2>2 DEF Logout
<1>7. ASSUME NEW u \in Tab, CallRetried(u) \/ CallLost(u) \/ LoggedIn(u) \/ LoggedOut(u) PROVE Waits
  <2>1. \E rec : rec.at # "logout" /\ tab' = [tab EXCEPT ![u] = rec]
    BY <1>7, <1>q DEF CallRetried, CallLost, LoggedIn, LoggedOut
  <2>a. tab[u].at # "logout" \/ LoggedOut(u) \/ CallLost(u)
    BY <1>7 DEF CallRetried, LoggedIn
  <2>2. u # t /\ tab'[t] = tab[t] /\ Owned(tab[t].by, "logout")
    BY <1>2, <2>1, <2>a
  <2>3. Holds(u) /\ Holds(t) /\ tab[u].by \in Req
    BY <1>7, <2>2 DEF CallRetried, CallLost, LoggedIn, LoggedOut, Holds, SlotsHeld, Owned
  <2>4. tab[u].by # tab[t].by
    BY <2>2, <2>3 DEF SlotsHeld
  <2>5. req' = Taken(tab[u].by) \/ req' = GivenUp(tab[u].by)
    BY <1>7 DEF CallRetried, CallLost, LoggedIn, LoggedOut
  <2> QED
    BY <1>3, <2>2, <2>3, <2>4, <2>5
<1>8. ASSUME NEW i \in Instance, NEW k \in Token, RefreshAnswered(i, k) \/ RefreshTimesOut(i, k)
      PROVE  Waits
  <2>1. PICK set : Released(i, k, set)
    BY <1>8 DEF RefreshAnswered, RefreshTimesOut
  <2>2. tab'[t] = tab[t]
    <3> DEFINE rec == [With(t, "answered") EXCEPT !.set = set]
    <3>1. rec.at # "logout"
      BY <1>w
    <3>2. tab'[t] = IF t \in Waiters(i, k) THEN rec ELSE tab[t]
      BY <2>1 DEF Released
    <3>3. t \in Waiters(i, k) => tab[t].at # "logout"
      BY DEF Waiters
    <3> HIDE DEF rec
    <3> QED
      BY <3>1, <3>2, <3>3
  <2>3. Owned(tab[t].by, "logout")
    BY <2>2 DEF SlotsHeld
  <2>4. inFlight[i][k] \in Req /\ req[inFlight[i][k]].op = "refresh"
    BY <1>8 DEF RefreshAnswered, RefreshTimesOut, SlotsHeld, Owned
  <2>5. req' = Taken(inFlight[i][k]) \/ req' = GivenUp(inFlight[i][k])
    BY <1>8 DEF RefreshAnswered, RefreshTimesOut
  <2>6. inFlight[i][k] # tab[t].by
    BY <2>3, <2>4 DEF Owned
  <2> QED
    BY <1>3, <2>2, <2>3, <2>4, <2>5, <2>6
<1>9. ASSUME Server \/ TimePasses \/ AccessRunsOut \/ UNCHANGED vars PROVE Waits
  BY <1>1, <1>9 DEF Server, TimePasses, AccessRunsOut, webVars, vars, serverVars, GracePasses,
                    TokenExpires
<1> HIDE DEF Waits
<1>10. Waits
  BY <1>4, <1>5, <1>6, <1>7, <1>8, <1>9 DEF WebNext
<1> QED
  BY <1>10 DEF Waits

LEMMA LogoutsKept == WebInv /\ [WebNext]_vars => LogoutsEnd'
<1> SUFFICES ASSUME WebInv, [WebNext]_vars PROVE LogoutsEnd'
  OBVIOUS
<1> USE DEF WebInv, CookieInv
<1>0. tab \in [Tab -> TabRecords] /\ req \in [Req -> Requests] /\ ended \in Token \cup {None}
  BY DEF WebTypeOK, ServerInv, ServerTypeOK
<1>1. ASSUME ended' # None, ~ \E t \in Tab : LoggedOut(t) PROVE Spent(ended)'
  <2>1. ended' = ended
    BY <1>1 DEF WebNext, Server, TimePasses, AccessRunsOut, webVars, vars, PageRequest, PagePasses,
       RefreshOnce, PageArrives, PageLost, RefreshAnswered, RefreshTimesOut, ListFavorites,
       CallRefused, CallRefreshes, CallRetried, CallLost, StartLogin, Callback, LoggedIn, Logout
  <2>2. \A e \in Token : Spent(e) => Spent(e)'
    BY SpentStays
  <2> QED
    BY <1>0, <1>1, <2>1, <2>2 DEF LogoutsEnd, Spent
<1>2. ASSUME NEW t \in Tab, LoggedOut(t), ended' # None PROVE Spent(ended)'
  <2>1. \A e \in Token : Spent(e) => Spent(e)'
    BY SpentStays
  <2>2. /\ tab[t].refresh \in Token /\ tab[t].at = "logout" /\ req[tab[t].by].at = "answered"
        /\ req[tab[t].by].answer = "ok" => Spent(tab[t].refresh)
    BY <1>0, <1>2 DEF LoggedOut, LogoutsEnd, PagesWait, TabRecords
  <2>3. ended' \in Token /\ Spent(ended')
    BY <1>0, <1>2, <2>2 DEF LoggedOut, LogoutsEnd
  <2>4. \A e \in Token : e = ended' => Spent(e)'
    BY <2>1, <2>3
  <2> QED
    BY <2>3, <2>4 DEF Spent
<1>3. ASSUME NEW t \in Tab, Logout(t), tab'[t].at = "logout"
      PROVE  req'[tab'[t].by].at # "answered" /\ req'[tab'[t].by].token = tab'[t].refresh
  <2> DEFINE rec == [Quiet EXCEPT !.at = "logout", !.by = FreeSlot, !.refresh = jar.refresh]
  <2>1. rec.by = FreeSlot /\ rec.refresh = jar.refresh
    BY QuietFacts DEF TabRecords
  <2>2. /\ tab' = [tab EXCEPT ![t] = rec] /\ Idle # {}
        /\ req' = [req EXCEPT ![FreeSlot] = Sent("logout", jar.refresh)]
    BY <1>3 DEF Logout
  <2> HIDE DEF rec
  <2>3. jar.refresh \in Token \cup {None} /\ FreeSlot \in Req
    BY <2>2, FreeSlotIdle DEF WebTypeOK, Jars
  <2>4. Sent("logout", jar.refresh).at = "sent" /\ Sent("logout", jar.refresh).token = jar.refresh
    BY <1>0, <2>3, SendEffects DEF Op
  <2> QED
    BY <1>0, <2>1, <2>2, <2>3, <2>4
<1>4. ASSUME NEW t \in Tab, tab'[t].at = "logout", ~Logout(t)
      PROVE  tab'[t] = tab[t] /\ (ServerStep \/ req'[tab[t].by] = req[tab[t].by])
  BY <1>4, LogoutWaits
<1>5. ASSUME NEW t \in Tab, tab'[t].at = "logout"
      PROVE  \/ req'[tab'[t].by].at # "answered" /\ req'[tab'[t].by].token = tab'[t].refresh
             \/ req'[tab'[t].by].at = "answered"
                /\ (req'[tab'[t].by].answer = "ok" => Spent(tab[t].refresh)')
  <2>1. CASE Logout(t)
    BY <1>3, <1>5, <2>1
  <2>2. CASE ~Logout(t)
    <3> DEFINE r == tab[t].by
               e == tab[t].refresh
    <3>1. tab'[t] = tab[t] /\ (ServerStep \/ req'[r] = req[r])
      BY <1>4, <1>5, <2>2
    <3>2. /\ r \in Req /\ Owned(r, "logout") /\ e \in Token /\ Ending(r, e)
      BY <1>0, <1>5, <3>1 DEF SlotsHeld, Owned, LogoutsEnd, PagesWait, TabRecords, Ending
    <3>3. \A q \in Req, x \in Token : q = r /\ x = e => Ending(q, x)'
      BY <3>1, <3>2, EndingStays
    <3>4. PICK q \in Req, x \in Token : q = r /\ x = e
      BY <3>2
    <3>5. Ending(q, x)' /\ tab'[t].by = q /\ tab'[t].refresh = x
      BY <3>1, <3>3, <3>4
    <3> QED
      BY <3>5 DEF Ending, Spent
  <2> QED
    BY <2>1, <2>2
<1> QED
  BY <1>1, <1>2, <1>5 DEF LogoutsEnd

LEMMA InitHolds == WebInit => WebInv
<1> SUFFICES ASSUME WebInit PROVE WebInv
  OBVIOUS
<1> USE ValuesDiffer
<1>1. /\ \/ row = [t \in Token |-> UnusedRow] /\ jar = Empty
         \/ /\ row = [t \in Token |-> IF t = 1 THEN Inserted(1, 1, None) ELSE UnusedRow]
            /\ jar = [Empty EXCEPT !.refresh = 1]
      /\ req = [r \in Req |-> NoRequest] /\ tab = [t \in Tab |-> Quiet] /\ ended = None
      /\ inFlight = [i \in Instance |-> [t \in Token |-> None]] /\ failures = 0
  BY DEF WebInit
<1>2. ServerInv /\ SuccessionInv
  BY <1>1, ServerStarts
<1>3. 1 \in Token
  BY TokensAssumption DEF Token
<1>4. jar \in Jars /\ (jar.refresh # None => jar.refresh = 1 /\ Used(1))
  <2>1. Empty = [refresh |-> None, access |-> FALSE, state |-> 0] /\ Empty \in Jars
    BY DEF Empty, Jars
  <2>2. CASE row = [t \in Token |-> UnusedRow] /\ jar = Empty
    BY <2>1, <2>2
  <2>3. CASE /\ row = [t \in Token |-> IF t = 1 THEN Inserted(1, 1, None) ELSE UnusedRow]
             /\ jar = [Empty EXCEPT !.refresh = 1]
    <3>1. Inserted(1, 1, None).state = "live" /\ row[1] = Inserted(1, 1, None)
      BY <1>3, <2>3 DEF Inserted
    <3>2. jar = [refresh |-> 1, access |-> FALSE, state |-> 0]
      BY <2>1, <2>3
    <3>3. jar \in Jars
      BY <1>3, <3>2 DEF Jars
    <3> QED
      BY <3>1, <3>2, <3>3 DEF Used
  <2> QED
    BY <1>1, <2>2, <2>3
<1>5. WebTypeOK
  <2>1. tally \in [Counts -> Nat]
    BY DEF WebInit, Counts
  <2> QED
    BY <1>1, <1>4, <2>1, QuietFacts DEF WebTypeOK
<1>6. TokensIssued /\ PagesWait /\ SlotsHeld /\ LogoutsEnd
  BY <1>1, <1>4, QuietFacts DEF TokensIssued, PagesWait, SlotsHeld, Holds, LogoutsEnd, NoRequest
<1> QED
  BY <1>2, <1>5, <1>6 DEF WebInv, CookieInv

LEMMA WebInvHolds == WebSpec => []WebInv
<1>1. WebInv /\ [WebNext]_vars => WebInv'
  BY ServerSideKept, TypesKept, IssuedKept, SlotsKept, LogoutsKept DEF WebInv, CookieInv
<1> QED
  BY <1>1, InitHolds, PTL DEF WebSpec

\* After a logout no answer that was still under way, and no other step, leaves
\* the browser with a valid token that was logged out or is its successor
\* (LogoutKillsLateCookies).
THEOREM LogoutsKillLateCookies == WebSpec => []LogoutKillsLateCookies
<1>1. WebInv => LogoutKillsLateCookies
  BY DEF WebInv, CookieInv, LogoutsEnd, WebTypeOK, Jars, Spent, LogoutKillsLateCookies, Live
<1> QED
  BY <1>1, WebInvHolds, PTL

-----------------------------------------------------------------------------
(* As long as no answer is lost and nothing is rolled back, a logout is told *)
(* that it worked, so that one under way leaves its mark in ended.           *)

RequestsBare ==
  \A r \in Req : /\ req[r].op \in {"none", "refresh", "login", "logout"}
                 /\ req[r].at = "idle" => req[r].op = "none"
                 /\ req[r].at # "answered" => req[r].fresh = None

LogoutsWork ==
  tally.lost = 0 /\ failures = 0 =>
    \A r \in Req : req[r].op = "logout" =>
      /\ \E t \in Tab : tab[t].at = "logout" /\ tab[t].by = r
      /\ req[r].at = "answered" => req[r].answer = "ok"

BareInv == RequestsBare /\ LogoutsWork

LEMMA BareFacts == NoRequest.at = "idle" /\ NoRequest.op = "none" /\ NoRequest.fresh = None
  BY DEF NoRequest

LEMMA BareKept == WebInv /\ RequestsBare /\ [WebNext]_vars => RequestsBare'
<1> SUFFICES ASSUME WebInv, RequestsBare, [WebNext]_vars PROVE RequestsBare'
  OBVIOUS
<1> USE BareFacts DEF WebInv
<1>0. req \in [Req -> Requests]
  BY DEF ServerInv, ServerTypeOK
<1>1. CASE req' = req
  BY <1>1 DEF RequestsBare
<1>2. CASE ServerStep
  <2>1. ASSUME NEW r \in Req PROVE RequestMoves(r)
    BY <1>2, RequestsMove
  <2> QED
    BY <2>1 DEF RequestsBare, RequestMoves, GoesOn, GetsAnswer, Forgotten, Holding
<1>3. ASSUME NEW r \in Req, NEW op \in {"refresh", "login", "logout"}, NEW token \in Token \cup {None},
             Sends(r, op, token)
      PROVE  RequestsBare'
  <2>1. op \in Op
    BY DEF Op
  <2> DEFINE new == Sent(op, token)
  <2>2. new.at = "sent" /\ new.op = op /\ new.fresh = None /\ req' = [req EXCEPT ![r] = new]
    BY <1>0, <1>3, <2>1, SendEffects DEF Sends
  <2> HIDE DEF new
  <2> QED
    BY <1>0, <2>2 DEF RequestsBare
<1>4. ASSUME NEW r \in Req, req' = Taken(r) \/ req' = GivenUp(r) PROVE RequestsBare'
  <2> DEFINE left == [req[r] EXCEPT !.waited = FALSE]
  <2>1. left.at = req[r].at /\ left.op = req[r].op /\ left.fresh = req[r].fresh
    BY <1>0 DEF Requests
  <2>2. \/ req' = [req EXCEPT ![r] = NoRequest]
        \/ req' = [req EXCEPT ![r] = left]
    BY <1>4 DEF Taken, GivenUp
  <2> HIDE DEF left
  <2> QED
    BY <1>0, <2>1, <2>2 DEF RequestsBare
<1>5. CASE ClientReq
  BY <1>1, <1>3, <1>4, <1>5 DEF ClientReq
<1>6. CASE Clock
  BY <1>1, <1>6 DEF Clock, GracePasses, TokenExpires
<1> QED
  BY <1>2, <1>5, <1>6, StepsByKind

LEMMA LogoutAnswered ==
  ASSUME WebInv, RequestsBare, ServerStep, failures = 0, failures' = 0,
         NEW r \in Req, req[r].op = "logout", req[r].at # "answered", req'[r].at = "answered"
  PROVE  req'[r].answer = "ok"
<1> USE DEF WebInv
<1>0. ServerTypeOK /\ RequestsFit /\ \A q \in Req : req[q].op # "delete"
  BY DEF ServerInv, SuccessionInv, RequestsBare
<1>1. ASSUME NEW q \in Req, NEW answer \in Answer, NEW fresh \in Token \cup {None},
             Answered(q, answer, fresh), q = r => answer = "ok"
      PROVE  req'[r].answer = "ok"
  BY <1>0, <1>1, AnsweredEffect DEF NoRequest
<1>2. ASSUME NEW q \in Req, NEW phase \in Phase \ {"answered"}, Enters(q, phase)
      PROVE  req'[r].answer = "ok"
  BY <1>0, <1>2, EntersEffect
<1>3. ASSUME NEW q \in Req, RefreshRefused(q) PROVE req'[r].answer = "ok"
  BY <1>1, <1>3 DEF RefreshRefused, Answer
<1>4. ASSUME NEW q \in Req, RefreshDetectsReuse(q) \/ RefreshLocks(q) \/ DeleteStarts(q)
      PROVE  req'[r].answer = "ok"
  BY <1>2, <1>4 DEF RefreshDetectsReuse, RefreshLocks, DeleteStarts, Phase, Holding
<1>5. ASSUME NEW q \in Req, RotationCommits(q) \/ SessionInserted(q) PROVE req'[r].answer = "ok"
  <2>1. NextToken \in Token /\ q # r
    BY <1>0, <1>5, NextTokenUnused DEF RotationCommits, SessionInserted, RequestsFit, Unused
  <2> QED
    BY <1>1, <1>5, <2>1 DEF RotationCommits, SessionInserted, Answer
<1>6. ASSUME NEW q \in Req, LogoutLocks(q) PROVE req'[r].answer = "ok"
  BY <1>1, <1>2, <1>6 DEF LogoutLocks, Answer, Phase, Holding
<1>7. ASSUME NEW q \in Req, FamilySnapshot(q) PROVE req'[r].answer = "ok"
  <2> DEFINE new == [req[q] EXCEPT !.at = "sweeping",
                       !.sweep = {t \in Family(req[q].token) : row[t].state \in Unrevoked}]
  <2>1. req' = [req EXCEPT ![q] = new] /\ new.at = "sweeping"
    BY <1>0, <1>7 DEF FamilySnapshot, ServerTypeOK, Requests
  <2> HIDE DEF new
  <2> QED
    BY <1>0, <2>1 DEF ServerTypeOK
<1>8. ASSUME NEW q \in Req, FamilyRevoked(q) PROVE req'[r].answer = "ok"
  BY <1>1, <1>8 DEF FamilyRevoked, Answer
<1>9. ASSUME NEW q \in Req, DeleteCommits(q) \/ RolledBack(q) PROVE FALSE
  BY <1>0, <1>9 DEF DeleteCommits, RolledBack, RequestsFit, Deadlocked, Deleting
<1> QED
  BY <1>3, <1>4, <1>5, <1>6, <1>7, <1>8, <1>9 DEF ServerStep, RequestStep

\* An answer that nobody gets.
AnswerLost == \/ \E t \in Tab : CallLost(t) \/ PageLost(t)
              \/ \E i \in Instance, k \in Token : RefreshTimesOut(i, k)

\* Counters only count.
LEMMA NothingForgotten ==
  ASSUME WebInv, [WebNext]_vars
  PROVE  /\ tally'.lost = 0 => tally.lost = 0 /\ ~AnswerLost
         /\ tally'.calls = 0 => tally.calls = 0
         /\ failures' = 0 => failures = 0
<1>0. tally \in [Counts -> Nat] /\ failures \in Nat
  BY DEF WebInv, CookieInv, WebTypeOK
<1>1. tally' = tally \/ (\E what \in Counts : Tallied(what)) \/ tally' = [tally EXCEPT !.calls = 1]
  BY DEF WebNext, Server, TimePasses, AccessRunsOut, webVars, vars, PageRequest, PagePasses,
         RefreshOnce, PageArrives, PageLost, RefreshAnswered, RefreshTimesOut, ListFavorites,
         CallRefused, CallRefreshes, CallRetried, CallLost, StartLogin, Callback, LoggedIn, Logout,
         LoggedOut, Counts
<1>2. tally'.lost \in {tally.lost, tally.lost + 1} /\ tally'.calls \in {tally.calls, tally.calls + 1, 1}
  BY <1>0, <1>1 DEF Tallied, Counts
<1>3. AnswerLost => tally'.lost = tally.lost + 1
  BY <1>0 DEF AnswerLost, CallLost, PageLost, RefreshTimesOut, Tallied, Counts
<1>4. tally.lost \in Nat /\ tally.calls \in Nat
  BY <1>0 DEF Counts
<1>5. ServerStep => failures' = failures \/ failures' = failures + 1
  BY DEF ServerStep, RequestStep, RefreshRefused, RefreshDetectsReuse, RefreshLocks, RotationCommits, LogoutLocks,
         FamilySnapshot, FamilyRevoked, SessionInserted, DeleteStarts, DeleteCommits, RolledBack
<1>6. failures' = 0 => failures = 0
  BY <1>0, <1>5, StepsByKind DEF ClientReq
<1> QED
  BY <1>2, <1>3, <1>4, <1>6

LEMMA LogoutsGoOn ==
  ASSUME WebInv, BareInv, [WebNext]_vars, tally'.lost = 0, failures' = 0
  PROVE  LogoutsWork'
<1>a. tally.lost = 0 /\ failures = 0 /\ \A t \in Tab : ~CallLost(t)
  BY NothingForgotten DEF AnswerLost
<1> USE DEF WebInv, CookieInv, BareInv
<1>0. tab \in [Tab -> TabRecords] /\ req \in [Req -> Requests]
      /\ tally.lost = 0 /\ failures = 0 /\ \A t \in Tab : ~CallLost(t)
  BY <1>a DEF WebTypeOK, ServerInv, ServerTypeOK
<1> SUFFICES ASSUME NEW r \in Req, req'[r].op = "logout"
             PROVE  /\ \E t \in Tab : tab'[t].at = "logout" /\ tab'[t].by = r
                    /\ req'[r].at = "answered" => req'[r].answer = "ok"
  BY DEF LogoutsWork
<1>1. ASSUME NEW t \in Tab, Logout(t), r = FreeSlot
      PROVE  tab'[t].at = "logout" /\ tab'[t].by = r /\ req'[r].at # "answered"
  <2> DEFINE rec == [Quiet EXCEPT !.at = "logout", !.by = FreeSlot, !.refresh = jar.refresh]
  <2>1. rec.at = "logout" /\ rec.by = FreeSlot
    BY QuietFacts DEF TabRecords
  <2>2. /\ tab' = [tab EXCEPT ![t] = rec]
        /\ req' = [req EXCEPT ![FreeSlot] = Sent("logout", jar.refresh)]
    BY <1>1 DEF Logout
  <2> HIDE DEF rec
  <2>3. Sent("logout", jar.refresh).at = "sent"
    BY DEF Sent, NoRequest
  <2> QED
    BY <1>0, <1>1, <2>1, <2>2, <2>3
<1>2. req[r].op = "logout" \/ \E t \in Tab : Logout(t) /\ r = FreeSlot
  <2>1. CASE ServerStep
    BY <2>1, RequestsMove, BareFacts DEF RequestMoves, GoesOn, GetsAnswer, Forgotten
  <2>2. ASSUME NEW q \in Req, req' = Taken(q) \/ req' = GivenUp(q) PROVE req[r].op = "logout"
    <3>1. Taken(q)[q].op = "none" /\ GivenUp(q)[q].op \in {"none", req[q].op}
      BY <1>0, BareFacts DEF Taken, GivenUp, Requests
    <3> QED
      BY <1>0, <2>2, <3>1, SlotEffects
  <2>3. ASSUME NEW q \in Req, NEW op \in {"refresh", "logout", "login"},
               NEW token \in Token \cup {None}, Sends(q, op, token)
        PROVE  req[r].op = "logout" \/ (op = "logout" /\ r = q)
    <3>1. Sent(op, token).op = op
      BY DEF Sent, NoRequest
    <3> QED
      BY <1>0, <2>3, <3>1 DEF Sends
  <2>4. ASSUME NEW q \in Req, NEW token \in Token, Sends(q, "logout", token), NEW t \in Tab, Logout(t)
        PROVE  q = FreeSlot
    <3>1. Idle # {} /\ req' = [req EXCEPT ![FreeSlot] = Sent("logout", jar.refresh)]
      BY <2>4 DEF Logout
    <3>2. Sent("logout", token).at = "sent" /\ req[q].at = "idle"
          /\ req' = [req EXCEPT ![q] = Sent("logout", token)]
      BY <2>4 DEF Sends, Sent, NoRequest
    <3> QED
      BY <1>0, <3>1, <3>2, FreeSlotIdle
  <2>5. CASE Clock
    BY <2>5 DEF Clock, GracePasses, TokenExpires
  <2>6. CASE ClientReq
    BY <2>2, <2>3, <2>4, <2>6 DEF ClientReq
  <2> QED
    BY <2>1, <2>5, <2>6, StepsByKind
<1>3. ASSUME req[r].op = "logout"
      PROVE  /\ \E t \in Tab : tab'[t].at = "logout" /\ tab'[t].by = r
             /\ req'[r].at = "answered" => req'[r].answer = "ok"
  <2>1. PICK t \in Tab : tab[t].at = "logout" /\ tab[t].by = r
    BY <1>0, <1>3 DEF LogoutsWork
  <2>2. ~Logout(t)
    BY <2>1 DEF Logout
  <2>3. ~LoggedOut(t)
    BY <1>0, <2>1, BareFacts DEF LoggedOut, Taken
  <2>4. tab'[t] = tab[t] /\ (ServerStep \/ req'[r] = req[r])
    BY <1>0, <2>1, <2>2, <2>3, LogoutWaits
  <2>5. req[r].at = "answered" => req[r].answer = "ok"
    BY <1>0, <1>3 DEF LogoutsWork
  <2>6. ServerStep => (req[r].at = "answered" /\ req'[r] = req[r]) \/ req[r].at # "answered"
    BY RequestsMove, <2>1 DEF RequestMoves, GoesOn, GetsAnswer, Forgotten, SlotsHeld, Owned
  <2> QED
    BY <1>0, <1>3, <2>1, <2>4, <2>5, <2>6, LogoutAnswered
<1> QED
  BY <1>1, <1>2, <1>3

LEMMA BareInvKept == WebInv /\ BareInv /\ [WebNext]_vars => BareInv'
  BY BareKept, LogoutsGoOn DEF BareInv, LogoutsWork

-----------------------------------------------------------------------------
(* Pages that refresh the cookie.  As long as nothing disturbs them - no     *)
(* answer lost, no rollback, no logout, no call that refreshes by itself -   *)
(* tokens still expire and leave their grace time.                           *)

Calm ==
  /\ tally.lost = 0 /\ tally.calls = 0 /\ failures = 0 /\ ended = None
  /\ \A r \in Req : req[r].op # "logout"

SomeExpired == \E t \in Token : row[t].state = "expired"
WaitsFor(t, r) == tab[t].at = "waiting" /\ inFlight[tab[t].by][tab[t].refresh] = r

\* Every request is the login of a tab that came back from its provider, or
\* the refresh that a page waits for.
SomebodyWaits ==
  /\ \A t \in Tab : tab[t].at \notin {"renewing", "logout"}
  /\ \A r \in Req : req[r].at # "idle" =>
       /\ req[r].at \in {"sent", "rotating", "answered"}
       /\ \/ /\ req[r].op = "login" /\ req[r].at # "rotating"
             /\ \E t \in Tab : tab[t].at = "callback" /\ tab[t].by = r
          \/ /\ req[r].op = "refresh"
             /\ \E t \in Tab : /\ WaitsFor(t, r)
                               /\ req[r].at # "answered" => req[r].token = tab[t].refresh

\* A refresh fails because it raced another, or its token has expired; the
\* cookies are expired for no other reason.
RefusalsFair ==
  /\ \A r \in Req : req[r].at = "answered" /\ req[r].answer # "ok" =>
       /\ req[r].op = "refresh" /\ req[r].fresh = None
       /\ req[r].answer = "raced" \/ (req[r].answer = "expired" /\ SomeExpired)
  /\ \A t \in Tab : tab[t].set = Expire => SomeExpired

\* A token on its way to the browser, and one that a page submits.
Brought(f) == (\E t \in Tab : tab[t].set = f) \/ (\E r \in Req : req[r].fresh = f)
Submits(t, k) == tab[t].at \in {"sent", "waiting"} /\ ~tab[t].access /\ tab[t].refresh = k

\* A token on its way is valid; one that a page came with was revoked a
\* moment ago at worst.
BroughtValid ==
  /\ \A f \in Token : Brought(f) => row[f].state \in Unrevoked
  /\ \A t \in Tab, k \in Token : tab[t].at # "idle" /\ tab[t].refresh = k
                                 => row[k].state \in {"live", "expired", "grace"}

\* A token that is on its way, or has come with its access cookie, is
\* submitted by nobody.
BroughtOnce ==
  /\ \A t \in Tab, k \in Token : Submits(t, k) => ~Brought(k) /\ (jar.access => jar.refresh # k)
  /\ \A k \in Token : ~jar.access /\ jar.refresh = k => ~Brought(k)

\* The cookie is valid, or a page that came with it carries its successor.
Carries(t) ==
  \/ tab[t].at = "answered" /\ tab[t].set \in Token
  \/ \E r \in Req : WaitsFor(t, r) /\ Handed(r)
CookieValid ==
  \A k \in Token : jar.refresh = k =>
    \/ row[k].state \in Unrevoked
    \/ row[k].state = "grace" /\ \E t \in Tab : tab[t].refresh = k /\ Carries(t)

\* Without a cookie nobody has signed in, a session is on its way or has expired.
CookieComes ==
  jar.refresh = None =>
    \/ SomeExpired \/ (\A t \in Token : row[t].state = "unused")
    \/ \E f \in Token : Brought(f)

RefreshInv ==
  SomebodyWaits /\ RefusalsFair /\ BroughtValid /\ BroughtOnce /\ CookieValid /\ CookieComes

\* The steps of a calm browser, each by the fields that it changes.
SameJar == jar'.refresh = jar.refresh /\ jar'.access = jar.access
Only(t) == row' = row /\ \A u \in Tab \ {t} : tab'[u] = tab[u]
Others(r) == \A q \in Req \ {r} : req'[q] = req[q]
Opened(r, op, token) ==
  /\ req[r].at = "idle" /\ Others(r)
  /\ req'[r].at = "sent" /\ req'[r].op = op /\ req'[r].token = token /\ req'[r].fresh = None
Closed(r) ==
  /\ req[r].at = "answered" /\ Others(r)
  /\ req'[r].at = "idle" /\ req'[r].op = "none" /\ req'[r].fresh = None

Asks(t) ==
  /\ Only(t) /\ SameJar /\ UNCHANGED <<req, inFlight>>
  /\ tab[t].at = "idle" /\ tab'[t].at = "sent" /\ tab'[t].set = Keep
  /\ tab'[t].refresh = jar.refresh /\ tab'[t].access = jar.access
Rests(t) ==
  /\ Only(t) /\ SameJar /\ UNCHANGED <<req, inFlight>>
  /\ tab[t].at \in {"idle", "sent", "refused", "provider"} /\ tab'[t].set = Keep
  /\ \/ tab'[t].at \in {"idle", "refused", "provider"} /\ tab'[t].refresh = None
     \/ tab[t].at = "sent" /\ tab'[t].at = "answered" /\ tab'[t].refresh = tab[t].refresh
Joins(t) ==
  /\ Only(t) /\ SameJar
  /\ tab[t].at = "sent" /\ tab'[t].at = "waiting" /\ tab'[t].set = Keep
  /\ tab'[t].refresh = tab[t].refresh /\ tab'[t].access = tab[t].access /\ tab'[t].by = tab[t].by
  /\ ~tab[t].access /\ tab[t].refresh \in Token
  /\ \/ UNCHANGED <<req, inFlight>>
     \/ \E r \in Req :
          /\ Opened(r, "refresh", tab[t].refresh)
          /\ inFlight[tab[t].by][tab[t].refresh] = None
          /\ inFlight' = [inFlight EXCEPT ![tab[t].by][tab[t].refresh] = r]
Releases(i, k, r) ==
  /\ row' = row /\ SameJar
  /\ inFlight[i][k] = r /\ Closed(r) /\ inFlight' = [inFlight EXCEPT ![i][k] = None]
  /\ \A u \in Tab : IF u \in Waiters(i, k)
                      THEN /\ tab'[u].at = "answered" /\ tab'[u].set = Outcome(r)
                           /\ tab'[u].refresh = tab[u].refresh
                      ELSE tab'[u] = tab[u]
Brings(t) ==
  /\ Only(t) /\ UNCHANGED <<req, inFlight>>
  /\ tab[t].at = "answered" /\ tab'[t].at = "idle" /\ tab'[t].set = Keep
  /\ tab[t].set = Keep => SameJar
  /\ tab[t].set = Expire => jar'.refresh = None
  /\ tab[t].set \in Token => jar'.refresh = tab[t].set /\ jar'.access
SignsIn(t) ==
  /\ Only(t) /\ SameJar /\ UNCHANGED inFlight
  /\ tab[t].at = "provider" /\ tab'[t].at = "callback" /\ tab'[t].set = Keep
  /\ tab'[t].refresh = tab[t].refresh
  /\ \E r \in Req : Opened(r, "login", None) /\ tab'[t].by = r
SignedIn(t, r) ==
  /\ Only(t) /\ UNCHANGED inFlight
  /\ tab[t].at = "callback" /\ tab'[t].at = "idle" /\ tab'[t].set = Keep
  /\ tab[t].by = r /\ Closed(r)
  /\ req[r].answer = "ok" /\ req[r].op = "login" => jar'.refresh = req[r].fresh /\ jar'.access
RunsOut ==
  /\ UNCHANGED <<row, req, tab, inFlight>>
  /\ jar'.refresh = jar.refresh /\ ~jar'.access
  /\ \A t \in Tab : tab[t].at \in {"idle", "provider"}
Stays == UNCHANGED <<row, req, tab, inFlight>> /\ SameJar

LEMMA CalmBefore == WebInv /\ BareInv /\ [WebNext]_vars /\ Calm' => Calm
<1> SUFFICES ASSUME WebInv, BareInv, [WebNext]_vars, Calm' PROVE Calm
  OBVIOUS
<1>1. tally.lost = 0 /\ tally.calls = 0 /\ failures = 0 /\ ~AnswerLost
  BY NothingForgotten DEF Calm
<1>2. ended = None /\ \A t \in Tab : LoggedOut(t) => req[tab[t].by].answer # "ok"
  <2>1. ended' = ended \/ \E t \in Tab : LoggedOut(t)
    BY DEF WebNext, Server, TimePasses, AccessRunsOut, webVars, vars, PageRequest, PagePasses,
       RefreshOnce, PageArrives, PageLost, RefreshAnswered, RefreshTimesOut, ListFavorites,
       CallRefused, CallRefreshes, CallRetried, CallLost, StartLogin, Callback, LoggedIn, Logout
  <2>2. ASSUME NEW t \in Tab, LoggedOut(t) PROVE ended = None /\ req[tab[t].by].answer # "ok"
    BY <2>2 DEF LoggedOut, Calm, WebInv, CookieInv, PagesWait
  <2> QED
    BY <2>1, <2>2 DEF Calm
<1>3. ASSUME NEW r \in Req, req[r].op = "logout" PROVE FALSE
  <2>1. PICK t \in Tab : tab[t].at = "logout" /\ tab[t].by = r
    BY <1>1, <1>3 DEF BareInv, LogoutsWork
  <2>2. ~LoggedOut(t)
    BY <1>1, <1>2, <1>3, <2>1 DEF LoggedOut, BareInv, LogoutsWork
  <2>3. ~Logout(t) /\ ~CallLost(t)
    BY <1>1, <2>1 DEF Logout, AnswerLost
  <2>4. ServerStep \/ req'[r] = req[r]
    BY <2>1, <2>2, <2>3, LogoutWaits
  <2>5. req[r].waited
    BY <2>1 DEF WebInv, CookieInv, SlotsHeld, Owned
  <2>6. ServerStep => req'[r].op = req[r].op
    BY <2>5, RequestsMove DEF WebInv, RequestMoves, GoesOn, GetsAnswer, Forgotten
  <2> QED
    BY <1>3, <2>4, <2>6 DEF Calm
<1> QED
  BY <1>1, <1>2, <1>3 DEF Calm

LEMMA SlotOpened ==
  ASSUME req \in [Req -> Requests], Idle # {}, NEW op \in Op, NEW token \in Token \cup {None},
         req' = [req EXCEPT ![FreeSlot] = Sent(op, token)]
  PROVE  FreeSlot \in Req /\ Opened(FreeSlot, op, token)
<1> DEFINE new == Sent(op, token)
<1>1. new.at = "sent" /\ new.op = op /\ new.token = token /\ new.fresh = None
  BY SendEffects, FreeSlotIdle
<1>2. req' = [req EXCEPT ![FreeSlot] = new]
  OBVIOUS
<1> HIDE DEF new
<1> QED
  BY <1>1, <1>2, FreeSlotIdle DEF Opened, Others

LEMMA SlotClosed ==
  ASSUME req \in [Req -> Requests], NEW r \in Req, req[r].at = "answered", req' = Taken(r)
  PROVE  Closed(r)
  BY BareFacts DEF Taken, Closed, Others

PageAct ==
  \/ Stays \/ RunsOut
  \/ \E t \in Tab : Asks(t) \/ Rests(t) \/ Joins(t) \/ Brings(t) \/ SignsIn(t)
  \/ \E t \in Tab, r \in Req : SignedIn(t, r)
  \/ \E i \in Instance, k \in Token, r \in Req : Releases(i, k, r)
ServerAct == ServerStep /\ failures' = failures /\ UNCHANGED webVars
ClockAct == Clock /\ UNCHANGED <<jar, tab, inFlight, req>>

LEMMA CalmActs ==
  ASSUME WebInv, [WebNext]_vars, Calm, Calm', SomebodyWaits
  PROVE  PageAct \/ ServerAct \/ ClockAct
<1> USE DEF WebInv, CookieInv
<1>0. /\ jar \in Jars /\ tab \in [Tab -> TabRecords] /\ req \in [Req -> Requests]
      /\ inFlight \in [Instance -> [Token -> Req \cup {None}]]
  BY DEF WebTypeOK, ServerInv, ServerTypeOK
<1>q. Quiet \in TabRecords /\ Quiet.at = "idle" /\ Quiet.set = Keep /\ Quiet.refresh = None
  BY QuietFacts
<1>a. ASSUME [WebNext]_vars, WebInv PROVE ~AnswerLost
  BY <1>a, NothingForgotten DEF Calm
<1>1. CASE Server
  BY <1>1 DEF Server, ServerAct, Calm
<1>2. CASE TimePasses
  BY <1>2 DEF TimePasses, ClockAct, Clock, GracePasses, TokenExpires
<1>3. CASE UNCHANGED vars
  BY <1>3 DEF vars, serverVars, webVars, PageAct, Stays, SameJar
<1>4. CASE AccessRunsOut
  <2>1. jar'.refresh = jar.refresh /\ ~jar'.access
    BY <1>0, <1>4 DEF AccessRunsOut, Jars
  <2> QED
    BY <1>4, <2>1 DEF AccessRunsOut, serverVars, PageAct, RunsOut
<1>5. ASSUME NEW t \in Tab, NEW i \in Instance, PageRequest(t, i) PROVE PageAct
  <2> DEFINE rec == [Quiet EXCEPT !.at = "sent", !.by = i, !.refresh = jar.refresh,
                                  !.access = jar.access]
  <2>1. /\ rec.at = "sent" /\ rec.set = Keep /\ rec.refresh = jar.refresh
        /\ rec.access = jar.access
    BY <1>q DEF TabRecords
  <2>2. tab' = [tab EXCEPT ![t] = rec] /\ tab[t].at = "idle"
        /\ UNCHANGED <<row, req, jar, inFlight>>
    BY <1>5 DEF PageRequest, serverVars
  <2> HIDE DEF rec
  <2>3. Asks(t)
    BY <1>0, <2>1, <2>2 DEF Asks, Only, SameJar
  <2> QED
    BY <2>3 DEF PageAct
\* A tab that sends, takes and brings nothing.
<1>6. ASSUME NEW t \in Tab, NEW rec, tab' = [tab EXCEPT ![t] = rec], UNCHANGED <<row, req, inFlight>>,
             SameJar, rec.at \in {"idle", "refused", "provider"}, rec.refresh = None, rec.set = Keep,
             tab[t].at \in {"idle", "sent", "refused", "provider"}
      PROVE  PageAct
  <2>1. Rests(t)
    BY <1>0, <1>6 DEF Rests, Only
  <2> QED
    BY <2>1 DEF PageAct
<1>7. ASSUME NEW t \in Tab, PagePasses(t) PROVE PageAct
  <2>1. /\ With(t, "answered").at = "answered" /\ With(t, "answered").set = Keep
        /\ With(t, "answered").refresh = tab[t].refresh
    BY <1>7, TabFacts DEF Places, PagePasses, PagesWait
  <2>2. tab' = [tab EXCEPT ![t] = With(t, "answered")] /\ tab[t].at = "sent"
        /\ UNCHANGED <<row, req, jar, inFlight>>
    BY <1>7 DEF PagePasses, serverVars
  <2>3. Rests(t)
    BY <1>0, <2>1, <2>2 DEF Rests, Only, SameJar
  <2> QED
    BY <2>3 DEF PageAct
<1>8. ASSUME NEW t \in Tab, ListFavorites(t) \/ CallRefused(t) \/ StartLogin(t)
      PROVE  PageAct
  <2> DEFINE heart(x) == [Quiet EXCEPT !.heart = x]
             refused == [Quiet EXCEPT !.at = "refused"]
             away == [Quiet EXCEPT !.at = "provider", !.by = tally.logins + 1]
             Fine(rec) == /\ rec.at \in {"idle", "refused", "provider"} /\ rec.refresh = None
                          /\ rec.set = Keep
             Is(rec) == tab' = [tab EXCEPT ![t] = rec]
  <2>1. (\A x : Fine(heart(x))) /\ Fine(refused) /\ Fine(away)
    BY <1>q DEF TabRecords
  <2>2. (\E x : Is(heart(x))) \/ Is(refused) \/ Is(away)
    BY <1>8 DEF ListFavorites, CallRefused, StartLogin
  <2>3. \E rec : Fine(rec) /\ Is(rec)
    <3> HIDE DEF heart, refused, away, Fine, Is
    <3> QED
      BY <2>1, <2>2
  <2>4. /\ UNCHANGED <<row, req, inFlight>> /\ tab[t].at = "idle"
        /\ jar' = jar \/ jar' = [jar EXCEPT !.state = tally.logins + 1]
    BY <1>8 DEF ListFavorites, CallRefused, StartLogin, serverVars
  <2>5. SameJar
    BY <1>0, <2>4 DEF SameJar, Jars
  <2> QED
    BY <1>6, <2>3, <2>4, <2>5
<1>9. ASSUME NEW t \in Tab, CallRefreshes(t) PROVE PageAct
  <2> DEFINE heart == [Quiet EXCEPT !.heart = "anonymous"]
  <2>1. heart.at = "idle" /\ heart.refresh = None /\ heart.set = Keep
    BY <1>q DEF TabRecords
  <2>2. jar.refresh = None
    <3>1. tally \in [Counts -> Nat]
      BY DEF WebTypeOK
    <3> QED
      BY <1>9, <3>1 DEF CallRefreshes, Calm, Counts
  <2>3. tab' = [tab EXCEPT ![t] = heart] /\ tab[t].at = "refused"
        /\ UNCHANGED <<row, req, inFlight, jar>>
    BY <1>9, <2>2 DEF CallRefreshes
  <2> HIDE DEF heart
  <2> QED
    BY <1>6, <2>1, <2>3 DEF SameJar
<1>10. ASSUME NEW t \in Tab, RefreshOnce(t) PROVE PageAct
  <2> DEFINE rec == With(t, "waiting")
  <2>1. /\ rec.at = "waiting" /\ rec.set = tab[t].set /\ rec.refresh = tab[t].refresh
        /\ rec.access = tab[t].access /\ rec.by = tab[t].by
    BY <1>10, TabFacts DEF Places
  <2>2. /\ tab' = [tab EXCEPT ![t] = rec] /\ tab[t].at = "sent" /\ UNCHANGED <<row, jar>>
        /\ ~tab[t].access /\ tab[t].refresh \in Token /\ tab[t].set = Keep
    BY <1>0, <1>10 DEF RefreshOnce, NeedsSessionRefresh, TabRecords, PagesWait
  <2> HIDE DEF rec
  <2>3. ASSUME Idle # {}, req' = [req EXCEPT ![FreeSlot] = Sent("refresh", tab[t].refresh)]
        PROVE  FreeSlot \in Req /\ Opened(FreeSlot, "refresh", tab[t].refresh)
    BY <1>0, <2>2, <2>3, SlotOpened DEF Op
  <2>4. \/ UNCHANGED <<req, inFlight>>
        \/ /\ FreeSlot \in Req /\ Opened(FreeSlot, "refresh", tab[t].refresh)
           /\ inFlight[tab[t].by][tab[t].refresh] = None
           /\ inFlight' = [inFlight EXCEPT ![tab[t].by][tab[t].refresh] = FreeSlot]
    BY <1>10, <2>3 DEF RefreshOnce
  <2>5. Only(t) /\ SameJar
    BY <1>0, <2>2 DEF Only, SameJar
  <2>6. /\ tab'[t].at = "waiting" /\ tab'[t].set = Keep /\ tab'[t].refresh = tab[t].refresh
        /\ tab'[t].access = tab[t].access /\ tab'[t].by = tab[t].by
    BY <1>0, <2>1, <2>2
  <2>7. Joins(t)
    BY <2>2, <2>4, <2>5, <2>6 DEF Joins
  <2> QED
    BY <2>7 DEF PageAct
<1>11. ASSUME NEW i \in Instance, NEW k \in Token, RefreshAnswered(i, k) PROVE PageAct
  <2> DEFINE r == inFlight[i][k]
             rec(u) == [With(u, "answered") EXCEPT !.set = Outcome(r)]
  <2>1. /\ r \in Req /\ req[r].at = "answered" /\ req' = Taken(r) /\ UNCHANGED <<row, jar>>
        /\ inFlight' = [inFlight EXCEPT ![i][k] = None]
        /\ tab' = [u \in Tab |-> IF u \in Waiters(i, k) THEN rec(u) ELSE tab[u]]
    BY <1>0, <1>11 DEF RefreshAnswered, Released
  <2>2. Closed(r)
    BY <1>0, <2>1, SlotClosed
  <2>3. \A u \in Tab : /\ rec(u).at = "answered" /\ rec(u).set = Outcome(r)
                       /\ rec(u).refresh = tab[u].refresh
    BY TabFacts DEF Places, TabRecords
  <2> HIDE DEF rec
  <2>4. Releases(i, k, r)
    BY <2>1, <2>2, <2>3 DEF Releases, SameJar
  <2> QED
    BY <2>1, <2>4 DEF PageAct
<1>12. ASSUME NEW t \in Tab, PageArrives(t) PROVE PageAct
  <2>1. /\ tab[t].at = "answered" /\ tab' = [tab EXCEPT ![t] = Quiet]
        /\ jar' = SetCookies(tab[t].set) /\ UNCHANGED <<row, req, inFlight>>
    BY <1>12 DEF PageArrives, serverVars
  <2>2. tab[t].set \in Token \cup {Keep, Expire}
    BY <1>0 DEF TabRecords
  <2>3. /\ tab[t].set = Keep => jar' = jar
        /\ tab[t].set = Expire => jar'.refresh = None
        /\ tab[t].set \in Token => jar'.refresh = tab[t].set /\ jar'.access
    <3>1. tab[t].set = Keep => SetCookies(tab[t].set) = jar
      BY ValuesDiffer DEF SetCookies
    <3> QED
      BY <2>1, <2>2, <3>1, CookieFacts, ValuesDiffer
  <2>4. Brings(t)
    BY <1>0, <1>q, <2>1, <2>3 DEF Brings, Only, SameJar
  <2> QED
    BY <2>4 DEF PageAct
<1>13. ASSUME NEW t \in Tab, Callback(t) PROVE PageAct
  <2>1. CASE jar.state = tab[t].by
    <3> DEFINE rec == [With(t, "callback") EXCEPT !.by = FreeSlot]
    <3>1. /\ rec.at = "callback" /\ rec.set = tab[t].set /\ rec.refresh = tab[t].refresh
          /\ rec.by = FreeSlot
      BY TabFacts DEF Places, TabRecords
    <3>2. /\ Idle # {} /\ req' = [req EXCEPT ![FreeSlot] = Sent("login", None)]
          /\ tab' = [tab EXCEPT ![t] = rec] /\ UNCHANGED <<row, jar, inFlight>>
          /\ tab[t].at = "provider" /\ tab[t].set = Keep
      BY <1>13, <2>1 DEF Callback, PagesWait
    <3> HIDE DEF rec
    <3>3. FreeSlot \in Req /\ Opened(FreeSlot, "login", None)
      BY <1>0, <3>2, SlotOpened DEF Op
    <3>4. SignsIn(t)
      BY <1>0, <3>1, <3>2, <3>3 DEF SignsIn, Only, SameJar
    <3> QED
      BY <3>4 DEF PageAct
  <2>2. CASE jar.state # tab[t].by
    <3>1. /\ tab' = [tab EXCEPT ![t] = Quiet] /\ UNCHANGED <<row, req, inFlight>>
          /\ tab[t].at = "provider" /\ jar' = [jar EXCEPT !.state = 0]
      BY <1>13, <2>2 DEF Callback
    <3>2. SameJar
      BY <1>0, <3>1 DEF SameJar, Jars
    <3> QED
      BY <1>6, <1>q, <3>1, <3>2
  <2> QED
    BY <2>1, <2>2
<1>14. ASSUME NEW t \in Tab, LoggedIn(t) PROVE PageAct
  <2> DEFINE r == tab[t].by
             c == SetCookies(req[r].fresh)
  <2>1. /\ r \in Req /\ tab[t].at = "callback" /\ req[r].at = "answered" /\ req' = Taken(r)
        /\ tab' = [tab EXCEPT ![t] = Quiet] /\ UNCHANGED <<row, inFlight>> /\ req[r].op = "login"
        /\ req[r].answer = "ok" => jar' = [c EXCEPT !.state = 0]
    BY <1>14 DEF LoggedIn, SlotsHeld, Owned
  <2>2. req[r].answer = "ok" => req[r].fresh \in Token
    BY <2>1 DEF TokensIssued
  <2>3. req[r].answer = "ok" => c \in Jars /\ c.refresh = req[r].fresh /\ c.access
    BY <2>2, CookieFacts, ValuesDiffer
  <2> HIDE DEF c
  <2>4. req[r].answer = "ok" => jar'.refresh = req[r].fresh /\ jar'.access
    BY <2>1, <2>3 DEF Jars
  <2>5. Closed(r)
    BY <1>0, <2>1, SlotClosed
  <2>6. SignedIn(t, r)
    BY <1>0, <1>q, <2>1, <2>4, <2>5 DEF SignedIn, Only
  <2> QED
    BY <2>1, <2>6 DEF PageAct
<1>15. ASSUME NEW t \in Tab, PageLost(t) \/ CallRetried(t) \/ CallLost(t) \/ LoggedOut(t) PROVE FALSE
  <2>1. ~PageLost(t) /\ ~CallLost(t)
    BY <1>a DEF AnswerLost
  <2>2. tab[t].at \notin {"renewing", "logout"}
    BY DEF SomebodyWaits
  <2> QED
    BY <1>15, <2>1, <2>2 DEF CallRetried, LoggedOut
<1>16. ASSUME NEW t \in Tab, Logout(t) PROVE FALSE
  <2>1. jar.refresh \in Token /\ Idle # {}
        /\ req' = [req EXCEPT ![FreeSlot] = Sent("logout", jar.refresh)]
    BY <1>0, <1>16 DEF Logout, Jars
  <2>2. FreeSlot \in Req /\ Opened(FreeSlot, "logout", jar.refresh)
    BY <1>0, <2>1, SlotOpened DEF Op
  <2> QED
    BY <2>2 DEF Calm, Opened
<1>17. ASSUME NEW i \in Instance, NEW k \in Token, RefreshTimesOut(i, k) PROVE FALSE
  BY <1>a, <1>17 DEF AnswerLost
<1> QED
  BY <1>1, <1>2, <1>3, <1>4, <1>5, <1>7, <1>8, <1>9, <1>10, <1>11, <1>12, <1>13, <1>14, <1>15, <1>16,
     <1>17 DEF WebNext

-----------------------------------------------------------------------------
(* A calm browser's steps keep its session.                                *)

LEMMA Held ==
  ASSUME WebInv
  PROVE  /\ jar.refresh \in Token \cup {None}
         /\ jar.refresh # None => Used(jar.refresh)
         /\ \A u \in Tab : /\ tab[u].refresh \in Token \cup {None}
                           /\ tab[u].set \in Token \cup {Keep, Expire}
                           /\ tab[u].set # Keep => tab[u].at = "answered"
                           /\ tab[u].refresh # None => Used(tab[u].refresh)
                           /\ tab[u].at \in {"sent", "waiting"} => tab[u].by \in Instance
                           /\ tab[u].at = "waiting" => tab[u].refresh \in Token
         /\ None \notin Token /\ None \notin Req /\ Keep \notin Token /\ Expire \notin Token
         /\ Keep # Expire
  BY ValuesDiffer DEF WebInv, CookieInv, WebTypeOK, TabRecords, Jars, PagesWait, TokensIssued

LEMMA StaysKeeps == ASSUME RefreshInv, Stays PROVE RefreshInv'
  BY DEF Stays, SameJar, RefreshInv, SomebodyWaits, RefusalsFair, BroughtValid, BroughtOnce, CookieValid,
         CookieComes, WaitsFor, Brought, Submits, Carries, Handed, SomeExpired

LEMMA RunsOutKeeps == ASSUME WebInv, BareInv, RefreshInv, RunsOut PROVE RefreshInv'
<1> USE Held DEF RefreshInv, RunsOut
<1>1. \A r \in Req : req[r].at = "idle" /\ req[r].fresh = None
  BY DEF SomebodyWaits, WaitsFor, BareInv, RequestsBare
<1>2. \A f \in Token : ~Brought(f)'
  BY <1>1 DEF Brought
<1>3. SomebodyWaits' /\ RefusalsFair'
  BY <1>1 DEF SomebodyWaits, RefusalsFair, SomeExpired, WaitsFor
<1>4. BroughtValid' /\ BroughtOnce'
  BY <1>2 DEF BroughtValid, BroughtOnce, Submits
<1>5. CookieValid'
  BY DEF CookieValid, Carries, WaitsFor, Handed
<1>6. CookieComes'
  BY DEF CookieComes, SomeExpired, Brought
<1> QED
  BY <1>3, <1>4, <1>5, <1>6

\* A page is requested with the cookies as they are.
LEMMA AsksKeeps == ASSUME WebInv, RefreshInv, NEW t \in Tab, Asks(t) PROVE RefreshInv'
<1> USE Held DEF RefreshInv, Asks, Only, SameJar
<1>1. \A f \in Token : Brought(f)' <=> Brought(f)
  BY DEF Brought
<1>2. \A u \in Tab, r \in Req : WaitsFor(u, r) => WaitsFor(u, r)' /\ tab'[u] = tab[u]
  BY DEF WaitsFor
<1>3. SomebodyWaits'
  BY <1>2 DEF SomebodyWaits
<1>4. RefusalsFair'
  BY DEF RefusalsFair, SomeExpired
<1>5. \A k \in Token : jar.refresh = k => row[k].state \in {"live", "expired", "grace"}
  BY DEF CookieValid, Unrevoked
<1>6. BroughtValid'
  BY <1>1, <1>5 DEF BroughtValid
<1>7. BroughtOnce'
  BY <1>1 DEF BroughtOnce, Submits
<1>8. \A u \in Tab : Carries(u) => Carries(u)' /\ tab'[u] = tab[u]
  BY <1>2 DEF Carries, WaitsFor, Handed
<1>9. CookieValid'
  BY <1>8 DEF CookieValid
<1>10. CookieComes'
  BY <1>1 DEF CookieComes, SomeExpired
<1> QED
  BY <1>3, <1>4, <1>6, <1>7, <1>9, <1>10

LEMMA RestsKeeps == ASSUME WebInv, RefreshInv, NEW t \in Tab, Rests(t) PROVE RefreshInv'
<1> USE Held DEF RefreshInv, Rests, Only, SameJar
<1>1. \A f \in Token : Brought(f)' <=> Brought(f)
  BY DEF Brought
<1>2. \A u \in Tab, r \in Req : WaitsFor(u, r) => WaitsFor(u, r)' /\ tab'[u] = tab[u]
  BY DEF WaitsFor
<1>3. SomebodyWaits'
  BY <1>2 DEF SomebodyWaits
<1>4. RefusalsFair'
  BY DEF RefusalsFair, SomeExpired
<1>5. BroughtValid'
  BY <1>1 DEF BroughtValid
<1>6. BroughtOnce'
  BY <1>1 DEF BroughtOnce, Submits
<1>7. \A u \in Tab : Carries(u) => Carries(u)' /\ tab'[u] = tab[u]
  BY <1>2 DEF Carries, WaitsFor, Handed
<1>8. CookieValid'
  BY <1>7 DEF CookieValid
<1>9. CookieComes'
  BY <1>1 DEF CookieComes, SomeExpired
<1> QED
  BY <1>3, <1>4, <1>5, <1>6, <1>8, <1>9

\* A page waits for a refresh that runs already, or starts it.
LEMMA JoinsKeeps ==
  ASSUME WebInv, BareInv, RefreshInv, NEW t \in Tab, Joins(t) PROVE RefreshInv'
<1> DEFINE i == tab[t].by
           k == tab[t].refresh
<1> USE Held DEF RefreshInv, Only, SameJar
<1>0. /\ inFlight \in [Instance -> [Token -> Req \cup {None}]] /\ i \in Instance /\ k \in Token
      /\ \A r \in Req : req[r].at # "answered" => req[r].fresh = None
  BY DEF WebInv, CookieInv, WebTypeOK, Joins, BareInv, RequestsBare
<1>a. /\ \A u \in Tab : tab'[u].set = tab[u].set
      /\ \A r \in Req : \/ req'[r] = req[r]
                        \/ req[r].at = "idle" /\ req'[r].at = "sent" /\ req'[r].fresh = None
  BY DEF Joins, Opened, Others
<1>1. \A f \in Token : Brought(f)' <=> Brought(f)
  BY <1>0, <1>a DEF Brought
<1>2. \A u \in Tab, r \in Req : WaitsFor(u, r) => WaitsFor(u, r)' /\ tab'[u] = tab[u]
  <2>1. CASE inFlight' = inFlight
    BY <2>1 DEF WaitsFor, Joins
  <2>2. ASSUME NEW q \in Req, inFlight[i][k] = None, inFlight' = [inFlight EXCEPT ![i][k] = q]
        PROVE  \A u \in Tab, r \in Req : WaitsFor(u, r) => WaitsFor(u, r)' /\ tab'[u] = tab[u]
    <3>1. \A j \in Instance, l \in Token : inFlight[j][l] # None => inFlight'[j][l] = inFlight[j][l]
      BY <1>0, <2>2
    <3> QED
      BY <3>1 DEF WaitsFor, Joins
  <2> QED
    BY <2>1, <2>2 DEF Joins
<1>3. SomebodyWaits'
  <2>1. CASE UNCHANGED <<req, inFlight>>
    BY <1>2, <2>1 DEF SomebodyWaits, Joins
  <2>2. ASSUME NEW q \in Req, Opened(q, "refresh", k), inFlight' = [inFlight EXCEPT ![i][k] = q]
        PROVE  SomebodyWaits'
    <3>1. WaitsFor(t, q)' /\ req'[q].token = tab'[t].refresh
      BY <1>0, <2>2 DEF WaitsFor, Joins, Opened
    <3>2. \A r \in Req \ {q} : req'[r] = req[r]
      BY <2>2 DEF Opened, Others
    <3>3. req'[q].at = "sent" /\ req'[q].op = "refresh"
      BY <2>2 DEF Opened
    <3>4. \A u \in Tab : tab'[u].at \notin {"renewing", "logout"}
                         /\ (tab[u].at = "callback" => tab'[u] = tab[u])
      BY DEF SomebodyWaits, Joins
    <3> QED
      BY <1>2, <3>1, <3>2, <3>3, <3>4 DEF SomebodyWaits
  <2> QED
    BY <2>1, <2>2 DEF Joins
<1>4. RefusalsFair'
  <2>1. SomeExpired' <=> SomeExpired
    BY DEF SomeExpired, Joins
  <2> QED
    BY <1>a, <2>1 DEF RefusalsFair
<1>5. BroughtValid'
  BY <1>1 DEF BroughtValid, Joins
<1>6. BroughtOnce'
  BY <1>1 DEF BroughtOnce, Submits, Joins
<1>7. \A u \in Tab : Carries(u) => Carries(u)' /\ tab'[u] = tab[u]
  <2>1. \A r \in Req : Handed(r) => Handed(r)'
    BY DEF Handed, Joins, Opened, Others
  <2> QED
    BY <1>2, <2>1 DEF Carries, Joins
<1>8. CookieValid'
  BY <1>7 DEF CookieValid, Joins
<1>9. CookieComes'
  BY <1>1 DEF CookieComes, SomeExpired, Joins
<1> QED
  BY <1>3, <1>4, <1>5, <1>6, <1>8, <1>9

\* What the answer of a refresh does to the cookies.
LEMMA OutcomeFair ==
  ASSUME WebInv, RefreshInv, NEW r \in Req, req[r].at = "answered", req[r].op = "refresh"
  PROVE  /\ Handed(r) => Outcome(r) = req[r].fresh /\ req[r].fresh \in Token
         /\ ~Handed(r) => req[r].fresh = None /\ (Outcome(r) = Keep \/ (Outcome(r) = Expire /\ SomeExpired))
  BY DEF Handed, Outcome, RefreshInv, RefusalsFair, WebInv, CookieInv, TokensIssued

LEMMA ReleasesKeeps ==
  ASSUME WebInv, BareInv, RefreshInv, NEW i \in Instance, NEW k \in Token, NEW r \in Req,
         Releases(i, k, r)
  PROVE  RefreshInv'
<1> USE Held DEF RefreshInv, SameJar
<1>0. /\ inFlight \in [Instance -> [Token -> Req \cup {None}]] /\ inFlight[i][k] = r
      /\ \A j \in Instance, l \in Token : inFlight[j][l] = r => j = i /\ l = k
      /\ req[r].op = "refresh" /\ req[r].at = "answered"
  BY DEF WebInv, CookieInv, WebTypeOK, SlotsHeld, Owned, Releases, Closed
<1>1. /\ Handed(r) => Outcome(r) = req[r].fresh /\ req[r].fresh \in Token
      /\ ~Handed(r) => req[r].fresh = None /\ (Outcome(r) = Keep \/ (Outcome(r) = Expire /\ SomeExpired))
  BY <1>0, OutcomeFair
<1>2. /\ \A u \in Tab : IF u \in Waiters(i, k)
                        THEN /\ tab'[u].at = "answered" /\ tab'[u].set = Outcome(r)
                             /\ tab'[u].refresh = tab[u].refresh
                        ELSE tab'[u] = tab[u]
      /\ \A u \in Tab : u \in Waiters(i, k) <=> WaitsFor(u, r)
      /\ \E u \in Tab : WaitsFor(u, r)
      /\ \A u \in Tab : WaitsFor(u, r) => tab[u].at = "waiting" /\ tab[u].set = Keep
  BY <1>0 DEF Releases, Waiters, WaitsFor, SomebodyWaits
<1>3. \A f \in Token : Brought(f)' <=> Brought(f)
  <2>1. /\ \A q \in Req \ {r} : req'[q] = req[q]
        /\ req'[r].fresh = None
    BY DEF Releases, Closed, Others
  <2> QED
    BY <1>1, <1>2, <2>1 DEF Brought
<1>4. \A u \in Tab, q \in Req : WaitsFor(u, q) /\ q # r => WaitsFor(u, q)' /\ tab'[u] = tab[u]
  <2> SUFFICES ASSUME NEW u \in Tab, NEW q \in Req, WaitsFor(u, q), q # r
               PROVE  WaitsFor(u, q)' /\ tab'[u] = tab[u]
    OBVIOUS
  <2>1. tab'[u] = tab[u] /\ tab[u].by \in Instance /\ tab[u].refresh \in Token
    BY <1>2 DEF WaitsFor
  <2>2. \A j \in Instance, l \in Token : inFlight[j][l] = q => inFlight'[j][l] = q
    BY <1>0 DEF Releases
  <2> QED
    BY <2>1, <2>2 DEF WaitsFor
<1>5. SomebodyWaits'
  <2>1. /\ \A q \in Req \ {r} : req'[q] = req[q]
        /\ req'[r].at = "idle"
    BY DEF Releases, Closed, Others
  <2>2. \A u \in Tab : tab'[u].at \notin {"renewing", "logout"}
                       /\ (tab[u].at = "callback" => tab'[u] = tab[u])
    BY <1>2 DEF SomebodyWaits
  <2> QED
    BY <1>4, <2>1, <2>2 DEF SomebodyWaits
<1>6. RefusalsFair'
  <2>1. SomeExpired' <=> SomeExpired
    BY DEF SomeExpired, Releases
  <2>2. /\ \A q \in Req \ {r} : req'[q] = req[q]
        /\ req'[r].at = "idle"
    BY DEF Releases, Closed, Others
  <2> QED
    BY <1>1, <1>2, <2>1, <2>2 DEF RefusalsFair
<1>7. row' = row /\ jar'.refresh = jar.refresh /\ jar'.access = jar.access
  BY DEF Releases
<1>8. BroughtValid'
  BY <1>2, <1>3, <1>7 DEF BroughtValid
<1>9. \A u \in Tab, l \in Token : Submits(u, l)' => Submits(u, l)
  BY <1>2 DEF Submits
<1>10. BroughtOnce'
  BY <1>3, <1>7, <1>9 DEF BroughtOnce
<1>11. \A u \in Tab : Carries(u) => Carries(u)' /\ tab'[u].refresh = tab[u].refresh
  <2>1. \A q \in Req : q # r /\ Handed(q) => Handed(q)'
    BY DEF Handed, Releases, Closed, Others
  <2> QED
    BY <1>1, <1>2, <1>4, <2>1 DEF Carries
<1>12. CookieValid'
  BY <1>7, <1>11 DEF CookieValid
<1>13. CookieComes'
  BY <1>3, <1>7 DEF CookieComes, SomeExpired
<1> QED
  BY <1>5, <1>6, <1>8, <1>10, <1>12, <1>13

\* A document comes with its cookies.
LEMMA BringsKeeps == ASSUME WebInv, RefreshInv, NEW t \in Tab, Brings(t) PROVE RefreshInv'
<1> USE Held DEF RefreshInv, Brings, Only, SameJar
<1>1. \A f \in Token : /\ Brought(f)' => Brought(f)
                       /\ Brought(f) /\ tab[t].set # f => Brought(f)'
  BY DEF Brought
<1>2. \A u \in Tab, r \in Req : WaitsFor(u, r) => WaitsFor(u, r)' /\ tab'[u] = tab[u]
  BY DEF WaitsFor
<1>3. SomebodyWaits'
  BY <1>2 DEF SomebodyWaits
<1>4. RefusalsFair'
  BY DEF RefusalsFair, SomeExpired
<1>5. BroughtValid'
  BY <1>1 DEF BroughtValid
<1>6. \A u \in Tab, k \in Token : Submits(u, k)' => Submits(u, k)
  BY DEF Submits
<1>7. \A u \in Tab : u # t /\ Carries(u) => Carries(u)' /\ tab'[u] = tab[u]
  BY <1>2 DEF Carries, WaitsFor, Handed
<1>8. CASE tab[t].set = Keep
  <2>1. ~Carries(t)
    BY <1>8 DEF Carries, WaitsFor
  <2>2. BroughtOnce' /\ CookieValid'
    BY <1>1, <1>6, <1>7, <1>8, <2>1 DEF BroughtOnce, CookieValid
  <2>3. CookieComes'
    BY <1>1, <1>8 DEF CookieComes, SomeExpired
  <2> QED
    BY <1>3, <1>4, <1>5, <2>2, <2>3
<1>9. CASE tab[t].set = Expire
  <2>1. jar'.refresh = None /\ SomeExpired'
    BY <1>9 DEF RefusalsFair, SomeExpired
  <2>2. BroughtOnce'
    BY <1>1, <1>6, <2>1 DEF BroughtOnce
  <2>3. CookieValid' /\ CookieComes'
    BY <2>1 DEF CookieValid, CookieComes
  <2> QED
    BY <1>3, <1>4, <1>5, <2>2, <2>3
<1>10. CASE tab[t].set \in Token
  <2>1. jar'.refresh = tab[t].set /\ jar'.access /\ Brought(tab[t].set)
    BY <1>10 DEF Brought
  <2>2. BroughtOnce'
    BY <1>1, <1>6, <1>10, <2>1 DEF BroughtOnce
  <2>3. row[tab[t].set].state \in Unrevoked
    BY <1>10, <2>1 DEF BroughtValid
  <2>4. CookieValid' /\ CookieComes'
    BY <1>10, <2>1, <2>3 DEF CookieValid, CookieComes
  <2> QED
    BY <1>3, <1>4, <1>5, <2>2, <2>4
<1> QED
  BY <1>8, <1>9, <1>10

LEMMA SignsInKeeps ==
  ASSUME WebInv, BareInv, RefreshInv, NEW t \in Tab, SignsIn(t) PROVE RefreshInv'
<1> USE Held DEF RefreshInv, Only, SameJar
<1>0. PICK q \in Req : Opened(q, "login", None) /\ tab'[t].by = q
  BY DEF SignsIn
<1>a. /\ \A u \in Tab : tab'[u].set = tab[u].set
      /\ \A r \in Req \ {q} : req'[r] = req[r]
      /\ req[q].at = "idle" /\ req'[q].at = "sent" /\ req'[q].op = "login"
      /\ req'[q].fresh = None /\ req[q].fresh = None
  BY <1>0 DEF SignsIn, Opened, Others, BareInv, RequestsBare
<1>1. \A f \in Token : Brought(f)' <=> Brought(f)
  BY <1>a DEF Brought
<1>2. \A u \in Tab, r \in Req : WaitsFor(u, r) => WaitsFor(u, r)' /\ tab'[u] = tab[u]
  BY DEF WaitsFor, SignsIn
<1>3. SomebodyWaits'
  <2>1. tab'[t].at = "callback" /\ tab'[t].by = q
    BY <1>0 DEF SignsIn
  <2>2. \A u \in Tab : tab'[u].at \notin {"renewing", "logout"}
                       /\ (tab[u].at = "callback" => tab'[u] = tab[u])
    BY DEF SomebodyWaits, SignsIn
  <2> QED
    BY <1>2, <1>a, <2>1, <2>2 DEF SomebodyWaits
<1>4. RefusalsFair'
  <2>1. SomeExpired' <=> SomeExpired
    BY DEF SomeExpired, SignsIn
  <2> QED
    BY <1>a, <2>1 DEF RefusalsFair
<1>5. BroughtValid'
  BY <1>1 DEF BroughtValid, SignsIn
<1>6. BroughtOnce'
  BY <1>1 DEF BroughtOnce, Submits, SignsIn
<1>7. \A u \in Tab : Carries(u) => Carries(u)' /\ tab'[u] = tab[u]
  BY <1>2, <1>a DEF Carries, Handed, SignsIn
<1>8. CookieValid'
  BY <1>7 DEF CookieValid, SignsIn
<1>9. CookieComes'
  BY <1>1 DEF CookieComes, SomeExpired, SignsIn
<1> QED
  BY <1>3, <1>4, <1>5, <1>6, <1>8, <1>9

LEMMA SignedInKeeps ==
  ASSUME WebInv, BareInv, RefreshInv, NEW t \in Tab, NEW r \in Req, SignedIn(t, r) PROVE RefreshInv'
<1> USE Held DEF RefreshInv, Only
<1>0. /\ req[r].op = "login" /\ req[r].answer = "ok" /\ req[r].at = "answered"
      /\ req[r].fresh \in Token /\ jar'.refresh = req[r].fresh /\ jar'.access
  <2>1. req[r].op = "login" /\ req[r].at = "answered"
    BY DEF SignedIn, Closed, WebInv, CookieInv, SlotsHeld, Owned
  <2>2. req[r].answer = "ok"
    BY <2>1 DEF RefusalsFair
  <2> QED
    BY <2>1, <2>2 DEF SignedIn, WebInv, CookieInv, TokensIssued
<1>a. /\ \A q \in Req \ {r} : req'[q] = req[q]
      /\ req'[r].at = "idle" /\ req'[r].fresh = None
      /\ tab'[t].at = "idle" /\ tab'[t].set = Keep /\ tab[t].at = "callback" /\ tab[t].by = r
      /\ row' = row
  BY DEF SignedIn, Closed, Others
<1>1. \A f \in Token : Brought(f)' => Brought(f)
  BY <1>a DEF Brought, SignedIn
<1>2. \A u \in Tab, q \in Req : WaitsFor(u, q) => WaitsFor(u, q)' /\ tab'[u] = tab[u]
  BY DEF WaitsFor, SignedIn
<1>3. SomebodyWaits'
  <2>1. \A u \in Tab : tab'[u].at \notin {"renewing", "logout"}
                       /\ (u # t => tab'[u] = tab[u])
    BY <1>a DEF SomebodyWaits, SignedIn
  <2> QED
    BY <1>2, <1>a, <2>1 DEF SomebodyWaits
<1>4. RefusalsFair'
  BY <1>a DEF RefusalsFair, SomeExpired, SignedIn
<1>5. BroughtValid'
  BY <1>1, <1>a DEF BroughtValid, SignedIn
<1>6. Brought(req[r].fresh)
  BY DEF Brought
<1>7. BroughtOnce'
  <2>1. \A u \in Tab, k \in Token : Submits(u, k)' => Submits(u, k)
    BY <1>a DEF Submits, SignedIn
  <2> QED
    BY <1>0, <1>1, <1>6, <2>1 DEF BroughtOnce
<1>8. CookieValid' /\ CookieComes'
  BY <1>0, <1>6, <1>a DEF CookieValid, CookieComes, BroughtValid
<1> QED
  BY <1>3, <1>4, <1>5, <1>7, <1>8

\* The grace time of a token ends when nobody is under way with it.
LEMMA ClockKeeps == ASSUME WebInv, RefreshInv, ClockAct PROVE RefreshInv'
<1> USE Held DEF RefreshInv, ClockAct
<1>0. row \in [Token -> Rows]
  BY DEF WebInv, ServerInv, ServerTypeOK
<1>1. PICK t \in Token : (GracePasses(t) /\ ~Hurried(t)) \/ TokenExpires(t)
  BY DEF Clock
<1>2. /\ \A k \in Token \ {t} : row'[k] = row[k]
      /\ \/ row[t].state = "grace" /\ row'[t].state = "revoked" /\ ~Hurried(t)
         \/ row[t].state = "live" /\ row'[t].state = "expired"
  BY <1>0, <1>1 DEF GracePasses, TokenExpires, Live, Rows
<1>3. SomeExpired => SomeExpired'
  BY <1>2 DEF SomeExpired
<1>4. SomebodyWaits'
  BY DEF SomebodyWaits, WaitsFor
<1>5. RefusalsFair'
  BY <1>3 DEF RefusalsFair
<1>6. \A f \in Token : Brought(f)' <=> Brought(f)
  BY DEF Brought
<1>7. BroughtValid'
  BY <1>2, <1>6 DEF BroughtValid, Unrevoked, Hurried
<1>8. BroughtOnce'
  BY <1>6 DEF BroughtOnce, Submits
<1>9. \A u \in Tab : Carries(u) => Carries(u)' /\ tab[u].at # "idle"
  BY DEF Carries, WaitsFor, Handed
<1>10. CookieValid'
  BY <1>2, <1>9 DEF CookieValid, Unrevoked, Hurried
<1>11. CookieComes'
  BY <1>2, <1>3, <1>6 DEF CookieComes
<1> QED
  BY <1>4, <1>5, <1>7, <1>8, <1>10, <1>11

LEMMA SomebodyIsWaiting ==
  ASSUME WebInv, SomebodyWaits, NEW r \in Req, req[r].at # "idle"
  PROVE  req[r].waited
<1> USE Held DEF WebInv, CookieInv
<1>1. ASSUME NEW t \in Tab, tab[t].at = "callback", tab[t].by = r PROVE req[r].waited
  BY <1>1 DEF SlotsHeld, Owned
<1>2. ASSUME NEW t \in Tab, WaitsFor(t, r) PROVE req[r].waited
  BY <1>2 DEF SlotsHeld, Owned, WaitsFor
<1> QED
  BY <1>1, <1>2 DEF SomebodyWaits

LEMMA ServerIsCalm == ASSUME WebInv, RefreshInv PROVE CalmRequests
<1> SUFFICES ASSUME NEW r \in Req, req[r].at # "idle"
             PROVE  /\ req[r].at \in {"sent", "rotating", "answered"}
                    /\ req[r].op \in {"refresh", "exchange", "login"}
                    /\ req[r].op = "refresh" /\ req[r].at = "sent"
                         => row[req[r].token].state \in {"live", "expired", "grace"}
  BY DEF CalmRequests
<1>1. ASSUME req[r].op = "refresh", req[r].at = "sent"
      PROVE  row[req[r].token].state \in {"live", "expired", "grace"}
  BY <1>1, Held DEF RefreshInv, SomebodyWaits, WaitsFor, BroughtValid
<1> QED
  BY <1>1 DEF RefreshInv, SomebodyWaits

\* A refresh is refused, or locks its token.
LEMMA RefusedKeeps ==
  ASSUME WebInv, BareInv, BareInv', RefreshInv, UNCHANGED webVars, NEW r \in Req,
         Refuses(r, "raced", "grace") \/ Refuses(r, "expired", "expired") \/ LocksToken(r)
  PROVE  RefreshInv'
<1> USE Held DEF RefreshInv, webVars
<1>0. /\ row' = row /\ \A q \in Req \ {r} : req'[q] = req[q]
      /\ req[r].at = "sent" /\ req[r].op = "refresh" /\ req'[r].op = "refresh"
      /\ req[r].fresh = None /\ req'[r].fresh = None
      /\ \/ req'[r].at = "rotating" /\ req'[r].token = req[r].token
         \/ /\ req'[r].at = "answered"
            /\ req'[r].answer = "raced" \/ (req'[r].answer = "expired" /\ SomeExpired)
  <2>1. req[r].at = "sent" /\ req[r].op = "refresh" /\ req[r].token \in Token
    BY DEF Refuses, LocksToken, WebInv, ServerInv, Locks
  <2>2. req[r].waited /\ req[r].fresh = None
    BY <2>1, SomebodyIsWaiting DEF BareInv, RequestsBare
  <2>3. ASSUME NEW answer, NEW state, Refuses(r, answer, state)
        PROVE  /\ row' = row /\ \A q \in Req \ {r} : req'[q] = req[q]
               /\ req'[r].op = "refresh" /\ req'[r].at = "answered" /\ req'[r].answer = answer
               /\ req'[r].fresh = None /\ row[req[r].token].state = state
    BY <2>2, <2>3 DEF Refuses, Tells
  <2>4. ASSUME LocksToken(r)
        PROVE  /\ row' = row /\ \A q \in Req \ {r} : req'[q] = req[q]
               /\ req'[r].op = "refresh" /\ req'[r].at = "rotating" /\ req'[r].token = req[r].token
               /\ req'[r].fresh = None
    BY <2>4 DEF LocksToken, BareInv, RequestsBare
  <2>5. CASE LocksToken(r)
    BY <2>1, <2>2, <2>4, <2>5
  <2>6. CASE Refuses(r, "raced", "grace")
    BY <2>1, <2>2, <2>3, <2>6
  <2>7. CASE Refuses(r, "expired", "expired")
    BY <2>1, <2>2, <2>3, <2>7 DEF SomeExpired
  <2> QED
    BY <2>5, <2>6, <2>7
<1>1. \A f \in Token : Brought(f)' <=> Brought(f)
  BY <1>0 DEF Brought
<1>2. \A u \in Tab, q \in Req : WaitsFor(u, q) => WaitsFor(u, q)'
  BY DEF WaitsFor
<1>3. SomebodyWaits'
  BY <1>0, <1>2 DEF SomebodyWaits
<1>4. RefusalsFair'
  <2>1. SomeExpired' <=> SomeExpired
    BY <1>0 DEF SomeExpired
  <2> QED
    BY <1>0, <2>1 DEF RefusalsFair
<1>5. BroughtValid'
  BY <1>0, <1>1 DEF BroughtValid
<1>6. BroughtOnce'
  BY <1>1 DEF BroughtOnce, Submits
<1>7. \A u \in Tab : Carries(u) => Carries(u)'
  BY <1>0, <1>2 DEF Carries, Handed
<1>8. CookieValid'
  BY <1>0, <1>7 DEF CookieValid
<1>9. CookieComes'
  BY <1>0, <1>1 DEF CookieComes, SomeExpired
<1> QED
  BY <1>3, <1>4, <1>5, <1>6, <1>8, <1>9

\* A token is inserted: the successor of one that nobody brings, or a login's.
LEMMA InsertedKeeps ==
  ASSUME WebInv, BareInv, RefreshInv, UNCHANGED webVars, NEW r \in Req, NEW new \in Token,
         Rotates(r, new) \/ Opens(r, new)
  PROVE  RefreshInv'
<1> USE Held DEF RefreshInv, webVars
<1>0. /\ \A q \in Req \ {r} : req'[q] = req[q]
      /\ req[r].at \in {"sent", "rotating"} /\ req[r].op \in {"refresh", "login"}
      /\ req'[r].op = req[r].op /\ req'[r].at = "answered" /\ req'[r].answer = "ok"
      /\ req[r].fresh = None /\ req'[r].fresh = new
      /\ row[new].state = "unused" /\ row'[new].state = "live"
  <2>1. req[r].waited /\ req[r].fresh = None
    BY SomebodyIsWaiting DEF Rotates, Opens, BareInv, RequestsBare
  <2> QED
    BY <2>1 DEF Rotates, Opens, Tells
\* The rows: one is new, and the old one is what a page submits.
<1>1. \A k \in Token \ {new} :
        \/ row'[k].state = row[k].state
        \/ /\ row[k].state = "live" /\ row'[k].state = "grace"
           /\ \E t \in Tab : WaitsFor(t, r) /\ tab[t].refresh = k /\ Submits(t, k)
  <2>1. CASE Opens(r, new)
    BY <2>1 DEF Opens
  <2>2. CASE Rotates(r, new)
    <3>1. PICK t \in Tab : WaitsFor(t, r) /\ req[r].token = tab[t].refresh
      BY <2>2 DEF Rotates, SomebodyWaits
    <3>2. Submits(t, req[r].token)
      BY <3>1 DEF WaitsFor, Submits, WebInv, CookieInv, PagesWait
    <3> QED
      BY <2>2, <3>1, <3>2 DEF Rotates
  <2> QED
    BY <2>1, <2>2
<1>2. \A f \in Token : Brought(f)' <=> Brought(f) \/ f = new
  BY <1>0 DEF Brought
<1>3. \A u \in Tab, q \in Req : WaitsFor(u, q) => WaitsFor(u, q)'
  BY DEF WaitsFor
<1>4. SomebodyWaits'
  BY <1>0, <1>3 DEF SomebodyWaits
<1>5. SomeExpired => SomeExpired'
  BY <1>0, <1>1 DEF SomeExpired
<1>6. RefusalsFair'
  BY <1>0, <1>5 DEF RefusalsFair
<1>7. \A k \in Token : Brought(k) => row'[k].state \in Unrevoked
  BY <1>0, <1>1 DEF BroughtOnce, BroughtValid, Unrevoked
<1>8. BroughtValid'
  BY <1>0, <1>1, <1>2, <1>7 DEF BroughtValid, Unrevoked
<1>9. \A k \in Token : k # new \/ (jar.refresh # k /\ \A t \in Tab : tab[t].refresh # k)
  BY <1>0 DEF Used
<1>10. BroughtOnce'
  BY <1>2, <1>9 DEF BroughtOnce, Submits
<1>11. \A u \in Tab : Carries(u) => Carries(u)'
  BY <1>0, <1>3 DEF Carries, Handed
<1>12. \A u \in Tab : WaitsFor(u, r) => Carries(u)'
  BY <1>0, <1>3 DEF Carries, Handed
<1>13. CookieValid'
  BY <1>1, <1>9, <1>11, <1>12 DEF CookieValid, Unrevoked
<1>14. CookieComes'
  BY <1>2 DEF CookieComes
<1> QED
  BY <1>4, <1>6, <1>8, <1>10, <1>13, <1>14

LEMMA ServerKeepsRefreshes ==
  ASSUME WebInv, BareInv, BareInv', RefreshInv, ServerAct PROVE RefreshInv'
<1>1. ServerInv /\ CalmRequests /\ failures \in Nat
  BY ServerIsCalm DEF WebInv, CookieInv, WebTypeOK
<1>2. \E r \in Req : \/ Refuses(r, "raced", "grace") \/ Refuses(r, "expired", "expired")
                     \/ LocksToken(r)
                     \/ \E new \in Token : Rotates(r, new) \/ Opens(r, new)
  BY <1>1, CalmSteps DEF ServerAct
<1> QED
  BY <1>2, RefusedKeeps, InsertedKeeps DEF ServerAct

KeepsCalm == Calm => RefreshInv
BrowserInv == WebInv /\ BareInv /\ KeepsCalm

LEMMA RefreshesKept == BrowserInv /\ [WebNext]_vars => BrowserInv'
<1> SUFFICES ASSUME BrowserInv, [WebNext]_vars PROVE BrowserInv'
  OBVIOUS
<1>1. WebInv /\ BareInv /\ WebInv' /\ BareInv'
  BY ServerSideKept, TypesKept, IssuedKept, SlotsKept, LogoutsKept, BareInvKept
  DEF BrowserInv, WebInv, CookieInv
<1>2. ASSUME Calm' PROVE RefreshInv'
  <2>1. Calm /\ RefreshInv
    BY <1>1, <1>2, CalmBefore DEF BrowserInv, KeepsCalm
  <2>2. PageAct \/ ServerAct \/ ClockAct
    BY <1>1, <1>2, <2>1, CalmActs DEF RefreshInv
  <2> QED
    BY <1>1, <2>1, <2>2, StaysKeeps, RunsOutKeeps, AsksKeeps, RestsKeeps, JoinsKeeps, ReleasesKeeps,
       BringsKeeps, SignsInKeeps, SignedInKeeps, ClockKeeps, ServerKeepsRefreshes DEF PageAct
<1> QED
  BY <1>1, <1>2 DEF BrowserInv, KeepsCalm

LEMMA BrowserStarts == WebInit => BrowserInv
<1> SUFFICES ASSUME WebInit PROVE BrowserInv
  OBVIOUS
<1> USE ValuesDiffer, BareFacts, QuietFacts
<1>1. WebInv
  BY InitHolds
<1>2. /\ \A r \in Req : req[r] = NoRequest
      /\ \A t \in Tab : tab[t] = Quiet
      /\ \/ row = [t \in Token |-> UnusedRow] /\ jar = Empty
         \/ /\ row = [t \in Token |-> IF t = 1 THEN Inserted(1, 1, None) ELSE UnusedRow]
            /\ jar = [Empty EXCEPT !.refresh = 1]
  BY DEF WebInit
<1>3. BareInv
  BY <1>2 DEF BareInv, RequestsBare, LogoutsWork
<1>4. 1 \in Token
  BY TokensAssumption DEF Token
<1>5. /\ \A k \in Token : jar.refresh = k => row[k].state = "live"
      /\ jar.refresh = None => \A k \in Token : row[k].state = "unused"
  <2>1. CASE row = [t \in Token |-> UnusedRow] /\ jar = Empty
    BY <2>1 DEF Empty, UnusedRow
  <2>2. CASE /\ row = [t \in Token |-> IF t = 1 THEN Inserted(1, 1, None) ELSE UnusedRow]
             /\ jar = [Empty EXCEPT !.refresh = 1]
    BY <1>4, <2>2 DEF Empty, Inserted
  <2> QED
    BY <1>2, <2>1, <2>2
<1>6. SomebodyWaits /\ RefusalsFair
  BY <1>2 DEF SomebodyWaits, RefusalsFair
<1>7. \A f \in Token : ~Brought(f)
  BY <1>2 DEF Brought
<1>8. BroughtValid /\ BroughtOnce
  BY <1>2, <1>7 DEF BroughtValid, BroughtOnce, Submits
<1>9. CookieValid /\ CookieComes
  BY <1>5 DEF CookieValid, CookieComes, Unrevoked
<1> QED
  BY <1>1, <1>3, <1>6, <1>8, <1>9 DEF BrowserInv, KeepsCalm, RefreshInv

\* However many tabs, prefetches and web servers refresh one cookie at once, and
\* in whatever order their answers arrive, the browser keeps a valid refresh
\* token or an answer with its successor is under way (PagesKeepSession).
THEOREM PagesKeepTheSession == WebSpec => []PagesKeepSession
<1>1. BrowserInv => PagesKeepSession
  <2> SUFFICES ASSUME BrowserInv, Undisturbed, tally.calls = 0 PROVE HoldsSession
    BY DEF PagesKeepSession
  <2> USE Held
  <2>1. WebInv /\ RefreshInv
    BY DEF BrowserInv, KeepsCalm, Calm, Undisturbed
  <2>2. ~SomeExpired
    BY DEF Undisturbed, SomeExpired
  <2>3. ASSUME NEW f \in Token, Brought(f) PROVE SuccessorOnItsWay
    BY <2>1, <2>3 DEF RefreshInv, BroughtValid, Brought, SuccessorOnItsWay
  <2>4. ASSUME NEW t \in Tab, Carries(t) PROVE SuccessorOnItsWay
    <3>1. \E f \in Token : Brought(f)
      BY <2>1, <2>4 DEF Carries, Brought, Handed, WaitsFor, RefreshInv, SomebodyWaits, WebInv,
         CookieInv, TokensIssued
    <3> QED
      BY <2>3, <3>1
  <2>5. CASE jar.refresh = None
    BY <2>1, <2>2, <2>3, <2>5 DEF RefreshInv, CookieComes, HoldsSession
  <2>6. CASE jar.refresh # None
    BY <2>1, <2>4, <2>6 DEF RefreshInv, CookieValid, HoldsSession
  <2> QED
    BY <2>5, <2>6
<1>2. WebSpec => []BrowserInv
  BY BrowserStarts, RefreshesKept, PTL DEF WebSpec
<1> QED
  BY <1>1, <1>2, PTL

-----------------------------------------------------------------------------
(* No ring of waits among the requests of a browser.                       *)

LEMMA OrderKept == WebInv /\ OrderInv /\ [WebNext]_vars => OrderInv'
<1> SUFFICES ASSUME WebInv, OrderInv, [WebNext]_vars PROVE OrderInv'
  OBVIOUS
<1> USE DEF WebInv
<1>1. CASE ServerStep
  BY <1>1, ServerKeepsOrder
<1>2. CASE Clock
  BY <1>2, TimeKeepsOrder DEF Clock
<1>3. CASE ClientReq
  BY <1>3, ClientKeepsRequests, ClientKeepsOrder
<1> QED
  BY <1>1, <1>2, <1>3, StepsByKind

\* However tabs and web servers rotate, log in and log out at once, the revocations
\* of a family that hold different rows of it never wait for each other in a ring
\* (auth.service.ts:171, 229).
THEOREM NoRingOfWebWaits == WebSpec => []OnlyDeletionsDeadlock
<1>1. WebInit => OrderInv
  <2> SUFFICES ASSUME WebInit PROVE OrderInv
    OBVIOUS
  <2>1. /\ \/ row = [t \in Token |-> UnusedRow]
           \/ row = [t \in Token |-> IF t = 1 THEN Inserted(1, 1, None) ELSE UnusedRow]
        /\ req = [r \in Req |-> NoRequest]
    BY DEF WebInit, TokensInit
  <2> QED
    BY <2>1, OrderStarts
<1>2. WebInv /\ OrderInv => OnlyDeletionsDeadlock
  BY RingsNeedDeletions DEF WebInv
<1> QED
  BY <1>1, <1>2, OrderKept, WebInvHolds, PTL DEF WebSpec

=============================================================================
