------------------------------- MODULE WebSession -------------------------------
(***************************************************************************)
(* The session of the web application against the auth server.             *)
(*                                                                         *)
(* The browser keeps both tokens in cookies that all its tabs share.  A    *)
(* page request without an access cookie is refreshed by the middleware of *)
(* the web server that takes it, at most once at a time per server and     *)
(* token; a call from a page refreshes itself after a 401.  Every answer   *)
(* carries its cookies back on its own, so they reach the browser in any   *)
(* order.  Logins go through a state cookie.                               *)
(***************************************************************************)
EXTENDS RefreshTokens

CONSTANTS
  Tab,              \* tabs of one browser, and prefetches: one request each at a time
  Instance,         \* processes of the web server, each with its own inFlight map
  Keep, Expire,     \* what an answer does to the cookies, but for setting a pair
  MaxLoads,         \* bound: pages and calls requested
  MaxLogins,        \* bound: logins started
  MaxRunOuts,       \* bound: times the access cookie runs out
  MaxTrouble        \* bound: answers lost, timeouts, rollbacks, tokens that leave
                    \* the grace time or expire

ASSUME WebAssumption ==
  /\ {MaxLoads, MaxLogins, MaxRunOuts, MaxTrouble} \subseteq Nat
  /\ Keep # Expire /\ {Keep, Expire} \cap (Nat \cup {None}) = {}

VARIABLES
  jar,              \* the browser's cookies
  tab,              \* what each tab waits for
  inFlight,         \* of each web server: the refresh running for each token
  ended,            \* history: the token that the last logout submitted, or None
  tally             \* what happened so far, for the bounds

webVars == <<jar, tab, inFlight, ended, tally>>
vars == <<serverVars, webVars>>

\* The access cookie lives as long as the access token in it.
Empty == [refresh |-> None, access |-> FALSE, state |-> 0]

\* Keep, Expire, or the token whose pair is set.
SetCookies(set) ==
  CASE set = Keep -> jar
    [] set = Expire -> [jar EXCEPT !.refresh = None, !.access = FALSE]
    [] OTHER -> [jar EXCEPT !.refresh = set, !.access = TRUE]

\* A tab: where its request is, the cookies it was sent with, the server or
\* slot that works on it, and the cookies its answer brings.
Quiet == [at |-> "idle", refresh |-> None, access |-> FALSE, by |-> None,
          set |-> Keep, heart |-> "none"]
With(t, where) == [tab[t] EXCEPT !.at = where]

Idle == {r \in Req : req[r].at = "idle"}
FreeSlot == CHOOSE r \in Idle : TRUE
Tallied(what) == tally' = [tally EXCEPT ![what] = @ + 1]
Trouble == tally.lost + tally.time + failures < MaxTrouble

WebInit ==
  /\ \/ row = [t \in Token |-> IF t = 1 THEN Inserted(1, 1, None) ELSE UnusedRow]
        /\ jar = [Empty EXCEPT !.refresh = 1]
     \/ row = [t \in Token |-> UnusedRow] /\ jar = Empty
  /\ req = [r \in Req |-> NoRequest] /\ failures = 0
  /\ tab = [t \in Tab |-> Quiet]
  /\ inFlight = [i \in Instance |-> [t \in Token |-> None]]
  /\ ended = None
  /\ tally = [loads |-> 0, logins |-> 0, runs |-> 0, lost |-> 0, time |-> 0,
              calls |-> 0]

\* Faulty: a raced refresh expires the cookies like any other.
OutcomeForRaced(r) ==
  IF req[r].answer = "ok" /\ req[r].op # "logout" THEN req[r].fresh
  ELSE IF req[r].answer = "error" THEN Keep ELSE Expire

\* What auth.controller.ts puts into the answer: a raced refresh leaves the
\* cookies alone, any other refusal expires them.
Outcome(r) ==
  IF req[r].answer = "ok" /\ req[r].op # "logout" THEN req[r].fresh
  ELSE IF req[r].answer \in {"ok", "not-found", "reused", "expired"} THEN Expire ELSE Keep

-----------------------------------------------------------------------------
(* middleware.ts: a page request.                                          *)

NeedsSessionRefresh(t) == ~tab[t].access /\ tab[t].refresh # None

PageRequest(t, i) ==
  /\ tab[t].at = "idle" /\ tally.loads < MaxLoads /\ Tallied("loads")
  /\ tab' = [tab EXCEPT ![t] = [Quiet EXCEPT !.at = "sent", !.by = i,
                                !.refresh = jar.refresh, !.access = jar.access]]
  /\ UNCHANGED <<serverVars, jar, inFlight, ended>>

PagePasses(t) ==
  /\ tab[t].at = "sent" /\ ~NeedsSessionRefresh(t)
  /\ tab' = [tab EXCEPT ![t] = With(t, "answered")]
  /\ UNCHANGED <<serverVars, jar, inFlight, ended, tally>>

\* refreshOnce: join the refresh this server runs for the token, or start it.
RefreshOnce(t) ==
  /\ tab[t].at = "sent" /\ NeedsSessionRefresh(t)
  /\ LET i == tab[t].by  token == tab[t].refresh IN
     \/ inFlight[i][token] # None /\ UNCHANGED <<req, inFlight>>
     \/ /\ inFlight[i][token] = None /\ Idle # {}
        /\ req' = [req EXCEPT ![FreeSlot] = Sent("refresh", token)]
        /\ inFlight' = [inFlight EXCEPT ![i][token] = FreeSlot]
  /\ tab' = [tab EXCEPT ![t] = With(t, "waiting")]
  /\ UNCHANGED <<row, failures, jar, ended, tally>>

Waiters(i, token) ==
  {t \in Tab : tab[t].at = "waiting" /\ tab[t].by = i /\ tab[t].refresh = token}
Released(i, token, set) ==
  /\ tab' = [t \in Tab |-> IF t \in Waiters(i, token)
                           THEN [With(t, "answered") EXCEPT !.set = set] ELSE tab[t]]
  /\ inFlight' = [inFlight EXCEPT ![i][token] = None]

\* The refresh is answered: everyone who waits for it goes on with its cookies.
RefreshAnswered(i, token) ==
  /\ inFlight[i][token] # None
  /\ LET r == inFlight[i][token] IN
     req[r].at = "answered" /\ Released(i, token, Outcome(r)) /\ req' = Taken(r)
  /\ UNCHANGED <<row, failures, jar, ended, tally>>

\* Eight seconds, or the API is down: the pages go on without a session.
RefreshTimesOut(i, token) ==
  /\ inFlight[i][token] # None
  /\ req' = GivenUp(inFlight[i][token])
  /\ Released(i, token, Keep)
  /\ Trouble /\ Tallied("lost")
  /\ UNCHANGED <<row, failures, jar, ended>>

\* A document reaches the browser, with its cookies.
PageArrives(t) ==
  /\ tab[t].at = "answered"
  /\ jar' = SetCookies(tab[t].set)
  /\ tab' = [tab EXCEPT ![t] = Quiet]
  /\ UNCHANGED <<serverVars, inFlight, ended, tally>>

\* The tab is closed, or leaves the page, before the answer came.
PageLost(t) ==
  /\ tab[t].at \in {"answered", "sent", "waiting"}
  /\ Trouble /\ Tallied("lost")
  /\ tab' = [tab EXCEPT ![t] = Quiet]
  /\ UNCHANGED <<serverVars, jar, inFlight, ended>>

-----------------------------------------------------------------------------
(* Calls from a page: the favorites list, and a toggle of a favorite.      *)

\* FavoriteButton's list: one fetch, and a 401 means nobody is signed in.
ListFavorites(t) ==
  /\ tab[t].at = "idle" /\ tally.loads < MaxLoads /\ Tallied("loads")
  /\ tab' = [tab EXCEPT ![t] = [Quiet EXCEPT !.heart =
                                IF jar.access THEN "known" ELSE "anonymous"]]
  /\ UNCHANGED <<serverVars, jar, inFlight, ended>>

\* fetchWithRefresh: a call that is refused ...
CallRefused(t) ==
  /\ tab[t].at = "idle" /\ tally.loads < MaxLoads /\ Tallied("loads")
  /\ ~jar.access
  /\ tab' = [tab EXCEPT ![t] = [Quiet EXCEPT !.at = "refused"]]
  /\ UNCHANGED <<serverVars, jar, inFlight, ended>>

\* ... asks for a refresh with whatever cookie the browser has by then ...
CallRefreshes(t) ==
  /\ tab[t].at = "refused"
  /\ IF jar.refresh = None
       THEN /\ tab' = [tab EXCEPT ![t] = [Quiet EXCEPT !.heart = "anonymous"]]
            /\ UNCHANGED <<req, tally>>
       ELSE /\ Idle # {} /\ tally' = [tally EXCEPT !.calls = 1]
            /\ req' = [req EXCEPT ![FreeSlot] = Sent("refresh", jar.refresh)]
            /\ tab' = [tab EXCEPT ![t] = [With(t, "renewing") EXCEPT
                         !.refresh = jar.refresh, !.by = FreeSlot]]
  /\ UNCHANGED <<row, failures, jar, inFlight, ended>>

\* ... and is sent once more if that worked, with the new cookie.
CallRetried(t) ==
  /\ tab[t].at = "renewing" /\ req[tab[t].by].at = "answered"
  /\ jar' = SetCookies(Outcome(tab[t].by))
  /\ tab' = [tab EXCEPT ![t] = [Quiet EXCEPT !.heart =
       IF req[tab[t].by].answer = "ok" /\ jar'.access THEN "known" ELSE "anonymous"]]
  /\ req' = Taken(tab[t].by)
  /\ UNCHANGED <<row, failures, inFlight, ended, tally>>

CallLost(t) ==
  /\ tab[t].at \in {"renewing", "logout"}
  /\ Trouble /\ Tallied("lost")
  /\ req' = GivenUp(tab[t].by)
  /\ tab' = [tab EXCEPT ![t] = Quiet]
  /\ UNCHANGED <<row, failures, jar, inFlight, ended>>

-----------------------------------------------------------------------------
(* Login through the state cookie, and logout.                             *)

\* GET /auth/:provider replaces the state cookie; the browser leaves.
StartLogin(t) ==
  /\ tab[t].at = "idle" /\ tally.logins < MaxLogins /\ Tallied("logins")
  /\ jar' = [jar EXCEPT !.state = tally.logins + 1]
  /\ tab' = [tab EXCEPT ![t] = [Quiet EXCEPT !.at = "provider", !.by = tally.logins + 1]]
  /\ UNCHANGED <<serverVars, inFlight, ended>>

\* The provider sends the browser back: only the state the cookie was made
\* for goes on to issueSession.  A refusal expires the state cookie too.
Callback(t) ==
  /\ tab[t].at = "provider"
  /\ IF jar.state = tab[t].by
       THEN /\ Idle # {}
            /\ req' = [req EXCEPT ![FreeSlot] = Sent("login", None)]
            /\ tab' = [tab EXCEPT ![t] = [With(t, "callback") EXCEPT !.by = FreeSlot]]
            /\ UNCHANGED jar
       ELSE /\ jar' = [jar EXCEPT !.state = 0]
            /\ tab' = [tab EXCEPT ![t] = Quiet]
            /\ UNCHANGED req
  /\ UNCHANGED <<row, failures, inFlight, ended, tally>>

\* A server error leaves every cookie as it is.
LoggedIn(t) ==
  /\ tab[t].at = "callback" /\ req[tab[t].by].at = "answered"
  /\ LET r == tab[t].by  ok == req[tab[t].by].answer = "ok" IN
     /\ jar' = IF ok THEN [SetCookies(req[r].fresh) EXCEPT !.state = 0] ELSE jar
     /\ req' = Taken(r)
  /\ tab' = [tab EXCEPT ![t] = Quiet]
  /\ UNCHANGED <<row, failures, inFlight, ended, tally>>

\* LogoutButton: without a refresh cookie the server only expires both.
Logout(t) ==
  /\ tab[t].at = "idle" /\ jar.access /\ Idle # {}
  /\ tally.loads < MaxLoads /\ Tallied("loads")
  /\ jar.refresh # None
  /\ req' = [req EXCEPT ![FreeSlot] = Sent("logout", jar.refresh)]
  /\ tab' = [tab EXCEPT ![t] = [Quiet EXCEPT !.at = "logout", !.by = FreeSlot,
                                             !.refresh = jar.refresh]]
  /\ UNCHANGED <<row, failures, jar, inFlight, ended>>

LoggedOut(t) ==
  /\ tab[t].at = "logout" /\ req[tab[t].by].at = "answered"
  /\ jar' = SetCookies(Outcome(tab[t].by))
  /\ ended' = IF req[tab[t].by].answer = "ok" THEN tab[t].refresh ELSE ended
  /\ req' = Taken(tab[t].by)
  /\ tab' = [tab EXCEPT ![t] = Quiet]
  /\ UNCHANGED <<row, failures, inFlight, tally>>

-----------------------------------------------------------------------------

\* Fifteen minutes: longer than any answer is under way.
AccessRunsOut ==
  /\ jar.access /\ tally.runs < MaxRunOuts /\ Tallied("runs")
  /\ \A t \in Tab : tab[t].at \in {"idle", "provider"}
  /\ jar' = [jar EXCEPT !.access = FALSE]
  /\ UNCHANGED <<serverVars, tab, inFlight, ended>>

\* The grace time of ten seconds is longer than a request with the token, or
\* an answer that replaces it, is under way.
Hurried(token) == \E t \in Tab : tab[t].at # "idle" /\ tab[t].refresh = token
TimePasses ==
  /\ Trouble /\ Tallied("time")
  /\ \E t \in Token : (GracePasses(t) /\ ~Hurried(t)) \/ TokenExpires(t)
  /\ UNCHANGED <<jar, tab, inFlight, ended>>

Server == ServerStep /\ (failures' # failures => Trouble) /\ UNCHANGED webVars

WebNext ==
  \/ Server \/ TimePasses \/ AccessRunsOut
  \/ \E t \in Tab, i \in Instance : PageRequest(t, i)
  \/ \E t \in Tab : PagePasses(t) \/ RefreshOnce(t) \/ PageArrives(t) \/ PageLost(t)
  \/ \E i \in Instance, token \in Token : RefreshAnswered(i, token) \/ RefreshTimesOut(i, token)
  \/ \E t \in Tab : ListFavorites(t) \/ CallRefused(t) \/ CallRefreshes(t) \/ CallRetried(t)
                    \/ CallLost(t)
  \/ \E t \in Tab : StartLogin(t) \/ Callback(t) \/ LoggedIn(t) \/ Logout(t) \/ LoggedOut(t)

WebSpec == WebInit /\ [][WebNext]_vars

-----------------------------------------------------------------------------

SuccessorOnItsWay ==
  \/ \E t \in Tab : tab[t].set \in Token /\ row[tab[t].set].state \in Unrevoked
  \/ \E r \in Req : req[r].fresh \in Token /\ row[req[r].fresh].state \in Unrevoked

Undisturbed ==
  /\ tally.lost = 0 /\ failures = 0 /\ ended = None
  /\ \A t \in Token : row[t].state # "expired"
  /\ \A r \in Req : req[r].op # "logout"
HoldsSession ==
  \/ \A t \in Token : row[t].state = "unused"
  \/ jar.refresh # None /\ row[jar.refresh].state \in Unrevoked
  \/ SuccessorOnItsWay

\* Pages and prefetches in several tabs, taken by several servers, refresh
\* one cookie at once: unless an answer is lost, a token expires or somebody
\* logs out, the browser keeps a valid refresh token, or an answer with its
\* successor is under way.
PagesKeepSession == Undisturbed /\ tally.calls = 0 => HoldsSession

\* ... and so they do together with calls that refresh after a 401.
BrowserKeepsSession == Undisturbed => HoldsSession

\* After a logout no answer that was still under way gives the browser a
\* valid token back: neither the one that was logged out nor its successor.
LogoutKillsLateCookies ==
  ended # None /\ jar.refresh # None
  /\ (jar.refresh = ended \/ row[jar.refresh].from = ended)
  => ~Live(jar.refresh)

=============================================================================
