----------------------------- MODULE MobileSession -----------------------------
(***************************************************************************)
(* The session of the mobile app against the auth server.                  *)
(*                                                                         *)
(* authSession.ts keeps the refresh token in the keystore and the access   *)
(* token in memory, shares one rotation between all callers, and retries a *)
(* refused call once.  AuthContext.tsx starts the session at boot, from a  *)
(* login's deep link, and ends it; push.ts registers the device while      *)
(* somebody is signed in.  Keystore calls and requests are asynchronous:   *)
(* what a caller read before an await may be old when it uses it.          *)
(***************************************************************************)
EXTENDS RefreshTokens

CONSTANTS
  Boot, Push, Unpush, Out,  \* the app's asynchronous tasks, with one per login
  MaxLogins,        \* bound: logins started
  MaxStale,         \* bound: times the access token runs out
  MaxOuts,          \* bound: sign-outs and removals started
  MaxTrouble        \* bound: answers lost, timeouts, restarts of the app, rollbacks,
                    \* and tokens that leave the grace time or expire

ASSUME MobileAssumption ==
  /\ {MaxLogins, MaxStale, MaxOuts, MaxTrouble} \subseteq Nat
  /\ Boot \notin {Push, Unpush, Out} /\ Push \notin {Unpush, Out} /\ Unpush # Out
  /\ None \notin {Boot, Push, Unpush, Out}
  /\ {Boot, Push, Unpush, Out} \cap Nat = {}

VARIABLES
  store,            \* the keystore: a refresh token or None
  access,           \* the access token in memory: "none", "good" or "stale"
  verifier,         \* pendingCodeVerifier: the login it was made for, or None
  code,             \* the exchange code of each login
  refresh,          \* inFlightRefresh
  pc,               \* where each task stands
  call,             \* the authedFetch of each task
  status,           \* what the screens show
  latest,           \* the task that drew generation.current, None after goAnonymous
  device,           \* the server holds this device's push token for the user
  out,              \* history: the last sign-out, until the next login's tokens
  count             \* what happened so far, for the bounds

appVars == <<store, access, verifier, code, refresh, pc, call, status, latest,
             device, out, count>>
vars == <<serverVars, appVars>>

Login == 1 .. MaxLogins
Task == Login \cup {Boot, Push, Unpush, Out}

NoCall == [stage |-> "none", what |-> "none", bearer |-> "none",
           token |-> None, again |-> FALSE, result |-> "none"]
NoRefresh == [at |-> "none", token |-> None, req |-> None, seen |-> None,
              answer |-> "none"]
NoOut == [done |-> FALSE, calm |-> FALSE, clean |-> FALSE]

Idle == {r \in Req : req[r].at = "idle"}
FreeSlot == CHOOSE r \in Idle : TRUE

Trouble == count.lost + count.time + failures < MaxTrouble
Counted(what) == count' = [count EXCEPT ![what] = @ + 1]
UserExists == \E t \in Token : row[t].state \in {"live", "expired", "grace", "revoked"}

\* A login of an earlier day left its token in the keystore.
SignedInBefore ==
  /\ row = [t \in Token |-> IF t = 1 THEN Inserted(1, 1, None) ELSE UnusedRow]
  /\ req = [r \in Req |-> NoRequest] /\ failures = 0

Init ==
  /\ \/ TokensInit /\ store = None
     \/ SignedInBefore /\ store = 1
  /\ access = "none" /\ verifier = None
  /\ code = [n \in Login |-> [state |-> "none", slot |-> None, verifier |-> None]]
  /\ refresh = NoRefresh
  /\ pc = [p \in Task |-> IF p = Boot THEN "start" ELSE "idle"]
  /\ call = [p \in Task |-> NoCall]
  /\ status = "loading" /\ latest = None
  /\ device = FALSE /\ out = NoOut
  /\ count = [logins |-> 0, stale |-> 0, outs |-> 0, lost |-> 0, time |-> 0]

-----------------------------------------------------------------------------
(* authSession.ts: the token store and the shared rotation.                *)

StoreTokens(t) == access' = "good" /\ store' = t
ClearSession == access' = "none" /\ store' = None

Result(result) == [NoCall EXCEPT !.stage = "done", !.result = result]

\* Everyone waiting for the shared rotation gets its result; for a waiting
\* authedFetch a rotation that failed means its first answer stands.
Resumed(ok) ==
  [p \in Task |-> IF call[p].stage # "joining" THEN call[p]
                  ELSE IF ok THEN [NoCall EXCEPT !.stage = "resumed", !.what = call[p].what]
                  ELSE Result("no")]

\* Faulty: every caller sends a rotation of its own.
RefreshTokensAlone(p) ==
  /\ call[p].stage = "read" /\ Idle # {}
  /\ call' = [call EXCEPT ![p].stage = "joining", ![p].token = None]
  /\ req' = [req EXCEPT ![FreeSlot] = Sent("refresh", call[p].token)]
  /\ refresh' = [NoRefresh EXCEPT !.at = "waiting", !.token = call[p].token,
                                  !.req = FreeSlot]
  /\ UNCHANGED <<row, failures, store, access, verifier, code, pc, status, latest, device, out, count>>

\* refreshTokens(token): join the rotation in flight or send one.
RefreshTokens(p) ==
  /\ call[p].stage = "read"
  /\ call' = [call EXCEPT ![p].stage = "joining", ![p].token = None]
  /\ \/ /\ refresh.at # "none"
        /\ UNCHANGED <<req, refresh>>
     \/ /\ refresh.at = "none" /\ Idle # {}
        /\ req' = [req EXCEPT ![FreeSlot] = Sent("refresh", call[p].token)]
        /\ refresh' = [NoRefresh EXCEPT !.at = "waiting", !.token = call[p].token,
                                        !.req = FreeSlot]
  /\ UNCHANGED <<row, failures, store, access, verifier, code, pc, status, latest, device, out, count>>

\* The rotation's answer arrives.  On a 401 the store is read once more
\* before it is cleared; an error of the server leaves it alone.
RefreshAnswer ==
  /\ refresh.at = "waiting" /\ req[refresh.req].at = "answered"
  /\ LET a == req[refresh.req].answer IN
     \/ /\ a = "ok"
        /\ StoreTokens(req[refresh.req].fresh)
        /\ refresh' = NoRefresh /\ call' = Resumed(TRUE)
     \/ /\ a = "error"
        /\ refresh' = NoRefresh /\ call' = Resumed(FALSE)
        /\ UNCHANGED <<store, access>>
     \/ /\ a \in {"not-found", "raced", "reused", "expired"}
        /\ refresh' = [refresh EXCEPT !.at = "checking", !.req = None, !.seen = store,
                                    !.answer = a]
        /\ UNCHANGED <<store, access, call>>
  /\ req' = Taken(refresh.req)
  /\ UNCHANGED <<row, failures, verifier, code, pc, status, latest, device,
                 out, count>>

RefreshRejected ==
  /\ refresh.at = "checking"
  /\ IF refresh.seen = refresh.token THEN ClearSession ELSE UNCHANGED <<store, access>>
  /\ refresh' = NoRefresh /\ call' = Resumed(FALSE)
  /\ UNCHANGED <<serverVars, verifier, code, pc, status, latest, device, out, count>>

\* Faulty: inFlightRefresh is not reset when the fetch throws.
RefreshLostInFlight ==
  /\ refresh.at = "waiting"
  /\ Trouble /\ Counted("lost")
  /\ req' = GivenUp(refresh.req) /\ call' = Resumed(FALSE)
  /\ UNCHANGED <<row, failures, store, access, verifier, code, refresh, pc, status, latest, device, out>>

\* The network failed, or five seconds passed: the stored token stays.
RefreshLost ==
  /\ refresh.at = "waiting"
  /\ Trouble /\ Counted("lost")
  /\ req' = GivenUp(refresh.req)
  /\ refresh' = NoRefresh /\ call' = Resumed(FALSE)
  /\ UNCHANGED <<row, failures, store, access, verifier, code, pc, status, latest, device, out>>

-----------------------------------------------------------------------------
(* authedFetch: one call, at most one rotation, one retry.                 *)

Calls(what) == [NoCall EXCEPT !.stage = "sent", !.what = what, !.bearer = access]

\* The API takes the call: JwtAuthGuard, then the handler.  Without a user,
\* /auth/me answers 401 and registering fails on the foreign key.  Nobody
\* looks at how a registration or its removal ended: that answer is not
\* modelled as a message, only a 401 is.
ApiResult(c) ==
  IF c.bearer # "good" THEN "401"
  ELSE IF UserExists \/ c.what \notin {"me", "put"} THEN "ok"
  ELSE IF c.what = "me" THEN "401" ELSE "500"

ApiHandles(p) ==
  /\ call[p].stage = "sent"
  /\ LET what == call[p].what  result == ApiResult(call[p]) IN
     \/ /\ what = "delete" /\ result = "ok" /\ Idle # {}
        /\ req' = [req EXCEPT ![FreeSlot] = Sent("delete", None)]
        /\ call' = [call EXCEPT ![p].stage = "deleting", ![p].token = FreeSlot]
        /\ UNCHANGED device
     \/ /\ ~(what = "delete" /\ result = "ok")
        /\ device' = IF result = "ok" /\ what \in {"put", "del"} THEN what = "put" ELSE device
        /\ call' = [call EXCEPT ![p] =
             IF what \in {"put", "del"} /\ result # "401" THEN Result(result)
             ELSE [@ EXCEPT !.stage = "answered", !.bearer = "none", !.result = result]]
        /\ UNCHANGED req
  /\ UNCHANGED <<row, failures, store, access, verifier, code, refresh, pc, status,
                 latest, out, count>>

ApiDeleted(p) ==
  /\ call[p].stage = "deleting"
  /\ LET r == call[p].token IN
     /\ req[r].at = "answered"
     /\ call' = [call EXCEPT ![p] = Result(IF req[r].answer = "ok" THEN "ok" ELSE "no")]
     /\ req' = Taken(r)
  /\ UNCHANGED <<row, failures, store, access, verifier, code, refresh, pc, status,
                 latest, device, out, count>>

\* fetch rejects while the server deletes: it goes on, or it has done it.
DeletionLost(p) ==
  /\ call[p].stage = "deleting"
  /\ Trouble /\ Counted("lost")
  /\ call' = [call EXCEPT ![p] = Result("threw")]
  /\ req' = GivenUp(call[p].token)
  /\ UNCHANGED <<row, failures, store, access, verifier, code, refresh, pc, status,
                 latest, device, out>>

\* A first 401 reads the store; a second one ends the session.
CallAnswer(p) ==
  /\ call[p].stage = "answered"
  /\ \/ /\ call[p].result \in {"ok", "500"}
        /\ call' = [call EXCEPT ![p] = Result(IF @.result = "ok" THEN "ok" ELSE "no")]
        /\ UNCHANGED <<store, access>>
     \/ /\ call[p].result = "401" /\ ~call[p].again
        /\ call' = [call EXCEPT ![p] = IF store = None THEN Result("no")
                                       ELSE [@ EXCEPT !.stage = "read", !.token = store,
                                                      !.result = "none"]]
        /\ UNCHANGED <<store, access>>
     \/ /\ call[p].result = "401" /\ call[p].again
        /\ call' = [call EXCEPT ![p] = Result("no")]
        /\ ClearSession
  /\ UNCHANGED <<serverVars, verifier, code, refresh, pc, status, latest, device,
                 out, count>>

\* A refused call whose rotation worked is sent once more.
Retrying(p) == call[p].stage = "resumed" /\ call[p].what # "restore"

CallRetries(p) ==
  /\ Retrying(p)
  /\ call' = [call EXCEPT ![p] = [Calls(@.what) EXCEPT !.again = TRUE]]
  /\ UNCHANGED <<serverVars, store, access, verifier, code, refresh, pc, status, latest, device, out, count>>

\* fetch rejects.
CallLost(p) ==
  /\ call[p].stage = "sent"
  /\ Trouble /\ Counted("lost")
  /\ call' = [call EXCEPT ![p] = Result("threw")]
  /\ UNCHANGED <<serverVars, store, access, verifier, code, refresh, pc, status, latest, device, out>>

-----------------------------------------------------------------------------
(* AuthContext.tsx and push.ts: the tasks.                                 *)

To(p, where) == pc' = [pc EXCEPT ![p] = where]

\* applySession: draw a number, then ask who is signed in.
ApplySession(p) ==
  /\ latest' = p
  /\ call' = [call EXCEPT ![p] = Calls("me")]
  /\ To(p, "me")

GoAnonymous == latest' = None /\ status' = "anonymous"

\* restoreSession at the start of the app.
BootReads ==
  /\ pc[Boot] = "start"
  /\ IF store = None
       THEN GoAnonymous /\ To(Boot, "idle") /\ UNCHANGED call
       ELSE /\ call' = [call EXCEPT ![Boot] = [NoCall EXCEPT !.stage = "read",
                                              !.what = "restore", !.token = store]]
            /\ To(Boot, "restore") /\ UNCHANGED <<latest, status>>
  /\ UNCHANGED <<serverVars, store, access, verifier, code, refresh, device,
                 out, count>>

BootRestored ==
  /\ pc[Boot] = "restore"
  /\ \/ call[Boot].stage = "resumed" /\ ApplySession(Boot) /\ UNCHANGED status
     \/ /\ call[Boot].stage = "done" /\ GoAnonymous /\ To(Boot, "idle")
        /\ call' = [call EXCEPT ![Boot] = NoCall]
  /\ UNCHANGED <<serverVars, store, access, verifier, code, refresh, device, out, count>>

\* signIn: the browser opens with a fresh challenge; an older verifier is lost.
StartLogin(n) ==
  /\ status # "authenticated" /\ pc[n] = "idle" /\ code[n].state = "none"
  /\ count.logins = n - 1 /\ Counted("logins")
  /\ verifier' = n
  /\ code' = [code EXCEPT ![n].state = "issued"]
  /\ UNCHANGED <<serverVars, store, access, refresh, pc, call, status, latest,
                 device, out>>

\* The deep link of login n: completeLogin sends the code with the verifier
\* it finds, which is the latest login's.
DeepLink(n) ==
  /\ code[n].state = "issued" /\ pc[n] = "idle"
  /\ IF verifier = None
       THEN code' = [code EXCEPT ![n].state = "ignored"] /\ UNCHANGED <<req, pc>>
       ELSE /\ Idle # {}
            /\ req' = [req EXCEPT ![FreeSlot] = Sent("exchange", None)]
            /\ code' = [code EXCEPT ![n] = [state |-> "sent", slot |-> FreeSlot,
                                            verifier |-> verifier]]
            /\ To(n, "exchange")
  /\ UNCHANGED <<row, failures, store, access, verifier, refresh, call, status, latest, device, out, count>>

\* consume: the code is spent whether or not the verifier fits it.
CodeConsumed(n) ==
  /\ code[n].state = "sent"
  /\ code' = [code EXCEPT ![n].state = "used", ![n].verifier = None]
  /\ LET r == code[n].slot IN
     IF code[n].verifier = n THEN req' = [req EXCEPT ![r].op = "login"]
                             ELSE Answered(r, "invalid", None)
  /\ UNCHANGED <<row, failures, store, access, verifier, refresh, pc, call, status,
                 latest, device, out, count>>

\* A 401 drops the verifier, any other failure keeps it.
LoginAnswer(n) ==
  /\ pc[n] = "exchange" /\ req[code[n].slot].at = "answered"
  /\ LET r == code[n].slot  a == req[code[n].slot].answer IN
     /\ req' = Taken(r) /\ code' = [code EXCEPT ![n].slot = None]
     /\ verifier' = IF a = "error" THEN verifier ELSE None
     /\ IF a = "ok" THEN StoreTokens(req[r].fresh) /\ To(n, "apply") /\ out' = NoOut
                    ELSE UNCHANGED <<store, access, out>> /\ To(n, "idle")
  /\ UNCHANGED <<row, failures, refresh, call, status, latest, device, count>>

LoginLost(n) ==
  /\ pc[n] = "exchange" /\ code[n].state = "used"
  /\ Trouble /\ Counted("lost")
  /\ req' = GivenUp(code[n].slot) /\ code' = [code EXCEPT ![n].slot = None]
  /\ To(n, "idle")
  /\ UNCHANGED <<row, failures, store, access, verifier, refresh, call, status,
                 latest, device, out>>

LoginApplies(n) ==
  /\ pc[n] = "apply" /\ ApplySession(n)
  /\ UNCHANGED <<serverVars, store, access, verifier, code, refresh, status, device,
                 out, count>>

\* Faulty: no check of the number.
MeAnswerOfAny(p) ==
  /\ pc[p] = "me" /\ call[p].stage = "done"
  /\ status' = IF call[p].result = "ok" THEN "authenticated" ELSE "anonymous"
  /\ To(p, "idle")
  /\ call' = [call EXCEPT ![p] = NoCall]
  /\ UNCHANGED <<serverVars, store, access, verifier, code, refresh, latest, device, out, count>>

\* fetchCurrentUser returned: only the latest number may speak.  A signed-in
\* user starts the registration of the device; at boot an exception ends in
\* goAnonymous whatever its number is.
MeAnswer(p) ==
  /\ pc[p] = "me" /\ call[p].stage = "done"
  /\ LET result == call[p].result  newest == latest = p IN
     /\ \/ /\ result = "threw" /\ p = Boot /\ GoAnonymous
        \/ /\ ~(result = "threw" /\ p = Boot) /\ UNCHANGED latest
           /\ status' = IF result = "threw" \/ ~newest THEN status
                        ELSE IF result = "ok" THEN "authenticated" ELSE "anonymous"
     /\ IF newest /\ result = "ok"
          THEN pc' = [pc EXCEPT ![p] = "idle",
                                ![Push] = IF @ = "idle" THEN "register" ELSE @]
          ELSE To(p, "idle")
     /\ call' = [call EXCEPT ![p] = NoCall]
  /\ UNCHANGED <<serverVars, store, access, verifier, code, refresh, device, out, count>>

\* syncPushRegistration: permission and token, then PUT.  The outcome only
\* feeds a cache of the token, which clearing falls back from.
PushRegisters ==
  /\ pc[Push] = "register"
  /\ \/ call' = [call EXCEPT ![Push] = Calls("put")] /\ To(Push, "put")
     \/ To(Push, "idle") /\ UNCHANGED call
  /\ UNCHANGED <<serverVars, store, access, verifier, code, refresh, status, latest,
                 device, out, count>>

PushEnds(p) ==
  /\ pc[p] \in {"put", "del"} /\ call[p].stage = "done"
  /\ To(p, "idle")
  /\ call' = [call EXCEPT ![p] = NoCall]
  /\ UNCHANGED <<serverVars, store, access, verifier, code, refresh, status, latest,
                 device, out, count>>

-----------------------------------------------------------------------------
(* signOut and removeAccount.                                              *)

OutStarts == count.outs < MaxOuts /\ Counted("outs")
\* Faulty: the registration is cleared when the session is over.
ClearPushTooLate == call' = [call EXCEPT ![Unpush] = [Calls("del") EXCEPT !.bearer = "none"]]
ClearPushStarts == call' = [call EXCEPT ![Unpush] = Calls("del")]

StartUnderWay == \E p \in Task \ {Out, Unpush} : pc[p] # "idle"

\* signOut clears the push registration while the session is alive.
SignOut ==
  /\ status = "authenticated" /\ pc[Out] = "idle" /\ pc[Unpush] = "idle"
  /\ OutStarts
  /\ ClearPushStarts
  /\ pc' = [pc EXCEPT ![Unpush] = "del", ![Out] = "unpush"]
  /\ out' = [NoOut EXCEPT !.clean = access = "good" /\ ~StartUnderWay /\ count.lost = 0]
  /\ UNCHANGED <<serverVars, store, access, verifier, code, refresh, status, latest,
                 device>>

\* ... waits for it at most three seconds, then logout reads the store.
SignOutReads ==
  /\ pc[Out] = "unpush"
  /\ \/ pc[Unpush] = "idle" /\ UNCHANGED count
     \/ pc[Unpush] # "idle" /\ Trouble /\ Counted("lost")
  /\ call' = [call EXCEPT ![Out].token = store]
  /\ To(Out, IF store = None THEN "clear" ELSE "logout")
  /\ UNCHANGED <<serverVars, store, access, verifier, code, refresh, status, latest,
                 device, out>>

SignOutPosts ==
  /\ pc[Out] = "logout" /\ Idle # {}
  /\ req' = [req EXCEPT ![FreeSlot] = Sent("logout", call[Out].token)]
  /\ call' = [call EXCEPT ![Out].token = FreeSlot]
  /\ To(Out, "posted")
  /\ UNCHANGED <<row, failures, store, access, verifier, code, refresh, status, latest, device, out, count>>

\* Answered with success or not, or unreachable: the device goes on.
SignOutAnswered ==
  /\ pc[Out] = "posted"
  /\ LET r == call[Out].token IN
     \/ req[r].at = "answered" /\ req' = Taken(r) /\ UNCHANGED count
     \/ Trouble /\ Counted("lost") /\ req' = GivenUp(r)
  /\ To(Out, "clear")
  /\ UNCHANGED <<row, failures, store, access, verifier, code, refresh, call, status,
                 latest, device, out>>

\* No rotation is in flight and no caller is about to submit a token it read.
NoRotationUnderWay == refresh.at = "none" /\ \A p \in Task : call[p].stage # "read"

\* clearSession, then goAnonymous.
SignOutClears ==
  /\ pc[Out] = "clear"
  /\ ClearSession /\ GoAnonymous
  /\ To(Out, "idle")
  /\ call' = [call EXCEPT ![Out] = NoCall]
  /\ out' = [out EXCEPT !.done = TRUE, !.calm = NoRotationUnderWay]
  /\ UNCHANGED <<serverVars, verifier, code, refresh, device, count>>

RemoveAccount ==
  /\ status = "authenticated" /\ pc[Out] = "idle" /\ pc[Unpush] = "idle"
  /\ OutStarts
  /\ call' = [call EXCEPT ![Out] = Calls("delete")]
  /\ To(Out, "delete")
  /\ UNCHANGED <<serverVars, store, access, verifier, code, refresh, status, latest,
                 device, out>>

\* deleteAccount: only a deletion that succeeded clears anything.
RemoveAnswered ==
  /\ pc[Out] = "delete" /\ call[Out].stage = "done"
  /\ IF call[Out].result = "ok"
       THEN /\ ClearSession
            /\ call' = [call EXCEPT ![Out] = NoCall,
                                    ![Unpush] = [Calls("del") EXCEPT !.bearer = "none"]]
            /\ pc' = [pc EXCEPT ![Unpush] = "del", ![Out] = "removed"]
       ELSE /\ call' = [call EXCEPT ![Out] = NoCall]
            /\ To(Out, "idle") /\ UNCHANGED <<store, access>>
  /\ UNCHANGED <<serverVars, verifier, code, refresh, status, latest, device, out,
                 count>>

Removed ==
  /\ pc[Out] = "removed"
  /\ \/ pc[Unpush] = "idle" /\ UNCHANGED count
     \/ pc[Unpush] # "idle" /\ Trouble /\ Counted("lost")
  /\ GoAnonymous /\ To(Out, "idle")
  /\ UNCHANGED <<serverVars, store, access, verifier, code, refresh, call, device,
                 out>>

-----------------------------------------------------------------------------

\* Fifteen minutes: the access token runs out, but never one so new that the
\* call it was rotated for is still to be retried.
AccessRunsOut ==
  /\ access = "good" /\ count.stale < MaxStale /\ Counted("stale")
  /\ \A p \in Task : ~Retrying(p)
  /\ access' = "stale"
  /\ UNCHANGED <<serverVars, store, verifier, code, refresh, pc, call, status, latest, device, out>>

\* The grace time is ten seconds: longer than the app waits for an answer,
\* and than it takes to submit a token it has just read.
Hurried(t) ==
  \/ refresh.at = "waiting" /\ refresh.token = t
  \/ \E p \in Task : call[p].stage = "read" /\ call[p].token = t

TimePasses ==
  /\ Trouble /\ Counted("time")
  /\ \E t \in Token : (GracePasses(t) /\ ~Hurried(t)) \/ TokenExpires(t)
  /\ UNCHANGED <<store, access, verifier, code, refresh, pc, call, status, latest,
                 device, out>>

\* The app is killed and started again: the keystore is all that is left.
Restart ==
  /\ Trouble /\ Counted("lost")
  /\ req' = [r \in Req |-> IF req[r].at \in {"idle", "answered"} THEN NoRequest
                            ELSE [req[r] EXCEPT !.waited = FALSE]]
  /\ access' = "none" /\ verifier' = None /\ refresh' = NoRefresh
  /\ pc' = [p \in Task |-> IF p = Boot THEN "start" ELSE "idle"]
  /\ call' = [p \in Task |-> NoCall]
  /\ status' = "loading" /\ latest' = None
  /\ out' = NoOut
  /\ UNCHANGED <<row, failures, store, device>>
  /\ code' = [n \in Login |-> IF code[n].state = "used" THEN [code[n] EXCEPT !.slot = None]
                                                     ELSE code[n]]

\* The device row goes with the user (ON DELETE CASCADE).
Server ==
  /\ ServerStep /\ (failures' # failures => Trouble)
  /\ device' = (device /\ \A r \in Req : ~DeleteCommits(r))
  /\ UNCHANGED <<store, access, verifier, code, refresh, pc, call, status, latest, out, count>>

Next ==
  \/ Server \/ TimePasses \/ AccessRunsOut \/ Restart
  \/ RefreshAnswer \/ RefreshRejected \/ RefreshLost
  \/ \E p \in Task : RefreshTokens(p) \/ ApiHandles(p) \/ ApiDeleted(p) \/ DeletionLost(p)
                      \/ CallAnswer(p) \/ CallRetries(p) \/ CallLost(p) \/ MeAnswer(p) \/ PushEnds(p)
  \/ BootReads \/ BootRestored \/ PushRegisters
  \/ \E n \in Login : StartLogin(n) \/ DeepLink(n) \/ CodeConsumed(n) \/ LoginAnswer(n)
                       \/ LoginLost(n) \/ LoginApplies(n)
  \/ SignOut \/ SignOutReads \/ SignOutPosts \/ SignOutAnswered \/ SignOutClears
  \/ RemoveAccount \/ RemoveAnswered \/ Removed

Spec == Init /\ [][Next]_vars


-----------------------------------------------------------------------------

TypeOK ==
  /\ row \in [Token -> [state : RowState, family : Token \cup {None},
                        from : Token \cup {None}]]
  /\ req \in [Req -> [at : Phase, op : Op, token : Token \cup {None},
                      waited : BOOLEAN, sweep : SUBSET Token, answer : Answer,
                      fresh : Token \cup {None}]]
  /\ store \in Token \cup {None} /\ access \in {"none", "good", "stale"}
  /\ verifier \in Login \cup {None}
  /\ status \in {"loading", "authenticated", "anonymous"}
  /\ device \in BOOLEAN /\ latest \in Task \cup {None}
  /\ refresh.at # "none" => refresh.token \in Token
  /\ refresh.at = "waiting" => req[refresh.req].op = "refresh"

\* A family never has two tokens that are not revoked: two rotations of one
\* token, or a rotation and a retry, cannot both hand out a successor.
OneLivePerFamily ==
  \A t, u \in Token :
    /\ row[t].family # None /\ row[t].family = row[u].family
    /\ row[t].state \in Unrevoked /\ row[u].state \in Unrevoked
    => t = u

Ended(t) == row[t].family # None /\ \A u \in Family(t) : row[u].state \notin Unrevoked
RotatingIn(t) == \E r \in Req : req[r].at = "rotating" /\ req[r].token \in Family(t)

\* A family that a logout, a reuse or the account's deletion ended never gets
\* a valid token again, except from a rotation that was inside before.
EndedFamilyStaysEnded ==
  [][\A t \in Token : Ended(t) /\ ~RotatingIn(t) => Ended(t)' /\ ~RotatingIn(t)']_serverVars

\* A logout never loses to the rotation of the very token it submitted: when
\* its transaction ends and is not rolled back, that token's successor is
\* revoked too.
LogoutTakesSuccessor ==
  [][\A r \in Req :
       req[r].op = "logout" /\ req[r].at = "sweeping" /\ req'[r].at \in {"answered", "idle"}
         /\ failures' = failures
       => \A t \in Token : row'[t].from = req[r].token => row'[t].state # "live"]_serverVars

Undisturbed ==
  /\ count.lost = 0 /\ failures = 0 /\ count.outs = 0
  /\ \A t \in Token : row[t].state # "expired"

\* As long as no answer is lost, no token expires and nobody signs out, a
\* signed-in app holds a token that is valid, or whose successor is in the
\* answer it waits for.
SessionKept ==
  Undisturbed /\ status = "authenticated"
  => /\ store # None
     /\ \/ row[store].state \in Unrevoked
        \/ refresh.at = "waiting" /\ refresh.token = store
           /\ req[refresh.req].answer = "ok"

\* After a sign-out with no rotation under way nothing comes back: no answer
\* that is still on its way restores a token or the signed-in screens.
SignOutIsFinal ==
  out.done /\ out.calm => store = None /\ access = "none" /\ status # "authenticated"

\* A refresh that only lost a race does not end the session: the token the
\* race was lost to is valid, so nothing is cleared.
RaceKeepsSession ==
  [][refresh.at = "checking" /\ refresh.answer = "raced" => store' = store]_appVars

\* A sign-out with a valid access token removes the device's registration,
\* unless a login or a registration is under way or an answer is lost.
SignOutUnregisters ==
  out.done /\ out.clean /\ count.lost = 0 => ~device

=============================================================================
