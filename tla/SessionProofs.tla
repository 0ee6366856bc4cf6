------------------------------ MODULE SessionProofs ------------------------------
(* Theorems about the app's session with the auth server, for any number of *)
(* requests, tokens, logins and faults.                                     *)
EXTENDS MobileSession, RefreshTokensProofs

-----------------------------------------------------------------------------
(* What the app's variables hold.                                          *)

Wheres == {"start", "idle", "restore", "me", "exchange", "apply", "register", "put", "del",
           "unpush", "logout", "posted", "clear", "delete", "removed"}
Stages == {"none", "sent", "answered", "read", "joining", "resumed", "deleting", "done"}
CallRecords ==
  [stage : Stages, what : {"none", "restore", "me", "put", "del", "delete"},
   bearer : {"none", "good", "stale"}, token : Token \cup Req \cup {None}, again : BOOLEAN,
   result : {"none", "ok", "401", "500", "no", "threw"}]
RefreshRecords ==
  [at : {"none", "waiting", "checking"}, token : Token \cup {None}, req : Req \cup {None},
   seen : Token \cup {None}, answer : Answer]
Codes == [state : {"none", "issued", "ignored", "sent", "used"}, slot : Req \cup {None},
          verifier : Login \cup {None}]

AppTypeOK ==
  /\ store \in Token \cup {None} /\ access \in {"none", "good", "stale"}
  /\ verifier \in Login \cup {None}
  /\ status \in {"loading", "authenticated", "anonymous"}
  /\ device \in BOOLEAN /\ latest \in Task \cup {None}
  /\ code \in [Login -> Codes] /\ refresh \in RefreshRecords
  /\ pc \in [Task -> Wheres] /\ call \in [Task -> CallRecords]

\* A token read for a rotation or a logout is one, and only a removal deletes.
TokensInHand ==
  /\ \A p \in Task : call[p].stage = "read" => call[p].token \in Token
  /\ pc[Out] = "logout" => call[Out].token \in Token
  /\ refresh.at # "none" => refresh.token \in Token
  /\ pc[Out] # "delete" => call[Out].stage = "none"
  /\ \A p \in Task : call[p].what = "delete" \/ call[p].stage = "deleting"
                     => p = Out /\ call[p].what = "delete"

\* A slot whose answer a task waits for holds its request.
Owned(r, ops) == r \in Req /\ req[r].op \in ops /\ req[r].waited /\ req[r].at # "idle"
Exchanging(n) == pc[n] = "exchange" \/ code[n].state = "sent"
SlotsHeld ==
  /\ refresh.at = "waiting" => Owned(refresh.req, {"refresh"})
  /\ \A p \in Task : call[p].stage = "deleting" => Owned(call[p].token, {"delete"})
  /\ pc[Out] = "posted" => Owned(call[Out].token, {"logout"})
  /\ \A n \in Login : pc[n] = "exchange" =>
       /\ code[n].state \in {"sent", "used"} /\ Owned(code[n].slot, {"exchange", "login"})
       /\ code[n].state = "used" =>
            req[code[n].slot].op = "login" \/ req[code[n].slot].at = "answered"
  /\ \A n \in Login : code[n].state = "sent" =>
       /\ code[n].slot \in Req
       /\ req[code[n].slot].at = "sent" /\ req[code[n].slot].op = "exchange"
  /\ \A m, n \in Login : Exchanging(m) /\ Exchanging(n) /\ code[m].slot = code[n].slot => m = n

AppInv == AppTypeOK /\ TokensInHand /\ SlotsHeld
SessionInv == ServerInv /\ AppInv

LEMMA TasksDiffer ==
  /\ Boot \in Task /\ Push \in Task /\ Unpush \in Task /\ Out \in Task /\ Login \subseteq Task
  /\ Boot \notin Login /\ Push \notin Login /\ Unpush \notin Login /\ Out \notin Login
  /\ Boot # Out /\ Push # Out /\ Unpush # Out /\ Boot # Push /\ Boot # Unpush /\ Push # Unpush
  /\ None \notin Task /\ None \notin Token /\ None \notin Req /\ None \notin Login
<1>1. Login \subseteq Nat /\ Token \subseteq Nat
  BY DEF Login, Token
<1>2. Boot \notin Nat /\ Push \notin Nat /\ Unpush \notin Nat /\ Out \notin Nat
  BY MobileAssumption
<1> QED
  BY <1>1, <1>2, MobileAssumption, TokensAssumption DEF Task

LEMMA InitHolds == Init => SessionInv
<1> SUFFICES ASSUME Init PROVE SessionInv
  OBVIOUS
<1>1. /\ \/ row = [t \in Token |-> UnusedRow] /\ store = None
         \/ row = [t \in Token |-> IF t = 1 THEN Inserted(1, 1, None) ELSE UnusedRow] /\ store = 1
      /\ req = [r \in Req |-> NoRequest]
  BY DEF Init, TokensInit, SignedInBefore
<1>3. 1 \in Token
  BY TokensAssumption DEF Token
<1>5. ServerInv
  BY <1>1, ServerStarts
<1>6. AppTypeOK
  <2>1. code \in [Login -> Codes] /\ refresh \in RefreshRecords
    BY DEF Init, Codes, RefreshRecords, NoRefresh, Answer
  <2>2. pc \in [Task -> Wheres]
    BY DEF Init, Wheres
  <2>3. NoCall \in CallRecords
    BY DEF NoCall, CallRecords, Stages
  <2>4. call \in [Task -> CallRecords]
    BY <2>3 DEF Init
  <2> QED
    BY <1>1, <1>3, <2>1, <2>2, <2>4 DEF Init, AppTypeOK
<1>7. TokensInHand /\ SlotsHeld
  BY TasksDiffer DEF Init, TokensInHand, SlotsHeld, Exchanging, NoRefresh, NoCall
<1> QED
  BY <1>5, <1>6, <1>7 DEF SessionInv, AppInv

-----------------------------------------------------------------------------
(* The steps, one for each variable group they touch.                      *)

LEMMA FreeSlotIdle == Idle # {} => FreeSlot \in Req /\ req[FreeSlot].at = "idle"
  BY DEF Idle, FreeSlot

LEMMA CallFacts ==
  ASSUME AppTypeOK
  PROVE  /\ NoCall \in CallRecords /\ NoCall.stage = "none" /\ NoCall.what = "none"
         /\ \A result \in {"ok", "401", "500", "no", "threw"} :
              Result(result) \in CallRecords /\ Result(result).stage = "done" /\ Result(result).what = "none"
         /\ \A what \in {"none", "restore", "me", "put", "del", "delete"} :
              Calls(what) \in CallRecords /\ Calls(what).stage = "sent" /\ Calls(what).what = what
         /\ \A ok \in BOOLEAN :
              /\ Resumed(ok) \in [Task -> CallRecords]
              /\ \A p \in Task : \/ Resumed(ok)[p] = call[p]
                                 \/ call[p].stage = "joining" /\ Resumed(ok)[p].stage = "resumed"
                                    /\ Resumed(ok)[p].what = call[p].what
                                 \/ call[p].stage = "joining" /\ Resumed(ok)[p].stage = "done"
                                    /\ Resumed(ok)[p].what = "none"
<1>1. NoCall \in CallRecords /\ NoCall.stage = "none" /\ NoCall.what = "none"
  BY DEF NoCall, CallRecords, Stages
<1>2. \A result \in {"ok", "401", "500", "no", "threw"} :
        Result(result) \in CallRecords /\ Result(result).stage = "done" /\ Result(result).what = "none"
  BY DEF Result, NoCall, CallRecords, Stages
<1>3. \A what \in {"none", "restore", "me", "put", "del", "delete"} :
        Calls(what) \in CallRecords /\ Calls(what).stage = "sent" /\ Calls(what).what = what
  BY DEF Calls, NoCall, CallRecords, Stages, AppTypeOK
<1>4. ASSUME NEW ok \in BOOLEAN, NEW p \in Task
      PROVE  /\ Resumed(ok)[p] \in CallRecords
             /\ \/ Resumed(ok)[p] = call[p]
                \/ call[p].stage = "joining" /\ Resumed(ok)[p].stage = "resumed"
                   /\ Resumed(ok)[p].what = call[p].what
                \/ call[p].stage = "joining" /\ Resumed(ok)[p].stage = "done"
                   /\ Resumed(ok)[p].what = "none"
  <2> DEFINE resumed == [NoCall EXCEPT !.stage = "resumed", !.what = call[p].what]
  <2>1. call[p] \in CallRecords
    BY DEF AppTypeOK
  <2>2. resumed \in CallRecords /\ resumed.stage = "resumed" /\ resumed.what = call[p].what
    BY <1>1, <2>1 DEF CallRecords, Stages
  <2>3. Result("no") \in CallRecords /\ Result("no").stage = "done" /\ Result("no").what = "none"
    BY <1>2
  <2>4. Resumed(ok)[p] = IF call[p].stage # "joining" THEN call[p]
                         ELSE IF ok THEN resumed ELSE Result("no")
    BY DEF Resumed
  <2> HIDE DEF resumed
  <2> QED
    BY <2>1, <2>2, <2>3, <2>4
<1>5. \A ok \in BOOLEAN : Resumed(ok) = [p \in Task |-> Resumed(ok)[p]]
  BY DEF Resumed
<1>6. \A ok \in BOOLEAN : Resumed(ok) \in [Task -> CallRecords]
  BY <1>4, <1>5
<1> QED
  BY <1>1, <1>2, <1>3, <1>4, <1>6

\* The calls: each step gives one task's call a new record, or resumes all.
LEMMA CallsKept == SessionInv /\ [Next]_vars => call' \in [Task -> CallRecords]
<1> SUFFICES ASSUME SessionInv, [Next]_vars PROVE call' \in [Task -> CallRecords]
  OBVIOUS
<1> USE TasksDiffer DEF SessionInv, AppInv, AppTypeOK
<1>1. CASE UNCHANGED call
  BY <1>1
<1>2. ASSUME NEW p \in Task, NEW c \in CallRecords, call' = [call EXCEPT ![p] = c]
      PROVE  call' \in [Task -> CallRecords]
  BY <1>2
<1>3. CASE Restart
  BY <1>3, CallFacts DEF Restart
<1>4. CASE RefreshAnswer \/ RefreshRejected \/ RefreshLost
  BY <1>4, CallFacts DEF RefreshAnswer, RefreshRejected, RefreshLost
<1>5. ASSUME NEW p \in Task, RefreshTokens(p) PROVE call' \in [Task -> CallRecords]
  <2> DEFINE c == [call[p] EXCEPT !.stage = "joining", !.token = None]
  <2>1. c \in CallRecords
    BY DEF CallRecords, Stages
  <2> QED
    BY <1>2, <1>5, <2>1 DEF RefreshTokens
<1>6. ASSUME NEW p \in Task, ApiHandles(p) PROVE call' \in [Task -> CallRecords]
  <2> DEFINE result == ApiResult(call[p])
             deleting == [call[p] EXCEPT !.stage = "deleting", !.token = FreeSlot]
             answered == [call[p] EXCEPT !.stage = "answered", !.bearer = "none", !.result = result]
  <2>1. result \in {"401", "500", "ok"}
    BY DEF ApiResult
  <2> HIDE DEF result
  <2>2. answered \in CallRecords /\ (Idle # {} => deleting \in CallRecords)
    BY <2>1, FreeSlotIdle DEF CallRecords, Stages
  <2>3. Result(result) \in CallRecords
    BY <2>1, CallFacts
  <2>4. \/ Idle # {} /\ call' = [call EXCEPT ![p] = deleting]
        \/ call' = [call EXCEPT ![p] = Result(result)]
        \/ call' = [call EXCEPT ![p] = answered]
    BY <1>6 DEF ApiHandles, result
  <2> HIDE DEF deleting, answered
  <2> QED
    BY <1>2, <2>2, <2>3, <2>4
<1>7. ASSUME NEW p \in Task, ApiDeleted(p) \/ DeletionLost(p) \/ CallLost(p) \/ PushEnds(p) \/ MeAnswer(p)
      PROVE  call' \in [Task -> CallRecords]
  BY <1>7, CallFacts DEF ApiDeleted, DeletionLost, CallLost, PushEnds, MeAnswer
<1>8. ASSUME NEW p \in Task, CallAnswer(p) PROVE call' \in [Task -> CallRecords]
  <2> DEFINE c == [call[p] EXCEPT !.stage = "read", !.token = store, !.result = "none"]
  <2>1. c \in CallRecords
    BY DEF CallRecords, Stages
  <2>2. \/ call' = [call EXCEPT ![p] = c]
        \/ call' = [call EXCEPT ![p] = Result("ok")]
        \/ call' = [call EXCEPT ![p] = Result("no")]
    BY <1>8 DEF CallAnswer
  <2>3. Result("ok") \in CallRecords /\ Result("no") \in CallRecords
    BY CallFacts
  <2> HIDE DEF c
  <2> QED
    BY <1>2, <2>1, <2>2, <2>3
<1>9. ASSUME NEW p \in Task, CallRetries(p) PROVE call' \in [Task -> CallRecords]
  <2> DEFINE c == Calls(call[p].what)
  <2>1. c \in CallRecords
    <3>1. call[p] \in CallRecords
      OBVIOUS
    <3>2. call[p].what \in {"none", "restore", "me", "put", "del", "delete"}
      BY <3>1 DEF CallRecords
    <3> QED
      BY <3>2, CallFacts
  <2>2. call' = [call EXCEPT ![p] = [c EXCEPT !.again = TRUE]]
    BY <1>9 DEF CallRetries
  <2> HIDE DEF c
  <2> DEFINE again == [c EXCEPT !.again = TRUE]
  <2>3. again \in CallRecords
    BY <2>1 DEF CallRecords
  <2>4. call' = [call EXCEPT ![p] = again]
    BY <2>2
  <2> HIDE DEF again
  <2> QED
    BY <1>2, <2>3, <2>4
<1>10. CASE BootReads
  <2> DEFINE c == [NoCall EXCEPT !.stage = "read", !.what = "restore", !.token = store]
  <2>1. c \in CallRecords
    BY DEF NoCall, CallRecords, Stages
  <2>2. call' = call \/ call' = [call EXCEPT ![Boot] = c]
    BY <1>10 DEF BootReads
  <2> HIDE DEF c
  <2> QED
    BY <1>2, <2>1, <2>2
<1>11. CASE BootRestored \/ PushRegisters \/ SignOut \/ RemoveAccount \/ SignOutClears
  BY <1>11, CallFacts DEF BootRestored, ApplySession, PushRegisters, SignOut, ClearPushStarts,
                          RemoveAccount, SignOutClears
<1>12. ASSUME NEW n \in Login, LoginApplies(n) PROVE call' \in [Task -> CallRecords]
  BY <1>12, CallFacts DEF LoginApplies, ApplySession
<1>13. CASE SignOutReads \/ SignOutPosts
  <2> PICK token \in Token \cup Req \cup {None} : call' = [call EXCEPT ![Out].token = token]
    BY <1>13, FreeSlotIdle DEF SignOutReads, SignOutPosts
  <2>1. [call[Out] EXCEPT !.token = token] \in CallRecords
    BY DEF CallRecords
  <2> QED
    BY <1>2, <2>1
<1>14. CASE RemoveAnswered
  <2> DEFINE c == Calls("del")
  <2>1. c \in CallRecords
    BY CallFacts
  <2>2. \/ call' = [call EXCEPT ![Out] = NoCall, ![Unpush] = [c EXCEPT !.bearer = "none"]]
        \/ call' = [call EXCEPT ![Out] = NoCall]
    BY <1>14 DEF RemoveAnswered
  <2> HIDE DEF c
  <2>3. [c EXCEPT !.bearer = "none"] \in CallRecords
    BY <2>1 DEF CallRecords
  <2> QED
    BY <2>2, <2>3, CallFacts
<1>15. CASE AccessRunsOut \/ TimePasses \/ Server \/ UNCHANGED vars \/ SignOutAnswered \/ Removed
  BY <1>1, <1>15 DEF AccessRunsOut, TimePasses, Server, appVars, vars, SignOutAnswered, Removed
<1>16. ASSUME NEW n \in Login,
              StartLogin(n) \/ DeepLink(n) \/ CodeConsumed(n) \/ LoginAnswer(n) \/ LoginLost(n)
       PROVE  call' \in [Task -> CallRecords]
  BY <1>1, <1>16 DEF StartLogin, DeepLink, CodeConsumed, LoginAnswer, LoginLost
<1> QED
  BY <1>3, <1>4, <1>5, <1>6, <1>7, <1>8, <1>9, <1>10, <1>11, <1>12, <1>13, <1>14, <1>15,
     <1>16 DEF Next

\* The other variables of the app.
LEMMA AppKept == SessionInv /\ [Next]_vars => AppTypeOK'
<1> SUFFICES ASSUME SessionInv, [Next]_vars PROVE AppTypeOK'
  OBVIOUS
<1> USE TasksDiffer DEF SessionInv, AppInv, AppTypeOK, ServerInv, ServerTypeOK
<1>0. call' \in [Task -> CallRecords]
  BY CallsKept
<1>1. ASSUME UNCHANGED <<store, access, verifier, code, refresh, pc, status, latest>>,
             device' \in BOOLEAN
      PROVE  AppTypeOK'
  BY <1>0, <1>1
<1>2. NoRefresh \in RefreshRecords
  BY DEF NoRefresh, RefreshRecords, Answer
<1>3. CASE UNCHANGED vars \/ Server \/ TimePasses
  BY <1>1, <1>3 DEF vars, appVars, Server, TimePasses
<1>4. CASE AccessRunsOut
  BY <1>0, <1>4 DEF AccessRunsOut
<1>5. CASE Restart
  <2>1. \A n \in Login : [code[n] EXCEPT !.slot = None] \in Codes
    BY DEF Codes
  <2>2. code' \in [Login -> Codes]
    BY <1>5, <2>1 DEF Restart
  <2>3. pc' \in [Task -> Wheres]
    BY <1>5 DEF Restart, Wheres
  <2> QED
    BY <1>0, <1>2, <1>5, <2>2, <2>3 DEF Restart
<1>6. CASE RefreshAnswer
  <2> DEFINE checking == [refresh EXCEPT !.at = "checking", !.req = None, !.seen = store,
                                         !.answer = req[refresh.req].answer]
  <2>1. /\ refresh.req \in Req /\ req[refresh.req] \in Requests
        /\ req[refresh.req].fresh \in Token \cup {None} /\ req[refresh.req].answer \in Answer
    BY <1>6 DEF RefreshAnswer, SlotsHeld, Owned, Requests
  <2>2. checking \in RefreshRecords
    BY <2>1 DEF RefreshRecords
  <2>3. refresh' = NoRefresh \/ refresh' = checking
    BY <1>6 DEF RefreshAnswer
  <2> HIDE DEF checking
  <2>4. refresh' \in RefreshRecords
    BY <1>2, <2>2, <2>3
  <2> QED
    BY <1>0, <1>6, <2>1, <2>4 DEF RefreshAnswer, StoreTokens
<1>7. CASE RefreshRejected \/ RefreshLost
  BY <1>0, <1>2, <1>7 DEF RefreshRejected, RefreshLost, ClearSession
<1>8. ASSUME NEW p \in Task, RefreshTokens(p) PROVE AppTypeOK'
  <2> DEFINE waiting == [NoRefresh EXCEPT !.at = "waiting", !.token = call[p].token,
                                          !.req = FreeSlot]
  <2>1. call[p].token \in Token
    BY <1>8 DEF RefreshTokens, TokensInHand
  <2>2. Idle # {} => waiting \in RefreshRecords
    BY <2>1, FreeSlotIdle DEF NoRefresh, RefreshRecords, Answer
  <2>3. refresh' = refresh \/ (Idle # {} /\ refresh' = waiting)
    BY <1>8, Zenon DEF RefreshTokens
  <2> HIDE DEF waiting
  <2> QED
    BY <1>0, <1>8, <2>2, <2>3 DEF RefreshTokens
<1>9. ASSUME NEW p \in Task, ApiHandles(p) \/ ApiDeleted(p) \/ DeletionLost(p) PROVE AppTypeOK'
  <2>1. device' \in BOOLEAN
    BY <1>9 DEF ApiHandles, ApiDeleted, DeletionLost
  <2> QED
    BY <1>0, <1>9, <2>1 DEF ApiHandles, ApiDeleted, DeletionLost
<1>10. ASSUME NEW p \in Task, CallAnswer(p) \/ CallRetries(p) \/ CallLost(p)
       PROVE  AppTypeOK'
  BY <1>0, <1>10 DEF CallAnswer, CallRetries, CallLost, ClearSession
<1>11. ASSUME NEW p \in Task, MeAnswer(p) PROVE AppTypeOK'
  <2>1. pc' \in [Task -> Wheres]
    BY <1>11 DEF MeAnswer, To, Wheres
  <2>2. status' \in {"loading", "authenticated", "anonymous"} /\ latest' \in Task \cup {None}
    BY <1>11 DEF MeAnswer, GoAnonymous
  <2> QED
    BY <1>0, <1>11, <2>1, <2>2 DEF MeAnswer
<1>12. ASSUME NEW p \in Task, PushEnds(p) PROVE AppTypeOK'
  BY <1>0, <1>12 DEF PushEnds, To, Wheres
<1>13. CASE BootReads \/ BootRestored \/ PushRegisters
  <2>1. pc' \in [Task -> Wheres]
    BY <1>13 DEF BootReads, BootRestored, PushRegisters, ApplySession, To, Wheres
  <2>2. status' \in {"loading", "authenticated", "anonymous"} /\ latest' \in Task \cup {None}
    BY <1>13 DEF BootReads, BootRestored, PushRegisters, ApplySession, GoAnonymous
  <2> QED
    BY <1>0, <1>13, <2>1, <2>2 DEF BootReads, BootRestored, PushRegisters
<1>14. ASSUME NEW n \in Login, StartLogin(n) PROVE AppTypeOK'
  <2>1. [code[n] EXCEPT !.state = "issued"] \in Codes
    BY DEF Codes
  <2> QED
    BY <1>0, <1>14, <2>1 DEF StartLogin
<1>15. ASSUME NEW n \in Login, DeepLink(n) PROVE AppTypeOK'
  <2> DEFINE sent == [state |-> "sent", slot |-> FreeSlot, verifier |-> verifier]
             ignored == [code[n] EXCEPT !.state = "ignored"]
  <2>1. ignored \in Codes /\ (Idle # {} => sent \in Codes)
    BY FreeSlotIdle DEF Codes
  <2>2. \/ code' = [code EXCEPT ![n] = ignored]
        \/ Idle # {} /\ code' = [code EXCEPT ![n] = sent]
    BY <1>15 DEF DeepLink
  <2> HIDE DEF sent, ignored
  <2>3. code' \in [Login -> Codes]
    BY <2>1, <2>2
  <2>4. pc' \in [Task -> Wheres]
    BY <1>15 DEF DeepLink, To, Wheres
  <2> QED
    BY <1>0, <1>15, <2>3, <2>4 DEF DeepLink
<1>16. ASSUME NEW n \in Login, CodeConsumed(n) PROVE AppTypeOK'
  <2>1. [code[n] EXCEPT !.state = "used", !.verifier = None] \in Codes
    BY DEF Codes
  <2> QED
    BY <1>0, <1>16, <2>1 DEF CodeConsumed
<1>17. ASSUME NEW n \in Login, LoginAnswer(n) PROVE AppTypeOK'
  <2>1. code[n].slot \in Req /\ req[code[n].slot].fresh \in Token \cup {None}
    BY <1>17 DEF LoginAnswer, SlotsHeld, Owned, Requests
  <2>2. [code[n] EXCEPT !.slot = None] \in Codes
    BY DEF Codes
  <2>3. code' \in [Login -> Codes]
    BY <1>17, <2>2 DEF LoginAnswer
  <2>4. pc' \in [Task -> Wheres]
    BY <1>17 DEF LoginAnswer, To, Wheres
  <2>5. store' \in Token \cup {None} /\ access' \in {"none", "good", "stale"}
    BY <1>17, <2>1 DEF LoginAnswer, StoreTokens
  <2> QED
    BY <1>0, <1>17, <2>3, <2>4, <2>5 DEF LoginAnswer
<1>18. ASSUME NEW n \in Login, LoginLost(n) PROVE AppTypeOK'
  <2>1. [code[n] EXCEPT !.slot = None] \in Codes
    BY DEF Codes
  <2>2. code' \in [Login -> Codes]
    BY <1>18, <2>1 DEF LoginLost
  <2> QED
    BY <1>0, <1>18, <2>2 DEF LoginLost, To, Wheres
<1>19. ASSUME NEW n \in Login, LoginApplies(n) PROVE AppTypeOK'
  BY <1>0, <1>19 DEF LoginApplies, ApplySession, To, Wheres
<1>20. CASE SignOut \/ SignOutReads \/ SignOutPosts \/ SignOutAnswered
  <2>1. pc' \in [Task -> Wheres]
    BY <1>20 DEF SignOut, SignOutReads, SignOutPosts, SignOutAnswered, To, Wheres
  <2> QED
    BY <1>0, <1>20, <2>1 DEF SignOut, SignOutReads, SignOutPosts, SignOutAnswered
<1>21. CASE SignOutClears \/ RemoveAccount \/ RemoveAnswered \/ Removed
  <2>1. pc' \in [Task -> Wheres]
    BY <1>21 DEF SignOutClears, RemoveAccount, RemoveAnswered, Removed, To, Wheres
  <2> QED
    BY <1>0, <1>21, <2>1 DEF SignOutClears, RemoveAccount, RemoveAnswered, Removed, ClearSession,
                             GoAnonymous
<1> QED
  BY <1>3, <1>4, <1>5, <1>6, <1>7, <1>8, <1>9, <1>10, <1>11, <1>12, <1>13, <1>14, <1>15,
     <1>16, <1>17, <1>18, <1>19, <1>20, <1>21 DEF Next

\* What the tasks hold in their hands.
LEMMA TokensKept == SessionInv /\ [Next]_vars => TokensInHand'
<1> SUFFICES ASSUME SessionInv, [Next]_vars PROVE TokensInHand'
  OBVIOUS
<1> USE TasksDiffer DEF SessionInv, AppInv, TokensInHand
<1>0. AppTypeOK
  OBVIOUS
<1>1. ASSUME UNCHANGED <<call, pc, refresh>> PROVE TokensInHand'
  BY <1>1
\* One task's call goes on.
<1>2. ASSUME NEW p \in Task, NEW c \in CallRecords, call' = [call EXCEPT ![p] = c],
             call[p].stage # "none", c.stage = "read" => c.token \in Token,
             c.stage = "deleting" => call[p].what = "delete",
             c.what = call[p].what \/ (c.what = "none" /\ c.stage = "done"),
             pc' = pc, refresh'.at # "none" => refresh'.token \in Token
      PROVE  TokensInHand'
  BY <1>0, <1>2 DEF AppTypeOK
\* The waiting calls are resumed.
<1>3. ASSUME NEW ok \in BOOLEAN, call' = Resumed(ok), pc' = pc,
             refresh'.at # "none" => refresh'.token \in Token
      PROVE  TokensInHand'
  <2>1. \A p \in Task :
          \/ call'[p] = call[p]
          \/ /\ call[p].stage = "joining" /\ call'[p].stage = "resumed"
             /\ call'[p].what = call[p].what
          \/ call[p].stage = "joining" /\ call'[p].stage = "done" /\ call'[p].what = "none"
    BY <1>0, <1>3, CallFacts
  <2> QED
    BY <1>3, <2>1
<1>4. NoRefresh.at = "none"
  BY DEF NoRefresh
<1>5. \A result \in {"ok", "401", "500", "no", "threw"} :
        Result(result) \in CallRecords /\ Result(result).stage = "done" /\ Result(result).what = "none"
  BY <1>0, CallFacts
<1>6. CASE UNCHANGED vars \/ Server \/ TimePasses \/ AccessRunsOut
  BY <1>1, <1>6 DEF vars, appVars, Server, TimePasses, AccessRunsOut
<1>7. CASE Restart
  BY <1>0, <1>4, <1>7, CallFacts DEF Restart
<1>8. CASE RefreshAnswer
  <2>1. \/ call' = Resumed(TRUE) /\ refresh' = NoRefresh
        \/ call' = Resumed(FALSE) /\ refresh' = NoRefresh
        \/ call' = call /\ refresh'.token = refresh.token /\ refresh.at = "waiting"
    BY <1>0, <1>8 DEF RefreshAnswer, AppTypeOK, RefreshRecords
  <2>2. pc' = pc
    BY <1>8 DEF RefreshAnswer
  <2>3. CASE call' = Resumed(TRUE) /\ refresh' = NoRefresh
    BY <1>3, <1>4, <2>2, <2>3
  <2>4. CASE call' = Resumed(FALSE) /\ refresh' = NoRefresh
    BY <1>3, <1>4, <2>2, <2>4
  <2>5. CASE call' = call /\ refresh'.token = refresh.token /\ refresh.at = "waiting"
    BY <2>2, <2>5
  <2> QED
    BY <2>1, <2>3, <2>4, <2>5
<1>9. CASE RefreshRejected \/ RefreshLost
  BY <1>3, <1>4, <1>9 DEF RefreshRejected, RefreshLost
<1>10. ASSUME NEW p \in Task, RefreshTokens(p) PROVE TokensInHand'
  <2> DEFINE c == [call[p] EXCEPT !.stage = "joining", !.token = None]
             waiting == [NoRefresh EXCEPT !.at = "waiting", !.token = call[p].token,
                                          !.req = FreeSlot]
  <2>0. call[p] \in CallRecords
    BY <1>0 DEF AppTypeOK
  <2>1. c \in CallRecords /\ c.stage = "joining" /\ c.what = call[p].what
    BY <2>0 DEF CallRecords, Stages
  <2>2. waiting.token = call[p].token
    BY DEF NoRefresh
  <2>3. /\ refresh' = refresh \/ refresh' = waiting
        /\ call' = [call EXCEPT ![p] = c] /\ pc' = pc /\ call[p].stage = "read"
    BY <1>10, Zenon DEF RefreshTokens
  <2> HIDE DEF c, waiting
  <2> QED
    BY <1>2, <2>1, <2>2, <2>3
<1>11. ASSUME NEW p \in Task, ApiHandles(p) PROVE TokensInHand'
  <2> DEFINE result == ApiResult(call[p])
             deleting == [call[p] EXCEPT !.stage = "deleting", !.token = FreeSlot]
             answered == [call[p] EXCEPT !.stage = "answered", !.bearer = "none", !.result = result]
  <2>0. call[p] \in CallRecords
    BY <1>0 DEF AppTypeOK
  <2>1. result \in {"401", "500", "ok"}
    BY DEF ApiResult
  <2> HIDE DEF result
  <2>2. /\ answered \in CallRecords /\ (Idle # {} => deleting \in CallRecords)
        /\ deleting.stage = "deleting" /\ answered.stage = "answered"
        /\ deleting.what = call[p].what /\ answered.what = call[p].what
    BY <2>0, <2>1, FreeSlotIdle DEF CallRecords, Stages
  <2>3. /\ Result(result) \in CallRecords /\ Result(result).stage = "done"
        /\ Result(result).what = "none"
    BY <1>5, <2>1
  <2>4. \/ Idle # {} /\ call' = [call EXCEPT ![p] = deleting] /\ call[p].what = "delete"
        \/ call' = [call EXCEPT ![p] = Result(result)]
        \/ call' = [call EXCEPT ![p] = answered]
    BY <1>11 DEF ApiHandles, result
  <2>5. call[p].stage = "sent" /\ pc' = pc /\ refresh' = refresh
    BY <1>11 DEF ApiHandles
  <2> HIDE DEF deleting, answered
  <2>6. CASE Idle # {} /\ call' = [call EXCEPT ![p] = deleting] /\ call[p].what = "delete"
    BY <1>2, <2>2, <2>5, <2>6
  <2>7. CASE call' = [call EXCEPT ![p] = Result(result)]
    BY <1>2, <2>3, <2>5, <2>7
  <2>8. CASE call' = [call EXCEPT ![p] = answered]
    BY <1>2, <2>2, <2>5, <2>8
  <2> QED
    BY <2>4, <2>6, <2>7, <2>8
<1>12. ASSUME NEW p \in Task, ApiDeleted(p) \/ DeletionLost(p) \/ CallLost(p) PROVE TokensInHand'
  <2> PICK result \in {"ok", "no", "threw"} : call' = [call EXCEPT ![p] = Result(result)]
    BY <1>12 DEF ApiDeleted, DeletionLost, CallLost
  <2>1. call[p].stage \in {"deleting", "sent"} /\ pc' = pc /\ refresh' = refresh
    BY <1>12 DEF ApiDeleted, DeletionLost, CallLost
  <2> QED
    BY <1>2, <1>5, <2>1
<1>13. ASSUME NEW p \in Task, CallAnswer(p) PROVE TokensInHand'
  <2> DEFINE c == [call[p] EXCEPT !.stage = "read", !.token = store, !.result = "none"]
  <2>0. call[p] \in CallRecords /\ store \in Token \cup {None}
    BY <1>0 DEF AppTypeOK
  <2>1. c \in CallRecords /\ c.stage = "read" /\ c.token = store /\ c.what = call[p].what
    BY <2>0 DEF CallRecords, Stages
  <2>2. \/ call' = [call EXCEPT ![p] = c] /\ store # None
        \/ call' = [call EXCEPT ![p] = Result("ok")]
        \/ call' = [call EXCEPT ![p] = Result("no")]
    BY <1>13 DEF CallAnswer
  <2>3. call[p].stage = "answered" /\ pc' = pc /\ refresh' = refresh
    BY <1>13 DEF CallAnswer
  <2>4. store # None => store \in Token
    BY <1>0 DEF AppTypeOK
  <2> HIDE DEF c
  <2>5. CASE call' = [call EXCEPT ![p] = c] /\ store # None
    BY <1>2, <2>1, <2>3, <2>4, <2>5
  <2>6. CASE call' = [call EXCEPT ![p] = Result("ok")]
    BY <1>2, <1>5, <2>3, <2>6
  <2>7. CASE call' = [call EXCEPT ![p] = Result("no")]
    BY <1>2, <1>5, <2>3, <2>7
  <2> QED
    BY <2>2, <2>5, <2>6, <2>7
<1>14. ASSUME NEW p \in Task, CallRetries(p) PROVE TokensInHand'
  <2> DEFINE again == [Calls(call[p].what) EXCEPT !.again = TRUE]
  <2>1. call[p] \in CallRecords
    BY <1>0 DEF AppTypeOK
  <2>2. again \in CallRecords /\ again.stage = "sent" /\ again.what = call[p].what
    BY <1>0, <2>1 DEF AppTypeOK, CallRecords, Calls, NoCall, Stages
  <2>3. /\ call' = [call EXCEPT ![p] = again] /\ call[p].stage = "resumed"
        /\ pc' = pc /\ refresh' = refresh
    BY <1>14, Zenon DEF CallRetries, Retrying
  <2> HIDE DEF again
  <2> QED
    BY <1>2, <2>2, <2>3
\* Another task than Out starts a call or ends it.
<1>15. ASSUME NEW p \in Task \ {Out}, NEW c \in CallRecords, call' = [call EXCEPT ![p] = c],
              pc'[Out] = pc[Out], c.what # "delete", c.stage # "deleting",
              c.stage = "read" => c.token \in Token, refresh' = refresh
       PROVE  TokensInHand'
  BY <1>0, <1>15 DEF AppTypeOK
<1>16. ASSUME UNCHANGED <<call, refresh>>, pc'[Out] = pc[Out] PROVE TokensInHand'
  BY <1>16
<1>17. NoCall \in CallRecords /\ NoCall.stage = "none" /\ NoCall.what = "none"
  BY <1>0, CallFacts
<1>18. \A what \in {"none", "restore", "me", "put", "del", "delete"} :
         Calls(what) \in CallRecords /\ Calls(what).stage = "sent" /\ Calls(what).what = what
  BY <1>0, CallFacts
<1>19. ASSUME NEW p \in Task, MeAnswer(p) \/ PushEnds(p) PROVE TokensInHand'
  <2>1. /\ call' = [call EXCEPT ![p] = NoCall] /\ refresh' = refresh
        /\ pc[p] \in {"me", "put", "del"} /\ call[p].stage = "done"
    BY <1>19 DEF MeAnswer, PushEnds
  <2>2. p # Out
    BY <2>1
  <2>3. pc'[Out] = pc[Out]
    BY <1>0, <1>19, <2>2 DEF AppTypeOK, MeAnswer, PushEnds, To
  <2> QED
    BY <1>15, <1>17, <2>1, <2>2, <2>3
<1>20. CASE BootReads
  <2> DEFINE c == [NoCall EXCEPT !.stage = "read", !.what = "restore", !.token = store]
  <2>1. c \in CallRecords /\ c.stage = "read" /\ c.what = "restore" /\ c.token = store
    BY <1>0 DEF NoCall, CallRecords, Stages, AppTypeOK
  <2>2. call' = call \/ (store # None /\ call' = [call EXCEPT ![Boot] = c])
    BY <1>20 DEF BootReads
  <2>3. pc'[Out] = pc[Out] /\ refresh' = refresh /\ (store # None => store \in Token)
    BY <1>0, <1>20 DEF AppTypeOK, BootReads, To
  <2> HIDE DEF c
  <2> QED
    BY <1>15, <1>16, <2>1, <2>2, <2>3
<1>21. CASE BootRestored \/ PushRegisters
  <2>1. pc'[Out] = pc[Out] /\ refresh' = refresh
    BY <1>0, <1>21 DEF AppTypeOK, BootRestored, PushRegisters, To, ApplySession
  <2>2. \/ call' = [call EXCEPT ![Boot] = Calls("me")]
        \/ call' = [call EXCEPT ![Boot] = NoCall]
        \/ call' = [call EXCEPT ![Push] = Calls("put")]
        \/ call' = call
    BY <1>21 DEF BootRestored, PushRegisters, ApplySession
  <2>3. /\ Calls("me") \in CallRecords /\ Calls("me").stage = "sent" /\ Calls("me").what = "me"
        /\ Calls("put") \in CallRecords /\ Calls("put").stage = "sent" /\ Calls("put").what = "put"
    BY <1>18
  <2> QED
    BY <1>15, <1>16, <1>17, <2>1, <2>2, <2>3
<1>22. ASSUME NEW n \in Login, LoginApplies(n) PROVE TokensInHand'
  <2>1. Calls("me") \in CallRecords /\ Calls("me").stage = "sent" /\ Calls("me").what = "me"
    BY <1>18
  <2>2. pc'[Out] = pc[Out] /\ refresh' = refresh /\ call' = [call EXCEPT ![n] = Calls("me")]
    BY <1>0, <1>22 DEF AppTypeOK, LoginApplies, ApplySession, To
  <2> QED
    BY <1>15, <2>1, <2>2
<1>23. ASSUME NEW n \in Login,
              StartLogin(n) \/ DeepLink(n) \/ CodeConsumed(n) \/ LoginAnswer(n) \/ LoginLost(n)
       PROVE  TokensInHand'
  <2>1. pc'[Out] = pc[Out]
    BY <1>0, <1>23 DEF AppTypeOK, StartLogin, DeepLink, CodeConsumed, LoginAnswer, LoginLost, To
  <2> QED
    BY <1>16, <1>23, <2>1 DEF StartLogin, DeepLink, CodeConsumed, LoginAnswer, LoginLost
\* Out itself goes on, with its call at rest.
<1>24. ASSUME NEW c \in CallRecords, call' = [call EXCEPT ![Out] = c], pc' = [pc EXCEPT ![Out] = pc'[Out]],
              c.stage = "none", pc'[Out] = "logout" => c.token \in Token,
              refresh' = refresh
       PROVE  TokensInHand'
  BY <1>0, <1>24 DEF AppTypeOK
<1>25. CASE SignOut
  <2> DEFINE c == Calls("del")
  <2>1. c \in CallRecords /\ c.stage = "sent" /\ c.what = "del"
    BY <1>18
  <2>2. call' = [call EXCEPT ![Unpush] = c] /\ pc'[Out] = "unpush" /\ refresh' = refresh
    BY <1>0, <1>25 DEF AppTypeOK, SignOut, ClearPushStarts
  <2>3. pc[Out] = "idle"
    BY <1>25 DEF SignOut
  <2> HIDE DEF c
  <2> QED
    BY <1>0, <2>1, <2>2, <2>3 DEF AppTypeOK
<1>26. CASE SignOutReads \/ SignOutPosts
  <2> PICK token \in Token \cup Req \cup {None} :
             /\ call' = [call EXCEPT ![Out].token = token]
             /\ pc'[Out] = "logout" => token \in Token
    BY <1>0, <1>26, FreeSlotIdle DEF SignOutReads, SignOutPosts, To, AppTypeOK
  <2> DEFINE c == [call[Out] EXCEPT !.token = token]
  <2>1. call[Out].stage = "none" /\ call[Out] \in CallRecords
    BY <1>0, <1>26 DEF SignOutReads, SignOutPosts, AppTypeOK
  <2>2. /\ c \in CallRecords /\ c.stage = call[Out].stage /\ c.what = call[Out].what
        /\ c.token = token
    BY <2>1 DEF CallRecords
  <2>3. call' = [call EXCEPT ![Out] = c]
    OBVIOUS
  <2>4. pc' = [pc EXCEPT ![Out] = pc'[Out]] /\ refresh' = refresh
    BY <1>0, <1>26 DEF SignOutReads, SignOutPosts, To, AppTypeOK
  <2> HIDE DEF c
  <2> QED
    BY <1>24, <2>1, <2>2, <2>3, <2>4
<1>27. CASE SignOutAnswered \/ Removed
  <2>1. /\ pc' = [pc EXCEPT ![Out] = pc'[Out]] /\ pc'[Out] \in {"clear", "idle"}
        /\ UNCHANGED <<call, refresh>> /\ pc[Out] \in {"posted", "removed"}
    BY <1>0, <1>27 DEF SignOutAnswered, Removed, To, AppTypeOK
  <2> QED
    BY <2>1
<1>28. CASE SignOutClears
  <2>1. /\ pc' = [pc EXCEPT ![Out] = pc'[Out]] /\ pc'[Out] = "idle"
        /\ call' = [call EXCEPT ![Out] = NoCall] /\ refresh' = refresh
    BY <1>0, <1>28 DEF SignOutClears, To, AppTypeOK
  <2> QED
    BY <1>17, <1>24, <2>1
<1>29. CASE RemoveAccount
  <2> DEFINE c == Calls("delete")
  <2>1. c \in CallRecords /\ c.stage = "sent" /\ c.what = "delete"
    BY <1>18
  <2>2. call' = [call EXCEPT ![Out] = c] /\ pc'[Out] = "delete" /\ refresh' = refresh
    BY <1>0, <1>29 DEF AppTypeOK, RemoveAccount, To
  <2> HIDE DEF c
  <2> QED
    BY <1>0, <2>1, <2>2 DEF AppTypeOK
<1>30. CASE RemoveAnswered
  <2> DEFINE del == Calls("del")
             c == [del EXCEPT !.bearer = "none"]
  <2>1. del \in CallRecords /\ del.stage = "sent" /\ del.what = "del"
    BY <1>18
  <2> HIDE DEF del
  <2>2. c \in CallRecords /\ c.stage = "sent" /\ c.what = "del"
    BY <2>1 DEF CallRecords
  <2>3. /\ \/ call' = [call EXCEPT ![Out] = NoCall, ![Unpush] = c]
           \/ call' = [call EXCEPT ![Out] = NoCall]
        /\ refresh' = refresh
    BY <1>30 DEF RemoveAnswered, del
  <2>4. pc'[Out] \in {"removed", "idle"}
    BY <1>0, <1>30 DEF RemoveAnswered, To, AppTypeOK
  <2> HIDE DEF c
  <2> QED
    BY <1>0, <1>17, <2>2, <2>3, <2>4 DEF AppTypeOK
<1> HIDE DEF SessionInv, AppInv, TokensInHand
<1> QED
  BY <1>6, <1>7, <1>8, <1>9, <1>10, <1>11, <1>12, <1>13, <1>14, <1>19, <1>20, <1>21, <1>22,
     <1>23, <1>25, <1>26, <1>27, <1>28, <1>29, <1>30 DEF Next

-----------------------------------------------------------------------------
(* The slots: who waits for an answer, and that it stays his.              *)

\* Somebody still goes by slot r.
Using(r) ==
  \/ refresh.at = "waiting" /\ refresh.req = r
  \/ \E p \in Task : call[p].stage = "deleting" /\ call[p].token = r
  \/ pc[Out] = "posted" /\ call[Out].token = r
  \/ \E n \in Login : Exchanging(n) /\ code[n].slot = r

\* A step after which nobody waits who did not wait before.
NoNewUse ==
  /\ refresh'.at = "waiting" => refresh' = refresh
  /\ \A p \in Task : call'[p].stage = "deleting" =>
       call[p].stage = "deleting" /\ call'[p].token = call[p].token
  /\ pc'[Out] = "posted" => pc[Out] = "posted" /\ call'[Out].token = call[Out].token
  /\ \A n \in Login : pc'[n] = "exchange" => pc[n] = "exchange" /\ code'[n] = code[n]
  /\ \A n \in Login : code'[n].state = "sent" => code'[n] = code[n]

KeptSlot(r) ==
  /\ req[r].waited => /\ req'[r].at # "idle" /\ req'[r].waited
                      /\ req'[r].op = req[r].op
  /\ req[r].at = "answered" \/ (req[r].at = "sent" /\ req[r].op = "exchange")
       => req'[r] = req[r]

LEMMA SlotsStay ==
  ASSUME SessionInv, NoNewUse,
         \A r \in Req : req[r].at # "idle" /\ Using(r)' => KeptSlot(r)
  PROVE  SlotsHeld'
<1> USE TasksDiffer DEF SessionInv, AppInv, SlotsHeld, NoNewUse, Owned, Exchanging
<1>1. refresh'.at = "waiting" => Owned(refresh.req, {"refresh"})'
  BY DEF Using, KeptSlot
<1>2. \A p \in Task : call'[p].stage = "deleting" => Owned(call[p].token, {"delete"})'
  BY DEF Using, KeptSlot
<1>3. pc'[Out] = "posted" => Owned(call[Out].token, {"logout"})'
  BY DEF Using, KeptSlot
<1>4. ASSUME NEW n \in Login, pc'[n] = "exchange"
      PROVE  /\ code'[n].state \in {"sent", "used"}
             /\ Owned(code[n].slot, {"exchange", "login"})'
             /\ code'[n].state = "used" =>
                  req'[code'[n].slot].op = "login" \/ req'[code'[n].slot].at = "answered"
  <2>1. Using(code[n].slot)' /\ code'[n] = code[n] /\ pc[n] = "exchange"
    BY <1>4 DEF Using
  <2>2. KeptSlot(code[n].slot)
    BY <2>1 DEF Using
  <2> QED
    BY <2>1, <2>2 DEF KeptSlot
<1>5. ASSUME NEW n \in Login, code'[n].state = "sent"
      PROVE  /\ code'[n].slot \in Req
             /\ req'[code'[n].slot].at = "sent" /\ req'[code'[n].slot].op = "exchange"
  <2>1. code'[n] = code[n] /\ code[n].state = "sent"
    BY <1>5
  <2>2. /\ code[n].slot \in Req /\ req[code[n].slot].at = "sent"
        /\ req[code[n].slot].op = "exchange"
    BY <2>1
  <2> PICK r \in Req : r = code[n].slot
    BY <2>2
  <2>3. Using(r)'
    BY <1>5, <2>1 DEF Using
  <2>4. req'[r] = req[r]
    BY <2>2, <2>3 DEF KeptSlot
  <2> QED
    BY <2>1, <2>2, <2>4
<1>6. \A m, n \in Login : Exchanging(m)' /\ Exchanging(n)' /\ code'[m].slot = code'[n].slot => m = n
  OBVIOUS
<1> QED
  BY <1>1, <1>2, <1>3, <1>4, <1>5, <1>6

\* Steps of the app alone.
QuietStep ==
  \/ UNCHANGED vars \/ AccessRunsOut \/ RefreshRejected
  \/ \E p \in Task : CallAnswer(p) \/ CallRetries(p) \/ CallLost(p) \/ MeAnswer(p) \/ PushEnds(p)
  \/ BootReads \/ BootRestored \/ PushRegisters
  \/ \E n \in Login : StartLogin(n) \/ LoginApplies(n)
  \/ SignOut \/ SignOutReads \/ SignOutClears
  \/ RemoveAccount \/ RemoveAnswered \/ Removed

LEMMA QuietSteps == SessionInv /\ QuietStep => UNCHANGED serverVars /\ NoNewUse
<1> SUFFICES ASSUME SessionInv, QuietStep PROVE UNCHANGED serverVars /\ NoNewUse
  OBVIOUS
<1> USE TasksDiffer DEF SessionInv, AppInv, AppTypeOK, NoNewUse
<1>0. /\ \A what \in {"none", "restore", "me", "put", "del", "delete"} : Calls(what).stage = "sent"
      /\ \A result \in {"ok", "401", "500", "no", "threw"} : Result(result).stage = "done"
      /\ NoCall.stage = "none" /\ NoRefresh.at = "none"
  BY CallFacts DEF NoRefresh
<1>1. CASE UNCHANGED vars \/ AccessRunsOut
  BY <1>1 DEF vars, appVars, serverVars, AccessRunsOut
<1>2. CASE RefreshRejected
  <2>1. \A p \in Task : Resumed(FALSE)[p].stage = "deleting" => Resumed(FALSE)[p] = call[p]
    BY CallFacts
  <2>2. call' = Resumed(FALSE) /\ refresh' = NoRefresh
    BY <1>2 DEF RefreshRejected
  <2>3. UNCHANGED <<serverVars, pc, code>>
    BY <1>2 DEF RefreshRejected
  <2>4. pc[Out] = "posted" => Resumed(FALSE)[Out] = call[Out]
    BY CallFacts DEF TokensInHand
  <2> QED
    BY <1>0, <2>1, <2>2, <2>3, <2>4
<1>3. ASSUME NEW p \in Task, NEW c, c.stage # "deleting", call' = [call EXCEPT ![p] = c],
             p # Out \/ pc'[Out] # "posted",
             \A q \in Task : pc'[q] \in {"exchange", "posted"} => pc'[q] = pc[q],
             UNCHANGED <<serverVars, refresh, code>>
      PROVE  UNCHANGED serverVars /\ NoNewUse
  BY <1>3
<1>4. ASSUME NEW p \in Task, CallAnswer(p) PROVE UNCHANGED serverVars /\ NoNewUse
  <2> DEFINE c == [call[p] EXCEPT !.stage = "read", !.token = store, !.result = "none"]
  <2>0. call[p] \in CallRecords /\ pc[Out] = "posted" => call[Out].stage = "none"
    BY DEF TokensInHand
  <2>1. c.stage = "read"
    BY DEF CallRecords
  <2>2. \/ call' = [call EXCEPT ![p] = c]
        \/ call' = [call EXCEPT ![p] = Result("ok")]
        \/ call' = [call EXCEPT ![p] = Result("no")]
    BY <1>4 DEF CallAnswer
  <2>3. /\ UNCHANGED <<serverVars, refresh, code, pc>> /\ call[p].stage = "answered"
        /\ Result("ok").stage = "done" /\ Result("no").stage = "done"
    BY <1>0, <1>4 DEF CallAnswer
  <2> HIDE DEF c
  <2> QED
    BY <1>3, <2>0, <2>1, <2>2, <2>3
<1>5. ASSUME NEW p \in Task, CallRetries(p) PROVE UNCHANGED serverVars /\ NoNewUse
  <2> DEFINE again == [Calls(call[p].what) EXCEPT !.again = TRUE]
  <2>1. again.stage = "sent"
    BY DEF Calls, NoCall
  <2>2. /\ call' = [call EXCEPT ![p] = again] /\ call[p].stage = "resumed"
        /\ UNCHANGED <<serverVars, refresh, code, pc>>
    BY <1>5, Zenon DEF CallRetries, Retrying
  <2>3. p = Out => pc[Out] # "posted"
    BY <2>2 DEF TokensInHand
  <2> HIDE DEF again
  <2> QED
    BY <1>3, <2>1, <2>2, <2>3
<1>6. ASSUME NEW p \in Task, CallLost(p) PROVE UNCHANGED serverVars /\ NoNewUse
  <2>1. /\ call' = [call EXCEPT ![p] = Result("threw")] /\ call[p].stage = "sent"
        /\ UNCHANGED <<serverVars, refresh, code, pc>> /\ Result("threw").stage = "done"
    BY <1>0, <1>6 DEF CallLost
  <2>2. p = Out => pc[Out] # "posted"
    BY <2>1 DEF TokensInHand
  <2> QED
    BY <1>3, <2>1, <2>2
<1>7. ASSUME NEW p \in Task, MeAnswer(p) \/ PushEnds(p) PROVE UNCHANGED serverVars /\ NoNewUse
  <2>1. /\ call' = [call EXCEPT ![p] = NoCall] /\ call[p].stage = "done"
        /\ UNCHANGED <<serverVars, refresh, code>> /\ pc[p] \in {"me", "put", "del"}
    BY <1>7 DEF MeAnswer, PushEnds
  <2>2. p # Out
    BY <2>1 DEF TokensInHand
  <2>3. \A q \in Task : pc'[q] \in {"exchange", "posted"} => pc'[q] = pc[q]
    BY <1>7 DEF MeAnswer, PushEnds, To
  <2> QED
    BY <1>0, <1>3, <2>1, <2>2, <2>3
<1>8. CASE BootReads
  <2> DEFINE c == [NoCall EXCEPT !.stage = "read", !.what = "restore", !.token = store]
  <2>1. c.stage = "read"
    BY DEF NoCall
  <2>2. call' = [call EXCEPT ![Boot] = c] \/ call' = call
    BY <1>8 DEF BootReads
  <2>3. /\ \A q \in Task : pc'[q] \in {"exchange", "posted"} => pc'[q] = pc[q]
        /\ UNCHANGED <<serverVars, refresh, code>>
    BY <1>8 DEF BootReads, To
  <2> HIDE DEF c
  <2> QED
    BY <1>3, <2>1, <2>2, <2>3
<1>9. CASE BootRestored \/ PushRegisters \/ \E n \in Login : LoginApplies(n)
  <2>1. /\ \A q \in Task : pc'[q] \in {"exchange", "posted"} => pc'[q] = pc[q]
        /\ UNCHANGED <<serverVars, refresh, code>>
    BY <1>9 DEF BootRestored, PushRegisters, LoginApplies, ApplySession, To
  <2>2. \E p \in Task \ {Out} : \/ call' = [call EXCEPT ![p] = Calls("me")]
                                \/ call' = [call EXCEPT ![p] = Calls("put")]
                                \/ call' = [call EXCEPT ![p] = NoCall]
                                \/ call' = call
    BY <1>9 DEF BootRestored, PushRegisters, LoginApplies, ApplySession
  <2>3. Calls("me").stage = "sent" /\ Calls("put").stage = "sent"
    BY <1>0
  <2> QED
    BY <1>0, <1>3, <2>1, <2>2, <2>3
<1>10. ASSUME NEW n \in Login, StartLogin(n) PROVE UNCHANGED serverVars /\ NoNewUse
  <2>1. /\ UNCHANGED <<serverVars, refresh, call, pc>> /\ pc[n] = "idle"
        /\ code' = [code EXCEPT ![n].state = "issued"]
    BY <1>10 DEF StartLogin
  <2>2. code'[n].state = "issued" /\ \A m \in Login \ {n} : code'[m] = code[m]
    BY <2>1 DEF Codes
  <2> QED
    BY <2>1, <2>2
<1>11. CASE SignOut \/ SignOutClears \/ RemoveAccount
  <2>1. /\ \A q \in Task : pc'[q] \in {"exchange", "posted"} => pc'[q] = pc[q]
        /\ UNCHANGED <<serverVars, refresh, code>> /\ pc'[Out] \in {"unpush", "idle", "delete"}
    BY <1>11 DEF SignOut, SignOutClears, RemoveAccount, To
  <2>2. \E p \in Task : \/ call' = [call EXCEPT ![p] = Calls("del")]
                        \/ call' = [call EXCEPT ![p] = Calls("delete")]
                        \/ call' = [call EXCEPT ![p] = NoCall]
    BY <1>11 DEF SignOut, ClearPushStarts, SignOutClears, RemoveAccount
  <2>3. Calls("del").stage = "sent" /\ Calls("delete").stage = "sent"
    BY <1>0
  <2> QED
    BY <1>0, <1>3, <2>1, <2>2, <2>3
<1>12. CASE SignOutReads
  <2> DEFINE c == [call[Out] EXCEPT !.token = store]
  <2>1. /\ call[Out] \in CallRecords /\ call[Out].stage = "none"
    BY <1>12 DEF SignOutReads, TokensInHand
  <2>2. c.stage = "none"
    BY <2>1 DEF CallRecords
  <2>3. /\ \A q \in Task : pc'[q] \in {"exchange", "posted"} => pc'[q] = pc[q]
        /\ UNCHANGED <<serverVars, refresh, code>> /\ pc'[Out] \in {"clear", "logout"}
    BY <1>12 DEF SignOutReads, To
  <2>4. call' = [call EXCEPT ![Out] = c]
    BY <1>12 DEF SignOutReads
  <2> HIDE DEF c
  <2> QED
    BY <1>3, <2>2, <2>3, <2>4
<1>13. CASE RemoveAnswered
  <2> DEFINE c == [Calls("del") EXCEPT !.bearer = "none"]
  <2>1. c.stage = "sent"
    BY DEF Calls, NoCall
  <2>2. \/ call' = [call EXCEPT ![Out] = NoCall, ![Unpush] = c]
        \/ call' = [call EXCEPT ![Out] = NoCall]
    BY <1>13 DEF RemoveAnswered
  <2>3. /\ \A q \in Task : pc'[q] \in {"exchange", "posted"} => pc'[q] = pc[q]
        /\ UNCHANGED <<serverVars, refresh, code>> /\ pc'[Out] \in {"removed", "idle"}
    BY <1>13 DEF RemoveAnswered, To
  <2> HIDE DEF c
  <2> QED
    BY <1>0, <2>1, <2>2, <2>3
<1>14. CASE Removed
  <2>1. /\ \A q \in Task : pc'[q] \in {"exchange", "posted"} => pc'[q] = pc[q]
        /\ UNCHANGED <<serverVars, refresh, code, call>> /\ pc'[Out] = "idle"
    BY <1>14 DEF Removed, To
  <2> QED
    BY <2>1
<1> HIDE DEF SessionInv, AppInv, AppTypeOK, NoNewUse
<1> QED
  BY <1>1, <1>2, <1>4, <1>5, <1>6, <1>7, <1>8, <1>9, <1>10, <1>11, <1>12, <1>13, <1>14
  DEF QuietStep

\* A client's step spares the transactions under way.
ClientStep ==
  /\ ClientOnly /\ failures' = failures
  /\ \A r \in Req : req[r].at \in Holding =>
       req'[r].at = req[r].at /\ req'[r].token = req[r].token
\* What happens at the server: nothing but this.
ServerActs ==
  ClientStep \/ ServerStep \/ \E t \in Token : GracePasses(t) \/ TokenExpires(t)

\* An answer is taken, or given up, by the only task that waited for it.
LEMMA FreedSlot ==
  ASSUME SessionInv, NEW r \in Req, UNCHANGED <<row, failures>>, NoNewUse, ~Using(r)',
         (req' = Taken(r) /\ req[r].at = "answered") \/ req' = GivenUp(r)
  PROVE  ServerActs /\ SlotsHeld'
<1>1. req \in [Req -> Requests]
  BY DEF SessionInv, ServerInv, ServerTypeOK
<1>2. ClientStep
  <2>1. ClientOnly
    BY <1>1, SlotEffects DEF ClientOnly
  <2> QED
    BY <1>1, <2>1, SlotEffects DEF ClientStep, Holding
<1>3. ASSUME NEW q \in Req, req[q].at # "idle", Using(q)' PROVE KeptSlot(q)
  <2>1. q # r
    BY <1>3
  <2>2. Taken(r)[q] = req[q] /\ GivenUp(r)[q] = req[q]
    BY <1>1, <2>1, SlotEffects
  <2> QED
    BY <1>3, <2>2 DEF KeptSlot
<1> QED
  BY <1>2, <1>3, SlotsStay DEF ServerActs

\* A request is sent in a slot nobody used.
LEMMA SentRequest ==
  ASSUME SessionInv, NEW r \in Req, req[r].at = "idle", NEW op \in Op, op # "none",
         NEW token \in Token \cup {None}, op \in {"refresh", "logout"} => token \in Token,
         req' = [req EXCEPT ![r] = Sent(op, token)], UNCHANGED <<row, failures>>
  PROVE  /\ ServerActs /\ ~Using(r) /\ \A q \in Req : req[q].at # "idle" => req'[q] = req[q]
         /\ req'[r].op = op /\ req'[r].waited /\ req'[r].at = "sent"
<1>1. req \in [Req -> Requests]
  BY DEF SessionInv, ServerInv, ServerTypeOK
<1>2. /\ req' \in [Req -> Requests] /\ req'[r] = Sent(op, token)
      /\ Sent(op, token).at = "sent" /\ Sent(op, token).op = op
      /\ Sent(op, token).token = token /\ Sent(op, token).waited
  BY <1>1, SendEffects
<1>3. ClientStep
  <2>1. ClientOnly
    BY <1>1, <1>2 DEF ClientOnly
  <2> QED
    BY <1>1, <1>2, <2>1 DEF ClientStep, Holding
<1>4. ~Using(r)
  BY DEF Using, SessionInv, AppInv, SlotsHeld, Owned, Exchanging
<1> QED
  BY <1>1, <1>2, <1>3, <1>4 DEF ServerActs

LEMMA StepsKeepSlots == SessionInv /\ [Next]_vars => ServerActs /\ SlotsHeld'
<1> SUFFICES ASSUME SessionInv, [Next]_vars PROVE ServerActs /\ SlotsHeld'
  OBVIOUS
<1> USE TasksDiffer
<1>0. AppTypeOK /\ TokensInHand /\ SlotsHeld /\ ServerInv /\ req \in [Req -> Requests]
  BY DEF SessionInv, AppInv, ServerInv, ServerTypeOK
<1>1. ASSUME UNCHANGED serverVars, NoNewUse PROVE ServerActs /\ SlotsHeld'
  <2>1. ClientStep
    BY <1>0, <1>1 DEF ClientStep, ClientOnly, serverVars
  <2>2. \A r \in Req : req[r].at # "idle" => KeptSlot(r)
    BY <1>1 DEF KeptSlot, serverVars
  <2> QED
    BY <1>1, <2>1, <2>2, SlotsStay DEF ServerActs
<1>2. CASE QuietStep
  BY <1>1, <1>2, QuietSteps
<1>3. ASSUME UNCHANGED <<pc, call, code, refresh>> PROVE NoNewUse
  BY <1>3 DEF NoNewUse
<1>4. CASE Server
  <2>1. ServerStep /\ UNCHANGED <<pc, call, code, refresh>>
    BY <1>4 DEF Server
  <2>2. \A r \in Req : req[r].at # "idle" => KeptSlot(r)
    BY <1>0, <2>1, ServerKeepsSlots DEF KeptSlot
  <2> QED
    BY <1>3, <2>1, <2>2, SlotsStay DEF ServerActs
<1>5. CASE TimePasses
  <2> PICK t \in Token : GracePasses(t) \/ TokenExpires(t)
    BY <1>5 DEF TimePasses
  <2>1. ServerActs /\ req' = req
    BY DEF ServerActs, GracePasses, TokenExpires
  <2>2. NoNewUse
    BY <1>5 DEF TimePasses, NoNewUse
  <2>3. \A r \in Req : req[r].at # "idle" => KeptSlot(r)
    BY <2>1 DEF KeptSlot
  <2> QED
    BY <2>1, <2>2, <2>3, SlotsStay
<1>6. CASE Restart
  <2>1. NoRequest \in Requests /\ NoRequest.at = "idle"
    BY DEF NoRequest, Requests, Phase, Op, Answer
  <2> DEFINE left(r) == [req[r] EXCEPT !.waited = FALSE]
  <2>2. \A r \in Req : /\ left(r) \in Requests /\ left(r).at = req[r].at /\ left(r).op = req[r].op
                       /\ left(r).token = req[r].token /\ left(r).sweep = req[r].sweep
    BY <1>0 DEF Requests
  <2>3. req' = [r \in Req |-> IF req[r].at \in {"idle", "answered"} THEN NoRequest ELSE left(r)]
    BY <1>6 DEF Restart
  <2> HIDE DEF left
  <2>4. ClientOnly
    <3>1. UNCHANGED <<row, failures>>
      BY <1>6 DEF Restart
    <3>2. req' \in [Req -> Requests]
      BY <2>1, <2>2, <2>3
    <3>3. \A r \in Req : req'[r].at = "idle" \/ req'[r] = left(r)
      BY <2>1, <2>3
    <3> QED
      BY <2>2, <3>1, <3>2, <3>3 DEF ClientOnly
  <2>8. ClientStep
    BY <1>6, <2>2, <2>3, <2>4 DEF ClientStep, Holding, Restart
  <2>5. /\ refresh'.at = "none" /\ \A p \in Task : call'[p].stage = "none" /\ pc'[p] \in {"start", "idle"}
    BY <1>6 DEF Restart, NoRefresh, NoCall
  <2>6. \A n \in Login : code'[n].state = "sent" => code'[n] = code[n]
    <3>1. \A n \in Login : [code[n] EXCEPT !.slot = None].state = code[n].state
      BY <1>0 DEF AppTypeOK, Codes
    <3> QED
      BY <1>6, <3>1 DEF Restart
  <2>7. SlotsHeld'
    BY <1>0, <2>2, <2>3, <2>5, <2>6 DEF SlotsHeld, Exchanging
  <2> QED
    BY <2>7, <2>8 DEF ServerActs
\* Answers taken and given up.
<1>7. CASE RefreshAnswer \/ RefreshLost
  <2>0. NoRefresh.at = "none" /\ [refresh EXCEPT !.at = "checking", !.req = None, !.seen = store,
                                    !.answer = req[refresh.req].answer].at = "checking"
    BY <1>0 DEF AppTypeOK, RefreshRecords, NoRefresh
  <2>1. /\ refresh.at = "waiting" /\ refresh'.at # "waiting"
        /\ UNCHANGED <<row, failures, pc, code>>
    BY <2>0, <1>7 DEF RefreshAnswer, RefreshLost
  <2> PICK r \in Req : r = refresh.req
    BY <1>0, <2>1 DEF SlotsHeld, Owned
  <2>2. (req' = Taken(r) /\ req[r].at = "answered") \/ req' = GivenUp(r)
    BY <1>7 DEF RefreshAnswer, RefreshLost
  <2>3. call' = call \/ call' = Resumed(TRUE) \/ call' = Resumed(FALSE)
    BY <1>7 DEF RefreshAnswer, RefreshLost
  <2>4. ASSUME NEW p \in Task
        PROVE  /\ call'[p].stage = "deleting" => call'[p] = call[p]
               /\ call[p].stage # "joining" => call'[p] = call[p]
    <3>1. CASE call' = Resumed(TRUE)
      BY <1>0, <3>1, CallFacts
    <3>2. CASE call' = Resumed(FALSE)
      BY <1>0, <3>2, CallFacts
    <3> QED
      BY <2>3, <3>1, <3>2
  <2>5. pc[Out] = "posted" => call[Out].stage = "none"
    BY <1>0 DEF TokensInHand
  <2>6. NoNewUse
    BY <2>1, <2>4, <2>5 DEF NoNewUse
  <2>7. ~Using(r)'
    BY <1>0, <2>1, <2>4, <2>5 DEF Using, SlotsHeld, Owned, Exchanging
  <2> QED
    BY <2>1, <2>2, <2>6, <2>7, FreedSlot
<1>8. ASSUME NEW p \in Task, ApiDeleted(p) \/ DeletionLost(p) PROVE ServerActs /\ SlotsHeld'
  <2>1. p = Out /\ pc[Out] = "delete" /\ call[p].stage = "deleting"
    BY <1>0, <1>8 DEF ApiDeleted, DeletionLost, TokensInHand
  <2> PICK r \in Req : r = call[p].token
    BY <1>0, <2>1 DEF SlotsHeld, Owned
  <2>2. /\ UNCHANGED <<row, failures, pc, code, refresh>>
        /\ (req' = Taken(r) /\ req[r].at = "answered") \/ req' = GivenUp(r)
    BY <1>8 DEF ApiDeleted, DeletionLost
  <2>3. \E result \in {"ok", "no", "threw"} : call' = [call EXCEPT ![p] = Result(result)]
    BY <1>8 DEF ApiDeleted, DeletionLost
  <2>4. call'[p].stage = "done" /\ \A q \in Task \ {p} : call'[q] = call[q]
    BY <1>0, <2>3, CallFacts DEF AppTypeOK
  <2>5. NoNewUse
    BY <2>1, <2>2, <2>4 DEF NoNewUse
  <2>6. ~Using(r)'
    BY <1>0, <2>1, <2>2, <2>4 DEF Using, SlotsHeld, Owned, Exchanging, TokensInHand
  <2> QED
    BY <2>2, <2>5, <2>6, FreedSlot
<1>9. CASE SignOutAnswered
  <2>1. pc[Out] = "posted" /\ pc' = [pc EXCEPT ![Out] = "clear"]
    BY <1>9 DEF SignOutAnswered, To
  <2> PICK r \in Req : r = call[Out].token
    BY <1>0, <2>1 DEF SlotsHeld, Owned
  <2>2. /\ UNCHANGED <<row, failures, call, code, refresh>>
        /\ (req' = Taken(r) /\ req[r].at = "answered") \/ req' = GivenUp(r)
    BY <1>9 DEF SignOutAnswered
  <2>3. NoNewUse
    BY <1>0, <2>1, <2>2 DEF NoNewUse, AppTypeOK
  <2>4. ~Using(r)'
    BY <1>0, <2>1, <2>2 DEF Using, SlotsHeld, Owned, Exchanging, AppTypeOK
  <2> QED
    BY <2>2, <2>3, <2>4, FreedSlot
<1>10. ASSUME NEW n \in Login, LoginAnswer(n) \/ LoginLost(n) PROVE ServerActs /\ SlotsHeld'
  <2>1. /\ pc[n] = "exchange" /\ pc'[n] # "exchange" /\ \A p \in Task \ {n} : pc'[p] = pc[p]
        /\ code' = [code EXCEPT ![n].slot = None]
    BY <1>0, <1>10 DEF LoginAnswer, LoginLost, To, AppTypeOK
  <2>2. /\ code'[n].state = code[n].state /\ code'[n].slot = None
        /\ \A m \in Login \ {n} : code'[m] = code[m]
    BY <1>0, <2>1 DEF AppTypeOK, Codes
  <2>3. code[n].state = "used"
    BY <1>0, <1>10, <2>1 DEF LoginAnswer, LoginLost, SlotsHeld
  <2> PICK r \in Req : r = code[n].slot
    BY <1>0, <2>1 DEF SlotsHeld, Owned
  <2>4. /\ UNCHANGED <<row, failures, call, refresh>>
        /\ (req' = Taken(r) /\ req[r].at = "answered") \/ req' = GivenUp(r)
    BY <1>10 DEF LoginAnswer, LoginLost
  <2>5. NoNewUse
    BY <2>1, <2>2, <2>3, <2>4 DEF NoNewUse
  <2>6. ~Using(r)'
    <3>1. \A m \in Login \ {n} : Exchanging(m) => code[m].slot # r
      BY <1>0, <2>1 DEF SlotsHeld, Exchanging
    <3>2. ~(refresh.at = "waiting" /\ refresh.req = r) /\ ~(pc[Out] = "posted" /\ call[Out].token = r)
          /\ \A p \in Task : ~(call[p].stage = "deleting" /\ call[p].token = r)
      BY <1>0, <2>1 DEF SlotsHeld, Owned
    <3>3. \A m \in Login : ~(Exchanging(m)' /\ code'[m].slot = r)
      BY <2>1, <2>2, <2>3, <3>1 DEF Exchanging
    <3> QED
      BY <2>1, <2>4, <3>2, <3>3 DEF Using
  <2> QED
    BY <2>4, <2>5, <2>6, FreedSlot
\* Requests sent.
<1>11. ASSUME NEW p \in Task, RefreshTokens(p) PROVE ServerActs /\ SlotsHeld'
  <2> DEFINE c == [call[p] EXCEPT !.stage = "joining", !.token = None]
             waiting == [NoRefresh EXCEPT !.at = "waiting", !.token = call[p].token,
                                          !.req = FreeSlot]
  <2>1. call[p] \in CallRecords /\ call[p].stage = "read" /\ call[p].token \in Token
    BY <1>0, <1>11 DEF RefreshTokens, AppTypeOK, TokensInHand
  <2>2. c.stage = "joining" /\ waiting.at = "waiting" /\ waiting.req = FreeSlot
    BY <2>1 DEF CallRecords, NoRefresh
  <2>3. UNCHANGED <<row, failures, pc, code>> /\ call' = [call EXCEPT ![p] = c]
    BY <1>11, Zenon DEF RefreshTokens
  <2>4. \/ UNCHANGED <<req, refresh>>
        \/ /\ refresh.at = "none" /\ Idle # {} /\ refresh' = waiting
           /\ req' = [req EXCEPT ![FreeSlot] = Sent("refresh", call[p].token)]
    BY <1>11, Zenon DEF RefreshTokens
  <2> HIDE DEF c, waiting
  <2>5. p = Out => pc[Out] # "posted"
    BY <1>0, <2>1 DEF TokensInHand
  <2>6. \A q \in Task : call'[q].stage = "deleting" => call'[q] = call[q]
    BY <1>0, <2>2, <2>3 DEF AppTypeOK
  <2>7. pc[Out] = "posted" => call'[Out] = call[Out]
    BY <1>0, <2>3, <2>5 DEF AppTypeOK
  <2>8. CASE UNCHANGED <<req, refresh>>
    BY <1>1, <2>3, <2>6, <2>7, <2>8 DEF NoNewUse, serverVars
  <2>9. CASE /\ refresh.at = "none" /\ Idle # {} /\ refresh' = waiting
             /\ req' = [req EXCEPT ![FreeSlot] = Sent("refresh", call[p].token)]
    <3> PICK r \in Req : r = FreeSlot /\ req[r].at = "idle"
      BY <2>9, FreeSlotIdle
    <3>1. /\ ServerActs /\ ~Using(r) /\ \A q \in Req : req[q].at # "idle" => req'[q] = req[q]
          /\ req'[r].op = "refresh" /\ req'[r].waited /\ req'[r].at = "sent"
      BY <2>1, <2>3, <2>9, SentRequest DEF Op
    <3>2. refresh'.req = r
      BY <2>2, <2>9
    <3> QED
      BY <1>0, <2>3, <2>6, <2>7, <3>1, <3>2 DEF SlotsHeld, Owned, Exchanging
  <2> QED
    BY <2>4, <2>8, <2>9
<1>12. ASSUME NEW p \in Task, ApiHandles(p) PROVE ServerActs /\ SlotsHeld'
  <2> DEFINE result == ApiResult(call[p])
             deleting == [call[p] EXCEPT !.stage = "deleting", !.token = FreeSlot]
             answered == [call[p] EXCEPT !.stage = "answered", !.bearer = "none", !.result = result]
  <2>0. call[p] \in CallRecords /\ call[p].stage = "sent"
    BY <1>0, <1>12 DEF ApiHandles, AppTypeOK
  <2>1. result \in {"401", "500", "ok"}
    BY DEF ApiResult
  <2> HIDE DEF result
  <2>2. /\ deleting.stage = "deleting" /\ deleting.token = FreeSlot
        /\ answered.stage = "answered" /\ Result(result).stage = "done"
    BY <2>0 DEF CallRecords, Result, NoCall
  <2>3. \/ /\ Idle # {} /\ call' = [call EXCEPT ![p] = deleting]
           /\ req' = [req EXCEPT ![FreeSlot] = Sent("delete", None)]
        \/ req' = req /\ call' = [call EXCEPT ![p] = Result(result)]
        \/ req' = req /\ call' = [call EXCEPT ![p] = answered]
    BY <1>12 DEF ApiHandles, result
  <2>4. UNCHANGED <<row, failures, refresh, pc, code>>
    BY <1>12 DEF ApiHandles
  <2> HIDE DEF deleting, answered
  <2>5. p = Out => pc[Out] # "posted"
    BY <1>0, <2>0 DEF TokensInHand
  <2>6. \A q \in Task \ {p} : call'[q] = call[q]
    BY <1>0, <2>3 DEF AppTypeOK
  <2>7. CASE req' = req /\ call'[p].stage # "deleting"
    BY <1>1, <2>4, <2>5, <2>6, <2>7 DEF NoNewUse, serverVars
  <2>8. CASE /\ Idle # {} /\ call' = [call EXCEPT ![p] = deleting]
             /\ req' = [req EXCEPT ![FreeSlot] = Sent("delete", None)]
    <3> PICK r \in Req : r = FreeSlot /\ req[r].at = "idle"
      BY <2>8, FreeSlotIdle
    <3>1. /\ ServerActs /\ ~Using(r) /\ \A q \in Req : req[q].at # "idle" => req'[q] = req[q]
          /\ req'[r].op = "delete" /\ req'[r].waited /\ req'[r].at = "sent"
      BY <2>4, <2>8, SentRequest DEF Op
    <3>2. call'[p].token = r
      BY <1>0, <2>2, <2>8 DEF AppTypeOK
    <3> QED
      BY <1>0, <2>4, <2>5, <2>6, <3>1, <3>2 DEF SlotsHeld, Owned, Exchanging
  <2> QED
    BY <1>0, <2>2, <2>3, <2>7, <2>8 DEF AppTypeOK
<1>13. ASSUME NEW n \in Login, DeepLink(n) PROVE ServerActs /\ SlotsHeld'
  <2> DEFINE sent == [state |-> "sent", slot |-> FreeSlot, verifier |-> verifier]
             ignored == [code[n] EXCEPT !.state = "ignored"]
  <2>1. /\ pc[n] = "idle" /\ UNCHANGED <<row, failures, call, refresh>>
        /\ \/ code' = [code EXCEPT ![n] = ignored] /\ UNCHANGED <<req, pc>>
           \/ /\ Idle # {} /\ req' = [req EXCEPT ![FreeSlot] = Sent("exchange", None)]
              /\ code' = [code EXCEPT ![n] = sent] /\ pc' = [pc EXCEPT ![n] = "exchange"]
    BY <1>13 DEF DeepLink, To
  <2>2. ignored.state = "ignored" /\ sent.state = "sent" /\ sent.slot = FreeSlot
    BY <1>0 DEF AppTypeOK, Codes
  <2> HIDE DEF sent, ignored
  <2>3. CASE code' = [code EXCEPT ![n] = ignored] /\ UNCHANGED <<req, pc>>
    <3>1. NoNewUse
      BY <1>0, <2>1, <2>2, <2>3 DEF NoNewUse, AppTypeOK
    <3> QED
      BY <1>1, <2>1, <2>3, <3>1 DEF serverVars
  <2>4. CASE /\ Idle # {} /\ req' = [req EXCEPT ![FreeSlot] = Sent("exchange", None)]
             /\ code' = [code EXCEPT ![n] = sent] /\ pc' = [pc EXCEPT ![n] = "exchange"]
    <3> PICK r \in Req : r = FreeSlot /\ req[r].at = "idle"
      BY <2>4, FreeSlotIdle
    <3>1. /\ ServerActs /\ ~Using(r) /\ \A q \in Req : req[q].at # "idle" => req'[q] = req[q]
          /\ req'[r].op = "exchange" /\ req'[r].waited /\ req'[r].at = "sent"
      BY <2>1, <2>4, SentRequest DEF Op
    <3>2. /\ code'[n].state = "sent" /\ code'[n].slot = r /\ pc'[n] = "exchange"
          /\ pc'[Out] = pc[Out]
          /\ \A m \in Login \ {n} : code'[m] = code[m] /\ pc'[m] = pc[m]
      BY <1>0, <2>2, <2>4 DEF AppTypeOK
    <3>3. /\ refresh'.at = "waiting" => Owned(refresh.req, {"refresh"})'
          /\ \A p \in Task : call'[p].stage = "deleting" => Owned(call[p].token, {"delete"})'
          /\ pc'[Out] = "posted" => Owned(call[Out].token, {"logout"})'
      BY <1>0, <2>1, <3>1, <3>2 DEF SlotsHeld, Owned
    <3>4. \A m \in Login \ {n} : Exchanging(m)' => Exchanging(m) /\ code'[m].slot # r
      BY <3>1, <3>2 DEF Using, Exchanging
    <3> QED
      BY <1>0, <3>1, <3>2, <3>3, <3>4 DEF SlotsHeld, Owned, Exchanging
  <2> QED
    BY <2>1, <2>3, <2>4
<1>14. CASE SignOutPosts
  <2> DEFINE c == [call[Out] EXCEPT !.token = FreeSlot]
  <2>1. /\ pc[Out] = "logout" /\ Idle # {} /\ UNCHANGED <<row, failures, code, refresh>>
        /\ req' = [req EXCEPT ![FreeSlot] = Sent("logout", call[Out].token)]
        /\ call' = [call EXCEPT ![Out] = c] /\ pc' = [pc EXCEPT ![Out] = "posted"]
    BY <1>14 DEF SignOutPosts, To
  <2>2. call[Out] \in CallRecords /\ call[Out].stage = "none" /\ call[Out].token \in Token
    BY <1>0, <2>1 DEF AppTypeOK, TokensInHand
  <2>3. c.stage = "none" /\ c.token = FreeSlot
    BY <2>2 DEF CallRecords
  <2> HIDE DEF c
  <2> PICK r \in Req : r = FreeSlot /\ req[r].at = "idle"
    BY <2>1, FreeSlotIdle
  <2>4. /\ ServerActs /\ ~Using(r) /\ \A q \in Req : req[q].at # "idle" => req'[q] = req[q]
        /\ req'[r].op = "logout" /\ req'[r].waited /\ req'[r].at = "sent"
    BY <2>1, <2>2, SentRequest DEF Op
  <2>5. /\ call'[Out].stage = "none" /\ call'[Out].token = r
        /\ \A q \in Task \ {Out} : call'[q] = call[q] /\ pc'[q] = pc[q]
        /\ pc'[Out] = "posted"
    BY <1>0, <2>1, <2>3 DEF AppTypeOK
  <2> QED
    BY <1>0, <2>1, <2>4, <2>5 DEF SlotsHeld, Owned, Exchanging
\* The code of a login is spent.
<1>15. ASSUME NEW n \in Login, CodeConsumed(n) PROVE ServerActs /\ SlotsHeld'
  <2> DEFINE c == [code[n] EXCEPT !.state = "used", !.verifier = None]
  <2>1. /\ code[n].state = "sent" /\ code' = [code EXCEPT ![n] = c]
        /\ UNCHANGED <<row, failures, call, pc, refresh>>
    BY <1>15 DEF CodeConsumed
  <2>2. c.state = "used" /\ c.slot = code[n].slot
    BY <1>0 DEF AppTypeOK, Codes
  <2> HIDE DEF c
  <2> PICK r \in Req : r = code[n].slot /\ req[r].at = "sent" /\ req[r].op = "exchange"
    BY <1>0, <2>1 DEF SlotsHeld
  <2>3. /\ code'[n].state = "used" /\ code'[n].slot = r
        /\ \A m \in Login \ {n} : code'[m] = code[m]
    BY <1>0, <2>1, <2>2 DEF AppTypeOK
  <2>4. \/ req' = [req EXCEPT ![r].op = "login"]
        \/ Answered(r, "invalid", None)
    BY <1>15 DEF CodeConsumed
  <2>5. /\ req' \in [Req -> Requests] /\ \A q \in Req \ {r} : req'[q] = req[q]
        /\ req[r].waited => req'[r].waited /\ req'[r].at # "idle"
                            /\ req'[r].op \in {"login", "exchange"}
                            /\ (req'[r].op = "login" \/ req'[r].at = "answered")
        /\ req'[r].at \in {"idle", "answered"} \/ (req'[r].at = "sent" /\ req'[r].op = "login")
    <3>1. CASE req' = [req EXCEPT ![r].op = "login"]
      <4> DEFINE new == [req[r] EXCEPT !.op = "login"]
      <4>1. /\ new \in Requests /\ new.at = "sent" /\ new.op = "login"
            /\ new.waited = req[r].waited
        BY <1>0 DEF Requests, Op
      <4>2. req' = [req EXCEPT ![r] = new]
        BY <3>1
      <4> HIDE DEF new
      <4> QED
        BY <1>0, <4>1, <4>2
    <3>2. CASE Answered(r, "invalid", None)
      BY <1>0, <3>2, AnsweredEffect DEF ServerInv, Answer
    <3> QED
      BY <2>4, <3>1, <3>2
  <2>6. ServerActs
    BY <1>0, <2>1, <2>5 DEF ServerActs, ClientStep, ClientOnly, Holding
  <2>7. \A m \in Login \ {n} : Exchanging(m) => code[m].slot # r
    BY <1>0, <2>1 DEF SlotsHeld, Exchanging
  <2>8. /\ refresh'.at = "waiting" => Owned(refresh.req, {"refresh"})'
        /\ \A p \in Task : call'[p].stage = "deleting" => Owned(call[p].token, {"delete"})'
        /\ pc'[Out] = "posted" => Owned(call[Out].token, {"logout"})'
    BY <1>0, <2>1, <2>5 DEF SlotsHeld, Owned
  <2>9. \A m \in Login : Exchanging(m)' => Exchanging(m) /\ code'[m].slot = code[m].slot
    BY <2>1, <2>3 DEF Exchanging
  <2>10. \A m \in Login : pc'[m] = "exchange" =>
           /\ code'[m].state \in {"sent", "used"} /\ Owned(code[m].slot, {"exchange", "login"})'
           /\ code'[m].state = "used" =>
                req'[code'[m].slot].op = "login" \/ req'[code'[m].slot].at = "answered"
    BY <1>0, <2>1, <2>3, <2>5, <2>7 DEF SlotsHeld, Owned, Exchanging
  <2>11. \A m \in Login : code'[m].state = "sent" =>
           /\ code'[m].slot \in Req
           /\ req'[code'[m].slot].at = "sent" /\ req'[code'[m].slot].op = "exchange"
    BY <1>0, <2>1, <2>3, <2>5, <2>7 DEF SlotsHeld, Exchanging
  <2>12. \A k, m \in Login : Exchanging(k)' /\ Exchanging(m)' /\ code'[k].slot = code'[m].slot
                            => k = m
    BY <1>0, <2>9 DEF SlotsHeld
  <2> QED
    BY <2>6, <2>8, <2>10, <2>11, <2>12 DEF SlotsHeld
<1> QED
  BY <1>2, <1>4, <1>5, <1>6, <1>7, <1>8, <1>9, <1>10, <1>11, <1>12, <1>13, <1>14, <1>15
  DEF Next, QuietStep

-----------------------------------------------------------------------------
(* The theorems.                                                           *)

LEMMA ActsKeepServer == ServerInv /\ ServerActs => ServerInv'
  BY ClientKeepsServer, ServerKeepsServer, TimeKeepsServer DEF ServerActs, ClientStep

LEMMA SessionInvHolds == Spec => []SessionInv
<1>1. SessionInv /\ [Next]_vars => SessionInv'
  BY AppKept, TokensKept, StepsKeepSlots, ActsKeepServer DEF SessionInv, AppInv
<1> QED
  BY <1>1, InitHolds, PTL DEF Spec

Counting == failures \in Nat
LEMMA FailuresGrow == SessionInv /\ [Next]_vars => failures' = failures \/ failures' = failures + 1
<1>1. ServerStep => failures' = failures \/ failures' = failures + 1
  BY DEF ServerStep, RequestStep, RefreshRefused, RefreshDetectsReuse, RefreshLocks, RotationCommits, LogoutLocks,
         FamilySnapshot, FamilyRevoked, SessionInserted, DeleteStarts, DeleteCommits, RolledBack
<1>2. ServerActs => failures' = failures \/ failures' = failures + 1
  BY <1>1 DEF ServerActs, ClientStep, GracePasses, TokenExpires
<1> QED
  BY <1>2, StepsKeepSlots

LEMMA FailuresCounted == Spec => []Counting
<1>1. Init => Counting
  BY DEF Init, TokensInit, SignedInBefore, Counting
<1>2. SessionInv /\ Counting /\ [Next]_vars => Counting'
  BY FailuresGrow DEF Counting
<1> QED
  BY <1>1, <1>2, SessionInvHolds, PTL DEF Spec

\* The variables of the server and the app keep their types, and a rotation
\* the app waits for is one (TypeOK).
THEOREM SessionTypes == Spec => []TypeOK
<1>1. SessionInv => TypeOK
  BY DEF SessionInv, ServerInv, ServerTypeOK, Rows, Requests, AppInv, AppTypeOK, TokensInHand,
         SlotsHeld, Owned, TypeOK
<1> QED
  BY <1>1, SessionInvHolds, PTL

\* However requests, rollbacks and lost answers interleave, a family has at
\* most one token that is not revoked (OneLivePerFamily).
THEOREM FamiliesHaveOneToken == Spec => []OneLivePerFamily
<1>1. SessionInv => OneLivePerFamily
  BY DEF SessionInv, ServerInv, OneLive, OneLivePerFamily
<1> QED
  BY <1>1, SessionInvHolds, PTL

\* Only its own end moves a revocation that waits for the family's rows.
LEMMA SweepEnds ==
  ASSUME ServerInv, ServerActs, NEW r \in Req, req[r].at = "sweeping",
         req'[r].at \in {"answered", "idle"}
  PROVE  FamilyRevoked(r) \/ RolledBack(r)
<1>1. ~ClientStep /\ \A t \in Token : ~GracePasses(t) /\ ~TokenExpires(t)
  BY DEF ClientStep, Holding, GracePasses, TokenExpires
<1>2. ASSUME NEW q \in Req, req[q].at # "sweeping",
             \/ \E phase \in Phase : Enters(q, phase)
             \/ \E answer \in Answer, fresh \in Token \cup {None} : Answered(q, answer, fresh)
      PROVE  FALSE
  BY <1>2, EntersEffect, AnsweredEffect DEF ServerInv
<1>3. ASSUME NEW q \in Req, RefreshRefused(q) \/ LogoutLocks(q) \/ DeleteCommits(q) PROVE FALSE
  BY <1>2, <1>3 DEF RefreshRefused, LogoutLocks, DeleteCommits, Answer, Phase, Holding
<1>4. ASSUME NEW q \in Req, RefreshDetectsReuse(q) \/ RefreshLocks(q) \/ DeleteStarts(q)
      PROVE  FALSE
  BY <1>2, <1>4 DEF RefreshDetectsReuse, RefreshLocks, DeleteStarts, Phase, Holding
<1>5. ASSUME NEW q \in Req, RotationCommits(q) \/ SessionInserted(q) PROVE FALSE
  BY <1>2, <1>5, NextTokenUnused DEF RotationCommits, SessionInserted, Answer, Unused
<1>6. ASSUME NEW q \in Req, FamilySnapshot(q) PROVE FALSE
  <2>1. q # r /\ req'[r] = req[r]
    BY <1>6 DEF FamilySnapshot, ServerInv, ServerTypeOK
  <2> QED
    BY <2>1
<1>7. ASSUME NEW q \in Req, FamilyRevoked(q) \/ RolledBack(q) PROVE q = r
  <2>1. \E answer \in Answer : Answered(q, answer, None)
    BY <1>7 DEF FamilyRevoked, RolledBack, Answer
  <2> QED
    BY <2>1, AnsweredEffect DEF ServerInv
<1> QED
  BY <1>1, <1>3, <1>4, <1>5, <1>6, <1>7 DEF ServerActs, ServerStep, RequestStep

\* A logout that is not rolled back leaves no live successor of its token
\* (LogoutTakesSuccessor).
THEOREM LogoutsTakeSuccessors == Spec => LogoutTakesSuccessor
<1> DEFINE Takes(r) ==
      req[r].op = "logout" /\ req[r].at = "sweeping" /\ req'[r].at \in {"answered", "idle"}
        /\ failures' = failures
      => \A t \in Token : row'[t].from = req[r].token => row'[t].state # "live"
<1>1. ASSUME SessionInv, ServerActs, Counting, NEW r \in Req PROVE Takes(r)
  <2> SUFFICES ASSUME req[r].at = "sweeping", req'[r].at \in {"answered", "idle"},
                      failures' = failures, NEW t \in Token, row'[t].from = req[r].token
               PROVE  row'[t].state # "live"
    OBVIOUS
  <2>1. ServerInv
    BY <1>1 DEF SessionInv
  <2>2. FamilyRevoked(r)
    <3>1. FamilyRevoked(r) \/ RolledBack(r)
      BY <1>1, <2>1, SweepEnds
    <3>2. ~RolledBack(r)
      BY <1>1 DEF RolledBack, Deadlocked, Counting
    <3> QED
      BY <3>1, <3>2
  <2> DEFINE new == [row[t] EXCEPT !.state = "grace"]
  <2>3. new.state = "grace" /\ new.from = row[t].from
    BY <2>1 DEF ServerInv, ServerTypeOK, Rows
  <2>4. row'[t] = IF t \in req[r].sweep /\ row[t].state \in Unrevoked THEN new ELSE row[t]
    BY <2>2 DEF FamilyRevoked
  <2> HIDE DEF new
  <2> QED
    BY <2>1, <2>3, <2>4 DEF ServerInv, SweepSeesSuccessors, Unrevoked
<1>2. SessionInv /\ Counting /\ [Next]_vars => [\A r \in Req : Takes(r)]_serverVars
  BY <1>1, StepsKeepSlots
<1>3. [](SessionInv /\ Counting) /\ [][Next]_vars => [][\A r \in Req : Takes(r)]_serverVars
  BY <1>2, PTL
<1> QED
  BY <1>3, SessionInvHolds, FailuresCounted, PTL DEF Spec, LogoutTakesSuccessor

\* What keeps a family closed: its rows stay in it and revoked, no row joins
\* it, and no rotation starts from it.
LEMMA StaysClosed ==
  ASSUME ServerInv, NEW t \in Token, Ended(t), ~RotatingIn(t),
         row' \in [Token -> Rows], req' \in [Req -> Requests],
         \A u \in Token :
           /\ row[u].family # None => row'[u].family = row[u].family
           /\ row[u].family = None => row'[u].family # row[t].family
           /\ row[u].state \notin Unrevoked \cup {"unused"} => row'[u].state \notin Unrevoked,
         \A r \in Req : req'[r].at = "rotating" =>
           /\ req'[r].token = req[r].token
           /\ req[r].at = "rotating" \/ row[req[r].token].state = "live"
  PROVE  Ended(t)' /\ ~RotatingIn(t)'
<1> USE DEF ServerInv, Ended, RotatingIn
<1>1. row[t].family # None /\ row'[t].family = row[t].family
  OBVIOUS
<1>2. \A u \in Token : row'[u].family = row'[t].family <=> row[u].family = row[t].family
  BY <1>1
<1>3. Family(t)' = Family(t)
  BY <1>2 DEF Family
<1>4. \A u \in Family(t) : row[u].state \notin Unrevoked \cup {"unused"}
  BY <1>1 DEF Family, RowsInFamilies
<1>5. Ended(t)'
  BY <1>1, <1>3, <1>4 DEF Family
<1>6. ASSUME NEW r \in Req, req'[r].at = "rotating" PROVE req'[r].token \notin Family(t)
  BY <1>4, <1>6 DEF Unrevoked
<1> QED
  BY <1>3, <1>5, <1>6

LEMMA ActsKeepClosed ==
  ASSUME ServerInv, ServerActs, NEW t \in Token, Ended(t), ~RotatingIn(t)
  PROVE  Ended(t)' /\ ~RotatingIn(t)'
<1> DEFINE Closed == Ended(t)' /\ ~RotatingIn(t)'
<1>0. /\ row \in [Token -> Rows] /\ req \in [Req -> Requests] /\ row[t].family # None
      /\ ServerTypeOK /\ ServerInv'
      /\ row' \in [Token -> Rows] /\ req' \in [Req -> Requests]
  BY ActsKeepServer DEF ServerInv, ServerTypeOK, Ended
<1> DEFINE Rests == \A r \in Req : req'[r].at = "rotating" =>
                      /\ req'[r].token = req[r].token
                      /\ req[r].at = "rotating" \/ row[req[r].token].state = "live"
<1>1. ASSUME NEW q \in Req, NEW answer \in Answer, NEW fresh \in Token \cup {None},
             Answered(q, answer, fresh)
      PROVE  Rests
  BY <1>0, <1>1, AnsweredEffect
<1>2. ASSUME UNCHANGED row, Rests PROVE Closed
  BY <1>0, <1>2, StaysClosed
<1>3. CASE ClientStep
  BY <1>2, <1>3 DEF ClientStep, ClientOnly, Holding
<1>4. ASSUME NEW q \in Req, RefreshRefused(q) \/ LogoutLocks(q) PROVE Closed
  <2>1. UNCHANGED row
    BY <1>4 DEF RefreshRefused, LogoutLocks
  <2>2. \/ \E answer \in Answer : Answered(q, answer, None)
        \/ Enters(q, "revoking")
    BY <1>4 DEF RefreshRefused, LogoutLocks, Answer
  <2>3. CASE Enters(q, "revoking")
    BY <1>0, <1>2, <2>1, <2>3, EntersEffect DEF Phase, Holding
  <2> QED
    BY <1>1, <1>2, <2>1, <2>2, <2>3
<1>5. ASSUME NEW q \in Req, RefreshDetectsReuse(q) \/ DeleteStarts(q) PROVE Closed
  <2>1. UNCHANGED row /\ (Enters(q, "revoking") \/ Enters(q, "deleting"))
    BY <1>5 DEF RefreshDetectsReuse, DeleteStarts
  <2> QED
    BY <1>0, <1>2, <2>1, EntersEffect DEF Phase, Holding
<1>6. ASSUME NEW q \in Req, RefreshLocks(q) PROVE Closed
  <2>1. UNCHANGED row /\ Enters(q, "rotating") /\ row[req[q].token].state = "live"
    BY <1>6 DEF RefreshLocks, Live
  <2> QED
    BY <1>0, <1>2, <2>1, EntersEffect DEF Phase, Holding
<1>7. ASSUME NEW q \in Req, FamilySnapshot(q) PROVE Closed
  <2>1. UNCHANGED row /\ req'[q].at = "sweeping" /\ \A r \in Req \ {q} : req'[r] = req[r]
    BY <1>0, <1>7 DEF FamilySnapshot, Requests
  <2> QED
    BY <1>2, <2>1
<1>8. ASSUME NEW q \in Req, RolledBack(q) PROVE Closed
  BY <1>1, <1>2, <1>8 DEF RolledBack, Answer
<1>9. ASSUME NEW q \in Req, RotationCommits(q) PROVE Closed
  <2> DEFINE old == req[q].token
             new == NextToken
             spent == [row[old] EXCEPT !.state = "grace"]
             fresh == Inserted(new, row[old].family, old)
  <2>1. old \in Token /\ new \in Token /\ row[new].state = "unused" /\ row[new].family = None
    BY <1>9, NextTokenUnused DEF RotationCommits, ServerInv, Locks, RowsInFamilies, Holding, Unused
  <2>2. row[old].family # row[t].family
    BY <1>9, <2>1 DEF RotationCommits, RotatingIn, Family
  <2>3. fresh.family = row[old].family /\ spent.family = row[old].family /\ spent.state = "grace"
    BY <1>0, <2>1 DEF Inserted, Rows
  <2>4. row' = [row EXCEPT ![old] = spent, ![new] = fresh] /\ Answered(q, "ok", new)
    BY <1>9 DEF RotationCommits
  <2> HIDE DEF old, new, spent, fresh
  <2>5. Rests
    BY <1>1, <2>1, <2>4 DEF Answer
  <2>6. old # new
    BY <1>9, <2>1 DEF RotationCommits, ServerInv, RotatesLive, old
  <2> QED
    BY <1>0, <2>1, <2>2, <2>3, <2>4, <2>5, <2>6, StaysClosed DEF Unrevoked
<1>10. ASSUME NEW q \in Req, SessionInserted(q) PROVE Closed
  <2> DEFINE new == NextToken
             fresh == Inserted(new, new, None)
  <2>1. new \in Token /\ row[new].state = "unused" /\ row[new].family = None
    BY <1>10, NextTokenUnused DEF SessionInserted, ServerInv, RowsInFamilies, Unused
  <2>2. fresh.family = new
    BY DEF Inserted
  <2>3. row' = [row EXCEPT ![new] = fresh] /\ Answered(q, "ok", new)
    BY <1>10 DEF SessionInserted
  <2>4. row[t].family # new
    BY <1>0, <2>1 DEF ServerInv, RowsInFamilies
  <2> HIDE DEF new, fresh
  <2>5. Rests
    BY <1>1, <2>1, <2>3 DEF Answer
  <2> QED
    BY <1>0, <2>1, <2>2, <2>3, <2>4, <2>5, StaysClosed
\* Steps that only take tokens away.
<1>11. ASSUME Rests,
              \A u \in Token : /\ row'[u].family = row[u].family
                               /\ row'[u].state \in Unrevoked => row[u].state \in Unrevoked
       PROVE  Closed
  BY <1>0, <1>11, StaysClosed
<1>12. ASSUME NEW q \in Req, FamilyRevoked(q) \/ DeleteCommits(q) PROVE Closed
  <2>1. \E answer \in Answer : Answered(q, answer, None)
    BY <1>12 DEF FamilyRevoked, DeleteCommits, Answer
  <2>2. ASSUME NEW u \in Token
        PROVE  /\ row'[u].family = row[u].family
               /\ row'[u].state \in Unrevoked => row[u].state \in Unrevoked
    <3>1. \/ row'[u] = row[u]
          \/ row'[u] = [row[u] EXCEPT !.state = "grace"]
          \/ row'[u] = [row[u] EXCEPT !.state = "deleted"]
      BY <1>12 DEF FamilyRevoked, DeleteCommits
    <3>2. /\ [row[u] EXCEPT !.state = "grace"].family = row[u].family
          /\ [row[u] EXCEPT !.state = "grace"].state = "grace"
          /\ [row[u] EXCEPT !.state = "deleted"].family = row[u].family
          /\ [row[u] EXCEPT !.state = "deleted"].state = "deleted"
      BY <1>0 DEF Rows
    <3> QED
      BY <3>1, <3>2 DEF Unrevoked
  <2> QED
    BY <1>1, <1>11, <2>1, <2>2
<1>13. ASSUME NEW u \in Token, GracePasses(u) \/ TokenExpires(u) PROVE Closed
  <2>1. /\ req' = req /\ row[u].state \in {"grace", "live"}
        /\ \/ row' = [row EXCEPT ![u] = [row[u] EXCEPT !.state = "revoked"]]
           \/ row' = [row EXCEPT ![u] = [row[u] EXCEPT !.state = "expired"]] /\ row[u].state = "live"
    BY <1>13 DEF GracePasses, TokenExpires, Live
  <2>2. /\ [row[u] EXCEPT !.state = "revoked"].family = row[u].family
        /\ [row[u] EXCEPT !.state = "revoked"].state = "revoked"
        /\ [row[u] EXCEPT !.state = "expired"].family = row[u].family
    BY <1>0 DEF Rows
  <2> QED
    BY <1>0, <1>11, <2>1, <2>2 DEF Unrevoked
<1> QED
  BY <1>3, <1>4, <1>5, <1>6, <1>7, <1>8, <1>9, <1>10, <1>12, <1>13 DEF ServerActs, ServerStep, RequestStep

\* A family that was ended stays ended, and no rotation starts from it
\* (EndedFamilyStaysEnded).
THEOREM EndedFamiliesStayEnded == Spec => EndedFamilyStaysEnded
<1> DEFINE Stays(t) == Ended(t) /\ ~RotatingIn(t) => Ended(t)' /\ ~RotatingIn(t)'
<1>1. SessionInv /\ [Next]_vars => [\A t \in Token : Stays(t)]_serverVars
  BY StepsKeepSlots, ActsKeepClosed DEF SessionInv
<1>2. []SessionInv /\ [][Next]_vars => [][\A t \in Token : Stays(t)]_serverVars
  BY <1>1, PTL
<1> QED
  BY <1>2, SessionInvHolds, PTL DEF Spec, EndedFamilyStaysEnded

-----------------------------------------------------------------------------
(* The last sign-out.                                                      *)

HistoryTypeOK ==
  /\ out \in [done : BOOLEAN, calm : BOOLEAN, clean : BOOLEAN]
  /\ count \in [{"logins", "stale", "outs", "lost", "time"} -> Nat]

LEMMA NoOutFacts ==
  /\ NoOut \in [done : BOOLEAN, calm : BOOLEAN, clean : BOOLEAN]
  /\ NoOut.done = FALSE /\ NoOut.calm = FALSE /\ NoOut.clean = FALSE
  BY DEF NoOut

LEMMA CountSteps ==
  [Next]_vars => count' = count \/ \E what \in {"logins", "stale", "outs", "lost", "time"} : Counted(what)
  BY DEF Next, vars, appVars, Server, TimePasses, AccessRunsOut, Restart, RefreshAnswer, RefreshRejected,
     RefreshLost, RefreshTokens, ApiHandles, ApiDeleted, DeletionLost, CallAnswer, CallRetries, CallLost, MeAnswer,
     PushEnds, BootReads, BootRestored, PushRegisters, StartLogin, DeepLink, CodeConsumed,
     LoginAnswer, LoginLost, LoginApplies, SignOut, OutStarts, SignOutReads, SignOutPosts,
     SignOutAnswered, SignOutClears, RemoveAccount, RemoveAnswered, Removed

LEMMA HistoryTyped == SessionInv /\ HistoryTypeOK /\ [Next]_vars => HistoryTypeOK'
<1> SUFFICES ASSUME SessionInv, HistoryTypeOK, [Next]_vars PROVE HistoryTypeOK'
  OBVIOUS
<1>1. count' = count \/ \E what \in {"logins", "stale", "outs", "lost", "time"} : Counted(what)
  BY CountSteps
<1>2. count' \in [{"logins", "stale", "outs", "lost", "time"} -> Nat]
  BY <1>1 DEF HistoryTypeOK, Counted
<1>3. \/ out' = out \/ out' = NoOut
      \/ \E b \in BOOLEAN : out' = [NoOut EXCEPT !.clean = b]
      \/ \E b \in BOOLEAN : out' = [out EXCEPT !.done = TRUE, !.calm = b]
  <2>1. CASE SignOut
    <3> DEFINE b == access = "good" /\ ~StartUnderWay /\ count.lost = 0
    <3>1. b \in BOOLEAN /\ out' = [NoOut EXCEPT !.clean = b]
      BY <2>1 DEF SignOut
    <3> HIDE DEF b
    <3> QED
      BY <3>1
  <2>2. CASE SignOutClears
    <3>1. NoRotationUnderWay \in BOOLEAN
      BY DEF NoRotationUnderWay
    <3> QED
      BY <2>2, <3>1 DEF SignOutClears
  <2>3. CASE ~SignOut /\ ~SignOutClears
    BY <2>3 DEF Next, vars, appVars, Server, TimePasses, AccessRunsOut, Restart, RefreshAnswer,
       RefreshRejected, RefreshLost, RefreshTokens, ApiHandles, ApiDeleted, DeletionLost, CallAnswer, CallRetries,
       CallLost, MeAnswer, PushEnds, BootReads, BootRestored, PushRegisters, StartLogin, DeepLink,
       CodeConsumed, LoginAnswer, LoginLost, LoginApplies, SignOutReads, SignOutPosts,
       SignOutAnswered, RemoveAccount, RemoveAnswered, Removed
  <2> QED
    BY <2>1, <2>2, <2>3
<1>4. out' \in [done : BOOLEAN, calm : BOOLEAN, clean : BOOLEAN]
  BY <1>3, NoOutFacts DEF HistoryTypeOK
<1> QED
  BY <1>2, <1>4 DEF HistoryTypeOK

\* The fields of the records that calls pass through.
LEMMA CallValues ==
  ASSUME AppTypeOK
  PROVE  /\ NoCall.stage = "none" /\ NoCall.what = "none" /\ NoCall.again = FALSE
         /\ \A result \in {"ok", "401", "500", "no", "threw"} :
              /\ Result(result).stage = "done" /\ Result(result).what = "none"
              /\ Result(result).result = result /\ Result(result).again = FALSE
         /\ \A what \in {"none", "restore", "me", "put", "del", "delete"} :
              /\ Calls(what).stage = "sent" /\ Calls(what).what = what
              /\ Calls(what).bearer = access /\ Calls(what).again = FALSE
  BY DEF NoCall, Result, Calls

LEMMA ResumedValues ==
  ASSUME AppTypeOK, NEW ok \in BOOLEAN, NEW p \in Task
  PROVE  /\ call[p].stage # "joining" => Resumed(ok)[p] = call[p]
         /\ call[p].stage = "joining" /\ ok
              => /\ Resumed(ok)[p].stage = "resumed" /\ Resumed(ok)[p].what = call[p].what
                 /\ Resumed(ok)[p].again = FALSE
         /\ call[p].stage = "joining" /\ ~ok
              => /\ Resumed(ok)[p].stage = "done" /\ Resumed(ok)[p].what = "none"
                 /\ Resumed(ok)[p].result = "no" /\ Resumed(ok)[p].again = FALSE
<1> DEFINE resumed == [NoCall EXCEPT !.stage = "resumed", !.what = call[p].what]
<1>1. resumed.stage = "resumed" /\ resumed.what = call[p].what /\ resumed.again = FALSE
  BY DEF NoCall
<1>2. Resumed(ok)[p] = IF call[p].stage # "joining" THEN call[p]
                       ELSE IF ok THEN resumed ELSE Result("no")
  BY DEF Resumed
<1> HIDE DEF resumed
<1> QED
  BY <1>1, <1>2, CallValues


\* A call that cannot end well: it went out without an access token.
Dull(c) ==
  /\ c.stage = "sent" => c.bearer # "good"
  /\ c.stage = "answered" => c.result = "401"
  /\ c.stage = "done" => c.result # "ok"

\* What a calm sign-out leaves: no session, nothing that could bring one back,
\* and no call that could still show the user.
NothingReturns ==
  out.done /\ out.calm =>
    /\ store = None /\ access = "none" /\ status # "authenticated"
    /\ refresh.at = "none" /\ \A p \in Task : call[p].stage # "read"
    /\ \A p \in Task : latest = p /\ pc[p] = "me" => Dull(call[p])

LEMMA NothingReturnsKept ==
  ASSUME SessionInv, HistoryTypeOK, NothingReturns, [Next]_vars PROVE NothingReturns'
<1> SUFFICES ASSUME out'.done, out'.calm
             PROVE  /\ store' = None /\ access' = "none" /\ status' # "authenticated"
                    /\ refresh'.at = "none" /\ \A p \in Task : call'[p].stage # "read"
                    /\ \A p \in Task : latest' = p /\ pc'[p] = "me" => Dull(call'[p])
  BY DEF NothingReturns
<1> DEFINE Gone == /\ store' = None /\ access' = "none" /\ status' # "authenticated"
                   /\ refresh'.at = "none" /\ \A p \in Task : call'[p].stage # "read"
                   /\ \A p \in Task : latest' = p /\ pc'[p] = "me" => Dull(call'[p])
<1> USE TasksDiffer DEF SessionInv, AppInv
<1>0. /\ call \in [Task -> CallRecords] /\ pc \in [Task -> Wheres] /\ AppTypeOK
      /\ out \in [done : BOOLEAN, calm : BOOLEAN, clean : BOOLEAN]
  BY DEF AppTypeOK, HistoryTypeOK
\* Before any other step than the one that clears, all this holds.
<1>1. ASSUME UNCHANGED out
      PROVE  /\ store = None /\ access = "none" /\ status # "authenticated"
             /\ refresh.at = "none" /\ \A p \in Task : call[p].stage # "read"
             /\ \A p \in Task : latest = p /\ pc[p] = "me" => Dull(call[p])
  BY <1>1 DEF NothingReturns
<1>2. ASSUME UNCHANGED <<store, access, status, refresh, call, latest, pc, out>> PROVE Gone
  BY <1>1, <1>2
\* One call changes.
<1>3. ASSUME NEW p \in Task, NEW c, call' = [call EXCEPT ![p] = c], c.stage # "read",
             UNCHANGED <<access, refresh, out>>, store' = None, status' = status,
             latest' = p /\ pc'[p] = "me" => Dull(c),
             \A q \in Task : q # p /\ latest' = q /\ pc'[q] = "me" => latest = q /\ pc[q] = "me"
      PROVE  Gone
  BY <1>0, <1>1, <1>3
<1>4. ASSUME UNCHANGED vars \/ Server \/ TimePasses PROVE Gone
  BY <1>2, <1>4 DEF vars, appVars, Server, TimePasses
<1>5. ASSUME Restart \/ SignOut PROVE Gone
  BY <1>5, NoOutFacts DEF Restart, SignOut
<1>6. ASSUME AccessRunsOut PROVE Gone
  BY <1>1, <1>6 DEF AccessRunsOut
<1>7. ASSUME RefreshAnswer \/ RefreshRejected \/ RefreshLost PROVE Gone
  BY <1>1, <1>7 DEF RefreshAnswer, RefreshRejected, RefreshLost
<1>8. ASSUME NEW p \in Task, RefreshTokens(p) PROVE Gone
  BY <1>1, <1>8 DEF RefreshTokens
<1>9. ASSUME NEW p \in Task, ApiHandles(p) PROVE Gone
  <2> DEFINE result == ApiResult(call[p])
             deleting == [call[p] EXCEPT !.stage = "deleting", !.token = FreeSlot]
             answered == [call[p] EXCEPT !.stage = "answered", !.bearer = "none", !.result = result]
  <2>1. /\ UNCHANGED <<store, access, status, refresh, latest, pc, out>>
        /\ call[p].stage = "sent"
        /\ \/ result = "ok" /\ call' = [call EXCEPT ![p] = deleting]
           \/ result # "401" /\ call' = [call EXCEPT ![p] = Result(result)]
           \/ call' = [call EXCEPT ![p] = answered]
    BY <1>9 DEF ApiHandles
  <2>2. result \in {"401", "500", "ok"} /\ (call[p].bearer # "good" => result = "401")
    BY DEF ApiResult
  <2> HIDE DEF result
  <2>3. /\ deleting.stage = "deleting" /\ answered.stage = "answered" /\ answered.result = result
        /\ Result(result).stage = "done"
    BY <1>0, <2>2, CallValues DEF CallRecords
  <2> HIDE DEF deleting, answered
  <2>4. latest = p /\ pc[p] = "me" => result = "401"
    BY <1>1, <2>1, <2>2 DEF Dull
  <2>5. PICK c : /\ call' = [call EXCEPT ![p] = c] /\ c.stage # "read"
                 /\ result = "401" => c.stage = "answered" /\ c.result = "401"
    BY <2>1, <2>3
  <2>6. latest' = p /\ pc'[p] = "me" => Dull(c)
    BY <2>1, <2>4, <2>5 DEF Dull
  <2> QED
    BY <1>1, <1>3, <2>1, <2>5, <2>6
<1>10. ASSUME NEW p \in Task, ApiDeleted(p) \/ DeletionLost(p) PROVE Gone
  <2>1. p = Out /\ pc[p] = "delete"
    BY <1>0, <1>10 DEF ApiDeleted, DeletionLost, TokensInHand
  <2>2. PICK c : c.stage = "done" /\ call' = [call EXCEPT ![p] = c]
    BY <1>10, CallValues DEF ApiDeleted, DeletionLost
  <2> QED
    BY <1>1, <1>3, <1>10, <2>1, <2>2 DEF ApiDeleted, DeletionLost
<1>11. ASSUME NEW p \in Task, CallAnswer(p) PROVE Gone
  <2>1. /\ call[p].stage = "answered" /\ UNCHANGED <<status, refresh, latest, pc, out>>
        /\ store' = None /\ access' = access
    BY <1>1, <1>11 DEF CallAnswer, ClearSession
  <2>2. \/ call[p].result = "ok" /\ call' = [call EXCEPT ![p] = Result("ok")]
        \/ call' = [call EXCEPT ![p] = Result("no")]
    BY <1>1, <1>11, <2>1 DEF CallAnswer
  <2>3. PICK c : /\ call' = [call EXCEPT ![p] = c] /\ c.stage = "done"
                 /\ call[p].result = "ok" \/ c.result = "no"
    BY <2>2, CallValues
  <2>4. latest' = p /\ pc'[p] = "me" => Dull(c)
    BY <1>1, <2>1, <2>3 DEF Dull
  <2> QED
    BY <1>1, <1>3, <2>1, <2>3, <2>4
<1>12. ASSUME NEW p \in Task, CallRetries(p) PROVE Gone
  <2> DEFINE plain == Calls(call[p].what)
             c == [plain EXCEPT !.again = TRUE]
  <2>1. call[p].what \in {"none", "restore", "me", "put", "del", "delete"}
    BY <1>0 DEF CallRecords
  <2>2. plain.stage = "sent" /\ plain.bearer = access /\ plain \in CallRecords
    BY <1>0, <2>1, CallValues, CallFacts
  <2>3. call' = [call EXCEPT ![p] = c] /\ UNCHANGED <<store, access, status, refresh, latest, pc, out>>
    BY <1>12 DEF CallRetries
  <2> HIDE DEF plain
  <2>4. c.stage = "sent" /\ c.bearer = access
    BY <2>2 DEF CallRecords
  <2> HIDE DEF c
  <2> QED
    BY <1>1, <1>3, <2>3, <2>4 DEF Dull
<1>13. ASSUME NEW p \in Task, CallLost(p) PROVE Gone
  <2>1. Result("threw").stage = "done" /\ Result("threw").result = "threw"
    BY <1>0, CallValues
  <2> QED
    BY <1>1, <1>3, <1>13, <2>1 DEF CallLost, Dull
<1>14. ASSUME NEW p \in Task, MeAnswer(p) PROVE Gone
  <2>1. /\ UNCHANGED <<store, access, refresh, out>> /\ call' = [call EXCEPT ![p] = NoCall]
        /\ NoCall.stage = "none" /\ pc[p] = "me" /\ call[p].stage = "done"
    BY <1>0, <1>14, CallValues DEF MeAnswer
  <2>2. pc'[p] # "me" /\ \A q \in Task : pc'[q] = "me" => pc[q] = "me"
    BY <1>0, <1>14 DEF MeAnswer, To
  <2>3. latest' = latest \/ latest' = None
    BY <1>14 DEF MeAnswer, GoAnonymous
  <2>4. status' # "authenticated"
    <3>1. latest = p => call[p].result # "ok"
      BY <1>1, <2>1 DEF Dull
    <3>2. status' \in {status, "anonymous"} \/ (latest = p /\ call[p].result = "ok")
      BY <1>14 DEF MeAnswer, GoAnonymous
    <3> QED
      BY <1>1, <2>1, <3>1, <3>2
  <2> QED
    BY <1>0, <1>1, <2>1, <2>2, <2>3, <2>4
<1>15. ASSUME NEW p \in Task, PushEnds(p) PROVE Gone
  <2>1. NoCall.stage = "none" /\ pc'[p] # "me" /\ \A q \in Task \ {p} : pc'[q] = pc[q]
    BY <1>0, <1>15, CallValues DEF PushEnds, To
  <2> QED
    BY <1>1, <1>3, <1>15, <2>1 DEF PushEnds
<1>16. ASSUME BootReads PROVE Gone
  <2>1. pc'[Boot] = "idle" /\ \A q \in Task \ {Boot} : pc'[q] = pc[q]
    BY <1>0, <1>1, <1>16 DEF BootReads, To
  <2> QED
    BY <1>0, <1>1, <1>16, <2>1 DEF BootReads, GoAnonymous
\* A start that goes on asks without an access token.
<1>17. ASSUME NEW p \in Task, ApplySession(p), UNCHANGED <<store, access, status, refresh, out>>
       PROVE  Gone
  <2>1. Calls("me").stage = "sent" /\ Calls("me").bearer = access
    BY <1>0, CallValues
  <2> QED
    BY <1>0, <1>1, <1>17, <2>1 DEF ApplySession, To, Dull
<1>18. ASSUME BootRestored PROVE Gone
  <2>1. CASE ApplySession(Boot) /\ UNCHANGED status
    BY <1>17, <1>18, <2>1 DEF BootRestored
  <2>2. CASE GoAnonymous /\ To(Boot, "idle") /\ call' = [call EXCEPT ![Boot] = NoCall]
    <3>1. NoCall.stage = "none" /\ \A q \in Task : q = Boot \/ call'[q] = call[q]
      BY <1>0, <2>2, CallValues
    <3> QED
      BY <1>0, <1>1, <1>18, <2>2, <3>1 DEF BootRestored, GoAnonymous
  <2> QED
    BY <1>18, <2>1, <2>2 DEF BootRestored
<1>19. ASSUME NEW n \in Login, LoginApplies(n) PROVE Gone
  BY <1>17, <1>19 DEF LoginApplies
<1>20. ASSUME PushRegisters PROVE Gone
  <2>1. \A q \in Task \ {Push} : pc'[q] = pc[q] /\ call'[q] = call[q]
    BY <1>0, <1>20 DEF PushRegisters, To
  <2>2. pc'[Push] # "me" /\ call'[Push].stage # "read"
    BY <1>0, <1>1, <1>20, CallValues DEF PushRegisters, To
  <2> QED
    BY <1>1, <1>20, <2>1, <2>2 DEF PushRegisters
<1>21. ASSUME NEW n \in Login, StartLogin(n) \/ DeepLink(n) \/ CodeConsumed(n) \/ LoginLost(n)
       PROVE  Gone
  <2>1. /\ UNCHANGED <<store, access, status, refresh, call, latest, out>>
        /\ \A q \in Task : pc'[q] = "me" => pc[q] = "me"
    BY <1>0, <1>21 DEF StartLogin, DeepLink, CodeConsumed, LoginLost, To
  <2> QED
    BY <1>1, <2>1
<1>22. ASSUME NEW n \in Login, LoginAnswer(n) PROVE Gone
  <2>1. UNCHANGED <<store, access, status, refresh, call, latest, out>>
    BY <1>22, NoOutFacts DEF LoginAnswer
  <2>2. \A q \in Task : pc'[q] = "me" => pc[q] = "me"
    BY <1>0, <1>22 DEF LoginAnswer, To
  <2> QED
    BY <1>1, <2>1, <2>2
<1>23. ASSUME SignOutReads \/ SignOutPosts PROVE Gone
  <2>1. PICK token : call' = [call EXCEPT ![Out].token = token]
    BY <1>23 DEF SignOutReads, SignOutPosts
  <2> DEFINE c == [call[Out] EXCEPT !.token = token]
  <2>2. c.stage = call[Out].stage /\ call' = [call EXCEPT ![Out] = c]
    BY <1>0, <2>1 DEF CallRecords
  <2>3. pc'[Out] # "me" /\ \A q \in Task \ {Out} : pc'[q] = pc[q]
    BY <1>0, <1>23 DEF SignOutReads, SignOutPosts, To
  <2> HIDE DEF c
  <2> QED
    BY <1>1, <1>3, <1>23, <2>2, <2>3 DEF SignOutReads, SignOutPosts
<1>24. ASSUME SignOutAnswered \/ Removed PROVE Gone
  <2>1. \A q \in Task : pc'[q] = "me" => pc[q] = "me"
    BY <1>0, <1>24 DEF SignOutAnswered, Removed, To
  <2>2. status' # "authenticated" /\ (latest' = latest \/ latest' = None)
    BY <1>1, <1>24 DEF SignOutAnswered, Removed, GoAnonymous
  <2> QED
    BY <1>1, <1>24, <2>1, <2>2 DEF SignOutAnswered, Removed
<1>25. ASSUME SignOutClears PROVE Gone
  <2>1. refresh.at = "none" /\ \A q \in Task : call[q].stage # "read"
    BY <1>0, <1>25 DEF SignOutClears, NoRotationUnderWay
  <2>2. \A q \in Task : call'[q].stage # "read"
    BY <1>0, <1>25, <2>1, CallValues DEF SignOutClears
  <2> QED
    BY <1>25, <2>1, <2>2 DEF SignOutClears, ClearSession, GoAnonymous
<1>26. ASSUME RemoveAccount \/ RemoveAnswered PROVE Gone
  <2>1. RemoveAnswered
    BY <1>1, <1>26 DEF RemoveAccount, RemoveAnswered
  <2> DEFINE plain == Calls("del")
             c == [plain EXCEPT !.bearer = "none"]
  <2>2. plain \in CallRecords /\ plain.stage = "sent"
    BY <1>0, CallFacts, CallValues
  <2>3. /\ \A q \in Task \ {Out, Unpush} : pc'[q] = pc[q] /\ call'[q] = call[q]
        /\ pc'[Out] # "me" /\ (pc'[Unpush] # "me" \/ (pc'[Unpush] = pc[Unpush] /\ call'[Unpush] = call[Unpush]))
        /\ call'[Out] = NoCall /\ (call'[Unpush] = call[Unpush] \/ call'[Unpush] = c)
    BY <1>0, <2>1 DEF RemoveAnswered, To
  <2> HIDE DEF plain
  <2>4. c.stage = "sent" /\ NoCall.stage = "none"
    BY <1>0, <2>2, CallValues DEF CallRecords
  <2> HIDE DEF c
  <2>5. /\ \A q \in Task : call'[q].stage # "read"
        /\ \A q \in Task : latest' = q /\ pc'[q] = "me" => Dull(call'[q])
    BY <1>1, <2>1, <2>3, <2>4 DEF RemoveAnswered
  <2> QED
    BY <1>1, <2>1, <2>5 DEF RemoveAnswered, ClearSession
<1> HIDE DEF Gone
<1>27. Gone
  BY <1>4, <1>5, <1>6, <1>7, <1>8, <1>9, <1>10, <1>11, <1>12, <1>13, <1>14, <1>15, <1>16, <1>18,
     <1>19, <1>20, <1>21, <1>22, <1>23, <1>24, <1>25, <1>26 DEF Next
<1> QED
  BY <1>27 DEF Gone

LEMMA HistoryHolds == Spec => []HistoryTypeOK
<1>1. Init => HistoryTypeOK
  BY NoOutFacts DEF Init, HistoryTypeOK
<1> QED
  BY <1>1, HistoryTyped, SessionInvHolds, PTL DEF Spec

\* After a sign-out that cleared while no rotation was in flight and no caller
\* held a token it had read, no late answer and no call of the app brings the
\* session back before the next login's tokens or start (SignOutIsFinal).
THEOREM SignOutsAreFinal == Spec => []SignOutIsFinal
<1>1. Init => NothingReturns
  BY NoOutFacts DEF Init, NothingReturns
<1>2. NothingReturns => SignOutIsFinal
  BY DEF NothingReturns, SignOutIsFinal
<1>3. SessionInv /\ HistoryTypeOK /\ NothingReturns /\ [Next]_vars => NothingReturns'
  BY NothingReturnsKept
<1> QED
  BY <1>1, <1>2, <1>3, HistoryHolds, SessionInvHolds, PTL DEF Spec

\* Only the push client registers a device.
PutsArePushs ==
  \A p \in Task : call[p].what = "put" => p = Push /\ pc[Push] = "put"

\* While a sign-out that began with a valid access token and nothing else
\* under way lasts, the only thing that moves is the removal it sent, and
\* that request carries the token; afterwards no registration is on its way.
Unregistering ==
  out.clean /\ count.lost = 0 =>
    /\ pc[Boot] = "idle" /\ pc[Push] = "idle"
    /\ \A n \in Login : pc[n] \in {"idle", "exchange"}
    /\ \/ ~device
       \/ /\ pc[Out] = "unpush" /\ pc[Unpush] = "del" /\ call[Unpush].stage = "sent"
          /\ call[Unpush].what = "del" /\ call[Unpush].bearer = "good"
    /\ out.done => ~device

LEMMA PutsArePushsKept ==
  ASSUME SessionInv, PutsArePushs, [Next]_vars PROVE PutsArePushs'
<1> USE TasksDiffer DEF SessionInv, AppInv
<1>0. call \in [Task -> CallRecords] /\ pc \in [Task -> Wheres] /\ AppTypeOK
  BY DEF AppTypeOK
<1> DEFINE Good == PutsArePushs'
<1>1. ASSUME call' = call, pc'[Push] = pc[Push] \/ pc[Push] # "put" PROVE Good
  BY <1>1 DEF PutsArePushs
<1>2. ASSUME NEW p \in Task, NEW c, call' = [call EXCEPT ![p] = c],
             c.what = "put" => p = Push /\ pc'[Push] = "put",
             pc'[Push] = pc[Push] \/ pc[Push] # "put" \/ p = Push
      PROVE  Good
  BY <1>0, <1>2 DEF PutsArePushs
<1>3. ASSUME UNCHANGED <<call, pc>> PROVE Good
  BY <1>1, <1>3
<1>4. ASSUME UNCHANGED vars \/ Server \/ TimePasses \/ AccessRunsOut PROVE Good
  BY <1>3, <1>4 DEF vars, appVars, Server, TimePasses, AccessRunsOut
<1>5. ASSUME Restart PROVE Good
  <2>1. \A p \in Task : call'[p].what = "none"
    BY <1>5, CallValues DEF Restart
  <2> QED
    BY <2>1 DEF PutsArePushs
<1>6. ASSUME RefreshAnswer \/ RefreshRejected \/ RefreshLost PROVE Good
  <2>1. pc' = pc /\ (call' = call \/ \E ok \in BOOLEAN : call' = Resumed(ok))
    BY <1>6 DEF RefreshAnswer, RefreshRejected, RefreshLost
  <2>2. ASSUME NEW ok \in BOOLEAN, NEW p \in Task PROVE Resumed(ok)[p].what \in {call[p].what, "none"}
    BY <1>0, ResumedValues
  <2>3. \A p \in Task : call'[p].what \in {call[p].what, "none"}
    BY <2>1, <2>2
  <2> QED
    BY <2>1, <2>3 DEF PutsArePushs
<1>7. ASSUME NEW p \in Task, RefreshTokens(p) PROVE Good
  <2> DEFINE c == [call[p] EXCEPT !.stage = "joining", !.token = None]
  <2>1. call' = [call EXCEPT ![p] = c] /\ UNCHANGED pc
    BY <1>0, <1>7 DEF RefreshTokens
  <2>2. c.what = call[p].what
    BY <1>0 DEF CallRecords
  <2> HIDE DEF c
  <2> QED
    BY <1>2, <2>1, <2>2 DEF PutsArePushs
<1>8. ASSUME NEW p \in Task, ApiHandles(p) PROVE Good
  <2> DEFINE result == ApiResult(call[p])
             deleting == [call[p] EXCEPT !.stage = "deleting", !.token = FreeSlot]
             answered == [call[p] EXCEPT !.stage = "answered", !.bearer = "none", !.result = result]
  <2>1. /\ UNCHANGED pc
        /\ \/ call' = [call EXCEPT ![p] = deleting]
           \/ call' = [call EXCEPT ![p] = Result(result)]
           \/ call' = [call EXCEPT ![p] = answered]
    BY <1>8 DEF ApiHandles
  <2>2. result \in {"ok", "401", "500"}
    BY DEF ApiResult
  <2> HIDE DEF result
  <2>3. deleting.what = call[p].what /\ answered.what = call[p].what /\ Result(result).what = "none"
    BY <1>0, <2>2, CallValues DEF CallRecords
  <2> HIDE DEF deleting, answered
  <2> QED
    BY <1>2, <2>1, <2>3 DEF PutsArePushs
<1>9. ASSUME NEW p \in Task, ApiDeleted(p) \/ DeletionLost(p) \/ CallLost(p) PROVE Good
  <2>1. PICK c : c.what = "none" /\ call' = [call EXCEPT ![p] = c] /\ pc' = pc
    BY <1>0, <1>9, CallValues DEF ApiDeleted, DeletionLost, CallLost
  <2> QED
    BY <1>2, <2>1
<1>10. ASSUME NEW p \in Task, CallAnswer(p) PROVE Good
  <2> DEFINE c == [call[p] EXCEPT !.stage = "read", !.token = store, !.result = "none"]
  <2>1. /\ UNCHANGED pc
        /\ \/ call' = [call EXCEPT ![p] = c]
           \/ \E result \in {"ok", "no"} : call' = [call EXCEPT ![p] = Result(result)]
    BY <1>10 DEF CallAnswer, ClearSession
  <2>2. c.what = call[p].what
    BY <1>0 DEF CallRecords
  <2> HIDE DEF c
  <2>3. CASE call' = [call EXCEPT ![p] = c]
    BY <1>2, <2>1, <2>2, <2>3 DEF PutsArePushs
  <2>4. ASSUME NEW result \in {"ok", "no"}, call' = [call EXCEPT ![p] = Result(result)] PROVE Good
    <3>1. Result(result).what = "none"
      BY <1>0, CallValues
    <3> QED
      BY <1>2, <2>1, <2>4, <3>1
  <2> QED
    BY <2>1, <2>3, <2>4
<1>11. ASSUME NEW p \in Task, CallRetries(p) PROVE Good
  <2> DEFINE plain == Calls(call[p].what)
             c == [plain EXCEPT !.again = TRUE]
  <2>1. call[p].what \in {"none", "restore", "me", "put", "del", "delete"}
    BY <1>0 DEF CallRecords
  <2>2. plain.what = call[p].what /\ plain \in CallRecords
    BY <1>0, <2>1, CallValues, CallFacts
  <2>3. call' = [call EXCEPT ![p] = c] /\ UNCHANGED pc
    BY <1>11 DEF CallRetries
  <2> HIDE DEF plain
  <2>4. c.what = call[p].what
    BY <2>2 DEF CallRecords
  <2> HIDE DEF c
  <2> QED
    BY <1>2, <2>3, <2>4 DEF PutsArePushs
<1>12. ASSUME NEW p \in Task, MeAnswer(p) PROVE Good
  <2>1. call' = [call EXCEPT ![p] = NoCall] /\ NoCall.what = "none" /\ pc[p] = "me"
    BY <1>0, <1>12, CallValues DEF MeAnswer
  <2>2. pc'[Push] = pc[Push] \/ pc[Push] # "put"
    BY <1>0, <1>12 DEF MeAnswer, To
  <2> QED
    BY <1>2, <2>1, <2>2
<1>13. ASSUME NEW p \in Task, PushEnds(p) PROVE Good
  <2>1. call' = [call EXCEPT ![p] = NoCall] /\ NoCall.what = "none" /\ \A q \in Task \ {p} : pc'[q] = pc[q]
    BY <1>0, <1>13, CallValues DEF PushEnds, To
  <2> QED
    BY <1>2, <2>1
<1>14. ASSUME NEW p \in Task, ApplySession(p), p # Push PROVE Good
  <2>1. Calls("me").what = "me" /\ pc'[Push] = pc[Push]
    BY <1>0, <1>14, CallValues DEF ApplySession, To
  <2> QED
    BY <1>2, <1>14, <2>1 DEF ApplySession
<1>15. ASSUME BootReads PROVE Good
  <2> DEFINE c == [NoCall EXCEPT !.stage = "read", !.what = "restore", !.token = store]
  <2>1. c.what = "restore"
    BY DEF NoCall
  <2>2. pc'[Push] = pc[Push] /\ (call' = call \/ call' = [call EXCEPT ![Boot] = c])
    BY <1>0, <1>15 DEF BootReads, To
  <2> HIDE DEF c
  <2> QED
    BY <1>1, <1>2, <2>1, <2>2
<1>16. ASSUME BootRestored PROVE Good
  <2>1. CASE To(Boot, "idle") /\ call' = [call EXCEPT ![Boot] = NoCall]
    <3>1. NoCall.what = "none" /\ pc'[Push] = pc[Push]
      BY <1>0, <2>1, CallValues DEF To
    <3> QED
      BY <1>2, <2>1, <3>1
  <2> QED
    BY <1>14, <1>16, <2>1 DEF BootRestored
<1>17. ASSUME NEW n \in Login, LoginApplies(n) PROVE Good
  BY <1>14, <1>17 DEF LoginApplies
<1>18. ASSUME PushRegisters PROVE Good
  <2>1. CASE call' = [call EXCEPT ![Push] = Calls("put")] /\ To(Push, "put")
    <3>1. pc'[Push] = "put"
      BY <1>0, <2>1 DEF To
    <3> QED
      BY <1>2, <2>1, <3>1
  <2>2. CASE To(Push, "idle") /\ UNCHANGED call
    BY <1>1, <1>18, <2>2 DEF PushRegisters
  <2> QED
    BY <1>18, <2>1, <2>2 DEF PushRegisters
<1>19. ASSUME NEW n \in Login, StartLogin(n) \/ DeepLink(n) \/ CodeConsumed(n) \/ LoginLost(n)
                              \/ LoginAnswer(n)
       PROVE  Good
  <2>1. call' = call /\ pc'[Push] = pc[Push]
    BY <1>0, <1>19 DEF StartLogin, DeepLink, CodeConsumed, LoginLost, LoginAnswer, To
  <2> QED
    BY <1>1, <2>1
<1>20. ASSUME SignOutReads \/ SignOutPosts PROVE Good
  <2>1. PICK token : call' = [call EXCEPT ![Out].token = token]
    BY <1>20 DEF SignOutReads, SignOutPosts
  <2> DEFINE c == [call[Out] EXCEPT !.token = token]
  <2>2. c.what = call[Out].what /\ call' = [call EXCEPT ![Out] = c]
    BY <1>0, <2>1 DEF CallRecords
  <2>3. pc'[Push] = pc[Push]
    BY <1>0, <1>20 DEF SignOutReads, SignOutPosts, To
  <2> HIDE DEF c
  <2> QED
    BY <1>2, <2>2, <2>3 DEF PutsArePushs
<1>21. ASSUME SignOutAnswered \/ Removed PROVE Good
  <2>1. call' = call /\ pc'[Push] = pc[Push]
    BY <1>0, <1>21 DEF SignOutAnswered, Removed, To
  <2> QED
    BY <1>1, <2>1
<1>22. ASSUME SignOutClears \/ SignOut \/ RemoveAccount PROVE Good
  <2>1. PICK p \in Task : \E c : c.what # "put" /\ call' = [call EXCEPT ![p] = c]
    <3>1. NoCall.what = "none" /\ Calls("del").what = "del" /\ Calls("delete").what = "delete"
      BY <1>0, CallValues
    <3> QED
      BY <1>22, <3>1 DEF SignOutClears, SignOut, ClearPushStarts, RemoveAccount
  <2>2. pc'[Push] = pc[Push]
    BY <1>0, <1>22 DEF SignOutClears, SignOut, RemoveAccount, To
  <2> QED
    BY <1>2, <2>1, <2>2
<1>23. ASSUME RemoveAnswered PROVE Good
  <2> DEFINE plain == Calls("del")
             c == [plain EXCEPT !.bearer = "none"]
  <2>1. plain \in CallRecords /\ plain.what = "del"
    BY <1>0, CallFacts, CallValues
  <2>2. /\ pc'[Push] = pc[Push]
        /\ \A q \in Task : call'[q] \in {call[q], NoCall, c}
    BY <1>0, <1>23 DEF RemoveAnswered, To
  <2> HIDE DEF plain
  <2>3. c.what = "del" /\ NoCall.what = "none"
    BY <1>0, <2>1, CallValues DEF CallRecords
  <2> HIDE DEF c
  <2>4. \A q \in Task : call'[q].what = "put" => call[q].what = "put"
    BY <2>2, <2>3
  <2> QED
    BY <2>2, <2>4 DEF PutsArePushs
<1> HIDE DEF Good
<1>24. Good
  BY <1>4, <1>5, <1>6, <1>7, <1>8, <1>9, <1>10, <1>11, <1>12, <1>13, <1>15, <1>16, <1>17, <1>18,
     <1>19, <1>20, <1>21, <1>22, <1>23 DEF Next
<1> QED
  BY <1>24 DEF Good

\* A sign-out and its removal never ask who is signed in.
OutAsksNobody == pc[Out] # "me" /\ pc[Unpush] # "me"
LEMMA OutAsksNobodyKept == SessionInv /\ OutAsksNobody /\ [Next]_vars => OutAsksNobody'
<1> SUFFICES ASSUME SessionInv, OutAsksNobody, [Next]_vars PROVE OutAsksNobody'
  OBVIOUS
<1> USE TasksDiffer DEF OutAsksNobody
<1>0. pc \in [Task -> Wheres]
  BY DEF SessionInv, AppInv, AppTypeOK
<1>1. ASSUME NEW p \in Task, ApplySession(p), p \notin {Out, Unpush} PROVE OutAsksNobody'
  BY <1>0, <1>1 DEF ApplySession, To
<1>2. CASE BootRestored
  BY <1>0, <1>1, <1>2 DEF BootRestored, To
<1>3. CASE \E n \in Login : LoginApplies(n)
  BY <1>1, <1>3 DEF LoginApplies
<1>4. CASE \E p \in Task : MeAnswer(p)
  BY <1>0, <1>4 DEF MeAnswer, To
<1>5. CASE /\ ~BootRestored /\ ~(\E n \in Login : LoginApplies(n)) /\ ~(\E p \in Task : MeAnswer(p))
  BY <1>0, <1>5 DEF Next, vars, appVars, Server, TimePasses, AccessRunsOut, Restart, RefreshAnswer,
     RefreshRejected, RefreshLost, RefreshTokens, ApiHandles, ApiDeleted, DeletionLost, CallAnswer, CallRetries,
     CallLost, PushEnds, BootReads, PushRegisters, StartLogin, DeepLink, CodeConsumed, LoginAnswer,
     LoginLost, SignOut, SignOutReads, SignOutPosts, SignOutAnswered, SignOutClears, RemoveAccount,
     RemoveAnswered, Removed, To
<1> QED
  BY <1>2, <1>3, <1>4, <1>5

\* Only a sign-out makes the history clean, and only its end makes it done.
LEMMA HistorySteps ==
  ASSUME SessionInv, HistoryTypeOK, [Next]_vars, ~SignOut
  PROVE  /\ out'.clean => out.clean
         /\ out'.done => out.done \/ pc[Out] = "clear"
         /\ count'.lost = 0 => count.lost = 0 /\ ~Counted("lost")
<1>1. \/ out' = out \/ out' = NoOut
      \/ pc[Out] = "clear" /\ \E b \in BOOLEAN : out' = [out EXCEPT !.done = TRUE, !.calm = b]
  <2>1. CASE SignOutClears
    <3>1. NoRotationUnderWay \in BOOLEAN
      BY DEF NoRotationUnderWay
    <3> QED
      BY <2>1, <3>1 DEF SignOutClears
  <2>2. CASE ~SignOutClears
    BY <2>2 DEF Next, vars, appVars, Server, TimePasses, AccessRunsOut, Restart, RefreshAnswer,
       RefreshRejected, RefreshLost, RefreshTokens, ApiHandles, ApiDeleted, DeletionLost, CallAnswer, CallRetries,
       CallLost, MeAnswer, PushEnds, BootReads, BootRestored, PushRegisters, StartLogin, DeepLink,
       CodeConsumed, LoginAnswer, LoginLost, LoginApplies, SignOutReads, SignOutPosts,
       SignOutAnswered, RemoveAccount, RemoveAnswered, Removed
  <2> QED
    BY <2>1, <2>2
<1>2. count' = count \/ \E what \in {"logins", "stale", "outs", "lost", "time"} : Counted(what)
  BY CountSteps
<1>3. count'.lost = 0 => count.lost = 0 /\ ~Counted("lost")
  BY <1>2 DEF HistoryTypeOK, Counted
<1> QED
  BY <1>1, <1>3, NoOutFacts DEF HistoryTypeOK

LEMMA UnregisteringKept ==
  ASSUME SessionInv, HistoryTypeOK, PutsArePushs, OutAsksNobody, Unregistering, [Next]_vars
  PROVE  Unregistering'
<1> DEFINE Good == Unregistering'
<1> USE TasksDiffer DEF SessionInv, AppInv
<1>0. call \in [Task -> CallRecords] /\ pc \in [Task -> Wheres] /\ AppTypeOK
  BY DEF AppTypeOK
<1>1. ASSUME SignOut PROVE Good
  <2>1. out'.done = FALSE
    <3> DEFINE b == access = "good" /\ ~StartUnderWay /\ count.lost = 0
    <3>1. b \in BOOLEAN /\ out' = [NoOut EXCEPT !.clean = b]
      BY <1>1 DEF SignOut
    <3> HIDE DEF b
    <3> QED
      BY <3>1, NoOutFacts
  <2>2. out'.clean => access = "good" /\ ~StartUnderWay
    BY <1>1, NoOutFacts DEF SignOut
  <2>3. ~StartUnderWay => /\ pc'[Boot] = "idle" /\ pc'[Push] = "idle"
                          /\ \A n \in Login : pc'[n] \in {"idle", "exchange"}
    BY <1>0, <1>1 DEF SignOut, StartUnderWay
  <2>4. access = "good" => /\ pc'[Out] = "unpush" /\ pc'[Unpush] = "del" /\ call'[Unpush].stage = "sent"
                           /\ call'[Unpush].what = "del" /\ call'[Unpush].bearer = "good"
    BY <1>0, <1>1, CallValues DEF SignOut, ClearPushStarts
  <2> QED
    BY <2>1, <2>2, <2>3, <2>4 DEF Unregistering
<1>2. SUFFICES ASSUME ~SignOut, out'.clean, count'.lost = 0 PROVE Good
  BY <1>1 DEF Unregistering
<1> HIDE DEF Good
<1>3. out.clean /\ count.lost = 0 /\ ~Counted("lost") /\ (out'.done => out.done \/ pc[Out] = "clear")
  BY <1>2, HistorySteps
<1>4. /\ pc[Boot] = "idle" /\ pc[Push] = "idle"
      /\ \A n \in Login : pc[n] \in {"idle", "exchange"}
      /\ \/ ~device
         \/ /\ pc[Out] = "unpush" /\ pc[Unpush] = "del" /\ call[Unpush].stage = "sent"
            /\ call[Unpush].what = "del" /\ call[Unpush].bearer = "good"
      /\ out.done => ~device
  BY <1>3 DEF Unregistering
\* The tasks stay where they are and no registration comes; a device that is
\* still there keeps the removal that was sent for it.
<1>5. ASSUME device' \in {device, FALSE}, pc'[Boot] = "idle", pc'[Push] = "idle",
             \A n \in Login : pc'[n] \in {"idle", "exchange"},
             \/ ~device'
             \/ UNCHANGED <<pc, call>>
             \/ pc'[Out] = pc[Out] /\ pc'[Unpush] = pc[Unpush] /\ call'[Unpush] = call[Unpush]
      PROVE  Good
  <2>1. out'.done => ~device'
    BY <1>3, <1>4, <1>5
  <2>2. \/ ~device'
        \/ /\ pc'[Out] = "unpush" /\ pc'[Unpush] = "del" /\ call'[Unpush].stage = "sent"
           /\ call'[Unpush].what = "del" /\ call'[Unpush].bearer = "good"
    BY <1>4, <1>5
  <2> QED
    BY <1>5, <2>1, <2>2 DEF Unregistering, Good
<1>6. ASSUME UNCHANGED pc, device' \in {device, FALSE}, ~device' \/ call'[Unpush] = call[Unpush] PROVE Good
  BY <1>4, <1>5, <1>6
<1>7. ASSUME NEW p \in Task, call[p].stage # "sent", \A q \in Task \ {p} : call'[q] = call[q],
             UNCHANGED pc, device' \in {device, FALSE}
      PROVE  Good
  <2>1. ~device \/ p # Unpush
    BY <1>4, <1>7
  <2>2. ~device' \/ call'[Unpush] = call[Unpush]
    BY <1>7, <2>1
  <2> QED
    BY <1>6, <1>7, <2>2
<1>8. ASSUME UNCHANGED vars \/ Server \/ TimePasses \/ AccessRunsOut PROVE Good
  BY <1>6, <1>8 DEF vars, appVars, Server, TimePasses, AccessRunsOut
<1>9. ~Restart /\ ~RefreshLost /\ \A p \in Task : ~CallLost(p)
  BY <1>3 DEF Restart, RefreshLost, CallLost
<1>10. ASSUME RefreshAnswer \/ RefreshRejected PROVE Good
  <2>1. UNCHANGED <<pc, device>> /\ (call' = call \/ \E ok \in BOOLEAN : call' = Resumed(ok))
    BY <1>10 DEF RefreshAnswer, RefreshRejected
  <2>2. ASSUME NEW ok \in BOOLEAN, call[Unpush].stage # "joining" PROVE Resumed(ok)[Unpush] = call[Unpush]
    BY <1>0, <2>2, ResumedValues
  <2>3. ~device \/ call[Unpush].stage # "joining"
    BY <1>4
  <2> QED
    BY <1>6, <2>1, <2>2, <2>3
<1>11. ASSUME NEW p \in Task, RefreshTokens(p) PROVE Good
  BY <1>0, <1>7, <1>11 DEF RefreshTokens
<1>12. ASSUME NEW p \in Task, ApiHandles(p) PROVE Good
  <2>1. UNCHANGED pc /\ call[p].stage = "sent" /\ \A q \in Task \ {p} : call'[q] = call[q]
    BY <1>0, <1>12 DEF ApiHandles
  <2>2. call[p].what # "put"
    BY <1>4 DEF PutsArePushs
  <2>3. \/ UNCHANGED device /\ call[p].what = "delete"
        \/ device' = IF ApiResult(call[p]) = "ok" /\ call[p].what \in {"put", "del"}
                       THEN call[p].what = "put" ELSE device
    BY <1>12 DEF ApiHandles
  <2>4. device' \in {device, FALSE}
    BY <2>2, <2>3
  <2>5. call[p].bearer = "good" /\ call[p].what = "del" => ~device'
    <3>1. call[p].bearer = "good" /\ call[p].what = "del" => ApiResult(call[p]) = "ok"
      BY DEF ApiResult
    <3> QED
      BY <2>3, <3>1
  <2>6. p = Unpush => ~device'
    BY <1>4, <2>4, <2>5
  <2> QED
    BY <1>6, <2>1, <2>4, <2>6
<1>13. ASSUME NEW p \in Task, ApiDeleted(p) \/ DeletionLost(p) PROVE Good
  BY <1>0, <1>7, <1>13 DEF ApiDeleted, DeletionLost
<1>14. ASSUME NEW p \in Task, CallAnswer(p) \/ CallRetries(p) PROVE Good
  <2>1. call[p].stage # "sent" /\ UNCHANGED <<pc, device>> /\ \A q \in Task \ {p} : call'[q] = call[q]
    BY <1>0, <1>14 DEF CallAnswer, CallRetries, Retrying
  <2> QED
    BY <1>7, <2>1
<1>15. \A p \in Task : ~MeAnswer(p)
  BY <1>4 DEF MeAnswer, OutAsksNobody, Task
<1>16. ASSUME NEW p \in Task, PushEnds(p) PROVE Good
  <2>1. /\ UNCHANGED device /\ call[p].stage = "done" /\ pc[p] \in {"put", "del"}
        /\ pc'[p] = "idle" /\ \A q \in Task \ {p} : pc'[q] = pc[q] /\ call'[q] = call[q]
    BY <1>0, <1>16 DEF PushEnds, To
  <2>2. ~device' \/ (p # Unpush /\ p # Out)
    BY <1>4, <2>1
  <2> QED
    BY <1>4, <1>5, <2>1, <2>2
<1>17. ~BootReads /\ ~BootRestored /\ ~PushRegisters /\ \A n \in Login : ~LoginApplies(n)
  BY <1>4 DEF BootReads, BootRestored, PushRegisters, LoginApplies
<1>18. ASSUME NEW n \in Login, StartLogin(n) \/ CodeConsumed(n) PROVE Good
  BY <1>6, <1>18 DEF StartLogin, CodeConsumed
<1>19. ASSUME NEW n \in Login, DeepLink(n) \/ LoginAnswer(n) PROVE Good
  <2>1. ~(LoginAnswer(n) /\ req[code[n].slot].answer = "ok")
    BY <1>2, NoOutFacts DEF LoginAnswer
  <2>2. /\ UNCHANGED <<device, call>> /\ pc'[n] \in {"idle", "exchange"}
        /\ \A q \in Task \ {n} : pc'[q] = pc[q]
    BY <1>0, <1>4, <1>19, <2>1 DEF DeepLink, LoginAnswer, To
  <2>3. /\ pc'[Boot] = "idle" /\ pc'[Push] = "idle" /\ pc'[Out] = pc[Out] /\ pc'[Unpush] = pc[Unpush]
        /\ \A m \in Login : pc'[m] \in {"idle", "exchange"}
    BY <1>4, <2>2
  <2> QED
    BY <1>5, <2>2, <2>3
<1>20. \A n \in Login : ~LoginLost(n)
  BY <1>3 DEF LoginLost
\* The steps of a sign-out after the removal's answer, and of a removal of
\* the account: by then there is no device.
<1>21. ASSUME SignOutReads \/ SignOutPosts \/ SignOutAnswered \/ SignOutClears \/ RemoveAccount
                \/ RemoveAnswered \/ Removed
       PROVE  Good
  <2>1. UNCHANGED device /\ \A q \in Task \ {Out, Unpush} : pc'[q] = pc[q]
    BY <1>0, <1>21 DEF SignOutReads, SignOutPosts, SignOutAnswered, SignOutClears, RemoveAccount,
       RemoveAnswered, Removed, To
  <2>2. pc[Out] # "unpush" \/ pc[Unpush] = "idle"
    BY <1>3, <1>21 DEF SignOutReads, SignOutPosts, SignOutAnswered, SignOutClears, RemoveAccount,
       RemoveAnswered, Removed
  <2>3. ~device
    BY <1>4, <2>2
  <2>4. /\ pc'[Boot] = "idle" /\ pc'[Push] = "idle"
        /\ \A m \in Login : pc'[m] \in {"idle", "exchange"}
    BY <1>4, <2>1
  <2> QED
    BY <1>5, <2>1, <2>3, <2>4
<1> QED
  BY <1>2, <1>8, <1>9, <1>10, <1>11, <1>12, <1>13, <1>14, <1>15, <1>16, <1>17, <1>18, <1>19, <1>20,
     <1>21 DEF Next, Good

\* A sign-out that starts with a valid access token and nothing under way
\* leaves no registration of the device, unless a call is lost before the next
\* login's tokens or start (SignOutUnregisters).
THEOREM SignOutsUnregister == Spec => []SignOutUnregisters
<1> DEFINE Unreg == PutsArePushs /\ OutAsksNobody /\ Unregistering
<1>1. Init => Unreg
  BY NoOutFacts, TasksDiffer DEF Init, NoCall, PutsArePushs, OutAsksNobody, Unregistering
<1>2. Unreg => SignOutUnregisters
  BY DEF Unregistering, SignOutUnregisters
<1>3. SessionInv /\ HistoryTypeOK /\ Unreg /\ [Next]_vars => Unreg'
  BY PutsArePushsKept, OutAsksNobodyKept, UnregisteringKept
<1> QED
  BY <1>1, <1>2, <1>3, HistoryHolds, SessionInvHolds, PTL DEF Spec

-----------------------------------------------------------------------------
(* The session while nothing is lost, rolled back or signed out.            *)

Calm == count.lost = 0 /\ failures = 0 /\ count.outs = 0
Fresh == \A t \in Token : row[t].state # "expired"

\* A token the app holds, in the keystore or for a rotation.
InHand(t) ==
  \/ store = t
  \/ refresh.at = "waiting" /\ refresh.token = t
  \/ \E p \in Task : call[p].stage = "read" /\ call[p].token = t

\* Every rotation is the one the app waits for, and none is refused for good.
RequestsInTurn ==
  \A r \in Req : req[r].at # "idle" =>
    /\ req[r].at \in {"sent", "rotating", "answered"}
    /\ req[r].op \in {"refresh", "exchange", "login"}
    /\ req[r].op = "refresh" =>
         /\ refresh.at = "waiting" /\ refresh.req = r
         /\ req[r].at # "answered" => req[r].token = refresh.token
         /\ req[r].at = "answered" => req[r].answer \in {"ok", "raced", "expired"}

\* A token that is still in an answer is valid, and nobody has it yet.
HandedLive ==
  \A r \in Req : Handed(r) =>
    /\ req[r].fresh \in Token /\ row[req[r].fresh].state \in Unrevoked
    /\ ~InHand(req[r].fresh)
    /\ \A q \in Req : Handed(q) /\ req[q].fresh = req[r].fresh => q = r

HandKept == \A t \in Token : InHand(t) => row[t].state \in {"live", "expired", "grace"}

\* The stored token is valid, or its successor is in the answer under way.
RotatedFor(t) == refresh.at = "waiting" /\ refresh.token = t /\ Handed(refresh.req)
StoreKept == store # None => row[store].state \in Unrevoked \/ RotatedFor(store)

\* A rotation is refused only when a login has replaced the token, or when
\* the token expired.
RefusalsHarmless ==
  /\ refresh.at = "waiting" /\ req[refresh.req].at = "answered" =>
       /\ req[refresh.req].answer = "raced" => store # refresh.token
       /\ req[refresh.req].answer = "expired" => ~Fresh
  /\ refresh.at = "checking" => refresh.seen # refresh.token \/ ~Fresh

KeptTokens == RequestsInTurn /\ HandedLive /\ HandKept /\ StoreKept /\ RefusalsHarmless

LEMMA ServerKeepsTokens ==
  ASSUME SessionInv, KeptTokens, Server, failures = 0, failures' = 0
  PROVE  KeptTokens' /\ (Fresh' => Fresh)
<1> USE TasksDiffer DEF SessionInv, AppInv
<1>0. /\ UNCHANGED <<store, refresh, pc, call>>
      /\ ServerStep /\ ServerInv /\ AppTypeOK /\ TokensInHand /\ SlotsHeld
      /\ req \in [Req -> Requests] /\ failures \in Nat
  BY DEF Server, ServerInv, ServerTypeOK
<1>1. UNCHANGED <<store, refresh, call>>
  BY <1>0
<1>2. CalmRequests
  BY <1>0 DEF CalmRequests, KeptTokens, RequestsInTurn, HandKept, InHand, TokensInHand
<1>3. PICK r \in Req : \/ Refuses(r, "raced", "grace") \/ Refuses(r, "expired", "expired")
                       \/ LocksToken(r)
                       \/ \E new \in Token : Rotates(r, new) \/ Opens(r, new)
  BY <1>0, <1>2, CalmSteps
<1>4. \A t \in Token : InHand(t)' <=> InHand(t)
  BY <1>1 DEF InHand
<1>5. req[r].op = "refresh" /\ req[r].at \in {"sent", "rotating"} =>
        /\ refresh.at = "waiting" /\ refresh.req = r /\ req[r].waited /\ req[r].token = refresh.token
        /\ refresh.token \in Token /\ InHand(refresh.token) /\ ~Handed(r)
  BY <1>0 DEF KeptTokens, RequestsInTurn, SlotsHeld, Owned, TokensInHand, InHand, Handed
<1>6. /\ store \in Token \cup {None}
      /\ refresh.at = "waiting" => refresh.req \in Req
      /\ store # None => InHand(store)
  BY <1>0 DEF AppTypeOK, SlotsHeld, Owned, InHand
<1> DEFINE Good == KeptTokens' /\ (Fresh' => Fresh)
<1>7. ASSUME NEW answer \in {"raced", "expired"}, NEW state, Refuses(r, answer, state),
             answer = "raced" => state = "grace", answer = "expired" => state = "expired"
      PROVE  Good
  <2>1. /\ row' = row /\ \A q \in Req \ {r} : req'[q] = req[q]
        /\ req'[r].at = "answered" /\ req'[r].op = "refresh" /\ req'[r].answer = answer
        /\ ~Handed(r)' /\ refresh.at = "waiting" /\ refresh.req = r /\ ~Handed(r)
        /\ row[refresh.token].state = state /\ refresh.token \in Token
    BY <1>5, <1>7 DEF Refuses, Tells, Handed
  <2>2. \A q \in Req : Handed(q)' => Handed(q) /\ req'[q] = req[q]
    BY <2>1 DEF Handed
  <2>3. RequestsInTurn'
    BY <1>1, <2>1 DEF KeptTokens, RequestsInTurn
  <2>4. HandedLive' /\ HandKept'
    BY <1>4, <2>1, <2>2 DEF KeptTokens, HandedLive, HandKept
  <2>5. store # None => row[store].state \in Unrevoked
    BY <2>1 DEF KeptTokens, StoreKept, RotatedFor
  <2>6. StoreKept'
    BY <1>1, <2>1, <2>5 DEF StoreKept
  <2>7. RefusalsHarmless'
    <3>1. answer = "raced" => store # refresh.token
      BY <1>7, <2>1, <2>5 DEF Unrevoked
    <3>2. answer = "expired" => ~Fresh'
      BY <1>7, <2>1 DEF Fresh
    <3> QED
      BY <1>1, <2>1, <3>1, <3>2 DEF RefusalsHarmless
  <2> QED
    BY <2>1, <2>3, <2>4, <2>6, <2>7 DEF KeptTokens, Fresh
<1>8. ASSUME LocksToken(r) PROVE Good
  <2>1. /\ row' = row /\ \A q \in Req \ {r} : req'[q] = req[q]
        /\ req'[r].at = "rotating" /\ req'[r].op = "refresh" /\ req'[r].token = req[r].token
        /\ ~Handed(r)' /\ refresh.at = "waiting" /\ refresh.req = r /\ ~Handed(r)
        /\ req[r].token = refresh.token
    BY <1>5, <1>8 DEF LocksToken, Handed
  <2>2. \A q \in Req : (Handed(q)' <=> Handed(q)) /\ (Handed(q) => req'[q] = req[q])
    BY <2>1 DEF Handed
  <2>3. RequestsInTurn'
    BY <1>1, <2>1 DEF KeptTokens, RequestsInTurn
  <2>4. HandedLive' /\ HandKept'
    BY <1>4, <2>1, <2>2 DEF KeptTokens, HandedLive, HandKept
  <2>5. StoreKept'
    BY <1>1, <1>6, <2>1, <2>2 DEF KeptTokens, StoreKept, RotatedFor
  <2>6. RefusalsHarmless'
    BY <1>1, <2>1 DEF KeptTokens, RefusalsHarmless, Fresh
  <2> QED
    BY <2>1, <2>3, <2>4, <2>5, <2>6 DEF KeptTokens, Fresh
\* A token nobody had is handed out; the others keep their states, but for
\* the one it replaces.
<1>9. ASSUME NEW new \in Token, row[new].state = "unused", Tells(r, "ok", new), NEW old,
             \A t \in Token : row'[t].state = IF t = new THEN "live"
                                              ELSE IF t = old THEN "grace" ELSE row[t].state,
             req[r].op = "refresh" => old = refresh.token /\ refresh.at = "waiting" /\ refresh.req = r
                                      /\ req[r].waited,
             req[r].op # "refresh" => old = None,
             old \in Token => row[old].state = "live" /\ InHand(old),
             req[r].op \in {"refresh", "login"}, req[r].at \in {"sent", "rotating"}
      PROVE  Good
  <2>1. /\ \A q \in Req \ {r} : req'[q] = req[q]
        /\ req'[r].at \in {"idle", "answered"}
        /\ req'[r].at = "answered" => req'[r].op = req[r].op /\ req'[r].answer = "ok"
                                      /\ req'[r].fresh = new
        /\ ~Handed(r)
    BY <1>9 DEF Tells, Handed
  <2>2. \A q \in Req : Handed(q)' => \/ q = r /\ req'[q].fresh = new
                                     \/ q # r /\ Handed(q) /\ req'[q] = req[q]
    BY <2>1 DEF Handed
  <2>3. \A t \in Token : InHand(t) => t # new
    BY <1>9 DEF KeptTokens, HandKept
  <2>4. \A q \in Req : Handed(q) => req[q].fresh # new /\ req[q].fresh # old
    BY <1>9 DEF KeptTokens, HandedLive, Unrevoked
  <2>5. RequestsInTurn'
    BY <1>1, <1>9, <2>1 DEF KeptTokens, RequestsInTurn
  <2>6. HandedLive'
    BY <1>4, <1>9, <2>2, <2>3, <2>4 DEF KeptTokens, HandedLive, Unrevoked
  <2>7. HandKept'
    BY <1>4, <1>9, <2>3 DEF KeptTokens, HandKept
  <2>8. StoreKept'
    <3>1. req[r].op = "refresh" => Handed(r)'
      BY <1>9 DEF Tells, Handed
    <3>2. CASE store = old /\ store # None
      BY <1>1, <1>9, <3>1, <3>2 DEF StoreKept, RotatedFor
    <3>3. CASE store # old /\ store # None
      <4>1. row[store].state \in Unrevoked => row'[store].state \in Unrevoked
        BY <1>6, <1>9, <2>3, <3>3
      <4>2. RotatedFor(store) => RotatedFor(store)'
        BY <1>1, <1>6, <1>9, <2>1, <3>3 DEF RotatedFor, Handed
      <4> QED
        BY <1>1, <3>3, <4>1, <4>2 DEF KeptTokens, StoreKept
    <3> QED
      BY <1>1, <3>2, <3>3 DEF StoreKept
  <2>9. Fresh' => Fresh
    BY <1>9 DEF Fresh
  <2>10. RefusalsHarmless'
    <3>1. refresh.at = "waiting" =>
            \/ refresh.req # r /\ req'[refresh.req] = req[refresh.req]
            \/ req'[refresh.req].at = "answered" => req'[refresh.req].answer = "ok"
      BY <1>6, <2>1
    <3> QED
      BY <1>1, <2>9, <3>1 DEF KeptTokens, RefusalsHarmless
  <2> QED
    BY <2>5, <2>6, <2>7, <2>8, <2>9, <2>10 DEF KeptTokens
<1> HIDE DEF Good
<1>10. ASSUME NEW new \in Token, Rotates(r, new) PROVE Good
  BY <1>5, <1>9, <1>10 DEF Rotates
<1>11. ASSUME NEW new \in Token, Opens(r, new) PROVE Good
  BY <1>9, <1>11 DEF Opens
<1>12. Good
  BY <1>3, <1>7, <1>8, <1>10, <1>11
<1> QED
  BY <1>12 DEF Good

LEMMA TimeKeepsTokens ==
  ASSUME SessionInv, KeptTokens, TimePasses PROVE KeptTokens' /\ (Fresh' => Fresh)
<1> USE TasksDiffer DEF SessionInv, AppInv
<1>0. row \in [Token -> Rows] /\ AppTypeOK /\ TokensInHand /\ SlotsHeld
  BY DEF ServerInv, ServerTypeOK
<1>1. PICK t \in Token : (GracePasses(t) /\ ~Hurried(t)) \/ TokenExpires(t)
  BY DEF TimePasses
<1>2. /\ UNCHANGED <<req, store, refresh, call>>
      /\ \A u \in Token \ {t} : row'[u] = row[u]
      /\ \/ row[t].state = "grace" /\ row'[t].state = "revoked" /\ ~Hurried(t)
         \/ row[t].state = "live" /\ row'[t].state = "expired"
  BY <1>0, <1>1 DEF TimePasses, GracePasses, TokenExpires, Live, Rows
<1>3. \A u \in Token : row[u].state \in Unrevoked => row'[u].state \in Unrevoked
  BY <1>2 DEF Unrevoked
<1>4. \A u \in Token : InHand(u)' <=> InHand(u)
  BY <1>2 DEF InHand
<1>5. row[t].state = "grace" => ~InHand(t)
  BY <1>2 DEF InHand, Hurried, KeptTokens, StoreKept, RotatedFor, Unrevoked
<1>6. RequestsInTurn' /\ HandedLive' /\ HandKept'
  BY <1>2, <1>3, <1>4, <1>5 DEF KeptTokens, RequestsInTurn, HandedLive, HandKept, Handed
<1>7. Fresh' => Fresh
  BY <1>2 DEF Fresh
<1>8. StoreKept' /\ RefusalsHarmless'
  <2>1. store \in Token \cup {None} /\ (RotatedFor(store) <=> RotatedFor(store)')
    BY <1>0, <1>2 DEF AppTypeOK, RotatedFor, Handed
  <2> QED
    BY <1>2, <1>3, <1>7, <2>1 DEF KeptTokens, StoreKept, RefusalsHarmless
<1> QED
  BY <1>6, <1>7, <1>8 DEF KeptTokens

\* The app's steps: a token comes to hand only with the answer that brings it.
LEMMA HandsFrame ==
  ASSUME KeptTokens, UNCHANGED row, RequestsInTurn', StoreKept', RefusalsHarmless',
         \A q \in Req : Handed(q)' => Handed(q) /\ req'[q] = req[q],
         \A t \in Token : InHand(t)' => \/ InHand(t)
                                        \/ \E r \in Req : Handed(r) /\ req[r].fresh = t /\ ~Handed(r)'
  PROVE  KeptTokens' /\ (Fresh' => Fresh)
<1>1. HandedLive' /\ HandKept'
  BY DEF KeptTokens, HandedLive, HandKept, Unrevoked
<1> QED
  BY <1>1 DEF KeptTokens, Fresh

LEMMA AppKeepsTokens ==
  ASSUME SessionInv, KeptTokens, UNCHANGED <<row, req>>, store' \in {store, None},
         \A t \in Token : InHand(t)' => InHand(t),
         refresh' = refresh \/ (refresh.at = "checking" /\ refresh'.at = "none")
  PROVE  KeptTokens' /\ (Fresh' => Fresh)
<1> USE TasksDiffer
<1>1. \A q \in Req : Handed(q)' <=> Handed(q)
  BY DEF Handed
<1>2. RequestsInTurn'
  BY DEF KeptTokens, RequestsInTurn
<1>3. StoreKept' /\ RefusalsHarmless'
  <2>1. refresh.at = "waiting" => refresh.req \in Req /\ refresh.token \in Token
    BY DEF SessionInv, AppInv, SlotsHeld, Owned, TokensInHand
  <2> QED
    BY <2>1 DEF KeptTokens, StoreKept, RotatedFor, RefusalsHarmless, Handed, Fresh
<1> QED
  BY <1>1, <1>2, <1>3, HandsFrame

LEMMA ResumedReads ==
  ASSUME AppTypeOK, NEW ok \in BOOLEAN, NEW p \in Task
  PROVE  Resumed(ok)[p].stage = "read" <=> call[p].stage = "read" /\ Resumed(ok)[p] = call[p]
  BY ResumedValues

LEMMA AnswerKeepsTokens ==
  ASSUME SessionInv, KeptTokens, RefreshAnswer
  PROVE  /\ KeptTokens' /\ (Fresh' => Fresh)
         /\ \/ store' \in Token /\ access' = "good" /\ call' = Resumed(TRUE)
            \/ UNCHANGED <<store, access, call>>
<1> USE TasksDiffer DEF SessionInv, AppInv
<1>0. /\ AppTypeOK /\ TokensInHand /\ SlotsHeld /\ req \in [Req -> Requests]
      /\ UNCHANGED row
  BY DEF ServerInv, ServerTypeOK, RefreshAnswer
<1> PICK r \in Req : r = refresh.req
  BY <1>0 DEF RefreshAnswer, SlotsHeld, Owned
<1>1. /\ r \in Req /\ req[r].op = "refresh" /\ req[r].at = "answered" /\ refresh.at = "waiting"
      /\ req[r].answer \in {"ok", "raced", "expired"} /\ refresh.token \in Token
  BY <1>0 DEF RefreshAnswer, SlotsHeld, Owned, KeptTokens, RequestsInTurn, TokensInHand
<1>2. req'[r].at = "idle" /\ \A q \in Req \ {r} : req'[q] = req[q]
  BY <1>0, <1>1, SlotEffects DEF RefreshAnswer
<1>3. \A q \in Req : Handed(q)' => q # r /\ Handed(q) /\ req'[q] = req[q]
  BY <1>2 DEF Handed
<1>4. RequestsInTurn'
  BY <1>2 DEF KeptTokens, RequestsInTurn
<1>5. \/ /\ req[r].answer = "ok" /\ store' = req[r].fresh /\ access' = "good"
         /\ refresh'.at = "none" /\ call' = Resumed(TRUE)
      \/ /\ req[r].answer \in {"raced", "expired"} /\ UNCHANGED <<store, access, call>>
         /\ refresh'.at = "checking" /\ refresh'.token = refresh.token /\ refresh'.seen = store
  <2> DEFINE checking(a) == [refresh EXCEPT !.at = "checking", !.req = None, !.seen = store, !.answer = a]
  <2>1. \/ /\ req[r].answer = "ok" /\ store' = req[r].fresh /\ access' = "good"
           /\ refresh' = NoRefresh /\ call' = Resumed(TRUE)
        \/ /\ req[r].answer \in {"raced", "expired"} /\ UNCHANGED <<store, access, call>>
           /\ refresh' = checking(req[r].answer)
    BY <1>1 DEF RefreshAnswer, StoreTokens
  <2>2. ASSUME NEW a
        PROVE  checking(a).at = "checking" /\ checking(a).token = refresh.token /\ checking(a).seen = store
    BY <1>0 DEF AppTypeOK, RefreshRecords
  <2>3. NoRefresh.at = "none"
    BY DEF NoRefresh
  <2> HIDE DEF checking
  <2> QED
    BY <2>1, <2>2, <2>3
<1>6. CASE /\ req[r].answer = "ok" /\ store' = req[r].fresh /\ access' = "good"
           /\ refresh'.at = "none" /\ call' = Resumed(TRUE)
  <2>1. Handed(r) /\ ~Handed(r)'
    BY <1>1, <1>2, <1>6 DEF Handed
  <2>2. store' \in Token /\ row[store'].state \in Unrevoked
    BY <1>1, <1>6, <2>1 DEF KeptTokens, HandedLive
  <2>3. \A t \in Token : InHand(t)' => InHand(t) \/ t = store'
    BY <1>0, <1>6, ResumedReads DEF InHand
  <2>4. StoreKept' /\ RefusalsHarmless'
    BY <1>0, <1>6, <2>2 DEF StoreKept, RefusalsHarmless
  <2>5. KeptTokens' /\ (Fresh' => Fresh)
    BY <1>0, <1>1, <1>3, <1>4, <1>6, <2>1, <2>3, <2>4, HandsFrame
  <2> QED
    BY <1>6, <2>2, <2>5
<1>7. CASE /\ req[r].answer \in {"raced", "expired"} /\ UNCHANGED <<store, access, call>>
           /\ refresh'.at = "checking" /\ refresh'.token = refresh.token /\ refresh'.seen = store
  <2>1. StoreKept'
    BY <1>0, <1>7 DEF KeptTokens, StoreKept, RotatedFor, Handed
  <2>2. RefusalsHarmless'
    BY <1>0, <1>1, <1>7 DEF KeptTokens, RefusalsHarmless, Fresh
  <2>3. \A t \in Token : InHand(t)' => InHand(t)
    BY <1>7 DEF InHand
  <2> QED
    BY <1>0, <1>3, <1>4, <1>7, <2>1, <2>2, <2>3, HandsFrame
<1> QED
  BY <1>5, <1>6, <1>7

LEMMA RejectionKeepsTokens ==
  ASSUME SessionInv, KeptTokens, RefreshRejected
  PROVE  /\ KeptTokens' /\ (Fresh' => Fresh) /\ call' = Resumed(FALSE)
         /\ Fresh => UNCHANGED <<store, access>>
<1> USE DEF SessionInv, AppInv
<1>1. /\ UNCHANGED <<row, req>> /\ store' \in {store, None} /\ refresh.at = "checking"
      /\ refresh'.at = "none" /\ call' = Resumed(FALSE)
  BY DEF RefreshRejected, ClearSession, NoRefresh, serverVars
<1>2. Fresh => UNCHANGED <<store, access>>
  BY DEF RefreshRejected, KeptTokens, RefusalsHarmless
<1>3. \A t \in Token : InHand(t)' => InHand(t)
  BY <1>1, ResumedReads, TasksDiffer DEF InHand
<1> QED
  BY <1>1, <1>2, <1>3, AppKeepsTokens

LEMMA RequestKeepsTokens ==
  ASSUME SessionInv, KeptTokens, NEW p \in Task, RefreshTokens(p)
  PROVE  KeptTokens' /\ (Fresh' => Fresh)
<1> USE TasksDiffer DEF SessionInv, AppInv
<1>0. /\ AppTypeOK /\ TokensInHand /\ SlotsHeld /\ req \in [Req -> Requests] /\ call \in [Task -> CallRecords]
      /\ UNCHANGED <<row, store>>
  BY DEF ServerInv, ServerTypeOK, AppTypeOK, RefreshTokens
<1> DEFINE c == [call[p] EXCEPT !.stage = "joining", !.token = None]
           t == call[p].token
<1>1. c.stage = "joining"
  BY <1>0 DEF CallRecords
<1>2. call' = [call EXCEPT ![p] = c] /\ t \in Token /\ InHand(t)
  BY <1>0 DEF RefreshTokens, TokensInHand, InHand
<1> HIDE DEF c
<1>3. \A q \in Task : call'[q].stage = "read" => call'[q] = call[q]
  BY <1>0, <1>1, <1>2
<1>4. CASE UNCHANGED <<req, refresh>>
  BY <1>0, <1>3, <1>4, AppKeepsTokens DEF InHand
<1>5. ASSUME refresh.at = "none", Idle # {}, req' = [req EXCEPT ![FreeSlot] = Sent("refresh", t)],
             refresh' = [NoRefresh EXCEPT !.at = "waiting", !.token = t, !.req = FreeSlot]
      PROVE  KeptTokens' /\ (Fresh' => Fresh)
  <2> DEFINE r == FreeSlot
  <2>1. r \in Req /\ req[r].at = "idle"
    BY <1>5, FreeSlotIdle
  <2>2. /\ req'[r].at = "sent" /\ req'[r].op = "refresh" /\ req'[r].token = t
        /\ \A q \in Req \ {r} : req'[q] = req[q]
    BY <1>0, <1>2, <1>5, <2>1, SendEffects DEF Op
  <2>3. refresh'.at = "waiting" /\ refresh'.token = t /\ refresh'.req = r
    BY <1>5 DEF NoRefresh
  <2> HIDE DEF r, t
  <2>4. \A q \in Req : Handed(q)' => Handed(q) /\ req'[q] = req[q]
    BY <2>2 DEF Handed
  <2>5. \A u \in Token : InHand(u)' => InHand(u)
    BY <1>0, <1>2, <1>3, <2>3 DEF InHand
  <2>6. RequestsInTurn'
    BY <1>5, <2>1, <2>2, <2>3 DEF KeptTokens, RequestsInTurn
  <2>7. StoreKept' /\ RefusalsHarmless'
    BY <1>0, <1>5, <2>2, <2>3 DEF KeptTokens, StoreKept, RotatedFor, RefusalsHarmless
  <2> QED
    BY <1>0, <2>4, <2>5, <2>6, <2>7, HandsFrame
<1> QED
  BY <1>4, <1>5 DEF RefreshTokens

\* A login's code is sent, taken up, refused or answered.
LEMMA LoginKeepsTokens ==
  ASSUME SessionInv, KeptTokens, NEW n \in Login, DeepLink(n) \/ CodeConsumed(n) \/ LoginAnswer(n)
  PROVE  /\ KeptTokens' /\ (Fresh' => Fresh)
         /\ \/ store' \in Token /\ access' = "good"
            \/ UNCHANGED <<store, access>> /\ (pc'[n] = "apply" => pc[n] = "apply")
<1> USE TasksDiffer DEF SessionInv, AppInv
<1>0. /\ AppTypeOK /\ TokensInHand /\ SlotsHeld /\ ServerTypeOK /\ req \in [Req -> Requests]
      /\ pc \in [Task -> Wheres] /\ UNCHANGED <<row, refresh, call>>
  BY DEF ServerInv, ServerTypeOK, AppTypeOK, DeepLink, CodeConsumed, LoginAnswer
<1>1. \A t \in Token : InHand(t)' => InHand(t) \/ t = store'
  BY <1>0 DEF InHand
<1> DEFINE Good == /\ KeptTokens' /\ (Fresh' => Fresh)
                   /\ \/ store' \in Token /\ access' = "good"
                      \/ UNCHANGED <<store, access>> /\ (pc'[n] = "apply" => pc[n] = "apply")
\* A request that is no refresh is sent, refused or taken.
<1>2. ASSUME NEW r \in Req, \A q \in Req \ {r} : req'[q] = req[q], ~Handed(r)',
             req[r].at = "idle" \/ req[r].op \in {"exchange", "login"},
             req'[r].at = "idle" \/ (req'[r].at \in {"sent", "answered"} /\ req'[r].op \in {"exchange", "login"}),
             UNCHANGED <<store, access>>, pc'[n] = "apply" => pc[n] = "apply"
      PROVE  Good
  <2>1. \A q \in Req : Handed(q)' => Handed(q) /\ req'[q] = req[q]
    BY <1>2 DEF Handed
  <2>2. RequestsInTurn'
    BY <1>0, <1>2 DEF KeptTokens, RequestsInTurn
  <2>3. refresh.at = "waiting" => req'[refresh.req] = req[refresh.req]
    BY <1>0, <1>2 DEF SlotsHeld, Owned
  <2>4. StoreKept' /\ RefusalsHarmless'
    BY <1>0, <1>2, <2>3 DEF KeptTokens, StoreKept, RotatedFor, RefusalsHarmless, Handed, Fresh
  <2>5. \A t \in Token : InHand(t)' => InHand(t)
    BY <1>0, <1>2 DEF InHand
  <2> QED
    BY <1>0, <1>2, <2>1, <2>2, <2>4, <2>5, HandsFrame
<1>3. ASSUME DeepLink(n) PROVE Good
  <2>1. CASE req' = [req EXCEPT ![FreeSlot] = Sent("exchange", None)] /\ Idle # {} /\ To(n, "exchange")
    <3>1. FreeSlot \in Req /\ req[FreeSlot].at = "idle"
      BY <2>1, FreeSlotIdle
    <3>2. /\ req'[FreeSlot].at = "sent" /\ req'[FreeSlot].op = "exchange"
          /\ \A q \in Req \ {FreeSlot} : req'[q] = req[q]
      BY <1>0, <2>1, <3>1, SendEffects DEF Op
    <3>3. pc'[n] # "apply" /\ UNCHANGED <<store, access>>
      BY <1>0, <1>3, <2>1 DEF DeepLink, To
    <3> HIDE DEF Good
    <3> QED
      BY <1>2, <3>1, <3>2, <3>3 DEF Handed
  <2>2. CASE UNCHANGED <<req, pc>>
    <3>1. UNCHANGED <<store, access>>
      BY <1>3 DEF DeepLink
    <3> QED
      BY <1>0, <2>2, <3>1, AppKeepsTokens DEF InHand
  <2> QED
    BY <1>3, <2>1, <2>2 DEF DeepLink
<1>4. ASSUME CodeConsumed(n) PROVE Good
  <2>0. code[n].slot \in Req
    BY <1>0, <1>4 DEF CodeConsumed, SlotsHeld
  <2> PICK r \in Req : r = code[n].slot
    BY <2>0
  <2>1. r \in Req /\ req[r].at = "sent" /\ req[r].op = "exchange"
    BY <1>0, <1>4 DEF CodeConsumed, SlotsHeld
  <2>2. UNCHANGED <<store, access, pc>>
    BY <1>4 DEF CodeConsumed
  <2>3. /\ \A q \in Req \ {r} : req'[q] = req[q]
        /\ req'[r].at = "idle" \/ (req'[r].at \in {"sent", "answered"} /\ req'[r].op \in {"exchange", "login"})
        /\ ~Handed(r)'
    <3>1. CASE code[n].verifier = n
      BY <1>0, <1>4, <2>1, <3>1 DEF CodeConsumed, Handed, Requests
    <3>2. CASE code[n].verifier # n
      <4>1. Answered(r, "invalid", None)
        BY <1>4, <3>2 DEF CodeConsumed
      <4>2. /\ \A q \in Req \ {r} : req'[q] = req[q]
            /\ req'[r].at \in {"idle", "answered"}
            /\ req[r].waited => req'[r].at = "answered" /\ req'[r].op = req[r].op /\ req'[r].answer = "invalid"
            /\ ~req[r].waited => req'[r].at = "idle"
        BY <1>0, <2>1, <4>1, AnsweredEffect DEF Answer, NoRequest
      <4> QED
        BY <2>1, <4>2 DEF Handed
    <3> QED
      BY <3>1, <3>2
  <2> HIDE DEF Good
  <2> QED
    BY <1>2, <2>1, <2>2, <2>3
<1>5. ASSUME LoginAnswer(n) PROVE Good
  <2>0. code[n].slot \in Req
    BY <1>0, <1>5 DEF LoginAnswer, SlotsHeld, Owned
  <2> PICK r \in Req : r = code[n].slot
    BY <2>0
  <2>1. r \in Req /\ req[r].at = "answered" /\ req[r].op \in {"exchange", "login"}
    BY <1>0, <1>5 DEF LoginAnswer, SlotsHeld, Owned
  <2>2. req'[r].at = "idle" /\ \A q \in Req \ {r} : req'[q] = req[q]
    BY <1>0, <1>5, <2>1, SlotEffects DEF LoginAnswer
  <2>3. CASE req[r].answer # "ok"
    <3>1. UNCHANGED <<store, access>> /\ pc'[n] # "apply"
      BY <1>0, <1>5, <2>3 DEF LoginAnswer, To
    <3> HIDE DEF Good
    <3> QED
      BY <1>2, <2>1, <2>2, <3>1 DEF Handed
  <2>4. CASE req[r].answer = "ok"
    <3>1. store' = req[r].fresh /\ access' = "good"
      BY <1>5, <2>4 DEF LoginAnswer, StoreTokens
    <3>2. Handed(r) /\ ~Handed(r)'
      BY <2>1, <2>2, <2>4 DEF Handed
    <3>3. store' \in Token /\ row[store'].state \in Unrevoked /\ ~InHand(store')
      BY <2>1, <3>1, <3>2 DEF KeptTokens, HandedLive
    <3>4. \A q \in Req : Handed(q)' => Handed(q) /\ req'[q] = req[q]
      BY <2>2, <3>2 DEF Handed
    <3>5. RequestsInTurn'
      BY <1>0, <2>2 DEF KeptTokens, RequestsInTurn
    <3>6. refresh.at = "waiting" => req'[refresh.req] = req[refresh.req] /\ store' # refresh.token
      BY <1>0, <2>1, <2>2, <3>3 DEF SlotsHeld, Owned, InHand
    <3>7. StoreKept' /\ RefusalsHarmless'
      BY <1>0, <3>3, <3>6 DEF KeptTokens, StoreKept, RefusalsHarmless, Fresh
    <3>8. KeptTokens' /\ (Fresh' => Fresh)
      BY <1>0, <1>1, <2>1, <3>1, <3>2, <3>4, <3>5, <3>7, HandsFrame
    <3> QED
      BY <3>1, <3>3, <3>8
  <2> QED
    BY <2>3, <2>4
<1> QED
  BY <1>3, <1>4, <1>5

\* A task that is about to show the user, or whose call is to be repeated or
\* has been, goes on from a stored token, and repeats with a valid one.
Needs(p) == pc[p] \in {"me", "apply", "restore"} \/ Retrying(p) \/ call[p].again
SessionThere ==
  /\ status = "authenticated" \/ (\E p \in Task : Needs(p)) => store # None
  /\ \A p \in Task : Retrying(p) => access = "good"
  /\ \A p \in Task : call[p].again =>
       /\ call[p].stage = "sent" => call[p].bearer = "good"
       /\ call[p].stage = "answered" => call[p].result # "401"
NobodyLeaves == pc[Out] = "idle" /\ pc[Unpush] = "idle"
KeptSession == KeptTokens /\ NobodyLeaves /\ (Fresh => SessionThere)

LEMMA KeptSessionKept ==
  ASSUME SessionInv, HistoryTypeOK, KeptSession, Calm, Calm', [Next]_vars
  PROVE  KeptSession'
<1> USE TasksDiffer DEF SessionInv, AppInv, KeptSession
<1>0. /\ call \in [Task -> CallRecords] /\ pc \in [Task -> Wheres] /\ AppTypeOK /\ TokensInHand
      /\ failures = 0 /\ failures' = 0 /\ store \in Token \cup {None}
  BY DEF AppTypeOK, Calm
<1>1. ~Counted("lost") /\ ~Counted("outs")
  BY DEF Calm, HistoryTypeOK, Counted
<1>2. /\ ~Restart /\ ~RefreshLost /\ ~SignOut /\ ~RemoveAccount
      /\ \A p \in Task : ~CallLost(p)
      /\ \A n \in Login : ~LoginLost(n)
  BY <1>1 DEF Restart, RefreshLost, CallLost, LoginLost, SignOut, RemoveAccount, OutStarts
<1>3. /\ ~SignOutReads /\ ~SignOutPosts /\ ~SignOutAnswered /\ ~SignOutClears /\ ~RemoveAnswered
      /\ ~Removed
  BY DEF NobodyLeaves, SignOutReads, SignOutPosts, SignOutAnswered, SignOutClears, RemoveAnswered,
     Removed
<1>4. call[Out].stage = "none" /\ \A p \in Task : call[p].stage \in {"sent", "deleting"} =>
                                       call[p].what # "delete" /\ call[p].stage # "deleting"
  BY DEF NobodyLeaves, TokensInHand
<1> DEFINE Good == KeptSession'
<1>5. ASSUME KeptTokens', Fresh' => Fresh, UNCHANGED <<store, access, status, pc, call>> PROVE Good
  BY <1>5 DEF NobodyLeaves, SessionThere, Needs, Retrying
\* One call changes, and with it no token but one of the store is read.
<1>6. ASSUME NEW p \in Task, NEW c, call' = [call EXCEPT ![p] = c],
             UNCHANGED <<row, req, refresh>>, store' \in {store, None},
             c.stage = "read" => c.token = store
      PROVE  KeptTokens' /\ (Fresh' => Fresh)
  <2>1. \A t \in Token : InHand(t)' => InHand(t)
    BY <1>0, <1>6 DEF InHand
  <2> QED
    BY <1>6, <2>1, AppKeepsTokens
<1>7. ASSUME NEW p \in Task, NEW c, call' = [call EXCEPT ![p] = c], NobodyLeaves',
             KeptTokens', Fresh' => Fresh, Fresh => UNCHANGED <<store, access>>,
             \A q \in Task : pc'[q] \in {"me", "apply", "restore"} => Needs(q) \/ store # None,
             status' = "authenticated" => status = "authenticated" \/ Needs(p),
             c.stage # "resumed",
             Fresh /\ c.again => /\ Needs(p)
                                 /\ c.stage = "sent" => c.bearer = "good"
                                 /\ c.stage = "answered" => c.result # "401"
      PROVE  Good
  <2>1. SUFFICES ASSUME Fresh, Fresh' PROVE SessionThere'
    BY <1>7
  <2>2. \A q \in Task \ {p} : call'[q] = call[q] /\ (Retrying(q)' <=> Retrying(q))
    BY <1>0, <1>7 DEF Retrying
  <2>3. call'[p] = c /\ ~Retrying(p)'
    BY <1>0, <1>7 DEF Retrying
  <2>4. \A q \in Task : Needs(q)' => Needs(q) \/ store # None
    BY <1>7, <2>1, <2>2, <2>3 DEF Needs
  <2>5. status' = "authenticated" \/ (\E q \in Task : Needs(q)') => store' # None
    BY <1>7, <2>1, <2>4 DEF SessionThere
  <2>6. \A q \in Task : Retrying(q)' => access' = "good"
    BY <1>7, <2>1, <2>2, <2>3 DEF SessionThere
  <2>7. \A q \in Task : call'[q].again =>
          /\ call'[q].stage = "sent" => call'[q].bearer = "good"
          /\ call'[q].stage = "answered" => call'[q].result # "401"
    BY <1>7, <2>1, <2>2, <2>3 DEF SessionThere
  <2> QED
    BY <2>5, <2>6, <2>7 DEF SessionThere
\* The same when a call only ends, or starts afresh.
<1>8. ASSUME NEW p \in Task, NEW c, call' = [call EXCEPT ![p] = c], NobodyLeaves',
             UNCHANGED <<row, req, refresh, store, access>>, c.stage \notin {"resumed", "read"}, ~c.again,
             \A q \in Task : pc'[q] \in {"me", "apply", "restore"} => Needs(q) \/ store # None,
             status' = "authenticated" => status = "authenticated" \/ Needs(p)
      PROVE  Good
  BY <1>6, <1>7, <1>8
<1> HIDE DEF Good
<1>9. ASSUME UNCHANGED vars \/ AccessRunsOut PROVE Good
  <2>1. /\ UNCHANGED <<row, req, refresh, store, call, pc, status>>
        /\ access' = access \/ \A p \in Task : ~Retrying(p)
    BY <1>9 DEF vars, appVars, serverVars, AccessRunsOut
  <2>2. KeptTokens' /\ (Fresh' => Fresh)
    BY <2>1, AppKeepsTokens DEF InHand
  <2> QED
    BY <2>1, <2>2 DEF Good, NobodyLeaves, SessionThere, Needs, Retrying
<1>10. ASSUME Server \/ TimePasses PROVE Good
  <2>1. UNCHANGED <<store, access, status, pc, call>>
    BY <1>10 DEF Server, appVars, TimePasses
  <2> QED
    BY <1>0, <1>5, <1>10, <2>1, ServerKeepsTokens, TimeKeepsTokens
<1>11. ASSUME RefreshAnswer PROVE Good
  <2>1. /\ KeptTokens' /\ (Fresh' => Fresh) /\ UNCHANGED <<status, pc>>
        /\ \/ store' \in Token /\ access' = "good" /\ call' = Resumed(TRUE)
           \/ UNCHANGED <<store, access, call>>
    BY <1>11, AnswerKeepsTokens DEF RefreshAnswer
  <2>2. CASE store' \in Token /\ access' = "good" /\ call' = Resumed(TRUE)
    <3>1. \A p \in Task : call'[p].again => call'[p] = call[p]
      BY <1>0, <2>2, ResumedValues
    <3>2. Fresh => SessionThere'
      BY <2>2, <3>1 DEF SessionThere
    <3> QED
      BY <2>1, <3>2 DEF Good, NobodyLeaves
  <2> QED
    BY <1>5, <2>1, <2>2
<1>12. ASSUME RefreshRejected PROVE Good
  <2>1. /\ KeptTokens' /\ (Fresh' => Fresh) /\ call' = Resumed(FALSE) /\ UNCHANGED <<status, pc>>
        /\ Fresh => UNCHANGED <<store, access>>
    BY <1>12, RejectionKeepsTokens DEF RefreshRejected
  <2>2. ASSUME NEW p \in Task
        PROVE  call'[p] = call[p] \/ (call'[p].stage = "done" /\ call'[p].again = FALSE)
    BY <1>0, <2>1, ResumedValues
  <2>3. \A p \in Task : Needs(p)' => Needs(p)
    BY <2>1, <2>2 DEF Needs, Retrying
  <2>4. Fresh => SessionThere'
    BY <2>1, <2>2, <2>3 DEF SessionThere, Retrying
  <2> QED
    BY <2>1, <2>4 DEF Good, NobodyLeaves
<1>13. ASSUME NEW p \in Task, RefreshTokens(p) PROVE Good
  <2> DEFINE c == [call[p] EXCEPT !.stage = "joining", !.token = None]
  <2>1. /\ call' = [call EXCEPT ![p] = c] /\ UNCHANGED <<store, access, status, pc>>
        /\ KeptTokens' /\ (Fresh' => Fresh)
    BY <1>13, RequestKeepsTokens DEF RefreshTokens
  <2>2. c.stage = "joining" /\ c.again = call[p].again
    BY <1>0 DEF CallRecords
  <2> HIDE DEF c
  <2> QED
    BY <1>7, <2>1, <2>2 DEF Needs, NobodyLeaves
<1>14. ASSUME NEW p \in Task, ApiHandles(p) PROVE Good
  <2> DEFINE result == ApiResult(call[p])
             answered == [call[p] EXCEPT !.stage = "answered", !.bearer = "none", !.result = result]
  <2>1. /\ UNCHANGED <<row, req, refresh, store, access, status, pc>> /\ call[p].stage = "sent"
        /\ \/ call' = [call EXCEPT ![p] = Result(result)]
           \/ call' = [call EXCEPT ![p] = answered]
    BY <1>4, <1>14 DEF ApiHandles
  <2>2. result \in {"ok", "401", "500"}
    BY DEF ApiResult
  <2>3. store # None => UserExists
    <3>1. store # None => InHand(store)
      BY DEF InHand
    <3> QED
      BY <1>0, <3>1 DEF KeptTokens, HandKept, UserExists
  <2>4. Fresh /\ call[p].again => result = "ok"
    <3>1. Fresh /\ call[p].again => call[p].bearer = "good" /\ store # None
      BY <2>1 DEF SessionThere, Needs
    <3> QED
      BY <2>3, <3>1 DEF ApiResult
  <2> HIDE DEF result
  <2>5. answered.stage = "answered" /\ answered.result = result /\ answered.again = call[p].again
    BY <1>0 DEF CallRecords
  <2> HIDE DEF answered
  <2>6. Result(result).stage = "done" /\ Result(result).again = FALSE
    BY <1>0, <2>2, CallValues
  <2>7. CASE call' = [call EXCEPT ![p] = Result(result)]
    BY <1>8, <2>1, <2>7, <2>6 DEF Needs, NobodyLeaves
  <2>8. CASE call' = [call EXCEPT ![p] = answered]
    <3>1. KeptTokens' /\ (Fresh' => Fresh)
      BY <1>6, <2>1, <2>5, <2>8
    <3> QED
      BY <1>7, <2>1, <2>4, <2>5, <2>8, <3>1 DEF Needs, NobodyLeaves
  <2> QED
    BY <2>1, <2>7, <2>8
<1>15. \A p \in Task : ~ApiDeleted(p) /\ ~DeletionLost(p)
  BY <1>4 DEF ApiDeleted, DeletionLost
<1>16. ASSUME NEW p \in Task, CallAnswer(p) PROVE Good
  <2> DEFINE c == [call[p] EXCEPT !.stage = "read", !.token = store, !.result = "none"]
  <2>1. UNCHANGED <<row, req, refresh, status, pc>> /\ call[p].stage = "answered"
    BY <1>16 DEF CallAnswer, serverVars
  <2>2. c.stage = "read" /\ c.token = store /\ c.again = call[p].again
    BY <1>0 DEF CallRecords
  <2>3. \A result \in {"ok", "no"} : Result(result).stage = "done" /\ ~Result(result).again
    BY <1>0, CallValues
  <2>4. \/ /\ UNCHANGED <<store, access>>
           /\ \E result \in {"ok", "no"} : call' = [call EXCEPT ![p] = Result(result)]
        \/ /\ UNCHANGED <<store, access>> /\ ~call[p].again /\ call' = [call EXCEPT ![p] = c]
        \/ /\ call[p].again /\ call[p].result = "401" /\ store' = None
           /\ call' = [call EXCEPT ![p] = Result("no")]
    BY <1>16 DEF CallAnswer, ClearSession
  <2> HIDE DEF c
  <2>5. CASE /\ UNCHANGED <<store, access>>
             /\ \E result \in {"ok", "no"} : call' = [call EXCEPT ![p] = Result(result)]
    BY <1>8, <2>1, <2>3, <2>5 DEF Needs, NobodyLeaves
  <2>6. CASE UNCHANGED <<store, access>> /\ ~call[p].again /\ call' = [call EXCEPT ![p] = c]
    <3>1. KeptTokens' /\ (Fresh' => Fresh)
      BY <1>6, <2>1, <2>2, <2>6
    <3> QED
      BY <1>7, <2>1, <2>2, <2>6, <3>1 DEF Needs, NobodyLeaves
  <2>7. CASE /\ call[p].again /\ call[p].result = "401" /\ store' = None
             /\ call' = [call EXCEPT ![p] = Result("no")]
    <3>1. ~Fresh
      BY <2>1, <2>7 DEF SessionThere
    <3>2. KeptTokens' /\ (Fresh' => Fresh)
      BY <1>6, <2>1, <2>3, <2>7
    <3> QED
      BY <2>1, <3>1, <3>2 DEF Good, NobodyLeaves
  <2> QED
    BY <2>4, <2>5, <2>6, <2>7
<1>17. ASSUME NEW p \in Task, CallRetries(p) PROVE Good
  <2> DEFINE plain == Calls(call[p].what)
             c == [plain EXCEPT !.again = TRUE]
  <2>1. call[p].what \in {"none", "restore", "me", "put", "del", "delete"}
    BY <1>0 DEF CallRecords
  <2>2. plain.stage = "sent" /\ plain.bearer = access /\ plain \in CallRecords
    BY <1>0, <2>1, CallValues, CallFacts
  <2>3. /\ call' = [call EXCEPT ![p] = c] /\ Retrying(p)
        /\ UNCHANGED <<row, req, refresh, store, access, status, pc>>
    BY <1>17 DEF CallRetries, serverVars
  <2> HIDE DEF plain
  <2>4. c.stage = "sent" /\ c.bearer = access
    BY <2>2 DEF CallRecords
  <2> HIDE DEF c
  <2>5. KeptTokens' /\ (Fresh' => Fresh)
    BY <1>6, <2>3, <2>4
  <2>6. Fresh => access = "good"
    BY <2>3 DEF SessionThere
  <2> QED
    BY <1>7, <2>3, <2>4, <2>5, <2>6 DEF Needs, NobodyLeaves
<1>18. NoCall.stage = "none" /\ ~NoCall.again
  BY <1>0, CallValues
<1>19. ASSUME NEW p \in Task, MeAnswer(p) PROVE Good
  <2>1. /\ UNCHANGED <<row, req, refresh, store, access>> /\ call' = [call EXCEPT ![p] = NoCall]
        /\ pc[p] = "me"
    BY <1>19 DEF MeAnswer, serverVars
  <2>2. /\ \A q \in Task : pc'[q] \in {"me", "apply", "restore"} => pc'[q] = pc[q]
        /\ \A q \in Task : pc[q] = "idle" => pc'[q] = "idle" \/ q = Push
    BY <1>0, <1>19 DEF MeAnswer, To
  <2> QED
    BY <1>8, <1>18, <2>1, <2>2 DEF Needs, NobodyLeaves
<1>20. ASSUME NEW p \in Task, PushEnds(p) PROVE Good
  <2>1. /\ UNCHANGED <<row, req, refresh, store, access, status>> /\ call' = [call EXCEPT ![p] = NoCall]
        /\ \A q \in Task : pc'[q] \in {pc[q], "idle"}
    BY <1>0, <1>20 DEF PushEnds, serverVars, To
  <2> QED
    BY <1>8, <1>18, <2>1 DEF Needs, NobodyLeaves
<1>21. ASSUME BootReads PROVE Good
  <2> DEFINE c == [NoCall EXCEPT !.stage = "read", !.what = "restore", !.token = store]
  <2>1. c.stage = "read" /\ c.token = store /\ ~c.again
    BY DEF NoCall
  <2>2. /\ UNCHANGED <<row, req, refresh, store, access>> /\ status' \in {status, "anonymous"}
        /\ \A q \in Task \ {Boot} : pc'[q] = pc[q]
        /\ \/ call' = call /\ pc'[Boot] = "idle"
           \/ call' = [call EXCEPT ![Boot] = c] /\ store # None
    BY <1>0, <1>21 DEF BootReads, GoAnonymous, To, serverVars
  <2> HIDE DEF c
  <2>3. CASE call' = call /\ pc'[Boot] = "idle"
    <3>1. KeptTokens' /\ (Fresh' => Fresh)
      BY <2>2, <2>3, AppKeepsTokens DEF InHand
    <3>2. \A q \in Task : Needs(q)' => Needs(q)
      BY <2>2, <2>3 DEF Needs, Retrying
    <3> QED
      BY <2>2, <2>3, <3>1, <3>2 DEF Good, NobodyLeaves, SessionThere, Retrying
  <2>4. CASE call' = [call EXCEPT ![Boot] = c] /\ store # None
    <3>1. KeptTokens' /\ (Fresh' => Fresh)
      BY <1>6, <2>1, <2>2, <2>4
    <3> QED
      BY <1>7, <2>1, <2>2, <2>4, <3>1 DEF NobodyLeaves
  <2> QED
    BY <2>2, <2>3, <2>4
<1>22. ASSUME NEW p \in Task, p \notin {Out, Unpush}, ApplySession(p), Needs(p),
              UNCHANGED <<row, req, refresh, store, access, status>>
       PROVE  Good
  <2>1. Calls("me").stage = "sent" /\ ~Calls("me").again
    BY <1>0, CallValues
  <2>2. call' = [call EXCEPT ![p] = Calls("me")] /\ \A q \in Task \ {p} : pc'[q] = pc[q]
    BY <1>0, <1>22 DEF ApplySession, To
  <2> QED
    BY <1>8, <1>22, <2>1, <2>2 DEF Needs, NobodyLeaves
<1>23. ASSUME BootRestored PROVE Good
  <2>1. UNCHANGED <<row, req, refresh, store, access>> /\ Needs(Boot)
    BY <1>23 DEF BootRestored, serverVars, Needs
  <2>2. CASE GoAnonymous /\ To(Boot, "idle") /\ call' = [call EXCEPT ![Boot] = NoCall]
    <3>1. pc'[Boot] = "idle" /\ \A q \in Task \ {Boot} : pc'[q] = pc[q]
      BY <1>0, <2>2 DEF To
    <3> QED
      BY <1>8, <1>18, <2>1, <2>2, <3>1 DEF Needs, NobodyLeaves
  <2> QED
    BY <1>22, <1>23, <2>1, <2>2 DEF BootRestored
<1>24. ASSUME NEW n \in Login, LoginApplies(n) PROVE Good
  <2>1. UNCHANGED <<row, req, refresh, store, access, status>> /\ Needs(n) /\ ApplySession(n)
    BY <1>24 DEF LoginApplies, serverVars, Needs
  <2> QED
    BY <1>22, <2>1
<1>25. ASSUME PushRegisters PROVE Good
  <2>1. /\ UNCHANGED <<row, req, refresh, store, access, status>>
        /\ \A q \in Task \ {Push} : pc'[q] = pc[q]
        /\ pc'[Push] \in {"put", "idle"}
        /\ call' = call \/ call' = [call EXCEPT ![Push] = Calls("put")]
    BY <1>0, <1>25 DEF PushRegisters, serverVars, To
  <2>2. Calls("put").stage = "sent" /\ ~Calls("put").again
    BY <1>0, CallValues
  <2>3. CASE call' = call
    <3>1. KeptTokens' /\ (Fresh' => Fresh)
      BY <2>1, <2>3, AppKeepsTokens DEF InHand
    <3>2. \A q \in Task : Needs(q)' => Needs(q)
      BY <2>1, <2>3 DEF Needs, Retrying
    <3> QED
      BY <2>1, <2>3, <3>1, <3>2 DEF Good, NobodyLeaves, SessionThere, Retrying
  <2> QED
    BY <1>8, <2>1, <2>2, <2>3 DEF Needs, NobodyLeaves
<1>26. ASSUME NEW n \in Login, StartLogin(n) PROVE Good
  <2>1. UNCHANGED <<row, req, refresh, store, access, status, pc, call>>
    BY <1>26 DEF StartLogin, serverVars
  <2>2. KeptTokens' /\ (Fresh' => Fresh)
    BY <2>1, AppKeepsTokens DEF InHand
  <2> QED
    BY <1>5, <2>1, <2>2
<1>27. ASSUME NEW n \in Login, DeepLink(n) \/ CodeConsumed(n) \/ LoginAnswer(n) PROVE Good
  <2>1. /\ KeptTokens' /\ (Fresh' => Fresh)
        /\ \/ store' \in Token /\ access' = "good"
           \/ UNCHANGED <<store, access>> /\ (pc'[n] = "apply" => pc[n] = "apply")
    BY <1>27, LoginKeepsTokens
  <2>2. /\ UNCHANGED <<call, status>> /\ \A q \in Task \ {n} : pc'[q] = pc[q]
        /\ pc'[n] = pc[n] \/ pc'[n] \in {"exchange", "apply", "idle"}
    BY <1>0, <1>27 DEF DeepLink, CodeConsumed, LoginAnswer, To
  <2>3. CASE store' \in Token /\ access' = "good"
    <3>1. Fresh => SessionThere'
      BY <2>2, <2>3 DEF SessionThere
    <3> QED
      BY <2>1, <2>2, <3>1 DEF Good, NobodyLeaves
  <2>4. CASE UNCHANGED <<store, access>> /\ (pc'[n] = "apply" => pc[n] = "apply")
    <3>1. \A q \in Task : Needs(q)' => Needs(q)
      BY <2>2, <2>4 DEF Needs, Retrying
    <3>2. Fresh => SessionThere'
      BY <2>2, <2>4, <3>1 DEF SessionThere, Retrying
    <3> QED
      BY <2>1, <2>2, <3>2 DEF Good, NobodyLeaves
  <2> QED
    BY <2>1, <2>3, <2>4
<1>28. Good
  BY <1>2, <1>3, <1>9, <1>10, <1>11, <1>12, <1>13, <1>14, <1>15, <1>16, <1>17, <1>19, <1>20, <1>21,
     <1>23, <1>24, <1>25, <1>26, <1>27 DEF Next
<1> QED
  BY <1>28 DEF Good

\* As long as no answer is lost, no token expires, nothing is rolled back and
\* nobody signs out, a signed-in app holds a token that is valid, or whose
\* successor is in the answer it waits for (SessionKept).
THEOREM SessionsAreKept == Spec => []SessionKept
<1> DEFINE Inv == Calm => KeptSession
<1>1. Init => Inv
  <2> SUFFICES ASSUME Init PROVE KeptSession
    OBVIOUS
  <2>1. SessionInv
    BY InitHolds
  <2>2. /\ refresh.at = "none" /\ \A p \in Task : call[p].stage = "none" /\ ~call[p].again
        /\ \A p \in Task : pc[p] \in {"start", "idle"}
        /\ pc[Out] = "idle" /\ pc[Unpush] = "idle" /\ status = "loading"
    BY TasksDiffer DEF Init, NoRefresh, NoCall
  <2>3. req = [r \in Req |-> NoRequest] /\ NoRequest.at = "idle"
    BY DEF Init, TokensInit, SignedInBefore, NoRequest
  <2>4. store # None => store \in Token /\ row[store].state = "live"
    <3>1. 1 \in Token
      BY TokensAssumption DEF Token
    <3> QED
      BY <3>1 DEF Init, SignedInBefore, Inserted
  <2>5. KeptTokens
    BY <2>2, <2>3, <2>4, TasksDiffer DEF KeptTokens, RequestsInTurn, HandedLive, HandKept, StoreKept,
       RefusalsHarmless, InHand, Handed, Unrevoked
  <2> QED
    BY <2>2, <2>5 DEF KeptSession, NobodyLeaves, SessionThere, Needs, Retrying
<1>2. SessionInv /\ Inv => SessionKept
  <2> SUFFICES ASSUME SessionInv, Inv, Undisturbed, status = "authenticated"
               PROVE  store # None /\ (row[store].state \in Unrevoked \/ RotatedFor(store))
    BY DEF SessionKept, RotatedFor, Handed
  <2>1. KeptTokens /\ SessionThere
    BY DEF Undisturbed, Calm, Fresh, KeptSession
  <2> QED
    BY <2>1 DEF SessionThere, KeptTokens, StoreKept
<1>3. SessionInv /\ HistoryTypeOK /\ Counting /\ Inv /\ [Next]_vars => Inv'
  <2> SUFFICES ASSUME SessionInv, HistoryTypeOK, Counting, Inv, [Next]_vars, Calm' PROVE KeptSession'
    OBVIOUS
  <2>1. failures = 0
    BY FailuresGrow DEF Calm, Counting
  <2>2. count.lost = 0 /\ count.outs = 0
    <3>1. count' = count \/ \E what \in {"logins", "stale", "outs", "lost", "time"} : Counted(what)
      BY CountSteps
    <3> QED
      BY <3>1 DEF Calm, HistoryTypeOK, Counted
  <2> QED
    BY <2>1, <2>2, KeptSessionKept DEF Calm
<1> QED
  BY <1>1, <1>2, <1>3, HistoryHolds, SessionInvHolds, FailuresCounted, PTL DEF Spec

-----------------------------------------------------------------------------
(* No ring of waits.                                                       *)

LEMMA OrderStartsHere == Init => OrderInv
<1> SUFFICES ASSUME Init PROVE OrderInv
  OBVIOUS
<1>1. /\ \/ row = [t \in Token |-> UnusedRow]
         \/ row = [t \in Token |-> IF t = 1 THEN Inserted(1, 1, None) ELSE UnusedRow]
      /\ req = [r \in Req |-> NoRequest]
  BY DEF Init, TokensInit, SignedInBefore
<1> QED
  BY <1>1, OrderStarts

\* However the app's rotations, sign-outs, logins and deletions wait for each
\* other's rows, no ring of waits forms without the deletion of the account, the
\* one that PostgreSQL breaks (auth.service.ts:171, 229).
THEOREM NoRingOfWaits == Spec => []OnlyDeletionsDeadlock
<1>1. SessionInv /\ OrderInv /\ [Next]_vars => OrderInv'
  <2> SUFFICES ASSUME SessionInv, OrderInv, [Next]_vars PROVE OrderInv'
    OBVIOUS
  <2>1. ServerInv /\ ServerActs
    BY StepsKeepSlots DEF SessionInv
  <2> QED
    BY <2>1, ServerKeepsOrder, TimeKeepsOrder, ClientKeepsOrder DEF ServerActs, ClientStep
<1>2. SessionInv /\ OrderInv => OnlyDeletionsDeadlock
  BY RingsNeedDeletions DEF SessionInv
<1> QED
  BY <1>1, <1>2, OrderStartsHere, SessionInvHolds, PTL DEF Spec

=============================================================================
