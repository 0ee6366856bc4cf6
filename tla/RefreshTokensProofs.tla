--------------------------- MODULE RefreshTokensProofs ---------------------------
(* What the auth server keeps whatever its clients send: the lemmas that the *)
(* theorems about the app's and the browser's sessions rest on.              *)
EXTENDS RefreshTokens, WellFoundedInduction, TLAPS

Rows == [state : RowState, family : Token \cup {None}, from : Token \cup {None}]
Requests == [at : Phase, op : Op, token : Token \cup {None}, waited : BOOLEAN,
             sweep : SUBSET Token, answer : Answer, fresh : Token \cup {None}]

ServerTypeOK == row \in [Token -> Rows] /\ req \in [Req -> Requests]

\* A row in use has a family, the token of its login, and stems from its family.
RowsInFamilies ==
  \A t \in Token :
    /\ row[t].state = "unused" <=> row[t].family = None
    /\ row[t].family = None => row[t].from = None
    /\ row[t].family # None => row[row[t].family].state # "unused"
    /\ row[t].from # None => row[t].from # t /\ row[t].family = row[row[t].from].family

\* Requests that rotate or revoke carry a token, and each locks its own.
Locks ==
  /\ \A r \in Req : req[r].at \in Holding => req[r].op \in {"refresh", "logout"}
  /\ \A r \in Req : req[r].op \in {"refresh", "logout"} /\ req[r].at \in Holding \cup {"sent"}
                    => req[r].token \in Token
  /\ \A q, r \in Req : req[q].at \in Holding /\ req[r].at \in Holding
                       /\ req[q].token = req[r].token => q = r

\* A rotation goes on from a live token, which its lock keeps alive.
RotatesLive == \A r \in Req : req[r].at = "rotating" => row[req[r].token].state = "live"

\* As MobileSession states it.
OneLive ==
  \A t, u \in Token :
    /\ row[t].family # None /\ row[t].family = row[u].family
    /\ row[t].state \in Unrevoked /\ row[u].state \in Unrevoked
    => t = u

\* A revocation under way has seen every live successor of its token.
SweepSeesSuccessors ==
  \A r \in Req : req[r].at = "sweeping" =>
    \A t \in Token : row[t].from = req[r].token /\ row[t].state = "live" => t \in req[r].sweep

ServerInv ==
  ServerTypeOK /\ RowsInFamilies /\ Locks /\ RotatesLive /\ OneLive /\ SweepSeesSuccessors

\* What leaves the locks alone: a client sends a request, takes or gives up an
\* answer; the server takes up a deletion.
ClientOnly ==
  /\ row' = row /\ req' \in [Req -> Requests]
  /\ \A r \in Req :
       \/ req'[r].at \in {"idle", "answered", "deleting"}
       \/ /\ req'[r].at = req[r].at /\ req'[r].token = req[r].token /\ req'[r].sweep = req[r].sweep
          /\ req'[r].op = req[r].op
       \/ req'[r].at = "sent" /\ (req'[r].op \in {"refresh", "logout"} => req'[r].token \in Token)

LEMMA ClientKeepsServer == ServerInv /\ ClientOnly => ServerInv'
<1> SUFFICES ASSUME ServerInv, ClientOnly PROVE ServerInv'
  OBVIOUS
<1> USE DEF ServerInv, ClientOnly
<1>1. \A r \in Req : req'[r].at \in Holding =>
        req[r].at = req'[r].at /\ req'[r].token = req[r].token /\ req'[r].sweep = req[r].sweep
        /\ req'[r].op = req[r].op
  BY DEF Holding
<1>2. ServerTypeOK'
  BY DEF ServerTypeOK
<1>3. RowsInFamilies' /\ OneLive'
  BY DEF RowsInFamilies, OneLive
<1>4. Locks'
  BY <1>1 DEF Locks, Holding
<1>5. RotatesLive' /\ SweepSeesSuccessors'
  BY <1>1 DEF RotatesLive, SweepSeesSuccessors, Holding
<1> QED
  BY <1>2, <1>3, <1>4, <1>5

-----------------------------------------------------------------------------
(* The server's own steps.                                                 *)

LEMMA NoneIsNoToken == None \notin Token
  BY TokensAssumption DEF Token

LEMMA AnsweredEffect ==
  ASSUME ServerTypeOK, NEW r \in Req, NEW answer \in Answer, NEW fresh \in Token \cup {None},
         Answered(r, answer, fresh)
  PROVE  /\ req' \in [Req -> Requests]
         /\ \A q \in Req \ {r} : req'[q] = req[q]
         /\ req'[r].at \in {"idle", "answered"}
         /\ req[r].waited => /\ req'[r].at = "answered" /\ req'[r].op = req[r].op
                             /\ req'[r].waited /\ req'[r].answer = answer
                             /\ req'[r].fresh = fresh
         /\ ~req[r].waited => req'[r] = NoRequest
<1> DEFINE told == [NoRequest EXCEPT !.at = "answered", !.op = req[r].op, !.waited = TRUE,
                                     !.answer = answer, !.fresh = fresh]
<1>1. NoRequest \in Requests /\ NoRequest.at = "idle"
  BY DEF NoRequest, Requests, Phase, Op, Answer
<1>2. /\ told \in Requests /\ told.at = "answered" /\ told.op = req[r].op /\ told.waited
      /\ told.answer = answer /\ told.fresh = fresh
  BY DEF NoRequest, Requests, Phase, Op, Answer, ServerTypeOK
<1>3. req' = [req EXCEPT ![r] = IF req[r].waited THEN told ELSE NoRequest]
  BY DEF Answered
<1> HIDE DEF told
<1> QED
  BY <1>1, <1>2, <1>3 DEF ServerTypeOK

LEMMA EntersEffect ==
  ASSUME ServerTypeOK, NEW r \in Req, NEW phase \in Phase, Enters(r, phase)
  PROVE  /\ req' \in [Req -> Requests]
         /\ \A q \in Req \ {r} : req'[q] = req[q]
         /\ req'[r].at = phase /\ req'[r].op = req[r].op /\ req'[r].token = req[r].token
         /\ req'[r].sweep = req[r].sweep /\ req'[r].waited = req[r].waited
  BY DEF Enters, ServerTypeOK, Requests

\* An answer given without a change of the table.
LEMMA AnswerKeepsServer ==
  ASSUME ServerInv, UNCHANGED row, NEW r \in Req, NEW answer \in Answer,
         NEW fresh \in Token \cup {None}, Answered(r, answer, fresh)
  PROVE  ServerInv'
  BY AnsweredEffect, ClientKeepsServer DEF ClientOnly, ServerInv

\* The transactions that only lock.
LEMMA LockingKeepsServer ==
  ASSUME ServerInv, UNCHANGED row, NEW r \in Req, NEW phase \in {"rotating", "revoking"},
         Enters(r, phase), req[r].at = "sent", req[r].op \in {"refresh", "logout"},
         ~LockedByOther(req[r].token, r),
         phase = "rotating" => row[req[r].token].state = "live"
  PROVE  ServerInv'
<1> USE DEF ServerInv
<1>1. /\ req' \in [Req -> Requests]
      /\ \A q \in Req \ {r} : req'[q] = req[q]
      /\ req'[r].at = phase /\ req'[r].op = req[r].op /\ req'[r].token = req[r].token
  BY EntersEffect DEF Phase, Holding
<1>2. ServerTypeOK' /\ RowsInFamilies' /\ OneLive'
  BY <1>1 DEF ServerTypeOK, RowsInFamilies, OneLive
<1>3. Locks'
  BY <1>1 DEF Locks, LockedByOther, Holding
<1>4. RotatesLive' /\ SweepSeesSuccessors'
  BY <1>1 DEF RotatesLive, SweepSeesSuccessors
<1> QED
  BY <1>2, <1>3, <1>4

LEMMA LeastToken ==
  ASSUME NEW T, T \subseteq Token, T # {}
  PROVE  \E x \in T : \A y \in T : x <= y
<1> DEFINE Less == {p \in Nat \X Nat : p[1] < p[2]}
<1>1. IsWellFoundedOn(Less, Nat) /\ T \subseteq Nat
  BY NatLessThanWellFounded DEF OpToRel, Token
<1>2. PICK x \in T : \A y \in T : <<y, x>> \notin Less
  <2> HIDE DEF Less
  <2> QED
    BY <1>1, WFMin
<1>3. ASSUME NEW y \in T PROVE x <= y
  <2>1. x \in Nat /\ y \in Nat /\ <<y, x>> \in Nat \X Nat
    BY <1>1
  <2> QED
    BY <1>2, <2>1
<1> QED
  BY <1>3

LEMMA NextTokenUnused == Unused # {} => NextToken \in Unused
  BY LeastToken DEF NextToken, Unused

\* Requests that keep their locks while the table changes.
Unlocks(r) == /\ req' \in [Req -> Requests] /\ req'[r].at \in {"idle", "answered"}
              /\ \A q \in Req \ {r} : req'[q] = req[q]

LEMMA UnlocksKeepsLocks == ASSUME ServerInv, NEW r \in Req, Unlocks(r) PROVE Locks'
  BY DEF ServerInv, Locks, Unlocks, Holding

LEMMA RotationKeepsServer ==
  ASSUME ServerInv, NEW r \in Req, RotationCommits(r) PROVE ServerInv'
<1> DEFINE old == req[r].token
           new == NextToken
<1>1. /\ req[r].at = "rotating" /\ old \in Token /\ row[old].state = "live"
      /\ new \in Token /\ row[new].state = "unused" /\ row[new].family = None
      /\ row[old].family \in Token /\ row[row[old].family].state # "unused"
  BY NextTokenUnused, NoneIsNoToken
  DEF ServerInv, ServerTypeOK, Locks, RotatesLive, RowsInFamilies, RotationCommits, Unused, Holding, Rows
<1>2. Unlocks(r)
  BY AnsweredEffect, <1>1 DEF RotationCommits, Unlocks, ServerInv, Answer
<1>3. /\ row' \in [Token -> Rows]
      /\ row'[old].state = "grace" /\ row'[old].family = row[old].family
      /\ row'[old].from = row[old].from
      /\ row'[new].state = "live" /\ row'[new].family = row[old].family /\ row'[new].from = old
      /\ \A t \in Token \ {old, new} : row'[t] = row[t]
  BY <1>1 DEF RotationCommits, ServerInv, ServerTypeOK, Rows, RowState, Inserted
<1> HIDE DEF new
<1> USE DEF ServerInv
<1>4. ServerTypeOK'
  BY <1>2, <1>3 DEF ServerTypeOK, Unlocks
<1>5. RowsInFamilies'
  BY <1>1, <1>3, NoneIsNoToken DEF RowsInFamilies, ServerTypeOK, Rows
<1>6. OneLive'
  BY <1>1, <1>3 DEF OneLive, Unrevoked
<1>7. RotatesLive'
  BY <1>1, <1>2, <1>3 DEF RotatesLive, Locks, Unlocks, Holding
<1>8. SweepSeesSuccessors'
  BY <1>1, <1>2, <1>3 DEF SweepSeesSuccessors, Locks, Unlocks, Holding
<1> QED
  BY <1>2, <1>4, <1>5, <1>6, <1>7, <1>8, UnlocksKeepsLocks

LEMMA InsertionKeepsServer ==
  ASSUME ServerInv, NEW r \in Req, SessionInserted(r) PROVE ServerInv'
<1> DEFINE new == NextToken
<1>1. new \in Token /\ row[new].state = "unused" /\ row[new].family = None
  BY NextTokenUnused DEF ServerInv, RowsInFamilies, SessionInserted, Unused
<1>2. Unlocks(r)
  BY AnsweredEffect, <1>1 DEF SessionInserted, Unlocks, ServerInv, Answer
<1>3. /\ row' \in [Token -> Rows]
      /\ row'[new].state = "live" /\ row'[new].family = new /\ row'[new].from = None
      /\ \A t \in Token \ {new} : row'[t] = row[t]
  BY <1>1 DEF SessionInserted, ServerInv, ServerTypeOK, Rows, RowState, Inserted
<1> HIDE DEF new
<1> USE DEF ServerInv
<1>4. ServerTypeOK'
  BY <1>2, <1>3 DEF ServerTypeOK, Unlocks
<1>5. RowsInFamilies'
  BY <1>1, <1>3, NoneIsNoToken DEF RowsInFamilies, ServerTypeOK, Rows
<1>6. OneLive'
  BY <1>1, <1>3 DEF OneLive, RowsInFamilies
<1>7. RotatesLive' /\ SweepSeesSuccessors'
  BY <1>1, <1>2, <1>3, NoneIsNoToken DEF RotatesLive, SweepSeesSuccessors, Unlocks, Locks, Holding
<1> QED
  BY <1>2, <1>4, <1>5, <1>6, <1>7, UnlocksKeepsLocks

\* The table as a revocation or a deletion leaves it: states move on, and none
\* becomes live.
Fading ==
  /\ row' \in [Token -> Rows]
  /\ \A t \in Token :
       /\ row'[t].family = row[t].family /\ row'[t].from = row[t].from
       /\ row'[t].state = "live" => row[t].state = "live"
       /\ row'[t].state \in Unrevoked => row[t].state \in Unrevoked
       /\ row'[t].state = "unused" <=> row[t].state = "unused"

LEMMA FadingKeepsServer ==
  ASSUME ServerInv, Fading, Locks', req' \in [Req -> Requests],
         \A q \in Req : req'[q].at \in {"rotating", "sweeping"} => req'[q] = req[q],
         \A q \in Req : req'[q].at = "rotating" => row'[req[q].token] = row[req[q].token]
  PROVE  ServerInv'
<1> USE DEF ServerInv, Fading
<1>1. ServerTypeOK'
  BY DEF ServerTypeOK
<1>2. RowsInFamilies'
  BY NoneIsNoToken DEF RowsInFamilies, ServerTypeOK, Rows
<1>3. OneLive'
  BY DEF OneLive
<1>4. RotatesLive'
  BY DEF RotatesLive
<1>5. SweepSeesSuccessors'
  BY DEF SweepSeesSuccessors
<1> QED
  BY <1>1, <1>2, <1>3, <1>4, <1>5

\* A row whose state alone is replaced.
LEMMA Restated ==
  ASSUME row \in [Token -> Rows], NEW t \in Token, NEW state \in RowState
  PROVE  LET new == [row[t] EXCEPT !.state = state] IN
         new \in Rows /\ new.state = state /\ new.family = row[t].family /\ new.from = row[t].from
  BY DEF Rows

LEMMA RevocationKeepsServer ==
  ASSUME ServerInv, NEW r \in Req, FamilyRevoked(r) PROVE ServerInv'
<1> USE DEF ServerInv
<1>1. Unlocks(r)
  BY AnsweredEffect DEF FamilyRevoked, Unlocks, Answer
<1> DEFINE hit(t) == t \in req[r].sweep /\ row[t].state \in Unrevoked
           new(t) == [row[t] EXCEPT !.state = "grace"]
<1>2. \A t \in Token : new(t) \in Rows /\ new(t).state = "grace" /\ new(t).family = row[t].family
                       /\ new(t).from = row[t].from
  BY Restated DEF ServerTypeOK, RowState
<1>3. row' = [t \in Token |-> IF hit(t) THEN new(t) ELSE row[t]]
  BY DEF FamilyRevoked
<1> HIDE DEF new
<1>4. Fading
  BY <1>2, <1>3 DEF Fading, ServerTypeOK, Unrevoked
<1>5. \A q \in Req : req'[q].at = "rotating" => row'[req[q].token] = row[req[q].token]
  <2> SUFFICES ASSUME NEW q \in Req, req'[q].at = "rotating"
               PROVE  row'[req[q].token] = row[req[q].token]
    OBVIOUS
  <2>1. q # r /\ req[q].at = "rotating" /\ req[q].token \in Token
    BY <1>1 DEF Unlocks, Locks, Holding
  <2>2. req[q].token \notin req[r].sweep
    BY <2>1 DEF FamilyRevoked, LockedByOther, Holding
  <2> QED
    BY <1>3, <2>1, <2>2
<1> QED
  BY <1>1, <1>4, <1>5, UnlocksKeepsLocks, FadingKeepsServer DEF Unlocks

LEMMA DeletionKeepsServer ==
  ASSUME ServerInv, NEW r \in Req, DeleteCommits(r) PROVE ServerInv'
<1> USE DEF ServerInv
<1>1. Unlocks(r) /\ \A q \in Req : req[q].at \notin Holding
  BY AnsweredEffect, NoneIsNoToken DEF DeleteCommits, Unlocks, Answer
<1> DEFINE new(t) == [row[t] EXCEPT !.state = "deleted"]
<1>2. \A t \in Token : /\ new(t) \in Rows /\ new(t).state = "deleted"
                       /\ new(t).family = row[t].family /\ new(t).from = row[t].from
  BY Restated DEF ServerTypeOK, RowState
<1>3. row' = [t \in Token |-> IF row[t].state = "unused" THEN row[t] ELSE new(t)]
  BY DEF DeleteCommits, Unused
<1> HIDE DEF new
<1>4. Fading
  BY <1>2, <1>3 DEF Fading, ServerTypeOK, Unrevoked
<1> QED
  BY <1>1, <1>4, UnlocksKeepsLocks, FadingKeepsServer DEF Unlocks, Holding

\* The ten seconds of a token, or its fourteen days, are over.
LEMMA TimeKeepsServer ==
  ASSUME ServerInv, NEW t \in Token, GracePasses(t) \/ TokenExpires(t) PROVE ServerInv'
<1> USE DEF ServerInv
<1> DEFINE state == IF row[t].state = "grace" THEN "revoked" ELSE "expired"
           new == [row[t] EXCEPT !.state = state]
<1>1. /\ new \in Rows /\ new.state = state
      /\ new.family = row[t].family /\ new.from = row[t].from
  BY Restated DEF ServerTypeOK, RowState
<1>2. /\ row[t].state \in {"grace", "live"} /\ req' = req
      /\ row' = [row EXCEPT ![t] = new]
  BY DEF GracePasses, TokenExpires, Live, ServerTypeOK
<1>3. row[t].state = "live" => \A q \in Req : req[q].at = "rotating" => req[q].token # t
  BY DEF GracePasses, TokenExpires, Live, Holding
<1> HIDE DEF new
<1>4. Fading
  BY <1>1, <1>2 DEF Fading, ServerTypeOK, Unrevoked
<1>5. \A q \in Req : req[q].at = "rotating" => row'[req[q].token] = row[req[q].token]
  <2> SUFFICES ASSUME NEW q \in Req, req[q].at = "rotating"
               PROVE  row'[req[q].token] = row[req[q].token]
    OBVIOUS
  <2>1. req[q].token \in Token /\ row[req[q].token].state = "live"
    BY DEF Locks, RotatesLive, Holding
  <2> QED
    BY <1>2, <1>3, <2>1 DEF ServerTypeOK
<1>6. Locks' /\ ServerTypeOK
  BY <1>2 DEF Locks
<1> QED
  BY <1>2, <1>4, <1>5, <1>6, FadingKeepsServer DEF ServerTypeOK

LEMMA SnapshotKeepsServer ==
  ASSUME ServerInv, NEW r \in Req, FamilySnapshot(r) PROVE ServerInv'
<1> USE DEF ServerInv
<1> DEFINE seen == {t \in Family(req[r].token) : row[t].state \in Unrevoked}
<1>1. /\ req' \in [Req -> Requests] /\ row' = row
      /\ \A q \in Req \ {r} : req'[q] = req[q]
      /\ req[r].at = "revoking" /\ req'[r].at = "sweeping" /\ req'[r].op = req[r].op
      /\ req'[r].token = req[r].token /\ req'[r].sweep = seen
  BY DEF FamilySnapshot, ServerTypeOK, Requests, Phase, Holding, Family
<1>2. ServerTypeOK' /\ RowsInFamilies' /\ OneLive' /\ RotatesLive'
  BY <1>1 DEF ServerTypeOK, RowsInFamilies, OneLive, RotatesLive
<1>3. Locks'
  BY <1>1 DEF Locks, Holding
<1>4. SweepSeesSuccessors'
  BY <1>1, NoneIsNoToken DEF SweepSeesSuccessors, RowsInFamilies, Family, Unrevoked, Locks, Holding
<1> QED
  BY <1>2, <1>3, <1>4

LEMMA ServerKeepsServer == ServerInv /\ ServerStep => ServerInv'
<1> SUFFICES ASSUME ServerInv, ServerStep PROVE ServerInv'
  OBVIOUS
<1>1. ASSUME NEW r \in Req, RefreshRefused(r) PROVE ServerInv'
  BY <1>1, AnswerKeepsServer DEF RefreshRefused, Answer
<1>2. ASSUME NEW r \in Req, RefreshDetectsReuse(r) \/ RefreshLocks(r) PROVE ServerInv'
  BY <1>2, LockingKeepsServer DEF RefreshDetectsReuse, RefreshLocks, Live
<1>3. ASSUME NEW r \in Req, LogoutLocks(r) PROVE ServerInv'
  BY <1>3, LockingKeepsServer, AnswerKeepsServer DEF LogoutLocks, Answer
<1>4. ASSUME NEW r \in Req, DeleteStarts(r) PROVE ServerInv'
  <2>1. ClientOnly
    BY <1>4, EntersEffect DEF DeleteStarts, ClientOnly, ServerInv, Phase
  <2> QED BY <2>1, ClientKeepsServer
<1>5. ASSUME NEW r \in Req, RolledBack(r) PROVE ServerInv'
  BY <1>5, AnswerKeepsServer DEF RolledBack, Answer
<1> QED
  BY <1>1, <1>2, <1>3, <1>4, <1>5, RotationKeepsServer, InsertionKeepsServer,
     RevocationKeepsServer, DeletionKeepsServer, SnapshotKeepsServer DEF ServerStep, RequestStep

\* A request that a client waits for keeps its operation until it is answered,
\* and then its answer; the codes of a login are left to the client's module.
LEMMA ServerKeepsSlots ==
  ASSUME ServerInv, ServerStep, NEW r \in Req, req[r].at # "idle"
  PROVE  /\ req[r].waited => /\ req'[r].at # "idle" /\ req'[r].waited
                             /\ req'[r].op = req[r].op
         /\ req[r].at = "answered" \/ (req[r].at = "sent" /\ req[r].op = "exchange")
              => req'[r] = req[r]
<1> USE DEF ServerInv
<1> DEFINE Kept == /\ req[r].waited => /\ req'[r].at # "idle" /\ req'[r].waited
                                       /\ req'[r].op = req[r].op
                   /\ req[r].at = "answered" \/ (req[r].at = "sent" /\ req[r].op = "exchange")
                        => req'[r] = req[r]
<1>1. ASSUME NEW q \in Req, NEW answer \in Answer, NEW fresh \in Token \cup {None},
             Answered(q, answer, fresh), req[q].at # "answered",
             req[q].at # "sent" \/ req[q].op # "exchange"
      PROVE  Kept
  BY <1>1, AnsweredEffect
<1>2. ASSUME NEW q \in Req, NEW phase \in Phase \ {"idle"}, Enters(q, phase),
             req[q].at # "answered", req[q].at # "sent" \/ req[q].op # "exchange"
      PROVE  Kept
  BY <1>2, EntersEffect
<1>3. ASSUME NEW q \in Req, RefreshRefused(q) PROVE Kept
  BY <1>1, <1>3 DEF RefreshRefused, Answer
<1>4. ASSUME NEW q \in Req, RefreshDetectsReuse(q) \/ RefreshLocks(q) \/ DeleteStarts(q)
      PROVE  Kept
  BY <1>2, <1>4 DEF RefreshDetectsReuse, RefreshLocks, DeleteStarts, Phase, Holding
<1>5. ASSUME NEW q \in Req, LogoutLocks(q) PROVE Kept
  BY <1>1, <1>2, <1>5 DEF LogoutLocks, Answer, Phase, Holding
<1>6. ASSUME NEW q \in Req, RotationCommits(q) \/ SessionInserted(q) PROVE Kept
  BY <1>1, <1>6, NextTokenUnused DEF RotationCommits, SessionInserted, Answer, Unused
<1>7. ASSUME NEW q \in Req, FamilyRevoked(q) PROVE Kept
  BY <1>1, <1>7 DEF FamilyRevoked, Answer
<1>8. ASSUME NEW q \in Req, DeleteCommits(q) \/ RolledBack(q) PROVE Kept
  BY <1>1, <1>8 DEF DeleteCommits, RolledBack, Answer, Holding
<1>9. ASSUME NEW q \in Req, FamilySnapshot(q) PROVE Kept
  BY <1>9 DEF FamilySnapshot, ServerTypeOK, Requests
<1> HIDE DEF Kept
<1>10. Kept
  BY <1>3, <1>4, <1>5, <1>6, <1>7, <1>8, <1>9 DEF ServerStep, RequestStep
<1> QED
  BY <1>10 DEF Kept

-----------------------------------------------------------------------------
(* Which tokens a revocation leaves: none that came from the one it ended.  *)

Used(t) == row[t].state # "unused"

\* A token has a successor only if it was rotated, and both go with their user.
Heirs ==
  \A u \in Token : row[u].from # None =>
    /\ row[row[u].from].state \in {"grace", "revoked", "deleted"}
    /\ row[row[u].from].state = "deleted" => row[u].state = "deleted"

\* Requests carry tokens that were issued, and each phase belongs to its operation.
RequestsFit ==
  /\ \A r \in Req : req[r].op \in {"refresh", "logout"} /\ req[r].at \in Holding \cup {"sent"}
                    => Used(req[r].token)
  /\ \A r \in Req : req[r].fresh # None => req[r].fresh \in Token /\ Used(req[r].fresh)
  /\ \A r \in Req : req[r].at = "rotating" => req[r].op = "refresh"
  /\ \A r \in Req : req[r].at = "deleting" => req[r].op = "delete"

\* A revocation under way has seen its own token, if that is live.
SweepSeesItself ==
  \A r \in Req : req[r].at = "sweeping" /\ Live(req[r].token) => req[r].token \in req[r].sweep

SuccessionInv == Heirs /\ RequestsFit /\ SweepSeesItself

\* A token that neither is valid nor has a valid successor.
Spent(e) ==
  /\ row[e].state \notin {"unused", "live"}
  /\ \A t \in Token : row[t].from = e => row[t].state # "live"

\* How a step of the server or of the clock may change the rows.
RowsMove ==
  /\ \A t \in Token : Used(t) => row'[t].state # "unused" /\ row'[t].from = row[t].from
  /\ \A t \in Token : row'[t].state = "live" /\ row[t].state # "live" =>
       /\ row[t].state = "unused"
       /\ row'[t].from # None => row[row'[t].from].state = "live"
                                /\ row'[row'[t].from].state = "grace"
  /\ \A t \in Token : row[t].state = "unused" => row'[t].state \in {"unused", "live"}
  /\ \A t \in Token : row[t].state \in {"grace", "revoked"}
                       => row'[t].state \in {"grace", "revoked", "deleted"}
  /\ \A t \in Token : row[t].state = "deleted" => row'[t].state = "deleted"
  /\ \A t \in Token : row'[t].state = "deleted" /\ row[t].state # "deleted"
                       => \A u \in Token : row'[u].state \in {"unused", "deleted"}

LEMMA TokensMove ==
  ASSUME ServerInv, ServerStep \/ \E t \in Token : GracePasses(t) \/ TokenExpires(t)
  PROVE  RowsMove
<1>0. row \in [Token -> Rows] /\ req \in [Req -> Requests]
  BY DEF ServerInv, ServerTypeOK
<1>1. CASE row' = row
  BY <1>1 DEF RowsMove, Used
<1>2. ASSUME NEW r \in Req, RotationCommits(r) PROVE RowsMove
  <2> DEFINE old == req[r].token
             new == NextToken
             spent == [row[old] EXCEPT !.state = "grace"]
             fresh == Inserted(new, row[old].family, old)
  <2>1. old \in Token /\ new \in Token /\ row[new].state = "unused" /\ row[old].state = "live"
    BY <1>2, NextTokenUnused
    DEF RotationCommits, ServerInv, Locks, RotatesLive, Holding, Unused
  <2>2. /\ spent.state = "grace" /\ spent.from = row[old].from
        /\ fresh.state = "live" /\ fresh.from = old
    BY <1>0, <2>1 DEF Inserted, Rows
  <2>3. row' = [row EXCEPT ![old] = spent, ![new] = fresh]
    BY <1>2 DEF RotationCommits
  <2> HIDE DEF old, new, spent, fresh
  <2> QED
    BY <1>0, <2>1, <2>2, <2>3 DEF RowsMove, Used
<1>3. ASSUME NEW r \in Req, SessionInserted(r) PROVE RowsMove
  <2> DEFINE new == NextToken
             fresh == Inserted(new, new, None)
  <2>1. new \in Token /\ row[new].state = "unused"
    BY <1>3, NextTokenUnused DEF SessionInserted, Unused
  <2>2. fresh.state = "live" /\ fresh.from = None
    BY DEF Inserted
  <2>3. row' = [row EXCEPT ![new] = fresh]
    BY <1>3 DEF SessionInserted
  <2> HIDE DEF new, fresh
  <2> QED
    BY <1>0, <2>1, <2>2, <2>3 DEF RowsMove, Used
<1>4. \A t \in Token, state \in RowState :
        /\ [row[t] EXCEPT !.state = state].state = state
        /\ [row[t] EXCEPT !.state = state].from = row[t].from
  BY <1>0, Restated
<1>5. ASSUME NEW r \in Req, FamilyRevoked(r) PROVE RowsMove
  <2> DEFINE new(t) == [row[t] EXCEPT !.state = "grace"]
             hit(t) == t \in req[r].sweep /\ row[t].state \in Unrevoked
  <2>1. \A t \in Token : new(t).state = "grace" /\ new(t).from = row[t].from
    BY <1>4 DEF RowState
  <2>2. \A t \in Token : row'[t] = IF hit(t) THEN new(t) ELSE row[t]
    BY <1>5 DEF FamilyRevoked
  <2> HIDE DEF new
  <2> QED
    BY <2>1, <2>2 DEF RowsMove, Used, Unrevoked
<1>6. ASSUME NEW r \in Req, DeleteCommits(r) PROVE RowsMove
  <2> DEFINE new(t) == [row[t] EXCEPT !.state = "deleted"]
  <2>1. \A t \in Token : new(t).state = "deleted" /\ new(t).from = row[t].from
    BY <1>4 DEF RowState
  <2>2. \A t \in Token : row'[t] = IF row[t].state = "unused" THEN row[t] ELSE new(t)
    BY <1>6 DEF DeleteCommits, Unused
  <2> HIDE DEF new
  <2> QED
    BY <2>1, <2>2 DEF RowsMove, Used
<1>7. ASSUME NEW u \in Token, GracePasses(u) \/ TokenExpires(u) PROVE RowsMove
  <2> DEFINE state == IF row[u].state = "grace" THEN "revoked" ELSE "expired"
             new == [row[u] EXCEPT !.state = state]
  <2>1. new.state = state /\ new.from = row[u].from
    BY <1>4 DEF RowState
  <2>2. row' = [row EXCEPT ![u] = new] /\ row[u].state \in {"grace", "live"}
    BY <1>7 DEF GracePasses, TokenExpires, Live
  <2> HIDE DEF new
  <2> QED
    BY <1>0, <2>1, <2>2 DEF RowsMove, Used
<1>8. ASSUME NEW r \in Req,
             \/ RefreshRefused(r) \/ RefreshDetectsReuse(r) \/ RefreshLocks(r) \/ LogoutLocks(r)
             \/ FamilySnapshot(r) \/ DeleteStarts(r) \/ RolledBack(r)
      PROVE  row' = row
  BY <1>8 DEF RefreshRefused, RefreshDetectsReuse, RefreshLocks, LogoutLocks, FamilySnapshot,
              DeleteStarts, RolledBack
<1> QED
  BY <1>1, <1>2, <1>3, <1>5, <1>6, <1>7, <1>8 DEF ServerStep, RequestStep

LEMMA SpentForGood ==
  ASSUME RowsMove, NEW e \in Token, Spent(e)
  PROVE  Spent(e)'
<1>1. row[e].state \notin {"unused", "live"} /\ row'[e].state \notin {"unused", "live"}
  BY DEF RowsMove, Spent, Used
<1>2. ASSUME NEW t \in Token, row'[t].from = e, row'[t].state = "live" PROVE FALSE
  <2>1. row[t].state # "live"
    <3>1. row[t].state = "live" => row'[t].from = row[t].from
      BY DEF RowsMove, Used
    <3> QED
      BY <1>2, <3>1 DEF Spent
  <2>2. row'[t].from # None => row[row'[t].from].state = "live"
    BY <1>2, <2>1 DEF RowsMove
  <2> QED
    BY <1>1, <1>2, <2>2, NoneIsNoToken
<1> QED
  BY <1>1, <1>2 DEF Spent

LEMMA HeirsStay ==
  ASSUME RowsMove, ServerInv, ServerInv', Heirs
  PROVE  Heirs'
<1> SUFFICES ASSUME NEW u \in Token, row'[u].from # None
             PROVE  /\ row'[row'[u].from].state \in {"grace", "revoked", "deleted"}
                    /\ row'[row'[u].from].state = "deleted" => row'[u].state = "deleted"
  BY DEF Heirs
<1>1. row'[u].from \in Token /\ row'[u].state # "unused"
  BY DEF ServerInv, ServerTypeOK, Rows, RowsInFamilies
<1>2. CASE Used(u)
  <2>1. row'[u].from = row[u].from
    BY <1>2 DEF RowsMove
  <2>2. /\ row[row[u].from].state \in {"grace", "revoked", "deleted"}
        /\ row[row[u].from].state = "deleted" => row[u].state = "deleted"
    BY <2>1 DEF Heirs
  <2> QED
    BY <1>1, <2>1, <2>2 DEF RowsMove
<1>3. CASE ~Used(u)
  <2>1. row[u].state = "unused" /\ row'[u].state = "live"
    BY <1>1, <1>3 DEF Used, RowsMove
  <2> QED
    BY <2>1 DEF RowsMove
<1> QED
  BY <1>2, <1>3

\* What may become of a request: it is taken as the client left it, its
\* transaction goes on, or it is answered.
GoesOn(r) ==
  /\ req[r].at \notin {"idle", "answered"} /\ req'[r].at \in Holding \cup {"deleting"}
  /\ req'[r].op = req[r].op /\ req'[r].token = req[r].token
  /\ req'[r].waited = req[r].waited /\ req'[r].fresh = req[r].fresh
  /\ req[r].op \in {"refresh", "logout"} => Used(req[r].token)
  /\ req'[r].at = "rotating" => req[r].op = "refresh"
  /\ req'[r].at = "deleting" => req[r].op = "delete"
  /\ req'[r].at = "sweeping" /\ Live(req[r].token) => req[r].token \in req'[r].sweep
GetsAnswer(r) ==
  /\ req[r].at \notin {"idle", "answered"} /\ req[r].waited
  /\ req'[r].at = "answered" /\ req'[r].op = req[r].op /\ req'[r].waited
  /\ req'[r].fresh # None => req'[r].fresh \in Token /\ row'[req'[r].fresh].state # "unused"
  /\ req[r].op \in {"refresh", "login"} /\ req'[r].answer = "ok" => req'[r].fresh \in Token
  /\ req[r].op = "logout" /\ req'[r].answer = "ok"
       => \A e \in Token : e = req[r].token => Spent(e)'
Forgotten(r) == req'[r] = NoRequest /\ req[r].at # "idle" /\ ~req[r].waited
RequestMoves(r) == req'[r] = req[r] \/ GoesOn(r) \/ GetsAnswer(r) \/ Forgotten(r)

LEMMA AnswerMoves ==
  ASSUME ServerInv, NEW q \in Req, NEW answer \in Answer, NEW fresh \in Token \cup {None},
         Answered(q, answer, fresh), req[q].at \notin {"idle", "answered"},
         fresh # None => row'[fresh].state # "unused",
         req[q].op \in {"refresh", "login"} /\ answer = "ok" => fresh \in Token,
         req[q].op = "logout" /\ answer = "ok" => \A e \in Token : e = req[q].token => Spent(e)',
         NEW r \in Req
  PROVE  RequestMoves(r)
<1>1. CASE r # q
  BY <1>1, AnsweredEffect DEF RequestMoves, ServerInv
<1>2. CASE r = q /\ req[q].waited
  <2>1. /\ req'[q].at = "answered" /\ req'[q].op = req[q].op /\ req'[q].waited
        /\ req'[q].answer = answer /\ req'[q].fresh = fresh
    BY <1>2, AnsweredEffect DEF ServerInv
  <2> QED
    BY <1>2, <2>1 DEF RequestMoves, GetsAnswer
<1>3. CASE r = q /\ ~req[q].waited
  BY <1>3, AnsweredEffect DEF RequestMoves, Forgotten, ServerInv
<1> QED
  BY <1>1, <1>2, <1>3

LEMMA EnterMoves ==
  ASSUME ServerInv, NEW q \in Req, NEW phase \in {"rotating", "revoking", "deleting"},
         Enters(q, phase), req[q].at = "sent",
         req[q].op \in {"refresh", "logout"} => Used(req[q].token),
         phase = "rotating" => req[q].op = "refresh", phase = "deleting" => req[q].op = "delete",
         NEW r \in Req
  PROVE  RequestMoves(r)
<1>1. phase \in Phase
  BY DEF Phase, Holding
<1>2. /\ \A x \in Req \ {q} : req'[x] = req[x]
      /\ req'[q].at = phase /\ req'[q].op = req[q].op /\ req'[q].token = req[q].token
      /\ req'[q].waited = req[q].waited
  BY <1>1, EntersEffect DEF ServerInv
<1>3. req'[q].fresh = req[q].fresh
  BY DEF Enters, ServerInv, ServerTypeOK, Requests
<1> QED
  BY <1>2, <1>3 DEF RequestMoves, GoesOn, Holding

LEMMA RequestsMove ==
  ASSUME ServerInv, SuccessionInv, ServerStep, NEW r \in Req
  PROVE  RequestMoves(r)
<1> USE DEF SuccessionInv
<1>0. row \in [Token -> Rows] /\ req \in [Req -> Requests] /\ None \notin Token
  BY NoneIsNoToken DEF ServerInv, ServerTypeOK
<1>1. ASSUME NEW q \in Req, RefreshRefused(q) PROVE RequestMoves(r)
  BY <1>0, <1>1, AnswerMoves DEF RefreshRefused, Answer
<1>2. ASSUME NEW q \in Req, RefreshDetectsReuse(q) \/ RefreshLocks(q) \/ DeleteStarts(q)
      PROVE  RequestMoves(r)
  BY <1>2, EnterMoves
  DEF RefreshDetectsReuse, RefreshLocks, DeleteStarts, RequestsFit
<1>3. ASSUME NEW q \in Req, RotationCommits(q) PROVE RequestMoves(r)
  <2> DEFINE new == NextToken
  <2>1. new \in Token /\ req[q].at = "rotating" /\ req[q].op = "refresh"
        /\ Answered(q, "ok", new)
    BY <1>3, NextTokenUnused DEF RotationCommits, Unused, RequestsFit
  <2>2. row'[new].state # "unused"
    BY <1>0, <1>3, <2>1 DEF RotationCommits, Inserted
  <2> HIDE DEF new
  <2> QED
    BY <2>1, <2>2, AnswerMoves DEF Answer
<1>4. ASSUME NEW q \in Req, SessionInserted(q) PROVE RequestMoves(r)
  <2> DEFINE new == NextToken
  <2>1. new \in Token /\ req[q].at = "sent" /\ req[q].op = "login"
        /\ Answered(q, "ok", new)
    BY <1>4, NextTokenUnused DEF SessionInserted, Unused
  <2>2. row'[new].state # "unused"
    BY <1>0, <1>4, <2>1 DEF SessionInserted, Inserted
  <2> HIDE DEF new
  <2> QED
    BY <2>1, <2>2, AnswerMoves DEF Answer
<1>5. ASSUME NEW q \in Req, LogoutLocks(q) PROVE RequestMoves(r)
  <2>1. /\ req[q].at = "sent" /\ req[q].op = "logout" /\ row' = row
        /\ req[q].token \in Token /\ Used(req[q].token)
    BY <1>5 DEF LogoutLocks, ServerInv, Locks, RequestsFit
  <2>2. CASE row[req[q].token].state \in {"deleted", "expired"}
    <3>1. ASSUME NEW t \in Token, row[t].from = req[q].token PROVE row[t].state # "live"
      BY <1>0, <2>1, <2>2, <3>1 DEF Heirs
    <3>2. ASSUME NEW e \in Token, e = req[q].token PROVE Spent(e)'
      BY <2>1, <2>2, <3>1, <3>2 DEF Spent
    <3>3. Answered(q, "ok", None)
      BY <1>5, <2>2 DEF LogoutLocks
    <3> QED
      BY <2>1, <3>2, <3>3, AnswerMoves DEF Answer
  <2>3. CASE row[req[q].token].state \notin {"deleted", "expired"}
    <3>1. Enters(q, "revoking")
      BY <1>5, <2>3 DEF LogoutLocks
    <3> QED
      BY <2>1, <3>1, EnterMoves
  <2> QED
    BY <2>2, <2>3
<1>6. ASSUME NEW q \in Req, FamilySnapshot(q) PROVE RequestMoves(r)
  <2> DEFINE seen == {t \in Family(req[q].token) : row[t].state \in Unrevoked}
  <2>1. /\ req'[q].at = "sweeping" /\ req'[q].op = req[q].op /\ req'[q].token = req[q].token
        /\ req'[q].waited = req[q].waited /\ req'[q].fresh = req[q].fresh
        /\ req'[q].sweep = seen /\ req[q].at = "revoking"
        /\ \A x \in Req \ {q} : req'[x] = req[x]
    BY <1>0, <1>6 DEF FamilySnapshot, Requests, Family
  <2>2. req[q].op \in {"refresh", "logout"} /\ req[q].token \in Token /\ Used(req[q].token)
    BY <2>1 DEF ServerInv, Locks, RequestsFit, Holding
  <2>3. Live(req[q].token) => req[q].token \in seen
    BY <2>2 DEF Live, Family, Unrevoked
  <2> HIDE DEF seen
  <2> QED
    BY <2>1, <2>2, <2>3 DEF RequestMoves, GoesOn, Holding
<1>7. ASSUME NEW q \in Req, FamilyRevoked(q) PROVE RequestMoves(r)
  <2> DEFINE e == req[q].token
             new(t) == [row[t] EXCEPT !.state = "grace"]
             hit(t) == t \in req[q].sweep /\ row[t].state \in Unrevoked
             answer == IF req[q].op = "logout" THEN "ok" ELSE "reused"
  <2>1. e \in Token /\ Used(e) /\ req[q].at = "sweeping" /\ req[q].op \in {"refresh", "logout"}
    BY <1>7 DEF FamilyRevoked, ServerInv, Locks, RequestsFit, Holding
  <2>2. \A t \in Token : new(t).state = "grace" /\ new(t).from = row[t].from
    BY <1>0, Restated DEF RowState
  <2>3. \A t \in Token : row'[t] = IF hit(t) THEN new(t) ELSE row[t]
    BY <1>7 DEF FamilyRevoked
  <2> HIDE DEF new
  <2>4. row'[e].state \notin {"unused", "live"}
    BY <2>1, <2>2, <2>3 DEF SweepSeesItself, Live, Used, Unrevoked
  <2>5. ASSUME NEW t \in Token, row'[t].from = e, row'[t].state = "live" PROVE FALSE
    <3>1. row[t].from = e /\ row[t].state = "live" /\ ~hit(t)
      BY <2>2, <2>3, <2>5
    <3> QED
      BY <2>1, <3>1 DEF ServerInv, SweepSeesSuccessors, Unrevoked
  <2>6. ASSUME NEW x \in Token, x = e PROVE Spent(x)'
    BY <2>4, <2>5, <2>6 DEF Spent
  <2>7. Answered(q, answer, None)
    BY <1>7 DEF FamilyRevoked
  <2> QED
    BY <1>0, <2>1, <2>6, <2>7, AnswerMoves DEF Answer
<1>8. ASSUME NEW q \in Req, DeleteCommits(q) PROVE RequestMoves(r)
  <2>1. req[q].at = "deleting" /\ req[q].op = "delete" /\ Answered(q, "ok", None)
    BY <1>8 DEF DeleteCommits, RequestsFit
  <2> QED
    BY <2>1, AnswerMoves DEF Answer
<1>9. ASSUME NEW q \in Req, RolledBack(q) PROVE RequestMoves(r)
  <2>1. req[q].at \in Holding \cup {"deleting"} /\ Answered(q, "error", None)
    BY <1>9 DEF RolledBack
  <2> QED
    BY <2>1, AnswerMoves DEF Answer, Holding
<1> QED
  BY <1>1, <1>2, <1>3, <1>4, <1>5, <1>6, <1>7, <1>8, <1>9 DEF ServerStep, RequestStep

LEMMA ServerKeepsSuccession ==
  ASSUME ServerInv, SuccessionInv, ServerStep PROVE SuccessionInv'
<1> USE DEF SuccessionInv
<1>0. RowsMove /\ ServerInv' /\ \A r \in Req : RequestMoves(r)
  BY TokensMove, ServerKeepsServer, RequestsMove
<1>1. Heirs'
  BY <1>0, HeirsStay
<1>2. \A t \in Token : Used(t) => row'[t].state # "unused"
  BY <1>0 DEF RowsMove
<1>3. NoRequest.at = "idle" /\ NoRequest.fresh = None
  BY DEF NoRequest
<1>4. ASSUME NEW r \in Req
      PROVE  /\ req'[r].op \in {"refresh", "logout"} /\ req'[r].at \in Holding \cup {"sent"}
                  => row'[req'[r].token].state # "unused"
             /\ req'[r].fresh # None => req'[r].fresh \in Token /\ row'[req'[r].fresh].state # "unused"
             /\ req'[r].at = "rotating" => req'[r].op = "refresh"
             /\ req'[r].at = "deleting" => req'[r].op = "delete"
  <2>1. CASE req'[r] = req[r]
    BY <1>2, <2>1 DEF RequestsFit, ServerInv, Locks
  <2>2. CASE GoesOn(r)
    <3>1. req[r].op \in {"refresh", "logout"} /\ req'[r].at \in Holding => req'[r].token \in Token
      BY <1>0, <2>2 DEF GoesOn, ServerInv, Locks
    <3> QED
      BY <1>2, <2>2, <3>1 DEF GoesOn, RequestsFit, Holding
  <2>3. CASE GetsAnswer(r)
    BY <2>3 DEF GetsAnswer, Holding
  <2>4. CASE Forgotten(r)
    BY <1>3, <2>4 DEF Forgotten, Holding
  <2> QED
    BY <1>0, <2>1, <2>2, <2>3, <2>4 DEF RequestMoves
<1>5. RequestsFit'
  BY <1>4 DEF RequestsFit, Used
<1>6. ASSUME NEW r \in Req, req'[r].at = "sweeping", row'[req'[r].token].state = "live"
      PROVE  req'[r].token \in req'[r].sweep
  <2>1. req'[r].token \in Token /\ req'[r].op \in {"refresh", "logout"}
    BY <1>0, <1>6 DEF ServerInv, Locks, Holding
  <2>2. (req'[r] = req[r] \/ GoesOn(r)) /\ req'[r].token = req[r].token
    BY <1>0, <1>3, <1>6 DEF RequestMoves, GoesOn, GetsAnswer, Forgotten
  <2>3. Used(req[r].token)
    BY <1>6, <2>1, <2>2 DEF RequestsFit, GoesOn, Holding
  <2>4. Live(req[r].token)
    BY <1>0, <1>6, <2>1, <2>2, <2>3 DEF RowsMove, Live, Used
  <2> QED
    BY <1>6, <2>2, <2>4 DEF SweepSeesItself, GoesOn
<1>7. SweepSeesItself'
  BY <1>6 DEF SweepSeesItself, Live
<1> QED
  BY <1>1, <1>5, <1>7

LEMMA TimeKeepsSuccession ==
  ASSUME ServerInv, SuccessionInv, NEW t \in Token, GracePasses(t) \/ TokenExpires(t)
  PROVE  SuccessionInv'
<1> USE DEF SuccessionInv
<1>0. RowsMove /\ ServerInv' /\ req' = req
  BY TokensMove, TimeKeepsServer DEF GracePasses, TokenExpires
<1>1. Heirs'
  BY <1>0, HeirsStay
<1>2. RequestsFit'
  BY <1>0 DEF RowsMove, RequestsFit, Used, ServerInv, Locks
<1>3. ASSUME NEW r \in Req, req[r].at = "sweeping", row'[req[r].token].state = "live"
      PROVE  req[r].token \in req[r].sweep
  <2>1. req[r].token \in Token /\ Used(req[r].token)
    BY <1>3 DEF ServerInv, Locks, RequestsFit, Holding
  <2> QED
    BY <1>0, <1>3, <2>1 DEF RowsMove, Live, Used, SweepSeesItself
<1> QED
  BY <1>0, <1>1, <1>2, <1>3 DEF SweepSeesItself, Live

-----------------------------------------------------------------------------
(* A client's side of a request.                                            *)

LEMMA SlotEffects ==
  ASSUME req \in [Req -> Requests], NEW r \in Req
  PROVE  /\ Taken(r) \in [Req -> Requests] /\ Taken(r)[r].at = "idle"
         /\ Taken(r)[r].fresh = None
         /\ GivenUp(r) \in [Req -> Requests]
         /\ \/ req[r].at = "answered" /\ GivenUp(r)[r].at = "idle"
               /\ GivenUp(r)[r].fresh = None
            \/ /\ req[r].at # "answered" /\ GivenUp(r)[r].at = req[r].at
               /\ GivenUp(r)[r].op = req[r].op /\ GivenUp(r)[r].token = req[r].token
               /\ GivenUp(r)[r].sweep = req[r].sweep /\ GivenUp(r)[r].fresh = req[r].fresh
         /\ \A q \in Req \ {r} : Taken(r)[q] = req[q] /\ GivenUp(r)[q] = req[q]
<1>1. NoRequest \in Requests /\ NoRequest.at = "idle" /\ NoRequest.fresh = None
  BY DEF NoRequest, Requests, Phase, Op, Answer
<1> DEFINE left == [req[r] EXCEPT !.waited = FALSE]
<1>2. /\ left \in Requests /\ left.at = req[r].at /\ left.op = req[r].op
      /\ left.token = req[r].token /\ left.sweep = req[r].sweep /\ left.fresh = req[r].fresh
  BY DEF Requests
<1>3. GivenUp(r) = [req EXCEPT ![r] = IF req[r].at = "answered" THEN NoRequest ELSE left]
  BY DEF GivenUp
<1> HIDE DEF left
<1> QED
  BY <1>1, <1>2, <1>3 DEF Taken

LEMMA SendEffects ==
  ASSUME req \in [Req -> Requests], NEW r \in Req, NEW op \in Op, NEW token \in Token \cup {None}
  PROVE  /\ [req EXCEPT ![r] = Sent(op, token)] \in [Req -> Requests]
         /\ Sent(op, token).at = "sent" /\ Sent(op, token).op = op
         /\ Sent(op, token).token = token /\ Sent(op, token).waited
         /\ Sent(op, token).fresh = None
<1>1. /\ Sent(op, token) \in Requests /\ Sent(op, token).at = "sent" /\ Sent(op, token).op = op
      /\ Sent(op, token).token = token /\ Sent(op, token).waited /\ Sent(op, token).fresh = None
  BY DEF Sent, NoRequest, Requests, Phase, Op, Answer
<1> QED
  BY <1>1

\* A client sends a token that was issued, gives a request up or takes an answer.
ClientSends ==
  /\ row' = row
  /\ \A r \in Req :
       \/ req'[r].at \in {"idle", "answered"} /\ req'[r].fresh = None
       \/ /\ req'[r].at = req[r].at /\ req'[r].op = req[r].op /\ req'[r].token = req[r].token
          /\ req'[r].sweep = req[r].sweep /\ req'[r].fresh = req[r].fresh
       \/ /\ req'[r].at = "sent" /\ req'[r].fresh \in {req[r].fresh, None}
          /\ req'[r].op \in {"refresh", "logout"} => req'[r].token \in Token /\ Used(req'[r].token)

LEMMA ClientKeepsSuccession == SuccessionInv /\ ClientSends => SuccessionInv'
<1> SUFFICES ASSUME SuccessionInv, ClientSends PROVE SuccessionInv'
  OBVIOUS
<1> USE DEF SuccessionInv, ClientSends
<1>1. Heirs'
  BY DEF Heirs
<1>2. RequestsFit'
  BY DEF RequestsFit, Used, Holding
<1>3. SweepSeesItself'
  BY DEF SweepSeesItself, Live
<1> QED
  BY <1>1, <1>2, <1>3

\* The table before any login, or with the token of an earlier one.
LEMMA ServerStarts ==
  ASSUME \/ row = [t \in Token |-> UnusedRow]
         \/ row = [t \in Token |-> IF t = 1 THEN Inserted(1, 1, None) ELSE UnusedRow],
         req = [r \in Req |-> NoRequest]
  PROVE  ServerInv /\ SuccessionInv
<1>1. NoRequest \in Requests /\ NoRequest.at = "idle" /\ NoRequest.fresh = None
  BY DEF NoRequest, Requests, Phase, Op, Answer
<1>2. /\ UnusedRow \in Rows /\ UnusedRow.state = "unused"
      /\ UnusedRow.family = None /\ UnusedRow.from = None
  BY DEF UnusedRow, Rows, RowState
<1>3. 1 \in Token
  BY TokensAssumption DEF Token
<1>4. /\ Inserted(1, 1, None) \in Rows /\ Inserted(1, 1, None).state = "live"
      /\ Inserted(1, 1, None).family = 1 /\ Inserted(1, 1, None).from = None
  BY <1>3 DEF Inserted, Rows, RowState
<1>5. /\ row \in [Token -> Rows] /\ req \in [Req -> Requests]
      /\ \A r \in Req : req[r].at = "idle" /\ req[r].fresh = None
  BY <1>1, <1>2, <1>4
<1>6. \A t \in Token : \/ row[t].state = "unused" /\ row[t].family = None /\ row[t].from = None
                       \/ t = 1 /\ row[t].state = "live" /\ row[t].family = 1 /\ row[t].from = None
  <2> SUFFICES ASSUME NEW t \in Token
               PROVE  row[t] = UnusedRow \/ (t = 1 /\ row[t] = Inserted(1, 1, None))
    BY <1>2, <1>4
  <2> QED
    OBVIOUS
<1>7. ServerInv
  BY <1>5, <1>6, NoneIsNoToken
  DEF ServerInv, ServerTypeOK, RowsInFamilies, Locks, RotatesLive, OneLive, SweepSeesSuccessors,
      Holding, Unrevoked
<1>8. SuccessionInv
  BY <1>5, <1>6 DEF SuccessionInv, Heirs, RequestsFit, SweepSeesItself, Holding
<1> QED
  BY <1>7, <1>8

-----------------------------------------------------------------------------
(* What the server does as long as its requests are logins and refreshes of  *)
(* tokens nobody has revoked for long, and nothing is rolled back.           *)

Handed(r) == req[r].at = "answered" /\ req[r].answer = "ok"

CalmRequests ==
  \A r \in Req : req[r].at # "idle" =>
    /\ req[r].at \in {"sent", "rotating", "answered"}
    /\ req[r].op \in {"refresh", "exchange", "login"}
    /\ req[r].op = "refresh" /\ req[r].at = "sent"
         => row[req[r].token].state \in {"live", "expired", "grace"}

Tells(r, answer, fresh) ==
  /\ \A q \in Req \ {r} : req'[q] = req[q]
  /\ req[r].waited => /\ req'[r].at = "answered" /\ req'[r].op = req[r].op /\ req'[r].waited
                      /\ req'[r].answer = answer /\ req'[r].fresh = fresh
  /\ ~req[r].waited => req'[r].at = "idle"

\* A refusal, a lock, a rotation and a login.
Refuses(r, answer, state) ==
  /\ req[r].op = "refresh" /\ req[r].at = "sent" /\ row[req[r].token].state = state
  /\ row' = row /\ Tells(r, answer, None)
LocksToken(r) ==
  /\ req[r].op = "refresh" /\ req[r].at = "sent"
  /\ row' = row /\ \A q \in Req \ {r} : req'[q] = req[q]
  /\ req'[r].at = "rotating" /\ req'[r].op = "refresh" /\ req'[r].token = req[r].token
Rotates(r, new) ==
  /\ req[r].op = "refresh" /\ req[r].at = "rotating" /\ row[req[r].token].state = "live"
  /\ row[new].state = "unused" /\ Tells(r, "ok", new)
  /\ \A t \in Token : row'[t].state = IF t = new THEN "live"
                                      ELSE IF t = req[r].token THEN "grace" ELSE row[t].state
Opens(r, new) ==
  /\ req[r].op = "login" /\ req[r].at = "sent"
  /\ row[new].state = "unused" /\ Tells(r, "ok", new)
  /\ \A t \in Token : row'[t].state = IF t = new THEN "live" ELSE row[t].state

LEMMA CalmSteps ==
  ASSUME ServerInv, CalmRequests, ServerStep, failures' = failures, failures \in Nat
  PROVE  \E r \in Req : \/ Refuses(r, "raced", "grace") \/ Refuses(r, "expired", "expired")
                        \/ LocksToken(r)
                        \/ \E new \in Token : Rotates(r, new) \/ Opens(r, new)
<1> DEFINE Calm(r) == \/ Refuses(r, "raced", "grace") \/ Refuses(r, "expired", "expired")
                      \/ LocksToken(r)
                      \/ \E new \in Token : Rotates(r, new) \/ Opens(r, new)
<1> USE DEF ServerInv
<1>1. /\ ServerTypeOK /\ Locks /\ RotatesLive
      /\ \A r \in Req : req[r].at = "rotating" => req[r].op = "refresh"
  BY DEF CalmRequests, Locks, Holding
<1>2. ASSUME NEW r \in Req, NEW answer \in Answer, NEW fresh \in Token \cup {None},
             Answered(r, answer, fresh)
      PROVE  Tells(r, answer, fresh)
  <2>1. ~req[r].waited => req'[r].at = "idle"
    BY <1>1, <1>2, AnsweredEffect DEF NoRequest
  <2> QED
    BY <1>1, <1>2, <2>1, AnsweredEffect DEF Tells
<1>3. ASSUME NEW r \in Req, RefreshRefused(r) PROVE Calm(r)
  <2>1. row[req[r].token].state \in {"live", "expired", "grace"}
    BY <1>3 DEF RefreshRefused, CalmRequests
  <2>2. \/ row[req[r].token].state = "grace" /\ Answered(r, "raced", None)
        \/ row[req[r].token].state = "expired" /\ Answered(r, "expired", None)
    BY <1>3, <2>1 DEF RefreshRefused
  <2>3. \/ row[req[r].token].state = "grace" /\ Tells(r, "raced", None)
        \/ row[req[r].token].state = "expired" /\ Tells(r, "expired", None)
    BY <1>2, <2>2 DEF Answer
  <2> QED
    BY <1>3, <2>3 DEF RefreshRefused, Refuses
<1>4. ASSUME NEW r \in Req, RefreshLocks(r) PROVE Calm(r)
  <2>1. /\ \A q \in Req \ {r} : req'[q] = req[q]
        /\ req'[r].at = "rotating" /\ req'[r].op = req[r].op /\ req'[r].token = req[r].token
    BY <1>1, <1>4, EntersEffect DEF RefreshLocks, Phase, Holding
  <2> QED
    BY <1>4, <2>1 DEF RefreshLocks, LocksToken
<1>5. ASSUME NEW r \in Req, RotationCommits(r) PROVE Calm(r)
  <2> DEFINE new == NextToken
             old == req[r].token
  <2>1. /\ req[r].at = "rotating" /\ req[r].op = "refresh" /\ old \in Token /\ row[old].state = "live"
        /\ new \in Token /\ row[new].state = "unused"
    BY <1>1, <1>5, NextTokenUnused DEF RotationCommits, Locks, RotatesLive, Unused, Holding
  <2>2. \A t \in Token : row'[t].state = IF t = new THEN "live" ELSE IF t = old THEN "grace"
                                         ELSE row[t].state
    BY <1>1, <1>5, <2>1 DEF RotationCommits, ServerTypeOK, Rows, Inserted
  <2>3. Tells(r, "ok", new)
    BY <1>2, <1>5, <2>1 DEF RotationCommits, Answer
  <2> HIDE DEF new
  <2> QED
    BY <2>1, <2>2, <2>3 DEF Rotates
<1>6. ASSUME NEW r \in Req, SessionInserted(r) PROVE Calm(r)
  <2> DEFINE new == NextToken
  <2>1. new \in Token /\ row[new].state = "unused"
    BY <1>6, NextTokenUnused DEF SessionInserted, Unused
  <2>2. \A t \in Token : row'[t].state = IF t = new THEN "live" ELSE row[t].state
    BY <1>1, <1>6, <2>1 DEF SessionInserted, ServerTypeOK, Rows, Inserted
  <2>3. Tells(r, "ok", new)
    BY <1>2, <1>6, <2>1 DEF SessionInserted, Answer
  <2> HIDE DEF new
  <2> QED
    BY <1>6, <2>1, <2>2, <2>3 DEF SessionInserted, Opens
<1>7. \A r \in Req : /\ ~RefreshDetectsReuse(r) /\ ~LogoutLocks(r) /\ ~FamilySnapshot(r)
                     /\ ~FamilyRevoked(r) /\ ~DeleteStarts(r) /\ ~DeleteCommits(r)
  BY DEF CalmRequests, RefreshDetectsReuse, LogoutLocks, FamilySnapshot, FamilyRevoked, DeleteStarts,
     DeleteCommits
<1>8. \A r \in Req : ~RolledBack(r)
  <2>1. ~Deleting
    BY DEF CalmRequests, Deleting
  <2> QED
    BY <2>1 DEF RolledBack, Deadlocked
<1> HIDE DEF Calm
<1>9. \E r \in Req : Calm(r)
  BY <1>3, <1>4, <1>5, <1>6, <1>7, <1>8 DEF ServerStep, RequestStep
<1> QED
  BY <1>9 DEF Calm

-----------------------------------------------------------------------------
(* Who waits for whom: the locks are taken in the order of the tokens.     *)

\* Tokens are issued in their order.
IssuedInOrder == \A t, u \in Token : row[t].state # "unused" /\ row[u].state = "unused" => t < u

\* A token that is not revoked is the latest of its family.
LatestStands ==
  \A t, u \in Token :
    row[t].family # None /\ row[u].family = row[t].family /\ row[t].state \in Unrevoked => u <= t

\* A revocation waits for its own token and later ones only.
WaitsForLater ==
  \A r \in Req : req[r].at = "sweeping" => \A t \in req[r].sweep : req[r].token <= t

OrderInv == IssuedInOrder /\ LatestStands /\ WaitsForLater

\* Steps that issue nothing: states move on, and no sweep changes.
LEMMA OrderStays ==
  ASSUME Fading \/ row' = row, OrderInv,
         \A r \in Req : req'[r].at = "sweeping" =>
           req[r].at = "sweeping" /\ req'[r].token = req[r].token /\ req'[r].sweep = req[r].sweep
  PROVE  OrderInv'
<1>1. /\ \A t \in Token : /\ row'[t].family = row[t].family
                          /\ row'[t].state \in Unrevoked => row[t].state \in Unrevoked
                          /\ row'[t].state = "unused" <=> row[t].state = "unused"
  BY DEF Fading
<1>2. IssuedInOrder' /\ LatestStands'
  BY <1>1 DEF OrderInv, IssuedInOrder, LatestStands
<1>3. WaitsForLater'
  BY DEF OrderInv, WaitsForLater
<1> QED
  BY <1>2, <1>3 DEF OrderInv

\* A token that is issued is later than all issued before, and nobody's family.
LEMMA IssuedStays ==
  ASSUME ServerInv, OrderInv, NEW new \in Unused, \A u \in Unused : new <= u,
         \A t \in Token \ {new} : /\ row'[t].family = row[t].family
                                  /\ row'[t].state \in Unrevoked => row[t].state \in Unrevoked
                                  /\ row'[t].state = "unused" <=> row[t].state = "unused",
         row'[new].state = "live",
         \/ row'[new].family = new
         \/ \E old \in Token : old # new /\ row[old].state \in Unrevoked /\ row[old].family # None
                               /\ row'[old].state \notin Unrevoked
                               /\ row'[new].family = row[old].family,
         \A r \in Req : req'[r].at = "sweeping" => req'[r] = req[r]
  PROVE  OrderInv'
<1>1. new \in Token /\ row[new].state = "unused" /\ row[new].family = None /\ Token \subseteq Int
  BY DEF Unused, ServerInv, RowsInFamilies, Token
<1>2. \A t \in Token : row[t].state # "unused" => t < new
  BY <1>1 DEF OrderInv, IssuedInOrder
<1>3. \A u \in Token : row[u].state = "unused" => new <= u
  BY DEF Unused
<1>4. IssuedInOrder'
  <2> SUFFICES ASSUME NEW t \in Token, NEW u \in Token, row'[t].state # "unused", row'[u].state = "unused"
               PROVE  t < u
    BY DEF IssuedInOrder
  <2>1. u # new /\ row[u].state = "unused" /\ new < u
    BY <1>1, <1>3
  <2>2. t # new => t < u
    BY <1>1, <2>1 DEF OrderInv, IssuedInOrder
  <2> QED
    BY <2>1, <2>2
<1>5. \A t \in Token \ {new} : row'[t].family # None => row[t].state # "unused" /\ t < new
  BY <1>2 DEF ServerInv, RowsInFamilies
<1>6. \A t \in Token : row[t].family # new
  BY <1>1, NoneIsNoToken DEF ServerInv, RowsInFamilies
<1>7. LatestStands'
  <2> SUFFICES ASSUME NEW t \in Token, NEW u \in Token, row'[t].family # None,
                      row'[u].family = row'[t].family, row'[t].state \in Unrevoked
               PROVE  u <= t
    BY DEF LatestStands
  <2>1. CASE t = new
    <3>1. u # new => u < new
      BY <1>5, <2>1
    <3> QED
      BY <1>1, <2>1, <3>1
  <2>2. CASE t # new /\ u # new
    BY <2>2 DEF OrderInv, LatestStands
  <2>3. CASE t # new /\ u = new
    <3>1. row[t].family = row'[new].family /\ row[t].state \in Unrevoked /\ row[t].family # new
      BY <1>6, <2>3
    <3>2. PICK old \in Token : /\ old # new /\ row[old].state \in Unrevoked /\ row[old].family # None
                               /\ row'[old].state \notin Unrevoked
                               /\ row'[new].family = row[old].family
      BY <3>1
    <3>3. t = old
      BY <3>1, <3>2 DEF ServerInv, OneLive
    <3> QED
      BY <3>2, <3>3
  <2> QED
    BY <2>1, <2>2, <2>3
<1>8. WaitsForLater'
  BY DEF OrderInv, WaitsForLater
<1> QED
  BY <1>4, <1>7, <1>8 DEF OrderInv

LEMMA LeastUnused == Unused # {} => NextToken \in Unused /\ \A u \in Unused : NextToken <= u
  BY LeastToken DEF NextToken, Unused

LEMMA ServerKeepsOrder == ServerInv /\ OrderInv /\ ServerStep => OrderInv'
<1> SUFFICES ASSUME ServerInv, OrderInv, ServerStep PROVE OrderInv'
  OBVIOUS
<1>0. row \in [Token -> Rows] /\ req \in [Req -> Requests] /\ ServerTypeOK
  BY DEF ServerInv, ServerTypeOK
<1>1. ASSUME NEW r \in Req, NEW answer \in Answer, NEW fresh \in Token \cup {None},
             Answered(r, answer, fresh)
      PROVE  \A q \in Req : req'[q].at = "sweeping" => req'[q] = req[q]
  BY <1>0, <1>1, AnsweredEffect
<1>2. ASSUME NEW r \in Req, NEW phase \in Phase \ {"sweeping"}, Enters(r, phase)
      PROVE  \A q \in Req : req'[q].at = "sweeping" => req'[q] = req[q]
  BY <1>0, <1>2, EntersEffect
<1>3. ASSUME NEW r \in Req, RefreshRefused(r) \/ RefreshDetectsReuse(r) \/ RefreshLocks(r)
                            \/ LogoutLocks(r) \/ DeleteStarts(r) \/ RolledBack(r)
      PROVE  OrderInv'
  <2>1. row' = row /\ \A q \in Req : req'[q].at = "sweeping" => req'[q] = req[q]
    BY <1>1, <1>2, <1>3
    DEF RefreshRefused, RefreshDetectsReuse, RefreshLocks, LogoutLocks, DeleteStarts, RolledBack,
        Answer, Phase, Holding
  <2> QED
    BY <2>1, OrderStays
<1>4. ASSUME NEW r \in Req, FamilySnapshot(r) PROVE OrderInv'
  <2> DEFINE seen == {t \in Family(req[r].token) : row[t].state \in Unrevoked}
  <2>1. /\ row' = row /\ \A q \in Req \ {r} : req'[q] = req[q]
        /\ req'[r].token = req[r].token /\ req'[r].sweep = seen /\ req[r].at = "revoking"
    BY <1>0, <1>4 DEF FamilySnapshot, Requests
  <2>2. req[r].token \in Token /\ row[req[r].token].family = None => seen = {}
    BY <1>0, NoneIsNoToken DEF ServerInv, RowsInFamilies, Family, Unrevoked
  <2>3. req[r].token \in Token
    BY <2>1 DEF ServerInv, Locks, Holding
  <2>4. \A t \in seen : req[r].token <= t
    BY <2>2, <2>3 DEF OrderInv, LatestStands, Family
  <2> HIDE DEF seen
  <2>5. WaitsForLater'
    BY <2>1, <2>4 DEF OrderInv, WaitsForLater
  <2> QED
    BY <2>1, <2>5 DEF OrderInv, IssuedInOrder, LatestStands
<1>5. ASSUME NEW r \in Req, RotationCommits(r) PROVE OrderInv'
  <2> DEFINE old == req[r].token
             new == NextToken
             fresh == Inserted(new, row[old].family, old)
             spent == [row[old] EXCEPT !.state = "grace"]
  <2>1. /\ new \in Unused /\ \A u \in Unused : new <= u
        /\ old \in Token /\ row[old].state = "live" /\ row[old].family # None
        /\ new \in Token /\ row[new].state = "unused"
    BY <1>5, LeastUnused
    DEF RotationCommits, ServerInv, Locks, RotatesLive, RowsInFamilies, Holding, Unused
  <2>2. spent.state = "grace" /\ spent.family = row[old].family
        /\ fresh.state = "live" /\ fresh.family = row[old].family
    BY <1>0, <2>1, Restated DEF Inserted, RowState
  <2>3. row' = [row EXCEPT ![old] = spent, ![new] = fresh]
    BY <1>5 DEF RotationCommits
  <2>4. \A q \in Req : req'[q].at = "sweeping" => req'[q] = req[q]
    BY <1>1, <1>5, <2>1 DEF RotationCommits, Answer
  <2> HIDE DEF old, new, spent, fresh
  <2>5. /\ row'[new].state = "live" /\ row'[new].family = row[old].family /\ old # new
        /\ row'[old].state = "grace" /\ row'[old].family = row[old].family
        /\ \A t \in Token \ {old, new} : row'[t] = row[t]
    BY <1>0, <2>1, <2>2, <2>3
  <2>6. \A t \in Token \ {new} : /\ row'[t].family = row[t].family
                                 /\ row'[t].state \in Unrevoked => row[t].state \in Unrevoked
                                 /\ row'[t].state = "unused" <=> row[t].state = "unused"
    BY <2>1, <2>5 DEF Unrevoked
  <2>7. row[old].state \in Unrevoked /\ row'[old].state \notin Unrevoked
    BY <2>1, <2>5 DEF Unrevoked
  <2> QED
    BY <2>1, <2>4, <2>5, <2>6, <2>7, IssuedStays
<1>6. ASSUME NEW r \in Req, SessionInserted(r) PROVE OrderInv'
  <2> DEFINE new == NextToken
             fresh == Inserted(new, new, None)
  <2>1. new \in Unused /\ (\A u \in Unused : new <= u) /\ new \in Token
    BY <1>6, LeastUnused DEF SessionInserted, Unused
  <2>2. fresh.state = "live" /\ fresh.family = new
    BY DEF Inserted
  <2>3. row' = [row EXCEPT ![new] = fresh]
    BY <1>6 DEF SessionInserted
  <2>4. \A q \in Req : req'[q].at = "sweeping" => req'[q] = req[q]
    BY <1>1, <1>6, <2>1 DEF SessionInserted, Answer
  <2> HIDE DEF new, fresh
  <2>5. /\ row'[new].state = "live" /\ row'[new].family = new
        /\ \A t \in Token \ {new} : row'[t] = row[t]
    BY <1>0, <2>1, <2>2, <2>3
  <2> QED
    BY <2>1, <2>4, <2>5, IssuedStays
<1>7. ASSUME NEW r \in Req, FamilyRevoked(r) PROVE OrderInv'
  <2> DEFINE new(t) == [row[t] EXCEPT !.state = "grace"]
             hit(t) == t \in req[r].sweep /\ row[t].state \in Unrevoked
  <2>1. \A t \in Token : new(t) \in Rows /\ new(t).state = "grace" /\ new(t).family = row[t].family
                         /\ new(t).from = row[t].from
    BY <1>0, Restated DEF RowState
  <2>2. row' = [t \in Token |-> IF hit(t) THEN new(t) ELSE row[t]]
    BY <1>7 DEF FamilyRevoked
  <2> HIDE DEF new
  <2>3. Fading
    BY <1>0, <2>1, <2>2 DEF Fading, Unrevoked
  <2>4. \A q \in Req : req'[q].at = "sweeping" => req'[q] = req[q]
    BY <1>1, <1>7, NoneIsNoToken DEF FamilyRevoked, Answer
  <2> QED
    BY <2>3, <2>4, OrderStays
<1>8. ASSUME NEW r \in Req, DeleteCommits(r) PROVE OrderInv'
  <2> DEFINE new(t) == [row[t] EXCEPT !.state = "deleted"]
  <2>1. \A t \in Token : new(t) \in Rows /\ new(t).state = "deleted" /\ new(t).family = row[t].family
                         /\ new(t).from = row[t].from
    BY <1>0, Restated DEF RowState
  <2>2. row' = [t \in Token |-> IF row[t].state = "unused" THEN row[t] ELSE new(t)]
    BY <1>8 DEF DeleteCommits, Unused
  <2> HIDE DEF new
  <2>3. Fading
    BY <1>0, <2>1, <2>2 DEF Fading, Unrevoked
  <2>4. \A q \in Req : req'[q].at = "sweeping" => req'[q] = req[q]
    BY <1>1, <1>8 DEF DeleteCommits, Answer
  <2> QED
    BY <2>3, <2>4, OrderStays
<1> QED
  BY <1>3, <1>4, <1>5, <1>6, <1>7, <1>8 DEF ServerStep, RequestStep

LEMMA TimeKeepsOrder ==
  ASSUME ServerInv, OrderInv, NEW t \in Token, GracePasses(t) \/ TokenExpires(t) PROVE OrderInv'
<1> DEFINE state == IF row[t].state = "grace" THEN "revoked" ELSE "expired"
           new == [row[t] EXCEPT !.state = state]
<1>0. row \in [Token -> Rows]
  BY DEF ServerInv, ServerTypeOK
<1>1. /\ new \in Rows /\ new.state = state
      /\ new.family = row[t].family /\ new.from = row[t].from
  BY <1>0, Restated DEF RowState
<1>2. row[t].state \in {"grace", "live"} /\ req' = req /\ row' = [row EXCEPT ![t] = new]
  BY DEF GracePasses, TokenExpires, Live
<1> HIDE DEF new
<1>3. Fading
  BY <1>0, <1>1, <1>2 DEF Fading, Unrevoked
<1> QED
  BY <1>2, <1>3, OrderStays

LEMMA ClientKeepsOrder == OrderInv /\ ClientOnly => OrderInv'
  BY OrderStays DEF ClientOnly

LEMMA OrderStarts ==
  ASSUME \/ row = [t \in Token |-> UnusedRow]
         \/ row = [t \in Token |-> IF t = 1 THEN Inserted(1, 1, None) ELSE UnusedRow],
         req = [r \in Req |-> NoRequest]
  PROVE  OrderInv
<1>1. NoRequest.at = "idle" /\ UnusedRow.state = "unused" /\ UnusedRow.family = None
  BY DEF NoRequest, UnusedRow
<1>2. \A t \in Token : t # 1 => row[t] = UnusedRow
  OBVIOUS
<1>3. \A t \in Token : row[t].state # "unused" \/ row[t].family # None => t = 1
  BY <1>1, <1>2
<1>4. Token \subseteq Int /\ \A t \in Token : 1 <= t
  BY DEF Token
<1>5. IssuedInOrder /\ LatestStands
  BY <1>3, <1>4, NoneIsNoToken DEF IssuedInOrder, LatestStands
<1>6. WaitsForLater
  BY <1>1 DEF WaitsForLater
<1> QED
  BY <1>5, <1>6 DEF OrderInv

\* The latest of some tokens.
LEMMA LatestToken ==
  ASSUME NEW T, T \subseteq Token, T # {}
  PROVE  \E x \in T : \A y \in T : y <= x
<1> DEFINE mirror(t) == MaxTokens + 1 - t
           S == {mirror(t) : t \in T}
<1>1. Token \subseteq Nat /\ MaxTokens \in Nat /\ \A t \in Token : mirror(t) \in Token
  BY TokensAssumption DEF Token
<1>2. S \subseteq Token /\ S # {}
  BY <1>1
<1>3. PICK s \in S : \A y \in S : s <= y
  BY <1>2, LeastToken
<1>4. PICK x \in T : s = mirror(x)
  OBVIOUS
<1>5. ASSUME NEW y \in T PROVE y <= x
  <2>1. mirror(x) <= mirror(y)
    BY <1>3, <1>4
  <2> QED
    BY <1>1, <2>1
<1> QED
  BY <1>5

\* In a ring of waits without a deletion nobody rotates or is about to take its
\* family's snapshot, so whoever is waited for revokes a family; but of those the
\* one that holds the latest token waits for none of the others.
LEMMA RingsNeedDeletions ==
  ASSUME ServerInv, OrderInv
  PROVE  OnlyDeletionsDeadlock
<1> SUFFICES ASSUME NEW C \in SUBSET Req, C # {}, \A r \in C : \E q \in C : BlockedBy(r, q),
                    \A r \in C : req[r].at # "deleting"
             PROVE  FALSE
  BY DEF OnlyDeletionsDeadlock
<1>1. req \in [Req -> Requests] /\ C \subseteq Req
  BY DEF ServerInv, ServerTypeOK
<1>2. ASSUME NEW r \in C, NEW q \in C, BlockedBy(r, q) PROVE q # r /\ req[q].at = "sweeping"
  <2>1. q # r /\ req[q].at \in Holding
    BY <1>2 DEF BlockedBy
  <2>2. PICK p \in C : BlockedBy(q, p)
    OBVIOUS
  <2>3. req[q].at \in {"sent", "sweeping", "rotating", "deleting"} /\ req[q].at # "rotating"
    BY <2>2 DEF BlockedBy
  <2> QED
    BY <2>1, <2>3 DEF Holding
<1> DEFINE Sweepers == {p \in C : req[p].at = "sweeping"}
           Held == {req[p].token : p \in Sweepers}
<1>3. Held \subseteq Token /\ Held # {}
  <2>1. PICK r \in C : TRUE
    OBVIOUS
  <2>2. PICK q \in C : BlockedBy(r, q)
    OBVIOUS
  <2>3. q \in Sweepers
    BY <1>2, <2>2
  <2>4. req[q].token \in Held
    BY <2>3
  <2>5. ASSUME NEW p \in Sweepers PROVE req[p].token \in Token
    BY <1>1, <2>5 DEF ServerInv, Locks, Holding
  <2> QED
    BY <2>4, <2>5
<1>4. PICK x \in Held : \A y \in Held : y <= x
  BY <1>3, LatestToken
<1>5. PICK r \in Sweepers : req[r].token = x
  OBVIOUS
<1>6. PICK q \in C : BlockedBy(r, q)
  OBVIOUS
<1>7. q # r /\ q \in Sweepers /\ req[q].token \in req[r].sweep
  BY <1>2, <1>5, <1>6 DEF BlockedBy
<1>8. req[q].token \in Held /\ x <= req[q].token /\ req[q].token <= x
  BY <1>1, <1>4, <1>5, <1>7 DEF OrderInv, WaitsForLater
<1>9. req[q].token = x
  <2>1. x \in Int /\ req[q].token \in Int
    BY <1>3, <1>4, <1>8 DEF Token
  <2> QED
    BY <1>8, <2>1
<1> QED
  BY <1>1, <1>5, <1>7, <1>9 DEF ServerInv, Locks, Holding

=============================================================================
