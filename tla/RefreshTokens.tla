----------------------------- MODULE RefreshTokens -----------------------------
(***************************************************************************)
(* The auth server: refresh tokens in families, and the transactions of    *)
(* auth.service.ts that rotate and revoke them.                            *)
(*                                                                         *)
(* A login opens a family.  A rotation revokes the submitted token and     *)
(* inserts its successor; a revoked token that comes back within the grace *)
(* time lost a race and is only refused, later it counts as stolen and     *)
(* takes its family with it; a logout revokes the family too.  Every       *)
(* transaction locks the submitted row first (SELECT ... FOR UPDATE), and  *)
(* revokes a family by an UPDATE that sees the rows committed when the     *)
(* statement starts (READ COMMITTED) and waits for the locked ones.        *)
(***************************************************************************)
EXTENDS Naturals, FiniteSets

CONSTANTS
  Req,              \* slots for HTTP requests the server may hold at once
  None,
  MaxTokens,        \* bound: refresh tokens ever issued
  MaxFailures       \* bound: transactions rolled back

ASSUME TokensAssumption ==
  /\ MaxTokens \in Nat \ {0} /\ MaxFailures \in Nat
  /\ None \notin Nat /\ None \notin Req

VARIABLES
  row,              \* the table refresh_token, by token
  req,              \* the requests
  failures          \* transactions rolled back so far

serverVars == <<row, req, failures>>

Token == 1 .. MaxTokens

\* revoked_at is NULL in "live" and "expired"; "grace" and "revoked" tell a
\* revocation of the last ten seconds from an older one.
RowState == {"unused", "live", "expired", "grace", "revoked", "deleted"}
Unrevoked == {"live", "expired"}

\* Phases in which a request's transaction holds the lock on its token's row.
Holding == {"rotating", "revoking", "sweeping"}
Phase == {"idle", "sent", "deleting", "answered"} \cup Holding
Op == {"refresh", "logout", "exchange", "login", "delete", "none"}
Answer == {"none", "ok", "not-found", "raced", "reused", "expired", "invalid", "error"}

\* sweep: the rows an UPDATE by family saw; fresh: the token handed out.
NoRequest == [at |-> "idle", op |-> "none", token |-> None, waited |-> FALSE,
              sweep |-> {}, answer |-> "none", fresh |-> None]

UnusedRow == [state |-> "unused", family |-> None, from |-> None]

TokensInit ==
  /\ row = [t \in Token |-> UnusedRow]
  /\ req = [r \in Req |-> NoRequest]
  /\ failures = 0

Family(t) == {u \in Token : row[u].family = row[t].family}
Live(t) == row[t].state = "live"
Unused == {t \in Token : row[t].state = "unused"}
NextToken == CHOOSE t \in Unused : \A u \in Unused : t <= u
Inserted(t, family, from) == [state |-> "live", family |-> family, from |-> from]

\* Faulty: SELECT without FOR UPDATE.
NoRowLock(t, r) == t = None /\ r = None
LockedByOther(t, r) ==
  \E q \in Req \ {r} : req[q].token = t /\ req[q].at \in Holding
Deleting == \E q \in Req : req[q].at = "deleting"

\* The answer goes to the client, or nowhere when the client gave up.
Answered(r, answer, fresh) ==
  req' = [req EXCEPT ![r] =
    IF req[r].waited
    THEN [NoRequest EXCEPT !.at = "answered", !.op = req[r].op, !.waited = TRUE,
                           !.answer = answer, !.fresh = fresh]
    ELSE NoRequest]
Enters(r, phase) == req' = [req EXCEPT ![r].at = phase]

\* A client's side of a request, used by the modules that model clients.
Sent(op, token) == [NoRequest EXCEPT !.at = "sent", !.op = op, !.token = token,
                                     !.waited = TRUE]
Taken(r) == [req EXCEPT ![r] = NoRequest]
GivenUp(r) == [req EXCEPT ![r] = IF @.at = "answered" THEN NoRequest
                                 ELSE [@ EXCEPT !.waited = FALSE]]

-----------------------------------------------------------------------------

\* FOR UPDATE found no row, or a row that settles the answer on its own.
RefreshRefused(r) ==
  /\ req[r].at = "sent" /\ req[r].op = "refresh"
  /\ ~LockedByOther(req[r].token, r)
  /\ LET state == row[req[r].token].state IN
     \/ state = "deleted" /\ Answered(r, "not-found", None)
     \/ state = "grace" /\ Answered(r, "raced", None)
     \/ state = "expired" /\ Answered(r, "expired", None)
  /\ UNCHANGED <<row, failures>>

\* An old token came back: the transaction goes on to revoke the family.
RefreshDetectsReuse(r) ==
  /\ req[r].at = "sent" /\ req[r].op = "refresh"
  /\ ~LockedByOther(req[r].token, r)
  /\ row[req[r].token].state = "revoked"
  /\ Enters(r, "revoking")
  /\ UNCHANGED <<row, failures>>

\* Faulty: a token revoked a moment ago may rotate again.
LocksInGrace(r) ==
  /\ req[r].at = "sent" /\ req[r].op = "refresh"
  /\ ~LockedByOther(req[r].token, r)
  /\ row[req[r].token].state \in {"live", "grace"}
  /\ Enters(r, "rotating")
  /\ UNCHANGED <<row, failures>>

RefreshLocks(r) ==
  /\ req[r].at = "sent" /\ req[r].op = "refresh"
  /\ ~LockedByOther(req[r].token, r)
  /\ Live(req[r].token)
  /\ Enters(r, "rotating")
  /\ UNCHANGED <<row, failures>>

\* revokeToken, insertRefreshToken and COMMIT: one visible change.  The
\* INSERT waits for a DELETE of its user (foreign key).
RotationCommits(r) ==
  /\ req[r].at = "rotating"
  /\ ~Deleting
  /\ Unused # {}
  /\ LET old == req[r].token  new == NextToken IN
     /\ row' = [row EXCEPT ![old].state = "grace",
                           ![new] = Inserted(new, row[old].family, old)]
     /\ Answered(r, "ok", new)
  /\ UNCHANGED failures

\* Faulty: a logout that does not look for the row's family again.
LogoutByToken(r) ==
  /\ req[r].at = "sent" /\ req[r].op = "logout"
  /\ req' = [req EXCEPT ![r].at = "sweeping", ![r].sweep = {req[r].token}]
  /\ UNCHANGED <<row, failures>>

\* A token that expired is not looked up, and one of a deleted user not found.
LogoutLocks(r) ==
  /\ req[r].at = "sent" /\ req[r].op = "logout"
  /\ ~LockedByOther(req[r].token, r)
  /\ IF row[req[r].token].state \in {"deleted", "expired"} THEN Answered(r, "ok", None)
                                                          ELSE Enters(r, "revoking")
  /\ UNCHANGED <<row, failures>>

\* Faulty: the UPDATE takes every row of the family, the revoked ones too.
WholeFamilySnapshot(r) ==
  /\ req[r].at = "revoking"
  /\ req' = [req EXCEPT ![r].at = "sweeping", ![r].sweep = Family(req[r].token)]
  /\ UNCHANGED <<row, failures>>

\* revokeFamily starts: its snapshot holds the rows committed by now.
FamilySnapshot(r) ==
  /\ req[r].at = "revoking"
  /\ req' = [req EXCEPT ![r].at = "sweeping",
       ![r].sweep = {t \in Family(req[r].token) : row[t].state \in Unrevoked}]
  /\ UNCHANGED <<row, failures>>

\* revokeFamily waited for the rows other transactions hold, rechecks each
\* and commits; a row it did not see stays as it is.
FamilyRevoked(r) ==
  /\ req[r].at = "sweeping"
  /\ \A t \in req[r].sweep : ~LockedByOther(t, r)
  /\ row' = [t \in Token |->
       IF t \in req[r].sweep /\ row[t].state \in Unrevoked
       THEN [row[t] EXCEPT !.state = "grace"] ELSE row[t]]
  /\ Answered(r, IF req[r].op = "logout" THEN "ok" ELSE "reused", None)
  /\ UNCHANGED failures

\* issueSession at the end of a login: one INSERT, a family of its own.
SessionInserted(r) ==
  /\ req[r].at = "sent" /\ req[r].op = "login"
  /\ ~Deleting
  /\ Unused # {}
  /\ row' = [row EXCEPT ![NextToken] = Inserted(NextToken, NextToken, None)]
  /\ Answered(r, "ok", NextToken)
  /\ UNCHANGED failures

\* DELETE FROM app_user locks the user, then cascades to the token rows.
DeleteStarts(r) ==
  /\ req[r].at = "sent" /\ req[r].op = "delete"
  /\ ~Deleting
  /\ Enters(r, "deleting")
  /\ UNCHANGED <<row, failures>>

DeleteCommits(r) ==
  /\ req[r].at = "deleting"
  /\ \A q \in Req : req[q].at \notin Holding
  /\ row' = [t \in Token |-> IF t \in Unused THEN row[t]
                             ELSE [row[t] EXCEPT !.state = "deleted"]]
  /\ Answered(r, "ok", None)
  /\ UNCHANGED failures

\* ROLLBACK: a query failed, or PostgreSQL broke the deadlock between a
\* rotation that waits for the user's row and a deletion that waits for the
\* token's.
Deadlocked(r) ==
  /\ req[r].at \in {"rotating", "deleting"}
  /\ Deleting /\ \E q \in Req : req[q].at = "rotating"
RolledBack(r) ==
  /\ req[r].at \in Holding \cup {"deleting"}
  /\ \/ Deadlocked(r) /\ UNCHANGED failures
     \/ ~Deadlocked(r) /\ failures < MaxFailures /\ failures' = failures + 1
  /\ Answered(r, "error", None)
  /\ UNCHANGED row

\* Ten seconds pass after a revocation; fourteen days after an insertion.
GracePasses(t) ==
  /\ row[t].state = "grace"
  /\ row' = [row EXCEPT ![t].state = "revoked"]
  /\ UNCHANGED <<req, failures>>

TokenExpires(t) ==
  /\ Live(t)
  /\ \A r \in Req : req[r].token = t => req[r].at \notin Holding
  /\ row' = [row EXCEPT ![t].state = "expired"]
  /\ UNCHANGED <<req, failures>>

RequestStep(r) ==
  \/ RefreshRefused(r) \/ RefreshDetectsReuse(r) \/ RefreshLocks(r) \/ RotationCommits(r)
  \/ LogoutLocks(r) \/ FamilySnapshot(r) \/ FamilyRevoked(r)
  \/ SessionInserted(r) \/ DeleteStarts(r) \/ DeleteCommits(r)
  \/ RolledBack(r)

ServerStep == \E r \in Req : RequestStep(r)

\* The lock that the next statement of r needs is held by q.
BlockedBy(r, q) ==
  /\ q # r
  /\ \/ /\ req[r].at = "sent" /\ req[r].op \in {"refresh", "logout"}
        /\ req[q].at \in Holding /\ req[q].token = req[r].token
     \/ /\ req[r].at = "sweeping"
        /\ req[q].at \in Holding /\ req[q].token \in req[r].sweep
     \/ /\ req[r].at = "rotating" \/ (req[r].at = "sent" /\ req[r].op \in {"login", "delete"})
        /\ req[q].at = "deleting"
     \/ req[r].at = "deleting" /\ req[q].at \in Holding

\* Every ring of waits has the deletion of the account in it: rotations, logouts
\* and the revocations of families never wait for each other in a ring, although
\* two revocations of one family hold different rows of it and each has
\* locked its own before it asks for the rest (auth.service.ts:171, 229). The
\* ring of a rotation and a deletion is real; PostgreSQL breaks it.
OnlyDeletionsDeadlock ==
  \A C \in (SUBSET Req) \ {{}} :
    (\A r \in C : \E q \in C : BlockedBy(r, q)) => \E r \in C : req[r].at = "deleting"

=============================================================================
