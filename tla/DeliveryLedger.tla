----------------------------- MODULE DeliveryLedger -----------------------------
(***************************************************************************)
(* What the table notification_delivery promises the notification job: a   *)
(* row is first a claim, held by the one process that inserted it, and     *)
(* from the first accepted push on a receipt that is never given back.     *)
(* A claim that came to nothing is withdrawn by its holder; the claim of a *)
(* process that died stays, with nobody left to withdraw it.               *)
(* The rows of a deleted account disappear with it, for good.              *)
(***************************************************************************)
CONSTANTS Senders, Accounts

VARIABLES
  known,        \* accounts that still exist
  claimed,      \* pairs of account and key with a row
  delivered,    \* those of them with an accepted push
  attempt       \* for each sender the pair it is delivering: a set of at most one

ledgerVars == <<known, claimed, delivered, attempt>>

Init ==
  /\ known = Accounts
  /\ claimed = {} /\ delivered = {}
  /\ attempt = [s \in Senders |-> {}]

\* A sender takes a pair <<account, key>> of its choice that has no row.
Claim(s) ==
  /\ attempt[s] = {}
  /\ \E p \in attempt'[s] :
       /\ p[1] \in known /\ p \notin claimed
       /\ claimed' = claimed \cup {p}
       /\ attempt' = [attempt EXCEPT ![s] = {p}]
  /\ UNCHANGED <<known, delivered>>

Push(s) ==
  /\ attempt[s] \subseteq claimed
  /\ delivered' = delivered \cup attempt[s]
  /\ UNCHANGED <<known, claimed, attempt>>

Withdraw(s) ==
  /\ attempt[s] \cap delivered = {}
  /\ claimed' = claimed \ attempt[s]
  /\ attempt' = [attempt EXCEPT ![s] = {}]
  /\ UNCHANGED <<known, delivered>>

\* The sender keeps the row: it pushed, or it died.
Leave(s) ==
  /\ attempt' = [attempt EXCEPT ![s] = {}]
  /\ UNCHANGED <<known, claimed, delivered>>

Forget(u) ==
  /\ u \in known
  /\ known' = known \ {u}
  /\ claimed' = {p \in claimed : p[1] # u}
  /\ delivered' = {p \in delivered : p[1] # u}
  /\ UNCHANGED attempt

Next ==
  \/ \E s \in Senders : Claim(s) \/ Push(s) \/ Withdraw(s) \/ Leave(s)
  \/ \E u \in Accounts : Forget(u)

Spec == Init /\ [][Next]_ledgerVars

-----------------------------------------------------------------------------

(* Two processes never deliver the same message to the same user at the    *)
(* same time, although nothing but the unique index coordinates them.      *)
Exclusive ==
  \A s, t \in Senders : s # t => attempt[s] \cap attempt[t] = {}

(* A receipt always has its row, so that no process can claim the pair     *)
(* again.                                                                  *)
ReceiptsHaveRows == delivered \subseteq claimed

=============================================================================
