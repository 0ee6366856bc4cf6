-------------------------- MODULE DeliveryLedgerProofs --------------------------
(* What the abstract ledger promises, proved for any number of senders and *)
(* accounts.                                                               *)
EXTENDS DeliveryLedger, TLAPS

(* The row of a pair that is being delivered is there as long as the       *)
(* account is: only its holder removes it, or the account's deletion.      *)
HeldRowsExist ==
  \A s \in Senders : \A p \in attempt[s] : p[1] \in known => p \in claimed

AttemptIsFunction == attempt = [s \in Senders |-> attempt[s]]

LedgerInv == AttemptIsFunction /\ HeldRowsExist /\ Exclusive

-----------------------------------------------------------------------------

(* Any number of senders, accounts and keys: the unique index alone keeps  *)
(* two senders off the same pair, also while accounts are deleted under    *)
(* their hands.                                                            *)
THEOREM LedgerExclusive == Spec => []Exclusive
<1>1. Init => LedgerInv
  BY DEF Init, LedgerInv, AttemptIsFunction, HeldRowsExist, Exclusive
<1>2. LedgerInv /\ [Next]_ledgerVars => LedgerInv'
  <2> SUFFICES ASSUME LedgerInv, [Next]_ledgerVars PROVE LedgerInv'
    OBVIOUS
  <2> USE DEF LedgerInv, AttemptIsFunction, HeldRowsExist, Exclusive
  <2>1. ASSUME NEW s \in Senders, Claim(s) PROVE LedgerInv'
    <3>1. PICK p : /\ p[1] \in known /\ p \notin claimed
                   /\ claimed' = claimed \cup {p}
                   /\ attempt' = [attempt EXCEPT ![s] = {p}]
                   /\ UNCHANGED <<known, delivered>>
      BY <2>1 DEF Claim
    <3>2. \A t \in Senders : p \notin attempt[t]
      BY <3>1
    <3> QED
      BY <3>1, <3>2
  <2>2. ASSUME NEW s \in Senders, Push(s) PROVE LedgerInv'
    BY <2>2 DEF Push
  <2>3. ASSUME NEW s \in Senders, Withdraw(s) PROVE LedgerInv'
    BY <2>3 DEF Withdraw
  <2>4. ASSUME NEW s \in Senders, Leave(s) PROVE LedgerInv'
    BY <2>4 DEF Leave
  <2>5. ASSUME NEW u \in Accounts, Forget(u) PROVE LedgerInv'
    BY <2>5 DEF Forget
  <2>6. CASE UNCHANGED ledgerVars
    BY <2>6 DEF ledgerVars
  <2> QED
    BY <2>1, <2>2, <2>3, <2>4, <2>5, <2>6 DEF Next
<1>3. LedgerInv => Exclusive
  BY DEF LedgerInv
<1> QED
  BY <1>1, <1>2, <1>3, PTL DEF Spec

(* A receipt is never left without its row, so the pair of an accepted     *)
(* push stays closed to every later claim while the account exists.        *)
THEOREM LedgerReceipts == Spec => []ReceiptsHaveRows
<1>1. Init => ReceiptsHaveRows
  BY DEF Init, ReceiptsHaveRows
<1>2. ReceiptsHaveRows /\ [Next]_ledgerVars => ReceiptsHaveRows'
  BY DEF ReceiptsHaveRows, Next, ledgerVars, Claim, Push, Withdraw, Leave, Forget
<1> QED
  BY <1>1, <1>2, PTL DEF Spec

=============================================================================
