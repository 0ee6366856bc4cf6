------------------------------ MODULE MCDispatcher ------------------------------
(* Instances of NotificationDispatcher for TLC. *)
EXTENDS NotificationDispatcher, TLC

CONSTANTS u1, u2, t1, t2, i1, i2

\* An item's history: first observed, failed once with a lower price, then
\* postponed, or shown without price and date.
Listed    == [failed |-> 0, price |-> 9, bid |-> 40]
Failed    == [failed |-> 1, price |-> 7, bid |-> 60]
Postponed == [failed |-> 1, price |-> 7, bid |-> 80]
Blank     == [failed |-> 1, price |-> NoValue, bid |-> NoValue]

FullValues == {Listed, Failed, Postponed}
NullValues == {Listed, Failed, Blank}

FirstRow == {[id |-> 1, item |-> i1, obs |-> 0, val |-> Listed]}
FirstRows == FirstRow \cup {[id |-> 2, item |-> i2, obs |-> 0, val |-> Listed]}

\* Bids so near that the reminders of D-3 and D-1 fall into the run.
SoonListed == [failed |-> 0, price |-> 9, bid |-> 4]
SoonFailed == [failed |-> 1, price |-> 7, bid |-> 6]
SoonValues == {SoonListed, SoonFailed}
SoonRow == {[id |-> 1, item |-> i1, obs |-> 0, val |-> SoonListed]}
SoonRows == SoonRow \cup {[id |-> 2, item |-> i2, obs |-> 0, val |-> SoonListed]}

\* One item two users follow and one only the first follows.
Shared == {<<u1, i1>>, <<u2, i1>>, <<u1, i2>>}
Separate == {<<u1, i1>>, <<u2, i2>>}
OneOnly == {<<u1, i1>>}

PairOfOne == {[token |-> t1, user |-> u1, seen |-> 0],
              [token |-> t2, user |-> u1, seen |-> -1]}
TwoDevices == {[token |-> t1, user |-> u1, seen |-> 0],
               [token |-> t2, user |-> u2, seen |-> 0]}

RunSymmetry == Permutations(Runs)

=============================================================================
