------------------------------- MODULE ItemList -------------------------------
(***************************************************************************)
(* The list of items in the app (ItemListScreen.tsx): pages of the items,  *)
(* the last changed first, by LIMIT and OFFSET, one after the other as the *)
(* reader scrolls, while the collector changes items.                      *)
(***************************************************************************)
EXTENDS Integers, Sequences, FiniteSets, SequencesExt

CONSTANTS Stock,        \* items in the table
          PageSize,     \* PAGE_SIZE
          MaxPulls,     \* bound on what the reader starts
          MaxTouches,   \* bound on changes by the collector
          MaxLost       \* bound on requests that fail

ASSUME ListAssumption ==
  /\ IsFiniteSet(Stock) /\ PageSize \in Nat \ {0}
  /\ {MaxPulls, MaxTouches, MaxLost} \subseteq Nat

VARIABLES
  stamp,      \* updated_at of each item
  browse,     \* the screen: items, status, refreshing, more (loadingMore), end (reachedEnd)
  asks,       \* requests under way
  spent,      \* numbers of pulls, touches and losses
  upset       \* history: rows from before a change, or a page across a refresh
listVars == <<stamp, browse, asks, spent, upset>>

Pull == spent.pulls < MaxPulls /\ spent' = [spent EXCEPT !.pulls = @ + 1]
AskFor(kind, offset) ==
  [kind |-> kind, offset |-> offset, id |-> spent.pulls, served |-> FALSE, page |-> << >>,
   touches |-> 0]

ListInit ==
  /\ stamp \in [Stock -> 1..Cardinality(Stock)]
  /\ browse = [items |-> << >>, status |-> "loading", refreshing |-> FALSE,
               more |-> FALSE, end |-> FALSE]
  /\ spent = [pulls |-> 0, touches |-> 0, lost |-> 0]
  /\ asks = {AskFor("first", 0)}
  /\ upset = FALSE

-----------------------------------------------------------------------------
(* The API and the collector.                                              *)

\* ORDER BY updated_at DESC: items changed in one transaction come in any order,
\* in each statement in another.
Orders == {o \in SetToAllKPermutations(Stock) :
             /\ Len(o) = Cardinality(Stock)
             /\ \A i, j \in DOMAIN o : i < j => stamp[o[i]] >= stamp[o[j]]}

\* LIMIT and OFFSET.
RowsAt(order, offset) ==
  LET last == offset + PageSize
  IN  SubSeq(order, offset + 1, IF last > Len(order) THEN Len(order) ELSE last)

Serve == \E ask \in asks, order \in Orders :
  /\ ~ask.served
  /\ asks' = (asks \ {ask}) \union
       {[ask EXCEPT !.served = TRUE, !.touches = spent.touches,
                    !.page = RowsAt(order, ask.offset)]}
  /\ UNCHANGED <<stamp, browse, spent, upset>>

\* A change gives the item the newest stamp.
Touch == \E item \in Stock :
  /\ spent.touches < MaxTouches /\ spent' = [spent EXCEPT !.touches = @ + 1]
  /\ stamp' = [stamp EXCEPT ![item] = Cardinality(Stock) + spent.touches + 1]
  /\ upset' = TRUE
  /\ UNCHANGED <<browse, asks>>

-----------------------------------------------------------------------------
(* The screen.                                                             *)

OnRefresh ==
  /\ browse.status = "ready" /\ ~browse.refreshing /\ Pull
  /\ browse' = [browse EXCEPT !.refreshing = TRUE]
  /\ asks' = asks \union {AskFor("refresh", 0)}
  /\ UNCHANGED <<stamp, upset>>

RetryList ==
  /\ browse.status = "error" /\ Pull
  /\ asks' = asks \union {AskFor("first", 0)}
  /\ UNCHANGED <<stamp, browse, upset>>

\* Faulty: a page under way does not keep the next one back.
MayLoadAnyMore == browse.status = "ready" /\ ~browse.end

MayLoadMore == browse.status = "ready" /\ ~browse.end /\ ~browse.more

OnEndReached ==
  /\ MayLoadMore /\ Pull
  /\ browse' = [browse EXCEPT !.more = TRUE]
  /\ asks' = asks \union {AskFor("more", Len(browse.items))}
  /\ UNCHANGED <<stamp, upset>>

Done(ask) == [browse EXCEPT !.refreshing = @ /\ ask.kind # "refresh",
                            !.more = @ /\ ask.kind # "more"]

\* loadFirstPage: the rows are those of this page alone.
FirstPageAnswered == \E ask \in asks :
  /\ ask.kind # "more" /\ ask.served
  /\ browse' = [Done(ask) EXCEPT !.items = ask.page, !.status = "ready",
                                 !.end = Len(ask.page) < PageSize]
  /\ asks' = asks \ {ask}
  /\ upset' = (asks # {ask} \/ ask.touches # spent.touches)
  /\ UNCHANGED <<stamp, spent>>

FirstPageFails == \E ask \in asks :
  /\ ask.kind # "more"
  /\ spent.lost < MaxLost /\ spent' = [spent EXCEPT !.lost = @ + 1]
  /\ browse' = [Done(ask) EXCEPT !.status = "error"]
  /\ asks' = asks \ {ask}
  /\ UNCHANGED <<stamp, upset>>

\* The next page goes below whatever rows there are now.
MoreAnswered == \E ask \in asks :
  /\ ask.kind = "more" /\ ask.served
  /\ browse' = [Done(ask) EXCEPT !.items = @ \o ask.page,
                                 !.end = @ \/ Len(ask.page) < PageSize]
  /\ asks' = asks \ {ask}
  /\ UNCHANGED <<stamp, spent, upset>>

MoreFails == \E ask \in asks :
  /\ ask.kind = "more"
  /\ spent.lost < MaxLost /\ spent' = [spent EXCEPT !.lost = @ + 1]
  /\ browse' = Done(ask)
  /\ asks' = asks \ {ask}
  /\ UNCHANGED <<stamp, upset>>

ItemListNext ==
  \/ Serve \/ Touch \/ OnRefresh \/ RetryList \/ OnEndReached
  \/ FirstPageAnswered \/ FirstPageFails \/ MoreAnswered \/ MoreFails

-----------------------------------------------------------------------------
(* Properties.                                                             *)

\* The rows are the items last changed, none twice and none left out, and all of
\* them at the end, as long as no two items were changed at one moment; a change
\* of an item, or a refresh across a page under way, may disturb the rows, and
\* one refresh on its own puts them right.
RowsInOrder ==
  LET rows == {browse.items[i] : i \in DOMAIN browse.items}
      distinct == \A a, b \in Stock : a # b => stamp[a] # stamp[b]
  IN  distinct /\ ~upset =>
        /\ Cardinality(rows) = Len(browse.items)
        /\ \A a \in rows, b \in Stock \ rows : stamp[a] > stamp[b]
        /\ browse.end => rows = Stock

=============================================================================
