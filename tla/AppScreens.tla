------------------------------ MODULE AppScreens ------------------------------
(***************************************************************************)
(* Screens of the mobile app that read while the reader goes on: the list  *)
(* of favorites (FavoritesScreen.tsx), and the two screens of an item, its *)
(* detail and its rights (ItemDetailScreen.tsx, RightsAnalysisScreen.tsx). *)
(***************************************************************************)
EXTENDS Integers, FiniteSets

CONSTANTS Things,       \* items of the court
          Nil,          \* no item, none found, or nothing read
          Pages,        \* screens of an item: of "detail" and "rights"
          MaxActs,      \* bound on what the reader starts
          MaxFailed     \* bound on requests that fail

ASSUME ScreensAssumption ==
  Nil \notin Things /\ Pages \subseteq {"detail", "rights"} /\ {MaxActs, MaxFailed} \subseteq Nat

VARIABLES
  liked,         \* the server: favorites of the reader
  shelf,         \* the list: its items, its status, loadId
  sent,          \* requests of the list under way
  page,          \* by screen of an item: its key, main and extra data, status, loads
  gone,          \* history: removals confirmed to the list, until the item is added
  acts
screenVars == <<liked, shelf, sent, page, gone, acts>>

Act == acts.started < MaxActs /\ acts' = [acts EXCEPT !.started = @ + 1]
Fail == acts.failed < MaxFailed /\ acts' = [acts EXCEPT !.failed = @ + 1]

Page(item) == [key |-> item, main |-> Nil, extra |-> Nil, status |-> "loading",
               loads |-> {[at |-> "main", key |-> item]}, crossed |-> FALSE]
ScreensInit ==
  /\ liked \in SUBSET Things
  /\ shelf = [items |-> {}, status |-> "loading", id |-> 0]
  /\ sent = {} /\ gone = {}
  /\ page \in [Pages -> {Page(item) : item \in Things}]
  /\ acts = [started |-> 0, failed |-> 0]

-----------------------------------------------------------------------------
(* FavoritesScreen.                                                        *)

Request(kind, item) == [kind |-> kind, item |-> item, id |-> shelf.id, served |-> FALSE,
                        got |-> {}]
Served(r, got) == sent' = (sent \ {r}) \union {[r EXCEPT !.served = TRUE, !.got = got]}

\* load: each time the tab is entered, and by the retry button.
Load ==
  /\ Act
  /\ shelf' = [shelf EXCEPT !.id = @ + 1, !.status = "loading"]
  /\ sent' = sent \union {[Request("load", Nil) EXCEPT !.id = shelf.id + 1]}
  /\ UNCHANGED <<liked, page, gone>>

\* Without a session the answer is 401, and the list an empty one.
LoadServed == \E r \in sent, got \in {liked, {}} :
  /\ r.kind = "load" /\ ~r.served /\ Served(r, got)
  /\ UNCHANGED <<liked, shelf, page, gone, acts>>

\* Only the last load may speak.
LoadAnswered == \E r \in sent :
  /\ r.kind = "load" /\ r.served
  /\ sent' = sent \ {r}
  /\ shelf' = IF r.id = shelf.id THEN [shelf EXCEPT !.items = r.got, !.status = "ready"] ELSE shelf
  /\ UNCHANGED <<liked, page, gone, acts>>

LoadFails == \E r \in sent :
  /\ r.kind = "load" /\ Fail
  /\ sent' = sent \ {r}
  /\ shelf' = IF r.id = shelf.id THEN [shelf EXCEPT !.status = "error"] ELSE shelf
  /\ UNCHANGED <<liked, page, gone>>

\* The button stays on the row while a load is under way.
OnRemove == \E item \in shelf.items :
  /\ Act /\ sent' = sent \union {Request("remove", item)}
  /\ UNCHANGED <<liked, shelf, page, gone>>

RemoveServed == \E r \in sent :
  /\ r.kind = "remove" /\ ~r.served /\ Served(r, {})
  /\ liked' = liked \ {r.item}
  /\ UNCHANGED <<shelf, page, gone, acts>>

\* Faulty: a load under way is not made void.
RemovedOnly(item) == [shelf EXCEPT !.items = @ \ {item}]

\* The row leaves the list, and a load under way is made void.
RemovedFrom(item) == [shelf EXCEPT !.items = @ \ {item}, !.id = @ + 1]

RemoveAnswered == \E r \in sent :
  /\ r.kind = "remove" /\ r.served
  /\ sent' = sent \ {r}
  /\ shelf' = RemovedFrom(r.item)
  /\ gone' = gone \union ({r.item} \ liked)
  /\ UNCHANGED <<liked, page, acts>>

\* Refused or lost, done at the server or not: the list stays.
RemoveFails == \E r \in sent :
  /\ r.kind = "remove" /\ Fail
  /\ sent' = sent \ {r}
  /\ UNCHANGED <<liked, shelf, page, gone>>

\* The heart of a detail screen adds the item.
AddedOnDetail == \E item \in Things \ liked :
  /\ Act /\ liked' = liked \union {item} /\ gone' = gone \ {item}
  /\ UNCHANGED <<shelf, sent, page>>

-----------------------------------------------------------------------------
(* The screens of an item: load reads the main data, then the extra.       *)

\* Another key, by a push notification that finds the screen open, or the retry
\* button.  A load of the old key goes on to its end.
LoadPage(p) == \E item \in Things :
  /\ Act
  /\ item = page[p].key => page[p].status \in {"error", "notfound"}
  /\ page' = [page EXCEPT ![p].key = item, ![p].status = "loading",
                          ![p].crossed = @ \/ page[p].loads # {},
                          ![p].loads = @ \union {[at |-> "main", key |-> item]}]
  /\ UNCHANGED <<liked, shelf, sent, gone>>

Over(p, load) == page[p].loads \ {load}

\* The detail of an item that is not there ends here; rights without a notice
\* are shown as such.
MainRead(p) == \E load \in page[p].loads, found \in BOOLEAN :
  /\ load.at = "main"
  /\ page' = [page EXCEPT ![p] =
       IF p = "detail" /\ ~found THEN [@ EXCEPT !.status = "notfound", !.loads = Over(p, load)]
       ELSE [@ EXCEPT !.main = IF found THEN load.key ELSE Nil,
                      !.loads = Over(p, load) \union {[load EXCEPT !.at = "extra"]}]]
  /\ UNCHANGED <<liked, shelf, sent, gone, acts>>

MainFails(p) == \E load \in page[p].loads :
  /\ load.at = "main" /\ Fail
  /\ page' = [page EXCEPT ![p].status = "error", ![p].loads = Over(p, load)]
  /\ UNCHANGED <<liked, shelf, sent, gone>>

\* Faulty: an extra that cannot be read leaves what was there.
KeptExtra(p) == page[p].extra
NoExtra(p) == Nil

\* Photos, or the cost: without them the screen is shown all the same.
ExtraRead(p) == \E load \in page[p].loads, ok \in BOOLEAN :
  /\ load.at = "extra"
  /\ page' = [page EXCEPT ![p].extra = IF ok THEN load.key ELSE NoExtra(p),
                          ![p].status = "ok", ![p].loads = Over(p, load)]
  /\ UNCHANGED <<liked, shelf, sent, gone, acts>>

ListNext ==
  \/ Load \/ LoadServed \/ LoadAnswered \/ LoadFails
  \/ OnRemove \/ RemoveServed \/ RemoveAnswered \/ RemoveFails \/ AddedOnDetail
PageNext(p) == LoadPage(p) \/ MainRead(p) \/ MainFails(p) \/ ExtraRead(p)

-----------------------------------------------------------------------------
(* Properties.                                                             *)

\* A favorite whose removal was confirmed does not come back by a list that
\* was read before, until it is added again.
RemovedStaysRemoved == gone \cap shelf.items = {}

\* A screen of an item that shows data shows its own, unless a push changed
\* its key while a load was under way.
PageShowsItsItem ==
  \A p \in Pages : page[p].status = "ok" /\ ~page[p].crossed =>
    {page[p].main, page[p].extra} \subseteq {page[p].key, Nil}

=============================================================================
