------------------------------- MODULE ItemPanel -------------------------------
(***************************************************************************)
(* The panel beside the map (ItemDetailPanel.tsx) with its heart           *)
(* (FavoriteButton.tsx).                                                   *)
(*                                                                         *)
(* A marker opens the panel for the items at one place: a list, or the     *)
(* single item at once.  The detail stays mounted when the item changes, so *)
(* what belongs to the old item has to be cleared and its requests         *)
(* cancelled.  A render and its effects are one step.                      *)
(***************************************************************************)
EXTENDS Integers, FiniteSets

CONSTANTS
  Nothing,         \* no item, or no answer yet
  Missing,         \* 404 or an error: shown as "not confirmed"
  Groups,          \* what markers hold: sets of items
  MaxSteps,        \* bound on what the reader opens and presses
  MaxTrouble       \* bound on requests that fail

ASSUME PanelAssumption ==
  {MaxSteps, MaxTrouble} \subseteq Nat /\ {} \notin Groups /\ Missing # Nothing

VARIABLES
  open,            \* selected, pickedId and the tab
  shown,           \* of the detail: photos, analysis and affordability, by item
  heart,           \* the button: status, pending, and history about it
  asked,           \* requests under way
  favorites,       \* the server: favorites of the reader
  signedIn,        \* the reader's session
  steps
panelVars == <<open, shown, heart, asked, favorites, signedIn, steps>>

Closed == [group |-> {}, picked |-> Nothing, view |-> "summary"]
Blank == [photos |-> Nothing, analysis |-> Nothing, affordability |-> Nothing]
NoHeart == [status |-> "loading", pending |-> FALSE, settled |-> TRUE]

\* The item whose detail is on the screen; Nothing is the list, or no panel.
Picked(o) ==
  IF Cardinality(o.group) = 1 THEN CHOOSE i \in o.group : TRUE
  ELSE IF o.picked \in o.group THEN o.picked ELSE Nothing

Ask(kind, item) == [kind |-> kind, item |-> item, add |-> FALSE, live |-> TRUE,
                    served |-> FALSE, answer |-> Nothing]
Toggles == {r \in asked : r.kind = "toggle"}

PanelInit ==
  /\ open = Closed /\ shown = Blank /\ heart = NoHeart
  /\ asked = {} /\ favorites = {} /\ signedIn \in BOOLEAN
  /\ steps = [reader |-> 0, trouble |-> 0]

Step == steps.reader < MaxSteps /\ steps' = [steps EXCEPT !.reader = @ + 1]
Trouble == steps.trouble < MaxTrouble /\ steps' = [steps EXCEPT !.trouble = @ + 1]

-----------------------------------------------------------------------------
(* The panel.                                                              *)

\* Faulty: a request of the old item may still answer.
KeptRequests == asked
\* Faulty: the effect of the heart returns no cleanup.
KeptLists == Toggles \union {r \in asked : r.kind = "favorites"}

\* Requests that read are cancelled with their item; a toggle goes on.
Cancelled == Toggles
Orphaned(requests) == {[r EXCEPT !.live = FALSE] : r \in requests}

ReadPhotos(item) == {Ask("photos", item), Ask("favorites", item)}

\* The detail of another item: kept mounted, or fresh after the list.  A heart
\* that is kept shows the old item's status until the new list is there, and a
\* toggle of the old item that still answers sets it once more: not settled.
Show(o) ==
  LET item == Picked(o)
      kept == Picked(open) # Nothing /\ item # Nothing
  IN  IF item = Picked(open)
      THEN open' = o /\ UNCHANGED <<shown, heart, asked>>
      ELSE /\ open' = [o EXCEPT !.view = "summary"]
           /\ shown' = Blank
           /\ asked' = (IF kept THEN Cancelled ELSE Orphaned(Cancelled))
                       \union (IF item = Nothing THEN {} ELSE ReadPhotos(item))
           /\ heart' = [(IF kept THEN heart ELSE NoHeart) EXCEPT
                          !.settled = \A r \in Toggles : r.item # item /\ ~(kept /\ r.live)]

SelectMarker == \E group \in Groups \ {open.group} :
  /\ Step /\ Show([open EXCEPT !.group = group, !.picked = Nothing])
  /\ UNCHANGED <<favorites, signedIn>>

PickRow == \E item \in open.group :
  /\ Picked(open) = Nothing
  /\ Step /\ Show([open EXCEPT !.picked = item])
  /\ UNCHANGED <<favorites, signedIn>>

\* The tab of the rights asks for both answers each time it is opened; leaving
\* it cancels what has not come.
OpenView(view) ==
  /\ Picked(open) # Nothing /\ open.view # view
  /\ open' = [open EXCEPT !.view = view]
  /\ asked' = IF view = "rights"
              THEN asked \union {Ask("analysis", Picked(open)), Ask("affordability", Picked(open))}
              ELSE {r \in asked : r.kind \notin {"analysis", "affordability"}}
  /\ UNCHANGED <<shown, heart>>

OpenRights == Step /\ OpenView("rights") /\ UNCHANGED <<favorites, signedIn>>
OpenSummary == OpenView("summary") /\ UNCHANGED <<favorites, signedIn, steps>>

\* Escape goes back one step: to the summary, to the list, to the map.
Escape ==
  /\ open.group # {}
  /\ IF open.view = "rights" THEN OpenView("summary")
     ELSE IF Picked(open) # Nothing /\ Cardinality(open.group) > 1
     THEN Show([open EXCEPT !.picked = Nothing])
     ELSE Show(Closed)
  /\ UNCHANGED <<favorites, signedIn, steps>>

Close ==
  /\ open.group # {} /\ Show(Closed)
  /\ UNCHANGED <<favorites, signedIn, steps>>

\* Photos that fail leave the strip empty; analysis and affordability become
\* "not confirmed".
ReadAnswered == \E r \in asked \ Toggles, ok \in BOOLEAN :
  /\ r.kind # "favorites"
  /\ shown' = [shown EXCEPT ![r.kind] =
                 IF ok THEN r.item ELSE IF r.kind = "photos" THEN Nothing ELSE Missing]
  /\ asked' = asked \ {r}
  /\ UNCHANGED <<open, heart, favorites, signedIn, steps>>

-----------------------------------------------------------------------------
(* The heart.                                                              *)

\* The server reads the favorites, or refuses.
FavoritesServed == \E r \in asked :
  /\ r.kind = "favorites" /\ ~r.served
  /\ asked' = (asked \ {r}) \union {[r EXCEPT !.served = TRUE, !.answer =
       IF ~signedIn THEN "anonymous" ELSE IF r.item \in favorites THEN "favorited"
       ELSE "not-favorited"]}
  /\ UNCHANGED <<open, shown, heart, favorites, signedIn, steps>>

FavoritesAnswered == \E r \in asked :
  /\ r.kind = "favorites" /\ r.served
  /\ asked' = asked \ {r}
  /\ heart' = [heart EXCEPT !.status = r.answer]
  /\ UNCHANGED <<open, shown, favorites, signedIn, steps>>

\* Without an answer the item counts as no favorite.
FavoritesLost == \E r \in asked :
  /\ r.kind = "favorites" /\ Trouble
  /\ asked' = asked \ {r}
  /\ heart' = [heart EXCEPT !.status = "not-favorited", !.settled = FALSE]
  /\ UNCHANGED <<open, shown, favorites, signedIn>>

Pressable == heart.status # "loading" /\ ~heart.pending

\* A kept heart still shows the status of the item before.
Outdated == \E r \in asked : r.kind = "favorites"

\* Nobody signed in: the browser leaves for the login.
HandleClick ==
  /\ Picked(open) # Nothing /\ Pressable /\ Step
  /\ IF heart.status = "anonymous"
     THEN Show(Closed)
     ELSE /\ heart' = [heart EXCEPT !.pending = TRUE, !.settled = @ /\ ~Outdated]
          /\ asked' = asked \union {[Ask("toggle", Picked(open)) EXCEPT
                                       !.add = heart.status # "favorited"]}
          /\ UNCHANGED <<open, shown>>
  /\ UNCHANGED <<favorites, signedIn>>

\* PUT and DELETE do what they say whether or not it is needed.
ToggleServed == \E r \in Toggles :
  /\ ~r.served
  /\ asked' = (asked \ {r}) \union {[r EXCEPT !.served = TRUE,
                !.answer = IF ~signedIn THEN "anonymous"
                           ELSE IF r.add THEN "favorited" ELSE "not-favorited"]}
  /\ favorites' = IF ~signedIn THEN favorites
                ELSE IF r.add THEN favorites \union {r.item} ELSE favorites \ {r.item}
  /\ UNCHANGED <<open, shown, heart, signedIn, steps>>

\* The button that was pressed may be gone, or stand for another item by now.
Pressed(r, status) ==
  IF r.live THEN heart' = [heart EXCEPT !.status = status, !.pending = FALSE]
            ELSE UNCHANGED heart

ToggleAnswered == \E r \in Toggles :
  /\ r.served /\ asked' = asked \ {r}
  /\ Pressed(r, r.answer)
  /\ UNCHANGED <<open, shown, favorites, signedIn, steps>>

\* No answer, or an error, done at the server or not: the heart stays.
ToggleLost == \E r \in Toggles :
  /\ Trouble /\ asked' = asked \ {r}
  /\ heart' = IF r.live THEN [heart EXCEPT !.pending = FALSE, !.settled = FALSE] ELSE heart
  /\ UNCHANGED <<open, shown, favorites, signedIn>>

SignedElsewhere ==
  /\ Trouble /\ signedIn' = ~signedIn
  /\ heart' = [heart EXCEPT !.settled = FALSE]
  /\ UNCHANGED <<open, shown, asked, favorites>>

PanelNext ==
  \/ SelectMarker \/ PickRow \/ OpenRights \/ OpenSummary \/ Escape \/ Close \/ ReadAnswered
  \/ FavoritesServed \/ FavoritesAnswered \/ FavoritesLost \/ HandleClick
  \/ ToggleServed \/ ToggleAnswered \/ ToggleLost \/ SignedElsewhere

-----------------------------------------------------------------------------
(* Properties.                                                             *)

\* Photos, analysis and cost on the panel belong to the item it shows, however
\* fast the reader goes from marker to marker; a tab that waits for an answer
\* has asked for it.
PanelShowsItsItem ==
  /\ {shown.photos, shown.analysis, shown.affordability}
       \subseteq {Picked(open), Nothing, Missing}
  /\ open.view = "rights" /\ shown.analysis = Nothing =>
       Ask("analysis", Picked(open)) \in asked

\* A heart at rest tells the truth about the item on the panel, mounted for it or
\* kept from another item, unless a request was lost, the session changed
\* elsewhere, a toggle of this item or of the kept heart was under way when the
\* item came, or a kept heart was pressed before the new list was there.
HeartTellsTruth ==
  Picked(open) # Nothing /\ heart.settled /\ heart.status # "loading"
  /\ (\A r \in asked : r.kind \notin {"toggle", "favorites"}) =>
    heart.status = IF ~signedIn THEN "anonymous"
                   ELSE IF Picked(open) \in favorites THEN "favorited" ELSE "not-favorited"

=============================================================================
