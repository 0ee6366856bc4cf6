------------------------------ MODULE ScreenProofs ------------------------------
(* Theorems about the map and its panel, and the app's favorites, list of    *)
(* items, screens of an item and checklist, for any items, places, views and *)
(* bounds, however late and in whatever order the answers come.              *)
EXTENDS MapView, AppScreens, ItemPanel, Checklist, ItemList,
        FiniteSetTheorems, SequenceTheorems, TLAPS

-----------------------------------------------------------------------------
\* The map

MapSpec == MapInit /\ [][MapNext]_mapVars

Placed == UNION {v.shown : v \in Views}

MapTypeOK ==
  /\ camera \in [view : Views, moving : BOOLEAN]
  /\ screen \in [script : {"loading", "ready", "error"}, map : BOOLEAN, timer : BOOLEAN]
  /\ bbox \in [id : Nat, state : {"loading", "idle", "error"},
               items : SUBSET Placed]
  /\ wire \subseteq [id : Nat, view : Views]

\* Requests are numbered, and the latest is on its way while it is waited for.
Numbering ==
  /\ \A r \in wire : r.id <= bbox.id
  /\ \A r, s \in wire : r.id = s.id => r = s
  /\ \A r \in wire : r.id = bbox.id => bbox.state = "loading"
  /\ bbox.state = "loading" /\ bbox.id > 0 => \E r \in wire : r.id = bbox.id

\* At rest with no timer running, the latest request is for where the camera is.
AskedAtRest ==
  screen.map /\ ~camera.moving /\ ~screen.timer =>
    /\ \A r \in wire : r.id = bbox.id => r.view = camera.view
    /\ bbox.state = "idle" => bbox.items = camera.view.shown /\ markers = Drawn(bbox.items)

MapInv == MapTypeOK /\ Numbering /\ AskedAtRest /\ NoGhostCard

LEMMA MapInvKept == MapInv /\ [MapNext]_mapVars => MapInv'
<1> SUFFICES ASSUME MapInv, [MapNext]_mapVars PROVE MapInv'
  OBVIOUS
<1> USE DEF MapInv, MapTypeOK, Numbering, AskedAtRest, NoGhostCard
<1>1. CASE HandleScriptReady
  BY <1>1, MapAssumption DEF HandleScriptReady
<1>2. CASE ScriptFails
  BY <1>2 DEF ScriptFails, Drawn, GroupByCoord
<1>3. CASE HandleRetry
  BY <1>3 DEF HandleRetry, CleanupMap, Drawn, GroupByCoord
<1>4. CASE CameraMoves
  BY <1>4 DEF CameraMoves, Drawn, GroupByCoord
<1>5. CASE HandleIdle
  BY <1>5 DEF HandleIdle, Drawn, GroupByCoord
<1>6. CASE LoadBbox
  <2>1. MapTypeOK'
    <3> DEFINE next == bbox.id + 1
    <3>1. next \in Nat
      OBVIOUS
    <3>2. /\ screen' = [screen EXCEPT !.timer = FALSE] /\ camera' = camera
          /\ bbox' = [bbox EXCEPT !.id = next, !.state = "loading"]
          /\ wire' = wire \union {[id |-> next, view |-> camera.view]}
      BY <1>6 DEF LoadBbox
    <3> HIDE DEF next
    <3>3. screen' \in [script : {"loading", "ready", "error"}, map : BOOLEAN, timer : BOOLEAN]
      BY <3>2
    <3>4. bbox' \in [id : Nat, state : {"loading", "idle", "error"}, items : SUBSET Placed]
      BY <3>1, <3>2
    <3>5. wire' \subseteq [id : Nat, view : Views]
      BY <3>1, <3>2
    <3> QED BY <3>2, <3>3, <3>4, <3>5
  <2>2. Numbering'
    <3> DEFINE asked1 == [id |-> bbox.id + 1, view |-> camera.view]
    <3>1. asked1 \in wire' /\ asked1.id = bbox'.id /\ wire' = wire \union {asked1} /\ bbox'.id = bbox.id + 1
          /\ bbox'.state = "loading"
      BY <1>6 DEF LoadBbox
    <3> HIDE DEF asked1
    <3> QED BY <3>1
  <2>3. AskedAtRest'
    BY <1>6 DEF LoadBbox
  <2>4. NoGhostCard'
    BY <1>6 DEF LoadBbox
  <2> QED BY <2>1, <2>2, <2>3, <2>4
<1>7. CASE BboxAnswered
  <2> PICK r \in wire, ok \in BOOLEAN :
        LET items == IF ok THEN r.view.shown ELSE {} IN
        /\ wire' = wire \ {r}
        /\ IF LatestAnswer(r)
             THEN /\ bbox' = [bbox EXCEPT !.items = items, !.state = IF ok THEN "idle" ELSE "error"]
                  /\ Redraw(items)
             ELSE UNCHANGED <<bbox, markers, hovered>>
        /\ UNCHANGED <<camera, screen, moved>>
    BY <1>7 DEF BboxAnswered
  <2>1. CASE LatestAnswer(r)
    <3> DEFINE items == IF ok THEN r.view.shown ELSE {}
               state == IF ok THEN "idle" ELSE "error"
    <3>0. items \in SUBSET Placed /\ state \in {"idle", "error"} /\ (state = "idle" => items = r.view.shown)
      BY DEF Placed
    <3>1. /\ wire' = wire \ {r} /\ UNCHANGED <<camera, screen, moved>>
          /\ bbox' = [bbox EXCEPT !.items = items, !.state = state]
          /\ r.id = bbox.id /\ Redraw(items)
      BY <2>1 DEF LatestAnswer
    <3> HIDE DEF items, state
    <3>2. MapTypeOK'
      BY <3>0, <3>1
    <3>3. Numbering'
      BY <3>0, <3>1
    <3>4. AskedAtRest'
      BY <3>0, <3>1 DEF Redraw, Drawn, GroupByCoord
    <3>5. NoGhostCard'
      BY <3>1 DEF Redraw
    <3> QED BY <3>2, <3>3, <3>4, <3>5
  <2>2. CASE ~LatestAnswer(r)
    BY <2>2 DEF LatestAnswer, Drawn, GroupByCoord
  <2> QED
    BY <2>1, <2>2
<1>8. CASE Hover
  BY <1>8 DEF Hover, Drawn, GroupByCoord
<1>9. CASE UNCHANGED mapVars
  BY <1>9 DEF mapVars, Drawn, GroupByCoord
<1> QED
  BY <1>1, <1>2, <1>3, <1>4, <1>5, <1>6, <1>7, <1>8, <1>9 DEF MapNext

LEMMA MapInvAlways == MapSpec => []MapInv
<1>1. MapInit => MapInv
  BY MapAssumption DEF MapInit, MapInv, MapTypeOK, Numbering, AskedAtRest, NoGhostCard
<1> QED
  BY <1>1, MapInvKept, PTL DEF MapSpec

\* Whatever answers come late and whichever map is given up on the way, a map at
\* rest shows the items within its own bounds, and "loading" comes to an end.
THEOREM MapTellsTruth == MapSpec => []MapShowsWhereItRests
<1>1. MapInv => MapShowsWhereItRests
  BY DEF MapInv, Numbering, AskedAtRest, MapShowsWhereItRests
<1> QED
  BY <1>1, MapInvAlways, PTL

\* A card is only ever open over a marker that is drawn.
THEOREM CardHasMarker == MapSpec => []NoGhostCard
<1>1. MapInv => NoGhostCard
  BY DEF MapInv
<1> QED
  BY <1>1, MapInvAlways, PTL

-----------------------------------------------------------------------------
\* The favorites of the app

ScreensNext == ListNext \/ \E p \in Pages : PageNext(p)
ScreensSpec == ScreensInit /\ [][ScreensNext]_screenVars

Requests == [kind : {"load", "remove"}, item : Things \union {Nil}, id : Nat,
             served : BOOLEAN, got : SUBSET Things]
Shelves == [items : SUBSET Things, status : {"loading", "ready", "error"}, id : Nat]
ShelfTypeOK == shelf \in Shelves /\ sent \subseteq Requests /\ liked \subseteq Things

\* What was removed is no favorite, and the only answer that may still be shown
\* was read after the last removal.
RemovalsKnown ==
  /\ gone \intersect liked = {}
  /\ \A r \in sent : r.kind = "load" => r.id <= shelf.id
  /\ \A r \in sent : r.kind = "load" /\ r.served /\ r.id = shelf.id => r.got \intersect gone = {}

ShelfInv == ShelfTypeOK /\ RemovalsKnown /\ RemovedStaysRemoved

LEMMA ShelfInvKept == ShelfInv /\ [ScreensNext]_screenVars => ShelfInv'
<1> SUFFICES ASSUME ShelfInv, [ScreensNext]_screenVars PROVE ShelfInv'
  OBVIOUS
<1> USE DEF ShelfInv, ShelfTypeOK, RemovalsKnown, RemovedStaysRemoved
<1>1. CASE Load
  <2> DEFINE next == shelf.id + 1
             new == [Request("load", Nil) EXCEPT !.id = next]
  <2>1. next \in Nat /\ next > shelf.id
    BY DEF Shelves
  <2>2. shelf' = [shelf EXCEPT !.id = next, !.status = "loading"] /\ UNCHANGED <<liked, gone>>
    BY <1>1 DEF Load
  <2>7. sent' = sent \union {new}
    BY <1>1 DEF Load
  <2> HIDE DEF next
  <2>3. new \in Requests /\ ~new.served /\ new.id = next
    BY <2>1 DEF Request, Requests, Shelves
  <2>4. shelf' \in Shelves /\ shelf'.id = next /\ shelf'.items = shelf.items
    BY <2>1, <2>2 DEF Shelves
  <2> HIDE DEF new
  <2>5. \A r \in sent : r.id \in Nat
    BY DEF Requests
  <2>6. shelf.id \in Nat
    BY DEF Shelves
  <2> QED
    BY <2>1, <2>2, <2>3, <2>4, <2>5, <2>6, <2>7
<1>2. CASE LoadServed
  <2> PICK r \in sent, got \in {liked, {}} :
        /\ r.kind = "load" /\ ~r.served /\ Served(r, got)
        /\ UNCHANGED <<liked, shelf, page, gone, acts>>
    BY <1>2 DEF LoadServed
  <2> DEFINE new == [r EXCEPT !.served = TRUE, !.got = got]
  <2>1. sent' = (sent \ {r}) \union {new}
    BY DEF Served
  <2>2. new \in Requests /\ new.id = r.id /\ new.got = got
    BY DEF Requests
  <2> HIDE DEF new
  <2> QED
    BY <2>1, <2>2
<1>3. CASE LoadAnswered
  BY <1>3 DEF LoadAnswered, Shelves, Requests
<1>4. CASE LoadFails
  BY <1>4 DEF LoadFails, Shelves, Requests
<1>5. CASE OnRemove
  <2> PICK item \in shelf.items : sent' = sent \union {Request("remove", item)}
    BY <1>5 DEF OnRemove
  <2> DEFINE new == Request("remove", item)
  <2>1. new \in Requests /\ new.kind # "load"
    BY DEF Request, Requests, Shelves
  <2>2. sent' = sent \union {new} /\ UNCHANGED <<liked, shelf, gone>>
    BY <1>5 DEF OnRemove
  <2> HIDE DEF new
  <2> QED
    BY <2>1, <2>2
<1>6. CASE RemoveServed
  BY <1>6 DEF RemoveServed, Served, Shelves, Requests
<1>7. CASE RemoveAnswered
  <2> PICK r \in sent :
        /\ r.kind = "remove" /\ r.served
        /\ sent' = sent \ {r}
        /\ shelf' = RemovedFrom(r.item)
        /\ gone' = gone \union ({r.item} \ liked)
        /\ UNCHANGED <<liked, page, acts>>
    BY <1>7 DEF RemoveAnswered
  <2> DEFINE next == shelf.id + 1
             left == shelf.items \ {r.item}
  <2>1. next \in Nat /\ next > shelf.id /\ left \in SUBSET Things
    BY DEF Shelves
  <2>2. shelf' = [shelf EXCEPT !.items = left, !.id = next]
    BY DEF RemovedFrom
  <2> HIDE DEF next
  <2>3. shelf' \in Shelves /\ shelf'.id = next /\ shelf'.items = left
    BY <2>1, <2>2 DEF Shelves
  <2>4. \A q \in sent : q.id \in Nat
    BY DEF Requests
  <2>5. shelf.id \in Nat
    BY DEF Shelves
  <2> QED
    BY <2>1, <2>3, <2>4, <2>5
<1>8. CASE RemoveFails
  BY <1>8 DEF RemoveFails, Shelves, Requests
<1>9. CASE AddedOnDetail
  BY <1>9 DEF AddedOnDetail
<1>10. CASE \E p \in Pages : PageNext(p)
  BY <1>10 DEF PageNext, LoadPage, MainRead, MainFails, ExtraRead
<1>11. CASE UNCHANGED screenVars
  BY <1>11 DEF screenVars
<1> QED
  BY <1>1, <1>2, <1>3, <1>4, <1>5, <1>6, <1>7, <1>8, <1>9, <1>10, <1>11 DEF ScreensNext, ListNext

\* A list that was asked for before a removal, and is answered after it, never
\* brings the removed favorite back.
THEOREM RemovalsStay == ScreensSpec => []RemovedStaysRemoved
<1>1. ScreensInit => ShelfInv
  BY DEF ScreensInit, ShelfInv, ShelfTypeOK, Shelves, Requests, RemovalsKnown, RemovedStaysRemoved
<1>2. ShelfInv => RemovedStaysRemoved
  BY DEF ShelfInv
<1> QED
  BY <1>1, <1>2, ShelfInvKept, PTL DEF ScreensSpec

-----------------------------------------------------------------------------
\* The screens of an item

Loads == [at : {"main", "extra"}, key : Things]
ItemScreens == [key : Things, main : Things \union {Nil}, extra : Things \union {Nil},
                status : {"loading", "ok", "notfound", "error"}, loads : SUBSET Loads,
                crossed : BOOLEAN]
PageTypeOK == DOMAIN page = Pages /\ \A p \in Pages : page[p] \in ItemScreens

\* A screen that no push has crossed runs one load at a time, of its own key,
\* and what it has read when the load is at the extra is of that key, too.
OneLoadOfItsKey(p) ==
  ~page[p].crossed =>
    /\ \A load \in page[p].loads : load.key = page[p].key /\ page[p].loads = {load}
    /\ page[p].loads # {} => page[p].status = "loading"
    /\ (\E load \in page[p].loads : load.at = "extra") => page[p].main \in {page[p].key, Nil}
    /\ page[p].status = "ok" => {page[p].main, page[p].extra} \subseteq {page[p].key, Nil}

PageInv == PageTypeOK /\ \A p \in Pages : OneLoadOfItsKey(p)

\* What updates of a screen leave.
Reloaded(now, key, loads, crossed) ==
  [now EXCEPT !.key = key, !.status = "loading", !.crossed = crossed, !.loads = loads]
LEMMA ScreenReloaded ==
  ASSUME NEW now \in ItemScreens, NEW key \in Things, NEW loads \in SUBSET Loads,
         NEW crossed \in BOOLEAN
  PROVE  LET next == Reloaded(now, key, loads, crossed)
         IN  /\ next \in ItemScreens
             /\ next.key = key /\ next.status = "loading"
             /\ next.crossed = crossed /\ next.loads = loads
BY DEF ItemScreens, Reloaded

WithMain(now, main, loads) == [now EXCEPT !.main = main, !.loads = loads]
LEMMA ScreenWithMain ==
  ASSUME NEW now \in ItemScreens, NEW main \in Things \union {Nil}, NEW loads \in SUBSET Loads
  PROVE  LET next == WithMain(now, main, loads)
         IN  /\ next \in ItemScreens
             /\ next.key = now.key /\ next.main = main /\ next.loads = loads
             /\ next.status = now.status /\ next.crossed = now.crossed
BY DEF ItemScreens, WithMain

LEMMA PageInvKept == PageInv /\ [ScreensNext]_screenVars => PageInv'
<1> SUFFICES ASSUME PageInv, [ScreensNext]_screenVars PROVE PageInv'
  OBVIOUS
<1> USE DEF PageInv, PageTypeOK, ItemScreens
<1>1. CASE ListNext
  <2>1. UNCHANGED page
    BY <1>1 DEF ListNext, Load, LoadServed, LoadAnswered, LoadFails, OnRemove, RemoveServed,
       RemoveAnswered, RemoveFails, AddedOnDetail
  <2> QED
    BY <2>1 DEF OneLoadOfItsKey
<1>2. CASE UNCHANGED screenVars
  BY <1>2 DEF screenVars, OneLoadOfItsKey
<1>3. ASSUME NEW p \in Pages, PageNext(p) PROVE PageInv'
  <2> SUFFICES ASSUME NEW q \in Pages PROVE
        /\ DOMAIN page' = Pages
        /\ page'[q] \in ItemScreens
        /\ OneLoadOfItsKey(q)'
    BY DEF OneLoadOfItsKey
  <2>1. OneLoadOfItsKey(q)
    OBVIOUS
  <2>2. CASE LoadPage(p)
    <3>0. PICK item \in Things :
            page' = [page EXCEPT ![p].key = item, ![p].status = "loading",
                                 ![p].crossed = @ \/ page[p].loads # {},
                                 ![p].loads = @ \union {[at |-> "main", key |-> item]}]
      BY <2>2 DEF LoadPage
    <3> DEFINE new == [at |-> "main", key |-> item]
    <3> DEFINE now == page[p]
               loads == now.loads \union {new}
               crossed == now.crossed \/ now.loads # {}
    <3>1. DOMAIN page' = Pages /\ \A r \in Pages \ {p} : page'[r] = page[r]
      BY <3>0
    <3>2. page'[p] = Reloaded(now, item, loads, crossed)
      BY <3>0 DEF Reloaded
    <3>3. now \in ItemScreens /\ crossed \in BOOLEAN
      OBVIOUS
    <3>4. new \in Loads /\ new.at = "main" /\ new.key = item
      BY DEF Loads
    <3>5. loads \in SUBSET Loads
      BY <3>3, <3>4
    <3>6. ~crossed => loads = {new}
      OBVIOUS
    <3> HIDE DEF new, now, loads, crossed, ItemScreens
    <3>7. /\ page'[p] \in ItemScreens
          /\ page'[p].key = item /\ page'[p].status = "loading"
          /\ page'[p].crossed = crossed /\ page'[p].loads = loads
      BY <3>2, <3>3, <3>5, ScreenReloaded
    <3> QED
      BY <2>1, <3>1, <3>4, <3>6, <3>7 DEF OneLoadOfItsKey
  <2>3. CASE MainRead(p)
    <3>0. PICK load \in page[p].loads, found \in BOOLEAN :
            page' = [page EXCEPT ![p] =
               IF p = "detail" /\ ~found
               THEN [@ EXCEPT !.status = "notfound", !.loads = Over(p, load)]
               ELSE [@ EXCEPT !.main = IF found THEN load.key ELSE Nil,
                              !.loads = Over(p, load) \union {[load EXCEPT !.at = "extra"]}]]
      BY <2>3 DEF MainRead
    <3> DEFINE now == page[p]
               new == [load EXCEPT !.at = "extra"]
               main == IF found THEN load.key ELSE Nil
               loads == Over(p, load) \union {new}
    <3>1. DOMAIN page' = Pages /\ \A r \in Pages \ {p} : page'[r] = page[r]
      BY <3>0
    <3>2. load \in Loads /\ load \in now.loads /\ now \in ItemScreens /\ OneLoadOfItsKey(p)
      OBVIOUS
    <3>3. CASE p = "detail" /\ ~found
      <4>1. page'[p] = [now EXCEPT !.status = "notfound", !.loads = Over(p, load)]
        BY <3>0, <3>3
      <4>2. ~now.crossed => Over(p, load) = {}
        BY <3>2 DEF OneLoadOfItsKey, Over
      <4>3. Over(p, load) \in SUBSET Loads
        BY <3>2 DEF Over
      <4> HIDE DEF now
      <4>4. /\ page'[p] \in ItemScreens /\ page'[p].crossed = now.crossed
            /\ page'[p].loads = Over(p, load) /\ page'[p].status = "notfound"
        BY <4>1, <4>3, <3>2
      <4> QED
        BY <2>1, <3>1, <4>2, <4>4 DEF OneLoadOfItsKey
    <3>4. CASE ~(p = "detail" /\ ~found)
      <4>1. new \in Loads /\ new.at = "extra" /\ new.key = load.key
        BY <3>2 DEF Loads
      <4>2. page'[p] = WithMain(now, main, loads)
        BY <3>0, <3>4 DEF WithMain
      <4>3. main \in Things \union {Nil} /\ main \in {load.key, Nil}
        BY <3>2 DEF Loads
      <4>4. loads \in SUBSET Loads
        BY <3>2, <4>1 DEF Over
      <4>5. ~now.crossed =>
              load.key = now.key /\ loads = {new} /\ now.status = "loading"
        BY <3>2 DEF OneLoadOfItsKey, Over
      <4> HIDE DEF now, new, main, loads, ItemScreens
      <4>6. /\ page'[p] \in ItemScreens
            /\ page'[p].key = now.key /\ page'[p].main = main /\ page'[p].loads = loads
            /\ page'[p].status = now.status /\ page'[p].crossed = now.crossed
        BY <3>2, <4>2, <4>3, <4>4, ScreenWithMain
      <4> QED
        BY <2>1, <3>1, <4>1, <4>3, <4>5, <4>6 DEF OneLoadOfItsKey
    <3> QED
      BY <3>3, <3>4
  <2>4. CASE MainFails(p)
    BY <2>1, <2>4 DEF MainFails, OneLoadOfItsKey, Loads, Over
  <2>5. CASE ExtraRead(p)
    BY <2>1, <2>5 DEF ExtraRead, OneLoadOfItsKey, Loads, Over, NoExtra
  <2> QED
    BY <1>3, <2>2, <2>3, <2>4, <2>5 DEF PageNext
<1> QED
  BY <1>1, <1>2, <1>3 DEF ScreensNext

\* A screen of an item never shows data of another item as its own, unless a
\* push changed its key over a load that was under way.
THEOREM PagesShowTheirItem == ScreensSpec => []PageShowsItsItem
<1>1. ScreensInit => PageInv
  <2> SUFFICES ASSUME ScreensInit, NEW p \in Pages PROVE
        /\ DOMAIN page = Pages
        /\ page[p] \in ItemScreens
        /\ OneLoadOfItsKey(p)
    BY DEF ScreensInit, PageInv, PageTypeOK
  <2> PICK item \in Things : page[p] = Page(item)
    BY DEF ScreensInit
  <2>1. page[p] \in ItemScreens
    BY DEF Page, ItemScreens, Loads
  <2> QED
    BY <2>1 DEF ScreensInit, Page, OneLoadOfItsKey
<1>2. PageInv => PageShowsItsItem
  BY DEF PageInv, OneLoadOfItsKey, PageShowsItsItem
<1> QED
  BY <1>1, <1>2, PageInvKept, PTL DEF ScreensSpec

-----------------------------------------------------------------------------
\* The panel of an item and its heart

PanelSpec == PanelInit /\ [][PanelNext]_panelVars

Stuff == (UNION Groups) \union {Nothing}
Opens == [group : Groups \union {{}}, picked : Stuff, view : {"summary", "rights"}]
Asks == [kind : {"photos", "favorites", "analysis", "affordability", "toggle"}, item : Stuff,
         add : BOOLEAN, live : BOOLEAN, served : BOOLEAN,
         answer : {Nothing, "anonymous", "favorited", "not-favorited"}]
PanelTypeOK ==
  /\ open \in Opens
  /\ DOMAIN shown = {"photos", "analysis", "affordability"}
  /\ DOMAIN heart = {"status", "pending", "settled"}
  /\ asked \subseteq Asks

Truth == IF ~signedIn THEN "anonymous"
         ELSE IF Picked(open) \in favorites THEN "favorited" ELSE "not-favorited"
Own == {r \in Toggles : r.item = Picked(open)}
Live == {r \in Toggles : r.live}
Lists == {r \in asked : r.kind = "favorites"}

\* What reads was asked for the item on the screen.
ReadsForItem ==
  /\ \A r \in asked : r.kind # "toggle" => r.item = Picked(open) /\ Picked(open) # Nothing
  /\ open.view = "rights" => Picked(open) # Nothing

\* One list of favorites at a time, and one toggle that the button waits for.
OnePress ==
  /\ \A r, s \in Lists : r = s
  /\ \A r, s \in Live : r = s
  /\ heart.pending <=> Live # {}

\* Of a heart that nothing has disturbed: all toggles of its item are those it
\* waits for, comes the list or a toggle's answer it is the truth, and while
\* neither is under way the heart shows the truth or still loads.
SettledHeart ==
  Picked(open) # Nothing /\ heart.settled =>
    /\ Own = Live
    /\ \A r \in Lists : Own = {} /\ (r.served => r.answer = Truth)
    /\ \A r \in Own : heart.status # "loading" /\ (r.served => r.answer = Truth)
    /\ heart.status \in {"loading", Truth} \/ Own # {} \/ Lists # {}

PanelInv == PanelTypeOK /\ PanelShowsItsItem /\ ReadsForItem /\ OnePress /\ SettledHeart

LEMMA PickedIsThing ==
  ASSUME NEW o \in Opens
  PROVE  Picked(o) \in Stuff
<1>1. CASE Cardinality(o.group) = 1
  <2>1. o.group # {}
    <3>1. Cardinality({}) = 0
      BY FS_EmptySet
    <3> QED
      BY <1>1, <3>1
  <2>2. o.group \in Groups
    BY <2>1 DEF Opens
  <2> QED
    BY <1>1, <2>1, <2>2 DEF Picked, Stuff
<1>2. CASE Cardinality(o.group) # 1
  <2>1. Picked(o) = IF o.picked \in o.group THEN o.picked ELSE Nothing
    BY <1>2 DEF Picked
  <2> QED
    BY <2>1 DEF Stuff, Opens
<1> QED
  BY <1>1, <1>2

LEMMA PickedKept ==
  ASSUME NEW o \in Opens, NEW view \in {"summary", "rights"}
  PROVE  /\ [o EXCEPT !.view = view] \in Opens
         /\ [o EXCEPT !.view = view].view = view
         /\ Picked([o EXCEPT !.view = view]) = Picked(o)
BY DEF Opens, Picked

LEMMA AskIsAsk ==
  ASSUME NEW kind \in {"photos", "favorites", "analysis", "affordability", "toggle"},
         NEW item \in Stuff
  PROVE  /\ Ask(kind, item) \in Asks
         /\ Ask(kind, item).kind = kind /\ Ask(kind, item).item = item
         /\ Ask(kind, item).live /\ ~Ask(kind, item).served
BY DEF Ask, Asks

\* Another item, or none, on the screen.
LEMMA ShowKept ==
  ASSUME PanelInv, NEW o \in Opens, Show(o),
         Picked(o) = Picked(open) => o.view \in {"summary", open.view},
         UNCHANGED <<favorites, signedIn>>
  PROVE  PanelInv'
<1> DEFINE item == Picked(o)
           mounted == Picked(open) # Nothing /\ item # Nothing
<1>1. CASE item = Picked(open)
  <2>1. open' = o /\ UNCHANGED <<shown, heart, asked>>
    BY <1>1 DEF Show
  <2>2. Picked(open)' = Picked(open)
    BY <1>1, <2>1
  <2>3. UNCHANGED <<Toggles, Own, Live, Lists, Truth>>
    BY <2>1, <2>2 DEF Toggles, Own, Live, Lists, Truth
  <2> QED
    BY <2>1, <2>2, <2>3 DEF PanelInv, PanelTypeOK, PanelShowsItsItem, ReadsForItem, OnePress,
       SettledHeart
<1>2. CASE item # Picked(open)
  <2> DEFINE old == IF mounted THEN Cancelled ELSE Orphaned(Cancelled)
             new == IF item = Nothing THEN {} ELSE ReadPhotos(item)
  <2>1. /\ open' = [o EXCEPT !.view = "summary"] /\ shown' = Blank /\ asked' = old \union new
        /\ heart' = [(IF mounted THEN heart ELSE NoHeart) EXCEPT
                       !.settled = \A r \in Toggles : r.item # item /\ ~(mounted /\ r.live)]
    BY <1>2 DEF Show
  <2>2. open' \in Opens /\ open'.view = "summary" /\ Picked(open)' = item
    BY <2>1, PickedKept
  <2>3. item \in Stuff
    BY PickedIsThing
  <2>4. /\ new \subseteq Asks
        /\ \A r \in new : /\ r.kind \in {"photos", "favorites"} /\ r.item = item
                          /\ item # Nothing /\ ~r.served
        /\ \A r \in new : r.kind = "favorites" => r = Ask("favorites", item)
        /\ item # Nothing => \E r \in new : r.kind = "favorites"
    BY <2>3, AskIsAsk DEF ReadPhotos
  <2>5. /\ old \subseteq Asks
        /\ \A r \in old : r.kind = "toggle" /\ \E t \in Toggles : t.item = r.item
        /\ mounted => old = Toggles
        /\ ~mounted => \A r \in old : ~r.live
    <3>1. \A r \in Toggles : r \in Asks /\ r.kind = "toggle"
      BY DEF PanelInv, PanelTypeOK, Toggles
    <3>2. \A r \in Toggles : LET s == [r EXCEPT !.live = FALSE]
                              IN  s \in Asks /\ s.kind = "toggle" /\ s.item = r.item /\ ~s.live
      BY <3>1 DEF Asks
    <3> QED
      BY <3>1, <3>2 DEF Cancelled, Orphaned
  <2>6. Toggles' = old /\ Lists' = {r \in new : r.kind = "favorites"}
    BY <2>1, <2>4, <2>5 DEF Toggles, Lists
  <2> HIDE DEF old, new, item
  <2>7. PanelTypeOK'
    BY <2>1, <2>2, <2>4, <2>5 DEF PanelTypeOK, PanelInv, Blank, NoHeart
  <2>8. PanelShowsItsItem'
    BY <2>1, <2>2 DEF PanelShowsItsItem, Blank
  <2>9. ReadsForItem'
    BY <2>1, <2>2, <2>4, <2>5 DEF ReadsForItem
  <2>10. CASE mounted
    <3>1. /\ heart'.pending = heart.pending
          /\ heart'.settled <=> \A r \in Toggles : r.item # item /\ ~r.live
      BY <2>1, <2>10 DEF PanelInv, PanelTypeOK
    <3>2. Live' = Live
      BY <2>5, <2>6, <2>10 DEF Live
    <3>3. heart'.settled => Own' = {} /\ Live' = {}
      BY <2>2, <2>5, <2>6, <2>10, <3>1, <3>2 DEF Own, Live
    <3>4. OnePress'
      BY <2>4, <2>6, <3>1, <3>2 DEF PanelInv, OnePress
    <3>5. Lists' # {} /\ \A r \in Lists' : ~r.served
      BY <2>4, <2>6, <2>10
    <3>6. SettledHeart'
      BY <3>3, <3>5 DEF SettledHeart
    <3> QED
      BY <2>7, <2>8, <2>9, <3>4, <3>6 DEF PanelInv
  <2>11. CASE ~mounted
    <3>1. heart'.pending = FALSE /\ heart'.status = "loading"
          /\ (heart'.settled <=> \A r \in Toggles : r.item # item)
      BY <2>1, <2>11 DEF NoHeart
    <3>2. Live' = {}
      BY <2>5, <2>6, <2>11 DEF Live
    <3>3. heart'.settled => Own' = {}
      BY <2>2, <2>5, <2>6, <3>1 DEF Own
    <3>4. OnePress'
      BY <2>4, <2>6, <3>1, <3>2 DEF OnePress
    <3>5. SettledHeart'
      BY <2>4, <2>6, <3>1, <3>2, <3>3 DEF SettledHeart
    <3> QED
      BY <2>7, <2>8, <2>9, <3>4, <3>5 DEF PanelInv
  <2> QED
    BY <2>10, <2>11
<1> QED
  BY <1>1, <1>2

LEMMA ViewKept ==
  ASSUME PanelInv, NEW view \in {"summary", "rights"}, OpenView(view),
         UNCHANGED <<favorites, signedIn>>
  PROVE  PanelInv'
<1> DEFINE item == Picked(open)
           new == {Ask("analysis", item), Ask("affordability", item)}
<1>1. /\ item # Nothing /\ open' = [open EXCEPT !.view = view] /\ UNCHANGED <<shown, heart>>
      /\ asked' = IF view = "rights" THEN asked \union new
                  ELSE {r \in asked : r.kind \notin {"analysis", "affordability"}}
  BY DEF OpenView
<1>2. open' \in Opens /\ open'.view = view /\ Picked(open)' = item
  BY <1>1, PickedKept DEF PanelInv, PanelTypeOK
<1>3. item \in Stuff
  BY PickedIsThing DEF PanelInv, PanelTypeOK
<1>4. new \subseteq Asks /\ \A r \in new : r.kind \in {"analysis", "affordability"} /\ r.item = item
  BY <1>3, AskIsAsk
<1>5. view = "rights" => Ask("analysis", item) \in asked'
  BY <1>1
<1> HIDE DEF new, item
<1>6. UNCHANGED <<Toggles, Lists>>
  BY <1>1, <1>4 DEF Toggles, Lists
<1>7. UNCHANGED <<Own, Live, Truth>>
  BY <1>1, <1>2, <1>6 DEF Own, Live, Truth, item
<1>8. PanelTypeOK'
  BY <1>1, <1>2, <1>4 DEF PanelInv, PanelTypeOK
<1>9. PanelShowsItsItem'
  BY <1>1, <1>2, <1>5 DEF PanelInv, PanelShowsItsItem, item
<1>10. ReadsForItem'
  BY <1>1, <1>2, <1>4 DEF PanelInv, ReadsForItem, item
<1>11. OnePress' /\ SettledHeart'
  BY <1>1, <1>2, <1>6, <1>7 DEF PanelInv, OnePress, SettledHeart, item
<1> QED
  BY <1>8, <1>9, <1>10, <1>11 DEF PanelInv

LEMMA PanelInvKept == PanelInv /\ [PanelNext]_panelVars => PanelInv'
<1> SUFFICES ASSUME PanelInv, [PanelNext]_panelVars PROVE PanelInv'
  OBVIOUS
<1>0. open \in Opens /\ Picked(open) \in Stuff
  BY PickedIsThing DEF PanelInv, PanelTypeOK
<1>1. CASE SelectMarker
  <2>1. PICK group \in Groups : Show([open EXCEPT !.group = group, !.picked = Nothing])
    BY <1>1 DEF SelectMarker
  <2> DEFINE o == [open EXCEPT !.group = group, !.picked = Nothing]
  <2>2. o \in Opens /\ o.view = open.view /\ UNCHANGED <<favorites, signedIn>>
    BY <1>0, <1>1 DEF Opens, Stuff, SelectMarker
  <2> HIDE DEF o
  <2> QED
    BY <2>1, <2>2, ShowKept DEF o
<1>2. CASE PickRow
  <2>1. PICK item \in open.group : Show([open EXCEPT !.picked = item])
    BY <1>2 DEF PickRow
  <2> DEFINE o == [open EXCEPT !.picked = item]
  <2>2. item \in Stuff
    BY <1>0 DEF Opens, Stuff
  <2>3. o \in Opens /\ o.view = open.view /\ UNCHANGED <<favorites, signedIn>>
    BY <1>0, <1>2, <2>2 DEF Opens, PickRow
  <2> HIDE DEF o
  <2> QED
    BY <2>1, <2>3, ShowKept DEF o
<1>3. CASE OpenRights
  BY <1>3, ViewKept DEF OpenRights
<1>4. CASE OpenSummary
  BY <1>4, ViewKept DEF OpenSummary
<1>5. ASSUME Show(Closed), UNCHANGED <<favorites, signedIn>> PROVE PanelInv'
  <2>1. Closed \in Opens /\ Closed.view = "summary"
    BY DEF Closed, Opens, Stuff
  <2> QED
    BY <1>5, <2>1, ShowKept
<1>6. CASE Escape
  <2>1. CASE OpenView("summary")
    BY <1>6, <2>1, ViewKept DEF Escape
  <2>2. CASE Show([open EXCEPT !.picked = Nothing])
    <3> DEFINE o == [open EXCEPT !.picked = Nothing]
    <3>1. o \in Opens /\ o.view = open.view /\ UNCHANGED <<favorites, signedIn>>
      BY <1>0, <1>6 DEF Opens, Stuff, Escape
    <3> HIDE DEF o
    <3> QED
      BY <2>2, <3>1, ShowKept DEF o
  <2> QED
    BY <1>5, <1>6, <2>1, <2>2 DEF Escape
<1>7. CASE Close
  BY <1>5, <1>7 DEF Close
<1>8. CASE ReadAnswered
  <2>1. PICK r \in asked \ Toggles, ok \in BOOLEAN :
          /\ r.kind # "favorites"
          /\ shown' = [shown EXCEPT ![r.kind] =
               IF ok THEN r.item ELSE IF r.kind = "photos" THEN Nothing ELSE Missing]
          /\ asked' = asked \ {r}
          /\ UNCHANGED <<open, heart, favorites, signedIn, steps>>
    BY <1>8 DEF ReadAnswered
  <2>2. r.kind \in {"photos", "analysis", "affordability"}
        /\ r.item = Picked(open) /\ Picked(open) # Nothing
    BY <2>1 DEF PanelInv, PanelTypeOK, Asks, Toggles, ReadsForItem
  <2>3. UNCHANGED <<Toggles, Lists>>
    BY <2>1, <2>2 DEF Toggles, Lists
  <2>4. Picked(open)' = Picked(open) /\ UNCHANGED <<Own, Live, Truth>>
    BY <2>1, <2>3 DEF Own, Live, Truth
  <2>5. PanelTypeOK' /\ ReadsForItem'
    BY <2>1, <2>4 DEF PanelInv, PanelTypeOK, ReadsForItem
  <2>6. PanelShowsItsItem'
    <3>1. open'.view = "rights" /\ shown'.analysis = Nothing => r.kind # "analysis"
      BY <2>1, <2>2, PanelAssumption DEF PanelInv, PanelTypeOK
    <3>2. Ask("analysis", Picked(open)).kind = "analysis"
      BY DEF Ask
    <3> QED
      BY <2>1, <2>2, <2>4, <3>1, <3>2 DEF PanelInv, PanelTypeOK, PanelShowsItsItem
  <2>7. OnePress' /\ SettledHeart'
    BY <2>1, <2>3, <2>4 DEF PanelInv, OnePress, SettledHeart
  <2> QED
    BY <2>5, <2>6, <2>7 DEF PanelInv
\* What only moves toggles and lists of favorites leaves the panel as it was.
<1>9. ASSUME UNCHANGED <<open, shown>>, DOMAIN heart' = DOMAIN heart, asked' \subseteq Asks,
             \A r \in asked' : r.kind \notin {"toggle", "favorites"} => r \in asked,
             \A r \in asked : r.kind \notin {"toggle", "favorites"} => r \in asked',
             \A r \in asked' : r.kind = "favorites" => \E s \in asked : s.kind = r.kind /\ s.item = r.item
      PROVE  PanelTypeOK' /\ PanelShowsItsItem' /\ ReadsForItem' /\ Picked(open)' = Picked(open)
  <2>1. Picked(open)' = Picked(open)
    BY <1>9
  <2>2. Ask("analysis", Picked(open)).kind = "analysis"
    BY DEF Ask
  <2>3. PanelTypeOK'
    BY <1>9 DEF PanelInv, PanelTypeOK
  <2>4. PanelShowsItsItem'
    BY <1>9, <2>1, <2>2 DEF PanelInv, PanelShowsItsItem
  <2>5. ReadsForItem'
    BY <1>9, <2>1 DEF PanelInv, ReadsForItem
  <2> QED
    BY <2>1, <2>3, <2>4, <2>5
<1>10. CASE FavoritesServed
  <2>1. PICK r \in asked :
          /\ r.kind = "favorites" /\ ~r.served
          /\ asked' = (asked \ {r}) \union {[r EXCEPT !.served = TRUE, !.answer =
               IF ~signedIn THEN "anonymous" ELSE IF r.item \in favorites THEN "favorited"
               ELSE "not-favorited"]}
          /\ UNCHANGED <<open, shown, heart, favorites, signedIn, steps>>
    BY <1>10 DEF FavoritesServed
  <2> DEFINE answer == IF ~signedIn THEN "anonymous" ELSE IF r.item \in favorites THEN "favorited"
                       ELSE "not-favorited"
             new == [r EXCEPT !.served = TRUE, !.answer = answer]
  <2>2. r \in Asks /\ r.item = Picked(open)
    BY <2>1 DEF PanelInv, PanelTypeOK, ReadsForItem
  <2>3. answer \in {"anonymous", "favorited", "not-favorited"} /\ answer = Truth
    BY <2>2 DEF Truth
  <2>4. asked' = (asked \ {r}) \union {new}
    BY <2>1
  <2> HIDE DEF answer
  <2>5. new \in Asks /\ new.kind = "favorites" /\ new.item = r.item /\ new.answer = answer
    BY <2>1, <2>2, <2>3 DEF Asks
  <2> HIDE DEF new
  <2>6. PanelTypeOK' /\ PanelShowsItsItem' /\ ReadsForItem' /\ Picked(open)' = Picked(open)
    BY <1>9, <2>1, <2>4, <2>5 DEF PanelInv, PanelTypeOK
  <2>7. UNCHANGED Toggles /\ Lists' = (Lists \ {r}) \union {new} /\ r \in Lists
    BY <2>1, <2>4, <2>5 DEF Toggles, Lists
  <2>8. UNCHANGED <<Own, Live, Truth>>
    BY <2>1, <2>6, <2>7 DEF Own, Live, Truth
  <2>9. OnePress' /\ SettledHeart'
    BY <2>1, <2>3, <2>5, <2>6, <2>7, <2>8 DEF PanelInv, OnePress, SettledHeart
  <2> QED
    BY <2>6, <2>9 DEF PanelInv
<1>11. CASE FavoritesAnswered
  <2>1. PICK r \in asked :
          /\ r.kind = "favorites" /\ r.served /\ asked' = asked \ {r}
          /\ heart' = [heart EXCEPT !.status = r.answer]
          /\ UNCHANGED <<open, shown, favorites, signedIn, steps>>
    BY <1>11 DEF FavoritesAnswered
  <2>2. PanelTypeOK' /\ PanelShowsItsItem' /\ ReadsForItem' /\ Picked(open)' = Picked(open)
    BY <1>9, <2>1 DEF PanelInv, PanelTypeOK
  <2>3. UNCHANGED Toggles /\ Lists' = Lists \ {r} /\ r \in Lists
    BY <2>1 DEF Toggles, Lists
  <2>4. UNCHANGED <<Own, Live, Truth>>
    BY <2>1, <2>2, <2>3 DEF Own, Live, Truth
  <2>5. heart'.status = r.answer /\ heart'.pending = heart.pending /\ heart'.settled = heart.settled
    BY <2>1 DEF PanelInv, PanelTypeOK
  <2>6. OnePress' /\ SettledHeart'
    BY <2>1, <2>2, <2>3, <2>4, <2>5 DEF PanelInv, OnePress, SettledHeart
  <2> QED
    BY <2>2, <2>6 DEF PanelInv
<1>12. CASE FavoritesLost
  <2>1. PICK r \in asked :
          /\ r.kind = "favorites" /\ asked' = asked \ {r}
          /\ heart' = [heart EXCEPT !.status = "not-favorited", !.settled = FALSE]
          /\ UNCHANGED <<open, shown, favorites, signedIn>>
    BY <1>12 DEF FavoritesLost
  <2>2. PanelTypeOK' /\ PanelShowsItsItem' /\ ReadsForItem' /\ Picked(open)' = Picked(open)
    BY <1>9, <2>1 DEF PanelInv, PanelTypeOK
  <2>3. UNCHANGED Toggles /\ Lists' = Lists \ {r}
    BY <2>1 DEF Toggles, Lists
  <2>4. UNCHANGED Live
    BY <2>3 DEF Live
  <2>5. heart'.pending = heart.pending /\ ~heart'.settled
    BY <2>1 DEF PanelInv, PanelTypeOK
  <2> QED
    BY <2>2, <2>3, <2>4, <2>5 DEF PanelInv, OnePress, SettledHeart
<1>13. CASE HandleClick
  <2>1. CASE heart.status = "anonymous"
    BY <1>5, <1>13, <2>1 DEF HandleClick
  <2>2. CASE heart.status # "anonymous"
    <3> DEFINE new == [Ask("toggle", Picked(open)) EXCEPT !.add = heart.status # "favorited"]
    <3>1. /\ Picked(open) # Nothing /\ heart.status # "loading" /\ ~heart.pending
          /\ heart' = [heart EXCEPT !.pending = TRUE, !.settled = @ /\ ~Outdated]
          /\ asked' = asked \union {new}
          /\ UNCHANGED <<open, shown, favorites, signedIn>>
      BY <1>13, <2>2 DEF HandleClick, Pressable
    <3>2. /\ new \in Asks /\ new.kind = "toggle" /\ new.item = Picked(open)
          /\ new.live /\ ~new.served
      <4> DEFINE add == heart.status # "favorited"
      <4>1. add \in BOOLEAN
        OBVIOUS
      <4> HIDE DEF add
      <4>2. [Ask("toggle", Picked(open)) EXCEPT !.add = add] \in Asks
        BY <1>0, <4>1 DEF Ask, Asks
      <4> QED
        BY <4>2 DEF Ask, add
    <3> HIDE DEF new
    <3>3. PanelTypeOK' /\ PanelShowsItsItem' /\ ReadsForItem' /\ Picked(open)' = Picked(open)
      BY <1>9, <3>1, <3>2 DEF PanelInv, PanelTypeOK
    <3>4. Toggles' = Toggles \union {new} /\ UNCHANGED Lists
      BY <3>1, <3>2 DEF Toggles, Lists
    <3>5. Own' = Own \union {new} /\ Live' = Live \union {new} /\ UNCHANGED Truth
      BY <3>1, <3>2, <3>3, <3>4 DEF Own, Live, Truth
    <3>6. /\ heart'.pending /\ heart'.status = heart.status
          /\ heart'.settled => heart.settled /\ Lists = {}
      BY <3>1 DEF PanelInv, PanelTypeOK, Outdated, Lists
    <3>7. Live = {}
      BY <3>1 DEF PanelInv, OnePress
    <3>8. OnePress'
      BY <3>4, <3>5, <3>6, <3>7 DEF PanelInv, OnePress
    <3>9. SettledHeart'
      BY <3>1, <3>2, <3>3, <3>4, <3>5, <3>6, <3>7 DEF PanelInv, SettledHeart
    <3> QED
      BY <3>3, <3>8, <3>9 DEF PanelInv
  <2> QED
    BY <2>1, <2>2
<1>14. CASE ToggleServed
  <2>1. PICK r \in Toggles :
          /\ ~r.served
          /\ asked' = (asked \ {r}) \union {[r EXCEPT !.served = TRUE,
               !.answer = IF ~signedIn THEN "anonymous"
                          ELSE IF r.add THEN "favorited" ELSE "not-favorited"]}
          /\ favorites' = IF ~signedIn THEN favorites
                         ELSE IF r.add THEN favorites \union {r.item} ELSE favorites \ {r.item}
          /\ UNCHANGED <<open, shown, heart, signedIn, steps>>
    BY <1>14 DEF ToggleServed
  <2> DEFINE answer == IF ~signedIn THEN "anonymous"
                       ELSE IF r.add THEN "favorited" ELSE "not-favorited"
             new == [r EXCEPT !.served = TRUE, !.answer = answer]
  <2>2. r \in Asks /\ r \in asked /\ r.kind = "toggle"
    BY DEF PanelInv, PanelTypeOK, Toggles
  <2>3. answer \in {"anonymous", "favorited", "not-favorited"}
    OBVIOUS
  <2>4. asked' = (asked \ {r}) \union {new}
    BY <2>1
  <2>5. r.item = Picked(open) => answer = Truth'
    BY <2>1 DEF Truth
  <2>6. r.item # Picked(open) => UNCHANGED Truth
    BY <2>1 DEF Truth
  <2> HIDE DEF answer
  <2>7. /\ new \in Asks /\ new.kind = "toggle" /\ new.item = r.item /\ new.answer = answer
        /\ new.live = r.live
    BY <2>2, <2>3 DEF Asks
  <2> HIDE DEF new
  <2>8. PanelTypeOK' /\ PanelShowsItsItem' /\ ReadsForItem' /\ Picked(open)' = Picked(open)
    BY <1>9, <2>1, <2>2, <2>4, <2>7 DEF PanelInv, PanelTypeOK
  <2>9. Toggles' = (Toggles \ {r}) \union {new} /\ UNCHANGED Lists
    BY <2>2, <2>4, <2>7 DEF Toggles, Lists
  <2>10. /\ Own' = IF r.item = Picked(open) THEN (Own \ {r}) \union {new} ELSE Own
         /\ r.item = Picked(open) => r \in Own
    BY <2>7, <2>8, <2>9 DEF Own
  <2>11. /\ Live' = IF r.live THEN (Live \ {r}) \union {new} ELSE Live
         /\ r.live => r \in Live
    BY <2>7, <2>9 DEF Live
  <2>12. OnePress'
    BY <2>1, <2>9, <2>11 DEF PanelInv, OnePress
  <2>13. SettledHeart'
    <3>1. CASE r.item = Picked(open)
      <4> SUFFICES ASSUME Picked(open) # Nothing, heart.settled PROVE SettledHeart'
        BY <2>1, <2>8 DEF SettledHeart
      <4>1. r \in Own /\ r \in Live /\ r.live /\ Own = {r} /\ Live = {r}
        BY <2>10, <3>1 DEF PanelInv, SettledHeart, OnePress, Live
      <4>2. Lists = {} /\ heart.status # "loading"
        BY <4>1 DEF PanelInv, SettledHeart
      <4>3. Own' = {new} /\ Live' = {new} /\ Lists' = {}
        BY <2>9, <2>10, <2>11, <3>1, <4>1, <4>2
      <4>4. new.answer = Truth'
        BY <2>5, <2>7, <3>1
      <4> QED
        BY <2>1, <4>2, <4>3, <4>4 DEF SettledHeart
    <3>2. CASE r.item # Picked(open)
      <4>1. Picked(open) # Nothing /\ heart.settled => ~r.live
        BY <2>11, <3>2 DEF PanelInv, SettledHeart, Own
      <4> QED
        BY <2>1, <2>6, <2>8, <2>9, <2>10, <2>11, <3>2, <4>1 DEF PanelInv, SettledHeart
    <3> QED
      BY <3>1, <3>2
  <2> QED
    BY <2>8, <2>12, <2>13 DEF PanelInv
<1>15. CASE ToggleAnswered
  <2>1. PICK r \in Toggles :
          /\ r.served /\ asked' = asked \ {r} /\ Pressed(r, r.answer)
          /\ UNCHANGED <<open, shown, favorites, signedIn, steps>>
    BY <1>15 DEF ToggleAnswered
  <2>2. r \in Asks /\ r \in asked /\ r.kind = "toggle"
    BY DEF PanelInv, PanelTypeOK, Toggles
  <2>3. PanelTypeOK' /\ PanelShowsItsItem' /\ ReadsForItem' /\ Picked(open)' = Picked(open)
    <3>1. DOMAIN heart' = DOMAIN heart
      BY <2>1 DEF Pressed
    <3> QED
      BY <1>9, <2>1, <2>2, <3>1 DEF PanelInv, PanelTypeOK
  <2>4. Toggles' = Toggles \ {r} /\ UNCHANGED Lists
    BY <2>1, <2>2 DEF Toggles, Lists
  <2>5. Own' = Own \ {r} /\ Live' = Live \ {r} /\ UNCHANGED Truth
    BY <2>1, <2>3, <2>4 DEF Own, Live, Truth
  <2>6. CASE r.live
    <3>1. heart'.status = r.answer /\ ~heart'.pending /\ heart'.settled = heart.settled
      BY <2>1, <2>6 DEF PanelInv, PanelTypeOK, Pressed
    <3>2. Live = {r}
      BY <2>6 DEF PanelInv, OnePress, Live
    <3>3. OnePress'
      BY <2>4, <2>5, <3>1, <3>2 DEF PanelInv, OnePress
    <3> QED
      BY <2>1, <2>3, <2>4, <2>5, <3>1, <3>2, <3>3 DEF PanelInv, SettledHeart
  <2>7. CASE ~r.live
    <3>1. UNCHANGED heart /\ Live' = Live
      BY <2>1, <2>5, <2>7 DEF Pressed, Live
    <3>2. Picked(open) # Nothing /\ heart.settled => r \notin Own
      BY <2>7 DEF PanelInv, SettledHeart, Live
    <3> QED
      BY <2>3, <2>4, <2>5, <3>1, <3>2 DEF PanelInv, OnePress, SettledHeart
  <2> QED
    BY <2>6, <2>7
<1>16. CASE ToggleLost
  <2>1. PICK r \in Toggles :
          /\ asked' = asked \ {r}
          /\ heart' = IF r.live THEN [heart EXCEPT !.pending = FALSE, !.settled = FALSE] ELSE heart
          /\ UNCHANGED <<open, shown, favorites, signedIn>>
    BY <1>16 DEF ToggleLost
  <2>2. r \in Asks /\ r \in asked /\ r.kind = "toggle"
    BY DEF PanelInv, PanelTypeOK, Toggles
  <2>3. PanelTypeOK' /\ PanelShowsItsItem' /\ ReadsForItem' /\ Picked(open)' = Picked(open)
    <3>1. DOMAIN heart' = DOMAIN heart
      BY <2>1
    <3> QED
      BY <1>9, <2>1, <2>2, <3>1 DEF PanelInv, PanelTypeOK
  <2>4. Toggles' = Toggles \ {r} /\ UNCHANGED Lists
    BY <2>1, <2>2 DEF Toggles, Lists
  <2>5. Own' = Own \ {r} /\ Live' = Live \ {r} /\ UNCHANGED Truth
    BY <2>1, <2>3, <2>4 DEF Own, Live, Truth
  <2>6. CASE r.live
    <3>1. ~heart'.settled /\ ~heart'.pending
      BY <2>1, <2>6 DEF PanelInv, PanelTypeOK
    <3>2. Live = {r}
      BY <2>6 DEF PanelInv, OnePress, Live
    <3> QED
      BY <2>3, <2>4, <2>5, <3>1, <3>2 DEF PanelInv, OnePress, SettledHeart
  <2>7. CASE ~r.live
    <3>1. UNCHANGED heart /\ Live' = Live
      BY <2>1, <2>5, <2>7 DEF Live
    <3>2. Picked(open) # Nothing /\ heart.settled => r \notin Own
      BY <2>7 DEF PanelInv, SettledHeart, Live
    <3> QED
      BY <2>3, <2>4, <2>5, <3>1, <3>2 DEF PanelInv, OnePress, SettledHeart
  <2> QED
    BY <2>6, <2>7
<1>17. CASE SignedElsewhere
  <2>1. UNCHANGED <<open, shown, asked, favorites>> /\ heart' = [heart EXCEPT !.settled = FALSE]
    BY <1>17 DEF SignedElsewhere
  <2>2. UNCHANGED <<Toggles, Lists, Live>> /\ heart'.pending = heart.pending /\ ~heart'.settled
    BY <2>1 DEF Toggles, Lists, Live, PanelInv, PanelTypeOK
  <2>3. PanelTypeOK' /\ PanelShowsItsItem' /\ ReadsForItem'
    BY <1>9, <2>1 DEF PanelInv, PanelTypeOK
  <2> QED
    BY <2>2, <2>3 DEF PanelInv, OnePress, SettledHeart
<1>18. CASE UNCHANGED panelVars
  BY <1>18 DEF panelVars, PanelInv, PanelTypeOK, PanelShowsItsItem, ReadsForItem, OnePress,
     SettledHeart, Own, Live, Lists, Toggles, Truth
<1> QED
  BY <1>1, <1>2, <1>3, <1>4, <1>6, <1>7, <1>8, <1>10, <1>11, <1>12, <1>13, <1>14, <1>15, <1>16,
     <1>17, <1>18 DEF PanelNext

LEMMA PanelInvAlways == PanelSpec => []PanelInv
<1>1. PanelInit => PanelInv
  <2> SUFFICES ASSUME PanelInit PROVE PanelInv
    OBVIOUS
  <2>1. Picked(open) = Nothing
    <3>1. Cardinality({}) = 0
      BY FS_EmptySet
    <3> QED
      BY <3>1 DEF PanelInit, Closed, Picked
  <2>2. open \in Opens /\ open.view = "summary"
    BY DEF PanelInit, Closed, Opens, Stuff
  <2> QED
    BY <2>1, <2>2 DEF PanelInit, Blank, NoHeart, PanelInv, PanelTypeOK, PanelShowsItsItem,
       ReadsForItem, OnePress, SettledHeart, Live, Lists, Toggles
<1> QED
  BY <1>1, PanelInvKept, PTL DEF PanelSpec

\* However fast the reader goes from marker to marker, photos, analysis and cost
\* are those of the item on the panel, and a tab that waits has asked.
THEOREM PanelOfOneItem == PanelSpec => []PanelShowsItsItem
<1>1. PanelInv => PanelShowsItsItem
  BY DEF PanelInv
<1> QED
  BY <1>1, PanelInvAlways, PTL

\* A heart that waits for nothing is filled exactly when the server has the
\* favorite of the item on the panel, also when it was kept from another item; not
\* so after a request was lost, the session changed elsewhere, the item came while
\* a toggle of it or of the kept heart was under way, or a kept heart was pressed
\* before its new list was there (FavoriteButton.tsx).
THEOREM HeartIsTrue == PanelSpec => []HeartTellsTruth
<1>1. PanelInv => HeartTellsTruth
  BY DEF PanelInv, SettledHeart, HeartTellsTruth, Own, Lists, Toggles, Truth
<1> QED
  BY <1>1, PanelInvAlways, PTL

-----------------------------------------------------------------------------
\* The checklist

ChecklistSpec == ChecklistInit /\ [][ChecklistNext]_checkVars

Ticks == UNION {[S -> BOOLEAN] : S \in SUBSET Checks}
Calls == [op : {"get", "set"}, id : Nat, value : Ticks]
ChecksTypeOK ==
  /\ board \in [open : BOOLEAN, id : Nat, checked : Ticks, loaded : BOOLEAN]
  /\ disk \in Ticks /\ tapped \in Ticks
  /\ calls \in Seq(Calls)
  /\ used.opens \in Nat /\ DOMAIN used = {"taps", "opens", "fails"}

TapsStand ==
  board.open => /\ DOMAIN tapped \subseteq DOMAIN board.checked
                /\ \A c \in DOMAIN tapped : board.checked[c] = tapped[c]

\* Until the reading of the open screen is there nothing else is called for.
OwnReadingLast ==
  /\ \A i \in DOMAIN calls : calls[i].op = "get" => calls[i].id <= used.opens
  /\ board.open => \A i \in DOMAIN calls :
       calls[i].op = "get" /\ calls[i].id = board.id => i = Len(calls) /\ ~board.loaded

\* Each write holds all ids of those before it and of the device.
WritesGrow ==
  \A i \in DOMAIN calls : calls[i].op = "set" =>
    /\ kept \subseteq DOMAIN calls[i].value
    /\ \A j \in DOMAIN calls :
         j > i /\ calls[j].op = "set" => DOMAIN calls[i].value \subseteq DOMAIN calls[j].value
    /\ board.open /\ board.loaded => DOMAIN calls[i].value \subseteq DOMAIN board.checked

\* The last write is of what the screen shows; after it, so is the device.
InStep ==
  board.open /\ board.loaded =>
    /\ kept \subseteq DOMAIN board.checked
    /\ calls = << >> => dirty \/ disk = board.checked
    /\ calls # << >> => calls[Len(calls)] = Write(board.checked)

ChecksInv ==
  ChecksTypeOK /\ TapsStand /\ OwnReadingLast /\ WritesGrow /\ InStep /\ kept \subseteq DOMAIN disk

LEMMA SpreadTicks ==
  ASSUME NEW f \in Ticks, NEW g \in Ticks
  PROVE  /\ Spread(f, g) \in Ticks
         /\ DOMAIN Spread(f, g) = DOMAIN f \union DOMAIN g
         /\ \A c \in DOMAIN g : Spread(f, g)[c] = g[c]
         /\ \A c \in DOMAIN f \ DOMAIN g : Spread(f, g)[c] = f[c]
<1>1. PICK S \in SUBSET Checks, T \in SUBSET Checks : f \in [S -> BOOLEAN] /\ g \in [T -> BOOLEAN]
  BY DEF Ticks
<1>2. Spread(f, g) \in [S \union T -> BOOLEAN]
  BY <1>1 DEF Spread
<1> QED
  BY <1>1, <1>2 DEF Ticks, Spread

LEMMA OneTick ==
  ASSUME NEW c \in Checks, NEW tick \in BOOLEAN
  PROVE  One(c, tick) \in Ticks /\ DOMAIN One(c, tick) = {c} /\ One(c, tick)[c] = tick
<1>1. One(c, tick) \in [{c} -> BOOLEAN]
  BY DEF One
<1> QED
  BY <1>1 DEF Ticks, One

LEMMA WriteIsCall ==
  ASSUME NEW checked \in Ticks
  PROVE  Write(checked) \in Calls /\ Write(checked).op = "set" /\ Write(checked).value = checked
BY DEF Write, Calls

LEMMA NoTicks == Empty \in Ticks /\ DOMAIN Empty = {}
<1>1. Empty \in [{} -> BOOLEAN]
  BY DEF Empty
<1> QED
  BY <1>1 DEF Ticks, Empty

\* The call at the head is done with: the rest is as it was.
LEMMA RestOfCalls ==
  ASSUME NEW q \in Seq(Calls), q # << >>
  PROVE  /\ Tail(q) \in Seq(Calls) /\ Head(q) = q[1] /\ Len(Tail(q)) = Len(q) - 1
         /\ 1 \in DOMAIN q /\ Len(q) \in Nat
         /\ \A i \in DOMAIN Tail(q) : i + 1 \in DOMAIN q /\ Tail(q)[i] = q[i + 1] /\ i \in Nat
         /\ Tail(q) # << >> => Tail(q)[Len(Tail(q))] = q[Len(q)]
         /\ Tail(q) = << >> => Head(q) = q[Len(q)] /\ Len(q) = 1
         /\ Len(q) = 1 => Tail(q) = << >>
<1>1. Len(q) \in Nat /\ Len(q) > 0 /\ DOMAIN q = 1 .. Len(q)
  OBVIOUS
<1>2. Tail(q) \in Seq(Calls) /\ Head(q) = q[1] /\ Len(Tail(q)) = Len(q) - 1
  OBVIOUS
<1>3. DOMAIN Tail(q) = 1 .. Len(q) - 1
  BY <1>1, <1>2
<1>4. \A i \in 1 .. Len(q) - 1 : Tail(q)[i] = q[i + 1]
  BY <1>1
<1>5. Tail(q) # << >> <=> Len(q) > 1
  <2>1. \A s \in Seq(Calls) : s # << >> => Len(s) \in Nat \ {0}
    BY EmptySeq
  <2>2. Len(<< >>) = 0
    BY EmptySeq
  <2> DEFINE t == Tail(q)
  <2>3. t \in Seq(Calls) /\ Len(t) = Len(q) - 1
    BY <1>2
  <2> HIDE DEF t
  <2>4. t # << >> <=> Len(t) # 0
    BY <2>1, <2>2, <2>3
  <2>5. t # << >> <=> Len(q) > 1
    BY <1>1, <2>3, <2>4
  <2> QED
    BY <2>5 DEF t
<1> QED
  BY <1>1, <1>2, <1>3, <1>4, <1>5

LEMMA OneMoreCall ==
  ASSUME NEW q \in Seq(Calls), NEW call \in Calls
  PROVE  /\ Append(q, call) \in Seq(Calls) /\ Len(Append(q, call)) = Len(q) + 1
         /\ Append(q, call) # << >> /\ Append(q, call)[Len(q) + 1] = call
         /\ \A i \in DOMAIN Append(q, call) :
              /\ i \in Nat
              /\ \/ i \in DOMAIN q /\ Append(q, call)[i] = q[i] /\ i <= Len(q)
                 \/ i = Len(q) + 1 /\ Append(q, call)[i] = call
         /\ Len(q) \in Nat
<1>1. Len(q) \in Nat /\ DOMAIN q = 1 .. Len(q)
  OBVIOUS
<1>2. Append(q, call) \in Seq(Calls) /\ Len(Append(q, call)) = Len(q) + 1
  OBVIOUS
<1>3. Append(q, call)[Len(q) + 1] = call /\ \A i \in 1 .. Len(q) : Append(q, call)[i] = q[i]
  BY <1>1
<1>4. DOMAIN Append(q, call) = 1 .. Len(q) + 1 /\ Append(q, call) # << >>
  BY <1>1, <1>2
<1>5. ASSUME NEW i \in DOMAIN Append(q, call)
      PROVE  /\ i \in Nat
             /\ \/ i \in DOMAIN q /\ Append(q, call)[i] = q[i] /\ i <= Len(q)
                \/ i = Len(q) + 1 /\ Append(q, call)[i] = call
  <2>1. i \in Nat /\ (i \in 1 .. Len(q) \/ i = Len(q) + 1)
    BY <1>1, <1>4
  <2> QED
    BY <1>1, <1>3, <2>1
<1> QED
  BY <1>1, <1>2, <1>3, <1>4, <1>5

LEMMA ChecksInvKept == ChecksInv /\ [ChecklistNext]_checkVars => ChecksInv'
<1> SUFFICES ASSUME ChecksInv, [ChecklistNext]_checkVars PROVE ChecksInv'
  OBVIOUS
<1> DEFINE Boards == [open : BOOLEAN, id : Nat, checked : Ticks, loaded : BOOLEAN]
<1>0. ChecksTypeOK
  BY DEF ChecksInv
<1>1. CASE OpenChecklist
  <2> DEFINE n == used.opens + 1
             get == [op |-> "get", id |-> n, value |-> Empty]
  <2>1. /\ board' = [Shut EXCEPT !.open = TRUE, !.id = n] /\ calls' = Append(calls, get)
        /\ tapped' = Empty /\ used' = [used EXCEPT !["opens"] = n] /\ UNCHANGED <<disk, kept, dirty>>
    BY <1>1 DEF OpenChecklist, Count
  <2>2. n \in Nat /\ n > used.opens
    BY <1>0 DEF ChecksTypeOK
  <2> HIDE DEF n
  <2>3. get \in Calls /\ get.op = "get" /\ get.id = n
    BY <2>2, NoTicks DEF Calls
  <2> HIDE DEF get
  <2>4. board' \in Boards /\ board'.open /\ board'.id = n /\ board'.checked = Empty /\ ~board'.loaded
    BY <2>1, <2>2, NoTicks DEF Shut
  <2>5. used'.opens = n /\ DOMAIN used' = DOMAIN used
    BY <1>0, <2>1 DEF ChecksTypeOK
  <2>6. ChecksTypeOK'
    BY <1>0, <2>1, <2>2, <2>3, <2>4, <2>5, NoTicks, OneMoreCall DEF ChecksTypeOK
  <2>7. TapsStand'
    BY <2>1, <2>4, NoTicks DEF TapsStand
  <2>8. \A i \in DOMAIN calls' : /\ i \in Nat
                                 /\ \/ i \in DOMAIN calls /\ calls'[i] = calls[i]
                                    \/ i = Len(calls') /\ calls'[i] = get
    BY <1>0, <2>1, <2>3, OneMoreCall DEF ChecksTypeOK
  <2>9. \A i \in DOMAIN calls : calls[i].op = "get" => calls[i].id \in Nat /\ calls[i].id < n
    <3>1. \A i \in DOMAIN calls : calls[i] \in Calls
      BY <1>0 DEF ChecksTypeOK
    <3> QED
      BY <1>0, <2>2, <3>1 DEF ChecksInv, ChecksTypeOK, OwnReadingLast, Calls
  <2>10. OwnReadingLast'
    BY <2>2, <2>3, <2>4, <2>5, <2>8, <2>9 DEF OwnReadingLast
  <2>11. WritesGrow'
    BY <2>1, <2>3, <2>4, <2>8 DEF ChecksInv, WritesGrow
  <2> QED
    BY <2>1, <2>4, <2>6, <2>7, <2>10, <2>11 DEF ChecksInv, InStep
<1>2. CASE Toggle
  <2>1. PICK c \in Checks : LET tick == ~(c \in DOMAIN board.checked /\ board.checked[c])
                                checked == Spread(board.checked, One(c, tick))
                            IN  /\ board.open /\ board' = [board EXCEPT !.checked = checked]
                                /\ tapped' = Spread(tapped, One(c, tick))
                                /\ calls' = IF board.loaded THEN Append(calls, Write(checked)) ELSE calls
                                /\ UNCHANGED <<disk, kept, dirty>> /\ Count("taps", MaxTaps)
    BY <1>2 DEF Toggle
  <2> DEFINE tick == ~(c \in DOMAIN board.checked /\ board.checked[c])
             checked == Spread(board.checked, One(c, tick))
  <2>2. /\ board.open /\ board' = [board EXCEPT !.checked = checked]
        /\ tapped' = Spread(tapped, One(c, tick))
        /\ calls' = IF board.loaded THEN Append(calls, Write(checked)) ELSE calls
        /\ UNCHANGED <<disk, kept, dirty>> /\ used'.opens = used.opens /\ DOMAIN used' = DOMAIN used
    BY <1>0, <2>1 DEF Count, ChecksTypeOK
  <2>3. tick \in BOOLEAN
    OBVIOUS
  <2> HIDE DEF tick
  <2>4. board.checked \in Ticks /\ board \in Boards
    BY <1>0 DEF ChecksTypeOK
  <2> HIDE DEF checked
  <2>5. /\ checked \in Ticks /\ DOMAIN checked = {c} \union DOMAIN board.checked /\ checked[c] = tick
        /\ \A d \in DOMAIN board.checked \ {c} : checked[d] = board.checked[d]
    <3> DEFINE one == One(c, tick)
    <3>1. one \in Ticks /\ DOMAIN one = {c} /\ one[c] = tick
      BY <2>3, OneTick
    <3> HIDE DEF one
    <3>2. checked = Spread(board.checked, one)
      BY DEF one, checked
    <3>3. /\ checked \in Ticks /\ DOMAIN checked = DOMAIN board.checked \union DOMAIN one
          /\ \A d \in DOMAIN one : checked[d] = one[d]
          /\ \A d \in DOMAIN board.checked \ DOMAIN one : checked[d] = board.checked[d]
      <4> DEFINE was == board.checked
      <4>1. was \in Ticks /\ checked = Spread(was, one)
        BY <2>4, <3>2
      <4> HIDE DEF was
      <4> QED
        BY <3>1, <4>1, SpreadTicks DEF was
    <3> QED
      BY <3>1, <3>3
  <2>6. /\ tapped' \in Ticks /\ DOMAIN tapped' = {c} \union DOMAIN tapped /\ tapped'[c] = tick
        /\ \A d \in DOMAIN tapped \ {c} : tapped'[d] = tapped[d]
    <3> DEFINE one == One(c, tick)
    <3>1. one \in Ticks /\ DOMAIN one = {c} /\ one[c] = tick
      BY <2>3, OneTick
    <3>2. tapped' = Spread(tapped, one) /\ tapped \in Ticks
      BY <1>0, <2>2 DEF ChecksTypeOK
    <3> HIDE DEF one
    <3>3. /\ tapped' \in Ticks /\ DOMAIN tapped' = DOMAIN tapped \union DOMAIN one
          /\ \A d \in DOMAIN one : tapped'[d] = one[d]
          /\ \A d \in DOMAIN tapped \ DOMAIN one : tapped'[d] = tapped[d]
      BY <3>1, <3>2, SpreadTicks
    <3> QED
      BY <3>1, <3>3
  <2>7. board' \in Boards /\ board'.checked = checked /\ board'.open = board.open
        /\ board'.id = board.id /\ board'.loaded = board.loaded
    BY <2>2, <2>4, <2>5
  <2>8. TapsStand'
    BY <2>2, <2>5, <2>6, <2>7 DEF ChecksInv, TapsStand
  <2>9. CASE ~board.loaded
    <3>1. UNCHANGED calls
      BY <2>2, <2>9
    <3> QED
      BY <1>0, <2>2, <2>6, <2>7, <2>8, <2>9, <3>1 DEF ChecksInv, ChecksTypeOK, OwnReadingLast,
         WritesGrow, InStep
  <2>10. CASE board.loaded
    <3> DEFINE call == Write(checked)
    <3>1. calls' = Append(calls, call)
      BY <2>2, <2>10
    <3>2. call \in Calls /\ call.op = "set" /\ call.value = checked
      BY <2>5, WriteIsCall
    <3>3. call = Write(board.checked)'
      BY <2>7 DEF Write
    <3> HIDE DEF call
    <3>4. ChecksTypeOK'
      BY <1>0, <2>2, <2>6, <2>7, <3>1, <3>2, OneMoreCall DEF ChecksTypeOK
    <3>5. /\ \A i \in DOMAIN calls' :
                /\ i \in Nat
                /\ \/ i \in DOMAIN calls /\ calls'[i] = calls[i] /\ i <= Len(calls)
                   \/ i = Len(calls') /\ calls'[i] = call
          /\ Len(calls') = Len(calls) + 1 /\ Len(calls) \in Nat
          /\ calls' # << >> /\ calls'[Len(calls')] = call
      BY <1>0, <3>1, <3>2, OneMoreCall DEF ChecksTypeOK
    <3>6. OwnReadingLast'
      BY <2>2, <2>7, <2>10, <3>2, <3>5 DEF ChecksInv, OwnReadingLast
    <3>7. kept \subseteq DOMAIN board.checked
          /\ \A i \in DOMAIN calls : calls[i].op = "set" =>
               DOMAIN calls[i].value \subseteq DOMAIN board.checked
      BY <2>2, <2>10 DEF ChecksInv, InStep, WritesGrow
    <3>8. WritesGrow'
      BY <2>2, <2>5, <2>7, <3>2, <3>5, <3>7 DEF ChecksInv, WritesGrow
    <3>9. InStep'
      BY <2>2, <2>5, <2>7, <3>3, <3>5, <3>7 DEF InStep
    <3> QED
      BY <2>2, <2>8, <3>4, <3>6, <3>8, <3>9 DEF ChecksInv
  <2> QED
    BY <2>9, <2>10
\* A call that leaves the queue takes nothing else with it.
<1>3. ASSUME calls # << >>, calls' = Tail(calls), UNCHANGED <<board, tapped>>,
             disk' \in Ticks, used'.opens = used.opens, DOMAIN used' = DOMAIN used
      PROVE  ChecksTypeOK' /\ TapsStand' /\ OwnReadingLast'
  <2>1. ChecksTypeOK'
    BY <1>0, <1>3, RestOfCalls DEF ChecksTypeOK
  <2>2. OwnReadingLast'
    <3>1. \A i \in DOMAIN calls' : i + 1 \in DOMAIN calls /\ calls'[i] = calls[i + 1] /\ i \in Nat
      BY <1>0, <1>3, RestOfCalls DEF ChecksTypeOK
    <3>2. Len(calls') = Len(calls) - 1 /\ Len(calls) \in Nat
      BY <1>0, <1>3, RestOfCalls DEF ChecksTypeOK
    <3> QED
      BY <1>3, <3>1, <3>2 DEF ChecksInv, OwnReadingLast
  <2> QED
    BY <1>3, <2>1, <2>2 DEF ChecksInv, TapsStand
<1>4. ASSUME calls # << >>, calls' = Tail(calls), UNCHANGED <<board, kept>> PROVE WritesGrow'
  <2>1. \A i \in DOMAIN calls' : i + 1 \in DOMAIN calls /\ calls'[i] = calls[i + 1] /\ i \in Nat
    BY <1>0, <1>4, RestOfCalls DEF ChecksTypeOK
  <2> QED
    BY <1>4, <2>1 DEF ChecksInv, WritesGrow
<1>5. calls # << >> =>
        /\ Head(calls) = calls[1] /\ 1 \in DOMAIN calls /\ Head(calls) \in Calls
        /\ Tail(calls) # << >> => Tail(calls)[Len(Tail(calls))] = calls[Len(calls)]
        /\ Tail(calls) = << >> => Head(calls) = calls[Len(calls)]
  BY <1>0, RestOfCalls DEF ChecksTypeOK
<1>6. CASE GetItem
  <2> DEFINE checked == Merge(disk, board.checked)
  <2>1. calls # << >> /\ Head(calls).op = "get" /\ UNCHANGED <<disk, used, tapped, kept, dirty>>
    BY <1>6 DEF GetItem
  <2>2. CASE ~(board.open /\ board.id = Head(calls).id)
    <3>1. calls' = Tail(calls) /\ UNCHANGED board
      BY <1>6, <2>2 DEF GetItem
    <3>2. InStep'
      BY <1>5, <2>1, <3>1 DEF ChecksInv, InStep, Write
    <3>3. disk' \in Ticks
      BY <1>0, <2>1 DEF ChecksTypeOK
    <3> QED
      BY <1>3, <1>4, <2>1, <3>1, <3>2, <3>3 DEF ChecksInv
  <2>3. CASE board.open /\ board.id = Head(calls).id
    <3>1. board' = [board EXCEPT !.checked = checked, !.loaded = TRUE]
          /\ calls' = Append(Tail(calls), Write(checked))
      BY <1>6, <2>3 DEF GetItem
    <3>2. board.checked \in Ticks /\ disk \in Ticks /\ board \in Boards
      BY <1>0 DEF ChecksTypeOK
    <3>3. /\ checked \in Ticks /\ DOMAIN checked = DOMAIN board.checked \union DOMAIN disk
          /\ \A c \in DOMAIN board.checked : checked[c] = board.checked[c]
      <4> DEFINE was == board.checked
      <4>1. was \in Ticks /\ checked = Spread(disk, was)
        BY <3>2 DEF Merge
      <4> HIDE DEF checked, was
      <4>2. /\ checked \in Ticks /\ DOMAIN checked = DOMAIN disk \union DOMAIN was
            /\ \A c \in DOMAIN was : checked[c] = was[c]
        BY <3>2, <4>1, SpreadTicks
      <4> QED
        BY <4>2 DEF was
    <3> DEFINE call == Write(checked)
    <3>4. call \in Calls /\ call.op = "set" /\ call.value = checked /\ call.id = 0
      BY <3>3, WriteIsCall DEF Write
    <3> HIDE DEF checked
    <3>5. board' \in Boards /\ board'.checked = checked /\ board'.open /\ board'.loaded
      BY <2>3, <3>1, <3>2, <3>3
    <3>6. Len(calls) = 1
      BY <1>5, <2>1, <2>3 DEF ChecksInv, OwnReadingLast
    <3>7. Tail(calls) \in Seq(Calls) /\ Len(Tail(calls)) = 0
      BY <1>0, <2>1, <3>6, RestOfCalls DEF ChecksTypeOK
    <3>8. Write(board.checked)' = call
      BY <3>5 DEF Write
    <3> HIDE DEF call
    <3>9. /\ calls' \in Seq(Calls) /\ Len(calls') = 1 /\ DOMAIN calls' = {1}
          /\ calls'[1] = call /\ calls' # << >>
      <4> DEFINE rest == Tail(calls)
      <4>1. rest \in Seq(Calls) /\ Len(rest) = 0 /\ calls' = Append(rest, call)
        BY <3>1, <3>7 DEF call
      <4> HIDE DEF rest
      <4>2. /\ calls' \in Seq(Calls) /\ Len(calls') = 1 /\ calls'[1] = call /\ calls' # << >>
        BY <3>4, <4>1, OneMoreCall
      <4> QED
        BY <4>2
    <3>10. ChecksTypeOK' /\ OwnReadingLast'
      BY <1>0, <2>1, <3>4, <3>5, <3>9 DEF ChecksTypeOK, OwnReadingLast
    <3>11. TapsStand'
      BY <2>1, <2>3, <3>3, <3>5 DEF ChecksInv, TapsStand
    <3>12. kept \subseteq DOMAIN checked
      BY <3>3 DEF ChecksInv
    <3>13. WritesGrow'
      BY <2>1, <3>4, <3>5, <3>9, <3>12 DEF WritesGrow
    <3>14. InStep'
      BY <2>1, <3>5, <3>8, <3>9, <3>12 DEF InStep
    <3> QED
      BY <2>1, <3>10, <3>11, <3>13, <3>14 DEF ChecksInv
  <2> QED
    BY <2>2, <2>3
<1>7. CASE GetItemFails
  <2>1. /\ calls # << >> /\ Head(calls).op = "get" /\ calls' = Tail(calls)
        /\ UNCHANGED <<board, disk, tapped, kept, dirty>>
        /\ used'.opens = used.opens /\ DOMAIN used' = DOMAIN used
    BY <1>0, <1>7 DEF GetItemFails, Count, ChecksTypeOK
  <2>2. InStep'
    BY <1>5, <2>1 DEF ChecksInv, InStep, Write
  <2>3. disk' \in Ticks
    BY <1>0, <2>1 DEF ChecksTypeOK
  <2> QED
    BY <1>3, <1>4, <2>1, <2>2, <2>3 DEF ChecksInv
<1>8. CASE SetItem
  <2>1. /\ calls # << >> /\ Head(calls).op = "set" /\ calls' = Tail(calls)
        /\ disk' = Head(calls).value /\ kept' = kept \union DOMAIN disk' /\ dirty' = FALSE
        /\ UNCHANGED <<board, used, tapped>>
    BY <1>8 DEF SetItem
  <2>2. disk' \in Ticks
    BY <1>5, <2>1 DEF Calls
  <2>3. kept' \subseteq DOMAIN disk'
    BY <1>5, <2>1 DEF ChecksInv, WritesGrow
  <2>4. WritesGrow'
    <3>1. \A i \in DOMAIN calls' : i + 1 \in DOMAIN calls /\ calls'[i] = calls[i + 1] /\ i \in Nat
                                   /\ i + 1 > 1
      BY <1>0, <2>1, RestOfCalls DEF ChecksTypeOK
    <3>2. DOMAIN disk' = DOMAIN calls[1].value /\ calls[1].op = "set" /\ 1 \in DOMAIN calls
      BY <1>5, <2>1
    <3>3. ASSUME NEW i \in DOMAIN calls', calls'[i].op = "set"
          PROVE  /\ kept' \subseteq DOMAIN calls'[i].value
                 /\ \A j \in DOMAIN calls' : j > i /\ calls'[j].op = "set" =>
                      DOMAIN calls'[i].value \subseteq DOMAIN calls'[j].value
                 /\ board.open /\ board.loaded =>
                      DOMAIN calls'[i].value \subseteq DOMAIN board.checked
      <4>1. kept \subseteq DOMAIN calls'[i].value /\ DOMAIN disk' \subseteq DOMAIN calls'[i].value
        BY <3>1, <3>2, <3>3 DEF ChecksInv, WritesGrow
      <4>2. \A j \in DOMAIN calls' : j > i => j + 1 > i + 1
        BY <3>1
      <4> QED
        BY <2>1, <3>1, <3>3, <4>1, <4>2 DEF ChecksInv, WritesGrow
    <3> QED
      BY <2>1, <3>3 DEF WritesGrow
  <2>5. InStep'
    <3>1. board.open /\ board.loaded => DOMAIN disk' \subseteq DOMAIN board.checked
      BY <1>5, <2>1 DEF ChecksInv, WritesGrow
    <3> QED
      BY <1>5, <2>1, <3>1 DEF ChecksInv, InStep, Write
  <2> QED
    BY <1>3, <2>1, <2>2, <2>3, <2>4, <2>5 DEF ChecksInv
<1>9. CASE SetItemFails
  <2>1. /\ calls # << >> /\ calls' = Tail(calls) /\ dirty' = TRUE
        /\ UNCHANGED <<board, disk, tapped, kept>>
        /\ used'.opens = used.opens /\ DOMAIN used' = DOMAIN used
    BY <1>0, <1>9 DEF SetItemFails, Count, ChecksTypeOK
  <2>2. InStep'
    BY <1>5, <2>1 DEF ChecksInv, InStep, Write
  <2>3. disk' \in Ticks
    BY <1>0, <2>1 DEF ChecksTypeOK
  <2> QED
    BY <1>3, <1>4, <2>1, <2>2, <2>3 DEF ChecksInv
<1>10. CASE LeaveChecklist
  <2>1. board' = [board EXCEPT !.open = FALSE] /\ UNCHANGED <<disk, calls, used, tapped, kept, dirty>>
    BY <1>10 DEF LeaveChecklist
  <2>2. board' \in Boards /\ ~board'.open
    BY <1>0, <2>1 DEF ChecksTypeOK
  <2> QED
    BY <1>0, <2>1, <2>2 DEF ChecksInv, ChecksTypeOK, TapsStand, OwnReadingLast, WritesGrow, InStep
<1>11. CASE KillApp
  <2>1. board' = Shut /\ calls' = << >> /\ UNCHANGED <<disk, used, tapped, kept>>
    BY <1>11 DEF KillApp
  <2>2. board' \in Boards /\ ~board'.open
    BY <2>1, NoTicks DEF Shut
  <2>3. calls' \in Seq(Calls) /\ DOMAIN calls' = {}
    BY <2>1
  <2> QED
    BY <1>0, <2>1, <2>2, <2>3 DEF ChecksInv, ChecksTypeOK, TapsStand, OwnReadingLast, WritesGrow, InStep
<1>12. CASE UNCHANGED checkVars
  BY <1>12 DEF checkVars, ChecksInv, ChecksTypeOK, TapsStand, OwnReadingLast, WritesGrow, InStep, Write
<1> QED
  BY <1>1, <1>2, <1>6, <1>7, <1>8, <1>9, <1>10, <1>11, <1>12 DEF ChecklistNext

\* Ticks stay as the reader made them, what the device was told to keep is what
\* the screen shows, and no id that was kept is dropped, however long readings
\* and writes take and whichever of them fail.
THEOREM TicksAreKept == ChecklistSpec => []ChecksKept
<1>1. ChecklistInit => ChecksInv
  <2> SUFFICES ASSUME ChecklistInit PROVE ChecksInv
    OBVIOUS
  <2>1. disk \in Ticks /\ kept = DOMAIN disk /\ board = Shut /\ calls = << >> /\ tapped = Empty
        /\ used = [taps |-> 0, opens |-> 0, fails |-> 0]
    BY DEF ChecklistInit, Ticks
  <2>2. Shut \in [open : BOOLEAN, id : Nat, checked : Ticks, loaded : BOOLEAN] /\ ~Shut.open
    BY NoTicks DEF Shut
  <2>3. ChecksTypeOK
    BY <2>1, <2>2, NoTicks DEF ChecksTypeOK
  <2> QED
    BY <2>1, <2>2, <2>3 DEF ChecksInv, TapsStand, OwnReadingLast, WritesGrow, InStep
<1>2. ChecksInv => ChecksKept
  BY DEF ChecksInv, TapsStand, InStep, ChecksKept
<1> QED
  BY <1>1, <1>2, ChecksInvKept, PTL DEF ChecklistSpec

-----------------------------------------------------------------------------
\* The list of items

ItemListSpec == ListInit /\ [][ItemListNext]_listVars

PageAsks == [kind : {"first", "refresh", "more"}, offset : Nat, id : Nat, served : BOOLEAN,
         page : Seq(Stock), touches : Nat]
ItemListTypeOK ==
  /\ stamp \in [Stock -> Nat]
  /\ browse \in [items : Seq(Stock), status : {"loading", "ready", "error"},
                 refreshing : BOOLEAN, more : BOOLEAN, end : BOOLEAN]
  /\ asks \subseteq PageAsks
  /\ spent \in [pulls : Nat, touches : Nat, lost : Nat]
  /\ upset \in BOOLEAN

\* An answer is a page of an order that holds as long as no item was touched since.
PagesOfOrders ==
  \A ask \in asks :
    /\ ask.kind # "more" => ask.offset = 0
    /\ ask.touches <= spent.touches
    /\ ask.served /\ ask.touches = spent.touches =>
         \E o \in Orders : ask.page = RowsAt(o, ask.offset)

\* One page at a time.
OneMore ==
  \A ask \in asks : ask.kind = "more" =>
    browse.more /\ \A other \in asks : other.kind = "more" => other = ask

\* The page under way continues the rows on the screen.
MoreContinues ==
  \A ask \in asks : ask.kind = "more" =>
    /\ ask.offset = Len(browse.items)
    /\ ask.served => ask.touches = spent.touches

\* The rows are the beginning of an order, and all of it at the end.
RowsBegin ==
  \E o \in Orders :
    /\ Len(browse.items) <= Len(o)
    /\ browse.items = SubSeq(o, 1, Len(browse.items))
    /\ browse.end => Len(browse.items) = Len(o)

Distinct == \A a, b \in Stock : a # b => stamp[a] # stamp[b]
ItemListInv ==
  /\ ItemListTypeOK /\ PagesOfOrders /\ OneMore
  /\ ~upset => MoreContinues /\ (Distinct => RowsBegin \/ (browse.items = << >> /\ ~browse.end))

LEMMA StockSize == Cardinality(Stock) \in Nat
  BY ListAssumption, FS_CardinalityType

\* An order has every item at one place.
LEMMA OrderFacts ==
  ASSUME stamp \in [Stock -> Nat], NEW o \in Orders
  PROVE  /\ o \in Seq(Stock) /\ Len(o) = Cardinality(Stock)
         /\ \A i, j \in 1..Len(o) : i # j => o[i] # o[j]
         /\ \A a \in Stock : \E i \in 1..Len(o) : o[i] = a
         /\ \A i, j \in 1..Len(o) : i < j => stamp[o[i]] >= stamp[o[j]]
<1>1. PICK s \in SUBSET Stock : o \in SetToSeqs(s)
  BY DEF Orders, SetToAllKPermutations
<1>2. IsFiniteSet(s) /\ Cardinality(s) \in Nat
  BY ListAssumption, FS_Subset, FS_CardinalityType
<1>3. /\ o \in [1..Cardinality(s) -> s]
      /\ \A i, j \in 1..Cardinality(s) : i # j => o[i] # o[j]
  BY <1>1 DEF SetToSeqs
<1>4. Len(o) = Cardinality(s)
  BY <1>2, <1>3
<1>5. Len(o) = Cardinality(Stock)
  BY DEF Orders
<1>6. s = Stock
  BY <1>4, <1>5, ListAssumption, FS_Subset
<1>7. o \in Seq(Stock) /\ DOMAIN o = 1..Len(o)
  BY <1>2, <1>3, <1>4, <1>6
<1>8. \A a \in Stock : \E i \in 1..Len(o) : o[i] = a
  <2>1. o \in Injection(1..Len(o), Stock)
    BY <1>3, <1>4, <1>6 DEF Injection, IsInjective
  <2>2. Cardinality(1..Len(o)) = Len(o)
    BY <1>2, <1>4, FS_Interval
  <2>3. o \in Surjection(1..Len(o), Stock)
    BY <2>1, <2>2, <1>5, ListAssumption, FS_Injection
  <2> QED
    BY <2>3 DEF Surjection
<1>9. \A i, j \in 1..Len(o) : i < j => stamp[o[i]] >= stamp[o[j]]
  BY <1>7 DEF Orders
<1> QED
  BY <1>3, <1>4, <1>5, <1>7, <1>8, <1>9

\* The least element of a set of numbers.
LEMMA LeastOf ==
  ASSUME NEW T \in SUBSET Nat, T # {}
  PROVE  \E x \in T : \A y \in T : ~(y < x)
<1> DEFINE R == OpToRel(<, Nat)
<1>1. IsWellFoundedOn(R, Nat)
  BY NatLessThanWellFounded
<1>2. PICK x \in T : \A y \in T : ~(<<y, x>> \in R)
  <2> HIDE DEF R
  <2> QED
    BY <1>1, WFMin
<1> QED
  BY <1>2 DEF OpToRel

\* Items changed at different moments have one order only.
LEMMA OneOrder ==
  ASSUME stamp \in [Stock -> Nat], Distinct, NEW o \in Orders, NEW p \in Orders
  PROVE  o = p
<1> USE StockSize
<1> DEFINE N == Cardinality(Stock)
           Apart == {i \in 1..N : o[i] # p[i]}
<1>1. /\ o \in Seq(Stock) /\ Len(o) = N
      /\ \A i, j \in 1..N : i # j => o[i] # o[j]
      /\ \A a \in Stock : \E i \in 1..N : o[i] = a
      /\ \A i, j \in 1..N : i < j => stamp[o[i]] >= stamp[o[j]]
      /\ \A i \in 1..N : o[i] \in Stock
  BY OrderFacts
<1>2. /\ p \in Seq(Stock) /\ Len(p) = N
      /\ \A i, j \in 1..N : i # j => p[i] # p[j]
      /\ \A a \in Stock : \E i \in 1..N : p[i] = a
      /\ \A i, j \in 1..N : i < j => stamp[p[i]] >= stamp[p[j]]
      /\ \A i \in 1..N : p[i] \in Stock
  BY OrderFacts
<1> HIDE DEF N
<1> N \in Nat
  BY DEF N
<1>3. SUFFICES ASSUME Apart # {} PROVE FALSE
  <2>1. Apart = {} => \A i \in 1..N : o[i] = p[i]
    OBVIOUS
  <2> QED
    BY <2>1, <1>1, <1>2, SeqEqual
<1>4. PICK i \in Apart : \A j \in Apart : ~(j < i)
  <2>1. Apart \in SUBSET Nat
    OBVIOUS
  <2> HIDE DEF Apart
  <2> QED
    BY <1>3, <2>1, LeastOf
<1>5. /\ i \in 1..N /\ o[i] # p[i] /\ o[i] \in Stock /\ p[i] \in Stock
      /\ \A j \in 1..N : j < i => o[j] = p[j]
  BY <1>1, <1>2, <1>4
<1>6. stamp[o[i]] > stamp[p[i]] \/ stamp[p[i]] > stamp[o[i]]
  BY <1>5 DEF Distinct
<1>7. CASE stamp[o[i]] > stamp[p[i]]
  <2>1. PICK j \in 1..N : p[j] = o[i]
    BY <1>2, <1>5
  <2>2. j # i /\ ~(j < i)
    BY <2>1, <1>1, <1>5
  <2> QED
    BY <2>1, <2>2, <1>2, <1>5, <1>7
<1>8. CASE stamp[p[i]] > stamp[o[i]]
  <2>1. PICK j \in 1..N : o[j] = p[i]
    BY <1>1, <1>5
  <2>2. j # i /\ ~(j < i)
    BY <2>1, <1>2, <1>5
  <2> QED
    BY <2>1, <2>2, <1>1, <1>5, <1>8
<1> QED
  BY <1>6, <1>7, <1>8

\* A page of an order is a sequence of items.
LEMMA PageFacts ==
  ASSUME stamp \in [Stock -> Nat], NEW o \in Orders, NEW offset \in Nat
  PROVE  /\ RowsAt(o, offset) \in Seq(Stock)
         /\ offset <= Len(o) => Len(RowsAt(o, offset)) \in 0..(Len(o) - offset)
<1> DEFINE last == offset + PageSize
           n == IF last > Len(o) THEN Len(o) ELSE last
<1>1. o \in Seq(Stock) /\ Len(o) \in Nat /\ \A i \in 1..Len(o) : o[i] \in Stock
  BY OrderFacts, StockSize
<1>2. n \in Int /\ n <= Len(o) /\ \A i \in (offset + 1)..n : o[i] \in Stock
  BY <1>1, ListAssumption
<1>3. RowsAt(o, offset) = SubSeq(o, offset + 1, n)
  BY DEF RowsAt
<1> HIDE DEF n
<1>4. /\ SubSeq(o, offset + 1, n) \in Seq(Stock)
      /\ Len(SubSeq(o, offset + 1, n)) = IF offset + 1 <= n THEN n - (offset + 1) + 1 ELSE 0
  BY <1>2, SubSeqProperties
<1> QED
  BY <1>1, <1>2, <1>3, <1>4

\* What a page adds to the beginning of its order.
LEMMA PageContinues ==
  ASSUME stamp \in [Stock -> Nat], NEW o \in Orders, NEW n \in 0..Len(o)
  PROVE  LET next == RowsAt(o, n)
             rows == SubSeq(o, 1, n) \o next
         IN  /\ Len(rows) <= Len(o)
             /\ rows = SubSeq(o, 1, Len(rows))
             /\ Len(next) < PageSize \/ n = Len(o) => Len(rows) = Len(o)
<1> DEFINE k == IF n + PageSize > Len(o) THEN Len(o) ELSE n + PageSize
<1>1. o \in Seq(Stock) /\ Len(o) \in Nat /\ \A i \in 1..Len(o) : o[i] \in Stock
  BY OrderFacts, StockSize
<1>2. /\ n \in Nat /\ n <= Len(o) /\ k \in n..Len(o)
      /\ k - n < PageSize => k = Len(o)
      /\ n = Len(o) => k = Len(o)
  BY <1>1, ListAssumption
<1>3. RowsAt(o, n) = SubSeq(o, n + 1, k)
  BY DEF RowsAt
<1> HIDE DEF k
<1>4. SubSeq(o, 1, n) \o SubSeq(o, n + 1, k) = SubSeq(o, 1, k)
  BY <1>1, <1>2, ConcatAdjacentSubSeq
<1>5. Len(SubSeq(o, 1, k)) = k
  BY <1>1, <1>2, SubSeqProperties
<1>6. Len(SubSeq(o, n + 1, k)) = k - n
  BY <1>1, <1>2, SubSeqProperties
<1> QED
  BY <1>1, <1>2, <1>3, <1>4, <1>5, <1>6

LEMMA OrdersStay == stamp' = stamp => Orders' = Orders
  BY DEF Orders

\* What the reader asks for.
LEMMA AskTypes ==
  ASSUME ItemListInv, NEW kind \in {"first", "refresh", "more"}, NEW offset \in Nat
  PROVE  LET ask == AskFor(kind, offset)
         IN  /\ ask \in PageAsks /\ ask.kind = kind /\ ask.offset = offset /\ ~ask.served
             /\ ask.touches = 0
  BY SMT DEF ItemListInv, ItemListTypeOK, PageAsks, AskFor

LEMMA DoneFacts ==
  ASSUME ItemListInv, NEW ask \in asks
  PROVE  /\ Done(ask) \in [items : Seq(Stock), status : {"loading", "ready", "error"},
                           refreshing : BOOLEAN, more : BOOLEAN, end : BOOLEAN]
         /\ Done(ask).items = browse.items /\ Done(ask).end = browse.end
         /\ Done(ask).more = (browse.more /\ ask.kind # "more")
  BY DEF ItemListInv, ItemListTypeOK, PageAsks, Done

LEMMA ServeKeeps == ItemListInv /\ Serve => ItemListInv'
<1> SUFFICES ASSUME ItemListInv, NEW ask \in asks, NEW order \in Orders, ~ask.served,
                    asks' = (asks \ {ask}) \union
                      {[ask EXCEPT !.served = TRUE, !.touches = spent.touches,
                                   !.page = RowsAt(order, ask.offset)]},
                    UNCHANGED <<stamp, browse, spent, upset>>
             PROVE  ItemListInv'
  BY DEF Serve
<1> DEFINE told == [ask EXCEPT !.served = TRUE, !.touches = spent.touches,
                               !.page = RowsAt(order, ask.offset)]
<1>1. /\ told \in PageAsks /\ told.kind = ask.kind /\ told.offset = ask.offset /\ told.served
      /\ told.touches = spent.touches /\ told.page = RowsAt(order, ask.offset)
  <2>1. ask \in PageAsks /\ spent.touches \in Nat
    BY DEF ItemListInv, ItemListTypeOK
  <2>2. ask.offset \in Nat
    BY <2>1 DEF PageAsks
  <2>3. RowsAt(order, ask.offset) \in Seq(Stock)
    BY <2>2, PageFacts DEF ItemListInv, ItemListTypeOK
  <2> QED
    BY <2>1, <2>3 DEF PageAsks
<1> asks' = (asks \ {ask}) \union {told}
  OBVIOUS
<1> HIDE DEF told
<1>2. ItemListTypeOK'
  BY <1>1 DEF ItemListInv, ItemListTypeOK
<1>3. PagesOfOrders'
  BY <1>1, OrdersStay DEF ItemListInv, ItemListTypeOK, PagesOfOrders
<1>4. OneMore'
  BY <1>1 DEF ItemListInv, OneMore
<1>5. ~upset => MoreContinues'
  BY <1>1 DEF ItemListInv, MoreContinues
<1>6. (Distinct <=> Distinct') /\ (RowsBegin <=> RowsBegin')
  BY OrdersStay DEF Distinct, RowsBegin
<1> QED
  BY <1>2, <1>3, <1>4, <1>5, <1>6 DEF ItemListInv

LEMMA TouchKeeps == ItemListInv /\ Touch => ItemListInv'
<1> SUFFICES ASSUME ItemListInv, Touch
             PROVE  ItemListInv'
  OBVIOUS
<1>1. PICK item \in Stock :
        /\ spent' = [spent EXCEPT !.touches = @ + 1]
        /\ stamp' = [stamp EXCEPT ![item] = Cardinality(Stock) + spent.touches + 1]
  BY DEF Touch
<1>2. upset' = TRUE /\ UNCHANGED <<browse, asks>>
  BY DEF Touch
<1>3. spent.touches \in Nat /\ spent' \in [pulls : Nat, touches : Nat, lost : Nat]
      /\ spent'.touches = spent.touches + 1
  <2>1. spent \in [pulls : Nat, touches : Nat, lost : Nat]
    BY DEF ItemListInv, ItemListTypeOK
  <2> QED
    BY <1>1, <2>1
<1>4. ItemListTypeOK'
  BY <1>1, <1>2, <1>3, StockSize DEF ItemListInv, ItemListTypeOK
<1>5. \A ask \in asks : ask.touches \in Nat
  BY DEF ItemListInv, ItemListTypeOK, PageAsks
<1>6. PagesOfOrders'
  BY <1>2, <1>3, <1>5 DEF ItemListInv, PagesOfOrders
<1>7. OneMore'
  BY <1>2 DEF ItemListInv, OneMore
<1> QED
  BY <1>2, <1>4, <1>6, <1>7 DEF ItemListInv

\* A reader's request: asked for with what is on the screen.
LEMMA AskKeeps ==
  ASSUME ItemListInv, Pull, UNCHANGED <<stamp, upset>>,
         NEW kind \in {"first", "refresh", "more"}, NEW offset \in Nat,
         asks' = asks \union {AskFor(kind, offset)},
         browse' \in [items : Seq(Stock), status : {"loading", "ready", "error"},
                      refreshing : BOOLEAN, more : BOOLEAN, end : BOOLEAN],
         browse'.items = browse.items, browse'.end = browse.end,
         kind # "more" => offset = 0 /\ browse'.more = browse.more,
         kind = "more" => offset = Len(browse.items) /\ ~browse.more /\ browse'.more
  PROVE  ItemListInv'
<1> DEFINE ask == AskFor(kind, offset)
<1>1. ask \in PageAsks /\ ask.kind = kind /\ ask.offset = offset /\ ~ask.served /\ ask.touches = 0
  BY AskTypes
<1> asks' = asks \union {ask}
  OBVIOUS
<1> HIDE DEF ask
<1>2. spent' \in [pulls : Nat, touches : Nat, lost : Nat] /\ spent'.touches = spent.touches
      /\ spent.touches \in Nat
  <2>1. spent \in [pulls : Nat, touches : Nat, lost : Nat]
    BY DEF ItemListInv, ItemListTypeOK
  <2>2. spent' = [spent EXCEPT !.pulls = @ + 1]
    BY DEF Pull
  <2> QED
    BY <2>1, <2>2
<1>3. ItemListTypeOK'
  BY <1>1, <1>2 DEF ItemListInv, ItemListTypeOK
<1>4. PagesOfOrders'
  BY <1>1, <1>2, OrdersStay DEF ItemListInv, PagesOfOrders
<1>5. OneMore'
  BY <1>1 DEF ItemListInv, OneMore
<1>6. ~upset => MoreContinues'
  BY <1>1, <1>2 DEF ItemListInv, MoreContinues
<1>7. (Distinct <=> Distinct') /\ (RowsBegin <=> RowsBegin')
  BY OrdersStay DEF Distinct, RowsBegin
<1> QED
  BY <1>3, <1>4, <1>5, <1>6, <1>7 DEF ItemListInv

LEMMA ReaderKeeps == ItemListInv /\ (OnRefresh \/ RetryList \/ OnEndReached) => ItemListInv'
<1> SUFFICES ASSUME ItemListInv PROVE OnRefresh \/ RetryList \/ OnEndReached => ItemListInv'
  OBVIOUS
<1>1. CASE OnRefresh
  <2>1. /\ browse' \in [items : Seq(Stock), status : {"loading", "ready", "error"},
                        refreshing : BOOLEAN, more : BOOLEAN, end : BOOLEAN]
        /\ browse'.items = browse.items /\ browse'.end = browse.end /\ browse'.more = browse.more
    BY <1>1 DEF OnRefresh, ItemListInv, ItemListTypeOK
  <2>2. Pull /\ UNCHANGED <<stamp, upset>> /\ asks' = asks \union {AskFor("refresh", 0)}
    BY <1>1 DEF OnRefresh
  <2> QED
    BY <2>1, <2>2, AskKeeps
<1>2. CASE RetryList
  <2>1. /\ browse' \in [items : Seq(Stock), status : {"loading", "ready", "error"},
                        refreshing : BOOLEAN, more : BOOLEAN, end : BOOLEAN]
        /\ browse'.items = browse.items /\ browse'.end = browse.end /\ browse'.more = browse.more
    BY <1>2 DEF RetryList, ItemListInv, ItemListTypeOK
  <2>2. Pull /\ UNCHANGED <<stamp, upset>> /\ asks' = asks \union {AskFor("first", 0)}
    BY <1>2 DEF RetryList
  <2> QED
    BY <2>1, <2>2, AskKeeps
<1>3. CASE OnEndReached
  <2>1. /\ browse' \in [items : Seq(Stock), status : {"loading", "ready", "error"},
                        refreshing : BOOLEAN, more : BOOLEAN, end : BOOLEAN]
        /\ browse'.items = browse.items /\ browse'.end = browse.end
        /\ browse'.more /\ ~browse.more /\ Len(browse.items) \in Nat
    <3>1. browse \in [items : Seq(Stock), status : {"loading", "ready", "error"},
                      refreshing : BOOLEAN, more : BOOLEAN, end : BOOLEAN]
      BY DEF ItemListInv, ItemListTypeOK
    <3>2. browse' = [browse EXCEPT !.more = TRUE] /\ ~browse.more
      BY <1>3 DEF OnEndReached, MayLoadMore
    <3>3. Len(browse.items) \in Nat
      BY <3>1
    <3>4. /\ browse' \in [items : Seq(Stock), status : {"loading", "ready", "error"},
                          refreshing : BOOLEAN, more : BOOLEAN, end : BOOLEAN]
          /\ browse'.items = browse.items /\ browse'.end = browse.end /\ browse'.more
      BY <3>1, <3>2
    <3> QED
      BY <3>2, <3>3, <3>4
  <2>2. /\ Pull /\ UNCHANGED <<stamp, upset>>
        /\ asks' = asks \union {AskFor("more", Len(browse.items))}
    BY <1>3 DEF OnEndReached
  <2> QED
    BY <2>1, <2>2, AskKeeps
<1> QED
  BY <1>1, <1>2, <1>3

LEMMA FailsKeep == ItemListInv /\ (FirstPageFails \/ MoreFails) => ItemListInv'
<1> SUFFICES ASSUME ItemListInv, NEW ask \in asks, asks' = asks \ {ask},
                    spent' = [spent EXCEPT !.lost = @ + 1], UNCHANGED <<stamp, upset>>,
                    browse' = Done(ask) \/ browse' = [Done(ask) EXCEPT !.status = "error"]
             PROVE  ItemListInv'
  BY DEF FirstPageFails, MoreFails
<1>1. /\ browse' \in [items : Seq(Stock), status : {"loading", "ready", "error"},
                      refreshing : BOOLEAN, more : BOOLEAN, end : BOOLEAN]
      /\ browse'.items = browse.items /\ browse'.end = browse.end
      /\ browse'.more = (browse.more /\ ask.kind # "more")
  <2> DEFINE d == Done(ask)
  <2>1. /\ d \in [items : Seq(Stock), status : {"loading", "ready", "error"},
                           refreshing : BOOLEAN, more : BOOLEAN, end : BOOLEAN]
         /\ d.items = browse.items /\ d.end = browse.end
         /\ d.more = (browse.more /\ ask.kind # "more")
    BY DoneFacts
  <2>2. browse' = d \/ browse' = [d EXCEPT !.status = "error"]
    OBVIOUS
  <2> HIDE DEF d
  <2> QED
    BY <2>1, <2>2
<1>2. spent' \in [pulls : Nat, touches : Nat, lost : Nat] /\ spent'.touches = spent.touches
  BY DEF ItemListInv, ItemListTypeOK
<1>3. ItemListTypeOK'
  BY <1>1, <1>2 DEF ItemListInv, ItemListTypeOK
<1>4. PagesOfOrders'
  BY <1>2, OrdersStay DEF ItemListInv, PagesOfOrders
<1>5. OneMore'
  BY <1>1 DEF ItemListInv, OneMore
<1>6. ~upset => MoreContinues'
  BY <1>1, <1>2 DEF ItemListInv, MoreContinues
<1>7. (Distinct <=> Distinct') /\ (RowsBegin <=> RowsBegin')
  BY <1>1, OrdersStay DEF Distinct, RowsBegin
<1> QED
  BY <1>1, <1>3, <1>4, <1>5, <1>6, <1>7 DEF ItemListInv

LEMMA FirstKeeps == ItemListInv /\ FirstPageAnswered => ItemListInv'
<1> SUFFICES ASSUME ItemListInv, NEW ask \in asks, ask.kind # "more", ask.served,
                    browse' = [Done(ask) EXCEPT !.items = ask.page, !.status = "ready",
                                                !.end = Len(ask.page) < PageSize],
                    asks' = asks \ {ask},
                    upset' = (asks # {ask} \/ ask.touches # spent.touches),
                    UNCHANGED <<stamp, spent>>
             PROVE  ItemListInv'
  BY DEF FirstPageAnswered
<1>0. ask \in PageAsks /\ ask.page \in Seq(Stock)
  BY DEF ItemListInv, ItemListTypeOK, PageAsks
<1>1. /\ browse' \in [items : Seq(Stock), status : {"loading", "ready", "error"},
                      refreshing : BOOLEAN, more : BOOLEAN, end : BOOLEAN]
      /\ browse'.items = ask.page /\ browse'.end = (Len(ask.page) < PageSize)
      /\ browse'.more = browse.more
  <2> DEFINE d == Done(ask)
  <2>1. /\ d \in [items : Seq(Stock), status : {"loading", "ready", "error"},
                           refreshing : BOOLEAN, more : BOOLEAN, end : BOOLEAN]
         /\ d.items = browse.items /\ d.end = browse.end
         /\ d.more = (browse.more /\ ask.kind # "more")
    BY DoneFacts
  <2> DEFINE last == Len(ask.page) < PageSize
  <2>2. browse' = [d EXCEPT !.items = ask.page, !.status = "ready", !.end = last]
        /\ last \in BOOLEAN
    OBVIOUS
  <2>3. browse.more \in BOOLEAN
    BY DEF ItemListInv, ItemListTypeOK
  <2> HIDE DEF d
  <2> HIDE DEF last
  <2>4. /\ browse' \in [items : Seq(Stock), status : {"loading", "ready", "error"},
                        refreshing : BOOLEAN, more : BOOLEAN, end : BOOLEAN]
        /\ browse'.items = ask.page /\ browse'.end = last /\ browse'.more = browse.more
    BY <2>1, <2>2, <2>3, <1>0
  <2> QED
    BY <2>4 DEF last
<1>2. ItemListTypeOK'
  BY <1>1 DEF ItemListInv, ItemListTypeOK
<1>3. PagesOfOrders'
  BY OrdersStay DEF ItemListInv, PagesOfOrders
<1>4. OneMore'
  BY <1>1 DEF ItemListInv, OneMore
<1>5. ASSUME ~upset' PROVE MoreContinues' /\ RowsBegin'
  <2>1. asks' = {} /\ ask.touches = spent.touches
    BY <1>5
  <2>2. MoreContinues'
    BY <2>1 DEF MoreContinues
  <2>3. PICK o \in Orders : ask.page = RowsAt(o, 0)
    BY <2>1 DEF ItemListInv, PagesOfOrders
  <2>4. stamp \in [Stock -> Nat]
    BY DEF ItemListInv, ItemListTypeOK
  <2>5. Len(o) \in Nat /\ o \in Seq(Stock)
    BY <2>4, OrderFacts, StockSize
  <2>6. SubSeq(o, 1, 0) = << >> /\ << >> \o ask.page = ask.page
    BY <1>0, <2>5, SubSeqEmpty, ConcatEmptySeq
  <2>7. /\ Len(ask.page) <= Len(o)
        /\ ask.page = SubSeq(o, 1, Len(ask.page))
        /\ Len(ask.page) < PageSize => Len(ask.page) = Len(o)
    <3>1. 0 \in 0..Len(o)
      BY <2>5
    <3>2. LET next == RowsAt(o, 0)
              rows == SubSeq(o, 1, 0) \o next
          IN  /\ Len(rows) <= Len(o)
              /\ rows = SubSeq(o, 1, Len(rows))
              /\ Len(next) < PageSize \/ 0 = Len(o) => Len(rows) = Len(o)
      BY <2>4, <3>1, PageContinues
    <3> QED
      BY <2>3, <2>6, <3>2
  <2>8. o \in Orders'
    BY OrdersStay
  <2> QED
    BY <1>1, <2>2, <2>7, <2>8 DEF RowsBegin
<1>6. ~upset' => /\ MoreContinues'
                 /\ Distinct' => RowsBegin' \/ (browse.items = << >> /\ ~browse.end)'
  BY <1>5
<1> QED
  BY <1>2, <1>3, <1>4, <1>6 DEF ItemListInv

LEMMA MoreKeeps == ItemListInv /\ MoreAnswered => ItemListInv'
<1> SUFFICES ASSUME ItemListInv, NEW ask \in asks, ask.kind = "more", ask.served,
                    browse' = [Done(ask) EXCEPT !.items = @ \o ask.page,
                                                !.end = @ \/ Len(ask.page) < PageSize],
                    asks' = asks \ {ask},
                    UNCHANGED <<stamp, spent, upset>>
             PROVE  ItemListInv'
  BY DEF MoreAnswered
<1>0. ask \in PageAsks /\ ask.page \in Seq(Stock) /\ browse.items \in Seq(Stock)
  BY DEF ItemListInv, ItemListTypeOK, PageAsks
<1>1. /\ browse' \in [items : Seq(Stock), status : {"loading", "ready", "error"},
                      refreshing : BOOLEAN, more : BOOLEAN, end : BOOLEAN]
      /\ browse'.items = browse.items \o ask.page
      /\ browse'.end = (browse.end \/ Len(ask.page) < PageSize)
  <2> DEFINE d == Done(ask)
  <2>1. /\ d \in [items : Seq(Stock), status : {"loading", "ready", "error"},
                           refreshing : BOOLEAN, more : BOOLEAN, end : BOOLEAN]
         /\ d.items = browse.items /\ d.end = browse.end
    BY DoneFacts
  <2> DEFINE rows == browse.items \o ask.page
             last == browse.end \/ Len(ask.page) < PageSize
  <2>2. browse' = [d EXCEPT !.items = rows, !.end = last] /\ last \in BOOLEAN
    BY <2>1
  <2>3. rows \in Seq(Stock)
    BY <1>0, ConcatProperties
  <2> HIDE DEF d, rows, last
  <2>4. /\ browse' \in [items : Seq(Stock), status : {"loading", "ready", "error"},
                        refreshing : BOOLEAN, more : BOOLEAN, end : BOOLEAN]
        /\ browse'.items = rows /\ browse'.end = last
    BY <2>1, <2>2, <2>3
  <2> QED
    BY <2>4 DEF rows, last
<1>2. ItemListTypeOK'
  BY <1>1 DEF ItemListInv, ItemListTypeOK
<1>3. PagesOfOrders'
  BY OrdersStay DEF ItemListInv, PagesOfOrders
<1>4. \A other \in asks' : other.kind # "more"
  BY DEF ItemListInv, OneMore
<1>5. OneMore' /\ MoreContinues'
  BY <1>4 DEF OneMore, MoreContinues
<1>6. ASSUME ~upset, Distinct, RowsBegin \/ (browse.items = << >> /\ ~browse.end)
      PROVE  RowsBegin'
  <2>1. stamp \in [Stock -> Nat]
    BY DEF ItemListInv, ItemListTypeOK
  <2>2. PICK o \in Orders : ask.page = RowsAt(o, Len(browse.items))
    BY <1>6 DEF ItemListInv, PagesOfOrders, MoreContinues
  <2>3. Len(o) \in Nat /\ o \in Seq(Stock)
    BY <2>1, OrderFacts, StockSize
  <2>4. /\ Len(browse.items) \in 0..Len(o)
        /\ browse.items = SubSeq(o, 1, Len(browse.items))
        /\ browse.end => Len(browse.items) = Len(o)
    <3>1. CASE RowsBegin
      <4>1. PICK p \in Orders :
              /\ Len(browse.items) <= Len(p)
              /\ browse.items = SubSeq(p, 1, Len(browse.items))
              /\ browse.end => Len(browse.items) = Len(p)
        BY <3>1 DEF RowsBegin
      <4>2. p = o
        BY <2>1, <1>6, OneOrder
      <4> QED
        BY <1>0, <2>3, <4>1, <4>2
    <3>2. CASE browse.items = << >> /\ ~browse.end
      BY <2>3, <3>2, SubSeqEmpty
    <3> QED
      BY <1>6, <3>1, <3>2
  <2>5. /\ Len(browse.items \o ask.page) <= Len(o)
        /\ browse.items \o ask.page = SubSeq(o, 1, Len(browse.items \o ask.page))
        /\ Len(ask.page) < PageSize \/ browse.end => Len(browse.items \o ask.page) = Len(o)
    <3> DEFINE n == Len(browse.items)
    <3>1. n \in 0..Len(o)
      BY <2>4
    <3> HIDE DEF n
    <3>2. LET next == RowsAt(o, n)
              rows == SubSeq(o, 1, n) \o next
          IN  /\ Len(rows) <= Len(o)
              /\ rows = SubSeq(o, 1, Len(rows))
              /\ Len(next) < PageSize \/ n = Len(o) => Len(rows) = Len(o)
      BY <2>1, <3>1, PageContinues
    <3>3. browse.items = SubSeq(o, 1, n) /\ ask.page = RowsAt(o, n) /\ (browse.end => n = Len(o))
      BY <2>2, <2>4 DEF n
    <3> QED
      BY <3>2, <3>3
  <2>6. o \in Orders'
    BY OrdersStay
  <2> QED
    BY <1>1, <2>5, <2>6 DEF RowsBegin
<1>7. Distinct' <=> Distinct
  BY DEF Distinct
<1>8. ~upset' => /\ MoreContinues'
                 /\ Distinct' => RowsBegin' \/ (browse.items = << >> /\ ~browse.end)'
  <2>1. ~upset /\ Distinct => RowsBegin \/ (browse.items = << >> /\ ~browse.end)
    BY DEF ItemListInv
  <2> QED
    BY <1>5, <1>6, <1>7, <2>1
<1> QED
  BY <1>2, <1>3, <1>5, <1>8 DEF ItemListInv

\* The beginning of an order, read as a set.
LEMMA BeginningsInOrder ==
  ASSUME ItemListInv, Distinct, RowsBegin
  PROVE  LET rows == {browse.items[i] : i \in DOMAIN browse.items}
         IN  /\ Cardinality(rows) = Len(browse.items)
             /\ \A a \in rows, b \in Stock \ rows : stamp[a] > stamp[b]
             /\ browse.end => rows = Stock
<1> DEFINE items == browse.items
           n == Len(items)
           rows == {items[i] : i \in DOMAIN items}
<1>1. items \in Seq(Stock) /\ stamp \in [Stock -> Nat]
  BY DEF ItemListInv, ItemListTypeOK
<1>2. PICK o \in Orders : n <= Len(o) /\ items = SubSeq(o, 1, n) /\ (browse.end => n = Len(o))
  BY DEF RowsBegin
<1>3. /\ o \in Seq(Stock) /\ Len(o) \in Nat
      /\ \A i, j \in 1..Len(o) : i # j => o[i] # o[j]
      /\ \A a \in Stock : \E i \in 1..Len(o) : o[i] = a
      /\ \A i, j \in 1..Len(o) : i < j => stamp[o[i]] >= stamp[o[j]]
      /\ \A i \in 1..Len(o) : o[i] \in Stock
  BY <1>1, OrderFacts, StockSize
<1>4. n \in Nat /\ DOMAIN items = 1..n
  BY <1>1
<1>5. \A i \in 1..n : items[i] = o[i]
  <2>1. \A i \in 1..n : SubSeq(o, 1, n)[i] = o[1 + i - 1]
    <3> HIDE DEF n
    <3>1. \A i \in 1..n : o[i] \in Stock
      BY <1>2, <1>3, <1>4
    <3>2. \A i \in 1..(n - 1 + 1) : SubSeq(o, 1, n)[i] = o[1 + i - 1]
      BY <1>4, <3>1, SubSeqProperties
    <3> QED
      BY <1>4, <3>2
  <2> HIDE DEF items, n
  <2> QED
    BY <1>2, <1>4, <2>1
<1> HIDE DEF items, n
<1>6. rows = {o[i] : i \in 1..n}
  BY <1>4, <1>5
<1>7. \A a \in rows, b \in Stock \ rows : stamp[a] > stamp[b]
  <2> SUFFICES ASSUME NEW a \in rows, NEW b \in Stock \ rows PROVE stamp[a] > stamp[b]
    OBVIOUS
  <2>1. PICK i \in 1..n : a = o[i]
    BY <1>6
  <2>2. PICK j \in 1..Len(o) : b = o[j]
    BY <1>3
  <2>3. j \notin 1..n
    BY <1>6, <2>2
  <2>4. i \in 1..Len(o) /\ i < j
    BY <1>2, <1>3, <1>4, <2>3
  <2>5. stamp[a] >= stamp[b] /\ a # b /\ a \in Stock
    BY <1>3, <2>1, <2>2, <2>4
  <2> QED
    BY <1>1, <2>5 DEF Distinct
<1>8. browse.end => rows = Stock
  BY <1>2, <1>3, <1>6
<1>9. Cardinality(rows) = n
  <2>1. IsFiniteSet(1..n) /\ Cardinality(1..n) = n
    BY <1>4, FS_Interval
  <2>2. items \in Bijection(1..n, rows)
    <3>1. items \in [1..n -> rows]
      BY <1>1, <1>4 DEF items
    <3>2. \A i, j \in 1..n : items[i] = items[j] => i = j
      <4>1. \A i \in 1..n : i \in 1..Len(o)
        BY <1>2, <1>3, <1>4
      <4> QED
        BY <4>1, <1>3, <1>5
    <3>3. \A a \in rows : \E i \in 1..n : items[i] = a
      BY <1>4
    <3> HIDE DEF rows
    <3> QED
      BY <3>1, <3>2, <3>3 DEF Bijection, Injection, Surjection, IsInjective
  <2>3. ExistsBijection(1..n, rows)
    BY <2>2 DEF ExistsBijection
  <2> QED
    BY <2>1, <2>3, FS_Bijection
<1> QED
  BY <1>7, <1>8, <1>9 DEF rows, items, n

\* The rows of the list of items are the items last changed, none twice and none
\* left out, as long as nothing was changed or refreshed across a page.
THEOREM RowsComeInOrder == ItemListSpec => []RowsInOrder
<1>1. ListInit => ItemListInv
  <2> SUFFICES ASSUME ListInit PROVE ItemListInv
    OBVIOUS
  <2>1. ItemListTypeOK
    <3>1. stamp \in [Stock -> Nat]
      BY StockSize DEF ListInit
    <3>2. << >> \in Seq(Stock)
      OBVIOUS
    <3>3. browse \in [items : Seq(Stock), status : {"loading", "ready", "error"},
                      refreshing : BOOLEAN, more : BOOLEAN, end : BOOLEAN]
      BY <3>2 DEF ListInit
    <3>4. asks \subseteq PageAsks /\ spent \in [pulls : Nat, touches : Nat, lost : Nat]
      BY <3>2 DEF ListInit, AskFor, PageAsks
    <3> QED
      BY <3>1, <3>3, <3>4 DEF ListInit, ItemListTypeOK
  <2>2. PagesOfOrders /\ OneMore /\ MoreContinues
    BY DEF ListInit, PagesOfOrders, OneMore, MoreContinues, AskFor
  <2> QED
    BY <2>1, <2>2 DEF ItemListInv, ListInit
<1>2. ItemListInv /\ [ItemListNext]_listVars => ItemListInv'
  <2> SUFFICES ASSUME ItemListInv, [ItemListNext]_listVars PROVE ItemListInv'
    OBVIOUS
  <2>1. CASE UNCHANGED listVars
    BY <2>1 DEF listVars, ItemListInv, ItemListTypeOK, PagesOfOrders, OneMore, MoreContinues,
                Distinct, RowsBegin, Orders
  <2> QED
    BY <2>1, ServeKeeps, TouchKeeps, ReaderKeeps, FailsKeep, FirstKeeps, MoreKeeps
    DEF ItemListNext
<1>3. ItemListInv => RowsInOrder
  <2> SUFFICES ASSUME ItemListInv, Distinct, ~upset
               PROVE  LET rows == {browse.items[i] : i \in DOMAIN browse.items}
                      IN  /\ Cardinality(rows) = Len(browse.items)
                          /\ \A a \in rows, b \in Stock \ rows : stamp[a] > stamp[b]
                          /\ browse.end => rows = Stock
    BY DEF RowsInOrder, Distinct
  <2>1. CASE RowsBegin
    BY <2>1, BeginningsInOrder
  <2>2. CASE browse.items = << >> /\ ~browse.end
    BY <2>2, FS_EmptySet
  <2> QED
    BY <2>1, <2>2 DEF ItemListInv
<1> QED
  BY <1>1, <1>2, <1>3, PTL DEF ItemListSpec

=============================================================================
