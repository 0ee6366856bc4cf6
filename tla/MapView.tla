-------------------------------- MODULE MapView --------------------------------
(***************************************************************************)
(* The map of the web application (MapView.tsx): markers for the items     *)
(* within the bounds of the camera.                                        *)
(*                                                                         *)
(* The camera rests, a timer runs, its end asks the API for the items; the *)
(* answers come in any order.  The map's script can fail, or the map lose  *)
(* its authorization, and the reader starts again with a new map.          *)
(***************************************************************************)
EXTENDS Integers, FiniteSets

CONSTANTS
  Views,           \* where the camera may be: [shown: set of items, close: BOOLEAN]
  FirstView,       \* where a new map starts
  PlaceOf,         \* of each item: its coordinates, or NoPlace
  NoPlace,
  MaxMoves, MaxRetries   \* bounds on moves of the camera and on new maps

ASSUME MapAssumption == FirstView \in Views /\ {MaxMoves, MaxRetries} \subseteq Nat

VARIABLES
  camera,          \* the view, and whether it is moving
  screen,          \* the script, whether a map exists, the debounce timer
  bbox,            \* requestIdRef, the state on the badge, and the items
  wire,            \* requests under way
  markers,         \* what is drawn on the map, and at which zoom
  hovered,         \* the marker whose card is open, or {}
  moved            \* moves and new maps so far
mapVars == <<camera, screen, bbox, wire, markers, hovered, moved>>

\* One marker for all items at the same coordinates, from the zoom where prices
\* are legible; below it, clusters.
GroupByCoord(items) ==
  LET placed == {i \in items : PlaceOf[i] # NoPlace}
  IN  {{j \in placed : PlaceOf[j] = PlaceOf[i]} : i \in placed}
Drawn(items) == [close |-> camera.view.close, groups |-> GroupByCoord(items)]
NoMarkers == [close |-> FALSE, groups |-> {}]

MapInit ==
  /\ camera = [view |-> FirstView, moving |-> FALSE]
  /\ screen = [script |-> "loading", map |-> FALSE, timer |-> FALSE]
  /\ bbox = [id |-> 0, state |-> "loading", items |-> {}]
  /\ wire = {} /\ markers = NoMarkers /\ hovered = {}
  /\ moved = [camera |-> 0, maps |-> 0]

-----------------------------------------------------------------------------
(* The script, and the map's life.                                         *)

\* A map is made, and its first view is asked for as after any rest.
HandleScriptReady ==
  /\ screen.script = "loading" /\ ~screen.map
  /\ screen' = [script |-> "ready", map |-> TRUE, timer |-> TRUE]
  /\ camera' = [view |-> FirstView, moving |-> FALSE]
  /\ hovered' = {}
  /\ UNCHANGED <<bbox, wire, markers, moved>>

\* The script does not load; or the map is refused later, by a callback.
ScriptFails ==
  /\ screen.script = "loading" \/ screen.map
  /\ screen' = [screen EXCEPT !.script = "error"]
  /\ UNCHANGED <<camera, bbox, wire, markers, hovered, moved>>

CleanupMap == [script |-> "loading", map |-> FALSE, timer |-> FALSE]

\* The error covers the map with the button on it, so the pointer has left the
\* markers and closed their card.  Requests go on.
HandleRetry ==
  /\ screen.script = "error" /\ hovered = {}
  /\ moved.maps < MaxRetries /\ moved' = [moved EXCEPT !.maps = @ + 1]
  /\ screen' = CleanupMap
  /\ markers' = NoMarkers
  /\ UNCHANGED <<camera, bbox, wire, hovered>>

-----------------------------------------------------------------------------
(* The camera and the requests.                                            *)

\* By hand, or by a click on a cluster.
CameraMoves == \E view \in Views \ {camera.view} :
  /\ screen.map
  /\ moved.camera < MaxMoves /\ moved' = [moved EXCEPT !.camera = @ + 1]
  /\ camera' = [view |-> view, moving |-> TRUE]
  /\ UNCHANGED <<screen, bbox, wire, markers, hovered>>

HandleIdle ==
  /\ screen.map /\ camera.moving
  /\ camera' = [camera EXCEPT !.moving = FALSE]
  /\ screen' = [screen EXCEPT !.timer = TRUE]
  /\ hovered' = {}
  /\ UNCHANGED <<bbox, wire, markers, moved>>

\* The timer ends: the bounds are read now, and the request gets a number.
LoadBbox ==
  /\ screen.timer
  /\ screen' = [screen EXCEPT !.timer = FALSE]
  /\ bbox' = [bbox EXCEPT !.id = @ + 1, !.state = "loading"]
  /\ wire' = wire \union {[id |-> bbox.id + 1, view |-> camera.view]}
  /\ UNCHANGED <<camera, markers, hovered, moved>>

\* Faulty: every answer counts.
AnyAnswer(r) == r \in wire
LatestAnswer(r) == r.id = bbox.id

\* Faulty: the card stays open.
RedrawOnly(items) ==
  IF screen.map THEN markers' = Drawn(items) /\ UNCHANGED hovered
                ELSE UNCHANGED <<markers, hovered>>

\* The markers follow the items, and the card of an old marker closes.
Redraw(items) ==
  IF screen.map THEN markers' = Drawn(items) /\ hovered' = {}
                ELSE UNCHANGED <<markers, hovered>>

\* Answered with items or with an error; only the latest request counts.
BboxAnswered == \E r \in wire, ok \in BOOLEAN :
  LET items == IF ok THEN r.view.shown ELSE {} IN
  /\ wire' = wire \ {r}
  /\ IF LatestAnswer(r)
       THEN /\ bbox' = [bbox EXCEPT !.items = items, !.state = IF ok THEN "idle" ELSE "error"]
            /\ Redraw(items)
       ELSE UNCHANGED <<bbox, markers, hovered>>
  /\ UNCHANGED <<camera, screen, moved>>

\* The pointer enters a marker, or leaves it.
Hover == \E group \in markers.groups \union {{}} :
  /\ markers.close /\ hovered # group
  /\ hovered' = group
  /\ UNCHANGED <<camera, screen, bbox, wire, markers, moved>>

MapNext ==
  \/ HandleScriptReady \/ ScriptFails \/ HandleRetry
  \/ CameraMoves \/ HandleIdle \/ LoadBbox \/ BboxAnswered \/ Hover

-----------------------------------------------------------------------------
(* Properties.                                                             *)

\* Once the camera rests and the badge counts items, they are the ones within
\* the camera's bounds, drawn for its zoom, whatever answers came late and
\* whichever map, script or request was given up on the way; and "loading" ends:
\* the request it stands for is under way.
MapShowsWhereItRests ==
  /\ screen.map /\ ~camera.moving /\ ~screen.timer /\ bbox.state = "idle" =>
       bbox.items = camera.view.shown /\ markers = Drawn(bbox.items)
  /\ bbox.state = "loading" /\ bbox.id > 0 => \E r \in wire : r.id = bbox.id

\* No card without its marker, and no timer without its map.
NoGhostCard ==
  /\ hovered # {} => hovered \in markers.groups
  /\ screen.timer => screen.map

=============================================================================
