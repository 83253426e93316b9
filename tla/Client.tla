------------------------------- MODULE Client -------------------------------
(***************************************************************************)
(* The page. It waits for the schema of its cube; then every change of the *)
(* selection (a rectangle on the map, check boxes, an interval, the size   *)
(* of the squares) is compared with what was asked for last and the panels *)
(* it concerns are asked for anew. Requests under way are never cancelled, *)
(* their answers come in any order, and a failure is only logged.          *)
(*                                                                         *)
(* Panels do not touch each other: the model follows one of them, "view",  *)
(* or the tiles, through every history of the page.                        *)
(*                                                                         *)
(* A definition named X_Y is the definition X with the slip Y in it.       *)
(***************************************************************************)
EXTENDS Integers, Sequences, SequencesExt

CONSTANTS
    Views,       \* "count" (as the histogram and the table), "time-series",
                 \* "binned-scatterplot", "tile"
    Rects,       \* rectangles one can draw
    Wheres,      \* states of the check boxes
    Intervals,   \* intervals of time
    Whole,       \* the one from the first record to the last
    Short,       \* those with at most one point to draw
    Resolutions, \* of the squares; 8 is the first
    Zooms,       \* of the map
    MaxRequests, \* requests of the view under way (bound)
    MaxPolls,    \* requests for the schema under way (bound)
    None

ASSUME ClientAssumption ==
    /\ Views \subseteq {"count", "time-series", "binned-scatterplot", "tile"}
    /\ Whole \in Intervals /\ Short \subseteq Intervals /\ 8 \in Resolutions
    /\ MaxRequests \in Nat /\ MaxPolls \in Nat

VARIABLES
    view,     \* what is followed
    polls,    \* requests for the schema under way
    polling,  \* the interval of onReady has not been cleared
    ready,    \* the variable of that name
    loads,    \* how often the page was loaded
    marker,   \* the rectangle on the map
    drawing,  \* the variable of that name
    boxes, interval, square, zoom, \* the other controls, and the map's zoom
    asked,    \* region, where, tseries, heatmap_resolution of the last query
    requests, \* of the view, oldest first: [query, live]; an answer to one
              \* that is not live is drawn on a canvas that is gone
    shown,    \* the query whose answer the view shows
    newest    \* what became of the last request of a panel: "pending",
              \* "shown", "lost", or "covered" by the answer to an older one

vars == <<view, polls, polling, ready, loads, marker, drawing, boxes, interval,
          square, zoom, asked, requests, shown, newest>>

loading  == <<polls, polling, ready, loads>>
controls == <<marker, drawing, boxes, interval, square, zoom>>
answers  == <<requests, shown, newest>>

Nothing == [region |-> <<None, None>>, where |-> None, tseries |-> None,
            resolution |-> None]

Init ==
    /\ view \in Views
    /\ polls = 0 /\ polling = TRUE /\ ready = FALSE /\ loads = 0
    /\ marker = None /\ drawing = FALSE
    /\ boxes \in Wheres /\ interval = Whole /\ zoom \in Zooms
    /\ square = 8
    /\ asked = [Nothing EXCEPT !.resolution = 8]
    /\ requests = <<>> /\ shown = None /\ newest = "shown"

-----------------------------------------------------------------------------
(* Queries.                                                                *)

\* The strings of updateDataRestrictions: a region names the zoom of the map,
\* and without a rectangle it is the whole world.
Current(rect, where, tseries, resolution) ==
    [region |-> IF rect = None THEN <<None, 0>> ELSE <<rect, zoom>>,
     where |-> where, tseries |-> tseries, resolution |-> resolution]

\* What the request of a view says of a selection.
Query(sel) ==
    CASE view = "tile"               -> [sel EXCEPT !.region = <<None, None>>]
      [] view = "binned-scatterplot" -> [Nothing EXCEPT !.region = sel.region]
      [] OTHER                       -> [sel EXCEPT !.resolution = None]

\* Whether a selection concerns the panels, and the tiles: update and
\* update_tile.
UpdatesPanels_NoRegion(sel) ==
    asked.where # sel.where \/ asked.tseries # sel.tseries

UpdatesPanels(sel) ==
    asked.region # sel.region \/ asked.where # sel.where \/ asked.tseries # sel.tseries

UpdatesTiles(sel) ==
    asked.where # sel.where \/ asked.tseries # sel.tseries
      \/ asked.resolution # sel.resolution

Ask(sel) ==
    /\ requests' = Append(requests, [query |-> Query(sel), live |-> TRUE])
    /\ newest' = "pending"
    /\ UNCHANGED shown

\* Tiles on new canvases: what is on the old ones, and what is still to come
\* for them, is gone.
NewTiles_Reused(sel) == Ask(sel)

NewTiles(sel) ==
    /\ requests' = Append([i \in DOMAIN requests |-> [requests[i] EXCEPT !.live = FALSE]],
                          [query |-> Query(sel), live |-> TRUE])
    /\ shown' = None
    /\ newest' = "pending"

\* a_getQuery with the selection sel; with force the window was resized.
A_getQuery(sel, force) ==
    /\ asked' = sel
    /\ IF view = "tile" /\ loads = 1 /\ UpdatesTiles(sel) THEN NewTiles(sel)
       ELSE IF view # "tile" /\ (UpdatesPanels(sel) \/ force) THEN Ask(sel)
       ELSE UNCHANGED answers

-----------------------------------------------------------------------------
(* Loading.                                                                *)

\* checkReady, twice a second.
Poll ==
    /\ polling /\ polls < MaxPolls
    /\ polls' = IF ready THEN polls ELSE polls + 1
    /\ UNCHANGED <<view, polling, ready, loads, controls, asked, answers>>

\* The server is not ready, or the request fails.
PollAgain ==
    /\ polls > 0
    /\ polls' = polls - 1
    /\ UNCHANGED <<view, polling, ready, loads, controls, asked, answers>>

\* The schema: the interval is the whole one; loadUi forgets the rectangle and
\* sets the slider, which asks for what has changed; loadMap makes the map and
\* its tiles, once. The answer to a second poll comes here again: the tiles it
\* makes are on no map, and those of the map hear of no change any more.
Load ==
    LET sel == Current(None, boxes, Whole, 8)
    IN  /\ polls > 0 /\ Len(requests) < MaxRequests
        /\ polls' = polls - 1
        /\ ready' = TRUE /\ polling' = FALSE
        /\ loads' = IF loads < 2 THEN loads + 1 ELSE loads
        /\ marker' = None /\ interval' = Whole /\ square' = 8
        /\ asked' = sel
        /\ IF view = "tile" /\ loads = 0 THEN NewTiles(sel)
           ELSE IF view # "tile" /\ UpdatesPanels(sel) THEN Ask(sel)
           ELSE UNCHANGED answers
        /\ UNCHANGED <<view, drawing, boxes, zoom>>

-----------------------------------------------------------------------------
(* The user.                                                               *)

Loaded == loads > 0 /\ Len(requests) < MaxRequests

\* onMapMouseDown, the right button: the rectangle is taken away, and nothing
\* asked.
MouseDown ==
    /\ Loaded /\ ~drawing
    /\ drawing' = TRUE /\ marker' = None
    /\ UNCHANGED <<view, loading, boxes, interval, square, zoom, asked, answers>>

\* onMapMouseOver. Released outside the map the button is not heard of, and
\* the rectangle goes on following the mouse.
MouseMove(rect) ==
    /\ Loaded /\ drawing
    /\ marker' = rect
    /\ UNCHANGED <<view, loading, drawing, boxes, interval, square, zoom, asked,
                   answers>>

\* onMapMouseUp where the mouse has moved to, or where it went down.
MouseUp(rect) ==
    /\ Loaded /\ drawing
    /\ rect \in {marker, None}
    /\ drawing' = FALSE /\ marker' = rect
    /\ A_getQuery(Current(rect, boxes, interval, square), FALSE)
    /\ UNCHANGED <<view, loading, boxes, interval, square, zoom>>

\* A check box, the end of a zoom in the chart, the slider.
Check(w) ==
    /\ Loaded /\ w # boxes
    /\ boxes' = w
    /\ A_getQuery(Current(marker, w, interval, square), FALSE)
    /\ UNCHANGED <<view, loading, marker, drawing, interval, square, zoom>>

ZoomEnd(t) ==
    /\ Loaded /\ t # interval
    /\ interval' = t
    /\ A_getQuery(Current(marker, boxes, t, square), FALSE)
    /\ UNCHANGED <<view, loading, marker, drawing, boxes, square, zoom>>

Slide(r) ==
    /\ Loaded /\ r # square
    /\ square' = r
    /\ A_getQuery(Current(marker, boxes, interval, r), FALSE)
    /\ UNCHANGED <<view, loading, marker, drawing, boxes, interval, zoom>>

\* Half a second after the window was resized for the last time.
Resized ==
    /\ Loaded
    /\ A_getQuery(Current(marker, boxes, interval, square), TRUE)
    /\ UNCHANGED <<view, loading, controls>>

\* The map is zoomed: new tiles, of what was asked for last, and nothing else.
ZoomMap(z) ==
    /\ Loaded /\ z # zoom
    /\ zoom' = z
    /\ IF view = "tile" THEN NewTiles(asked) ELSE UNCHANGED answers
    /\ UNCHANGED <<view, loading, marker, drawing, boxes, interval, square, asked>>

\* Other colours: the tiles are fetched again.
Recolor ==
    /\ Loaded /\ view = "tile" /\ loads = 1
    /\ NewTiles(asked)
    /\ UNCHANGED <<view, loading, controls, asked>>

-----------------------------------------------------------------------------
(* Answers.                                                                *)

IsNewest(i) == i = Len(requests) /\ newest = "pending"

\* loadLineChart leaves a chart as it is for less than two points.
Drawn(query) == view # "time-series" \/ query.tseries \notin Short

\* The answer to request i.
Answer(i) ==
    LET query == requests[i].query
    IN  /\ requests' = RemoveAt(requests, i)
        /\ shown' = IF requests[i].live /\ Drawn(query) THEN query ELSE shown
        /\ newest' = IF ~Drawn(query)
                     THEN IF IsNewest(i) THEN "lost" ELSE newest
                     ELSE IF IsNewest(i) THEN "shown"
                     ELSE IF newest = "pending" THEN "pending" ELSE "covered"
        /\ UNCHANGED <<view, loading, controls, asked>>

\* The request fails, which is logged or not even that.
Fail(i) ==
    /\ requests' = RemoveAt(requests, i)
    /\ newest' = IF IsNewest(i) THEN "lost" ELSE newest
    /\ UNCHANGED <<view, loading, controls, asked, shown>>

-----------------------------------------------------------------------------
User ==
    \/ MouseDown \/ Resized \/ Recolor
    \/ \E rect \in Rects : MouseMove(rect)
    \/ \E rect \in Rects \cup {None} : MouseUp(rect)
    \/ \E w \in Wheres : Check(w)
    \/ \E t \in Intervals : ZoomEnd(t)
    \/ \E r \in Resolutions : Slide(r)
    \/ \E z \in Zooms : ZoomMap(z)

Next ==
    \/ Poll \/ PollAgain \/ Load
    \/ User
    \/ \E i \in DOMAIN requests : Answer(i) \/ Fail(i)

Spec == Init /\ [][Next]_vars

-----------------------------------------------------------------------------
(* What the page must keep.                                                *)

\* query is about the controls as they are now: the rectangle, whatever the
\* zoom it was asked for, and all else the view depends on.
IsSelected(query) ==
    /\ query.region[1] \in {None, marker}
    /\ view \notin {"tile"} => query.region[1] = marker
    /\ view # "binned-scatterplot" => query.where = boxes /\ query.tseries = interval
    /\ view = "tile" => query.resolution = square

\* A panel that shows the answer to its last request shows what is selected,
\* unless a rectangle is being drawn: every change of every control was found
\* to be one and asked for, after a second load of the page, too. (It may
\* show an older selection when answers overtake each other, when the last
\* request failed, and a chart when there is too little to draw.)
PanelsShowSelection ==
    (view # "tile" /\ newest = "shown" /\ shown # None /\ ~drawing) => IsSelected(shown)

\* Whatever is drawn on the map is of the current selection, in whatever
\* order the answers came and whatever failed, as long as the page was
\* loaded only once: an answer that comes late falls on a canvas that is gone.
TilesShowSelection ==
    (view = "tile" /\ loads = 1 /\ shown # None) => IsSelected(shown)
=============================================================================
