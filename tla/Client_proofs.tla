---------------------------- MODULE Client_proofs ----------------------------
(***************************************************************************)
(* What the page shows is what is selected, for any rectangles, check      *)
(* boxes, intervals, resolutions and zooms, and any number of requests     *)
(* under way.                                                              *)
(***************************************************************************)
EXTENDS Client, SequenceTheorems, TLAPS

-----------------------------------------------------------------------------
(* The invariant.                                                          *)

Selections ==
    [region : (Rects \cup {None}) \X (Zooms \cup {0, None}),
     where : Wheres \cup {None}, tseries : Intervals \cup {None},
     resolution : Resolutions \cup {None}]

Requests == [query : Selections, live : BOOLEAN]

Types ==
    /\ view \in Views /\ loads \in 0 .. 2
    /\ marker \in Rects \cup {None} /\ boxes \in Wheres
    /\ interval \in Intervals /\ square \in Resolutions /\ zoom \in Zooms
    /\ asked \in Selections
    /\ requests \in Seq(Requests)

\* Once the page is loaded the last query is about the controls.
AskedIsSelected ==
    loads > 0 =>
        /\ asked.where = boxes /\ asked.tseries = interval
        /\ asked.resolution = square
        /\ ~drawing => asked.region[1] = marker

\* The request of a panel that is waited for, and the answer to it, are of
\* the last query.
PanelsFollow ==
    view # "tile" =>
        /\ \A i \in DOMAIN requests : requests[i].live
        /\ newest = "pending" =>
             requests # << >> /\ requests[Len(requests)].query = Query(asked)
        /\ newest = "shown" /\ shown # None => shown = Query(asked)

\* What can still be drawn on the map is of the last query.
TilesFollow ==
    view = "tile" /\ loads = 1 =>
        /\ \A i \in DOMAIN requests :
             requests[i].live => requests[i].query = Query(asked)
        /\ shown # None => shown = Query(asked)

\* Before the page is loaded nothing was asked.
NothingBefore == loads = 0 => requests = << >> /\ shown = None

IInv == Types /\ AskedIsSelected /\ PanelsFollow /\ TilesFollow /\ NothingBefore

-----------------------------------------------------------------------------
(* Queries.                                                                *)

\* What Query gives for each view.
LEMMA QueryOf ==
    ASSUME NEW sel
    PROVE  /\ view = "tile" => Query(sel) = [sel EXCEPT !.region = <<None, None>>]
           /\ view = "binned-scatterplot" =>
                Query(sel) = [Nothing EXCEPT !.region = sel.region]
           /\ view # "tile" /\ view # "binned-scatterplot" =>
                Query(sel) = [sel EXCEPT !.resolution = None]
BY DEF Query

\* A query is a selection with parts left out.
LEMMA QueryType ==
    ASSUME NEW sel \in Selections
    PROVE  Query(sel) \in Selections
<1>1. [sel EXCEPT !.region = <<None, None>>] \in Selections
  BY DEF Selections
<1>2. [sel EXCEPT !.resolution = None] \in Selections
  BY DEF Selections
<1>3. Nothing \in Selections
  BY DEF Selections, Nothing
<1>4. [Nothing EXCEPT !.region = sel.region] \in Selections
  BY <1>3 DEF Selections
<1> QED BY <1>1, <1>2, <1>4, QueryOf

\* The controls make a selection.
LEMMA CurrentType ==
    ASSUME NEW rect \in Rects \cup {None}, NEW w \in Wheres, NEW t \in Intervals,
           NEW r \in Resolutions, zoom \in Zooms
    PROVE  /\ Current(rect, w, t, r) \in Selections
           /\ Current(rect, w, t, r).region[1] = rect
           /\ Current(rect, w, t, r).where = w
           /\ Current(rect, w, t, r).tseries = t
           /\ Current(rect, w, t, r).resolution = r
BY DEF Current, Selections

\* A change that does not concern a view leaves its query as it is.
LEMMA SameQuery ==
    ASSUME NEW sel \in Selections, asked \in Selections
    PROVE  /\ view # "tile" /\ ~UpdatesPanels(sel) => Query(sel) = Query(asked)
           /\ view = "tile" /\ ~UpdatesTiles(sel) => Query(sel) = Query(asked)
<1>1. ASSUME view # "tile", ~UpdatesPanels(sel) PROVE Query(sel) = Query(asked)
  <2>1. /\ sel.region = asked.region /\ sel.where = asked.where
        /\ sel.tseries = asked.tseries
    BY <1>1 DEF UpdatesPanels
  <2>2. [sel EXCEPT !.resolution = None] = [asked EXCEPT !.resolution = None]
    BY <2>1 DEF Selections
  <2> QED BY <1>1, <2>1, <2>2, QueryOf
<1>2. ASSUME view = "tile", ~UpdatesTiles(sel) PROVE Query(sel) = Query(asked)
  <2>1. /\ sel.resolution = asked.resolution /\ sel.where = asked.where
        /\ sel.tseries = asked.tseries
    BY <1>2 DEF UpdatesTiles
  <2>2. [sel EXCEPT !.region = <<None, None>>] = [asked EXCEPT !.region = <<None, None>>]
    BY <2>1 DEF Selections
  <2> QED BY <1>2, <2>2, QueryOf
<1> QED BY <1>1, <1>2

\* The query of a selection is about the controls it was made of.
LEMMA QuerySelects ==
    ASSUME asked \in Selections, asked.where = boxes, asked.tseries = interval,
           asked.resolution = square,
           view # "tile" => asked.region[1] = marker
    PROVE  IsSelected(Query(asked))
<1>1. CASE view = "tile"
  <2>1. Query(asked) = [asked EXCEPT !.region = <<None, None>>]
    BY <1>1, QueryOf
  <2>2. /\ Query(asked).region[1] = None /\ Query(asked).where = boxes
        /\ Query(asked).tseries = interval /\ Query(asked).resolution = square
    BY <2>1 DEF Selections
  <2> QED BY <1>1, <2>2 DEF IsSelected
<1>2. CASE view = "binned-scatterplot"
  <2>1. Query(asked) = [Nothing EXCEPT !.region = asked.region]
    BY <1>2, QueryOf
  <2>2. Query(asked).region[1] = marker
    BY <1>2, <2>1 DEF Nothing
  <2> QED BY <1>2, <2>2 DEF IsSelected
<1>3. CASE view # "tile" /\ view # "binned-scatterplot"
  <2>1. Query(asked) = [asked EXCEPT !.resolution = None]
    BY <1>3, QueryOf
  <2>2. /\ Query(asked).region[1] = marker /\ Query(asked).where = boxes
        /\ Query(asked).tseries = interval
    BY <1>3, <2>1 DEF Selections
  <2> QED BY <1>3, <2>2 DEF IsSelected
<1> QED BY <1>1, <1>2, <1>3

-----------------------------------------------------------------------------
(* Requests.                                                               *)

\* Where the requests go that stay when one is taken out.
LEMMA Removed ==
    ASSUME NEW S, NEW s \in Seq(S), NEW i \in DOMAIN s
    PROVE  /\ RemoveAt(s, i) \in Seq(S)
           /\ Len(RemoveAt(s, i)) = Len(s) - 1
           /\ DOMAIN RemoveAt(s, i) = 1 .. Len(s) - 1
           /\ \A j \in 1 .. Len(s) - 1 :
                RemoveAt(s, i)[j] = IF j < i THEN s[j] ELSE s[j + 1]
<1> DEFINE a == SubSeq(s, 1, i - 1)
           b == SubSeq(s, i + 1, Len(s))
<1>1. /\ Len(s) \in Nat /\ DOMAIN s = 1 .. Len(s) /\ i \in 1 .. Len(s)
      /\ \A j \in 1 .. Len(s) : s[j] \in S
  OBVIOUS
<1>2. /\ a \in Seq(S) /\ Len(a) = i - 1
      /\ \A j \in 1 .. i - 1 : a[j] = s[j]
  BY <1>1
<1>3. b \in Seq(S) /\ Len(b) = Len(s) - i
  BY <1>1
<1>4. \A j \in 1 .. Len(s) - i : b[j] = s[i + j]
  <2> SUFFICES ASSUME NEW j \in 1 .. Len(s) - i PROVE b[j] = s[i + j]
    OBVIOUS
  <2>1. b[j] = s[(i + 1) + j - 1]
    BY <1>1
  <2>2. (i + 1) + j - 1 = i + j
    BY <1>1
  <2> QED BY <2>1, <2>2
<1> HIDE DEF a, b
<1>5. a \o b \in Seq(S) /\ Len(a \o b) = Len(s) - 1
  <2>1. a \o b \in Seq(S) /\ Len(a \o b) = Len(a) + Len(b)
    BY <1>2, <1>3, ConcatProperties
  <2> QED BY <1>1, <1>2, <1>3, <2>1
<1>6. DOMAIN (a \o b) = 1 .. Len(s) - 1
  BY <1>5
<1>7. ASSUME NEW j \in 1 .. Len(s) - 1
      PROVE  (a \o b)[j] = IF j < i THEN s[j] ELSE s[j + 1]
  <2>1. CASE j < i
    <3>1. j \in 1 .. Len(a)
      BY <1>1, <1>2, <2>1
    <3>2. (a \o b)[j] = a[j]
      BY <1>2, <1>3, <3>1
    <3> QED BY <1>2, <2>1, <3>1, <3>2
  <2>2. CASE ~(j < i)
    <3>1. j \in Len(a) + 1 .. Len(a) + Len(b)
      BY <1>1, <1>2, <1>3, <2>2
    <3>2. (a \o b)[j] = b[j - Len(a)]
      <4>1. j \in 1 .. Len(a) + Len(b) /\ ~(j <= Len(a))
        BY <1>1, <1>2, <1>3, <3>1
      <4> QED BY <1>2, <1>3, <4>1, ConcatProperties
    <3>3. j - Len(a) \in 1 .. Len(s) - i /\ i + (j - Len(a)) = j + 1
      BY <1>1, <1>2, <2>2
    <3> QED BY <1>4, <2>2, <3>2, <3>3
  <2> QED BY <2>1, <2>2
<1>8. RemoveAt(s, i) = a \o b
  BY DEF RemoveAt, a, b
<1> QED BY <1>5, <1>6, <1>7, <1>8

\* What the follow-ups say of a step that asks for the selection q on.
Follows(q) ==
    /\ requests' \in Seq(Requests)
    /\ view # "tile" =>
        /\ \A i \in DOMAIN requests' : requests'[i].live
        /\ newest' = "pending" =>
             requests' # << >> /\ requests'[Len(requests')].query = Query(q)
        /\ newest' = "shown" /\ shown' # None => shown' = Query(q)
    /\ view = "tile" /\ loads' = 1 =>
        /\ \A i \in DOMAIN requests' :
             requests'[i].live => requests'[i].query = Query(q)
        /\ shown' # None => shown' = Query(q)

\* A panel asks.
LEMMA AskFollows ==
    ASSUME IInv, view # "tile", NEW sel \in Selections, Ask(sel)
    PROVE  Follows(sel)
<1> DEFINE r == [query |-> Query(sel), live |-> TRUE]
<1>1. r \in Requests
  BY QueryType DEF Requests
<1> HIDE DEF r
<1>2. requests' = Append(requests, r) /\ newest' = "pending" /\ requests \in Seq(Requests)
  BY DEF Ask, IInv, Types, r
<1>3. /\ requests' \in Seq(Requests) /\ requests' # << >>
      /\ requests'[Len(requests')] = r
      /\ \A i \in DOMAIN requests' : \/ i \in DOMAIN requests /\ requests'[i] = requests[i]
                                     \/ requests'[i] = r
  BY <1>1, <1>2
<1>4. r.live /\ r.query = Query(sel)
  BY DEF r
<1>5. \A i \in DOMAIN requests' : requests'[i].live
  BY <1>3, <1>4, Zenon DEF IInv, PanelsFollow
<1> QED BY <1>2, <1>3, <1>4, <1>5 DEF Follows

\* New tiles are asked for.
LEMMA NewTilesFollow ==
    ASSUME IInv, view = "tile", NEW sel \in Selections, NewTiles(sel)
    PROVE  Follows(sel)
<1> DEFINE r == [query |-> Query(sel), live |-> TRUE]
           old == [i \in DOMAIN requests |-> [requests[i] EXCEPT !.live = FALSE]]
<1>1. r \in Requests
  BY QueryType DEF Requests
<1>2. /\ old \in Seq(Requests) /\ DOMAIN old = DOMAIN requests
      /\ \A i \in DOMAIN old : ~old[i].live
  <2>1. requests \in Seq(Requests)
    BY DEF IInv, Types
  <2>2. DOMAIN requests = 1 .. Len(requests) /\ Len(requests) \in Nat
    BY <2>1
  <2>3. \A i \in DOMAIN requests : requests[i] \in Requests
    BY <2>1
  <2>4. ASSUME NEW i \in DOMAIN requests
        PROVE  old[i] \in Requests /\ ~old[i].live
    <3>1. old[i] = [requests[i] EXCEPT !.live = FALSE]
      OBVIOUS
    <3> QED BY <2>3, <3>1 DEF Requests
  <2>5. DOMAIN old = DOMAIN requests
    OBVIOUS
  <2>6. old = [i \in 1 .. Len(requests) |-> old[i]]
    BY <2>2
  <2> HIDE DEF old
  <2>7. old \in [1 .. Len(requests) -> Requests]
    BY <2>2, <2>4, <2>6
  <2>8. old \in Seq(Requests)
    BY <2>2, <2>7
  <2> QED BY <2>4, <2>5, <2>8
<1>3. requests' = Append(old, r) /\ shown' = None
  BY DEF NewTiles
<1>4. r.live /\ r.query = Query(sel)
  OBVIOUS
<1> HIDE DEF r, old
<1>5. /\ requests' \in Seq(Requests)
      /\ \A i \in DOMAIN requests' : \/ i \in DOMAIN old /\ requests'[i] = old[i]
                                     \/ requests'[i] = r
  BY <1>1, <1>2, <1>3
<1>6. \A i \in DOMAIN requests' : requests'[i].live => requests'[i].query = Query(sel)
  BY <1>2, <1>4, <1>5, Zenon
<1> QED BY <1>3, <1>5, <1>6 DEF Follows

\* Nothing is asked, and the query of the view has not changed or the tiles
\* are not followed.
LEMMA KeepFollows ==
    ASSUME IInv, NEW sel \in Selections, UNCHANGED answers, loads' = loads,
           view = "tile" /\ loads' = 1 => ~UpdatesTiles(sel),
           view # "tile" => ~UpdatesPanels(sel)
    PROVE  Follows(sel)
<1>1. /\ view # "tile" => Query(sel) = Query(asked)
      /\ view = "tile" /\ loads' = 1 => Query(sel) = Query(asked)
  BY SameQuery DEF IInv, Types
<1>2. requests' = requests /\ shown' = shown /\ newest' = newest
  BY DEF answers
<1> QED BY <1>1, <1>2 DEF Follows, IInv, Types, PanelsFollow, TilesFollow

\* getQuery: what is shown and what is asked follow the selection asked for.
LEMMA GetQueryFollows ==
    ASSUME IInv, NEW sel \in Selections, NEW force, A_getQuery(sel, force),
           loads' = loads
    PROVE  Follows(sel) /\ asked' = sel
<1>1. CASE view = "tile" /\ loads = 1 /\ UpdatesTiles(sel)
  BY <1>1, NewTilesFollow DEF A_getQuery
<1>2. CASE view # "tile" /\ (UpdatesPanels(sel) \/ force)
  BY <1>2, AskFollows DEF A_getQuery
<1>3. CASE ~(view = "tile" /\ loads = 1 /\ UpdatesTiles(sel))
           /\ ~(view # "tile" /\ (UpdatesPanels(sel) \/ force))
  <2>1. UNCHANGED answers
    BY <1>3 DEF A_getQuery
  <2> QED BY <1>3, <2>1, KeepFollows DEF A_getQuery
<1>4. asked' = sel
  BY DEF A_getQuery
<1> QED BY <1>1, <1>2, <1>3, <1>4

\* A step that follows the query it makes the last one keeps both parts.
LEMMA FollowsKeeps ==
    ASSUME view' = view, Follows(asked')
    PROVE  requests' \in Seq(Requests) /\ PanelsFollow' /\ TilesFollow'
<1>1. Query(asked)' = Query(asked')
  BY DEF Query
<1> QED BY <1>1 DEF Follows, PanelsFollow, TilesFollow

-----------------------------------------------------------------------------
(* Steps.                                                                  *)

\* The page is loaded, for the first or another time.
LEMMA LoadKeeps ==
    ASSUME IInv, Load
    PROVE  IInv'
<1> DEFINE sel == Current(None, boxes, Whole, 8)
<1>1. /\ view' = view /\ drawing' = drawing /\ boxes' = boxes /\ zoom' = zoom
      /\ interval' = Whole /\ marker' = None /\ square' = 8 /\ asked' = sel
      /\ loads' = IF loads < 2 THEN loads + 1 ELSE loads
      /\ IF view = "tile" /\ loads = 0 THEN NewTiles(sel)
         ELSE IF view # "tile" /\ UpdatesPanels(sel) THEN Ask(sel)
         ELSE UNCHANGED answers
  BY DEF Load
<1>2. /\ sel \in Selections /\ sel.region[1] = None /\ sel.where = boxes
      /\ sel.tseries = Whole /\ sel.resolution = 8
  <2>1. /\ None \in Rects \cup {None} /\ 8 \in Resolutions
        /\ boxes \in Wheres /\ Whole \in Intervals /\ zoom \in Zooms
    BY ClientAssumption DEF IInv, Types
  <2> QED BY <2>1, CurrentType
<1> HIDE DEF sel
<1>3. Follows(sel)
  <2>1. CASE view = "tile" /\ loads = 0
    BY <1>1, <1>2, <2>1, NewTilesFollow
  <2>2. CASE view # "tile" /\ UpdatesPanels(sel)
    BY <1>1, <1>2, <2>2, AskFollows
  <2>3. CASE view = "tile" /\ loads # 0
    <3>1. loads' # 1 /\ requests' = requests
      BY <1>1, <2>3 DEF IInv, Types, answers
    <3> QED BY <2>3, <3>1 DEF Follows, IInv, Types
  <2>4. CASE view # "tile" /\ ~UpdatesPanels(sel)
    <3>1. UNCHANGED answers
      BY <1>1, <2>4
    <3>2. Query(sel) = Query(asked)
      BY <1>2, <2>4, SameQuery DEF IInv, Types
    <3> QED BY <2>4, <3>1, <3>2 DEF Follows, IInv, Types, PanelsFollow, answers
  <2> QED BY <2>1, <2>2, <2>3, <2>4
<1>4. requests' \in Seq(Requests) /\ PanelsFollow' /\ TilesFollow'
  BY <1>1, <1>3, FollowsKeeps
<1>5. Types'
  BY <1>1, <1>2, <1>4, ClientAssumption DEF IInv, Types
<1>6. AskedIsSelected'
  BY <1>1, <1>2 DEF AskedIsSelected
<1>7. NothingBefore'
  BY <1>1 DEF IInv, Types, NothingBefore
<1> QED BY <1>4, <1>5, <1>6, <1>7 DEF IInv

\* A control has come to a new state, and the page looks what that changes.
Asks(rect, w, t, r, force) ==
    /\ A_getQuery(Current(rect, w, t, r), force)
    /\ marker' = rect /\ boxes' = w /\ interval' = t /\ square' = r
    /\ zoom' = zoom /\ view' = view /\ loads' = loads /\ loads > 0

\* A control that asks keeps the invariant, with what it now selects.
LEMMA AsksKeeps ==
    ASSUME IInv, NEW rect \in Rects \cup {None}, NEW w \in Wheres,
           NEW t \in Intervals, NEW r \in Resolutions, NEW force,
           Asks(rect, w, t, r, force)
    PROVE  IInv'
<1> DEFINE sel == Current(rect, w, t, r)
<1>1. /\ sel \in Selections /\ sel.region[1] = rect /\ sel.where = w
      /\ sel.tseries = t /\ sel.resolution = r
  <2>1. zoom \in Zooms
    BY DEF IInv, Types
  <2> QED BY <2>1, CurrentType
<1>2. Follows(sel) /\ asked' = sel
  BY <1>1, GetQueryFollows DEF Asks
<1> HIDE DEF sel
<1>3. requests' \in Seq(Requests) /\ PanelsFollow' /\ TilesFollow'
  BY <1>2, FollowsKeeps DEF Asks
<1>4. Types'
  BY <1>1, <1>2, <1>3 DEF IInv, Types, Asks
<1>5. AskedIsSelected'
  BY <1>1, <1>2 DEF AskedIsSelected, Asks
<1>6. NothingBefore'
  BY DEF NothingBefore, Asks
<1> QED BY <1>3, <1>4, <1>5, <1>6 DEF IInv

\* So does whatever the user does.
LEMMA UserKeeps ==
    ASSUME IInv, User
    PROVE  IInv'
<1> USE DEF loading, controls, answers
<1>1. ASSUME MouseDown \/ \E rect \in Rects : MouseMove(rect)
      PROVE  IInv'
  <2>1. /\ UNCHANGED <<view, loads, boxes, interval, square, zoom, asked, requests,
                       shown, newest>>
        /\ marker' \in Rects \cup {None} /\ drawing'
    BY <1>1 DEF MouseDown, MouseMove
  <2>2. Types' /\ AskedIsSelected'
    BY <2>1 DEF IInv, Types, AskedIsSelected
  <2>3. PanelsFollow' /\ TilesFollow' /\ NothingBefore'
    BY <2>1 DEF IInv, PanelsFollow, TilesFollow, Query, NothingBefore
  <2> QED BY <2>2, <2>3 DEF IInv
<1>2. ASSUME NEW rect \in Rects \cup {None}, MouseUp(rect)
      PROVE  IInv'
  <2>1. Asks(rect, boxes, interval, square, FALSE)
    BY <1>2 DEF MouseUp, Asks, Loaded
  <2> QED BY <2>1, AsksKeeps DEF IInv, Types
<1>3. ASSUME NEW w \in Wheres, Check(w)
      PROVE  IInv'
  <2>1. Asks(marker, w, interval, square, FALSE)
    BY <1>3 DEF Check, Asks, Loaded
  <2> QED BY <2>1, AsksKeeps DEF IInv, Types
<1>4. ASSUME NEW t \in Intervals, ZoomEnd(t)
      PROVE  IInv'
  <2>1. Asks(marker, boxes, t, square, FALSE)
    BY <1>4 DEF ZoomEnd, Asks, Loaded
  <2> QED BY <2>1, AsksKeeps DEF IInv, Types
<1>5. ASSUME NEW r \in Resolutions, Slide(r)
      PROVE  IInv'
  <2>1. Asks(marker, boxes, interval, r, FALSE)
    BY <1>5 DEF Slide, Asks, Loaded
  <2> QED BY <2>1, AsksKeeps DEF IInv, Types
<1>6. ASSUME Resized
      PROVE  IInv'
  <2>1. Asks(marker, boxes, interval, square, TRUE)
    BY <1>6 DEF Resized, Asks, Loaded
  <2> QED BY <2>1, AsksKeeps DEF IInv, Types
<1>7. ASSUME Recolor \/ \E z \in Zooms : ZoomMap(z)
      PROVE  IInv'
  <2>1. /\ UNCHANGED <<view, loads, marker, drawing, boxes, interval, square, asked>>
        /\ zoom' \in Zooms /\ loads > 0
        /\ \/ view = "tile" /\ NewTiles(asked)
           \/ view # "tile" /\ UNCHANGED <<requests, shown, newest>>
    BY <1>7 DEF Recolor, ZoomMap, Loaded, IInv, Types
  <2>2. Follows(asked)
    <3>1. CASE view = "tile" /\ NewTiles(asked)
      BY <3>1, NewTilesFollow DEF IInv, Types
    <3>2. CASE view # "tile" /\ UNCHANGED <<requests, shown, newest>>
      BY <3>2 DEF Follows, IInv, Types, PanelsFollow
    <3> QED BY <2>1, <3>1, <3>2
  <2>3. requests' \in Seq(Requests) /\ PanelsFollow' /\ TilesFollow'
    BY <2>1, <2>2, FollowsKeeps
  <2>4. Types' /\ AskedIsSelected' /\ NothingBefore'
    BY <2>1, <2>3 DEF IInv, Types, AskedIsSelected, NothingBefore
  <2> QED BY <2>3, <2>4 DEF IInv
<1> QED BY <1>1, <1>2, <1>3, <1>4, <1>5, <1>6, <1>7 DEF User

\* A request is over, answered or not.
LEMMA AnswerKeeps ==
    ASSUME IInv, NEW i \in DOMAIN requests, Answer(i) \/ Fail(i)
    PROVE  IInv'
<1> DEFINE n == Len(requests)
<1>1. /\ UNCHANGED <<view, loads, marker, drawing, boxes, interval, square, zoom, asked>>
      /\ requests' = RemoveAt(requests, i)
  BY DEF Answer, Fail, loading, controls
<1>2. requests \in Seq(Requests) /\ n \in Nat /\ DOMAIN requests = 1 .. n /\ i \in 1 .. n
  BY DEF IInv, Types
<1>3. /\ requests' \in Seq(Requests) /\ Len(requests') = n - 1
      /\ DOMAIN requests' = 1 .. n - 1
      /\ \A j \in 1 .. n - 1 :
           requests'[j] = IF j < i THEN requests[j] ELSE requests[j + 1]
  BY <1>1, <1>2, Removed
<1>4. \A j \in 1 .. n - 1 : \E k \in DOMAIN requests : requests'[j] = requests[k]
  BY <1>2, <1>3
<1>5. i # n => requests' # << >> /\ requests'[Len(requests')] = requests[n]
  BY <1>2, <1>3
<1>6. newest' = "pending" => newest = "pending" /\ i # n
  BY DEF Answer, Fail, IsNewest
<1>7. NothingBefore'
  BY <1>1, <1>2 DEF IInv, NothingBefore
<1>8. CASE view # "tile"
  <2> USE <1>8
  <2>1. \A j \in DOMAIN requests' : requests'[j].live
    BY <1>3, <1>4 DEF IInv, PanelsFollow
  <2>2. newest' = "pending" =>
          requests' # << >> /\ requests'[Len(requests')].query = Query(asked)
    BY <1>5, <1>6 DEF IInv, PanelsFollow
  <2>3. newest' = "shown" /\ shown' # None => shown' = Query(asked)
    <3> SUFFICES ASSUME newest' = "shown", shown' # None
                 PROVE  shown' = Query(asked)
      OBVIOUS
    <3>1. CASE newest = "pending" /\ i = n
      <4>1. Answer(i) /\ Drawn(requests[i].query)
        BY <3>1 DEF Answer, Fail, IsNewest
      <4>2. requests[i].live /\ requests[i].query = Query(asked)
        BY <3>1 DEF IInv, PanelsFollow
      <4> QED BY <4>1, <4>2 DEF Answer
    <3>2. CASE ~(newest = "pending" /\ i = n)
      <4>1. newest = "shown" /\ shown' = shown
        BY <3>2 DEF Answer, Fail, IsNewest
      <4> QED BY <4>1 DEF IInv, PanelsFollow
    <3> QED BY <3>1, <3>2
  <2> QED BY <1>1, <1>3, <1>7, <2>1, <2>2, <2>3 DEF IInv, Types, AskedIsSelected,
             PanelsFollow, TilesFollow, Query
<1>9. CASE view = "tile"
  <2> USE <1>9
  <2>1. ASSUME loads = 1
        PROVE  /\ \A j \in DOMAIN requests' :
                    requests'[j].live => requests'[j].query = Query(asked)
               /\ shown' # None => shown' = Query(asked)
    <3>1. \A k \in DOMAIN requests : requests[k].live => requests[k].query = Query(asked)
      BY <2>1 DEF IInv, TilesFollow
    <3>2. shown # None => shown = Query(asked)
      BY <2>1 DEF IInv, TilesFollow
    <3>3. \/ shown' = shown
          \/ shown' = requests[i].query /\ requests[i].live
      BY DEF Answer, Fail
    <3> QED BY <1>3, <1>4, <3>1, <3>2, <3>3
  <2> QED BY <1>1, <1>3, <1>7, <2>1 DEF IInv, Types, AskedIsSelected, PanelsFollow,
             TilesFollow, Query
<1> QED BY <1>8, <1>9

\* And every step.
LEMMA NextKeeps == IInv /\ [Next]_vars => IInv'
<1> SUFFICES ASSUME IInv, [Next]_vars PROVE IInv'
  OBVIOUS
<1>1. CASE Poll \/ PollAgain \/ UNCHANGED vars
  <2>1. UNCHANGED <<view, loads, marker, drawing, boxes, interval, square, zoom,
                    asked, requests, shown, newest>>
    BY <1>1 DEF Poll, PollAgain, controls, answers, vars
  <2> QED BY <2>1 DEF IInv, Types, AskedIsSelected, PanelsFollow, TilesFollow,
                      NothingBefore, Query
<1>2. CASE Load
  BY <1>2, LoadKeeps
<1>3. CASE User
  BY <1>3, UserKeeps
<1>4. CASE \E i \in DOMAIN requests : Answer(i) \/ Fail(i)
  BY <1>4, AnswerKeeps
<1> QED BY <1>1, <1>2, <1>3, <1>4 DEF Next

\* Before the page is loaded nothing is asked or shown.
LEMMA InitKeeps == Init => IInv
BY ClientAssumption DEF Init, IInv, Types, AskedIsSelected, PanelsFollow,
   TilesFollow, NothingBefore, Selections, Nothing, Requests

\* What is shown follows the controls in every reachable state.
LEMMA Inductive == Spec => []IInv
BY InitKeeps, NextKeeps, PTL DEF Spec

-----------------------------------------------------------------------------
\* A panel that shows the answer to its last request shows what is selected,
\* through every order of answers and failures and every load of the page.
THEOREM PanelsFollowSelection == Spec => []PanelsShowSelection
<1>1. IInv => PanelsShowSelection
  <2> SUFFICES ASSUME IInv, view # "tile", newest = "shown", shown # None, ~drawing
               PROVE  IsSelected(shown)
    BY DEF PanelsShowSelection
  <2>1. shown = Query(asked) /\ loads > 0
    BY DEF IInv, Types, PanelsFollow, NothingBefore
  <2> QED BY <2>1, QuerySelects DEF IInv, Types, AskedIsSelected
<1> QED BY <1>1, Inductive, PTL

\* What is drawn on the map is of the current selection, as long as the page
\* was loaded only once.
THEOREM TilesFollowSelection == Spec => []TilesShowSelection
<1>1. IInv => TilesShowSelection
  <2> SUFFICES ASSUME IInv, view = "tile", loads = 1, shown # None
               PROVE  IsSelected(shown)
    BY DEF TilesShowSelection
  <2>1. shown = Query(asked)
    BY DEF IInv, TilesFollow
  <2> QED BY <2>1, QuerySelects DEF IInv, Types, AskedIsSelected
<1> QED BY <1>1, Inductive, PTL
=============================================================================
