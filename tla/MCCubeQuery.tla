---------------------------- MODULE MCCubeQuery -----------------------------
(* Instances of CubeQuery for TLC.                                         *)
EXTENDS CubeQuery

Pt(x, y) == [x |-> x, y |-> y]

AscendingPicks(samples) ==
    {[r \in Records |-> samples[pick[r]]] :
       pick \in {p \in [Records -> DOMAIN samples] :
                   \A r \in Records : r > 0 => p[r - 1] <= p[r]}}

\* One key, two categorical dimensions, one temporal dimension.
Samples ==
    [i \in 1 .. 6 |->
       [at  |-> [k \in {0} |-> <<Pt(0, 0), Pt(0, 0), Pt(0, 0),
                                 Pt(0, 1), Pt(3, 1), Pt(2, 2)>>[i]],
        val |-> <<<<0, 1, 3>>, <<0, 1, 4>>, <<1, 0, 0>>,
                  <<1, 0, 3>>, <<1, 1, 4>>, <<0, 0, 5>>>>[i]]]

SampleDatasets == AscendingPicks(Samples)

TwoCategories == <<2, 2>>

DayBucket == <<2>>

\* A query that asks for nothing.
Blank(type) ==
    [type |-> type, tile |-> [k \in SpatialKeys |-> None],
     region |-> [k \in SpatialKeys |-> None], lastRegion |-> 0,
     zoom |-> 0, resolution |-> 0, where |-> [d \in CategoricalDims |-> None],
     group |-> {}, tseries |-> [d \in TemporalDims |-> None]]

Wheres == {[d \in CategoricalDims |-> None],
           <<{1}, None>>, <<None, {1}>>, <<{0}, {0, 1}>>}

Intervals == {None, [lower |-> 0, upper |-> 4], [lower |-> 2, upper |-> 4],
              [lower |-> 1, upper |-> 3]}

Regions == {None, [x0 |-> 0, y0 |-> 0, x1 |-> 0, y1 |-> 0, z |-> 1],
            [x0 |-> 0, y0 |-> 1, x1 |-> 2, y1 |-> 1, z |-> 2]}

TimeOf(i) == [d \in TemporalDims |-> i]

InRegionQuery(q, g) ==
    IF g = None THEN q
    ELSE [q EXCEPT !.region = [k \in SpatialKeys |-> g], !.zoom = g.z]

\* The shapes the web client sends.
ClientQueries ==
    {InRegionQuery([Blank("GROUP") EXCEPT !.group = {d}, !.where = w,
                                          !.tseries = TimeOf(i)], g) :
       d \in {1, 2}, w \in Wheres, i \in Intervals, g \in Regions}
    \cup
    {InRegionQuery([Blank("TSERIES") EXCEPT !.where = w,
                                            !.tseries = TimeOf(i)], g) :
       w \in Wheres, i \in Intervals \ {None}, g \in Regions}
    \cup
    {InRegionQuery([Blank(t) EXCEPT !.where = w, !.tseries = TimeOf(i)], g) :
       t \in {"REGION", "MYSQL"}, w \in Wheres, i \in Intervals, g \in Regions}
    \cup
    {InRegionQuery([Blank("SCATTER") EXCEPT !.group = {1, 2}], g) :
       g \in Regions}
    \cup
    {[Blank("TILE") EXCEPT !.tile = [k \in SpatialKeys |-> t], !.zoom = t.z,
                           !.resolution = s, !.where = w,
                           !.tseries = TimeOf(i)] :
       t \in {[x |-> 0, y |-> 0, z |-> 0], [x |-> 0, y |-> 0, z |-> 1],
              [x |-> 1, y |-> 0, z |-> 1]},
       s \in {0, 1}, w \in Wheres, i \in Intervals}

-----------------------------------------------------------------------------
(* Two spatial keys (origin and destination of a trip), nothing else.      *)

TripSamples ==
    [i \in 1 .. 7 |->
       [at  |-> [k \in {0, 1} |->
                   <<<<Pt(0, 0), Pt(3, 3)>>, <<Pt(0, 0), Pt(0, 1)>>,
                     <<Pt(0, 1), Pt(0, 1)>>, <<Pt(3, 1), Pt(0, 0)>>,
                     <<Pt(3, 1), Pt(2, 0)>>, <<Pt(2, 3), Pt(1, 1)>>,
                     <<Pt(1, 2), Pt(2, 0)>>>>[i][k + 1]],
        val |-> << >>]]

TripDatasets == AscendingPicks(TripSamples)

NoDimensions == << >>

Areas == {None, [x0 |-> 0, y0 |-> 0, x1 |-> 0, y1 |-> 0, z |-> 1],
          [x0 |-> 2, y0 |-> 0, x1 |-> 3, y1 |-> 1, z |-> 2],
          [x0 |-> 0, y0 |-> 0, x1 |-> 1, y1 |-> 0, z |-> 2]}

TripQueries ==
    {[Blank("REGION") EXCEPT !.region = [k \in {0, 1} |-> g[k + 1]],
                             !.lastRegion = l, !.zoom = g[l + 1].z] :
       l \in {0, 1}, g \in {h \in Areas \X Areas : h[1] # None /\ h[2] # None}}
    \cup
    {[Blank("REGION") EXCEPT !.region[k] = g, !.lastRegion = k, !.zoom = g.z] :
       k \in {0, 1}, g \in Areas \ {None}}
    \cup
    {[Blank("TILE") EXCEPT !.tile[k] = t, !.zoom = t.z, !.resolution = s] :
       k \in {0, 1}, s \in {0, 1},
       t \in {[x |-> 0, y |-> 0, z |-> 0], [x |-> 0, y |-> 0, z |-> 1],
              [x |-> 1, y |-> 0, z |-> 1]}}

\* So the counts proved of the client's queries are those of these.
ASSUME ShapesAssumption == \A q \in Queries : ClientShape(q)

\* And the regions proved complete are those of these.
ASSUME RegionsAssumption ==
    \A q \in Queries :
        (q.type # "TILE" /\ EvalSpatial(q)) => RegionShape(q)
=============================================================================
