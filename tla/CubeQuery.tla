----------------------------- MODULE CubeQuery ------------------------------
(***************************************************************************)
(* HashedCubeInstances::query on the cube CubeBuild made. A query starts   *)
(* with the root pivot and hands the pivots it selects (range) from one    *)
(* dimension to the next; each dimension answers the pivots of its own     *)
(* nodes that lie in them (found). The spatial dimension walks its         *)
(* quadtree; every other one moves a cursor over its nodes alongside the   *)
(* range, which only works because both ascend. What is drawn is counted   *)
(* from the last range, or by merging it into the range of the dimension   *)
(* the query is about (target).                                            *)
(***************************************************************************)
EXTENDS CubeBuild, SequencesExt

CONSTANTS
    Queries,   \* the queries asked
    Bins,      \* TemporalSerializer::bins (256 in the code)
    MaxRows    \* max_count of MySQLSerializer (300 in the code)

\* The bounds of an interval are the numbers Query::Query parses, and None is
\* no tile.
ASSUME QueriesAssumption ==
    /\ MaxRows \in Nat
    /\ None \notin [x : Nat, y : Nat, z : Nat]
    /\ \A q \in Queries, d \in TemporalDims : q.tseries[d] # None =>
         q.tseries[d].lower \in Int /\ q.tseries[d].upper \in Int

VARIABLES
    query,     \* the query being answered, or None
    dim,       \* dimension it is at: 0 spatial, then 1 .. Dims
    range,     \* response[0]
    found,     \* response[1]
    at,        \* range_it, as an index of range
    it,        \* node_it, as an index of nodes[dim]
    inRange,   \* inside the while loop over the nodes of range[at]
    target,    \* [dim, pivots, equal]: target and target_equal
    tuples,    \* scatter_tuples
    answer     \* what was answered, or None

queryVars == <<query, dim, range, found, at, it, inRange, target, tuples,
               answer>>
cursorVars == <<at, it, inRange>>

allVars == <<vars, queryVars>>

SpatialKeys == 0 .. Keys - 1

CategoricalDims == 1 .. Len(Categories)

\* A pivot answered by a dimension: the pivot of a part, tile or whole node
\* with the value the serializers read from it.
Labelled(p, value) == [front |-> p.front, back |-> p.back, value |-> value]

-----------------------------------------------------------------------------
(* The spatial dimension: TileNode::queryTile, aggregateTile, queryRegion. *)

\* A tile line of zoom z on the grid of half finest tiles; a wrapped zoom
\* (ChainTiles) puts its only tile at the origin, thinner than any other.
Line(c, z) == IF z <= MaxZoom THEN 2 * c * 2^(MaxZoom - z)
              ELSE IF c = 0 THEN 0 ELSE 1

\* util::intersects: the north-west corner of node n in the query tile,
\* edges included.
CornerInTile_Open(n, tile) ==
    /\ Line(n.x, n.z) \in Line(tile.x, tile.z) + 1 .. Line(tile.x + 1, tile.z) - 1
    /\ Line(n.y, n.z) \in Line(tile.y, tile.z) + 1 .. Line(tile.y + 1, tile.z) - 1

CornerInTile(n, tile) ==
    /\ Line(n.x, n.z) \in Line(tile.x, tile.z) .. Line(tile.x + 1, tile.z)
    /\ Line(n.y, n.z) \in Line(tile.y, tile.z) .. Line(tile.y + 1, tile.z)

\* util::intersectsTile: tile n and the region share a point, edges included.
IntersectsTile_ShortEast(n, region) ==
    /\ Line(region.x1, region.z) > Line(n.x, n.z)
    /\ Line(region.x0, region.z) <= Line(n.x + 1, n.z)
    /\ Line(region.y1 + 1, region.z) >= Line(n.y, n.z)
    /\ Line(region.y0, region.z) <= Line(n.y + 1, n.z)

IntersectsTile_AnyRow(n, region) ==
    /\ Line(region.x1 + 1, region.z) >= Line(n.x, n.z)
    /\ Line(region.x0, region.z) <= Line(n.x + 1, n.z)

IntersectsTile(n, region) ==
    /\ Line(region.x1 + 1, region.z) >= Line(n.x, n.z)
    /\ Line(region.x0, region.z) <= Line(n.x + 1, n.z)
    /\ Line(region.y1 + 1, region.z) >= Line(n.y, n.z)
    /\ Line(region.y0, region.z) <= Line(n.y + 1, n.z)

EvalTile(q, k) == q.tile[k] # None

EvalRegion(q, k) == q.region[k] # None

KeyOf(n) == n.level % Keys

\* The children of n in the order of _container; a node of a leaf's chain
\* has its next one in the first slot.
InOrder(n) ==
    LET at_slot(s) == {m \in Children(n) : n.last \/ GetIndex(m) = s}
    IN  SetToSeq(at_slot(0)) \o (IF n.last THEN << >> ELSE
          SetToSeq(at_slot(1)) \o SetToSeq(at_slot(2)) \o SetToSeq(at_slot(3)))

\* f on the children of n, in order.
Descend(f, n) == FlattenSeq([i \in DOMAIN InOrder(n) |-> f[InOrder(n)[i]]])

TileFound(n) ==
    << Labelled(n, [x |-> n.x, y |-> n.y, z |-> n.z]) >>

AggregateTile(q) ==
    LET sel[n \in tiles] ==
          IF EvalTile(q, KeyOf(n)) /\ (n.last \/ n.z >= q.zoom + q.resolution)
          THEN TileFound(n)
          ELSE Descend(sel, n)
    IN  sel

QueryTile(q) ==
    LET sel[n \in tiles] ==
          IF ~EvalTile(q, KeyOf(n)) THEN Descend(sel, n)
          ELSE LET tile == q.tile[KeyOf(n)]
               IN  IF \/ [x |-> n.x, y |-> n.y, z |-> n.z] = tile
                      \/ n.last /\ CornerInTile(n, tile)
                   THEN AggregateTile(q)[n]
                   ELSE IF n.z < q.zoom THEN Descend(sel, n) ELSE << >>
    IN  sel

QueryRegion(q) ==
    LET sel[n \in tiles] ==
          IF ~EvalRegion(q, KeyOf(n)) THEN Descend(sel, n)
          ELSE IF ~IntersectsTile(n, q.region[KeyOf(n)]) THEN << >>
          ELSE IF KeyOf(n) = q.lastRegion /\ (n.last \/ n.z = q.zoom)
               THEN TileFound(n)
               ELSE Descend(sel, n)
    IN  sel

Root == CHOOSE n \in tiles : n.level = 0

\* SpatialDimension::query is asked for something.
EvalSpatial(q) == \E k \in SpatialKeys : EvalRegion(q, k) \/ EvalTile(q, k)

-----------------------------------------------------------------------------
(* The categorical and temporal dimensions.                                *)

Evals_SkipsOverlap(q, d) ==
    IF ~IsTemporal(d) THEN q.where[d] # None \/ d \in q.group
    ELSE /\ q.type # "SCATTER"
         /\ q.tseries[d] # None
         /\ q.type = "TSERIES" \/
              ~(/\ q.tseries[d].lower <= interval[d].upper
                /\ q.tseries[d].upper >= interval[d].lower)

Evals(q, d) ==
    IF ~IsTemporal(d) THEN q.where[d] # None \/ d \in q.group
    ELSE /\ q.type # "SCATTER"
         /\ q.tseries[d] # None
         /\ q.type = "TSERIES" \/
              ~(/\ q.tseries[d].lower <= interval[d].lower
                /\ q.tseries[d].upper >= interval[d].upper)

\* The parts of a node whose value is among the values, in order.
Kept(parts, values) ==
    FlattenSeq([i \in DOMAIN parts |->
                  IF parts[i].value \in values THEN << parts[i] >> ELSE << >>])

\* CategoricalNode::queryWhere and queryGroup.
SelectCategorical(q, d, n) ==
    IF q.where[d] # None THEN Kept(n.parts, q.where[d]) ELSE n.parts

\* TemporalNode::query and queryTseries: a node inside the interval is
\* answered whole, of any other the parts in [lower, upper).
SelectTemporal(q, d, n) ==
    LET bounds == q.tseries[d]
        first == n.parts[1].value
        final == n.parts[Len(n.parts)].value
    IN  IF bounds.lower <= first /\ bounds.upper >= final
        THEN IF q.type = "TSERIES" THEN n.parts
             ELSE << Labelled(n, None) >>
        ELSE IF bounds.lower <= final /\ bounds.upper >= first
        THEN Kept(n.parts, bounds.lower .. bounds.upper - 1)
        ELSE << >>

Select(q, d, n) ==
    IF IsTemporal(d) THEN SelectTemporal(q, d, n) ELSE SelectCategorical(q, d, n)

\* Hashing::nextNode: stay, or std::lower_bound from the cursor on.
Seek_PastFront(p, d, i) ==
    IF p.front <= nodes[d][i].front /\ p.back >= nodes[d][i].front THEN i
    ELSE Min({j \in i .. Len(nodes[d]) : nodes[d][j].front > p.front}
               \cup {Len(nodes[d]) + 1})

Seek(p, d, i) ==
    IF p.front <= nodes[d][i].front /\ p.back >= nodes[d][i].front THEN i
    ELSE Min({j \in i .. Len(nodes[d]) : nodes[d][j].front >= p.front}
               \cup {Len(nodes[d]) + 1})

-----------------------------------------------------------------------------
(* The serializers.                                                        *)

\* Where the merge loop counts each pivot of fine: the first pivot of coarse,
\* from the one the pivot before went to on, that ends after its front.
Holder_Inclusive(coarse, fine) ==
    LET h[j \in 0 .. Len(fine)] ==
          IF j = 0 THEN 1
          ELSE Min({i \in h[j - 1] .. Len(coarse) :
                      coarse[i].back >= fine[j].front} \cup {Len(coarse) + 1})
    IN  h

Holder(coarse, fine) ==
    LET h[j \in 0 .. Len(fine)] ==
          IF j = 0 THEN 1
          ELSE Min({i \in h[j - 1] .. Len(coarse) :
                      coarse[i].back > fine[j].front} \cup {Len(coarse) + 1})
    IN  h

\* The pairs <<i, j>> of the merge: fine[j] is counted in coarse[i].
Merged(coarse, fine) ==
    {<<Holder(coarse, fine)[j], j>> : j \in DOMAIN fine}
        \cap ((DOMAIN coarse) \X (DOMAIN fine))

\* Sizes of fine added up by the key of each pair.
Aggregate(key, fine) ==
    { [key |-> k,
       count |-> MapThenSumSet(LAMBDA pair : Size(fine[pair[2]]),
                               {pair \in DOMAIN key : key[pair] = k})] :
      k \in Range(key) }

\* util::linearScale to a bin, and the time written for the bin. With a
\* single bucket in the dataset the scale divides by zero: the index is
\* garbage.
BinOf(d, value) ==
    LET lower == interval[d].lower
        days == interval[d].upper - lower + 1
        bin == ((Bins - 1) * (value - lower)) \div (days - 1)
    IN  IF days = 1 THEN None
        ELSE [bin |-> bin, time |-> bin * (days \div Bins) + lower]

\* What a value is written as.
Shown(value) ==
    IF query.type = "TSERIES" THEN BinOf(target.dim, value) ELSE value

\* The target merged with the range, or the range alone.
CountByTarget ==
    IF target.dim = None THEN {}
    ELSE IF target.equal
    THEN Aggregate([pair \in {<<j, j>> : j \in DOMAIN range} |->
                      Shown(range[pair[1]].value)], range)
    ELSE Aggregate([pair \in Merged(target.pivots, range) |->
                      Shown(target.pivots[pair[1]].value)], range)

\* ScatterSerializer: two grouped dimensions, the second inside the first.
CountPairs ==
    IF Len(tuples) # 2 THEN {}
    ELSE Aggregate([pair \in Merged(tuples[1], tuples[2]) |->
                      <<tuples[1][pair[1]].value, tuples[2][pair[2]].value>>],
                   tuples[2])

\* MySQLSerializer: the first MaxRows records of the range.
Rows ==
    LET positions == FlattenSeq([j \in DOMAIN range |->
                       [k \in 1 .. Size(range[j]) |-> range[j].front + k - 1]])
    IN  {index[positions[k]] : k \in 1 .. Min({MaxRows, Len(positions)})}

Total == MapThenSumSet(LAMBDA j : Size(range[j]), DOMAIN range)

Serialized ==
    CASE query.type = "MYSQL"   -> Rows
      [] query.type = "REGION"  -> {[key |-> "total", count |-> Total]}
      [] query.type = "SCATTER" -> CountPairs
      [] OTHER                  -> CountByTarget

-----------------------------------------------------------------------------
(* HashedCubeInstances::query.                                             *)

NoTarget == [dim |-> None, pivots |-> << >>, equal |-> FALSE]

QueryInit ==
    /\ Init
    /\ query = None /\ answer = None
    /\ dim = 0
    /\ range = << >> /\ found = << >>
    /\ at = 1 /\ it = 1 /\ inRange = FALSE
    /\ target = NoTarget /\ tuples = << >>

\* Queries are read only once the cube is built and announced.
Ask(q) ==
    /\ Built
    /\ query = None
    /\ query' = q
    /\ range' = << Labelled(Pivot(0, N), None) >>
    /\ UNCHANGED <<vars, dim, found, cursorVars, target, tuples, answer>>

\* To the next dimension, its cursor on its first node.
NextDim ==
    /\ dim' = dim + 1
    /\ at' = 1 /\ it' = 1 /\ inRange' = FALSE

\* The spatial dimension answers in one go: it has a single root node.
QuerySpatial ==
    /\ query # None /\ answer = None
    /\ dim = 0
    /\ IF EvalSpatial(query)
       THEN LET sel == IF query.type = "TILE" THEN QueryTile(query)[Root]
                       ELSE QueryRegion(query)[Root]
            IN  /\ range' = sel
                /\ target' = IF query.type = "TILE"
                             THEN [dim |-> 0, pivots |-> sel, equal |-> TRUE]
                             ELSE target
       ELSE UNCHANGED <<range, target>>
    /\ NextDim
    /\ UNCHANGED <<vars, query, found, tuples, answer>>

\* A dimension the query does not ask for leaves the range alone.
SkipDim ==
    /\ query # None /\ answer = None
    /\ dim \in 1 .. Dims
    /\ ~Evals(query, dim)
    /\ NextDim
    /\ UNCHANGED <<vars, query, range, found, target, tuples, answer>>

\* The cursor comes to the first node of the next pivot of the range.
SeekNode ==
    /\ query # None /\ answer = None
    /\ dim \in 1 .. Dims
    /\ Evals(query, dim)
    /\ ~inRange
    /\ at <= Len(range) /\ it <= Len(nodes[dim])
    /\ it' = Seek(range[at], dim, it)
    /\ inRange' = TRUE
    /\ UNCHANGED <<vars, query, dim, range, found, at, target, tuples, answer>>

\* A node that starts before the pivot ends is asked; the last node ends the
\* dimension.
VisitNode ==
    /\ inRange
    /\ range[at].back > nodes[dim][it].front
    /\ found' = found \o Select(query, dim, nodes[dim][it])
    /\ it' = it + 1
    /\ inRange' = (it < Len(nodes[dim]))
    /\ UNCHANGED <<vars, query, dim, range, at, target, tuples, answer>>

LeaveRange_Stays ==
    /\ inRange
    /\ range[at].back <= nodes[dim][it].front
    /\ at' = at
    /\ inRange' = FALSE
    /\ UNCHANGED <<vars, query, dim, range, found, it, target, tuples, answer>>

LeaveRange ==
    /\ inRange
    /\ range[at].back <= nodes[dim][it].front
    /\ at' = at + 1
    /\ inRange' = FALSE
    /\ UNCHANGED <<vars, query, dim, range, found, it, target, tuples, answer>>

\* The dimension is done: what it found is the next range, and the target if
\* the query is about this dimension. A restriction on a dimension that is
\* not grouped by makes the range finer than the target.
FinishDim ==
    /\ query # None /\ answer = None
    /\ dim \in 1 .. Dims
    /\ Evals(query, dim)
    /\ ~inRange
    /\ at > Len(range) \/ it > Len(nodes[dim])
    /\ range' = found
    /\ found' = << >>
    /\ LET grouped == ~IsTemporal(dim) /\ dim \in query.group
           series == IsTemporal(dim) /\ query.type = "TSERIES"
       IN  /\ target' =
                IF (grouped /\ query.type = "GROUP") \/ series
                THEN [dim |-> dim, pivots |-> found, equal |-> TRUE]
                ELSE IF grouped
                THEN [target EXCEPT !.equal = @ \/ query.type = "SCATTER"]
                ELSE [target EXCEPT !.equal = FALSE]
           /\ tuples' = IF grouped /\ query.type = "SCATTER"
                        THEN Append(tuples, found) ELSE tuples
    /\ NextDim
    /\ UNCHANGED <<vars, query, answer>>

Serialize ==
    /\ query # None /\ answer = None
    /\ dim = Dims + 1
    /\ answer' = Serialized
    /\ UNCHANGED <<vars, query, dim, range, found, cursorVars, target, tuples>>

QueryStep ==
    \/ QuerySpatial
    \/ SkipDim
    \/ SeekNode
    \/ VisitNode
    \/ LeaveRange
    \/ FinishDim
    \/ Serialize

QueryNext ==
    \/ Next /\ UNCHANGED queryVars
    \/ \E q \in Queries : Ask(q)
    \/ QueryStep

\* The build and the handling of a query each run to their end; nothing makes
\* a client ask.
QuerySpec ==
    /\ QueryInit /\ [][QueryNext]_allVars
    /\ WF_vars(Next /\ UNCHANGED queryVars) /\ WF_allVars(QueryStep)

-----------------------------------------------------------------------------
(* What an answer must be.                                                 *)

\* While a dimension is queried its cursor is on a node (nextNode and the
\* loops of query read *node_it unchecked), and a node about to be asked
\* lies inside the pivot of the range it is asked for.
CursorOnNode ==
    inRange =>
        /\ it \in DOMAIN nodes[dim]
        /\ nodes[dim][it].front < range[at].back =>
             Span(nodes[dim][it]) \subseteq Span(range[at])

-----------------------------------------------------------------------------
(* The reference answer, by looking at every record.                       *)

\* The records the spatial dimension lets through.
SpatialRecords(q) ==
    IF ~EvalSpatial(q) THEN Records
    ELSE UNION {RecordsOf(p) : p \in Range(
                   IF q.type = "TILE" THEN QueryTile(q)[Root]
                   ELSE QueryRegion(q)[Root])}

\* Record r passes the restrictions of q; on a time equal to the upper bound
\* of an interval the code answers either way, as `closed` says.
Passes(q, r, closed) ==
    /\ \A d \in CategoricalDims :
         q.where[d] # None => ValueOf(data[r], d) \in q.where[d]
    /\ \A d \in TemporalDims : q.tseries[d] # None =>
         LET v == ValueOf(data[r], d)
         IN  /\ q.tseries[d].lower <= v
             /\ v < q.tseries[d].upper \/ (closed /\ v = q.tseries[d].upper)

Reference(q, closed) == {r \in SpatialRecords(q) : Passes(q, r, closed)}

\* What a query counts record r under.
KeyOfRecord(q, r) ==
    CASE q.type = "REGION" -> "total"
      [] q.type = "GROUP" -> ValueOf(data[r], Max(q.group))
      [] q.type = "SCATTER" -> <<ValueOf(data[r], Min(q.group)),
                                 ValueOf(data[r], Max(q.group))>>
      [] q.type = "TSERIES" ->
           LET d == Max({e \in TemporalDims : q.tseries[e] # None})
           IN  BinOf(d, ValueOf(data[r], d))
      [] q.type = "TILE" ->
           (CHOOSE p \in Range(QueryTile(q)[Root]) : r \in RecordsOf(p)).value

CountSum(counts) == MapThenSumSet(LAMBDA c : c.count, counts)

CountOf(counts, key) == CountSum({c \in counts : c.key = key})

\* The shapes the page sends (loadmap.js, leaflet-hashedcubes.js): tiles of a
\* key, groups of fields, time-series of an interval, and scatter plots of two
\* fields in a region, with no interval (they would not heed one) and no values
\* of a field after the second.
ClientShape(q) ==
    /\ q.type \in {"TILE", "GROUP", "TSERIES", "SCATTER", "REGION", "MYSQL"}
    /\ q.group \subseteq CategoricalDims
    /\ q.type = "TILE" => EvalSpatial(q) /\ q.group = {}
    /\ q.type = "GROUP" => q.group # {}
    /\ q.type = "TSERIES" => \E d \in TemporalDims : q.tseries[d] # None
    /\ q.type = "SCATTER" =>
         /\ \E a, b \in CategoricalDims : a < b /\ q.group = {a, b}
         /\ \A d \in CategoricalDims : q.where[d] # None => d <= Max(q.group)
         /\ \A d \in TemporalDims : q.tseries[d] = None

\* Every count written is the number of records that pass the query, per
\* key: of those on the upper bound of an interval any number may be missing,
\* never one inside it, and no other record is counted.
AnswerIsCount ==
    (answer # None /\ query.type # "MYSQL") =>
        \A key \in {KeyOfRecord(query, r) : r \in SpatialRecords(query)}
                     \cup {c.key : c \in answer} :
            LET least == {r \in Reference(query, FALSE) :
                            KeyOfRecord(query, r) = key}
                most  == {r \in Reference(query, TRUE) :
                            KeyOfRecord(query, r) = key}
            IN  CountOf(answer, key) \in Cardinality(least) .. Cardinality(most)

\* The rows fetched from the database are records that pass the query, and
\* all of them when they are no more than MaxRows.
RowsMatchQuery ==
    (answer # None /\ query.type = "MYSQL") =>
        /\ answer \subseteq Reference(query, TRUE)
        /\ Cardinality(answer) = Min({MaxRows, Total})
        /\ Total <= MaxRows => Reference(query, FALSE) \subseteq answer

\* The tile of record r for key k at zoom z lies in the region.
InRegion(r, k, region) ==
    LET t == TileOf(data[r], k, region.z)
    IN  t.x \in region.x0 .. region.x1 /\ t.y \in region.y0 .. region.y1

\* A region query was just answered by the spatial dimension.
RegionsAnswered ==
    Built /\ query # None /\ query.type # "TILE" /\ EvalSpatial(query) /\ dim = 1

\* Corners at a zoom of the grid, the north-west one first.
IsRegion(g) ==
    /\ g.x1 \in Nat /\ g.x0 \in 0 .. g.x1
    /\ g.y1 \in Nat /\ g.y0 \in 0 .. g.y1
    /\ g.z \in 0 .. MaxZoom

\* The regions Query::Query leaves in a request that has any: the last one
\* parsed is that of _last_valid_region, and its zoom that of the query.
RegionShape(q) ==
    /\ q.lastRegion \in SpatialKeys /\ EvalRegion(q, q.lastRegion)
    /\ q.zoom = q.region[q.lastRegion].z
    /\ \A k \in SpatialKeys : EvalRegion(q, k) => IsRegion(q.region[k])

\* A region query misses no record inside its regions, whichever leaf is met
\* before the zoom of the region, as long as no leaf is so high that the zooms
\* below it wrap.
RegionsAreComplete ==
    RegionsAnswered =>
        {r \in Records : \A k \in SpatialKeys :
            EvalRegion(query, k) => InRegion(r, k, query.region[k])}
          \subseteq UNION {RecordsOf(p) : p \in Range(range)}

Lines(from, to, z) == from * 2^(MaxZoom - z) .. to * 2^(MaxZoom - z)

\* A tile and a region share a point.
Touches(tile, z, region) ==
    /\ Lines(tile.x, tile.x + 1, z)
         \cap Lines(region.x0, region.x1 + 1, region.z) # {}
    /\ Lines(tile.y, tile.y + 1, z)
         \cap Lines(region.y0, region.y1 + 1, region.z) # {}

\* Nor does a region query let in a record of a tile that touches no region, but for
\* those of leaves coarser than the zoom asked for. With several keys this
\* takes the region of the last key to come last in the request.
RegionsAreTight ==
    (RegionsAnswered
       /\ query.lastRegion = Max({k \in SpatialKeys : EvalRegion(query, k)})) =>
        \A p \in Range(range) : p.value.z = query.zoom =>
            \A r \in RecordsOf(p), k \in SpatialKeys :
                EvalRegion(query, k) =>
                  Touches(TileOf(data[r], k, query.zoom), query.zoom,
                          query.region[k])

\* The request for tile (x, y) of key k at zoom z.
AskTile(k, z, s, x, y) ==
    [tile |-> [j \in SpatialKeys |->
                 IF j = k THEN [x |-> x, y |-> y, z |-> z] ELSE None],
     zoom |-> z, resolution |-> s]

\* The pivots that queryTile lists over the tiles of a zoom.
TilesFound(k, z, s) ==
    UNION {Range(QueryTile(AskTile(k, z, s, x, y))[Root]) :
             x \in 0 .. 2^z - 1, y \in 0 .. 2^z - 1}

\* Over all tiles of a zoom every record is drawn in some tile, also those of
\* leaves coarser than the tiles, which show in the tile of their corner.
EveryRecordIsDrawn ==
    (Built /\ query = None) =>
        \A z \in 0 .. MaxZoom, resolution \in 0 .. 1, k \in SpatialKeys :
            UNION {RecordsOf(p) : p \in TilesFound(k, z, resolution)} = Records

\* A query asked of the cube is answered.
Answered == query # None ~> answer # None
=============================================================================
