----------------------------- MODULE CubeBuild ------------------------------
(***************************************************************************)
(* DataLoader::build: one pass per dimension over the dataset. Each pass   *)
(* takes the pivots the previous pass answered (current), splits every one *)
(* of them by the values of its dimension, sorts the records inside it,    *)
(* and answers the parts (response). The spatial pass splits recursively,  *)
(* a quadtree in depth-first order; the categorical and temporal passes    *)
(* split once per pivot.                                                   *)
(***************************************************************************)
EXTENDS Cube

VARIABLES
    data,      \* the dataset: record -> its position and values
    index,     \* Data::_index: position -> record
    stage,     \* pass under way: 0 spatial, d = 1 .. Dims, Dims + 1 when built
    current,   \* pivots the pass under way splits
    response,  \* pivots it has answered so far
    call,      \* the TileNode hashMultiple is being called on, or None
    stack,     \* its active calls, each inside its loop over the children
    tiles,     \* every TileNode created
    pos,       \* next pivot of current, for the passes of one level
    node,      \* the Categorical/TemporalNode being hashed, or None
    nodes,     \* _nodes of each such dimension
    interval   \* TemporalDimension::_interval of each temporal dimension

vars == <<data, index, stage, current, response, call, stack, tiles,
          pos, node, nodes, interval>>

spatialVars == <<call, stack, tiles>>
nodeVars == <<pos, node, nodes, interval>>

TemporalDims == {d \in 1 .. Dims : IsTemporal(d)}

-----------------------------------------------------------------------------
(* The values of the state.                                                *)

Pivots == [front : 0 .. N, back : 0 .. N]

Parts == [front : 0 .. N, back : 0 .. N, value : Nat]

TileNodes == [level : Nat, front : 0 .. N, back : 0 .. N, x : Nat, y : Nat,
              z : Nat, last : BOOLEAN]

KeyZooms == [0 .. Keys - 1 -> [x : Nat, y : Nat, z : Nat]]

Calls == [level : Nat, front : 0 .. N, back : 0 .. N, x : Nat, y : Nat,
          z : Nat, zoom : KeyZooms]

Tile == [x : Nat, y : Nat]

\* The used map of a loop over values of S.
UsedMaps(S) == SUBSET [key : S, count : Nat \ {0}]

\* An active call of TileNode::hashMultiple inside its loop: accum is where
\* the next child starts, used what is left of the map.
Frames == [level : Nat, back : 0 .. N, accum : 0 .. N, zoom : KeyZooms,
           used : UsedMaps(Tile)]

\* A node inside its loop over the values.
Nodes == [front : 0 .. N, back : 0 .. N, accum : 0 .. N,
          used : UsedMaps(Nat), parts : Seq(Parts)]

ASSUME NoneAssumption ==
    None \notin Calls /\ None \notin Nodes /\ None \notin Nat

-----------------------------------------------------------------------------
\* Replace the innermost call.
SetTop(frame) == [stack EXCEPT ![Len(stack)] = frame]

Top == stack[Len(stack)]

\* What a TileNode keeps of a call of hashMultiple.
TileNode(c, last) ==
    [level |-> c.level, front |-> c.front, back |-> c.back,
     x |-> c.x, y |-> c.y, z |-> c.z, last |-> last]

\* SpatialDimension::hash on the root pivot, which is skipped when empty.
\* zoom[k] is the last tile made for key k and the zoom of its next one.
RootCall_PastEnd ==
    [level |-> 0, front |-> 0, back |-> N + 1, x |-> 0, y |-> 0, z |-> 0,
     zoom |-> [k \in 0 .. Keys - 1 |->
                 [x |-> 0, y |-> 0, z |-> IF k = 0 THEN 1 ELSE 0]]]

RootCall ==
    [level |-> 0, front |-> 0, back |-> N, x |-> 0, y |-> 0, z |-> 0,
     zoom |-> [k \in 0 .. Keys - 1 |->
                 [x |-> 0, y |-> 0, z |-> IF k = 0 THEN 1 ELSE 0]]]

Init ==
    /\ data \in Datasets
    /\ index = [i \in Records |-> i]
    /\ stage = 0
    /\ current = <<Pivot(0, N)>>
    /\ response = << >>
    /\ call = IF N = 0 THEN None ELSE RootCall
    /\ stack = << >>
    /\ tiles = {}
    /\ pos = 1
    /\ node = None
    /\ nodes = [d \in 1 .. Dims |-> << >>]
    /\ interval = [d \in TemporalDims |-> [lower |-> None, upper |-> 0]]

-----------------------------------------------------------------------------
(* The spatial pass.                                                       *)

NextKey(level) == (level + 1) % Keys

\* The tiles of the records of a call, one level below it.
ChildTile(c) ==
    LET d == NextKey(c.level)
    IN  [i \in Span(c) |-> TileOf(data[index[i]], d, c.zoom[d].z)]

\* A node above the leaf threshold hashes its records by quadrant, sorts
\* them and starts the loop over its children.
SplitTile ==
    /\ call # None
    /\ call.level < MaxZoom * Keys
    /\ Size(call) > Leaf
    /\ LET d == NextKey(call.level)
           hash == [r \in Records |->
                      SetHash(GetIndex(TileOf(data[r], d, call.zoom[d].z)))]
       IN  index' \in SortHash(index, call, hash)
    /\ tiles' = tiles \cup {TileNode(call, FALSE)}
    /\ stack' = Append(stack, [level |-> call.level, back |-> call.back,
                               zoom |-> call.zoom, accum |-> call.front,
                               used |-> Count(ChildTile(call))])
    /\ call' = None
    /\ UNCHANGED <<data, stage, current, response, nodeVars>>

\* One turn of the loop over the children: the next tile in the order of the
\* map takes the next run of positions, and hashMultiple is called on it.
NextChild ==
    /\ call = None
    /\ stack # << >>
    /\ Top.used # {}
    /\ LET d == NextKey(Top.level)
           entry == CHOOSE e \in Top.used :
                      \A f \in Top.used : TileBefore(e.key, f.key)
           t == entry.key
           back == Top.accum + entry.count
           z == Top.zoom[d].z
       IN  /\ call' = [level |-> Top.level + 1, front |-> Top.accum,
                       back |-> back, x |-> t.x, y |-> t.y, z |-> z,
                       zoom |-> [Top.zoom EXCEPT
                                   ![d] = [x |-> t.x, y |-> t.y, z |-> z + 1]]]
           /\ stack' = SetTop([Top EXCEPT !.accum = back,
                                          !.used = @ \ {entry}])
    /\ UNCHANGED <<data, index, stage, current, response, tiles, nodeVars>>

\* The nodes a leaf hangs below itself, one per other key, so that a query
\* on any key finds a last node: each repeats the tile its key had. A key
\* without one yet has z - 1 wrapped to the five bits of tile_t::z.
ChainTiles(c) ==
    { LET z == c.zoom[(c.level + j) % Keys]
      IN  TileNode([c EXCEPT !.level = @ + j, !.x = z.x, !.y = z.y,
                             !.z = (z.z - 1) % 32], TRUE) :
      j \in 1 .. Keys - 1 }

\* A node at the leaf threshold or at the last level answers its pivot.
LeafTile ==
    /\ call # None
    /\ call.level >= MaxZoom * Keys \/ Size(call) <= Leaf
    /\ tiles' = tiles \cup {TileNode(call, TRUE)} \cup ChainTiles(call)
    /\ response' = Append(response, Pivot(call.front, call.back))
    /\ call' = None
    /\ UNCHANGED <<data, index, stage, current, stack, nodeVars>>

\* The loop over the children ends.
ReturnTile ==
    /\ call = None
    /\ stack # << >>
    /\ Top.used = {}
    /\ stack' = SubSeq(stack, 1, Len(stack) - 1)
    /\ UNCHANGED <<data, index, stage, current, response, call, tiles, nodeVars>>

-----------------------------------------------------------------------------
(* The categorical and temporal passes.                                    *)

\* The values of the records of pivot p, position by position.
Values(p) == [i \in Span(p) |-> ValueOf(data[index[i]], stage)]

\* TemporalNode::hash: the interval of a dimension grows to cover S.
Cover(bounds, S) ==
    [lower |-> Min(S \cup ({bounds.lower} \ {None})),
     upper |-> Max(S \cup {bounds.upper})]

\* A node for the next pivot counts its records by value. No pivot of
\* current is empty (PivotsNotEmpty), so the code's skip is never taken.
OpenNode ==
    /\ stage \in 1 .. Dims
    /\ node = None
    /\ pos <= Len(current)
    /\ LET p == current[pos]
           used == Count(Values(p))
       IN  /\ node' = [front |-> p.front, back |-> p.back, accum |-> p.front,
                       used |-> used, parts |-> << >>]
           /\ interval' = IF IsTemporal(stage)
                          THEN [interval EXCEPT
                                  ![stage] = Cover(@, {e.key : e \in used})]
                          ELSE interval
    /\ UNCHANGED <<data, index, stage, current, response, spatialVars,
                   pos, nodes>>

\* One turn of the loop over the values: the next one, in ascending order,
\* takes the next run of positions.
EmplacePart ==
    /\ node # None
    /\ node.used # {}
    /\ LET entry == CHOOSE e \in node.used :
                      \A f \in node.used : e.key <= f.key
           back == node.accum + entry.count
           part == [front |-> node.accum, back |-> back,
                    value |-> LabelOf(entry.key, stage)]
       IN  node' = [node EXCEPT !.accum = back, !.used = @ \ {entry},
                                !.parts = Append(@, part)]
    /\ UNCHANGED <<data, index, stage, current, response, spatialVars,
                   pos, nodes, interval>>

\* The parts are answered in order and the records sorted by the hash of
\* their value, truncated to the width Data::setHash stores.
SortNode ==
    /\ node # None
    /\ node.used = {}
    /\ LET hash == [r \in Records |-> SetHash(ValueOf(data[r], stage))]
       IN  index' \in SortHash(index, node, hash)
    /\ response' = response \o [i \in DOMAIN node.parts |->
                                  Pivot(node.parts[i].front, node.parts[i].back)]
    /\ nodes' = [nodes EXCEPT ![stage] =
                   Append(@, [front |-> node.front, back |-> node.back,
                              parts |-> node.parts])]
    /\ node' = None
    /\ pos' = pos + 1
    /\ UNCHANGED <<data, stage, current, spatialVars, interval>>

\* DataLoader::build between two passes.
EndPass_KeepsResponse ==
    /\ call = None /\ stack = << >> /\ node = None
    /\ stage \in 0 .. Dims
    /\ stage = 0 \/ pos > Len(current)
    /\ current' = response
    /\ response' = response
    /\ stage' = stage + 1
    /\ pos' = 1
    /\ UNCHANGED <<data, index, spatialVars, node, nodes, interval>>

EndPass_OffByOne ==
    /\ call = None /\ stack = << >> /\ node = None
    /\ stage \in 0 .. Dims
    /\ stage = 0 \/ pos = Len(current)
    /\ current' = response
    /\ response' = << >>
    /\ stage' = stage + 1
    /\ pos' = 1
    /\ UNCHANGED <<data, index, spatialVars, node, nodes, interval>>

EndPass ==
    /\ call = None /\ stack = << >> /\ node = None
    /\ stage \in 0 .. Dims
    /\ stage = 0 \/ pos > Len(current)
    /\ current' = response
    /\ response' = << >>
    /\ stage' = stage + 1
    /\ pos' = 1
    /\ UNCHANGED <<data, index, spatialVars, node, nodes, interval>>

Next ==
    \/ SplitTile
    \/ NextChild
    \/ LeafTile
    \/ ReturnTile
    \/ OpenNode
    \/ EmplacePart
    \/ SortNode
    \/ EndPass

\* The build is one thread that runs until the cube is made.
Fairness == WF_vars(Next)

Spec == Init /\ [][Next]_vars /\ Fairness

Built == stage = Dims + 1

-----------------------------------------------------------------------------
(* What the build must keep.                                               *)

\* The state of the build at any point of it: the locals of
\* TileNode::hashMultiple and CategoricalNode/TemporalNode::hash, and what
\* the cube holds so far.
TypeOK ==
    /\ data \in Datasets
    /\ index \in [Records -> Records]
    /\ stage \in 0 .. Dims + 1
    /\ current \in Seq(Pivots)
    /\ response \in Seq(Pivots)
    /\ call = None \/ call \in Calls
    /\ stack \in Seq(Frames)
    /\ tiles \subseteq TileNodes
    /\ pos \in Nat \ {0}
    /\ node = None \/ node \in Nodes
    /\ nodes \in [1 .. Dims -> Seq([front : 0 .. N, back : 0 .. N,
                                    parts : Seq(Parts)])]
    /\ interval \in [TemporalDims ->
                       [lower : Nat \cup {None}, upper : Nat]]

\* The first position the pass has not answered yet.
Cursor ==
    IF call # None THEN call.front
    ELSE IF stack # << >> THEN Top.accum
    ELSE IF stage \in 1 .. Dims /\ pos <= Len(current) THEN current[pos].front
    ELSE IF stage = Dims + 1 THEN 0
    ELSE N

\* Every pass answers non-empty pivots in ascending order without a gap or
\* an overlap, up to the place it has come to, whatever the recursion of
\* TileNode::hashMultiple or the loop over current is doing; what a finished
\* pass answered covers the whole dataset. Hashing::nextNode searches
\* _nodes by front() and needs exactly this order.
ResponseCovers ==
    /\ Chain(response, 0, Cursor)
    /\ stage > 0 => Chain(current, 0, N)

RecordsOf(p) == {index[i] : i \in Span(p)}

\* A tile node stands for records of its tile only, from its creation to the
\* end of the build: neither the sorts of its descendants nor those of later
\* dimensions bring in a record of another tile. (z = 31 is the wrapped zoom
\* of ChainTiles, which claims no tile.)
TilesHoldTheirRecords ==
    \A n \in tiles : n.z # 31 =>
        \A r \in RecordsOf(n) :
            TileOf(data[r], n.level % Keys, n.z) = [x |-> n.x, y |-> n.y]

\* A part of a categorical or temporal node stands for records of its value
\* only, from the sort of its node on.
PartsHoldTheirRecords ==
    \A d \in 1 .. Dims : \A n \in Range(nodes[d]) : \A p \in Range(n.parts) :
        \A r \in RecordsOf(p) : LabelOf(ValueOf(data[r], d), d) = p.value

\* The nodes of a finished pass are the pivots of the pass before, in order:
\* a query that kept a part of one dimension finds a node of the next one
\* that starts exactly there.
NodesAligned ==
    \A d \in 1 .. stage - 1 :
        LET spans == {Pivot(n.front, n.back) : n \in Range(nodes[d])}
        IN  /\ Chain(nodes[d], 0, N)
            /\ \A n \in Range(nodes[d]) : Chain(n.parts, n.front, n.back)
            /\ spans = IF d = 1
                       THEN {Pivot(n.front, n.back) :
                               n \in {m \in tiles : m.last}}
                       ELSE UNION {{Pivot(p.front, p.back) :
                               p \in Range(n.parts)} : n \in Range(nodes[d - 1])}

Children(n) ==
    {m \in tiles : m.level = n.level + 1 /\ Span(m) \subseteq Span(n)}

\* After the spatial pass the children of a node cover it and no two of them
\* took the same slot of TileNode::_container: getIndex tells siblings apart
\* though it looks at the lowest bit of x and y only.
QuadtreeCovers ==
    stage > 0 =>
        \A n \in tiles : ~n.last =>
            /\ UNION {Span(m) : m \in Children(n)} = Span(n)
            /\ \A m, o \in Children(n) :
                 m # o => /\ GetIndex(m) # GetIndex(o)
                          /\ Span(m) \cap Span(o) = {}

\* No step of the build moves a record into or out of a tile or a part that
\* exists already.
RecordsStayInside ==
    [][ /\ \A n \in tiles : RecordsOf(n)' = RecordsOf(n)
        /\ \A d \in 1 .. Dims : \A n \in Range(nodes[d]) :
             \A p \in Range(n.parts) : RecordsOf(p)' = RecordsOf(p) ]_vars

\* The build ends.
Terminates == <>Built

\* The build is progressive partitioning: the blocks are the record sets of
\* the pivots answered and of those still to split.
Pending ==
    CASE stage = 0 ->
           {Pivot(f.accum, f.back) : f \in Range(stack)}
             \cup (IF call = None THEN {} ELSE {call})
      [] stage \in 1 .. Dims ->
           {current[i] : i \in pos .. Len(current)}
      [] OTHER -> Range(current)

Blocks == {RecordsOf(p) : p \in Range(response) \cup Pending} \ {{}}

\* What a pass separates: the tiles of the deepest level, or a value.
Attr ==
    [p \in 0 .. Dims |->
       [r \in Records |->
          IF p = 0
          THEN [k \in 0 .. Keys - 1 |->
                  TileOf(data[r], k, IF k = 0 THEN MaxZoom ELSE MaxZoom - 1)]
          ELSE ValueOf(data[r], p)]]

P == INSTANCE Partition WITH
        Passes <- Dims, attr <- Attr, blocks <- Blocks, pass <- stage

RefinesPartition == P!Spec
=============================================================================
