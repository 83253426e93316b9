-------------------------------- MODULE Cube --------------------------------
(***************************************************************************)
(* The vocabulary shared by the modules of this project: the records of a  *)
(* dataset, the pivots [front, back) that stand for runs of records, the   *)
(* projections a dimension partitions records by, and the sort that makes  *)
(* each part of a partition a run.                                         *)
(*                                                                         *)
(* A record holds one map position per spatial key, as the tile of the     *)
(* finest zoom, and one raw integer per further dimension: the categorical *)
(* dimensions first, then the temporal ones, in the order of the schema.   *)
(*                                                                         *)
(* A definition named X_Y is the definition X with the slip Y in it: no    *)
(* specification uses it, PROJECT.json says which property it breaks.      *)
(***************************************************************************)
EXTENDS Integers, Sequences, FiniteSets, Functions, FiniteSetsExt

CONSTANTS
    N,          \* number of records of the dataset
    Datasets,   \* the datasets a cube may be built from
    Keys,       \* number of spatial keys of the schema
    MaxZoom,    \* zoom levels per spatial key (20 in the code)
    Leaf,       \* leaf threshold of the schema
    Categories, \* number of values of each categorical dimension, in order
    Buckets,    \* bucket size of each temporal dimension, in order
    HashMod,    \* values a hash can hold (2^16: unsigned short)
    LabelMod,   \* values a categorical label can hold (2^8: unsigned char)
    None        \* "nothing here"

Records == 0 .. N - 1

Dims == Len(Categories) + Len(Buckets)

IsTemporal(d) == d > Len(Categories)

Point == [x : 0 .. 2^MaxZoom - 1, y : 0 .. 2^MaxZoom - 1]

Record == [at : [0 .. Keys - 1 -> Point], val : [1 .. Dims -> Nat]]

ASSUME CubeAssumption ==
    /\ N \in Nat
    /\ Keys \in Nat \ {0}
    /\ MaxZoom \in Nat /\ MaxZoom <= 31      \* tile_t::z has five bits
    /\ Leaf \in Nat
    /\ Categories \in Seq(Nat)
    /\ Buckets \in Seq(Nat \ {0})
    /\ HashMod \in Nat /\ HashMod >= 4
    /\ LabelMod \in Nat \ {0}
    /\ Datasets \subseteq [Records -> Record]

-----------------------------------------------------------------------------
(* Pivots and responses.                                                   *)

Pivot(front, back) == [front |-> front, back |-> back]

Size(p) == p.back - p.front

\* The positions of Data::_index a pivot stands for.
Span(p) == p.front .. p.back - 1

\* s is an ascending run of non-empty pivots without gap or overlap over
\* [from, to).
Chain(s, from, to) ==
    /\ \A i \in DOMAIN s :
         /\ s[i].front < s[i].back
         /\ s[i].front = IF i = 1 THEN from ELSE s[i - 1].back
    /\ to = IF s = << >> THEN from ELSE s[Len(s)].back

-----------------------------------------------------------------------------
(* What a dimension partitions by.                                         *)

\* util::lon2tilex and util::lat2tiley at zoom z: halving per zoom, wrapped
\* at the width of the zoom.
TileOf(record, key, z) ==
    [x |-> record.at[key].x \div 2^(MaxZoom - z),
     y |-> record.at[key].y \div 2^(MaxZoom - z)]

\* TileNode::getIndex: the quadrant of a tile in its parent.
GetIndex_Sum(tile) == (tile.x % 2) + (tile.y % 2)

GetIndex(tile) == 2 * (tile.x % 2) + (tile.y % 2)

\* The order of std::map<std::pair<x, y>, ...>.
TileBefore_RowFirst(t, u) == t.y < u.y \/ (t.y = u.y /\ t.x <= u.x)

TileBefore(t, u) == t.x < u.x \/ (t.x = u.x /\ t.y <= u.y)

\* The value of a categorical or temporal dimension d: a temporal value is
\* rounded down to its bucket.
ValueOf(record, d) ==
    IF IsTemporal(d)
    THEN LET size == Buckets[d - Len(Categories)]
         IN  (record.val[d] \div size) * size
    ELSE record.val[d]

\* The value a part is labelled with: categorical_t is one byte wide.
LabelOf(value, d) == IF IsTemporal(d) THEN value ELSE value % LabelMod

\* The used map of a pass: an entry per value that occurs among f[i],
\* i \in DOMAIN f, with how often it does.
Count_SkipsLast(f) ==
    LET seen == DOMAIN f \ {Max(DOMAIN f)}
    IN  { [key |-> v, count |-> Cardinality({i \in seen : f[i] = v})] :
          v \in {f[i] : i \in seen} }

Count(f) ==
    { [key |-> v, count |-> Cardinality({i \in DOMAIN f : f[i] = v})] :
      v \in {f[i] : i \in DOMAIN f} }

-----------------------------------------------------------------------------
(* Data::setHash and Data::sortHash: the hash of a record is stored in an   *)
(* unsigned short, and std::sort orders the positions of p by it. std::sort  *)
(* is not stable: equal hashes end in any order.                            *)

SetHash_OneBit(value) == value % 2

SetHash(value) == value % HashMod

\* The ways to move the records of p among its positions.
Rearranged(index, p) ==
    { [i \in Records |-> IF i \in Span(p) THEN index[f[i]] ELSE index[i]] :
      f \in Bijection(Span(p), Span(p)) }

SortHash_Omitted(index, p, hash) == {index}

SortHash_WholeIndex(index, p, hash) ==
    { ix \in Rearranged(index, Pivot(0, N)) :
        \A i, j \in Records : i < j => hash[ix[i]] <= hash[ix[j]] }

SortHash(index, p, hash) ==
    { ix \in Rearranged(index, p) :
        \A i, j \in Span(p) : i < j => hash[ix[i]] <= hash[ix[j]] }
=============================================================================
