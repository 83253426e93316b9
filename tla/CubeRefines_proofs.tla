------------------------- MODULE CubeRefines_proofs -------------------------
(***************************************************************************)
(* The build is progressive partitioning: every step of CubeBuild is, on   *)
(* the record sets of its pivots, a step of Partition or none at all. And  *)
(* the quadtree it leaves: the children of a tile cover it.                *)
(***************************************************************************)
EXTENDS CubeBuild_proofs

-----------------------------------------------------------------------------
(* Pieces lie apart, and so do their records.                              *)

Apart(p, q) == p.back <= q.front \/ q.back <= p.front

\* What an active call has left lies behind what the calls inside it have.
LEMMA StackDescends ==
    ASSUME IInv, NEW i \in DOMAIN stack, NEW j \in DOMAIN stack, i < j
    PROVE  stack[j].back <= stack[i].accum
<1> DEFINE S == {k \in DOMAIN stack : i < k /\ ~(stack[k].back <= stack[i].accum)}
<1>1. /\ stack \in Seq(Frames)
      /\ \A k \in DOMAIN stack : /\ stack[k].accum \in Int /\ stack[k].back \in Int
                                 /\ stack[k].accum <= stack[k].back
                                 /\ k # 1 => stack[k].back = stack[k - 1].accum
  <2>1. stack \in Seq(Frames)
    BY DEF IInv, TypeOK
  <2>2. \A k \in DOMAIN stack : stack[k] \in Frames
    BY <2>1
  <2>3. \A f \in Frames : f.accum \in Int /\ f.back \in Int
    BY Sizes, SMT DEF Frames
  <2> QED BY <2>1, <2>2, <2>3 DEF IInv, StackNests, FrameFits
<1>2. i \in Nat /\ i >= 1 /\ j \in Nat /\ \A k \in DOMAIN stack : k \in 1 .. Len(stack)
  BY <1>1
<1>3. S = {}
  <2> SUFFICES ASSUME S # {} PROVE FALSE
    OBVIOUS
  <2>1. S \in SUBSET Nat
    BY <1>2
  <2>2. PICK k \in S : \A n \in S : k <= n
    BY <2>1, NatMin
  <2>3. k \in DOMAIN stack /\ i < k /\ ~(stack[k].back <= stack[i].accum) /\ k # 1
    BY <1>2, <2>2
  <2>4. k - 1 \in DOMAIN stack /\ k - 1 \notin S
    <3>1. ~(k <= k - 1)
      BY <1>2, <2>3
    <3>2. k - 1 \in DOMAIN stack
      BY <1>1, <1>2, <2>3
    <3> HIDE DEF S
    <3> QED BY <2>2, <3>1, <3>2
  <2>5. stack[k].back = stack[k - 1].accum
    BY <1>1, <2>3
  <2>6. k - 1 = i \/ stack[k - 1].back <= stack[i].accum
    BY <1>2, <2>3, <2>4
  <2> QED BY <1>1, <2>3, <2>4, <2>5, <2>6
<1> QED BY <1>3

\* The pivots answered ascend, those to split ascend behind them.
LEMMA PiecesApart ==
    ASSUME IInv, NEW p \in Pieces, NEW q \in Pieces
    PROVE  p = q \/ Apart(p, q)
<1>1. /\ response \in Seq(Pivots) /\ Chain(response, 0, Cursor) /\ Cursor \in Int
      /\ \A x \in Range(response) : x.back <= Cursor
      /\ \A x \in Pivots : x.front \in Int /\ x.back \in Int
  <2>1. \A x \in Pivots : x.front \in Int /\ x.back \in Int
    BY Sizes DEF Pivots
  <2>2. Cursor \in Int
    BY CursorType, Sizes
  <2> QED BY <2>1, <2>2, AnsweredBefore DEF IInv, TypeOK, ResponseCovers
<1>2. \A x, y \in Range(response) : x = y \/ Apart(x, y)
  <2> SUFFICES ASSUME NEW x \in Range(response), NEW y \in Range(response)
               PROVE  x = y \/ Apart(x, y)
    OBVIOUS
  <2>1. PICK i \in DOMAIN response : x = response[i]
    BY <1>1, ElementsOfSeq, Zenon
  <2>2. PICK j \in DOMAIN response : y = response[j]
    BY <1>1, ElementsOfSeq, Zenon
  <2>3. \A k, l \in DOMAIN response : k < l => response[k].back <= response[l].front
    <3>1. 0 \in Int
      OBVIOUS
    <3> QED BY <1>1, <3>1, ChainAscends, Zenon
  <2>4. i < j \/ j < i \/ i = j
    BY <1>1
  <2> QED BY <2>1, <2>2, <2>3, <2>4 DEF Apart
<1>3. ASSUME stage = 0
      PROVE  \A x, y \in Pieces \ Range(response) : x = y \/ Apart(x, y)
  <2> DEFINE F == {Pivot(f.accum, f.back) : f \in Range(stack)}
  <2>1. Pieces \ Range(response)
          \subseteq (IF call = None THEN {} ELSE {Pivot(call.front, call.back)}) \cup F
    BY <1>3, SpatialPieces
  <2>2. stack \in Seq(Frames)
    BY DEF IInv, TypeOK
  <2>3. \A x \in F : \E i \in DOMAIN stack : x = Pivot(stack[i].accum, stack[i].back)
    BY <2>2, ElementsOfSeq
  <2>4. \A x, y \in F : x = y \/ Apart(x, y)
    <3> SUFFICES ASSUME NEW x \in F, NEW y \in F PROVE x = y \/ Apart(x, y)
      OBVIOUS
    <3>1. PICK i \in DOMAIN stack : x = Pivot(stack[i].accum, stack[i].back)
      BY <2>3
    <3>2. PICK j \in DOMAIN stack : y = Pivot(stack[j].accum, stack[j].back)
      BY <2>3
    <3>3. i < j \/ j < i \/ i = j
      BY <2>2
    <3> QED BY <3>1, <3>2, <3>3, StackDescends DEF Apart, Pivot
  <2>5. call # None => \A x \in F : call.back <= x.front
    <3> SUFFICES ASSUME call # None, NEW x \in F PROVE call.back <= x.front
      OBVIOUS
    <3>1. PICK i \in DOMAIN stack : x = Pivot(stack[i].accum, stack[i].back)
      BY <2>3
    <3>2. stack # << >>
      BY <2>2, <3>1
    <3>3. Top.accum <= stack[i].accum
      BY <3>2, StackBehind
    <3> QED BY <3>1, <3>2, <3>3 DEF IInv, CallFits, Pivot
  <2> HIDE DEF F
  <2> QED BY <2>1, <2>4, <2>5 DEF Apart, Pivot
<1>4. ASSUME stage # 0, NEW x \in Pieces \ Range(response)
      PROVE  /\ stage \in 1 .. Dims
             /\ \E i \in DOMAIN current : pos <= i /\ x = current[i]
  <2>1. /\ call = None /\ stack = << >> /\ current \in Seq(Pivots) /\ pos \in Nat \ {0}
    BY <1>4, Sizes DEF IInv, TypeOK, Phases
  <2>2. Range(stack) = {}
    BY <2>1 DEF Range
  <2>3. /\ stage \in 1 .. Dims
        /\ x \in {current[i] : i \in pos .. Len(current)}
    BY <1>4, <2>1, <2>2 DEF Pieces
  <2>4. \A i \in pos .. Len(current) : i \in DOMAIN current /\ pos <= i
    BY <2>1
  <2> QED BY <2>3, <2>4
<1>5. ASSUME stage # 0
      PROVE  \A x, y \in Pieces \ Range(response) : x = y \/ Apart(x, y)
  <2> SUFFICES ASSUME NEW x \in Pieces \ Range(response),
                      NEW y \in Pieces \ Range(response)
               PROVE  x = y \/ Apart(x, y)
    OBVIOUS
  <2>1. PICK i \in DOMAIN current : x = current[i]
    BY <1>4, <1>5
  <2>2. PICK j \in DOMAIN current : y = current[j]
    BY <1>4, <1>5
  <2>3. current \in Seq(Pivots) /\ Chain(current, 0, N)
    BY <1>5, Sizes DEF IInv, TypeOK, ResponseCovers
  <2>4. \A k, l \in DOMAIN current : k < l => current[k].back <= current[l].front
    <3>1. 0 \in Int /\ N \in Int
      BY Sizes
    <3> QED BY <1>1, <2>3, <3>1, ChainAscends, Zenon
  <2>5. i < j \/ j < i \/ i = j
    BY <2>3
  <2> QED BY <2>1, <2>2, <2>4, <2>5 DEF Apart
<1>6. \A x \in Pieces \ Range(response) : Cursor <= x.front
  <2> SUFFICES ASSUME NEW x \in Pieces \ Range(response) PROVE Cursor <= x.front
    OBVIOUS
  <2>1. CASE stage = 0
    <3>1. \/ call # None /\ x = Pivot(call.front, call.back)
          \/ \E f \in Range(stack) : x = Pivot(f.accum, f.back)
      BY <2>1, SpatialPieces
    <3>2. CASE call # None /\ x = Pivot(call.front, call.back)
      <4>1. call.front \in Int
        BY <3>2, Sizes, SMT DEF IInv, TypeOK, Calls
      <4> QED BY <3>2, <4>1 DEF Cursor, Pivot
    <3>3. CASE \E f \in Range(stack) : x = Pivot(f.accum, f.back)
      <4>1. stack \in Seq(Frames)
        BY DEF IInv, TypeOK
      <4>2. PICK i \in DOMAIN stack : x = Pivot(stack[i].accum, stack[i].back)
        BY <3>3, <4>1, ElementsOfSeq
      <4>3. stack # << >>
        BY <4>1, <4>2
      <4>4. Top.accum <= stack[i].accum
        BY <4>3, StackBehind
      <4>5. call = None => Cursor = Top.accum
        BY <4>3 DEF Cursor
      <4>6. call # None => Cursor <= Top.accum
        <5> SUFFICES ASSUME call # None PROVE Cursor <= Top.accum
          OBVIOUS
        <5>1. Cursor = call.front /\ call.front < call.back /\ call.back = Top.accum
          BY <4>3 DEF Cursor, IInv, CallFits
        <5>2. call.front \in Int /\ call.back \in Int
          BY Sizes, SMT DEF IInv, TypeOK, Calls
        <5> QED BY <5>1, <5>2
      <4>7. stack[i].accum \in Int /\ Top.accum \in Int
        <5>1. stack[i] \in Frames /\ Top \in Frames
          BY <4>1, <4>3 DEF Top
        <5> QED BY <5>1, Sizes, SMT DEF Frames
      <4> QED BY <1>1, <4>2, <4>4, <4>5, <4>6, <4>7 DEF Pivot
    <3> QED BY <3>1, <3>2, <3>3
  <2>2. CASE stage # 0
    <3>1. PICK i \in DOMAIN current : pos <= i /\ x = current[i]
      BY <1>4, <2>2
    <3>2. /\ current \in Seq(Pivots) /\ pos \in Nat \ {0} /\ Chain(current, 0, N)
          /\ call = None /\ stack = << >> /\ stage \in 1 .. Dims
      BY <1>4, <2>2, Sizes DEF IInv, TypeOK, ResponseCovers, Phases
    <3>3. pos <= Len(current) /\ pos \in DOMAIN current /\ pos \in Int /\ i \in Int
      BY <3>1, <3>2
    <3>4. Cursor = current[pos].front
      BY <3>2, <3>3 DEF Cursor
    <3>5. \A k, l \in DOMAIN current : k < l => current[k].back <= current[l].front
      <4>1. 0 \in Int /\ N \in Int
        BY Sizes
      <4> QED BY <1>1, <3>2, <4>1, ChainAscends, Zenon
    <3>6. current[pos].front < current[pos].back
      BY <3>2, <3>3 DEF Chain
    <3>7. current[pos] \in Pivots /\ current[i] \in Pivots
      BY <3>2, <3>3
    <3> QED BY <1>1, <3>1, <3>3, <3>4, <3>5, <3>6, <3>7
  <2> QED BY <2>1, <2>2
<1>7. \A x \in Pieces : x.front \in Int /\ x.back \in Int
  BY PieceTypes, Sizes, SMT
<1>8. \A x \in Range(response) : \A y \in Pieces \ Range(response) : x.back <= y.front
  <2>1. \A x \in Range(response) : x \in Pieces
    BY DEF Pieces
  <2> QED BY <1>1, <1>6, <1>7, <2>1
<1> QED BY <1>2, <1>3, <1>5, <1>8 DEF Apart

\* Runs that lie apart have no record in common.
LEMMA ApartRecords ==
    ASSUME NEW ix \in [Records -> Records], IsInjective(ix),
           NEW p, p.front \in 0 .. N, p.back \in 0 .. N,
           NEW q, q.front \in 0 .. N, q.back \in 0 .. N, Apart(p, q)
    PROVE  RecordsAt(ix, p) \cap RecordsAt(ix, q) = {}
<1> SUFFICES ASSUME NEW i \in Span(p), NEW j \in Span(q), ix[i] = ix[j]
             PROVE  FALSE
  BY DEF RecordsAt
<1>1. i \in Records /\ j \in Records
  BY InRecords DEF Span
<1>2. i # j
  <2>1. p.front \in Int /\ p.back \in Int /\ q.front \in Int /\ q.back \in Int
    BY Sizes
  <2> QED BY <2>1 DEF Span, Apart
<1> QED BY <1>1, <1>2 DEF IsInjective

\* Sorting a piece leaves every piece its records.
LEMMA SortKeepsPieces ==
    ASSUME IInv, NEW p, p.front \in 0 .. N, p.back \in 0 .. N,
           Pivot(p.front, p.back) \in Pieces,
           NEW hash, NEW ix \in SortHash(index, p, hash)
    PROVE  \A q \in Pieces : RecordsAt(ix, q) = RecordsAt(index, q)
<1> SUFFICES ASSUME NEW q \in Pieces PROVE RecordsAt(ix, q) = RecordsAt(index, q)
  OBVIOUS
<1> DEFINE r == Pivot(p.front, p.back)
<1>1. r = q \/ Apart(r, q)
  BY PiecesApart
<1>2. q.front \in 0 .. N /\ q.back \in 0 .. N
  BY PieceTypes
<1>3. Span(p) \subseteq Span(q) \/ Span(p) \cap Span(q) = {}
  <2>1. r.front = p.front /\ r.back = p.back
    BY DEF Pivot
  <2> HIDE DEF r
  <2> QED BY <1>1, <1>2, <2>1, Sizes, SMT DEF Span, Apart
<1>4. index \in [Records -> Records] /\ IsInjective(index)
  BY DEF IInv, TypeOK
<1> QED BY <1>2, <1>3, <1>4, SortStaysInside, SMT

-----------------------------------------------------------------------------
(* Steps of a partition.                                                   *)

\* A block gives way to separated, non-empty sets that make it up, or stays
\* when they are only itself.
LEMMA RefineBlock ==
    ASSUME NEW B, NEW C, NEW X \in B, NEW made, {} \notin B,
           \A W \in B : W # X => W \cap X = {},
           C = (B \ {X}) \cup made, UNION made = X, {} \notin made,
           \A S, T \in made : S # T => S \cap T = {}
    PROVE  \/ C = B
           \/ /\ B \ {X} \subseteq C
              /\ X \notin C \ (B \ {X})
              /\ C \ (B \ {X}) = made
<1>1. \A S \in made : S \subseteq X /\ S # {}
  OBVIOUS
<1>2. \A S \in made : S \notin B \ {X}
  <2> SUFFICES ASSUME NEW S \in made, S \in B \ {X} PROVE FALSE
    OBVIOUS
  <2>1. S \cap X = {} /\ S \subseteq X /\ S # {}
    BY <1>1
  <2> QED BY <2>1
<1>3. C \ (B \ {X}) = made /\ B \ {X} \subseteq C
  BY <1>2
<1>4. CASE X \in made
  <2>1. made = {X}
    <3> SUFFICES ASSUME NEW S \in made, S # X PROVE FALSE
      BY <1>4
    <3>1. S \cap X = {} /\ S \subseteq X /\ S # {}
      BY <1>1, <1>4
    <3> QED BY <3>1
  <2> QED BY <2>1
<1>5. CASE X \notin made
  BY <1>3, <1>5
<1> QED BY <1>4, <1>5

\* The record sets of some pivots, the empty one left out.
BlocksOf(ix, S) == {RecordsAt(ix, p) : p \in S} \ {{}}

\* Up to the end of the last pass, the blocks are the pieces.
LEMMA BlocksArePieces ==
    ASSUME IInv, stage \in 0 .. Dims
    PROVE  Blocks = BlocksOf(index, Pieces)
<1>1. Blocks = BlocksOf(index, Range(response) \cup Pending)
  BY DEF Blocks, BlocksOf, RecordsOf, RecordsAt
<1>2. CASE stage = 0
  <2> DEFINE F == {Pivot(f.accum, f.back) : f \in Range(stack)}
  <2>1. Pending = F \cup (IF call = None THEN {} ELSE {call})
    <3>1. stage \notin 1 .. Dims
      BY <1>2
    <3> QED BY <1>2, <3>1 DEF Pending
  <2>2. Pieces = Range(response) \cup F
                   \cup (IF call = None THEN {} ELSE {Pivot(call.front, call.back)})
    BY <1>2, SpatialPieces
  <2>3. RecordsAt(index, call) = RecordsAt(index, Pivot(call.front, call.back))
    BY DEF RecordsAt, Span, Pivot
  <2> HIDE DEF F
  <2> QED BY <1>1, <2>1, <2>2, <2>3 DEF BlocksOf
<1>3. CASE stage \in 1 .. Dims
  <2>1. stage # 0 /\ call = None /\ stack = << >>
    BY <1>3, Sizes DEF IInv, TypeOK, Phases
  <2>2. Pending = {current[i] : i \in pos .. Len(current)}
    BY <1>3, <2>1, Zenon DEF Pending
  <2>3. {Pivot(f.accum, f.back) : f \in Range(stack)} = {}
    BY <2>1 DEF Range
  <2>4. Pieces = Range(response) \cup {current[i] : i \in pos .. Len(current)}
    BY <1>3, <2>1, <2>3 DEF Pieces
  <2> QED BY <1>1, <2>2, <2>4
<1> QED BY <1>2, <1>3

\* So they are after a step.
BlocksFit == stage \in 0 .. Dims => Blocks = BlocksOf(index, Pieces)

LEMMA BlocksFitNext == IInv' => BlocksFit'
<1>1. IInv => BlocksFit
  BY BlocksArePieces DEF BlocksFit
<1> QED BY <1>1, PTL

\* What the passes separate does not change.
LEMMA AttrStays ==
    ASSUME data' = data
    PROVE  Attr' = Attr
BY DEF Attr

\* The value a later pass separates by.
LEMMA AttrValue ==
    ASSUME NEW d \in 1 .. Dims, NEW r \in Records
    PROVE  Attr[d][r] = ValueOf(data[r], d)
<1>1. d \in 0 .. Dims /\ d # 0
  OBVIOUS
<1> QED BY <1>1 DEF Attr

\* The finest zoom of a key.
Finest(k) == IF k = 0 THEN MaxZoom ELSE MaxZoom - 1

\* The tiles the spatial pass separates by.
LEMMA AttrTiles ==
    ASSUME NEW r \in Records
    PROVE  Attr[0][r] = [k \in 0 .. Keys - 1 |-> TileOf(data[r], k, Finest(k))]
<1>1. 0 \in 0 .. Dims
  BY Sizes
<1> QED BY <1>1 DEF Attr, Finest

-----------------------------------------------------------------------------
(* What the spatial pass separates.                                        *)

\* A split never looks beyond the finest zoom of its key.
LEMMA SplitZoom ==
    ASSUME NEW level \in Nat, level < MaxZoom * Keys, NEW z \in Nat,
           z * Keys <= level + Keys - NextKey(level)
    PROVE  NextKey(level) \in 0 .. Keys - 1 /\ z <= Finest(NextKey(level))
<1> DEFINE d == (level + 1) % Keys
           m == (level + 1) \div Keys
<1>1. Keys \in Nat \ {0} /\ MaxZoom \in Nat /\ level + 1 \in Nat
  BY Sizes
<1>2. /\ m \in Nat /\ d \in Nat /\ d < Keys /\ level + 1 = Keys * m + d
  BY <1>1, DivMod
<1>3. NextKey(level) = d
  BY DEF NextKey
<1> HIDE DEF d, m
<1>4. /\ (m + 1) * Keys = Keys * m + Keys /\ m * Keys = Keys * m
      /\ (MaxZoom + 1) * Keys = MaxZoom * Keys + Keys
      /\ Keys * m \in Int /\ MaxZoom * Keys \in Int /\ z * Keys \in Int
  BY <1>1, <1>2, SMT
<1>5. z < m + 1
  <2>1. z * Keys < (m + 1) * Keys
    BY <1>1, <1>2, <1>3, <1>4
  <2>2. m + 1 \in Int
    BY <1>2
  <2> QED BY <1>1, <2>1, <2>2, MulLess
<1>6. CASE d = 0
  <2>1. m * Keys < (MaxZoom + 1) * Keys
    BY <1>1, <1>2, <1>4, <1>6
  <2>2. MaxZoom + 1 \in Int /\ m \in Int
    BY <1>1, <1>2
  <2>3. m < MaxZoom + 1
    BY <1>1, <2>1, <2>2, MulLess
  <2> QED BY <1>1, <1>2, <1>3, <1>5, <1>6, <2>3 DEF Finest
<1>7. CASE d # 0
  <2>1. m * Keys < MaxZoom * Keys
    BY <1>1, <1>2, <1>4, <1>7
  <2>2. m < MaxZoom
    BY <1>1, <1>2, <2>1, MulLess
  <2> QED BY <1>1, <1>2, <1>3, <1>5, <1>7, <2>2 DEF Finest
<1> QED BY <1>6, <1>7

\* Records in different tiles of a zoom are in different tiles of every finer
\* one.
LEMMA FinerDiffers ==
    ASSUME NEW r \in Record, NEW q \in Record, NEW k \in 0 .. Keys - 1,
           NEW z \in Nat, NEW w \in Nat, z <= w, w <= MaxZoom,
           TileOf(r, k, z) # TileOf(q, k, z)
    PROVE  TileOf(r, k, w) # TileOf(q, k, w)
<1> SUFFICES ASSUME TileOf(r, k, w) = TileOf(q, k, w) PROVE FALSE
  OBVIOUS
<1> DEFINE S == {v \in Nat : z <= v /\ v <= w /\ TileOf(r, k, v) = TileOf(q, k, v)}
<1>1. PICK v \in S : \A n \in S : v <= n
  <2>1. w \in S /\ S \in SUBSET Nat
    OBVIOUS
  <2> HIDE DEF S
  <2> QED BY <2>1, NatMin
<1>2. v \in Nat /\ z <= v /\ v <= w /\ TileOf(r, k, v) = TileOf(q, k, v) /\ v # z
  OBVIOUS
<1>3. v - 1 \in Nat /\ z <= v - 1 /\ v - 1 <= w /\ v - 1 < MaxZoom /\ (v - 1) + 1 = v
      /\ ~(v <= v - 1)
  BY <1>2, Sizes
<1>4. TileOf(r, k, v - 1) = TileOf(q, k, v - 1)
  <2>1. /\ TileOf(r, k, v - 1).x = TileOf(r, k, (v - 1) + 1).x \div 2
        /\ TileOf(r, k, v - 1).y = TileOf(r, k, (v - 1) + 1).y \div 2
        /\ TileOf(q, k, v - 1).x = TileOf(q, k, (v - 1) + 1).x \div 2
        /\ TileOf(q, k, v - 1).y = TileOf(q, k, (v - 1) + 1).y \div 2
    BY <1>3, TileHalves
  <2>2. /\ TileOf(r, k, v - 1).x = TileOf(q, k, v - 1).x
        /\ TileOf(r, k, v - 1).y = TileOf(q, k, v - 1).y
    BY <1>2, <1>3, <2>1, Zenon
  <2>3. \A t, u : t.x = u.x /\ t.y = u.y => [x |-> t.x, y |-> t.y] = [x |-> u.x, y |-> u.y]
    OBVIOUS
  <2>4. /\ TileOf(r, k, v - 1) = [x |-> TileOf(r, k, v - 1).x, y |-> TileOf(r, k, v - 1).y]
        /\ TileOf(q, k, v - 1) = [x |-> TileOf(q, k, v - 1).x, y |-> TileOf(q, k, v - 1).y]
    BY DEF TileOf
  <2> QED BY <2>2, <2>3, <2>4, Zenon
<1>5. v - 1 \in S
  BY <1>3, <1>4
<1> HIDE DEF S
<1> QED BY <1>1, <1>3, <1>5

\* At the last level every key has come to its finest zoom.
LEMMA DeepestZooms ==
    ASSUME IInv, LevelsReach, call # None, call.level >= MaxZoom * Keys,
           NEW k \in 0 .. Keys - 1
    PROVE  call.zoom[k].z \in Nat /\ call.zoom[k].z = Finest(k) + 1
<1>1. /\ call.level \in Nat /\ call.zoom[k].z \in Nat
      /\ call.zoom[k].z * Keys <= call.level + Keys - k
      /\ (call.zoom[k].z + 1) * Keys > call.level + Keys - k
      /\ call.level <= MaxZoom * Keys
  BY DEF IInv, TypeOK, Calls, KeyZooms, CallFits, ZoomsFit, LevelsReach, ZoomsReach
<1> DEFINE z == call.zoom[k].z
<1>2. /\ Keys \in Nat \ {0} /\ MaxZoom \in Nat /\ MaxZoom * Keys \in Int
      /\ (MaxZoom + 2) * Keys = MaxZoom * Keys + 2 * Keys
      /\ (MaxZoom + 1) * Keys = MaxZoom * Keys + Keys
  BY Sizes, SMT
<1>3. call.level = MaxZoom * Keys
  BY <1>1, <1>2
<1> HIDE DEF z
<1>4. z \in Nat /\ z * Keys \in Int /\ (z + 1) * Keys \in Int
      /\ z * Keys <= MaxZoom * Keys + Keys - k
      /\ (z + 1) * Keys > MaxZoom * Keys + Keys - k
  <2>1. z \in Nat
    BY <1>1 DEF z
  <2>2. z * Keys \in Int /\ (z + 1) * Keys \in Int
    BY <1>2, <2>1, SMT
  <2> QED BY <1>1, <1>3, <2>1, <2>2 DEF z
<1>5. CASE k = 0
  <2>1. z * Keys < (MaxZoom + 2) * Keys /\ (MaxZoom + 1) * Keys < (z + 1) * Keys
    BY <1>2, <1>4, <1>5
  <2>2. z \in Int /\ z + 1 \in Int /\ MaxZoom + 2 \in Int /\ MaxZoom + 1 \in Int
    BY <1>2, <1>4
  <2>3. z < MaxZoom + 2 /\ MaxZoom + 1 < z + 1
    BY <1>2, <2>1, <2>2, MulLess
  <2> QED BY <1>2, <1>4, <1>5, <2>3 DEF Finest, z
<1>6. CASE k # 0
  <2>1. z * Keys < (MaxZoom + 1) * Keys /\ MaxZoom * Keys < (z + 1) * Keys
    BY <1>2, <1>4, <1>6
  <2>2. z \in Int /\ z + 1 \in Int /\ MaxZoom + 1 \in Int /\ MaxZoom \in Int
    BY <1>2, <1>4
  <2>3. z < MaxZoom + 1 /\ MaxZoom < z + 1
    BY <1>2, <2>1, <2>2, MulLess
  <2> QED BY <1>2, <1>4, <1>6, <2>3 DEF Finest, z
<1> QED BY <1>5, <1>6

\* So its records share their finest tiles.
LEMMA DeepestUniform ==
    ASSUME IInv, SpatialHolds, LevelsReach, call # None,
           call.level >= MaxZoom * Keys,
           NEW r \in RecordsAt(index, call), NEW q \in RecordsAt(index, call)
    PROVE  Attr[0][r] = Attr[0][q]
<1>1. r \in Records /\ q \in Records
  <2>1. \A i \in Span(call) : i \in Records
    <3>1. call.front \in 0 .. N /\ call.back \in 0 .. N
      BY DEF IInv, TypeOK, Calls
    <3> QED BY <3>1, InRecords DEF Span
  <2>2. index \in [Records -> Records]
    BY DEF IInv, TypeOK
  <2> QED BY <2>1, <2>2 DEF RecordsAt
<1>2. ASSUME NEW k \in 0 .. Keys - 1
      PROVE  TileOf(data[r], k, Finest(k)) = TileOf(data[q], k, Finest(k))
  <2>1. call.zoom[k].z \in Nat /\ call.zoom[k].z = Finest(k) + 1 /\ Finest(k) \in Int
    BY DeepestZooms, Sizes DEF Finest
  <2>2. CASE call.zoom[k].z > 0
    <3>1. /\ TileOf(data[r], k, call.zoom[k].z - 1) = [x |-> call.zoom[k].x, y |-> call.zoom[k].y]
          /\ TileOf(data[q], k, call.zoom[k].z - 1) = [x |-> call.zoom[k].x, y |-> call.zoom[k].y]
      BY <2>2, CallTiles
    <3>2. call.zoom[k].z - 1 = Finest(k)
      BY <2>1
    <3> QED BY <3>1, <3>2, Zenon
  <2>3. CASE call.zoom[k].z = 0
    <3>1. MaxZoom = 0
      BY <2>1, <2>3, Sizes DEF Finest
    <3>2. ASSUME NEW e \in Records
          PROVE  data[e].at[k].x = 0 /\ data[e].at[k].y = 0
      <4> DEFINE w == 2^MaxZoom
      <4>1. w = 1
        <5>1. 2^0 = 1
          BY SMT
        <5> QED BY <3>1, <5>1
      <4>2. data[e] \in Record
        BY RecordOf DEF IInv, TypeOK
      <4>3. data[e].at[k] \in [x : 0 .. w - 1, y : 0 .. w - 1]
        BY <4>2 DEF Record, Point
      <4> HIDE DEF w
      <4> QED BY <4>1, <4>3
    <3> QED BY <1>1, <3>2, Zenon DEF TileOf
  <2> QED BY <2>1, <2>2, <2>3
<1> QED BY <1>1, <1>2, AttrTiles

-----------------------------------------------------------------------------
(* The shape of every step.                                                *)

\* A run has at most as many records as positions.
LEMMA SpanCount ==
    ASSUME NEW ix, NEW p, p.front \in Int, p.back \in Int, p.front <= p.back
    PROVE  Cardinality(RecordsAt(ix, p)) <= Size(p)
<1> DEFINE D == Span(p)
           f == [i \in D |-> ix[i]]
<1>1. IsFiniteSet(D) /\ Cardinality(D) = Size(p)
  <2>1. p.back - 1 \in Int
    OBVIOUS
  <2>2. /\ IsFiniteSet(p.front .. p.back - 1)
        /\ Cardinality(p.front .. p.back - 1)
             = IF p.front > p.back - 1 THEN 0 ELSE (p.back - 1) - p.front + 1
    BY <2>1, FS_Interval
  <2>3. (IF p.front > p.back - 1 THEN 0 ELSE (p.back - 1) - p.front + 1) = Size(p)
    BY DEF Size
  <2> QED BY <2>2, <2>3 DEF Span
<1>2. f \in Surjection(D, RecordsAt(ix, p))
  BY DEF Surjection, RecordsAt
<1> HIDE DEF D, f
<1>3. Cardinality(RecordsAt(ix, p)) <= Cardinality(D)
  BY <1>1, <1>2, FS_Surjection
<1> QED BY <1>1, <1>3

\* A step moves no record into or out of a piece.
LEMMA StepKeepsPieces ==
    ASSUME IInv, Next
    PROVE  \A p \in Pieces : RecordsAt(index', p) = RecordsAt(index, p)
<1>1. CASE SplitTile
  <2>1. call # None /\ call.front \in 0 .. N /\ call.back \in 0 .. N
    BY <1>1 DEF SplitTile, IInv, TypeOK, Calls
  <2>2. PICK hash : index' \in SortHash(index, call, hash)
    BY <1>1 DEF SplitTile
  <2>3. Pivot(call.front, call.back) \in Pieces
    BY <2>1 DEF Pieces
  <2> QED BY <2>1, <2>2, <2>3, SortKeepsPieces
<1>2. CASE SortNode
  <2>1. /\ node \in Nodes /\ stage \in 1 .. Dims /\ pos \in DOMAIN current
        /\ node.front = current[pos].front /\ node.back = current[pos].back
        /\ node.front \in 0 .. N /\ node.back \in 0 .. N
        /\ pos \in Nat \ {0} /\ current \in Seq(Pivots)
    BY <1>2 DEF SortNode, IInv, TypeOK, NodeFits, Nodes
  <2>2. PICK hash : index' \in SortHash(index, node, hash)
    BY <1>2 DEF SortNode
  <2>3. Pivot(node.front, node.back) \in Pieces
    <3>1. current[pos] = Pivot(current[pos].front, current[pos].back)
      <4>1. current[pos] \in Pivots
        BY <2>1
      <4> QED BY <4>1 DEF Pivots, Pivot
    <3>2. pos \in pos .. Len(current)
      BY <2>1
    <3> QED BY <2>1, <3>1, <3>2 DEF Pieces
  <2> QED BY <2>1, <2>2, <2>3, SortKeepsPieces
<1>3. CASE ~SplitTile /\ ~SortNode
  <2>1. index' = index
    BY <1>3 DEF Next, NextChild, LeafTile, ReturnTile, OpenNode, EmplacePart,
                EndPass
  <2> QED BY <2>1
<1> QED BY <1>1, <1>2, <1>3

\* The pieces of the step are those before it.
LEMMA SamePieces ==
    ASSUME IInv, IInv', Next, stage \in 0 .. Dims, stage' = stage,
           \A p \in Pieces' : p \in Pieces \/ RecordsAt(index', p) = {},
           \A p \in Pieces : p \in Pieces' \/ RecordsAt(index', p) = {}
    PROVE  Blocks' = Blocks
<1>1. Blocks = BlocksOf(index, Pieces)
  BY BlocksArePieces
<1>2. Blocks' = BlocksOf(index', Pieces')
  BY BlocksFitNext DEF BlocksFit, BlocksOf, RecordsAt
<1>3. \A p \in Pieces : RecordsAt(index', p) = RecordsAt(index, p)
  BY StepKeepsPieces
<1> QED BY <1>1, <1>2, <1>3 DEF BlocksOf

\* No step changes the dataset.
LEMMA DataStays ==
    ASSUME [Next]_vars
    PROVE  data' = data
BY DEF Next, SplitTile, NextChild, LeafTile, ReturnTile, OpenNode, EmplacePart,
       SortNode, EndPass, vars

\* A step that leaves the blocks as they are is none of a partition.
LEMMA StutterStep ==
    ASSUME [Next]_vars, stage' = stage, Blocks' = Blocks
    PROVE  [P!Next]_(P!vars)
<1>1. Attr' = Attr
  BY DataStays, AttrStays
<1> QED BY <1>1 DEF P!vars

\* A step that puts the pivots M in the place of the piece X, with the same
\* records and no value in two of them, is a step of a partition.
LEMMA SplitStep ==
    ASSUME IInv, IInv', Next, stage \in 0 .. Dims, stage' = stage,
           NEW X \in Pieces, X.front < X.back, NEW M,
           \A p \in Pieces' : (p \in Pieces /\ p # X) \/ p \in M,
           \A p \in Pieces : p = X \/ p \in Pieces',
           \A p \in M : p \in Pieces',
           UNION {RecordsAt(index', p) : p \in M} = RecordsAt(index, X),
           \A p, q \in M : RecordsAt(index', p) # RecordsAt(index', q) =>
              \A r \in RecordsAt(index', p), t \in RecordsAt(index', q) :
                 Attr[stage][r] # Attr[stage][t]
    PROVE  [P!Next]_(P!vars)
<1> DEFINE B == BlocksOf(index, Pieces)
           C == Blocks'
           R == RecordsAt(index, X)
           made == BlocksOf(index', M)
<1>1. Blocks = B
  BY BlocksArePieces
<1>2. C = BlocksOf(index', Pieces')
  BY BlocksFitNext DEF BlocksFit, BlocksOf, RecordsAt
<1>3. \A p \in Pieces : RecordsAt(index', p) = RecordsAt(index, p)
  BY StepKeepsPieces
<1>4. /\ index \in [Records -> Records] /\ IsInjective(index)
      /\ \A p \in Pieces : p.front \in 0 .. N /\ p.back \in 0 .. N
  BY PieceTypes DEF IInv, TypeOK
<1>5. R # {}
  <2>1. X.front \in X.front .. X.back - 1
    BY <1>4, Sizes, SMT
  <2>2. index[X.front] \in R
    BY <2>1, Zenon DEF RecordsAt, Span
  <2> HIDE DEF R
  <2> QED BY <2>2, Zenon
<1>6. \A p \in Pieces : p # X => RecordsAt(index, p) \cap R = {}
  <2> SUFFICES ASSUME NEW p \in Pieces, p # X
               PROVE  RecordsAt(index, p) \cap R = {}
    OBVIOUS
  <2>1. Apart(p, X)
    BY PiecesApart
  <2>2. /\ p.front \in 0 .. N /\ p.back \in 0 .. N
        /\ X.front \in 0 .. N /\ X.back \in 0 .. N
    BY <1>4
  <2> QED BY <1>4, <2>1, <2>2, ApartRecords
<1>7. R \in B /\ {} \notin B /\ {} \notin made
  BY <1>5 DEF BlocksOf
<1>8. \A W \in B : W # R => W \cap R = {}
  BY <1>6 DEF BlocksOf
<1>9. UNION made = R
  BY DEF BlocksOf
<1>10. C = (B \ {R}) \cup made
  <2>1. \A p \in Pieces : p # X /\ RecordsAt(index, p) # {} => RecordsAt(index, p) # R
    BY <1>6
  <2>2. \A W \in C : W \in (B \ {R}) \cup made
    <3> SUFFICES ASSUME NEW p \in Pieces', RecordsAt(index', p) # {}
                 PROVE  RecordsAt(index', p) \in (B \ {R}) \cup made
      BY <1>2 DEF BlocksOf
    <3>1. CASE p \in Pieces /\ p # X
      BY <1>3, <2>1, <3>1 DEF BlocksOf
    <3>2. CASE p \in M
      BY <3>2 DEF BlocksOf
    <3> QED BY <3>1, <3>2
  <2>3. \A W \in B \ {R} : W \in C
    <3> SUFFICES ASSUME NEW p \in Pieces, RecordsAt(index, p) # {},
                        RecordsAt(index, p) # R
                 PROVE  RecordsAt(index, p) \in C
      BY DEF BlocksOf
    <3>1. p # X
      OBVIOUS
    <3>2. p \in Pieces' /\ RecordsAt(index', p) = RecordsAt(index, p)
      BY <1>3, <3>1
    <3> QED BY <1>2, <3>2 DEF BlocksOf
  <2>4. \A W \in made : W \in C
    BY <1>2 DEF BlocksOf
  <2> HIDE DEF B, C, R, made
  <2> QED BY <2>2, <2>3, <2>4
<1>11. \A S, T \in made : S # T =>
         \A r \in S, t \in T : Attr[stage][r] # Attr[stage][t]
  BY DEF BlocksOf
<1> HIDE DEF R, made
<1>12. \A S, T \in made : S # T => S \cap T = {}
  BY <1>11
<1>13. \/ C = B
       \/ /\ B \ {R} \subseteq C
          /\ R \notin C \ (B \ {R})
          /\ C \ (B \ {R}) = made
  <2> HIDE DEF B, C
  <2> QED BY <1>7, <1>8, <1>9, <1>10, <1>12, RefineBlock
<1>14. CASE C = B
  BY <1>1, <1>14, StutterStep
<1>15. CASE /\ B \ {R} \subseteq C
            /\ R \notin C \ (B \ {R})
            /\ C \ (B \ {R}) = made
  <2>1. Attr' = Attr
    BY DataStays, AttrStays
  <2>2. P!Separated(made)
    BY <1>11 DEF P!Separated
  <2>3. P!Refine
    <3>1. R \in Blocks /\ Blocks \ {R} \subseteq Blocks'
      BY <1>1, <1>7, <1>15
    <3>2. made = Blocks' \ (Blocks \ {R})
      BY <1>1, <1>15
    <3> DEFINE gone == Blocks' \ (Blocks \ {R})
    <3>3. R \notin gone /\ UNION gone = R /\ {} \notin gone /\ P!Separated(gone)
      <4> HIDE DEF gone
      <4>1. made = gone
        BY <3>2 DEF gone
      <4>2. R \notin made
        BY <1>15
      <4> QED BY <1>7, <1>9, <2>2, <4>1, <4>2, Zenon
    <3>4. UNCHANGED <<Attr, stage>>
      BY <2>1
    <3> QED BY <3>1, <3>3, <3>4, Zenon DEF P!Refine
  <2> QED BY <2>3 DEF P!Next
<1> QED BY <1>13, <1>14, <1>15

-----------------------------------------------------------------------------
(* Every step is one of a partition.                                       *)

\* A split hands the pivot of its call to the loop over the children.
LEMMA SplitTileRefines ==
    ASSUME IInv, IInv', SplitTile
    PROVE  [P!Next]_(P!vars)
<1> USE DEF SplitTile, nodeVars
<1> DEFINE frame == FrameOf(call)
           c == Pivot(call.front, call.back)
<1>1. stage = 0 /\ stage' = 0 /\ call \in Calls /\ stage \in 0 .. Dims /\ Next
  <2>1. stage = 0 /\ stage' = 0 /\ call \in Calls
    BY InSpatialPass DEF IInv, TypeOK
  <2>2. Next
    BY DEF Next
  <2> QED BY <2>1, <2>2, Sizes
<1>2. /\ stack \in Seq(Frames) /\ stack' = Append(stack, frame) /\ frame \in Frames
      /\ Pivot(frame.accum, frame.back) = c
  <2>1. Count(ChildTile(call)) \in UsedMaps(Tile)
    BY SplitCounts, Zenon
  <2> QED BY <1>1, <2>1 DEF IInv, TypeOK, Calls, Frames, FrameOf
<1> HIDE DEF frame
<1>3. Range(stack') = Range(stack) \cup {frame}
  <2>1. Range(Append(stack, frame)) = Range(stack) \cup {frame}
    BY <1>2, RangeAppend, SMT
  <2> QED BY <1>2, <2>1
<1>4. Pieces' = Pieces
  <2>1. Pieces = Range(response) \cup {c} \cup {Pivot(f.accum, f.back) : f \in Range(stack)}
    BY <1>1, SpatialPieces
  <2>2. Pieces' = Range(response) \cup {Pivot(f.accum, f.back) : f \in Range(stack')}
    BY <1>1 DEF Pieces
  <2> HIDE DEF c
  <2> QED BY <1>2, <1>3, <2>1, <2>2
<1>5. Blocks' = Blocks
  <2> HIDE DEF SplitTile
  <2> QED BY <1>1, <1>4, SamePieces
<1> QED BY <1>1, <1>5, StutterStep

\* A leaf answers the pivot of its call.
LEMMA LeafTileRefines ==
    ASSUME IInv, IInv', LeafTile
    PROVE  [P!Next]_(P!vars)
<1> USE DEF LeafTile, nodeVars
<1> DEFINE c == Pivot(call.front, call.back)
<1>1. stage = 0 /\ stage' = 0 /\ call \in Calls /\ stage \in 0 .. Dims /\ Next
  <2>1. stage = 0 /\ stage' = 0 /\ call \in Calls
    BY InSpatialPass DEF IInv, TypeOK
  <2>2. Next
    BY DEF Next
  <2> QED BY <2>1, <2>2, Sizes
<1>2. response \in Seq(Pivots) /\ response' = Append(response, c) /\ c \in Pivots
  BY <1>1 DEF IInv, TypeOK, Calls, Pivot, Pivots
<1> HIDE DEF c
<1>3. Range(response') = Range(response) \cup {c}
  <2>1. Range(Append(response, c)) = Range(response) \cup {c}
    BY <1>2, RangeAppend, SMT
  <2> QED BY <1>2, <2>1
<1>4. Pieces' = Pieces
  <2>1. Pieces = Range(response) \cup {c} \cup {Pivot(f.accum, f.back) : f \in Range(stack)}
    BY <1>1, SpatialPieces DEF c
  <2>2. Pieces' = Range(response') \cup {Pivot(f.accum, f.back) : f \in Range(stack)}
    BY <1>1 DEF Pieces
  <2> QED BY <1>3, <2>1, <2>2
<1>5. Blocks' = Blocks
  <2> HIDE DEF LeafTile
  <2> QED BY <1>1, <1>4, SamePieces
<1> QED BY <1>1, <1>5, StutterStep

\* A return drops what its loop had left, which is nothing.
LEMMA ReturnTileRefines ==
    ASSUME IInv, IInv', ReturnTile
    PROVE  [P!Next]_(P!vars)
<1> USE DEF ReturnTile, nodeVars
<1>1. stage = 0 /\ stage' = 0 /\ stage \in 0 .. Dims /\ Next
  <2>1. stage = 0 /\ stage' = 0
    BY InSpatialPass
  <2>2. Next
    BY DEF Next
  <2> QED BY <2>1, <2>2, Sizes
<1>2. /\ stack \in Seq(Frames) /\ Len(stack) \in DOMAIN stack
      /\ Top \in Frames /\ FrameFits(Top)
  <2>1. stack \in Seq(Frames) /\ StackNests
    BY DEF IInv, TypeOK
  <2>2. Len(stack) \in DOMAIN stack
    BY <2>1
  <2> QED BY <2>1, <2>2 DEF StackNests, Top
<1>3. Top.accum = Top.back
  <2>1. Top.back - Top.accum = 0
    BY <1>2, CountsNothing, SMT DEF FrameFits
  <2>2. Top.accum \in Int /\ Top.back \in Int
    BY <1>2, Sizes, SMT DEF Frames
  <2> QED BY <2>1, <2>2
<1>4. \A f \in Range(stack) : f = Top \/ f \in Range(stack')
  <2> DEFINE t == SubSeq(stack, 1, Len(stack) - 1)
  <2>1. t \in Seq(Frames) /\ Len(t) = Len(stack) - 1
        /\ \A i \in DOMAIN t : t[i] = stack[i]
    BY <1>2, DropLast, Zenon
  <2>2. stack' = t
    OBVIOUS
  <2> HIDE DEF t
  <2>3. \A i \in DOMAIN stack : i = Len(stack) \/ i \in DOMAIN t
    BY <1>2, <2>1
  <2>4. \A i \in DOMAIN stack : stack[i] = Top \/ stack[i] \in Range(t)
    BY <2>1, <2>3 DEF Top, Range
  <2> QED BY <1>2, <2>2, <2>4 DEF Range
<1>5. \A f \in Range(stack') : f \in Range(stack)
  <2> DEFINE t == SubSeq(stack, 1, Len(stack) - 1)
  <2>1. \A i \in DOMAIN t : i \in DOMAIN stack /\ t[i] = stack[i]
    BY <1>2, DropLast, Zenon
  <2>2. stack' = t
    OBVIOUS
  <2> HIDE DEF t
  <2> QED BY <2>1, <2>2 DEF Range
<1>6. /\ Pieces = Range(response) \cup {Pivot(f.accum, f.back) : f \in Range(stack)}
      /\ Pieces' = Range(response) \cup {Pivot(f.accum, f.back) : f \in Range(stack')}
  BY <1>1, SpatialPieces DEF Pieces
<1> DEFINE e == Pivot(Top.accum, Top.back)
<1>7. RecordsAt(index', e) = {}
  <2>1. Span(e) = {}
    <3>1. Top.back \in Int
      BY <1>2, Sizes, SMT DEF Frames
    <3> QED BY <1>3, <3>1 DEF Span, Pivot
  <2> HIDE DEF e
  <2> QED BY <2>1 DEF RecordsAt
<1>8. \A p \in Pieces : p \in Pieces' \/ p = e
  BY <1>4, <1>6
<1>9. \A p \in Pieces' : p \in Pieces
  BY <1>5, <1>6
<1>10. Blocks' = Blocks
  <2> HIDE DEF ReturnTile, e
  <2> QED BY <1>1, <1>7, <1>8, <1>9, SamePieces
<1> QED BY <1>1, <1>10, StutterStep

\* A node takes nothing from the pivots before it ends.
LEMMA LoopRefines ==
    ASSUME IInv, IInv', OpenNode \/ EmplacePart
    PROVE  [P!Next]_(P!vars)
<1>1. /\ stage \in 0 .. Dims /\ stage' = stage /\ Next
      /\ UNCHANGED <<response, call, stack, current, pos>>
  <2>1. stage \in 1 .. Dims
    BY DEF OpenNode, EmplacePart, IInv, NodeFits
  <2>2. stage \in 0 .. Dims
    BY <2>1, Sizes
  <2> QED BY <2>2 DEF OpenNode, EmplacePart, spatialVars, Next
<1>2. Pieces' = Pieces
  BY <1>1 DEF Pieces
<1>3. Blocks' = Blocks
  BY <1>1, <1>2, SamePieces
<1> QED BY <1>1, <1>3, StutterStep

\* A turn of a loop cuts the positions of one tile off what the loop has left.
LEMMA NextChildRefines ==
    ASSUME IInv, IInv', SpatialHolds, NextChild
    PROVE  [P!Next]_(P!vars)
<1> USE DEF NextChild, nodeVars
<1> DEFINE d == NextKey(Top.level)
           z == Top.zoom[d].z
           entry == CHOOSE e \in Top.used :
                      \A f \in Top.used : TileBefore(e.key, f.key)
           t == entry.key
           b == Top.accum + entry.count
           zoom == [Top.zoom EXCEPT ![d] = [x |-> t.x, y |-> t.y, z |-> z + 1]]
           c == [level |-> Top.level + 1, front |-> Top.accum,
                 back |-> b, x |-> t.x, y |-> t.y, z |-> z, zoom |-> zoom]
           G == [Top EXCEPT !.accum = b, !.used = @ \ {entry}]
           left == TilesLeft(Placed, Top)
           X == Pivot(Top.accum, Top.back)
           A == Pivot(Top.accum, b)
           B == Pivot(b, Top.back)
<1>1. stage = 0 /\ stage' = 0 /\ stage \in 0 .. Dims /\ Next
  <2>1. stage = 0 /\ stage' = 0
    BY InSpatialPass
  <2>2. Next
    BY DEF Next
  <2> QED BY <2>1, <2>2, Sizes
<1>2. /\ stack \in Seq(Frames) /\ Len(stack) \in DOMAIN stack /\ Top \in Frames
      /\ FrameFits(Top) /\ FrameHolds(Placed, Top)
  <2>1. stack \in Seq(Frames) /\ stack # << >> /\ StackNests
    BY DEF IInv, TypeOK
  <2>2. Len(stack) \in DOMAIN stack
    BY <2>1
  <2>3. Top \in Frames
    BY <2>1, <2>2 DEF Top
  <2> QED BY <2>1, <2>2, <2>3 DEF StackNests, SpatialHolds, Top
<1>3. /\ Top.level \in Nat /\ Top.zoom \in KeyZooms
      /\ Top.accum \in 0 .. N /\ Top.back \in 0 .. N /\ Top.accum <= Top.back
      /\ Top.accum \in Int /\ Top.back \in Int
      /\ Top.used \in UsedMaps(Tile)
  BY <1>2, Sizes, SMT DEF Frames, FrameFits
<1>4. d \in 0 .. Keys - 1 /\ z \in Nat /\ z <= Finest(d)
  <2>1. d \in 0 .. Keys - 1
    BY <1>3, Sizes, SMT DEF NextKey
  <2>2. z \in Nat /\ z * Keys <= Top.level + Keys - d
    BY <1>2, <1>3, <2>1 DEF KeyZooms, FrameFits, ZoomsFit
  <2>3. Top.level < MaxZoom * Keys
    BY <1>2 DEF FrameFits
  <2> QED BY <1>3, <2>1, <2>2, <2>3, SplitZoom, SMT
<1>5. entry \in Top.used /\ \A f \in Top.used : TileBefore(entry.key, f.key)
  <2>1. \E e \in Top.used : \A f \in Top.used : TileBefore(e.key, f.key)
    BY <1>3, FirstTile, Zenon DEF UsedMaps, Tile
  <2> QED BY <2>1, Zenon
<1>6. \A i \in Top.accum .. Top.back - 1 : /\ i \in Records /\ Placed[i] \in Record
                                           /\ Placed[i] = data[index[i]]
                                           /\ index[i] \in Records
  <2>1. index \in [Records -> Records]
    BY DEF IInv, TypeOK
  <2> QED BY <1>3, <2>1, InRecords, PlacedRecord
<1>7. left \in [Top.accum .. Top.back - 1 -> Tile]
  <2>1. z <= MaxZoom
    BY <1>4, Sizes DEF Finest
  <2>2. \A i \in Top.accum .. Top.back - 1 : TileOf(Placed[i], d, z) \in Tile
    <3> HIDE DEF d, z, NextChild
    <3> QED BY <1>4, <1>6, <2>1, TileType
  <2> QED BY <2>2 DEF TilesLeft
<1>8. Top.used = Count(left) /\ Ascends(left)
  BY <1>2 DEF FrameHolds
<1>9. t \in Tile /\ entry.count \in Nat
  BY <1>3, <1>5 DEF UsedMaps
<1>10. call' = c /\ stack' = [stack EXCEPT ![Len(stack)] = G]
  BY DEF SetTop
<1>11. /\ G.back = Top.back /\ G.accum = b
  BY <1>2 DEF Frames
<1> HIDE DEF entry, left, NextChild
<1>12. /\ b \in Int /\ Top.accum < b /\ b <= Top.back
       /\ \A i \in Top.accum .. b - 1 : left[i] = t
       /\ \A i \in b .. Top.back - 1 : left[i] # t
  <2>1. left \in [Top.accum .. Top.back - 1 -> [x : Nat, y : Nat]]
    BY <1>7 DEF Tile
  <2>2. entry \in Count(left) /\ \A f \in Count(left) : TileBefore(entry.key, f.key)
    BY <1>5, <1>8
  <2>3. Ascends(left)
    BY <1>8
  <2>4. Top.accum \in Int /\ Top.back \in Int /\ Top.accum <= Top.back
    BY <1>3
  <2> HIDE DEF b, t
  <2>5. TakesFirst(entry, left, Top.accum, Top.back)
    BY <2>1, <2>2, <2>3, <2>4, FirstTileRun, Zenon
  <2> QED BY <2>5 DEF TakesFirst, b, t
<1>13. G \in Frames /\ b \in 0 .. N
  <2>1. b \in 0 .. N
    <3> HIDE DEF b
    <3> QED BY <1>3, <1>12, Sizes
  <2> HIDE DEF b
  <2> QED BY <1>2, <1>3, <2>1 DEF Frames, UsedMaps
<1>14. call' # None /\ call'.front = Top.accum /\ call'.back = b
  <2>1. [x |-> t.x, y |-> t.y, z |-> z + 1] \in [x : Nat, y : Nat, z : Nat]
        /\ t.x \in Nat /\ t.y \in Nat
    BY <1>4, <1>9 DEF Tile
  <2>2. zoom \in KeyZooms
    <3> HIDE DEF z, t, d
    <3> QED BY <1>3, <1>4, <2>1 DEF KeyZooms
  <2>3. c \in Calls
    <3> HIDE DEF zoom, b, z, t
    <3> QED BY <1>3, <1>4, <1>13, <2>1, <2>2 DEF Calls
  <2>4. c.front = Top.accum /\ c.back = b
    OBVIOUS
  <2> HIDE DEF c
  <2> QED BY <1>10, <2>3, <2>4, Sizes
<1> HIDE DEF c
<1>15. /\ \A i \in DOMAIN stack : i # Len(stack) => i \in DOMAIN stack' /\ stack'[i] = stack[i]
       /\ \A i \in DOMAIN stack' : i # Len(stack) => i \in DOMAIN stack /\ stack'[i] = stack[i]
       /\ Len(stack) \in DOMAIN stack' /\ stack'[Len(stack)] = G
       /\ stack' \in Seq(Frames)
  <2> DEFINE new == [stack EXCEPT ![Len(stack)] = G]
  <2> HIDE DEF G
  <2>1. /\ DOMAIN new = DOMAIN stack /\ new[Len(stack)] = G /\ new \in Seq(Frames)
        /\ \A i \in 1 .. Len(stack) - 1 : new[i] = stack[i]
    BY <1>2, <1>13, ReplaceLast, SMT
  <2>2. \A i \in DOMAIN stack : i # Len(stack) => i \in 1 .. Len(stack) - 1
    BY <1>2
  <2>3. stack' = new
    BY <1>10
  <2> HIDE DEF new
  <2> QED BY <1>2, <2>1, <2>2, <2>3
<1> DEFINE rest(p, s) == \E i \in DOMAIN s : i # Len(stack) /\ p = Pivot(s[i].accum, s[i].back)
<1>16. \A p : p \in Pieces <=> p \in Range(response) \/ p = X \/ rest(p, stack)
  <2>1. call = None
    BY DEF NextChild
  <2>2. \A p : p \in Pieces <=> \/ p \in Range(response)
                                \/ \E f \in Range(stack) : p = Pivot(f.accum, f.back)
    BY <1>1, <2>1, SpatialPieces
  <2>3. \A f : f \in Range(stack) <=> \E i \in DOMAIN stack : f = stack[i]
    BY <1>2, ElementsOfSeq DEF Range
  <2>4. Top = stack[Len(stack)]
    BY DEF Top
  <2> HIDE DEF G
  <2> QED BY <1>2, <2>2, <2>3, <2>4
<1>17. \A p : p \in Pieces' <=> p \in Range(response) \/ p = A \/ p = B \/ rest(p, stack')
  <2>1. \A p : p \in Pieces' <=> \/ p \in Range(response)
                                 \/ p = Pivot(call'.front, call'.back)
                                 \/ \E f \in Range(stack') : p = Pivot(f.accum, f.back)
    <3>1. response' = response
      BY DEF NextChild
    <3> QED BY <1>1, <1>14, <3>1 DEF Pieces
  <2>2. \A f : f \in Range(stack') <=> \E i \in DOMAIN stack' : f = stack'[i]
    BY DEF Range
  <2> HIDE DEF G
  <2> QED BY <1>11, <1>14, <1>15, <2>1, <2>2
<1>18. \A p : rest(p, stack) <=> rest(p, stack')
  <2> HIDE DEF G
  <2> QED BY <1>15
<1>19. X \in Pieces /\ X.front = Top.accum /\ X.back = Top.back /\ X.front < X.back
  <2>1. X.front = Top.accum /\ X.back = Top.back
    BY DEF Pivot
  <2> HIDE DEF b
  <2> QED BY <1>3, <1>12, <1>16, <2>1
<1>20. /\ A.front = Top.accum /\ A.back = b /\ B.front = b /\ B.back = Top.back
  BY DEF Pivot
<1> HIDE DEF X, A, B, G
<1>21. \A p : p \in Range(response) \/ rest(p, stack) => p # X
  <2>1. \A p \in Range(response) : p # X
    <3> SUFFICES ASSUME X \in Range(response) PROVE FALSE
      OBVIOUS
    <3>1. X.back <= Cursor
      BY AnsweredBefore
    <3>2. Cursor = Top.accum
      BY DEF Cursor, NextChild
    <3> QED BY <1>3, <1>19, <3>1, <3>2
  <2>2. \A p : rest(p, stack) => p # X
    <3> SUFFICES ASSUME NEW i \in DOMAIN stack, i # Len(stack),
                        X = Pivot(stack[i].accum, stack[i].back)
                 PROVE  FALSE
      OBVIOUS
    <3>1. i < Len(stack)
      BY <1>2
    <3>2. stack[Len(stack)].back <= stack[i].accum
      BY <1>2, <3>1, StackDescends
    <3>3. X.front = stack[i].accum
      BY DEF Pivot
    <3> QED BY <1>3, <1>19, <3>2, <3>3 DEF Top
  <2> QED BY <2>1, <2>2
<1> HIDE DEF rest
<1> DEFINE M == {A, B}
<1>22. \A p \in Pieces' : (p \in Pieces /\ p # X) \/ p \in M
  BY <1>16, <1>17, <1>18, <1>21
<1>23. \A p \in Pieces : p = X \/ p \in Pieces'
  BY <1>16, <1>17, <1>18
<1>24. \A p \in M : p \in Pieces'
  BY <1>17
<1>25. index' = index
  BY DEF NextChild
<1>26. UNION {RecordsAt(index', p) : p \in M} = RecordsAt(index, X)
  <2>1. Span(A) \cup Span(B) = Span(X)
    <3> HIDE DEF b
    <3> QED BY <1>3, <1>12, <1>19, <1>20 DEF Span
  <2>2. RecordsAt(index, A) \cup RecordsAt(index, B) = RecordsAt(index, X)
    BY <2>1 DEF RecordsAt
  <2> QED BY <1>25, <2>2
<1>27. ASSUME NEW r \in RecordsAt(index, A), NEW q \in RecordsAt(index, B)
       PROVE  Attr[0][r] # Attr[0][q]
  <2>1. PICK i \in Top.accum .. b - 1 : r = index[i]
    BY <1>20 DEF RecordsAt, Span
  <2>2. PICK j \in b .. Top.back - 1 : q = index[j]
    BY <1>20 DEF RecordsAt, Span
  <2>3. left[i] = t /\ left[j] # t
    BY <1>12
  <2>4. i \in Top.accum .. Top.back - 1 /\ j \in Top.accum .. Top.back - 1
    <3> HIDE DEF b
    <3> QED BY <1>3, <1>12
  <2>5. left[i] = TileOf(data[r], d, z) /\ left[j] = TileOf(data[q], d, z)
    BY <1>6, <2>1, <2>2, <2>4 DEF left, TilesLeft
  <2>6. /\ data[r] \in Record /\ data[q] \in Record /\ r \in Records /\ q \in Records
    BY <1>6, <2>1, <2>2, <2>4
  <2>7. Finest(d) \in Nat /\ Finest(d) <= MaxZoom
    <3> HIDE DEF d, z
    <3> QED BY <1>4, Sizes DEF Finest
  <2> HIDE DEF d, z
  <2>8. TileOf(data[r], d, Finest(d)) # TileOf(data[q], d, Finest(d))
    BY <1>4, <2>3, <2>5, <2>6, <2>7, FinerDiffers
  <2>9. /\ Attr[0][r] = [k \in 0 .. Keys - 1 |-> TileOf(data[r], k, Finest(k))]
        /\ Attr[0][q] = [k \in 0 .. Keys - 1 |-> TileOf(data[q], k, Finest(k))]
    BY <2>6, AttrTiles
  <2>10. /\ Attr[0][r][d] = TileOf(data[r], d, Finest(d))
         /\ Attr[0][q][d] = TileOf(data[q], d, Finest(d))
    BY <1>4, <2>9, Zenon
  <2> QED BY <2>8, <2>10
<1>28. \A p, q \in M : RecordsAt(index', p) # RecordsAt(index', q) =>
         \A r \in RecordsAt(index', p), v \in RecordsAt(index', q) :
            Attr[stage][r] # Attr[stage][v]
  BY <1>1, <1>25, <1>27
<1> HIDE DEF M
<1>29. stage' = stage
  BY <1>1
<1> QED BY <1>1, <1>19, <1>22, <1>23, <1>24, <1>26, <1>28, <1>29, SplitStep

\* The records of a part after the sort that ends its node.
LEMMA PartUniform ==
    ASSUME IInv, PartsCounted, HashesKeepOrder, SortNode,
           NEW i \in DOMAIN node.parts
    PROVE  \E v \in Nat :
             /\ \A r \in RecordsAt(index', node.parts[i]) : Attr[stage][r] = v
             /\ node.parts[i].front = node.front + CountBelow(Values(node), v)
             /\ node.parts[i].back = node.front + CountBelow(Values(node), v + 1)
<1> DEFINE p == node.parts[i]
<1>1. /\ node # None /\ stage \in 1 .. Dims
      /\ index' \in SortHash(index, node,
             [r \in Records |-> SetHash(ValueOf(data[r], stage))])
  BY DEF SortNode, IInv, NodeFits
<1>2. PICK v \in Nat :
        /\ p.value = LabelOf(v, stage)
        /\ p.front = node.front + CountBelow(Values(node), v)
        /\ p.back = node.front + CountBelow(Values(node), v + 1)
  BY <1>1 DEF PartsCounted, NodeCounts, PartCounted
<1>3. p.front \in 0 .. N /\ p.back \in 0 .. N
  <2>1. node.parts \in Seq(Parts)
    BY <1>1 DEF IInv, TypeOK, Nodes
  <2>2. node.parts[i] \in Parts
    BY <2>1
  <2> QED BY <2>2 DEF Parts
<1> HIDE DEF p
<1>4. \A r \in RecordsAt(index', p) : ValueOf(data[r], stage) = v
  BY <1>1, <1>2, SortedRun, Zenon
<1>5. \A r \in RecordsAt(index', p) : r \in Records
  <2>1. \A k \in Span(p) : k \in Records
    BY <1>3, InRecords DEF Span
  <2>2. index' \in [Records -> Records]
    <3>1. /\ index \in [Records -> Records] /\ IsInjective(index)
          /\ node.front \in 0 .. N /\ node.back \in 0 .. N
      BY <1>1 DEF IInv, TypeOK, Nodes
    <3> QED BY <1>1, <3>1, SortKeeps, SMT
  <2> QED BY <2>1, <2>2 DEF RecordsAt
<1>6. \A r \in RecordsAt(index', p) : Attr[stage][r] = v
  BY <1>1, <1>4, <1>5, AttrValue
<1> QED BY <1>2, <1>6 DEF p

\* The sort that ends a node cuts its pivot into one run per value.
LEMMA SortNodeRefines ==
    ASSUME IInv, IInv', PartsCounted, HashesKeepOrder, SortNode
    PROVE  [P!Next]_(P!vars)
<1> USE DEF SortNode, spatialVars
<1> DEFINE parts == node.parts
           X == current[pos]
           pivots == [i \in DOMAIN parts |-> Pivot(parts[i].front, parts[i].back)]
<1>1. /\ node \in Nodes /\ stage \in 1 .. Dims /\ pos \in DOMAIN current
      /\ node.front = X.front /\ node.back = X.back
      /\ Chain(parts, node.front, node.back)
      /\ Next
  <2>1. /\ node \in Nodes /\ stage \in 1 .. Dims /\ pos \in DOMAIN current
        /\ node.front = X.front /\ node.back = X.back
        /\ Counts({}, node.back - node.accum)
        /\ Chain(parts, node.front, node.accum)
    BY DEF IInv, TypeOK, NodeFits
  <2>2. node.back - node.accum = 0
    BY <2>1, CountsNothing, SMT
  <2>3. node.back = node.accum
    <3>1. node.back \in Int /\ node.accum \in Int
      BY <2>1, Sizes, SMT DEF Nodes
    <3> QED BY <2>2, <3>1
  <2>4. Next
    BY DEF Next
  <2> QED BY <2>1, <2>3, <2>4
<1>2. /\ current \in Seq(Pivots) /\ Chain(current, 0, N) /\ response \in Seq(Pivots)
      /\ pos \in Nat \ {0} /\ pos <= Len(current) /\ Len(current) \in Nat
  <2>1. TypeOK /\ ResponseCovers /\ stage > 0
    BY <1>1, Sizes DEF IInv
  <2>2. current \in Seq(Pivots) /\ response \in Seq(Pivots) /\ Chain(current, 0, N)
    BY <2>1 DEF TypeOK, ResponseCovers
  <2>3. pos \in Nat \ {0}
    BY <2>1 DEF TypeOK
  <2> HIDE DEF SortNode
  <2> QED BY <1>1, <2>2, <2>3
<1>3. /\ call = None /\ stack = << >> /\ Cursor = X.front
      /\ X \in Pivots /\ X.front \in Int /\ X.back \in Int /\ X.front < X.back
  <2>1. call = None /\ stack = << >> /\ Cursor = X.front /\ X \in Pivots
    BY <1>1, <1>2, InLaterPass
  <2>2. X.front < X.back
    BY <1>1, <1>2 DEF Chain
  <2> QED BY <2>1, <2>2, Sizes, SMT DEF Pivots
<1>4. parts \in Seq(Parts)
  BY <1>1 DEF Nodes
<1>5. stage' = stage /\ stage \in 0 .. Dims /\ stage # 0
  BY <1>1, Sizes
<1>6. \A i \in pos + 1 .. Len(current) :
        i \in DOMAIN current /\ X.back <= current[i].front
  <2>1. \A x \in Pivots : x.front \in Int /\ x.back \in Int
    BY Sizes DEF Pivots
  <2>2. \A i, j \in DOMAIN current : i < j => current[i].back <= current[j].front
    <3> HIDE DEF SortNode
    <3>1. 0 \in Int /\ N \in Int
      BY Sizes
    <3>2. current \in Seq(Pivots) /\ Chain(current, 0, N)
      BY <1>2
    <3> QED BY <2>1, <3>1, <3>2, ChainAscends, Zenon
  <2>3. \A i \in pos + 1 .. Len(current) : i \in DOMAIN current /\ pos < i
    BY <1>2
  <2> QED BY <1>1, <2>2, <2>3
<1>7. \A i \in pos .. Len(current) : i = pos \/ i \in pos + 1 .. Len(current)
  BY <1>2
<1>8. pos \in pos .. Len(current) /\ \A i \in pos + 1 .. Len(current) : i \in pos .. Len(current)
  BY <1>2
<1> DEFINE M == {Pivot(parts[i].front, parts[i].back) : i \in DOMAIN parts}
<1>9. Range(response') = Range(response) \cup M
  <2>1. pivots \in Seq(Pivots) /\ response \in Seq(Pivots)
    BY <1>2, <1>4, PivotsOf, Zenon
  <2>2. Range(pivots) = M
    BY DEF Range
  <2>3. response' = response \o pivots
    OBVIOUS
  <2> HIDE DEF pivots, SortNode, M
  <2>4. Range(response \o pivots) = Range(response) \cup Range(pivots)
    BY <2>1, RangeConcatenation, SMT
  <2> QED BY <2>2, <2>3, <2>4
<1> DEFINE rest == {current[i] : i \in pos + 1 .. Len(current)}
<1>10. Pieces = Range(response) \cup {X} \cup rest
  <2>1. {Pivot(f.accum, f.back) : f \in Range(stack)} = {}
    BY <1>3 DEF Range
  <2>2. Pieces = Range(response) \cup {current[i] : i \in pos .. Len(current)}
    BY <1>1, <1>3, <2>1 DEF Pieces
  <2> HIDE DEF SortNode
  <2> QED BY <1>7, <1>8, <2>2
<1>11. Pieces' = Range(response') \cup rest
  <2>1. /\ pos' = pos + 1 /\ stage' = stage /\ call' = None /\ stack' = << >>
        /\ current' = current
    BY <1>3
  <2>2. {Pivot(f.accum, f.back) : f \in Range(<< >>)} = {}
    BY DEF Range
  <2> HIDE DEF SortNode
  <2> QED BY <1>1, <2>1, <2>2 DEF Pieces
<1> HIDE DEF SortNode
<1>12. X \in Pieces
  BY <1>10
<1>13. \A p \in Range(response) \cup rest : p # X
  <2>1. \A p \in Range(response) : p.back <= X.front
    BY <1>3, AnsweredBefore
  <2>2. \A p \in rest : X.back <= p.front
    BY <1>6
  <2> QED BY <1>3, <2>1, <2>2
<1>14. /\ \A p \in Pieces' : (p \in Pieces /\ p # X) \/ p \in M
       /\ \A p \in Pieces : p = X \/ p \in Pieces'
       /\ \A p \in M : p \in Pieces'
  <2> HIDE DEF M, rest
  <2> QED BY <1>9, <1>10, <1>11, <1>13
<1>15. \A i \in DOMAIN parts :
         RecordsAt(index', Pivot(parts[i].front, parts[i].back)) = RecordsAt(index', parts[i])
  BY DEF RecordsAt, Span, Pivot
<1>16. UNION {RecordsAt(index', p) : p \in M} = RecordsAt(index, X)
  <2>1. RecordsAt(index', X) = RecordsAt(index, X)
    BY <1>1, <1>12, StepKeepsPieces
  <2>2. \A x \in Parts : x.front \in Int /\ x.back \in Int
    BY Sizes DEF Parts
  <2>3. Chain(parts, X.front, X.back)
    BY <1>1
  <2>4. \A k \in Span(X) : \E i \in DOMAIN parts : k \in Span(parts[i])
    <3> HIDE DEF parts, X
    <3> QED BY <1>3, <1>4, <2>2, <2>3, ChainCovers, SMT DEF Span
  <2>5. \A i \in DOMAIN parts : Span(parts[i]) \subseteq Span(X)
    <3>1. \A i \in DOMAIN parts :
            /\ X.front <= parts[i].front /\ parts[i].back <= X.back
            /\ parts[i].front \in Int /\ parts[i].back \in Int
      <4> HIDE DEF parts, X
      <4>1. \A i \in DOMAIN parts : parts[i] \in Parts
        BY <1>4
      <4> QED BY <1>3, <1>4, <2>2, <2>3, <4>1, ChainAscends, SMT
    <3> HIDE DEF parts, X
    <3> QED BY <1>3, <3>1 DEF Span
  <2>6. UNION {RecordsAt(index', parts[i]) : i \in DOMAIN parts} = RecordsAt(index', X)
    BY <2>4, <2>5 DEF RecordsAt
  <2>7. {RecordsAt(index', p) : p \in M} = {RecordsAt(index', parts[i]) : i \in DOMAIN parts}
    BY <1>15
  <2> QED BY <2>1, <2>6, <2>7
<1>17. \A p, q \in M : RecordsAt(index', p) # RecordsAt(index', q) =>
         \A r \in RecordsAt(index', p), t \in RecordsAt(index', q) :
            Attr[stage][r] # Attr[stage][t]
  <2> SUFFICES ASSUME NEW i \in DOMAIN parts, NEW j \in DOMAIN parts,
                      RecordsAt(index', parts[i]) # RecordsAt(index', parts[j]),
                      NEW r \in RecordsAt(index', parts[i]),
                      NEW t \in RecordsAt(index', parts[j]),
                      Attr[stage][r] = Attr[stage][t]
               PROVE  FALSE
    BY <1>15
  <2>1. PICK v \in Nat :
          /\ \A q \in RecordsAt(index', parts[i]) : Attr[stage][q] = v
          /\ parts[i].front = node.front + CountBelow(Values(node), v)
          /\ parts[i].back = node.front + CountBelow(Values(node), v + 1)
    BY PartUniform
  <2>2. PICK w \in Nat :
          /\ \A q \in RecordsAt(index', parts[j]) : Attr[stage][q] = w
          /\ parts[j].front = node.front + CountBelow(Values(node), w)
          /\ parts[j].back = node.front + CountBelow(Values(node), w + 1)
    BY PartUniform
  <2>3. v = w
    BY <2>1, <2>2
  <2>4. parts[i].front = parts[j].front /\ parts[i].back = parts[j].back
    BY <2>1, <2>2, <2>3, Zenon
  <2>5. RecordsAt(index', parts[i]) = RecordsAt(index', parts[j])
    BY <2>4 DEF RecordsAt, Span
  <2> QED BY <2>5
<1> HIDE DEF M, X
<1> QED BY <1>1, <1>3, <1>5, <1>12, <1>14, <1>16, <1>17, SplitStep

-----------------------------------------------------------------------------
(* The end of a pass.                                                      *)

\* No pass has to split a block b further.
DoneIn(p, b) == \/ \A r, q \in b : Attr[p][r] = Attr[p][q]
                \/ p = 0 /\ Cardinality(b) <= Leaf

\* What a pass has answered it need not split further.
AnsweredDone == \A p \in Range(response) : DoneIn(stage, RecordsAt(index, p))

\* A leaf answers few records, or records of one tile of the finest zooms.
LEMMA LeafDone ==
    ASSUME IInv, SpatialHolds, LevelsReach, LeafTile
    PROVE  DoneIn(0, RecordsAt(index, Pivot(call.front, call.back)))
<1> DEFINE R == RecordsAt(index, Pivot(call.front, call.back))
<1>1. R = RecordsAt(index, call)
  BY DEF RecordsAt, Span, Pivot
<1>2. /\ call \in Calls /\ call # None
      /\ call.level >= MaxZoom * Keys \/ Size(call) <= Leaf
  BY DEF LeafTile, IInv, TypeOK
<1>3. CASE call.level >= MaxZoom * Keys
  <2>1. \A r, q \in R : Attr[0][r] = Attr[0][q]
    BY <1>1, <1>2, <1>3, DeepestUniform
  <2> QED BY <2>1 DEF DoneIn
<1>4. CASE Size(call) <= Leaf
  <2>1. /\ call.front \in Int /\ call.back \in Int /\ call.front <= call.back
        /\ call.front \in 0 .. N /\ call.back \in 0 .. N
    <3>1. call.front \in 0 .. N /\ call.back \in 0 .. N /\ call.front < call.back
      BY <1>2 DEF Calls, IInv, CallFits
    <3> QED BY <3>1, Sizes, SMT
  <2>2. Cardinality(RecordsAt(index, call)) <= Size(call)
    BY <2>1, SpanCount
  <2>3. IsFiniteSet(RecordsAt(index, call))
    <3>1. IsFiniteSet(Span(call))
      BY <2>1, SpanFinite DEF Span
    <3> DEFINE D == Span(call)
               f == [i \in D |-> index[i]]
    <3>2. f \in Surjection(D, RecordsAt(index, call))
      BY DEF Surjection, RecordsAt
    <3> HIDE DEF f, D
    <3>3. IsFiniteSet(D)
      BY <3>1 DEF D
    <3> QED BY <3>2, <3>3, FS_Surjection
  <2>4. Cardinality(RecordsAt(index, call)) \in Nat /\ Size(call) \in Int /\ Leaf \in Int
    <3>1. Leaf \in Nat
      BY CubeAssumption
    <3> QED BY <2>1, <2>3, <3>1, FS_CardinalityType DEF Size
  <2>5. Cardinality(RecordsAt(index, call)) <= Leaf
    BY <1>4, <2>2, <2>4
  <2> QED BY <1>1, <2>5 DEF DoneIn
<1> QED BY <1>2, <1>3, <1>4

\* Every step keeps it so.
LEMMA NextAnsweredDone ==
    ASSUME IInv, SpatialHolds, LevelsReach, PartsCounted, HashesKeepOrder,
           AnsweredDone, [Next]_vars
    PROVE  AnsweredDone'
<1>1. Attr' = Attr
  BY DataStays, AttrStays
<1>2. SUFFICES ASSUME NEW p \in Range(response')
               PROVE  DoneIn(stage', RecordsAt(index', p))
  BY <1>1 DEF AnsweredDone, DoneIn, RecordsAt, Span
<1>3. CASE p \in Range(response) /\ stage' = stage
  <2>1. CASE Next
    <3>1. p \in Pieces
      BY <1>3 DEF Pieces
    <3>2. RecordsAt(index', p) = RecordsAt(index, p)
      BY <2>1, <3>1, StepKeepsPieces
    <3> QED BY <1>3, <3>2 DEF AnsweredDone
  <2>2. CASE UNCHANGED vars
    BY <1>3, <2>2 DEF AnsweredDone, vars
  <2> QED BY <2>1, <2>2
<1>4. CASE LeafTile
  <2>1. p \in Range(response) \/ p = Pivot(call.front, call.back)
    <3> DEFINE c == Pivot(call.front, call.back)
    <3>1. response \in Seq(Pivots) /\ response' = Append(response, c) /\ c \in Pivots
      BY <1>4 DEF LeafTile, IInv, TypeOK, Calls, Pivot, Pivots
    <3> HIDE DEF c
    <3>2. Range(Append(response, c)) = Range(response) \cup {c}
      BY <3>1, RangeAppend, SMT
    <3> QED BY <3>1, <3>2 DEF c
  <2>2. stage = 0 /\ stage' = stage /\ index' = index
    BY <1>4, InSpatialPass DEF LeafTile
  <2> QED BY <1>3, <1>4, <2>1, <2>2, LeafDone
<1>5. CASE SortNode
  <2>1. /\ stage' = stage /\ response \in Seq(Pivots) /\ node.parts \in Seq(Parts)
    BY <1>5 DEF SortNode, IInv, TypeOK, Nodes
  <2>2. \/ p \in Range(response)
        \/ \E i \in DOMAIN node.parts :
             p = Pivot(node.parts[i].front, node.parts[i].back)
    <3> DEFINE parts == node.parts
               pivots == [i \in DOMAIN parts |-> Pivot(parts[i].front, parts[i].back)]
    <3>1. pivots \in Seq(Pivots) /\ response \in Seq(Pivots)
      BY <2>1, PivotsOf, Zenon
    <3>2. response' = response \o pivots
      BY <1>5 DEF SortNode
    <3>3. \A x \in Range(pivots) : \E i \in DOMAIN parts :
             x = Pivot(parts[i].front, parts[i].back)
      BY DEF Range
    <3> HIDE DEF pivots
    <3>4. Range(response \o pivots) = Range(response) \cup Range(pivots)
      BY <3>1, RangeConcatenation, SMT
    <3> QED BY <3>2, <3>3, <3>4
  <2>3. CASE p \in Range(response)
    BY <1>3, <2>1, <2>3
  <2>4. CASE \E i \in DOMAIN node.parts :
               p = Pivot(node.parts[i].front, node.parts[i].back)
    <3>1. PICK i \in DOMAIN node.parts :
             p = Pivot(node.parts[i].front, node.parts[i].back)
      BY <2>4
    <3>2. RecordsAt(index', p) = RecordsAt(index', node.parts[i])
      BY <3>1 DEF RecordsAt, Span, Pivot
    <3>3. PICK v \in Nat : \A r \in RecordsAt(index', node.parts[i]) : Attr[stage][r] = v
      BY <1>5, PartUniform
    <3> QED BY <2>1, <3>2, <3>3 DEF DoneIn
  <2> QED BY <2>2, <2>3, <2>4
<1>6. CASE EndPass
  BY <1>6 DEF EndPass, Range
<1>7. CASE ~LeafTile /\ ~SortNode /\ ~EndPass
  <2>1. response' = response /\ stage' = stage
    BY <1>7 DEF Next, SplitTile, NextChild, ReturnTile, OpenNode, EmplacePart, vars
  <2> QED BY <1>3, <2>1
<1> QED BY <1>4, <1>5, <1>6, <1>7

\* A pass ends when it has answered everything, and starts the next one on
\* the same blocks.
LEMMA EndPassRefines ==
    ASSUME IInv, IInv', AnsweredDone, EndPass
    PROVE  [P!Next]_(P!vars)
<1> USE DEF EndPass, spatialVars
<1>1. /\ stage \in 0 .. Dims /\ stage' = stage + 1
      /\ response \in Seq(Pivots) /\ current' = response /\ index' = index
      /\ stage = 0 \/ pos > Len(current)
      /\ pos \in Nat \ {0} /\ current \in Seq(Pivots)
      /\ Range(response') = {} /\ Range(stack) = {} /\ Range(stack') = {}
  BY DEF IInv, TypeOK, Range
<1>2. Next
  BY DEF Next
<1> DEFINE R == Range(response)
<1>3. Blocks = BlocksOf(index, R)
  <2>1. stage \in 1 .. Dims => pos .. Len(current) = {}
    BY <1>1, Sizes
  <2>2. Pieces = R
    BY <1>1, <2>1 DEF Pieces
  <2> QED BY <1>1, <2>2, BlocksArePieces
<1>4. Blocks' = BlocksOf(index, R)
  <2>1. CASE stage' \in 1 .. Dims
    <3>1. stage' \in 0 .. Dims
      BY <2>1, Sizes
    <3>2. {response[i] : i \in 1 .. Len(response)} = R
      BY <1>1 DEF Range
    <3>3. Pieces' = R
      BY <1>1, <2>1, <3>2 DEF Pieces
    <3>4. Blocks' = BlocksOf(index', Pieces')
      <4> HIDE DEF EndPass
      <4> QED BY <3>1, BlocksFitNext DEF BlocksFit, BlocksOf, RecordsAt
    <3> QED BY <1>1, <3>3, <3>4
  <2>2. CASE stage' \notin 1 .. Dims
    <3>1. stage' # 0
      BY <1>1, Sizes
    <3>2. Pending' = R
      <4>1. Pending' = Range(current')
        BY <2>2, <3>1 DEF Pending
      <4> QED BY <1>1, <4>1
    <3> QED BY <1>1, <3>2 DEF Blocks, BlocksOf, RecordsOf, RecordsAt
  <2> QED BY <2>1, <2>2
<1>5. \A b \in Blocks : P!Done(b)
  <2> HIDE DEF EndPass
  <2>1. \A b \in BlocksOf(index, R) : DoneIn(stage, b)
    BY DEF BlocksOf, AnsweredDone
  <2>2. \A b : DoneIn(stage, b) => P!Done(b)
    <3>1. \A b : (\A r, q \in b : Attr[stage][r] = Attr[stage][q]) => P!Uniform(b)
      BY Zenon DEF P!Uniform
    <3>2. ASSUME NEW b, stage = 0, Cardinality(b) <= Leaf PROVE P!Done(b)
      <4>1. P!Cardinality(b) = Cardinality(b)
        BY DEF Cardinality, P!Cardinality
      <4> QED BY <3>2, <4>1 DEF P!Done
    <3>3. \A b : P!Uniform(b) => P!Done(b)
      BY DEF P!Done
    <3> QED BY <3>1, <3>2, <3>3 DEF DoneIn
  <2> QED BY <1>3, <2>1, <2>2
<1>6. Attr' = Attr
  BY AttrStays
<1>7. P!Advance
  <2> HIDE DEF EndPass, R
  <2>1. UNCHANGED <<Attr, Blocks>>
    BY <1>3, <1>4, <1>6
  <2> QED BY <1>1, <1>5, <2>1, Zenon DEF P!Advance
<1> QED BY <1>7 DEF P!Next

-----------------------------------------------------------------------------
(* The theorem.                                                            *)

\* The build starts with one block, the dataset.
LEMMA InitRefines ==
    ASSUME Init
    PROVE  P!Init
<1> USE DEF Init
<1>1. IInv /\ stage \in 0 .. Dims
  BY InitIInv, Sizes
<1>2. Pieces = IF N = 0 THEN {} ELSE {Pivot(0, N)}
  <2>1. Range(response) = {} /\ Range(stack) = {}
    BY DEF Range
  <2>2. CASE N = 0
    BY <2>1, <2>2, SpatialPieces
  <2>3. CASE N # 0
    <3>1. call = RootCall
      BY <2>3
    <3>2. RootCall.front = 0 /\ RootCall.back = N
      BY DEF RootCall
    <3>3. RootCall # None
      <4>1. RootCall \in Calls
        BY Sizes, SMT DEF RootCall, Calls, KeyZooms
      <4> QED BY <4>1, Sizes
    <3> HIDE DEF Init
    <3>4. stage = 0
      BY DEF Init
    <3> QED BY <2>1, <2>3, <3>1, <3>2, <3>3, <3>4, SpatialPieces
  <2> QED BY <2>2, <2>3
<1>3. RecordsAt(index, Pivot(0, N)) = Records
  BY DEF RecordsAt, Span, Pivot, Records
<1>4. N = 0 => Records = {}
  BY DEF Records
<1>5. Blocks = {Records} \ {{}}
  <2>1. Blocks = BlocksOf(index, Pieces)
    BY <1>1, BlocksArePieces
  <2> HIDE DEF Init
  <2> QED BY <1>2, <1>3, <1>4, <2>1 DEF BlocksOf
<1> QED BY <1>5 DEF P!Init

\* The invariants a step is shown to be one of a partition from. What the
\* hash keeps of the values is fixed with the dataset.
RefinesInv ==
    /\ IInv /\ PiecesFit /\ SpatialHolds /\ LevelsReach /\ PartsCounted
    /\ HashesKeepOrder /\ AnsweredDone

LEMMA InitRefinesInv == Init /\ HashesKeepOrder => RefinesInv
<1>1. Init => AnsweredDone
  BY DEF Init, AnsweredDone, Range
<1> QED BY <1>1, InitTilesInv, InitPartsCounted DEF RefinesInv, TilesInv

LEMMA NextRefinesInv ==
    ASSUME RefinesInv, [Next]_vars
    PROVE  RefinesInv'
<1> USE DEF RefinesInv
<1>1. (IInv /\ PiecesFit /\ SpatialHolds /\ LevelsReach)'
  BY NextTilesInv DEF TilesInv
<1>2. PartsCounted'
  BY NextPartsCounted
<1>3. HashesKeepOrder'
  BY DataStays DEF HashesKeepOrder
<1>4. AnsweredDone'
  BY NextAnsweredDone
<1> QED BY <1>1, <1>2, <1>3, <1>4

LEMMA NextRefines ==
    ASSUME RefinesInv, [Next]_vars
    PROVE  [P!Next]_(P!vars)
<1> USE DEF RefinesInv
<1>0. IInv'
  BY NextKeeps
<1>1. CASE SplitTile
  BY <1>0, <1>1, SplitTileRefines
<1>2. CASE NextChild
  BY <1>0, <1>2, NextChildRefines
<1>3. CASE LeafTile
  BY <1>0, <1>3, LeafTileRefines
<1>4. CASE ReturnTile
  BY <1>0, <1>4, ReturnTileRefines
<1>5. CASE OpenNode \/ EmplacePart
  BY <1>0, <1>5, LoopRefines
<1>6. CASE SortNode
  BY <1>0, <1>6, SortNodeRefines
<1>7. CASE EndPass
  BY <1>0, <1>7, EndPassRefines
<1>8. CASE UNCHANGED vars
  <2>1. stage' = stage /\ Blocks' = Blocks
    BY <1>8 DEF vars, Blocks, RecordsOf, Span, Pending
  <2> QED BY <2>1, StutterStep
<1> QED BY <1>1, <1>2, <1>3, <1>4, <1>5, <1>6, <1>7, <1>8 DEF Next

\* The build is progressive partitioning, for every dataset, schema and size:
\* each step replaces one block by separated parts of it, starts the next
\* pass, or changes no block, and a pass ends only when no block still mixes
\* tiles of the finest zooms or values that it had to separate. It asks what
\* PartsHold asks, that the values of the dataset keep their order in the 16
\* bits of Data::setHash.
THEOREM Refines == Spec /\ HashesKeepOrder => RefinesPartition
<1>1. Init /\ HashesKeepOrder => RefinesInv /\ P!Init
  BY InitRefinesInv, InitRefines
<1>2. RefinesInv /\ [Next]_vars => RefinesInv' /\ [P!Next]_(P!vars)
  BY NextRefinesInv, NextRefines
<1> QED BY <1>1, <1>2, PTL DEF Spec, RefinesPartition, P!Spec


-----------------------------------------------------------------------------
(***************************************************************************)
(* The quadtree the spatial pass leaves: the children of a tile cover it,  *)
(* lie apart and take different slots of TileNode::_container.             *)
(***************************************************************************)
-----------------------------------------------------------------------------
(* The invariant. Calls nest one level per call, so a tile is known by its *)
(* level and its span.                                                     *)

\* Calls and frames are as deep as the stack says, and no loop is below the
\* last level.
Levels ==
    /\ \A i \in DOMAIN stack : stack[i].level = i - 1
    /\ call # None => call.level = Len(stack)
    /\ \A n \in tiles : ~n.last => n.level < MaxZoom * Keys

\* Tiles of one level lie apart, and none is empty.
LevelsApart ==
    /\ \A m \in tiles : m.front < m.back
    /\ \A m, o \in tiles : m.level = o.level => m = o \/ Apart(m, o)

\* What is deeper than an active call is behind it.
DeepBehind ==
    stage = 0 =>
        /\ \A m \in tiles : m.level >= Len(stack) => m.back <= Cursor
        /\ \A i \in DOMAIN stack : \A m \in tiles :
             m.level >= stack[i].level => m.back <= stack[i].back

\* n is the tile of the loop f.
IsNode(n, f) ==
    ~n.last /\ n.level = f.level /\ n.back = f.back /\ n.front <= f.accum

\* Every loop has its tile, and the call under way lies in that of the
\* innermost one.
LoopsHaveTiles ==
    /\ \A i \in DOMAIN stack : \E n \in tiles : IsNode(n, stack[i])
    /\ call # None /\ stack # << >> =>
         \E n \in tiles : IsNode(n, Top) /\ n.front <= call.front

\* A position of an inner tile is in one of its children, or its turn comes.
Covered ==
    \A n \in tiles : ~n.last => \A k \in Span(n) :
        \/ \E m \in Children(n) : k \in Span(m)
        \/ \E i \in DOMAIN stack : /\ stack[i].level = n.level
                                   /\ k \in stack[i].accum .. stack[i].back - 1
        \/ call # None /\ call.level = n.level + 1 /\ k \in Span(call)

\* The zoom the children of a level are tiles of.
ChildZoom(level) == (level + 1) \div Keys

\* Of the records of n, c has those of its tile and no others.
HasItsOwn(n, c) ==
    \A r \in RecordsAt(index, n) :
        r \in RecordsAt(index, c)
          <=> TileOf(data[r], c.level % Keys, c.z) = [x |-> c.x, y |-> c.y]

\* The records of n that loop f has passed are in other tiles than those it
\* has left.
PassedApart(dataset, ix, n, f) ==
    LET d == NextKey(f.level)
        z == f.zoom[d].z
    IN  \A r \in RecordsAt(ix, Pivot(n.front, f.accum)) :
          \A q \in RecordsAt(ix, Pivot(f.accum, f.back)) :
            TileOf(dataset[r], d, z) # TileOf(dataset[q], d, z)

\* The records of n share the parent tile of its children.
SharesParent(n) ==
    LET d == NextKey(n.level)
        z == ChildZoom(n.level)
    IN  z > 0 => \A r, q \in RecordsAt(index, n) :
                    TileOf(data[r], d, z - 1) = TileOf(data[q], d, z - 1)

SiblingsFit ==
    /\ \A n \in tiles : ~n.last =>
         /\ SharesParent(n)
         /\ \A m \in Children(n) : m.z = ChildZoom(n.level) /\ HasItsOwn(n, m)
    /\ \A i \in DOMAIN stack : \A n \in tiles :
         IsNode(n, stack[i]) => PassedApart(data, index, n, stack[i])
    /\ call # None /\ stack # << >> =>
         \A n \in tiles : IsNode(n, Top) => HasItsOwn(n, call)

TreeInv ==
    /\ Levels /\ LevelsApart /\ DeepBehind /\ LoopsHaveTiles /\ Covered
    /\ SiblingsFit

-----------------------------------------------------------------------------
(* What the steps of the recursion do to calls, frames and tiles.          *)

CallShape ==
    /\ call \in Calls /\ call.level \in Nat
    /\ call.front \in Int /\ call.back \in Int /\ call.front < call.back
    /\ call.front \in 0 .. N /\ call.back \in 0 .. N
    /\ stage = 0 /\ Cursor = call.front
    /\ stack # << >> => call.back = Top.accum

\* A call under way.
LEMMA CallFacts ==
    ASSUME IInv, call # None
    PROVE  CallShape
<1>1. /\ call \in Calls /\ stage = 0 /\ Cursor = call.front
      /\ call.front < call.back
      /\ stack # << >> => call.back = Top.accum
  BY InSpatialPass DEF IInv, TypeOK, CallFits, Cursor
<1>2. call.level \in Nat /\ call.front \in 0 .. N /\ call.back \in 0 .. N
  BY <1>1 DEF Calls
<1> QED BY <1>1, <1>2, Sizes DEF CallShape

FrameShape(i) ==
    /\ stack[i] \in Frames /\ stack[i].level \in Nat
    /\ stack[i].accum \in Int /\ stack[i].back \in Int
    /\ stack[i].accum \in 0 .. N /\ stack[i].back \in 0 .. N
    /\ stack[i].accum <= stack[i].back
    /\ i \in Nat /\ 1 <= i /\ i <= Len(stack) /\ Len(stack) \in Nat
    /\ Len(stack) \in DOMAIN stack /\ stack # << >> /\ stage = 0

\* A loop of the recursion.
LEMMA FrameFacts ==
    ASSUME IInv, NEW i \in DOMAIN stack
    PROVE  FrameShape(i)
<1>1. /\ stack \in Seq(Frames) /\ stack[i] \in Frames
      /\ stack[i].accum <= stack[i].back
  BY DEF IInv, TypeOK, StackNests, FrameFits
<1>2. /\ i \in Nat /\ 1 <= i /\ i <= Len(stack) /\ Len(stack) \in Nat
      /\ Len(stack) \in DOMAIN stack /\ stack # << >>
  BY <1>1
<1>3. stage = 0
  BY <1>2, InSpatialPass
<1>4. /\ stack[i].level \in Nat /\ stack[i].accum \in 0 .. N
      /\ stack[i].back \in 0 .. N
  BY <1>1 DEF Frames
<1> QED BY <1>1, <1>2, <1>3, <1>4, Sizes DEF FrameShape

TileShape(n) ==
    /\ n \in TileNodes /\ n.level \in Nat
    /\ n.front \in Int /\ n.back \in Int /\ n.front \in 0 .. N /\ n.back \in 0 .. N

\* A tile made.
LEMMA TileFacts ==
    ASSUME IInv, NEW n \in tiles
    PROVE  TileShape(n)
<1>1. n \in TileNodes
  BY DEF IInv, TypeOK
<1>2. n.level \in Nat /\ n.front \in 0 .. N /\ n.back \in 0 .. N
  BY <1>1 DEF TileNodes
<1> QED BY <1>1, <1>2, Sizes DEF TileShape

\* A split pushes a frame and makes a tile.
SplitShape ==
    /\ stack' \in Seq(Frames) /\ Len(stack') = Len(stack) + 1
    /\ Len(stack) \in Nat /\ DOMAIN stack' = 1 .. Len(stack) + 1
    /\ DOMAIN stack = 1 .. Len(stack)
    /\ \A i \in DOMAIN stack : stack'[i] = stack[i]
    /\ stack'[Len(stack) + 1] = FrameOf(call)
    /\ tiles' = tiles \cup {TileNode(call, FALSE)}
    /\ call' = None /\ stage' = 0 /\ call # None
    /\ Cursor' = call.front

\* A split: its node becomes a tile, its loop starts at the front of the call.
LEMMA SplitFacts ==
    ASSUME IInv, SplitTile
    PROVE  SplitShape
<1> USE DEF SplitTile, nodeVars
<1>1. stage = 0 /\ stage' = 0 /\ call \in Calls
  BY InSpatialPass DEF IInv, TypeOK
<1>2. stack \in Seq(Frames) /\ stack' = Append(stack, FrameOf(call)) /\ FrameOf(call) \in Frames
  <2>1. Count(ChildTile(call)) \in UsedMaps(Tile)
    BY SplitCounts, Zenon
  <2> QED BY <1>1, <2>1 DEF IInv, TypeOK, Calls, Frames, FrameOf
<1> DEFINE frame == FrameOf(call)
<1>3. /\ stack' \in Seq(Frames) /\ Len(stack') = Len(stack) + 1
      /\ Len(stack) \in Nat /\ DOMAIN stack' = 1 .. Len(stack) + 1
      /\ DOMAIN stack = 1 .. Len(stack)
      /\ \A i \in DOMAIN stack : stack'[i] = stack[i]
      /\ stack'[Len(stack) + 1] = FrameOf(call)
  <2> HIDE DEF SplitTile
  <2> QED BY <1>2
<1>4. Cursor' = call.front
  <2>1. stack' # << >> /\ call' = None /\ Top' = FrameOf(call)
    BY <1>3 DEF Top
  <2> QED BY <2>1 DEF Cursor, FrameOf
<1> QED BY <1>1, <1>3, <1>4 DEF SplitShape

\* A leaf makes its tile and those of the other keys below it.
LeafShape ==
    /\ call' = None /\ call # None /\ stack' = stack /\ stage' = 0
    /\ tiles' = tiles \cup {TileNode(call, TRUE)} \cup ChainTiles(call)
    /\ \A n \in tiles' : n \in tiles \/
         /\ n.last /\ n.front = call.front /\ n.back = call.back
         /\ n.level \in Nat /\ n.level >= call.level
    /\ \A n, m \in tiles' \ tiles : n.level = m.level => n = m
    /\ \A n \in tiles' \ tiles : n.level = call.level => n = TileNode(call, TRUE)
    /\ Cursor' = call.back
    /\ index' = index

\* A leaf: its node and the chain below it become tiles.
LEMMA LeafFacts ==
    ASSUME IInv, LeafTile
    PROVE  LeafShape
<1> USE DEF LeafTile, nodeVars
<1>1. call # None /\ CallShape /\ stage' = 0
  BY CallFacts DEF CallShape
<1> DEFINE z(j) == call.zoom[(call.level + j) % Keys]
           C(j) == TileNode([call EXCEPT !.level = @ + j, !.x = z(j).x, !.y = z(j).y,
                                         !.z = (z(j).z - 1) % 32], TRUE)
           T == TileNode(call, TRUE)
<1>2. T.last /\ T.front = call.front /\ T.back = call.back /\ T.level = call.level
  BY DEF TileNode
<1>3. \A j \in 1 .. Keys - 1 :
        /\ C(j).last /\ C(j).front = call.front /\ C(j).back = call.back
        /\ C(j).level = call.level + j
  BY <1>1 DEF TileNode, CallShape, Calls
<1>4. \A n \in ChainTiles(call) : \E j \in 1 .. Keys - 1 : n = C(j)
  BY Zenon DEF ChainTiles
<1>5. \A n \in tiles' : n \in tiles \/ n = T \/ \E j \in 1 .. Keys - 1 : n = C(j)
  BY <1>4
<1> HIDE DEF LeafTile, T, C
<1>6. call.level \in Nat /\ Keys \in Nat
  BY <1>1, Sizes DEF CallShape
<1>7. \A n \in tiles' : n \in tiles \/
         /\ n.last /\ n.front = call.front /\ n.back = call.back
         /\ n.level \in Nat /\ n.level >= call.level
  BY <1>2, <1>3, <1>5, <1>6
<1>8. \A n, m \in tiles' \ tiles : n.level = m.level => n = m
  BY <1>2, <1>3, <1>5, <1>6
<1>9. \A n \in tiles' \ tiles : n.level = call.level => n = T
  BY <1>2, <1>3, <1>5, <1>6
<1>10. Cursor' = call.back
  <2>1. call' = None /\ stack' = stack /\ stage' = 0 /\ 0 \notin 1 .. Dims /\ 0 # Dims + 1
    BY <1>1, Sizes DEF LeafTile
  <2>2. CASE stack # << >>
    <3>1. call.back = Top.accum
      BY <1>1, <2>2 DEF CallShape
    <3> QED BY <2>1, <2>2, <3>1 DEF Cursor, Top
  <2>3. CASE stack = << >>
    <3>1. call.back = N
      BY <1>1, <2>3 DEF IInv, CallFits
    <3> QED BY <2>1, <2>3, <3>1 DEF Cursor
  <2> QED BY <2>2, <2>3
<1> QED BY <1>1, <1>7, <1>8, <1>9, <1>10 DEF LeafShape, LeafTile, T

\* A return drops a frame that has nothing left.
ReturnShape ==
    /\ call' = None /\ call = None /\ tiles' = tiles /\ stage' = 0 /\ index' = index
    /\ stack # << >> /\ Len(stack) \in DOMAIN stack
    /\ stack' \in Seq(Frames) /\ Len(stack') = Len(stack) - 1
    /\ \A i \in DOMAIN stack' : i \in DOMAIN stack /\ stack'[i] = stack[i]
    /\ \A i \in DOMAIN stack : i \in DOMAIN stack' \/ i = Len(stack)
    /\ Top.accum = Top.back /\ Cursor' = Top.back

\* A return: the innermost loop has ended.
LEMMA ReturnFacts ==
    ASSUME IInv, ReturnTile
    PROVE  ReturnShape
<1> USE DEF ReturnTile, nodeVars
<1>1. stack \in Seq(Frames) /\ stack # << >> /\ Len(stack) \in DOMAIN stack
  <2>1. stack \in Seq(Frames) /\ stack # << >>
    BY DEF IInv, TypeOK
  <2> QED BY <2>1
<1>2. FrameShape(Len(stack)) /\ FrameFits(Top)
  BY <1>1, FrameFacts DEF IInv, StackNests, Top
<1>3. Top.accum = Top.back
  <2>1. Top.back - Top.accum = 0
    BY <1>2, CountsNothing, SMT DEF FrameFits
  <2> QED BY <1>2, <2>1 DEF FrameShape, Top
<1>4. /\ stack' \in Seq(Frames) /\ Len(stack') = Len(stack) - 1
      /\ \A i \in DOMAIN stack' : i \in DOMAIN stack /\ stack'[i] = stack[i]
      /\ \A i \in DOMAIN stack : i \in DOMAIN stack' \/ i = Len(stack)
  <2> DEFINE t == SubSeq(stack, 1, Len(stack) - 1)
  <2>1. t \in Seq(Frames) /\ Len(t) = Len(stack) - 1
        /\ \A i \in DOMAIN t : i \in DOMAIN stack /\ t[i] = stack[i]
    BY <1>1, DropLast, Zenon
  <2>2. stack' = t
    OBVIOUS
  <2> HIDE DEF t, ReturnTile
  <2> QED BY <1>1, <2>1, <2>2
<1>5. stage' = 0
  BY <1>2 DEF FrameShape
<1>6. Cursor' = Top.back
  <2> HIDE DEF ReturnTile
  <2>1. call' = None
    BY DEF ReturnTile
  <2>2. CASE stack' # << >>
    <3>1. Len(stack') \in DOMAIN stack' /\ Len(stack') = Len(stack) - 1
      BY <1>4, <2>2
    <3>2. Len(stack) # 1
      BY <1>4, <2>2
    <3>3. Top.back = stack[Len(stack) - 1].accum
      BY <1>1, <3>2 DEF IInv, StackNests, Top
    <3>4. Top' = stack'[Len(stack')]
      BY DEF Top
    <3> QED BY <1>4, <2>1, <2>2, <3>1, <3>3, <3>4 DEF Cursor
  <2>3. CASE stack' = << >>
    <3>1. Len(stack) = 1
      BY <1>1, <1>4, <2>3
    <3>2. Top.back = N
      BY <1>1, <3>1 DEF IInv, StackNests, Top
    <3>3. 0 \notin 1 .. Dims /\ 0 # Dims + 1
      BY Sizes
    <3> QED BY <1>5, <2>1, <2>3, <3>2, <3>3 DEF Cursor
  <2> QED BY <2>2, <2>3
<1> QED BY <1>1, <1>3, <1>4, <1>5, <1>6 DEF ReturnShape

\* A turn of a loop calls on the records of its least tile.
ChildShape ==
    LET d == NextKey(Top.level)
        z == Top.zoom[d].z
        tile == [x |-> call'.x, y |-> call'.y]
    IN  /\ call = None /\ call' # None /\ tiles' = tiles /\ index' = index
        /\ data' = data /\ stage' = 0
        /\ stack # << >> /\ Len(stack) \in DOMAIN stack /\ Top \in Frames
        /\ Len(stack') = Len(stack) /\ DOMAIN stack' = DOMAIN stack
        /\ \A i \in DOMAIN stack : i # Len(stack) => stack'[i] = stack[i]
        /\ Top'.level = Top.level /\ Top'.zoom = Top.zoom /\ Top'.back = Top.back
        /\ Top'.accum = call'.back /\ Top' = stack'[Len(stack)]
        /\ call'.level = Top.level + 1 /\ call'.front = Top.accum /\ call'.z = z
        /\ call'.back \in Int /\ Top.accum < call'.back /\ call'.back <= Top.back
        /\ d \in 0 .. Keys - 1 /\ z \in Nat /\ z <= Finest(d)
        /\ \A i \in Top.accum .. call'.back - 1 :
             i \in Records /\ TileOf(data[index[i]], d, z) = tile
        /\ \A i \in call'.back .. Top.back - 1 :
             i \in Records /\ TileOf(data[index[i]], d, z) # tile
        /\ Cursor' = Top.accum

\* A turn of a loop: the call of the child has the next run of the node.
LEMMA ChildFacts ==
    ASSUME IInv, SpatialHolds, NextChild
    PROVE  ChildShape
<1> USE DEF NextChild, nodeVars
<1> DEFINE d == NextKey(Top.level)
           z == Top.zoom[d].z
           entry == CHOOSE e \in Top.used :
                      \A f \in Top.used : TileBefore(e.key, f.key)
           t == entry.key
           b == Top.accum + entry.count
           zoom == [Top.zoom EXCEPT ![d] = [x |-> t.x, y |-> t.y, z |-> z + 1]]
           c == [level |-> Top.level + 1, front |-> Top.accum,
                 back |-> b, x |-> t.x, y |-> t.y, z |-> z, zoom |-> zoom]
           G == [Top EXCEPT !.accum = b, !.used = @ \ {entry}]
           left == TilesLeft(Placed, Top)
<1>1. stage = 0 /\ stage' = 0
  BY InSpatialPass
<1>2. /\ stack \in Seq(Frames) /\ Len(stack) \in DOMAIN stack /\ Top \in Frames
      /\ FrameFits(Top) /\ FrameHolds(Placed, Top)
  <2>1. stack \in Seq(Frames) /\ stack # << >> /\ StackNests
    BY DEF IInv, TypeOK
  <2>2. Len(stack) \in DOMAIN stack
    BY <2>1
  <2>3. Top \in Frames
    BY <2>1, <2>2 DEF Top
  <2> QED BY <2>1, <2>2, <2>3 DEF StackNests, SpatialHolds, Top
<1>3. /\ Top.level \in Nat /\ Top.zoom \in KeyZooms
      /\ Top.accum \in 0 .. N /\ Top.back \in 0 .. N /\ Top.accum <= Top.back
      /\ Top.accum \in Int /\ Top.back \in Int
      /\ Top.used \in UsedMaps(Tile)
  BY <1>2, Sizes, SMT DEF Frames, FrameFits
<1>4. d \in 0 .. Keys - 1 /\ z \in Nat /\ z <= Finest(d)
  <2>1. d \in 0 .. Keys - 1
    BY <1>3, Sizes, SMT DEF NextKey
  <2>2. z \in Nat /\ z * Keys <= Top.level + Keys - d
    BY <1>2, <1>3, <2>1 DEF KeyZooms, FrameFits, ZoomsFit
  <2>3. Top.level < MaxZoom * Keys
    BY <1>2 DEF FrameFits
  <2> QED BY <1>3, <2>1, <2>2, <2>3, SplitZoom, SMT
<1>5. entry \in Top.used /\ \A f \in Top.used : TileBefore(entry.key, f.key)
  <2>1. \E e \in Top.used : \A f \in Top.used : TileBefore(e.key, f.key)
    BY <1>3, FirstTile, Zenon DEF UsedMaps, Tile
  <2> QED BY <2>1, Zenon
<1>6. \A i \in Top.accum .. Top.back - 1 : /\ i \in Records /\ Placed[i] \in Record
                                           /\ Placed[i] = data[index[i]]
                                           /\ index[i] \in Records
  <2>1. index \in [Records -> Records]
    BY DEF IInv, TypeOK
  <2> QED BY <1>3, <2>1, InRecords, PlacedRecord
<1>7. left \in [Top.accum .. Top.back - 1 -> Tile]
  <2>1. z <= MaxZoom
    BY <1>4, Sizes DEF Finest
  <2>2. \A i \in Top.accum .. Top.back - 1 : TileOf(Placed[i], d, z) \in Tile
    <3> HIDE DEF d, z, NextChild
    <3> QED BY <1>4, <1>6, <2>1, TileType
  <2> QED BY <2>2 DEF TilesLeft
<1>8. Top.used = Count(left) /\ Ascends(left)
  BY <1>2 DEF FrameHolds
<1>9. t \in Tile /\ entry.count \in Nat
  BY <1>3, <1>5 DEF UsedMaps
<1>10. call' = c /\ stack' = [stack EXCEPT ![Len(stack)] = G]
  BY DEF SetTop
<1>11. /\ G.back = Top.back /\ G.accum = b /\ G.level = Top.level /\ G.zoom = Top.zoom
       /\ c.level = Top.level + 1 /\ c.front = Top.accum /\ c.back = b /\ c.z = z
       /\ c.x = t.x /\ c.y = t.y
       /\ call = None /\ tiles' = tiles /\ index' = index /\ data' = data
       /\ stack # << >>
  BY <1>2 DEF Frames
<1> HIDE DEF entry, left, NextChild
<1>12. /\ b \in Int /\ Top.accum < b /\ b <= Top.back
       /\ \A i \in Top.accum .. b - 1 : left[i] = t
       /\ \A i \in b .. Top.back - 1 : left[i] # t
  <2>1. left \in [Top.accum .. Top.back - 1 -> [x : Nat, y : Nat]]
    BY <1>7 DEF Tile
  <2>2. entry \in Count(left) /\ \A f \in Count(left) : TileBefore(entry.key, f.key)
    BY <1>5, <1>8
  <2>3. Ascends(left)
    BY <1>8
  <2>4. Top.accum \in Int /\ Top.back \in Int /\ Top.accum <= Top.back
    BY <1>3
  <2> HIDE DEF b, t
  <2>5. TakesFirst(entry, left, Top.accum, Top.back)
    BY <2>1, <2>2, <2>3, <2>4, FirstTileRun, Zenon
  <2> QED BY <2>5 DEF TakesFirst, b, t
<1>13. G \in Frames /\ b \in 0 .. N
  <2>1. b \in 0 .. N
    <3> HIDE DEF b
    <3> QED BY <1>3, <1>12, Sizes
  <2> HIDE DEF b
  <2> QED BY <1>2, <1>3, <2>1 DEF Frames, UsedMaps
<1>14. call' # None /\ call'.front = Top.accum /\ call'.back = b
  <2>1. [x |-> t.x, y |-> t.y, z |-> z + 1] \in [x : Nat, y : Nat, z : Nat]
        /\ t.x \in Nat /\ t.y \in Nat
    BY <1>4, <1>9 DEF Tile
  <2>2. zoom \in KeyZooms
    <3> HIDE DEF z, t, d
    <3> QED BY <1>3, <1>4, <2>1 DEF KeyZooms
  <2>3. c \in Calls
    <3> HIDE DEF zoom, b, z, t
    <3> QED BY <1>3, <1>4, <1>13, <2>1, <2>2 DEF Calls
  <2>4. c.front = Top.accum /\ c.back = b
    OBVIOUS
  <2> HIDE DEF c
  <2> QED BY <1>10, <2>3, <2>4, Sizes
<1> HIDE DEF c
<1>15. /\ \A i \in DOMAIN stack : i # Len(stack) => i \in DOMAIN stack' /\ stack'[i] = stack[i]
       /\ \A i \in DOMAIN stack' : i # Len(stack) => i \in DOMAIN stack /\ stack'[i] = stack[i]
       /\ Len(stack) \in DOMAIN stack' /\ stack'[Len(stack)] = G
       /\ stack' \in Seq(Frames)
  <2> DEFINE new == [stack EXCEPT ![Len(stack)] = G]
  <2> HIDE DEF G
  <2>1. /\ DOMAIN new = DOMAIN stack /\ new[Len(stack)] = G /\ new \in Seq(Frames)
        /\ \A i \in 1 .. Len(stack) - 1 : new[i] = stack[i]
    BY <1>2, <1>13, ReplaceLast, SMT
  <2>2. \A i \in DOMAIN stack : i # Len(stack) => i \in 1 .. Len(stack) - 1
    BY <1>2
  <2>3. stack' = new
    BY <1>10
  <2> HIDE DEF new
  <2> QED BY <1>2, <2>1, <2>2, <2>3
<1>16. call'.level = Top.level + 1 /\ call'.z = z /\ call'.x = t.x /\ call'.y = t.y
  BY <1>10, <1>11
<1>17. /\ Len(stack') = Len(stack) /\ DOMAIN stack' = DOMAIN stack /\ Top' = G
  <2>1. stack \in Seq(Frames) /\ stack' \in Seq(Frames)
    BY <1>2, <1>15
  <2>2. DOMAIN stack' = DOMAIN stack
    BY <1>10
  <2>3. Len(stack') = Len(stack)
    BY <2>1, <2>2
  <2>4. Top' = stack'[Len(stack')]
    BY DEF Top
  <2> QED BY <1>15, <2>2, <2>3, <2>4
<1>18. Cursor' = Top.accum
  BY <1>14 DEF Cursor
<1>19. [x |-> call'.x, y |-> call'.y] = t
  <2>1. t = [x |-> t.x, y |-> t.y]
    <3> HIDE DEF t
    <3> QED BY <1>9 DEF Tile
  <2> QED BY <1>16, <2>1
<1>20. \A i \in Top.accum .. Top.back - 1 :
         i \in Records /\ left[i] = TileOf(data[index[i]], d, z)
  BY <1>6 DEF left, TilesLeft
<1> HIDE DEF t, b, G
<1>21. /\ \A i \in Top.accum .. b - 1 : i \in Records /\ TileOf(data[index[i]], d, z) = t
       /\ \A i \in b .. Top.back - 1 : i \in Records /\ TileOf(data[index[i]], d, z) # t
  <2>1. /\ \A i \in Top.accum .. b - 1 : i \in Top.accum .. Top.back - 1
        /\ \A i \in b .. Top.back - 1 : i \in Top.accum .. Top.back - 1
    BY <1>3, <1>12
  <2> HIDE DEF d, z
  <2> QED BY <1>12, <1>20, <2>1
<1> HIDE DEF d, z
<1> QED BY <1>1, <1>2, <1>4, <1>11, <1>12, <1>14, <1>15, <1>16, <1>17, <1>18, <1>19,
           <1>21, Zenon DEF ChildShape, d, z

-----------------------------------------------------------------------------
(* Tiles of one level.                                                     *)

\* Two that share a position are one ...
LEMMA OneTile ==
    ASSUME IInv, LevelsApart, NEW n \in tiles, NEW o \in tiles,
           n.level = o.level, NEW k, k \in Span(n), k \in Span(o)
    PROVE  n = o
<1>1. TileShape(n) /\ TileShape(o)
  BY TileFacts
<1>2. ~Apart(n, o)
  BY <1>1 DEF TileShape, Span, Apart
<1> QED BY <1>2 DEF LevelsApart

\* ... and so are two that end together.
LEMMA SameBack ==
    ASSUME IInv, LevelsApart, NEW n \in tiles, NEW o \in tiles,
           n.level = o.level, n.back = o.back
    PROVE  n = o
<1>1. TileShape(n) /\ TileShape(o) /\ n.front < n.back /\ o.front < o.back
  BY TileFacts DEF LevelsApart
<1>2. ~Apart(n, o)
  BY <1>1 DEF TileShape, Apart
<1> QED BY <1>2 DEF LevelsApart

\* An inner tile above the call that shares a position with it is the tile of
\* the innermost loop, and the call lies in it.
LEMMA CallInNode ==
    ASSUME IInv, TreeInv, call # None, NEW n \in tiles, ~n.last,
           call.level = n.level + 1, NEW k, k \in Span(n), k \in Span(call)
    PROVE  /\ stack # << >> /\ IsNode(n, Top)
           /\ n.front <= call.front /\ call.back <= n.back
           /\ Span(call) \subseteq Span(n)
<1>1. CallShape /\ TileShape(n)
  BY CallFacts, TileFacts
<1>2. stack \in Seq(Frames) /\ call.level = Len(stack)
  BY DEF IInv, TypeOK, TreeInv, Levels
<1>3. stack # << >> /\ Len(stack) \in DOMAIN stack /\ Top = stack[Len(stack)]
  <2>1. Len(stack) # 0
    BY <1>1, <1>2 DEF TileShape
  <2> QED BY <1>2, <2>1 DEF Top
<1>4. FrameShape(Len(stack)) /\ Top.level = Len(stack) - 1
  BY <1>3, FrameFacts DEF TreeInv, Levels
<1>5. PICK o \in tiles : IsNode(o, Top) /\ o.front <= call.front
  BY <1>3 DEF TreeInv, LoopsHaveTiles
<1>6. TileShape(o)
  BY TileFacts
<1>7. call.back <= o.back /\ o.level = n.level
  BY <1>1, <1>2, <1>3, <1>4, <1>5 DEF CallShape, FrameShape, TileShape, IsNode
<1>8. k \in Span(o)
  BY <1>1, <1>5, <1>6, <1>7 DEF CallShape, TileShape, Span
<1>9. n = o
  BY <1>7, <1>8, OneTile DEF TreeInv
<1>10. Span(call) \subseteq Span(n)
  BY <1>1, <1>5, <1>7, <1>9 DEF CallShape, TileShape, Span
<1> QED BY <1>3, <1>5, <1>7, <1>9, <1>10

\* What is said of the records of tiles goes on holding while they keep them.
LEMMA SameRecords ==
    ASSUME data' = data, NEW n, NEW m,
           RecordsAt(index', n) = RecordsAt(index, n),
           RecordsAt(index', m) = RecordsAt(index, m)
    PROVE  /\ SharesParent(n) => SharesParent(n)'
           /\ HasItsOwn(n, m) => HasItsOwn(n, m)'
BY Zenon DEF SharesParent, HasItsOwn

\* ... and so does what is said of those a loop has passed and left.
LEMMA SamePassed ==
    ASSUME data' = data, NEW n, NEW f,
           RecordsAt(index', Pivot(n.front, f.accum)) = RecordsAt(index, Pivot(n.front, f.accum)),
           RecordsAt(index', Pivot(f.accum, f.back)) = RecordsAt(index, Pivot(f.accum, f.back))
    PROVE  PassedApart(data, index, n, f) => PassedApart(data', index', n, f)
BY Zenon DEF PassedApart

-----------------------------------------------------------------------------
(* Every step keeps the invariant.                                         *)

\* A return keeps the invariant: the loop that ends has nothing left to pass.
LEMMA ReturnTileTree ==
    ASSUME IInv, TreeInv, ReturnTile
    PROVE  TreeInv'
<1> USE DEF TreeInv
<1>1. ReturnShape /\ FrameShape(Len(stack)) /\ data' = data
  <2>1. ReturnShape /\ data' = data
    BY ReturnFacts DEF ReturnTile
  <2> QED BY <2>1, FrameFacts DEF ReturnShape
<1>2. Levels'
  BY <1>1 DEF ReturnShape, Levels
<1>3. LevelsApart'
  BY <1>1 DEF ReturnShape, LevelsApart
<1>4. DeepBehind'
  <2>1. \A m \in tiles : m.level >= Len(stack') => m.back <= Cursor'
    <3> SUFFICES ASSUME NEW m \in tiles, m.level >= Len(stack') PROVE m.back <= Cursor'
      OBVIOUS
    <3>1. m.level >= stack[Len(stack)].level
      BY <1>1 DEF ReturnShape, Levels
    <3>2. m.back <= stack[Len(stack)].back
      BY <1>1, <3>1 DEF ReturnShape, FrameShape, DeepBehind
    <3> QED BY <1>1, <3>2 DEF ReturnShape, Top
  <2>2. \A i \in DOMAIN stack' : \A m \in tiles :
          m.level >= stack'[i].level => m.back <= stack'[i].back
    BY <1>1 DEF ReturnShape, FrameShape, DeepBehind
  <2> QED BY <1>1, <2>1, <2>2 DEF ReturnShape, DeepBehind
<1>5. LoopsHaveTiles'
  BY <1>1 DEF ReturnShape, LoopsHaveTiles, IsNode
<1>6. Covered'
  <2> SUFFICES ASSUME NEW n \in tiles', ~n.last, NEW k \in Span(n)
               PROVE  \/ \E m \in Children(n)' : k \in Span(m)
                      \/ \E i \in DOMAIN stack' : /\ stack'[i].level = n.level
                                                  /\ k \in stack'[i].accum .. stack'[i].back - 1
    BY Zenon DEF Covered
  <2>1. n \in tiles /\ Children(n)' = Children(n)
    BY <1>1 DEF ReturnShape, Children
  <2>2. CASE \E m \in Children(n) : k \in Span(m)
    BY <2>1, <2>2
  <2>3. CASE \E i \in DOMAIN stack : /\ stack[i].level = n.level
                                     /\ k \in stack[i].accum .. stack[i].back - 1
    <3>1. PICK i \in DOMAIN stack : /\ stack[i].level = n.level
                                    /\ k \in stack[i].accum .. stack[i].back - 1
      BY <2>3
    <3>2. i # Len(stack)
      <4> SUFFICES ASSUME i = Len(stack) PROVE FALSE
        OBVIOUS
      <4> QED BY <1>1, <3>1 DEF ReturnShape, FrameShape, Top
    <3> QED BY <1>1, <3>1, <3>2 DEF ReturnShape
  <2> QED BY <1>1, <2>1, <2>2, <2>3 DEF ReturnShape, Covered
<1>7. SiblingsFit'
  <2>1. tiles' = tiles /\ index' = index /\ call' = None
    BY <1>1 DEF ReturnShape
  <2>2. \A n \in tiles' : ~n.last =>
          /\ SharesParent(n)'
          /\ \A m \in Children(n)' : m.z = ChildZoom(n.level) /\ HasItsOwn(n, m)'
    <3>1. \A n : Children(n)' = Children(n)
      BY <2>1 DEF Children
    <3> QED BY <1>1, <2>1, <3>1, SameRecords DEF SiblingsFit
  <2>3. \A i \in DOMAIN stack' : \A n \in tiles' :
           IsNode(n, stack'[i]) => PassedApart(data', index', n, stack'[i])
    BY <1>1, <2>1 DEF ReturnShape, SiblingsFit
  <2> QED BY <2>1, <2>2, <2>3 DEF SiblingsFit
<1> QED BY <1>2, <1>3, <1>4, <1>5, <1>6, <1>7

\* So does a turn of the loop: what it takes off the loop the call has.
LEMMA NextChildTree ==
    ASSUME IInv, SpatialHolds, TreeInv, NextChild
    PROVE  TreeInv'
<1> USE DEF TreeInv
<1> DEFINE L == Len(stack)
           d == NextKey(Top.level)
           z == Top.zoom[d].z
           t == [x |-> call'.x, y |-> call'.y]
<1>1. /\ call = None /\ call' # None /\ tiles' = tiles /\ index' = index
      /\ data' = data /\ stage' = 0
      /\ stack # << >> /\ Len(stack) \in DOMAIN stack /\ Top \in Frames
      /\ Len(stack') = Len(stack) /\ DOMAIN stack' = DOMAIN stack
      /\ \A i \in DOMAIN stack : i # Len(stack) => stack'[i] = stack[i]
      /\ Top'.level = Top.level /\ Top'.zoom = Top.zoom /\ Top'.back = Top.back
      /\ Top'.accum = call'.back /\ Top' = stack'[Len(stack)]
      /\ call'.level = Top.level + 1 /\ call'.front = Top.accum /\ call'.z = z
      /\ call'.back \in Int /\ Top.accum < call'.back /\ call'.back <= Top.back
      /\ d \in 0 .. Keys - 1 /\ z \in Nat /\ z <= Finest(d)
      /\ \A i \in Top.accum .. call'.back - 1 :
           i \in Records /\ TileOf(data[index[i]], d, z) = t
      /\ \A i \in call'.back .. Top.back - 1 :
           i \in Records /\ TileOf(data[index[i]], d, z) # t
      /\ Cursor' = Top.accum
  BY ChildFacts, Zenon DEF ChildShape
<1>2. FrameShape(Len(stack)) /\ Top = stack[Len(stack)]
  BY <1>1, FrameFacts DEF Top
<1> HIDE DEF d, z, t
<1>3. Levels'
  BY <1>1, <1>2 DEF Levels, FrameShape
<1>4. LevelsApart'
  BY <1>1 DEF LevelsApart
<1>5. DeepBehind'
  <2>1. Cursor = Top.accum
    BY <1>1 DEF Cursor
  <2>2. \A i \in DOMAIN stack : /\ stack'[i].level = stack[i].level
                                /\ stack'[i].back = stack[i].back
    BY <1>1, <1>2
  <2>3. stage = 0
    BY <1>2 DEF FrameShape
  <2> QED BY <1>1, <2>1, <2>2, <2>3 DEF DeepBehind
\* The tile of the innermost loop, which stays it.
<1>6. PICK o \in tiles : IsNode(o, Top)
  BY <1>1, <1>2 DEF LoopsHaveTiles
<1>7. IsNode(o, Top') /\ o.front <= call'.front
  <2>1. TileShape(o)
    BY TileFacts
  <2> QED BY <1>1, <1>2, <1>6, <2>1 DEF IsNode, TileShape, FrameShape
<1>8. \A n \in tiles : IsNode(n, Top') => n = o
  <2> SUFFICES ASSUME NEW n \in tiles, IsNode(n, Top') PROVE n = o
    OBVIOUS
  <2>1. n.level = o.level /\ n.back = o.back
    BY <1>1, <1>6 DEF IsNode
  <2> QED BY <2>1, SameBack
<1>9. LoopsHaveTiles'
  <2>1. \A i \in DOMAIN stack' : \E n \in tiles' : IsNode(n, stack'[i])
    <3> SUFFICES ASSUME NEW i \in DOMAIN stack'
                 PROVE  \E n \in tiles' : IsNode(n, stack'[i])
      OBVIOUS
    <3>1. CASE i = Len(stack)
      BY <1>1, <1>7, <3>1
    <3>2. CASE i # Len(stack)
      BY <1>1, <3>2 DEF LoopsHaveTiles
    <3> QED BY <3>1, <3>2
  <2> QED BY <1>1, <1>7, <2>1 DEF LoopsHaveTiles
<1>10. Covered'
  <2> SUFFICES ASSUME NEW n \in tiles', ~n.last, NEW k \in Span(n)
               PROVE  \/ \E m \in Children(n)' : k \in Span(m)
                      \/ \E i \in DOMAIN stack' : /\ stack'[i].level = n.level
                                                  /\ k \in stack'[i].accum .. stack'[i].back - 1
                      \/ call' # None /\ call'.level = n.level + 1 /\ k \in Span(call')
    BY Zenon DEF Covered
  <2>1. n \in tiles /\ Children(n)' = Children(n)
    BY <1>1 DEF Children
  <2>2. CASE \E m \in Children(n) : k \in Span(m)
    BY <2>1, <2>2
  <2>3. CASE \E i \in DOMAIN stack : /\ stack[i].level = n.level
                                     /\ k \in stack[i].accum .. stack[i].back - 1
    <3>1. PICK i \in DOMAIN stack : /\ stack[i].level = n.level
                                    /\ k \in stack[i].accum .. stack[i].back - 1
      BY <2>3
    <3>2. CASE i # Len(stack)
      BY <1>1, <3>1, <3>2
    <3>3. CASE i = Len(stack)
      <4>1. CASE k < call'.back
        <5>1. k \in Span(call')
          BY <1>1, <1>2, <3>1, <3>3, <4>1 DEF Span, FrameShape
        <5>2. call'.level = n.level + 1
          BY <1>1, <1>2, <3>1, <3>3
        <5> QED BY <1>1, <5>1, <5>2
      <4>2. CASE ~(k < call'.back)
        <5>1. k \in Top'.accum .. Top'.back - 1
          BY <1>1, <1>2, <3>1, <3>3, <4>2 DEF FrameShape
        <5> QED BY <1>1, <1>2, <3>1, <3>3, <5>1
      <4> QED BY <4>1, <4>2
    <3> QED BY <3>2, <3>3
  <2> QED BY <1>1, <2>1, <2>2, <2>3 DEF Covered
<1>11. TileShape(o)
  BY TileFacts
<1>12. PassedApart(data, index, o, Top)
  BY <1>1, <1>2, <1>6 DEF SiblingsFit
\* The records of the tile, by their positions.
<1>13. /\ \A i \in o.front .. Top.accum - 1 : \A j \in Top.accum .. Top.back - 1 :
            TileOf(data[index[i]], d, z) # TileOf(data[index[j]], d, z)
       /\ \A i \in o.front .. Top.accum - 1 : TileOf(data[index[i]], d, z) # t
  <2>1. \A i \in o.front .. Top.accum - 1 : \A j \in Top.accum .. Top.back - 1 :
           TileOf(data[index[i]], d, z) # TileOf(data[index[j]], d, z)
    <3> SUFFICES ASSUME NEW i \in o.front .. Top.accum - 1,
                        NEW j \in Top.accum .. Top.back - 1
                 PROVE  TileOf(data[index[i]], d, z) # TileOf(data[index[j]], d, z)
      OBVIOUS
    <3>1. /\ index[i] \in RecordsAt(index, Pivot(o.front, Top.accum))
          /\ index[j] \in RecordsAt(index, Pivot(Top.accum, Top.back))
      BY DEF RecordsAt, Span, Pivot
    <3> QED BY <1>12, <3>1, Zenon DEF PassedApart, d, z
  <2>2. Top.accum \in Top.accum .. Top.back - 1 /\ Top.accum \in Top.accum .. call'.back - 1
    BY <1>1, <1>2 DEF FrameShape
  <2>3. TileOf(data[index[Top.accum]], d, z) = t
    BY <1>1, <2>2
  <2> QED BY <2>1, <2>2, <2>3, Zenon
<1>14. SiblingsFit'
  <2>1. \A n \in tiles' : ~n.last =>
          /\ SharesParent(n)'
          /\ \A m \in Children(n)' : m.z = ChildZoom(n.level) /\ HasItsOwn(n, m)'
    <3>1. \A n : Children(n)' = Children(n)
      BY <1>1 DEF Children
    <3> QED BY <1>1, <3>1, SameRecords DEF SiblingsFit
  <2>2. PassedApart(data', index', o, Top')
    <3> SUFFICES ASSUME NEW r \in RecordsAt(index, Pivot(o.front, call'.back)),
                        NEW q \in RecordsAt(index, Pivot(call'.back, Top.back))
                 PROVE  TileOf(data[r], d, z) # TileOf(data[q], d, z)
      BY <1>1 DEF PassedApart, d, z
    <3>1. PICK i \in o.front .. call'.back - 1 : r = index[i]
      BY DEF RecordsAt, Span, Pivot
    <3>2. PICK j \in call'.back .. Top.back - 1 : q = index[j]
      BY DEF RecordsAt, Span, Pivot
    <3>3. TileOf(data[q], d, z) # t
      BY <1>1, <3>2
    <3>4. CASE i < Top.accum
      <4>1. i \in o.front .. Top.accum - 1 /\ j \in Top.accum .. Top.back - 1
        BY <1>1, <1>2, <1>11, <3>1, <3>2, <3>4 DEF FrameShape, TileShape
      <4> QED BY <1>13, <3>1, <3>2, <4>1
    <3>5. CASE ~(i < Top.accum)
      <4>1. i \in Top.accum .. call'.back - 1
        BY <1>1, <1>2, <1>11, <3>1, <3>5 DEF FrameShape, TileShape
      <4> QED BY <1>1, <3>1, <3>3, <4>1
    <3> QED BY <3>4, <3>5
  <2>3. \A i \in DOMAIN stack' : \A n \in tiles' :
           IsNode(n, stack'[i]) => PassedApart(data', index', n, stack'[i])
    <3> SUFFICES ASSUME NEW i \in DOMAIN stack', NEW n \in tiles', IsNode(n, stack'[i])
                 PROVE  PassedApart(data', index', n, stack'[i])
      OBVIOUS
    <3>1. CASE i = Len(stack)
      <4>1. n = o
        BY <1>1, <1>8, <3>1
      <4> QED BY <1>1, <2>2, <3>1, <4>1
    <3>2. CASE i # Len(stack)
      BY <1>1, <3>2 DEF SiblingsFit
    <3> QED BY <3>1, <3>2
  <2>4. HasItsOwn(o, call)'
    <3>1. call'.level % Keys = d
      BY <1>1 DEF d, NextKey
    <3> SUFFICES ASSUME NEW r \in RecordsAt(index, o)
                 PROVE  r \in RecordsAt(index, call') <=> TileOf(data[r], d, z) = t
      <4>1. HasItsOwn(o, call)' <=>
              \A r \in RecordsAt(index, o) :
                r \in RecordsAt(index, call') <=> TileOf(data[r], d, z) = t
        BY <1>1, <3>1 DEF HasItsOwn, t
      <4> QED BY <4>1
    <3>2. PICK i \in o.front .. o.back - 1 : r = index[i]
      BY DEF RecordsAt, Span
    <3>3. CASE i \in Top.accum .. call'.back - 1
      <4>1. r \in RecordsAt(index, call')
        BY <1>1, <3>2, <3>3 DEF RecordsAt, Span
      <4> QED BY <1>1, <3>2, <3>3, <4>1
    <3>4. CASE i \notin Top.accum .. call'.back - 1
      <4>1. \/ i \in o.front .. Top.accum - 1
            \/ i \in call'.back .. Top.back - 1
        BY <1>1, <1>2, <1>6, <1>11, <3>2, <3>4 DEF FrameShape, TileShape, IsNode
      <4>2. TileOf(data[r], d, z) # t
        BY <1>1, <1>13, <3>2, <4>1
      <4>3. r \notin RecordsAt(index, call')
        <5> SUFFICES ASSUME NEW j \in Top.accum .. call'.back - 1, r = index[j]
                     PROVE  FALSE
          BY <1>1 DEF RecordsAt, Span
        <5> QED BY <1>1, <4>2
      <4> QED BY <4>2, <4>3
    <3> QED BY <3>3, <3>4
  <2>5. \A n \in tiles' : IsNode(n, Top') => HasItsOwn(n, call)'
    BY <1>1, <1>8, <2>4, Zenon
  <2> QED BY <2>1, <2>3, <2>5, Zenon DEF SiblingsFit
<1> QED BY <1>3, <1>4, <1>5, <1>9, <1>10, <1>14

\* The later passes have no loops over children, and their sorts move no
\* record into or out of a tile.
LEMMA LaterStepTree ==
    ASSUME IInv, PiecesFit, TreeInv, OpenNode \/ EmplacePart \/ SortNode \/ EndPass
    PROVE  TreeInv'
<1> USE DEF TreeInv
<1>1. Next
  BY DEF Next
<1>2. /\ call' = None /\ stack' = << >> /\ tiles' = tiles /\ data' = data
      /\ call = None /\ stack = << >>
  <2>1. CASE OpenNode \/ EmplacePart \/ SortNode
    <3>1. stage \in 1 .. Dims
      BY <2>1 DEF OpenNode, EmplacePart, SortNode, IInv, NodeFits
    <3>2. call = None /\ stack = << >>
      BY <3>1, Sizes DEF IInv, Phases
    <3> QED BY <2>1, <3>2 DEF OpenNode, EmplacePart, SortNode, spatialVars
  <2>2. CASE EndPass
    BY <2>2 DEF EndPass, spatialVars
  <2> QED BY <2>1, <2>2
<1>3. stage' # 0
  <2>1. CASE OpenNode \/ EmplacePart \/ SortNode
    BY <2>1, Sizes DEF OpenNode, EmplacePart, SortNode, IInv, NodeFits
  <2>2. CASE EndPass
    BY <2>2, Sizes DEF EndPass
  <2> QED BY <2>1, <2>2
<1>4. \A n \in tiles : RecordsAt(index', n) = RecordsAt(index, n)
  BY <1>1, StepStays DEF Settled
<1>5. Levels' /\ LevelsApart' /\ DeepBehind' /\ LoopsHaveTiles'
  BY <1>2, <1>3 DEF Levels, LevelsApart, DeepBehind, LoopsHaveTiles
<1>6. \A n : Children(n)' = Children(n)
  BY <1>2 DEF Children
<1>7. Covered'
  BY <1>2, <1>6 DEF Covered
<1>8. SiblingsFit'
  <2>1. \A n \in tiles : \A m \in Children(n) :
          /\ m \in tiles
          /\ SharesParent(n) => SharesParent(n)'
          /\ HasItsOwn(n, m) => HasItsOwn(n, m)'
    BY <1>2, <1>4, SameRecords DEF Children
  <2>2. \A n \in tiles : SharesParent(n) => SharesParent(n)'
    BY <1>2, <1>4, SameRecords
  <2> QED BY <1>2, <1>6, <2>1, <2>2 DEF SiblingsFit
<1> QED BY <1>5, <1>7, <1>8

-----------------------------------------------------------------------------
(* What zooms a level has.                                                 *)

\* The zoom a level is split by is that of its children.
LEMMA TurnZoom ==
    ASSUME NEW level \in Nat, NEW z \in Nat,
           z * Keys <= level + Keys - NextKey(level),
           (z + 1) * Keys > level + Keys - NextKey(level)
    PROVE  z = ChildZoom(level)
<1> DEFINE d == NextKey(level)
           q == (level + 1) \div Keys
<1>1. /\ q \in Nat /\ d \in Nat /\ d < Keys /\ level + 1 = Keys * q + d
      /\ Keys \in Nat \ {0}
  <2>1. level + 1 \in Nat /\ Keys \in Nat \ {0}
    BY Sizes
  <2> QED BY <2>1, DivMod DEF NextKey
<1> HIDE DEF d, q
<1>2. /\ (q + 1) * Keys = Keys * q + Keys /\ q * Keys = Keys * q
      /\ Keys * q \in Int /\ z * Keys \in Int /\ (z + 1) * Keys \in Int
  BY <1>1, SMT
<1>3. z * Keys <= level + Keys - d /\ (z + 1) * Keys > level + Keys - d
  BY DEF d
<1>4. z < q + 1
  <2>1. z * Keys < (q + 1) * Keys
    BY <1>1, <1>2, <1>3
  <2>2. q + 1 \in Int /\ z \in Int
    BY <1>1
  <2> QED BY <1>1, <2>1, <2>2, MulLess
<1>5. q < z + 1
  <2>1. q * Keys < (z + 1) * Keys
    BY <1>1, <1>2, <1>3
  <2>2. q \in Int /\ z + 1 \in Int
    BY <1>1
  <2> QED BY <1>1, <2>1, <2>2, MulLess
<1>6. z = q
  BY <1>1, <1>4, <1>5
<1> QED BY <1>6 DEF ChildZoom, q

\* The tile of a call has the zoom of its level.
LEMMA CallZoom ==
    ASSUME IInv, SpatialHolds, LevelsReach, call # None, call.level > 0
    PROVE  call.z = ChildZoom(call.level - 1)
<1> DEFINE k == call.level % Keys
           q == call.level \div Keys
<1>1. /\ call.level \in Nat /\ call.zoom \in KeyZooms /\ call.z \in Nat
      /\ ZoomsFit(call.level, call.zoom) /\ ZoomsReach(call.level, call.zoom)
      /\ call.zoom[k] = [x |-> call.x, y |-> call.y, z |-> call.z + 1]
  BY DEF IInv, TypeOK, Calls, CallFits, LevelsReach, SpatialHolds, CallHolds
<1>2. /\ q \in Nat /\ k \in Nat /\ k < Keys /\ call.level = Keys * q + k
      /\ Keys \in Nat \ {0} /\ k \in 0 .. Keys - 1
  <2>1. Keys \in Nat \ {0}
    BY Sizes
  <2>2. q \in Nat /\ k \in Nat /\ k < Keys /\ call.level = Keys * q + k
    BY <1>1, <2>1, DivMod
  <2> HIDE DEF q, k
  <2> QED BY <2>1, <2>2
<1> HIDE DEF k, q
<1> DEFINE z == call.z
<1>3. /\ (z + 1) * Keys <= call.level + Keys - k
      /\ ((z + 1) + 1) * Keys > call.level + Keys - k
  <2>1. call.zoom[k].z = z + 1
    BY <1>1
  <2>2. /\ call.zoom[k].z * Keys <= call.level + Keys - k
        /\ (call.zoom[k].z + 1) * Keys > call.level + Keys - k
    BY <1>1, <1>2 DEF ZoomsFit, ZoomsReach
  <2> QED BY <2>1, <2>2
<1> HIDE DEF z
<1>4. z \in Nat
  BY <1>1 DEF z
<1>5. /\ (z + 1) * Keys = z * Keys + Keys /\ ((z + 1) + 1) * Keys = (z + 1) * Keys + Keys
      /\ (q + 1) * Keys = Keys * q + Keys /\ q * Keys = Keys * q
      /\ Keys * q \in Int /\ z * Keys \in Int /\ (z + 1) * Keys \in Int
  BY <1>2, <1>4, SMT
<1>6. z * Keys <= Keys * q /\ (z + 1) * Keys > Keys * q
  <2> DEFINE a == Keys * q
             b == z * Keys
             c == (z + 1) * Keys
             e == ((z + 1) + 1) * Keys
  <2>1. /\ a \in Int /\ b \in Int /\ c \in Int /\ c = b + Keys /\ e = c + Keys
        /\ call.level = a + k /\ c <= call.level + Keys - k /\ e > call.level + Keys - k
        /\ k \in Nat /\ Keys \in Nat /\ call.level \in Nat
    BY <1>1, <1>2, <1>3, <1>5
  <2> HIDE DEF a, b, c, e
  <2>2. b <= a /\ c > a
    BY <2>1
  <2> QED BY <2>2 DEF a, b, c
<1>7. z = q
  <2>1. z < q + 1
    <3>1. z * Keys < (q + 1) * Keys
      BY <1>2, <1>5, <1>6
    <3>2. q + 1 \in Int /\ z \in Int
      BY <1>2, <1>4
    <3> QED BY <1>2, <3>1, <3>2, MulLess
  <2>2. q < z + 1
    <3>1. q * Keys < (z + 1) * Keys
      BY <1>5, <1>6
    <3>2. q \in Int /\ z + 1 \in Int
      BY <1>2, <1>4
    <3> QED BY <1>2, <3>1, <3>2, MulLess
  <2> QED BY <1>2, <1>4, <2>1, <2>2
<1>8. (call.level - 1) + 1 = call.level
  BY <1>1
<1> QED BY <1>7, <1>8 DEF ChildZoom, z, q

\* The records of a call share the parent tile of its children.
LEMMA CallSharesParent ==
    ASSUME IInv, SpatialHolds, LevelsReach, call # None
    PROVE  LET d == NextKey(call.level)
               z == ChildZoom(call.level)
           IN  z > 0 => \A r, q \in RecordsAt(index, call) :
                          TileOf(data[r], d, z - 1) = TileOf(data[q], d, z - 1)
<1> DEFINE d == NextKey(call.level)
           z == call.zoom[d].z
<1>1. /\ call.level \in Nat /\ call.zoom \in KeyZooms
      /\ ZoomsFit(call.level, call.zoom) /\ ZoomsReach(call.level, call.zoom)
  BY DEF IInv, TypeOK, Calls, CallFits, LevelsReach
<1>2. d \in 0 .. Keys - 1
  BY <1>1, Sizes, SMT DEF NextKey
<1>3. z = ChildZoom(call.level)
  <2>1. /\ z * Keys <= call.level + Keys - d
        /\ (z + 1) * Keys > call.level + Keys - d
    BY <1>1, <1>2 DEF ZoomsFit, ZoomsReach
  <2>2. z \in Nat
    BY <1>1, <1>2 DEF KeyZooms
  <2> HIDE DEF z
  <2> QED BY <1>1, <2>1, <2>2, TurnZoom
<1>4. z > 0 => \A r \in RecordsAt(index, call) :
        TileOf(data[r], d, z - 1) = [x |-> call.zoom[d].x, y |-> call.zoom[d].y]
  <2> HIDE DEF d
  <2> QED BY <1>2, CallTiles
<1> QED BY <1>3, <1>4

-----------------------------------------------------------------------------
(* The steps that make tiles.                                              *)

\* A new tile that is a child of an inner one is the tile of the call, in the
\* tile of the innermost loop.
LEMMA NewChild ==
    ASSUME TilesInv, TreeInv, call # None, NEW n \in tiles, ~n.last,
           NEW m, m.front = call.front, m.back = call.back,
           m.level \in Nat, m.level >= call.level,
           m.level = n.level + 1, Span(m) \subseteq Span(n)
    PROVE  /\ m.level = call.level /\ call.z = ChildZoom(n.level)
           /\ HasItsOwn(n, call)
<1> USE DEF TilesInv
<1>1. CallShape /\ TileShape(n)
  BY CallFacts, TileFacts
<1>2. call.front \in Span(call) /\ call.front \in Span(n)
  <2>1. call.front \in Span(call)
    BY <1>1 DEF CallShape, Span
  <2>2. Span(m) = Span(call)
    BY DEF Span
  <2> QED BY <2>1, <2>2
<1>3. call.level = Len(stack)
  BY DEF TreeInv, Levels
<1>4. ~(n.level >= Len(stack))
  <2>1. ~(n.back <= call.front)
    BY <1>1, <1>2 DEF CallShape, TileShape, Span
  <2> QED BY <1>1, <2>1 DEF TreeInv, DeepBehind, CallShape
<1>5. m.level = call.level
  BY <1>1, <1>3, <1>4 DEF CallShape, TileShape
<1>6. stack # << >> /\ IsNode(n, Top)
  BY <1>2, <1>5, CallInNode
<1>7. HasItsOwn(n, call)
  BY <1>6 DEF TreeInv, SiblingsFit
<1>8. call.z = ChildZoom(n.level)
  <2>1. call.level > 0 /\ call.level - 1 = n.level
    BY <1>1, <1>5 DEF CallShape, TileShape
  <2>2. call.z = ChildZoom(call.level - 1)
    BY <2>1, CallZoom
  <2> QED BY <2>1, <2>2
<1> QED BY <1>5, <1>7, <1>8

\* What is said of the records of the call goes on holding of the tile made
\* of it.
LEMMA OwnAgain ==
    ASSUME NEW n, NEW m, NEW c, data' = data,
           RecordsAt(index', n) = RecordsAt(index, n),
           RecordsAt(index', m) = RecordsAt(index, c),
           m.level = c.level, m.z = c.z, m.x = c.x, m.y = c.y, HasItsOwn(n, c)
    PROVE  HasItsOwn(n, m)'
BY Zenon DEF HasItsOwn

\* A leaf keeps the invariant: its tile takes the place of the call.
LEMMA LeafTileTree ==
    ASSUME TilesInv, TreeInv, LeafTile
    PROVE  TreeInv'
<1> USE DEF TilesInv, TreeInv
<1>1. LeafShape /\ CallShape /\ data' = data /\ stack \in Seq(Frames)
  <2>1. LeafShape /\ data' = data
    BY LeafFacts DEF LeafTile
  <2> QED BY <2>1, CallFacts DEF LeafShape, IInv, TypeOK
<1>2. call.level = Len(stack)
  BY <1>1 DEF LeafShape, Levels
<1>3. \A n \in tiles' : ~n.last => n \in tiles
  BY <1>1 DEF LeafShape
\* A new tile, and the old ones it could be confused with.
<1>4. \A n \in tiles' \ tiles : /\ n.front = call.front /\ n.back = call.back
                                /\ n.level \in Nat /\ n.level >= Len(stack)
  BY <1>1, <1>2 DEF LeafShape
<1>5. \A m \in tiles : m.level >= Len(stack) => m.back <= call.front
  BY <1>1 DEF CallShape, DeepBehind
<1>6. Levels'
  BY <1>1, <1>3 DEF LeafShape, Levels
<1>7. LevelsApart'
  <2>1. \A m \in tiles' : m.front < m.back
    BY <1>1, <1>4 DEF CallShape, LevelsApart
  <2>2. ASSUME NEW m \in tiles', NEW o \in tiles', m.level = o.level
        PROVE  m = o \/ Apart(m, o)
    <3>1. CASE m \in tiles /\ o \in tiles
      BY <2>2, <3>1 DEF LevelsApart
    <3>2. CASE m \in tiles /\ o \notin tiles
      BY <1>4, <1>5, <2>2, <3>2 DEF Apart
    <3>3. CASE m \notin tiles /\ o \in tiles
      BY <1>4, <1>5, <2>2, <3>3 DEF Apart
    <3>4. CASE m \notin tiles /\ o \notin tiles
      BY <1>1, <2>2, <3>4 DEF LeafShape
    <3> QED BY <3>1, <3>2, <3>3, <3>4
  <2> QED BY <2>1, <2>2 DEF LevelsApart
<1>8. DeepBehind'
  <2>1. \A m \in tiles' : m.level >= Len(stack) => m.back <= call.back
    <3> SUFFICES ASSUME NEW m \in tiles', m.level >= Len(stack) PROVE m.back <= call.back
      OBVIOUS
    <3>1. CASE m \in tiles
      BY <1>1, <1>5, <3>1, TileFacts DEF CallShape, TileShape
    <3>2. CASE m \notin tiles
      BY <1>1, <1>4, <3>2 DEF CallShape
    <3> QED BY <3>1, <3>2
  <2>2. ASSUME NEW i \in DOMAIN stack, NEW m \in tiles', m.level >= stack[i].level
        PROVE  m.back <= stack[i].back
    <3>1. CASE m \in tiles
      BY <1>1, <2>2, <3>1 DEF CallShape, DeepBehind
    <3>2. CASE m \notin tiles
      <4>1. FrameShape(i) /\ FrameShape(Len(stack))
        BY <1>1, FrameFacts DEF FrameShape
      <4>2. call.back <= stack[i].accum
        BY <1>1, <4>1, StackBehind DEF CallShape, FrameShape
      <4> QED BY <1>1, <1>4, <3>2, <4>1, <4>2 DEF CallShape, FrameShape
    <3> QED BY <3>1, <3>2
  <2> QED BY <1>1, <2>1, <2>2 DEF LeafShape, DeepBehind
<1>9. LoopsHaveTiles'
  BY <1>1 DEF LeafShape, LoopsHaveTiles
<1>10. \A n : Children(n) \subseteq Children(n)'
  BY <1>1 DEF LeafShape, Children
<1>11. TileNode(call, TRUE) \in tiles'
  BY <1>1 DEF LeafShape
<1>12. Covered'
  <2> SUFFICES ASSUME NEW n \in tiles', ~n.last, NEW k \in Span(n)
               PROVE  \/ \E m \in Children(n)' : k \in Span(m)
                      \/ \E i \in DOMAIN stack' : /\ stack'[i].level = n.level
                                                  /\ k \in stack'[i].accum .. stack'[i].back - 1
    BY Zenon DEF Covered
  <2>1. n \in tiles
    BY <1>3
  <2>2. CASE \E m \in Children(n) : k \in Span(m)
    BY <1>10, <2>2
  <2>3. CASE \E i \in DOMAIN stack : /\ stack[i].level = n.level
                                     /\ k \in stack[i].accum .. stack[i].back - 1
    BY <1>1, <2>3 DEF LeafShape
  <2>4. CASE call.level = n.level + 1 /\ k \in Span(call)
    <3>1. call # None
      BY <1>1 DEF LeafShape
    <3>2. Span(call) \subseteq Span(n)
      BY <2>1, <2>4, <3>1, CallInNode
    <3>3. /\ Span(TileNode(call, TRUE)) = Span(call)
          /\ TileNode(call, TRUE).level = n.level + 1
      BY <2>4 DEF TileNode, Span
    <3>4. TileNode(call, TRUE) \in Children(n)'
      BY <1>11, <3>2, <3>3 DEF Children
    <3> QED BY <2>4, <3>3, <3>4
  <2> QED BY <2>1, <2>2, <2>3, <2>4 DEF Covered
<1>13. SiblingsFit'
  <2>1. \A n : RecordsAt(index', n) = RecordsAt(index, n)
    BY <1>1 DEF LeafShape
  <2>2. ASSUME NEW n \in tiles', ~n.last
        PROVE  /\ SharesParent(n)'
               /\ \A m \in Children(n)' : m.z = ChildZoom(n.level) /\ HasItsOwn(n, m)'
    <3>1. n \in tiles
      BY <1>3, <2>2
    <3>2. SharesParent(n)'
      BY <1>1, <2>1, <2>2, <3>1, SameRecords DEF SiblingsFit
    <3>3. ASSUME NEW m \in Children(n)'
          PROVE  m.z = ChildZoom(n.level) /\ HasItsOwn(n, m)'
      <4>1. m \in tiles' /\ m.level = n.level + 1 /\ Span(m) \subseteq Span(n)
        BY <3>3 DEF Children
      <4>2. CASE m \in tiles
        <5>1. m \in Children(n)
          BY <4>1, <4>2 DEF Children
        <5> QED BY <1>1, <2>1, <2>2, <3>1, <5>1, SameRecords DEF SiblingsFit
      <4>3. CASE m \notin tiles
        <5>1. /\ m.front = call.front /\ m.back = call.back
              /\ m.level \in Nat /\ m.level >= call.level
          BY <1>2, <1>4, <4>1, <4>3
        <5>2. call # None
          BY <1>1 DEF LeafShape
        <5>3. /\ m.level = call.level /\ call.z = ChildZoom(n.level)
              /\ HasItsOwn(n, call)
          BY <2>2, <3>1, <4>1, <5>1, <5>2, NewChild
        <5>4. m = TileNode(call, TRUE)
          BY <1>1, <4>1, <4>3, <5>3 DEF LeafShape
        <5>5. m.z = call.z /\ m.x = call.x /\ m.y = call.y
          BY <5>4 DEF TileNode
        <5>6. RecordsAt(index', m) = RecordsAt(index, call)
          BY <2>1, <5>1 DEF RecordsAt, Span
        <5>7. HasItsOwn(n, m)'
          BY <1>1, <2>1, <5>3, <5>5, <5>6, OwnAgain
        <5> QED BY <5>3, <5>5, <5>7
      <4> QED BY <4>2, <4>3
    <3> QED BY <3>2, <3>3
  <2>3. \A i \in DOMAIN stack' : \A n \in tiles' :
           IsNode(n, stack'[i]) => PassedApart(data', index', n, stack'[i])
    BY <1>1, <1>3 DEF LeafShape, SiblingsFit, IsNode
  <2>4. call' = None
    BY <1>1 DEF LeafShape
  <2> QED BY <2>2, <2>3, <2>4 DEF SiblingsFit
<1> QED BY <1>6, <1>7, <1>8, <1>9, <1>12, <1>13

\* The sort of a split leaves every tile and every loop its records.
SplitSame ==
    /\ \A n \in tiles : RecordsAt(index', n) = RecordsAt(index, n)
    /\ RecordsAt(index', call) = RecordsAt(index, call)
    /\ \A i \in DOMAIN stack : \A n \in tiles : IsNode(n, stack[i]) =>
         /\ RecordsAt(index', Pivot(n.front, stack[i].accum))
              = RecordsAt(index, Pivot(n.front, stack[i].accum))
         /\ RecordsAt(index', Pivot(stack[i].accum, stack[i].back))
              = RecordsAt(index, Pivot(stack[i].accum, stack[i].back))

LEMMA SplitKeepsRecords ==
    ASSUME TilesInv, TreeInv, SplitTile
    PROVE  SplitSame
<1> USE DEF TilesInv, TreeInv
<1>1. Next
  BY DEF Next
<1>2. SplitShape /\ CallShape
  BY SplitFacts, CallFacts DEF SplitShape
<1>3. PICK hash : index' \in SortHash(index, call, hash)
  BY DEF SplitTile
<1>4. index \in [Records -> Records] /\ IsInjective(index)
  BY DEF IInv, TypeOK
<1>5. \A n \in tiles : RecordsAt(index', n) = RecordsAt(index, n)
  BY <1>1, StepStays DEF Settled
<1>6. RecordsAt(index', call) = RecordsAt(index, call)
  <2>1. call.front \in 0 .. N /\ call.back \in 0 .. N
    BY <1>2 DEF CallShape
  <2> QED BY <1>3, <1>4, <2>1, SortKeeps
<1>7. ASSUME NEW i \in DOMAIN stack, NEW n \in tiles, IsNode(n, stack[i])
      PROVE  /\ RecordsAt(index', Pivot(n.front, stack[i].accum))
                  = RecordsAt(index, Pivot(n.front, stack[i].accum))
             /\ RecordsAt(index', Pivot(stack[i].accum, stack[i].back))
                  = RecordsAt(index, Pivot(stack[i].accum, stack[i].back))
  <2>1. FrameShape(i) /\ TileShape(n)
    BY FrameFacts, TileFacts
  <2>2. Pivot(stack[i].accum, stack[i].back) \in Pieces
    <3>1. stack[i] \in Range(stack)
      BY DEF Range
    <3> QED BY <3>1 DEF Pieces
  <2>3. call.back <= stack[i].accum
    BY <1>2, <2>1, StackBehind DEF CallShape, FrameShape
  <2>4. InsideOrApart(Pivot(call.front, call.back), n)
    <3>1. Pivot(call.front, call.back) \in Pieces /\ n \in Settled
      BY <1>2 DEF SplitShape, Pieces, Settled
    <3> QED BY <3>1 DEF PiecesFit
  <2> DEFINE q == Pivot(n.front, stack[i].accum)
  <2>5. Span(call) \subseteq Span(q) \/ Span(call) \cap Span(q) = {}
    <3>1. n.front <= call.front \/ call.back <= n.front
      BY <1>2, <2>1, <2>3, <2>4, <1>7
         DEF CallShape, FrameShape, TileShape, IsNode, InsideOrApart, Pivot
    <3> QED BY <1>2, <2>1, <2>3, <3>1
            DEF CallShape, FrameShape, TileShape, Span, Pivot
  <2>6. /\ q.front \in 0 .. N /\ q.back \in 0 .. N
        /\ call.front \in 0 .. N /\ call.back \in 0 .. N
    BY <1>2, <2>1 DEF CallShape, FrameShape, TileShape, Pivot
  <2> HIDE DEF q
  <2>7. RecordsAt(index', q) = RecordsAt(index, q)
    BY <1>3, <1>4, <2>5, <2>6, SortStaysInside
  <2> QED BY <1>1, <2>2, <2>7, StepKeepsPieces DEF q
<1> QED BY <1>5, <1>6, <1>7 DEF SplitSame

\* A split keeps it: the loop it starts takes the place of the call.
LEMMA SplitTileTree ==
    ASSUME TilesInv, TreeInv, SplitTile
    PROVE  TreeInv'
<1> USE DEF TilesInv, TreeInv
<1> DEFINE T == TileNode(call, FALSE)
           F == FrameOf(call)
           L == Len(stack)
<1>1. /\ SplitShape /\ CallShape /\ SplitSame /\ data' = data
      /\ call.level < MaxZoom * Keys
  BY SplitFacts, CallFacts, SplitKeepsRecords DEF SplitTile, SplitShape
<1>2. /\ L \in Nat /\ DOMAIN stack' = 1 .. L + 1 /\ DOMAIN stack = 1 .. L
      /\ Len(stack') = L + 1 /\ \A i \in DOMAIN stack : stack'[i] = stack[i]
      /\ stack'[L + 1] = F /\ tiles' = tiles \cup {T}
      /\ call' = None /\ call # None /\ Cursor' = call.front /\ stage = 0
      /\ call.front \in Int /\ call.back \in Int /\ call.front < call.back
  BY <1>1 DEF SplitShape, CallShape
<1>3. call.level = L
  BY <1>2 DEF Levels
<1>4. /\ T.level = L /\ T.front = call.front /\ T.back = call.back /\ ~T.last
      /\ T.x = call.x /\ T.y = call.y /\ T.z = call.z
  BY <1>3 DEF TileNode
<1>5. F.level = L /\ F.accum = call.front /\ F.back = call.back
  BY <1>3 DEF FrameOf
<1>6. \A i \in DOMAIN stack' : i \in DOMAIN stack \/ i = L + 1
  BY <1>2
<1>7. \A m \in tiles : m.level >= L => m.back <= call.front
  BY <1>1, <1>2 DEF CallShape, DeepBehind
<1>8. \A m \in tiles : TileShape(m)
  BY TileFacts
<1> HIDE DEF T, F, L
<1>9. Levels'
  <2>1. \A i \in DOMAIN stack' : stack'[i].level = i - 1
    BY <1>2, <1>5, <1>6 DEF Levels, L
  <2>2. \A n \in tiles' : ~n.last => n.level < MaxZoom * Keys
    BY <1>1, <1>2, <1>3, <1>4 DEF Levels
  <2> QED BY <1>2, <2>1, <2>2 DEF Levels
<1>10. LevelsApart'
  <2>1. \A m \in tiles' : m.front < m.back
    BY <1>2, <1>4 DEF LevelsApart
  <2>2. \A m \in tiles : m.level = T.level => Apart(m, T) /\ Apart(T, m)
    BY <1>2, <1>4, <1>7, <1>8 DEF Apart, TileShape
  <2>3. \A m, o \in tiles' : m.level = o.level => m = o \/ Apart(m, o)
    BY <1>2, <2>2 DEF LevelsApart
  <2> QED BY <2>1, <2>3 DEF LevelsApart
<1>11. DeepBehind'
  <2>1. \A m \in tiles' : m.level >= L + 1 => m.back <= call.front
    <3>1. \A m \in tiles : m.level >= L + 1 => m.level >= L
      BY <1>2, <1>8 DEF TileShape
    <3>2. ~(T.level >= L + 1)
      BY <1>2, <1>4
    <3> QED BY <1>2, <1>7, <3>1, <3>2
  <2>2. ASSUME NEW i \in DOMAIN stack', NEW m \in tiles', m.level >= stack'[i].level
        PROVE  m.back <= stack'[i].back
    <3>1. CASE i \in DOMAIN stack /\ m \in tiles
      BY <1>2, <2>2, <3>1 DEF DeepBehind
    <3>2. CASE i \in DOMAIN stack /\ m = T
      <4>1. FrameShape(i) /\ call.back = Top.accum
        BY <1>1, <3>2, FrameFacts DEF CallShape, FrameShape
      <4>2. call.back <= stack[i].accum
        BY <3>2, <4>1, StackBehind DEF FrameShape
      <4> QED BY <1>2, <1>4, <3>2, <4>1, <4>2 DEF FrameShape
    <3>3. CASE i = L + 1 /\ m \in tiles
      <4>1. m.back <= call.front
        BY <1>2, <1>5, <1>7, <2>2, <3>3
      <4>2. m.back \in Int
        BY <1>8, <3>3 DEF TileShape
      <4> QED BY <1>2, <1>5, <3>3, <4>1, <4>2
    <3>4. CASE i = L + 1 /\ m = T
      BY <1>2, <1>4, <1>5, <3>4
    <3> QED BY <1>2, <1>6, <3>1, <3>2, <3>3, <3>4
  <2> QED BY <1>2, <2>1, <2>2 DEF DeepBehind
<1>12. LoopsHaveTiles'
  <2>1. IsNode(T, F) /\ T \in tiles'
    BY <1>2, <1>4, <1>5 DEF IsNode
  <2>2. \A i \in DOMAIN stack' : \E n \in tiles' : IsNode(n, stack'[i])
    BY <1>2, <1>6, <2>1 DEF LoopsHaveTiles
  <2> QED BY <1>2, <2>2 DEF LoopsHaveTiles
<1>13. \A n : Children(n) \subseteq Children(n)'
  BY <1>2 DEF Children
<1>14. Covered'
  <2> SUFFICES ASSUME NEW n \in tiles', ~n.last, NEW k \in Span(n)
               PROVE  \/ \E m \in Children(n)' : k \in Span(m)
                      \/ \E i \in DOMAIN stack' : /\ stack'[i].level = n.level
                                                  /\ k \in stack'[i].accum .. stack'[i].back - 1
    BY Zenon DEF Covered
  <2>1. CASE n = T
    <3>1. k \in F.accum .. F.back - 1 /\ F.level = n.level
      BY <1>4, <1>5, <2>1 DEF Span
    <3>2. L + 1 \in DOMAIN stack'
      BY <1>2
    <3> QED BY <1>2, <3>1, <3>2
  <2>2. CASE n \in tiles
    <3>1. CASE \E m \in Children(n) : k \in Span(m)
      BY <1>13, <3>1
    <3>2. CASE \E i \in DOMAIN stack : /\ stack[i].level = n.level
                                       /\ k \in stack[i].accum .. stack[i].back - 1
      BY <1>2, <3>2
    <3>3. CASE call.level = n.level + 1 /\ k \in Span(call)
      <4>1. Span(call) \subseteq Span(n)
        BY <1>2, <2>2, <3>3, CallInNode
      <4>2. Span(T) = Span(call) /\ T.level = n.level + 1
        BY <1>3, <1>4, <3>3 DEF Span
      <4>3. T \in Children(n)'
        BY <1>2, <4>1, <4>2 DEF Children
      <4> QED BY <3>3, <4>2, <4>3
    <3> QED BY <2>2, <3>1, <3>2, <3>3 DEF Covered
  <2> QED BY <1>2, <2>1, <2>2
<1>15. RecordsAt(index', T) = RecordsAt(index, call)
  <2>1. RecordsAt(index', T) = RecordsAt(index', call)
    BY <1>4 DEF RecordsAt, Span
  <2> QED BY <1>1, <2>1 DEF SplitSame
<1>16. SiblingsFit'
  <2>1. ASSUME NEW n \in tiles', ~n.last
        PROVE  /\ SharesParent(n)'
               /\ \A m \in Children(n)' : m.z = ChildZoom(n.level) /\ HasItsOwn(n, m)'
    <3>1. CASE n \in tiles
      <4>1. RecordsAt(index', n) = RecordsAt(index, n)
        BY <1>1, <3>1 DEF SplitSame
      <4>2. SharesParent(n)'
        BY <1>1, <2>1, <3>1, <4>1, SameRecords DEF SiblingsFit
      <4>3. ASSUME NEW m \in Children(n)'
            PROVE  m.z = ChildZoom(n.level) /\ HasItsOwn(n, m)'
        <5>1. m \in tiles' /\ m.level = n.level + 1 /\ Span(m) \subseteq Span(n)
          BY <4>3 DEF Children
        <5>2. CASE m \in tiles
          <6>1. m \in Children(n)
            BY <5>1, <5>2 DEF Children
          <6>2. RecordsAt(index', m) = RecordsAt(index, m)
            BY <1>1, <5>2 DEF SplitSame
          <6> QED BY <1>1, <2>1, <3>1, <4>1, <6>1, <6>2, SameRecords DEF SiblingsFit
        <5>3. CASE m = T
          <6>1. /\ m.front = call.front /\ m.back = call.back
                /\ m.level \in Nat /\ m.level >= call.level
            BY <1>2, <1>3, <1>4, <5>3
          <6>2. /\ m.level = call.level /\ call.z = ChildZoom(n.level)
                /\ HasItsOwn(n, call)
            BY <1>2, <2>1, <3>1, <5>1, <6>1, NewChild
          <6>3. m.z = call.z /\ m.x = call.x /\ m.y = call.y
                /\ RecordsAt(index', m) = RecordsAt(index, call)
            BY <1>4, <1>15, <5>3
          <6>4. HasItsOwn(n, m)'
            BY <1>1, <4>1, <6>2, <6>3, OwnAgain
          <6> QED BY <6>2, <6>3, <6>4
        <5> QED BY <1>2, <5>1, <5>2, <5>3
      <4> QED BY <4>2, <4>3
    <3>2. CASE n = T
      <4>1. SharesParent(n)'
        <5>1. RecordsAt(index', n) = RecordsAt(index, call) /\ n.level = call.level
          BY <1>3, <1>4, <1>15, <3>2
        <5>2. LET d == NextKey(call.level)
                  z == ChildZoom(call.level)
              IN  z > 0 => \A r, q \in RecordsAt(index, call) :
                             TileOf(data[r], d, z - 1) = TileOf(data[q], d, z - 1)
          BY <1>2, CallSharesParent
        <5> QED BY <1>1, <5>1, <5>2 DEF SharesParent
      <4>2. Children(n)' = {}
        <5> SUFFICES ASSUME NEW m \in Children(n)' PROVE FALSE
          OBVIOUS
        <5>1. m \in tiles' /\ m.level = L + 1 /\ Span(m) \subseteq Span(T)
          BY <1>4, <3>2 DEF Children
        <5>2. m \in tiles
          BY <1>2, <1>4, <5>1
        <5>3. m.front < m.back /\ TileShape(m) /\ m.back <= call.front
          BY <1>2, <1>7, <1>8, <5>1, <5>2 DEF LevelsApart
        <5>4. m.front \in Span(m) /\ m.front \notin Span(T)
          BY <1>2, <1>4, <5>3 DEF Span, TileShape
        <5> QED BY <5>1, <5>4
      <4> QED BY <4>1, <4>2
    <3> QED BY <1>2, <3>1, <3>2
  <2>2. ASSUME NEW i \in DOMAIN stack', NEW n \in tiles', IsNode(n, stack'[i])
        PROVE  PassedApart(data', index', n, stack'[i])
    <3>1. CASE i \in DOMAIN stack /\ n \in tiles
      <4>1. stack'[i] = stack[i] /\ PassedApart(data, index, n, stack[i])
        BY <1>2, <2>2, <3>1 DEF SiblingsFit
      <4>2. /\ RecordsAt(index', Pivot(n.front, stack[i].accum))
                 = RecordsAt(index, Pivot(n.front, stack[i].accum))
            /\ RecordsAt(index', Pivot(stack[i].accum, stack[i].back))
                 = RecordsAt(index, Pivot(stack[i].accum, stack[i].back))
        BY <1>1, <2>2, <3>1, <4>1 DEF SplitSame
      <4>3. PassedApart(data', index', n, stack[i])
        BY <1>1, <4>1, <4>2, SamePassed
      <4> QED BY <4>1, <4>3
    <3>2. CASE i \in DOMAIN stack /\ n = T
      <4>1. stack[i].level = i - 1 /\ n.level = stack[i].level
        BY <1>2, <2>2, <3>2 DEF Levels, IsNode
      <4> QED BY <1>2, <1>4, <3>2, <4>1
    <3>3. CASE i = L + 1 /\ n \in tiles
      <4>1. n.level = L /\ n.back = call.back
        BY <1>2, <1>5, <2>2, <3>3 DEF IsNode
      <4>2. n.back <= call.front
        BY <1>2, <1>7, <3>3, <4>1
      <4> QED BY <1>2, <4>1, <4>2
    <3>4. CASE i = L + 1 /\ n = T
      <4>1. n.front = F.accum /\ F.accum \in Int /\ stack'[i] = F
        BY <1>2, <1>4, <1>5, <3>4
      <4>2. RecordsAt(index', Pivot(n.front, F.accum)) = {}
        <5>1. Span(Pivot(n.front, F.accum)) = {}
          BY <4>1 DEF Span, Pivot
        <5> QED BY <5>1 DEF RecordsAt
      <4> QED BY <4>1, <4>2 DEF PassedApart
    <3> QED BY <1>2, <1>6, <3>1, <3>2, <3>3, <3>4
  <2> QED BY <1>2, <2>1, <2>2 DEF SiblingsFit
<1> QED BY <1>9, <1>10, <1>11, <1>12, <1>14, <1>16

-----------------------------------------------------------------------------
(* The invariant holds, and the quadtree follows from it.                  *)

\* Before the first step there is no tile and no loop.
LEMMA InitTree == Init => TreeInv
<1> SUFFICES ASSUME Init PROVE TreeInv
  OBVIOUS
<1>1. /\ tiles = {} /\ stack = << >> /\ DOMAIN stack = {} /\ Len(stack) = 0
      /\ call # None => call.level = 0
  BY DEF Init, RootCall
<1> QED BY <1>1 DEF TreeInv, Levels, LevelsApart, DeepBehind, LoopsHaveTiles,
                    Covered, SiblingsFit

\* Every step of the build keeps it.
LEMMA NextTree ==
    ASSUME TilesInv, TreeInv, [Next]_vars
    PROVE  TreeInv'
<1>1. CASE SplitTile
  BY <1>1, SplitTileTree
<1>2. CASE NextChild
  BY <1>2, NextChildTree DEF TilesInv
<1>3. CASE LeafTile
  BY <1>3, LeafTileTree
<1>4. CASE ReturnTile
  BY <1>4, ReturnTileTree DEF TilesInv
<1>5. CASE OpenNode \/ EmplacePart \/ SortNode \/ EndPass
  BY <1>5, LaterStepTree DEF TilesInv
<1>6. CASE UNCHANGED vars
  <2> USE <1>6 DEF vars
  <2>1. /\ Levels' /\ LevelsApart' /\ DeepBehind' /\ LoopsHaveTiles'
    BY DEF TreeInv, Levels, LevelsApart, DeepBehind, LoopsHaveTiles, Cursor, Top
  <2>2. Covered'
    BY DEF TreeInv, Covered, Children
  <2>3. SiblingsFit'
    BY DEF TreeInv, SiblingsFit, Children, SharesParent, HasItsOwn, Top
  <2> QED BY <2>1, <2>2, <2>3 DEF TreeInv
<1> QED BY <1>1, <1>2, <1>3, <1>4, <1>5, <1>6 DEF Next

\* A level above the last has children at a zoom of the key that is next.
LEMMA ChildZoomFits ==
    ASSUME NEW level \in Nat, level < MaxZoom * Keys
    PROVE  /\ ChildZoom(level) \in Nat /\ ChildZoom(level) <= MaxZoom
           /\ NextKey(level) \in 0 .. Keys - 1
<1> DEFINE q == (level + 1) \div Keys
           k == (level + 1) % Keys
<1>1. Keys \in Nat \ {0} /\ MaxZoom \in Nat /\ level + 1 \in Nat
  BY Sizes
<1>2. q \in Nat /\ k \in Nat /\ k < Keys /\ level + 1 = Keys * q + k
  BY <1>1, DivMod
<1> HIDE DEF q, k
<1>3. /\ (MaxZoom + 1) * Keys = MaxZoom * Keys + Keys /\ q * Keys = Keys * q
      /\ Keys * q \in Int /\ MaxZoom * Keys \in Int
  BY <1>1, <1>2, SMT
<1>4. q * Keys < (MaxZoom + 1) * Keys
  BY <1>1, <1>2, <1>3
<1>5. q < MaxZoom + 1
  <2>1. MaxZoom + 1 \in Int /\ q \in Int
    BY <1>1, <1>2
  <2> QED BY <1>1, <1>4, <2>1, MulLess
<1>6. q \in Nat /\ q <= MaxZoom /\ k \in 0 .. Keys - 1
  BY <1>1, <1>2, <1>5
<1> QED BY <1>6 DEF ChildZoom, NextKey, q, k

\* Tiles with one parent that differ take different slots.
LEMMA SlotsDiffer ==
    ASSUME NEW s \in Tile, NEW t \in Tile, s # t,
           s.x \div 2 = t.x \div 2, s.y \div 2 = t.y \div 2
    PROVE  GetIndex(s) # GetIndex(t)
<1>1. s.x \in Nat /\ s.y \in Nat /\ t.x \in Nat /\ t.y \in Nat
  BY DEF Tile
<1>2. s.x # t.x \/ s.y # t.y
  BY DEF Tile
<1>3. /\ s.x % 2 \in 0 .. 1 /\ s.y % 2 \in 0 .. 1
      /\ t.x % 2 \in 0 .. 1 /\ t.y % 2 \in 0 .. 1
      /\ s.x % 2 # t.x % 2 \/ s.y % 2 # t.y % 2
  BY <1>1, <1>2, SMT
<1> DEFINE a == s.x % 2
           b == s.y % 2
           c == t.x % 2
           e == t.y % 2
<1>4. /\ a \in 0 .. 1 /\ b \in 0 .. 1 /\ c \in 0 .. 1 /\ e \in 0 .. 1
      /\ a # c \/ b # e
  BY <1>3
<1> HIDE DEF a, b, c, e
<1>5. 2 * a + b # 2 * c + e
  BY <1>4
<1> QED BY <1>5 DEF GetIndex, a, b, c, e

\* Children of a node lie apart and take different slots.
LEMMA ChildrenDiffer ==
    ASSUME TilesInv, TreeInv, NEW n \in tiles, ~n.last,
           NEW m \in Children(n), NEW o \in Children(n), m # o
    PROVE  GetIndex(m) # GetIndex(o) /\ Span(m) \cap Span(o) = {}
<1> USE DEF TilesInv, TreeInv
<1> DEFINE d == NextKey(n.level)
           z == ChildZoom(n.level)
<1>1. /\ m \in tiles /\ o \in tiles /\ m.level = n.level + 1 /\ o.level = n.level + 1
      /\ Span(m) \subseteq Span(n) /\ Span(o) \subseteq Span(n)
  BY DEF Children
<1>2. TileShape(n) /\ TileShape(m) /\ TileShape(o)
  BY <1>1, TileFacts
<1>3. Apart(m, o) /\ m.front < m.back /\ o.front < o.back
  BY <1>1 DEF LevelsApart
<1>4. Span(m) \cap Span(o) = {}
  BY <1>2, <1>3 DEF TileShape, Span, Apart
<1>5. m.front \in Span(m) /\ o.front \in Span(o)
  BY <1>2, <1>3 DEF TileShape, Span
<1> DEFINE r == index[m.front]
           q == index[o.front]
<1>6. /\ r \in RecordsAt(index, n) /\ r \in RecordsAt(index, m)
      /\ q \in RecordsAt(index, n) /\ q \in RecordsAt(index, o)
  BY <1>1, <1>5 DEF RecordsAt
<1>7. q \notin RecordsAt(index, m)
  <2>1. index \in [Records -> Records] /\ IsInjective(index)
    BY DEF IInv, TypeOK
  <2>2. RecordsAt(index, m) \cap RecordsAt(index, o) = {}
    BY <1>2, <1>3, <2>1, ApartRecords DEF TileShape
  <2> QED BY <1>6, <2>2
<1>8. data[r] \in Record /\ data[q] \in Record
  <2>1. m.front \in Records /\ o.front \in Records
    BY <1>2, <1>3, <1>5, InRecords DEF TileShape, Span
  <2> QED BY <2>1, PlacedRecord
<1> HIDE DEF r, q
<1>9. /\ m.level % Keys = d /\ m.z = z /\ HasItsOwn(n, m)
      /\ o.level % Keys = d /\ o.z = z /\ HasItsOwn(n, o) /\ SharesParent(n)
  BY <1>1 DEF SiblingsFit, NextKey
<1>10. z \in Nat /\ z <= MaxZoom /\ d \in 0 .. Keys - 1
  BY <1>2, ChildZoomFits DEF Levels, TileShape
<1>11. z > 0 => TileOf(data[r], d, z - 1) = TileOf(data[q], d, z - 1)
  BY <1>6, <1>9 DEF SharesParent
<1> HIDE DEF d, z
<1> DEFINE s == TileOf(data[r], d, z)
           t == TileOf(data[q], d, z)
<1>12. s \in Tile /\ t \in Tile
  BY <1>8, <1>10, TileType
<1>13. s.x \div 2 = t.x \div 2 /\ s.y \div 2 = t.y \div 2
  BY <1>8, <1>10, <1>11, Siblings
<1>14. /\ s = [x |-> m.x, y |-> m.y] /\ t = [x |-> o.x, y |-> o.y] /\ s # t
  BY <1>6, <1>7, <1>9 DEF HasItsOwn
<1> HIDE DEF s, t
<1>15. GetIndex(s) # GetIndex(t)
  BY <1>12, <1>13, <1>14, SlotsDiffer
<1>16. GetIndex(s) = GetIndex(m) /\ GetIndex(t) = GetIndex(o)
  BY <1>14 DEF GetIndex
<1> QED BY <1>4, <1>15, <1>16

\* Once no loop is left the children of a node cover it.
LEMMA TreeCovers ==
    ASSUME TilesInv, TreeInv
    PROVE  QuadtreeCovers
<1> USE DEF TilesInv, TreeInv
<1> SUFFICES ASSUME stage > 0, NEW n \in tiles, ~n.last
             PROVE  /\ UNION {Span(m) : m \in Children(n)} = Span(n)
                    /\ \A m, o \in Children(n) :
                         m # o => /\ GetIndex(m) # GetIndex(o)
                                  /\ Span(m) \cap Span(o) = {}
  BY DEF QuadtreeCovers
<1>1. call = None /\ DOMAIN stack = {}
  BY DEF IInv, Phases
<1>2. \A k \in Span(n) : \E m \in Children(n) : k \in Span(m)
  BY <1>1 DEF Covered
<1>3. \A m \in Children(n) : Span(m) \subseteq Span(n)
  BY DEF Children
<1>4. UNION {Span(m) : m \in Children(n)} = Span(n)
  BY <1>2, <1>3
<1>5. ASSUME NEW m \in Children(n), NEW o \in Children(n), m # o
      PROVE  GetIndex(m) # GetIndex(o) /\ Span(m) \cap Span(o) = {}
  BY <1>5, ChildrenDiffer
<1> QED BY <1>4, <1>5

\* After the spatial pass the children of every inner tile cover it, share no
\* position and differ in the lowest bits of x and y: no assignment to
\* TileNode::_container replaces a child, and a query that descends to all of
\* them sees every record once.
THEOREM TreeHolds == Spec => []QuadtreeCovers
<1>1. Init => TilesInv /\ TreeInv
  BY InitTilesInv, InitTree
<1>2. TilesInv /\ TreeInv /\ [Next]_vars => (TilesInv /\ TreeInv)'
  BY NextTilesInv, NextTree
<1>3. TilesInv /\ TreeInv => QuadtreeCovers
  BY TreeCovers
<1> QED BY <1>1, <1>2, <1>3, PTL DEF Spec
=============================================================================
