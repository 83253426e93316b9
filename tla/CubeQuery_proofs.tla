--------------------------- MODULE CubeQuery_proofs ---------------------------
(***************************************************************************)
(* A query reads only nodes that exist: the pivots a dimension answers,    *)
(* in the order the walks of the tree list them, end where nodes of the    *)
(* next dimension end, so the cursor that the ranges move forward never    *)
(* runs past the last node of a dimension.                                 *)
(* What it reads is what the query asks for: the records of the ranges in  *)
(* hand are those that pass the clauses of the dimensions visited, and the *)
(* rows written are the rows of the database that match.                   *)
(***************************************************************************)
EXTENDS CubeQuery, CubeRefines_proofs

-----------------------------------------------------------------------------
(* The siblings of a node ascend.                                          *)

\* The siblings made of a node ascend in the order of std::map<std::pair<x, y>>:
\* those that lie behind come later in it, before the call under way and what its
\* loop has left.
ChildrenAscend ==
    /\ \A n \in tiles : ~n.last =>
         /\ \A m, o \in Children(n) : m.back <= o.front => TileBefore(m, o)
         /\ call # None /\ call.level = n.level + 1 /\ Span(call) \subseteq Span(n) =>
              \A m \in Children(n) : TileBefore(m, call)
         /\ \A i \in DOMAIN stack : IsNode(n, stack[i]) =>
              \A m \in Children(n) : \A e \in stack[i].used : TileBefore(m, e.key)
    /\ call # None /\ stack # << >> => \A e \in Top.used : TileBefore(call, e.key)

\* What a leaf adds to the tiles; what SplitTile adds.
AddsTile(new) ==
    /\ call' = None /\ call # None
    /\ tiles' = tiles \cup new
    /\ \A n \in new : /\ n.front = call.front /\ n.back = call.back
                      /\ n.level \in Nat /\ n.level >= call.level
                      /\ n.level < call.level + Keys
                      /\ n.level = call.level => n.x = call.x /\ n.y = call.y
                      /\ ~n.last => n.level = call.level /\ new = {n}
    /\ \A n, m \in new : n.level = m.level => n = m

\* A split adds the tile of its call.
LEMMA SplitAdds ==
    ASSUME IInv, SplitTile
    PROVE  AddsTile({TileNode(call, FALSE)})
<1>1. call # None /\ call \in Calls
  BY DEF SplitTile, IInv, TypeOK
<1>2. call.level \in Nat
  BY <1>1 DEF Calls
<1>3. call.level < call.level + Keys
  BY <1>2, Sizes
<1> QED BY <1>1, <1>2, <1>3 DEF SplitTile, AddsTile, TileNode

\* A leaf adds its tile and, below it, one per other key.
LEMMA LeafAdds ==
    ASSUME IInv, LeafTile
    PROVE  AddsTile({TileNode(call, TRUE)} \cup ChainTiles(call))
<1>1. call # None /\ call \in Calls
  BY DEF LeafTile, IInv, TypeOK
<1>2. call.level \in Nat
  BY <1>1 DEF Calls
<1>3. ASSUME NEW n \in ChainTiles(call)
      PROVE  \E j \in 1 .. Keys - 1 :
               /\ n.front = call.front /\ n.back = call.back /\ n.last
               /\ n.level = call.level + j
               /\ n = TileNode([call EXCEPT !.level = @ + j,
                        !.x = call.zoom[(call.level + j) % Keys].x,
                        !.y = call.zoom[(call.level + j) % Keys].y,
                        !.z = (call.zoom[(call.level + j) % Keys].z - 1) % 32], TRUE)
  <2>1. PICK j \in 1 .. Keys - 1 :
          LET z == call.zoom[(call.level + j) % Keys]
          IN  n = TileNode([call EXCEPT !.level = @ + j, !.x = z.x,
                              !.y = z.y, !.z = (z.z - 1) % 32], TRUE)
    BY Zenon DEF ChainTiles
  <2>2. /\ n.front = call.front /\ n.back = call.back /\ n.last
        /\ n.level = call.level + j
    BY <1>1, <2>1 DEF TileNode, Calls
  <2> QED BY <2>1, <2>2
<1>4. \A n \in ChainTiles(call) :
         /\ n.front = call.front /\ n.back = call.back /\ n.last
         /\ n.level \in Nat /\ n.level > call.level
         /\ n.level < call.level + Keys
  <2> SUFFICES ASSUME NEW n \in ChainTiles(call)
               PROVE  /\ n.front = call.front /\ n.back = call.back /\ n.last
                      /\ n.level \in Nat /\ n.level > call.level
                      /\ n.level < call.level + Keys
    OBVIOUS
  <2>1. PICK j \in 1 .. Keys - 1 :
               /\ n.front = call.front /\ n.back = call.back /\ n.last
               /\ n.level = call.level + j
    BY <1>3
  <2>2. j \in Nat /\ j > 0 /\ j < Keys /\ Keys \in Nat
    BY Sizes
  <2> QED BY <1>2, <2>1, <2>2
<1>5. \A n, m \in ChainTiles(call) : n.level = m.level => n = m
  <2> SUFFICES ASSUME NEW n \in ChainTiles(call), NEW m \in ChainTiles(call),
                      n.level = m.level
               PROVE  n = m
    OBVIOUS
  <2>1. PICK i \in 1 .. Keys - 1 :
               /\ n.level = call.level + i
               /\ n = TileNode([call EXCEPT !.level = @ + i,
                        !.x = call.zoom[(call.level + i) % Keys].x,
                        !.y = call.zoom[(call.level + i) % Keys].y,
                        !.z = (call.zoom[(call.level + i) % Keys].z - 1) % 32], TRUE)
    BY <1>3
  <2>2. PICK j \in 1 .. Keys - 1 :
               /\ m.level = call.level + j
               /\ m = TileNode([call EXCEPT !.level = @ + j,
                        !.x = call.zoom[(call.level + j) % Keys].x,
                        !.y = call.zoom[(call.level + j) % Keys].y,
                        !.z = (call.zoom[(call.level + j) % Keys].z - 1) % 32], TRUE)
    BY <1>3
  <2>3. i = j
    <3>1. i \in Int /\ j \in Int /\ call.level + i = call.level + j
      <4>1. i \in Int /\ j \in Int
        BY Sizes
      <4> QED BY <2>1, <2>2, <4>1, Zenon
    <3> QED BY <1>2, <3>1
  <2> QED BY <2>1, <2>2, <2>3, Zenon
<1> DEFINE head == TileNode(call, TRUE)
           new == {head} \cup ChainTiles(call)
<1>6. /\ head.front = call.front /\ head.back = call.back
      /\ head.level = call.level /\ head.x = call.x /\ head.y = call.y /\ head.last
  BY DEF TileNode
<1>7. \A n \in new : n = head \/ n \in ChainTiles(call)
  OBVIOUS
<1>8. call' = None /\ tiles' = tiles \cup new
  BY DEF LeafTile
<1> HIDE DEF new, head
<1>9. \A n \in new :
                      /\ n.front = call.front /\ n.back = call.back
                      /\ n.level \in Nat /\ n.level >= call.level
                      /\ n.level < call.level + Keys
                      /\ n.level = call.level => n.x = call.x /\ n.y = call.y
                      /\ ~n.last => n.level = call.level /\ new = {n}
  <2>1. call.level < call.level + Keys
    BY <1>2, Sizes
  <2> QED BY <1>2, <1>4, <1>6, <1>7, <2>1
<1>10. \A n, m \in new : n.level = m.level => n = m
  <2> SUFFICES ASSUME NEW n \in new, NEW m \in new, n.level = m.level
               PROVE  n = m
    OBVIOUS
  <2>1. CASE n \in ChainTiles(call) /\ m \in ChainTiles(call)
    BY <1>5, <2>1
  <2>2. CASE n = head /\ m \in ChainTiles(call)
    BY <1>2, <1>4, <1>6, <2>2
  <2>3. CASE m = head /\ n \in ChainTiles(call)
    BY <1>2, <1>4, <1>6, <2>3
  <2> QED BY <1>7, <2>1, <2>2, <2>3
<1>11. AddsTile(new)
  BY <1>1, <1>8, <1>9, <1>10 DEF AddsTile
<1> QED BY <1>11 DEF new, head

\* A tile that is added lies in a node above it only as its next child.
LEMMA AddedChild ==
    ASSUME IInv, TreeInv, NEW new, AddsTile(new), NEW n \in tiles, NEW c \in new,
           c.level = n.level + 1, Span(c) \subseteq Span(n)
    PROVE  /\ c.level = call.level /\ Span(call) \subseteq Span(n)
           /\ c.x = call.x /\ c.y = call.y
<1>1. CallShape /\ TileShape(n) /\ call.level = Len(stack) /\ Len(stack) \in Nat
  <2>1. call # None
    BY DEF AddsTile
  <2>2. stack \in Seq(Frames)
    BY DEF IInv, TypeOK
  <2> QED BY <2>1, <2>2, CallFacts, TileFacts DEF TreeInv, Levels
<1>2. Span(c) = Span(call)
  BY DEF AddsTile, Span
<1>3. call.front \in Span(n)
  <2>1. call.front \in Span(call)
    BY <1>1 DEF CallShape, Span
  <2> QED BY <1>2, <2>1
<1>4. ~(n.back <= Cursor)
  BY <1>1, <1>3 DEF CallShape, TileShape, Span
<1>5. ~(n.level >= Len(stack))
  BY <1>1, <1>4 DEF TreeInv, DeepBehind, CallShape
<1>6. c.level \in Nat /\ c.level >= call.level
  BY DEF AddsTile
<1>7. c.level = call.level
  BY <1>1, <1>5, <1>6 DEF TileShape
<1> QED BY <1>2, <1>7 DEF AddsTile

\* Tiles as deep as the call lie before it.
LEMMA DeeperBefore ==
    ASSUME IInv, TreeInv, call # None, NEW m \in tiles, m.level >= call.level
    PROVE  /\ m.back <= call.front /\ m.front < m.back
           /\ m.front \in Int /\ m.back \in Int
<1>1. CallShape /\ TileShape(m) /\ call.level = Len(stack)
  BY CallFacts, TileFacts DEF TreeInv, Levels
<1> QED BY <1>1 DEF TreeInv, DeepBehind, LevelsApart, CallShape, TileShape

\* New tiles keep siblings in order.
LEMMA AddsAscend ==
    ASSUME IInv, TreeInv, ChildrenAscend, NEW new, AddsTile(new),
           \A i \in DOMAIN stack' :
              \/ i \in DOMAIN stack /\ stack'[i] = stack[i]
              \/ stack'[i].level = call.level /\ stack'[i].back = call.back
    PROVE  ChildrenAscend'
<1>1. /\ call' = None /\ call # None /\ tiles' = tiles \cup new
      /\ \A c \in new : /\ c.front = call.front /\ c.back = call.back
                        /\ ~c.last => c.level = call.level /\ new = {c}
      /\ \A c, e \in new : c.level = e.level => c = e
  BY DEF AddsTile
<1>2. CallShape /\ call.level = Len(stack)
  BY <1>1, CallFacts DEF TreeInv, Levels
<1>3. /\ call.front \in Int /\ call.back \in Int /\ call.front < call.back
      /\ call.level \in Nat
  BY <1>2 DEF CallShape
<1>4. \A n : Children(n)' = {m \in tiles' : m.level = n.level + 1 /\ Span(m) \subseteq Span(n)}
  BY DEF Children
<1>5. ASSUME NEW n \in tiles, ~n.last, NEW c \in Children(n)', c \notin tiles
      PROVE  /\ c \in new /\ c.level = call.level /\ c.level = n.level + 1
             /\ Span(call) \subseteq Span(n) /\ c.x = call.x /\ c.y = call.y
             /\ c.front = call.front /\ c.back = call.back
  <2>1. c \in new /\ c.level = n.level + 1 /\ Span(c) \subseteq Span(n)
    BY <1>1, <1>4, <1>5
  <2> QED BY <1>1, <2>1, AddedChild
<1>6. ASSUME NEW n \in tiles, ~n.last, NEW m \in Children(n)', m \in tiles
      PROVE  m \in Children(n)
  BY <1>4, <1>6 DEF Children
<1>7. ASSUME NEW n \in tiles, ~n.last, NEW m \in Children(n)', NEW o \in Children(n)',
             m.back <= o.front
      PROVE  TileBefore(m, o)
  <2>1. CASE m \in tiles /\ o \in tiles
    BY <1>6, <1>7, <2>1 DEF ChildrenAscend
  <2>2. CASE m \in tiles /\ o \notin tiles
    <3>1. TileBefore(m, call)
      BY <1>1, <1>5, <1>6, <1>7, <2>2 DEF ChildrenAscend
    <3> QED BY <1>5, <1>7, <2>2, <3>1 DEF TileBefore
  <2>3. CASE m \notin tiles /\ o \in tiles
    <3>1. m.level = call.level /\ m.back = call.back /\ o.level = m.level
      BY <1>4, <1>5, <1>7, <2>3
    <3>2. o.back <= call.front /\ o.front < o.back /\ o.front \in Int /\ o.back \in Int
      BY <1>1, <1>3, <2>3, <3>1, DeeperBefore
    <3> QED BY <1>3, <1>7, <3>1, <3>2
  <2>4. CASE m \notin tiles /\ o \notin tiles
    BY <1>3, <1>5, <1>7, <2>4
  <2> QED BY <2>1, <2>2, <2>3, <2>4
<1>8. ASSUME NEW n \in tiles, ~n.last, NEW i \in DOMAIN stack', IsNode(n, stack'[i]),
             NEW m \in Children(n)', NEW e \in stack'[i].used
      PROVE  TileBefore(m, e.key)
  <2>1. CASE i \in DOMAIN stack /\ stack'[i] = stack[i]
    <3>1. CASE m \in tiles
      BY <1>6, <1>8, <2>1, <3>1 DEF ChildrenAscend
    <3>2. CASE m \notin tiles
      <4>1. FrameShape(i) /\ stack[i].level = i - 1 /\ n.level = stack[i].level
        BY <1>8, <2>1, FrameFacts DEF TreeInv, Levels, IsNode
      <4>2. /\ call.level = n.level + 1 /\ m.x = call.x /\ m.y = call.y
        BY <1>5, <1>8, <3>2
      <4>3. i = Len(stack)
        BY <1>2, <4>1, <4>2 DEF FrameShape
      <4>4. stack # << >> /\ Top = stack[i]
        BY <4>1, <4>3 DEF FrameShape, Top
      <4>5. TileBefore(call, e.key)
        BY <1>1, <1>8, <2>1, <4>4 DEF ChildrenAscend
      <4> QED BY <4>2, <4>5 DEF TileBefore
    <3> QED BY <3>1, <3>2
  <2>2. CASE stack'[i].level = call.level /\ stack'[i].back = call.back
    <3>1. n.level = call.level /\ n.back = call.back
      BY <1>8, <2>2 DEF IsNode
    <3>2. n.back <= call.front
      BY <1>1, <1>3, <3>1, DeeperBefore
    <3> QED BY <1>3, <3>1, <3>2
  <2> QED BY <2>1, <2>2
<1>9. ASSUME NEW n \in tiles', n \notin tiles, ~n.last
      PROVE  Children(n)' = {}
  <2>1. n \in new /\ n.level = call.level /\ new = {n} /\ Span(n) = Span(call)
    BY <1>1, <1>9 DEF Span
  <2> SUFFICES ASSUME NEW m \in tiles', m.level = n.level + 1, Span(m) \subseteq Span(n)
               PROVE  FALSE
    BY <1>4
  <2>2. m \in tiles
    BY <1>1, <1>3, <2>1
  <2>3. m.level >= call.level
    BY <1>3, <2>1
  <2>4. m.back <= call.front /\ m.front < m.back /\ m.front \in Int /\ m.back \in Int
    BY <1>1, <2>2, <2>3, DeeperBefore
  <2>5. m.front \in Span(call)
    <3>1. m.front \in Span(m)
      BY <2>4 DEF Span
    <3> QED BY <2>1, <3>1
  <2> QED BY <1>3, <2>4, <2>5 DEF Span
<1> QED BY <1>1, <1>7, <1>8, <1>9 DEF ChildrenAscend

\* The tile a turn of the loop takes is the first of those left.
LEMMA TakesNext ==
    ASSUME IInv, NextChild
    PROVE  \E entry \in Top.used :
             /\ call'.x = entry.key.x /\ call'.y = entry.key.y
             /\ Top'.used = Top.used \ {entry}
             /\ \A f \in Top.used : TileBefore(entry.key, f.key)
<1> DEFINE d == NextKey(Top.level)
           z == Top.zoom[d].z
           entry == CHOOSE e \in Top.used :
                      \A f \in Top.used : TileBefore(e.key, f.key)
           b == Top.accum + entry.count
           zoom == [Top.zoom EXCEPT ![d] = [x |-> entry.key.x, y |-> entry.key.y, z |-> z + 1]]
           c == [level |-> Top.level + 1, front |-> Top.accum,
                 back |-> b, x |-> entry.key.x, y |-> entry.key.y, z |-> z, zoom |-> zoom]
           G == [Top EXCEPT !.accum = b, !.used = @ \ {entry}]
<1>1. /\ stack \in Seq(Frames) /\ stack # << >> /\ Len(stack) \in DOMAIN stack
      /\ Top \in Frames /\ Top.used \in UsedMaps(Tile) /\ Top.used # {}
  <2>1. stack \in Seq(Frames) /\ stack # << >> /\ Top.used # {}
    BY DEF IInv, TypeOK, NextChild
  <2>2. Len(stack) \in DOMAIN stack
    BY <2>1
  <2>3. Top \in Frames
    BY <2>1, <2>2 DEF Top
  <2> QED BY <2>1, <2>2, <2>3 DEF Frames
<1>2. entry \in Top.used /\ \A f \in Top.used : TileBefore(entry.key, f.key)
  <2>1. \E e \in Top.used : \A f \in Top.used : TileBefore(e.key, f.key)
    BY <1>1, FirstTile DEF UsedMaps, Tile
  <2> QED BY <2>1
<1>3. call' = c /\ stack' = SetTop(G)
  BY Zenon DEF NextChild
<1> HIDE DEF entry, b, zoom
<1>4. call'.x = entry.key.x /\ call'.y = entry.key.y
  BY <1>3
<1>5. stack' = [stack EXCEPT ![Len(stack)] = G]
  BY <1>3 DEF SetTop
<1>6. G.used = Top.used \ {entry}
  BY <1>1 DEF Frames
<1> HIDE DEF G
<1>7. Top' = G
  <2>1. Len(stack') = Len(stack) /\ stack'[Len(stack)] = G
    BY <1>1, <1>5
  <2> QED BY <2>1 DEF Top
<1> QED BY <1>2, <1>4, <1>6, <1>7

\* A turn of the loop calls on the first child it has left.
LEMMA NextChildAscends ==
    ASSUME IInv, SpatialHolds, TreeInv, ChildrenAscend, NextChild
    PROVE  ChildrenAscend'
<1>1. /\ call = None /\ call' # None /\ tiles' = tiles
      /\ stack # << >> /\ Len(stack) \in DOMAIN stack
      /\ DOMAIN stack' = DOMAIN stack
      /\ \A i \in DOMAIN stack : i # Len(stack) => stack'[i] = stack[i]
      /\ Top'.level = Top.level /\ Top'.back = Top.back
      /\ Top' = stack'[Len(stack)] /\ Top = stack[Len(stack)]
      /\ call'.level = Top.level + 1
      /\ call'.front = Top.accum /\ call'.back \in Int /\ call'.front < call'.back
      /\ call'.back <= Top.back
  <2>1. Top = stack[Len(stack)]
    BY DEF Top
  <2> QED BY <2>1, ChildFacts, Zenon DEF ChildShape
<1>2. PICK entry \in Top.used :
        /\ call'.x = entry.key.x /\ call'.y = entry.key.y
        /\ Top'.used = Top.used \ {entry}
        /\ \A f \in Top.used : TileBefore(entry.key, f.key)
  BY TakesNext
<1>3. PICK o \in tiles : IsNode(o, Top)
  BY <1>1 DEF TreeInv, LoopsHaveTiles
<1>4. FrameShape(Len(stack)) /\ TileShape(o)
  BY <1>1, FrameFacts, TileFacts
<1>5. \A n : Children(n)' = Children(n)
  BY <1>1 DEF Children
<1>6. \A n \in tiles : IsNode(n, Top') => n = o
  <2> SUFFICES ASSUME NEW n \in tiles, IsNode(n, Top') PROVE n = o
    OBVIOUS
  <2>1. n.level = o.level /\ n.back = o.back
    BY <1>1, <1>3 DEF IsNode
  <2> QED BY <2>1, SameBack DEF TreeInv
<1>7. ASSUME NEW n \in tiles, ~n.last, call'.level = n.level + 1, Span(call') \subseteq Span(n)
      PROVE  n = o
  <2>1. Top.accum \in Span(call') /\ Top.accum \in Int
    BY <1>1, <1>4 DEF FrameShape, Span
  <2>2. Top.accum \in Span(o)
    BY <1>1, <1>3, <1>4, <2>1 DEF IsNode, TileShape, FrameShape, Span
  <2>3. n.level = o.level
    BY <1>1, <1>3, <1>4, <1>7, TileFacts DEF IsNode, TileShape, FrameShape
  <2> QED BY <1>7, <2>1, <2>2, <2>3, OneTile DEF TreeInv
<1>8. \A m \in Children(o) : \A e \in Top.used : TileBefore(m, e.key)
  BY <1>1, <1>3 DEF ChildrenAscend, IsNode
<1>9. \A n \in tiles : ~n.last =>
        /\ \A m, w \in Children(n) : m.back <= w.front => TileBefore(m, w)
        /\ call'.level = n.level + 1 /\ Span(call') \subseteq Span(n) =>
             \A m \in Children(n) : TileBefore(m, call')
  <2> SUFFICES ASSUME NEW n \in tiles, ~n.last
               PROVE  /\ \A m, w \in Children(n) : m.back <= w.front => TileBefore(m, w)
                      /\ call'.level = n.level + 1 /\ Span(call') \subseteq Span(n) =>
                            \A m \in Children(n) : TileBefore(m, call')
    OBVIOUS
  <2>1. \A m, w \in Children(n) : m.back <= w.front => TileBefore(m, w)
    BY DEF ChildrenAscend
  <2>2. ASSUME call'.level = n.level + 1, Span(call') \subseteq Span(n), NEW m \in Children(n)
        PROVE  TileBefore(m, call')
    <3>1. TileBefore(m, entry.key)
      BY <1>7, <1>8, <2>2
    <3> QED BY <1>2, <3>1 DEF TileBefore
  <2> QED BY <2>1, <2>2
<1>10. ASSUME NEW n \in tiles, ~n.last, NEW i \in DOMAIN stack', IsNode(n, stack'[i]),
              NEW m \in Children(n), NEW e \in stack'[i].used
       PROVE  TileBefore(m, e.key)
  <2>1. CASE i # Len(stack)
    BY <1>1, <1>10, <2>1 DEF ChildrenAscend
  <2>2. CASE i = Len(stack)
    BY <1>1, <1>2, <1>6, <1>8, <1>10, <2>2
  <2> QED BY <2>1, <2>2
<1>11. \A e \in Top'.used : TileBefore(call', e.key)
  BY <1>2 DEF TileBefore
<1> QED BY <1>1, <1>5, <1>9, <1>10, <1>11 DEF ChildrenAscend

\* At first there are no siblings.
LEMMA InitAscends == Init => ChildrenAscend
<1> SUFFICES ASSUME Init PROVE ChildrenAscend
  OBVIOUS
<1> QED BY DEF Init, ChildrenAscend

\* Nothing is asked of the children by a step that leaves the loops or makes none.
LEMMA QuietAscends ==
    ASSUME ChildrenAscend, tiles' = tiles, call' = None,
           \A i \in DOMAIN stack' : i \in DOMAIN stack /\ stack'[i] = stack[i]
    PROVE  ChildrenAscend'
<1>1. \A n : Children(n)' = Children(n)
  BY DEF Children
<1> QED BY <1>1 DEF ChildrenAscend

\* Every step of the build keeps siblings in order.
LEMMA NextAscends ==
    ASSUME TilesInv, TreeInv, ChildrenAscend, [Next]_vars
    PROVE  ChildrenAscend'
<1> USE DEF TilesInv
<1>0. stack \in Seq(Frames)
  BY DEF IInv, TypeOK
<1>1. CASE SplitTile
  <2>1. SplitShape
    BY <1>1, SplitFacts
  <2>2. FrameOf(call).level = call.level /\ FrameOf(call).back = call.back
    BY DEF FrameOf
  <2>3. \A i \in DOMAIN stack' :
              \/ i \in DOMAIN stack /\ stack'[i] = stack[i]
              \/ stack'[i].level = call.level /\ stack'[i].back = call.back
    BY <2>1, <2>2 DEF SplitShape
  <2> QED BY <1>1, <2>3, SplitAdds, AddsAscend
<1>2. CASE NextChild
  BY <1>2, NextChildAscends
<1>3. CASE LeafTile
  <2>1. stack' = stack
    BY <1>3 DEF LeafTile
  <2> QED BY <1>3, <2>1, LeafAdds, AddsAscend
<1>4. CASE ReturnTile
  BY <1>4, ReturnFacts, QuietAscends DEF ReturnShape
<1>5. CASE OpenNode \/ EmplacePart \/ SortNode \/ EndPass
  <2>1. /\ call' = None /\ stack' = << >> /\ tiles' = tiles
    <3>1. CASE OpenNode \/ EmplacePart \/ SortNode
      <4>1. stage \in 1 .. Dims
        BY <3>1 DEF OpenNode, EmplacePart, SortNode, IInv, NodeFits
      <4>2. call = None /\ stack = << >>
        BY <4>1, Sizes DEF IInv, Phases
      <4> QED BY <3>1, <4>2 DEF OpenNode, EmplacePart, SortNode, spatialVars
    <3>2. CASE EndPass
      BY <3>2 DEF EndPass, spatialVars
    <3> QED BY <1>5, <3>1, <3>2
  <2> QED BY <2>1, QuietAscends
<1>6. CASE UNCHANGED vars
  <2>1. tiles' = tiles /\ stack' = stack /\ call' = call
    BY <1>6 DEF vars
  <2>2. \A n : Children(n)' = Children(n)
    BY <2>1 DEF Children
  <2> QED BY <2>1, <2>2 DEF ChildrenAscend, Top
<1> QED BY <1>1, <1>2, <1>3, <1>4, <1>5, <1>6 DEF Next

-----------------------------------------------------------------------------
(* What the walks need of the tree: its leaves, its root, its depth.       *)

\* No tile reaches into a leaf from above: it holds the leaf or lies apart from it.
LeavesWhole ==
    \A n \in LastTiles, m \in tiles :
        (m.front <= n.front /\ n.back <= m.back) \/ Apart(m, n)

\* The root is made from the first call.
RootMade ==
    N > 0 => \/ call # None /\ call.level = 0 /\ call.front = 0 /\ call.back = N
             \/ \E n \in tiles : n.level = 0 /\ n.front = 0 /\ n.back = N

\* The levels below a leaf at the last zoom are those of its other keys.
ShallowTiles == \A n \in tiles : n.level < MaxZoom * Keys + Keys

\* A leaf and the nodes it hangs below itself take the levels of all keys.
LeafOn(m, level) ==
    \E c \in tiles : c.last /\ c.level = level /\ c.front = m.front /\ c.back = m.back

\* Every last tile is one of the Keys tiles, a level each, that a leaf makes.
LeafChains ==
    \A m \in tiles : m.last =>
        \E l \in Nat : /\ l <= m.level /\ m.level < l + Keys
                       /\ \A j \in 0 .. Keys - 1 : LeafOn(m, l + j)

\* What the walks of a query need of the tree.
WalkInv == /\ TilesInv /\ AlignInv /\ TreeInv /\ ChildrenAscend
           /\ LeavesWhole /\ RootMade /\ ShallowTiles /\ LeafChains

\* It holds before there are tiles ...
LEMMA InitWalk == Init => WalkInv
<1> SUFFICES ASSUME Init PROVE WalkInv
  OBVIOUS
<1>1. TilesInv /\ AlignInv /\ TreeInv /\ ChildrenAscend
  BY InitTilesInv, InitAlign, InitTree, InitAscends
<1>2. tiles = {}
  BY DEF Init
<1>3. RootMade
  <2> SUFFICES ASSUME N > 0 PROVE call # None /\ call.level = 0 /\ call.front = 0 /\ call.back = N
    BY DEF RootMade
  <2>1. call = RootCall
    BY Sizes DEF Init
  <2>2. RootCall \in Calls
    BY Sizes DEF RootCall, Calls, KeyZooms
  <2>3. call # None
    BY <2>1, <2>2, Sizes
  <2> QED BY <2>1, <2>3 DEF RootCall
<1> QED BY <1>1, <1>2, <1>3 DEF WalkInv, LeavesWhole, ShallowTiles, LeafChains, LastTiles

\* ... when tiles are added: no leaf is cut,
LEMMA AddsLeaves ==
    ASSUME WalkInv, NEW new, AddsTile(new)
    PROVE  LeavesWhole'
<1>0. /\ IInv /\ AlignInv /\ PiecesFit
  BY DEF WalkInv, TilesInv
<1>1. /\ call # None /\ tiles' = tiles \cup new
      /\ \A c \in new : c.front = call.front /\ c.back = call.back
  BY DEF AddsTile
<1>2. CallShape
  BY <1>0, <1>1, CallFacts
<1>3. LastTiles' \subseteq LastTiles \cup new
  BY <1>1 DEF LastTiles
<1>4. ASSUME NEW n \in LastTiles
      PROVE  n.back <= call.front
  <2>1. Pivot(n.front, n.back) \in Range(response)
    BY <1>0, <1>2 DEF AlignInv, PassAligned, Spans, CallShape
  <2>2. Pivot(n.front, n.back).back <= Cursor
    BY <1>0, <2>1, AnsweredBefore
  <2> QED BY <1>2, <2>2 DEF CallShape, Pivot
<1>5. ASSUME NEW m \in tiles
      PROVE  (m.front <= call.front /\ call.back <= m.back) \/ Apart(m, call)
  <2>1. Pivot(call.front, call.back) \in Pieces
    BY <1>1 DEF Pieces
  <2>2. m \in Settled
    BY DEF Settled
  <2>3. InsideOrApart(Pivot(call.front, call.back), m)
    BY <1>0, <2>1, <2>2 DEF PiecesFit
  <2> QED BY <2>3 DEF InsideOrApart, Apart, Pivot
<1> SUFFICES ASSUME NEW n \in LastTiles', NEW m \in tiles'
             PROVE  (m.front <= n.front /\ n.back <= m.back) \/ Apart(m, n)
  BY DEF LeavesWhole
<1>6. CASE n \in LastTiles /\ m \in tiles
  BY <1>6 DEF WalkInv, LeavesWhole
<1>7. CASE n \in LastTiles /\ m \in new
  BY <1>1, <1>4, <1>7 DEF Apart
<1>8. CASE n \in new /\ m \in tiles
  BY <1>1, <1>5, <1>8 DEF Apart
<1>9. CASE n \in new /\ m \in new
  BY <1>1, <1>2, <1>9 DEF CallShape
<1> QED BY <1>1, <1>3, <1>6, <1>7, <1>8, <1>9

\* the first is the root,
LEMMA AddsRoot ==
    ASSUME WalkInv, NEW new, AddsTile(new), \E c \in new : c.level = call.level
    PROVE  RootMade' /\ ShallowTiles'
<1>1. /\ call # None /\ call' = None /\ tiles' = tiles \cup new
      /\ \A c \in new : /\ c.front = call.front /\ c.back = call.back
                        /\ c.level \in Nat /\ c.level < call.level + Keys
  BY DEF AddsTile
<1>2. RootMade'
  <2>1. CASE \E n \in tiles : n.level = 0 /\ n.front = 0 /\ n.back = N
    BY <1>1, <2>1 DEF RootMade
  <2>2. CASE call.level = 0 /\ call.front = 0 /\ call.back = N
    BY <1>1, <2>2 DEF RootMade
  <2> QED BY <2>1, <2>2 DEF WalkInv, RootMade
<1>3. ShallowTiles'
  <2>1. call.level <= MaxZoom * Keys /\ call.level \in Nat
    BY <1>1, CallFacts DEF WalkInv, TilesInv, LevelsReach, CallShape
  <2>2. MaxZoom * Keys \in Nat /\ Keys \in Nat
    BY Sizes
  <2> DEFINE top == MaxZoom * Keys
  <2> HIDE DEF top
  <2>3. \A c \in new : c.level < top + Keys
    BY <1>1, <2>1, <2>2 DEF top
  <2> QED BY <1>1, <2>3 DEF WalkInv, ShallowTiles, top
<1> QED BY <1>2, <1>3

\* a leaf brings all its levels,
LEMMA LeafTileChains ==
    ASSUME WalkInv, LeafTile
    PROVE  LeafChains'
<1> DEFINE new == {TileNode(call, TRUE)} \cup ChainTiles(call)
<1>1. call # None /\ tiles' = tiles \cup new
  BY DEF LeafTile
<1>2. CallShape
  BY <1>1, CallFacts DEF WalkInv, TilesInv
<1>3. \A m, l : LeafOn(m, l) => LeafOn(m, l)'
  BY <1>1 DEF LeafOn
<1>4. \A c \in new : /\ c.front = call.front /\ c.back = call.back
                     /\ c.level \in Nat /\ c.level >= call.level /\ c.level < call.level + Keys
  BY LeafAdds DEF AddsTile, WalkInv, TilesInv
<1>5. ASSUME NEW j \in 0 .. Keys - 1
      PROVE  \E c \in new : c.last /\ c.level = call.level + j
                            /\ c.front = call.front /\ c.back = call.back
  <2>1. CASE j = 0
    <3>1. TileNode(call, TRUE).level = call.level + j /\ TileNode(call, TRUE).last
      BY <1>2, <2>1 DEF TileNode, CallShape
    <3>2. TileNode(call, TRUE) \in new
      OBVIOUS
    <3> HIDE DEF new
    <3> QED BY <1>4, <3>1, <3>2
  <2>2. CASE j # 0
    <3> DEFINE z == call.zoom[(call.level + j) % Keys]
               c == TileNode([call EXCEPT !.level = @ + j, !.x = z.x,
                              !.y = z.y, !.z = (z.z - 1) % 32], TRUE)
    <3>1. j \in 1 .. Keys - 1
      BY <2>2, Sizes
    <3>2. c \in ChainTiles(call)
      BY <3>1, Zenon DEF ChainTiles
    <3>3. c.level = call.level + j /\ c.last
      BY <1>2 DEF TileNode, CallShape, Calls
    <3>4. c \in new
      BY <3>2
    <3> HIDE DEF c, new
    <3> QED BY <1>4, <3>3, <3>4
  <2> QED BY <2>1, <2>2
<1> HIDE DEF new
<1>6. ASSUME NEW m \in new
      PROVE  \E l \in Nat : /\ l <= m.level /\ m.level < l + Keys
                            /\ \A j \in 0 .. Keys - 1 : LeafOn(m, l + j)'
  <2>1. PICK l \in Nat : l = call.level
    BY <1>2 DEF CallShape
  <2>2. \A j \in 0 .. Keys - 1 : LeafOn(m, l + j)'
    BY <1>1, <1>4, <1>5, <2>1 DEF LeafOn
  <2> QED BY <1>4, <2>1, <2>2
<1>7. ASSUME NEW m \in tiles, m.last
      PROVE  \E l \in Nat : /\ l <= m.level /\ m.level < l + Keys
                            /\ \A j \in 0 .. Keys - 1 : LeafOn(m, l + j)'
  <2>1. PICK l \in Nat : /\ l <= m.level /\ m.level < l + Keys
                         /\ \A j \in 0 .. Keys - 1 : LeafOn(m, l + j)
    BY <1>7 DEF WalkInv, LeafChains
  <2> QED BY <1>3, <2>1
<1> QED BY <1>1, <1>6, <1>7 DEF LeafChains

\* a split none;
LEMMA SplitTileChains ==
    ASSUME WalkInv, SplitTile
    PROVE  LeafChains'
<1>1. tiles' = tiles \cup {TileNode(call, FALSE)}
  BY DEF SplitTile
<1>2. ~TileNode(call, FALSE).last
  BY DEF TileNode
<1>3. \A m, l : LeafOn(m, l) => LeafOn(m, l)'
  BY <1>1 DEF LeafOn
<1> SUFFICES ASSUME NEW m \in tiles, m.last
             PROVE  \E l \in Nat : /\ l <= m.level /\ m.level < l + Keys
                                   /\ \A j \in 0 .. Keys - 1 : LeafOn(m, l + j)'
  BY <1>1, <1>2 DEF LeafChains
<1>4. PICK l \in Nat : /\ l <= m.level /\ m.level < l + Keys
                       /\ \A j \in 0 .. Keys - 1 : LeafOn(m, l + j)
  BY DEF WalkInv, LeafChains
<1> QED BY <1>3, <1>4

\* and so in every step of the build.
LEMMA NextWalk ==
    ASSUME WalkInv, [Next]_vars
    PROVE  WalkInv'
<1>1. TilesInv' /\ AlignInv' /\ TreeInv' /\ ChildrenAscend'
  BY NextTilesInv, NextAlign, NextTree, NextAscends DEF WalkInv, TilesInv
<1>2. CASE SplitTile
  <2>1. AddsTile({TileNode(call, FALSE)})
    BY <1>2, SplitAdds DEF WalkInv, TilesInv
  <2>2. TileNode(call, FALSE).level = call.level
    BY DEF TileNode
  <2> QED BY <1>1, <1>2, <2>1, <2>2, AddsLeaves, AddsRoot, SplitTileChains DEF WalkInv
<1>3. CASE LeafTile
  <2> DEFINE new == {TileNode(call, TRUE)} \cup ChainTiles(call)
  <2>1. AddsTile(new)
    BY <1>3, LeafAdds DEF WalkInv, TilesInv
  <2>2. \E c \in new : c.level = call.level
    <3>1. TileNode(call, TRUE) \in new /\ TileNode(call, TRUE).level = call.level
      BY DEF TileNode
    <3> HIDE DEF new
    <3> QED BY <3>1
  <2> HIDE DEF new
  <2> QED BY <1>1, <1>3, <2>1, <2>2, AddsLeaves, AddsRoot, LeafTileChains DEF WalkInv
<1>4. CASE tiles' = tiles /\ (call' = call \/ call = None)
  <2>1. \A m, l : LeafOn(m, l) = LeafOn(m, l)'
    BY <1>4 DEF LeafOn
  <2> QED BY <1>1, <1>4, <2>1 DEF WalkInv, LeavesWhole, LastTiles, RootMade, ShallowTiles, LeafChains
<1>5. CASE NextChild \/ ReturnTile \/ OpenNode \/ EmplacePart \/ SortNode \/ EndPass \/ UNCHANGED vars
  <2>1. tiles' = tiles /\ (call' = call \/ call = None)
    BY <1>5 DEF NextChild, ReturnTile, OpenNode, EmplacePart, SortNode, EndPass, spatialVars, vars
  <2> QED BY <1>4, <2>1
<1> QED BY <1>2, <1>3, <1>5 DEF Next

-----------------------------------------------------------------------------
(* Sequences of pivots that ascend.                                        *)

\* s is a run of pivots, each behind the one before.
Behind(s, t) == \A x \in Range(s), y \in Range(t) : x.back <= y.front

\* Each pivot of s lies behind the ones before.
Ascending(s) == \A i, j \in DOMAIN s : i < j => s[i].back <= s[j].front

\* The elements of a sequence, by position and as a set.
LEMMA SeqRange ==
    ASSUME NEW S, NEW s \in Seq(S)
    PROVE  /\ \A i \in DOMAIN s : s[i] \in Range(s) /\ s[i] \in S
           /\ \A x \in Range(s) : x \in S /\ \E i \in DOMAIN s : x = s[i]
           /\ DOMAIN s = 1 .. Len(s) /\ Len(s) \in Nat
BY DEF Range

\* What a concatenation holds.
LEMMA ConcatRange ==
    ASSUME NEW S, NEW s \in Seq(S), NEW t \in Seq(S)
    PROVE  /\ s \o t \in Seq(S)
           /\ Range(s \o t) = Range(s) \cup Range(t)
<1>1. s \o t \in Seq(S)
  OBVIOUS
<1>2. \A x \in Range(s \o t) : x \in Range(s) \cup Range(t)
  <2> SUFFICES ASSUME NEW i \in DOMAIN (s \o t)
               PROVE  (s \o t)[i] \in Range(s) \cup Range(t)
    BY DEF Range
  <2>1. \/ i \in DOMAIN s /\ (s \o t)[i] = s[i]
        \/ i - Len(s) \in DOMAIN t /\ (s \o t)[i] = t[i - Len(s)]
    OBVIOUS
  <2> QED BY <2>1 DEF Range
<1>3. ASSUME NEW i \in DOMAIN s PROVE s[i] \in Range(s \o t)
  <2>1. i \in DOMAIN (s \o t) /\ (s \o t)[i] = s[i]
    OBVIOUS
  <2> QED BY <2>1 DEF Range
<1>4. ASSUME NEW i \in DOMAIN t PROVE t[i] \in Range(s \o t)
  <2>1. i + Len(s) \in DOMAIN (s \o t) /\ (s \o t)[i + Len(s)] = t[i]
    OBVIOUS
  <2> QED BY <2>1 DEF Range
<1>5. Range(s) \subseteq Range(s \o t) /\ Range(t) \subseteq Range(s \o t)
  BY <1>3, <1>4 DEF Range
<1> QED BY <1>1, <1>2, <1>5

\* A run behind a run is a run.
LEMMA ConcatAscends ==
    ASSUME NEW S, NEW s \in Seq(S), NEW t \in Seq(S),
           Ascending(s), Ascending(t), Behind(s, t)
    PROVE  Ascending(s \o t)
<1> SUFFICES ASSUME NEW i \in DOMAIN (s \o t), NEW j \in DOMAIN (s \o t), i < j
             PROVE  (s \o t)[i].back <= (s \o t)[j].front
  BY DEF Ascending
<1>1. i \in Int /\ j \in Int /\ Len(s) \in Int
  OBVIOUS
<1>2. CASE j \in DOMAIN s
  <2>1. i \in DOMAIN s /\ (s \o t)[i] = s[i] /\ (s \o t)[j] = s[j]
    BY <1>2
  <2> QED BY <1>2, <2>1 DEF Ascending
<1>3. CASE i \notin DOMAIN s
  <2>1. /\ i - Len(s) \in DOMAIN t /\ (s \o t)[i] = t[i - Len(s)]
        /\ j - Len(s) \in DOMAIN t /\ (s \o t)[j] = t[j - Len(s)]
    BY <1>3
  <2>2. i - Len(s) < j - Len(s)
    BY <1>1
  <2> QED BY <2>1, <2>2 DEF Ascending
<1>4. CASE i \in DOMAIN s /\ j \notin DOMAIN s
  <2>1. /\ (s \o t)[i] = s[i]
        /\ j - Len(s) \in DOMAIN t /\ (s \o t)[j] = t[j - Len(s)]
    BY <1>4
  <2>2. s[i] \in Range(s) /\ t[j - Len(s)] \in Range(t)
    BY <1>4, <2>1 DEF Range
  <2> QED BY <2>1, <2>2 DEF Behind
<1> QED BY <1>2, <1>3, <1>4

\* SetToSeq on a set of at most one element.
LEMMA SlotSeq ==
    ASSUME NEW S, \A x, y \in S : x = y
    PROVE  /\ SetToSeq(S) \in Seq(S) /\ Range(SetToSeq(S)) = S
           /\ Ascending(SetToSeq(S))
           /\ SetToSeq(S) = IF S = {} THEN << >> ELSE << CHOOSE x \in S : TRUE >>
<1>1. CASE S = {}
  <2>1. Cardinality(S) = 0
    BY <1>1, FS_EmptySet
  <2> DEFINE Ok(f) == f \in [1 .. 0 -> S] /\ IsInjective(f)
  <2>2. Ok(<< >>)
    BY DEF IsInjective
  <2>3. \A f : Ok(f) => f = << >>
    OBVIOUS
  <2>4. SetToSeq(S) = CHOOSE f : Ok(f)
    BY <2>1 DEF SetToSeq
  <2>5. SetToSeq(S) = << >>
    BY <2>2, <2>3, <2>4
  <2>6. << >> \in Seq(S) /\ DOMAIN << >> = {}
    OBVIOUS
  <2>7. Range(<< >>) = {} /\ Ascending(<< >>)
    BY <2>6 DEF Range, Ascending
  <2> QED BY <1>1, <2>5, <2>6, <2>7
<1>2. CASE S # {}
  <2>1. PICK x : S = {x} /\ x = CHOOSE y \in S : TRUE
    BY <1>2
  <2>2. Cardinality(S) = 1
    BY <2>1, FS_Singleton
  <2> DEFINE Ok(f) == f \in [1 .. 1 -> S] /\ IsInjective(f)
  <2>3. Ok(<<x>>)
    BY <2>1 DEF IsInjective
  <2>4. \A f : Ok(f) => f = <<x>>
    BY <2>1
  <2>5. SetToSeq(S) = CHOOSE f : Ok(f)
    BY <2>2 DEF SetToSeq
  <2>6. SetToSeq(S) = <<x>>
    BY <2>3, <2>4, <2>5
  <2>7. <<x>> \in Seq(S) /\ Range(<<x>>) = {x} /\ Ascending(<<x>>)
    BY <2>1 DEF Range, Ascending
  <2> QED BY <1>2, <2>1, <2>6, <2>7
<1> QED BY <1>1, <1>2

-----------------------------------------------------------------------------
(* The slots of the children of a tile.                                    *)

\* The siblings of a finished tree lie in the order of their slots.
LEMMA SlotsAscend ==
    ASSUME WalkInv, NEW n \in tiles, ~n.last,
           NEW m \in Children(n), NEW o \in Children(n), GetIndex(m) < GetIndex(o)
    PROVE  m.back <= o.front
<1> DEFINE d == NextKey(n.level)
           z == ChildZoom(n.level)
<1> USE DEF WalkInv, TilesInv, TreeInv
<1>1. /\ m \in tiles /\ o \in tiles /\ m.level = n.level + 1 /\ o.level = n.level + 1
      /\ Span(m) \subseteq Span(n) /\ Span(o) \subseteq Span(n)
  BY DEF Children
<1>2. TileShape(n) /\ TileShape(m) /\ TileShape(o)
  BY <1>1, TileFacts
<1>3. Apart(m, o) /\ m.front < m.back /\ o.front < o.back
  <2>1. m # o
    BY <1>2 DEF GetIndex, TileShape, TileNodes
  <2> QED BY <1>1, <2>1 DEF LevelsApart
<1>4. SUFFICES ASSUME o.back <= m.front PROVE FALSE
  BY <1>3 DEF Apart
<1>5. TileBefore(o, m)
  BY <1>4 DEF ChildrenAscend
<1>6. m.front \in Span(m) /\ o.front \in Span(o)
  BY <1>2, <1>3 DEF TileShape, Span
<1> DEFINE r == index[m.front]
           q == index[o.front]
<1>7. /\ r \in RecordsAt(index, n) /\ r \in RecordsAt(index, m)
      /\ q \in RecordsAt(index, n) /\ q \in RecordsAt(index, o)
  BY <1>1, <1>6 DEF RecordsAt
<1>8. data[r] \in Record /\ data[q] \in Record
  <2>1. m.front \in Records /\ o.front \in Records
    BY <1>2, <1>3, <1>6, InRecords DEF TileShape, Span
  <2> QED BY <2>1, PlacedRecord
<1> HIDE DEF r, q
<1>9. /\ m.level % Keys = d /\ m.z = z /\ HasItsOwn(n, m)
      /\ o.level % Keys = d /\ o.z = z /\ HasItsOwn(n, o) /\ SharesParent(n)
  BY <1>1 DEF SiblingsFit, NextKey
<1>10. z \in Nat /\ z <= MaxZoom /\ d \in 0 .. Keys - 1
  BY <1>2, ChildZoomFits DEF Levels, TileShape
<1>11. z > 0 => TileOf(data[r], d, z - 1) = TileOf(data[q], d, z - 1)
  BY <1>7, <1>9 DEF SharesParent
<1> HIDE DEF d, z
<1> DEFINE s == TileOf(data[r], d, z)
           t == TileOf(data[q], d, z)
<1>12. s \in Tile /\ t \in Tile
  BY <1>8, <1>10, TileType
<1>13. s.x \div 2 = t.x \div 2 /\ s.y \div 2 = t.y \div 2
  BY <1>8, <1>10, <1>11, Siblings
<1>14. s = [x |-> m.x, y |-> m.y] /\ t = [x |-> o.x, y |-> o.y]
  BY <1>7, <1>9 DEF HasItsOwn
<1> HIDE DEF s, t
<1>15. GetIndex(s) = GetIndex(m) /\ GetIndex(t) = GetIndex(o)
  BY <1>14 DEF GetIndex
<1>16. TileBefore(s, t)
  <2>1. GetIndex(s) <= GetIndex(t)
    BY <1>2, <1>15 DEF GetIndex, TileShape, TileNodes
  <2> QED BY <1>12, <1>13, <2>1, SiblingOrder DEF Tile
<1>17. TileBefore(t, s)
  BY <1>5, <1>14 DEF TileBefore
<1>18. s.x = t.x /\ s.y = t.y
  BY <1>12, <1>16, <1>17 DEF Tile, TileBefore
<1> QED BY <1>15, <1>18, <1>2 DEF GetIndex, TileShape, TileNodes

\* _container has four slots.
LEMMA SlotRange ==
    ASSUME IInv, NEW m \in tiles
    PROVE  GetIndex(m) \in 0 .. 3
<1>1. m.x \in Nat /\ m.y \in Nat
  BY DEF IInv, TypeOK, TileNodes
<1>2. m.x % 2 \in 0 .. 1 /\ m.y % 2 \in 0 .. 1
  BY <1>1
<1> DEFINE a == m.x % 2
           b == m.y % 2
<1> HIDE DEF a, b
<1>3. a \in 0 .. 1 /\ b \in 0 .. 1
  BY <1>2 DEF a, b
<1> QED BY <1>3 DEF GetIndex, a, b

\* Below a leaf there is only the node it hangs there.
LEMMA BelowLeaf ==
    ASSUME WalkInv, NEW n \in tiles, n.last
    PROVE  /\ \A m \in Children(n) : m.front = n.front /\ m.back = n.back
           /\ \A m, o \in Children(n) : m = o
<1>1. ASSUME NEW m \in Children(n) PROVE m.front = n.front /\ m.back = n.back
  <2>1. m \in tiles /\ Span(m) \subseteq Span(n) /\ n \in LastTiles
    BY DEF Children, LastTiles
  <2>2. TileShape(m) /\ TileShape(n) /\ m.front < m.back /\ n.front < n.back
    BY <2>1, TileFacts DEF WalkInv, TilesInv, TreeInv, LevelsApart
  <2>3. (m.front <= n.front /\ n.back <= m.back) \/ Apart(m, n)
    BY <2>1 DEF WalkInv, LeavesWhole
  <2>4. m.front \in Span(m) /\ m.back - 1 \in Span(m)
    BY <2>2 DEF Span, TileShape
  <2>5. m.front \in Span(n) /\ m.back - 1 \in Span(n)
    BY <2>1, <2>4
  <2> QED BY <2>2, <2>3, <2>5 DEF Span, TileShape, Apart
<1>2. ASSUME NEW m \in Children(n), NEW o \in Children(n) PROVE m = o
  <2>1. m \in tiles /\ o \in tiles /\ m.level = o.level /\ m.front \in Span(m)
    BY <1>1, TileFacts DEF Children, WalkInv, TilesInv, TreeInv, LevelsApart, TileShape, Span
  <2>2. Span(m) = Span(o)
    BY <1>1 DEF Span
  <2> QED BY <2>1, <2>2, OneTile DEF WalkInv, TilesInv, TreeInv
<1> QED BY <1>1, <1>2

\* InOrder lists the children of a node, one behind the other.
LEMMA InOrderLists ==
    ASSUME WalkInv, NEW n \in tiles
    PROVE  /\ InOrder(n) \in Seq(Children(n))
           /\ Range(InOrder(n)) = Children(n)
           /\ Ascending(InOrder(n))
<1> DEFINE slot(s) == {m \in Children(n) : n.last \/ GetIndex(m) = s}
<1>1. \A m \in Children(n) : m \in tiles /\ GetIndex(m) \in 0 .. 3
  BY SlotRange DEF Children, WalkInv, TilesInv
<1>2. CASE n.last
  <2>1. slot(0) = Children(n)
    BY <1>2
  <2>2. \A m, o \in slot(0) : m = o
    BY <1>2, <2>1, BelowLeaf
  <2> HIDE DEF slot
  <2>3. InOrder(n) = SetToSeq(slot(0)) \o << >>
    BY <1>2 DEF InOrder, slot
  <2>4. SetToSeq(slot(0)) \in Seq(slot(0))
    BY <2>2, SlotSeq
  <2>5. InOrder(n) = SetToSeq(slot(0))
    BY <2>3, <2>4
  <2> QED BY <2>1, <2>2, <2>5, SlotSeq
<1>3. CASE ~n.last
  <2> DEFINE q(s) == SetToSeq(slot(s))
             C == Children(n)
  <2>1. ASSUME NEW s \in 0 .. 3
        PROVE  /\ q(s) \in Seq(C) /\ Range(q(s)) = slot(s) /\ Ascending(q(s))
               /\ slot(s) \subseteq C
    <3>1. \A x, y \in slot(s) : x = y
      BY <1>3, ChildrenDiffer DEF WalkInv, TilesInv
    <3>2. q(s) \in Seq(slot(s)) /\ Range(q(s)) = slot(s) /\ Ascending(q(s))
      <4> HIDE DEF slot
      <4> QED BY <3>1, SlotSeq
    <3>3. slot(s) \subseteq C
      OBVIOUS
    <3> HIDE DEF slot, C
    <3> QED BY <3>2, <3>3
  <2>2. ASSUME NEW s \in 0 .. 3, NEW t \in 0 .. 3, s < t
        PROVE  Behind(q(s), q(t))
    <3>1. \A x \in slot(s), y \in slot(t) : x.back <= y.front
      BY <1>3, <2>2, SlotsAscend
    <3> QED BY <2>1, <3>1 DEF Behind
  <2>3. UNION {slot(s) : s \in 0 .. 3} = C
    BY <1>1, <1>3
  <2>4. InOrder(n) = q(0) \o (q(1) \o q(2) \o q(3))
    BY <1>3 DEF InOrder
  <2> HIDE DEF q, slot, C
  <2> DEFINE a == q(1) \o q(2)
             b == a \o q(3)
  <2>5. a \in Seq(C) /\ Range(a) = slot(1) \cup slot(2) /\ Ascending(a)
    BY <2>1, <2>2, ConcatRange, ConcatAscends
  <2> HIDE DEF a
  <2>6. Behind(a, q(3))
    BY <2>1, <2>2, <2>5 DEF Behind
  <2>7. b \in Seq(C) /\ Range(b) = Range(a) \cup slot(3) /\ Ascending(b)
    BY <2>1, <2>5, <2>6, ConcatRange, ConcatAscends
  <2> HIDE DEF b
  <2>8. Behind(q(0), b)
    BY <2>1, <2>2, <2>5, <2>7 DEF Behind
  <2>9. q(0) \o b \in Seq(C) /\ Range(q(0) \o b) = slot(0) \cup Range(b) /\ Ascending(q(0) \o b)
    BY <2>1, <2>7, <2>8, ConcatRange, ConcatAscends
  <2>10. InOrder(n) = q(0) \o b
    BY <2>4 DEF a, b
  <2>11. slot(0) \cup slot(1) \cup slot(2) \cup slot(3) = C
    BY <2>3
  <2> QED BY <2>5, <2>7, <2>9, <2>10, <2>11 DEF C
<1> QED BY <1>2, <1>3

\* The root of a finished tree.
LEMMA RootIs ==
    ASSUME WalkInv, stage > 0, N > 0
    PROVE  Root \in tiles /\ Root.level = 0 /\ Root.front = 0 /\ Root.back = N
<1>1. call = None
  BY DEF WalkInv, TilesInv, IInv, Phases
<1>2. PICK o \in tiles : o.level = 0 /\ o.front = 0 /\ o.back = N
  BY <1>1 DEF WalkInv, RootMade
<1>3. Root \in tiles /\ Root.level = 0
  BY <1>2 DEF Root
<1>4. TileShape(Root) /\ Root.front < Root.back
  BY <1>3, TileFacts DEF WalkInv, TilesInv, TreeInv, LevelsApart
<1>5. Root.front \in Span(Root) /\ Root.front \in Span(o)
  BY <1>2, <1>4, Sizes DEF TileShape, Span
<1>6. Root = o
  BY <1>2, <1>3, <1>5, OneTile DEF WalkInv, TilesInv, TreeInv
<1> QED BY <1>2, <1>6

-----------------------------------------------------------------------------
(* The concatenation of a sequence of sequences.                           *)

\* Induction over the naturals, for a set.
LEMMA NatInduct ==
    ASSUME NEW S, 0 \in S, \A k \in Nat : k \in S => k + 1 \in S
    PROVE  \A k \in Nat : k \in S
<1> DEFINE bad == {k \in Nat : k \notin S}
<1>1. SUFFICES ASSUME bad # {} PROVE FALSE
  OBVIOUS
<1>2. PICK m \in bad : \A k \in bad : m <= k
  <2>1. bad \in SUBSET Nat
    OBVIOUS
  <2> QED BY <1>1, <2>1, NatMin, Zenon
<1>3. m \in Nat /\ m # 0 /\ m - 1 \in Nat /\ (m - 1) + 1 = m
  BY <1>2
<1>4. m - 1 \notin bad
  BY <1>2, <1>3
<1> QED BY <1>3, <1>4

\* FlattenSeq ends with the last value of its recursive function.
LEMMA FlattenUnfolds ==
    ASSUME NEW ss, Len(ss) # 0, NEW f,
           f = [i \in 1 .. Len(ss) |-> IF i = 1 THEN ss[i] ELSE f[i - 1] \o ss[i]]
    PROVE  \E g : /\ g = [i \in 1 .. Len(ss) |-> IF i = 1 THEN ss[i] ELSE g[i - 1] \o ss[i]]
                  /\ FlattenSeq(ss) = g[Len(ss)]
BY DEF FlattenSeq

\* FlattenSeq appends one sequence after the other.
LEMMA FlattenStep ==
    ASSUME NEW S, NEW ss \in Seq(Seq(S)), ss # << >>
    PROVE  \E g \in [1 .. Len(ss) -> Seq(S)] :
             /\ FlattenSeq(ss) = g[Len(ss)]
             /\ g[1] = ss[1]
             /\ \A i \in 1 .. Len(ss) - 1 : g[i + 1] = g[i] \o ss[i + 1]
<1> DEFINE n == Len(ss)
           D == 1 .. n
           Ok(g, k) == g[1] = ss[1] /\ \A i \in 1 .. k : i < n => g[i + 1] = g[i] \o ss[i + 1]
           K == {k \in Nat : \E g \in [D -> Seq(S)] : Ok(g, k)}
<1>1. n \in Nat /\ n >= 1 /\ DOMAIN ss = D /\ \A i \in D : ss[i] \in Seq(S)
  OBVIOUS
<1> HIDE DEF n
<1>2. 0 \in K
  <2> DEFINE g == [i \in D |-> ss[1]]
  <2>1. g \in [D -> Seq(S)] /\ Ok(g, 0)
    BY <1>1
  <2> QED BY <2>1
<1>3. ASSUME NEW k \in Nat, k \in K PROVE k + 1 \in K
  <2>1. PICK g \in [D -> Seq(S)] : Ok(g, k)
    BY <1>3
  <2>2. CASE k + 1 < n
    <3> DEFINE h == [g EXCEPT ![k + 2] = g[k + 1] \o ss[k + 2]]
    <3>1. k + 1 \in D /\ k + 2 \in D
      BY <1>1, <2>2
    <3>2. g[k + 1] \o ss[k + 2] \in Seq(S)
      BY <1>1, <2>1, <3>1
    <3>3. h \in [D -> Seq(S)]
      BY <3>2
    <3>4. h[k + 2] = g[k + 1] \o ss[k + 2] /\ \A i \in D : i # k + 2 => h[i] = g[i]
      BY <3>1
    <3> HIDE DEF h
    <3>5. h[1] = ss[1]
      BY <1>1, <2>1, <3>4
    <3>6. ASSUME NEW i \in 1 .. k + 1, i < n PROVE h[i + 1] = h[i] \o ss[i + 1]
      <4>1. CASE i = k + 1
        <5>1. h[i] = g[i] /\ i + 1 = k + 2
          BY <3>1, <3>4, <4>1
        <5> QED BY <3>4, <4>1, <5>1
      <4>2. CASE i # k + 1
        <5>1. i \in 1 .. k /\ i \in D /\ i + 1 \in D /\ i # k + 2 /\ i + 1 # k + 2
          BY <1>1, <3>6, <4>2
        <5> QED BY <2>1, <3>4, <3>6, <5>1
      <4> QED BY <4>1, <4>2
    <3>7. Ok(h, k + 1)
      BY <3>5, <3>6
    <3> HIDE DEF Ok
    <3> QED BY <3>3, <3>7
  <2>3. CASE ~(k + 1 < n)
    <3>1. ASSUME NEW i \in 1 .. k + 1, i < n PROVE i \in 1 .. k
      BY <1>1, <2>3, <3>1
    <3>2. Ok(g, k + 1)
      BY <2>1, <3>1
    <3> HIDE DEF Ok
    <3> QED BY <2>1, <3>2
  <2> QED BY <2>2, <2>3
<1> HIDE DEF K
<1>4. n \in K
  BY <1>1, <1>2, <1>3, NatInduct
<1>5. PICK g \in [D -> Seq(S)] : Ok(g, n)
  BY <1>4 DEF K
<1>6. g = [i \in 1 .. n |-> IF i = 1 THEN ss[i] ELSE g[i - 1] \o ss[i]]
  <2>1. ASSUME NEW i \in D, i # 1 PROVE g[i] = g[i - 1] \o ss[i]
    <3>1. i - 1 \in 1 .. n /\ i - 1 < n /\ (i - 1) + 1 = i
      BY <1>1, <2>1
    <3> QED BY <1>5, <3>1
  <2> QED BY <1>5, <2>1
<1>7. \E f : /\ f = [i \in 1 .. n |-> IF i = 1 THEN ss[i] ELSE f[i - 1] \o ss[i]]
             /\ FlattenSeq(ss) = f[n]
  <2>0. Len(ss) # 0
    BY <1>1 DEF n
  <2>1. g = [i \in 1 .. Len(ss) |-> IF i = 1 THEN ss[i] ELSE g[i - 1] \o ss[i]]
    BY <1>6, Zenon DEF n
  <2>2. \E f : /\ f = [i \in 1 .. Len(ss) |-> IF i = 1 THEN ss[i] ELSE f[i - 1] \o ss[i]]
               /\ FlattenSeq(ss) = f[Len(ss)]
    BY <2>0, <2>1, FlattenUnfolds, Zenon
  <2> QED BY <2>2, Zenon DEF n
<1>8. PICK f : /\ f = [i \in 1 .. n |-> IF i = 1 THEN ss[i] ELSE f[i - 1] \o ss[i]]
               /\ FlattenSeq(ss) = f[n]
  BY <1>7
<1>9. f[1] = ss[1] /\ \A i \in 1 .. n - 1 : f[i + 1] = f[i] \o ss[i + 1]
  <2>1. f[1] = ss[1]
    BY <1>1, <1>8
  <2>2. ASSUME NEW i \in 1 .. n - 1 PROVE f[i + 1] = f[i] \o ss[i + 1]
    <3>1. i + 1 \in 1 .. n /\ i + 1 # 1 /\ (i + 1) - 1 = i
      BY <1>1
    <3> QED BY <1>8, <3>1
  <2> QED BY <2>1, <2>2
<1> DEFINE L == {k \in Nat : k + 1 \in D => f[k + 1] \in Seq(S)}
<1>10. 0 \in L
  BY <1>1, <1>9
<1>11. ASSUME NEW k \in Nat, k \in L PROVE k + 1 \in L
  <2> SUFFICES ASSUME k + 2 \in D PROVE f[k + 2] \in Seq(S)
    OBVIOUS
  <2>1. k + 1 \in D /\ k + 1 \in 1 .. n - 1 /\ (k + 1) + 1 = k + 2
    BY <1>1
  <2>2. f[k + 2] = f[k + 1] \o ss[k + 2]
    BY <1>9, <2>1
  <2>3. f[k + 1] \in Seq(S) /\ ss[k + 2] \in Seq(S)
    BY <1>1, <1>11, <2>1
  <2> QED BY <2>2, <2>3
<1> HIDE DEF L
<1>12. \A k \in Nat : k \in L
  BY <1>10, <1>11, NatInduct
<1>13. \A i \in D : f[i] \in Seq(S)
  <2> SUFFICES ASSUME NEW i \in D PROVE f[i] \in Seq(S)
    OBVIOUS
  <2>1. i - 1 \in Nat /\ (i - 1) + 1 = i
    BY <1>1
  <2> QED BY <1>12, <2>1 DEF L
<1>14. f \in [D -> Seq(S)]
  BY <1>8, <1>13
<1> QED BY <1>8, <1>9, <1>14 DEF n

\* Flattening ascending sequences, each behind the ones before, is ascending.
LEMMA FlattenAscends ==
    ASSUME NEW S, NEW ss \in Seq(Seq(S)),
           \A i \in DOMAIN ss : Ascending(ss[i]),
           \A i, j \in DOMAIN ss : i < j => Behind(ss[i], ss[j])
    PROVE  /\ FlattenSeq(ss) \in Seq(S)
           /\ Range(FlattenSeq(ss)) = UNION {Range(ss[i]) : i \in DOMAIN ss}
           /\ Ascending(FlattenSeq(ss))
<1>1. CASE ss = << >>
  <2>1. FlattenSeq(ss) = << >>
    <3>1. Len(ss) = 0
      BY <1>1
    <3> QED BY <1>1, <3>1 DEF FlattenSeq
  <2>2. << >> \in Seq(S) /\ DOMAIN << >> = {}
    OBVIOUS
  <2>3. Range(<< >>) = {} /\ Ascending(<< >>)
    BY <2>2 DEF Range, Ascending
  <2> QED BY <1>1, <2>1, <2>2, <2>3
<1>2. CASE ss # << >>
  <2>1. PICK g \in [1 .. Len(ss) -> Seq(S)] :
             /\ FlattenSeq(ss) = g[Len(ss)]
             /\ g[1] = ss[1]
             /\ \A i \in 1 .. Len(ss) - 1 : g[i + 1] = g[i] \o ss[i + 1]
    BY <1>2, FlattenStep
  <2> DEFINE n == Len(ss)
             D == 1 .. n
  <2>2. n \in Nat /\ n >= 1 /\ DOMAIN ss = D /\ \A i \in D : ss[i] \in Seq(S)
    BY <1>2
  <2> HIDE DEF n
  <2> DEFINE Good(k) == /\ Ascending(g[k])
                        /\ \A x : x \in Range(g[k]) <=> \E i \in 1 .. k : x \in Range(ss[i])
             L == {k \in Nat : k + 1 \in D => Good(k + 1)}
  <2>3. g \in [D -> Seq(S)] /\ g[1] = ss[1] /\ FlattenSeq(ss) = g[n]
        /\ \A i \in 1 .. n - 1 : g[i + 1] = g[i] \o ss[i + 1]
    BY <2>1, Zenon DEF n
  <2>4. 0 \in L
    <3>1. \A i \in 1 .. 1 : i = 1
      OBVIOUS
    <3>2. 1 \in 1 .. 1 /\ 1 \in D /\ 0 + 1 = 1
      BY <2>2
    <3>3. Good(1)
      BY <2>2, <2>3, <3>1, <3>2
    <3> HIDE DEF Good
    <3> QED BY <3>2, <3>3
  <2>5. ASSUME NEW k \in Nat, k \in L PROVE k + 1 \in L
    <3> SUFFICES ASSUME (k + 1) + 1 \in D PROVE Good((k + 1) + 1)
      OBVIOUS
    <3> DEFINE c == k + 1
    <3>1. c \in D /\ c \in 1 .. n - 1 /\ c + 1 \in D /\ c \in Nat
      BY <2>2
    <3>2. Good(c)
      BY <2>5, <3>1
    <3> HIDE DEF c
    <3>3. g[c + 1] = g[c] \o ss[c + 1] /\ g[c] \in Seq(S) /\ ss[c + 1] \in Seq(S)
      BY <2>2, <2>3, <3>1
    <3>4. Behind(g[c], ss[c + 1])
      <4> SUFFICES ASSUME NEW x \in Range(g[c]), NEW y \in Range(ss[c + 1])
                   PROVE  x.back <= y.front
        BY DEF Behind
      <4>1. PICK i \in 1 .. c : x \in Range(ss[i])
        BY <3>2
      <4>2. i \in D /\ i < c + 1 /\ c + 1 \in D
        BY <2>2, <3>1
      <4>3. Behind(ss[i], ss[c + 1])
        BY <2>2, <4>2
      <4> QED BY <4>1, <4>3 DEF Behind
    <3>5. Ascending(g[c + 1])
      BY <2>2, <3>1, <3>2, <3>3, <3>4, ConcatAscends
    <3>6. Range(g[c + 1]) = Range(g[c]) \cup Range(ss[c + 1])
      BY <3>3, ConcatRange
    <3>7. \A i : i \in 1 .. c + 1 <=> (i \in 1 .. c \/ i = c + 1)
      BY <3>1
    <3>8. \A x : x \in Range(g[c + 1]) <=> \E i \in 1 .. c + 1 : x \in Range(ss[i])
      BY <3>2, <3>6, <3>7, Zenon
    <3> QED BY <3>5, <3>8 DEF c
  <2> HIDE DEF L
  <2>6. \A k \in Nat : k \in L
    BY <2>4, <2>5, NatInduct
  <2>7. Good(n)
    <3>1. n - 1 \in Nat /\ (n - 1) + 1 = n /\ n \in D
      BY <2>2
    <3>2. n - 1 \in L
      BY <2>6, <3>1
    <3> HIDE DEF Good
    <3> QED BY <3>1, <3>2 DEF L
  <2>8. g[n] \in Seq(S)
    BY <2>2, <2>3
  <2>9. Range(g[n]) = UNION {Range(ss[i]) : i \in D}
    BY <2>7
  <2> QED BY <2>2, <2>3, <2>7, <2>8, <2>9
<1> QED BY <1>1, <1>2

-----------------------------------------------------------------------------
(* The walks down the tree, as a recursion on the level.                   *)

\* The levels of the tiles are bounded.
LEMMA LevelsEnd ==
    ASSUME WalkInv
    PROVE  \E top \in Nat : \A n \in tiles : n.level \in Nat /\ n.level < top
<1>1. MaxZoom * Keys + Keys \in Nat
  BY Sizes
<1>2. \A n \in tiles : n.level \in Nat
  BY DEF WalkInv, TilesInv, IInv, TypeOK, TileNodes
<1>3. \A n \in tiles : n.level < MaxZoom * Keys + Keys
  BY DEF WalkInv, ShallowTiles
<1> QED BY <1>1, <1>2, <1>3

\* What holds of a node when it holds of its children holds of every node.
LEMMA TreeInduct ==
    ASSUME WalkInv, NEW G,
           \A n \in tiles : (\A m \in Children(n) : m \in G) => n \in G
    PROVE  \A n \in tiles : n \in G
<1>1. PICK top \in Nat : \A n \in tiles : n.level \in Nat /\ n.level < top
  BY LevelsEnd
<1> DEFINE K == {k \in Nat : \A n \in tiles : n.level + k >= top => n \in G}
<1>2. 0 \in K
  BY <1>1
<1>3. ASSUME NEW k \in Nat, k \in K PROVE k + 1 \in K
  <2> SUFFICES ASSUME NEW n \in tiles, n.level + (k + 1) >= top PROVE n \in G
    OBVIOUS
  <2>1. ASSUME NEW m \in Children(n) PROVE m \in G
    <3>1. m \in tiles /\ m.level = n.level + 1
      BY DEF Children
    <3>2. m.level + k >= top
      BY <1>1, <3>1
    <3> QED BY <1>3, <3>1, <3>2
  <2> QED BY <2>1
<1> HIDE DEF K
<1>4. top \in K
  BY <1>2, <1>3, NatInduct
<1> QED BY <1>1, <1>4 DEF K

\* Descend looks at the children only.
LEMMA DescendSame ==
    ASSUME WalkInv, NEW n \in tiles, NEW f, NEW g,
           \A m \in Children(n) : f[m] = g[m]
    PROVE  Descend(f, n) = Descend(g, n)
<1> DEFINE s == InOrder(n)
<1>1. \A i \in DOMAIN s : s[i] \in Children(n)
  BY InOrderLists
<1> HIDE DEF s
<1>2. [i \in DOMAIN s |-> f[s[i]]] = [i \in DOMAIN s |-> g[s[i]]]
  BY <1>1
<1> QED BY <1>2 DEF Descend, s

\* f answers out at the nodes of Stop, and what it answers at the children of any other.
Walks(f, Stop, out) ==
    f = [n \in tiles |-> IF n \in Stop THEN out[n] ELSE Descend(f, n)]

\* A walk of the tree that answers out at the nodes of Stop exists.
LEMMA WalkExists ==
    ASSUME WalkInv, NEW Stop, NEW out
    PROVE  \E f : Walks(f, Stop, out)
<1>1. PICK top \in Nat : \A n \in tiles : n.level \in Nat /\ n.level < top
  BY LevelsEnd
<1> DEFINE body(f, n) == IF n \in Stop THEN out[n] ELSE Descend(f, n)
           Ok(f, k) == f = [n \in tiles |-> f[n]]
                       /\ \A n \in tiles : n.level + k >= top => f[n] = body(f, n)
           K == {k \in Nat : \E f : Ok(f, k)}
<1>2. 0 \in K
  <2> DEFINE g == [n \in tiles |-> << >>]
  <2>1. Ok(g, 0)
    BY <1>1
  <2> HIDE DEF Ok, g
  <2> QED BY <2>1
<1>3. ASSUME NEW k \in Nat, k \in K PROVE k + 1 \in K
  <2>1. PICK f : Ok(f, k)
    BY <1>3
  <2> DEFINE h == [n \in tiles |-> body(f, n)]
  <2>2. h = [n \in tiles |-> h[n]]
    OBVIOUS
  <2>3. ASSUME NEW n \in tiles, n.level + (k + 1) >= top PROVE h[n] = body(h, n)
    <3>1. ASSUME NEW m \in Children(n) PROVE f[m] = h[m]
      <4>1. m \in tiles /\ m.level = n.level + 1
        BY DEF Children
      <4>2. m.level + k >= top
        BY <1>1, <2>3, <4>1
      <4>3. f[m] = body(f, m)
        BY <2>1, <4>1, <4>2
      <4>4. h[m] = body(f, m)
        BY <4>1
      <4> QED BY <4>3, <4>4
    <3> HIDE DEF h
    <3>2. Descend(f, n) = Descend(h, n)
      BY <3>1, DescendSame
    <3>3. body(f, n) = body(h, n)
      BY <3>2
    <3>4. h[n] = body(f, n)
      BY DEF h
    <3> QED BY <3>3, <3>4
  <2> HIDE DEF h
  <2>4. Ok(h, k + 1)
    BY <2>2, <2>3
  <2> HIDE DEF Ok
  <2> QED BY <2>4
<1> HIDE DEF K
<1>4. top \in K
  BY <1>2, <1>3, NatInduct
<1>5. PICK f : Ok(f, top)
  BY <1>4 DEF K
<1>6. \A n \in tiles : n.level + top >= top
  BY <1>1
<1>7. \A n \in tiles : f[n] = body(f, n)
  BY <1>5, <1>6
<1>8. f = [n \in tiles |-> body(f, n)]
  BY <1>5, <1>7
<1>9. Walks(f, Stop, out)
  BY <1>8 DEF Walks
<1> QED BY <1>9

-----------------------------------------------------------------------------
(* What a walk lists lies inside the node it starts from, in order.        *)

\* The pivots dimensions answer.
Answers == [front : 0 .. N, back : 0 .. N,
            value : Nat \cup {None} \cup [x : Nat, y : Nat, z : Nat]]

\* s lists tiles inside n, each behind the one before.
Lists(s, n) ==
    /\ s \in Seq(Answers)
    /\ Ascending(s)
    /\ \A x \in Range(s) : \E m \in tiles :
         x.front = m.front /\ x.back = m.back /\ Span(m) \subseteq Span(n)

\* Of two spans, one inside the other.
LEMMA Inside ==
    ASSUME NEW m, NEW n, m.front \in Int, m.back \in Int, n.front \in Int, n.back \in Int,
           m.front < m.back, Span(m) \subseteq Span(n)
    PROVE  n.front <= m.front /\ m.back <= n.back
<1> DEFINE a == m.front
           b == m.back
           c == n.front
           d == n.back
<1>1. a \in Int /\ b \in Int /\ c \in Int /\ d \in Int /\ a < b
  OBVIOUS
<1>2. \A i \in a .. b - 1 : i \in c .. d - 1
  BY DEF Span
<1> HIDE DEF a, b, c, d
<1>3. a \in a .. b - 1 /\ b - 1 \in a .. b - 1
  BY <1>1
<1>4. a \in c .. d - 1 /\ b - 1 \in c .. d - 1
  BY <1>2, <1>3
<1>5. c <= a /\ b <= d
  BY <1>1, <1>4
<1> QED BY <1>5 DEF a, b, c, d

\* The edges of a tile.
LEMMA TileEdges ==
    ASSUME WalkInv, NEW n \in tiles
    PROVE  n.front \in 0 .. N /\ n.back \in 0 .. N /\ n.front < n.back
BY TileFacts DEF WalkInv, TilesInv, TreeInv, LevelsApart, TileShape

\* The children of a node, answered one after the other.
LEMMA DescendLists ==
    ASSUME WalkInv, NEW n \in tiles, NEW f, \A m \in Children(n) : Lists(f[m], m)
    PROVE  /\ Lists(Descend(f, n), n)
           /\ Range(Descend(f, n)) = UNION {Range(f[m]) : m \in Children(n)}
<1> DEFINE s == InOrder(n)
           ss == [i \in DOMAIN s |-> f[s[i]]]
<1>1. /\ s \in Seq(Children(n)) /\ Range(s) = Children(n) /\ Ascending(s)
  BY InOrderLists
<1>2. \A m \in Children(n) : m \in tiles /\ Span(m) \subseteq Span(n)
  BY DEF Children
<1> HIDE DEF s
<1>3. \A i \in DOMAIN s : s[i] \in Children(n)
  BY <1>1
<1>4. ss \in Seq(Seq(Answers)) /\ DOMAIN ss = DOMAIN s /\ \A i \in DOMAIN s : ss[i] = f[s[i]]
  <2>1. \A i \in DOMAIN s : f[s[i]] \in Seq(Answers)
    BY <1>3 DEF Lists
  <2>2. DOMAIN s = 1 .. Len(s) /\ Len(s) \in Nat
    BY <1>1
  <2> QED BY <2>1, <2>2
<1> HIDE DEF ss
<1>5. \A i \in DOMAIN ss : Ascending(ss[i])
  BY <1>3, <1>4 DEF Lists
<1>6. ASSUME NEW i \in DOMAIN ss, NEW j \in DOMAIN ss, i < j PROVE Behind(ss[i], ss[j])
  <2> SUFFICES ASSUME NEW x \in Range(ss[i]), NEW y \in Range(ss[j])
               PROVE  x.back <= y.front
    BY DEF Behind
  <2>1. /\ s[i] \in Children(n) /\ s[j] \in Children(n) /\ s[i].back <= s[j].front
        /\ x \in Range(f[s[i]]) /\ y \in Range(f[s[j]])
    BY <1>1, <1>3, <1>4, <1>6 DEF Ascending
  <2>2. PICK m \in tiles : x.front = m.front /\ x.back = m.back /\ Span(m) \subseteq Span(s[i])
    BY <2>1 DEF Lists
  <2>3. PICK o \in tiles : y.front = o.front /\ y.back = o.back /\ Span(o) \subseteq Span(s[j])
    BY <2>1 DEF Lists
  <2>4. m.back <= s[i].back
    BY <1>2, <2>1, <2>2, TileEdges, Inside
  <2>5. s[j].front <= o.front
    BY <1>2, <2>1, <2>3, TileEdges, Inside
  <2>6. /\ m.back \in Int /\ o.front \in Int /\ s[i].back \in Int /\ s[j].front \in Int
    BY <1>2, <2>1, TileEdges
  <2> QED BY <2>1, <2>2, <2>3, <2>4, <2>5, <2>6
<1>7. /\ FlattenSeq(ss) \in Seq(Answers) /\ Ascending(FlattenSeq(ss))
      /\ Range(FlattenSeq(ss)) = UNION {Range(ss[i]) : i \in DOMAIN ss}
  BY <1>4, <1>5, <1>6, FlattenAscends
<1>8. Descend(f, n) = FlattenSeq(ss)
  BY DEF Descend, ss, s
<1>9. UNION {Range(ss[i]) : i \in DOMAIN ss} = UNION {Range(f[m]) : m \in Children(n)}
  <2>1. \A m \in Children(n) : \E i \in DOMAIN s : m = s[i]
    BY <1>1 DEF Range
  <2> QED BY <1>3, <1>4, <2>1
<1>10. ASSUME NEW x \in Range(Descend(f, n))
       PROVE  \E m \in tiles : x.front = m.front /\ x.back = m.back /\ Span(m) \subseteq Span(n)
  <2>0. x \in UNION {Range(f[m]) : m \in Children(n)}
    BY <1>7, <1>8, <1>9
  <2>1. PICK c \in Children(n) : x \in Range(f[c])
    BY <2>0, Zenon
  <2>2. PICK m \in tiles : x.front = m.front /\ x.back = m.back /\ Span(m) \subseteq Span(c)
    BY <2>1 DEF Lists
  <2> QED BY <1>2, <2>1, <2>2
<1> QED BY <1>7, <1>8, <1>9, <1>10 DEF Lists

\* A walk that answers tiles at the nodes of Stop lists tiles.
LEMMA WalkLists ==
    ASSUME WalkInv, NEW Stop, NEW out, \A n \in tiles : n \in Stop => Lists(out[n], n),
           NEW f, Walks(f, Stop, out)
    PROVE  \A n \in tiles : Lists(f[n], n)
<1> DEFINE G == {n \in tiles : Lists(f[n], n)}
<1>1. ASSUME NEW n \in tiles, \A m \in Children(n) : m \in G PROVE n \in G
  <2>1. f[n] = IF n \in Stop THEN out[n] ELSE Descend(f, n)
    BY DEF Walks
  <2>2. Lists(Descend(f, n), n)
    BY <1>1, DescendLists
  <2> QED BY <2>1, <2>2
<1> HIDE DEF G
<1>2. \A n \in tiles : n \in G
  BY <1>1, TreeInduct
<1> QED BY <1>2 DEF G

\* A tile answered lists itself.
LEMMA TileFoundLists ==
    ASSUME WalkInv, NEW n \in tiles
    PROVE  Lists(TileFound(n), n) /\ Range(TileFound(n)) = {Labelled(n, [x |-> n.x, y |-> n.y, z |-> n.z])}
<1> DEFINE p == Labelled(n, [x |-> n.x, y |-> n.y, z |-> n.z])
<1>1. n.x \in Nat /\ n.y \in Nat /\ n.z \in Nat
  BY DEF WalkInv, TilesInv, IInv, TypeOK, TileNodes
<1>2. p \in Answers /\ p.front = n.front /\ p.back = n.back
  BY <1>1, TileEdges DEF Answers, Labelled
<1> HIDE DEF p
<1>3. << p >> \in Seq(Answers) /\ DOMAIN << p >> = {1} /\ << p >>[1] = p
  BY <1>2
<1>4. Range(<< p >>) = {p} /\ Ascending(<< p >>)
  BY <1>3 DEF Range, Ascending
<1>5. TileFound(n) = << p >>
  BY DEF TileFound, p
<1> QED BY <1>2, <1>3, <1>4, <1>5 DEF Lists, p

-----------------------------------------------------------------------------
(* The walks of SpatialDimension and TileNode are such walks.              *)

\* Where aggregateTile answers a node.
AggregateStop(q) ==
    {n \in tiles : EvalTile(q, KeyOf(n)) /\ (n.last \/ n.z >= q.zoom + q.resolution)}

\* queryTile comes to the tile asked for, or to a leaf with its corner in it.
Hit(q, n) ==
    \/ [x |-> n.x, y |-> n.y, z |-> n.z] = q.tile[KeyOf(n)]
    \/ n.last /\ CornerInTile(n, q.tile[KeyOf(n)])

\* Where queryTile goes no deeper: at a tile found, or at the zoom asked for.
TileStop(q) ==
    {n \in tiles : EvalTile(q, KeyOf(n)) /\ (Hit(q, n) \/ ~(n.z < q.zoom))}

\* queryRegion leaves a node that the region does not meet.
Cuts(q, n) == EvalRegion(q, KeyOf(n)) /\ ~IntersectsTile(n, q.region[KeyOf(n)])

\* Where it goes no deeper: at a node left, or at one it answers.
RegionStop(q) ==
    {n \in tiles : /\ EvalRegion(q, KeyOf(n))
                   /\ \/ Cuts(q, n)
                      \/ KeyOf(n) = q.lastRegion /\ (n.last \/ n.z = q.zoom)}

\* The bodies of the recursive functions.
AggregateBody(q, f, n) ==
    IF EvalTile(q, KeyOf(n)) /\ (n.last \/ n.z >= q.zoom + q.resolution)
    THEN TileFound(n)
    ELSE Descend(f, n)

\* queryTile at node n.
TileBody(q, f, n) ==
    IF ~EvalTile(q, KeyOf(n)) THEN Descend(f, n)
    ELSE IF Hit(q, n) THEN AggregateTile(q)[n]
    ELSE IF n.z < q.zoom THEN Descend(f, n) ELSE << >>

\* queryRegion at node n.
RegionBody(q, f, n) ==
    IF ~EvalRegion(q, KeyOf(n)) THEN Descend(f, n)
    ELSE IF ~IntersectsTile(n, q.region[KeyOf(n)]) THEN << >>
    ELSE IF KeyOf(n) = q.lastRegion /\ (n.last \/ n.z = q.zoom)
         THEN TileFound(n)
         ELSE Descend(f, n)

\* A recursive function that has a solution is one.
LEMMA AggregateUnfolds ==
    ASSUME NEW q, NEW f, f = [n \in tiles |-> AggregateBody(q, f, n)]
    PROVE  AggregateTile(q) = [n \in tiles |-> AggregateBody(q, AggregateTile(q), n)]
BY DEF AggregateTile, AggregateBody

\* The same of queryTile ...
LEMMA TileUnfolds ==
    ASSUME NEW q, NEW f, f = [n \in tiles |-> TileBody(q, f, n)]
    PROVE  QueryTile(q) = [n \in tiles |-> TileBody(q, QueryTile(q), n)]
BY DEF QueryTile, TileBody, Hit

\* ... and of queryRegion.
LEMMA RegionUnfolds ==
    ASSUME NEW q, NEW f, f = [n \in tiles |-> RegionBody(q, f, n)]
    PROVE  QueryRegion(q) = [n \in tiles |-> RegionBody(q, QueryRegion(q), n)]
BY DEF QueryRegion, RegionBody

\* Each walk is one that stops somewhere.
LEMMA AggregateIs ==
    ASSUME WalkInv, NEW q
    PROVE  Walks(AggregateTile(q), AggregateStop(q), [m \in tiles |-> TileFound(m)])
<1> DEFINE S == AggregateStop(q)
           out == [m \in tiles |-> TileFound(m)]
<1>1. \A f, n : n \in tiles =>
         AggregateBody(q, f, n) = IF n \in S THEN out[n] ELSE Descend(f, n)
  BY DEF AggregateStop, AggregateBody
<1> HIDE DEF S, out
<1>2. PICK f : Walks(f, S, out)
  BY WalkExists
<1>3. f = [n \in tiles |-> AggregateBody(q, f, n)]
  BY <1>1, <1>2 DEF Walks
<1>4. AggregateTile(q) = [n \in tiles |-> AggregateBody(q, AggregateTile(q), n)]
  BY <1>3, AggregateUnfolds
<1> DEFINE g == AggregateTile(q)
<1> HIDE DEF g
<1>5. Walks(g, S, out)
  BY <1>1, <1>4 DEF Walks, g
<1> QED BY <1>5 DEF S, out, g

\* queryTile answers tiles by aggregateTile, or nothing.
LEMMA QueryTileIs ==
    ASSUME WalkInv, NEW q
    PROVE  Walks(QueryTile(q), TileStop(q),
                 [m \in tiles |-> IF Hit(q, m) THEN AggregateTile(q)[m] ELSE << >>])
<1> DEFINE S == TileStop(q)
           out == [m \in tiles |-> IF Hit(q, m) THEN AggregateTile(q)[m] ELSE << >>]
<1>1. \A f, n : n \in tiles =>
         TileBody(q, f, n) = IF n \in S THEN out[n] ELSE Descend(f, n)
  BY DEF TileStop, TileBody
<1> HIDE DEF S, out
<1>2. PICK f : Walks(f, S, out)
  BY WalkExists
<1>3. f = [n \in tiles |-> TileBody(q, f, n)]
  BY <1>1, <1>2 DEF Walks
<1>4. QueryTile(q) = [n \in tiles |-> TileBody(q, QueryTile(q), n)]
  BY <1>3, TileUnfolds
<1> DEFINE g == QueryTile(q)
<1> HIDE DEF g
<1>5. Walks(g, S, out)
  BY <1>1, <1>4 DEF Walks, g
<1> QED BY <1>5 DEF S, out, g

\* queryRegion answers tiles at its zoom and leaves, or nothing.
LEMMA QueryRegionIs ==
    ASSUME WalkInv, NEW q
    PROVE  Walks(QueryRegion(q), RegionStop(q),
                 [m \in tiles |-> IF Cuts(q, m) THEN << >> ELSE TileFound(m)])
<1> DEFINE S == RegionStop(q)
           out == [m \in tiles |-> IF Cuts(q, m) THEN << >> ELSE TileFound(m)]
<1>1. \A f, n : n \in tiles =>
         RegionBody(q, f, n) = IF n \in S THEN out[n] ELSE Descend(f, n)
  BY DEF RegionStop, RegionBody, Cuts
<1> HIDE DEF S, out
<1>2. PICK f : Walks(f, S, out)
  BY WalkExists
<1>3. f = [n \in tiles |-> RegionBody(q, f, n)]
  BY <1>1, <1>2 DEF Walks
<1>4. QueryRegion(q) = [n \in tiles |-> RegionBody(q, QueryRegion(q), n)]
  BY <1>3, RegionUnfolds
<1> DEFINE g == QueryRegion(q)
<1> HIDE DEF g
<1>5. Walks(g, S, out)
  BY <1>1, <1>4 DEF Walks, g
<1> QED BY <1>5 DEF S, out, g

\* Nothing is listed by the empty answer.
LEMMA NothingListed ==
    ASSUME NEW n PROVE Lists(<< >>, n) /\ Range(<< >>) = {}
<1>1. << >> \in Seq(Answers) /\ DOMAIN << >> = {}
  OBVIOUS
<1> QED BY <1>1 DEF Lists, Range, Ascending

\* Every walk lists tiles.
LEMMA WalksList ==
    ASSUME WalkInv, NEW q, NEW n \in tiles
    PROVE  /\ Lists(AggregateTile(q)[n], n)
           /\ Lists(QueryTile(q)[n], n)
           /\ Lists(QueryRegion(q)[n], n)
<1>1. \A m \in tiles : Lists(AggregateTile(q)[m], m)
  <2> DEFINE S == AggregateStop(q)
             out == [m \in tiles |-> TileFound(m)]
             f == AggregateTile(q)
  <2>1. Walks(f, S, out)
    BY AggregateIs
  <2>2. \A m \in tiles : m \in S => Lists(out[m], m)
    BY TileFoundLists
  <2> HIDE DEF S, out, f
  <2>3. \A m \in tiles : Lists(f[m], m)
    BY <2>1, <2>2, WalkLists
  <2> QED BY <2>3 DEF f
<1>2. \A m \in tiles : Lists(QueryTile(q)[m], m)
  <2> DEFINE S == TileStop(q)
             out == [m \in tiles |-> IF Hit(q, m) THEN AggregateTile(q)[m] ELSE << >>]
             f == QueryTile(q)
  <2>1. Walks(f, S, out)
    BY QueryTileIs
  <2>2. \A m \in tiles : m \in S => Lists(out[m], m)
    BY <1>1, NothingListed
  <2> HIDE DEF S, out, f
  <2>3. \A m \in tiles : Lists(f[m], m)
    BY <2>1, <2>2, WalkLists
  <2> QED BY <2>3 DEF f
<1>3. \A m \in tiles : Lists(QueryRegion(q)[m], m)
  <2> DEFINE S == RegionStop(q)
             out == [m \in tiles |-> IF Cuts(q, m) THEN << >> ELSE TileFound(m)]
             f == QueryRegion(q)
  <2>1. Walks(f, S, out)
    BY QueryRegionIs
  <2>2. \A m \in tiles : m \in S => Lists(out[m], m)
    BY TileFoundLists, NothingListed
  <2> HIDE DEF S, out, f
  <2>3. \A m \in tiles : Lists(f[m], m)
    BY <2>1, <2>2, WalkLists
  <2> QED BY <2>3 DEF f
<1> QED BY <1>1, <1>2, <1>3

-----------------------------------------------------------------------------
(* The edges of what the dimensions answer are edges of the nodes below.   *)

\* The last tiles reach to both edges of every tile.
LEMMA TileOnLeaves ==
    ASSUME WalkInv, stage > 0, NEW n \in tiles
    PROVE  /\ \E a \in LastTiles : a.front = n.front
           /\ \E b \in LastTiles : b.back = n.back
<1> DEFINE G == {m \in tiles : /\ \E a \in LastTiles : a.front = m.front
                               /\ \E b \in LastTiles : b.back = m.back}
<1>1. ASSUME NEW m \in tiles, \A c \in Children(m) : c \in G PROVE m \in G
  <2>1. CASE m.last
    BY <2>1 DEF LastTiles
  <2>2. CASE ~m.last
    <3>1. UNION {Span(c) : c \in Children(m)} = Span(m)
      BY <2>2, TreeCovers DEF WalkInv, TilesInv, QuadtreeCovers
    <3>2. m.front \in Span(m) /\ m.back - 1 \in Span(m)
      BY TileEdges DEF Span
    <3>3. PICK c \in Children(m) : m.front \in Span(c)
      BY <3>1, <3>2, Zenon
    <3>4. PICK e \in Children(m) : m.back - 1 \in Span(e)
      BY <3>1, <3>2, Zenon
    <3>5. c \in tiles /\ e \in tiles /\ Span(c) \subseteq Span(m) /\ Span(e) \subseteq Span(m)
      BY DEF Children
    <3>6. m.front <= c.front /\ c.front \in Int /\ m.front \in Int
      BY <3>5, TileEdges, Inside
    <3>7. e.back <= m.back /\ e.back \in Int /\ m.back \in Int
      BY <3>5, TileEdges, Inside
    <3>8. c.front = m.front
      BY <3>3, <3>6 DEF Span
    <3>9. e.back = m.back
      BY <3>4, <3>7 DEF Span
    <3>10. c \in G /\ e \in G
      BY <1>1
    <3> QED BY <3>8, <3>9, <3>10
  <2> QED BY <2>1, <2>2
<1> HIDE DEF G
<1>2. n \in G
  BY <1>1, TreeInduct
<1> QED BY <1>2 DEF G

\* The pivots of s start and end where the nodes ns do ...
EdgesOn(s, ns) ==
    \A p \in Range(s) : /\ \E n \in Range(ns) : n.front = p.front
                        /\ \E n \in Range(ns) : n.back = p.back

\* ... those of dimension d.
OnNodes(s, d) == EdgesOn(s, nodes[d])

\* A node of a categorical or temporal dimension.
DimNode == [front : 0 .. N, back : 0 .. N, parts : Seq(Parts)]

\* What is known of the nodes of a dimension whose pass is over.
LEMMA DimNodes ==
    ASSUME WalkInv, NEW d \in 1 .. stage - 1
    PROVE  /\ nodes[d] \in Seq(DimNode) /\ DOMAIN nodes[d] = 1 .. Len(nodes[d])
           /\ Len(nodes[d]) \in Nat
           /\ \A i \in DOMAIN nodes[d] :
                /\ nodes[d][i] \in Range(nodes[d])
                /\ nodes[d][i].front \in 0 .. N /\ nodes[d][i].back \in 0 .. N
                /\ nodes[d][i].front < nodes[d][i].back
                /\ nodes[d][i].parts \in Seq(Parts)
                /\ Chain(nodes[d][i].parts, nodes[d][i].front, nodes[d][i].back)
           /\ \A n \in Range(nodes[d]) : \E i \in DOMAIN nodes[d] : n = nodes[d][i]
           /\ Chain(nodes[d], 0, N)
           /\ Ascending(nodes[d])
           /\ Spans(Range(nodes[d])) = Source(d)
           /\ d \in 1 .. Dims
<1>1. d \in 1 .. Dims
  BY Sizes DEF WalkInv, TilesInv, IInv, TypeOK
<1>2. nodes[d] \in Seq(DimNode)
  BY <1>1 DEF WalkInv, TilesInv, IInv, TypeOK, DimNode
<1>3. Chain(nodes[d], 0, N) /\ Spans(Range(nodes[d])) = Source(d)
  BY DEF WalkInv, AlignInv, NodeAligned
<1>4. \A n \in Range(nodes[d]) : Chain(n.parts, n.front, n.back)
  BY <1>1 DEF WalkInv, AlignInv, PassAligned
<1>5. \A x \in DimNode : x.front \in 0 .. N /\ x.back \in 0 .. N /\ x.parts \in Seq(Parts)
                         /\ x.front \in Int /\ x.back \in Int
  BY Sizes DEF DimNode
<1>6. 0 \in Int /\ N \in Int
  BY Sizes
<1>7. Ascending(nodes[d])
  BY <1>2, <1>3, <1>5, <1>6, ChainAscends DEF Ascending
<1>8. /\ \A i \in DOMAIN nodes[d] : nodes[d][i] \in Range(nodes[d]) /\ nodes[d][i] \in DimNode
      /\ \A n \in Range(nodes[d]) : \E i \in DOMAIN nodes[d] : n = nodes[d][i]
      /\ DOMAIN nodes[d] = 1 .. Len(nodes[d]) /\ Len(nodes[d]) \in Nat
  BY <1>2, SeqRange
<1>9. \A i \in DOMAIN nodes[d] : nodes[d][i].front < nodes[d][i].back
  BY <1>3 DEF Chain
<1> QED BY <1>1, <1>2, <1>3, <1>4, <1>5, <1>7, <1>8, <1>9

\* The tiles a walk lists start and end where nodes of the first dimension do.
LEMMA ListsOnNodes ==
    ASSUME WalkInv, stage > 1, NEW s, NEW n, Lists(s, n)
    PROVE  OnNodes(s, 1)
<1>0. 1 \in 1 .. stage - 1 /\ stage > 0
  BY DEF WalkInv, TilesInv, IInv, TypeOK
<1>1. Spans(Range(nodes[1])) = Spans(LastTiles)
  BY <1>0, DimNodes DEF Source
<1>2. ASSUME NEW a \in LastTiles
      PROVE  \E m \in Range(nodes[1]) : m.front = a.front /\ m.back = a.back
  <2>1. Pivot(a.front, a.back) \in Spans(Range(nodes[1]))
    BY <1>1 DEF Spans
  <2>2. PICK m \in Range(nodes[1]) : Pivot(a.front, a.back) = Pivot(m.front, m.back)
    BY <2>1 DEF Spans
  <2> QED BY <2>2 DEF Pivot
<1> SUFFICES ASSUME NEW p \in Range(s)
             PROVE  /\ \E m \in Range(nodes[1]) : m.front = p.front
                    /\ \E m \in Range(nodes[1]) : m.back = p.back
  BY DEF OnNodes, EdgesOn
<1>3. PICK t \in tiles : p.front = t.front /\ p.back = t.back
  BY DEF Lists
<1>4. PICK a \in LastTiles : a.front = t.front
  BY <1>0, TileOnLeaves
<1>5. PICK b \in LastTiles : b.back = t.back
  BY <1>0, TileOnLeaves
<1> QED BY <1>2, <1>3, <1>4, <1>5

\* A part is a node of the next dimension.
LEMMA PartIsNode ==
    ASSUME WalkInv, NEW d \in 1 .. stage - 2, NEW n \in Range(nodes[d]),
           NEW p \in Range(n.parts)
    PROVE  \E m \in Range(nodes[d + 1]) : m.front = p.front /\ m.back = p.back
<1>1. d + 1 \in 1 .. stage - 1 /\ d + 1 # 1 /\ (d + 1) - 1 = d
  BY DEF WalkInv, TilesInv, IInv, TypeOK
<1>2. Spans(Range(nodes[d + 1])) = PartSpans(d)
  BY <1>1, DimNodes DEF Source
<1>3. Pivot(p.front, p.back) \in PartSpans(d)
  BY DEF PartSpans, Spans
<1>4. PICK m \in Range(nodes[d + 1]) : Pivot(p.front, p.back) = Pivot(m.front, m.back)
  BY <1>2, <1>3 DEF Spans
<1> QED BY <1>4 DEF Pivot

\* ... so pivots that start and end with nodes do so in the next dimension.
LEMMA OnNodesNext ==
    ASSUME WalkInv, NEW d \in 1 .. stage - 2, NEW s, OnNodes(s, d)
    PROVE  OnNodes(s, d + 1)
<1>1. d \in 1 .. stage - 1
  BY DEF WalkInv, TilesInv, IInv, TypeOK
<1>2. ASSUME NEW n \in Range(nodes[d])
      PROVE  /\ \E m \in Range(nodes[d + 1]) : m.front = n.front
             /\ \E m \in Range(nodes[d + 1]) : m.back = n.back
  <2>1. PICK i \in DOMAIN nodes[d] : n = nodes[d][i]
    BY <1>1, DimNodes
  <2>2. /\ n.parts \in Seq(Parts) /\ Chain(n.parts, n.front, n.back)
        /\ n.front < n.back /\ n.front \in 0 .. N /\ n.back \in 0 .. N
    BY <1>1, <2>1, DimNodes
  <2> DEFINE u == n.parts
  <2>3. u # << >>
    BY <2>2 DEF Chain
  <2>4. 1 \in DOMAIN u /\ Len(u) \in DOMAIN u
    BY <2>2, <2>3
  <2>5. u[1].front = n.front /\ u[Len(u)].back = n.back
    BY <2>2, <2>3, <2>4 DEF Chain
  <2>6. u[1] \in Range(u) /\ u[Len(u)] \in Range(u)
    BY <2>4 DEF Range
  <2> HIDE DEF u
  <2>7. \A p \in Range(u) :
          \E m \in Range(nodes[d + 1]) : m.front = p.front /\ m.back = p.back
    BY PartIsNode DEF u
  <2> QED BY <2>5, <2>6, <2>7
<1> SUFFICES ASSUME NEW p \in Range(s)
             PROVE  /\ \E m \in Range(nodes[d + 1]) : m.front = p.front
                    /\ \E m \in Range(nodes[d + 1]) : m.back = p.back
  BY DEF OnNodes, EdgesOn
<1>3. PICK a \in Range(nodes[d]) : a.front = p.front
  BY DEF OnNodes, EdgesOn
<1>4. PICK b \in Range(nodes[d]) : b.back = p.back
  BY DEF OnNodes, EdgesOn
<1> QED BY <1>2, <1>3, <1>4

\* The whole dataset does.
LEMMA RootOnNodes ==
    ASSUME WalkInv, NEW d \in 1 .. stage - 1, N > 0, NEW p, p.front = 0, p.back = N
    PROVE  OnNodes(<< p >>, d)
<1> DEFINE u == nodes[d]
<1>1. /\ Chain(u, 0, N) /\ DOMAIN u = 1 .. Len(u) /\ Len(u) \in Nat
      /\ u \in Seq(DimNode)
      /\ \A i \in DOMAIN u : u[i] \in Range(u)
  BY DimNodes
<1>2. u # << >>
  BY <1>1 DEF Chain
<1>3. 1 \in DOMAIN u /\ Len(u) \in DOMAIN u
  BY <1>1, <1>2
<1>4. u[1].front = 0 /\ u[Len(u)].back = N
  BY <1>1, <1>2, <1>3 DEF Chain
<1>5. Range(<< p >>) = {p}
  BY DEF Range
<1> HIDE DEF u
<1>6. (\E n \in Range(u) : n.front = p.front) /\ (\E n \in Range(u) : n.back = p.back)
  BY <1>1, <1>3, <1>4
<1> QED BY <1>5, <1>6 DEF OnNodes, EdgesOn, u

-----------------------------------------------------------------------------
(* The parts a node answers with.                                          *)

\* Kept keeps some of the pivots of a sequence, in its order.
LEMMA KeptAscends ==
    ASSUME NEW S, NEW s \in Seq(S), Ascending(s), NEW V
    PROVE  /\ Kept(s, V) \in Seq(S)
           /\ Range(Kept(s, V)) = {p \in Range(s) : p.value \in V}
           /\ Ascending(Kept(s, V))
<1> DEFINE ss == [i \in DOMAIN s |-> IF s[i].value \in V THEN << s[i] >> ELSE << >>]
<1>1. /\ DOMAIN s = 1 .. Len(s) /\ Len(s) \in Nat
      /\ \A i \in DOMAIN s : s[i] \in S /\ s[i] \in Range(s)
      /\ \A x \in Range(s) : \E i \in DOMAIN s : x = s[i]
  BY SeqRange
<1>2. ss \in Seq(Seq(S))
  <2>1. \A i \in DOMAIN s : (IF s[i].value \in V THEN << s[i] >> ELSE << >>) \in Seq(S)
    BY <1>1
  <2> QED BY <1>1, <2>1
<1>3. \A x : Range(<< x >>) = {x} /\ Ascending(<< x >>)
  BY DEF Range, Ascending
<1>4. Range(<< >>) = {} /\ Ascending(<< >>)
  BY DEF Range, Ascending
<1>5. /\ DOMAIN ss = DOMAIN s
      /\ \A i \in DOMAIN s : /\ Ascending(ss[i])
                             /\ Range(ss[i]) = IF s[i].value \in V THEN {s[i]} ELSE {}
  BY <1>3, <1>4
<1> HIDE DEF ss
<1>6. \A i, j \in DOMAIN ss : i < j => Behind(ss[i], ss[j])
  BY <1>5 DEF Behind, Ascending
<1>7. /\ FlattenSeq(ss) \in Seq(S) /\ Ascending(FlattenSeq(ss))
      /\ Range(FlattenSeq(ss)) = UNION {Range(ss[i]) : i \in DOMAIN ss}
  BY <1>2, <1>5, <1>6, FlattenAscends
<1>8. UNION {Range(ss[i]) : i \in DOMAIN ss} = {p \in Range(s) : p.value \in V}
  <2>1. ASSUME NEW x \in UNION {Range(ss[i]) : i \in DOMAIN ss}
        PROVE  x \in Range(s) /\ x.value \in V
    <3>1. PICK i \in DOMAIN ss : x \in Range(ss[i])
      BY <2>1, Zenon
    <3> QED BY <1>1, <1>5, <3>1
  <2>2. ASSUME NEW x \in Range(s), x.value \in V
        PROVE  x \in UNION {Range(ss[i]) : i \in DOMAIN ss}
    <3>1. PICK i \in DOMAIN ss : x = s[i]
      BY <1>1, <1>5
    <3>2. x \in Range(ss[i])
      BY <1>5, <2>2, <3>1
    <3> QED BY <3>2
  <2> QED BY <2>1, <2>2
<1>9. Kept(s, V) = FlattenSeq(ss)
  BY DEF Kept, ss
<1> QED BY <1>7, <1>8, <1>9

\* What a node answers: itself, or some of its parts in their order.
LEMMA SelectLists ==
    ASSUME WalkInv, NEW d \in 1 .. stage - 1, NEW n \in Range(nodes[d]), NEW q
    PROVE  /\ Select(q, d, n) \in Seq(Answers)
           /\ Ascending(Select(q, d, n))
           /\ \A x \in Range(Select(q, d, n)) :
                /\ x = Labelled(n, None) \/ x \in Range(n.parts)
                /\ n.front <= x.front /\ x.back <= n.back /\ x.front < x.back
<1>1. PICK i \in DOMAIN nodes[d] : n = nodes[d][i]
  BY DimNodes
<1> DEFINE u == n.parts
           Good(s) == /\ s \in Seq(Answers) /\ Ascending(s)
                      /\ \A x \in Range(s) : x = Labelled(n, None) \/ x \in Range(u)
<1>2. /\ u \in Seq(Parts) /\ Chain(u, n.front, n.back)
      /\ n.front \in 0 .. N /\ n.back \in 0 .. N /\ n.front < n.back
  BY <1>1, DimNodes
<1>3. \A x \in Parts : x.front \in Int /\ x.back \in Int
  BY Sizes DEF Parts
<1>4. n.front \in Int /\ n.back \in Int
  BY <1>2, Sizes
<1> HIDE DEF u
<1>5. /\ Ascending(u)
      /\ \A j \in DOMAIN u : /\ n.front <= u[j].front /\ u[j].back <= n.back
                             /\ u[j].front < u[j].back
  <2>1. \A j \in DOMAIN u : u[j].front < u[j].back
    BY <1>2 DEF Chain
  <2> QED BY <1>2, <1>3, <1>4, <2>1, ChainAscends DEF Ascending
<1>6. Parts \subseteq Answers
  BY DEF Parts, Answers
<1>7. \A s \in Seq(Parts) : s \in Seq(Answers)
  BY <1>6
<1>8. Good(u)
  BY <1>2, <1>5, <1>7
<1>9. ASSUME NEW V PROVE Good(Kept(u, V))
  BY <1>2, <1>5, <1>7, KeptAscends
<1>10. Good(<< >>)
  BY DEF Range, Ascending
<1>11. Good(<< Labelled(n, None) >>)
  <2>1. Labelled(n, None) \in Answers
    BY <1>2 DEF Labelled, Answers
  <2> DEFINE x == Labelled(n, None)
  <2> HIDE DEF x
  <2>2. << x >> \in Seq(Answers) /\ Range(<< x >>) = {x} /\ Ascending(<< x >>)
    BY <2>1 DEF Range, Ascending, x
  <2> QED BY <2>2 DEF x
<1>12. Good(SelectCategorical(q, d, n))
  <2> HIDE DEF Good
  <2> QED BY <1>8, <1>9 DEF SelectCategorical, u
<1>13. Good(SelectTemporal(q, d, n))
  <2> HIDE DEF Good
  <2> QED BY <1>8, <1>9, <1>10, <1>11 DEF SelectTemporal, u
<1>14. Good(Select(q, d, n))
  <2> HIDE DEF Good
  <2> QED BY <1>12, <1>13 DEF Select
<1>15. ASSUME NEW x, x = Labelled(n, None) \/ x \in Range(u)
       PROVE  n.front <= x.front /\ x.back <= n.back /\ x.front < x.back
  <2>1. CASE x = Labelled(n, None)
    BY <1>2, <1>4, <2>1 DEF Labelled
  <2>2. CASE x \in Range(u)
    <3>1. PICK j \in DOMAIN u : x = u[j]
      BY <2>2 DEF Range
    <3> QED BY <1>5, <3>1
  <2> QED BY <1>15, <2>1, <2>2
<1> QED BY <1>14, <1>15 DEF u

\* ... which starts and ends where nodes of the next dimension do.
LEMMA SelectOnNodes ==
    ASSUME WalkInv, NEW d \in 1 .. stage - 2, NEW n \in Range(nodes[d]), NEW q
    PROVE  OnNodes(Select(q, d, n), d + 1)
<1>1. d \in 1 .. stage - 1
  BY DEF WalkInv, TilesInv, IInv, TypeOK
<1>2. OnNodes(<< Labelled(n, None) >>, d + 1)
  <2> DEFINE x == Labelled(n, None)
  <2>1. x.front = n.front /\ x.back = n.back
    BY DEF Labelled
  <2> HIDE DEF x
  <2>2. Range(<< x >>) = {x}
    BY DEF Range
  <2>3. OnNodes(<< x >>, d)
    BY <2>1, <2>2 DEF OnNodes, EdgesOn
  <2>4. OnNodes(<< x >>, d + 1)
    BY <2>3, OnNodesNext
  <2> QED BY <2>4 DEF x
<1>3. Labelled(n, None) \in Range(<< Labelled(n, None) >>)
  BY DEF Range
<1> SUFFICES ASSUME NEW x \in Range(Select(q, d, n))
             PROVE  /\ \E m \in Range(nodes[d + 1]) : m.front = x.front
                    /\ \E m \in Range(nodes[d + 1]) : m.back = x.back
  BY DEF OnNodes, EdgesOn
<1>4. CASE x = Labelled(n, None)
  BY <1>2, <1>3, <1>4 DEF OnNodes, EdgesOn
<1>5. CASE x \in Range(n.parts)
  BY <1>5, PartIsNode
<1> QED BY <1>1, <1>4, <1>5, SelectLists

-----------------------------------------------------------------------------
(* The inductive invariant of a query.                                     *)

\* Non-empty pivots, each behind the one before.
Run(s) == s \in Seq(Answers) /\ Ascending(s) /\ \A x \in Range(s) : x.front < x.back

\* The range of a dimension.
RangeFits(ns, r) == Run(r) /\ EdgesOn(r, ns)

\* The cursor is inside the pivot of the range it looks at ...
InPivot(ns, r, a, i) ==
    /\ a \in DOMAIN r /\ i \in DOMAIN ns
    /\ r[a].front <= ns[i].front /\ ns[i].front <= r[a].back

\* ... or not behind the next one.
BeforePivot(ns, r, a, i) ==
    a \in DOMAIN r /\ i \in DOMAIN ns => ns[i].front <= r[a].front

\* What was found lies in the nodes the cursor has passed.
FoundFits(ns, f, i) ==
    /\ Run(f)
    /\ \A x \in Range(f) : \E j \in DOMAIN ns : j < i /\ x.back <= ns[j].back

\* The dimensions a query has come to.
QueryPhase ==
    /\ dim \in 0 .. Dims + 1
    /\ at \in Nat \ {0} /\ it \in Nat \ {0}
    /\ query # None => Built
    /\ query = None => dim = 0
    /\ dim = 0 => found = << >> /\ (query # None => range = << Labelled(Pivot(0, N), None) >>)
    /\ inRange => dim \in 1 .. Dims /\ N > 0

\* In the loop of a dimension.
LoopFits ==
    /\ RangeFits(nodes[dim], range)
    /\ FoundFits(nodes[dim], found, it)
    /\ dim < Dims => EdgesOn(found, nodes[dim + 1])
    /\ it <= Len(nodes[dim]) + 1
    /\ inRange => InPivot(nodes[dim], range, at, it)
    /\ ~inRange => BeforePivot(nodes[dim], range, at, it)
    /\ ~Evals(query, dim) => ~inRange /\ found = << >>

\* The inductive invariant of a query: the tree, the dimension it is at, and
\* where the range, what was found and the cursor lie among its nodes.
QueryInv ==
    /\ WalkInv
    /\ QueryPhase
    /\ N > 0 /\ dim \in 1 .. Dims => LoopFits

\* The nodes of a dimension of a finished cube.
NodesFit(ns) ==
    /\ ns \in Seq(DimNode) /\ DOMAIN ns = 1 .. Len(ns) /\ Len(ns) \in Nat
    /\ \A i \in DOMAIN ns : /\ ns[i].front \in Int /\ ns[i].back \in Int
                            /\ ns[i].front < ns[i].back
                            /\ 0 <= ns[i].front
                            /\ i + 1 \in DOMAIN ns => ns[i + 1].front = ns[i].back
                            /\ i = 1 => ns[i].front = 0
                            /\ ns[i] \in Range(ns)
    /\ \A n \in Range(ns) : \E i \in DOMAIN ns : n = ns[i]
    /\ \A i, j \in DOMAIN ns : i < j => ns[i].back <= ns[j].front

\* Those of every dimension, once the cube is built.
LEMMA BuiltNodes ==
    ASSUME WalkInv, Built, NEW d \in 1 .. Dims
    PROVE  NodesFit(nodes[d])
<1>1. d \in 1 .. stage - 1
  BY Sizes DEF Built
<1> DEFINE u == nodes[d]
<1>2. /\ u \in Seq(DimNode) /\ DOMAIN u = 1 .. Len(u)
      /\ Len(u) \in Nat
      /\ \A i \in DOMAIN u :
                /\ u[i] \in Range(u)
                /\ u[i].front \in 0 .. N /\ u[i].back \in 0 .. N
                /\ u[i].front < u[i].back
      /\ \A n \in Range(u) : \E i \in DOMAIN u : n = u[i]
      /\ Chain(u, 0, N)
      /\ Ascending(u)
  BY <1>1, DimNodes
<1> HIDE DEF u
<1>3. ASSUME NEW i \in DOMAIN u
      PROVE  /\ u[i].front \in Int /\ u[i].back \in Int /\ 0 <= u[i].front
             /\ i + 1 \in DOMAIN u => u[i + 1].front = u[i].back
             /\ i = 1 => u[i].front = 0
  <2>1. u[i].front \in 0 .. N /\ u[i].back \in 0 .. N
    BY <1>2
  <2>2. u[i].front \in Int /\ u[i].back \in Int /\ 0 <= u[i].front
    BY <2>1, Sizes
  <2>3. i = 1 => u[i].front = 0
    BY <1>2 DEF Chain
  <2>4. ASSUME i + 1 \in DOMAIN u PROVE u[i + 1].front = u[i].back
    <3>1. i \in Nat /\ i + 1 # 1 /\ (i + 1) - 1 = i
      BY <1>2
    <3> QED BY <1>2, <2>4, <3>1 DEF Chain
  <2> QED BY <2>2, <2>3, <2>4
<1>4. NodesFit(u)
  BY <1>2, <1>3 DEF NodesFit, Ascending
<1> QED BY <1>4 DEF u

\* The edges of answers.
LEMMA AnswerEdges ==
    ASSUME NEW r \in Seq(Answers), NEW a \in DOMAIN r
    PROVE  /\ r[a].front \in Int /\ r[a].back \in Int /\ 0 <= r[a].front
           /\ r[a] \in Range(r) /\ a \in Nat
<1>1. r[a] \in Answers /\ a \in Nat /\ r[a] \in Range(r)
  BY DEF Range
<1>2. r[a].front \in 0 .. N /\ r[a].back \in 0 .. N
  BY <1>1 DEF Answers
<1> QED BY <1>1, <1>2, Sizes

\* nextNode comes to the node the next pivot of the range starts with.
LEMMA SeekLands ==
    ASSUME NEW d, NodesFit(nodes[d]), NEW r, RangeFits(nodes[d], r),
           NEW a \in DOMAIN r, NEW i \in DOMAIN nodes[d],
           nodes[d][i].front <= r[a].front
    PROVE  /\ Seek(r[a], d, i) \in DOMAIN nodes[d]
           /\ nodes[d][Seek(r[a], d, i)].front = r[a].front
<1> DEFINE u == nodes[d]
           p == r[a]
<1>1. /\ p.front \in Int /\ p.back \in Int /\ p \in Range(r)
  BY AnswerEdges DEF RangeFits, Run
<1>2. PICK n \in Range(u) : n.front = p.front
  BY <1>1 DEF RangeFits, EdgesOn
<1>3. /\ DOMAIN u = 1 .. Len(u) /\ Len(u) \in Nat
      /\ \A j \in DOMAIN u : /\ u[j].front \in Int /\ u[j].back \in Int
                             /\ u[j].front < u[j].back
      /\ \A m \in Range(u) : \E j \in DOMAIN u : m = u[j]
      /\ \A j, k \in DOMAIN u : j < k => u[j].back <= u[k].front
  BY DEF NodesFit
<1>4. u[i].front <= p.front /\ i \in DOMAIN u
  OBVIOUS
<1> HIDE DEF u, p
<1>5. PICK k \in DOMAIN u : u[k].front = p.front
  BY <1>2, <1>3
<1>6. CASE p.front <= u[i].front /\ p.back >= u[i].front
  <2>1. Seek(p, d, i) = i
    BY <1>6 DEF Seek, u
  <2>2. u[i].front = p.front
    BY <1>1, <1>3, <1>4, <1>6
  <2> QED BY <1>4, <2>1, <2>2 DEF u, p
<1>7. CASE ~(p.front <= u[i].front /\ p.back >= u[i].front)
  <2> DEFINE T == {j \in i .. Len(u) : u[j].front >= p.front} \cup {Len(u) + 1}
  <2>1. Seek(p, d, i) = Min(T)
    BY <1>7 DEF Seek, u
  <2>2. k >= i
    BY <1>1, <1>3, <1>4, <1>5
  <2>3. T \in SUBSET Nat /\ T # {} /\ k \in T
    BY <1>1, <1>3, <1>4, <1>5, <2>2
  <2> HIDE DEF T
  <2>4. \E m \in T : \A j \in T : m <= j
    BY <2>3, NatMin
  <2>5. Min(T) \in T /\ \A j \in T : Min(T) <= j
    BY <2>4 DEF Min
  <2>6. PICK j : j = Min(T)
    OBVIOUS
  <2>7. j \in T /\ j <= k
    BY <2>3, <2>5, <2>6
  <2>8. j \in DOMAIN u /\ u[j].front >= p.front
    <3>1. j # Len(u) + 1
      BY <1>3, <2>3, <2>7
    <3>2. j \in i .. Len(u) /\ u[j].front >= p.front
      BY <2>7, <3>1 DEF T
    <3>3. i \in Nat /\ i >= 1
      BY <1>3, <1>4
    <3> QED BY <1>3, <3>2, <3>3
  <2>9. u[j].front <= u[k].front
    BY <1>3, <2>7, <2>8
  <2>10. u[j].front = p.front
    BY <1>1, <1>3, <1>5, <2>8, <2>9
  <2> QED BY <2>1, <2>6, <2>8, <2>10 DEF u, p
<1> QED BY <1>6, <1>7

\* A node asked for a pivot does not reach beyond it.
LEMMA NodeInside ==
    ASSUME NEW ns, NodesFit(ns), NEW r, RangeFits(ns, r), NEW a, NEW i,
           InPivot(ns, r, a, i), ns[i].front < r[a].back
    PROVE  /\ r[a].front <= ns[i].front
           /\ ns[i].back <= r[a].back
<1>1. /\ r[a].front \in Int /\ r[a].back \in Int /\ r[a] \in Range(r)
  BY AnswerEdges DEF RangeFits, Run, InPivot
<1>2. PICK n \in Range(ns) : n.back = r[a].back
  BY <1>1 DEF RangeFits, EdgesOn
<1>3. PICK k \in DOMAIN ns : ns[k].back = r[a].back
  BY <1>2 DEF NodesFit
<1>4. /\ ns[i].front \in Int /\ ns[i].back \in Int /\ ns[k].front \in Int /\ ns[k].back \in Int
      /\ k < i => ns[k].back <= ns[i].front
      /\ i < k => ns[i].back <= ns[k].front
      /\ ns[k].front < ns[k].back
      /\ i \in Int /\ k \in Int
  BY DEF NodesFit, InPivot
<1>5. ~(k < i)
  BY <1>1, <1>3, <1>4
<1>6. ns[i].back <= r[a].back
  BY <1>3, <1>4, <1>5
<1> QED BY <1>6 DEF InPivot

-----------------------------------------------------------------------------
(* Each step of a query keeps it.                                          *)

\* Nothing was asked yet.
LEMMA InitQuery == QueryInit => QueryInv
<1> SUFFICES ASSUME QueryInit PROVE QueryInv
  OBVIOUS
<1>1. WalkInv
  BY InitWalk DEF QueryInit
<1>2. QueryPhase
  <2>1. dim = 0 /\ at = 1 /\ it = 1 /\ query = None /\ found = << >>
    BY DEF QueryInit
  <2>2. ~inRange
    BY DEF QueryInit
  <2>3. 0 \in 0 .. Dims + 1
    BY Sizes
  <2> QED BY <2>1, <2>2, <2>3 DEF QueryPhase
<1>3. dim \notin 1 .. Dims
  BY DEF QueryInit
<1> QED BY <1>1, <1>2, <1>3 DEF QueryInv

\* What steps of the query leave alone.
LEMMA CubeStays ==
    ASSUME QueryInv, UNCHANGED vars
    PROVE  WalkInv' /\ nodes' = nodes /\ (Built' <=> Built)
<1>1. WalkInv'
  BY NextWalk DEF QueryInv
<1> QED BY <1>1 DEF vars, Built

\* A dimension starts: its range fits, nothing is found, the cursor is at its first node.
LEMMA DimStarts ==
    ASSUME NEW ns, NodesFit(ns), NEW r, RangeFits(ns, r)
    PROVE  FoundFits(ns, << >>, 1) /\ BeforePivot(ns, r, 1, 1) /\ 1 <= Len(ns) + 1
<1>1. FoundFits(ns, << >>, 1)
  BY DEF FoundFits, Run, Range, Ascending
<1>2. Len(ns) \in Nat /\ 1 <= Len(ns) + 1
  BY DEF NodesFit
<1>3. ASSUME 1 \in DOMAIN r, 1 \in DOMAIN ns PROVE ns[1].front <= r[1].front
  <2>1. ns[1].front = 0
    BY <1>3 DEF NodesFit
  <2>2. 0 <= r[1].front
    BY <1>3, AnswerEdges DEF RangeFits, Run
  <2> QED BY <2>1, <2>2
<1> QED BY <1>1, <1>2, <1>3 DEF BeforePivot

\* Nothing starts or ends anywhere.
LEMMA NothingOn ==
    ASSUME NEW ns PROVE EdgesOn(<< >>, ns)
BY DEF EdgesOn, Range

\* To the next dimension with a range r that fits its nodes.
LEMMA NextDimQuery ==
    ASSUME QueryInv, UNCHANGED vars, NextDim, query # None, query' = query, N > 0 => found' = << >>,
           dim \in 0 .. Dims,
           N > 0 /\ dim < Dims => RangeFits(nodes[dim + 1], range')
    PROVE  QueryInv'
<1>1. WalkInv' /\ nodes' = nodes /\ Built' /\ Built
  BY CubeStays DEF QueryInv, QueryPhase
<1>2. dim' = dim + 1 /\ at' = 1 /\ it' = 1 /\ ~inRange' /\ Dims \in Nat
  BY Sizes DEF NextDim
<1>3. QueryPhase'
  <2>1. dim' # 0 /\ dim' \in 0 .. Dims + 1
    BY <1>2
  <2> QED BY <1>1, <1>2, <2>1 DEF QueryPhase
<1>4. ASSUME N > 0, dim' \in 1 .. Dims PROVE LoopFits'
  <2>1. dim < Dims /\ dim + 1 \in 1 .. Dims
    BY <1>2, <1>4
  <2> DEFINE ns == nodes[dim + 1]
  <2>2. NodesFit(ns) /\ RangeFits(ns, range')
    BY <1>1, <1>4, <2>1, BuiltNodes DEF QueryInv
  <2> HIDE DEF ns
  <2>3. FoundFits(ns, << >>, 1) /\ BeforePivot(ns, range', 1, 1) /\ 1 <= Len(ns) + 1
    BY <2>2, DimStarts
  <2>4. \A x : EdgesOn(<< >>, x)
    BY NothingOn
  <2>5. nodes'[dim'] = ns
    BY <1>1, <1>2 DEF ns
  <2> QED BY <1>2, <1>4, <2>2, <2>3, <2>4, <2>5 DEF LoopFits
<1> QED BY <1>1, <1>3, <1>4 DEF QueryInv

\* The tiles the spatial dimension answers are runs of its leaves, which the
\* nodes of the first dimension stand for.
LEMMA QuerySpatialKeeps ==
    ASSUME QueryInv, QuerySpatial
    PROVE  QueryInv'
<1>1. /\ query # None /\ dim = 0 /\ UNCHANGED vars /\ NextDim /\ query' = query
      /\ found' = found /\ found = << >> /\ Built
      /\ range = << Labelled(Pivot(0, N), None) >>
  BY DEF QuerySpatial, QueryInv, QueryPhase
<1>2. ASSUME N > 0, 0 < Dims PROVE RangeFits(nodes[0 + 1], range')
  <2>1. stage > 1 /\ stage > 0 /\ 1 \in 1 .. stage - 1
    BY <1>1, <1>2, Sizes DEF Built
  <2>2. Root \in tiles
    BY <1>2, <2>1, RootIs DEF QueryInv
  <2>3. ASSUME NEW s, Lists(s, Root) PROVE RangeFits(nodes[1], s)
    <3>1. OnNodes(s, 1)
      BY <2>1, <2>3, ListsOnNodes DEF QueryInv
    <3>2. \A x \in Range(s) : x.front < x.back
      BY <2>3, TileEdges DEF Lists, QueryInv
    <3> QED BY <2>3, <3>1, <3>2 DEF RangeFits, Run, Lists, OnNodes
  <2>4. CASE EvalSpatial(query)
    <3>1. range' = QueryTile(query)[Root] \/ range' = QueryRegion(query)[Root]
      BY <2>4 DEF QuerySpatial
    <3>2. Lists(QueryTile(query)[Root], Root) /\ Lists(QueryRegion(query)[Root], Root)
      BY <2>2, WalksList DEF QueryInv
    <3> QED BY <2>3, <3>1, <3>2
  <2>5. CASE ~EvalSpatial(query)
    <3> DEFINE p == Labelled(Pivot(0, N), None)
    <3>1. range' = << p >>
      BY <1>1, <2>5 DEF QuerySpatial
    <3>2. p.front = 0 /\ p.back = N /\ p \in Answers
      BY Sizes DEF Labelled, Pivot, Answers
    <3> HIDE DEF p
    <3>3. OnNodes(<< p >>, 1)
      BY <1>2, <2>1, <3>2, RootOnNodes DEF QueryInv
    <3>4. << p >> \in Seq(Answers) /\ Ascending(<< p >>) /\ Range(<< p >>) = {p}
      BY <3>2 DEF Ascending, Range
    <3>5. p.front < p.back
      BY <1>2, <3>2
    <3> QED BY <3>1, <3>3, <3>4, <3>5 DEF RangeFits, Run, OnNodes
  <2> QED BY <2>4, <2>5
<1>3. 0 \in 0 .. Dims
  BY Sizes
<1> QED BY <1>1, <1>2, <1>3, NextDimQuery

\* A range left alone starts and ends with the parts of the nodes skipped, the
\* nodes of the next dimension.
LEMMA SkipDimKeeps ==
    ASSUME QueryInv, SkipDim
    PROVE  QueryInv'
<1>1. /\ query # None /\ dim \in 1 .. Dims /\ UNCHANGED vars /\ NextDim /\ query' = query
      /\ found' = found /\ range' = range /\ Built /\ ~Evals(query, dim)
  BY DEF SkipDim, QueryInv, QueryPhase
<1>2. dim \in 0 .. Dims
  BY <1>1
<1>3. ASSUME N > 0 PROVE LoopFits /\ found' = << >>
  BY <1>1, <1>3 DEF QueryInv, LoopFits
<1>4. ASSUME N > 0, dim < Dims PROVE RangeFits(nodes[dim + 1], range')
  <2>1. dim \in 1 .. stage - 2
    BY <1>1, <1>4, Sizes DEF Built
  <2>2. RangeFits(nodes[dim], range)
    BY <1>3, <1>4 DEF LoopFits
  <2>3. OnNodes(range, dim + 1)
    BY <2>1, <2>2, OnNodesNext DEF QueryInv, RangeFits, OnNodes
  <2> QED BY <1>1, <2>2, <2>3 DEF RangeFits, OnNodes
<1> QED BY <1>1, <1>2, <1>3, <1>4, NextDimQuery

\* What was found is the next range.
LEMMA FinishDimKeeps ==
    ASSUME QueryInv, FinishDim
    PROVE  QueryInv'
<1>1. /\ query # None /\ dim \in 1 .. Dims /\ UNCHANGED vars /\ NextDim /\ query' = query
      /\ found' = << >> /\ range' = found /\ Built
  BY DEF FinishDim, QueryInv, QueryPhase
<1>2. dim \in 0 .. Dims
  BY <1>1
<1>3. ASSUME N > 0, dim < Dims PROVE RangeFits(nodes[dim + 1], range')
  <2>1. LoopFits
    BY <1>1, <1>3 DEF QueryInv
  <2> QED BY <1>1, <1>3, <2>1 DEF LoopFits, RangeFits, FoundFits
<1> QED BY <1>1, <1>2, <1>3, NextDimQuery

\* A step inside the loop of a dimension.
LEMMA LoopStep ==
    ASSUME QueryInv, UNCHANGED vars, dim \in 1 .. Dims, dim' = dim, query # None, query' = query,
           range' = range, at' \in Nat \ {0}, it' \in Nat \ {0}, inRange' => N > 0,
           Evals(query, dim),
           N > 0 =>
             /\ FoundFits(nodes[dim], found', it')
             /\ dim < Dims => EdgesOn(found', nodes[dim + 1])
             /\ it' <= Len(nodes[dim]) + 1
             /\ inRange' => InPivot(nodes[dim], range, at', it')
             /\ ~inRange' => BeforePivot(nodes[dim], range, at', it')
    PROVE  QueryInv'
<1>1. WalkInv' /\ nodes' = nodes /\ Built' /\ Built /\ interval' = interval
  BY CubeStays DEF QueryInv, QueryPhase, vars
<1>2. dim # 0
  OBVIOUS
<1>3. QueryPhase'
  BY <1>1, <1>2 DEF QueryPhase, QueryInv
<1>4. Evals(query, dim)'
  <2>1. Evals(query, dim)' <=> Evals(query', dim')
    BY <1>1 DEF Evals
  <2> QED BY <1>1 DEF Evals
<1>5. ASSUME N > 0 PROVE LoopFits'
  <2>1. RangeFits(nodes[dim], range)
    BY <1>5 DEF QueryInv, LoopFits
  <2> QED BY <1>1, <1>4, <1>5, <2>1 DEF LoopFits
<1> QED BY <1>1, <1>3, <1>5 DEF QueryInv

\* The next pivot is found from the cursor on: the cursor never has to go back.
LEMMA SeekNodeKeeps ==
    ASSUME QueryInv, SeekNode
    PROVE  QueryInv'
<1>1. /\ query # None /\ dim \in 1 .. Dims /\ UNCHANGED vars /\ dim' = dim /\ query' = query
      /\ range' = range /\ found' = found /\ at' = at /\ Built /\ Evals(query, dim)
      /\ ~inRange /\ at <= Len(range) /\ it <= Len(nodes[dim])
      /\ it' = Seek(range[at], dim, it)
      /\ at \in Nat \ {0} /\ it \in Nat \ {0}
  BY DEF SeekNode, QueryInv, QueryPhase
<1>2. inRange'
  BY DEF SeekNode
<1>3. N > 0
  <2> SUFFICES ASSUME N = 0 PROVE FALSE
    BY Sizes
  <2>1. dim \in 1 .. stage - 1
    BY <1>1, Sizes DEF Built
  <2>2. 1 \in DOMAIN nodes[dim]
    BY <1>1, <2>1, DimNodes DEF QueryInv
  <2>3. /\ nodes[dim][1].front \in 0 .. N /\ nodes[dim][1].back \in 0 .. N
        /\ nodes[dim][1].front < nodes[dim][1].back
    BY <2>1, <2>2, DimNodes DEF QueryInv
  <2> QED BY <2>3
<1>4. LoopFits /\ NodesFit(nodes[dim])
  BY <1>1, <1>3, BuiltNodes DEF QueryInv
<1> DEFINE u == nodes[dim]
<1>5. at \in DOMAIN range /\ it \in DOMAIN u
  BY <1>1, <1>4 DEF NodesFit, LoopFits, RangeFits, Run
<1>6. u[it].front <= range[at].front
  BY <1>1, <1>4, <1>5 DEF LoopFits, BeforePivot
<1>7. it' \in DOMAIN u /\ u[it'].front = range[at].front
  BY <1>1, <1>4, <1>5, <1>6, SeekLands DEF LoopFits
<1>8. InPivot(u, range, at, it')
  <2>1. range[at] \in Range(range) /\ range[at].front \in Int /\ range[at].back \in Int
    BY <1>4, <1>5, AnswerEdges DEF LoopFits, RangeFits, Run
  <2>2. range[at].front < range[at].back
    BY <1>4, <2>1 DEF LoopFits, RangeFits, Run
  <2> QED BY <1>5, <1>7, <2>1, <2>2 DEF InPivot
<1>9. it' \in Nat \ {0} /\ it' <= Len(u) + 1 /\ it < it' + 1
  <2>1. it' \in 1 .. Len(u) /\ Len(u) \in Nat
    BY <1>4, <1>7 DEF NodesFit
  <2>2. it <= it'
    <3>1. /\ u[it].front \in Int /\ u[it'].front \in Int /\ u[it'].back \in Int
          /\ u[it'].front < u[it'].back
          /\ it' < it => u[it'].back <= u[it].front
      BY <1>4, <1>5, <1>7 DEF NodesFit
    <3> QED BY <1>1, <1>6, <1>7, <2>1, <3>1
  <2> QED BY <1>1, <2>1, <2>2
<1>10. FoundFits(u, found, it')
  <2>1. FoundFits(u, found, it) /\ DOMAIN u = 1 .. Len(u)
    BY <1>4 DEF LoopFits, NodesFit
  <2>2. \A j \in DOMAIN u : j < it => j < it'
    BY <1>1, <1>9, <2>1
  <2> QED BY <2>1, <2>2 DEF FoundFits
<1>11. dim < Dims => EdgesOn(found, nodes[dim + 1])
  BY <1>4 DEF LoopFits
<1> QED BY <1>1, <1>2, <1>3, <1>8, <1>9, <1>10, <1>11, LoopStep

\* A node asked answers behind all that was found, and the next one starts
\* where it ends.
LEMMA VisitNodeKeeps ==
    ASSUME QueryInv, VisitNode
    PROVE  QueryInv'
<1> DEFINE u == nodes[dim]
           n == u[it]
           sel == Select(query, dim, n)
<1>1. /\ inRange /\ range[at].back > n.front /\ found' = found \o sel /\ it' = it + 1
      /\ UNCHANGED vars /\ dim' = dim /\ query' = query /\ range' = range /\ at' = at
  BY DEF VisitNode
<1>0. (inRange' => it < Len(u)) /\ (~inRange' => ~(it < Len(u)))
  BY Zenon DEF VisitNode
<1>2. /\ dim \in 1 .. Dims /\ N > 0 /\ query # None /\ Built
      /\ at \in Nat \ {0} /\ it \in Nat \ {0}
  BY <1>1 DEF QueryInv, QueryPhase
<1>3. LoopFits /\ NodesFit(u) /\ Evals(query, dim)
  BY <1>1, <1>2, BuiltNodes DEF QueryInv, LoopFits
<1>4. InPivot(u, range, at, it) /\ RangeFits(u, range) /\ FoundFits(u, found, it)
  BY <1>1, <1>3 DEF LoopFits
<1>5. /\ it \in DOMAIN u /\ at \in DOMAIN range /\ DOMAIN u = 1 .. Len(u) /\ Len(u) \in Nat
      /\ n \in Range(u) /\ n.front \in Int /\ n.back \in Int /\ n.front < n.back
  BY <1>3, <1>4 DEF InPivot, NodesFit
<1>6. dim \in 1 .. stage - 1 /\ (dim < Dims => dim \in 1 .. stage - 2)
  BY <1>2, Sizes DEF Built
<1>7. /\ sel \in Seq(Answers) /\ Ascending(sel)
      /\ \A x \in Range(sel) : n.front <= x.front /\ x.back <= n.back /\ x.front < x.back
  BY <1>5, <1>6, SelectLists DEF QueryInv
<1>8. dim < Dims => EdgesOn(sel, nodes[dim + 1])
  BY <1>5, <1>6, SelectOnNodes DEF QueryInv, OnNodes
<1> HIDE DEF sel
<1>9. FoundFits(u, found', it + 1)
  <2>1. Behind(found, sel)
    <3> SUFFICES ASSUME NEW x \in Range(found), NEW y \in Range(sel) PROVE x.back <= y.front
      BY DEF Behind
    <3>1. PICK j \in DOMAIN u : j < it /\ x.back <= u[j].back
      BY <1>4 DEF FoundFits
    <3>2. u[j].back <= n.front /\ u[j].back \in Int
      BY <1>3, <1>5, <3>1 DEF NodesFit
    <3>3. x.back \in Int /\ y.front \in Int
      <4>1. x \in Answers /\ y \in Answers
        BY <1>4, <1>7, SeqRange DEF FoundFits, Run
      <4> QED BY <4>1, Sizes DEF Answers
    <3>4. n.front <= y.front
      BY <1>7
    <3> QED BY <1>5, <3>1, <3>2, <3>3, <3>4
  <2>2. /\ found' \in Seq(Answers) /\ Range(found') = Range(found) \cup Range(sel)
        /\ Ascending(found')
    BY <1>1, <1>4, <1>7, <2>1, ConcatRange, ConcatAscends DEF FoundFits, Run
  <2>3. Run(found')
    BY <1>4, <1>7, <2>2 DEF FoundFits, Run
  <2>4. ASSUME NEW x \in Range(found')
        PROVE  \E j \in DOMAIN u : j < it + 1 /\ x.back <= u[j].back
    <3>1. CASE x \in Range(found)
      <4>1. PICK j \in DOMAIN u : j < it /\ x.back <= u[j].back
        BY <1>4, <3>1 DEF FoundFits
      <4>2. j < it + 1
        BY <1>2, <1>5, <4>1
      <4> QED BY <4>1, <4>2
    <3>2. CASE x \in Range(sel)
      BY <1>2, <1>5, <1>7, <3>2
    <3> QED BY <2>2, <3>1, <3>2
  <2> QED BY <2>3, <2>4 DEF FoundFits
<1>10. dim < Dims => EdgesOn(found', nodes[dim + 1])
  <2>1. Range(found') = Range(found) \cup Range(sel)
    BY <1>1, <1>4, <1>7, ConcatRange DEF FoundFits, Run
  <2> QED BY <1>3, <1>8, <2>1 DEF EdgesOn, LoopFits
<1>11. n.back <= range[at].back /\ range[at].front <= n.front
  BY <1>1, <1>3, <1>4, <1>5, NodeInside, AnswerEdges DEF RangeFits, Run
<1>12. ASSUME inRange' PROVE InPivot(u, range, at, it + 1)
  <2>1. it + 1 \in DOMAIN u
    BY <1>0, <1>5, <1>12
  <2>2. u[it + 1].front = n.back
    BY <1>3, <1>5, <2>1 DEF NodesFit
  <2>3. range[at].front \in Int
    BY <1>4, <1>5, AnswerEdges DEF RangeFits, Run
  <2> QED BY <1>5, <1>11, <2>1, <2>2, <2>3 DEF InPivot
<1>13. ASSUME ~inRange' PROVE BeforePivot(u, range, at, it + 1)
  <2>1. it + 1 \notin DOMAIN u
    BY <1>0, <1>5, <1>13
  <2> QED BY <2>1 DEF BeforePivot
<1>14. it' \in Nat \ {0} /\ it' <= Len(u) + 1
  BY <1>1, <1>2, <1>5
<1> HIDE DEF n, u
<1> QED BY <1>1, <1>2, <1>3, <1>9, <1>10, <1>12, <1>13, <1>14, LoopStep DEF u

\* The node a pivot ends at is not behind the next pivot.
LEMMA LeaveRangeKeeps ==
    ASSUME QueryInv, LeaveRange
    PROVE  QueryInv'
<1> DEFINE u == nodes[dim]
<1>1. /\ inRange /\ range[at].back <= u[it].front /\ found' = found /\ it' = it
      /\ at' = at + 1
      /\ UNCHANGED vars /\ dim' = dim /\ query' = query /\ range' = range
  BY DEF LeaveRange
<1>2. ~inRange'
  BY DEF LeaveRange
<1>3. /\ dim \in 1 .. Dims /\ N > 0 /\ query # None /\ Built
      /\ at \in Nat \ {0} /\ it \in Nat \ {0}
  BY <1>1 DEF QueryInv, QueryPhase
<1>4. LoopFits /\ NodesFit(u) /\ Evals(query, dim)
  BY <1>1, <1>3, BuiltNodes DEF QueryInv, LoopFits
<1>5. InPivot(u, range, at, it) /\ RangeFits(u, range) /\ FoundFits(u, found, it)
      /\ (dim < Dims => EdgesOn(found, nodes[dim + 1])) /\ it <= Len(u) + 1
  BY <1>1, <1>4 DEF LoopFits
<1>6. BeforePivot(u, range, at + 1, it)
  <2> SUFFICES ASSUME at + 1 \in DOMAIN range PROVE u[it].front <= range[at + 1].front
    BY DEF BeforePivot
  <2>1. at \in DOMAIN range /\ u[it].front <= range[at].back /\ u[it].front \in Int
    BY <1>4, <1>5 DEF InPivot, NodesFit
  <2>2. range[at].back <= range[at + 1].front
    BY <1>3, <1>5, <2>1 DEF RangeFits, Run, Ascending
  <2>3. range[at].back \in Int /\ range[at + 1].front \in Int
    BY <1>5, <2>1, AnswerEdges DEF RangeFits, Run
  <2> QED BY <2>1, <2>2, <2>3
<1>7. at' \in Nat \ {0}
  BY <1>1, <1>3
<1> HIDE DEF u
<1> QED BY <1>1, <1>2, <1>3, <1>4, <1>5, <1>6, <1>7, LoopStep DEF u

-----------------------------------------------------------------------------
(* The cursor never looks past the last node.                              *)

\* A finished cube is not built on.
LEMMA BuildOver ==
    ASSUME IInv, Built, Next
    PROVE  FALSE
<1>1. stage = Dims + 1 /\ stage > 0 /\ stage \notin 0 .. Dims /\ stage \notin 1 .. Dims
  BY Sizes DEF Built
<1>2. call = None /\ stack = << >> /\ node = None
  BY <1>1 DEF IInv, Phases, NodeFits
<1> QED BY <1>1, <1>2 DEF Next, SplitTile, NextChild, LeafTile, ReturnTile, OpenNode,
                      EmplacePart, SortNode, EndPass

\* Every step of the build and of a query keeps the invariant.
LEMMA NextQuery ==
    ASSUME QueryInv, [QueryNext]_allVars
    PROVE  QueryInv'
<1>1. CASE Next /\ UNCHANGED queryVars
  <2>1. UNCHANGED <<query, dim, range, found, at, it, inRange>>
    BY <1>1 DEF queryVars
  <2>2. WalkInv'
    BY <1>1, NextWalk DEF QueryInv
  <2>3. ~Built
    BY <1>1, BuildOver DEF QueryInv, WalkInv, TilesInv
  <2>4. query = None /\ dim = 0 /\ found = << >>
    BY <2>3 DEF QueryInv, QueryPhase
  <2>5. ~inRange
    BY <2>4 DEF QueryInv, QueryPhase
  <2>6. QueryPhase'
    BY <2>1, <2>4, <2>5 DEF QueryPhase, QueryInv
  <2>7. dim' \notin 1 .. Dims
    BY <2>1, <2>4
  <2> QED BY <2>2, <2>6, <2>7 DEF QueryInv
<1>2. ASSUME NEW q \in Queries, Ask(q) PROVE QueryInv'
  <2>1. /\ UNCHANGED <<vars, dim, found, at, it, inRange>> /\ Built /\ query = None
        /\ range' = << Labelled(Pivot(0, N), None) >>
    BY <1>2 DEF Ask, cursorVars
  <2>2. dim = 0 /\ found = << >>
    BY <2>1 DEF QueryInv, QueryPhase
  <2>3. ~inRange
    BY <2>2 DEF QueryInv, QueryPhase
  <2>4. WalkInv' /\ Built'
    BY <2>1, CubeStays
  <2>5. QueryPhase'
    BY <2>1, <2>2, <2>3, <2>4 DEF QueryPhase, QueryInv
  <2>6. dim' \notin 1 .. Dims
    BY <2>1, <2>2
  <2> QED BY <2>4, <2>5, <2>6 DEF QueryInv
<1>3. CASE Serialize \/ UNCHANGED allVars
  <2>1. UNCHANGED <<vars, query, dim, range, found, at, it, inRange>>
    BY <1>3 DEF Serialize, cursorVars, allVars, queryVars
  <2>2. WalkInv' /\ (Built' <=> Built) /\ nodes' = nodes /\ interval' = interval
    BY <2>1, CubeStays DEF vars
  <2>3. QueryPhase'
    BY <2>1, <2>2 DEF QueryPhase, QueryInv
  <2>4. ASSUME N > 0, dim \in 1 .. Dims PROVE LoopFits'
    <3>1. LoopFits
      BY <2>4 DEF QueryInv
    <3>2. Evals(query, dim)' <=> Evals(query, dim)
      BY <2>1, <2>2 DEF Evals
    <3> QED BY <2>1, <2>2, <3>1, <3>2 DEF LoopFits
  <2> QED BY <2>1, <2>2, <2>3, <2>4 DEF QueryInv
<1> QED BY <1>1, <1>2, <1>3, QuerySpatialKeeps, SkipDimKeeps, SeekNodeKeeps, VisitNodeKeeps,
           LeaveRangeKeeps, FinishDimKeeps DEF QueryNext, QueryStep

\* Inside the loop the cursor is on a node, which lies in the pivot it is asked for.
LEMMA CursorFollows == QueryInv => CursorOnNode
<1> SUFFICES ASSUME QueryInv, inRange
             PROVE  /\ it \in DOMAIN nodes[dim]
                    /\ nodes[dim][it].front < range[at].back =>
                         Span(nodes[dim][it]) \subseteq Span(range[at])
  BY DEF CursorOnNode
<1>1. dim \in 1 .. Dims /\ N > 0 /\ Built
  BY DEF QueryInv, QueryPhase
<1> DEFINE u == nodes[dim]
<1>2. NodesFit(u) /\ RangeFits(u, range) /\ InPivot(u, range, at, it)
  BY <1>1, BuiltNodes DEF QueryInv, LoopFits
<1>3. /\ it \in DOMAIN u /\ at \in DOMAIN range
      /\ u[it].front \in Int /\ u[it].back \in Int
      /\ range[at].front \in Int /\ range[at].back \in Int
  BY <1>2, AnswerEdges DEF InPivot, NodesFit, RangeFits, Run
<1>4. ASSUME u[it].front < range[at].back PROVE Span(u[it]) \subseteq Span(range[at])
  <2>1. range[at].front <= u[it].front /\ u[it].back <= range[at].back
    BY <1>2, <1>4, NodeInside
  <2> QED BY <1>3, <2>1 DEF Span
<1> QED BY <1>3, <1>4

\* While a dimension is queried node_it is on one of its nodes, and a node that
\* is asked lies inside the pivot of the range it is asked for: the loops of
\* HashedCubeInstances::query and Hashing::nextNode never read past the end of
\* _nodes, whatever is asked, for any dataset, schema and size.
THEOREM CursorHolds == QuerySpec => []CursorOnNode
<1>1. QueryInit => QueryInv
  BY InitQuery
<1>2. QueryInv /\ [QueryNext]_allVars => QueryInv'
  BY NextQuery
<1>3. QueryInv => CursorOnNode
  BY CursorFollows
<1> QED BY <1>1, <1>2, <1>3, PTL DEF QuerySpec

-----------------------------------------------------------------------------
(* The values of a temporal dimension ascend.                              *)

\* v lies within the bounds b of a dimension.
Within(b, v) == b.lower \in Nat /\ b.upper \in Nat /\ b.lower <= v /\ v <= b.upper

\* The parts of a temporal node ascend and lie within the bounds.
PartsAscend(ps, b) ==
    /\ \A i, j \in DOMAIN ps : i < j => ps[i].value < ps[j].value
    /\ \A i \in DOMAIN ps : Within(b, ps[i].value)

\* So do those of a node in its loop, and the values that are left come later.
LoopAscends(n, b) ==
    /\ PartsAscend(n.parts, b)
    /\ \A e \in n.used : /\ Within(b, e.key)
                         /\ \A i \in DOMAIN n.parts : n.parts[i].value < e.key

\* The nodes of temporal dimensions and their interval.
ValuesAscend ==
    /\ \A d \in TemporalDims : \A n \in Range(nodes[d]) : PartsAscend(n.parts, interval[d])
    /\ node # None /\ stage \in TemporalDims => LoopAscends(node, interval[stage])

\* Bounds that grow to cover S keep what they had.
LEMMA CoverGrows ==
    ASSUME NEW b \in [lower : Nat \cup {None}, upper : Nat],
           NEW S \in SUBSET Nat, IsFiniteSet(S), S # {}
    PROVE  /\ \A v \in S : Within(Cover(b, S), v)
           /\ \A v \in Nat : Within(b, v) => Within(Cover(b, S), v)
<1> DEFINE L == S \cup ({b.lower} \ {None})
           U == S \cup {b.upper}
<1>1. /\ L \in SUBSET Nat /\ L # {} /\ U \in SUBSET Nat /\ U # {} /\ IsFiniteSet(U)
  <2>1. IsFiniteSet(U)
    BY FS_AddElement
  <2> QED BY <2>1
<1>2. Min(L) \in L /\ \A v \in L : Min(L) <= v
  <2>1. \E m \in L : \A v \in L : m <= v
    BY <1>1, NatMin, Zenon
  <2> QED BY <2>1, Zenon DEF Min
<1>3. Max(U) \in U /\ \A v \in U : v <= Max(U)
  <2>1. \E m \in U : \A v \in U : v <= m
    BY <1>1, NatMax, Zenon
  <2>2. \E m \in U : \A v \in U : m >= v
    <3> HIDE DEF U
    <3>1. PICK m \in U : \A v \in U : v <= m
      BY <2>1
    <3> QED BY <1>1, <3>1
  <2>3. Max(U) \in U /\ \A v \in U : Max(U) >= v
    BY <2>2, Zenon DEF Max
  <2> HIDE DEF U
  <2> QED BY <1>1, <2>3
<1>4. Cover(b, S).lower = Min(L) /\ Cover(b, S).upper = Max(U)
  BY DEF Cover
<1>5. ASSUME NEW v \in S PROVE Within(Cover(b, S), v)
  <2>1. Min(L) \in Nat /\ Max(U) \in Nat /\ Min(L) <= v /\ v <= Max(U)
    BY <1>1, <1>2, <1>3
  <2> QED BY <1>4, <2>1 DEF Within
<1>6. ASSUME NEW v \in Nat, Within(b, v) PROVE Within(Cover(b, S), v)
  <2>1. b.lower \in L /\ b.upper \in U
    BY <1>6, NoneAssumption DEF Within
  <2>2. Min(L) \in Nat /\ Max(U) \in Nat /\ b.lower \in Nat /\ b.upper \in Nat
    BY <1>1, <1>2, <1>3, <1>6 DEF Within
  <2>3. Min(L) <= b.lower /\ b.upper <= Max(U)
    BY <1>2, <1>3, <2>1
  <2>4. b.lower <= v /\ v <= b.upper
    BY <1>6 DEF Within
  <2> HIDE DEF L, U
  <2>5. Min(L) <= v /\ v <= Max(U)
    BY <2>2, <2>3, <2>4
  <2> QED BY <1>4, <2>2, <2>5 DEF Within
<1> QED BY <1>5, <1>6

\* The parts of the nodes of a dimension.
LEMMA NodeParts ==
    ASSUME IInv, NEW d \in 1 .. Dims, NEW n \in Range(nodes[d])
    PROVE  n.parts \in Seq(Parts) /\ n.front \in 0 .. N /\ n.back \in 0 .. N
<1> DEFINE u == nodes[d]
           T == [front : 0 .. N, back : 0 .. N, parts : Seq(Parts)]
<1>1. u \in Seq(T)
  BY DEF IInv, TypeOK
<1> HIDE DEF u, T
<1>2. \A i \in DOMAIN u : u[i] \in T
  BY <1>1
<1>3. n \in T
  <2>1. n \in {u[i] : i \in DOMAIN u}
    BY Zenon DEF Range, u
  <2> QED BY <1>2, <2>1
<1> QED BY <1>3 DEF T

\* A node starts its loop with its values inside the interval.
LEMMA OpenNodeAscends ==
    ASSUME IInv, ValuesAscend, OpenNode
    PROVE  ValuesAscend'
<1> DEFINE p == current[pos]
           used == Count(Values(p))
           S == {e.key : e \in used}
           n == [front |-> p.front, back |-> p.back, accum |-> p.front,
                 used |-> used, parts |-> << >>]
<1>1. /\ stage' = stage /\ stage \in 1 .. Dims /\ nodes' = nodes
      /\ node' = n /\ node = None /\ pos <= Len(current)
      /\ interval' = IF IsTemporal(stage)
                     THEN [interval EXCEPT ![stage] = Cover(@, S)] ELSE interval
  BY DEF OpenNode
<1>2. CASE ~IsTemporal(stage)
  <2>1. stage' \notin TemporalDims /\ interval' = interval
    BY <1>1, <1>2 DEF TemporalDims
  <2> HIDE DEF n
  <2> QED BY <1>1, <2>1 DEF ValuesAscend
<1>3. CASE IsTemporal(stage)
  <2> DEFINE b == interval[stage]
             c == Cover(b, S)
  <2>1. stage \in TemporalDims /\ b \in [lower : Nat \cup {None}, upper : Nat]
        /\ interval \in [TemporalDims -> [lower : Nat \cup {None}, upper : Nat]]
    BY <1>1, <1>3 DEF TemporalDims, IInv, TypeOK
  <2>2. p.front \in 0 .. N /\ p.back \in 0 .. N /\ p.front < p.back
    <3>1. current \in Seq(Pivots) /\ pos \in Nat \ {0} /\ Chain(current, 0, N)
      BY <1>1, Sizes DEF IInv, TypeOK, ResponseCovers
    <3>2. pos \in DOMAIN current /\ current[pos] \in Pivots
      BY <1>1, <3>1
    <3> QED BY <3>1, <3>2 DEF Pivots, Chain
  <2>3. Values(p) \in [p.front .. p.back - 1 -> Nat]
    <3> HIDE DEF p
    <3> QED BY <1>1, <2>2, NodeValues
  <2>4. S \in SUBSET Nat /\ IsFiniteSet(S) /\ S # {}
    <3> DEFINE f == Values(p)
               D == p.front .. p.back - 1
    <3>1. f \in [D -> Nat] /\ D # {} /\ p.front \in Int /\ p.back \in Int
      <4>1. p.front \in Int /\ p.back \in Int
        BY <2>2, Sizes
      <4> HIDE DEF p
      <4> QED BY <2>2, <2>3, <4>1
    <3>2. IsFiniteSet(S)
      <4>1. p.front <= p.back /\ p.front \in Int /\ p.back \in Int
        BY <2>2, <3>1, Sizes
      <4> HIDE DEF p, f
      <4>2. Counts(Count(f), p.back - p.front)
        BY <3>1, <4>1, CountsInitially
      <4>3. IsFiniteSet({e.key : e \in Count(f)})
        BY <4>2, KeysFinite
      <4> QED BY <4>3 DEF f
    <3>3. S = {f[i] : i \in D}
      <4>1. DOMAIN f = D
        BY <3>1
      <4> HIDE DEF f, D
      <4>2. ASSUME NEW i \in D PROVE \E e \in Count(f) : e.key = f[i]
        <5> DEFINE e == [key |-> f[i], count |-> Cardinality({j \in DOMAIN f : f[j] = f[i]})]
        <5>1. e \in Count(f) /\ e.key = f[i]
          BY <4>1, Zenon DEF Count
        <5> QED BY <5>1
      <4>3. ASSUME NEW e \in Count(f) PROVE \E i \in D : f[i] = e.key
        BY <4>1, CountWithout
      <4>4. S = {e.key : e \in Count(f)}
        BY DEF f
      <4> HIDE DEF S
      <4> QED BY <4>2, <4>3, <4>4
    <3> HIDE DEF f, D, S
    <3> QED BY <3>1, <3>2, <3>3
  <2> HIDE DEF S
  <2>5. /\ \A v \in S : Within(c, v)
        /\ \A v \in Nat : Within(b, v) => Within(c, v)
    BY <2>1, <2>4, CoverGrows
  <2>6. /\ interval'[stage] = c
        /\ \A d \in TemporalDims : d # stage => interval'[d] = interval[d]
    BY <1>1, <1>3, <2>1
  <2> HIDE DEF b, c
  <2>7. ASSUME NEW d \in TemporalDims, NEW m \in Range(nodes[d])
        PROVE  PartsAscend(m.parts, interval'[d])
    <3>1. PartsAscend(m.parts, interval[d])
      BY DEF ValuesAscend
    <3>2. CASE d # stage
      BY <2>6, <3>1, <3>2
    <3>3. CASE d = stage
      <4>1. \A i \in DOMAIN m.parts : m.parts[i].value \in Nat
        <5> DEFINE u == m.parts
        <5>1. u \in Seq(Parts)
          BY NodeParts DEF TemporalDims
        <5> HIDE DEF u
        <5>2. \A i \in DOMAIN u : u[i] \in Parts
          BY <5>1
        <5>3. \A x \in Parts : x.value \in Nat
          BY DEF Parts
        <5> QED BY <5>2, <5>3 DEF u
      <4>2. PartsAscend(m.parts, b)
        BY <3>1, <3>3 DEF b
      <4>3. PartsAscend(m.parts, c)
        BY <2>5, <4>1, <4>2 DEF PartsAscend
      <4> QED BY <2>6, <3>3, <4>3
    <3> QED BY <3>2, <3>3
  <2>8. LoopAscends(n, c)
    <3>1. n.parts = << >> /\ n.used = used
      OBVIOUS
    <3>2. \A e \in used : e.key \in S
      BY DEF S
    <3> HIDE DEF n, used
    <3>3. DOMAIN n.parts = {}
      BY <3>1
    <3> QED BY <2>5, <3>1, <3>2, <3>3 DEF LoopAscends, PartsAscend
  <2> HIDE DEF n
  <2> QED BY <1>1, <2>1, <2>6, <2>7, <2>8 DEF ValuesAscend
<1> QED BY <1>2, <1>3

\* A turn of the loop takes the least value that is left.
LEMMA EmplacePartAscends ==
    ASSUME IInv, PartsCounted, ValuesAscend, EmplacePart
    PROVE  ValuesAscend'
<1> DEFINE entry == CHOOSE e \in node.used : \A g \in node.used : e.key <= g.key
           part == [front |-> node.accum, back |-> node.accum + entry.count,
                    value |-> LabelOf(entry.key, stage)]
           n == [node EXCEPT !.accum = node.accum + entry.count, !.used = @ \ {entry},
                             !.parts = Append(@, part)]
<1>1. /\ node # None /\ node.used # {} /\ node' = n
      /\ stage' = stage /\ nodes' = nodes /\ interval' = interval
  BY DEF EmplacePart
<1> SUFFICES ASSUME stage \in TemporalDims
             PROVE  LoopAscends(n, interval[stage])
  <2> HIDE DEF n
  <2> QED BY <1>1 DEF ValuesAscend
<1>2. /\ node \in Nodes /\ node.parts \in Seq(Parts)
      /\ node.used \in SUBSET [key : Nat, count : Nat \ {0}]
  BY <1>1 DEF IInv, TypeOK, NodeFits, Nodes, UsedMaps
<1>3. entry \in node.used /\ \A g \in node.used : entry.key <= g.key
  <2>1. \E e \in node.used : \A g \in node.used : e.key <= g.key
    BY <1>1, <1>2, FirstValue, Zenon
  <2> QED BY <2>1, Zenon
<1>4. ASSUME NEW g \in node.used, g # entry PROVE g.key > entry.key
  <2>0. SUFFICES g.key # entry.key
    <3>1. g.key \in Nat /\ entry.key \in Nat /\ entry.key <= g.key
      BY <1>2, <1>3
    <3> HIDE DEF entry
    <3> QED BY <3>1
  <2>1. PICK w \in Nat : node.used = {e \in Count(Values(node)) : e.key >= w}
    BY <1>1 DEF PartsCounted, NodeCounts
  <2> DEFINE f == Values(node)
  <2>2. g \in Count(f) /\ entry \in Count(f)
    BY <1>3, <1>4, <2>1
  <2> HIDE DEF f, entry
  <2>3. \A e \in Count(f) :
          e = [key |-> e.key, count |-> Cardinality({i \in DOMAIN f : f[i] = e.key})]
    BY CountWithout
  <2> QED BY <1>4, <2>2, <2>3, Zenon
<1> HIDE DEF entry
<1>5. part.value = entry.key
  BY DEF LabelOf, TemporalDims
<1> HIDE DEF part
<1>6. /\ n.used = node.used \ {entry} /\ n.parts = Append(node.parts, part)
  BY <1>2 DEF Nodes
<1> DEFINE u == node.parts
           v == n.parts
           b == interval[stage]
<1>7. /\ \A i \in DOMAIN v : \/ i \in DOMAIN u /\ v[i] = u[i]
                             \/ i = Len(u) + 1 /\ v[i] = part
      /\ \A i \in DOMAIN u : i < Len(u) + 1 /\ i \in Nat
      /\ Len(u) \in Nat
      /\ \A i \in DOMAIN u : u[i].value \in Nat
  <2> DEFINE w == node.parts
  <2>1. w \in Seq(Parts) /\ v = Append(w, part)
    BY <1>2, <1>6
  <2> HIDE DEF w, v
  <2>2. \A i \in DOMAIN w : w[i] \in Parts
    BY <2>1
  <2> QED BY <2>1, <2>2 DEF w, Parts
<1>8. LoopAscends(node, b)
  BY <1>1 DEF ValuesAscend
<1>9. \A g \in node.used : g.key \in Nat
  BY <1>2
<1> DEFINE used == node.used
<1>10. /\ \A i, j \in DOMAIN u : i < j => u[i].value < u[j].value
       /\ \A i \in DOMAIN u : Within(b, u[i].value)
       /\ \A e \in used : Within(b, e.key) /\ \A i \in DOMAIN u : u[i].value < e.key
  BY <1>8 DEF LoopAscends, PartsAscend
<1>11. \A g \in used : g.key \in Nat
  BY <1>9
<1> HIDE DEF n, u, v, b
<1>12. entry \in used /\ \A e \in used \ {entry} : e.key > entry.key
  BY <1>3, <1>4
<1> HIDE DEF used
<1>13. \A i, j \in DOMAIN v : i < j => v[i].value < v[j].value
  <2> SUFFICES ASSUME NEW i \in DOMAIN v, NEW j \in DOMAIN v, i < j
               PROVE  v[i].value < v[j].value
    OBVIOUS
  <2>1. CASE j \in DOMAIN u /\ v[j] = u[j]
    <3>1. i \in DOMAIN u /\ v[i] = u[i]
      BY <1>7, <2>1
    <3> QED BY <1>10, <2>1, <3>1
  <2>2. CASE j = Len(u) + 1 /\ v[j] = part
    <3>1. i \in DOMAIN u /\ v[i] = u[i]
      BY <1>7, <2>2
    <3> QED BY <1>5, <1>10, <1>12, <2>2, <3>1
  <2> QED BY <1>7, <2>1, <2>2
<1>14. \A i \in DOMAIN v : Within(b, v[i].value)
  BY <1>5, <1>7, <1>10, <1>12
<1>15. \A e \in used \ {entry} : Within(b, e.key) /\ \A i \in DOMAIN v : v[i].value < e.key
  BY <1>5, <1>7, <1>10, <1>12
<1>16. PartsAscend(v, b)
  BY <1>13, <1>14 DEF PartsAscend
<1>17. n.parts = v /\ n.used = used \ {entry}
  BY <1>6 DEF v, used
<1>18. LoopAscends(n, b)
  BY <1>15, <1>16, <1>17, Zenon DEF LoopAscends
<1> QED BY <1>18 DEF b

\* A node that is done joins the others.
LEMMA SortNodeAscends ==
    ASSUME IInv, ValuesAscend, SortNode
    PROVE  ValuesAscend'
<1> DEFINE T == [front : 0 .. N, back : 0 .. N, parts : Seq(Parts)]
           m == [front |-> node.front, back |-> node.back, parts |-> node.parts]
<1>1. /\ node # None /\ node' = None /\ interval' = interval
      /\ nodes' = [nodes EXCEPT ![stage] = Append(@, m)]
  BY DEF SortNode
<1>2. nodes \in [1 .. Dims -> Seq(T)] /\ stage \in 1 .. Dims
  BY <1>1 DEF IInv, TypeOK, NodeFits
<1>3. nodes'[stage] = Append(nodes[stage], m) /\ nodes[stage] \in Seq(T)
      /\ \A d \in 1 .. Dims : d # stage => nodes'[d] = nodes[d]
  BY <1>1, <1>2
<1> DEFINE u == nodes[stage]
<1>4. \A n \in Range(Append(u, m)) : n \in Range(u) \/ n = m
  <2> HIDE DEF u, m, T
  <2>1. u \in Seq(T)
    BY <1>3 DEF u
  <2>2. ASSUME NEW i \in DOMAIN Append(u, m)
        PROVE  Append(u, m)[i] \in Range(u) \/ Append(u, m)[i] = m
    <3>1. (i \in DOMAIN u /\ Append(u, m)[i] = u[i]) \/ Append(u, m)[i] = m
      BY <2>1
    <3> QED BY <3>1 DEF Range
  <2> QED BY <2>2, Zenon DEF Range
<1>5. m.parts = node.parts
  OBVIOUS
<1> HIDE DEF T, m
<1>6. ASSUME NEW d \in TemporalDims, NEW n \in Range(nodes'[d])
      PROVE  PartsAscend(n.parts, interval'[d])
  <2>1. d \in 1 .. Dims
    BY DEF TemporalDims
  <2>2. CASE n \in Range(nodes[d])
    BY <1>1, <2>2 DEF ValuesAscend
  <2>3. CASE n = m /\ d = stage
    BY <1>1, <1>5, <2>3 DEF ValuesAscend, LoopAscends
  <2> QED BY <1>3, <1>4, <2>1, <2>2, <2>3 DEF u
<1> QED BY <1>1, <1>6 DEF ValuesAscend

\* The build keeps the values of its parts in order.
LEMMA InitValuesAscend ==
    ASSUME Init
    PROVE  ValuesAscend
<1>1. \A d \in TemporalDims : nodes[d] = << >>
  BY DEF Init, TemporalDims
<1>2. \A d \in TemporalDims : Range(nodes[d]) = {}
  BY <1>1 DEF Range
<1>3. node = None
  BY DEF Init
<1> QED BY <1>2, <1>3 DEF ValuesAscend

\* So does every step of it.
LEMMA NextValuesAscend ==
    ASSUME IInv, PartsCounted, ValuesAscend, [Next]_vars
    PROVE  ValuesAscend'
<1>1. CASE SplitTile \/ NextChild \/ LeafTile \/ ReturnTile \/ UNCHANGED vars
  <2>1. node' = node /\ nodes' = nodes /\ interval' = interval /\ stage' = stage
    BY <1>1 DEF SplitTile, NextChild, LeafTile, ReturnTile, nodeVars, vars
  <2> QED BY <2>1 DEF ValuesAscend
<1>2. CASE EndPass
  <2>1. node' = None /\ nodes' = nodes /\ interval' = interval
    BY <1>2 DEF EndPass
  <2> QED BY <2>1 DEF ValuesAscend
<1> QED BY <1>1, <1>2, OpenNodeAscends, EmplacePartAscends, SortNodeAscends DEF Next

-----------------------------------------------------------------------------
(* What the dimensions let through.                                        *)

\* The positions of the pivots of s.
Held(s) == UNION {Span(p) : p \in Range(s)}

\* The position of a record that passes what query q asks of dimension d; on the
\* upper bound of an interval, as closed says.
Admits(q, d, closed, i) ==
    LET v == ValueOf(data[index[i]], d)
    IN  IF IsTemporal(d)
        THEN q.tseries[d] # None =>
               /\ q.tseries[d].lower <= v
               /\ v < q.tseries[d].upper \/ (closed /\ v = q.tseries[d].upper)
        ELSE q.where[d] # None => v \in q.where[d]

\* Every label stands for one value.
LabelsTellApart ==
    \A d \in 1 .. Dims : ~IsTemporal(d) =>
        \A r \in Records : ValueOf(data[r], d) < LabelMod

\* The parts of a node hold the records of their values, and all of the node.
NodeSplit(d, n) ==
    /\ Chain(n.parts, n.front, n.back)
    /\ n.parts \in Seq(Parts)
    /\ n.front \in 0 .. N /\ n.back \in 0 .. N /\ n.front < n.back
    /\ \A j \in DOMAIN n.parts : \A i \in Span(n.parts[j]) :
         ValueOf(data[index[i]], d) = n.parts[j].value
    /\ IsTemporal(d) => PartsAscend(n.parts, interval[d])

\* The interval of a query is one of numbers.
Asks(q, d) == IsTemporal(d) /\ q.tseries[d] # None =>
                q.tseries[d].lower \in Int /\ q.tseries[d].upper \in Int

\* What is known of the nodes of a finished cube.
LEMMA NodesSplit ==
    ASSUME WalkInv, Built, ValuesAscend, PartsHoldTheirRecords, LabelsTellApart,
           NEW d \in 1 .. Dims, NEW n \in Range(nodes[d])
    PROVE  NodeSplit(d, n)
<1>1. d \in 1 .. stage - 1
  BY Sizes DEF Built
<1>2. PICK k \in DOMAIN nodes[d] : n = nodes[d][k]
  BY <1>1, DimNodes
<1>3. /\ n.parts \in Seq(Parts) /\ Chain(n.parts, n.front, n.back)
      /\ n.front \in 0 .. N /\ n.back \in 0 .. N /\ n.front < n.back
  BY <1>1, <1>2, DimNodes
<1>4. IsTemporal(d) => PartsAscend(n.parts, interval[d])
  BY DEF ValuesAscend, TemporalDims
<1>5. ASSUME NEW j \in DOMAIN n.parts, NEW i \in Span(n.parts[j])
      PROVE  ValueOf(data[index[i]], d) = n.parts[j].value
  <2> DEFINE p == n.parts[j]
             v == ValueOf(data[index[i]], d)
  <2>1. p \in Range(n.parts)
    BY DEF Range
  <2>2. index[i] \in RecordsOf(p)
    BY DEF RecordsOf
  <2>3. LabelOf(v, d) = p.value
    BY <2>1, <2>2, Zenon DEF PartsHoldTheirRecords
  <2>4. CASE IsTemporal(d)
    BY <2>3, <2>4 DEF LabelOf
  <2>5. CASE ~IsTemporal(d)
    <3>1. p \in Parts
      <4> DEFINE u == n.parts
      <4>1. u \in Seq(Parts)
        BY <1>3
      <4> HIDE DEF u
      <4>2. \A x \in DOMAIN u : u[x] \in Parts
        BY <4>1
      <4> QED BY <4>2 DEF u
    <3>2. p.front \in 0 .. N /\ p.back \in 0 .. N
      BY <3>1 DEF Parts
    <3>3. i \in Records
      <4> HIDE DEF p
      <4>1. i \in p.front .. p.back - 1
        BY DEF Span, p
      <4> QED BY <3>2, <4>1, InRecords
    <3>4. index[i] \in Records /\ data[index[i]] \in Record
      BY <3>3, PlacedRecord DEF WalkInv, TilesInv, IInv, TypeOK
    <3>5. v \in Nat /\ v < LabelMod
      BY <2>5, <3>4, ValueType DEF LabelsTellApart
    <3> HIDE DEF v
    <3>6. v % LabelMod = v
      <4>1. LabelMod \in Nat \ {0}
        BY CubeAssumption
      <4> QED BY <3>5, <4>1
    <3> QED BY <2>3, <2>5, <3>6 DEF LabelOf, v
  <2> QED BY <2>4, <2>5
<1> QED BY <1>3, <1>4, <1>5 DEF NodeSplit

\* A position of a node is in one of its parts, which lie in the node.
LEMMA SplitCovers ==
    ASSUME NEW d, NEW n, NodeSplit(d, n)
    PROVE  /\ \A i \in Span(n) : \E j \in DOMAIN n.parts : i \in Span(n.parts[j])
           /\ \A j \in DOMAIN n.parts : Span(n.parts[j]) \subseteq Span(n)
           /\ \A p \in Range(n.parts) : \E j \in DOMAIN n.parts : p = n.parts[j]
           /\ DOMAIN n.parts = 1 .. Len(n.parts) /\ Len(n.parts) \in Nat
           /\ \A j \in DOMAIN n.parts : n.parts[j].value \in Nat
           /\ n.parts # << >>
<1> DEFINE u == n.parts
           a == n.front
           b == n.back
<1>1. u \in Seq(Parts) /\ Chain(u, a, b) /\ a \in 0 .. N /\ b \in 0 .. N /\ a < b
  BY DEF NodeSplit
<1>2. \A x \in Parts : x.front \in Int /\ x.back \in Int /\ x.value \in Nat
  BY Sizes DEF Parts
<1>3. a \in Int /\ b \in Int
  BY <1>1, Sizes
<1>4. Span(n) = a .. b - 1
  BY DEF Span
<1> HIDE DEF u, a, b
<1>5. /\ DOMAIN u = 1 .. Len(u) /\ Len(u) \in Nat
      /\ \A j \in DOMAIN u : u[j] \in Parts
      /\ \A p \in Range(u) : \E j \in DOMAIN u : p = u[j]
  BY <1>1, SeqRange
<1>6. \A i \in a .. b - 1 : \E j \in DOMAIN u : i \in Span(u[j])
  BY <1>1, <1>2, <1>3, ChainCovers
<1>7. \A j \in DOMAIN u : a <= u[j].front /\ u[j].back <= b
  <2>1. \A j \in DOMAIN u : u[j].front < u[j].back
    BY <1>1 DEF Chain
  <2> QED BY <1>1, <1>2, <1>3, <2>1, ChainAscends
<1>8. \A j \in DOMAIN u : Span(u[j]) \subseteq a .. b - 1
  BY <1>2, <1>3, <1>5, <1>7 DEF Span
<1>9. u # << >>
  BY <1>1 DEF Chain
<1>10. \A j \in DOMAIN u : u[j].value \in Nat
  BY <1>2, <1>5
<1> QED BY <1>4, <1>5, <1>6, <1>8, <1>9, <1>10 DEF u

\* The positions a node keeps for some values.
LEMMA KeptHolds ==
    ASSUME NEW d, NEW n, NodeSplit(d, n), NEW V
    PROVE  Held(Kept(n.parts, V)) = {i \in Span(n) : ValueOf(data[index[i]], d) \in V}
<1> DEFINE u == n.parts
           val(i) == ValueOf(data[index[i]], d)
<1>1. u \in Seq(Parts) /\ Ascending(u)
  <2>1. u \in Seq(Parts) /\ Chain(u, n.front, n.back) /\ n.front \in Int /\ n.back \in Int
    BY Sizes DEF NodeSplit
  <2>2. \A x \in Parts : x.front \in Int /\ x.back \in Int
    BY Sizes DEF Parts
  <2> HIDE DEF u
  <2>3. \A j \in DOMAIN u : u[j].front < u[j].back
    BY <2>1 DEF Chain
  <2> QED BY <2>1, <2>2, <2>3, ChainAscends DEF Ascending
<1>2. Range(Kept(u, V)) = {p \in Range(u) : p.value \in V}
  BY <1>1, KeptAscends
<1>3. /\ \A i \in Span(n) : \E j \in DOMAIN u : i \in Span(u[j])
      /\ \A j \in DOMAIN u : Span(u[j]) \subseteq Span(n)
      /\ \A p \in Range(u) : \E j \in DOMAIN u : p = u[j]
      /\ \A j \in DOMAIN u : u[j] \in Range(u)
  <2>1. \A j \in DOMAIN u : u[j] \in Range(u)
    BY DEF Range
  <2> QED BY <2>1, SplitCovers
<1>4. \A j \in DOMAIN u : \A i \in Span(u[j]) : val(i) = u[j].value
  BY DEF NodeSplit
<1> HIDE DEF u, val
<1>5. ASSUME NEW i \in Held(Kept(u, V)) PROVE i \in Span(n) /\ val(i) \in V
  <2>1. PICK p \in Range(Kept(u, V)) : i \in Span(p)
    BY <1>5, Zenon DEF Held
  <2>2. PICK j \in DOMAIN u : p = u[j]
    BY <1>2, <1>3, <2>1
  <2> QED BY <1>2, <1>3, <1>4, <2>1, <2>2
<1>6. ASSUME NEW i \in Span(n), val(i) \in V PROVE i \in Held(Kept(u, V))
  <2>1. PICK j \in DOMAIN u : i \in Span(u[j])
    BY <1>3
  <2>2. u[j] \in Range(Kept(u, V))
    BY <1>2, <1>3, <1>4, <1>6, <2>1
  <2> QED BY <2>1, <2>2, Zenon DEF Held
<1> QED BY <1>5, <1>6 DEF val, u

\* All of the positions.
LEMMA PartsHoldNode ==
    ASSUME NEW d, NEW n, NodeSplit(d, n)
    PROVE  Held(n.parts) = Span(n)
<1> DEFINE u == n.parts
<1>1. /\ \A i \in Span(n) : \E j \in DOMAIN u : i \in Span(u[j])
      /\ \A j \in DOMAIN u : Span(u[j]) \subseteq Span(n)
      /\ \A p \in Range(u) : \E j \in DOMAIN u : p = u[j]
      /\ \A j \in DOMAIN u : u[j] \in Range(u)
  <2>1. \A j \in DOMAIN u : u[j] \in Range(u)
    BY DEF Range
  <2> QED BY <2>1, SplitCovers
<1> HIDE DEF u
<1>2. \A i \in Held(u) : i \in Span(n)
  <2> TAKE i \in Held(u)
  <2>1. PICK p \in Range(u) : i \in Span(p)
    BY Zenon DEF Held
  <2> QED BY <1>1, <2>1
<1>3. \A i \in Span(n) : i \in Held(u)
  <2> TAKE i \in Span(n)
  <2>1. PICK j \in DOMAIN u : i \in Span(u[j])
    BY <1>1
  <2> QED BY <1>1, <2>1, Zenon DEF Held
<1> QED BY <1>2, <1>3 DEF u

\* What a node is asked for is what passes, with one value more at most: that of
\* the upper bound.
LEMMA SelectAdmits ==
    ASSUME NEW d, NEW n, NodeSplit(d, n), NEW q, Asks(q, d), Evals(q, d)
    PROVE  /\ \A i \in Span(n) : Admits(q, d, FALSE, i) => i \in Held(Select(q, d, n))
           /\ \A i \in Held(Select(q, d, n)) : i \in Span(n) /\ Admits(q, d, TRUE, i)
<1> DEFINE u == n.parts
           val(i) == ValueOf(data[index[i]], d)
<1>1. Held(u) = Span(n)
  BY PartsHoldNode
<1>2. CASE ~IsTemporal(d)
  <2>1. Select(q, d, n) = IF q.where[d] # None THEN Kept(u, q.where[d]) ELSE u
    BY <1>2 DEF Select, SelectCategorical
  <2>2. \A i : /\ Admits(q, d, FALSE, i) <=> (q.where[d] # None => val(i) \in q.where[d])
               /\ Admits(q, d, TRUE, i) <=> (q.where[d] # None => val(i) \in q.where[d])
    BY <1>2 DEF Admits
  <2>3. Held(Kept(u, q.where[d])) = {i \in Span(n) : val(i) \in q.where[d]}
    BY KeptHolds
  <2> HIDE DEF u, val
  <2> QED BY <1>1, <2>1, <2>2, <2>3
<1>3. CASE IsTemporal(d)
  <2> DEFINE lo == q.tseries[d].lower
             up == q.tseries[d].upper
             first == u[1].value
             final == u[Len(u)].value
  <2>1. lo \in Int /\ up \in Int /\ q.tseries[d] # None
    BY <1>3 DEF Asks, Evals
  <2>2. /\ \A i \in Span(n) : val(i) \in Nat /\ first <= val(i) /\ val(i) <= final
        /\ first \in Nat /\ final \in Nat
    <3>1. /\ \A i \in Span(n) : \E j \in DOMAIN u : i \in Span(u[j])
          /\ DOMAIN u = 1 .. Len(u) /\ Len(u) \in Nat
          /\ \A j \in DOMAIN u : u[j].value \in Nat
          /\ u # << >> /\ u \in Seq(Parts)
      <4>1. u \in Seq(Parts)
        BY DEF NodeSplit
      <4> HIDE DEF u
      <4> QED BY <4>1, SplitCovers DEF u
    <3>2. \A j \in DOMAIN u : \A i \in Span(u[j]) : val(i) = u[j].value
      BY DEF NodeSplit
    <3>3. \A i, j \in DOMAIN u : i < j => u[i].value < u[j].value
      BY <1>3 DEF NodeSplit, PartsAscend
    <3> HIDE DEF u, val
    <3>4. 1 \in DOMAIN u /\ Len(u) \in DOMAIN u
      BY <3>1
    <3> SUFFICES ASSUME NEW i \in Span(n)
                 PROVE  val(i) \in Nat /\ first <= val(i) /\ val(i) <= final
      BY <3>1, <3>4
    <3>5. PICK j \in DOMAIN u : i \in Span(u[j])
      BY <3>1
    <3>6. val(i) = u[j].value
      BY <3>2, <3>5
    <3>7. first <= u[j].value
      <4>1. CASE j = 1
        BY <3>1, <4>1
      <4>2. CASE j # 1
        <5>1. first < u[j].value
          BY <3>1, <3>3, <3>4, <4>2
        <5> QED BY <3>1, <3>4, <5>1
      <4> QED BY <4>1, <4>2
    <3>8. u[j].value <= final
      <4>1. CASE j = Len(u)
        BY <3>1, <4>1
      <4>2. CASE j # Len(u)
        <5>1. u[j].value < final
          BY <3>1, <3>3, <3>4, <4>2
        <5> QED BY <3>1, <3>4, <5>1
      <4> QED BY <4>1, <4>2
    <3> QED BY <3>1, <3>6, <3>7, <3>8
  <2>3. Select(q, d, n) =
          IF lo <= first /\ up >= final
          THEN IF q.type = "TSERIES" THEN u ELSE << Labelled(n, None) >>
          ELSE IF lo <= final /\ up >= first THEN Kept(u, lo .. up - 1)
          ELSE << >>
    BY <1>3 DEF Select, SelectTemporal
  <2>4. /\ \A i : Admits(q, d, FALSE, i) <=> lo <= val(i) /\ val(i) < up
        /\ \A i : Admits(q, d, TRUE, i) <=> lo <= val(i) /\ (val(i) < up \/ val(i) = up)
    BY <1>3, <2>1 DEF Admits
  <2>5. /\ Held(Kept(u, lo .. up - 1)) = {i \in Span(n) : val(i) \in lo .. up - 1}
        /\ Held(<< >>) = {}
        /\ Held(<< Labelled(n, None) >>) = Span(n)
    <3>1. Held(<< >>) = {}
      BY DEF Held, Range
    <3>2. Span(Labelled(n, None)) = Span(n)
      BY DEF Span, Labelled
    <3> DEFINE x == Labelled(n, None)
    <3> HIDE DEF x
    <3>3. Range(<< x >>) = {x}
      BY DEF Range
    <3>4. Held(<< x >>) = Span(x)
      BY <3>3 DEF Held
    <3>5. Held(Kept(u, lo .. up - 1)) = {i \in Span(n) : val(i) \in lo .. up - 1}
      BY KeptHolds
    <3> HIDE DEF u, lo, up, val
    <3> QED BY <3>1, <3>2, <3>4, <3>5 DEF x
  <2> DEFINE s == Select(q, d, n)
  <2>6. \/ lo <= first /\ up >= final /\ Held(s) = Span(n)
        \/ /\ ~(lo <= first /\ up >= final)
           /\ lo <= final /\ up >= first
           /\ Held(s) = {i \in Span(n) : val(i) \in lo .. up - 1}
        \/ ~(lo <= final /\ up >= first) /\ Held(s) = {}
    <3> HIDE DEF u, val, lo, up, first, final, s
    <3> QED BY <1>1, <2>3, <2>5 DEF s
  <2> HIDE DEF u, val, lo, up, first, final, s
  <2>7. ASSUME NEW i \in Span(n), Admits(q, d, FALSE, i) PROVE i \in Held(s)
    <3>1. lo <= val(i) /\ val(i) < up /\ val(i) \in Nat /\ first <= val(i) /\ val(i) <= final
      BY <2>2, <2>4, <2>7
    <3>2. lo <= final /\ up >= first
      BY <2>1, <2>2, <3>1
    <3>3. val(i) \in lo .. up - 1
      BY <2>1, <3>1
    <3> QED BY <2>6, <3>2, <3>3
  <2>8. ASSUME NEW i \in Held(s) PROVE i \in Span(n) /\ Admits(q, d, TRUE, i)
    <3>1. i \in Span(n)
      BY <2>6
    <3>2. val(i) \in Nat /\ first <= val(i) /\ val(i) <= final
      BY <2>2, <3>1
    <3>3. lo <= val(i) /\ (val(i) < up \/ val(i) = up)
      BY <2>1, <2>2, <2>6, <3>2
    <3> QED BY <2>4, <3>1, <3>3
  <2> QED BY <2>7, <2>8 DEF s
<1> QED BY <1>2, <1>3

\* A dimension that is left out lets everything through.
LEMMA SkipAdmits ==
    ASSUME NEW d, NEW n, NodeSplit(d, n), NEW q, Asks(q, d),
           ~Evals(q, d), q.type = "SCATTER" /\ IsTemporal(d) => q.tseries[d] = None
    PROVE  \A i \in Span(n) : Admits(q, d, TRUE, i)
<1> DEFINE u == n.parts
           val(i) == ValueOf(data[index[i]], d)
<1>1. CASE ~IsTemporal(d)
  BY <1>1 DEF Evals, Admits
<1>2. CASE IsTemporal(d) /\ q.tseries[d] = None
  BY <1>2 DEF Admits
<1>3. CASE IsTemporal(d) /\ q.tseries[d] # None
  <2> DEFINE lo == q.tseries[d].lower
             up == q.tseries[d].upper
             b == interval[d]
  <2>1. lo \in Int /\ up \in Int
    BY <1>3 DEF Asks
  <2>2. lo <= b.lower /\ up >= b.upper
    BY <1>3 DEF Evals
  <2>3. \A i : Admits(q, d, TRUE, i) <=> lo <= val(i) /\ (val(i) < up \/ val(i) = up)
    BY <1>3 DEF Admits
  <2> SUFFICES ASSUME NEW i \in Span(n)
               PROVE  lo <= val(i) /\ (val(i) < up \/ val(i) = up)
    BY <2>3
  <2>4. PICK j \in DOMAIN u : i \in Span(u[j])
    BY SplitCovers
  <2>5. val(i) = u[j].value /\ u[j].value \in Nat
    BY <2>4, SplitCovers DEF NodeSplit
  <2>6. Within(b, u[j].value)
    BY <1>3 DEF NodeSplit, PartsAscend
  <2>7. b.upper \in Int
    BY <2>6 DEF Within
  <2> HIDE DEF lo, up, b, val, u
  <2> QED BY <2>1, <2>2, <2>5, <2>6, <2>7 DEF Within
<1> QED BY <1>1, <1>2, <1>3

-----------------------------------------------------------------------------
(* What the loop over the nodes of a dimension finds.                      *)

\* Where the nodes from the i-th on start.
Reached(ns, i) == IF i \in DOMAIN ns THEN ns[i].front ELSE N

\* In the loop of a dimension: what was found is of the range and passes (high);
\* all that passes (low) was found up to the node the cursor is at; the pivots
\* of the range that are done lie before.
LoopFinds(ns, r, f, i, a, low, high) ==
    /\ \A x \in Held(f) : x \in Held(r) /\ x \in high
    /\ \A x \in Held(r) : x < Reached(ns, i) /\ x \in low => x \in Held(f)
    /\ \A b \in DOMAIN r : b < a => r[b].back <= Reached(ns, i)

\* A position of a range is in one of its pivots.
LEMMA HeldIn ==
    ASSUME NEW r \in Seq(Answers), NEW x \in Held(r)
    PROVE  /\ x \in Int /\ 0 <= x /\ x < N
           /\ \E b \in DOMAIN r : /\ b \in Nat
                                  /\ r[b].front \in Int /\ r[b].back \in Int
                                  /\ r[b].front <= x /\ x < r[b].back
<1>1. PICK p \in Range(r) : x \in Span(p)
  BY Zenon DEF Held
<1>2. PICK b \in DOMAIN r : p = r[b]
  BY <1>1, SeqRange
<1>3. p \in Answers /\ b \in Nat
  BY <1>1, <1>2, SeqRange
<1>4. p.front \in 0 .. N /\ p.back \in 0 .. N
  BY <1>3 DEF Answers
<1>5. x \in p.front .. p.back - 1
  BY <1>1 DEF Span
<1> QED BY <1>2, <1>3, <1>4, <1>5, Sizes

\* What two sequences hold.
LEMMA ConcatHolds ==
    ASSUME NEW S, NEW s \in Seq(S), NEW t \in Seq(S)
    PROVE  Held(s \o t) = Held(s) \cup Held(t)
<1>1. Range(s \o t) = Range(s) \cup Range(t)
  BY ConcatRange
<1> QED BY <1>1, Zenon DEF Held

\* The next pivot starts behind those before, and so does the node sought.
LEMMA SeekFinds ==
    ASSUME NEW ns, NodesFit(ns), NEW r, RangeFits(ns, r), NEW f, NEW i \in DOMAIN ns,
           NEW a \in DOMAIN r, NEW low, NEW high, LoopFinds(ns, r, f, i, a, low, high),
           NEW j \in DOMAIN ns, ns[j].front = r[a].front
    PROVE  LoopFinds(ns, r, f, j, a, low, high)
<1>1. r \in Seq(Answers) /\ Ascending(r)
  BY DEF RangeFits, Run
<1>2. Reached(ns, j) = r[a].front /\ r[a].front \in Int /\ r[a].back \in Int /\ a \in Nat
  BY <1>1, AnswerEdges DEF Reached
<1>3. r[a].front < r[a].back
  BY <1>1, AnswerEdges DEF RangeFits, Run
<1>4. Reached(ns, i) \in Int
  BY DEF Reached, NodesFit
<1>5. ASSUME NEW x \in Held(r), x < r[a].front, x \in low PROVE x \in Held(f)
  <2>1. PICK b \in DOMAIN r : /\ b \in Nat /\ x \in Int
                              /\ r[b].front \in Int /\ r[b].back \in Int
                              /\ r[b].front <= x /\ x < r[b].back
    BY <1>1, HeldIn
  <2>2. b < a
    <3>1. ~(a < b)
      <4> SUFFICES ASSUME a < b PROVE FALSE
        OBVIOUS
      <4>1. r[a].back <= r[b].front
        BY <1>1 DEF Ascending
      <4> QED BY <1>2, <1>3, <1>5, <2>1, <4>1
    <3>2. a # b
      BY <1>2, <1>5, <2>1
    <3> QED BY <1>2, <2>1, <3>1, <3>2
  <2>3. r[b].back <= Reached(ns, i)
    BY <2>2 DEF LoopFinds
  <2>4. x < Reached(ns, i)
    BY <1>4, <2>1, <2>3
  <2> QED BY <1>5, <2>4 DEF LoopFinds
<1>6. ASSUME NEW b \in DOMAIN r, b < a PROVE r[b].back <= r[a].front
  BY <1>1, <1>6 DEF Ascending
<1> QED BY <1>2, <1>5, <1>6 DEF LoopFinds

\* A node inside the pivot is asked.
LEMMA VisitFinds ==
    ASSUME NEW ns, NodesFit(ns), NEW r, RangeFits(ns, r), NEW f \in Seq(Answers),
           NEW i \in DOMAIN ns, NEW a \in DOMAIN r, NEW low, NEW high,
           LoopFinds(ns, r, f, i, a, low, high),
           r[a].front <= ns[i].front, ns[i].back <= r[a].back,
           NEW sel \in Seq(Answers),
           \A x \in Span(ns[i]) : x \in low => x \in Held(sel),
           \A x \in Held(sel) : x \in Span(ns[i]) /\ x \in high,
           Reached(ns, i + 1) = ns[i].back
    PROVE  LoopFinds(ns, r, f \o sel, i + 1, a, low, high)
<1> DEFINE n == ns[i]
<1>1. r \in Seq(Answers)
  BY DEF RangeFits, Run
<1>2. /\ r[a].front \in Int /\ r[a].back \in Int /\ r[a] \in Range(r)
      /\ n.front \in Int /\ n.back \in Int /\ n.front < n.back
      /\ Reached(ns, i) = n.front
  BY <1>1, AnswerEdges DEF NodesFit, Reached
<1>3. Held(f \o sel) = Held(f) \cup Held(sel)
  BY ConcatHolds
<1>4. Span(n) = n.front .. n.back - 1 /\ Span(r[a]) = r[a].front .. r[a].back - 1
  BY DEF Span
<1> HIDE DEF n
<1>5. \A x \in Span(n) : x \in Held(r)
  <2> TAKE x \in Span(n)
  <2>1. x \in Span(r[a])
    BY <1>2, <1>4 DEF n
  <2> QED BY <1>2, <2>1, Zenon DEF Held
<1>6. \A x \in Held(f \o sel) : x \in Held(r) /\ x \in high
  BY <1>3, <1>5 DEF LoopFinds, n
<1>7. ASSUME NEW x \in Held(r), x < n.back, x \in low PROVE x \in Held(f \o sel)
  <2>1. x \in Int
    BY <1>1, HeldIn
  <2>2. CASE x < n.front
    BY <1>2, <1>3, <1>7, <2>2 DEF LoopFinds
  <2>3. CASE ~(x < n.front)
    <3>1. x \in Span(n)
      BY <1>2, <1>4, <1>7, <2>1, <2>3
    <3> QED BY <1>3, <1>7, <3>1 DEF n
  <2> QED BY <2>2, <2>3
<1>8. ASSUME NEW b \in DOMAIN r, b < a PROVE r[b].back <= n.back
  <2>1. r[b].back <= n.front
    BY <1>2, <1>8 DEF LoopFinds
  <2>2. r[b].back \in Int
    BY <1>1, AnswerEdges
  <2> QED BY <1>2, <2>1, <2>2
<1> QED BY <1>6, <1>7, <1>8 DEF LoopFinds, n

\* The pivot is done.
LEMMA LeaveFinds ==
    ASSUME NEW ns, NodesFit(ns), NEW r, RangeFits(ns, r), NEW f, NEW i \in DOMAIN ns,
           NEW a \in DOMAIN r, NEW low, NEW high, LoopFinds(ns, r, f, i, a, low, high),
           r[a].back <= ns[i].front
    PROVE  LoopFinds(ns, r, f, i, a + 1, low, high)
<1>1. r \in Seq(Answers) /\ a \in Nat /\ DOMAIN r = 1 .. Len(r)
  BY AnswerEdges DEF RangeFits, Run
<1>2. ASSUME NEW b \in DOMAIN r, b < a + 1 PROVE r[b].back <= Reached(ns, i)
  <2>1. b < a \/ b = a
    BY <1>1, <1>2
  <2> QED BY <2>1 DEF LoopFinds, Reached
<1> QED BY <1>2 DEF LoopFinds

\* The loop ends: what was found is what of the range passes.
LEMMA FinishFinds ==
    ASSUME NEW ns, NodesFit(ns), NEW r, RangeFits(ns, r), NEW f,
           NEW i \in Nat \ {0}, NEW a \in Nat \ {0},
           a > Len(r) \/ i > Len(ns), NEW low, NEW high,
           LoopFinds(ns, r, f, i, a, low, high)
    PROVE  /\ \A x \in Held(f) : x \in Held(r) /\ x \in high
           /\ \A x \in Held(r) : x \in low => x \in Held(f)
<1>1. r \in Seq(Answers)
  BY DEF RangeFits, Run
<1>2. ASSUME NEW x \in Held(r) PROVE x < Reached(ns, i)
  <2>1. PICK b \in DOMAIN r : /\ b \in Nat /\ r[b].back \in Int /\ x < r[b].back
                              /\ x \in Int /\ x < N
    BY <1>1, HeldIn
  <2>2. CASE i > Len(ns)
    <3>1. i \notin DOMAIN ns
      BY <2>2 DEF NodesFit
    <3> QED BY <2>1, <3>1 DEF Reached
  <2>3. CASE a > Len(r)
    <3>1. b < a
      BY <1>1, <2>1, <2>3
    <3>2. r[b].back <= Reached(ns, i)
      BY <3>1 DEF LoopFinds
    <3>3. Reached(ns, i) \in Int
      BY Sizes DEF Reached, NodesFit
    <3> QED BY <2>1, <3>2, <3>3
  <2> QED BY <2>2, <2>3
<1> QED BY <1>2 DEF LoopFinds

\* The loop starts.
LEMMA StartFinds ==
    ASSUME NEW ns, NodesFit(ns), NEW r, RangeFits(ns, r), N > 0, NEW low, NEW high,
           ns # << >>
    PROVE  LoopFinds(ns, r, << >>, 1, 1, low, high)
<1>1. r \in Seq(Answers) /\ DOMAIN r = 1 .. Len(r)
  BY DEF RangeFits, Run
<1>2. 1 \in DOMAIN ns /\ Reached(ns, 1) = 0
  BY DEF NodesFit, Reached
<1>3. Held(<< >>) = {}
  BY DEF Held, Range
<1>4. ASSUME NEW x \in Held(r) PROVE ~(x < 0)
  <2>1. x \in Int /\ 0 <= x
    BY <1>1, HeldIn
  <2> QED BY <2>1
<1>5. \A b \in DOMAIN r : ~(b < 1)
  BY <1>1
<1> QED BY <1>2, <1>3, <1>4, <1>5 DEF LoopFinds

-----------------------------------------------------------------------------
(* What a query hands on from one dimension to the next.                   *)

\* What the spatial dimension hands on.
SpatialList(q) ==
    IF EvalSpatial(q)
    THEN IF q.type = "TILE" THEN QueryTile(q)[Root] ELSE QueryRegion(q)[Root]
    ELSE << Labelled(Pivot(0, N), None) >>

\* The positions whose records pass what q asks of dimension d.
Passing(q, d, closed) == {i \in Records : Admits(q, d, closed, i)}

\* The positions that pass the spatial dimension and those up to d.
Through(q, d, closed) ==
    {i \in Held(SpatialList(q)) : \A e \in 1 .. d : i \in Passing(q, e, closed)}

\* The range of a dimension has what passed those before.
Narrowed(q, d, r) ==
    /\ Through(q, d, FALSE) \subseteq Held(r)
    /\ Held(r) \subseteq Through(q, d, TRUE)

\* What the range of dimension d, and what was found in its loop, have.
Selects(q, d, r, f, i, a) ==
    /\ Narrowed(q, d - 1, r)
    /\ d \in 1 .. Dims =>
         LoopFinds(nodes[d], r, f, i, a, Passing(q, d, FALSE), Passing(q, d, TRUE))

\* A scatter plot leaves intervals out.
Heeds(q) == q.type = "SCATTER" => \A d \in TemporalDims : q.tseries[d] = None

\* So it is in every query that all dimensions heed.
SelectInv ==
    query # None /\ Heeds(query) /\ N > 0 /\ dim > 0 =>
        Selects(query, dim, range, found, it, at)

\* A query does not change the cube, so what its spatial dimension selects stays the same.
LEMMA SpatialStays ==
    ASSUME UNCHANGED vars, NEW q PROVE SpatialList(q)' = SpatialList(q)
<1>1. tiles' = tiles
  BY DEF vars
<1>2. QueryRegion(q)' = QueryRegion(q)
  BY <1>1 DEF QueryRegion, Descend, InOrder, Children, EvalRegion, IntersectsTile, TileFound
<1>3. QueryTile(q)' = QueryTile(q)
  BY <1>1 DEF QueryTile, AggregateTile, Descend, InOrder, Children, EvalTile, CornerInTile,
              TileFound
<1>4. Root' = Root
  BY <1>1, Zenon DEF Root
<1> QED BY <1>2, <1>3, <1>4 DEF SpatialList

\* Nor what passes a dimension ...
LEMMA PassingStays ==
    ASSUME UNCHANGED vars, NEW q, NEW d, NEW c PROVE Passing(q, d, c)' = Passing(q, d, c)
<1>1. data' = data /\ index' = index
  BY DEF vars
<1> QED BY <1>1 DEF Passing, Admits

\* ... or several, ...
LEMMA ThroughStays ==
    ASSUME UNCHANGED vars, NEW q, NEW d, NEW c PROVE Through(q, d, c)' = Through(q, d, c)
<1>1. SpatialList(q)' = SpatialList(q)
  BY SpatialStays
<1>2. \A e : Passing(q, e, c)' = Passing(q, e, c)
  BY PassingStays
<1> QED BY <1>1, <1>2 DEF Through

\* ... or what a loop has found of it.
LEMMA SelectsStays ==
    ASSUME UNCHANGED vars, NEW q, NEW d, NEW r, NEW f, NEW i, NEW a,
           Selects(q, d, r, f, i, a)
    PROVE  Selects(q, d, r, f, i, a)'
<1>1. \A e, c : Through(q, e, c)' = Through(q, e, c) /\ Passing(q, e, c)' = Passing(q, e, c)
  BY ThroughStays, PassingStays
<1>2. nodes' = nodes
  BY DEF vars
<1> QED BY <1>1, <1>2 DEF Selects, Narrowed, LoopFinds, Held, Reached

\* A dimension is done with.
LEMMA ThroughNext ==
    ASSUME NEW q, NEW d \in Nat \ {0}, NEW c
    PROVE  Through(q, d, c) = Through(q, d - 1, c) \cap Passing(q, d, c)
<1>1. 1 .. d = (1 .. d - 1) \cup {d}
  OBVIOUS
<1> QED BY <1>1 DEF Through

\* Range r of dimension d and what it leaves.
LEMMA NarrowedNext ==
    ASSUME NEW q, NEW d \in Nat \ {0}, NEW r, NEW s, Narrowed(q, d - 1, r),
           \A x \in Held(s) : x \in Held(r) /\ x \in Passing(q, d, TRUE),
           \A x \in Held(r) : x \in Passing(q, d, FALSE) => x \in Held(s)
    PROVE  Narrowed(q, d, s)
<1>1. \A c \in BOOLEAN : Through(q, d, c) = Through(q, d - 1, c) \cap Passing(q, d, c)
  BY ThroughNext
<1> QED BY <1>1 DEF Narrowed

\* A position that is let through anyway.
LEMMA AdmitsMore ==
    ASSUME NEW q, NEW d, Asks(q, d), NEW i, Admits(q, d, FALSE, i)
    PROVE  Admits(q, d, TRUE, i)
BY DEF Admits

\* The positions of the range are those of records.
LEMMA HeldRecords ==
    ASSUME NEW r \in Seq(Answers), NEW x \in Held(r)
    PROVE  x \in Records
<1>1. x \in Int /\ 0 <= x /\ x < N
  BY HeldIn
<1> QED BY <1>1, Sizes DEF Records

\* Every position is in a node of each dimension of a finished cube.
LEMMA NodesCover ==
    ASSUME WalkInv, Built, NEW d \in 1 .. Dims, NEW x \in Records
    PROVE  \E n \in Range(nodes[d]) : x \in Span(n)
<1>1. d \in 1 .. stage - 1
  BY Sizes DEF Built
<1> DEFINE u == nodes[d]
<1>2. u \in Seq(DimNode) /\ Chain(u, 0, N) /\ \A i \in DOMAIN u : u[i] \in Range(u)
  BY <1>1, DimNodes
<1>3. \A n \in DimNode : n.front \in Int /\ n.back \in Int
  BY Sizes DEF DimNode
<1>4. x \in 0 .. N - 1 /\ 0 \in Int /\ N \in Int
  BY Sizes DEF Records
<1> HIDE DEF u
<1>5. \E i \in DOMAIN u : x \in Span(u[i])
  BY <1>2, <1>3, <1>4, ChainCovers
<1> QED BY <1>2, <1>5 DEF u

\* The node after a node starts where it ends.
LEMMA ReachedNext ==
    ASSUME WalkInv, Built, NEW d \in 1 .. Dims, NEW i \in DOMAIN nodes[d]
    PROVE  Reached(nodes[d], i + 1) = nodes[d][i].back
<1>1. d \in 1 .. stage - 1
  BY Sizes DEF Built
<1> DEFINE u == nodes[d]
<1>2. NodesFit(u) /\ Chain(u, 0, N)
  BY <1>1, DimNodes, BuiltNodes
<1> HIDE DEF u
<1>3. CASE i + 1 \in DOMAIN u
  BY <1>2, <1>3 DEF NodesFit, Reached, u
<1>4. CASE i + 1 \notin DOMAIN u
  <2>1. i = Len(u) /\ u # << >>
    BY <1>2, <1>4 DEF NodesFit, u
  <2>2. u[i].back = N
    BY <1>2, <2>1 DEF Chain
  <2> QED BY <1>4, <2>2 DEF Reached, u
<1> QED BY <1>3, <1>4

\* What is known of a query that is asked.
SelectFacts ==
    /\ QueryInv
    /\ PartsCounted /\ ValuesAscend
    /\ query # None => query \in Queries
    /\ HashesKeepOrder => PartsHoldTheirRecords

\* The query restricts dimensions by numbers and the nodes split.
LEMMA SelectNodes ==
    ASSUME SelectFacts, HashesKeepOrder, LabelsTellApart, query # None, NEW d \in 1 .. Dims
    PROVE  /\ Asks(query, d)
           /\ \A n \in Range(nodes[d]) : NodeSplit(d, n)
<1>1. Asks(query, d)
  <2>1. IsTemporal(d) => d \in TemporalDims
    BY DEF TemporalDims
  <2> QED BY <2>1, QueriesAssumption DEF Asks, SelectFacts
<1>2. WalkInv /\ Built /\ ValuesAscend /\ PartsHoldTheirRecords
  BY DEF SelectFacts, QueryInv, QueryPhase
<1> QED BY <1>1, <1>2, NodesSplit

\* To the next dimension with a range that passed those before.
LEMMA NextDimSelects ==
    ASSUME QueryInv, QueryInv', UNCHANGED vars, N > 0, NextDim, query # None, query' = query,
           found' = << >>, dim \in 0 .. Dims, Narrowed(query, dim, range')
    PROVE  SelectInv'
<1> PICK q : q = query
  OBVIOUS
<1> PICK d : d = dim
  OBVIOUS
<1> PICK r : r = range'
  OBVIOUS
<1>1. /\ query' = q /\ dim' = d + 1 /\ range' = r /\ at' = 1 /\ it' = 1 /\ d \in 0 .. Dims
      /\ Built /\ WalkInv /\ Dims \in Nat
  BY Sizes DEF NextDim, QueryInv, QueryPhase
<1>2. ASSUME d + 1 \in 1 .. Dims
      PROVE  LoopFinds(nodes[d + 1], r, << >>, 1, 1, Passing(q, d + 1, FALSE),
                       Passing(q, d + 1, TRUE))
  <2> DEFINE u == nodes[d + 1]
  <2>1. nodes' = nodes
    BY DEF vars
  <2>2. RangeFits(u, r)
    <3>1. LoopFits'
      BY <1>1, <1>2 DEF QueryInv
    <3> QED BY <1>1, <2>1, <3>1 DEF LoopFits
  <2>3. NodesFit(u)
    BY <1>1, <1>2, BuiltNodes
  <2>4. u # << >>
    <3>1. d + 1 \in 1 .. stage - 1
      BY <1>1, <1>2, Sizes DEF Built
    <3>2. Chain(u, 0, N)
      BY <1>1, <3>1, DimNodes
    <3> QED BY <3>2 DEF Chain
  <2> HIDE DEF u
  <2>5. LoopFinds(u, r, << >>, 1, 1, Passing(q, d + 1, FALSE), Passing(q, d + 1, TRUE))
    BY <2>2, <2>3, <2>4, StartFinds
  <2> QED BY <2>5 DEF u
<1>3. Narrowed(q, (d + 1) - 1, r)
  <2>1. (d + 1) - 1 = d
    BY <1>1
  <2>2. Narrowed(q, d, r)
    BY <1>1
  <2> QED BY <2>1, <2>2
<1>4. Selects(q, d + 1, r, << >>, 1, 1)
  BY <1>2, <1>3 DEF Selects
<1>5. Selects(q, d + 1, r, << >>, 1, 1)'
  BY <1>4, SelectsStays
<1> QED BY <1>1, <1>5 DEF SelectInv

\* A step inside the loop of a dimension.
LEMMA LoopSelects ==
    ASSUME SelectInv, UNCHANGED vars, query' = query, dim \in 1 .. Dims, dim' = dim,
           range' = range,
           query # None /\ Heeds(query) /\ N > 0 =>
             LoopFinds(nodes[dim], range, found', it', at', Passing(query, dim, FALSE),
                       Passing(query, dim, TRUE))
    PROVE  SelectInv'
<1> PICK q : q = query
  OBVIOUS
<1> PICK d : d = dim
  OBVIOUS
<1> PICK r : r = range
  OBVIOUS
<1> PICK f : f = found'
  OBVIOUS
<1> PICK i : i = it'
  OBVIOUS
<1> PICK a : a = at'
  OBVIOUS
<1>1. query' = q /\ dim' = d /\ range' = r /\ dim > 0
  BY Sizes
<1> SUFFICES ASSUME query # None, Heeds(query), N > 0
             PROVE  Selects(query, dim, range, found, it, at)'
  BY <1>1 DEF SelectInv
<1>2. Narrowed(q, d - 1, r)
  <2>1. Selects(query, dim, range, found, it, at)
    BY <1>1 DEF SelectInv
  <2> QED BY <2>1 DEF Selects
<1>3. Selects(q, d, r, f, i, a)
  BY <1>2 DEF Selects
<1>4. Selects(q, d, r, f, i, a)'
  BY <1>3, SelectsStays
<1> QED BY <1>1, <1>4

\* The spatial dimension hands on what it selects.
LEMMA QuerySpatialSelects ==
    ASSUME QueryInv, QueryInv', QuerySpatial
    PROVE  SelectInv'
<1>1. /\ query # None /\ dim = 0 /\ UNCHANGED vars /\ NextDim /\ query' = query
      /\ found' = << >> /\ range = << Labelled(Pivot(0, N), None) >>
      /\ 0 \in 0 .. Dims
  BY Sizes DEF QuerySpatial, QueryInv, QueryPhase
<1>2. range' = SpatialList(query)
  BY <1>1 DEF QuerySpatial, SpatialList
<1>3. Narrowed(query, 0, SpatialList(query))
  BY DEF Narrowed, Through
<1>4. CASE N > 0
  BY <1>1, <1>2, <1>3, <1>4, NextDimSelects
<1>5. CASE ~(N > 0)
  BY <1>5 DEF SelectInv
<1> QED BY <1>4, <1>5

\* The range left alone has all that passes the dimension.
LEMMA SkipDimSelects ==
    ASSUME SelectFacts, HashesKeepOrder, LabelsTellApart, SelectInv, QueryInv', SkipDim
    PROVE  SelectInv'
<1>1. /\ query # None /\ dim \in 1 .. Dims /\ UNCHANGED vars /\ NextDim /\ query' = query
      /\ found' = found /\ range' = range /\ Built /\ ~Evals(query, dim) /\ QueryInv
      /\ dim \in 0 .. Dims /\ dim > 0 /\ dim \in Nat \ {0}
  BY DEF SkipDim, SelectFacts, QueryInv, QueryPhase
<1> SUFFICES ASSUME N > 0, Heeds(query) PROVE SelectInv'
  BY <1>1 DEF SelectInv
<1>2. LoopFits /\ found' = << >> /\ range \in Seq(Answers)
  BY <1>1 DEF QueryInv, LoopFits, RangeFits, Run
<1>3. Asks(query, dim) /\ \A n \in Range(nodes[dim]) : NodeSplit(dim, n)
  BY <1>1, SelectNodes
<1>4. Narrowed(query, dim - 1, range)
  BY <1>1 DEF SelectInv, Selects
<1>5. ASSUME NEW x \in Held(range) PROVE x \in Passing(query, dim, TRUE)
  <2>1. x \in Records
    BY <1>2, HeldRecords
  <2>2. PICK n \in Range(nodes[dim]) : x \in Span(n)
    BY <1>1, <2>1, NodesCover DEF QueryInv
  <2>3. query.type = "SCATTER" /\ IsTemporal(dim) => query.tseries[dim] = None
    BY <1>1 DEF Heeds, TemporalDims
  <2>4. Admits(query, dim, TRUE, x)
    BY <1>1, <1>3, <2>2, <2>3, SkipAdmits
  <2> QED BY <2>1, <2>4 DEF Passing
<1>6. Narrowed(query, dim, range)
  BY <1>1, <1>4, <1>5, NarrowedNext
<1> QED BY <1>1, <1>2, <1>6, NextDimSelects

\* The node sought is where the range goes on.
LEMMA SeekNodeSelects ==
    ASSUME SelectFacts, SelectInv, SeekNode
    PROVE  SelectInv'
<1>1. /\ query # None /\ dim \in 1 .. Dims /\ UNCHANGED vars /\ dim' = dim /\ query' = query
      /\ range' = range /\ found' = found /\ at' = at /\ Built
      /\ at <= Len(range) /\ it <= Len(nodes[dim]) /\ QueryInv /\ dim > 0
      /\ it' = Seek(range[at], dim, it)
      /\ at \in Nat \ {0} /\ it \in Nat \ {0}
  BY DEF SeekNode, SelectFacts, QueryInv, QueryPhase
<1>2. ~inRange
  BY DEF SeekNode
<1>3. ASSUME Heeds(query), N > 0
      PROVE  LoopFinds(nodes[dim], range, found, it', at, Passing(query, dim, FALSE),
                       Passing(query, dim, TRUE))
  <2> DEFINE u == nodes[dim]
  <2>1. LoopFits /\ NodesFit(u)
    BY <1>1, <1>3, BuiltNodes DEF QueryInv
  <2>2. at \in DOMAIN range /\ it \in DOMAIN u
    BY <1>1, <2>1 DEF NodesFit, LoopFits, RangeFits, Run
  <2>3. u[it].front <= range[at].front
    BY <1>1, <1>2, <2>1, <2>2 DEF LoopFits, BeforePivot
  <2>4. it' \in DOMAIN u /\ u[it'].front = range[at].front
    BY <1>1, <2>1, <2>2, <2>3, SeekLands DEF LoopFits
  <2>5. LoopFinds(u, range, found, it, at, Passing(query, dim, FALSE),
                  Passing(query, dim, TRUE))
    BY <1>1, <1>3 DEF SelectInv, Selects
  <2>6. RangeFits(u, range)
    BY <2>1 DEF LoopFits
  <2> HIDE DEF u
  <2>7. PICK j : j = it'
    OBVIOUS
  <2>8. LoopFinds(u, range, found, j, at, Passing(query, dim, FALSE),
                  Passing(query, dim, TRUE))
    BY <2>1, <2>2, <2>4, <2>5, <2>6, <2>7, SeekFinds
  <2> QED BY <2>7, <2>8 DEF u
<1> QED BY <1>1, <1>3, LoopSelects

\* A node adds what of it passes.
LEMMA VisitNodeSelects ==
    ASSUME SelectFacts, HashesKeepOrder, LabelsTellApart, SelectInv, VisitNode
    PROVE  SelectInv'
<1> DEFINE u == nodes[dim]
           n == u[it]
           sel == Select(query, dim, n)
<1>1. /\ inRange /\ range[at].back > n.front /\ found' = found \o sel /\ it' = it + 1
      /\ UNCHANGED vars /\ dim' = dim /\ query' = query /\ range' = range /\ at' = at
  BY DEF VisitNode
<1>2. /\ dim \in 1 .. Dims /\ N > 0 /\ query # None /\ Built /\ QueryInv
      /\ at \in Nat \ {0} /\ it \in Nat \ {0} /\ dim > 0
  BY <1>1 DEF SelectFacts, QueryInv, QueryPhase
<1>3. LoopFits /\ NodesFit(u) /\ Evals(query, dim)
  BY <1>1, <1>2, BuiltNodes DEF QueryInv, LoopFits
<1>4. /\ InPivot(u, range, at, it) /\ RangeFits(u, range) /\ found \in Seq(Answers)
  BY <1>1, <1>3 DEF LoopFits, FoundFits, Run
<1>5. /\ it \in DOMAIN u /\ at \in DOMAIN range /\ n \in Range(u)
      /\ n.front \in Int /\ n.back \in Int
  BY <1>3, <1>4 DEF InPivot, NodesFit
<1>6. dim \in 1 .. stage - 1
  BY <1>2, Sizes DEF Built
<1>7. sel \in Seq(Answers)
  BY <1>2, <1>5, <1>6, SelectLists DEF QueryInv
<1>8. Asks(query, dim) /\ NodeSplit(dim, n)
  BY <1>2, <1>5, SelectNodes
<1>9. /\ \A i \in Span(n) : Admits(query, dim, FALSE, i) => i \in Held(sel)
      /\ \A i \in Held(sel) : i \in Span(n) /\ Admits(query, dim, TRUE, i)
  BY <1>3, <1>8, SelectAdmits
<1>10. range[at].front <= n.front /\ n.back <= range[at].back
  BY <1>1, <1>3, <1>4, <1>5, NodeInside, AnswerEdges DEF RangeFits, Run
<1>11. Reached(u, it + 1) = n.back
  BY <1>2, <1>5, ReachedNext DEF QueryInv
<1> HIDE DEF sel, n
<1>12. /\ \A i \in Span(n) : i \in Passing(query, dim, FALSE) => i \in Held(sel)
       /\ \A i \in Held(sel) : i \in Span(n) /\ i \in Passing(query, dim, TRUE)
  <2>1. \A i \in Held(sel) : i \in Records
    BY <1>7, HeldRecords
  <2> QED BY <1>9, <2>1 DEF Passing
<1> HIDE DEF u
<1>13. ASSUME Heeds(query)
       PROVE  LoopFinds(u, range, found \o sel, it + 1, at, Passing(query, dim, FALSE),
                        Passing(query, dim, TRUE))
  <2>1. LoopFinds(u, range, found, it, at, Passing(query, dim, FALSE),
                  Passing(query, dim, TRUE))
    BY <1>2, <1>13 DEF SelectInv, Selects, u
  <2> QED BY <1>3, <1>4, <1>5, <1>7, <1>10, <1>11, <1>12, <2>1, VisitFinds DEF n
<1> QED BY <1>1, <1>2, <1>13, LoopSelects DEF u

\* A pivot is done with.
LEMMA LeaveRangeSelects ==
    ASSUME SelectFacts, SelectInv, LeaveRange
    PROVE  SelectInv'
<1> DEFINE u == nodes[dim]
<1>1. /\ inRange /\ range[at].back <= u[it].front /\ found' = found /\ it' = it
      /\ at' = at + 1
      /\ UNCHANGED vars /\ dim' = dim /\ query' = query /\ range' = range
  BY DEF LeaveRange
<1>2. /\ dim \in 1 .. Dims /\ N > 0 /\ query # None /\ Built /\ dim > 0 /\ QueryInv
  BY <1>1 DEF SelectFacts, QueryInv, QueryPhase
<1>3. LoopFits /\ NodesFit(u)
  BY <1>2, BuiltNodes DEF QueryInv
<1>4. InPivot(u, range, at, it) /\ RangeFits(u, range)
  BY <1>1, <1>3 DEF LoopFits
<1>5. it \in DOMAIN u /\ at \in DOMAIN range
  BY <1>4 DEF InPivot
<1> HIDE DEF u
<1>6. ASSUME Heeds(query)
      PROVE  LoopFinds(u, range, found, it, at + 1, Passing(query, dim, FALSE),
                       Passing(query, dim, TRUE))
  <2>1. LoopFinds(u, range, found, it, at, Passing(query, dim, FALSE),
                  Passing(query, dim, TRUE))
    BY <1>2, <1>6 DEF SelectInv, Selects, u
  <2> QED BY <1>1, <1>3, <1>4, <1>5, <2>1, LeaveFinds
<1> QED BY <1>1, <1>2, <1>6, LoopSelects DEF u

\* What was found is the next range.
LEMMA FinishDimSelects ==
    ASSUME SelectFacts, SelectInv, QueryInv', FinishDim
    PROVE  SelectInv'
<1>1. /\ query # None /\ dim \in 1 .. Dims /\ UNCHANGED vars /\ NextDim /\ query' = query
      /\ found' = << >> /\ range' = found /\ Built /\ QueryInv
      /\ at > Len(range) \/ it > Len(nodes[dim])
      /\ dim \in 0 .. Dims /\ dim > 0 /\ dim \in Nat \ {0}
      /\ at \in Nat \ {0} /\ it \in Nat \ {0}
  BY DEF FinishDim, SelectFacts, QueryInv, QueryPhase
<1> SUFFICES ASSUME N > 0, Heeds(query) PROVE SelectInv'
  BY <1>1 DEF SelectInv
<1> DEFINE u == nodes[dim]
<1>2. RangeFits(u, range) /\ NodesFit(u)
  BY <1>1, BuiltNodes DEF QueryInv, LoopFits
<1>3. /\ Narrowed(query, dim - 1, range)
      /\ LoopFinds(u, range, found, it, at, Passing(query, dim, FALSE),
                   Passing(query, dim, TRUE))
  BY <1>1 DEF SelectInv, Selects
<1>4. at > Len(range) \/ it > Len(u)
  BY <1>1
<1> HIDE DEF u
<1>5. /\ \A x \in Held(found) : x \in Held(range) /\ x \in Passing(query, dim, TRUE)
      /\ \A x \in Held(range) : x \in Passing(query, dim, FALSE) => x \in Held(found)
  BY <1>1, <1>2, <1>3, <1>4, FinishFinds
<1>6. Narrowed(query, dim, found)
  BY <1>1, <1>3, <1>5, NarrowedNext
<1> QED BY <1>1, <1>6, NextDimSelects

-----------------------------------------------------------------------------
(* Sums over sets.                                                         *)

\* The recursion of MapThenSumSet over S, for a function g.
Sums(sum, S, g) ==
    sum = [s \in SUBSET S |-> IF s = {} THEN 0
                             ELSE g[CHOOSE x \in s : TRUE] + sum[s \ {CHOOSE x \in s : TRUE}]]

\* It has a solution.
LEMMA SumsExist ==
    ASSUME NEW S, IsFiniteSet(S), NEW g
    PROVE  \E sum : Sums(sum, S, g)
<1> DEFINE c(s) == CHOOSE x \in s : TRUE
           body(f, s) == IF s = {} THEN 0 ELSE g[c(s)] + f[s \ {c(s)}]
           Ok(f, k) == /\ f = [s \in SUBSET S |-> f[s]]
                       /\ \A s \in SUBSET S : Cardinality(s) <= k => f[s] = body(f, s)
           K == {k \in Nat : \E f : Ok(f, k)}
<1>1. \A s \in SUBSET S : /\ IsFiniteSet(s) /\ Cardinality(s) \in Nat
                          /\ s # {} => c(s) \in s
  <2> TAKE s \in SUBSET S
  <2>1. IsFiniteSet(s) /\ Cardinality(s) \in Nat
    BY FS_Subset, FS_CardinalityType
  <2> QED BY <2>1
<1>2. ASSUME NEW s \in SUBSET S, s # {}
      PROVE  /\ s \ {c(s)} \in SUBSET S
             /\ Cardinality(s \ {c(s)}) = Cardinality(s) - 1
  <2> HIDE DEF c
  <2> QED BY <1>1, <1>2, FS_RemoveElement
<1> HIDE DEF c
<1>3. 0 \in K
  <2> DEFINE f == [s \in SUBSET S |-> 0]
  <2>1. \A s \in SUBSET S : Cardinality(s) <= 0 => s = {}
    BY <1>1, FS_EmptySet
  <2>2. Ok(f, 0)
    BY <2>1
  <2> HIDE DEF Ok, f
  <2> QED BY <2>2
<1>4. ASSUME NEW k \in Nat, k \in K PROVE k + 1 \in K
  <2>1. PICK f : Ok(f, k)
    BY <1>4
  <2> DEFINE h == [s \in SUBSET S |-> body(f, s)]
  <2>2. ASSUME NEW s \in SUBSET S, Cardinality(s) <= k + 1 PROVE h[s] = body(h, s)
    <3>1. CASE s = {}
      BY <3>1
    <3>2. CASE s # {}
      <4> DEFINE t == s \ {c(s)}
      <4>1. t \in SUBSET S /\ Cardinality(t) <= k
        BY <1>1, <1>2, <2>2, <3>2
      <4>2. f[t] = body(f, t)
        BY <2>1, <4>1
      <4>3. h[t] = body(f, t)
        BY <4>1
      <4> HIDE DEF h
      <4>4. h[s] = body(f, s)
        BY DEF h
      <4> QED BY <3>2, <4>2, <4>3, <4>4
    <3> QED BY <3>1, <3>2
  <2>3. h = [s \in SUBSET S |-> h[s]]
    OBVIOUS
  <2> HIDE DEF h
  <2>4. Ok(h, k + 1)
    BY <2>2, <2>3
  <2> HIDE DEF Ok
  <2> QED BY <2>4
<1> HIDE DEF K
<1>5. Cardinality(S) \in Nat /\ \A k \in Nat : k \in K
  BY <1>3, <1>4, NatInduct, FS_CardinalityType
<1>6. PICK f : Ok(f, Cardinality(S))
  BY <1>5 DEF K
<1>7. \A s \in SUBSET S : Cardinality(s) <= Cardinality(S)
  BY FS_Subset
<1>8. f = [s \in SUBSET S |-> body(f, s)]
  <2>1. \A s \in SUBSET S : f[s] = body(f, s)
    BY <1>6, <1>7
  <2> QED BY <1>6, <2>1
<1>9. Sums(f, S, g)
  BY <1>8, Zenon DEF Sums, c
<1> QED BY <1>9

\* The sum of the sizes of disjoint sets is the size of their union.
LEMMA SumIsCount ==
    ASSUME NEW S, IsFiniteSet(S), NEW g, NEW h,
           \A x \in S : IsFiniteSet(h[x]) /\ g[x] = Cardinality(h[x]),
           \A x, y \in S : x # y => h[x] \cap h[y] = {},
           NEW sum, Sums(sum, S, g)
    PROVE  /\ IsFiniteSet(UNION {h[x] : x \in S})
           /\ sum[S] = Cardinality(UNION {h[x] : x \in S})
<1> DEFINE c(s) == CHOOSE x \in s : TRUE
           U(s) == UNION {h[x] : x \in s}
           Good(s) == IsFiniteSet(U(s)) /\ sum[s] = Cardinality(U(s))
           K == {k \in Nat : \A s \in SUBSET S : Cardinality(s) = k => Good(s)}
<1>1. \A s \in SUBSET S : /\ IsFiniteSet(s) /\ Cardinality(s) \in Nat
                          /\ s # {} => c(s) \in s
  <2> TAKE s \in SUBSET S
  <2>1. IsFiniteSet(s) /\ Cardinality(s) \in Nat
    BY FS_Subset, FS_CardinalityType
  <2> QED BY <2>1
<1>2. \A s \in SUBSET S : sum[s] = IF s = {} THEN 0 ELSE g[c(s)] + sum[s \ {c(s)}]
  BY DEF Sums
<1> HIDE DEF c
<1>3. 0 \in K
  <2> SUFFICES ASSUME NEW s \in SUBSET S, Cardinality(s) = 0 PROVE Good(s)
    OBVIOUS
  <2>1. s = {}
    BY <1>1, FS_EmptySet
  <2>2. U(s) = {} /\ sum[s] = 0
    BY <1>2, <2>1
  <2> HIDE DEF U
  <2> QED BY <2>2, FS_EmptySet
<1>4. ASSUME NEW k \in Nat, k \in K PROVE k + 1 \in K
  <2> SUFFICES ASSUME NEW s \in SUBSET S, Cardinality(s) = k + 1 PROVE Good(s)
    OBVIOUS
  <2>1. s # {}
    BY FS_EmptySet
  <2> DEFINE x == c(s)
             t == s \ {x}
  <2>2. x \in s /\ x \in S /\ t \in SUBSET S
    BY <1>1, <2>1
  <2>3. Cardinality(t) = k
    <3>1. IsFiniteSet(s)
      BY <1>1
    <3> HIDE DEF x
    <3>2. Cardinality(t) = Cardinality(s) - 1
      BY <2>2, <3>1, FS_RemoveElement
    <3> HIDE DEF t
    <3> QED BY <3>2
  <2>4. sum[s] = g[x] + sum[t]
    BY <1>2, <2>1
  <2> HIDE DEF x
  <2>5. Good(t)
    BY <1>4, <2>2, <2>3
  <2>6. U(s) = h[x] \cup U(t)
    BY <2>2
  <2>7. h[x] \cap U(t) = {}
    <3>1. \A y \in t : h[x] \cap h[y] = {}
      BY <2>2
    <3> QED BY <3>1
  <2>8. IsFiniteSet(h[x]) /\ g[x] = Cardinality(h[x])
    BY <2>2
  <2> DEFINE A == h[x]
             B == U(t)
  <2>9. /\ IsFiniteSet(A \cup B) /\ A \cap B = {} /\ Cardinality(A \cap B) = 0
        /\ Cardinality(A \cup B) = Cardinality(A) + Cardinality(B) - Cardinality(A \cap B)
        /\ Cardinality(A) \in Nat /\ Cardinality(B) \in Nat
    <3>1. IsFiniteSet(A) /\ IsFiniteSet(B) /\ A \cap B = {}
      BY <2>5, <2>7, <2>8
    <3> HIDE DEF A, B
    <3> QED BY <3>1, FS_Union, FS_EmptySet, FS_CardinalityType
  <2>10. U(s) = A \cup B /\ sum[s] = Cardinality(A) + Cardinality(B)
    BY <2>4, <2>5, <2>6, <2>8
  <2> HIDE DEF A, B, U
  <2>11. IsFiniteSet(U(s)) /\ sum[s] = Cardinality(U(s))
    BY <2>9, <2>10
  <2> QED BY <2>11
<1> HIDE DEF K
<1>5. Cardinality(S) \in Nat /\ \A k \in Nat : k \in K
  BY <1>3, <1>4, NatInduct, FS_CardinalityType
<1> HIDE DEF Good
<1>6. Good(S)
  BY <1>5 DEF K
<1> QED BY <1>6 DEF Good

\* What MySQLSerializer and the region answer count is what the range holds.
LEMMA TotalUnfolds ==
    ASSUME NEW sum,
           sum = [s \in SUBSET (DOMAIN range) |->
                   IF s = {} THEN 0
                   ELSE Size(range[CHOOSE x \in s : TRUE]) + sum[s \ {CHOOSE x \in s : TRUE}]]
    PROVE  \E sum2 :
             /\ sum2 = [s \in SUBSET (DOMAIN range) |->
                   IF s = {} THEN 0
                   ELSE Size(range[CHOOSE x \in s : TRUE]) + sum2[s \ {CHOOSE x \in s : TRUE}]]
             /\ Total = sum2[DOMAIN range]
BY Zenon DEF Total, MapThenSumSet, MapThenFoldSet

-----------------------------------------------------------------------------
(* How much a range holds.                                                 *)

\* The pivots of a range hold different positions.
LEMMA RunApart ==
    ASSUME NEW r, Run(r), NEW i \in DOMAIN r, NEW j \in DOMAIN r, i # j
    PROVE  Span(r[i]) \cap Span(r[j]) = {}
<1>1. /\ r \in Seq(Answers) /\ i \in Nat /\ j \in Nat
      /\ r[i].front \in Int /\ r[i].back \in Int /\ r[j].front \in Int /\ r[j].back \in Int
  BY AnswerEdges DEF Run
<1>2. (i < j => r[i].back <= r[j].front) /\ (j < i => r[j].back <= r[i].front)
  BY DEF Run, Ascending
<1>3. i < j \/ j < i
  BY <1>1
<1> QED BY <1>1, <1>2, <1>3 DEF Span

\* What MySQLSerializer and the region answer count is what the range holds.
LEMMA TotalIs ==
    ASSUME Run(range)
    PROVE  /\ IsFiniteSet(Held(range))
           /\ Total = Cardinality(Held(range))
<1> DEFINE S == DOMAIN range
           g == [j \in S |-> Size(range[j])]
           h == [j \in S |-> Span(range[j])]
<1>1. S = 1 .. Len(range) /\ Len(range) \in Nat /\ range \in Seq(Answers)
  BY DEF Run
<1>2. IsFiniteSet(S)
  BY <1>1, FS_Interval
<1>3. ASSUME NEW j \in S PROVE IsFiniteSet(h[j]) /\ g[j] = Cardinality(h[j])
  <2>1. /\ range[j].front \in Int /\ range[j].back \in Int
        /\ range[j].front < range[j].back
    BY <1>1, AnswerEdges DEF Run
  <2> DEFINE a == range[j].front
             b == range[j].back
  <2>2. h[j] = a .. b - 1 /\ g[j] = b - a
    BY DEF Span, Size
  <2>3. a \in Int /\ b \in Int /\ a < b
    BY <2>1
  <2> HIDE DEF a, b, g, h
  <2>4. IsFiniteSet(a .. b - 1) /\ Cardinality(a .. b - 1) = IF a > b - 1 THEN 0 ELSE b - 1 - a + 1
    BY <2>3, FS_Interval
  <2>5. Cardinality(a .. b - 1) = b - a
    BY <2>3, <2>4
  <2> QED BY <2>2, <2>4, <2>5
<1>4. \A i, j \in S : i # j => h[i] \cap h[j] = {}
  BY RunApart
<1>5. UNION {h[j] : j \in S} = Held(range)
  <2>1. UNION {h[j] : j \in S} = UNION {Span(range[j]) : j \in S}
    OBVIOUS
  <2>2. UNION {Span(range[j]) : j \in S} = UNION {Span(p) : p \in Range(range)}
    BY DEF Range
  <2> QED BY <2>1, <2>2 DEF Held
<1>6. PICK sum : Sums(sum, S, g)
  BY <1>2, SumsExist
<1>7. ASSUME NEW s \in SUBSET S, s # {}
      PROVE  g[CHOOSE x \in s : TRUE] = Size(range[CHOOSE x \in s : TRUE])
  <2>1. (CHOOSE x \in s : TRUE) \in s
    BY <1>7
  <2> QED BY <2>1
<1> DEFINE F(f) == [s \in SUBSET S |->
                      IF s = {} THEN 0
                      ELSE Size(range[CHOOSE x \in s : TRUE]) + f[s \ {CHOOSE x \in s : TRUE}]]
<1>8. \A f : Sums(f, S, g) <=> f = F(f)
  <2> TAKE f
  <2>1. ASSUME NEW s \in SUBSET S
        PROVE  (IF s = {} THEN 0 ELSE g[CHOOSE x \in s : TRUE] + f[s \ {CHOOSE x \in s : TRUE}])
                 = (IF s = {} THEN 0
                    ELSE Size(range[CHOOSE x \in s : TRUE]) + f[s \ {CHOOSE x \in s : TRUE}])
    <3> HIDE DEF g
    <3> QED BY <1>7
  <2> HIDE DEF g
  <2>2. [s \in SUBSET S |-> IF s = {} THEN 0
                            ELSE g[CHOOSE x \in s : TRUE] + f[s \ {CHOOSE x \in s : TRUE}]]
          = F(f)
    BY <2>1, Zenon
  <2> QED BY <2>2, Zenon DEF Sums
<1>9. PICK f : Sums(f, S, g) /\ Total = f[S]
  <2>1. ASSUME NEW f, f = F(f) PROVE \E f2 : f2 = F(f2) /\ Total = f2[S]
    BY <2>1, TotalUnfolds, Zenon
  <2> HIDE DEF g, S, F
  <2> QED BY <1>6, <1>8, <2>1
<1> HIDE DEF g, h, S
<1>10. IsFiniteSet(UNION {h[x] : x \in S}) /\ f[S] = Cardinality(UNION {h[x] : x \in S})
  BY <1>2, <1>3, <1>4, <1>9, SumIsCount
<1> QED BY <1>5, <1>9, <1>10

\* Numbers in ascending order.
Rising(s) == \A i, j \in DOMAIN s : i < j => s[i] < s[j]

\* Flattening rising sequences, each above the ones before, is rising.
LEMMA FlattenRises ==
    ASSUME NEW ss \in Seq(Seq(Int)),
           \A i \in DOMAIN ss : Rising(ss[i]),
           \A i, j \in DOMAIN ss : i < j =>
             \A x \in Range(ss[i]), y \in Range(ss[j]) : x < y
    PROVE  /\ FlattenSeq(ss) \in Seq(Int)
           /\ Range(FlattenSeq(ss)) = UNION {Range(ss[i]) : i \in DOMAIN ss}
           /\ Rising(FlattenSeq(ss))
<1>1. CASE ss = << >>
  <2>1. FlattenSeq(ss) = << >>
    <3>1. Len(ss) = 0
      BY <1>1
    <3> QED BY <1>1, <3>1 DEF FlattenSeq
  <2>2. << >> \in Seq(Int) /\ DOMAIN << >> = {}
    OBVIOUS
  <2>3. Range(<< >>) = {} /\ Rising(<< >>)
    BY <2>2 DEF Range, Rising
  <2> QED BY <1>1, <2>1, <2>2, <2>3
<1>2. CASE ss # << >>
  <2>1. PICK g \in [1 .. Len(ss) -> Seq(Int)] :
             /\ FlattenSeq(ss) = g[Len(ss)]
             /\ g[1] = ss[1]
             /\ \A i \in 1 .. Len(ss) - 1 : g[i + 1] = g[i] \o ss[i + 1]
    BY <1>2, FlattenStep
  <2> DEFINE n == Len(ss)
             D == 1 .. n
  <2>2. n \in Nat /\ n >= 1 /\ DOMAIN ss = D /\ \A i \in D : ss[i] \in Seq(Int)
    BY <1>2
  <2> HIDE DEF n
  <2> DEFINE Good(k) == /\ Rising(g[k])
                        /\ \A x : x \in Range(g[k]) <=> \E i \in 1 .. k : x \in Range(ss[i])
             L == {k \in Nat : k + 1 \in D => Good(k + 1)}
  <2>3. g \in [D -> Seq(Int)] /\ g[1] = ss[1] /\ FlattenSeq(ss) = g[n]
        /\ \A i \in 1 .. n - 1 : g[i + 1] = g[i] \o ss[i + 1]
    BY <2>1, Zenon DEF n
  <2>4. 0 \in L
    <3>1. \A i \in 1 .. 1 : i = 1
      OBVIOUS
    <3>2. 1 \in 1 .. 1 /\ 1 \in D /\ 0 + 1 = 1
      BY <2>2
    <3>3. Good(1)
      BY <2>2, <2>3, <3>1, <3>2
    <3> HIDE DEF Good
    <3> QED BY <3>2, <3>3
  <2>5. ASSUME NEW k \in Nat, k \in L PROVE k + 1 \in L
    <3> SUFFICES ASSUME (k + 1) + 1 \in D PROVE Good((k + 1) + 1)
      OBVIOUS
    <3> DEFINE c == k + 1
    <3>1. c \in D /\ c \in 1 .. n - 1 /\ c + 1 \in D /\ c \in Nat
      BY <2>2
    <3>2. Good(c)
      BY <2>5, <3>1
    <3> HIDE DEF c
    <3>3. g[c + 1] = g[c] \o ss[c + 1] /\ g[c] \in Seq(Int) /\ ss[c + 1] \in Seq(Int)
      BY <2>2, <2>3, <3>1
    <3>4. \A x \in Range(g[c]), y \in Range(ss[c + 1]) : x < y
      <4> TAKE x \in Range(g[c]), y \in Range(ss[c + 1])
      <4>1. PICK i \in 1 .. c : x \in Range(ss[i])
        BY <3>2
      <4>2. i \in D /\ i < c + 1 /\ c + 1 \in D
        BY <2>2, <3>1
      <4> QED BY <2>2, <4>1, <4>2
    <3>5. Rising(g[c + 1])
      <4> DEFINE s == g[c]
                 t == ss[c + 1]
      <4>1. s \in Seq(Int) /\ t \in Seq(Int) /\ Rising(s) /\ Rising(t)
            /\ \A x \in Range(s), y \in Range(t) : x < y
        BY <2>2, <3>1, <3>2, <3>3, <3>4
      <4> HIDE DEF s, t
      <4>2. Rising(s \o t)
        <5> SUFFICES ASSUME NEW i \in DOMAIN (s \o t), NEW j \in DOMAIN (s \o t), i < j
                     PROVE  (s \o t)[i] < (s \o t)[j]
          BY DEF Rising
        <5>1. CASE j \in 1 .. Len(s)
          <6>1. i \in DOMAIN s /\ j \in DOMAIN s
            BY <4>1, <5>1
          <6> QED BY <4>1, <6>1 DEF Rising
        <5>2. CASE i \in 1 .. Len(s) /\ j \notin 1 .. Len(s)
          <6>1. i \in DOMAIN s /\ j - Len(s) \in DOMAIN t
            BY <4>1, <5>2
          <6>2. s[i] \in Range(s) /\ t[j - Len(s)] \in Range(t)
            BY <6>1 DEF Range
          <6>3. s[i] < t[j - Len(s)]
            BY <4>1, <6>2
          <6>4. (s \o t)[i] = s[i] /\ (s \o t)[j] = t[j - Len(s)]
            BY <4>1, <5>2
          <6> QED BY <6>3, <6>4
        <5>3. CASE i \notin 1 .. Len(s)
          <6>1. /\ i - Len(s) \in DOMAIN t /\ j - Len(s) \in DOMAIN t
                /\ i - Len(s) < j - Len(s) /\ j \notin 1 .. Len(s)
            BY <4>1, <5>3
          <6>2. t[i - Len(s)] < t[j - Len(s)]
            BY <4>1, <6>1 DEF Rising
          <6>3. (s \o t)[i] = t[i - Len(s)] /\ (s \o t)[j] = t[j - Len(s)]
            BY <4>1, <5>3, <6>1
          <6> QED BY <6>2, <6>3
        <5> QED BY <5>1, <5>2, <5>3
      <4> QED BY <3>3, <4>2 DEF s, t
    <3>6. Range(g[c + 1]) = Range(g[c]) \cup Range(ss[c + 1])
      BY <3>3, ConcatRange
    <3>7. \A i : i \in 1 .. c + 1 <=> (i \in 1 .. c \/ i = c + 1)
      BY <3>1
    <3>8. \A x : x \in Range(g[c + 1]) <=> \E i \in 1 .. c + 1 : x \in Range(ss[i])
      BY <3>2, <3>6, <3>7, Zenon
    <3> QED BY <3>5, <3>8 DEF c
  <2> HIDE DEF L
  <2>6. \A k \in Nat : k \in L
    BY <2>4, <2>5, NatInduct
  <2>7. Good(n)
    <3>1. n - 1 \in Nat /\ (n - 1) + 1 = n /\ n \in D
      BY <2>2
    <3>2. n - 1 \in L
      BY <2>6, <3>1
    <3> HIDE DEF Good
    <3> QED BY <3>1, <3>2 DEF L
  <2>8. g[n] \in Seq(Int)
    BY <2>2, <2>3
  <2>9. Range(g[n]) = UNION {Range(ss[i]) : i \in D}
    BY <2>7
  <2> QED BY <2>2, <2>3, <2>7, <2>8, <2>9
<1> QED BY <1>1, <1>2

\* The spatial dimension hands on a run.
LEMMA SpatialRuns ==
    ASSUME WalkInv, Built, N > 0, NEW q
    PROVE  Run(SpatialList(q))
<1>1. Root \in tiles
  <2>1. stage > 0
    BY Sizes DEF Built
  <2> QED BY <2>1, RootIs
<1>2. ASSUME NEW s, Lists(s, Root) PROVE Run(s)
  <2>1. \A x \in Range(s) : x.front < x.back
    BY <1>2, TileEdges DEF Lists
  <2> QED BY <1>2, <2>1 DEF Run, Lists
<1>3. Run(QueryTile(q)[Root]) /\ Run(QueryRegion(q)[Root])
  BY <1>1, <1>2, WalksList
<1>4. Run(<< Labelled(Pivot(0, N), None) >>)
  <2> DEFINE p == Labelled(Pivot(0, N), None)
  <2>1. p.front = 0 /\ p.back = N /\ p \in Answers
    BY Sizes DEF Labelled, Pivot, Answers
  <2> HIDE DEF p
  <2>2. << p >> \in Seq(Answers) /\ Ascending(<< p >>) /\ Range(<< p >>) = {p}
    BY <2>1 DEF Ascending, Range
  <2>3. Run(<< p >>)
    BY <2>1, <2>2 DEF Run
  <2> QED BY <2>3 DEF p
<1> QED BY <1>3, <1>4 DEF SpatialList

\* What a dimension hands on is a run, also the last one.
RangeRuns == N > 0 /\ dim > 0 => Run(range)

\* Every step keeps it one.
LEMMA StepRuns ==
    ASSUME QueryInv, RangeRuns, [QueryNext]_allVars
    PROVE  RangeRuns'
<1>1. CASE Next /\ UNCHANGED queryVars
  BY <1>1 DEF RangeRuns, queryVars
<1>2. CASE \E q \in Queries : Ask(q)
  <2>1. dim = 0 /\ dim' = dim
    BY <1>2 DEF Ask, QueryInv, QueryPhase
  <2> QED BY <2>1 DEF RangeRuns
<1>3. CASE SeekNode \/ VisitNode \/ LeaveRange \/ Serialize \/ UNCHANGED allVars
  <2>1. range' = range /\ dim' = dim
    BY <1>3 DEF SeekNode, VisitNode, LeaveRange, Serialize, allVars, queryVars
  <2> QED BY <2>1 DEF RangeRuns
<1>4. CASE QuerySpatial
  <2>1. query # None /\ dim = 0 /\ Built /\ WalkInv /\ range = << Labelled(Pivot(0, N), None) >>
    BY <1>4 DEF QuerySpatial, QueryInv, QueryPhase
  <2>2. range' = SpatialList(query)
    BY <1>4, <2>1 DEF QuerySpatial, SpatialList
  <2>3. N > 0 => Run(range')
    BY <2>1, <2>2, SpatialRuns
  <2> QED BY <2>3 DEF RangeRuns
<1>5. CASE SkipDim
  <2>1. range' = range /\ dim > 0
    BY <1>5, Sizes DEF SkipDim
  <2> QED BY <2>1 DEF RangeRuns
<1>6. CASE FinishDim
  <2>1. range' = found /\ dim \in 1 .. Dims
    BY <1>6 DEF FinishDim
  <2>2. N > 0 => Run(found)
    BY <2>1 DEF QueryInv, LoopFits, FoundFits
  <2> QED BY <2>1, <2>2 DEF RangeRuns
<1> QED BY <1>1, <1>2, <1>3, <1>4, <1>5, <1>6 DEF QueryNext, QueryStep

\* The positions a range holds, one after the other.
Positions(r) ==
    FlattenSeq([j \in DOMAIN r |-> [k \in 1 .. Size(r[j]) |-> r[j].front + k - 1]])

\* They rise, and are all the range holds.
LEMMA PositionsRise ==
    ASSUME NEW r, Run(r)
    PROVE  /\ Positions(r) \in Seq(Int)
           /\ Range(Positions(r)) = Held(r)
           /\ Rising(Positions(r))
<1> DEFINE one(j) == [k \in 1 .. Size(r[j]) |-> r[j].front + k - 1]
           ss == [j \in DOMAIN r |-> one(j)]
<1>1. r \in Seq(Answers) /\ DOMAIN r = 1 .. Len(r) /\ Len(r) \in Nat
  BY DEF Run
<1>2. ASSUME NEW j \in DOMAIN r
      PROVE  one(j) \in Seq(Int) /\ Rising(one(j)) /\ Range(one(j)) = Span(r[j])
  <2> DEFINE a == r[j].front
             b == r[j].back
  <2>1. a \in Int /\ b \in Int /\ a < b
    BY <1>1, AnswerEdges DEF Run
  <2>2. one(j) = [k \in 1 .. b - a |-> a + k - 1] /\ Span(r[j]) = a .. b - 1
    BY DEF Size, Span
  <2> DEFINE s == [k \in 1 .. b - a |-> a + k - 1]
  <2> HIDE DEF a, b, one
  <2>3. s \in Seq(Int) /\ DOMAIN s = 1 .. b - a
    BY <2>1
  <2>4. Rising(s)
    BY <2>1 DEF Rising
  <2>5. \A x \in a .. b - 1 : \E k \in DOMAIN s : x = s[k]
    <3> TAKE x \in a .. b - 1
    <3>1. x - a + 1 \in DOMAIN s /\ s[x - a + 1] = x
      BY <2>1
    <3> QED BY <3>1
  <2>6. \A k \in DOMAIN s : s[k] \in a .. b - 1
    BY <2>1
  <2> HIDE DEF s
  <2>7. Range(s) = a .. b - 1
    BY <2>5, <2>6 DEF Range
  <2> QED BY <2>2, <2>3, <2>4, <2>7 DEF s
<1> HIDE DEF one
<1>3. ss \in Seq(Seq(Int)) /\ DOMAIN ss = DOMAIN r /\ \A j \in DOMAIN r : ss[j] = one(j)
  BY <1>1, <1>2
<1>4. ASSUME NEW i \in DOMAIN r, NEW j \in DOMAIN r, i < j,
             NEW x \in Span(r[i]), NEW y \in Span(r[j])
      PROVE  x < y
  <2>1. r[i].back <= r[j].front
    BY <1>4 DEF Run, Ascending
  <2>2. /\ r[i].front \in Int /\ r[i].back \in Int /\ r[j].front \in Int /\ r[j].back \in Int
    BY <1>1, AnswerEdges
  <2> QED BY <2>1, <2>2 DEF Span
<1> HIDE DEF ss
<1>5. /\ FlattenSeq(ss) \in Seq(Int) /\ Rising(FlattenSeq(ss))
      /\ Range(FlattenSeq(ss)) = UNION {Range(ss[i]) : i \in DOMAIN ss}
  BY <1>2, <1>3, <1>4, FlattenRises
<1>6. UNION {Range(ss[i]) : i \in DOMAIN ss} = Held(r)
  <2>1. UNION {Range(ss[i]) : i \in DOMAIN ss} = UNION {Span(r[i]) : i \in DOMAIN r}
    BY <1>2, <1>3
  <2>2. UNION {Span(r[i]) : i \in DOMAIN r} = UNION {Span(p) : p \in Range(r)}
    BY DEF Range
  <2> QED BY <2>1, <2>2 DEF Held
<1>7. Positions(r) = FlattenSeq(ss)
  BY DEF Positions, ss, one
<1> QED BY <1>5, <1>6, <1>7

\* As many values as an injection has arguments.
LEMMA ImageCount ==
    ASSUME NEW m \in Nat, NEW f, \A i, j \in 1 .. m : f[i] = f[j] => i = j,
           NEW V, V = {f[k] : k \in 1 .. m}
    PROVE  IsFiniteSet(V) /\ Cardinality(V) = m
<1> DEFINE D == 1 .. m
           h == [k \in D |-> f[k]]
<1>1. h \in Bijection(D, V)
  BY DEF Bijection, Injection, Surjection, IsInjective
<1>2. ExistsBijection(D, V)
  BY <1>1 DEF ExistsBijection
<1>3. IsFiniteSet(D) /\ Cardinality(D) = m
  BY FS_Interval
<1> HIDE DEF D
<1>4. IsFiniteSet(V) /\ Cardinality(V) = Cardinality(D)
  BY <1>2, <1>3, FS_Bijection, Zenon
<1> QED BY <1>3, <1>4

\* A rising sequence has as many elements as places.
LEMMA RisingLength ==
    ASSUME NEW s \in Seq(Int), Rising(s)
    PROVE  Cardinality(Range(s)) = Len(s)
<1>1. Len(s) \in Nat /\ DOMAIN s = 1 .. Len(s)
  OBVIOUS
<1>2. \A i, j \in 1 .. Len(s) : s[i] = s[j] => i = j
  <2> SUFFICES ASSUME NEW i \in 1 .. Len(s), NEW j \in 1 .. Len(s), s[i] = s[j], i # j PROVE FALSE
    OBVIOUS
  <2>1. s[i] \in Int /\ s[j] \in Int /\ (i < j \/ j < i)
    OBVIOUS
  <2> QED BY <2>1, <1>1 DEF Rising
<1>3. Range(s) = {s[k] : k \in 1 .. Len(s)}
  BY <1>1 DEF Range
<1> DEFINE m == Len(s)
<1>4. m \in Nat /\ (\A i, j \in 1 .. m : s[i] = s[j] => i = j) /\ Range(s) = {s[k] : k \in 1 .. m}
  BY <1>1, <1>2, <1>3
<1> HIDE DEF m
<1>5. Cardinality(Range(s)) = m
  BY <1>4, ImageCount
<1> QED BY <1>5 DEF m

\* Every record is at some position.
LEMMA IndexOnto ==
    ASSUME IInv, NEW r \in Records
    PROVE  \E i \in Records : index[i] = r
<1>1. index \in [Records -> Records] /\ IsInjective(index) /\ IsFiniteSet(Records)
  <2>1. IsFiniteSet(0 .. N - 1)
    BY Sizes, FS_Interval
  <2> QED BY <2>1 DEF IInv, TypeOK, Records
<1>2. index \in Injection(Records, Records)
  BY <1>1 DEF Injection, IsInjective
<1>3. index \in Surjection(Records, Records)
  BY <1>1, <1>2, FS_Injection
<1> QED BY <1>3 DEF Surjection

-----------------------------------------------------------------------------
(* The rows answered are those of the records that pass.                   *)

\* The records at the positions of a range.
LEMMA SpatialAt ==
    ASSUME WalkInv, Built, N > 0, NEW q
    PROVE  SpatialRecords(q) = {index[i] : i \in Held(SpatialList(q))}
<1>1. SpatialList(q) \in Seq(Answers) /\ Run(SpatialList(q))
  BY SpatialRuns DEF Run
<1>2. CASE EvalSpatial(q)
  <2> DEFINE S == Range(SpatialList(q))
  <2>1. SpatialRecords(q) = UNION {RecordsOf(p) : p \in S}
    BY <1>2 DEF SpatialRecords, SpatialList
  <2>2. Held(SpatialList(q)) = UNION {Span(p) : p \in S}
    BY DEF Held
  <2> HIDE DEF S
  <2>3. UNION {RecordsOf(p) : p \in S} = {index[i] : i \in UNION {Span(p) : p \in S}}
    <3>1. \A p \in S : RecordsOf(p) = {index[i] : i \in Span(p)}
      BY DEF RecordsOf
    <3>2. ASSUME NEW r \in UNION {RecordsOf(p) : p \in S}
          PROVE  r \in {index[i] : i \in UNION {Span(p) : p \in S}}
      <4>1. PICK p \in S : r \in RecordsOf(p)
        BY <3>2, Zenon
      <4>2. PICK i \in Span(p) : r = index[i]
        BY <3>1, <4>1
      <4>3. i \in UNION {Span(x) : x \in S}
        BY <4>1, <4>2, Zenon
      <4> QED BY <4>2, <4>3
    <3>3. ASSUME NEW i \in UNION {Span(p) : p \in S}
          PROVE  index[i] \in UNION {RecordsOf(p) : p \in S}
      <4>1. PICK p \in S : i \in Span(p)
        BY <3>3, Zenon
      <4>2. index[i] \in RecordsOf(p)
        BY <3>1, <4>1
      <4> QED BY <4>1, <4>2, Zenon
    <3> QED BY <3>2, <3>3
  <2> QED BY <2>1, <2>2, <2>3
<1>3. CASE ~EvalSpatial(q)
  <2>1. SpatialRecords(q) = Records
    BY <1>3 DEF SpatialRecords
  <2>2. Held(SpatialList(q)) = Records
    <3> DEFINE p == Labelled(Pivot(0, N), None)
    <3>1. Span(p) = 0 .. N - 1
      BY DEF Labelled, Pivot, Span
    <3>2. SpatialList(q) = << p >>
      BY <1>3 DEF SpatialList
    <3> HIDE DEF p
    <3>3. Range(<< p >>) = {p}
      BY DEF Range
    <3> QED BY <3>1, <3>2, <3>3 DEF Held, Records
  <2>3. \A r \in Records : \E i \in Records : r = index[i]
    BY IndexOnto DEF WalkInv, TilesInv
  <2>4. \A i \in Records : index[i] \in Records
    BY DEF WalkInv, TilesInv, IInv, TypeOK
  <2> QED BY <2>1, <2>2, <2>3, <2>4
<1> QED BY <1>2, <1>3

\* What passes every dimension passes the query.
LEMMA PassesAll ==
    ASSUME NEW q, NEW c, NEW i
    PROVE  Passes(q, index[i], c) <=> \A d \in 1 .. Dims : Admits(q, d, c, i)
<1>1. /\ CategoricalDims = {d \in 1 .. Dims : ~IsTemporal(d)}
      /\ TemporalDims = {d \in 1 .. Dims : IsTemporal(d)}
  <2>1. Len(Categories) \in Nat /\ Len(Buckets) \in Nat
    BY CubeAssumption
  <2> QED BY <2>1 DEF CategoricalDims, TemporalDims, IsTemporal, Dims
<1>2. Passes(q, index[i], c) <=>
        /\ \A d \in CategoricalDims : ~IsTemporal(d) => Admits(q, d, c, i)
        /\ \A d \in TemporalDims : IsTemporal(d) => Admits(q, d, c, i)
  <2>1. \A d \in CategoricalDims : ~IsTemporal(d)
    BY <1>1
  <2>2. \A d \in TemporalDims : IsTemporal(d)
    BY <1>1
  <2> QED BY <2>1, <2>2 DEF Passes, Admits
<1> QED BY <1>1, <1>2

\* The reference, by positions.
LEMMA ReferenceAt ==
    ASSUME WalkInv, Built, N > 0, NEW q, NEW c
    PROVE  Reference(q, c) = {index[i] : i \in Through(q, Dims, c)}
<1> DEFINE H == Held(SpatialList(q))
           A(i) == \A d \in 1 .. Dims : Admits(q, d, c, i)
<1>1. SpatialRecords(q) = {index[i] : i \in H}
  BY SpatialAt
<1>2. \A i : Passes(q, index[i], c) <=> A(i)
  BY PassesAll
<1>3. Reference(q, c) = {index[i] : i \in {j \in H : A(j)}}
  <2> HIDE DEF H, A
  <2> QED BY <1>1, <1>2 DEF Reference
<1>4. {j \in H : A(j)} = Through(q, Dims, c)
  <2>1. SpatialList(q) \in Seq(Answers)
    BY SpatialRuns DEF Run
  <2>2. \A j \in H : j \in Records
    BY <2>1, HeldRecords
  <2>3. \A j \in H : A(j) <=> \A d \in 1 .. Dims : j \in Passing(q, d, c)
    BY <2>2 DEF Passing
  <2> HIDE DEF A
  <2> QED BY <2>3 DEF Through
<1> QED BY <1>3, <1>4

\* A query answered by rows writes those of the range.
LEMMA RowsMatch ==
    ASSUME WalkInv, Built, N > 0, Run(range), NEW q, Narrowed(q, Dims, range)
    PROVE  /\ Rows \subseteq Reference(q, TRUE)
           /\ Cardinality(Rows) = Min({MaxRows, Total})
           /\ Total <= MaxRows => Reference(q, FALSE) \subseteq Rows
<1> DEFINE s == Positions(range)
           m == Min({MaxRows, Len(s)})
<1>1. s \in Seq(Int) /\ Range(s) = Held(range) /\ Rising(s)
  BY PositionsRise
<1>2. Rows = {index[s[k]] : k \in 1 .. m}
  BY DEF Rows, Positions
<1>3. Total = Len(s)
  <2> HIDE DEF s
  <2> QED BY <1>1, TotalIs, RisingLength
<1> HIDE DEF s
<1>4. /\ m \in Nat /\ m <= Len(s) /\ (Len(s) <= MaxRows => m = Len(s))
      /\ Len(s) \in Nat /\ DOMAIN s = 1 .. Len(s)
  <2> DEFINE n == Len(s)
             T == {MaxRows, n}
  <2>1. MaxRows \in Nat /\ n \in Nat /\ DOMAIN s = 1 .. n
    BY <1>1, QueriesAssumption
  <2> HIDE DEF n
  <2>2. \E a \in T : \A b \in T : a <= b
    BY <2>1
  <2> HIDE DEF T
  <2>3. Min(T) \in T /\ \A b \in T : Min(T) <= b
    BY <2>2, Zenon DEF Min
  <2>4. PICK k : k = Min(T)
    OBVIOUS
  <2>5. k \in {MaxRows, n} /\ k <= MaxRows /\ k <= n
    BY <2>3, <2>4 DEF T
  <2>6. k \in Nat /\ k <= n /\ (n <= MaxRows => k = n)
    BY <2>1, <2>5
  <2>7. m = k
    BY <2>4 DEF T, n
  <2> QED BY <2>1, <2>6, <2>7 DEF n
<1> HIDE DEF m
<1>0. \A k \in 1 .. m : k \in DOMAIN s /\ k \in Int
  <2> DEFINE n == Len(s)
  <2>1. m \in Nat /\ n \in Nat /\ m <= n /\ DOMAIN s = 1 .. n
    BY <1>4
  <2> HIDE DEF n
  <2> QED BY <2>1
<1>5. \A k \in 1 .. m : k \in DOMAIN s /\ s[k] \in Held(range) /\ s[k] \in Records
  <2> TAKE k \in 1 .. m
  <2>1. k \in DOMAIN s
    BY <1>0
  <2>2. s[k] \in Held(range)
    BY <1>1, <2>1 DEF Range
  <2> QED BY <2>1, <2>2, HeldRecords DEF Run
<1>6. /\ Reference(q, TRUE) = {index[i] : i \in Through(q, Dims, TRUE)}
      /\ Reference(q, FALSE) = {index[i] : i \in Through(q, Dims, FALSE)}
  BY ReferenceAt
<1>7. Rows \subseteq Reference(q, TRUE)
  BY <1>2, <1>5, <1>6 DEF Narrowed
<1>8. Cardinality(Rows) = m
  <2> DEFINE f == [k \in 1 .. m |-> index[s[k]]]
  <2>1. index \in [Records -> Records] /\ IsInjective(index)
    BY DEF WalkInv, TilesInv, IInv, TypeOK
  <2>2. \A i, j \in 1 .. m : f[i] = f[j] => i = j
    <3> SUFFICES ASSUME NEW i \in 1 .. m, NEW j \in 1 .. m, index[s[i]] = index[s[j]], i # j
                 PROVE  FALSE
      OBVIOUS
    <3>1. s[i] = s[j]
      BY <1>5, <2>1 DEF IsInjective
    <3>2. i < j \/ j < i
      BY <1>0
    <3>3. s[i] \in Int
      BY <1>1, <1>5
    <3> QED BY <1>5, <3>1, <3>2, <3>3, <1>1 DEF Rising
  <2>3. Rows = {f[k] : k \in 1 .. m}
    BY <1>2
  <2> HIDE DEF f
  <2>4. PICK V : V = Rows
    OBVIOUS
  <2>5. V = {f[k] : k \in 1 .. m}
    BY <2>3, <2>4
  <2>6. m \in Nat
    BY <1>4
  <2>7. Cardinality(V) = m
    BY <2>2, <2>5, <2>6, ImageCount
  <2> QED BY <2>4, <2>7
<1>9. ASSUME Len(s) <= MaxRows, NEW r \in Reference(q, FALSE) PROVE r \in Rows
  <2>1. PICK i \in Through(q, Dims, FALSE) : r = index[i]
    BY <1>6, <1>9
  <2>2. i \in Range(s)
    BY <1>1, <2>1 DEF Narrowed
  <2>3. PICK k \in DOMAIN s : i = s[k]
    BY <2>2 DEF Range
  <2>4. k \in 1 .. m
    BY <1>4, <1>9, <2>3
  <2> QED BY <1>2, <2>1, <2>3, <2>4
<1> QED BY <1>3, <1>7, <1>8, <1>9 DEF m

\* What was answered is what the range of the last dimension is written as.
AnswerFits ==
    answer # None => /\ Built /\ query # None /\ dim = Dims + 1
                     /\ query.type = "MYSQL" => answer = Rows

\* The inductive invariant of the selection.
AnswerInv ==
    /\ SelectFacts /\ RangeRuns /\ AnswerFits
    /\ HashesKeepOrder /\ LabelsTellApart => SelectInv

\* Nothing is answered yet.
LEMMA InitAnswer == QueryInit => AnswerInv
<1> SUFFICES ASSUME QueryInit PROVE AnswerInv
  OBVIOUS
<1>1. Init /\ query = None /\ answer = None /\ dim = 0
  BY DEF QueryInit
<1>2. QueryInv /\ PartsCounted /\ ValuesAscend
  BY <1>1, InitQuery, InitPartsCounted, InitValuesAscend
<1>3. PartsHoldTheirRecords
  <2>1. \A d \in 1 .. Dims : nodes[d] = << >>
    BY <1>1 DEF Init
  <2>2. \A d \in 1 .. Dims : Range(nodes[d]) = {}
    BY <2>1 DEF Range
  <2> QED BY <2>2 DEF PartsHoldTheirRecords
<1> QED BY <1>1, <1>2, <1>3 DEF AnswerInv, SelectFacts, RangeRuns, AnswerFits, SelectInv

\* A step of a query leaves the cube alone.
LEMMA QueryLeavesCube ==
    ASSUME [QueryNext]_allVars
    PROVE  /\ [Next]_vars
           /\ ~(Next /\ UNCHANGED queryVars) => UNCHANGED vars
BY DEF QueryNext, QueryStep, Ask, QuerySpatial, SkipDim, SeekNode, VisitNode, LeaveRange,
       FinishDim, Serialize, allVars

\* What is known of a query stays known.
LEMMA NextSelectFacts ==
    ASSUME SelectFacts, [QueryNext]_allVars
    PROVE  SelectFacts'
<1>1. [Next]_vars
  BY QueryLeavesCube
<1>2. QueryInv'
  BY NextQuery DEF SelectFacts
<1>3. IInv /\ PiecesFit /\ PartsInv
  BY DEF SelectFacts, QueryInv, WalkInv, TilesInv, PartsInv
<1>4. PartsCounted' /\ ValuesAscend'
  BY <1>1, <1>3, NextPartsCounted, NextValuesAscend DEF SelectFacts
<1>5. (HashesKeepOrder => PartsHoldTheirRecords)'
  <2>1. data' = data
    BY <1>1, DataStays
  <2>2. HashesKeepOrder' => HashesKeepOrder
    BY <2>1 DEF HashesKeepOrder
  <2> QED BY <1>1, <1>3, <2>2, NextPartsHold DEF SelectFacts
<1>6. (query # None => query \in Queries)'
  <2>1. CASE \E q \in Queries : Ask(q)
    BY <2>1 DEF Ask
  <2>2. CASE ~(\E q \in Queries : Ask(q))
    <3>1. query' = query
      BY <2>2 DEF QueryNext, QueryStep, QuerySpatial, SkipDim, SeekNode, VisitNode, LeaveRange,
                  FinishDim, Serialize, allVars, queryVars
    <3> QED BY <3>1 DEF SelectFacts
  <2> QED BY <2>1, <2>2
<1> QED BY <1>2, <1>4, <1>5, <1>6 DEF SelectFacts

\* Every step keeps to what passes.
LEMMA NextSelects ==
    ASSUME SelectFacts, HashesKeepOrder, LabelsTellApart, SelectInv, QueryInv',
           [QueryNext]_allVars
    PROVE  SelectInv'
<1>1. CASE Next /\ UNCHANGED queryVars
  <2>1. ~Built
    BY <1>1, BuildOver DEF SelectFacts, QueryInv, WalkInv, TilesInv
  <2>2. query = None /\ query' = query
    BY <1>1, <2>1 DEF SelectFacts, QueryInv, QueryPhase, queryVars
  <2> QED BY <2>2 DEF SelectInv
<1>2. CASE \E q \in Queries : Ask(q)
  <2>1. query = None /\ dim' = dim
    BY <1>2 DEF Ask
  <2>2. dim' = 0
    BY <2>1 DEF SelectFacts, QueryInv, QueryPhase
  <2> QED BY <2>2 DEF SelectInv
<1>3. CASE Serialize \/ UNCHANGED allVars
  <2>1. UNCHANGED <<vars, query, dim, range, found, at, it>>
    BY <1>3 DEF Serialize, cursorVars, allVars, queryVars
  <2> PICK q : q = query
    OBVIOUS
  <2> PICK d : d = dim
    OBVIOUS
  <2> PICK r : r = range
    OBVIOUS
  <2> PICK f : f = found
    OBVIOUS
  <2> PICK i : i = it
    OBVIOUS
  <2> PICK a : a = at
    OBVIOUS
  <2>2. Selects(q, d, r, f, i, a) => Selects(q, d, r, f, i, a)'
    BY <2>1, SelectsStays
  <2> QED BY <2>1, <2>2 DEF SelectInv
<1> QED BY <1>1, <1>2, <1>3, QuerySpatialSelects, SkipDimSelects, SeekNodeSelects,
           VisitNodeSelects, LeaveRangeSelects, FinishDimSelects
           DEF QueryNext, QueryStep, SelectFacts

\* The answer is written once, from the last range.
LEMMA NextAnswerFits ==
    ASSUME SelectFacts, AnswerFits, [QueryNext]_allVars
    PROVE  AnswerFits'
<1>1. CASE answer = None /\ ~Serialize
  <2>1. answer' = answer
    BY <1>1 DEF QueryNext, Ask, QueryStep, QuerySpatial, SkipDim, SeekNode, VisitNode, LeaveRange,
                  FinishDim, allVars, queryVars
  <2> QED BY <1>1, <2>1 DEF AnswerFits
<1>2. CASE Serialize
  <2>1. /\ UNCHANGED <<vars, query, dim, range>> /\ query # None /\ dim = Dims + 1 /\ Built
        /\ answer' = Serialized
    BY <1>2 DEF Serialize, SelectFacts, QueryInv, QueryPhase
  <2>2. index' = index /\ range' = range /\ Built'
    BY <2>1 DEF vars, Built
  <2>3. Rows' = Rows
    BY <2>2 DEF Rows
  <2>4. query.type = "MYSQL" => Serialized = Rows
    BY DEF Serialized
  <2> QED BY <2>1, <2>2, <2>3, <2>4 DEF AnswerFits
<1>3. CASE answer # None /\ ~Serialize
  <2>1. Built /\ query # None /\ dim = Dims + 1 /\ dim \notin 1 .. Dims /\ dim # 0
    BY <1>3, Sizes DEF AnswerFits
  <2>2. ~inRange
    BY <2>1 DEF SelectFacts, QueryInv, QueryPhase
  <2>3. ~Next
    BY <2>1, BuildOver DEF SelectFacts, QueryInv, WalkInv, TilesInv
  <2>4. UNCHANGED allVars
    BY <1>3, <2>1, <2>2, <2>3 DEF QueryNext, Ask, QueryStep, QuerySpatial, SkipDim, SeekNode,
                                  VisitNode, LeaveRange, FinishDim
  <2>5. /\ UNCHANGED <<index, range, stage, query, dim, answer>>
    BY <2>4 DEF allVars, vars, queryVars
  <2>6. Rows' = Rows /\ (Built' <=> Built)
    BY <2>5 DEF Rows, Built
  <2> QED BY <2>5, <2>6 DEF AnswerFits
<1> QED BY <1>1, <1>2, <1>3

\* Every step keeps the invariant.
LEMMA NextAnswer ==
    ASSUME AnswerInv, [QueryNext]_allVars
    PROVE  AnswerInv'
<1>1. SelectFacts' /\ QueryInv'
  BY NextSelectFacts DEF AnswerInv, SelectFacts
<1>2. RangeRuns' /\ AnswerFits'
  BY StepRuns, NextAnswerFits DEF AnswerInv, SelectFacts
<1>3. (HashesKeepOrder /\ LabelsTellApart => SelectInv)'
  <2>1. data' = data
    BY QueryLeavesCube, DataStays
  <2>2. HashesKeepOrder' /\ LabelsTellApart' => HashesKeepOrder /\ LabelsTellApart
    BY <2>1 DEF HashesKeepOrder, LabelsTellApart
  <2> QED BY <1>1, <2>2, NextSelects DEF AnswerInv
<1> QED BY <1>1, <1>2, <1>3 DEF AnswerInv

\* The rows answered to a query are those of records that pass it: each
\* dimension keeps, of the pivots handed to it, the parts whose records pass,
\* so that the last range has every record that passes the tile or region, the
\* sets of values and the intervals, and no other but for times equal to an
\* upper bound; MySQLSerializer writes its first MaxRows, each record once.
\* The values of the dataset must keep their order in 16 bits (Data::setHash)
\* and fit the byte of a categorical_t, and the dataset must not be empty.
THEOREM RowsHold ==
    QuerySpec => [](N > 0 /\ HashesKeepOrder /\ LabelsTellApart => RowsMatchQuery)
<1>1. QueryInit => AnswerInv
  BY InitAnswer
<1>2. AnswerInv /\ [QueryNext]_allVars => AnswerInv'
  BY NextAnswer
<1>3. AnswerInv => (N > 0 /\ HashesKeepOrder /\ LabelsTellApart => RowsMatchQuery)
  <2> SUFFICES ASSUME AnswerInv, N > 0, HashesKeepOrder, LabelsTellApart, answer # None,
                      query.type = "MYSQL"
               PROVE  /\ answer \subseteq Reference(query, TRUE)
                      /\ Cardinality(answer) = Min({MaxRows, Total})
                      /\ Total <= MaxRows => Reference(query, FALSE) \subseteq answer
    BY DEF RowsMatchQuery
  <2>1. /\ answer = Rows /\ Built /\ query # None /\ dim = Dims + 1 /\ dim > 0 /\ dim - 1 = Dims
        /\ WalkInv /\ Run(range) /\ SelectInv
    BY Sizes DEF AnswerInv, AnswerFits, SelectFacts, QueryInv, RangeRuns
  <2>2. Narrowed(query, Dims, range)
    <3>1. Heeds(query)
      BY DEF Heeds
    <3> QED BY <2>1, <3>1 DEF SelectInv, Selects
  <2> QED BY <2>1, <2>2, RowsMatch
<1> QED BY <1>1, <1>2, <1>3, PTL DEF QuerySpec

-----------------------------------------------------------------------------
(* Counting by key.                                                        *)

\* The recursion of MapThenSumSet.
LEMMA AggregateSums ==
    ASSUME NEW key, NEW fine
    PROVE  Aggregate(key, fine) =
             {[key |-> k,
               count |-> (CHOOSE f : f =
                            [s \in SUBSET {pair \in DOMAIN key : key[pair] = k} |->
                               IF s = {} THEN 0
                               ELSE Size(fine[(CHOOSE x \in s : TRUE)[2]])
                                      + f[s \ {CHOOSE x \in s : TRUE}]])
                          [{pair \in DOMAIN key : key[pair] = k}]] : k \in Range(key)}
BY Zenon DEF Aggregate, MapThenSumSet, MapThenFoldSet

\* And of CountSum.
LEMMA CountSums ==
    ASSUME NEW counts
    PROVE  CountSum(counts) =
             (CHOOSE f : f = [s \in SUBSET counts |->
                                IF s = {} THEN 0
                                ELSE (CHOOSE x \in s : TRUE).count
                                       + f[s \ {CHOOSE x \in s : TRUE}]])[counts]
BY Zenon DEF CountSum, MapThenSumSet, MapThenFoldSet

\* The count of a key that was not written, and of one written once.
LEMMA CountsNone == CountSum({}) = 0
<1> DEFINE F(f) == [s \in SUBSET {} |-> IF s = {} THEN 0
                                        ELSE (CHOOSE x \in s : TRUE).count
                                               + f[s \ {CHOOSE x \in s : TRUE}]]
<1>1. CountSum({}) = (CHOOSE f : f = F(f))[{}]
  BY CountSums
<1>2. \A f : F(f) = [s \in SUBSET {} |-> 0]
  <2> TAKE f
  <2>1. \A s \in SUBSET {} : s = {}
    OBVIOUS
  <2> QED BY <2>1
<1>3. \A f : F(f)[{}] = 0
  BY <1>2
<1>4. \E f : f = F(f)
  BY <1>2
<1> HIDE DEF F
<1>5. PICK f : f = (CHOOSE x : x = F(x)) /\ f = F(f)
  BY <1>4, Zenon
<1>6. f[{}] = 0
  BY <1>3, <1>5
<1>7. CountSum({}) = f[{}]
  BY <1>1, <1>5, Zenon
<1> QED BY <1>6, <1>7

\* A single count.
LEMMA CountsOne ==
    ASSUME NEW c, c.count \in Nat PROVE CountSum({c}) = c.count
<1> DEFINE S == {c}
           g == [x \in S |-> x.count]
           F(f) == [s \in SUBSET S |-> IF s = {} THEN 0
                                       ELSE (CHOOSE x \in s : TRUE).count
                                              + f[s \ {CHOOSE x \in s : TRUE}]]
<1>1. CountSum(S) = (CHOOSE f : f = F(f))[S]
  BY CountSums
<1>2. ASSUME NEW s \in SUBSET S, s # {}
      PROVE  g[CHOOSE x \in s : TRUE] = (CHOOSE x \in s : TRUE).count
  <2>1. (CHOOSE x \in s : TRUE) \in s
    BY <1>2
  <2> QED BY <2>1
<1>3. \A f : Sums(f, S, g) <=> f = F(f)
  <2> TAKE f
  <2>1. ASSUME NEW s \in SUBSET S
        PROVE  (IF s = {} THEN 0 ELSE g[CHOOSE x \in s : TRUE] + f[s \ {CHOOSE x \in s : TRUE}])
                 = (IF s = {} THEN 0
                    ELSE (CHOOSE x \in s : TRUE).count + f[s \ {CHOOSE x \in s : TRUE}])
    <3> HIDE DEF g, S
    <3> QED BY <1>2
  <2> HIDE DEF g, S
  <2>2. [s \in SUBSET S |-> IF s = {} THEN 0
                            ELSE g[CHOOSE x \in s : TRUE] + f[s \ {CHOOSE x \in s : TRUE}]]
          = F(f)
    BY <2>1, Zenon
  <2> QED BY <2>2, Zenon DEF Sums
<1>4. IsFiniteSet(S)
  BY FS_Singleton
<1>5. \E f : f = F(f)
  <2> HIDE DEF F, S, g
  <2> QED BY <1>3, <1>4, SumsExist
<1>6. PICK f : f = (CHOOSE x : x = F(x)) /\ f = F(f)
  <2> HIDE DEF F
  <2> QED BY <1>5, Zenon
<1>7. f[S] = c.count
  <2>1. f[{}] = 0
    BY <1>6
  <2>2. (CHOOSE x \in S : TRUE) = c /\ S \ {c} = {}
    OBVIOUS
  <2>3. f[S] = (CHOOSE x \in S : TRUE).count + f[S \ {CHOOSE x \in S : TRUE}]
    BY <1>6
  <2>4. f[S] = c.count + 0
    BY <2>1, <2>2, <2>3
  <2> QED BY <2>4
<1> HIDE DEF F
<1> QED BY <1>1, <1>6, <1>7 DEF S

\* What a range holds is in one of its pivots.
LEMMA HeldPivot ==
    ASSUME NEW r, NEW x \in Held(r)
    PROVE  \E j \in DOMAIN r : x \in Span(r[j])
<1>1. PICK p \in Range(r) : x \in Span(p)
  BY Zenon DEF Held
<1>2. PICK j \in DOMAIN r : p = r[j]
  BY DEF Range
<1> QED BY <1>1, <1>2

\* What a pivot of a range holds the range holds.
LEMMA PivotHeld ==
    ASSUME NEW r, NEW j \in DOMAIN r, NEW x \in Span(r[j])
    PROVE  x \in Held(r)
<1>1. r[j] \in Range(r)
  BY DEF Range
<1> QED BY <1>1, Zenon DEF Held

\* The second parts of the pairs S are places of fine, each at most once.
Places(S, fine) ==
    /\ \A x \in S : x[2] \in DOMAIN fine
    /\ \A x, y \in S : x[2] = y[2] => x = y

\* The size of the place of each pair.
Weights(S, fine) == [x \in S |-> Size(fine[x[2]])]

\* The sizes of some pivots of a range add up to what these pivots hold.
LEMMA SizesAdd ==
    ASSUME NEW fine, Run(fine), NEW S, IsFiniteSet(S), Places(S, fine),
           NEW sum, Sums(sum, S, Weights(S, fine))
    PROVE  /\ IsFiniteSet(UNION {Span(fine[x[2]]) : x \in S})
           /\ sum[S] = Cardinality(UNION {Span(fine[x[2]]) : x \in S})
<1> DEFINE g == Weights(S, fine)
           h == [x \in S |-> Span(fine[x[2]])]
<1>1. ASSUME NEW j \in DOMAIN fine
      PROVE  IsFiniteSet(Span(fine[j])) /\ Size(fine[j]) = Cardinality(Span(fine[j]))
  <2> DEFINE a == fine[j].front
             b == fine[j].back
  <2>1. a \in Int /\ b \in Int /\ a < b
    BY AnswerEdges DEF Run
  <2>2. Span(fine[j]) = a .. b - 1 /\ Size(fine[j]) = b - a
    BY DEF Span, Size
  <2> HIDE DEF a, b
  <2>3. IsFiniteSet(a .. b - 1) /\ Cardinality(a .. b - 1) = IF a > b - 1 THEN 0 ELSE b - 1 - a + 1
    BY <2>1, FS_Interval
  <2>4. Cardinality(a .. b - 1) = b - a
    BY <2>1, <2>3
  <2> QED BY <2>2, <2>3, <2>4
<1>2. \A x \in S : IsFiniteSet(h[x]) /\ g[x] = Cardinality(h[x])
  BY <1>1 DEF Places, Weights
<1>3. \A x, y \in S : x # y => h[x] \cap h[y] = {}
  <2> TAKE x \in S, y \in S
  <2> SUFFICES ASSUME x # y PROVE Span(fine[x[2]]) \cap Span(fine[y[2]]) = {}
    OBVIOUS
  <2>1. x[2] \in DOMAIN fine /\ y[2] \in DOMAIN fine /\ x[2] # y[2]
    BY DEF Places
  <2> QED BY <2>1, RunApart
<1>4. \A x \in S : h[x] = Span(fine[x[2]])
  OBVIOUS
<1> HIDE DEF g, h
<1>5. Sums(sum, S, g)
  BY DEF g
<1>6. /\ IsFiniteSet(UNION {h[x] : x \in S})
      /\ sum[S] = Cardinality(UNION {h[x] : x \in S})
  BY <1>2, <1>3, <1>5, SumIsCount
<1>7. {h[x] : x \in S} = {Span(fine[x[2]]) : x \in S}
  BY <1>4
<1> QED BY <1>6, <1>7

\* Every place of fine is in a pair of key, under what kp says of its positions.
Keyed(key, fine, kp) ==
    /\ \A j \in DOMAIN fine : \E x \in DOMAIN key : x[2] = j
    /\ \A x \in DOMAIN key : \A i \in Span(fine[x[2]]) : kp[i] = key[x]

\* Counting in one count for each key what the pivots of fine with that key hold.
LEMMA AggregateCounts ==
    ASSUME NEW fine, Run(fine), NEW key, NEW kp,
           Places(DOMAIN key, fine), Keyed(key, fine, kp), NEW k
    PROVE  CountOf(Aggregate(key, fine), k) = Cardinality({i \in Held(fine) : kp[i] = k})
<1> DEFINE Of(l) == {x \in DOMAIN key : key[x] = l}
           U(l) == {i \in Held(fine) : kp[i] = l}
           F(S, f) == [s \in SUBSET S |->
                         IF s = {} THEN 0
                         ELSE Size(fine[(CHOOSE x \in s : TRUE)[2]])
                                + f[s \ {CHOOSE x \in s : TRUE}]]
           count(l) == (CHOOSE f : f = F(Of(l), f))[Of(l)]
<1>1. Aggregate(key, fine) = {[key |-> l, count |-> count(l)] : l \in Range(key)}
  BY AggregateSums
<1>2. IsFiniteSet(DOMAIN key)
  <2> DEFINE D == DOMAIN key
             T == DOMAIN fine
             w == [j \in T |-> CHOOSE x \in D : x[2] = j]
  <2>1. \A j \in T : w[j] \in D /\ w[j][2] = j
    BY DEF Keyed
  <2>2. \A x \in D : x[2] \in T /\ w[x[2]] = x
    BY <2>1 DEF Places
  <2> HIDE DEF w
  <2>3. w \in Surjection(T, D)
    <3>1. w \in [T -> D]
      BY <2>1 DEF w
    <3> QED BY <2>2, <3>1 DEF Surjection
  <2>4. IsFiniteSet(T)
    BY FS_Interval DEF Run
  <2> QED BY <2>3, <2>4, FS_Surjection
<1>4. ASSUME NEW l
      PROVE  count(l) = Cardinality(U(l)) /\ IsFiniteSet(U(l))
  <2> DEFINE S == Of(l)
             g == [x \in S |-> Size(fine[x[2]])]
  <2>1. IsFiniteSet(S)
    BY <1>2, FS_Subset
  <2>4. UNION {Span(fine[x[2]]) : x \in S} = U(l)
    <3>1. ASSUME NEW i \in UNION {Span(fine[x[2]]) : x \in S} PROVE i \in U(l)
      <4>1. PICK x \in S : i \in Span(fine[x[2]])
        BY <3>1
      <4>2. x \in DOMAIN key /\ key[x] = l /\ i \in Span(fine[x[2]]) /\ x[2] \in DOMAIN fine
        BY <4>1 DEF Places
      <4>3. i \in Held(fine)
        BY <4>2, PivotHeld
      <4> QED BY <4>2, <4>3 DEF Keyed
    <3>2. ASSUME NEW i \in U(l) PROVE i \in UNION {Span(fine[x[2]]) : x \in S}
      <4>0. i \in Held(fine)
        OBVIOUS
      <4>1. PICK j \in DOMAIN fine : i \in Span(fine[j])
        BY <4>0, HeldPivot
      <4>2. PICK x \in DOMAIN key : x[2] = j
        BY <4>1 DEF Keyed
      <4>4. key[x] = l /\ i \in Span(fine[x[2]])
        BY <4>1, <4>2 DEF Keyed
      <4>5. x \in S /\ i \in Span(fine[x[2]])
        BY <4>4
      <4> QED BY <4>5
    <3> HIDE DEF U, S
    <3> QED BY <3>1, <3>2
  <2>5. ASSUME NEW s \in SUBSET S, s # {}
        PROVE  g[CHOOSE x \in s : TRUE] = Size(fine[(CHOOSE x \in s : TRUE)[2]])
    <3>1. (CHOOSE x \in s : TRUE) \in s
      BY <2>5
    <3> QED BY <3>1
  <2>6. \A f : Sums(f, S, g) <=> f = F(S, f)
    <3> TAKE f
    <3>1. ASSUME NEW s \in SUBSET S
          PROVE  (IF s = {} THEN 0 ELSE g[CHOOSE x \in s : TRUE] + f[s \ {CHOOSE x \in s : TRUE}])
                   = (IF s = {} THEN 0
                      ELSE Size(fine[(CHOOSE x \in s : TRUE)[2]])
                             + f[s \ {CHOOSE x \in s : TRUE}])
      <4> HIDE DEF g, S
      <4> QED BY <2>5
    <3> HIDE DEF g, S
    <3>2. [s \in SUBSET S |-> IF s = {} THEN 0
                              ELSE g[CHOOSE x \in s : TRUE] + f[s \ {CHOOSE x \in s : TRUE}]]
            = F(S, f)
      <4>1. F(S, f) = [s \in SUBSET S |->
                         IF s = {} THEN 0
                         ELSE Size(fine[(CHOOSE x \in s : TRUE)[2]])
                                + f[s \ {CHOOSE x \in s : TRUE}]]
        OBVIOUS
      <4> HIDE DEF F, Of
      <4> QED BY <3>1, <4>1, Zenon
    <3> QED BY <3>2, Zenon DEF Sums
  <2>7. \E f : f = F(S, f)
    <3> HIDE DEF F, S, g
    <3> QED BY <2>1, <2>6, SumsExist
  <2>8. PICK f : f = (CHOOSE x : x = F(S, x)) /\ f = F(S, f)
    <3> HIDE DEF F, S
    <3> QED BY <2>7, Zenon
  <2>9. count(l) = f[S]
    <3> HIDE DEF F
    <3> QED BY <2>8, Zenon
  <2> HIDE DEF F, S, count, U
  <2>10. Sums(f, S, g)
    BY <2>6, <2>8
  <2>11. /\ IsFiniteSet(UNION {Span(fine[x[2]]) : x \in S})
         /\ f[S] = Cardinality(UNION {Span(fine[x[2]]) : x \in S})
    <3>1. Places(S, fine) /\ g = Weights(S, fine)
      BY DEF S, Places, Weights
    <3> HIDE DEF g
    <3>2. Sums(f, S, Weights(S, fine))
      BY <2>10, <3>1
    <3> QED BY <2>1, <3>1, <3>2, SizesAdd
  <2> QED BY <2>4, <2>9, <2>11
<1> DEFINE C == {c \in Aggregate(key, fine) : c.key = k}
<1>5. CountOf(Aggregate(key, fine), k) = CountSum(C)
  BY Zenon DEF CountOf
<1> HIDE DEF count
<1>6. CASE k \in Range(key)
  <2> DEFINE c == [key |-> k, count |-> count(k)]
  <2>1. C = {c}
    BY <1>1, <1>6
  <2>2. c.count = Cardinality(U(k)) /\ c.count \in Nat
    BY <1>4, FS_CardinalityType
  <2> HIDE DEF c, C, U
  <2>3. CountSum(C) = Cardinality(U(k))
    BY <2>1, <2>2, CountsOne
  <2> QED BY <1>5, <2>3 DEF U
<1>7. CASE k \notin Range(key)
  <2>1. C = {}
    BY <1>1, <1>7
  <2>2. U(k) = {}
    <3> SUFFICES ASSUME NEW i \in U(k) PROVE FALSE
      OBVIOUS
    <3>0. i \in Held(fine)
      OBVIOUS
    <3>1. PICK j \in DOMAIN fine : i \in Span(fine[j])
      BY <3>0, HeldPivot
    <3>3. PICK x \in DOMAIN key : x[2] = j
      BY <3>1 DEF Keyed
    <3>4. key[x] = k
      BY <3>1, <3>3 DEF Keyed
    <3> QED BY <1>7, <3>4 DEF Range
  <2> HIDE DEF C, U
  <2>3. CountSum(C) = Cardinality(U(k))
    BY <2>1, <2>2, CountsNone, FS_EmptySet
  <2> QED BY <1>5, <2>3 DEF U
<1> QED BY <1>6, <1>7

-----------------------------------------------------------------------------
(* The merge loop of the serializers.                                      *)

\* Every pivot of fine lies in one of coarse.
Nested(fine, coarse) ==
    \A j \in DOMAIN fine : \E i \in DOMAIN coarse : Span(fine[j]) \subseteq Span(coarse[i])

\* The pivot of coarse that a pivot of fine lies in.
Container(coarse, fine) ==
    [j \in DOMAIN fine |-> CHOOSE i \in DOMAIN coarse : Span(fine[j]) \subseteq Span(coarse[i])]

\* It starts before it, ends behind its front, and the containers ascend.
LEMMA Containers ==
    ASSUME NEW coarse, Run(coarse), NEW fine, Run(fine), Nested(fine, coarse),
           NEW c, c = Container(coarse, fine)
    PROVE  /\ \A j \in DOMAIN fine :
                /\ c[j] \in DOMAIN coarse /\ Span(fine[j]) \subseteq Span(coarse[c[j]])
                /\ coarse[c[j]].front <= fine[j].front /\ fine[j].front < coarse[c[j]].back
           /\ \A i, j \in DOMAIN fine : i < j => c[i] <= c[j]
<1>1. ASSUME NEW j \in DOMAIN fine
      PROVE  /\ c[j] \in DOMAIN coarse /\ Span(fine[j]) \subseteq Span(coarse[c[j]])
             /\ coarse[c[j]].front <= fine[j].front /\ fine[j].front < coarse[c[j]].back
  <2>1. c[j] \in DOMAIN coarse /\ Span(fine[j]) \subseteq Span(coarse[c[j]])
    BY DEF Container, Nested
  <2>2. fine[j].front \in Int /\ fine[j].back \in Int /\ fine[j].front < fine[j].back
    BY AnswerEdges DEF Run
  <2>3. fine[j].front \in Span(fine[j])
    BY <2>2 DEF Span
  <2>4. coarse[c[j]].front \in Int /\ coarse[c[j]].back \in Int
    BY <2>1, AnswerEdges DEF Run
  <2>5. fine[j].front \in coarse[c[j]].front .. coarse[c[j]].back - 1
    BY <2>1, <2>3 DEF Span
  <2> QED BY <2>1, <2>2, <2>4, <2>5
<1>2. ASSUME NEW i \in DOMAIN fine, NEW j \in DOMAIN fine, i < j, ~(c[i] <= c[j])
      PROVE  FALSE
  <2>1. /\ c[i] \in DOMAIN coarse /\ c[j] \in DOMAIN coarse
        /\ coarse[c[i]].front <= fine[i].front /\ fine[j].front < coarse[c[j]].back
    BY <1>1
  <2>2. /\ c[i] \in Nat /\ c[j] \in Nat
        /\ coarse[c[i]].front \in Int /\ coarse[c[j]].back \in Int
        /\ fine[i].front \in Int /\ fine[i].back \in Int /\ fine[j].front \in Int
        /\ fine[i].front < fine[i].back
    BY <2>1, AnswerEdges DEF Run
  <2>3. c[j] < c[i]
    BY <1>2, <2>2
  <2>4. coarse[c[j]].back <= coarse[c[i]].front
    BY <2>1, <2>3 DEF Run, Ascending
  <2>5. fine[i].back <= fine[j].front
    BY <1>2 DEF Run, Ascending
  <2> QED BY <2>1, <2>2, <2>4, <2>5
<1> QED BY <1>1, <1>2

\* The merge looks for it from where the pivot before went to.
LEMMA ContainerNext ==
    ASSUME NEW coarse, Run(coarse), NEW fine, Run(fine), Nested(fine, coarse),
           NEW c, c = Container(coarse, fine), NEW j \in DOMAIN fine,
           NEW p \in Nat, 1 <= p, p <= c[j]
    PROVE  Min({i \in p .. Len(coarse) : coarse[i].back > fine[j].front}
                  \cup {Len(coarse) + 1}) = c[j]
<1> DEFINE S == {i \in p .. Len(coarse) : coarse[i].back > fine[j].front} \cup {Len(coarse) + 1}
<1>1. /\ c[j] \in DOMAIN coarse
      /\ coarse[c[j]].front <= fine[j].front /\ fine[j].front < coarse[c[j]].back
  BY Containers
<1>2. /\ DOMAIN coarse = 1 .. Len(coarse) /\ Len(coarse) \in Nat /\ c[j] \in Nat /\ c[j] >= 1
      /\ fine[j].front \in Int /\ coarse[c[j]].front \in Int
  BY <1>1, AnswerEdges DEF Run
<1>3. c[j] \in S
  <2> DEFINE n == Len(coarse)
  <2> HIDE DEF n
  <2>1. c[j] \in p .. n
    BY <1>1, <1>2 DEF n
  <2>2. coarse[c[j]].back \in Int
    BY <1>1, AnswerEdges DEF Run
  <2> QED BY <1>1, <1>2, <2>1, <2>2 DEF n
<1>4. ASSUME NEW i \in S PROVE c[j] <= i
  <2>1. CASE i = Len(coarse) + 1
    BY <1>1, <1>2, <2>1
  <2>2. CASE i \in p .. Len(coarse) /\ coarse[i].back > fine[j].front /\ ~(c[j] <= i)
    <3>1. i \in Int /\ i < c[j]
      BY <1>2, <2>2
    <3>2. i \in DOMAIN coarse
      BY <1>2, <2>2
    <3>3. coarse[i].back <= coarse[c[j]].front /\ coarse[i].back \in Int
      BY <1>1, <3>1, <3>2, AnswerEdges DEF Run, Ascending
    <3> QED BY <1>1, <1>2, <2>2, <3>3
  <2> QED BY <2>1, <2>2
<1> HIDE DEF S
<1>5. \A x \in S : (\A y \in S : x <= y) => x = c[j]
  <2> SUFFICES ASSUME NEW x \in S, \A y \in S : x <= y PROVE x = c[j]
    OBVIOUS
  <2>1. x <= c[j] /\ c[j] <= x
    BY <1>3, <1>4
  <2>2. x \in Int
    BY <1>2 DEF S
  <2> QED BY <1>2, <2>1, <2>2
<1>6. Min(S) = c[j]
  BY <1>3, <1>4, <1>5, Zenon DEF Min
<1> QED BY <1>6 DEF S

\* The recursion of Holder.
LEMMA HolderUnfolds ==
    ASSUME NEW coarse, NEW fine
    PROVE  Holder(coarse, fine) =
             CHOOSE h : h =
               [j \in 0 .. Len(fine) |->
                  IF j = 0 THEN 1
                  ELSE Min({i \in h[j - 1] .. Len(coarse) :
                              coarse[i].back > fine[j].front} \cup {Len(coarse) + 1})]
BY Zenon DEF Holder

\* The merge loop counts each pivot in the one it lies in.
LEMMA HolderIs ==
    ASSUME NEW coarse, Run(coarse), NEW fine, Run(fine), Nested(fine, coarse),
           NEW c, c = Container(coarse, fine)
    PROVE  \A j \in DOMAIN fine : Holder(coarse, fine)[j] = c[j]
<1> DEFINE n == Len(fine)
           next(p, j) == Min({i \in p .. Len(coarse) : coarse[i].back > fine[j].front}
                               \cup {Len(coarse) + 1})
           G(h) == [j \in 0 .. n |-> IF j = 0 THEN 1 ELSE next(h[j - 1], j)]
           w == [j \in 0 .. n |-> IF j = 0 THEN 1 ELSE c[j]]
<1>1. n \in Nat /\ DOMAIN fine = 1 .. n /\ DOMAIN coarse = 1 .. Len(coarse) /\ Len(coarse) \in Nat
  BY DEF Run
<1>2. /\ \A j \in DOMAIN fine : c[j] \in DOMAIN coarse
      /\ \A i, j \in DOMAIN fine : i < j => c[i] <= c[j]
  BY Containers
<1>3. \A j \in DOMAIN fine : \A p \in Nat : 1 <= p /\ p <= c[j] => next(p, j) = c[j]
  BY ContainerNext
<1>4. Holder(coarse, fine) = CHOOSE h : h = G(h)
  BY HolderUnfolds
<1> HIDE DEF n, next
<1>5. \A j \in 0 .. n : j # 0 => w[j - 1] \in Nat /\ 1 <= w[j - 1] /\ w[j - 1] <= c[j]
  <2> TAKE j \in 0 .. n
  <2> HAVE j # 0
  <2>1. j \in 1 .. n /\ c[j] \in Nat /\ 1 <= c[j]
    BY <1>1, <1>2
  <2>2. CASE j = 1
    BY <1>1, <2>1, <2>2
  <2>3. CASE j # 1
    <3>1. j - 1 \in 1 .. n /\ j - 1 \in 0 .. n /\ j - 1 # 0 /\ j - 1 < j
      BY <1>1, <2>1, <2>3
    <3>2. w[j - 1] = c[j - 1]
      BY <3>1
    <3>3. c[j - 1] \in DOMAIN coarse /\ c[j - 1] <= c[j]
      BY <1>1, <1>2, <2>1, <3>1
    <3> QED BY <1>1, <3>2, <3>3
  <2> QED BY <2>2, <2>3
<1>6. w = G(w)
  <2>1. \A j \in 0 .. n : (IF j = 0 THEN 1 ELSE c[j]) = (IF j = 0 THEN 1 ELSE next(w[j - 1], j))
    <3> TAKE j \in 0 .. n
    <3>1. CASE j # 0
      <4>1. j \in DOMAIN fine
        BY <1>1, <3>1
      <4>2. w[j - 1] \in Nat /\ 1 <= w[j - 1] /\ w[j - 1] <= c[j]
        BY <1>5, <3>1
      <4> HIDE DEF w
      <4> QED BY <1>3, <3>1, <4>1, <4>2
    <3> QED BY <3>1
  <2>2. [j \in 0 .. n |-> IF j = 0 THEN 1 ELSE c[j]]
          = [j \in 0 .. n |-> IF j = 0 THEN 1 ELSE next(w[j - 1], j)]
    <3> HIDE DEF w
    <3> QED BY <2>1, Zenon
  <2> QED BY <2>2
<1>7. PICK h : h = Holder(coarse, fine) /\ h = G(h)
  <2> HIDE DEF G, w
  <2> QED BY <1>4, <1>6, Zenon
<1> DEFINE L == {j \in Nat : j \in 0 .. n => h[j] = w[j]}
<1>8. 0 \in L
  <2>1. 0 \in 0 .. n
    BY <1>1
  <2> QED BY <1>7, <2>1
<1>9. ASSUME NEW k \in Nat, k \in L PROVE k + 1 \in L
  <2> SUFFICES ASSUME k + 1 \in 0 .. n PROVE h[k + 1] = w[k + 1]
    OBVIOUS
  <2> DEFINE j == k + 1
  <2>1. k \in 0 .. n /\ j \in 0 .. n /\ j # 0 /\ j - 1 = k /\ j \in DOMAIN fine
    BY <1>1
  <2>2. h[k] = w[k]
    BY <1>9, <2>1
  <2> HIDE DEF j
  <2>3. h[j] = next(w[j - 1], j)
    <3>1. h[j] = next(h[j - 1], j)
      BY <1>7, <2>1
    <3> QED BY <2>1, <2>2, <3>1
  <2>4. w[j - 1] \in Nat /\ 1 <= w[j - 1] /\ w[j - 1] <= c[j]
    BY <1>5, <2>1
  <2>5. w[j] = c[j]
    BY <2>1
  <2> HIDE DEF w
  <2>6. h[j] = c[j]
    BY <1>3, <2>1, <2>3, <2>4
  <2> QED BY <2>5, <2>6 DEF j
<1> HIDE DEF L
<1>10. \A k \in Nat : k \in L
  BY <1>8, <1>9, NatInduct
<1>11. ASSUME NEW j \in DOMAIN fine PROVE h[j] = c[j]
  <2>1. j \in Nat /\ j \in 0 .. n /\ j # 0
    BY <1>1
  <2>2. h[j] = w[j]
    BY <1>10, <2>1 DEF L
  <2> QED BY <2>1, <2>2
<1> QED BY <1>7, <1>11

\* So the pairs of the merge are those of the pivots and what they lie in.
LEMMA MergedIs ==
    ASSUME NEW coarse, Run(coarse), NEW fine, Run(fine), Nested(fine, coarse),
           NEW c, c = Container(coarse, fine)
    PROVE  Merged(coarse, fine) = {<<c[j], j>> : j \in DOMAIN fine}
<1>1. \A j \in DOMAIN fine : Holder(coarse, fine)[j] = c[j] /\ c[j] \in DOMAIN coarse
  BY HolderIs, Containers
<1>2. {<<Holder(coarse, fine)[j], j>> : j \in DOMAIN fine} = {<<c[j], j>> : j \in DOMAIN fine}
  BY <1>1
<1>3. \A j \in DOMAIN fine : <<c[j], j>> \in (DOMAIN coarse) \X (DOMAIN fine)
  BY <1>1
<1> HIDE DEF Holder
<1> QED BY <1>2, <1>3 DEF Merged

\* Counted by the pivot of coarse they lie in.
LEMMA MergeCounts ==
    ASSUME NEW coarse, Run(coarse), NEW fine, Run(fine), Nested(fine, coarse),
           NEW key, DOMAIN key = Merged(coarse, fine),
           NEW kp, \A i \in DOMAIN coarse, j \in DOMAIN fine :
                     <<i, j>> \in DOMAIN key /\ Span(fine[j]) \subseteq Span(coarse[i]) =>
                       \A x \in Span(fine[j]) : kp[x] = key[<<i, j>>],
           NEW k
    PROVE  CountOf(Aggregate(key, fine), k) = Cardinality({i \in Held(fine) : kp[i] = k})
<1> PICK c : c = Container(coarse, fine)
  OBVIOUS
<1> DEFINE D == {<<c[j], j>> : j \in DOMAIN fine}
<1>1. DOMAIN key = D
  BY MergedIs
<1>2. Places(D, fine)
  BY DEF Places
<1>3. \A j \in DOMAIN fine : <<c[j], j>> \in D /\ <<c[j], j>>[2] = j
  OBVIOUS
<1>4. ASSUME NEW x \in D, NEW i \in Span(fine[x[2]]) PROVE kp[i] = key[x]
  <2>1. PICK j \in DOMAIN fine : x = <<c[j], j>>
    BY <1>4
  <2>2. c[j] \in DOMAIN coarse /\ Span(fine[j]) \subseteq Span(coarse[c[j]])
    BY Containers
  <2> QED BY <1>1, <1>4, <2>1, <2>2
<1> HIDE DEF D
<1>5. Places(DOMAIN key, fine)
  BY <1>1, <1>2
<1>6. Keyed(key, fine, kp)
  BY <1>1, <1>3, <1>4 DEF Keyed
<1> QED BY <1>5, <1>6, AggregateCounts

\* Or by themselves.
LEMMA OwnCounts ==
    ASSUME NEW fine, Run(fine),
           NEW key, DOMAIN key = {<<j, j>> : j \in DOMAIN fine},
           NEW kp, \A j \in DOMAIN fine : \A x \in Span(fine[j]) : kp[x] = key[<<j, j>>],
           NEW k
    PROVE  CountOf(Aggregate(key, fine), k) = Cardinality({i \in Held(fine) : kp[i] = k})
<1>1. Places(DOMAIN key, fine)
  BY DEF Places
<1>2. \A j \in DOMAIN fine : <<j, j>> \in DOMAIN key /\ <<j, j>>[2] = j
  OBVIOUS
<1>3. ASSUME NEW x \in DOMAIN key, NEW i \in Span(fine[x[2]]) PROVE kp[i] = key[x]
  <2>1. PICK j \in DOMAIN fine : x = <<j, j>>
    OBVIOUS
  <2>2. i \in Span(fine[j])
    BY <2>1
  <2> QED BY <2>1, <2>2
<1>4. Keyed(key, fine, kp)
  BY <1>2, <1>3 DEF Keyed
<1> QED BY <1>1, <1>4, AggregateCounts

\* What q counts the record at each position under.
KeyAt(q) == [i \in Records |-> KeyOfRecord(q, index[i])]

\* The records at some positions are as many.
LEMMA IndexCounts ==
    ASSUME IInv, NEW S, S \subseteq Records, NEW V, V = {index[i] : i \in S}
    PROVE  IsFiniteSet(S) /\ IsFiniteSet(V) /\ Cardinality(V) = Cardinality(S)
<1>1. index \in [Records -> Records] /\ IsInjective(index)
  BY DEF IInv, TypeOK
<1>2. IsFiniteSet(S)
  <2>1. IsFiniteSet(0 .. N - 1)
    BY Sizes, FS_Interval
  <2> QED BY <2>1, FS_Subset DEF Records
<1> DEFINE f == [i \in S |-> index[i]]
<1>3. f \in Bijection(S, V)
  BY <1>1 DEF Bijection, Injection, Surjection, IsInjective
<1>4. ExistsBijection(S, V)
  BY <1>3 DEF ExistsBijection
<1> QED BY <1>2, <1>4, FS_Bijection

\* A count of what is in the range is one of what passes the query.
LEMMA CountFits ==
    ASSUME WalkInv, Built, N > 0, Run(range), NEW q, Narrowed(q, Dims, range), NEW k, NEW n,
           n = Cardinality({i \in Held(range) : KeyAt(q)[i] = k})
    PROVE  n \in Cardinality({r \in Reference(q, FALSE) : KeyOfRecord(q, r) = k})
                   .. Cardinality({r \in Reference(q, TRUE) : KeyOfRecord(q, r) = k})
<1> DEFINE T(c) == {i \in Through(q, Dims, c) : KeyAt(q)[i] = k}
           V(c) == {r \in Reference(q, c) : KeyOfRecord(q, r) = k}
           H == {i \in Held(range) : KeyAt(q)[i] = k}
<1>1. \A c : Through(q, Dims, c) \subseteq Records
  <2>1. SpatialList(q) \in Seq(Answers)
    BY SpatialRuns DEF Run
  <2> QED BY <2>1, HeldRecords DEF Through
<1>2. ASSUME NEW c
      PROVE  /\ IsFiniteSet(T(c)) /\ Cardinality(V(c)) = Cardinality(T(c))
             /\ Cardinality(T(c)) \in Nat
  <2>1. T(c) \subseteq Records /\ \A i \in Through(q, Dims, c) : KeyAt(q)[i] = KeyOfRecord(q, index[i])
    BY <1>1 DEF KeyAt
  <2>2. Reference(q, c) = {index[i] : i \in Through(q, Dims, c)}
    BY ReferenceAt
  <2>3. V(c) = {index[i] : i \in T(c)}
    BY <2>1, <2>2
  <2>4. IInv
    BY DEF WalkInv, TilesInv
  <2> HIDE DEF T, V
  <2>5. PICK W : W = V(c)
    OBVIOUS
  <2>6. PICK S : S = T(c)
    OBVIOUS
  <2>7. IsFiniteSet(S) /\ Cardinality(W) = Cardinality(S)
    BY <2>1, <2>3, <2>4, <2>5, <2>6, IndexCounts
  <2> QED BY <2>5, <2>6, <2>7, FS_CardinalityType
<1>3. T(FALSE) \subseteq H /\ H \subseteq T(TRUE)
  BY DEF Narrowed
<1> HIDE DEF T, V, H
<1>4. IsFiniteSet(H) /\ Cardinality(H) \in Nat /\ Cardinality(H) <= Cardinality(T(TRUE))
  BY <1>2, <1>3, FS_Subset, FS_CardinalityType
<1>5. Cardinality(T(FALSE)) <= Cardinality(H)
  BY <1>3, <1>4, FS_Subset
<1>6. n = Cardinality(H)
  BY DEF H
<1>7. /\ Cardinality(V(FALSE)) \in Nat /\ Cardinality(V(TRUE)) \in Nat
      /\ Cardinality(V(FALSE)) <= n /\ n <= Cardinality(V(TRUE)) /\ n \in Nat
  BY <1>2, <1>4, <1>5, <1>6
<1> QED BY <1>7 DEF V

-----------------------------------------------------------------------------
(* What a range tells of its records, and the range it lies in.            *)

\* Whether what dimension d finds is what q is about.
Groups(q, d) == IF IsTemporal(d) THEN q.type = "TSERIES" ELSE d \in q.group

\* The pivots of t tell what their records have in dimension d: the tile, or the value.
Tells(q, d, t) ==
    IF d = 0 THEN t = SpatialList(q)
    ELSE \A j \in DOMAIN t : \A i \in Span(t[j]) : ValueOf(data[index[i]], d) = t[j].value

\* A range lies in itself.
LEMMA NestedSelf ==
    ASSUME NEW s PROVE Nested(s, s)
BY DEF Nested

\* What lies in a range that lies in another lies in that one.
LEMMA NestedNext ==
    ASSUME NEW s, NEW r, NEW t, Nested(s, r), Nested(r, t)
    PROVE  Nested(s, t)
<1> SUFFICES ASSUME NEW j \in DOMAIN s PROVE \E k \in DOMAIN t : Span(s[j]) \subseteq Span(t[k])
  BY DEF Nested
<1>1. PICK i \in DOMAIN r : Span(s[j]) \subseteq Span(r[i])
  BY DEF Nested
<1>2. PICK k \in DOMAIN t : Span(r[i]) \subseteq Span(t[k])
  BY DEF Nested
<1> QED BY <1>1, <1>2

\* The places of a concatenation.
LEMMA ConcatPlaces ==
    ASSUME NEW S, NEW s \in Seq(S), NEW t \in Seq(S), NEW j \in DOMAIN (s \o t)
    PROVE  \/ j \in DOMAIN s /\ (s \o t)[j] = s[j]
           \/ \E k \in DOMAIN t : (s \o t)[j] = t[k]
<1>1. CASE j \in 1 .. Len(s)
  <2>1. j \in DOMAIN s /\ (s \o t)[j] = s[j]
    BY <1>1
  <2> QED BY <2>1
<1>2. CASE j \notin 1 .. Len(s)
  <2>1. j - Len(s) \in DOMAIN t /\ (s \o t)[j] = t[j - Len(s)]
    BY <1>2
  <2> QED BY <2>1
<1> QED BY <1>1, <1>2

\* Two lists that lie in a range.
LEMMA ConcatNested ==
    ASSUME NEW S, NEW s \in Seq(S), NEW t \in Seq(S), NEW r, Nested(s, r), Nested(t, r)
    PROVE  Nested(s \o t, r)
<1> SUFFICES ASSUME NEW j \in DOMAIN (s \o t)
             PROVE  \E i \in DOMAIN r : Span((s \o t)[j]) \subseteq Span(r[i])
  BY DEF Nested
<1>1. CASE j \in DOMAIN s /\ (s \o t)[j] = s[j]
  BY <1>1 DEF Nested
<1>2. CASE \E k \in DOMAIN t : (s \o t)[j] = t[k]
  <2>1. PICK k \in DOMAIN t : (s \o t)[j] = t[k]
    BY <1>2
  <2> QED BY <2>1 DEF Nested
<1> QED BY <1>1, <1>2, ConcatPlaces

\* Two lists that tell of a dimension.
LEMMA ConcatTells ==
    ASSUME NEW S, NEW s \in Seq(S), NEW t \in Seq(S), NEW q, NEW d, d # 0,
           Tells(q, d, s), Tells(q, d, t)
    PROVE  Tells(q, d, s \o t)
<1> SUFFICES ASSUME NEW j \in DOMAIN (s \o t), NEW i \in Span((s \o t)[j])
             PROVE  ValueOf(data[index[i]], d) = (s \o t)[j].value
  BY DEF Tells
<1>1. CASE j \in DOMAIN s /\ (s \o t)[j] = s[j]
  <2>1. i \in Span(s[j])
    BY <1>1
  <2> QED BY <1>1, <2>1 DEF Tells
<1>2. CASE \E k \in DOMAIN t : (s \o t)[j] = t[k]
  <2>1. PICK k \in DOMAIN t : (s \o t)[j] = t[k]
    BY <1>2
  <2>2. i \in Span(t[k])
    BY <2>1
  <2> QED BY <2>1, <2>2 DEF Tells
<1> QED BY <1>1, <1>2, ConcatPlaces

\* What a node of the dimension a query is about answers tells its values.
LEMMA SelectTells ==
    ASSUME WalkInv, NEW d \in 1 .. stage - 1, NEW n \in Range(nodes[d]), NodeSplit(d, n),
           NEW q, Groups(q, d)
    PROVE  Tells(q, d, Select(q, d, n))
<1> DEFINE u == n.parts
           Good(s) == Range(s) \subseteq Range(u)
<1>1. u \in Seq(Parts) /\ Ascending(u)
  <2>1. PICK i \in DOMAIN nodes[d] : n = nodes[d][i]
    BY DimNodes
  <2>2. /\ u \in Seq(Parts) /\ Chain(u, n.front, n.back)
        /\ n.front \in 0 .. N /\ n.back \in 0 .. N /\ n.front < n.back
    BY <2>1, DimNodes
  <2>3. \A x \in Parts : x.front \in Int /\ x.back \in Int
    BY Sizes DEF Parts
  <2>4. n.front \in Int /\ n.back \in Int
    BY <2>2, Sizes
  <2>5. \A j \in DOMAIN u : u[j].front < u[j].back
    BY <2>2 DEF Chain
  <2> HIDE DEF u
  <2> QED BY <2>2, <2>3, <2>4, <2>5, ChainAscends DEF Ascending
<1>2. \A V : Good(Kept(u, V))
  <2> HIDE DEF u
  <2> QED BY <1>1, KeptAscends
<1>3. Good(u) /\ Good(<< >>)
  BY DEF Range
<1> HIDE DEF Good
<1>4. Good(Select(q, d, n))
  <2>1. CASE IsTemporal(d)
    <3>1. q.type = "TSERIES"
      BY <2>1 DEF Groups
    <3> QED BY <1>2, <1>3, <2>1, <3>1 DEF Select, SelectTemporal, u
  <2>2. CASE ~IsTemporal(d)
    BY <1>2, <1>3, <2>2 DEF Select, SelectCategorical, u
  <2> QED BY <2>1, <2>2
<1> PICK s : s = Select(q, d, n)
  OBVIOUS
<1>5. Tells(q, d, s)
  <2> SUFFICES ASSUME NEW j \in DOMAIN s, NEW i \in Span(s[j])
               PROVE  ValueOf(data[index[i]], d) = s[j].value
    <3>1. d # 0
      BY DEF WalkInv, TilesInv, IInv, TypeOK
    <3> QED BY <3>1 DEF Tells
  <2>1. s[j] \in Range(u)
    BY <1>4 DEF Good, Range
  <2>2. PICK k \in DOMAIN u : s[j] = u[k]
    BY <2>1 DEF Range
  <2>3. i \in Span(u[k])
    BY <2>2
  <2> QED BY <2>2, <2>3 DEF NodeSplit, u
<1> QED BY <1>5

\* What a node answers lies in the pivot it is asked for.
LEMMA SelectNested ==
    ASSUME WalkInv, NEW d \in 1 .. stage - 1, NEW n \in Range(nodes[d]), NEW q,
           NEW r \in Seq(Answers), NEW a \in DOMAIN r,
           r[a].front <= n.front, n.back <= r[a].back
    PROVE  Nested(Select(q, d, n), r)
<1> PICK s : s = Select(q, d, n)
  OBVIOUS
<1>1. s \in Seq(Answers) /\ \A x \in Range(s) : n.front <= x.front /\ x.back <= n.back
  BY SelectLists
<1>2. n.front \in Int /\ n.back \in Int
  <2>1. PICK i \in DOMAIN nodes[d] : n = nodes[d][i]
    BY DimNodes
  <2> QED BY <2>1, DimNodes, Sizes
<1>3. ASSUME NEW j \in DOMAIN s PROVE Span(s[j]) \subseteq Span(r[a])
  <2>1. s[j].front \in Int /\ s[j].back \in Int /\ n.front <= s[j].front /\ s[j].back <= n.back
    BY <1>1, AnswerEdges
  <2>2. r[a].front \in Int /\ r[a].back \in Int
    BY AnswerEdges
  <2> QED BY <1>2, <2>1, <2>2 DEF Span
<1> QED BY <1>3 DEF Nested

\* The greatest of some dimensions.
LEMMA MaxIs ==
    ASSUME NEW n \in Nat, NEW S, S \subseteq 0 .. n, S # {}
    PROVE  Max(S) \in S /\ \A y \in S : y <= Max(S)
<1> DEFINE T == {k \in Nat : n - k \in S}
<1>1. T # {} /\ T \in SUBSET Nat
  <2>1. PICK x \in S : TRUE
    OBVIOUS
  <2>2. n - x \in Nat /\ n - (n - x) = x
    OBVIOUS
  <2>3. n - x \in T
    BY <2>2
  <2> QED BY <2>3
<1>2. PICK m \in T : \A k \in T : m <= k
  <2> HIDE DEF T
  <2> QED BY <1>1, NatMin, Zenon
<1>3. n - m \in S /\ m \in Nat
  BY <1>2
<1>4. \A y \in S : n - m >= y
  <2> TAKE y \in S
  <2>1. y \in Int /\ n - y \in Nat /\ n - (n - y) = y
    OBVIOUS
  <2>2. n - y \in T
    BY <2>1
  <2>3. m <= n - y
    BY <1>2, <2>2
  <2> QED BY <1>3, <2>1, <2>3
<1>5. Max(S) \in S /\ \A y \in S : Max(S) >= y
  <2>1. \E x \in S : \A y \in S : x >= y
    BY <1>3, <1>4
  <2> QED BY <2>1, Zenon DEF Max
<1> PICK x : x = Max(S)
  OBVIOUS
<1>6. \A y \in S : y <= x
  BY <1>5
<1> QED BY <1>5, <1>6

\* The ends of two dimensions.
LEMMA PairEnds ==
    ASSUME NEW a \in Nat, NEW b \in Nat, a < b, NEW S, S = {a, b}
    PROVE  Min(S) = a /\ Max(S) = b
<1>1. a \in S /\ \A y \in S : a <= y
  OBVIOUS
<1>2. b \in S /\ \A y \in S : b >= y
  OBVIOUS
<1>3. \A x \in S : (\A y \in S : x <= y) => x = a
  OBVIOUS
<1>4. \A x \in S : (\A y \in S : x >= y) => x = b
  OBVIOUS
<1>5. Min(S) = a
  BY <1>1, <1>3, Zenon DEF Min
<1>6. Max(S) = b
  BY <1>2, <1>4, Zenon DEF Max
<1> QED BY <1>5, <1>6

\* The dimension whose values an answer is keyed by.
KeyDim(q) ==
    CASE q.type = "TILE"  -> 0
      [] q.type = "GROUP" -> Max(q.group)
      [] OTHER            -> Max({e \in TemporalDims : q.tseries[e] # None})

\* The types that are counted by the target.
ByTarget == {"TILE", "GROUP", "TSERIES"}

\* The dimensions of each kind.
LEMMA DimKinds ==
    /\ Dims \in Nat /\ Len(Categories) \in Nat
    /\ CategoricalDims \subseteq 0 .. Dims /\ TemporalDims \subseteq 0 .. Dims
    /\ CategoricalDims \subseteq 1 .. Dims /\ TemporalDims \subseteq 1 .. Dims
    /\ \A d \in 1 .. Dims : (d \in CategoricalDims <=> ~IsTemporal(d))
                         /\ (d \in TemporalDims <=> IsTemporal(d))
    /\ \A d \in CategoricalDims, e \in TemporalDims : d < e
<1>1. Len(Categories) \in Nat /\ Len(Buckets) \in Nat
  BY CubeAssumption
<1> QED BY <1>1 DEF CategoricalDims, TemporalDims, IsTemporal, Dims

\* It is the last dimension the query is about.
LEMMA KeyDimIs ==
    ASSUME NEW q, ClientShape(q), q.type \in ByTarget
    PROVE  /\ KeyDim(q) \in 0 .. Dims
           /\ KeyDim(q) = 0 <=> q.type = "TILE"
           /\ KeyDim(q) # 0 => Groups(q, KeyDim(q)) /\ Evals(q, KeyDim(q))
           /\ \A d \in 1 .. Dims : Groups(q, d) /\ Evals(q, d) => d <= KeyDim(q)
           /\ KeyDim(q) # 0 => (IsTemporal(KeyDim(q)) <=> q.type = "TSERIES")
<1>1. CASE q.type = "TILE"
  <2>1. KeyDim(q) = 0
    BY <1>1 DEF KeyDim
  <2>2. q.group = {}
    BY <1>1 DEF ClientShape
  <2>3. \A d : ~Groups(q, d)
    BY <1>1, <2>2 DEF Groups
  <2> QED BY <1>1, <2>1, <2>3, DimKinds
<1>2. CASE q.type = "GROUP"
  <2> DEFINE m == KeyDim(q)
             S == q.group
  <2>1. m = Max(S) /\ S # {} /\ S \subseteq 0 .. Dims /\ S \subseteq CategoricalDims
    BY <1>2, DimKinds DEF KeyDim, ClientShape
  <2>2. m \in S /\ \A y \in S : y <= m
    BY <2>1, DimKinds, MaxIs
  <2>3. m \in CategoricalDims /\ m \in 1 .. Dims /\ ~IsTemporal(m) /\ m \in 0 .. Dims /\ m # 0
    BY <2>1, <2>2, DimKinds
  <2> HIDE DEF m
  <2>4. Groups(q, m) /\ Evals(q, m)
    BY <2>2, <2>3 DEF Groups, Evals
  <2>5. \A d \in 1 .. Dims : Groups(q, d) => d \in S
    BY <1>2 DEF Groups
  <2> HIDE DEF S
  <2> QED BY <1>2, <2>2, <2>3, <2>4, <2>5 DEF m
<1>3. CASE q.type = "TSERIES"
  <2> DEFINE S == {e \in TemporalDims : q.tseries[e] # None}
             m == KeyDim(q)
  <2>1. m = Max(S)
    BY <1>3 DEF KeyDim
  <2>2. S # {} /\ S \subseteq 0 .. Dims
    BY <1>3, DimKinds DEF ClientShape
  <2>3. m \in S /\ \A y \in S : y <= m
    <3> HIDE DEF S, m
    <3> QED BY <2>1, <2>2, DimKinds, MaxIs
  <2>4. m \in TemporalDims /\ q.tseries[m] # None
    <3> HIDE DEF m
    <3> QED BY <2>3
  <2> HIDE DEF m
  <2>5. m \in 1 .. Dims /\ IsTemporal(m) /\ m \in 0 .. Dims /\ m # 0
    BY <2>4, DimKinds
  <2>6. Groups(q, m) /\ Evals(q, m)
    BY <1>3, <2>4, <2>5 DEF Groups, Evals
  <2>7. ASSUME NEW d \in 1 .. Dims, Groups(q, d), Evals(q, d) PROVE d <= m
    <3>1. CASE IsTemporal(d)
      <4>1. d \in S
        BY <2>7, <3>1, DimKinds DEF Evals
      <4> QED BY <2>3, <4>1
    <3>2. CASE ~IsTemporal(d)
      BY <2>4, <2>5, <3>2, DimKinds
    <3> QED BY <3>1, <3>2
  <2> QED BY <1>3, <2>5, <2>6, <2>7 DEF m
<1> QED BY <1>1, <1>2, <1>3 DEF ByTarget

-----------------------------------------------------------------------------
(* The inductive invariant of the keys.                                    *)

\* A target is a record.
IsTarget(t) == t = [dim |-> t.dim, pivots |-> t.pivots, equal |-> t.equal]

\* What the loop of dimension d found lies in the range, and tells what it is about.
LoopTells(q, d, r, f) ==
    d \in 1 .. Dims => Nested(f, r) /\ (Groups(q, d) => Tells(q, d, f))

\* Behind the dimension the query is about, the range lies in the target.
TargetFits(q, d, r, t) ==
    q.type \in ByTarget /\ KeyDim(q) < d =>
        /\ t.dim = KeyDim(q) /\ Run(t.pivots) /\ Tells(q, KeyDim(q), t.pivots)
        /\ Nested(r, t.pivots)
        /\ t.equal => t.pivots = r

\* Behind the first field of a scatter plot the range lies in its pivots, behind
\* the second it is those of the second.
TuplesFit(q, d, r, u) ==
    \A a, b \in CategoricalDims : q.type = "SCATTER" /\ a < b /\ q.group = {a, b} =>
        /\ d <= a => u = << >>
        /\ a < d /\ d <= b =>
             \E s : u = << s >> /\ Run(s) /\ Tells(q, a, s) /\ Nested(r, s)
        /\ b < d =>
             \E s : u = << s, r >> /\ Run(s) /\ Tells(q, a, s) /\ Tells(q, b, r) /\ Nested(r, s)

\* What target and tuples have to do with the range of dimension d.
KeysFit(q, d, r, f, t, u) ==
    IsTarget(t) /\ LoopTells(q, d, r, f) /\ TargetFits(q, d, r, t) /\ TuplesFit(q, d, r, u)

\* So it is in every query of the page.
KeysInv ==
    /\ dim = 0 => target = NoTarget /\ tuples = << >>
    /\ query # None /\ ClientShape(query) /\ N > 0 /\ dim > 0 =>
         KeysFit(query, dim, range, found, target, tuples)

\* A query does not change the cube.
LEMMA KeysStay ==
    ASSUME UNCHANGED vars, NEW q, NEW d, NEW r, NEW f, NEW t, NEW u
    PROVE  KeysFit(q, d, r, f, t, u)' <=> KeysFit(q, d, r, f, t, u)
<1>1. index' = index /\ data' = data
  BY DEF vars
<1>2. SpatialList(q)' = SpatialList(q)
  BY SpatialStays
<1>3. \A e, s : Tells(q, e, s)' <=> Tells(q, e, s)
  BY <1>1, <1>2 DEF Tells
<1>4. LoopTells(q, d, r, f)' <=> LoopTells(q, d, r, f)
  BY <1>3 DEF LoopTells
<1>5. TargetFits(q, d, r, t)' <=> TargetFits(q, d, r, t)
  BY <1>3 DEF TargetFits
<1>6. TuplesFit(q, d, r, u)' <=> TuplesFit(q, d, r, u)
  BY <1>3 DEF TuplesFit
<1> QED BY <1>4, <1>5, <1>6 DEF KeysFit

\* To show the invariant after a step of a query, show it of what the step leaves.
LEMMA KeysNext ==
    ASSUME UNCHANGED vars, query' = query, dim' > 0,
           ClientShape(query) /\ N > 0 =>
             \E d, r, f, t, u :
               /\ dim' = d /\ range' = r /\ found' = f /\ target' = t /\ tuples' = u
               /\ KeysFit(query, d, r, f, t, u)
    PROVE  KeysInv'
<1> PICK q : q = query
  OBVIOUS
<1>1. ASSUME ClientShape(q), N > 0 PROVE KeysFit(query, dim, range, found, target, tuples)'
  <2>1. PICK d, r, f, t, u :
          /\ dim' = d /\ range' = r /\ found' = f /\ target' = t /\ tuples' = u
          /\ KeysFit(q, d, r, f, t, u)
    BY <1>1
  <2>2. KeysFit(q, d, r, f, t, u)'
    BY <2>1, KeysStay
  <2> QED BY <2>1, <2>2
<1>2. ClientShape(query)' => ClientShape(q)
  BY DEF ClientShape, EvalSpatial, EvalRegion, EvalTile
<1>3. (dim = 0 => target = NoTarget /\ tuples = << >>)'
  <2>1. dim' # 0
    OBVIOUS
  <2> QED BY <2>1
<1> QED BY <1>1, <1>2, <1>3 DEF KeysInv

-----------------------------------------------------------------------------
(* Each step of a query keeps the keys.                                    *)

\* A loop that has found nothing.
LEMMA NothingTold ==
    ASSUME NEW q, NEW d, NEW r
    PROVE  LoopTells(q, d, r, << >>)
<1>1. DOMAIN << >> = {}
  OBVIOUS
<1>2. Nested(<< >>, r)
  BY <1>1 DEF Nested
<1>3. d \in 1 .. Dims => d # 0
  BY DimKinds
<1>4. d \in 1 .. Dims => Tells(q, d, << >>)
  BY <1>1, <1>3 DEF Tells
<1> QED BY <1>2, <1>4 DEF LoopTells

\* A step that changes none of it.
LEMMA QuietKeys ==
    ASSUME KeysInv, query # None, dim > 0,
           UNCHANGED <<vars, query, dim, range, found, target, tuples>>
    PROVE  KeysInv'
<1>1. ClientShape(query) /\ N > 0 => KeysFit(query, dim, range, found, target, tuples)
  BY DEF KeysInv
<1>2. dim' > 0
  OBVIOUS
<1> QED BY <1>1, <1>2, KeysNext

\* The tiles of a query are its target.
LEMMA QuerySpatialKeys ==
    ASSUME SelectFacts, KeysInv, QuerySpatial
    PROVE  KeysInv'
<1>1. /\ query # None /\ dim = 0 /\ Built /\ WalkInv /\ UNCHANGED vars /\ query' = query
      /\ found' = << >> /\ tuples' = << >> /\ dim' = 1
      /\ range = << Labelled(Pivot(0, N), None) >> /\ target = NoTarget
  BY DEF QuerySpatial, NextDim, SelectFacts, QueryInv, QueryPhase, KeysInv
<1>2. range' = SpatialList(query)
  BY <1>1 DEF QuerySpatial, SpatialList
<1>3. target' = IF EvalSpatial(query) /\ query.type = "TILE"
                THEN [dim |-> 0, pivots |-> SpatialList(query), equal |-> TRUE]
                ELSE NoTarget
  <2>1. SpatialList(query) = IF EvalSpatial(query)
                             THEN IF query.type = "TILE" THEN QueryTile(query)[Root]
                                  ELSE QueryRegion(query)[Root]
                             ELSE << Labelled(Pivot(0, N), None) >>
    BY DEF SpatialList
  <2> QED BY <1>1, <2>1 DEF QuerySpatial
<1>4. ASSUME ClientShape(query), N > 0
      PROVE  KeysFit(query, 1, SpatialList(query), << >>, target', << >>)
  <2> PICK q : q = query
    OBVIOUS
  <2> PICK r : r = SpatialList(q)
    OBVIOUS
  <2> PICK t : t = target'
    OBVIOUS
  <2>1. IsTarget(t)
    BY <1>3 DEF IsTarget, NoTarget
  <2>2. LoopTells(q, 1, r, << >>)
    BY NothingTold
  <2>3. TargetFits(q, 1, r, t)
    <3> SUFFICES ASSUME q.type \in ByTarget, KeyDim(q) < 1
                 PROVE  /\ t.dim = KeyDim(q) /\ Run(t.pivots) /\ Tells(q, KeyDim(q), t.pivots)
                        /\ Nested(r, t.pivots)
                        /\ t.equal => t.pivots = r
      BY DEF TargetFits
    <3>1. KeyDim(q) = 0 /\ q.type = "TILE"
      <4>1. ClientShape(q)
        BY <1>4
      <4>2. KeyDim(q) \in 0 .. Dims /\ (KeyDim(q) = 0 <=> q.type = "TILE")
        BY <4>1, KeyDimIs
      <4> QED BY <4>2, DimKinds
    <3>2. EvalSpatial(q)
      BY <1>4, <3>1 DEF ClientShape
    <3>3. t.dim = 0 /\ t.pivots = r /\ t.equal
      BY <1>3, <3>1, <3>2
    <3>4. Run(r)
      BY <1>1, <1>4, SpatialRuns
    <3> QED BY <3>1, <3>3, <3>4, NestedSelf DEF Tells
  <2>4. TuplesFit(q, 1, r, << >>)
    <3>1. \A a \in CategoricalDims : 1 <= a /\ ~(a < 1)
      BY DimKinds
    <3> QED BY <3>1 DEF TuplesFit
  <2> QED BY <2>1, <2>2, <2>3, <2>4 DEF KeysFit
<1> QED BY <1>1, <1>2, <1>4, KeysNext

\* A dimension that is left out is not one of those the query is about.
LEMMA SkipDimKeys ==
    ASSUME SelectFacts, KeysInv, SkipDim
    PROVE  KeysInv'
<1>1. /\ query # None /\ dim \in 1 .. Dims /\ UNCHANGED <<vars, query, range, target, tuples>>
      /\ found' = found /\ dim' = dim + 1 /\ ~Evals(query, dim) /\ QueryInv
  BY DEF SkipDim, NextDim, SelectFacts
<1>2. dim \in Nat /\ dim > 0 /\ dim' > 0
  BY <1>1, DimKinds
<1>3. ASSUME ClientShape(query), N > 0
      PROVE  KeysFit(query, dim + 1, range, found, target, tuples)
  <2> PICK q : q = query
    OBVIOUS
  <2> PICK d : d = dim
    OBVIOUS
  <2>1. /\ KeysFit(q, d, range, found, target, tuples) /\ ClientShape(q) /\ d \in Nat
        /\ d \in 1 .. Dims /\ ~Evals(q, d)
    BY <1>1, <1>2, <1>3 DEF KeysInv
  <2>2. found = << >>
    BY <1>1, <1>3 DEF QueryInv, LoopFits
  <2>3. LoopTells(q, d + 1, range, found)
    BY <2>2, NothingTold
  <2>4. TargetFits(q, d + 1, range, target)
    <3>1. ASSUME q.type \in ByTarget, KeyDim(q) < d + 1 PROVE KeyDim(q) < d
      <4>1. KeyDim(q) \in 0 .. Dims /\ (KeyDim(q) # 0 => Evals(q, KeyDim(q)))
        BY <2>1, <3>1, KeyDimIs
      <4>2. KeyDim(q) # d
        BY <2>1, <4>1, DimKinds
      <4> QED BY <2>1, <3>1, <4>1, <4>2, DimKinds
    <3> QED BY <2>1, <3>1 DEF KeysFit, TargetFits
  <2>5. TuplesFit(q, d + 1, range, tuples)
    <3> SUFFICES ASSUME NEW a \in CategoricalDims, NEW b \in CategoricalDims,
                        q.type = "SCATTER", a < b, q.group = {a, b}
                 PROVE  /\ d + 1 <= a => tuples = << >>
                        /\ a < d + 1 /\ d + 1 <= b =>
                             \E s : tuples = << s >> /\ Run(s) /\ Tells(q, a, s) /\ Nested(range, s)
                        /\ b < d + 1 =>
                             \E s : tuples = << s, range >> /\ Run(s) /\ Tells(q, a, s)
                                    /\ Tells(q, b, range) /\ Nested(range, s)
      BY DEF TuplesFit
    <3>1. a \in Nat /\ b \in Nat /\ ~IsTemporal(a) /\ ~IsTemporal(b)
      BY DimKinds
    <3>2. a # d /\ b # d
      BY <2>1, <3>1 DEF Evals
    <3>3. /\ d <= a => tuples = << >>
          /\ a < d /\ d <= b =>
               \E s : tuples = << s >> /\ Run(s) /\ Tells(q, a, s) /\ Nested(range, s)
          /\ b < d =>
               \E s : tuples = << s, range >> /\ Run(s) /\ Tells(q, a, s)
                      /\ Tells(q, b, range) /\ Nested(range, s)
      BY <2>1 DEF KeysFit, TuplesFit
    <3>4. /\ d + 1 <= a => d <= a
          /\ a < d + 1 /\ d + 1 <= b => a < d /\ d <= b
          /\ b < d + 1 => b < d
      BY <2>1, <3>1, <3>2
    <3> QED BY <3>3, <3>4
  <2> QED BY <2>1, <2>3, <2>4, <2>5 DEF KeysFit
<1> QED BY <1>1, <1>2, <1>3, KeysNext

\* What a node adds lies in the pivot of the range, and tells its values.
LEMMA VisitNodeKeys ==
    ASSUME SelectFacts, HashesKeepOrder, LabelsTellApart, KeysInv, VisitNode
    PROVE  KeysInv'
<1> DEFINE w == nodes[dim]
           n == w[it]
           sel == Select(query, dim, n)
<1>1. /\ inRange /\ range[at].back > n.front /\ found' = found \o sel
      /\ UNCHANGED <<vars, query, dim, range, target, tuples>>
  BY DEF VisitNode
<1>2. /\ dim \in 1 .. Dims /\ N > 0 /\ query # None /\ Built /\ QueryInv /\ dim > 0 /\ dim' > 0
  BY <1>1 DEF SelectFacts, QueryInv, QueryPhase
<1>3. LoopFits /\ NodesFit(w)
  BY <1>2, BuiltNodes DEF QueryInv
<1>4. InPivot(w, range, at, it) /\ RangeFits(w, range) /\ found \in Seq(Answers)
  BY <1>1, <1>3 DEF LoopFits, FoundFits, Run
<1>5. /\ it \in DOMAIN w /\ at \in DOMAIN range /\ n \in Range(w) /\ range \in Seq(Answers)
  BY <1>3, <1>4 DEF InPivot, NodesFit, RangeFits, Run
<1>6. dim \in 1 .. stage - 1 /\ WalkInv
  BY <1>2, Sizes DEF Built, QueryInv
<1>7. sel \in Seq(Answers)
  BY <1>5, <1>6, SelectLists
<1>8. NodeSplit(dim, n)
  BY <1>2, <1>5, SelectNodes
<1>9. range[at].front <= n.front /\ n.back <= range[at].back
  BY <1>1, <1>3, <1>4, <1>5, NodeInside, AnswerEdges DEF RangeFits, Run
<1>10. Nested(sel, range)
  BY <1>5, <1>6, <1>9, SelectNested
<1>11. Groups(query, dim) => Tells(query, dim, sel)
  BY <1>5, <1>6, <1>8, SelectTells
<1> HIDE DEF sel, n, w
<1>12. ASSUME ClientShape(query)
       PROVE  KeysFit(query, dim, range, found \o sel, target, tuples)
  <2>1. KeysFit(query, dim, range, found, target, tuples)
    BY <1>2, <1>12 DEF KeysInv
  <2>2. Nested(found, range) /\ (Groups(query, dim) => Tells(query, dim, found))
    BY <1>2, <2>1 DEF KeysFit, LoopTells
  <2>3. Nested(found \o sel, range)
    BY <1>4, <1>7, <1>10, <2>2, ConcatNested
  <2>4. dim # 0
    BY <1>2, DimKinds
  <2>5. Groups(query, dim) => Tells(query, dim, found \o sel)
    BY <1>4, <1>7, <1>11, <2>2, <2>4, ConcatTells
  <2>6. LoopTells(query, dim, range, found \o sel)
    BY <2>3, <2>5 DEF LoopTells
  <2> QED BY <2>1, <2>6 DEF KeysFit
<1> QED BY <1>1, <1>2, <1>12, KeysNext

\* The dimension that was finished is the target if the query is about it; of a
\* later one the range is finer than the target.
LEMMA FinishTarget ==
    ASSUME NEW q, ClientShape(q), NEW d \in 1 .. Dims, Evals(q, d), NEW r, NEW f, NEW t, NEW u,
           KeysFit(q, d, r, f, t, u), Run(f), NEW t2,
           t2 = IF (~IsTemporal(d) /\ d \in q.group /\ q.type = "GROUP")
                     \/ (IsTemporal(d) /\ q.type = "TSERIES")
                THEN [dim |-> d, pivots |-> f, equal |-> TRUE]
                ELSE IF ~IsTemporal(d) /\ d \in q.group
                THEN [t EXCEPT !.equal = @ \/ q.type = "SCATTER"]
                ELSE [t EXCEPT !.equal = FALSE]
    PROVE  IsTarget(t2) /\ TargetFits(q, d + 1, f, t2)
<1>1. IsTarget(t) /\ LoopTells(q, d, r, f) /\ TargetFits(q, d, r, t)
  BY DEF KeysFit
<1>2. IsTarget(t2)
  BY <1>1 DEF IsTarget
<1>3. TargetFits(q, d + 1, f, t2)
  <2> SUFFICES ASSUME q.type \in ByTarget, KeyDim(q) < d + 1
               PROVE  /\ t2.dim = KeyDim(q) /\ Run(t2.pivots) /\ Tells(q, KeyDim(q), t2.pivots)
                      /\ Nested(f, t2.pivots)
                      /\ t2.equal => t2.pivots = f
    BY DEF TargetFits
  <2> DEFINE m == KeyDim(q)
  <2>1. /\ m \in 0 .. Dims /\ (m # 0 => Groups(q, m)) /\ (m = 0 <=> q.type = "TILE")
        /\ (m # 0 => (IsTemporal(m) <=> q.type = "TSERIES"))
        /\ (Groups(q, d) => d <= m)
    BY KeyDimIs
  <2>2. Nested(f, r) /\ (Groups(q, d) => Tells(q, d, f))
    BY <1>1 DEF LoopTells
  <2> HIDE DEF m
  <2>3. d \in Nat /\ d # 0 /\ m \in Nat /\ m < d + 1
    BY <2>1, DimKinds DEF m
  <2>4. CASE m = d
    <3>1. Groups(q, d)
      BY <2>1, <2>3, <2>4
    <3>2. q.type # "TILE"
      BY <2>1, <2>3, <2>4
    <3>3. t2 = [dim |-> d, pivots |-> f, equal |-> TRUE]
      <4>1. CASE IsTemporal(d)
        BY <3>1, <4>1 DEF Groups
      <4>2. CASE ~IsTemporal(d)
        <5>1. q.type = "GROUP"
          BY <2>1, <2>3, <2>4, <3>2, <4>2 DEF ByTarget
        <5> QED BY <3>1, <4>2, <5>1 DEF Groups
      <4> QED BY <4>1, <4>2
    <3>4. t2.dim = d /\ t2.pivots = f
      BY <3>3
    <3> QED BY <2>2, <2>4, <3>1, <3>4, NestedSelf DEF m
  <2>5. CASE m # d
    <3>1. m < d /\ ~Groups(q, d)
      BY <2>1, <2>3, <2>5
    <3>2. /\ t.dim = m /\ Run(t.pivots) /\ Tells(q, m, t.pivots) /\ Nested(r, t.pivots)
      BY <1>1, <3>1 DEF TargetFits, m
    <3>3. t2 = [t EXCEPT !.equal = FALSE]
      BY <3>1 DEF Groups
    <3>4. t2.dim = t.dim /\ t2.pivots = t.pivots /\ ~t2.equal
      BY <1>1, <3>3 DEF IsTarget
    <3>5. Nested(f, t.pivots)
      BY <2>2, <3>2, NestedNext
    <3> QED BY <3>2, <3>4, <3>5 DEF m
  <2> QED BY <2>4, <2>5
<1> QED BY <1>2, <1>3

\* One and two elements.
LEMMA AppendTwo ==
    ASSUME NEW s, NEW f
    PROVE  Append(<< >>, f) = << f >> /\ Append(<< s >>, f) = << s, f >>
<1> DEFINE S == {s, f}
<1>1. << >> \in Seq(S) /\ << s >> \in Seq(S) /\ s \in S /\ f \in S
  OBVIOUS
<1> HIDE DEF S
<1>2. Append(<< >>, f) = << f >>
  BY <1>1
<1>3. Append(<< s >>, f) = << s, f >>
  <2> DEFINE g == Append(<< s >>, f)
             h == << s, f >>
  <2>1. g \in Seq(S) /\ Len(g) = 2 /\ g[1] = s /\ g[2] = f
    BY <1>1
  <2>2. h \in Seq(S) /\ Len(h) = 2 /\ h[1] = s /\ h[2] = f
    BY <1>1 DEF S
  <2> HIDE DEF g, h
  <2>3. /\ g = [i \in 1 .. 2 |-> g[i]] /\ h = [i \in 1 .. 2 |-> h[i]]
        /\ \A i \in 1 .. 2 : g[i] = h[i]
    BY <2>1, <2>2
  <2>4. g = h
    BY <2>3
  <2> QED BY <2>4 DEF g, h
<1> QED BY <1>2, <1>3

\* The pivots of the two fields of a scatter plot.
LEMMA FinishTuples ==
    ASSUME NEW q, ClientShape(q), NEW d \in 1 .. Dims, Evals(q, d), NEW r, NEW f, NEW t, NEW u,
           KeysFit(q, d, r, f, t, u), Run(f), NEW u2,
           u2 = IF ~IsTemporal(d) /\ d \in q.group /\ q.type = "SCATTER"
                THEN Append(u, f) ELSE u
    PROVE  TuplesFit(q, d + 1, f, u2)
<1> SUFFICES ASSUME NEW a \in CategoricalDims, NEW b \in CategoricalDims,
                    q.type = "SCATTER", a < b, q.group = {a, b}
             PROVE  /\ d + 1 <= a => u2 = << >>
                    /\ a < d + 1 /\ d + 1 <= b =>
                         \E s : u2 = << s >> /\ Run(s) /\ Tells(q, a, s) /\ Nested(f, s)
                    /\ b < d + 1 =>
                         \E s : u2 = << s, f >> /\ Run(s) /\ Tells(q, a, s)
                                /\ Tells(q, b, f) /\ Nested(f, s)
  BY DEF TuplesFit
<1>1. a \in Nat /\ b \in Nat /\ ~IsTemporal(a) /\ ~IsTemporal(b) /\ d \in Nat
  BY DimKinds
<1>2. /\ d <= a => u = << >>
      /\ a < d /\ d <= b => \E s : u = << s >> /\ Run(s) /\ Tells(q, a, s) /\ Nested(r, s)
  BY DEF KeysFit, TuplesFit
<1>3. Nested(f, r) /\ (Groups(q, d) => Tells(q, d, f))
  BY DEF KeysFit, LoopTells
<1>4. ~IsTemporal(d) /\ d <= b
  <2>1. ~IsTemporal(d)
    BY DimKinds DEF Evals, ClientShape
  <2>2. q.where[d] # None \/ d \in {a, b}
    BY <2>1 DEF Evals
  <2>3. Max(q.group) = b
    BY <1>1, PairEnds
  <2>4. d \in CategoricalDims
    BY <2>1, DimKinds
  <2> QED BY <1>1, <2>1, <2>2, <2>3, <2>4 DEF ClientShape
<1>5. CASE d = a
  <2>1. u2 = << f >> /\ Groups(q, d)
    <3>1. u = << >>
      BY <1>1, <1>2, <1>5
    <3> QED BY <1>4, <1>5, <3>1, AppendTwo DEF Groups
  <2>2. ~(d + 1 <= a) /\ ~(b < d + 1)
    BY <1>1, <1>5
  <2> QED BY <1>3, <1>5, <2>1, <2>2, NestedSelf
<1>6. CASE d = b
  <2>1. PICK s : u = << s >> /\ Run(s) /\ Tells(q, a, s) /\ Nested(r, s)
    BY <1>1, <1>2, <1>6
  <2>2. u2 = << s, f >> /\ Groups(q, d)
    BY <1>4, <1>6, <2>1, AppendTwo DEF Groups
  <2>3. Nested(f, s)
    BY <1>3, <2>1, NestedNext
  <2>4. ~(d + 1 <= a) /\ ~(d + 1 <= b)
    BY <1>1, <1>6
  <2> QED BY <1>3, <1>6, <2>1, <2>2, <2>3, <2>4
<1>7. CASE d # a /\ d # b
  <2>1. u2 = u /\ d < b
    BY <1>1, <1>4, <1>7
  <2>2. CASE d < a
    BY <1>1, <1>2, <2>1, <2>2
  <2>3. CASE a < d
    <3>1. PICK s : u = << s >> /\ Run(s) /\ Tells(q, a, s) /\ Nested(r, s)
      BY <1>2, <1>4, <2>3
    <3>2. Nested(f, s)
      BY <1>3, <3>1, NestedNext
    <3>3. ~(d + 1 <= a) /\ ~(b < d + 1)
      BY <1>1, <2>1, <2>3
    <3> QED BY <2>1, <3>1, <3>2, <3>3
  <2> QED BY <1>1, <1>7, <2>2, <2>3
<1> QED BY <1>5, <1>6, <1>7

\* What a dimension found becomes the range, and the target if the query is about it.
LEMMA FinishDimKeys ==
    ASSUME SelectFacts, KeysInv, FinishDim
    PROVE  KeysInv'
<1>1. /\ query # None /\ dim \in 1 .. Dims /\ UNCHANGED <<vars, query>>
      /\ found' = << >> /\ range' = found /\ dim' = dim + 1 /\ Evals(query, dim) /\ QueryInv
  BY DEF FinishDim, NextDim, SelectFacts
<1>2. dim \in Nat /\ dim > 0 /\ dim' > 0
  BY <1>1, DimKinds
<1>3. ASSUME ClientShape(query), N > 0
      PROVE  KeysFit(query, dim + 1, found, << >>, target', tuples')
  <2>1. KeysFit(query, dim, range, found, target, tuples)
    BY <1>1, <1>2, <1>3 DEF KeysInv
  <2>2. Run(found)
    BY <1>1, <1>3 DEF QueryInv, LoopFits, FoundFits
  <2>3. LoopTells(query, dim + 1, found, << >>)
    BY NothingTold
  <2>4. /\ target' = IF (~IsTemporal(dim) /\ dim \in query.group /\ query.type = "GROUP")
                          \/ (IsTemporal(dim) /\ query.type = "TSERIES")
                     THEN [dim |-> dim, pivots |-> found, equal |-> TRUE]
                     ELSE IF ~IsTemporal(dim) /\ dim \in query.group
                     THEN [target EXCEPT !.equal = @ \/ query.type = "SCATTER"]
                     ELSE [target EXCEPT !.equal = FALSE]
        /\ tuples' = IF ~IsTemporal(dim) /\ dim \in query.group /\ query.type = "SCATTER"
                     THEN Append(tuples, found) ELSE tuples
    BY Zenon DEF FinishDim
  <2> PICK q : q = query
    OBVIOUS
  <2> PICK d : d = dim
    OBVIOUS
  <2> PICK t2 : t2 = target'
    OBVIOUS
  <2> PICK u2 : u2 = tuples'
    OBVIOUS
  <2>5. IsTarget(t2) /\ TargetFits(q, d + 1, found, t2)
    BY <1>1, <1>3, <2>1, <2>2, <2>4, FinishTarget
  <2>6. TuplesFit(q, d + 1, found, u2)
    BY <1>1, <1>3, <2>1, <2>2, <2>4, FinishTuples
  <2> QED BY <2>3, <2>5, <2>6 DEF KeysFit
<1> QED BY <1>1, <1>2, <1>3, KeysNext

-----------------------------------------------------------------------------
(* The counts answered are those of the records that pass.                 *)

\* What the record at a position of a pivot of the target is counted under is
\* what the pivot is written as.
LEMMA KeyIsShown ==
    ASSUME WalkInv, N > 0, Built, query # None, ClientShape(query), query.type \in ByTarget,
           Run(target.pivots), Tells(query, KeyDim(query), target.pivots),
           target.dim = KeyDim(query),
           NEW a \in DOMAIN target.pivots, NEW i \in Span(target.pivots[a])
    PROVE  i \in Records /\ KeyAt(query)[i] = Shown(target.pivots[a].value)
<1> PICK q : q = query
  OBVIOUS
<1> DEFINE u == target.pivots
<1>1. u \in Seq(Answers) /\ i \in Held(u)
  BY PivotHeld DEF Run
<1>2. i \in Records
  BY <1>1, HeldRecords
<1>3. KeyAt(q)[i] = KeyOfRecord(q, index[i])
  BY <1>2 DEF KeyAt
<1>4. CASE q.type = "TILE"
  <2>1. u = SpatialList(q) /\ EvalSpatial(q)
    BY <1>4 DEF KeyDim, Tells, ClientShape
  <2>2. u = QueryTile(q)[Root]
    BY <1>4, <2>1 DEF SpatialList
  <2>3. KeyOfRecord(q, index[i]) = (CHOOSE p \in Range(u) : index[i] \in RecordsOf(p)).value
    BY <1>4, <2>2 DEF KeyOfRecord
  <2>4. Shown(u[a].value) = u[a].value
    BY <1>4 DEF Shown
  <2>5. Run(u) /\ a \in DOMAIN u /\ i \in Span(u[a])
    OBVIOUS
  <2>6. index \in [Records -> Records] /\ IsInjective(index)
    BY DEF WalkInv, TilesInv, IInv, TypeOK
  <2> HIDE DEF u
  <2>7. u[a] \in Range(u) /\ index[i] \in RecordsOf(u[a])
    BY <2>5 DEF Range, RecordsOf
  <2>8. ASSUME NEW p \in Range(u), index[i] \in RecordsOf(p) PROVE p = u[a]
    <3>1. PICK b \in DOMAIN u : p = u[b]
      BY <2>8 DEF Range
    <3>2. PICK j \in Span(u[b]) : index[i] = index[j]
      BY <2>8, <3>1 DEF RecordsOf
    <3>3. j \in Records
      BY <1>1, <3>2, PivotHeld, HeldRecords
    <3>4. i = j
      BY <1>2, <2>6, <3>2, <3>3 DEF IsInjective
    <3>5. i \in Span(u[a]) \cap Span(u[b])
      BY <2>5, <3>2, <3>4
    <3>6. a = b
      BY <2>5, <3>5, RunApart
    <3> QED BY <3>1, <3>6
  <2>9. (CHOOSE p \in Range(u) : index[i] \in RecordsOf(p)) = u[a]
    BY <2>7, <2>8, Zenon
  <2> QED BY <1>2, <1>3, <2>3, <2>4, <2>9 DEF u
<1>5. CASE q.type # "TILE"
  <2> PICK d : d = KeyDim(q)
    OBVIOUS
  <2>1. d # 0
    BY <1>5, KeyDimIs
  <2>2. ValueOf(data[index[i]], d) = u[a].value
    BY <2>1 DEF Tells
  <2>3. CASE q.type = "GROUP"
    <3>1. d = Max(q.group)
      BY <2>3 DEF KeyDim
    <3>2. KeyOfRecord(q, index[i]) = ValueOf(data[index[i]], d)
      BY <2>3, <3>1 DEF KeyOfRecord
    <3>3. Shown(u[a].value) = u[a].value
      BY <2>3 DEF Shown
    <3> QED BY <1>2, <1>3, <2>2, <3>2, <3>3
  <2>4. CASE q.type = "TSERIES"
    <3>1. d = Max({e \in TemporalDims : q.tseries[e] # None})
      BY <2>4 DEF KeyDim
    <3>2. KeyOfRecord(q, index[i]) = BinOf(d, ValueOf(data[index[i]], d))
      BY <2>4, <3>1 DEF KeyOfRecord
    <3>3. Shown(u[a].value) = BinOf(d, u[a].value)
      BY <2>4 DEF Shown
    <3> QED BY <1>2, <1>3, <2>2, <3>2, <3>3
  <2> QED BY <1>5, <2>3, <2>4 DEF ByTarget
<1> QED BY <1>4, <1>5

\* A region is counted under one key.
LEMMA TotalCounts ==
    ASSUME WalkInv, N > 0, NEW q, q.type = "REGION", Run(range), NEW k
    PROVE  CountOf({[key |-> "total", count |-> Total]}, k)
             = Cardinality({i \in Held(range) : KeyAt(q)[i] = k})
<1> PICK n : n = Total
  OBVIOUS
<1> PICK H : H = Held(range)
  OBVIOUS
<1> DEFINE c == [key |-> "total", count |-> n]
           S == {x \in {c} : x.key = k}
           K == {i \in H : KeyAt(q)[i] = k}
<1>1. IsFiniteSet(H) /\ n = Cardinality(H) /\ n \in Nat
  BY TotalIs, FS_CardinalityType
<1>2. \A i \in H : KeyAt(q)[i] = "total"
  <2>1. H \subseteq Records
    BY HeldRecords DEF Run
  <2> QED BY <2>1 DEF KeyAt, KeyOfRecord
<1>3. CountOf({c}, k) = CountSum(S)
  BY DEF CountOf
<1>4. CASE k = "total"
  <2>1. S = {c} /\ K = H
    BY <1>2, <1>4
  <2>2. c.count \in Nat /\ c.count = n
    BY <1>1
  <2> HIDE DEF c, S, K
  <2>3. CountSum({c}) = n
    BY <2>2, CountsOne
  <2> QED BY <1>1, <1>3, <2>1, <2>3 DEF c, K
<1>5. CASE k # "total"
  <2>1. S = {} /\ K = {}
    BY <1>2, <1>5
  <2> HIDE DEF c, S, K
  <2>2. CountSum(S) = 0 /\ Cardinality(K) = 0
    BY <2>1, CountsNone, FS_EmptySet
  <2> QED BY <1>3, <2>2 DEF c, K
<1> QED BY <1>4, <1>5

\* The target counts the records of the range under their keys.
LEMMA TargetCounts ==
    ASSUME WalkInv, Built, N > 0, query # None, ClientShape(query), query.type \in ByTarget,
           Run(range), TargetFits(query, Dims + 1, range, target), NEW k
    PROVE  CountOf(CountByTarget, k) = Cardinality({i \in Held(range) : KeyAt(query)[i] = k})
<1> PICK q : q = query
  OBVIOUS
<1> DEFINE u == target.pivots
           kp == KeyAt(q)
<1>1. KeyDim(q) \in 0 .. Dims /\ KeyDim(q) < Dims + 1 /\ KeyDim(q) \in Nat
  <2>1. KeyDim(q) \in 0 .. Dims
    BY KeyDimIs
  <2> QED BY <2>1, DimKinds
<1>2. /\ target.dim = KeyDim(q) /\ Run(u) /\ Tells(q, KeyDim(q), u) /\ Nested(range, u)
      /\ target.equal => u = range
  BY <1>1 DEF TargetFits
<1>3. target.dim # None
  BY <1>1, <1>2, NoneAssumption
<1>4. ASSUME NEW a \in DOMAIN u, NEW i \in Span(u[a])
      PROVE  kp[i] = Shown(u[a].value)
  BY <1>2, KeyIsShown
<1> HIDE DEF kp
<1>5. CASE target.equal
  <2> DEFINE key == [pair \in {<<j, j>> : j \in DOMAIN range} |-> Shown(range[pair[1]].value)]
  <2>1. CountByTarget = Aggregate(key, range)
    BY <1>3, <1>5 DEF CountByTarget
  <2>2. DOMAIN key = {<<j, j>> : j \in DOMAIN range}
    OBVIOUS
  <2>3. \A j \in DOMAIN range : key[<<j, j>>] = Shown(range[j].value)
    OBVIOUS
  <2> HIDE DEF key
  <2>4. \A j \in DOMAIN range : \A x \in Span(range[j]) : kp[x] = key[<<j, j>>]
    BY <1>2, <1>4, <1>5, <2>3
  <2>5. CountOf(Aggregate(key, range), k) = Cardinality({i \in Held(range) : kp[i] = k})
    BY <2>2, <2>4, OwnCounts
  <2> QED BY <2>1, <2>5 DEF kp
<1>6. CASE ~target.equal
  <2> DEFINE key == [pair \in Merged(u, range) |-> Shown(u[pair[1]].value)]
  <2>1. CountByTarget = Aggregate(key, range)
    BY <1>3, <1>6 DEF CountByTarget
  <2>2. DOMAIN key = Merged(u, range)
    OBVIOUS
  <2>3. \A i, j : <<i, j>> \in DOMAIN key => key[<<i, j>>] = Shown(u[i].value)
    OBVIOUS
  <2> HIDE DEF key
  <2>4. \A i \in DOMAIN u, j \in DOMAIN range :
          <<i, j>> \in DOMAIN key /\ Span(range[j]) \subseteq Span(u[i]) =>
            \A x \in Span(range[j]) : kp[x] = key[<<i, j>>]
    BY <1>4, <2>3
  <2>5. CountOf(Aggregate(key, range), k) = Cardinality({i \in Held(range) : kp[i] = k})
    BY <1>2, <2>2, <2>4, MergeCounts
  <2> QED BY <2>1, <2>5 DEF kp
<1> QED BY <1>5, <1>6

\* The pairs of a scatter plot count the records of the range under theirs.
LEMMA PairCounts ==
    ASSUME WalkInv, N > 0, ClientShape(query), query.type = "SCATTER",
           Run(range), TuplesFit(query, Dims + 1, range, tuples), NEW k
    PROVE  CountOf(CountPairs, k) = Cardinality({i \in Held(range) : KeyAt(query)[i] = k})
<1> PICK q : q = query
  OBVIOUS
<1> PICK r : r = range
  OBVIOUS
<1>1. PICK a \in CategoricalDims, b \in CategoricalDims : a < b /\ q.group = {a, b}
  BY DEF ClientShape
<1>2. /\ a \in 1 .. Dims /\ b \in 1 .. Dims /\ a \in Nat /\ b \in Nat /\ a # 0 /\ b # 0
      /\ b < Dims + 1
  BY DimKinds
<1>3. PICK s : tuples = << s, r >> /\ Run(s) /\ Tells(q, a, s) /\ Tells(q, b, r) /\ Nested(r, s)
  BY <1>1, <1>2 DEF TuplesFit
<1>4. Len(tuples) = 2 /\ tuples[1] = s /\ tuples[2] = r
  BY <1>3
<1> DEFINE kp == KeyAt(q)
           key == [pair \in Merged(s, r) |-> << s[pair[1]].value, r[pair[2]].value >>]
<1>5. CountPairs = Aggregate(key, r)
  BY <1>4 DEF CountPairs
<1>6. DOMAIN key = Merged(s, r)
  OBVIOUS
<1>7. \A i, j : <<i, j>> \in DOMAIN key => key[<<i, j>>] = << s[i].value, r[j].value >>
  OBVIOUS
<1>8. Min(q.group) = a /\ Max(q.group) = b
  BY <1>1, <1>2, PairEnds
<1>9. ASSUME NEW x \in Held(r)
      PROVE  kp[x] = << ValueOf(data[index[x]], a), ValueOf(data[index[x]], b) >>
  <2>1. x \in Records
    BY <1>9, HeldRecords DEF Run
  <2>2. KeyOfRecord(q, index[x]) = << ValueOf(data[index[x]], a), ValueOf(data[index[x]], b) >>
    BY <1>8 DEF KeyOfRecord
  <2> QED BY <2>1, <2>2 DEF KeyAt
<1> HIDE DEF key, kp
<1>10. ASSUME NEW i \in DOMAIN s, NEW j \in DOMAIN r, <<i, j>> \in DOMAIN key,
              Span(r[j]) \subseteq Span(s[i]), NEW x \in Span(r[j])
       PROVE  kp[x] = key[<<i, j>>]
  <2>1. kp[x] = << ValueOf(data[index[x]], a), ValueOf(data[index[x]], b) >>
    BY <1>9, PivotHeld
  <2>2. ValueOf(data[index[x]], a) = s[i].value
    BY <1>2, <1>3, <1>10 DEF Tells
  <2>3. ValueOf(data[index[x]], b) = r[j].value
    BY <1>2, <1>3 DEF Tells
  <2> QED BY <1>7, <1>10, <2>1, <2>2, <2>3
<1>11. CountOf(Aggregate(key, r), k) = Cardinality({i \in Held(r) : kp[i] = k})
  <2>1. \A i \in DOMAIN s, j \in DOMAIN r :
          <<i, j>> \in DOMAIN key /\ Span(r[j]) \subseteq Span(s[i]) =>
            \A x \in Span(r[j]) : kp[x] = key[<<i, j>>]
    BY <1>10
  <2>2. Run(s) /\ Run(r) /\ Nested(r, s)
    BY <1>3
  <2> QED BY <1>6, <2>1, <2>2, MergeCounts
<1> QED BY <1>5, <1>11 DEF kp

\* What the last range is written as counts its records under their keys.
LEMMA SerializedCounts ==
    ASSUME WalkInv, Built, N > 0, query # None, ClientShape(query), query.type # "MYSQL",
           Run(range), KeysFit(query, Dims + 1, range, found, target, tuples), NEW k
    PROVE  CountOf(Serialized, k) = Cardinality({i \in Held(range) : KeyAt(query)[i] = k})
<1>1. CASE query.type = "REGION"
  BY <1>1, TotalCounts DEF Serialized
<1>2. CASE query.type = "SCATTER"
  BY <1>2, PairCounts DEF Serialized, KeysFit
<1>3. CASE query.type \in ByTarget
  <2>1. Serialized = CountByTarget
    BY <1>3 DEF Serialized, ByTarget
  <2> QED BY <1>3, <2>1, TargetCounts DEF KeysFit
<1> QED BY <1>1, <1>2, <1>3 DEF ClientShape, ByTarget

\* The answer to a query is what its last range is written as.
Written == answer # None => answer = Serialized

\* It is nothing else that it is written from.
LEMMA SerializedStays ==
    ASSUME UNCHANGED <<vars, query, range, target, tuples>>
    PROVE  Serialized' = Serialized
<1>1. index' = index /\ interval' = interval
  BY DEF vars
<1>2. \A value : Shown(value)' = Shown(value)
  BY <1>1 DEF Shown, BinOf
<1>3. Rows' = Rows /\ Total' = Total /\ CountPairs' = CountPairs
  <2>1. Rows' = Rows
    BY <1>1 DEF Rows
  <2>2. Total' = Total
    BY Zenon DEF Total, MapThenSumSet, MapThenFoldSet
  <2>3. CountPairs' = CountPairs
    BY DEF CountPairs
  <2> QED BY <2>1, <2>2, <2>3
<1>4. CountByTarget' = CountByTarget
  BY <1>2 DEF CountByTarget
<1> QED BY <1>3, <1>4 DEF Serialized

\* The answer is written once.
LEMMA NextWritten ==
    ASSUME SelectFacts, AnswerFits, Written, [QueryNext]_allVars
    PROVE  Written'
<1>1. CASE answer = None /\ ~Serialize
  <2>1. answer' = answer
    BY <1>1 DEF QueryNext, Ask, QueryStep, QuerySpatial, SkipDim, SeekNode, VisitNode, LeaveRange,
                  FinishDim, allVars, queryVars
  <2> QED BY <1>1, <2>1 DEF Written
<1>2. CASE Serialize
  <2>1. UNCHANGED <<vars, query, range, target, tuples>> /\ answer' = Serialized
    BY <1>2 DEF Serialize
  <2>2. Serialized' = Serialized
    BY <2>1, SerializedStays
  <2> QED BY <2>1, <2>2 DEF Written
<1>3. CASE answer # None /\ ~Serialize
  <2>1. Built /\ query # None /\ dim = Dims + 1 /\ dim \notin 1 .. Dims /\ dim # 0
    BY <1>3, Sizes DEF AnswerFits
  <2>2. ~inRange
    BY <2>1 DEF SelectFacts, QueryInv, QueryPhase
  <2>3. ~Next
    BY <2>1, BuildOver DEF SelectFacts, QueryInv, WalkInv, TilesInv
  <2>4. UNCHANGED allVars
    BY <1>3, <2>1, <2>2, <2>3 DEF QueryNext, Ask, QueryStep, QuerySpatial, SkipDim, SeekNode,
                                  VisitNode, LeaveRange, FinishDim
  <2>5. UNCHANGED <<vars, query, range, target, tuples>> /\ answer' = answer
    BY <2>4 DEF allVars, queryVars
  <2>6. Serialized' = Serialized
    BY <2>5, SerializedStays
  <2> QED BY <1>3, <2>5, <2>6 DEF Written
<1> QED BY <1>1, <1>2, <1>3

\* Every step keeps to the keys.
LEMMA NextKeys ==
    ASSUME SelectFacts, HashesKeepOrder, LabelsTellApart, KeysInv, [QueryNext]_allVars
    PROVE  KeysInv'
<1>1. query = None => dim = 0
  BY DEF SelectFacts, QueryInv, QueryPhase
<1>2. ASSUME query' = None \/ dim = 0, UNCHANGED <<dim, target, tuples>>, query = None
      PROVE  KeysInv'
  BY <1>1, <1>2 DEF KeysInv
<1>3. CASE Next /\ UNCHANGED queryVars
  <2>1. ~Built
    BY <1>3, BuildOver DEF SelectFacts, QueryInv, WalkInv, TilesInv
  <2>2. query = None
    BY <2>1 DEF SelectFacts, QueryInv, QueryPhase
  <2> QED BY <1>1, <1>2, <1>3, <2>2 DEF queryVars
<1>4. CASE \E q \in Queries : Ask(q)
  <2>1. query = None /\ UNCHANGED <<dim, target, tuples>>
    BY <1>4 DEF Ask
  <2> QED BY <1>1, <1>2, <2>1
<1>5. CASE SeekNode \/ LeaveRange \/ Serialize \/ UNCHANGED allVars
  <2>1. UNCHANGED <<vars, query, dim, range, found, target, tuples>>
    BY <1>5 DEF SeekNode, LeaveRange, Serialize, allVars, queryVars
  <2>2. CASE query # None /\ dim > 0
    BY <2>1, <2>2, QuietKeys
  <2>3. CASE query = None
    BY <1>1, <1>2, <2>1, <2>3
  <2>4. CASE dim = 0
    BY <2>1, <2>4 DEF KeysInv
  <2>5. dim = 0 \/ dim > 0
    BY DimKinds DEF SelectFacts, QueryInv, QueryPhase
  <2> QED BY <2>2, <2>3, <2>4, <2>5
<1> QED BY <1>3, <1>4, <1>5, QuerySpatialKeys, SkipDimKeys, VisitNodeKeys, FinishDimKeys
           DEF QueryNext, QueryStep

\* The inductive invariant of the counts.
CountInv ==
    /\ AnswerInv /\ Written
    /\ HashesKeepOrder /\ LabelsTellApart => KeysInv

\* No query was asked.
LEMMA InitCount == QueryInit => CountInv
<1> SUFFICES ASSUME QueryInit PROVE CountInv
  OBVIOUS
<1>1. AnswerInv
  BY InitAnswer
<1>2. query = None /\ answer = None /\ target = NoTarget /\ tuples = << >>
  BY DEF QueryInit
<1> QED BY <1>1, <1>2 DEF CountInv, Written, KeysInv

\* Every step keeps the invariant.
LEMMA NextCount ==
    ASSUME CountInv, [QueryNext]_allVars
    PROVE  CountInv'
<1>1. AnswerInv /\ Written /\ SelectFacts /\ AnswerFits
  BY DEF CountInv, AnswerInv
<1>2. AnswerInv' /\ Written'
  BY <1>1, NextAnswer, NextWritten
<1>3. (HashesKeepOrder /\ LabelsTellApart => KeysInv)'
  <2>1. data' = data
    BY QueryLeavesCube, DataStays
  <2>2. HashesKeepOrder' /\ LabelsTellApart' => HashesKeepOrder /\ LabelsTellApart
    BY <2>1 DEF HashesKeepOrder, LabelsTellApart
  <2> QED BY <1>1, <2>2, NextKeys DEF CountInv
<1> QED BY <1>2, <1>3 DEF CountInv

\* The counts answered to a query are those of the records that pass it: a
\* drawn tile counts the records in it, a value those that have it, a bin of a
\* time-series those of its times, a point of a scatter plot those of both its
\* values and a region all of its own. None is counted twice or under another
\* key by the merge of the last range into the target, none is lost when a
\* dimension hands its pivots to the next. The query has one of the shapes the
\* page sends, the values keep their order in 16 bits (Data::setHash) and fit
\* the byte of a categorical_t, and the dataset is not empty.
THEOREM CountsHold ==
    QuerySpec => [](N > 0 /\ HashesKeepOrder /\ LabelsTellApart /\ ClientShape(query)
                      => AnswerIsCount)
<1>1. QueryInit => CountInv
  BY InitCount
<1>2. CountInv /\ [QueryNext]_allVars => CountInv'
  BY NextCount
<1>3. CountInv => (N > 0 /\ HashesKeepOrder /\ LabelsTellApart /\ ClientShape(query)
                     => AnswerIsCount)
  <2> SUFFICES ASSUME CountInv, N > 0, HashesKeepOrder, LabelsTellApart, ClientShape(query),
                      answer # None, query.type # "MYSQL", NEW k
               PROVE  CountOf(answer, k) \in
                        Cardinality({r \in Reference(query, FALSE) : KeyOfRecord(query, r) = k})
                        .. Cardinality({r \in Reference(query, TRUE) : KeyOfRecord(query, r) = k})
    BY DEF AnswerIsCount
  <2>1. /\ answer = Serialized /\ Built /\ query # None /\ dim = Dims + 1 /\ dim > 0
        /\ dim - 1 = Dims /\ WalkInv /\ Run(range) /\ SelectInv /\ KeysInv
    BY Sizes DEF CountInv, Written, AnswerInv, AnswerFits, SelectFacts, QueryInv, RangeRuns
  <2>2. Narrowed(query, Dims, range)
    <3>1. Heeds(query)
      BY DEF Heeds, ClientShape
    <3> QED BY <2>1, <3>1 DEF SelectInv, Selects
  <2>3. KeysFit(query, Dims + 1, range, found, target, tuples)
    BY <2>1 DEF KeysInv
  <2>4. CountOf(answer, k) = Cardinality({i \in Held(range) : KeyAt(query)[i] = k})
    BY <2>1, <2>3, SerializedCounts
  <2> QED BY <2>1, <2>2, <2>4, CountFits
<1> QED BY <1>1, <1>2, <1>3, PTL DEF QuerySpec

-----------------------------------------------------------------------------
(* Tiles and regions on the grid.                                          *)

\* The multiples of w around x.
LEMMA DivBounds ==
    ASSUME NEW x \in Nat, NEW w \in Nat \ {0}, NEW c, c = x \div w
    PROVE  c \in Nat /\ c * w <= x /\ x < (c + 1) * w
<1>1. c \in Nat /\ x % w \in Nat /\ x % w < w /\ x = w * c + (x % w)
  BY DivMod
<1> PICK r : r = x % w
  OBVIOUS
<1>2. c * w = w * c /\ (c + 1) * w = w * c + w /\ w * c \in Nat
  BY <1>1
<1>3. w * c \in Int /\ w \in Int /\ r \in Nat /\ r < w /\ x = w * c + r
  BY <1>1, <1>2
<1> PICK v : v = w * c
  OBVIOUS
<1>4. c * w = v /\ (c + 1) * w = v + w /\ v \in Int /\ x = v + r
  BY <1>2, <1>3
<1> QED BY <1>1, <1>3, <1>4

\* Multiples keep their order.
LEMMA TimesOrder ==
    ASSUME NEW a \in Nat, NEW b \in Nat, a <= b, NEW w \in Nat
    PROVE  a * w <= b * w /\ a * w \in Nat /\ b * w \in Nat
<1>1. PICK d \in Nat : b = a + d
  <2>1. b - a \in Nat /\ b = a + (b - a)
    OBVIOUS
  <2> QED BY <2>1
<1>2. (a + d) * w = a * w + d * w /\ a * w \in Nat /\ d * w \in Nat
  OBVIOUS
<1>3. b * w = a * w + d * w
  BY <1>1, <1>2
<1> QED BY <1>2, <1>3

\* A tile side and a region side that have a point in common meet.
LEMMA SidesMeet ==
    ASSUME NEW p \in Nat, NEW a \in Nat \ {0}, NEW b \in Nat \ {0},
           NEW c, c = p \div a, NEW x0 \in Nat, NEW x1 \in Nat,
           NEW t, t = p \div b, x0 <= t, t <= x1
    PROVE  2 * (x1 + 1) * b >= 2 * c * a /\ 2 * x0 * b <= 2 * (c + 1) * a
<1>1. c \in Nat /\ c * a <= p /\ p < (c + 1) * a
  BY DivBounds
<1>2. t \in Nat /\ t * b <= p /\ p < (t + 1) * b
  BY DivBounds
<1>3. x0 * b <= t * b /\ x0 * b \in Nat /\ t * b \in Nat
  BY <1>2, TimesOrder
<1>4. (t + 1) * b <= (x1 + 1) * b /\ (t + 1) * b \in Nat /\ (x1 + 1) * b \in Nat
  <2>1. t + 1 \in Nat /\ x1 + 1 \in Nat /\ t + 1 <= x1 + 1
    BY <1>2
  <2> QED BY <2>1, TimesOrder
<1>5. c * a \in Nat /\ (c + 1) * a \in Nat
  BY <1>1, TimesOrder
<1>6. \A u, v \in Nat : 2 * u * v = 2 * (u * v)
  OBVIOUS
<1>7. /\ 2 * (x1 + 1) * b = 2 * ((x1 + 1) * b) /\ 2 * c * a = 2 * (c * a)
      /\ 2 * x0 * b = 2 * (x0 * b) /\ 2 * (c + 1) * a = 2 * ((c + 1) * a)
  BY <1>1, <1>6
<1> PICK e : e = (x1 + 1) * b
  OBVIOUS
<1> PICK f : f = c * a
  OBVIOUS
<1> PICK g : g = x0 * b
  OBVIOUS
<1> PICK h : h = (c + 1) * a
  OBVIOUS
<1>8. e \in Nat /\ f \in Nat /\ g \in Nat /\ h \in Nat /\ f <= e /\ g <= h
  BY <1>1, <1>2, <1>3, <1>4, <1>5
<1> QED BY <1>7, <1>8

\* The place of a record, in tiles of a zoom.
LEMMA PlaceIs ==
    ASSUME NEW r \in Record, NEW k \in SpatialKeys, NEW z \in 0 .. MaxZoom
    PROVE  /\ r.at[k].x \in Nat /\ r.at[k].y \in Nat
           /\ 2^(MaxZoom - z) \in Nat \ {0}
           /\ TileOf(r, k, z).x = r.at[k].x \div 2^(MaxZoom - z)
           /\ TileOf(r, k, z).y = r.at[k].y \div 2^(MaxZoom - z)
<1>1. r.at[k] \in Point
  BY DEF Record, SpatialKeys
<1>2. 2^MaxZoom \in Nat \ {0}
  BY CubeAssumption, PowerOfTwo
<1>3. r.at[k].x \in Nat /\ r.at[k].y \in Nat
  BY <1>1, <1>2, SMT DEF Point
<1>4. MaxZoom - z \in Nat
  BY CubeAssumption
<1>5. 2^(MaxZoom - z) \in Nat \ {0}
  BY <1>4, PowerOfTwo
<1> QED BY <1>3, <1>5 DEF TileOf

\* The tile of a record in a region meets the region.
LEMMA TileMeets ==
    ASSUME NEW r \in Record, NEW k \in SpatialKeys, NEW n, n.z \in 0 .. MaxZoom,
           TileOf(r, k, n.z) = [x |-> n.x, y |-> n.y],
           NEW g, IsRegion(g), NEW t, t = TileOf(r, k, g.z),
           t.x \in g.x0 .. g.x1, t.y \in g.y0 .. g.y1
    PROVE  IntersectsTile(n, g)
<1> PICK a : a = 2^(MaxZoom - n.z)
  OBVIOUS
<1> PICK b : b = 2^(MaxZoom - g.z)
  OBVIOUS
<1> PICK p : p = r.at[k].x
  OBVIOUS
<1> PICK s : s = r.at[k].y
  OBVIOUS
<1>1. g.z \in 0 .. MaxZoom /\ g.x0 \in Nat /\ g.x1 \in Nat /\ g.y0 \in Nat /\ g.y1 \in Nat
  BY DEF IsRegion
<1>2. /\ p \in Nat /\ s \in Nat /\ a \in Nat \ {0} /\ b \in Nat \ {0}
      /\ TileOf(r, k, n.z).x = p \div a /\ TileOf(r, k, n.z).y = s \div a
      /\ t.x = p \div b /\ t.y = s \div b
  BY <1>1, PlaceIs
<1>3. n.x = p \div a /\ n.y = s \div a
  BY <1>2
<1>4. /\ g.x0 <= t.x /\ t.x <= g.x1 /\ g.y0 <= t.y /\ t.y <= g.y1
  <2>1. t.x \in Nat /\ t.y \in Nat
    BY <1>2, DivBounds
  <2> QED BY <1>1, <2>1
<1>5. 2 * (g.x1 + 1) * b >= 2 * n.x * a /\ 2 * g.x0 * b <= 2 * (n.x + 1) * a
  BY <1>1, <1>2, <1>3, <1>4, SidesMeet
<1>6. 2 * (g.y1 + 1) * b >= 2 * n.y * a /\ 2 * g.y0 * b <= 2 * (n.y + 1) * a
  BY <1>1, <1>2, <1>3, <1>4, SidesMeet
<1>7. \A c : Line(c, n.z) = 2 * c * a /\ Line(c, g.z) = 2 * c * b
  BY <1>1, CubeAssumption DEF Line
<1>8. /\ Line(g.x1 + 1, g.z) = 2 * (g.x1 + 1) * b /\ Line(n.x, n.z) = 2 * n.x * a
      /\ Line(g.x0, g.z) = 2 * g.x0 * b /\ Line(n.x + 1, n.z) = 2 * (n.x + 1) * a
      /\ Line(g.y1 + 1, g.z) = 2 * (g.y1 + 1) * b /\ Line(n.y, n.z) = 2 * n.y * a
      /\ Line(g.y0, g.z) = 2 * g.y0 * b /\ Line(n.y + 1, n.z) = 2 * (n.y + 1) * a
  BY <1>7, Zenon
<1> QED BY <1>5, <1>6, <1>8, Zenon DEF IntersectsTile

-----------------------------------------------------------------------------
(* What lies below a node of another key, and below a leaf.                *)

\* A leaf has the nodes of the levels from n down to one of key k.
Reaches(n, k) ==
    n.last => \E t \in Nat : /\ n.level <= t /\ t % Keys = k
                             /\ \A l \in n.level .. t : LeafOn(n, l)

\* From every level each key comes within Keys levels.
LEMMA KeyComes ==
    ASSUME NEW l \in Nat, NEW k \in SpatialKeys
    PROVE  \E j \in 0 .. Keys - 1 : (l + j) % Keys = k
<1> PICK w : w = Keys
  OBVIOUS
<1>1. w \in Nat /\ w > 0 /\ k \in 0 .. w - 1
  BY CubeAssumption DEF SpatialKeys
<1> DEFINE q == l \div w
           r == l % w
<1>2. q \in Nat /\ r \in 0 .. w - 1 /\ l = w * q + r
  BY <1>1, DivMod
<1> HIDE DEF q, r
<1>3. w * q \in Nat /\ w * (q + 1) = w * q + w
  BY <1>1, <1>2
<1>4. \A c \in Nat : (w * c + k) % w = k
  BY <1>1
<1>5. CASE r <= k
  <2>1. k - r \in 0 .. w - 1 /\ l + (k - r) = w * q + k
    BY <1>1, <1>2, <1>3, <1>5
  <2> QED BY <1>2, <1>4, <2>1
<1>6. CASE r > k
  <2>1. k + w - r \in 0 .. w - 1 /\ l + (k + w - r) = w * (q + 1) + k
    BY <1>1, <1>2, <1>3, <1>6
  <2>2. q + 1 \in Nat
    BY <1>2
  <2>3. (w * (q + 1) + k) % w = k
    BY <1>4, <2>2
  <2> QED BY <2>1, <2>3
<1> QED BY <1>1, <1>2, <1>5, <1>6

\* What is known of the levels of two tiles.
LEMMA ChildIs ==
    ASSUME WalkInv, NEW n \in tiles, NEW m \in Children(n)
    PROVE  /\ m \in tiles /\ m.level = n.level + 1 /\ Span(m) \subseteq Span(n)
           /\ n.level \in Nat /\ m.level \in Nat
<1>1. m \in tiles /\ m.level = n.level + 1 /\ Span(m) \subseteq Span(n)
  BY DEF Children
<1>2. TileShape(m) /\ TileShape(n)
  BY <1>1, TileFacts DEF WalkInv, TilesInv
<1> QED BY <1>1, <1>2 DEF TileShape

\* A leaf that does not hang below another has the nodes of all keys.
LEMMA LeafReaches ==
    ASSUME WalkInv, NEW m \in tiles, NEW k \in SpatialKeys, ~LeafOn(m, m.level - 1)
    PROVE  Reaches(m, k)
<1> SUFFICES ASSUME m.last
             PROVE  \E t \in Nat : /\ m.level <= t /\ t % Keys = k
                                   /\ \A l \in m.level .. t : LeafOn(m, l)
  BY DEF Reaches
<1>1. PICK l \in Nat : /\ l <= m.level /\ m.level < l + Keys
                       /\ \A j \in 0 .. Keys - 1 : LeafOn(m, l + j)
  BY DEF WalkInv, LeafChains
<1>2. m.level \in Nat /\ Keys \in Nat
  BY TileFacts, CubeAssumption DEF WalkInv, TilesInv, TileShape
<1>3. l = m.level
  <2> SUFFICES ASSUME l < m.level PROVE FALSE
    BY <1>1, <1>2
  <2> DEFINE j == m.level - 1 - l
  <2>1. j \in 0 .. Keys - 1 /\ l + j = m.level - 1
    BY <1>1, <1>2
  <2> HIDE DEF j
  <2> QED BY <1>1, <2>1
<1>4. PICK j \in 0 .. Keys - 1 : (l + j) % Keys = k
  BY KeyComes
<1>5. ASSUME NEW e \in m.level .. l + j PROVE LeafOn(m, e)
  <2> DEFINE i == e - l
  <2>1. i \in 0 .. Keys - 1 /\ l + i = e
    BY <1>2, <1>3, <1>5
  <2> HIDE DEF i
  <2> QED BY <1>1, <2>1
<1>6. l + j \in Nat /\ m.level <= l + j
  BY <1>2, <1>3
<1> QED BY <1>4, <1>5, <1>6

\* So do the children of a node that was split, and those of a leaf that are not
\* below that of the key.
LEMMA ChildReaches ==
    ASSUME WalkInv, NEW n \in tiles, NEW k \in SpatialKeys, Reaches(n, k),
           n.last => KeyOf(n) # k, NEW m \in Children(n)
    PROVE  Reaches(m, k)
<1>1. /\ m \in tiles /\ m.level = n.level + 1 /\ Span(m) \subseteq Span(n)
      /\ n.level \in Nat /\ m.level \in Nat
  BY ChildIs
<1>2. CASE n.last
  <2>1. PICK t \in Nat : /\ n.level <= t /\ t % Keys = k
                         /\ \A l \in n.level .. t : LeafOn(n, l)
    BY <1>2 DEF Reaches
  <2>2. m.front = n.front /\ m.back = n.back
    BY <1>2, BelowLeaf
  <2>3. t # n.level
    BY <1>2, <2>1 DEF KeyOf
  <2>4. m.level <= t /\ \A l \in m.level .. t : l \in n.level .. t
    BY <1>1, <2>1, <2>3
  <2>5. \A l \in m.level .. t : LeafOn(m, l)
    BY <2>1, <2>2, <2>4 DEF LeafOn
  <2> QED BY <2>1, <2>4, <2>5 DEF Reaches
<1>3. CASE ~n.last
  <2>1. ~LeafOn(m, m.level - 1)
    <3> SUFFICES ASSUME NEW o \in tiles, o.last, o.level = m.level - 1,
                        o.front = m.front, o.back = m.back
                 PROVE  FALSE
      BY DEF LeafOn
    <3>1. TileShape(m) /\ m.front < m.back
      BY <1>1, TileFacts DEF WalkInv, TilesInv, TreeInv, LevelsApart
    <3>2. o.level = n.level
      BY <1>1
    <3>3. m.front \in Span(m) /\ Span(o) = Span(m)
      BY <3>1 DEF Span, TileShape
    <3>4. m.front \in Span(n) /\ m.front \in Span(o)
      BY <1>1, <3>3
    <3>5. o = n
      BY <3>2, <3>4, OneTile DEF WalkInv, TilesInv, TreeInv
    <3> QED BY <1>3, <3>5
  <2> QED BY <1>1, <2>1, LeafReaches
<1> QED BY <1>2, <1>3

\* Above that of the key every position of a node is in a child.
LEMMA ChildHas ==
    ASSUME WalkInv, stage > 0, NEW n \in tiles, NEW k \in SpatialKeys, Reaches(n, k),
           n.last => KeyOf(n) # k, NEW i \in Span(n)
    PROVE  \E m \in Children(n) : i \in Span(m)
<1>1. CASE ~n.last
  <2>1. UNION {Span(m) : m \in Children(n)} = Span(n)
    BY <1>1, TreeCovers DEF WalkInv, TilesInv, QuadtreeCovers
  <2> QED BY <2>1, Zenon
<1>2. CASE n.last
  <2>1. PICK t \in Nat : /\ n.level <= t /\ t % Keys = k
                         /\ \A l \in n.level .. t : LeafOn(n, l)
    BY <1>2 DEF Reaches
  <2>2. t # n.level
    BY <1>2, <2>1 DEF KeyOf
  <2>3. n.level \in Nat
    BY TileFacts DEF WalkInv, TilesInv, TileShape
  <2>4. n.level + 1 \in n.level .. t
    BY <2>1, <2>2, <2>3
  <2>5. PICK c \in tiles : c.level = n.level + 1 /\ c.front = n.front /\ c.back = n.back
    BY <2>1, <2>4 DEF LeafOn
  <2>6. Span(c) = Span(n)
    BY <2>5 DEF Span
  <2> QED BY <2>5, <2>6 DEF Children
<1> QED BY <1>1, <1>2

\* The root is below no leaf.
LEMMA RootReaches ==
    ASSUME WalkInv, NEW m \in tiles, m.level = 0, NEW k \in SpatialKeys
    PROVE  Reaches(m, k)
<1>1. ~LeafOn(m, m.level - 1)
  <2> SUFFICES ASSUME NEW c \in tiles, c.level = m.level - 1 PROVE FALSE
    BY DEF LeafOn
  <2>1. c.level \in Nat
    BY TileFacts DEF WalkInv, TilesInv, TileShape
  <2> QED BY <2>1
<1> QED BY <1>1, LeafReaches

-----------------------------------------------------------------------------
(* Where queryRegion goes.                                                 *)

\* No zoom of a tile wraps.
NoZoomWraps == \A n \in tiles : n.z \in 0 .. MaxZoom /\ n.z # 31

\* Record r is in all regions of q.
InRegions(q, r) ==
    \A k \in SpatialKeys : EvalRegion(q, k) => InRegion(r, k, q.region[k])

\* queryRegion does not leave a node that has a record of the regions.
LEMMA NotCut ==
    ASSUME WalkInv, TilesHoldTheirRecords, NoZoomWraps, NEW q, RegionShape(q),
           NEW n \in tiles, NEW i \in Span(n), InRegions(q, index[i])
    PROVE  ~Cuts(q, n)
<1> SUFFICES ASSUME EvalRegion(q, KeyOf(n)) PROVE IntersectsTile(n, q.region[KeyOf(n)])
  BY DEF Cuts
<1> PICK k : k = KeyOf(n)
  OBVIOUS
<1> PICK r : r = index[i]
  OBVIOUS
<1> PICK g : g = q.region[k]
  OBVIOUS
<1>1. k \in SpatialKeys
  <2>1. n.level \in Nat
    BY TileFacts DEF WalkInv, TilesInv, TileShape
  <2>2. Keys \in Nat \ {0}
    BY CubeAssumption
  <2> QED BY <2>1, <2>2 DEF KeyOf, SpatialKeys
<1>2. r \in Records /\ data[r] \in Record
  <2>1. i \in Records
    BY Sizes, TileEdges DEF Span, Records
  <2>2. index \in [Records -> Records] /\ data \in Datasets
    BY DEF WalkInv, TilesInv, IInv, TypeOK
  <2>3. data \in [Records -> Record]
    BY <2>2, CubeAssumption
  <2> QED BY <2>1, <2>2, <2>3
<1>3. n.z \in 0 .. MaxZoom /\ n.z # 31
  BY DEF NoZoomWraps
<1>4. TileOf(data[r], k, n.z) = [x |-> n.x, y |-> n.y]
  <2>1. r \in RecordsOf(n)
    BY DEF RecordsOf
  <2> QED BY <1>3, <2>1 DEF TilesHoldTheirRecords, KeyOf
<1>5. IsRegion(g) /\ InRegion(r, k, g)
  BY <1>1 DEF RegionShape, InRegions
<1>6. PICK t : t = TileOf(data[r], k, g.z)
  OBVIOUS
<1>7. t.x \in g.x0 .. g.x1 /\ t.y \in g.y0 .. g.y1
  BY <1>5, <1>6 DEF InRegion
<1> PICK s : s = data[r]
  OBVIOUS
<1>8. s \in Record /\ TileOf(s, k, n.z) = [x |-> n.x, y |-> n.y] /\ t = TileOf(s, k, g.z)
  BY <1>2, <1>4, <1>6
<1> QED BY <1>1, <1>3, <1>5, <1>7, <1>8, TileMeets

\* A tile found has its positions.
LEMMA FoundHas ==
    ASSUME WalkInv, NEW n \in tiles, NEW i \in Span(n)
    PROVE  i \in Held(TileFound(n))
<1> DEFINE p == Labelled(n, [x |-> n.x, y |-> n.y, z |-> n.z])
<1>1. p \in Range(TileFound(n))
  BY TileFoundLists
<1>2. Span(p) = Span(n)
  BY DEF Labelled, Span
<1> QED BY <1>1, <1>2 DEF Held

\* What is found below a node has what is found below its children.
LEMMA DescendHas ==
    ASSUME WalkInv, NEW n \in tiles, NEW f, \A m \in Children(n) : Lists(f[m], m),
           NEW m \in Children(n), NEW i \in Held(f[m])
    PROVE  i \in Held(Descend(f, n))
<1>1. Range(Descend(f, n)) = UNION {Range(f[o]) : o \in Children(n)}
  BY DescendLists
<1>2. PICK p \in Range(f[m]) : i \in Span(p)
  BY DEF Held
<1>3. p \in Range(Descend(f, n))
  BY <1>1
<1> QED BY <1>2, <1>3 DEF Held

\* So it finds the positions of all of them.
LEMMA RegionsCover ==
    ASSUME WalkInv, stage > 0, TilesHoldTheirRecords, NoZoomWraps, NEW q, RegionShape(q),
           NEW n \in tiles, Reaches(n, q.lastRegion), NEW i \in Span(n), InRegions(q, index[i])
    PROVE  i \in Held(QueryRegion(q)[n])
<1> DEFINE f == QueryRegion(q)
           S == RegionStop(q)
           out == [m \in tiles |-> IF Cuts(q, m) THEN << >> ELSE TileFound(m)]
           G == {m \in tiles : Reaches(m, q.lastRegion) =>
                    \A j \in Span(m) : InRegions(q, index[j]) => j \in Held(f[m])}
<1>1. Walks(f, S, out)
  BY QueryRegionIs
<1>2. \A m \in tiles : Lists(f[m], m)
  BY WalksList
<1>3. \A m \in tiles : m \in S => out[m] = IF Cuts(q, m) THEN << >> ELSE TileFound(m)
  OBVIOUS
<1>4. \A m \in tiles : m \notin S /\ m.last => KeyOf(m) # q.lastRegion
  BY DEF RegionStop, RegionShape
<1> HIDE DEF f, S, out
<1>5. ASSUME NEW m \in tiles, \A c \in Children(m) : c \in G PROVE m \in G
  <2> SUFFICES ASSUME Reaches(m, q.lastRegion), NEW j \in Span(m), InRegions(q, index[j])
               PROVE  j \in Held(f[m])
    OBVIOUS
  <2>1. f[m] = IF m \in S THEN out[m] ELSE Descend(f, m)
    BY <1>1 DEF Walks
  <2>2. CASE m \in S
    <3>1. f[m] = TileFound(m)
      BY <1>3, <2>1, <2>2, NotCut
    <3> QED BY <3>1, FoundHas
  <2>3. CASE m \notin S
    <3>1. q.lastRegion \in SpatialKeys /\ (m.last => KeyOf(m) # q.lastRegion)
      BY <1>4, <2>3 DEF RegionShape
    <3>2. PICK c \in Children(m) : j \in Span(c)
      BY <3>1, ChildHas
    <3>3. Reaches(c, q.lastRegion)
      BY <3>1, ChildReaches
    <3>4. j \in Held(f[c])
      BY <1>5, <3>2, <3>3
    <3>5. \A o \in Children(m) : Lists(f[o], o)
      BY <1>2, ChildIs
    <3>6. j \in Held(Descend(f, m))
      BY <3>4, <3>5, DescendHas
    <3> QED BY <2>1, <2>3, <3>6
  <2> QED BY <2>2, <2>3
<1> HIDE DEF G
<1>6. n \in G
  BY <1>5, TreeInduct
<1> QED BY <1>6 DEF G, f

-----------------------------------------------------------------------------
(* The range of the spatial dimension.                                     *)

\* What the spatial dimension answered is what the next one is asked of.
FirstRange == query # None /\ dim = 1 => range = SpatialList(query)

\* Every step keeps it.
LEMMA NextFirstRange ==
    ASSUME QueryInv, FirstRange, [QueryNext]_allVars
    PROVE  FirstRange'
<1> SUFFICES ASSUME query' # None, dim' = 1, NEW p, p = query'
             PROVE  range' = SpatialList(p)'
  BY DEF FirstRange
<1>1. CASE Next /\ UNCHANGED queryVars
  <2>1. query # None /\ dim = 1
    BY <1>1 DEF queryVars
  <2>2. ~Built
    BY <1>1, BuildOver DEF QueryInv, WalkInv, TilesInv
  <2> QED BY <2>1, <2>2 DEF QueryInv, QueryPhase
<1>2. CASE ~(Next /\ UNCHANGED queryVars)
  <2>1. UNCHANGED vars
    BY <1>2, QueryLeavesCube
  <2>2. \A q : SpatialList(q)' = SpatialList(q)
    BY <2>1, SpatialStays
  <2>3. ASSUME NEW q \in Queries, Ask(q) PROVE FALSE
    <3>1. query = None /\ dim' = dim
      BY <2>3 DEF Ask
    <3> QED BY <3>1 DEF QueryInv, QueryPhase
  <2>4. CASE QuerySpatial
    <3>1. /\ query # None /\ dim = 0 /\ query' = query
          /\ range = << Labelled(Pivot(0, N), None) >>
      BY <2>4 DEF QuerySpatial, QueryInv, QueryPhase
    <3>2. range' = SpatialList(query)
      BY <2>4, <3>1, Zenon DEF QuerySpatial, SpatialList
    <3> QED BY <2>2, <3>1, <3>2
  <2>5. CASE SkipDim \/ FinishDim
    <3>1. dim \in 1 .. Dims /\ dim' = dim + 1
      BY <2>5 DEF SkipDim, FinishDim, NextDim
    <3> QED BY <3>1, Sizes
  <2>6. CASE UNCHANGED <<query, dim, range>>
    BY <2>2, <2>6 DEF FirstRange
  <2>7. \/ QuerySpatial \/ SkipDim \/ FinishDim \/ UNCHANGED <<query, dim, range>>
        \/ \E q \in Queries : Ask(q)
    BY <1>2 DEF QueryNext, QueryStep, SeekNode, VisitNode, LeaveRange, Serialize, allVars,
                queryVars
  <2> QED BY <2>3, <2>4, <2>5, <2>6, <2>7
<1> QED BY <1>1, <1>2

\* The inductive invariant of a region query.
RegionInv == QueryInv /\ TilesHoldTheirRecords /\ FirstRange

\* The first state satisfies it.
LEMMA InitRegion == QueryInit => RegionInv
<1> SUFFICES ASSUME QueryInit PROVE RegionInv
  OBVIOUS
<1>1. QueryInv
  BY InitQuery
<1>2. tiles = {} /\ query = None
  BY DEF QueryInit, Init
<1> QED BY <1>1, <1>2 DEF RegionInv, TilesHoldTheirRecords, FirstRange

\* Every step keeps it.
LEMMA NextRegion ==
    ASSUME RegionInv, [QueryNext]_allVars
    PROVE  RegionInv'
<1>1. QueryInv /\ TilesInv /\ TilesHoldTheirRecords /\ FirstRange /\ [Next]_vars
  BY QueryLeavesCube DEF RegionInv, QueryInv, WalkInv
<1> QED BY <1>1, NextQuery, NextTilesHold, NextFirstRange DEF RegionInv

\* What a region query answered has every record of the regions.
LEMMA RegionsFound ==
    ASSUME RegionInv, NoZoomWraps, RegionShape(query)
    PROVE  RegionsAreComplete
<1> SUFFICES ASSUME RegionsAnswered, NEW r \in Records, InRegions(query, r)
             PROVE  r \in UNION {RecordsOf(p) : p \in Range(range)}
  BY DEF RegionsAreComplete, InRegions
<1>1. /\ WalkInv /\ TilesHoldTheirRecords /\ Built /\ stage > 0
      /\ range = QueryRegion(query)[Root]
  <2>1. /\ WalkInv /\ TilesHoldTheirRecords /\ Built /\ range = SpatialList(query)
        /\ EvalSpatial(query) /\ query.type # "TILE"
    BY DEF RegionsAnswered, RegionInv, QueryInv, FirstRange
  <2> QED BY <2>1, Sizes DEF SpatialList, Built
<1>2. N > 0
  BY Sizes DEF Records
<1>3. PICK i \in Records : index[i] = r
  BY <1>1, IndexOnto DEF WalkInv, TilesInv
<1>4. Root \in tiles /\ Root.level = 0 /\ i \in Span(Root)
  BY <1>1, <1>2, RootIs DEF Span, Records
<1>5. Reaches(Root, query.lastRegion)
  BY <1>1, <1>4, RootReaches DEF RegionShape
<1>6. i \in Held(QueryRegion(query)[Root])
  BY <1>1, <1>3, <1>4, <1>5, RegionsCover
<1>7. PICK p \in Range(range) : i \in Span(p)
  BY <1>1, <1>6 DEF Held
<1> QED BY <1>3, <1>7 DEF RecordsOf

-----------------------------------------------------------------------------
(* The zooms of the tiles.                                                 *)

\* A number lies between two multiples of w next to each other only.
LEMMA OneMultiple ==
    ASSUME NEW w \in Nat \ {0}, NEW a \in Nat, NEW b \in Nat, NEW x \in Int,
           a * w <= x, x < (a + 1) * w, b * w <= x, x < (b + 1) * w
    PROVE  a = b
<1>1. ASSUME NEW c \in Nat, NEW d \in Nat, c < d, d * w <= x PROVE (c + 1) * w <= x
  <2>1. c + 1 \in Nat /\ c + 1 <= d /\ w \in Nat
    BY <1>1
  <2>2. (c + 1) * w <= d * w /\ (c + 1) * w \in Nat /\ d * w \in Nat
    BY <2>1, TimesOrder
  <2> QED BY <1>1, <2>2
<1>2. (a + 1) * w \in Int /\ (b + 1) * w \in Int
  OBVIOUS
<1> PICK e : e = (a + 1) * w
  OBVIOUS
<1> PICK f : f = (b + 1) * w
  OBVIOUS
<1>3. e \in Int /\ f \in Int /\ x < e /\ x < f /\ (a < b => e <= x) /\ (b < a => f <= x)
  BY <1>1, <1>2
<1> QED BY <1>3

\* What quotient and remainder are.
LEMMA DivIs ==
    ASSUME NEW w \in Nat \ {0}, NEW c \in Nat, NEW r \in 0 .. w - 1, NEW x, x = w * c + r
    PROVE  x \in Nat /\ x \div w = c /\ x % w = r
<1>1. w * c \in Nat /\ r \in Nat /\ r < w /\ c * w = w * c /\ (c + 1) * w = w * c + w
  OBVIOUS
<1>2. x \in Nat
  BY <1>1
<1> PICK b : b = x \div w
  OBVIOUS
<1> PICK s : s = x % w
  OBVIOUS
<1>3. b \in Nat /\ s \in Nat /\ s < w /\ x = w * b + s
  BY <1>2, DivMod
<1>4. w * b \in Nat /\ b * w = w * b /\ (b + 1) * w = w * b + w
  BY <1>3
<1>5. x \in Int /\ c * w <= x /\ x < (c + 1) * w
  BY <1>1
<1>6. b * w <= x /\ x < (b + 1) * w
  BY <1>3, <1>4
<1>7. b = c
  BY <1>3, <1>5, <1>6, OneMultiple
<1>8. s = r
  <2>1. x = w * c + s
    BY <1>3, <1>7
  <2> PICK v : v = w * c
    OBVIOUS
  <2> QED BY <1>1, <1>3, <2>1
<1> QED BY <1>2, <1>7, <1>8

\* The zoom key k has come to when its turn comes, j levels below.
LEMMA ZoomOfTurn ==
    ASSUME NEW l \in Nat, NEW j \in 1 .. Keys, NEW k, k = (l + j) % Keys, NEW z \in Nat,
           z * Keys <= l + Keys - k, (z + 1) * Keys > l + Keys - k
    PROVE  k \in SpatialKeys /\ z = (l + j) \div Keys
<1> PICK w : w = Keys
  OBVIOUS
<1> PICK q : q = (l + j) \div w
  OBVIOUS
<1>1. w \in Nat \ {0} /\ j \in Nat /\ 1 <= j /\ j <= w /\ l + j \in Nat
  BY Sizes
<1>2. q \in Nat /\ k \in Nat /\ k < w /\ l + j = w * q + k
  BY <1>1, DivMod
<1>3. q * w = w * q /\ (q + 1) * w = w * q + w /\ w * q \in Nat
  BY <1>1, <1>2
<1>4. l + w - k = w * q + (w - j)
  BY <1>1, <1>2, <1>3
<1>5. /\ l + w - k \in Int /\ q * w <= l + w - k /\ l + w - k < (q + 1) * w
      /\ z * w <= l + w - k /\ l + w - k < (z + 1) * w
  <2>1. (z + 1) * w \in Int /\ z * w \in Int
    BY <1>1
  <2>2. q * w <= l + w - k /\ l + w - k < (q + 1) * w /\ l + w - k \in Int
    BY <1>1, <1>2, <1>3, <1>4
  <2> PICK e : e = (z + 1) * w
    OBVIOUS
  <2>3. e \in Int /\ e > l + w - k /\ z * w <= l + w - k
    BY <2>1
  <2>4. l + w - k < e
    BY <2>2, <2>3
  <2> QED BY <2>2, <2>3, <2>4
<1>6. z = q
  <2> PICK x : x = l + w - k
    OBVIOUS
  <2>1. /\ x \in Int /\ q * w <= x /\ x < (q + 1) * w /\ z * w <= x /\ x < (z + 1) * w
    BY <1>5
  <2> QED BY <1>1, <1>2, <2>1, OneMultiple
<1>7. k \in SpatialKeys
  BY <1>1, <1>2 DEF SpatialKeys
<1> QED BY <1>6, <1>7

\* The key whose turn it is, j levels below a call or a frame.
LEMMA ZoomAtTurn ==
    ASSUME NEW l \in Nat, NEW zoom \in KeyZooms, ZoomsFit(l, zoom), ZoomsReach(l, zoom),
           NEW j \in 1 .. Keys, NEW k, k = (l + j) % Keys
    PROVE  k \in SpatialKeys /\ zoom[k].z = (l + j) \div Keys
<1>1. k \in 0 .. Keys - 1
  <2>1. Keys \in Nat \ {0} /\ l + j \in Nat
    BY Sizes
  <2>2. k \in Nat /\ k < Keys
    BY <2>1, DivMod
  <2> QED BY <2>1, <2>2
<1>2. zoom[k].z \in Nat
  BY <1>1 DEF KeyZooms
<1>3. zoom[k].z * Keys <= l + Keys - k /\ (zoom[k].z + 1) * Keys > l + Keys - k
  BY <1>1 DEF ZoomsFit, ZoomsReach
<1> PICK z : z = zoom[k].z
  OBVIOUS
<1>4. z \in Nat /\ z * Keys <= l + Keys - k /\ (z + 1) * Keys > l + Keys - k
  BY <1>2, <1>3
<1>5. k \in SpatialKeys /\ z = (l + j) \div Keys
  BY <1>4, ZoomOfTurn
<1> QED BY <1>5

\* A key that has no tile yet.
Origins(zoom) == \A k \in SpatialKeys : zoom[k].z = 0 => zoom[k].x = 0 /\ zoom[k].y = 0

\* So it is for a call and the loops around it.
OriginsFit ==
    /\ call # None => Origins(call.zoom)
    /\ \A i \in DOMAIN stack : Origins(stack[i].zoom)

\* The zooms of the nodes of a leaf made by a call of level l: it has that of its
\* level, those below it of the one before, or of none.
ChainZoom(c, l) ==
    IF c.level = l THEN c.z = l \div Keys
    ELSE IF c.level \div Keys = 0 THEN c.z = 31 /\ c.x = 0 /\ c.y = 0
    ELSE c.z = c.level \div Keys - 1

\* Node c is one of the leaf that has the span of n.
ChainNode(c, n, level) ==
    c.last /\ c.level = level /\ c.front = n.front /\ c.back = n.back

\* The leaf was made by a call of level l.
ChainOf(n, l) ==
    /\ l <= n.level /\ n.level < l + Keys
    /\ Size(n) <= Leaf \/ l >= MaxZoom * Keys
    /\ \A j \in 0 .. Keys - 1 : \E c \in tiles : ChainNode(c, n, l + j) /\ ChainZoom(c, l)

\* The zooms of the tiles.
ZoomedTiles ==
    \A n \in tiles : IF n.last THEN \E l \in Nat : ChainOf(n, l)
                     ELSE n.z = n.level \div Keys

\* What the zooms need of the build.
ZoomInv == OriginsFit /\ ZoomedTiles

\* The first state satisfies it.
LEMMA InitZoom == Init => ZoomInv
<1> SUFFICES ASSUME Init PROVE ZoomInv
  OBVIOUS
<1>1. tiles = {} /\ stack = << >> /\ (call = None \/ call = RootCall)
  BY DEF Init
<1>2. Origins(RootCall.zoom)
  BY Sizes DEF RootCall, Origins, SpatialKeys
<1> QED BY <1>1, <1>2 DEF ZoomInv, OriginsFit, ZoomedTiles

\* A call has the zoom of its level.
LEMMA CallLevelZoom ==
    ASSUME TilesInv, call # None
    PROVE  call.z = call.level \div Keys
<1> PICK l : l = call.level
  OBVIOUS
<1> PICK k : k = l % Keys
  OBVIOUS
<1> PICK w : w = Keys
  OBVIOUS
<1>1. /\ l \in Nat /\ call.zoom \in KeyZooms /\ call.z \in Nat
      /\ ZoomsFit(l, call.zoom) /\ ZoomsReach(l, call.zoom)
      /\ call.zoom[k] = [x |-> call.x, y |-> call.y, z |-> call.z + 1]
  BY DEF TilesInv, IInv, TypeOK, Calls, CallFits, LevelsReach, SpatialHolds, CallHolds
<1>2. w \in Nat \ {0} /\ w \in 1 .. w
  BY Sizes
<1>3. l = w * (l \div w) + (l % w) /\ l \div w \in Nat /\ l % w \in Nat /\ l % w < w
  BY <1>1, <1>2, DivMod
<1>4. (l + w) % w = l % w /\ (l + w) \div w = l \div w + 1
  <2> PICK q : q = l \div w
    OBVIOUS
  <2> PICK r : r = l % w
    OBVIOUS
  <2>1. q \in Nat /\ r \in 0 .. w - 1 /\ l = w * q + r
    BY <1>2, <1>3
  <2>2. w * (q + 1) = w * q + w
    BY <1>2, <2>1
  <2>3. l + w = w * (q + 1) + r
    BY <1>1, <1>2, <2>1, <2>2
  <2>4. q + 1 \in Nat
    BY <2>1
  <2> PICK x : x = l + w
    OBVIOUS
  <2>5. x = w * (q + 1) + r
    BY <2>3
  <2>6. x \div w = q + 1 /\ x % w = r
    BY <1>2, <2>1, <2>4, <2>5, DivIs
  <2> QED BY <2>6
<1>5. call.zoom[k].z = l \div w + 1
  <2>1. k = (l + w) % Keys
    BY <1>4
  <2> QED BY <1>1, <1>2, <1>4, <2>1, ZoomAtTurn
<1>6. call.z + 1 = l \div w + 1
  BY <1>1, <1>5
<1> QED BY <1>1, <1>3, <1>6

\* A chain stays one when tiles are added.
LEMMA ChainStays ==
    ASSUME tiles \subseteq tiles', NEW n, NEW l, ChainOf(n, l)
    PROVE  ChainOf(n, l)'
BY DEF ChainOf

\* A split makes a node of the zoom of its level.
LEMMA SplitZooms ==
    ASSUME TilesInv, ZoomInv, SplitTile
    PROVE  ZoomInv'
<1> DEFINE c == TileNode(call, FALSE)
<1>1. /\ call # None /\ call' = None /\ tiles' = tiles \cup {c}
      /\ stack' = Append(stack, FrameOf(call)) /\ stack \in Seq(Frames)
  BY DEF SplitTile, FrameOf, TilesInv, IInv, TypeOK
<1>2. ~c.last /\ c.z = c.level \div Keys
  <2>1. call.z = call.level \div Keys
    BY <1>1, CallLevelZoom
  <2> QED BY <2>1 DEF TileNode
<1> HIDE DEF c
<1>3. ZoomedTiles'
  <2> SUFFICES ASSUME NEW n \in tiles'
               PROVE  IF n.last THEN \E l \in Nat : ChainOf(n, l)' ELSE n.z = n.level \div Keys
    BY DEF ZoomedTiles
  <2>1. CASE n = c
    BY <1>2, <2>1
  <2>2. CASE n \in tiles
    <3>1. \A l : ChainOf(n, l) => ChainOf(n, l)'
      BY <1>1, ChainStays
    <3> QED BY <2>2, <3>1 DEF ZoomInv, ZoomedTiles
  <2> QED BY <1>1, <2>1, <2>2
<1>4. OriginsFit'
  <2>1. Origins(FrameOf(call).zoom)
    BY <1>1 DEF FrameOf, ZoomInv, OriginsFit
  <2>2. \A i \in DOMAIN stack' : \/ stack'[i] = FrameOf(call)
                                 \/ i \in DOMAIN stack /\ stack'[i] = stack[i]
    BY <1>1
  <2> QED BY <1>1, <2>1, <2>2 DEF ZoomInv, OriginsFit
<1> QED BY <1>3, <1>4 DEF ZoomInv

\* The loop over the children gives the key whose turn it is a tile.
LEMMA ChildZooms ==
    ASSUME TilesInv, ZoomInv, NextChild
    PROVE  ZoomInv'
<1> DEFINE d == NextKey(Top.level)
           z == Top.zoom[d].z
<1>1. /\ stack # << >> /\ stack \in Seq(Frames) /\ tiles' = tiles
      /\ \E f : stack' = SetTop(f) /\ f.zoom = Top.zoom
      /\ \E x, y : call'.zoom = [Top.zoom EXCEPT ![d] = [x |-> x, y |-> y, z |-> z + 1]]
  <2>1. stack # << >> /\ stack \in Seq(Frames) /\ tiles' = tiles
    BY DEF NextChild, TilesInv, IInv, TypeOK
  <2>2. \E x, y : call'.zoom = [Top.zoom EXCEPT ![d] = [x |-> x, y |-> y, z |-> z + 1]]
    BY DEF NextChild
  <2>3. PICK back, e : stack' = SetTop([Top EXCEPT !.accum = back, !.used = @ \ {e}])
    BY DEF NextChild
  <2>4. Top \in Frames
    BY <2>1 DEF Top
  <2>5. [Top EXCEPT !.accum = back, !.used = @ \ {e}].zoom = Top.zoom
    BY <2>4 DEF Frames
  <2> QED BY <2>1, <2>2, <2>3, <2>5
<1>2. Len(stack) \in DOMAIN stack /\ Top = stack[Len(stack)] /\ Top \in Frames
  BY <1>1 DEF Top
<1>3. Origins(Top.zoom) /\ Top.zoom \in KeyZooms /\ d \in SpatialKeys
  BY <1>2, Sizes DEF ZoomInv, OriginsFit, Frames, NextKey, SpatialKeys
<1>4. z \in Nat
  BY <1>3 DEF KeyZooms, SpatialKeys
<1> HIDE DEF d, z
<1>5. Origins(call'.zoom)
  <2>1. PICK x, y : call'.zoom = [Top.zoom EXCEPT ![d] = [x |-> x, y |-> y, z |-> z + 1]]
    BY <1>1
  <2>2. \A k \in SpatialKeys :
          call'.zoom[k] = IF k = d THEN [x |-> x, y |-> y, z |-> z + 1] ELSE Top.zoom[k]
    BY <1>3, <2>1 DEF KeyZooms, SpatialKeys
  <2>3. z + 1 # 0
    BY <1>4
  <2> QED BY <1>3, <2>2, <2>3 DEF Origins
<1>6. OriginsFit'
  <2>1. PICK f : stack' = SetTop(f) /\ f.zoom = Top.zoom
    BY <1>1
  <2>2. \A i \in DOMAIN stack' : i \in DOMAIN stack
                                 /\ stack'[i] = IF i = Len(stack) THEN f ELSE stack[i]
    BY <1>1, <2>1 DEF SetTop
  <2> QED BY <1>3, <1>5, <2>1, <2>2 DEF ZoomInv, OriginsFit
<1>7. ZoomedTiles'
  BY <1>1 DEF ZoomInv, ZoomedTiles, ChainOf
<1> QED BY <1>6, <1>7 DEF ZoomInv

\* Up to the last level of a leaf the zooms fit the grid.
LEMMA ShallowZoom ==
    ASSUME NEW l \in Nat, l < MaxZoom * Keys + Keys
    PROVE  l \div Keys \in 0 .. MaxZoom
<1> PICK w : w = Keys
  OBVIOUS
<1> PICK q : q = l \div w
  OBVIOUS
<1>1. w \in Nat \ {0} /\ MaxZoom \in Nat
  BY Sizes
<1>2. q \in Nat /\ q * w <= l
  BY <1>1, DivBounds
<1>3. q <= MaxZoom
  <2> SUFFICES ASSUME ~(q <= MaxZoom) PROVE FALSE
    OBVIOUS
  <2>1. MaxZoom + 1 \in Nat /\ MaxZoom + 1 <= q
    BY <1>1, <1>2
  <2>2. (MaxZoom + 1) * w <= q * w /\ (MaxZoom + 1) * w = MaxZoom * w + w
    BY <1>1, <1>2, <2>1, TimesOrder
  <2>3. q * w \in Nat /\ MaxZoom * w + w \in Nat
    BY <1>1, <1>2
  <2> QED BY <1>2, <2>2, <2>3
<1> QED BY <1>1, <1>2, <1>3

\* The node a leaf hangs j levels below itself.
LEMMA HungZoom ==
    ASSUME TilesInv, OriginsFit, call # None, NEW j \in 1 .. Keys - 1
    PROVE  \E c \in ChainTiles(call) : ChainNode(c, call, call.level + j)
                                       /\ ChainZoom(c, call.level)
<1> PICK k : k = (call.level + j) % Keys
  OBVIOUS
<1> PICK t : t = call.zoom[k]
  OBVIOUS
<1> DEFINE c == TileNode([call EXCEPT !.level = @ + j, !.x = t.x,
                          !.y = t.y, !.z = (t.z - 1) % 32], TRUE)
<1>1. c \in ChainTiles(call)
  BY Zenon DEF ChainTiles
<1>2. /\ call \in Calls /\ call.level \in Nat /\ call.zoom \in KeyZooms
      /\ ZoomsFit(call.level, call.zoom) /\ ZoomsReach(call.level, call.zoom)
      /\ call.level <= MaxZoom * Keys /\ Origins(call.zoom)
  BY DEF TilesInv, IInv, TypeOK, Calls, CallFits, LevelsReach, OriginsFit
<1>3. /\ c.last /\ c.level = call.level + j /\ c.front = call.front /\ c.back = call.back
      /\ c.x = t.x /\ c.y = t.y /\ c.z = (t.z - 1) % 32
  BY <1>2 DEF TileNode, Calls
<1> HIDE DEF c
<1>4. j \in 1 .. Keys /\ j \in Nat /\ j > 0 /\ j < Keys /\ call.level + j \in Nat
  BY <1>2, Sizes
<1>5. k \in SpatialKeys /\ t.z = (call.level + j) \div Keys
  BY <1>2, <1>4, ZoomAtTurn
<1>6. t.z \in 0 .. MaxZoom
  <2>1. call.level + j < MaxZoom * Keys + Keys
    <3> PICK m : m = MaxZoom * Keys
      OBVIOUS
    <3>1. m \in Nat /\ call.level <= m /\ Keys \in Nat
      BY <1>2, Sizes
    <3>2. call.level + j < m + Keys
      BY <1>2, <1>4, <3>1
    <3> QED BY <3>2
  <2> QED BY <1>4, <1>5, <2>1, ShallowZoom
<1>7. ChainZoom(c, call.level)
  <2>1. c.level # call.level /\ c.level \div Keys = t.z
    BY <1>2, <1>3, <1>4, <1>5
  <2>2. CASE t.z = 0
    <3>1. t.x = 0 /\ t.y = 0
      BY <1>2, <1>5, <2>2 DEF Origins
    <3>2. (0 - 1) % 32 = 31
      <4> PICK x \in Int : x = 0 - 1
        OBVIOUS
      <4> PICK r : r = x % 32
        OBVIOUS
      <4>1. r \in 0 .. 31 /\ \E q \in Int : x = 32 * q + r
        <5>1. \A y \in Int : y % 32 \in 0 .. 31
          OBVIOUS
        <5>2. \A y \in Int : \E q \in Int : y = 32 * q + (y % 32)
          OBVIOUS
        <5> QED BY <5>1, <5>2
      <4>2. r = 31
        BY <4>1
      <4> QED BY <4>2
    <3> QED BY <1>3, <2>1, <2>2, <3>1, <3>2 DEF ChainZoom
  <2>3. CASE t.z # 0
    <3>1. MaxZoom <= 31 /\ MaxZoom \in Nat
      BY CubeAssumption
    <3>2. t.z - 1 \in 0 .. 31
      BY <1>6, <2>3, <3>1
    <3>3. \A a \in 0 .. 31 : a % 32 = a
      OBVIOUS
    <3>4. c.z = t.z - 1
      BY <1>3, <3>2, <3>3
    <3> QED BY <2>1, <2>3, <3>4 DEF ChainZoom
  <2> QED BY <2>2, <2>3
<1> QED BY <1>1, <1>3, <1>7 DEF ChainNode

\* A leaf makes its chain.
LEMMA LeafZooms ==
    ASSUME TilesInv, ZoomInv, LeafTile
    PROVE  ZoomInv'
<1> DEFINE head == TileNode(call, TRUE)
           new == {head} \cup ChainTiles(call)
<1> PICK l : l = call.level
  OBVIOUS
<1>1. /\ call # None /\ call' = None /\ tiles' = tiles \cup new /\ stack' = stack
      /\ l >= MaxZoom * Keys \/ Size(call) <= Leaf
  BY DEF LeafTile
<1>2. OriginsFit' /\ OriginsFit /\ ZoomedTiles
  BY <1>1 DEF ZoomInv, OriginsFit
<1>3. /\ l \in Nat
      /\ \A c \in new : /\ c.front = call.front /\ c.back = call.back
                        /\ c.level \in Nat /\ c.level >= l /\ c.level < l + Keys
  <2>1. AddsTile(new)
    BY LeafAdds DEF TilesInv
  <2>2. call.level \in Nat
    BY <1>1 DEF TilesInv, IInv, TypeOK, Calls
  <2> HIDE DEF new
  <2> QED BY <2>1, <2>2 DEF AddsTile
<1>4. ASSUME NEW j \in 0 .. Keys - 1
      PROVE  \E c \in new : ChainNode(c, call, l + j) /\ ChainZoom(c, l)
  <2>1. CASE j = 0
    <3>1. ChainNode(head, call, l + j)
      BY <1>3, <2>1 DEF TileNode, ChainNode
    <3>2. ChainZoom(head, l)
      <4>1. call.z = call.level \div Keys
        BY <1>1, CallLevelZoom
      <4> QED BY <4>1 DEF TileNode, ChainZoom
    <3> QED BY <3>1, <3>2
  <2>2. CASE j # 0
    <3>1. j \in 1 .. Keys - 1
      BY <2>2, Sizes
    <3>2. PICK c \in ChainTiles(call) : ChainNode(c, call, l + j) /\ ChainZoom(c, l)
      BY <1>1, <1>2, <3>1, HungZoom
    <3> QED BY <3>2
  <2> QED BY <2>1, <2>2
<1>5. \A n \in new : n.last
  <2>1. head.last
    BY DEF TileNode
  <2>2. \A n \in new : ~n.last => new = {n}
    BY LeafAdds DEF AddsTile, TilesInv
  <2>3. head \in new
    OBVIOUS
  <2> HIDE DEF new, head
  <2> QED BY <2>1, <2>2, <2>3
<1> HIDE DEF new, head
<1>6. ASSUME NEW n \in new PROVE ChainOf(n, l)'
  <2>1. n.front = call.front /\ n.back = call.back /\ l <= n.level /\ n.level < l + Keys
    BY <1>3
  <2>2. Size(n) = Size(call)
    BY <2>1 DEF Size
  <2>3. \A j \in 0 .. Keys - 1 : \E c \in tiles' : ChainNode(c, n, l + j) /\ ChainZoom(c, l)
    BY <1>1, <1>4, <2>1 DEF ChainNode
  <2> QED BY <1>1, <2>1, <2>2, <2>3 DEF ChainOf
<1>7. ZoomedTiles'
  <2> SUFFICES ASSUME NEW n \in tiles'
               PROVE  IF n.last THEN \E e \in Nat : ChainOf(n, e)' ELSE n.z = n.level \div Keys
    BY DEF ZoomedTiles
  <2>1. CASE n \in new
    BY <1>3, <1>5, <1>6, <2>1
  <2>2. CASE n \in tiles
    <3>1. \A e : ChainOf(n, e) => ChainOf(n, e)'
      BY <1>1, ChainStays
    <3> QED BY <1>2, <2>2, <3>1 DEF ZoomedTiles
  <2> QED BY <1>1, <2>1, <2>2
<1> QED BY <1>2, <1>7 DEF ZoomInv

\* The zooms hold throughout the build.
LEMMA NextZoom ==
    ASSUME TilesInv, ZoomInv, [Next]_vars
    PROVE  ZoomInv'
<1>1. CASE ReturnTile
  <2>1. /\ stack # << >> /\ stack \in Seq(Frames) /\ tiles' = tiles /\ call' = call
        /\ stack' = SubSeq(stack, 1, Len(stack) - 1)
    BY <1>1 DEF ReturnTile, TilesInv, IInv, TypeOK
  <2>2. \A i \in DOMAIN stack' : i \in DOMAIN stack /\ stack'[i] = stack[i]
    BY <2>1
  <2> QED BY <2>1, <2>2 DEF ZoomInv, OriginsFit, ZoomedTiles, ChainOf
<1>2. CASE OpenNode \/ EmplacePart \/ SortNode \/ EndPass \/ UNCHANGED vars
  <2>1. tiles' = tiles /\ call' = call /\ stack' = stack
    BY <1>2 DEF OpenNode, EmplacePart, SortNode, EndPass, spatialVars, vars
  <2> QED BY <2>1 DEF ZoomInv, OriginsFit, ZoomedTiles, ChainOf
<1> QED BY <1>1, <1>2, SplitZooms, ChildZooms, LeafZooms DEF Next

-----------------------------------------------------------------------------
(* The regions found have every record in them.                            *)

\* What is said of the tiles, of one.
LEMMA TileZoom ==
    ASSUME WalkInv, ZoomInv, NEW n \in tiles
    PROVE  /\ ~n.last => n.z = n.level \div Keys
           /\ n.last => \E l \in Nat : ChainOf(n, l) /\ ChainZoom(n, l)
<1>1. ASSUME n.last PROVE \E l \in Nat : ChainOf(n, l) /\ ChainZoom(n, l)
  <2>1. PICK l \in Nat : ChainOf(n, l)
    BY <1>1 DEF ZoomInv, ZoomedTiles
  <2>2. n.level \in Nat /\ l <= n.level /\ n.level < l + Keys /\ Keys \in Nat
    BY <2>1, TileFacts, Sizes DEF ChainOf, WalkInv, TilesInv, TileShape
  <2> DEFINE j == n.level - l
  <2>3. j \in 0 .. Keys - 1 /\ l + j = n.level
    BY <2>2
  <2> HIDE DEF j
  <2>4. PICK c \in tiles : ChainNode(c, n, n.level) /\ ChainZoom(c, l)
    BY <2>1, <2>3 DEF ChainOf
  <2>5. n.front \in Span(n) /\ n.front \in Span(c) /\ c.level = n.level
    BY <2>4, TileEdges DEF ChainNode, Span
  <2>6. c = n
    BY <2>5, OneTile DEF WalkInv, TilesInv, TreeInv
  <2> QED BY <2>1, <2>4, <2>6
<1> QED BY <1>1 DEF ZoomInv, ZoomedTiles

\* No leaf is so high that a key has no tile yet.
LeavesDeep == \A n \in tiles : n.last => n.level + 1 >= Keys

\* A tile that has a zoom has one of the grid.
LEMMA ZoomGrid ==
    ASSUME WalkInv, NEW n \in tiles
    PROVE  n.level \div Keys \in 0 .. MaxZoom /\ n.level \in Nat
<1>1. n.level \in Nat /\ n.level < MaxZoom * Keys + Keys
  BY TileFacts DEF WalkInv, TilesInv, TileShape, ShallowTiles
<1> QED BY <1>1, ShallowZoom

\* Then no zoom wraps.
LEMMA DeepUnwrapped ==
    ASSUME WalkInv, ZoomInv, LeavesDeep, MaxZoom < 31
    PROVE  NoZoomWraps
<1> SUFFICES ASSUME NEW n \in tiles PROVE n.z \in 0 .. MaxZoom
  BY Sizes DEF NoZoomWraps
<1>1. n.level \div Keys \in 0 .. MaxZoom /\ n.level \in Nat /\ MaxZoom \in Nat /\ Keys \in Nat \ {0}
  BY ZoomGrid, Sizes
<1>2. CASE ~n.last
  BY <1>1, <1>2, TileZoom
<1>3. CASE n.last
  <2>1. PICK l \in Nat : ChainOf(n, l) /\ ChainZoom(n, l)
    BY <1>3, TileZoom
  <2>2. CASE n.level = l
    BY <1>1, <2>1, <2>2 DEF ChainZoom
  <2>3. CASE n.level # l
    <3>1. 0 \in 0 .. Keys - 1 /\ l + 0 = l
      BY <1>1
    <3>2. PICK c \in tiles : c.last /\ c.level = l
      BY <2>1, <3>1 DEF ChainOf, ChainNode
    <3>3. l + 1 >= Keys /\ l <= n.level
      BY <2>1, <3>2 DEF LeavesDeep, ChainOf
    <3>4. n.level >= Keys
      BY <1>1, <2>3, <3>3
    <3>5. n.level \div Keys # 0
      <4>1. n.level = Keys * (n.level \div Keys) + (n.level % Keys) /\ n.level % Keys < Keys
            /\ n.level % Keys \in Nat
        BY <1>1, DivMod
      <4> PICK q : q = n.level \div Keys
        OBVIOUS
      <4> PICK s : s = n.level % Keys
        OBVIOUS
      <4>2. n.level = Keys * q + s /\ s < Keys /\ s \in Nat /\ Keys * 0 = 0
        BY <1>1, <4>1
      <4>3. ASSUME q = 0 PROVE n.level = s
        BY <4>2, <4>3
      <4>4. q # 0
        BY <1>1, <3>4, <4>2, <4>3
      <4> QED BY <4>4
    <3>6. n.z = n.level \div Keys - 1
      BY <2>1, <2>3, <3>5 DEF ChainZoom
    <3> QED BY <1>1, <3>5, <3>6
  <2> QED BY <2>2, <2>3
<1> QED BY <1>2, <1>3

\* One key, or two of a dataset that is split.
FewKeys == Keys = 1 \/ (Keys = 2 /\ N > Leaf /\ MaxZoom > 0)

\* Then the leaves are deep.
LEMMA FewDeep ==
    ASSUME WalkInv, ZoomInv, stage > 0, FewKeys
    PROVE  LeavesDeep
<1> SUFFICES ASSUME NEW n \in tiles, n.last PROVE n.level + 1 >= Keys
  BY DEF LeavesDeep
<1>1. n.level \in Nat
  BY ZoomGrid
<1>2. CASE Keys = 1
  BY <1>1, <1>2
<1>3. CASE Keys = 2 /\ N > Leaf /\ MaxZoom > 0
  <2> SUFFICES ASSUME n.level = 0 PROVE FALSE
    BY <1>1, <1>3
  <2>1. PICK l \in Nat : ChainOf(n, l)
    BY DEF ZoomInv, ZoomedTiles
  <2>2. l = 0
    BY <2>1 DEF ChainOf
  <2>3. N > 0
    BY TileEdges, Sizes
  <2>4. /\ Root \in tiles /\ Root.level = 0 /\ Root.front = 0 /\ Root.back = N
    BY <2>3, RootIs
  <2>5. n.front \in Span(n) /\ n.front \in Span(Root)
    BY <2>4, TileEdges, Sizes DEF Span
  <2>6. n = Root
    BY <2>4, <2>5, OneTile DEF WalkInv, TilesInv, TreeInv
  <2>7. Size(n) = N
    BY <2>4, <2>6, Sizes DEF Size
  <2>8. MaxZoom * 2 > 0
    BY <1>3, Sizes
  <2>9. Leaf \in Nat
    BY CubeAssumption
  <2> QED BY <1>3, <2>1, <2>2, <2>7, <2>8, <2>9, Sizes DEF ChainOf
<1> QED BY <1>2, <1>3 DEF FewKeys

\* The inductive invariant of what is asked of the map.
MapInv == RegionInv /\ ZoomInv

\* The first state satisfies it.
LEMMA InitMap == QueryInit => MapInv
BY InitRegion, InitZoom DEF MapInv, QueryInit

\* Every step keeps it.
LEMMA NextMap ==
    ASSUME MapInv, [QueryNext]_allVars
    PROVE  MapInv'
<1>1. RegionInv /\ ZoomInv /\ TilesInv /\ [Next]_vars
  BY QueryLeavesCube DEF MapInv, RegionInv, QueryInv, WalkInv
<1> QED BY <1>1, NextRegion, NextZoom DEF MapInv

\* What TileNode::queryRegion selects has every record that lies in all regions
\* of the query, though it compares regions with the tiles of other keys and
\* zooms on the way, stops at leaves coarser than the region and goes on in the
\* chain of nodes that hashMultiple hangs below a leaf. The regions lie on the
\* grid, the zoom of a region is that of the last key parsed, and no zoom has
\* wrapped: so it is when one key is split, or two and there are more records
\* than a leaf takes, or when the leaves of this cube lie below the first level
\* of each key.
THEOREM RegionsHold ==
    QuerySpec => [](MaxZoom < 31 /\ (FewKeys \/ LeavesDeep) /\ RegionShape(query)
                      => RegionsAreComplete)
<1>1. QueryInit => MapInv
  BY InitMap
<1>2. MapInv /\ [QueryNext]_allVars => MapInv'
  BY NextMap
<1>3. MapInv => (MaxZoom < 31 /\ (FewKeys \/ LeavesDeep) /\ RegionShape(query)
                   => RegionsAreComplete)
  <2> SUFFICES ASSUME MapInv, MaxZoom < 31, FewKeys \/ LeavesDeep, RegionShape(query),
                      RegionsAnswered
               PROVE  RegionsAreComplete
    BY DEF RegionsAreComplete
  <2>1. RegionInv /\ WalkInv /\ ZoomInv /\ stage > 0
    BY Sizes DEF MapInv, RegionInv, QueryInv, RegionsAnswered, Built
  <2>2. NoZoomWraps
    BY <2>1, FewDeep, DeepUnwrapped
  <2> QED BY <2>1, <2>2, RegionsFound
<1> QED BY <1>1, <1>2, <1>3, PTL DEF QuerySpec

-----------------------------------------------------------------------------
(* Tiles drawn.                                                            *)

\* Two to a sum.
LEMMA PowersAdd ==
    ASSUME NEW a \in Nat, NEW b \in Nat
    PROVE  2^(a + b) = 2^a * 2^b
<1> DEFINE G == {c \in Nat : 2^(a + c) = 2^a * 2^c}
<1>1. 0 \in G
  <2>1. 2^0 = 1
    BY SMT
  <2>2. 2^a * 1 = 2^a
    BY PowerOfTwo
  <2>3. a + 0 = a
    OBVIOUS
  <2>4. 2^(a + 0) = 2^a * 2^0
    BY <2>1, <2>2, <2>3
  <2> QED BY <2>4
<1>2. ASSUME NEW c \in Nat, c \in G PROVE c + 1 \in G
  <2>1. 2^(a + c) = 2^a * 2^c
    BY <1>2
  <2>2. 2^(c + 1) = 2 * 2^c
    BY PowerDoubles
  <2>3. 2^((a + c) + 1) = 2 * 2^(a + c)
    <3>1. a + c \in Nat
      OBVIOUS
    <3> QED BY <3>1, PowerDoubles
  <2>4. a + (c + 1) = (a + c) + 1
    OBVIOUS
  <2>5. 2^a \in Nat /\ 2^c \in Nat
    BY PowerOfTwo
  <2> PICK u : u = 2^a
    OBVIOUS
  <2> PICK v : v = 2^c
    OBVIOUS
  <2>6. u * (2 * v) = 2 * (u * v)
    BY <2>5
  <2>7. 2^(a + (c + 1)) = 2 * (u * v)
    BY <2>1, <2>3, <2>4
  <2>8. 2^a * 2^(c + 1) = u * (2 * v)
    BY <2>2
  <2>9. 2^(a + (c + 1)) = 2^a * 2^(c + 1)
    BY <2>6, <2>7, <2>8
  <2> HIDE DEF G
  <2>10. c + 1 \in Nat
    OBVIOUS
  <2> QED BY <2>9, <2>10 DEF G
<1> HIDE DEF G
<1>3. b \in G
  BY <1>1, <1>2, NatInduct
<1> QED BY <1>3 DEF G

\* A tile of a zoom with a tile of a finer one at its corner.
LEMMA CornerOf ==
    ASSUME NEW c \in Nat, NEW f \in 0 .. MaxZoom, NEW z \in 0 .. MaxZoom, f <= z, c < 2^f
    PROVE  \E x \in 0 .. 2^z - 1 : Line(c, f) = Line(x, z)
<1> PICK a : a = 2^f
  OBVIOUS
<1> PICK b : b = 2^(z - f)
  OBVIOUS
<1> PICK e : e = 2^(MaxZoom - z)
  OBVIOUS
<1>1. f \in Nat /\ z \in Nat /\ z - f \in Nat /\ MaxZoom - z \in Nat /\ MaxZoom \in Nat
  BY Sizes
<1>2. a \in Nat \ {0} /\ b \in Nat \ {0} /\ e \in Nat \ {0}
  BY <1>1, PowerOfTwo
<1>3. 2^z = a * b
  <2>1. f + (z - f) = z
    BY <1>1
  <2>2. 2^(f + (z - f)) = 2^f * 2^(z - f)
    BY <1>1, PowersAdd
  <2> QED BY <2>1, <2>2
<1>4. 2^(MaxZoom - f) = b * e
  <2>1. (z - f) + (MaxZoom - z) = MaxZoom - f
    BY <1>1
  <2>2. 2^((z - f) + (MaxZoom - z)) = 2^(z - f) * 2^(MaxZoom - z)
    BY <1>1, PowersAdd
  <2> QED BY <2>1, <2>2
<1> DEFINE x == c * b
<1>5. x \in 0 .. 2^z - 1
  <2>1. c + 1 \in Nat /\ c + 1 <= a
    BY <1>2
  <2>2. (c + 1) * b <= a * b /\ (c + 1) * b = c * b + b /\ c * b \in Nat /\ a * b \in Nat
    BY <1>2, <2>1, TimesOrder
  <2> PICK v : v = a * b
    OBVIOUS
  <2>3. x \in Nat /\ x + b <= v /\ v \in Nat
    BY <2>2
  <2> HIDE DEF x
  <2>4. x \in 0 .. v - 1
    BY <1>2, <2>3
  <2> QED BY <1>3, <2>4
<1>6. Line(c, f) = 2 * c * (b * e)
  BY <1>1, <1>4 DEF Line
<1>7. Line(x, z) = 2 * x * e
  BY <1>1 DEF Line
<1>8. 2 * c * (b * e) = 2 * (c * b) * e
  <2>1. b * e \in Nat /\ c * b \in Nat
    BY <1>2
  <2>2. c * (b * e) = (c * b) * e
    BY <1>2
  <2>3. \A u, v \in Nat : 2 * u * v = 2 * (u * v)
    OBVIOUS
  <2> QED BY <1>2, <2>1, <2>2, <2>3
<1> HIDE DEF x
<1> QED BY <1>5, <1>6, <1>7, <1>8 DEF x

\* A tile of the grid lies in the map.
LEMMA TileInMap ==
    ASSUME WalkInv, TilesHoldTheirRecords, NEW n \in tiles, n.z \in 0 .. MaxZoom, n.z # 31
    PROVE  n.x \in 0 .. 2^n.z - 1 /\ n.y \in 0 .. 2^n.z - 1
<1> PICK k : k = KeyOf(n)
  OBVIOUS
<1> PICK r : r = data[index[n.front]]
  OBVIOUS
<1>1. k \in SpatialKeys
  <2>1. n.level \in Nat /\ Keys \in Nat \ {0}
    BY TileFacts, Sizes DEF WalkInv, TilesInv, TileShape
  <2> QED BY <2>1 DEF KeyOf, SpatialKeys
<1>2. n.front \in Span(n) /\ n.front \in Records
  BY TileEdges, Sizes DEF Span, Records
<1>3. r \in Record
  <2>1. index \in [Records -> Records] /\ data \in [Records -> Record]
    BY CubeAssumption DEF WalkInv, TilesInv, IInv, TypeOK
  <2> QED BY <1>2, <2>1
<1>4. TileOf(r, k, n.z) = [x |-> n.x, y |-> n.y]
  <2>1. index[n.front] \in RecordsOf(n)
    BY <1>2 DEF RecordsOf
  <2> QED BY <2>1 DEF TilesHoldTheirRecords, KeyOf
<1> PICK a : a = 2^n.z
  OBVIOUS
<1> PICK w : w = 2^(MaxZoom - n.z)
  OBVIOUS
<1> PICK p : p = r.at[k]
  OBVIOUS
<1>5. /\ p.x \in Nat /\ p.y \in Nat /\ w \in Nat \ {0}
      /\ TileOf(r, k, n.z).x = p.x \div w /\ TileOf(r, k, n.z).y = p.y \div w
  BY <1>1, <1>3, PlaceIs
<1>6. n.x = p.x \div w /\ n.y = p.y \div w
  BY <1>4, <1>5
<1>7. 2^MaxZoom = a * w /\ a \in Nat
  <2>1. n.z \in Nat /\ MaxZoom - n.z \in Nat /\ n.z + (MaxZoom - n.z) = MaxZoom
    BY Sizes
  <2>2. 2^(n.z + (MaxZoom - n.z)) = 2^n.z * 2^(MaxZoom - n.z)
    BY <2>1, PowersAdd
  <2>3. a \in Nat
    BY <2>1, PowerOfTwo
  <2> QED BY <2>1, <2>2, <2>3
<1>8. p.x < a * w /\ p.y < a * w
  <2>1. p \in Point
    BY <1>1, <1>3 DEF Record, SpatialKeys
  <2>2. p.x \in 0 .. 2^MaxZoom - 1 /\ p.y \in 0 .. 2^MaxZoom - 1
    BY <2>1 DEF Point
  <2>3. a * w \in Nat
    BY <1>5, <1>7
  <2> PICK v : v = a * w
    OBVIOUS
  <2>4. p.x \in 0 .. v - 1 /\ p.y \in 0 .. v - 1 /\ v \in Nat
    BY <1>7, <2>2, <2>3
  <2> QED BY <2>4
<1>9. ASSUME NEW e \in Nat, e < a * w, NEW c, c = e \div w PROVE c \in 0 .. a - 1
  <2>1. c \in Nat /\ c * w <= e
    BY <1>5, <1>9, DivBounds
  <2>2. c * w < a * w
    <3> PICK u : u = c * w
      OBVIOUS
    <3> PICK v : v = a * w
      OBVIOUS
    <3>1. u \in Nat /\ v \in Nat /\ u <= e /\ e < v
      BY <1>5, <1>7, <1>9, <2>1
    <3>2. u < v
      BY <1>9, <3>1
    <3> QED BY <3>2
  <2>3. c < a
    BY <1>5, <1>7, <2>1, <2>2, MulLess
  <2> QED BY <1>7, <2>1, <2>3
<1>10. n.x \in 0 .. a - 1 /\ n.y \in 0 .. a - 1
  BY <1>5, <1>6, <1>8, <1>9
<1> QED BY <1>10

\* aggregateTile loses nothing of a node.
LEMMA AggregateHas ==
    ASSUME WalkInv, stage > 0, NEW q, NEW k \in SpatialKeys, EvalTile(q, k),
           NEW n \in tiles, Reaches(n, k), NEW i \in Span(n)
    PROVE  i \in Held(AggregateTile(q)[n])
<1> DEFINE f == AggregateTile(q)
           S == AggregateStop(q)
           out == [m \in tiles |-> TileFound(m)]
           G == {m \in tiles : Reaches(m, k) => \A j \in Span(m) : j \in Held(f[m])}
<1>1. Walks(f, S, out)
  BY AggregateIs
<1>2. \A m \in tiles : Lists(f[m], m)
  BY WalksList
<1>3. \A m \in tiles : out[m] = TileFound(m)
  OBVIOUS
<1>4. \A m \in tiles : m \notin S /\ m.last => KeyOf(m) # k
  BY DEF AggregateStop
<1> HIDE DEF f, S, out
<1>5. ASSUME NEW m \in tiles, \A c \in Children(m) : c \in G PROVE m \in G
  <2> SUFFICES ASSUME Reaches(m, k), NEW j \in Span(m) PROVE j \in Held(f[m])
    OBVIOUS
  <2>1. f[m] = IF m \in S THEN out[m] ELSE Descend(f, m)
    BY <1>1 DEF Walks
  <2>2. CASE m \in S
    BY <1>3, <2>1, <2>2, FoundHas
  <2>3. CASE m \notin S
    <3>1. m.last => KeyOf(m) # k
      BY <1>4, <2>3
    <3>2. PICK c \in Children(m) : j \in Span(c)
      BY <3>1, ChildHas
    <3>3. Reaches(c, k)
      BY <3>1, ChildReaches
    <3>4. j \in Held(f[c])
      BY <1>5, <3>2, <3>3
    <3>5. \A o \in Children(m) : Lists(f[o], o)
      BY <1>2, ChildIs
    <3>6. j \in Held(Descend(f, m))
      BY <3>4, <3>5, DescendHas
    <3> QED BY <2>1, <2>3, <3>6
  <2> QED BY <2>2, <2>3
<1> HIDE DEF G
<1>6. n \in G
  BY <1>5, TreeInduct
<1> QED BY <1>6 DEF G, f

\* A tile asked for is of one key only.
LEMMA AskIs ==
    ASSUME NEW k \in SpatialKeys, NEW z \in Nat, NEW s, NEW x \in Nat, NEW y \in Nat
    PROVE  /\ AskTile(k, z, s, x, y).zoom = z
           /\ AskTile(k, z, s, x, y).tile[k] = [x |-> x, y |-> y, z |-> z]
           /\ \A j \in SpatialKeys : EvalTile(AskTile(k, z, s, x, y), j) <=> j = k
<1>1. [x |-> x, y |-> y, z |-> z] # None
  BY QueriesAssumption
<1> QED BY <1>1 DEF AskTile, EvalTile

\* A leaf at a tile's zoom or above shows in some tile of the zoom.
LEMMA LeafCorner ==
    ASSUME WalkInv, ZoomInv, TilesHoldTheirRecords, MaxZoom < 31, NEW n \in tiles, n.last,
           NEW z \in 0 .. MaxZoom, n.level \div Keys <= z
    PROVE  \E x, y \in 0 .. 2^z - 1 : CornerInTile(n, [x |-> x, y |-> y, z |-> z])
<1>1. n.level \div Keys \in 0 .. MaxZoom /\ n.level \in Nat /\ MaxZoom \in Nat /\ z \in Nat
  BY ZoomGrid, Sizes
<1>2. PICK l \in Nat : ChainZoom(n, l)
  BY TileZoom
<1>3. \/ n.z \in 0 .. MaxZoom /\ n.z <= z
      \/ n.z = 31 /\ n.x = 0 /\ n.y = 0
  BY <1>1, <1>2 DEF ChainZoom
<1>4. \E x, y \in 0 .. 2^z - 1 : Line(n.x, n.z) = Line(x, z) /\ Line(n.y, n.z) = Line(y, z)
  <2>1. CASE n.z \in 0 .. MaxZoom /\ n.z <= z
    <3>1. n.x \in 0 .. 2^n.z - 1 /\ n.y \in 0 .. 2^n.z - 1
      BY <1>1, <2>1, TileInMap
    <3>2. 2^n.z \in Nat
      BY <1>1, <2>1, PowerOfTwo
    <3>3. n.x \in Nat /\ n.x < 2^n.z /\ n.y \in Nat /\ n.y < 2^n.z
      BY <3>1, <3>2
    <3>4. \E x \in 0 .. 2^z - 1 : Line(n.x, n.z) = Line(x, z)
      BY <2>1, <3>3, CornerOf
    <3>5. \E y \in 0 .. 2^z - 1 : Line(n.y, n.z) = Line(y, z)
      BY <2>1, <3>3, CornerOf
    <3> QED BY <3>4, <3>5
  <2>2. CASE n.z = 31 /\ n.x = 0 /\ n.y = 0
    <3>1. 0 \in 0 .. 2^z - 1
      BY <1>1, PowerOfTwo
    <3>2. Line(0, 31) = 0
      BY <1>1 DEF Line
    <3>3. Line(0, z) = 0
      <4>1. 2^(MaxZoom - z) \in Nat
        BY <1>1, PowerOfTwo
      <4>2. \A u \in Nat : 2 * 0 * u = 0
        OBVIOUS
      <4> QED BY <1>1, <4>1, <4>2 DEF Line
    <3> QED BY <2>2, <3>1, <3>2, <3>3
  <2> QED BY <1>3, <2>1, <2>2
<1>5. PICK x \in 0 .. 2^z - 1, y \in 0 .. 2^z - 1 :
         Line(n.x, n.z) = Line(x, z) /\ Line(n.y, n.z) = Line(y, z)
  BY <1>4
<1>6. ASSUME NEW c \in Nat PROVE Line(c, z) \in Line(c, z) .. Line(c + 1, z)
  <2> PICK w : w = 2^(MaxZoom - z)
    OBVIOUS
  <2>1. w \in Nat
    BY <1>1, PowerOfTwo
  <2>2. Line(c, z) = 2 * c * w /\ Line(c + 1, z) = 2 * (c + 1) * w
    BY <1>1 DEF Line
  <2>3. 2 * c * w \in Nat /\ 2 * (c + 1) * w = 2 * c * w + 2 * w
    BY <2>1
  <2> PICK u : u = 2 * c * w
    OBVIOUS
  <2>4. Line(c, z) = u /\ Line(c + 1, z) = u + 2 * w /\ u \in Nat
    BY <2>2, <2>3
  <2>5. u \in u .. u + 2 * w
    BY <2>1, <2>4
  <2> QED BY <2>4, <2>5
<1>7. x \in Nat /\ y \in Nat
  BY <1>1, PowerOfTwo
<1> QED BY <1>5, <1>6, <1>7 DEF CornerInTile

\* Some tile of zoom z draws position i of what lies at or below n.
Drawn(k, z, s, n, i) ==
    \E x, y \in 0 .. 2^z - 1 : i \in Held(QueryTile(AskTile(k, z, s, x, y))[n])

\* queryTile at a node it stops at, at one it hits and at any other.
LEMMA TileSteps ==
    ASSUME WalkInv, NEW q, NEW n \in tiles
    PROVE  /\ EvalTile(q, KeyOf(n)) /\ Hit(q, n) => QueryTile(q)[n] = AggregateTile(q)[n]
           /\ n \notin TileStop(q) => QueryTile(q)[n] = Descend(QueryTile(q), n)
<1> DEFINE f == QueryTile(q)
           S == TileStop(q)
           out == [m \in tiles |-> IF Hit(q, m) THEN AggregateTile(q)[m] ELSE << >>]
<1>1. Walks(f, S, out)
  BY QueryTileIs
<1>2. f[n] = IF n \in S THEN out[n] ELSE Descend(f, n)
  <2> HIDE DEF f, S, out
  <2> QED BY <1>1 DEF Walks
<1>3. Hit(q, n) => out[n] = AggregateTile(q)[n]
  OBVIOUS
<1>4. EvalTile(q, KeyOf(n)) /\ Hit(q, n) => n \in S
  BY DEF TileStop
<1> HIDE DEF f, S, out
<1>5. EvalTile(q, KeyOf(n)) /\ Hit(q, n) => f[n] = AggregateTile(q)[n]
  BY <1>2, <1>3, <1>4
<1>6. n \notin S => f[n] = Descend(f, n)
  BY <1>2
<1> QED BY <1>5, <1>6 DEF f, S

\* A node hit is drawn whole.
LEMMA HitDraws ==
    ASSUME WalkInv, stage > 0, NEW k \in SpatialKeys, NEW z \in Nat, NEW s,
           NEW n \in tiles, KeyOf(n) = k, Reaches(n, k), NEW i \in Span(n),
           NEW x \in 0 .. 2^z - 1, NEW y \in 0 .. 2^z - 1, Hit(AskTile(k, z, s, x, y), n)
    PROVE  Drawn(k, z, s, n, i)
<1> PICK q : q = AskTile(k, z, s, x, y)
  OBVIOUS
<1>1. x \in Nat /\ y \in Nat
  BY PowerOfTwo
<1>2. EvalTile(q, k)
  BY <1>1, AskIs
<1>3. i \in Held(AggregateTile(q)[n])
  BY <1>2, AggregateHas
<1>4. QueryTile(q)[n] = AggregateTile(q)[n]
  BY <1>2, TileSteps
<1> QED BY <1>3, <1>4 DEF Drawn

\* What a child draws its node draws, where queryTile does not stop.
LEMMA ChildDraws ==
    ASSUME WalkInv, NEW k, NEW z, NEW s, NEW n \in tiles, NEW m \in Children(n), NEW i,
           Drawn(k, z, s, m, i),
           \A x, y \in 0 .. 2^z - 1 : n \notin TileStop(AskTile(k, z, s, x, y))
    PROVE  Drawn(k, z, s, n, i)
<1>1. PICK x \in 0 .. 2^z - 1, y \in 0 .. 2^z - 1 :
         i \in Held(QueryTile(AskTile(k, z, s, x, y))[m])
  BY DEF Drawn
<1> PICK q : q = AskTile(k, z, s, x, y)
  OBVIOUS
<1>2. \A o \in Children(n) : Lists(QueryTile(q)[o], o)
  BY WalksList, ChildIs
<1> PICK f : f = QueryTile(q)
  OBVIOUS
<1>3. (\A o \in Children(n) : Lists(f[o], o)) /\ i \in Held(f[m])
  BY <1>1, <1>2
<1>4. i \in Held(Descend(f, n))
  BY <1>3, DescendHas
<1>5. f[n] = Descend(f, n)
  BY TileSteps
<1> QED BY <1>4, <1>5 DEF Drawn

\* The level of a node of key k, and of one of zoom z.
LEMMA KeyLevel ==
    ASSUME NEW l \in Nat, NEW k \in SpatialKeys, NEW z \in Nat, l <= z * Keys + k
    PROVE  /\ l % Keys # k => l + 1 <= z * Keys + k
           /\ l % Keys = k => l \div Keys \in Nat /\ l \div Keys <= z
           /\ l % Keys = k /\ l \div Keys # z => l + 1 <= z * Keys + k
<1> PICK w : w = Keys
  OBVIOUS
<1> PICK c : c = l \div w
  OBVIOUS
<1> PICK r : r = l % w
  OBVIOUS
<1>1. w \in Nat \ {0} /\ k \in 0 .. w - 1
  BY Sizes DEF SpatialKeys
<1>2. c \in Nat /\ r \in Nat /\ r < w /\ l = w * c + r
  BY <1>1, DivMod
<1>3. z * w = w * z /\ z * w \in Nat
  BY <1>1
<1>4. r # k => l # z * w + k
  <2> SUFFICES ASSUME l = z * w + k PROVE r = k
    OBVIOUS
  <2>1. l = w * z + k
    BY <1>3
  <2> QED BY <1>1, <2>1, DivIs
<1>5. ASSUME r = k PROVE c <= z /\ (c # z => l + 1 <= z * w + k)
  <2>1. c * w = w * c /\ c * w \in Nat /\ (c + 1) * w = c * w + w
    BY <1>1, <1>2
  <2> PICK u : u = c * w
    OBVIOUS
  <2> PICK v : v = z * w
    OBVIOUS
  <2>2. u \in Nat /\ v \in Nat /\ l = u + k /\ l <= v + k /\ (c + 1) * w = u + w /\ k \in Nat
    BY <1>1, <1>2, <1>3, <1>5, <2>1
  <2>3. c <= z
    <3> SUFFICES ASSUME ~(c <= z) PROVE FALSE
      OBVIOUS
    <3>1. z + 1 \in Nat /\ z + 1 <= c
      BY <1>2
    <3>2. (z + 1) * w <= c * w /\ (z + 1) * w = v + w
      BY <1>1, <1>2, <3>1, TimesOrder
    <3> QED BY <1>1, <2>2, <3>2
  <2>4. ASSUME c # z PROVE l + 1 <= v + k
    <3>1. c + 1 \in Nat /\ c + 1 <= z
      BY <1>2, <2>3, <2>4
    <3>2. (c + 1) * w <= z * w
      BY <1>1, <3>1, TimesOrder
    <3> QED BY <1>1, <2>2, <3>2
  <2> QED BY <2>3, <2>4
<1>6. r # k => l + 1 <= z * w + k
  <2> PICK v : v = z * w
    OBVIOUS
  <2>1. v \in Nat /\ k \in Nat /\ l <= v + k /\ (r # k => l # v + k)
    BY <1>1, <1>3, <1>4
  <2> QED BY <2>1
<1> QED BY <1>2, <1>5, <1>6

\* Every position of a node above the zoom is drawn in some tile of it.
LEMMA NodeDrawn ==
    ASSUME WalkInv, stage > 0, ZoomInv, TilesHoldTheirRecords, MaxZoom < 31,
           NEW k \in SpatialKeys, NEW z \in 0 .. MaxZoom, NEW s,
           NEW n \in tiles, Reaches(n, k), n.level <= z * Keys + k, NEW i \in Span(n)
    PROVE  Drawn(k, z, s, n, i)
<1> DEFINE G == {m \in tiles : Reaches(m, k) /\ m.level <= z * Keys + k =>
                                 \A j \in Span(m) : Drawn(k, z, s, m, j)}
<1>1. z \in Nat /\ MaxZoom \in Nat
  BY Sizes
<1>2. \A x, y \in 0 .. 2^z - 1 : x \in Nat /\ y \in Nat
  BY <1>1, PowerOfTwo
<1>3. ASSUME NEW m \in tiles, \A c \in Children(m) : c \in G PROVE m \in G
  <2> SUFFICES ASSUME Reaches(m, k), m.level <= z * Keys + k, NEW j \in Span(m)
               PROVE  Drawn(k, z, s, m, j)
    OBVIOUS
  <2>1. \A c \in Children(m) : Reaches(c, k) /\ c.level <= z * Keys + k =>
                                 \A e \in Span(c) : Drawn(k, z, s, c, e)
    BY <1>3
  <2> HIDE DEF G
  <2>2. m.level \in Nat /\ KeyOf(m) = m.level % Keys
    BY ZoomGrid DEF KeyOf
  <2>3. KeyOf(m) \in SpatialKeys
    BY <2>2, Sizes DEF SpatialKeys
  <2>4. ASSUME m.last => KeyOf(m) # k, m.level + 1 <= z * Keys + k,
               \A x, y \in 0 .. 2^z - 1 : m \notin TileStop(AskTile(k, z, s, x, y))
        PROVE  Drawn(k, z, s, m, j)
    <3>1. PICK c \in Children(m) : j \in Span(c)
      BY <2>4, ChildHas
    <3>2. Reaches(c, k) /\ c.level <= z * Keys + k
      BY <2>4, ChildReaches, ChildIs
    <3>3. Drawn(k, z, s, c, j)
      BY <2>1, <3>1, <3>2
    <3> QED BY <2>4, <3>3, ChildDraws
  <2>5. CASE KeyOf(m) # k
    <3>1. m.level + 1 <= z * Keys + k
      BY <1>1, <2>2, <2>5, KeyLevel
    <3>2. ASSUME NEW x \in 0 .. 2^z - 1, NEW y \in 0 .. 2^z - 1
          PROVE  m \notin TileStop(AskTile(k, z, s, x, y))
      <4>1. ~EvalTile(AskTile(k, z, s, x, y), KeyOf(m))
        BY <1>1, <1>2, <2>3, <2>5, AskIs
      <4> QED BY <4>1 DEF TileStop
    <3> QED BY <2>4, <2>5, <3>1, <3>2
  <2>6. CASE KeyOf(m) = k
    <3>1. m.level \div Keys \in Nat /\ m.level \div Keys <= z
      BY <1>1, <2>2, <2>6, KeyLevel
    <3>2. CASE m.last
      <4>1. PICK x \in 0 .. 2^z - 1, y \in 0 .. 2^z - 1 :
               CornerInTile(m, [x |-> x, y |-> y, z |-> z])
        BY <3>1, <3>2, LeafCorner
      <4>2. Hit(AskTile(k, z, s, x, y), m)
        <5> PICK q : q = AskTile(k, z, s, x, y)
          OBVIOUS
        <5> PICK t : t = [x |-> x, y |-> y, z |-> z]
          OBVIOUS
        <5>1. q.tile[k] = t
          BY <1>1, <1>2, AskIs
        <5>2. CornerInTile(m, t)
          BY <4>1
        <5>3. CornerInTile(m, q.tile[KeyOf(m)])
          BY <2>6, <5>1, <5>2
        <5> QED BY <3>2, <5>3 DEF Hit
      <4> QED BY <1>1, <2>6, <4>2, HitDraws
    <3>3. CASE ~m.last /\ m.level \div Keys = z
      <4>1. m.z = z /\ z # 31
        BY <1>1, <3>3, TileZoom
      <4>2. m.x \in 0 .. 2^z - 1 /\ m.y \in 0 .. 2^z - 1
        BY <4>1, TileInMap
      <4>3. Hit(AskTile(k, z, s, m.x, m.y), m)
        BY <1>1, <1>2, <2>6, <4>1, <4>2, AskIs DEF Hit
      <4> QED BY <1>1, <2>6, <4>2, <4>3, HitDraws
    <3>4. CASE ~m.last /\ m.level \div Keys # z
      <4>1. m.level + 1 <= z * Keys + k
        BY <1>1, <2>2, <2>6, <3>4, KeyLevel
      <4>2. m.z < z /\ m.z # z
        BY <1>1, <3>1, <3>4, TileZoom
      <4>3. ASSUME NEW x \in 0 .. 2^z - 1, NEW y \in 0 .. 2^z - 1
            PROVE  m \notin TileStop(AskTile(k, z, s, x, y))
        <5> PICK q : q = AskTile(k, z, s, x, y)
          OBVIOUS
        <5>1. q.zoom = z /\ q.tile[k] = [x |-> x, y |-> y, z |-> z]
          BY <1>1, <1>2, AskIs
        <5>2. [x |-> m.x, y |-> m.y, z |-> m.z] # [x |-> x, y |-> y, z |-> z]
          BY <4>2
        <5>3. ~Hit(q, m) /\ m.z < q.zoom
          BY <2>6, <3>4, <4>2, <5>1, <5>2 DEF Hit
        <5> QED BY <5>3 DEF TileStop
      <4> QED BY <2>4, <3>4, <4>1, <4>3
    <3> QED BY <3>2, <3>3, <3>4
  <2> QED BY <2>5, <2>6
<1> HIDE DEF G
<1>4. n \in G
  BY <1>3, TreeInduct
<1> QED BY <1>4 DEF G

\* The tiles of a zoom draw all records, ...
LEMMA TilesDraw ==
    ASSUME MapInv, N > 0, Built, MaxZoom < 31, NEW k \in SpatialKeys, NEW z \in 0 .. MaxZoom,
           NEW s, NEW r \in Records
    PROVE  \E x, y \in 0 .. 2^z - 1 : \E p \in Range(QueryTile(AskTile(k, z, s, x, y))[Root]) :
             r \in RecordsOf(p)
<1>1. WalkInv /\ ZoomInv /\ TilesHoldTheirRecords /\ stage > 0
  BY Sizes DEF MapInv, RegionInv, QueryInv, Built
<1>2. PICK i \in Records : index[i] = r
  BY <1>1, IndexOnto DEF WalkInv, TilesInv
<1>3. Root \in tiles /\ Root.level = 0 /\ i \in Span(Root)
  BY <1>1, RootIs DEF Span, Records
<1>4. Reaches(Root, k)
  BY <1>1, <1>3, RootReaches
<1>5. Root.level <= z * Keys + k
  <2>1. z \in Nat /\ Keys \in Nat /\ k \in Nat
    BY Sizes DEF SpatialKeys
  <2>2. z * Keys \in Nat
    BY <2>1
  <2> PICK v : v = z * Keys
    OBVIOUS
  <2>3. 0 <= v + k
    BY <2>1, <2>2
  <2> QED BY <1>3, <2>3
<1>6. Drawn(k, z, s, Root, i)
  BY <1>1, <1>3, <1>4, <1>5, NodeDrawn
<1>7. PICK x \in 0 .. 2^z - 1, y \in 0 .. 2^z - 1 :
         i \in Held(QueryTile(AskTile(k, z, s, x, y))[Root])
  BY <1>6 DEF Drawn
<1> PICK t : t = QueryTile(AskTile(k, z, s, x, y))[Root]
  OBVIOUS
<1>8. PICK p \in Range(t) : i \in Span(p)
  BY <1>7 DEF Held
<1> QED BY <1>2, <1>8 DEF RecordsOf

\* ... and nothing else.
LEMMA DrawnRecords ==
    ASSUME WalkInv, stage > 0, N > 0, NEW q, NEW p \in Range(QueryTile(q)[Root])
    PROVE  RecordsOf(p) \subseteq Records
<1>1. Root \in tiles
  BY RootIs
<1> PICK t : t = QueryTile(q)[Root]
  OBVIOUS
<1>2. Lists(t, Root)
  BY <1>1, WalksList
<1>3. p \in Answers
  BY <1>2 DEF Lists, Range
<1>4. p.front \in 0 .. N /\ p.back \in 0 .. N
  BY <1>3 DEF Answers
<1>5. Span(p) \subseteq Records
  BY <1>4, Sizes DEF Span, Records
<1>6. index \in [Records -> Records]
  BY DEF WalkInv, TilesInv, IInv, TypeOK
<1> QED BY <1>5, <1>6 DEF RecordsOf

\* A pivot listed over the tiles is listed for one of them.
LEMMA FoundSomewhere ==
    ASSUME NEW k, NEW z, NEW s, NEW p
    PROVE  p \in TilesFound(k, z, s) <=>
             \E x, y \in 0 .. 2^z - 1 : p \in Range(QueryTile(AskTile(k, z, s, x, y))[Root])
<1> DEFINE T(x, y) == Range(QueryTile(AskTile(k, z, s, x, y))[Root])
           D == 0 .. 2^z - 1
<1>1. TilesFound(k, z, s) = UNION {T(x, y) : x \in D, y \in D}
  BY DEF TilesFound
<1> HIDE DEF T, D
<1>2. p \in UNION {T(x, y) : x \in D, y \in D} <=> \E x, y \in D : p \in T(x, y)
  OBVIOUS
<1> QED BY <1>1, <1>2 DEF T, D

\* So the map has every record, whatever the zoom, the key and the resolution.
LEMMA MapDraws ==
    ASSUME MapInv, N > 0, MaxZoom < 31
    PROVE  EveryRecordIsDrawn
<1>1. WalkInv /\ (Built => stage > 0)
  BY Sizes DEF MapInv, RegionInv, QueryInv, Built
<1>2. ASSUME Built, NEW z \in 0 .. MaxZoom, NEW s, NEW k \in SpatialKeys
      PROVE  UNION {RecordsOf(p) : p \in TilesFound(k, z, s)} = Records
  <2>1. ASSUME NEW r \in Records
        PROVE  r \in UNION {RecordsOf(p) : p \in TilesFound(k, z, s)}
    <3>1. PICK x \in 0 .. 2^z - 1, y \in 0 .. 2^z - 1 :
             \E p \in Range(QueryTile(AskTile(k, z, s, x, y))[Root]) : r \in RecordsOf(p)
      BY <1>2, TilesDraw
    <3>2. PICK p \in Range(QueryTile(AskTile(k, z, s, x, y))[Root]) : r \in RecordsOf(p)
      BY <3>1
    <3>3. p \in TilesFound(k, z, s)
      BY <3>2, FoundSomewhere
    <3> QED BY <3>2, <3>3, Zenon
  <2>2. ASSUME NEW r \in UNION {RecordsOf(p) : p \in TilesFound(k, z, s)}
        PROVE  r \in Records
    <3>1. PICK p \in TilesFound(k, z, s) : r \in RecordsOf(p)
      BY <2>2, Zenon
    <3>2. PICK x \in 0 .. 2^z - 1, y \in 0 .. 2^z - 1 :
             p \in Range(QueryTile(AskTile(k, z, s, x, y))[Root])
      BY <3>1, FoundSomewhere
    <3>3. RecordsOf(p) \subseteq Records
      BY <1>1, <1>2, <3>2, DrawnRecords
    <3> QED BY <3>1, <3>3
  <2> QED BY <2>1, <2>2, Zenon
<1> QED BY <1>2, Zenon DEF EveryRecordIsDrawn

\* What TileNode::queryTile and aggregateTile answer to the requests for all tiles of a
\* zoom has every record and nothing else, for each key, zoom and resolution:
\* a leaf coarser than the tiles is drawn in a tile that has its corner, also a
\* leaf of another key, whose chain of nodes is followed down to the one of the
\* key asked for. No depth of the tree wraps, and the dataset is not empty.
THEOREM TilesDrawAll ==
    QuerySpec => [](N > 0 /\ MaxZoom < 31 => EveryRecordIsDrawn)
<1>1. MapInv => (N > 0 /\ MaxZoom < 31 => EveryRecordIsDrawn)
  BY MapDraws
<1> QED BY <1>1, InitMap, NextMap, PTL DEF QuerySpec

-----------------------------------------------------------------------------
(* The nodes on the way to one that is answered.                           *)

\* The nodes on the way from n to a node m that queryRegion answers: one of each
\* level, none of them left, and none where it goes no deeper but the last.
Way(q, n, m) ==
    /\ m \in tiles /\ KeyOf(m) = q.lastRegion /\ n.level <= m.level /\ Span(m) \subseteq Span(n)
    /\ \A l \in n.level .. m.level : \E c \in tiles :
         /\ c.level = l /\ Span(m) \subseteq Span(c) /\ ~Cuts(q, c)
         /\ l # m.level => c \notin RegionStop(q)

\* The pivot of a tile answered.
TilePivot(m) == Labelled(m, [x |-> m.x, y |-> m.y, z |-> m.z])

\* A node that is answered is its own way.
LEMMA WayEnds ==
    ASSUME WalkInv, NEW q, NEW n \in tiles, n \in RegionStop(q), ~Cuts(q, n)
    PROVE  Way(q, n, n)
<1>1. n.level \in Nat
  BY TileFacts DEF WalkInv, TilesInv, TileShape
<1>2. KeyOf(n) = q.lastRegion
  BY DEF RegionStop
<1>3. \A l \in n.level .. n.level : l = n.level
  BY <1>1
<1> QED BY <1>1, <1>2, <1>3 DEF Way

\* The way from a child goes on from its node.
LEMMA WayGrows ==
    ASSUME WalkInv, NEW q, NEW n \in tiles, n \notin RegionStop(q), NEW o \in Children(n),
           NEW m, Way(q, o, m)
    PROVE  Way(q, n, m)
<1>1. o.level = n.level + 1 /\ Span(o) \subseteq Span(n) /\ n.level \in Nat /\ o.level \in Nat
  BY ChildIs
<1>2. m \in tiles /\ m.level \in Nat /\ o.level <= m.level /\ KeyOf(m) = q.lastRegion
  BY TileFacts DEF Way, WalkInv, TilesInv, TileShape
<1>3. ~Cuts(q, n)
  BY DEF RegionStop, Cuts
<1>4. Span(m) \subseteq Span(o)
  BY DEF Way
<1>5. ASSUME NEW l \in n.level .. m.level
      PROVE  \E c \in tiles : /\ c.level = l /\ Span(m) \subseteq Span(c) /\ ~Cuts(q, c)
                              /\ l # m.level => c \notin RegionStop(q)
  <2>1. CASE l = n.level
    BY <1>1, <1>3, <1>4, <2>1
  <2>2. CASE l # n.level
    <3>1. l \in o.level .. m.level
      BY <1>1, <1>2, <2>2
    <3> QED BY <3>1 DEF Way
  <2> QED BY <2>1, <2>2
<1>6. n.level <= m.level /\ Span(m) \subseteq Span(n)
  BY <1>1, <1>2, <1>4
<1> QED BY <1>2, <1>5, <1>6 DEF Way

\* To every pivot found there is a way.
LEMMA WaysFound ==
    ASSUME WalkInv, NEW q, NEW n \in tiles, NEW p \in Range(QueryRegion(q)[n])
    PROVE  \E m \in tiles : p = TilePivot(m) /\ Way(q, n, m)
<1> DEFINE f == QueryRegion(q)
           S == RegionStop(q)
           out == [m \in tiles |-> IF Cuts(q, m) THEN << >> ELSE TileFound(m)]
           G == {m \in tiles : \A x \in Range(f[m]) : \E e \in tiles :
                                 x = TilePivot(e) /\ Way(q, m, e)}
<1>1. Walks(f, S, out)
  BY QueryRegionIs
<1>2. \A m \in tiles : Lists(f[m], m)
  BY WalksList
<1>3. \A m \in tiles : out[m] = IF Cuts(q, m) THEN << >> ELSE TileFound(m)
  OBVIOUS
<1> HIDE DEF f, S, out
<1>4. ASSUME NEW m \in tiles, \A o \in Children(m) : o \in G PROVE m \in G
  <2> SUFFICES ASSUME NEW x \in Range(f[m])
               PROVE  \E e \in tiles : x = TilePivot(e) /\ Way(q, m, e)
    OBVIOUS
  <2>1. f[m] = IF m \in S THEN out[m] ELSE Descend(f, m)
    BY <1>1 DEF Walks
  <2>2. CASE m \in S /\ Cuts(q, m)
    <3>1. f[m] = << >>
      BY <1>3, <2>1, <2>2
    <3> QED BY <3>1 DEF Range
  <2>3. CASE m \in S /\ ~Cuts(q, m)
    <3>1. f[m] = TileFound(m)
      BY <1>3, <2>1, <2>3
    <3>2. Range(TileFound(m)) = {TilePivot(m)}
      BY TileFoundLists DEF TilePivot
    <3>3. x = TilePivot(m)
      BY <3>1, <3>2
    <3>4. Way(q, m, m)
      BY <2>3, WayEnds DEF S
    <3> QED BY <3>3, <3>4
  <2>4. CASE m \notin S
    <3>1. \A o \in Children(m) : Lists(f[o], o)
      BY <1>2, ChildIs
    <3>2. Range(Descend(f, m)) = UNION {Range(f[o]) : o \in Children(m)}
      BY <3>1, DescendLists
    <3>3. PICK o \in Children(m) : x \in Range(f[o])
      BY <2>1, <2>4, <3>2
    <3>4. o \in G
      BY <1>4
    <3>5. PICK e \in tiles : x = TilePivot(e) /\ Way(q, o, e)
      BY <3>3, <3>4
    <3>6. Way(q, m, e)
      BY <2>4, <3>5, WayGrows DEF S
    <3> QED BY <3>5, <3>6
  <2> QED BY <2>2, <2>3, <2>4
<1> HIDE DEF G
<1>5. n \in G
  BY <1>4, TreeInduct
<1> QED BY <1>5 DEF G, f

\* A turn before, the same key comes.
LEMMA TurnAbove ==
    ASSUME NEW x \in Nat, NEW w \in Nat \ {0}, x >= w
    PROVE  (x - w) % w = x % w
<1>1. /\ x \div w \in Nat /\ x % w \in Nat
      /\ x % w < w /\ x = w * (x \div w) + (x % w)
  BY DivMod
<1> DEFINE b == x \div w
           s == x % w
<1>2. PICK a, r : a \in Nat /\ r \in 0 .. w - 1 /\ x = w * a + r /\ r = x % w
  <2>1. b \in Nat /\ s \in Nat /\ s < w /\ x = w * b + s
    BY <1>1
  <2>2. s = x % w
    OBVIOUS
  <2> HIDE DEF b, s
  <2>3. s \in 0 .. w - 1
    BY <2>1
  <2> QED BY <2>1, <2>2, <2>3
<1> HIDE DEF b, s
<1>3. a \in Nat /\ r \in 0 .. w - 1 /\ x = w * a + r /\ w * 0 = 0
  BY <1>2
<1>4. a # 0
  BY <1>3
<1>5. a - 1 \in Nat /\ w * (a - 1) = w * a - w /\ w * a \in Nat
  BY <1>3, <1>4
<1> PICK y : y = x - w
  OBVIOUS
<1>6. y = w * (a - 1) + r
  <2> PICK v, u : v = w * a /\ u = w * (a - 1)
    OBVIOUS
  <2>1. u = v - w /\ v \in Nat /\ x = v + r /\ r \in Nat
    BY <1>3, <1>5
  <2> QED BY <2>1
<1>7. y % w = r
  BY <1>3, <1>5, <1>6, DivIs
<1> QED BY <1>2, <1>7

\* The key before another in a turn.
LEMMA TurnBefore ==
    ASSUME NEW v \in Nat, NEW w \in Nat \ {0}, NEW r \in 0 .. w - 1, NEW k \in 0 .. w - 1,
           k <= r, NEW l, l = v + k, NEW x, x = v + r
    PROVE  l <= x /\ (l # x => l < x) /\ x - w < l
OBVIOUS

\* Two tiles of a level that a third lies in are the same.
LEMMA OneAround ==
    ASSUME WalkInv, NEW m \in tiles, NEW c \in tiles, NEW d \in tiles, c.level = d.level,
           Span(m) \subseteq Span(c), Span(m) \subseteq Span(d)
    PROVE  c = d
<1>1. m.front \in Span(m)
  BY TileEdges DEF Span
<1>2. m.front \in Span(c) /\ m.front \in Span(d)
  BY <1>1
<1> QED BY <1>2, OneTile DEF WalkInv, TilesInv, TreeInv

\* No tile of the grid has a zoom beyond that of its level.
LEMMA ZoomOfLevel ==
    ASSUME WalkInv, ZoomInv, MaxZoom < 31, NEW m \in tiles, m.z \in 0 .. MaxZoom
    PROVE  m.z <= m.level \div Keys /\ m.level \div Keys \in 0 .. MaxZoom
<1>1. m.level \div Keys \in 0 .. MaxZoom /\ m.level \in Nat /\ MaxZoom \in Nat
  BY ZoomGrid, Sizes
<1>2. CASE ~m.last
  BY <1>1, <1>2, TileZoom
<1>3. CASE m.last
  <2>1. PICK l \in Nat : ChainZoom(m, l)
    BY <1>3, TileZoom
  <2> PICK a : a = m.level \div Keys
    OBVIOUS
  <2>2. m.z = a \/ m.z = 31 \/ m.z = a - 1
    BY <2>1 DEF ChainZoom
  <2> QED BY <1>1, <2>2
<1> QED BY <1>2, <1>3

\* A node on the way, of an earlier key in the same turn, is no coarser than the node
\* answered: if it hangs below a leaf so does that one, or the way had ended a turn before.
LEMMA WayZoom ==
    ASSUME WalkInv, ZoomInv, MaxZoom < 31, NEW q, RegionShape(q),
           NEW n \in tiles, n.level = 0, NEW m, Way(q, n, m), m.z \in 0 .. MaxZoom,
           NEW c \in tiles, Span(m) \subseteq Span(c), c.level < m.level,
           m.level - Keys < c.level, c.level \div Keys = m.level \div Keys
    PROVE  c.z \in m.z .. MaxZoom
<1>1. m \in tiles /\ m.level \in Nat /\ c.level \in Nat /\ Keys \in Nat \ {0} /\ MaxZoom \in Nat
  BY TileFacts, Sizes DEF Way, WalkInv, TilesInv, TileShape
<1> PICK a : a = m.level \div Keys
  OBVIOUS
<1>2. a \in 0 .. MaxZoom /\ m.z <= a /\ c.level \div Keys = a
  BY <1>1, ZoomOfLevel
<1>3. CASE c.z = a
  BY <1>1, <1>2, <1>3
<1>4. CASE c.z # a
  <2>1. c.last
    BY <1>2, <1>4, TileZoom
  <2>2. PICK l \in Nat : ChainOf(c, l) /\ ChainZoom(c, l)
    BY <2>1, TileZoom
  <2>3. c.level # l
    BY <1>2, <1>4, <2>2 DEF ChainZoom
  <2>4. l < c.level /\ c.level < l + Keys
    BY <1>1, <2>2, <2>3 DEF ChainOf
  <2>5. \A d \in tiles : ChainNode(d, c, d.level) => Span(m) \subseteq Span(d)
    BY DEF ChainNode, Span
  <2>6. CASE m.level < l + Keys
    <3> DEFINE j == m.level - l
    <3>1. j \in 0 .. Keys - 1 /\ l + j = m.level
      BY <1>1, <2>4, <2>6
    <3> HIDE DEF j
    <3>2. PICK d \in tiles : ChainNode(d, c, m.level) /\ ChainZoom(d, l)
      BY <2>2, <3>1 DEF ChainOf
    <3>3. d.level = m.level
      BY <3>2 DEF ChainNode
    <3>4. Span(m) \subseteq Span(d)
      BY <2>5, <3>2, <3>3
    <3>5. d = m
      BY <1>1, <3>3, <3>4, OneAround
    <3>6. m.level # l
      BY <1>1, <2>4
    <3>7. a # 0
      <4> SUFFICES ASSUME a = 0 PROVE FALSE
        OBVIOUS
      <4>1. m.z = 31
        BY <3>2, <3>5, <3>6 DEF ChainZoom
      <4> QED BY <1>1, <4>1
    <3>8. m.z = a - 1
      BY <3>2, <3>5, <3>6, <3>7 DEF ChainZoom
    <3>9. c.z = a - 1
      BY <1>2, <2>2, <2>3, <3>7 DEF ChainZoom
    <3> QED BY <1>1, <1>2, <3>8, <3>9
  <2>7. CASE ~(m.level < l + Keys)
    <3> PICK e : e = m.level - Keys
      OBVIOUS
    <3> DEFINE j == e - l
    <3>1. j \in 0 .. Keys - 1 /\ l + j = e /\ e \in Nat /\ e < m.level
      BY <1>1, <2>4, <2>7
    <3> HIDE DEF j
    <3>2. PICK d \in tiles : ChainNode(d, c, e)
      BY <2>2, <3>1 DEF ChainOf
    <3>3. d.level = e /\ d.last
      BY <3>2 DEF ChainNode
    <3>4. Span(m) \subseteq Span(d)
      BY <2>5, <3>2, <3>3
    <3>5. PICK g \in tiles : g.level = e /\ Span(m) \subseteq Span(g) /\ g \notin RegionStop(q)
      <4>1. e \in n.level .. m.level /\ e # m.level
        BY <1>1, <3>1
      <4> QED BY <4>1 DEF Way
    <3>6. g = d
      BY <1>1, <3>3, <3>4, <3>5, OneAround
    <3>7. KeyOf(d) = q.lastRegion
      <4>1. m.level % Keys = q.lastRegion
        BY DEF Way, KeyOf
      <4>2. m.level >= Keys
        BY <1>1, <2>7
      <4>3. e % Keys = m.level % Keys
        BY <1>1, <4>2, TurnAbove
      <4> QED BY <3>3, <4>1, <4>3 DEF KeyOf
    <3>8. d \in RegionStop(q)
      BY <3>3, <3>7 DEF RegionStop, RegionShape
    <3> QED BY <3>5, <3>6, <3>8
  <2> QED BY <2>6, <2>7
<1> QED BY <1>3, <1>4

\* A node that was answered at the zoom asked for lies in a tile of each earlier key
\* that was not left, and that is no coarser.
LEMMA WayTurns ==
    ASSUME WalkInv, ZoomInv, MaxZoom < 31, NEW q, RegionShape(q),
           NEW n \in tiles, n.level = 0, NEW m, Way(q, n, m), m.z \in 0 .. MaxZoom,
           NEW k \in SpatialKeys, k <= q.lastRegion
    PROVE  \E c \in tiles : /\ KeyOf(c) = k /\ Span(m) \subseteq Span(c) /\ ~Cuts(q, c)
                            /\ c.z \in m.z .. MaxZoom
<1>1. /\ m \in tiles /\ m.level \in Nat /\ Keys \in Nat \ {0} /\ KeyOf(m) = q.lastRegion
      /\ MaxZoom \in Nat
  BY TileFacts, Sizes DEF Way, WalkInv, TilesInv, TileShape
<1> PICK w : w = Keys
  OBVIOUS
<1> PICK a : a = m.level \div w
  OBVIOUS
<1> PICK r : r = m.level % w
  OBVIOUS
<1> PICK v : v = w * a
  OBVIOUS
<1>2. r = q.lastRegion /\ k \in 0 .. w - 1
  BY <1>1 DEF KeyOf, SpatialKeys
<1>3. m.level = v + r /\ r \in 0 .. w - 1 /\ w \in Nat \ {0} /\ a \in Nat /\ v \in Nat
  BY <1>1, DivMod
<1> PICK l : l = v + k
  OBVIOUS
<1>4. l \in Nat /\ l \div w = a /\ l % w = k
  BY <1>2, <1>3, DivIs
<1>5. l <= m.level /\ (l # m.level => l < m.level) /\ m.level - w < l
  <2>1. k <= r /\ m.level = v + r /\ l = v + k
    BY <1>2, <1>3
  <2> QED BY <1>2, <1>3, <2>1, TurnBefore
<1>6. l \in n.level .. m.level
  BY <1>1, <1>4, <1>5
<1>7. PICK c \in tiles : c.level = l /\ Span(m) \subseteq Span(c) /\ ~Cuts(q, c)
  BY <1>6 DEF Way
<1>8. KeyOf(c) = k
  BY <1>4, <1>7 DEF KeyOf
<1>9. c.z \in m.z .. MaxZoom
  <2>1. CASE l = m.level
    <3>1. c = m
      BY <1>1, <1>7, <2>1, OneAround
    <3> QED BY <1>1, <3>1
  <2>2. CASE l # m.level
    BY <1>4, <1>5, <1>7, <2>2, WayZoom
  <2> QED BY <2>1, <2>2
<1> QED BY <1>7, <1>8, <1>9

-----------------------------------------------------------------------------
(* What a tile touches, those around it touch.                             *)

\* A tile of width a lies in that of width e times a around it.
LEMMA TileInside ==
    ASSUME NEW x \in Nat, NEW a \in Nat \ {0}, NEW e \in Nat \ {0}, NEW w \in Nat \ {0}, w = e * a,
           NEW c, c = x \div a, NEW t, t = x \div w
    PROVE  /\ c \in Nat /\ t \in Nat
           /\ t * w <= c * a /\ (c + 1) * a <= (t + 1) * w
<1>1. w \in Nat \ {0}
  OBVIOUS
<1>2. c \in Nat /\ c * a <= x /\ x < (c + 1) * a
  BY DivBounds
<1>3. t \in Nat /\ t * w <= x /\ x < (t + 1) * w
  BY <1>1, DivBounds
<1>4. \A u \in Nat : u * w = (u * e) * a /\ u * e \in Nat /\ u * w \in Nat
  OBVIOUS
<1>5. t * w <= c * a
  <2>1. t * w = (t * e) * a /\ t * e \in Nat /\ t * w \in Nat
    BY <1>3, <1>4
  <2>2. t * e <= c
    <3> SUFFICES ASSUME ~(t * e <= c) PROVE FALSE
      OBVIOUS
    <3>1. c + 1 <= t * e /\ c + 1 \in Nat
      BY <1>2, <2>1
    <3>2. (c + 1) * a <= (t * e) * a /\ (c + 1) * a \in Nat
      BY <2>1, <3>1, TimesOrder
    <3> PICK g : g = (c + 1) * a
      OBVIOUS
    <3> PICK h : h = t * w
      OBVIOUS
    <3>3. g <= h /\ h <= x /\ x < g /\ g \in Nat /\ h \in Nat
      BY <1>2, <1>3, <2>1, <3>2
    <3> QED BY <3>3
  <2> QED BY <1>2, <2>1, <2>2, TimesOrder
<1>6. (c + 1) * a <= (t + 1) * w
  <2>0. t + 1 \in Nat /\ c + 1 \in Nat
    BY <1>2, <1>3
  <2>1. (t + 1) * w = ((t + 1) * e) * a /\ (t + 1) * e \in Nat /\ (t + 1) * w \in Nat
    BY <1>4, <2>0
  <2>2. c + 1 <= (t + 1) * e
    <3> SUFFICES ASSUME ~(c + 1 <= (t + 1) * e) PROVE FALSE
      OBVIOUS
    <3> PICK v : v = (t + 1) * e
      OBVIOUS
    <3>1. v \in Nat /\ v <= c
      BY <1>2, <2>1
    <3>2. v * a <= c * a /\ c * a \in Nat
      BY <1>2, <3>1, TimesOrder
    <3> PICK g : g = c * a
      OBVIOUS
    <3> PICK h : h = (t + 1) * w
      OBVIOUS
    <3>3. h <= g /\ g <= x /\ x < h /\ g \in Nat /\ h \in Nat
      BY <1>2, <1>3, <2>1, <3>2
    <3> QED BY <3>3
  <2> QED BY <2>0, <2>1, <2>2, TimesOrder
<1> QED BY <1>1, <1>2, <1>3, <1>5, <1>6

\* Two intervals that reach each other share a point.
LEMMA IntervalsMeet ==
    ASSUME NEW p \in Nat, NEW q \in Nat, NEW s \in Nat, NEW t \in Nat,
           p <= q, s <= t, p <= t, s <= q
    PROVE  \E i \in p .. q : i \in s .. t
<1>1. CASE p <= s
  <2>1. s \in p .. q /\ s \in s .. t
    BY <1>1
  <2> QED BY <2>1
<1>2. CASE ~(p <= s)
  <2>1. p \in p .. q /\ p \in s .. t
    BY <1>2
  <2> QED BY <2>1
<1> QED BY <1>1, <1>2

\* A side of a region, y to o of width b, reaches the tile of width a that x is in,
\* which divides w in e parts, ...
SideReaches(x, a, e, w, b, y, o) ==
    /\ w = e * a /\ y <= o
    /\ 2 * (o + 1) * b >= 2 * (x \div a) * a /\ 2 * y * b <= 2 * ((x \div a) + 1) * a

\* ... and it shares a point with the tile of width w.
SideShares(x, w, b, y, o) ==
    ((x \div w) * w .. ((x \div w) + 1) * w) \cap (y * b .. (o + 1) * b) # {}

\* The first implies the second.
LEMMA ReachShares ==
    ASSUME NEW x \in Nat, NEW a \in Nat \ {0}, NEW e \in Nat \ {0}, NEW w \in Nat \ {0},
           NEW b \in Nat \ {0}, NEW y \in Nat, NEW o \in Nat, SideReaches(x, a, e, w, b, y, o)
    PROVE  SideShares(x, w, b, y, o)
<1> PICK c, t : c = x \div a /\ t = x \div w
  OBVIOUS
<1>0. w = e * a /\ y <= o /\ 2 * (o + 1) * b >= 2 * c * a /\ 2 * y * b <= 2 * (c + 1) * a
  BY DEF SideReaches
<1>1. /\ c \in Nat /\ t \in Nat
      /\ t * w <= c * a /\ (c + 1) * a <= (t + 1) * w
  BY <1>0, TileInside
<1>2. /\ t <= t + 1 /\ t + 1 \in Nat /\ y <= o + 1 /\ o + 1 \in Nat /\ c + 1 \in Nat
  BY <1>0, <1>1
<1>3. t * w <= (t + 1) * w /\ t * w \in Nat /\ (t + 1) * w \in Nat
  BY <1>1, <1>2, TimesOrder
<1>4. y * b <= (o + 1) * b /\ y * b \in Nat /\ (o + 1) * b \in Nat
  BY <1>2, TimesOrder
<1>5. c * a \in Nat /\ (c + 1) * a \in Nat
  BY <1>1, <1>2
<1>6. 2 * (o + 1) * b = 2 * ((o + 1) * b) /\ 2 * y * b = 2 * (y * b)
  OBVIOUS
<1>7. 2 * c * a = 2 * (c * a) /\ 2 * (c + 1) * a = 2 * ((c + 1) * a)
  BY <1>1
<1> PICK f : f = c * a
  OBVIOUS
<1> PICK g : g = (c + 1) * a
  OBVIOUS
<1> PICK p : p = t * w
  OBVIOUS
<1> PICK q : q = (t + 1) * w
  OBVIOUS
<1> PICK u : u = y * b
  OBVIOUS
<1> PICK v : v = (o + 1) * b
  OBVIOUS
<1>8. 2 * v >= 2 * f /\ 2 * u <= 2 * g
  BY <1>0, <1>6, <1>7
<1>9. /\ f \in Nat /\ g \in Nat /\ p \in Nat /\ q \in Nat /\ u \in Nat /\ v \in Nat
      /\ p <= f /\ g <= q /\ p <= q /\ u <= v
  BY <1>1, <1>3, <1>4, <1>5
<1>10. p <= v /\ u <= q
  BY <1>8, <1>9
<1>11. p \in Nat /\ q \in Nat /\ u \in Nat /\ v \in Nat /\ p <= q /\ u <= v /\ p <= v /\ u <= q
  BY <1>9, <1>10
<1>12. \E i \in p .. q : i \in u .. v
  BY <1>11, IntervalsMeet, Zenon
<1> QED BY <1>12 DEF SideShares

\* A tile that a region meets lies in one of a coarser zoom that touches it.
LEMMA CoarserTouches ==
    ASSUME NEW r \in Record, NEW k \in SpatialKeys, NEW n, n.z \in 0 .. MaxZoom,
           TileOf(r, k, n.z) = [x |-> n.x, y |-> n.y],
           NEW g, IsRegion(g), IntersectsTile(n, g), NEW z \in 0 .. n.z
    PROVE  Touches(TileOf(r, k, z), z, g)
<1> PICK a : a = 2^(MaxZoom - n.z)
  OBVIOUS
<1> PICK b : b = 2^(MaxZoom - g.z)
  OBVIOUS
<1> PICK w : w = 2^(MaxZoom - z)
  OBVIOUS
<1> PICK e : e = 2^(n.z - z)
  OBVIOUS
<1> PICK t : t = TileOf(r, k, z)
  OBVIOUS
<1> PICK p : p = r.at[k].x
  OBVIOUS
<1> PICK s : s = r.at[k].y
  OBVIOUS
<1>1. /\ g.z \in 0 .. MaxZoom /\ g.x0 \in Nat /\ g.x1 \in Nat /\ g.y0 \in Nat /\ g.y1 \in Nat
      /\ g.x0 <= g.x1 /\ g.y0 <= g.y1
  BY DEF IsRegion
<1>2. z \in 0 .. MaxZoom /\ MaxZoom - n.z \in Nat /\ n.z - z \in Nat
      /\ (n.z - z) + (MaxZoom - n.z) = MaxZoom - z /\ MaxZoom - z \in Nat
  <2> PICK m, d : m = n.z /\ d = MaxZoom
    OBVIOUS
  <2>1. d \in Nat /\ m \in 0 .. d /\ z \in 0 .. m
    BY Sizes
  <2>2. z \in 0 .. d /\ d - m \in Nat /\ m - z \in Nat /\ (m - z) + (d - m) = d - z /\ d - z \in Nat
    BY <2>1
  <2> QED BY <2>2
<1>3. /\ p \in Nat /\ s \in Nat /\ a \in Nat \ {0} /\ b \in Nat \ {0}
      /\ n.x = p \div a /\ n.y = s \div a /\ t.x = p \div w /\ t.y = s \div w
  <2>1. /\ p \in Nat /\ s \in Nat /\ a \in Nat \ {0} /\ b \in Nat \ {0}
        /\ TileOf(r, k, n.z).x = p \div a /\ TileOf(r, k, n.z).y = s \div a
        /\ t.x = p \div w /\ t.y = s \div w
    BY <1>1, <1>2, PlaceIs
  <2> QED BY <2>1
<1>4. e \in Nat \ {0} /\ w = e * a /\ w \in Nat \ {0}
  BY <1>2, PowerOfTwo, PowersAdd
<1>5. \A c : Line(c, n.z) = 2 * c * a /\ Line(c, g.z) = 2 * c * b
  BY <1>1, CubeAssumption DEF Line
<1>6. /\ Line(g.x1 + 1, g.z) = 2 * (g.x1 + 1) * b /\ Line(n.x, n.z) = 2 * n.x * a
      /\ Line(g.x0, g.z) = 2 * g.x0 * b /\ Line(n.x + 1, n.z) = 2 * (n.x + 1) * a
      /\ Line(g.y1 + 1, g.z) = 2 * (g.y1 + 1) * b /\ Line(n.y, n.z) = 2 * n.y * a
      /\ Line(g.y0, g.z) = 2 * g.y0 * b /\ Line(n.y + 1, n.z) = 2 * (n.y + 1) * a
  BY <1>5, Zenon
<1>7. /\ 2 * (g.x1 + 1) * b >= 2 * n.x * a /\ 2 * g.x0 * b <= 2 * (n.x + 1) * a
      /\ 2 * (g.y1 + 1) * b >= 2 * n.y * a /\ 2 * g.y0 * b <= 2 * (n.y + 1) * a
  BY <1>6, Zenon DEF IntersectsTile
<1>8. (t.x * w .. (t.x + 1) * w) \cap (g.x0 * b .. (g.x1 + 1) * b) # {}
  <2> PICK y, o : y = g.x0 /\ o = g.x1
    OBVIOUS
  <2>1. y \in Nat /\ o \in Nat
    BY <1>1
  <2>2. SideReaches(p, a, e, w, b, y, o)
    BY <1>1, <1>3, <1>4, <1>7 DEF SideReaches
  <2>3. SideShares(p, w, b, y, o)
    BY <1>3, <1>4, <2>1, <2>2, ReachShares
  <2> QED BY <1>3, <2>3 DEF SideShares
<1>9. (t.y * w .. (t.y + 1) * w) \cap (g.y0 * b .. (g.y1 + 1) * b) # {}
  <2> PICK y, o : y = g.y0 /\ o = g.y1
    OBVIOUS
  <2>1. y \in Nat /\ o \in Nat
    BY <1>1
  <2>2. SideReaches(s, a, e, w, b, y, o)
    BY <1>1, <1>3, <1>4, <1>7 DEF SideReaches
  <2>3. SideShares(s, w, b, y, o)
    BY <1>3, <1>4, <2>1, <2>2, ReachShares
  <2> QED BY <1>3, <2>3 DEF SideShares
<1> QED BY <1>8, <1>9, Zenon DEF Touches, Lines

\* So a record of a node answered at the zoom asked for touches all regions.
LEMMA MapTight ==
    ASSUME MapInv, N > 0, MaxZoom < 31, RegionShape(query)
    PROVE  RegionsAreTight
<1> DEFINE S == {k \in SpatialKeys : EvalRegion(query, k)}
<1> SUFFICES ASSUME RegionsAnswered, query.lastRegion = Max(S),
                    NEW p \in Range(range), p.value.z = query.zoom, NEW r \in RecordsOf(p),
                    NEW k \in SpatialKeys, EvalRegion(query, k)
             PROVE  Touches(TileOf(data[r], k, query.zoom), query.zoom, query.region[k])
  BY DEF RegionsAreTight
<1>1. /\ WalkInv /\ ZoomInv /\ TilesHoldTheirRecords /\ stage > 0
      /\ range = QueryRegion(query)[Root]
  <2>1. /\ WalkInv /\ ZoomInv /\ TilesHoldTheirRecords /\ Built /\ range = SpatialList(query)
        /\ EvalSpatial(query) /\ query.type # "TILE"
    BY DEF MapInv, RegionsAnswered, RegionInv, QueryInv, FirstRange
  <2> QED BY <2>1, Sizes DEF SpatialList, Built
<1>2. Root \in tiles /\ Root.level = 0
  BY <1>1, RootIs
<1>3. PICK m \in tiles : p = TilePivot(m) /\ Way(query, Root, m)
  BY <1>1, <1>2, WaysFound
<1>4. m.z = query.zoom /\ query.zoom \in 0 .. MaxZoom
  BY <1>3 DEF TilePivot, Labelled, RegionShape, IsRegion
<1>5. k <= query.lastRegion
  <2>1. S \subseteq 0 .. Keys - 1 /\ k \in S /\ Keys - 1 \in Nat
    BY Sizes DEF SpatialKeys
  <2> HIDE DEF S
  <2>2. \A y \in S : y <= Max(S)
    BY <2>1, MaxIs
  <2> QED BY <2>1, <2>2
<1>6. PICK c \in tiles : /\ KeyOf(c) = k /\ Span(m) \subseteq Span(c) /\ ~Cuts(query, c)
                         /\ c.z \in m.z .. MaxZoom
  BY <1>1, <1>2, <1>3, <1>4, <1>5, WayTurns
<1>7. c.z \in 0 .. MaxZoom /\ c.z # 31 /\ query.zoom \in 0 .. c.z
  <2> PICK z, d : z = c.z /\ d = MaxZoom
    OBVIOUS
  <2>1. z \in m.z .. d /\ m.z \in 0 .. d /\ m.z = query.zoom /\ d < 31 /\ d \in Nat
    BY <1>4, <1>6, Sizes
  <2> QED BY <2>1
<1>8. PICK i \in Span(m) : r = index[i]
  BY <1>3 DEF RecordsOf, TilePivot, Labelled, Span
<1>9. i \in Span(c) /\ r \in RecordsOf(c)
  BY <1>6, <1>8 DEF RecordsOf
<1>10. data[r] \in Record
  <2>1. i \in Records
    BY <1>9, Sizes, TileEdges, <1>1 DEF Span, Records
  <2>2. index \in [Records -> Records] /\ data \in Datasets
    BY <1>1 DEF WalkInv, TilesInv, IInv, TypeOK
  <2>3. data \in [Records -> Record]
    BY <2>2, CubeAssumption
  <2> QED BY <1>8, <2>1, <2>2, <2>3
<1>11. TileOf(data[r], k, c.z) = [x |-> c.x, y |-> c.y]
  BY <1>1, <1>6, <1>7, <1>9 DEF TilesHoldTheirRecords, KeyOf
<1>12. IntersectsTile(c, query.region[k]) /\ IsRegion(query.region[k])
  BY <1>6 DEF Cuts, RegionShape
<1> QED BY <1>7, <1>10, <1>11, <1>12, CoarserTouches

\* What TileNode::queryRegion selects at the zoom asked for has no record whose tile
\* is away from a region of the query: that a tile of another key met its region
\* is checked on the way down, at a zoom no coarser, in the same turn of the keys
\* or in the chain of nodes hashMultiple hangs below a leaf, which ends the walk
\* before a later turn. The last region parsed is that of the last key, no depth
\* of the tree wraps, and the dataset is not empty.
THEOREM RegionsTight ==
    QuerySpec => [](N > 0 /\ MaxZoom < 31 /\ RegionShape(query) => RegionsAreTight)
<1>1. MapInv => (N > 0 /\ MaxZoom < 31 /\ RegionShape(query) => RegionsAreTight)
  BY MapTight
<1> QED BY <1>1, InitMap, NextMap, PTL DEF QuerySpec
=============================================================================
