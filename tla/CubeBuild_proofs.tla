-------------------------- MODULE CubeBuild_proofs --------------------------
(***************************************************************************)
(* Proofs about the build, for every dataset, schema and size. They begin  *)
(* with what is needed of the operators of Cube: least and greatest        *)
(* elements, the used maps, chains of pivots and the sort.                 *)
(***************************************************************************)
EXTENDS CubeBuild, FiniteSetTheorems, SequenceTheorems, TLAPS

-----------------------------------------------------------------------------
(* Least and greatest.                                                     *)

\* A non-empty set of naturals has a least element.
LEMMA NatMin ==
    ASSUME NEW S \in SUBSET Nat, S # {}
    PROVE  \E m \in S : \A n \in S : m <= n
<1>1. IsWellFoundedOn(OpToRel(<, Nat), Nat)
  BY NatLessThanWellFounded
<1>2. PICK m \in S : \A n \in S : <<n, m>> \notin OpToRel(<, Nat)
  BY <1>1, WFMin, Zenon
<1>3. \A n \in S : ~(n < m)
  BY <1>2 DEF OpToRel
<1> QED BY <1>3, SMT

\* A non-empty finite set of naturals has a greatest element: the one that
\* has the fewest above it.
LEMMA NatMax ==
    ASSUME NEW S \in SUBSET Nat, IsFiniteSet(S), S # {}
    PROVE  \E m \in S : \A n \in S : n <= m
<1> DEFINE above(s) == {t \in S : t > s}
<1>1. \A s \in S : IsFiniteSet(above(s)) /\ Cardinality(above(s)) \in Nat
  BY FS_Subset, FS_CardinalityType
<1>2. PICK m \in S : \A n \in S :
             Cardinality(above(m)) <= Cardinality(above(n))
  <2> DEFINE cards == {Cardinality(above(s)) : s \in S}
  <2>1. cards \in SUBSET Nat /\ cards # {}
    BY <1>1
  <2>2. PICK c \in cards : \A n \in cards : c <= n
    BY <2>1, NatMin, Zenon
  <2> QED BY <2>2
<1>3. ASSUME NEW n \in S, n > m PROVE FALSE
  <2>1. above(n) \in SUBSET above(m) /\ n \in above(m) /\ n \notin above(n)
    <3>1. \A t \in above(n) : t \in above(m)
      BY <1>3, SMT
    <3>2. n \in above(m) /\ n \notin above(n)
      BY <1>3, SMT
    <3> HIDE DEF above
    <3> QED BY <3>1, <3>2, Zenon
  <2>2. Cardinality(above(n)) = Cardinality(above(m))
    <3>1. Cardinality(above(n)) <= Cardinality(above(m))
      BY <1>1, <2>1, FS_Subset, Zenon
    <3> HIDE DEF above
    <3> QED BY <1>1, <1>2, <3>1, SMT
  <2>3. above(n) = above(m)
    BY <1>1, <2>1, <2>2, FS_Subset, Zenon
  <2> QED BY <2>1, <2>3, Zenon
<1> QED BY <1>3, SMT

\* Powers of two are positive: 2^n counts the subsets of 1 .. n.
LEMMA PowerOfTwo ==
    ASSUME NEW n \in Nat
    PROVE  2^n \in Nat \ {0}
<1> DEFINE S == 1 .. n
<1>1. IsFiniteSet(S) /\ Cardinality(S) = n
  <2>1. IsFiniteSet(S) /\ Cardinality(S) = IF 1 > n THEN 0 ELSE n - 1 + 1
    BY FS_Interval
  <2> QED BY <2>1, SMT
<1>2. IsFiniteSet(SUBSET S) /\ Cardinality(SUBSET S) = 2^n
  BY <1>1, FS_SUBSET, Zenon
<1>3. SUBSET S # {}
  OBVIOUS
<1> QED BY <1>2, <1>3, FS_CardinalityType, FS_EmptySet, SMT

-----------------------------------------------------------------------------
(* The used maps of the loops: an entry taken from the map leaves the map  *)
(* of the records that are left.                                           *)

\* used counts n records by value.
Counts(used, n) ==
    \E g : /\ IsFiniteSet(DOMAIN g)
           /\ Cardinality(DOMAIN g) = n
           /\ used = Count(g)

\* An empty map counts no record, any other at least one.
LEMMA CountsNothing ==
    ASSUME NEW used, NEW n, Counts(used, n)
    PROVE  /\ n \in Nat
           /\ used = {} <=> n = 0
<1>1. PICK g : /\ IsFiniteSet(DOMAIN g)
               /\ Cardinality(DOMAIN g) = n
               /\ used = Count(g)
  BY DEF Counts
<1>2. n \in Nat /\ (n = 0 <=> DOMAIN g = {})
  BY <1>1, FS_CardinalityType, FS_EmptySet, Zenon
<1>3. used = {} <=> DOMAIN g = {}
  <2>1. used = { [key |-> v,
                  count |-> Cardinality({i \in DOMAIN g : g[i] = v})] :
                 v \in {g[i] : i \in DOMAIN g} }
    BY <1>1 DEF Count
  <2>2. ASSUME DOMAIN g = {} PROVE used = {}
    BY <2>1, <2>2
  <2>3. ASSUME NEW i \in DOMAIN g PROVE used # {}
    <3>1. [key |-> g[i],
           count |-> Cardinality({j \in DOMAIN g : g[j] = g[i]})] \in used
      BY <2>1, Zenon
    <3> QED BY <3>1, Zenon
  <2> QED BY <2>2, <2>3, Zenon
<1> QED BY <1>2, <1>3

\* Every entry counts at least one record, and without it the map counts the
\* others.
LEMMA CountsSplit ==
    ASSUME NEW used, NEW n, Counts(used, n), NEW e \in used
    PROVE  /\ e.count \in Nat \ {0}
           /\ e.count <= n
           /\ Counts(used \ {e}, n - e.count)
<1>1. PICK g : /\ IsFiniteSet(DOMAIN g)
               /\ Cardinality(DOMAIN g) = n
               /\ used = Count(g)
  BY DEF Counts
<1> DEFINE with(v) == {i \in DOMAIN g : g[i] = v}
           entry(v) == [key |-> v, count |-> Cardinality(with(v))]
<1>2. PICK k \in DOMAIN g : e = entry(g[k])
  BY <1>1, Zenon DEF Count
<1> DEFINE D == with(g[k])
           rest == {i \in DOMAIN g : g[i] # g[k]}
           h == [i \in rest |-> g[i]]
<1>3. IsFiniteSet(D) /\ D # {} /\ Cardinality(D) \in Nat /\ Cardinality(D) # 0
  <2>1. D \in SUBSET DOMAIN g /\ D # {}
    OBVIOUS
  <2>2. IsFiniteSet(D)
    BY <1>1, <2>1, FS_Subset, Zenon
  <2> QED BY <2>1, <2>2, FS_CardinalityType, FS_EmptySet, Zenon
<1>4. IsFiniteSet(rest) /\ Cardinality(rest) = n - Cardinality(D)
  <2>1. rest = DOMAIN g \ D /\ DOMAIN g \cap D = D
    OBVIOUS
  <2> HIDE DEF rest, D
  <2> QED BY <1>1, <2>1, FS_Difference, Zenon
<1>5. Cardinality(D) <= n
  <2>1. D \in SUBSET DOMAIN g
    OBVIOUS
  <2> HIDE DEF D
  <2> QED BY <1>1, <2>1, FS_Subset, Zenon
<1>6. used \ {e} = Count(h)
  <2>1. \A v : v # g[k] => {i \in DOMAIN h : h[i] = v} = with(v)
    OBVIOUS
  <2>2. {h[i] : i \in DOMAIN h} = {g[i] : i \in DOMAIN g} \ {g[k]}
    OBVIOUS
  <2>3. used = {entry(v) : v \in {g[i] : i \in DOMAIN g}}
    BY <1>1 DEF Count
  <2>4. Count(h) = {entry(v) : v \in {g[i] : i \in DOMAIN g} \ {g[k]}}
    <3>1. \A v \in {h[i] : i \in DOMAIN h} :
             [key |-> v,
              count |-> Cardinality({i \in DOMAIN h : h[i] = v})] = entry(v)
      BY <2>1, <2>2
    <3>2. Count(h) = {[key |-> v,
                       count |-> Cardinality({i \in DOMAIN h : h[i] = v})] :
                      v \in {h[i] : i \in DOMAIN h}}
      BY Zenon DEF Count
    <3> HIDE DEF entry
    <3>3. Count(h) = {entry(v) : v \in {h[i] : i \in DOMAIN h}}
      <4> HIDE DEF h
      <4> QED BY <3>1, <3>2
    <3> HIDE DEF h
    <3> QED BY <2>2, <3>3, Zenon
  <2>5. \A v : entry(v) = e <=> v = g[k]
    BY <1>2
  <2> HIDE DEF entry
  <2> QED BY <2>3, <2>4, <2>5
<1>7. DOMAIN h = rest
  OBVIOUS
<1>8. e.count = Cardinality(D)
  BY <1>2
<1>9. Counts(used \ {e}, n - e.count)
  <2> HIDE DEF h, rest, D
  <2> QED BY <1>4, <1>6, <1>7, <1>8 DEF Counts
<1> QED BY <1>3, <1>5, <1>8, <1>9

\* The map a loop starts with counts its records by values of S.
LEMMA CountsInitially ==
    ASSUME NEW front \in Int, NEW back \in Int, front <= back,
           NEW S, NEW f \in [front .. back - 1 -> S]
    PROVE  /\ Counts(Count(f), back - front)
           /\ Count(f) \in SUBSET [key : S, count : Nat \ {0}]
<1>1. /\ IsFiniteSet(DOMAIN f)
      /\ Cardinality(DOMAIN f) = back - front
  <2>1. /\ IsFiniteSet(front .. back - 1)
        /\ Cardinality(front .. back - 1) =
             IF front > back - 1 THEN 0 ELSE back - 1 - front + 1
    BY FS_Interval
  <2> QED BY <2>1, SMT
<1>2. Counts(Count(f), back - front)
  BY <1>1 DEF Counts
<1>3. ASSUME NEW e \in Count(f) PROVE e \in [key : S, count : Nat \ {0}]
  <2>1. e.count \in Nat \ {0}
    BY <1>2, CountsSplit, Zenon
  <2>2. PICK v \in {f[i] : i \in DOMAIN f} :
          e = [key |-> v, count |-> Cardinality({i \in DOMAIN f : f[i] = v})]
    BY DEF Count
  <2>3. v \in S
    OBVIOUS
  <2> QED BY <2>1, <2>2, <2>3
<1> QED BY <1>2, <1>3

\* A map has finitely many keys.
LEMMA KeysFinite ==
    ASSUME NEW used, NEW n, Counts(used, n)
    PROVE  IsFiniteSet({e.key : e \in used})
<1>1. PICK g : IsFiniteSet(DOMAIN g) /\ used = Count(g)
  BY DEF Counts
<1> DEFINE V == {g[i] : i \in DOMAIN g}
           h == [i \in DOMAIN g |-> g[i]]
           entry(v) == [key |-> v,
                        count |-> Cardinality({i \in DOMAIN g : g[i] = v})]
<1>2. h \in Surjection(DOMAIN g, V)
  BY DEF Surjection
<1>3. IsFiniteSet(V)
  <2> HIDE DEF h, V
  <2> QED BY <1>1, <1>2, FS_Surjection, Zenon
<1>4. {e.key : e \in used} = V
  <2>1. used = {entry(v) : v \in V}
    BY <1>1 DEF Count
  <2>2. \A v : entry(v).key = v
    OBVIOUS
  <2> HIDE DEF entry, V
  <2> QED BY <2>1, <2>2
<1> QED BY <1>3, <1>4

\* The loop over the children always finds its next tile ...
LEMMA FirstTile ==
    ASSUME NEW used \in SUBSET [key : [x : Nat, y : Nat], count : Nat \ {0}],
           used # {}
    PROVE  \E e \in used : \A f \in used : TileBefore(e.key, f.key)
<1>1. \A e \in used : e.key.x \in Nat /\ e.key.y \in Nat
  OBVIOUS
<1> DEFINE X == {e.key.x : e \in used}
<1>2. PICK x \in X : \A n \in X : x <= n
  <2>1. X \in SUBSET Nat /\ X # {}
    BY <1>1
  <2> QED BY <2>1, NatMin, Zenon
<1> DEFINE Y == {e.key.y : e \in {f \in used : f.key.x = x}}
<1>3. PICK y \in Y : \A n \in Y : y <= n
  <2>1. Y \in SUBSET Nat /\ Y # {}
    BY <1>1
  <2> QED BY <2>1, NatMin, Zenon
<1>4. PICK e \in used : e.key.x = x /\ e.key.y = y
  OBVIOUS
<1>5. ASSUME NEW f \in used PROVE TileBefore(e.key, f.key)
  <2>1. x <= f.key.x /\ (f.key.x = x => y <= f.key.y)
    BY <1>2, <1>3
  <2> HIDE DEF X, Y
  <2> QED BY <1>1, <1>4, <2>1, SMT DEF TileBefore
<1> QED BY <1>4, <1>5

\* ... and the loop over the values its next value.
LEMMA FirstValue ==
    ASSUME NEW used \in SUBSET [key : Nat, count : Nat \ {0}], used # {}
    PROVE  \E e \in used : \A f \in used : e.key <= f.key
<1> DEFINE K == {e.key : e \in used}
<1>1. K \in SUBSET Nat /\ K # {}
  OBVIOUS
<1>2. PICK k \in K : \A n \in K : k <= n
  BY <1>1, NatMin, Zenon
<1> QED BY <1>2

-----------------------------------------------------------------------------
(* Chains of pivots.                                                       *)

\* A pass that answers the next pivot stays a chain ...
LEMMA ChainAppend ==
    ASSUME NEW S, NEW s \in Seq(S), NEW x \in S, NEW a, NEW b \in Int,
           NEW c \in Int, Chain(s, a, b), x.front = b, x.back = c, b < c
    PROVE  Chain(Append(s, x), a, c)
<1> DEFINE t == Append(s, x)
<1>1. /\ t \in Seq(S) /\ Len(t) = Len(s) + 1 /\ t # << >>
      /\ \A i \in 1 .. Len(s) : t[i] = s[i]
      /\ t[Len(s) + 1] = x
  OBVIOUS
<1>2. ASSUME NEW i \in DOMAIN t
      PROVE  /\ t[i].front < t[i].back
             /\ t[i].front = IF i = 1 THEN a ELSE t[i - 1].back
  <2>1. CASE i \in DOMAIN s
    BY <1>1, <2>1 DEF Chain
  <2>2. CASE i = Len(s) + 1
    BY <1>1, <2>2 DEF Chain
  <2> QED BY <1>1, <2>1, <2>2
<1>3. c = IF t = << >> THEN a ELSE t[Len(t)].back
  BY <1>1
<1>4. Chain(t, a, c)
  <2> HIDE DEF t
  <2> QED BY <1>2, <1>3 DEF Chain
<1> QED BY <1>4

\* ... and so does one that answers several.
LEMMA ChainConcat ==
    ASSUME NEW S, NEW s \in Seq(S), NEW t \in Seq(S), NEW a, NEW b, NEW c,
           Chain(s, a, b), Chain(t, b, c)
    PROVE  Chain(s \o t, a, c)
<1> DEFINE u == s \o t
<1>1. /\ u \in Seq(S) /\ Len(u) = Len(s) + Len(t)
      /\ \A i \in 1 .. Len(s) : u[i] = s[i]
      /\ \A i \in 1 .. Len(t) : u[Len(s) + i] = t[i]
  OBVIOUS
<1>2. ASSUME NEW i \in DOMAIN u
      PROVE  /\ u[i].front < u[i].back
             /\ u[i].front = IF i = 1 THEN a ELSE u[i - 1].back
  <2>1. CASE i \in DOMAIN s
    BY <1>1, <2>1 DEF Chain
  <2>2. CASE i \notin DOMAIN s
    <3>1. PICK j \in DOMAIN t : i = Len(s) + j
      <4>1. i - Len(s) \in DOMAIN t /\ i = Len(s) + (i - Len(s))
        BY <1>1, <2>2
      <4> QED BY <4>1
    <3>2. u[i] = t[j]
      BY <1>1, <3>1
    <3>3. CASE j = 1
      <4>1. t[1].front < t[1].back /\ t[1].front = b
        BY <3>3 DEF Chain
      <4>2. CASE s = << >>
        <5>1. i = 1 /\ b = a
          BY <3>1, <3>3, <4>2 DEF Chain
        <5> QED BY <3>2, <3>3, <4>1, <5>1
      <4>3. CASE s # << >>
        <5>1. /\ i # 1 /\ i - 1 = Len(s) /\ i - 1 \in 1 .. Len(s)
              /\ b = s[Len(s)].back
          BY <3>1, <3>3, <4>3 DEF Chain
        <5>2. u[i - 1] = s[Len(s)]
          BY <1>1, <5>1
        <5> QED BY <3>2, <3>3, <4>1, <5>1, <5>2
      <4> QED BY <4>2, <4>3
    <3>4. CASE j # 1
      <4>1. /\ j - 1 \in 1 .. Len(t) /\ i - 1 = Len(s) + (j - 1) /\ i # 1
        BY <3>1, <3>4
      <4>2. u[i - 1] = t[j - 1]
        BY <1>1, <4>1
      <4>3. t[j].front < t[j].back /\ t[j].front = t[j - 1].back
        BY <3>4 DEF Chain
      <4> QED BY <3>2, <4>1, <4>2, <4>3
    <3> QED BY <3>3, <3>4
  <2> QED BY <2>1, <2>2
<1>3. c = IF u = << >> THEN a ELSE u[Len(u)].back
  <2>1. CASE t = << >>
    BY <1>1, <2>1 DEF Chain
  <2>2. CASE t # << >>
    <3>1. /\ Len(t) \in 1 .. Len(t) /\ u # << >> /\ Len(u) = Len(s) + Len(t)
          /\ c = t[Len(t)].back
      BY <1>1, <2>2 DEF Chain
    <3>2. u[Len(u)] = t[Len(t)]
      BY <1>1, <3>1
    <3> QED BY <3>1, <3>2
  <2> QED BY <2>1, <2>2
<1> HIDE DEF u
<1>4. /\ \A i \in DOMAIN u : /\ u[i].front < u[i].back
                            /\ u[i].front = IF i = 1 THEN a ELSE u[i - 1].back
      /\ c = IF u = << >> THEN a ELSE u[Len(u)].back
  BY <1>2, <1>3, Zenon
<1>5. Chain(u, a, c)
  BY <1>4, Zenon DEF Chain
<1> QED BY <1>5, Zenon DEF u

\* The pivots of the parts of a node are a chain as the parts are.
LEMMA ChainOfPivots ==
    ASSUME NEW S, NEW s \in Seq(S), NEW a, NEW b, Chain(s, a, b)
    PROVE  Chain([i \in DOMAIN s |-> Pivot(s[i].front, s[i].back)], a, b)
<1> DEFINE p == [i \in DOMAIN s |-> Pivot(s[i].front, s[i].back)]
<1>1. /\ DOMAIN p = 1 .. Len(s) /\ Len(p) = Len(s)
      /\ \A i \in DOMAIN s : p[i].front = s[i].front /\ p[i].back = s[i].back
      /\ p = << >> <=> s = << >>
  BY DEF Pivot
<1> HIDE DEF p
<1>2. ASSUME NEW i \in DOMAIN p
      PROVE  /\ p[i].front < p[i].back
             /\ p[i].front = IF i = 1 THEN a ELSE p[i - 1].back
  BY <1>1 DEF Chain
<1>3. b = IF p = << >> THEN a ELSE p[Len(p)].back
  BY <1>1 DEF Chain
<1>4. Chain(p, a, b)
  BY <1>2, <1>3 DEF Chain
<1> QED BY <1>4 DEF p

\* What a chain says of neighbours holds of any two of its pivots: they
\* ascend without overlap, between the ends of the chain.
LEMMA ChainAscends ==
    ASSUME NEW S, \A x \in S : x.front \in Int /\ x.back \in Int,
           NEW s \in Seq(S), NEW a \in Int, NEW b \in Int, Chain(s, a, b)
    PROVE  /\ \A i, j \in DOMAIN s : i < j => s[i].back <= s[j].front
           /\ \A i \in DOMAIN s : a <= s[i].front /\ s[i].back <= b
<1>1. /\ \A i \in DOMAIN s : s[i].front \in Int /\ s[i].back \in Int
      /\ \A i \in DOMAIN s : s[i].front < s[i].back
      /\ \A i \in DOMAIN s : i + 1 \in DOMAIN s => s[i + 1].front = s[i].back
      /\ s # << >> => /\ 1 \in DOMAIN s /\ Len(s) \in DOMAIN s
                      /\ s[1].front = a /\ s[Len(s)].back = b
  <2>1. \A i \in DOMAIN s : s[i] \in S
    OBVIOUS
  <2>2. \A i \in DOMAIN s : i + 1 \in DOMAIN s => s[i + 1].front = s[i].back
    <3>1. \A i \in DOMAIN s : i + 1 # 1 /\ (i + 1) - 1 = i
      OBVIOUS
    <3> QED BY <3>1, Zenon DEF Chain
  <2>3. s # << >> => 1 \in DOMAIN s /\ Len(s) \in DOMAIN s
    OBVIOUS
  <2> QED BY <2>1, <2>2, <2>3 DEF Chain
<1> DEFINE Torn(k) == \E i \in DOMAIN s : /\ i + k + 1 \in DOMAIN s
                                         /\ s[i].back > s[i + k + 1].front
           bad == {k \in Nat : Torn(k)}
<1>2. bad = {}
  <2>1. SUFFICES ASSUME bad # {} PROVE FALSE
    OBVIOUS
  <2>2. PICK k \in bad : \A n \in bad : k <= n
    <3>1. bad \in SUBSET Nat
      OBVIOUS
    <3> QED BY <2>1, <3>1, NatMin, Zenon
  <2>3. PICK i \in DOMAIN s : /\ i + k + 1 \in DOMAIN s
                              /\ s[i].back > s[i + k + 1].front
    OBVIOUS
  <2>4. CASE k = 0
    BY <1>1, <2>3, <2>4
  <2>5. CASE k # 0
    <3>1. k - 1 \in Nat /\ k - 1 \notin bad
      BY <2>2, <2>5
    <3>2. /\ i + k \in DOMAIN s /\ i + (k - 1) + 1 = i + k
          /\ (i + k) + 1 = i + k + 1
      BY <2>3, <3>1
    <3>3. s[i].back <= s[i + k].front
      <4>1. ~(s[i].back > s[i + k].front)
        BY <2>3, <3>1, <3>2
      <4> HIDE DEF bad
      <4> QED BY <1>1, <2>3, <3>2, <4>1
    <3>4. s[i + k + 1].front = s[i + k].back
      BY <1>1, <2>3, <3>2
    <3>5. s[i + k].front < s[i + k].back
      BY <1>1, <3>2
    <3>6. /\ s[i].back \in Int /\ s[i + k].front \in Int
          /\ s[i + k].back \in Int
      BY <1>1, <3>2
    <3> HIDE DEF bad
    <3> QED BY <2>3, <3>3, <3>4, <3>5, <3>6, SMT
  <2> QED BY <2>4, <2>5, Zenon
<1>3. ASSUME NEW i \in DOMAIN s, NEW j \in DOMAIN s, i < j
      PROVE  s[i].back <= s[j].front
  <2>1. /\ j - i - 1 \in Nat /\ i + (j - i - 1) + 1 = j
    BY <1>3
  <2>2. ~Torn(j - i - 1)
    BY <1>2, <2>1, Zenon
  <2>3. ~(s[i].back > s[j].front)
    BY <2>1, <2>2
  <2> QED BY <1>1, <2>3
<1>4. ASSUME NEW i \in DOMAIN s
      PROVE  a <= s[i].front /\ s[i].back <= b
  <2>1. s # << >> /\ (i = 1 \/ 1 < i) /\ (i = Len(s) \/ i < Len(s))
    OBVIOUS
  <2>2. a <= s[i].front
    BY <1>1, <1>3, <2>1
  <2>3. s[i].back <= b
    BY <1>1, <1>3, <2>1
  <2> QED BY <2>2, <2>3
<1> QED BY <1>3, <1>4

\* A chain leaves no position out.
LEMMA ChainCovers ==
    ASSUME NEW S, \A x \in S : x.front \in Int /\ x.back \in Int,
           NEW s \in Seq(S), NEW a \in Int, NEW b \in Int, Chain(s, a, b),
           NEW k \in a .. b - 1
    PROVE  \E i \in DOMAIN s : k \in Span(s[i])
<1> DEFINE A == {i \in DOMAIN s : k < s[i].back}
<1>1. /\ \A i \in DOMAIN s : s[i].front \in Int /\ s[i].back \in Int /\ i \in Nat
      /\ \A i \in DOMAIN s : i # 1 => i - 1 \in DOMAIN s
      /\ DOMAIN s = 1 .. Len(s) /\ Len(s) \in Nat
  OBVIOUS
<1>2. /\ \A i \in DOMAIN s : s[i].front = IF i = 1 THEN a ELSE s[i - 1].back
      /\ b = IF s = << >> THEN a ELSE s[Len(s)].back
  BY DEF Chain
<1>3. s # << >> /\ Len(s) \in DOMAIN s /\ b = s[Len(s)].back
  <2>1. s # << >>
    BY <1>2
  <2> QED BY <1>2, <2>1
<1>4. PICK i \in A : \A j \in A : i <= j
  <2>1. A \in SUBSET Nat /\ Len(s) \in A
    BY <1>1, <1>3
  <2> HIDE DEF A
  <2> QED BY <2>1, NatMin
<1>5. i \in DOMAIN s /\ k < s[i].back /\ i \in Nat /\ k \in Int /\ a <= k
  BY <1>1
<1>6. s[i].front <= k
  <2>1. CASE i = 1
    BY <1>2, <1>5, <2>1
  <2>2. CASE i # 1
    <3>1. i - 1 \in DOMAIN s /\ s[i].front = s[i - 1].back /\ s[i - 1].back \in Int
      BY <1>1, <1>2, <1>5, <2>2
    <3>2. i - 1 \notin A
      <4>1. ~(i <= i - 1)
        BY <1>5
      <4> HIDE DEF A
      <4> QED BY <1>4, <4>1
    <3> QED BY <1>5, <3>1, <3>2
  <2> QED BY <2>1, <2>2
<1> QED BY <1>1, <1>5, <1>6 DEF Span

-----------------------------------------------------------------------------
(* The sort.                                                               *)

\* The records a run of positions stands for under index ix.
RecordsAt(ix, p) == {ix[i] : i \in Span(p)}

\* Sorting a run keeps the dataset: no record is lost, none is doubled, those
\* outside the run stay where they are and those inside remain inside.
LEMMA SortKeeps ==
    ASSUME NEW index_ \in [Records -> Records], IsInjective(index_),
           NEW p, p.front \in 0 .. N, p.back \in 0 .. N,
           NEW hash, NEW ix \in SortHash(index_, p, hash)
    PROVE  /\ ix \in [Records -> Records]
           /\ IsInjective(ix)
           /\ \A i \in Records \ Span(p) : ix[i] = index_[i]
           /\ RecordsAt(ix, p) = RecordsAt(index_, p)
<1>1. Span(p) \subseteq Records
  BY CubeAssumption, SMT DEF Span, Records
<1>2. PICK f \in Bijection(Span(p), Span(p)) :
         ix = [i \in Records |-> IF i \in Span(p) THEN index_[f[i]] ELSE index_[i]]
  BY Zenon DEF SortHash, Rearranged
<1> DEFINE R == Span(p)
<1>3. /\ f \in [R -> R]
      /\ \A i, j \in R : f[i] = f[j] => i = j
      /\ \A t \in R : \E i \in R : f[i] = t
  BY DEF Bijection, Injection, Surjection, IsInjective
<1> HIDE DEF R
<1>4. /\ \A i \in R : ix[i] = index_[f[i]]
      /\ \A i \in Records \ R : ix[i] = index_[i]
  BY <1>1, <1>2 DEF R
<1>5. R \subseteq Records
  BY <1>1 DEF R
<1>6. ix \in [Records -> Records]
  BY <1>2, <1>3, <1>5 DEF R
<1>7. \A i, j \in Records : index_[i] = index_[j] => i = j
  BY DEF IsInjective
<1>8. \A i, j \in Records : ix[i] = ix[j] => i = j
  BY <1>3, <1>4, <1>5, <1>7
<1>9. IsInjective(ix)
  BY <1>6, <1>8 DEF IsInjective
<1>10. {ix[i] : i \in R} = {index_[i] : i \in R}
  BY <1>3, <1>4
<1> QED BY <1>4, <1>6, <1>9, <1>10 DEF R, RecordsAt

\* So a run that contains the sorted one, or lies apart from it, stands for
\* the same records as before.
LEMMA SortStaysInside ==
    ASSUME NEW index_ \in [Records -> Records], IsInjective(index_),
           NEW p, p.front \in 0 .. N, p.back \in 0 .. N,
           NEW hash, NEW ix \in SortHash(index_, p, hash),
           NEW q, q.front \in 0 .. N, q.back \in 0 .. N,
           Span(p) \subseteq Span(q) \/ Span(p) \cap Span(q) = {}
    PROVE  RecordsAt(ix, q) = RecordsAt(index_, q)
<1>1. /\ \A i \in Records \ Span(p) : ix[i] = index_[i]
      /\ {ix[i] : i \in Span(p)} = {index_[i] : i \in Span(p)}
  <2>1. \A i \in Records \ Span(p) : ix[i] = index_[i]
    BY SortKeeps, SMT
  <2>2. RecordsAt(ix, p) = RecordsAt(index_, p)
    BY SortKeeps, SMT
  <2> QED BY <2>1, <2>2, Zenon DEF RecordsAt
<1>2. Span(q) \subseteq Records
  BY CubeAssumption, SMT DEF Span, Records
<1>3. CASE Span(p) \cap Span(q) = {}
  BY <1>1, <1>2, <1>3 DEF RecordsAt
<1>4. CASE Span(p) \subseteq Span(q)
  <2>1. {ix[i] : i \in Span(q)} = {ix[i] : i \in Span(p)}
                                    \cup {ix[i] : i \in Span(q) \ Span(p)}
    BY <1>4
  <2>2. {index_[i] : i \in Span(q)} = {index_[i] : i \in Span(p)}
                                       \cup {index_[i] : i \in Span(q) \ Span(p)}
    BY <1>4
  <2>3. {ix[i] : i \in Span(q) \ Span(p)} = {index_[i] : i \in Span(q) \ Span(p)}
    BY <1>1, <1>2
  <2> QED BY <1>1, <2>1, <2>2, <2>3, Zenon DEF RecordsAt
<1> QED BY <1>3, <1>4

-----------------------------------------------------------------------------
(* Halving.                                                                *)

\* A power of two is twice the one before: the subsets of 1 .. n + 1 are those
\* of 1 .. n, each without and with n + 1.
LEMMA PowerDoubles ==
    ASSUME NEW n \in Nat
    PROVE  2^(n + 1) = 2 * 2^n
<1> DEFINE A == SUBSET (1 .. n)
           B == {T \cup {n + 1} : T \in A}
           h == [T \in A |-> T \cup {n + 1}]
<1>1. \A m \in Nat : /\ IsFiniteSet(SUBSET (1 .. m))
                     /\ Cardinality(SUBSET (1 .. m)) = 2^m
  <2> TAKE m \in Nat
  <2>1. IsFiniteSet(1 .. m) /\ Cardinality(1 .. m) = m
    <3>1. /\ IsFiniteSet(1 .. m)
          /\ Cardinality(1 .. m) = IF 1 > m THEN 0 ELSE m - 1 + 1
      BY FS_Interval
    <3> QED BY <3>1, SMT
  <2> QED BY <2>1, FS_SUBSET, Zenon
<1>2. n + 1 \in Nat /\ n + 1 \notin 1 .. n /\ 1 .. n + 1 = (1 .. n) \cup {n + 1}
  BY SMT
<1>3. SUBSET (1 .. n + 1) = A \cup B
  <2>1. ASSUME NEW T \in SUBSET (1 .. n + 1) PROVE T \in A \cup B
    <3>1. CASE n + 1 \in T
      <4>1. T \ {n + 1} \in A /\ T = (T \ {n + 1}) \cup {n + 1}
        BY <1>2, <3>1
      <4> QED BY <4>1
    <3>2. CASE n + 1 \notin T
      BY <1>2, <3>2
    <3> QED BY <3>1, <3>2
  <2>2. ASSUME NEW T \in A \cup B PROVE T \in SUBSET (1 .. n + 1)
    BY <1>2
  <2> QED BY <2>1, <2>2
<1>4. A \cap B = {}
  <2>1. \A T \in A : n + 1 \notin T
    BY <1>2
  <2>2. \A T \in B : n + 1 \in T
    OBVIOUS
  <2> QED BY <2>1, <2>2
<1>5. IsFiniteSet(B) /\ Cardinality(B) = Cardinality(A)
  <2>1. h \in [A -> B] /\ (\A t \in B : \E s \in A : h[s] = t)
    OBVIOUS
  <2>2. \A s, t \in A : h[s] = h[t] => s = t
    <3> SUFFICES ASSUME NEW s \in A, NEW t \in A, h[s] = h[t] PROVE s = t
      OBVIOUS
    <3>1. s \cup {n + 1} = t \cup {n + 1}
      OBVIOUS
    <3>2. n + 1 \notin s /\ n + 1 \notin t
      BY <1>2
    <3> QED BY <3>1, <3>2
  <2> HIDE DEF A, B, h
  <2>3. h \in Bijection(A, B)
    BY <2>1, <2>2 DEF Bijection, Injection, Surjection, IsInjective
  <2>4. ExistsBijection(A, B)
    BY <2>3 DEF ExistsBijection
  <2>5. IsFiniteSet(A)
    BY <1>1 DEF A
  <2> QED BY <2>4, <2>5, FS_Bijection, Zenon
<1>6. Cardinality(A \cup B) = Cardinality(A) + Cardinality(A)
  <2>1. IsFiniteSet(A) /\ Cardinality(A) \in Nat
    BY <1>1, FS_CardinalityType
  <2> HIDE DEF A, B
  <2>2. Cardinality(A \cup B) = Cardinality(A) + Cardinality(B) - Cardinality(A \cap B)
    BY <1>5, <2>1, FS_Union, Zenon
  <2>3. Cardinality(A \cap B) = 0
    BY <1>4, FS_EmptySet, Zenon
  <2> QED BY <1>5, <2>1, <2>2, <2>3, SMT
<1>7. Cardinality(A) = 2^n /\ Cardinality(A \cup B) = 2^(n + 1)
  <2>1. Cardinality(SUBSET (1 .. n + 1)) = 2^(n + 1)
    BY <1>1, <1>2, Zenon
  <2> QED BY <1>1, <1>3, <2>1, Zenon
<1>8. 2^n \in Nat
  BY PowerOfTwo
<1> HIDE DEF A, B
<1> QED BY <1>6, <1>7, <1>8, SMT

\* Quotient and remainder.
LEMMA DivMod ==
    ASSUME NEW x \in Nat, NEW w \in Nat \ {0}
    PROVE  /\ x \div w \in Nat /\ x % w \in Nat
           /\ x % w < w /\ x = w * (x \div w) + (x % w)
BY SMT

\* What division by w gives, halved, is what division by 2 * w gives.
LEMMA DivHalves ==
    ASSUME NEW x \in Nat, NEW w \in Nat \ {0}
    PROVE  (x \div w) \div 2 = x \div (2 * w)
<1> DEFINE q == x \div w
           r == x % w
           a == q \div 2
           b == q % 2
           v == 2 * w
           c == x \div v
           e == x % v
<1>1. q \in Nat /\ r \in Nat /\ r < w /\ x = w * q + r
  BY SMT
<1>2. a \in Nat /\ b \in {0, 1} /\ q = 2 * a + b
  <2> HIDE DEF q
  <2> QED BY <1>1, SMT
<1>3. v \in Nat \ {0} /\ v = 2 * w
  BY SMT
<1>4. c \in Nat /\ e \in Nat /\ e < v /\ x = v * c + e
  <2> HIDE DEF v
  <2> QED BY <1>3, DivMod
<1> HIDE DEF q, r, a, b, v, c, e
<1>5. x = v * a + (w * b + r)
  <2>0. a \in Int /\ b \in Int /\ w \in Int
    BY <1>2, SMT
  <2>1. w * q = w * (2 * a) + w * b
    <3>1. w * q = w * (2 * a + b)
      BY <1>2, Zenon
    <3>2. w * (2 * a + b) = w * (2 * a) + w * b
      BY <2>0, SMT
    <3> QED BY <3>1, <3>2, Zenon
  <2>2. w * (2 * a) = v * a
    <3>1. w * (2 * a) = (2 * w) * a
      BY <2>0, SMT
    <3> QED BY <1>3, <3>1, Zenon
  <2>3. v * a \in Int /\ w * b \in Int /\ r \in Int
    BY <1>1, <1>3, <2>0, SMT
  <2>4. x = (v * a + w * b) + r
    BY <1>1, <2>1, <2>2, Zenon
  <2> QED BY <2>3, <2>4, SMT
<1>6. w * b + r \in Nat /\ w * b + r < v
  <2>1. CASE b = 0
    BY <1>1, <1>3, <2>1, SMT
  <2>2. CASE b = 1
    BY <1>1, <1>3, <2>2, SMT
  <2> QED BY <1>2, <2>1, <2>2
<1> DEFINE s == w * b + r
<1>7. s \in Nat /\ s < v /\ x = v * a + s
  BY <1>5, <1>6
<1> HIDE DEF s
<1>8. ~(a < c)
  <2> SUFFICES ASSUME a < c PROVE FALSE
    OBVIOUS
  <2>1. v * (c - a - 1) >= 0
    BY <1>2, <1>3, <1>4, SMT
  <2>2. v * (c - a - 1) = v * c - v * a - v
    BY <1>2, <1>3, <1>4, SMT
  <2>3. v * c \in Int /\ v * a \in Int
    BY <1>2, <1>3, <1>4, SMT
  <2> QED BY <1>3, <1>4, <1>7, <2>1, <2>2, <2>3, SMT
<1>9. ~(c < a)
  <2> SUFFICES ASSUME c < a PROVE FALSE
    OBVIOUS
  <2>1. v * (a - c - 1) >= 0
    BY <1>2, <1>3, <1>4, SMT
  <2>2. v * (a - c - 1) = v * a - v * c - v
    BY <1>2, <1>3, <1>4, SMT
  <2>3. v * c \in Int /\ v * a \in Int
    BY <1>2, <1>3, <1>4, SMT
  <2> QED BY <1>3, <1>4, <1>7, <2>1, <2>2, <2>3, SMT
<1>10. a = c
  BY <1>2, <1>4, <1>8, <1>9, SMT
<1> QED BY <1>10 DEF a, c, q, v

\* The tile of a record at a zoom halves the one at the next finer zoom.
LEMMA TileHalves ==
    ASSUME NEW record \in Record, NEW k \in 0 .. Keys - 1, NEW z \in Nat,
           z < MaxZoom
    PROVE  /\ TileOf(record, k, z).x = TileOf(record, k, z + 1).x \div 2
           /\ TileOf(record, k, z).y = TileOf(record, k, z + 1).y \div 2
<1>1. record.at[k].x \in Nat /\ record.at[k].y \in Nat
  <2>1. record.at[k] \in Point
    BY DEF Record
  <2>2. 2^MaxZoom \in Nat \ {0}
    BY CubeAssumption, PowerOfTwo
  <2> QED BY <2>1, <2>2, SMT DEF Point
<1> DEFINE n == MaxZoom - (z + 1)
<1>2. n \in Nat /\ MaxZoom - z = n + 1 /\ n = MaxZoom - (z + 1)
  BY CubeAssumption, SMT
<1> HIDE DEF n
<1> DEFINE w == 2^n
<1>3. w \in Nat \ {0} /\ 2^(n + 1) = 2 * w
  BY <1>2, PowerOfTwo, PowerDoubles, Zenon
<1> HIDE DEF w
<1>4. /\ (record.at[k].x \div w) \div 2 = record.at[k].x \div (2 * w)
      /\ (record.at[k].y \div w) \div 2 = record.at[k].y \div (2 * w)
  BY <1>1, <1>3, DivHalves
<1>5. /\ TileOf(record, k, z) = [x |-> record.at[k].x \div 2^(n + 1),
                                 y |-> record.at[k].y \div 2^(n + 1)]
      /\ TileOf(record, k, z + 1) = [x |-> record.at[k].x \div w,
                                     y |-> record.at[k].y \div w]
  BY <1>2, Zenon DEF TileOf, w
<1>6. /\ TileOf(record, k, z).x = record.at[k].x \div 2^(n + 1)
      /\ TileOf(record, k, z).y = record.at[k].y \div 2^(n + 1)
      /\ TileOf(record, k, z + 1).x = record.at[k].x \div w
      /\ TileOf(record, k, z + 1).y = record.at[k].y \div w
  BY <1>5
<1> QED BY <1>3, <1>4, <1>6, Zenon

-----------------------------------------------------------------------------
(* Runs of a sorted stretch of positions.                                  *)

\* Positions that come with all positions before them are the first ones.
LEMMA FirstPositions ==
    ASSUME NEW a \in Int, NEW b \in Int, a <= b, NEW S \in SUBSET (a .. b - 1),
           \A i \in S : \A j \in a .. i : j \in S
    PROVE  /\ IsFiniteSet(S) /\ Cardinality(S) \in Nat
           /\ a + Cardinality(S) <= b
           /\ S = a .. a + Cardinality(S) - 1
<1>1. /\ \A u, v \in Int : /\ IsFiniteSet(u .. v)
                           /\ Cardinality(u .. v) = IF u > v THEN 0 ELSE v - u + 1
  BY FS_Interval
<1>2. IsFiniteSet(a .. b - 1) /\ Cardinality(a .. b - 1) = b - a
  <2>1. b - 1 \in Int
    OBVIOUS
  <2>2. /\ IsFiniteSet(a .. b - 1)
        /\ Cardinality(a .. b - 1) = IF a > b - 1 THEN 0 ELSE (b - 1) - a + 1
    BY <1>1, <2>1, Zenon
  <2> QED BY <2>2, SMT
<1>3. /\ IsFiniteSet(S) /\ Cardinality(S) \in Nat
      /\ Cardinality(S) <= b - a
  BY <1>2, FS_Subset, FS_CardinalityType, Zenon
<1> DEFINE c == Cardinality(S)
           T == a .. a + c - 1
<1>4. S \in SUBSET T
  <2> SUFFICES ASSUME NEW i \in S PROVE i \in T
    OBVIOUS
  <2>1. i \in Int /\ a <= i
    OBVIOUS
  <2>2. (a .. i) \in SUBSET S
    OBVIOUS
  <2>3. Cardinality(a .. i) = i - a + 1
    BY <1>1, <2>1, SMT
  <2>4. Cardinality(a .. i) <= c
    BY <1>3, <2>2, FS_Subset, Zenon
  <2> HIDE DEF c
  <2>5. c \in Nat
    BY <1>3 DEF c
  <2> QED BY <2>1, <2>3, <2>4, <2>5, SMT
<1>5. IsFiniteSet(T) /\ Cardinality(T) = c
  <2> HIDE DEF c
  <2>1. c \in Nat
    BY <1>3 DEF c
  <2>2. a + c - 1 \in Int /\ a \in Int
    BY <2>1, SMT
  <2>3. IsFiniteSet(a .. a + c - 1)
    BY <1>1, <2>2, Zenon
  <2>4. Cardinality(a .. a + c - 1)
          = IF a > a + c - 1 THEN 0 ELSE (a + c - 1) - a + 1
    BY <1>1, <2>2, Zenon
  <2> QED BY <2>1, <2>3, <2>4, SMT
<1>6. S = T
  <2> HIDE DEF T
  <2> QED BY <1>4, <1>5, FS_Subset, Zenon
<1>7. a + c <= b
  <2> HIDE DEF c
  <2> QED BY <1>3, SMT DEF c
<1> QED BY <1>3, <1>6, <1>7

\* As many positions have a property after their contents were moved as before.
LEMMA MovedCount ==
    ASSUME NEW D, IsFiniteSet(D), NEW f \in Bijection(D, D),
           NEW S \in SUBSET D
    PROVE  Cardinality({i \in D : f[i] \in S}) = Cardinality(S)
<1> DEFINE R == {i \in D : f[i] \in S}
           h == [i \in R |-> f[i]]
<1>1. /\ f \in [D -> D]
      /\ \A i, j \in D : f[i] = f[j] => i = j
      /\ \A t \in D : \E i \in D : f[i] = t
  BY DEF Bijection, Injection, Surjection, IsInjective
<1>2. /\ h \in [R -> S]
      /\ \A i, j \in R : h[i] = h[j] => i = j
      /\ \A t \in S : \E i \in R : h[i] = t
  BY <1>1
<1>3. IsFiniteSet(R)
  <2>1. R \in SUBSET D
    OBVIOUS
  <2> HIDE DEF R
  <2> QED BY <2>1, FS_Subset, Zenon
<1> HIDE DEF R, h
<1>4. h \in Bijection(R, S)
  BY <1>2 DEF Bijection, Injection, Surjection, IsInjective
<1>5. ExistsBijection(R, S)
  BY <1>4 DEF ExistsBijection
<1>6. Cardinality(S) = Cardinality(R)
  BY <1>3, <1>5, FS_Bijection, Zenon
<1> QED BY <1>6 DEF R

\* Moving the records of a pass among its positions leaves its used map.
LEMMA CountMoved ==
    ASSUME NEW D, IsFiniteSet(D), NEW f \in Bijection(D, D),
           NEW t, DOMAIN t = D
    PROVE  Count([i \in D |-> t[f[i]]]) = Count(t)
<1> DEFINE s == [i \in D |-> t[f[i]]]
           with(g, v) == {i \in DOMAIN g : g[i] = v}
<1>1. /\ \A i \in D : f[i] \in D
      /\ \A u \in D : \E i \in D : f[i] = u
  BY DEF Bijection, Injection, Surjection
<1>2. {s[i] : i \in DOMAIN s} = {t[i] : i \in DOMAIN t}
  BY <1>1
<1>3. \A v : Cardinality(with(s, v)) = Cardinality(with(t, v))
  <2> TAKE v
  <2> DEFINE A == with(t, v)
             B == with(s, v)
  <2>1. A \in SUBSET D
    OBVIOUS
  <2>2. B = {i \in D : f[i] \in A}
    BY <1>1
  <2> HIDE DEF A, B
  <2>3. Cardinality({i \in D : f[i] \in A}) = Cardinality(A)
    BY <2>1, MovedCount
  <2>4. Cardinality(B) = Cardinality(A)
    BY <2>2, <2>3, Zenon
  <2> QED BY <2>4 DEF A, B
<1>4. /\ Count(s) = {[key |-> v, count |-> Cardinality(with(s, v))] :
                       v \in {s[i] : i \in DOMAIN s}}
      /\ Count(t) = {[key |-> v, count |-> Cardinality(with(t, v))] :
                       v \in {t[i] : i \in DOMAIN t}}
  BY DEF Count
<1> HIDE DEF s, with
<1>5. Count(s) = Count(t)
  BY <1>2, <1>3, <1>4
<1> QED BY <1>5 DEF s

\* Without an entry, a used map counts the positions of the other keys.
LEMMA CountWithout ==
    ASSUME NEW g, NEW e \in Count(g)
    PROVE  /\ e = [key |-> e.key,
                   count |-> Cardinality({i \in DOMAIN g : g[i] = e.key})]
           /\ \E i \in DOMAIN g : g[i] = e.key
           /\ Count(g) \ {e} =
                Count([i \in {j \in DOMAIN g : g[j] # e.key} |-> g[i]])
<1> DEFINE entry(v) == [key |-> v,
                        count |-> Cardinality({i \in DOMAIN g : g[i] = v})]
<1>1. PICK k \in DOMAIN g : e = entry(g[k])
  BY Zenon DEF Count
<1>2. e.key = g[k]
  BY <1>1
<1> DEFINE rest == {i \in DOMAIN g : g[i] # g[k]}
           h == [i \in rest |-> g[i]]
<1>3. \A v : v # g[k] => {i \in DOMAIN h : h[i] = v} = {i \in DOMAIN g : g[i] = v}
  OBVIOUS
<1>4. {h[i] : i \in DOMAIN h} = {g[i] : i \in DOMAIN g} \ {g[k]}
  OBVIOUS
<1>5. Count(g) = {entry(v) : v \in {g[i] : i \in DOMAIN g}}
  BY DEF Count
<1>6. Count(h) = {entry(v) : v \in {g[i] : i \in DOMAIN g} \ {g[k]}}
  <2>1. \A v \in {h[i] : i \in DOMAIN h} :
           [key |-> v,
            count |-> Cardinality({i \in DOMAIN h : h[i] = v})] = entry(v)
    BY <1>3, <1>4
  <2> HIDE DEF h, entry
  <2>2. Count(h) = {[key |-> v,
                     count |-> Cardinality({i \in DOMAIN h : h[i] = v})] :
                    v \in {h[i] : i \in DOMAIN h}}
    BY DEF Count
  <2>3. Count(h) = {entry(v) : v \in {h[i] : i \in DOMAIN h}}
    BY <2>1, <2>2
  <2> QED BY <1>4, <2>3
<1>7. \A v : entry(v) = e <=> v = g[k]
  BY <1>1
<1>8. Count(g) \ {e} = Count(h)
  <2> HIDE DEF entry, h
  <2> QED BY <1>5, <1>6, <1>7
<1>9. rest = {j \in DOMAIN g : g[j] # e.key}
  BY <1>2
<1>10. e = [key |-> e.key,
            count |-> Cardinality({i \in DOMAIN g : g[i] = e.key})]
  BY <1>1, <1>2
<1>11. \E i \in DOMAIN g : g[i] = e.key
  BY <1>2
<1> HIDE DEF rest
<1> QED BY <1>8, <1>9, <1>10, <1>11

\* The tiles of neighbouring positions ascend.
Ascends(t) == \A i, j \in DOMAIN t : i < j => TileBefore(t[i], t[j])

\* Of the run t from a to b, the entry e has the first positions to itself,
\* and the map without it counts the others.
TakesFirst(e, t, a, b) ==
    LET m == a + e.count
    IN  /\ m \in Int /\ a < m /\ m <= b
        /\ \A i \in a .. m - 1 : t[i] = e.key
        /\ \A i \in m .. b - 1 : t[i] # e.key
        /\ Count(t) \ {e} = Count([i \in m .. b - 1 |-> t[i]])

\* In an ascending run it is the least tile that does.
LEMMA FirstTileRun ==
    ASSUME NEW a \in Int, NEW b \in Int, a <= b,
           NEW t \in [a .. b - 1 -> [x : Nat, y : Nat]], Ascends(t),
           NEW e \in Count(t), \A f \in Count(t) : TileBefore(e.key, f.key)
    PROVE  TakesFirst(e, t, a, b)
<1> DEFINE S == {i \in DOMAIN t : t[i] = e.key}
<1>1. /\ e.count = Cardinality(S) /\ S # {}
      /\ Count(t) \ {e} = Count([i \in {j \in DOMAIN t : t[j] # e.key} |-> t[i]])
  <2>1. /\ e = [key |-> e.key,
                count |-> Cardinality({i \in DOMAIN t : t[i] = e.key})]
        /\ \E i \in DOMAIN t : t[i] = e.key
        /\ Count(t) \ {e} =
             Count([i \in {j \in DOMAIN t : t[j] # e.key} |-> t[i]])
    BY CountWithout, Zenon
  <2> QED BY <2>1
<1>2. \A i \in DOMAIN t : TileBefore(e.key, t[i])
  <2> SUFFICES ASSUME NEW i \in DOMAIN t PROVE TileBefore(e.key, t[i])
    OBVIOUS
  <2>1. [key |-> t[i], count |-> Cardinality({j \in DOMAIN t : t[j] = t[i]})]
          \in Count(t)
    BY Zenon DEF Count
  <2> QED BY <2>1
<1>3. \A u, v \in [x : Nat, y : Nat] :
         TileBefore(u, v) /\ TileBefore(v, u) => u = v
  BY DEF TileBefore
<1>4. S \in SUBSET (a .. b - 1) /\ \A i \in S : \A j \in a .. i : j \in S
  <2>1. S \in SUBSET (a .. b - 1)
    OBVIOUS
  <2>2. ASSUME NEW i \in S, NEW j \in a .. i PROVE j \in S
    <3>1. i \in DOMAIN t /\ j \in DOMAIN t /\ t[i] = e.key
      OBVIOUS
    <3>2. t[i] \in [x : Nat, y : Nat] /\ t[j] \in [x : Nat, y : Nat]
      BY <3>1
    <3>3. CASE j = i
      BY <3>3
    <3>4. CASE j # i
      <4>1. j < i
        BY <3>1, <3>4
      <4>2. TileBefore(t[j], t[i])
        BY <3>1, <4>1 DEF Ascends
      <4>3. TileBefore(t[i], t[j])
        BY <1>2, <3>1
      <4>4. t[j] = t[i]
        BY <1>3, <3>2, <4>2, <4>3
      <4> QED BY <3>1, <4>4
    <3> QED BY <3>3, <3>4
  <2> QED BY <2>1, <2>2
<1> DEFINE c == Cardinality(S)
           m == a + c
<1>5. c \in Nat /\ a + c <= b /\ S = a .. a + c - 1
  BY <1>4, FirstPositions, Zenon
<1> HIDE DEF c
<1>6. c # 0
  BY <1>1, <1>5
<1>7. /\ m \in Int /\ a < m /\ m <= b
  BY <1>5, <1>6
<1>8. \A i \in a .. m - 1 : t[i] = e.key
  <2>1. \A i \in S : t[i] = e.key
    OBVIOUS
  <2>2. S = a .. m - 1
    BY <1>5
  <2> HIDE DEF S, m
  <2> QED BY <2>1, <2>2
<1>9. \A i \in m .. b - 1 : t[i] # e.key
  BY <1>5
<1>10. {j \in DOMAIN t : t[j] # e.key} = m .. b - 1
  <2>1. \A j \in DOMAIN t : t[j] # e.key <=> j \in m .. b - 1
    <3> SUFFICES ASSUME NEW j \in DOMAIN t
                 PROVE  t[j] # e.key <=> j \in m .. b - 1
      OBVIOUS
    <3>1. t[j] = e.key <=> j \in S
      OBVIOUS
    <3>2. S = a .. m - 1 /\ DOMAIN t = a .. b - 1
      BY <1>5
    <3> HIDE DEF S
    <3>3. m \in Int
      BY <1>7
    <3> HIDE DEF m
    <3> QED BY <3>1, <3>2, <3>3
  <2>2. \A j \in m .. b - 1 : j \in DOMAIN t
    BY <1>5
  <2> QED BY <2>1, <2>2
<1>11. Count(t) \ {e} = Count([i \in m .. b - 1 |-> t[i]])
  BY <1>1, <1>10
<1> HIDE DEF S
<1>12. m = a + e.count
  BY <1>1 DEF c
<1> QED BY <1>7, <1>8, <1>9, <1>11, <1>12 DEF TakesFirst

\* Among siblings, the order of the quadrants is the order of the tiles.
LEMMA SiblingOrder ==
    ASSUME NEW t \in [x : Nat, y : Nat], NEW u \in [x : Nat, y : Nat],
           t.x \div 2 = u.x \div 2, t.y \div 2 = u.y \div 2,
           GetIndex(t) <= GetIndex(u)
    PROVE  TileBefore(t, u)
<1>1. t.x \in Nat /\ t.y \in Nat /\ u.x \in Nat /\ u.y \in Nat
  OBVIOUS
<1>2. \A n \in Nat : n = 2 * (n \div 2) + (n % 2) /\ n % 2 \in {0, 1} /\ n \div 2 \in Nat
  BY SMT
<1>3. 2 * (t.x % 2) + (t.y % 2) <= 2 * (u.x % 2) + (u.y % 2)
  BY DEF GetIndex
<1>4. t.x % 2 <= u.x % 2 /\ (t.x % 2 = u.x % 2 => t.y % 2 <= u.y % 2)
  BY <1>1, <1>2, <1>3
<1>5. t.x <= u.x /\ (t.x = u.x => t.y <= u.y)
  <2>1. /\ t.x = 2 * (t.x \div 2) + (t.x % 2)
        /\ u.x = 2 * (t.x \div 2) + (u.x % 2)
        /\ t.y = 2 * (t.y \div 2) + (t.y % 2)
        /\ u.y = 2 * (t.y \div 2) + (u.y % 2)
    BY <1>1, <1>2, Zenon
  <2> QED BY <1>1, <1>2, <1>4, <2>1
<1> QED BY <1>1, <1>5, SMT DEF TileBefore

-----------------------------------------------------------------------------
(* Values below a threshold.                                               *)

\* How many positions hold a value below w.
CountBelow(f, w) == Cardinality({i \in DOMAIN f : f[i] < w})

\* An interval is finite, and so is what a loop over it selects.
LEMMA SpanFinite ==
    ASSUME NEW a \in Int, NEW b \in Int, NEW S \in SUBSET (a .. b - 1)
    PROVE  IsFiniteSet(S) /\ Cardinality(S) \in Nat
<1>1. b - 1 \in Int
  OBVIOUS
<1>2. IsFiniteSet(a .. b - 1)
  BY <1>1, FS_Interval, Zenon
<1> QED BY <1>2, FS_Subset, FS_CardinalityType, Zenon

\* A turn of the loop over the values: the least value left takes as many
\* positions as hold it, after those of the values before.
LEMMA NextValue ==
    ASSUME NEW a \in Int, NEW b \in Int, NEW f \in [a .. b - 1 -> Nat],
           NEW w \in Nat, NEW used, used = {e \in Count(f) : e.key >= w},
           NEW e \in used, \A g \in used : e.key <= g.key
    PROVE  /\ e.key \in Nat /\ w <= e.key
           /\ CountBelow(f, e.key) = CountBelow(f, w)
           /\ CountBelow(f, e.key + 1) = CountBelow(f, w) + e.count
           /\ used \ {e} = {g \in Count(f) : g.key >= e.key + 1}
<1> DEFINE entry(v) == [key |-> v,
                        count |-> Cardinality({i \in DOMAIN f : f[i] = v})]
<1>1. Count(f) = {entry(v) : v \in {f[i] : i \in DOMAIN f}}
  BY DEF Count
<1>2. \A g \in Count(f) : g.key \in Nat /\ g = entry(g.key)
  <2> SUFFICES ASSUME NEW g \in Count(f) PROVE g.key \in Nat /\ g = entry(g.key)
    OBVIOUS
  <2>1. PICK i \in DOMAIN f : g = entry(f[i])
    <3> HIDE DEF entry
    <3>1. PICK v \in {f[i] : i \in DOMAIN f} : g = entry(v)
      BY <1>1
    <3> QED BY <3>1
  <2>2. g.key = f[i]
    BY <2>1
  <2> QED BY <2>1, <2>2
<1>3. e.key \in Nat /\ w <= e.key /\ e \in Count(f)
  BY <1>2
<1> DEFINE k == e.key
           A == {i \in DOMAIN f : f[i] < w}
           B == {i \in DOMAIN f : f[i] < k}
           C == {i \in DOMAIN f : f[i] < k + 1}
           D == {i \in DOMAIN f : f[i] = k}
<1>4. \A i \in DOMAIN f : f[i] \in Nat
  OBVIOUS
<1>5. ASSUME NEW i \in DOMAIN f, f[i] >= w PROVE k <= f[i]
  <2>1. entry(f[i]) \in Count(f) /\ entry(f[i]).key = f[i]
    BY <1>1
  <2>2. entry(f[i]) \in used
    BY <1>5, <2>1
  <2> HIDE DEF entry
  <2> QED BY <2>1, <2>2
<1>6. B = A
  <2>1. \A i \in DOMAIN f : f[i] < k <=> f[i] < w
    <3> SUFFICES ASSUME NEW i \in DOMAIN f PROVE f[i] < k <=> f[i] < w
      OBVIOUS
    <3>1. f[i] >= w => k <= f[i]
      BY <1>5
    <3> QED BY <1>3, <1>4, <3>1
  <2> QED BY <2>1
<1>7. C = B \cup D /\ B \cap D = {}
  <2>1. \A i \in DOMAIN f : f[i] < k + 1 <=> f[i] < k \/ f[i] = k
    BY <1>3, <1>4
  <2>2. \A i \in DOMAIN f : ~(f[i] < k /\ f[i] = k)
    BY <1>3, <1>4
  <2> QED BY <2>1, <2>2
<1>8. A \in SUBSET (a .. b - 1) /\ B \in SUBSET (a .. b - 1) /\ D \in SUBSET (a .. b - 1)
  OBVIOUS
<1>9. e.count = Cardinality(D)
  <2>1. e = entry(e.key)
    BY <1>2, <1>3, Zenon
  <2> QED BY <2>1
<1>10. /\ CountBelow(f, k) = Cardinality(B) /\ CountBelow(f, w) = Cardinality(A)
       /\ CountBelow(f, k + 1) = Cardinality(C)
  BY Zenon DEF CountBelow
<1>11. Cardinality(C) = Cardinality(B) + Cardinality(D)
  <2> HIDE DEF B, C, D
  <2>1. /\ IsFiniteSet(B) /\ Cardinality(B) \in Nat
        /\ IsFiniteSet(D) /\ Cardinality(D) \in Nat
    BY <1>8, SpanFinite, Zenon
  <2>2. Cardinality(B \cup D) = Cardinality(B) + Cardinality(D) - Cardinality(B \cap D)
    BY <2>1, FS_Union, Zenon
  <2>3. Cardinality(B \cap D) = 0
    BY <1>7, FS_EmptySet, Zenon
  <2> QED BY <1>7, <2>1, <2>2, <2>3
<1>12. used \ {e} = {g \in Count(f) : g.key >= k + 1}
  <2>1. ASSUME NEW g \in used \ {e} PROVE g \in Count(f) /\ g.key >= k + 1
    <3>1. g \in Count(f) /\ k <= g.key /\ g.key \in Nat
      BY <1>2
    <3>2. g.key # k
      <4>1. g = entry(g.key) /\ e = entry(e.key)
        BY <1>2, <1>3, <3>1, Zenon
      <4> QED BY <4>1, Zenon
    <3> QED BY <1>3, <3>1, <3>2
  <2>2. ASSUME NEW g \in Count(f), g.key >= k + 1 PROVE g \in used \ {e}
    <3>1. g.key \in Nat
      BY <1>2
    <3>2. g.key >= w /\ g.key # k
      BY <1>3, <2>2, <3>1
    <3> QED BY <3>2
  <2> QED BY <2>1, <2>2
<1> HIDE DEF A, B, C, D
<1> QED BY <1>3, <1>6, <1>9, <1>10, <1>11, <1>12, Zenon

\* In an ascending run the values below w come first.
LEMMA SortedBelow ==
    ASSUME NEW a \in Int, NEW b \in Int, a <= b, NEW f \in [a .. b - 1 -> Nat],
           \A i, j \in DOMAIN f : i < j => f[i] <= f[j], NEW w \in Nat
    PROVE  /\ CountBelow(f, w) \in Nat /\ a + CountBelow(f, w) <= b
           /\ \A i \in DOMAIN f : f[i] < w <=> i < a + CountBelow(f, w)
<1> DEFINE S == {i \in DOMAIN f : f[i] < w}
<1>1. S \in SUBSET (a .. b - 1) /\ \A i \in S : \A j \in a .. i : j \in S
  <2>1. S \in SUBSET (a .. b - 1)
    OBVIOUS
  <2>2. ASSUME NEW i \in S, NEW j \in a .. i PROVE j \in S
    <3>1. i \in DOMAIN f /\ j \in DOMAIN f /\ f[i] < w /\ f[i] \in Nat /\ f[j] \in Nat
      OBVIOUS
    <3>2. f[j] <= f[i]
      <4>1. j = i \/ j < i
        OBVIOUS
      <4> QED BY <3>1, <4>1
    <3> QED BY <3>1, <3>2
  <2> QED BY <2>1, <2>2
<1>2. /\ Cardinality(S) \in Nat /\ a + Cardinality(S) <= b
      /\ S = a .. a + Cardinality(S) - 1
  BY <1>1, FirstPositions, Zenon
<1>3. CountBelow(f, w) = Cardinality(S)
  BY Zenon DEF CountBelow
<1>4. \A i \in DOMAIN f : f[i] < w <=> i \in S
  OBVIOUS
<1> DEFINE c == Cardinality(S)
<1>5. \A i \in DOMAIN f : i \in Int /\ a <= i
  OBVIOUS
<1>6. S = a .. a + c - 1 /\ c \in Nat
  BY <1>2
<1> HIDE DEF S, c
<1>7. \A i \in DOMAIN f : i \in S <=> i < a + c
  BY <1>5, <1>6
<1> QED BY <1>2, <1>3, <1>4, <1>7 DEF c

\* Moving the records of a run changes no such count.
LEMMA BelowMoved ==
    ASSUME NEW D, IsFiniteSet(D), NEW g \in Bijection(D, D),
           NEW f, DOMAIN f = D, NEW w
    PROVE  CountBelow([i \in D |-> f[g[i]]], w) = CountBelow(f, w)
<1> DEFINE S == {i \in D : f[i] < w}
           h == [i \in D |-> f[g[i]]]
           T == {i \in DOMAIN h : h[i] < w}
<1>1. \A i \in D : g[i] \in D
  BY DEF Bijection, Injection
<1>2. S \in SUBSET D
  OBVIOUS
<1>3. T = {i \in D : g[i] \in S}
  BY <1>1
<1>4. CountBelow(f, w) = Cardinality(S) /\ CountBelow(h, w) = Cardinality(T)
  BY DEF CountBelow
<1> HIDE DEF S, T
<1>5. Cardinality({i \in D : g[i] \in S}) = Cardinality(S)
  BY <1>2, MovedCount
<1>6. Cardinality(T) = Cardinality(S)
  BY <1>3, <1>5, Zenon
<1> HIDE DEF h
<1>7. CountBelow(h, w) = CountBelow(f, w)
  BY <1>4, <1>6, Zenon
<1> QED BY <1>7 DEF h

\* After the sort the positions between the counts of v and v + 1 hold v.
LEMMA SortedValues ==
    ASSUME NEW a \in Int, NEW b \in Int, a <= b, NEW f \in [a .. b - 1 -> Nat],
           \A i, j \in DOMAIN f : i < j => f[i] <= f[j], NEW v \in Nat
    PROVE  \A i \in DOMAIN f :
             i \in a + CountBelow(f, v) .. a + CountBelow(f, v + 1) - 1 <=> f[i] = v
<1>1. /\ CountBelow(f, v) \in Nat
      /\ \A i \in DOMAIN f : f[i] < v <=> i < a + CountBelow(f, v)
  BY SortedBelow, Zenon
<1>2. v + 1 \in Nat
  OBVIOUS
<1>3. /\ CountBelow(f, v + 1) \in Nat
      /\ \A i \in DOMAIN f : f[i] < v + 1 <=> i < a + CountBelow(f, v + 1)
  BY <1>2, SortedBelow, Zenon
<1>4. ASSUME NEW i \in DOMAIN f
      PROVE  i \in a + CountBelow(f, v) .. a + CountBelow(f, v + 1) - 1 <=> f[i] = v
  <2>1. i \in Int /\ f[i] \in Nat
    OBVIOUS
  <2>2. f[i] < v <=> i < a + CountBelow(f, v)
    BY <1>1
  <2>3. f[i] < v + 1 <=> i < a + CountBelow(f, v + 1)
    BY <1>3
  <2> QED BY <1>1, <1>3, <2>1, <2>2, <2>3
<1> QED BY <1>4
-----------------------------------------------------------------------------
(* What a dimension partitions by is a number or a pair of numbers.        *)

\* a * k < b * k only if a < b.
LEMMA MulLess ==
    ASSUME NEW a \in Int, NEW b \in Int, NEW k \in Nat, a * k < b * k
    PROVE  a < b
<1>1. SUFFICES ASSUME a >= b PROVE FALSE
  BY SMT
<1>2. (a - b) * k >= 0
  BY <1>1, SMT
<1> QED BY <1>2, SMT

\* The zooms a call may have come to: key k is split once every Keys levels.
ZoomsFit(level, zoom) ==
    \A k \in 0 .. Keys - 1 : zoom[k].z * Keys <= level + Keys - k

\* Above the last level no key is beyond the finest zoom, and splitting by
\* the next key keeps the zooms in step with the level.
LEMMA ZoomStep ==
    ASSUME NEW level \in Nat, level < MaxZoom * Keys,
           NEW z \in Nat, z * Keys <= level + Keys - NextKey(level)
    PROVE  /\ z <= MaxZoom
           /\ (z + 1) * Keys <= (level + 1) + Keys - NextKey(level)
<1> DEFINE d == (level + 1) % Keys
           q == (level + 1) \div Keys
<1>1. Keys \in Nat \ {0} /\ MaxZoom \in Nat
  BY CubeAssumption
<1>2. d \in 0 .. Keys - 1 /\ q \in Nat /\ level + 1 = (Keys * q) + d
  BY <1>1, SMT
<1>3. NextKey(level) = d
  BY DEF NextKey
<1> HIDE DEF d, q
<1>4. z <= q
  <2>1. (q + 1) * Keys = Keys * q + Keys
    BY <1>1, <1>2, SMT
  <2>2. z * Keys < (q + 1) * Keys
    BY <1>1, <1>2, <1>3, <2>1, SMT
  <2>3. z < q + 1
    BY <1>1, <1>2, <2>2, MulLess, SMT
  <2> QED BY <1>2, <2>3, SMT
<1>5. z <= MaxZoom
  <2>1. (MaxZoom + 1) * Keys = MaxZoom * Keys + Keys
    BY <1>1, SMT
  <2>2. z * Keys < (MaxZoom + 1) * Keys
    BY <1>1, <1>2, <1>3, <2>1, SMT
  <2>3. z < MaxZoom + 1
    BY <1>1, <2>2, MulLess, SMT
  <2> QED BY <1>1, <2>3, SMT
<1>6. (z + 1) * Keys <= (level + 1) + Keys - d
  <2>1. (q - z) * Keys >= 0
    BY <1>1, <1>2, <1>4, SMT
  <2>2. (z + 1) * Keys <= Keys * q + Keys
    BY <1>1, <1>2, <2>1, SMT
  <2> QED BY <1>1, <1>2, <2>2, SMT
<1> QED BY <1>3, <1>5, <1>6

\* A record of the dataset.
LEMMA RecordOf ==
    ASSUME NEW dataset \in Datasets, NEW r \in Records
    PROVE  dataset[r] \in Record
BY CubeAssumption

\* The tile of a record at a zoom of the cube.
LEMMA TileType ==
    ASSUME NEW record \in Record, NEW k \in 0 .. Keys - 1, NEW z \in Nat,
           z <= MaxZoom
    PROVE  TileOf(record, k, z) \in Tile
<1>1. record.at[k].x \in Nat /\ record.at[k].y \in Nat
  <2>1. record.at[k] \in Point
    BY DEF Record
  <2>2. 2^MaxZoom \in Nat \ {0}
    BY CubeAssumption, PowerOfTwo
  <2> QED BY <2>1, <2>2, SMT DEF Point
<1>2. 2^(MaxZoom - z) \in Nat \ {0}
  <2>1. MaxZoom - z \in Nat
    BY CubeAssumption, SMT
  <2> QED BY <2>1, PowerOfTwo
<1> DEFINE w == 2^(MaxZoom - z)
<1> HIDE DEF w
<1>3. record.at[k].x \div w \in Nat /\ record.at[k].y \div w \in Nat
  BY <1>1, <1>2, SMT DEF w
<1> QED BY <1>3 DEF TileOf, Tile, w

\* The value of a record for a further dimension, and its label.
LEMMA ValueType ==
    ASSUME NEW record \in Record, NEW d \in 1 .. Dims
    PROVE  /\ ValueOf(record, d) \in Nat
           /\ LabelOf(ValueOf(record, d), d) \in Nat
<1>1. record.val[d] \in Nat
  BY DEF Record
<1>2. ASSUME IsTemporal(d)
      PROVE  Buckets[d - Len(Categories)] \in Nat \ {0}
  BY <1>2, CubeAssumption DEF IsTemporal, Dims
<1>3. ValueOf(record, d) \in Nat
  <2>1. CASE IsTemporal(d)
    <3> DEFINE size == Buckets[d - Len(Categories)]
    <3>1. size \in Nat \ {0}
      BY <1>2, <2>1
    <3>2. ValueOf(record, d) = (record.val[d] \div size) * size
      BY <2>1 DEF ValueOf
    <3> HIDE DEF size
    <3>3. record.val[d] \div size \in Nat
      BY <1>1, <3>1, SMT
    <3> QED BY <3>1, <3>2, <3>3, SMT
  <2>2. CASE ~IsTemporal(d)
    BY <1>1, <2>2 DEF ValueOf
  <2> QED BY <2>1, <2>2
<1>4. \A v \in Nat : v % LabelMod \in Nat
  BY CubeAssumption, SMT
<1> QED BY <1>3, <1>4 DEF LabelOf

\* The interval of a temporal dimension after it grew to cover some values.
LEMMA CoverType ==
    ASSUME NEW bounds \in [lower : Nat \cup {None}, upper : Nat],
           NEW S \in SUBSET Nat, IsFiniteSet(S), S # {}
    PROVE  Cover(bounds, S) \in [lower : Nat \cup {None}, upper : Nat]
<1> DEFINE L == S \cup ({bounds.lower} \ {None})
           U == S \cup {bounds.upper}
<1>1. Min(L) \in Nat
  <2>1. L \in SUBSET Nat /\ L # {}
    OBVIOUS
  <2>2. \E m \in L : \A n \in L : m <= n
    BY <2>1, NatMin, Zenon
  <2> HIDE DEF L
  <2>3. (CHOOSE m \in L : \A n \in L : m <= n) \in L
    BY <2>2
  <2> QED BY <2>1, <2>3 DEF Min
<1>2. Max(U) \in Nat
  <2>1. U \in SUBSET Nat /\ U # {}
    OBVIOUS
  <2>2. IsFiniteSet(U)
    BY FS_AddElement, Zenon
  <2> HIDE DEF U
  <2>3. \E m \in U : \A n \in U : n <= m
    BY <2>1, <2>2, NatMax, Zenon
  <2>4. PICK m \in U : \A n \in U : n <= m
    BY <2>3
  <2>5. \A n \in U : m >= n
    BY <2>1, <2>4, SMT
  <2>6. (CHOOSE x \in U : \A n \in U : x >= n) \in U
    BY <2>5
  <2> QED BY <2>1, <2>6 DEF Max
<1> QED BY <1>1, <1>2 DEF Cover

-----------------------------------------------------------------------------
(* The inductive invariant. What a pass has answered covers the dataset up *)
(* to Cursor only because of what the loops still hold: the map of a loop  *)
(* counts exactly the positions between its accum and the back of its      *)
(* pivot, and the back of a call is where its caller goes on.              *)

FrameFits(f) ==
    /\ f.accum <= f.back
    /\ Counts(f.used, f.back - f.accum)
    /\ f.level < MaxZoom * Keys
    /\ ZoomsFit(f.level, f.zoom)

StackNests ==
    \A i \in DOMAIN stack :
        /\ FrameFits(stack[i])
        /\ stack[i].back = IF i = 1 THEN N ELSE stack[i - 1].accum

CallFits ==
    call # None =>
        /\ call.front < call.back
        /\ call.back = IF stack = << >> THEN N ELSE Top.accum
        /\ ZoomsFit(call.level, call.zoom)

NodeFits ==
    node # None =>
        /\ stage \in 1 .. Dims
        /\ pos \in DOMAIN current
        /\ node.front = current[pos].front
        /\ node.back = current[pos].back
        /\ node.accum <= node.back
        /\ Counts(node.used, node.back - node.accum)
        /\ Chain(node.parts, node.front, node.accum)

\* The recursion runs in pass 0, the loops over nodes in the later ones.
Phases == stage > 0 => call = None /\ stack = << >>

IInv ==
    /\ TypeOK
    /\ IsInjective(index)
    /\ Phases
    /\ CallFits
    /\ StackNests
    /\ NodeFits
    /\ ResponseCovers

\* Both states of a step use the same constants.
LEMMA Sizes ==
    /\ N \in Nat /\ Keys \in Nat \ {0} /\ MaxZoom \in Nat
    /\ Dims \in Nat
    /\ \A i \in Records : i \in 0 .. N - 1
    /\ None \notin Calls /\ None \notin Nodes /\ None \notin Nat
<1>1. Len(Categories) \in Nat /\ Len(Buckets) \in Nat
  BY CubeAssumption
<1> QED BY <1>1, CubeAssumption, NoneAssumption, SMT DEF Dims, Records

\* The invariant holds when the build starts.
LEMMA InitIInv ==
    ASSUME Init
    PROVE  IInv
<1> USE DEF Init
<1>1. TypeOK
  <2>1. index \in [Records -> Records] /\ IsInjective(index)
    BY DEF IsInjective
  <2>2. current \in Seq(Pivots)
    <3>1. Pivot(0, N) \in Pivots
      BY Sizes, SMT DEF Pivot, Pivots
    <3> QED BY <3>1
  <2>3. call = None \/ call \in Calls
    BY Sizes, SMT DEF RootCall, Calls, KeyZooms
  <2>4. response \in Seq(Pivots) /\ stack \in Seq(Frames) /\ stage \in 0 .. Dims + 1
    BY Sizes
  <2>5. interval \in [TemporalDims -> [lower : Nat \cup {None}, upper : Nat]]
    OBVIOUS
  <2>6. nodes \in [1 .. Dims -> Seq([front : 0 .. N, back : 0 .. N,
                                     parts : Seq(Parts)])]
    OBVIOUS
  <2> QED BY <2>1, <2>2, <2>3, <2>4, <2>5, <2>6 DEF TypeOK
<1>2. IsInjective(index)
  BY DEF IsInjective
<1>3. Phases /\ StackNests /\ NodeFits
  BY DEF Phases, StackNests, NodeFits
<1>4. CallFits
  <2>1. ZoomsFit(RootCall.level, RootCall.zoom)
    BY Sizes, SMT DEF ZoomsFit, RootCall
  <2>2. CASE N = 0
    BY <2>2 DEF CallFits
  <2>3. CASE N # 0
    BY <2>1, <2>3, Sizes DEF CallFits, RootCall
  <2> QED BY <2>2, <2>3
<1>5. ResponseCovers
  <2>1. Cursor = 0
    <3>1. CASE N = 0
      BY <3>1 DEF Cursor
    <3>2. CASE N # 0
      <4>1. RootCall \in Calls
        BY Sizes, SMT DEF RootCall, Calls, KeyZooms
      <4>2. call # None /\ call.front = 0
        BY <3>2, <4>1, Sizes DEF RootCall
      <4> QED BY <4>2 DEF Cursor
    <3> QED BY <3>1, <3>2
  <2>2. Chain(response, 0, 0)
    BY DEF Chain
  <2> QED BY <2>1, <2>2 DEF ResponseCovers
<1> QED BY <1>1, <1>2, <1>3, <1>4, <1>5 DEF IInv

-----------------------------------------------------------------------------
(* The stack of active calls.                                              *)

\* Replacing the innermost call leaves the others.
LEMMA ReplaceLast ==
    ASSUME NEW S, NEW s \in Seq(S), s # << >>, NEW x \in S
    PROVE  LET t == [s EXCEPT ![Len(s)] = x]
           IN  /\ t \in Seq(S) /\ Len(t) = Len(s) /\ t # << >>
               /\ DOMAIN t = DOMAIN s
               /\ t[Len(s)] = x
               /\ \A i \in 1 .. Len(s) - 1 : t[i] = s[i]
<1> DEFINE t == [s EXCEPT ![Len(s)] = x]
<1>1. Len(s) \in 1 .. Len(s)
  OBVIOUS
<1>2. /\ t \in Seq(S) /\ Len(t) = Len(s)
      /\ \A j \in 1 .. Len(s) : t[j] = IF j = Len(s) THEN x ELSE s[j]
  <2>1. /\ [s EXCEPT ![Len(s)] = x] \in Seq(S)
        /\ Len([s EXCEPT ![Len(s)] = x]) = Len(s)
        /\ \A j \in 1 .. Len(s) :
             [s EXCEPT ![Len(s)] = x][j] = IF j = Len(s) THEN x ELSE s[j]
    BY <1>1, ExceptSeq, SMT
  <2> QED BY <2>1, Zenon
<1> HIDE DEF t
<1>3. DOMAIN t = DOMAIN s /\ t # << >>
  BY <1>2
<1>4. t[Len(s)] = x
  BY <1>1, <1>2, Zenon
<1>5. ASSUME NEW i \in 1 .. Len(s) - 1 PROVE t[i] = s[i]
  <2>1. i \in 1 .. Len(s) /\ i # Len(s)
    OBVIOUS
  <2> QED BY <1>2, <2>1, Zenon
<1> QED BY <1>1, <1>2, <1>3, <1>4, <1>5, Zenon DEF t

\* Returning from the innermost call leaves the others.
LEMMA DropLast ==
    ASSUME NEW S, NEW s \in Seq(S), s # << >>
    PROVE  LET t == SubSeq(s, 1, Len(s) - 1)
           IN  /\ t \in Seq(S) /\ Len(t) = Len(s) - 1
               /\ \A i \in DOMAIN t : i \in DOMAIN s /\ t[i] = s[i]
               /\ t = << >> <=> Len(s) = 1
<1> DEFINE n == Len(s) - 1
           t == SubSeq(s, 1, n)
<1>1. n \in Nat /\ n \in Int /\ 1 \in Int /\ \A i \in 1 .. n : s[i] \in S
  OBVIOUS
<1>2. /\ t \in Seq(S)
      /\ Len(t) = IF 1 <= n THEN n - 1 + 1 ELSE 0
      /\ \A i \in 1 .. n - 1 + 1 : t[i] = s[1 + i - 1]
  <2> HIDE DEF n
  <2> QED BY <1>1, SubSeqProperties, SMT
<1> HIDE DEF t
<1>3. Len(t) = n
  <2> HIDE DEF n
  <2> QED BY <1>1, <1>2
<1>4. \A i \in DOMAIN t : i \in DOMAIN s /\ t[i] = s[i]
  BY <1>1, <1>2, <1>3
<1>5. t = << >> <=> Len(s) = 1
  BY <1>2, <1>3
<1> QED BY <1>2, <1>3, <1>4, <1>5, Zenon DEF t

-----------------------------------------------------------------------------
(* The steps of the spatial pass.                                          *)

\* While the recursion runs, the pass is the spatial one.
LEMMA InSpatialPass ==
    ASSUME IInv, call # None \/ stack # << >>
    PROVE  /\ stage = 0 /\ node = None
           /\ stage = 0 => ~(stage \in 1 .. Dims) /\ stage # Dims + 1
<1>1. stage = 0
  BY Sizes, SMT DEF IInv, Phases, TypeOK
<1> QED BY <1>1, Sizes, SMT DEF IInv, NodeFits

\* A pivot of the call splits into tiles, and the map counts its records.
LEMMA SplitCounts ==
    ASSUME IInv, call # None, call.level < MaxZoom * Keys
    PROVE  /\ Counts(Count(ChildTile(call)), call.back - call.front)
           /\ Count(ChildTile(call)) \in UsedMaps(Tile)
<1>1. call \in Calls /\ call.front < call.back /\ ZoomsFit(call.level, call.zoom)
  BY DEF IInv, TypeOK, CallFits
<1> DEFINE d == NextKey(call.level)
<1>2. d \in 0 .. Keys - 1
  BY <1>1, Sizes, SMT DEF NextKey, Calls
<1>3. call.zoom[d].z \in Nat /\ call.zoom[d].z <= MaxZoom
  <2>1. /\ call.level \in Nat /\ call.zoom[d].z \in Nat
        /\ call.zoom[d].z * Keys <= call.level + Keys - d
    BY <1>1, <1>2 DEF Calls, KeyZooms, ZoomsFit
  <2> QED BY <2>1, ZoomStep, SMT
<1>4. ASSUME NEW i \in Span(call)
      PROVE  TileOf(data[index[i]], d, call.zoom[d].z) \in Tile
  <2>1. i \in Records
    BY <1>1, Sizes, SMT DEF Span, Records, Calls
  <2>2. data[index[i]] \in Record
    BY <2>1, RecordOf, SMT DEF IInv, TypeOK
  <2> HIDE DEF d
  <2> QED BY <1>2, <1>3, <2>2, TileType, SMT
<1>5. ChildTile(call) \in [call.front .. call.back - 1 -> Tile]
  BY <1>4 DEF ChildTile, Span
<1>6. call.front \in Int /\ call.back \in Int /\ call.front <= call.back
  BY <1>1, SMT DEF Calls
<1> QED BY <1>5, <1>6, CountsInitially, Zenon DEF UsedMaps

\* A split keeps the invariant: the map it starts the loop over the children
\* with counts exactly the records of the call.
LEMMA SplitTileKeeps ==
    ASSUME IInv, SplitTile
    PROVE  IInv'
<1> USE DEF SplitTile, spatialVars, nodeVars
<1>1. /\ TypeOK /\ IsInjective(index) /\ Phases /\ CallFits /\ StackNests
      /\ NodeFits /\ ResponseCovers
  BY DEF IInv
<1>2. /\ call \in Calls /\ call.front < call.back
      /\ call.level \in Nat /\ call.level < MaxZoom * Keys
      /\ call.front \in 0 .. N /\ call.back \in 0 .. N
  BY <1>1 DEF TypeOK, CallFits, Calls
<1>3. stage = 0 /\ node = None /\ ~(stage \in 1 .. Dims) /\ stage # Dims + 1
  BY InSpatialPass
<1> DEFINE F == [level |-> call.level, back |-> call.back,
                 zoom |-> call.zoom, accum |-> call.front,
                 used |-> Count(ChildTile(call))]
<1>4. F \in Frames /\ FrameFits(F)
  BY <1>1, <1>2, SplitCounts, SMT DEF Frames, Calls, FrameFits, CallFits
<1>5. /\ stack' = Append(stack, F) /\ stack' \in Seq(Frames)
      /\ stack' # << >> /\ Len(stack') = Len(stack) + 1
      /\ \A i \in DOMAIN stack : stack'[i] = stack[i]
      /\ stack'[Len(stack) + 1] = F
  <2>1. stack \in Seq(Frames) /\ F \in Frames /\ stack' = Append(stack, F)
    BY <1>1, <1>4 DEF TypeOK
  <2> HIDE DEF F
  <2> QED BY <2>1
<1>6. index' \in [Records -> Records] /\ IsInjective(index)'
  <2>1. PICK hash : index' \in SortHash(index, call, hash)
    OBVIOUS
  <2> QED BY <1>1, <1>2, <2>1, SortKeeps, SMT DEF TypeOK
<1>7. TypeOK'
  <2>1. TileNode(call, FALSE) \in TileNodes
    BY <1>2, SMT DEF TileNode, TileNodes, Calls
  <2> QED BY <1>1, <1>5, <1>6, <2>1 DEF TypeOK
<1>8. Phases' /\ CallFits' /\ NodeFits'
  BY <1>3 DEF Phases, CallFits, NodeFits
<1>9. StackNests'
  <2>1. ASSUME NEW i \in DOMAIN stack'
        PROVE  /\ FrameFits(stack'[i])
               /\ stack'[i].back = IF i = 1 THEN N ELSE stack'[i - 1].accum
    <3>1. CASE i \in DOMAIN stack
      BY <1>1, <1>5, <3>1 DEF StackNests, TypeOK
    <3>2. CASE i = Len(stack) + 1
      <4>1. CASE stack = << >>
        BY <1>1, <1>4, <1>5, <3>2, <4>1 DEF CallFits
      <4>2. CASE stack # << >>
        BY <1>1, <1>4, <1>5, <3>2, <4>2 DEF CallFits, Top, TypeOK
      <4> QED BY <4>1, <4>2
    <3> QED BY <1>1, <1>5, <3>1, <3>2 DEF TypeOK
  <2> QED BY <2>1 DEF StackNests, FrameFits, ZoomsFit
<1>10. ResponseCovers'
  <2>1. Cursor = call.front
    BY DEF Cursor
  <2>2. Cursor' = call.front
    BY <1>1, <1>5 DEF Cursor, Top, TypeOK
  <2> QED BY <1>1, <1>3, <2>1, <2>2 DEF ResponseCovers
<1> QED BY <1>6, <1>7, <1>8, <1>9, <1>10 DEF IInv

\* A turn of the loop over the children keeps the invariant: the child takes as
\* many positions as the map entry removed counts.
LEMMA NextChildKeeps ==
    ASSUME IInv, NextChild
    PROVE  IInv'
<1> USE DEF NextChild, spatialVars, nodeVars
<1>1. /\ TypeOK /\ IsInjective(index) /\ Phases /\ CallFits /\ StackNests
      /\ NodeFits /\ ResponseCovers
  BY DEF IInv
<1>2. stage = 0 /\ node = None /\ ~(stage \in 1 .. Dims) /\ stage # Dims + 1
  BY InSpatialPass
<1> DEFINE d == NextKey(Top.level)
           entry == CHOOSE e \in Top.used :
                      \A f \in Top.used : TileBefore(e.key, f.key)
           t == entry.key
           back == Top.accum + entry.count
           z == Top.zoom[d].z
           zoom == [Top.zoom EXCEPT ![d] = [x |-> t.x, y |-> t.y, z |-> z + 1]]
           G == [Top EXCEPT !.accum = back, !.used = @ \ {entry}]
           C == [level |-> Top.level + 1, front |-> Top.accum,
                 back |-> back, x |-> t.x, y |-> t.y, z |-> z, zoom |-> zoom]
<1>3. call' = C /\ stack' = [stack EXCEPT ![Len(stack)] = G]
  BY DEF SetTop
<1>4. Top \in Frames /\ FrameFits(Top) /\ Len(stack) \in DOMAIN stack
  BY <1>1 DEF TypeOK, StackNests, Top
<1>5. entry \in Top.used
  <2>1. \E e \in Top.used : \A f \in Top.used : TileBefore(e.key, f.key)
    BY <1>4, FirstTile, Zenon DEF Frames, UsedMaps, Tile
  <2> QED BY <2>1, Zenon
<1>6. t \in Tile /\ entry.count \in Nat
  BY <1>4, <1>5 DEF Frames, UsedMaps
<1>7. d \in 0 .. Keys - 1
  BY <1>4, Sizes, SMT DEF NextKey, Frames
<1>8. /\ entry.count \in Nat \ {0} /\ entry.count <= Top.back - Top.accum
      /\ Counts(Top.used \ {entry}, (Top.back - Top.accum) - entry.count)
  BY <1>4, <1>5, CountsSplit, Zenon DEF FrameFits
<1>9. /\ back \in 0 .. N /\ Top.accum < back /\ back <= Top.back
      /\ Top.back - back = (Top.back - Top.accum) - entry.count
  BY <1>4, <1>8, Sizes, SMT DEF Frames
<1>10. zoom \in KeyZooms /\ z \in Nat
  <2>1. Top.zoom \in KeyZooms
    BY <1>4 DEF Frames
  <2>2. z \in Nat
    BY <1>7, <2>1 DEF KeyZooms
  <2>3. [x |-> t.x, y |-> t.y, z |-> z + 1] \in [x : Nat, y : Nat, z : Nat]
    BY <1>6, <2>2 DEF Tile
  <2> HIDE DEF z, t, d
  <2> QED BY <1>7, <2>1, <2>2, <2>3 DEF KeyZooms
<1>11. ZoomsFit(Top.level + 1, zoom)
  <2>1. /\ Top.level \in Nat /\ Top.level < MaxZoom * Keys
        /\ z * Keys <= Top.level + Keys - d
    BY <1>4, <1>7 DEF FrameFits, ZoomsFit, Frames
  <2>2. (z + 1) * Keys <= (Top.level + 1) + Keys - d
    BY <1>10, <2>1, ZoomStep
  <2>3. ASSUME NEW k \in 0 .. Keys - 1
        PROVE  zoom[k].z * Keys <= (Top.level + 1) + Keys - k
    <3>1. CASE k = d
      <4>1. zoom[k].z = z + 1
        BY <1>4, <1>7, <3>1 DEF Frames, KeyZooms
      <4> HIDE DEF zoom, z, d
      <4> QED BY <2>2, <3>1, <4>1
    <3>2. CASE k # d
      <4>1. zoom[k] = Top.zoom[k]
        BY <1>4, <1>7, <3>2 DEF Frames, KeyZooms
      <4>2. Top.zoom[k].z * Keys <= Top.level + Keys - k
        BY <1>4 DEF FrameFits, ZoomsFit
      <4>3. Top.zoom[k].z * Keys \in Int
        BY <1>4, Sizes, SMT DEF Frames, KeyZooms
      <4> HIDE DEF zoom
      <4> QED BY <2>1, <4>1, <4>2, <4>3, Sizes, SMT
    <3> QED BY <3>1, <3>2
  <2> QED BY <2>3 DEF ZoomsFit
<1>12. C \in Calls
  BY <1>4, <1>6, <1>9, <1>10 DEF Calls, Frames, Tile
<1>13. /\ G \in Frames /\ FrameFits(G) /\ G.back = Top.back
       /\ G.accum = back
  <2>1. /\ G.level = Top.level /\ G.back = Top.back /\ G.accum = back
        /\ G.zoom = Top.zoom /\ G.used = Top.used \ {entry} /\ G \in Frames
    BY <1>4, <1>9 DEF Frames, UsedMaps
  <2> HIDE DEF G, back, entry
  <2> QED BY <1>4, <1>8, <1>9, <2>1 DEF FrameFits
<1>14. /\ stack' \in Seq(Frames) /\ Len(stack') = Len(stack)
       /\ stack' # << >> /\ DOMAIN stack' = DOMAIN stack
       /\ stack'[Len(stack)] = G
       /\ \A i \in 1 .. Len(stack) - 1 : stack'[i] = stack[i]
  <2>1. stack \in Seq(Frames) /\ G \in Frames
    BY <1>1, <1>13 DEF TypeOK
  <2> HIDE DEF G
  <2> DEFINE new == [stack EXCEPT ![Len(stack)] = G]
  <2>2. /\ new \in Seq(Frames) /\ Len(new) = Len(stack)
        /\ new # << >> /\ DOMAIN new = DOMAIN stack
        /\ new[Len(stack)] = G
        /\ \A i \in 1 .. Len(stack) - 1 : new[i] = stack[i]
    BY <2>1, ReplaceLast, SMT
  <2>3. stack' = new
    BY <1>3
  <2> HIDE DEF new
  <2> QED BY <2>2, <2>3
<1>15. TypeOK'
  <2>1. call' \in Calls
    BY <1>3, <1>12
  <2> QED BY <1>1, <1>14, <2>1 DEF TypeOK
<1>16. IsInjective(index)' /\ Phases' /\ NodeFits'
  BY <1>1, <1>2 DEF Phases, NodeFits, IsInjective
<1>17. CallFits'
  <2>1. /\ C.front = Top.accum /\ C.back = back /\ C.level = Top.level + 1
        /\ C.zoom = zoom
    OBVIOUS
  <2>2. Top' = G
    BY <1>14 DEF Top
  <2> HIDE DEF C, G, back, zoom
  <2> QED BY <1>3, <1>9, <1>11, <1>13, <1>14, <2>1, <2>2
          DEF CallFits, ZoomsFit
<1>18. StackNests'
  <2>1. ASSUME NEW i \in DOMAIN stack'
        PROVE  /\ FrameFits(stack'[i])
               /\ stack'[i].back = IF i = 1 THEN N ELSE stack'[i - 1].accum
    <3> HIDE DEF G
    <3>0. /\ i \in DOMAIN stack /\ i \in 1 .. Len(stack)
          /\ i # Len(stack) => i \in 1 .. Len(stack) - 1
          /\ i # 1 => i - 1 \in 1 .. Len(stack) - 1
      <4>1. DOMAIN stack = 1 .. Len(stack) /\ Len(stack) \in Nat
        BY <1>1, LenProperties DEF TypeOK
      <4>2. i \in 1 .. Len(stack)
        BY <1>14, <4>1
      <4> QED BY <4>1, <4>2
    <3>1. /\ stack[i].back = IF i = 1 THEN N ELSE stack[i - 1].accum
          /\ FrameFits(stack[i])
      BY <1>1, <3>0 DEF StackNests
    <3>2. stack'[i].back = stack[i].back
      BY <1>13, <1>14, <3>0 DEF Top
    <3>3. i # 1 => stack'[i - 1].accum = stack[i - 1].accum
      BY <1>14, <3>0
    <3>4. FrameFits(stack'[i])
      BY <1>13, <1>14, <3>0, <3>1
    <3> QED BY <3>1, <3>2, <3>3, <3>4
  <2> QED BY <2>1 DEF StackNests, FrameFits, ZoomsFit
<1>19. ResponseCovers'
  <2>1. Cursor = Top.accum
    BY DEF Cursor
  <2>2. Cursor' = Top.accum
    <3>1. C.front = Top.accum
      OBVIOUS
    <3> HIDE DEF C
    <3>2. call' # None /\ call'.front = Top.accum
      BY <1>3, <1>12, <3>1, Sizes
    <3> QED BY <3>2 DEF Cursor
  <2> QED BY <1>1, <1>2, <2>1, <2>2 DEF ResponseCovers
<1> QED BY <1>15, <1>16, <1>17, <1>18, <1>19 DEF IInv

\* A leaf keeps the invariant: it answers from the cursor to where its caller
\* goes on.
LEMMA LeafTileKeeps ==
    ASSUME IInv, LeafTile
    PROVE  IInv'
<1> USE DEF LeafTile, spatialVars, nodeVars
<1>1. /\ TypeOK /\ IsInjective(index) /\ Phases /\ CallFits /\ StackNests
      /\ NodeFits /\ ResponseCovers
  BY DEF IInv
<1>2. stage = 0 /\ node = None /\ ~(stage \in 1 .. Dims) /\ stage # Dims + 1
  BY InSpatialPass
<1>3. /\ call \in Calls /\ call.front < call.back
      /\ call.front \in 0 .. N /\ call.back \in 0 .. N
  BY <1>1 DEF TypeOK, CallFits, Calls
<1>4. Pivot(call.front, call.back) \in Pivots
  BY <1>3 DEF Pivot, Pivots
<1>5. TypeOK'
  <2>1. TileNode(call, TRUE) \in TileNodes
    BY <1>3, SMT DEF TileNode, TileNodes, Calls
  <2>2. ASSUME NEW j \in 1 .. Keys - 1
        PROVE  LET z == call.zoom[(call.level + j) % Keys]
               IN  TileNode([call EXCEPT !.level = @ + j, !.x = z.x, !.y = z.y,
                                         !.z = (z.z - 1) % 32], TRUE) \in TileNodes
    <3> DEFINE k == (call.level + j) % Keys
               z == call.zoom[k]
    <3>1. k \in 0 .. Keys - 1
      BY <1>3, Sizes, SMT DEF Calls
    <3>2. z \in [x : Nat, y : Nat, z : Nat]
      BY <1>3, <3>1 DEF Calls, KeyZooms
    <3> HIDE DEF z
    <3>3. (z.z - 1) % 32 \in Nat
      BY <3>2, SMT
    <3>4. call.level + j \in Nat
      BY <1>3, SMT DEF Calls
    <3>5. TileNode([call EXCEPT !.level = @ + j, !.x = z.x, !.y = z.y,
                                !.z = (z.z - 1) % 32], TRUE) \in TileNodes
      BY <1>3, <3>2, <3>3, <3>4 DEF TileNode, TileNodes, Calls
    <3> QED BY <3>5 DEF z
  <2>3. ChainTiles(call) \subseteq TileNodes
    BY <2>2 DEF ChainTiles
  <2>4. response' \in Seq(Pivots)
    BY <1>1, <1>4 DEF TypeOK
  <2> QED BY <1>1, <2>1, <2>3, <2>4 DEF TypeOK
<1>6. IsInjective(index)' /\ Phases' /\ CallFits' /\ StackNests' /\ NodeFits'
  BY <1>1, <1>2 DEF Phases, CallFits, NodeFits, IsInjective, StackNests,
                    FrameFits, ZoomsFit
<1>7. ResponseCovers'
  <2>1. Cursor = call.front
    BY DEF Cursor
  <2>2. Cursor' = call.back
    BY <1>1, <1>2 DEF Cursor, CallFits, Top
  <2>3. Chain(response', 0, call.back)
    <3> DEFINE x == Pivot(call.front, call.back)
    <3>1. x.front = call.front /\ x.back = call.back
      BY DEF Pivot
    <3>2. response \in Seq(Pivots) /\ Chain(response, 0, call.front)
      BY <1>1, <2>1 DEF TypeOK, ResponseCovers
    <3> HIDE DEF x
    <3> QED BY <1>3, <1>4, <3>1, <3>2, ChainAppend, SMT DEF x
  <2> QED BY <1>1, <1>2, <2>2, <2>3 DEF ResponseCovers
<1> QED BY <1>5, <1>6, <1>7 DEF IInv

\* A return keeps the invariant: an empty map has no position left to answer.
LEMMA ReturnTileKeeps ==
    ASSUME IInv, ReturnTile
    PROVE  IInv'
<1> USE DEF ReturnTile, spatialVars, nodeVars
<1>1. /\ TypeOK /\ IsInjective(index) /\ Phases /\ CallFits /\ StackNests
      /\ NodeFits /\ ResponseCovers
  BY DEF IInv
<1>2. stage = 0 /\ node = None /\ ~(stage \in 1 .. Dims) /\ stage # Dims + 1
  BY InSpatialPass
<1>3. Top \in Frames /\ FrameFits(Top) /\ Len(stack) \in DOMAIN stack
  BY <1>1 DEF TypeOK, StackNests, Top
<1>4. Top.accum = Top.back
  <2>1. Counts(Top.used, Top.back - Top.accum)
    BY <1>3 DEF FrameFits
  <2>2. Counts({}, Top.back - Top.accum)
    BY <2>1, Zenon
  <2>3. Top.back - Top.accum = 0
    BY <2>2, CountsNothing, SMT
  <2> QED BY <1>3, <2>3, SMT DEF Frames
<1>5. /\ stack' \in Seq(Frames) /\ Len(stack') = Len(stack) - 1
      /\ \A i \in DOMAIN stack' : i \in DOMAIN stack /\ stack'[i] = stack[i]
      /\ stack' = << >> <=> Len(stack) = 1
  <2> DEFINE rest == SubSeq(stack, 1, Len(stack) - 1)
  <2>1. stack \in Seq(Frames) /\ stack # << >> /\ stack' = rest
    BY <1>1 DEF TypeOK
  <2>2. /\ rest \in Seq(Frames) /\ Len(rest) = Len(stack) - 1
        /\ \A i \in DOMAIN rest : i \in DOMAIN stack /\ rest[i] = stack[i]
        /\ rest = << >> <=> Len(stack) = 1
    BY <2>1, DropLast, Zenon
  <2> HIDE DEF rest
  <2> QED BY <2>1, <2>2
<1>6. TypeOK'
  BY <1>1, <1>5 DEF TypeOK
<1>7. IsInjective(index)' /\ Phases' /\ CallFits' /\ NodeFits'
  BY <1>1, <1>2 DEF Phases, CallFits, NodeFits, IsInjective
<1>8. StackNests'
  <2>1. ASSUME NEW i \in DOMAIN stack'
        PROVE  /\ FrameFits(stack'[i])
               /\ stack'[i].back = IF i = 1 THEN N ELSE stack'[i - 1].accum
    BY <1>1, <1>5 DEF StackNests, TypeOK
  <2> QED BY <2>1 DEF StackNests, FrameFits, ZoomsFit
<1>9. ResponseCovers'
  <2>1. Cursor = Top.back
    BY <1>4 DEF Cursor
  <2>2. Cursor' = Top.back
    <3>1. Top.back = IF Len(stack) = 1 THEN N ELSE stack[Len(stack) - 1].accum
      BY <1>1, <1>3 DEF StackNests, Top
    <3>2. CASE Len(stack) = 1
      BY <1>2, <1>5, <3>1, <3>2 DEF Cursor
    <3>3. CASE Len(stack) # 1
      <4>1. stack' # << >> /\ Top' = stack[Len(stack) - 1]
        BY <1>1, <1>3, <1>5, <3>3 DEF Top, TypeOK
      <4> QED BY <3>1, <3>3, <4>1 DEF Cursor
    <3> QED BY <3>2, <3>3
  <2> QED BY <1>1, <1>2, <2>1, <2>2 DEF ResponseCovers
<1> QED BY <1>6, <1>7, <1>8, <1>9 DEF IInv

-----------------------------------------------------------------------------
(* The steps of the later passes.                                          *)

\* While a node is open, the pass is a later one and has come to its pivot.
LEMMA InLaterPass ==
    ASSUME IInv, stage \in 1 .. Dims, pos <= Len(current)
    PROVE  /\ call = None /\ stack = << >>
           /\ pos \in DOMAIN current
           /\ current[pos] \in Pivots
           /\ current[pos].front < current[pos].back
           /\ Cursor = current[pos].front
<1>1. TypeOK /\ Phases /\ ResponseCovers
  BY DEF IInv
<1>2. stage > 0 /\ call = None /\ stack = << >>
  BY <1>1, Sizes DEF Phases
<1>3. pos \in DOMAIN current /\ current[pos] \in Pivots
  BY <1>1 DEF TypeOK
<1>4. Cursor = current[pos].front
  BY <1>2 DEF Cursor
<1> QED BY <1>1, <1>2, <1>3, <1>4 DEF ResponseCovers, Chain

\* A node that starts its loop keeps the invariant, and finds values to cover
\* in its pivot.
LEMMA OpenNodeKeeps ==
    ASSUME IInv, OpenNode
    PROVE  IInv'
<1> USE DEF OpenNode, spatialVars
<1>1. /\ TypeOK /\ IsInjective(index) /\ Phases /\ CallFits /\ StackNests
      /\ NodeFits /\ ResponseCovers
  BY DEF IInv
<1> DEFINE p == current[pos]
           used == Count(Values(p))
           n == [front |-> p.front, back |-> p.back, accum |-> p.front,
                 used |-> used, parts |-> << >>]
<1>2. /\ call = None /\ stack = << >> /\ pos \in DOMAIN current
      /\ p \in Pivots /\ p.front < p.back /\ Cursor = p.front
  BY InLaterPass
<1>3. /\ p.front \in 0 .. N /\ p.back \in 0 .. N
      /\ p.front \in Int /\ p.back \in Int /\ p.front <= p.back
  BY <1>2, SMT DEF Pivots
<1>4. Values(p) \in [p.front .. p.back - 1 -> Nat]
  <2>1. ASSUME NEW i \in Span(p)
        PROVE  ValueOf(data[index[i]], stage) \in Nat
    <3>1. i \in Records
      BY <1>3, Sizes, SMT DEF Span, Records
    <3>2. data[index[i]] \in Record
      BY <1>1, <3>1, RecordOf, SMT DEF TypeOK
    <3> QED BY <3>2, ValueType, SMT
  <2> HIDE DEF p
  <2> QED BY <2>1 DEF Values, Span
<1>5. /\ Counts(used, p.back - p.front)
      /\ used \in SUBSET [key : Nat, count : Nat \ {0}]
  <2> HIDE DEF p
  <2> QED BY <1>3, <1>4, CountsInitially, Zenon
<1>6. node' = n
  OBVIOUS
<1>7. n \in Nodes
  <2> HIDE DEF p, used
  <2> QED BY <1>3, <1>5 DEF Nodes, UsedMaps
<1>8. interval' \in [TemporalDims -> [lower : Nat \cup {None}, upper : Nat]]
  <2> DEFINE S == {e.key : e \in used}
  <2>1. interval \in [TemporalDims -> [lower : Nat \cup {None}, upper : Nat]]
    BY <1>1 DEF TypeOK
  <2>2. CASE IsTemporal(stage)
    <3>1. stage \in TemporalDims
      BY <2>2 DEF TemporalDims
    <3>2. S \in SUBSET Nat /\ S # {}
      <4>1. p.back - p.front # 0
        BY <1>2, <1>3, SMT
      <4>2. used # {}
        <5> HIDE DEF used, p
        <5> QED BY <1>5, <4>1, CountsNothing, SMT
      <4> HIDE DEF used
      <4> QED BY <1>5, <4>2
    <3>3. IsFiniteSet(S)
      BY <1>5, KeysFinite, Zenon
    <3>4. Cover(interval[stage], S) \in [lower : Nat \cup {None}, upper : Nat]
      <4>1. interval[stage] \in [lower : Nat \cup {None}, upper : Nat]
        BY <2>1, <3>1
      <4> HIDE DEF S
      <4> QED BY <3>2, <3>3, <4>1, CoverType, Zenon
    <3>5. interval' = [interval EXCEPT ![stage] = Cover(interval[stage], S)]
      BY <2>2
    <3> HIDE DEF S
    <3> QED BY <2>1, <3>1, <3>4, <3>5
  <2>3. CASE ~IsTemporal(stage)
    BY <2>1, <2>3
  <2> QED BY <2>2, <2>3
<1>9. TypeOK'
  <2>1. node' \in Nodes
    BY <1>6, <1>7
  <2> QED BY <1>1, <1>8, <2>1 DEF TypeOK
<1>10. /\ IsInjective(index)' /\ Phases' /\ CallFits' /\ StackNests'
  BY <1>1, <1>2 DEF IsInjective, Phases, CallFits, StackNests
<1>11. NodeFits'
  <2>1. Chain(<< >>, p.front, p.front)
    BY DEF Chain
  <2>2. /\ n.front = p.front /\ n.back = p.back /\ n.accum = p.front
        /\ n.used = used /\ n.parts = << >>
    OBVIOUS
  <2> HIDE DEF n, used
  <2> QED BY <1>2, <1>3, <1>5, <1>6, <2>1, <2>2 DEF NodeFits
<1>12. ResponseCovers'
  <2>1. Cursor' = p.front
    BY <1>2 DEF Cursor
  <2> QED BY <1>1, <1>2, <2>1 DEF ResponseCovers
<1> QED BY <1>9, <1>10, <1>11, <1>12 DEF IInv

\* A turn of the loop over the values keeps the invariant: the parts made so far
\* and the map left over cover the node.
LEMMA EmplacePartKeeps ==
    ASSUME IInv, EmplacePart
    PROVE  IInv'
<1> USE DEF EmplacePart, spatialVars
<1>1. /\ TypeOK /\ IsInjective(index) /\ Phases /\ CallFits /\ StackNests
      /\ NodeFits /\ ResponseCovers
  BY DEF IInv
<1> DEFINE entry == CHOOSE e \in node.used : \A f \in node.used : e.key <= f.key
           back == node.accum + entry.count
           part == [front |-> node.accum, back |-> back,
                    value |-> LabelOf(entry.key, stage)]
           n == [node EXCEPT !.accum = back, !.used = @ \ {entry},
                             !.parts = Append(@, part)]
<1>2. /\ node \in Nodes /\ stage \in 1 .. Dims /\ pos \in DOMAIN current
      /\ node.front = current[pos].front /\ node.back = current[pos].back
      /\ node.accum <= node.back
      /\ Counts(node.used, node.back - node.accum)
      /\ Chain(node.parts, node.front, node.accum)
  BY <1>1 DEF TypeOK, NodeFits
<1>3. /\ node.accum \in 0 .. N /\ node.back \in 0 .. N /\ node.front \in 0 .. N
      /\ node.used \in SUBSET [key : Nat, count : Nat \ {0}]
      /\ node.parts \in Seq(Parts)
  BY <1>2 DEF Nodes, UsedMaps
<1>4. entry \in node.used
  <2>1. \E e \in node.used : \A f \in node.used : e.key <= f.key
    BY <1>3, FirstValue, Zenon
  <2> QED BY <2>1, Zenon
<1>5. entry.key \in Nat
  BY <1>3, <1>4
<1>6. /\ entry.count \in Nat \ {0} /\ entry.count <= node.back - node.accum
      /\ Counts(node.used \ {entry}, (node.back - node.accum) - entry.count)
  BY <1>2, <1>4, CountsSplit, Zenon
<1> HIDE DEF entry
<1>7. /\ back \in 0 .. N /\ back \in Int /\ node.accum < back
      /\ back <= node.back
      /\ node.back - back = (node.back - node.accum) - entry.count
  <2> DEFINE k == entry.count
             a == node.accum
             b == node.back
  <2>1. /\ k \in Nat \ {0} /\ k <= b - a /\ back = a + k
        /\ a \in 0 .. N /\ b \in 0 .. N /\ N \in Nat
    BY <1>3, <1>6, Sizes, Zenon
  <2> HIDE DEF k, a, b, back
  <2>2. /\ back \in 0 .. N /\ back \in Int /\ a < back /\ back <= b
        /\ b - back = (b - a) - k
    BY <2>1, SMT
  <2> QED BY <2>2, Zenon DEF k, a, b
<1>8. part \in Parts /\ part.front = node.accum /\ part.back = back
  <2>1. LabelOf(entry.key, stage) \in Nat
    <3>1. entry.key % LabelMod \in Nat
      BY <1>5, CubeAssumption, SMT
    <3> QED BY <1>5, <3>1 DEF LabelOf
  <2> HIDE DEF back
  <2> QED BY <1>3, <1>7, <2>1 DEF Parts
<1> HIDE DEF part, back
<1>9. /\ n \in Nodes /\ n.front = node.front /\ n.back = node.back
      /\ n.accum = back /\ n.used = node.used \ {entry}
      /\ n.parts = Append(node.parts, part)
  <2>1. Append(node.parts, part) \in Seq(Parts)
    BY <1>3, <1>8
  <2>2. node.used \ {entry} \in UsedMaps(Nat)
    BY <1>3 DEF UsedMaps
  <2> QED BY <1>2, <1>7, <2>1, <2>2 DEF Nodes
<1>10. Chain(Append(node.parts, part), node.front, back)
  <2>1. node.accum \in Int
    BY <1>3
  <2> QED BY <1>2, <1>3, <1>7, <1>8, <2>1, ChainAppend, Zenon
<1>11. node' = n
  BY DEF entry, back, part
<1> HIDE DEF n
<1>12. TypeOK'
  BY <1>1, <1>9, <1>11 DEF TypeOK
<1>13. /\ IsInjective(index)' /\ Phases' /\ CallFits' /\ StackNests'
  BY <1>1 DEF IsInjective, Phases, CallFits, StackNests, FrameFits, ZoomsFit, Top
<1>14. NodeFits'
  BY <1>2, <1>6, <1>7, <1>9, <1>10, <1>11 DEF NodeFits
<1>15. ResponseCovers'
  <2>1. Cursor' = Cursor
    BY DEF Cursor, Top
  <2> QED BY <1>1, <2>1 DEF ResponseCovers
<1> QED BY <1>12, <1>13, <1>14, <1>15 DEF IInv

\* The pivots of the parts of a node.
LEMMA PivotsOf ==
    ASSUME NEW s \in Seq(Parts)
    PROVE  [i \in DOMAIN s |-> Pivot(s[i].front, s[i].back)] \in Seq(Pivots)
<1>1. \A i \in DOMAIN s : Pivot(s[i].front, s[i].back) \in Pivots
  <2>1. \A i \in DOMAIN s : s[i] \in Parts
    OBVIOUS
  <2> QED BY <2>1 DEF Pivot, Pivots, Parts
<1> DEFINE p == [i \in DOMAIN s |-> Pivot(s[i].front, s[i].back)]
<1>2. Len(s) \in Nat /\ DOMAIN s = 1 .. Len(s)
  BY LenProperties, Zenon
<1>3. p \in [1 .. Len(s) -> Pivots]
  BY <1>1, <1>2, Zenon
<1> HIDE DEF p
<1>4. p \in Seq(Pivots)
  BY <1>2, <1>3, SeqDef, Zenon
<1> QED BY <1>4 DEF p

\* The end of a node keeps the invariant: its parts cover its pivot, and its
\* pivot is the next to answer.
LEMMA SortNodeKeeps ==
    ASSUME IInv, SortNode
    PROVE  IInv'
<1> USE DEF SortNode, spatialVars
<1>1. /\ TypeOK /\ IsInjective(index) /\ Phases /\ CallFits /\ StackNests
      /\ NodeFits /\ ResponseCovers
  BY DEF IInv
<1>2. /\ node \in Nodes /\ stage \in 1 .. Dims /\ pos \in DOMAIN current
      /\ node.front = current[pos].front /\ node.back = current[pos].back
      /\ Counts({}, node.back - node.accum)
      /\ Chain(node.parts, node.front, node.accum)
  BY <1>1 DEF TypeOK, NodeFits
<1>3. /\ node.accum \in 0 .. N /\ node.back \in 0 .. N /\ node.front \in 0 .. N
      /\ node.parts \in Seq(Parts)
  BY <1>2 DEF Nodes
<1>4. node.accum = node.back
  <2>1. node.back - node.accum = 0
    BY <1>2, CountsNothing, SMT
  <2> QED BY <1>3, <2>1, SMT
<1>5. /\ current \in Seq(Pivots) /\ Len(current) \in Nat /\ pos \in Nat \ {0}
      /\ pos <= Len(current)
  BY <1>1, <1>2 DEF TypeOK
<1>6. /\ call = None /\ stack = << >> /\ Cursor = current[pos].front
  BY <1>2, <1>5, InLaterPass
<1>7. index' \in [Records -> Records] /\ IsInjective(index)'
  <2>1. PICK hash : index' \in SortHash(index, node, hash)
    OBVIOUS
  <2>2. index \in [Records -> Records] /\ IsInjective(index)
    BY <1>1 DEF TypeOK
  <2>3. index' \in [Records -> Records] /\ IsInjective(index')
    BY <1>3, <2>1, <2>2, SortKeeps, SMT
  <2> QED BY <2>3
<1> DEFINE pivots == [i \in DOMAIN node.parts |->
                        Pivot(node.parts[i].front, node.parts[i].back)]
           n == [front |-> node.front, back |-> node.back, parts |-> node.parts]
<1>8. /\ pivots \in Seq(Pivots)
      /\ Chain(pivots, current[pos].front, current[pos].back)
  <2>1. Chain(pivots, current[pos].front, current[pos].back)
    BY <1>2, <1>3, <1>4, ChainOfPivots, Zenon
  <2>2. pivots \in Seq(Pivots)
    BY <1>3, PivotsOf, Zenon
  <2> QED BY <2>1, <2>2
<1>9. /\ response' = response \o pivots /\ response' \in Seq(Pivots)
      /\ Chain(response', 0, current[pos].back)
  <2>1. response' = response \o pivots
    OBVIOUS
  <2>2. response \in Seq(Pivots) /\ Chain(response, 0, current[pos].front)
    BY <1>1, <1>6 DEF TypeOK, ResponseCovers
  <2> HIDE DEF pivots
  <2>3. Chain(response \o pivots, 0, current[pos].back)
    BY <1>8, <2>2, ChainConcat, Zenon
  <2>4. response \o pivots \in Seq(Pivots)
    BY <1>8, <2>2
  <2> QED BY <2>1, <2>3, <2>4, Zenon
<1>10. nodes' \in [1 .. Dims -> Seq([front : 0 .. N, back : 0 .. N,
                                     parts : Seq(Parts)])]
  <2> DEFINE T == [front : 0 .. N, back : 0 .. N, parts : Seq(Parts)]
  <2>1. n \in T
    BY <1>3
  <2>2. nodes \in [1 .. Dims -> Seq(T)]
    BY <1>1 DEF TypeOK
  <2>3. nodes' = [nodes EXCEPT ![stage] = Append(@, n)]
    OBVIOUS
  <2> HIDE DEF n, T
  <2>4. Append(nodes[stage], n) \in Seq(T)
    BY <1>2, <2>1, <2>2
  <2>5. nodes' \in [1 .. Dims -> Seq(T)]
    BY <1>2, <2>2, <2>3, <2>4
  <2> QED BY <2>5 DEF T
<1>11. TypeOK'
  <2>1. pos' \in Nat \ {0}
    BY <1>5
  <2> QED BY <1>1, <1>7, <1>9, <1>10, <2>1 DEF TypeOK
<1>12. /\ Phases' /\ CallFits' /\ StackNests' /\ NodeFits'
  BY <1>1, <1>6 DEF Phases, CallFits, StackNests, NodeFits
<1>13. ResponseCovers'
  <2>1. Chain(current, 0, N)
    BY <1>1, <1>2 DEF ResponseCovers
  <2>2. Cursor' = current[pos].back
    <3>1. CASE pos + 1 <= Len(current)
      <4>1. current[pos + 1].front = current[pos].back
        <5>1. /\ pos + 1 \in DOMAIN current /\ pos + 1 # 1
              /\ (pos + 1) - 1 = pos
          BY <1>5, <3>1
        <5> QED BY <2>1, <5>1 DEF Chain
      <4> QED BY <1>2, <1>6, <3>1, <4>1 DEF Cursor
    <3>2. CASE ~(pos + 1 <= Len(current))
      <4>1. pos = Len(current) /\ current # << >>
        BY <1>5, <3>2
      <4>2. current[pos].back = N
        BY <2>1, <4>1 DEF Chain
      <4>3. stage # Dims + 1
        BY <1>2, Sizes
      <4> QED BY <1>6, <3>2, <4>2, <4>3 DEF Cursor
    <3> QED BY <3>1, <3>2
  <2> QED BY <1>1, <1>2, <1>9, <2>1, <2>2 DEF ResponseCovers
<1> QED BY <1>7, <1>11, <1>12, <1>13 DEF IInv

\* The end of a pass keeps the invariant: its cursor has come to the end.
LEMMA EndPassKeeps ==
    ASSUME IInv, EndPass
    PROVE  IInv'
<1> USE DEF EndPass, spatialVars
<1>1. /\ TypeOK /\ IsInjective(index) /\ Phases /\ CallFits /\ StackNests
      /\ NodeFits /\ ResponseCovers
  BY DEF IInv
<1>2. Cursor = N
  <2>1. stage # Dims + 1
    BY Sizes
  <2>2. ~(stage \in 1 .. Dims /\ pos <= Len(current))
    BY <1>1, Sizes DEF TypeOK
  <2> QED BY <2>1, <2>2 DEF Cursor
<1>3. current' \in Seq(Pivots) /\ Chain(current', 0, N)
  BY <1>1, <1>2 DEF TypeOK, ResponseCovers
<1>4. TypeOK'
  <2>1. response' \in Seq(Pivots)
    OBVIOUS
  <2>2. stage' \in 0 .. Dims + 1 /\ pos' \in Nat \ {0}
    BY Sizes
  <2> QED BY <1>1, <1>3, <2>1, <2>2 DEF TypeOK
<1>5. /\ IsInjective(index)' /\ Phases' /\ CallFits' /\ StackNests' /\ NodeFits'
  BY <1>1 DEF IsInjective, Phases, CallFits, StackNests, NodeFits
<1>6. ResponseCovers'
  <2>1. Cursor' = 0
    <3>1. CASE stage' = Dims + 1
      <4>1. ~(stage' \in 1 .. Dims)
        BY <3>1, Sizes
      <4> QED BY <3>1, <4>1 DEF Cursor
    <3>2. CASE stage' # Dims + 1
      <4>1. stage' \in 1 .. Dims
        BY <3>2, Sizes
      <4>2. CASE current' = << >>
        <5>1. N = 0 /\ Len(current') = 0
          BY <1>3, <4>2 DEF Chain
        <5> QED BY <3>2, <5>1 DEF Cursor
      <4>3. CASE current' # << >>
        <5>1. /\ 1 \in DOMAIN current' /\ 1 <= Len(current')
              /\ current'[1].front = 0
          BY <1>3, <4>3 DEF Chain
        <5> QED BY <4>1, <5>1 DEF Cursor
      <4> QED BY <4>2, <4>3
    <3> QED BY <3>1, <3>2
  <2>2. Chain(<< >>, 0, 0)
    BY DEF Chain
  <2> QED BY <1>3, <2>1, <2>2 DEF ResponseCovers
<1> QED BY <1>4, <1>5, <1>6 DEF IInv

-----------------------------------------------------------------------------
(* The theorems.                                                           *)

\* Every step of the build keeps the invariant.
LEMMA NextKeeps ==
    ASSUME IInv, [Next]_vars
    PROVE  IInv'
<1>1. CASE SplitTile
  BY <1>1, SplitTileKeeps
<1>2. CASE NextChild
  BY <1>2, NextChildKeeps
<1>3. CASE LeafTile
  BY <1>3, LeafTileKeeps
<1>4. CASE ReturnTile
  BY <1>4, ReturnTileKeeps
<1>5. CASE OpenNode
  BY <1>5, OpenNodeKeeps
<1>6. CASE EmplacePart
  BY <1>6, EmplacePartKeeps
<1>7. CASE SortNode
  BY <1>7, SortNodeKeeps
<1>8. CASE EndPass
  BY <1>8, EndPassKeeps
<1>9. CASE UNCHANGED vars
  BY <1>9 DEF vars, IInv, TypeOK, IsInjective, Phases, CallFits, StackNests,
              FrameFits, ZoomsFit, NodeFits, ResponseCovers, Cursor, Top
<1> QED BY <1>1, <1>2, <1>3, <1>4, <1>5, <1>6, <1>7, <1>8, <1>9 DEF Next

\* The strengthened invariant holds throughout the build.
THEOREM Inductive == Spec => []IInv
<1>1. Init => IInv
  BY InitIInv
<1>2. IInv /\ [Next]_vars => IInv'
  BY NextKeeps
<1> QED BY <1>1, <1>2, PTL DEF Spec

\* Every variable of the build keeps its type: no pass leaves the dataset, no
\* map is asked for an entry it does not hold, and no key is split beyond the
\* finest zoom.
THEOREM TypeCorrect == Spec => []TypeOK
<1>1. IInv => TypeOK
  BY DEF IInv
<1> QED BY <1>1, Inductive, PTL

\* The sorts of the build only move records: Data::_index stays a permutation
\* of the dataset, whatever std::sort does with equal hashes.
THEOREM IndexIsPermutation ==
    Spec => [](index \in [Records -> Records] /\ IsInjective(index))
<1>1. IInv => index \in [Records -> Records] /\ IsInjective(index)
  BY DEF IInv, TypeOK
<1> QED BY <1>1, Inductive, PTL

\* Every pass, of any depth and any dimension, answers pivots that ascend
\* without gap or overlap and together cover the dataset.
THEOREM PassesCover == Spec => []ResponseCovers
<1>1. IInv => ResponseCovers
  BY DEF IInv
<1> QED BY <1>1, Inductive, PTL

-----------------------------------------------------------------------------
(* Once made, a tile or a part keeps its records: every sort of the build  *)
(* happens inside a piece of the dataset that is still to be split, and    *)
(* such a piece lies inside a tile or part made before, or apart from it.  *)

\* Where the build has tiles and parts ...
Settled ==
    tiles \cup UNION {UNION {Range(m.parts) : m \in Range(nodes[d])} :
                        d \in 1 .. Dims}

\* ... and where it has pivots that later steps or passes split further.
Pieces ==
    Range(response)
      \cup (IF call = None THEN {} ELSE {Pivot(call.front, call.back)})
      \cup {Pivot(f.accum, f.back) : f \in Range(stack)}
      \cup (IF stage \in 1 .. Dims
            THEN {current[i] : i \in pos .. Len(current)} ELSE {})

InsideOrApart(p, n) ==
    \/ n.front <= p.front /\ p.back <= n.back
    \/ p.back <= n.front
    \/ n.back <= p.front

PiecesFit == \A n \in Settled, p \in Pieces : InsideOrApart(p, n)

-----------------------------------------------------------------------------
(* Where pieces lie.                                                       *)

\* The elements of a sequence.
LEMMA ElementsOfSeq ==
    ASSUME NEW S, NEW s \in Seq(S)
    PROVE  /\ \A x \in Range(s) : x \in S
           /\ \A x \in Range(s) : \E i \in DOMAIN s : x = s[i]
<1>1. \A i \in DOMAIN s : s[i] \in S
  OBVIOUS
<1>2. \A x : x \in Range(s) <=> \E i \in DOMAIN s : x = s[i]
  BY DEF Range
<1> QED BY <1>1, <1>2

\* Tiles and parts lie in the dataset.
LEMMA SettledTypes ==
    ASSUME IInv
    PROVE  \A n \in Settled : n.front \in 0 .. N /\ n.back \in 0 .. N
<1>1. \A n \in tiles : n.front \in 0 .. N /\ n.back \in 0 .. N
  BY DEF IInv, TypeOK, TileNodes
<1>2. ASSUME NEW d \in 1 .. Dims, NEW m \in Range(nodes[d]),
             NEW n \in Range(m.parts)
      PROVE  n.front \in 0 .. N /\ n.back \in 0 .. N
  <2>1. nodes[d] \in Seq([front : 0 .. N, back : 0 .. N, parts : Seq(Parts)])
    BY DEF IInv, TypeOK
  <2>2. m.parts \in Seq(Parts)
    <3>1. m \in [front : 0 .. N, back : 0 .. N, parts : Seq(Parts)]
      BY <2>1, ElementsOfSeq, Zenon
    <3> QED BY <3>1
  <2>3. n \in Parts
    BY <2>2, ElementsOfSeq, Zenon
  <2> QED BY <2>3 DEF Parts
<1> QED BY <1>1, <1>2 DEF Settled

\* So do the pieces.
LEMMA PieceTypes ==
    ASSUME IInv
    PROVE  \A p \in Pieces : p.front \in 0 .. N /\ p.back \in 0 .. N
<1>1. TypeOK
  BY DEF IInv
<1>2. \A p \in Range(response) : p.front \in 0 .. N /\ p.back \in 0 .. N
  <2>1. \A p \in Range(response) : p \in Pivots
    BY <1>1, ElementsOfSeq, Zenon DEF TypeOK
  <2> QED BY <2>1 DEF Pivots
<1>3. call # None => /\ Pivot(call.front, call.back).front \in 0 .. N
                     /\ Pivot(call.front, call.back).back \in 0 .. N
  BY <1>1 DEF TypeOK, Calls, Pivot
<1>4. \A f \in Range(stack) : /\ Pivot(f.accum, f.back).front \in 0 .. N
                              /\ Pivot(f.accum, f.back).back \in 0 .. N
  <2>1. \A f \in Range(stack) : f \in Frames
    BY <1>1, ElementsOfSeq, Zenon DEF TypeOK
  <2> QED BY <2>1 DEF Frames, Pivot
<1>5. \A i \in pos .. Len(current) : /\ current[i].front \in 0 .. N
                                     /\ current[i].back \in 0 .. N
  <2>1. \A i \in pos .. Len(current) : i \in DOMAIN current
    BY <1>1 DEF TypeOK
  <2>2. \A i \in DOMAIN current : current[i] \in Pivots
    BY <1>1 DEF TypeOK
  <2> QED BY <2>1, <2>2 DEF Pivots
<1> QED BY <1>2, <1>3, <1>4, <1>5 DEF Pieces

\* The cursor is a position.
LEMMA CursorType ==
    ASSUME IInv
    PROVE  Cursor \in Int
<1>1. call # None => call.front \in Int
  BY DEF IInv, TypeOK, Calls
<1>2. stack # << >> => Top.accum \in Int
  <2>1. stack # << >> => Top \in Frames
    BY DEF IInv, TypeOK, Top
  <2> QED BY <2>1 DEF Frames
<1>3. pos <= Len(current) => current[pos].front \in Int
  <2>1. pos <= Len(current) => current[pos] \in Pivots
    BY DEF IInv, TypeOK
  <2> QED BY <2>1 DEF Pivots
<1> QED BY <1>1, <1>2, <1>3, Sizes DEF Cursor

\* Nothing answered reaches beyond it.
LEMMA AnsweredBefore ==
    ASSUME IInv
    PROVE  \A p \in Range(response) : p.back <= Cursor
<1>1. response \in Seq(Pivots) /\ Chain(response, 0, Cursor)
  BY DEF IInv, TypeOK, ResponseCovers
<1>2. \A x \in Pivots : x.front \in Int /\ x.back \in Int
  BY DEF Pivots
<1>3. \A i \in DOMAIN response : 0 <= response[i].front /\ response[i].back <= Cursor
  BY <1>1, <1>2, CursorType, ChainAscends, SMT
<1> QED BY <1>3 DEF Range

\* What the active calls have left lies behind the innermost.
LEMMA StackBehind ==
    ASSUME IInv, stack # << >>
    PROVE  \A i \in DOMAIN stack : Top.accum <= stack[i].accum
<1>1. stack \in Seq(Frames) /\ StackNests
  BY DEF IInv, TypeOK
<1>2. /\ \A i \in DOMAIN stack : stack[i].accum \in Int /\ stack[i].back \in Int
      /\ \A i \in DOMAIN stack : stack[i].accum <= stack[i].back
  <2>1. \A i \in DOMAIN stack : stack[i] \in Frames
    BY <1>1
  <2>2. \A i \in DOMAIN stack : stack[i].accum \in Int /\ stack[i].back \in Int
    BY <2>1 DEF Frames
  <2>3. \A i \in DOMAIN stack : stack[i].accum <= stack[i].back
    BY <1>1 DEF StackNests, FrameFits
  <2> QED BY <2>2, <2>3
<1>3. \A i \in DOMAIN stack : i # Len(stack) =>
         i + 1 \in DOMAIN stack /\ stack[i].accum = stack[i + 1].back
  <2>1. ASSUME NEW i \in DOMAIN stack, i # Len(stack)
        PROVE  i + 1 \in DOMAIN stack /\ i + 1 # 1 /\ (i + 1) - 1 = i
    BY <1>1, <2>1
  <2> QED BY <1>1, <2>1 DEF StackNests
<1> DEFINE L == Len(stack)
           Below(k) == L - k \in DOMAIN stack /\ stack[L - k].accum < Top.accum
           bad == {k \in Nat : Below(k)}
<1>4. bad = {}
  <2>1. SUFFICES ASSUME bad # {} PROVE FALSE
    OBVIOUS
  <2>2. PICK k \in bad : \A n \in bad : k <= n
    <3>1. bad \in SUBSET Nat
      OBVIOUS
    <3> QED BY <2>1, <3>1, NatMin, Zenon
  <2>3. /\ k \in Nat /\ L \in Nat /\ L - k \in DOMAIN stack
        /\ stack[L - k].accum < Top.accum
    BY <1>1
  <2>4. Top = stack[L] /\ L \in DOMAIN stack /\ Top.accum \in Int
    BY <1>1, <1>2 DEF Top
  <2>5. CASE k = 0
    BY <2>3, <2>4, <2>5
  <2>6. CASE k # 0
    <3>1. k - 1 \in Nat /\ k - 1 \notin bad /\ L - (k - 1) = (L - k) + 1
      <4>1. /\ k - 1 \in Nat /\ ~(k <= k - 1) /\ L - (k - 1) = (L - k) + 1
        <5> HIDE DEF L, bad
        <5> QED BY <2>3, <2>6, SMT
      <4>2. k - 1 \notin bad
        BY <2>2, <4>1, Zenon
      <4> QED BY <4>1, <4>2, Zenon
    <3>2. L - k # L
      BY <2>3, <2>6
    <3>3. /\ (L - k) + 1 \in DOMAIN stack
          /\ stack[L - k].accum = stack[(L - k) + 1].back
      BY <1>3, <2>3, <3>2
    <3>4. ~(stack[(L - k) + 1].accum < Top.accum)
      BY <3>1, <3>3
    <3>5. /\ stack[(L - k) + 1].accum <= stack[(L - k) + 1].back
          /\ stack[(L - k) + 1].accum \in Int
          /\ stack[(L - k) + 1].back \in Int
      BY <1>2, <3>3
    <3> HIDE DEF bad, L
    <3> QED BY <2>3, <2>4, <3>3, <3>4, <3>5, SMT
  <2> QED BY <2>5, <2>6, Zenon
<1>5. ASSUME NEW i \in DOMAIN stack PROVE Top.accum <= stack[i].accum
  <2>1. L - i \in Nat /\ L - (L - i) = i
    BY <1>1
  <2>2. ~Below(L - i)
    BY <1>4, <2>1, Zenon
  <2>3. Top.accum \in Int
    BY <1>1, <1>2 DEF Top
  <2>4. ~(stack[i].accum < Top.accum)
    BY <2>1, <2>2
  <2> HIDE DEF L, bad
  <2> QED BY <1>2, <2>3, <2>4
<1> QED BY <1>5

\* A tile made of the call lies apart from every piece but the call itself.
LEMMA NewTileFits ==
    ASSUME IInv, call # None, NEW n,
           n.front = call.front, n.back = call.back
    PROVE  \A p \in Pieces : InsideOrApart(p, n)
<1>1. /\ call \in Calls /\ CallFits /\ stage = 0
      /\ ~(stage \in 1 .. Dims)
  BY InSpatialPass DEF IInv, TypeOK
<1>2. \A p \in Range(response) : InsideOrApart(p, n)
  <2>1. Cursor = call.front
    BY DEF Cursor
  <2> QED BY <2>1, AnsweredBefore DEF InsideOrApart
<1>3. InsideOrApart(Pivot(call.front, call.back), n)
  BY <1>1 DEF InsideOrApart, Pivot, Calls
<1>4. \A f \in Range(stack) : InsideOrApart(Pivot(f.accum, f.back), n)
  <2>1. ASSUME NEW i \in DOMAIN stack
        PROVE  n.back <= Pivot(stack[i].accum, stack[i].back).front
    <3>1. stack # << >>
      BY DEF IInv, TypeOK
    <3>2. call.back = Top.accum
      BY <1>1, <3>1 DEF CallFits
    <3> QED BY <3>1, <3>2, StackBehind DEF Pivot
  <2> QED BY <2>1 DEF Range, InsideOrApart
<1> QED BY <1>1, <1>2, <1>3, <1>4 DEF Pieces

-----------------------------------------------------------------------------
(* Every step only breaks pieces up.                                       *)

\* The bounds of the pieces, in the form a step can prime.
PiecesTyped == \A p \in Pieces : p.front \in 0 .. N /\ p.back \in 0 .. N

\* Pieces lie in the dataset after a step, too.
LEMMA PiecesTypedNext == IInv' => PiecesTyped'
<1>1. IInv => PiecesTyped
  BY PieceTypes DEF PiecesTyped
<1> QED BY <1>1, PTL

\* A piece of a piece that lies inside or apart does so too.
LEMMA PiecesFitStep ==
    ASSUME IInv, IInv', PiecesFit,
           \A n \in Settled' : \/ n \in Settled
                               \/ \A p \in Pieces' : InsideOrApart(p, n),
           \A p \in Pieces' : \E q \in Pieces : q.front <= p.front /\ p.back <= q.back
    PROVE  PiecesFit'
<1>1. ASSUME NEW n \in Settled', NEW p \in Pieces', n \in Settled
      PROVE  InsideOrApart(p, n)
  <2>1. PICK q \in Pieces : q.front <= p.front /\ p.back <= q.back
    OBVIOUS
  <2>2. InsideOrApart(q, n)
    BY <1>1, <2>1 DEF PiecesFit
  <2>3. /\ q.front \in Int /\ q.back \in Int
        /\ n.front \in Int /\ n.back \in Int
    BY <1>1, PieceTypes, SettledTypes, Sizes
  <2>4. p.front \in Int /\ p.back \in Int
    BY PiecesTypedNext, Sizes DEF PiecesTyped
  <2> QED BY <2>1, <2>2, <2>3, <2>4 DEF InsideOrApart
<1> QED BY <1>1 DEF PiecesFit, InsideOrApart

\* Appending adds one element, the last.
LEMMA RangeAppend ==
    ASSUME NEW S, NEW s \in Seq(S), NEW x \in S
    PROVE  Range(Append(s, x)) = Range(s) \cup {x}
<1> DEFINE t == Append(s, x)
<1>1. /\ DOMAIN t = 1 .. Len(s) + 1 /\ DOMAIN s = 1 .. Len(s)
      /\ Len(s) \in Nat
      /\ \A i \in 1 .. Len(s) : t[i] = s[i]
      /\ t[Len(s) + 1] = x
  OBVIOUS
<1> HIDE DEF t
<1>2. ASSUME NEW y \in Range(t) PROVE y \in Range(s) \cup {x}
  BY <1>1 DEF Range
<1>3. ASSUME NEW y \in Range(s) PROVE y \in Range(t)
  BY <1>1 DEF Range
<1>4. x \in Range(t)
  BY <1>1 DEF Range
<1> QED BY <1>2, <1>3, <1>4 DEF t

\* While the recursion runs, only it and what it answered are pieces.
LEMMA SpatialPieces ==
    ASSUME stage = 0
    PROVE  Pieces = Range(response)
                      \cup (IF call = None THEN {}
                            ELSE {Pivot(call.front, call.back)})
                      \cup {Pivot(f.accum, f.back) : f \in Range(stack)}
BY DEF Pieces

\* A split makes the tile of the call; its pivot is then what the loop over
\* the children has left.
LEMMA SplitTileFits ==
    ASSUME IInv, IInv', PiecesFit, SplitTile
    PROVE  PiecesFit'
<1> USE DEF SplitTile, nodeVars
<1> DEFINE frame == [level |-> call.level, back |-> call.back,
                     zoom |-> call.zoom, accum |-> call.front,
                     used |-> Count(ChildTile(call))]
<1>1. stage = 0 /\ stage' = 0 /\ call \in Calls
  BY InSpatialPass DEF IInv, TypeOK
<1>2. stack \in Seq(Frames) /\ stack' = Append(stack, frame) /\ frame \in Frames
  <2>1. call.level < MaxZoom * Keys
    OBVIOUS
  <2>2. Count(ChildTile(call)) \in UsedMaps(Tile)
    BY <2>1, SplitCounts, Zenon
  <2> QED BY <1>1, <2>2 DEF IInv, TypeOK, Calls, Frames
<1>3. Pivot(frame.accum, frame.back) = Pivot(call.front, call.back)
  OBVIOUS
<1> HIDE DEF frame
<1>4. Range(stack') = Range(stack) \cup {frame}
  <2>1. Range(Append(stack, frame)) = Range(stack) \cup {frame}
    BY <1>2, RangeAppend, SMT
  <2> QED BY <1>2, <2>1
<1>5. \A p \in Pieces' : p \in Pieces
  <2>1. \A p \in Pieces' : \/ p \in Range(response)
                           \/ \E f \in Range(stack') : p = Pivot(f.accum, f.back)
    BY <1>1 DEF Pieces
  <2>2. /\ \A p \in Range(response) : p \in Pieces
        /\ Pivot(call.front, call.back) \in Pieces
        /\ \A f \in Range(stack) : Pivot(f.accum, f.back) \in Pieces
    BY DEF Pieces
  <2> QED BY <1>3, <1>4, <2>1, <2>2
<1>6. \A n \in Settled' : n \in Settled \/ n = TileNode(call, FALSE)
  BY DEF Settled
<1>7. \A p \in Pieces : InsideOrApart(p, TileNode(call, FALSE))
  BY NewTileFits DEF TileNode
<1>8. \A p \in Pieces' : \E q \in Pieces : q.front <= p.front /\ p.back <= q.back
  <2>1. \A p \in Pieces : p.front <= p.front /\ p.back <= p.back
    BY PieceTypes, Sizes
  <2> QED BY <1>5, <2>1
<1>9. \A n \in Settled' : n \in Settled \/ \A p \in Pieces' : InsideOrApart(p, n)
  BY <1>5, <1>6, <1>7, Zenon
<1> QED BY <1>8, <1>9, PiecesFitStep, Zenon

\* The next child takes the front of what its caller has left.
LEMMA NextChildFits ==
    ASSUME IInv, IInv', PiecesFit, NextChild
    PROVE  PiecesFit'
<1> USE DEF NextChild, nodeVars
<1> DEFINE entry == CHOOSE e \in Top.used :
                      \A f \in Top.used : TileBefore(e.key, f.key)
           b == Top.accum + entry.count
           G == [Top EXCEPT !.accum = b, !.used = @ \ {entry}]
<1>1. stage = 0 /\ stage' = 0
  BY InSpatialPass
<1>2. /\ stack \in Seq(Frames) /\ Top \in Frames /\ FrameFits(Top)
      /\ Len(stack) \in DOMAIN stack
  <2>1. stack \in Seq(Frames) /\ stack # << >> /\ StackNests
    BY DEF IInv, TypeOK
  <2>2. Len(stack) \in DOMAIN stack
    BY <2>1
  <2>3. Top \in Frames
    BY <2>1, <2>2 DEF Top
  <2> QED BY <2>1, <2>2, <2>3 DEF StackNests, Top
<1>3. entry \in Top.used
  <2>1. \E e \in Top.used : \A f \in Top.used : TileBefore(e.key, f.key)
    BY <1>2, FirstTile, Zenon DEF Frames, UsedMaps, Tile
  <2> QED BY <2>1, Zenon
<1>4. entry.count \in Nat /\ entry.count <= Top.back - Top.accum
  BY <1>2, <1>3, CountsSplit, Zenon DEF FrameFits
<1>5. /\ b \in 0 .. N /\ Top.accum <= b /\ b <= Top.back
      /\ Top.accum \in Int /\ Top.back \in Int
  <2>1. Top.accum \in 0 .. N /\ Top.back \in 0 .. N
    BY <1>2 DEF Frames
  <2> HIDE DEF entry
  <2> QED BY <1>4, <2>1, Sizes, SMT
<1>6. call'.front = Top.accum /\ call'.back = b
  OBVIOUS
<1>7. G \in Frames /\ G.accum = b /\ G.back = Top.back
  BY <1>2, <1>5 DEF Frames, UsedMaps
<1>8. /\ stack' \in Seq(Frames) /\ Len(stack') = Len(stack)
      /\ stack'[Len(stack)] = G
      /\ \A i \in 1 .. Len(stack) - 1 : stack'[i] = stack[i]
  <2>1. stack' = [stack EXCEPT ![Len(stack)] = G]
    BY DEF SetTop
  <2> HIDE DEF G
  <2> DEFINE new == [stack EXCEPT ![Len(stack)] = G]
  <2>2. /\ new \in Seq(Frames) /\ Len(new) = Len(stack)
        /\ new[Len(stack)] = G
        /\ \A i \in 1 .. Len(stack) - 1 : new[i] = stack[i]
    BY <1>2, <1>7, ReplaceLast, SMT
  <2>3. stack' = new
    BY <2>1
  <2> HIDE DEF new
  <2> QED BY <2>2, <2>3
<1> HIDE DEF G, b, entry
<1>9. \A p \in Pieces' : \/ p \in Range(response)
                         \/ p = Pivot(Top.accum, b)
                         \/ p = Pivot(b, Top.back)
                         \/ \E f \in Range(stack) : p = Pivot(f.accum, f.back)
  <2>1. \A f \in Range(stack') : f = G \/ f \in Range(stack)
    <3>1. ASSUME NEW i \in DOMAIN stack'
          PROVE  stack'[i] = G \/ (i \in DOMAIN stack /\ stack'[i] = stack[i])
      <4>1. /\ DOMAIN stack' = 1 .. Len(stack') /\ DOMAIN stack = 1 .. Len(stack)
            /\ Len(stack) \in Nat
        BY <1>2, <1>8, LenProperties, Zenon
      <4>2. i \in 1 .. Len(stack) /\ i \in DOMAIN stack
        BY <1>8, <4>1
      <4>3. i = Len(stack) \/ i \in 1 .. Len(stack) - 1
        BY <4>1, <4>2
      <4> QED BY <1>8, <4>2, <4>3, Zenon
    <3> QED BY <3>1 DEF Range
  <2>2. \A p \in Pieces' : \/ p \in Range(response)
                           \/ p = Pivot(call'.front, call'.back)
                           \/ \E f \in Range(stack') : p = Pivot(f.accum, f.back)
    <3>1. response' = response /\ ~(stage' \in 1 .. Dims)
      BY <1>1
    <3> HIDE DEF NextChild
    <3> QED BY <3>1 DEF Pieces
  <2> QED BY <1>6, <1>7, <2>1, <2>2
<1>10. /\ \A p \in Range(response) : p \in Pieces
       /\ Pivot(Top.accum, Top.back) \in Pieces
       /\ \A f \in Range(stack) : Pivot(f.accum, f.back) \in Pieces
  BY <1>2 DEF Pieces, Top, Range
<1>11. \A p \in Pieces' : \E q \in Pieces : q.front <= p.front /\ p.back <= q.back
  <2>1. \A p \in Pieces : p.front <= p.front /\ p.back <= p.back
    BY PieceTypes, Sizes
  <2>2. /\ Pivot(Top.accum, Top.back).front = Top.accum
        /\ Pivot(Top.accum, Top.back).back = Top.back
        /\ Pivot(Top.accum, b).front = Top.accum /\ Pivot(Top.accum, b).back = b
        /\ Pivot(b, Top.back).front = b /\ Pivot(b, Top.back).back = Top.back
    BY DEF Pivot
  <2>3. Top.accum <= Top.accum /\ Top.back <= Top.back
    BY <1>5
  <2> QED BY <1>5, <1>9, <1>10, <2>1, <2>2, <2>3
<1>12. \A n \in Settled' : n \in Settled
  BY DEF Settled
<1> QED BY <1>11, <1>12, PiecesFitStep, Zenon

\* A leaf answers the pivot of the call and makes tiles of it.
LEMMA LeafTileFits ==
    ASSUME IInv, IInv', PiecesFit, LeafTile
    PROVE  PiecesFit'
<1> USE DEF LeafTile, nodeVars
<1>1. /\ stage = 0 /\ stage' = 0 /\ call \in Calls
      /\ response \in Seq(Pivots)
      /\ Pivot(call.front, call.back) \in Pivots
  <2>1. stage = 0 /\ call \in Calls /\ response \in Seq(Pivots)
    BY InSpatialPass DEF IInv, TypeOK
  <2> QED BY <2>1 DEF Calls, Pivot, Pivots
<1>2. Range(response') = Range(response) \cup {Pivot(call.front, call.back)}
  <2> DEFINE c == Pivot(call.front, call.back)
  <2>1. response' = Append(response, c) /\ c \in Pivots
    BY <1>1
  <2> HIDE DEF c
  <2>2. Range(Append(response, c)) = Range(response) \cup {c}
    BY <1>1, <2>1, RangeAppend, SMT
  <2>3. Range(response') = Range(response) \cup {c}
    BY <2>1, <2>2
  <2> QED BY <2>3 DEF c
<1>3. \A p \in Pieces' : p \in Pieces
  BY <1>1, <1>2 DEF Pieces
<1>4. \A n \in Settled' :
        \/ n \in Settled
        \/ n.front = call.front /\ n.back = call.back
  <2>1. TileNode(call, TRUE).front = call.front /\ TileNode(call, TRUE).back = call.back
    BY DEF TileNode
  <2>2. \A n \in ChainTiles(call) : n.front = call.front /\ n.back = call.back
    <3> SUFFICES ASSUME NEW n \in ChainTiles(call)
                 PROVE  n.front = call.front /\ n.back = call.back
      OBVIOUS
    <3> HIDE DEF LeafTile
    <3>1. PICK j \in 1 .. Keys - 1 :
            LET z == call.zoom[(call.level + j) % Keys]
            IN  n = TileNode([call EXCEPT !.level = @ + j, !.x = z.x,
                                !.y = z.y, !.z = (z.z - 1) % 32], TRUE)
      BY Zenon DEF ChainTiles
    <3> QED BY <1>1, <3>1 DEF TileNode, Calls
  <2>3. \A n \in Settled' : n \in Settled \/ n = TileNode(call, TRUE)
                              \/ n \in ChainTiles(call)
    BY DEF Settled
  <2> QED BY <2>1, <2>2, <2>3
<1>5. \A n \in Settled' : n \in Settled \/ \A p \in Pieces' : InsideOrApart(p, n)
  <2>1. ASSUME NEW n \in Settled', n.front = call.front /\ n.back = call.back
        PROVE  \A p \in Pieces : InsideOrApart(p, n)
    BY <2>1, NewTileFits
  <2> QED BY <1>3, <1>4, <2>1, Zenon
<1>6. \A p \in Pieces' : \E q \in Pieces : q.front <= p.front /\ p.back <= q.back
  <2>1. \A p \in Pieces : p.front <= p.front /\ p.back <= p.back
    BY PieceTypes, Sizes
  <2> QED BY <1>3, <2>1
<1> QED BY <1>5, <1>6, PiecesFitStep, Zenon

\* No tile, part or new piece.
LEMMA NothingNewFits ==
    ASSUME IInv, IInv', PiecesFit,
           \A n \in Settled' : n \in Settled, \A p \in Pieces' : p \in Pieces
    PROVE  PiecesFit'
BY DEF PiecesFit, InsideOrApart

\* A return only drops what its caller had left, which is nothing.
LEMMA ReturnTileFits ==
    ASSUME IInv, IInv', PiecesFit, ReturnTile
    PROVE  PiecesFit'
<1> USE DEF ReturnTile, nodeVars
<1>1. stage = 0 /\ stage' = 0
  BY InSpatialPass
<1>2. \A f \in Range(stack') : f \in Range(stack)
  <2>1. stack \in Seq(Frames)
    BY DEF IInv, TypeOK
  <2> DEFINE t == SubSeq(stack, 1, Len(stack) - 1)
  <2>2. \A i \in DOMAIN t : i \in DOMAIN stack /\ t[i] = stack[i]
    BY <2>1, DropLast, Zenon
  <2>3. stack' = t
    OBVIOUS
  <2> HIDE DEF t
  <2> QED BY <2>2, <2>3 DEF Range
<1>3. \A p \in Pieces' : p \in Pieces
  BY <1>1, <1>2 DEF Pieces
<1>4. \A n \in Settled' : n \in Settled
  BY DEF Settled
<1> QED BY <1>3, <1>4, NothingNewFits, Zenon

\* A node that starts its loop makes no tile, part or piece ...
LEMMA OpenNodeFits ==
    ASSUME IInv, IInv', PiecesFit, OpenNode
    PROVE  PiecesFit'
BY NothingNewFits DEF OpenNode, spatialVars, Pieces, Settled

\* ... nor does a turn of its loop: parts are kept when the node ends.
LEMMA EmplacePartFits ==
    ASSUME IInv, IInv', PiecesFit, EmplacePart
    PROVE  PiecesFit'
BY NothingNewFits DEF EmplacePart, spatialVars, Pieces, Settled

\* A pass starts on what the pass before answered.
LEMMA EndPassFits ==
    ASSUME IInv, IInv', PiecesFit, EndPass
    PROVE  PiecesFit'
<1> USE DEF EndPass, spatialVars
<1>1. \A p \in Pieces' : p \in Range(response)
  <2>1. Range(response') = {}
    BY DEF Range
  <2>2. Range(stack) = {}
    BY DEF Range
  <2>3. \A i \in pos' .. Len(current') : current'[i] \in Range(response)
    <3>1. response \in Seq(Pivots) /\ pos' = 1 /\ current' = response
      BY DEF IInv, TypeOK
    <3>2. \A i \in 1 .. Len(response) : i \in DOMAIN response
      BY <3>1
    <3> QED BY <3>1, <3>2 DEF Range
  <2> QED BY <2>1, <2>2, <2>3 DEF Pieces
<1>2. \A p \in Pieces' : p \in Pieces
  BY <1>1 DEF Pieces
<1>3. \A n \in Settled' : n \in Settled
  BY DEF Settled
<1> QED BY <1>2, <1>3, NothingNewFits, Zenon

\* A sort that ends a node makes parts inside its pivot, which is answered in
\* their place.
LEMMA SortNodeFits ==
    ASSUME IInv, IInv', PiecesFit, SortNode
    PROVE  PiecesFit'
<1> USE DEF SortNode, spatialVars
<1>1. /\ node \in Nodes /\ stage \in 1 .. Dims /\ pos \in DOMAIN current
      /\ node.front = current[pos].front /\ node.back = current[pos].back
      /\ Chain(node.parts, node.front, node.back)
  <2>1. /\ node \in Nodes /\ stage \in 1 .. Dims /\ pos \in DOMAIN current
        /\ node.front = current[pos].front /\ node.back = current[pos].back
        /\ Counts({}, node.back - node.accum)
        /\ Chain(node.parts, node.front, node.accum)
    BY DEF IInv, TypeOK, NodeFits
  <2>2. node.back - node.accum = 0
    BY <2>1, CountsNothing, SMT
  <2>3. node.back = node.accum
    <3>1. node.back \in Int /\ node.accum \in Int
      BY <2>1, Sizes, SMT DEF Nodes
    <3> QED BY <2>2, <3>1
  <2> QED BY <2>1, <2>3
<1>2. /\ current \in Seq(Pivots) /\ Chain(current, 0, N) /\ response \in Seq(Pivots)
      /\ pos \in Nat \ {0} /\ pos <= Len(current) /\ Len(current) \in Nat
      /\ nodes \in [1 .. Dims -> Seq([front : 0 .. N, back : 0 .. N,
                                      parts : Seq(Parts)])]
  <2>1. TypeOK /\ ResponseCovers /\ stage > 0 /\ stage # 0
    BY <1>1, Sizes DEF IInv
  <2>2. current \in Seq(Pivots) /\ response \in Seq(Pivots) /\ Chain(current, 0, N)
    BY <2>1 DEF TypeOK, ResponseCovers
  <2>3. pos \in Nat \ {0} /\ pos <= Len(current) /\ Len(current) \in Nat
    <3> HIDE DEF SortNode
    <3> QED BY <1>1, <2>1, <2>2 DEF TypeOK
  <2> QED BY <2>1, <2>2, <2>3 DEF TypeOK
<1>3. /\ call = None /\ stack = << >> /\ Cursor = current[pos].front
      /\ current[pos].front \in 0 .. N /\ current[pos].back \in 0 .. N
  <2>1. call = None /\ stack = << >> /\ Cursor = current[pos].front
        /\ current[pos] \in Pivots
    BY <1>1, <1>2, InLaterPass
  <2> QED BY <2>1 DEF Pivots
<1> DEFINE parts == node.parts
           pivots == [i \in DOMAIN parts |-> Pivot(parts[i].front, parts[i].back)]
           n == [front |-> node.front, back |-> node.back, parts |-> parts]
<1>4. /\ parts \in Seq(Parts)
      /\ \A i \in DOMAIN parts : /\ node.front <= parts[i].front
                                 /\ parts[i].back <= node.back
                                 /\ parts[i].front \in Int
                                 /\ parts[i].back \in Int
      /\ \A i, j \in DOMAIN parts : i < j => parts[i].back <= parts[j].front
  <2>1. parts \in Seq(Parts) /\ node.front \in Int /\ node.back \in Int
    BY <1>1, Sizes, SMT DEF Nodes
  <2>2. \A x \in Parts : x.front \in Int /\ x.back \in Int
    BY Sizes DEF Parts
  <2>3. Chain(parts, node.front, node.back)
    BY <1>1
  <2> HIDE DEF parts, SortNode
  <2>4. \A i \in DOMAIN parts : parts[i] \in Parts
    BY <2>1
  <2> QED BY <2>1, <2>2, <2>3, <2>4, ChainAscends, SMT
<1>5. \A i \in pos + 1 .. Len(current) :
        /\ node.back <= current[i].front
        /\ current[i] \in Pivots /\ i \in pos .. Len(current)
  <2>1. \A x \in Pivots : x.front \in Int /\ x.back \in Int
    BY Sizes DEF Pivots
  <2>2. \A i, j \in DOMAIN current : i < j => current[i].back <= current[j].front
    <3> HIDE DEF SortNode
    <3>1. 0 \in Int /\ N \in Int
      BY Sizes
    <3>2. current \in Seq(Pivots) /\ Chain(current, 0, N)
      BY <1>2
    <3> QED BY <2>1, <3>1, <3>2, ChainAscends, Zenon
  <2>3. \A i \in pos + 1 .. Len(current) : i \in DOMAIN current /\ pos < i
                                           /\ i \in pos .. Len(current)
    BY <1>2
  <2> QED BY <1>1, <1>2, <2>2, <2>3
<1>6. \A p \in Pieces' : \/ p \in Range(response)
                         \/ \E i \in DOMAIN parts :
                              p = Pivot(parts[i].front, parts[i].back)
                         \/ \E i \in pos + 1 .. Len(current) : p = current[i]
  <2>1. /\ response' = response \o pivots /\ pos' = pos + 1 /\ stage' = stage
        /\ call' = None /\ stack' = << >> /\ current' = current
    BY <1>3
  <2>2. \A p \in Range(response \o pivots) :
          p \in Range(response) \/ \E i \in DOMAIN parts : p = pivots[i]
    <3>1. pivots \in Seq(Pivots) /\ response \in Seq(Pivots)
      BY <1>2, <1>4, PivotsOf, Zenon
    <3>2. DOMAIN pivots = DOMAIN parts
      OBVIOUS
    <3> HIDE DEF pivots, SortNode
    <3>3. Range(response \o pivots) = Range(response) \cup Range(pivots)
      BY <3>1, RangeConcatenation, SMT
    <3> QED BY <3>2, <3>3 DEF Range
  <2>3. Range(<< >>) = {}
    BY DEF Range
  <2> HIDE DEF SortNode, pivots
  <2>4. \A p \in Pieces' : \/ p \in Range(response')
                           \/ \E i \in pos + 1 .. Len(current) : p = current[i]
    BY <1>1, <2>1, <2>3 DEF Pieces
  <2>5. \A i \in DOMAIN parts : pivots[i] = Pivot(parts[i].front, parts[i].back)
    BY DEF pivots
  <2> QED BY <2>1, <2>2, <2>4, <2>5
<1>7. \A x \in Settled' : x \in Settled \/ x \in Range(parts)
  <2>1. /\ tiles' = tiles
        /\ nodes' = [nodes EXCEPT ![stage] = Append(nodes[stage], n)]
    OBVIOUS
  <2>2. nodes'[stage] = Append(nodes[stage], n)
    BY <1>1, <1>2, <2>1
  <2>3. \A d \in 1 .. Dims : d # stage => nodes'[d] = nodes[d]
    BY <1>1, <1>2, <2>1
  <2>4. n.parts = parts
    OBVIOUS
  <2>5. Range(Append(nodes[stage], n)) = Range(nodes[stage]) \cup {n}
    <3> DEFINE T == [front : 0 .. N, back : 0 .. N, parts : Seq(Parts)]
    <3>1. nodes[stage] \in Seq(T) /\ n \in T
      BY <1>1, <1>2, <1>4 DEF Nodes
    <3> HIDE DEF T, n, SortNode
    <3> QED BY <3>1, RangeAppend, SMT
  <2> HIDE DEF n, parts, SortNode
  <2>6. \A d \in 1 .. Dims : \A m : m \in Range(nodes[d])' => m = n \/ m \in Range(nodes[d])
    <3>1. ASSUME NEW d \in 1 .. Dims, NEW m, m \in Range(nodes'[d])
          PROVE  m = n \/ m \in Range(nodes[d])
      BY <2>2, <2>3, <2>5, <3>1
    <3> QED BY <3>1
  <2> QED BY <2>1, <2>4, <2>6 DEF Settled
<1>8. ASSUME NEW x \in Range(parts), NEW p \in Pieces'
      PROVE  InsideOrApart(p, x)
  <2>1. PICK j \in DOMAIN parts : x = parts[j]
    BY <1>8 DEF Range
  <2> HIDE DEF parts, SortNode
  <2>2. CASE p \in Range(response)
    <3>1. p.back <= current[pos].front
      BY <1>3, <2>2, AnsweredBefore
    <3>2. p.back \in Int
      BY <2>2, PieceTypes, Sizes DEF Pieces
    <3> QED BY <1>1, <1>3, <1>4, <2>1, <3>1, <3>2, Sizes DEF InsideOrApart
  <2>3. CASE \E i \in DOMAIN parts : p = Pivot(parts[i].front, parts[i].back)
    <3>1. PICK i \in DOMAIN parts : p.front = parts[i].front /\ p.back = parts[i].back
      BY <2>3 DEF Pivot
    <3>2. i = j \/ i < j \/ j < i
      <4>1. i \in Nat /\ j \in Nat
        BY <1>4
      <4> QED BY <4>1
    <3> QED BY <1>4, <2>1, <3>1, <3>2 DEF InsideOrApart
  <2>4. CASE \E i \in pos + 1 .. Len(current) : p = current[i]
    <3>1. node.back <= p.front /\ p.front \in Int
      BY <1>5, <2>4, Sizes DEF Pivots
    <3> QED BY <1>1, <1>3, <1>4, <2>1, <3>1, Sizes DEF InsideOrApart
  <2> QED BY <1>6, <2>2, <2>3, <2>4
<1>9. \A p \in Pieces' : \E q \in Pieces : q.front <= p.front /\ p.back <= q.back
  <2>1. \A q \in Pieces : q.front <= q.front /\ q.back <= q.back
    BY PieceTypes, Sizes
  <2>2. \A q \in Range(response) : q \in Pieces
    BY DEF Pieces
  <2>3. \A i \in pos .. Len(current) : current[i] \in Pieces
    BY <1>1 DEF Pieces
  <2>4. pos \in pos .. Len(current)
    BY <1>2
  <2> HIDE DEF parts, SortNode
  <2>5. \A i \in DOMAIN parts :
          /\ current[pos].front <= Pivot(parts[i].front, parts[i].back).front
          /\ Pivot(parts[i].front, parts[i].back).back <= current[pos].back
    BY <1>1, <1>4 DEF Pivot
  <2> QED BY <1>5, <1>6, <2>1, <2>2, <2>3, <2>4, <2>5
<1>10. \A x \in Settled' : x \in Settled \/ \A p \in Pieces' : InsideOrApart(p, x)
  BY <1>7, <1>8
<1> QED BY <1>9, <1>10, PiecesFitStep, Zenon

-----------------------------------------------------------------------------
(* The theorem.                                                            *)

\* The build starts without tiles and parts.
LEMMA InitPiecesFit ==
    ASSUME Init
    PROVE  PiecesFit
<1>1. \A d \in 1 .. Dims : Range(nodes[d]) = {}
  BY DEF Init, Range
<1>2. tiles = {}
  BY DEF Init
<1> QED BY <1>1, <1>2 DEF PiecesFit, Settled

\* Every step of the build leaves its pieces inside or apart from them.
LEMMA NextPiecesFit ==
    ASSUME IInv, PiecesFit, [Next]_vars
    PROVE  PiecesFit'
<1>0. IInv'
  BY NextKeeps
<1>1. CASE SplitTile
  BY <1>0, <1>1, SplitTileFits
<1>2. CASE NextChild
  BY <1>0, <1>2, NextChildFits
<1>3. CASE LeafTile
  BY <1>0, <1>3, LeafTileFits
<1>4. CASE ReturnTile
  BY <1>0, <1>4, ReturnTileFits
<1>5. CASE OpenNode
  BY <1>0, <1>5, OpenNodeFits
<1>6. CASE EmplacePart
  BY <1>0, <1>6, EmplacePartFits
<1>7. CASE SortNode
  BY <1>0, <1>7, SortNodeFits
<1>8. CASE EndPass
  BY <1>0, <1>8, EndPassFits
<1>9. CASE UNCHANGED vars
  BY <1>9 DEF vars, PiecesFit, Pieces, Settled
<1> QED BY <1>1, <1>2, <1>3, <1>4, <1>5, <1>6, <1>7, <1>8, <1>9 DEF Next

\* A sort of a piece leaves the records of every tile and part where they are.
LEMMA SortOfPiece ==
    ASSUME IInv, PiecesFit, NEW p,
           p.front \in 0 .. N, p.back \in 0 .. N,
           Pivot(p.front, p.back) \in Pieces,
           NEW hash, index' \in SortHash(index, p, hash)
    PROVE  \A n \in Settled : RecordsAt(index', n) = RecordsAt(index, n)
<1> SUFFICES ASSUME NEW n \in Settled
             PROVE  RecordsAt(index', n) = RecordsAt(index, n)
  OBVIOUS
<1>1. n.front \in 0 .. N /\ n.back \in 0 .. N
  BY SettledTypes
<1>2. InsideOrApart(p, n)
  <2>1. InsideOrApart(Pivot(p.front, p.back), n)
    BY DEF PiecesFit
  <2> QED BY <2>1 DEF InsideOrApart, Pivot
<1>3. Span(p) \subseteq Span(n) \/ Span(p) \cap Span(n) = {}
  BY <1>1, <1>2, Sizes, SMT DEF InsideOrApart, Span
<1>4. index \in [Records -> Records] /\ IsInjective(index)
  BY DEF IInv, TypeOK
<1>5. index' \in SortHash(index, p, hash)
  OBVIOUS
<1> QED BY <1>1, <1>3, <1>4, <1>5, SortStaysInside, SMT

\* No step moves a record into or out of a tile or a part.
LEMMA StepStays ==
    ASSUME IInv, PiecesFit, Next
    PROVE  \A n \in Settled : RecordsAt(index', n) = RecordsAt(index, n)
<1>1. CASE SplitTile
  <2>1. /\ call # None
        /\ \E hash : index' \in SortHash(index, call, hash)
    BY <1>1 DEF SplitTile
  <2>2. call.front \in 0 .. N /\ call.back \in 0 .. N
    BY <2>1 DEF IInv, TypeOK, Calls
  <2>3. Pivot(call.front, call.back) \in Pieces
    BY <2>1 DEF Pieces
  <2> QED BY <2>1, <2>2, <2>3, SortOfPiece
<1>2. CASE SortNode
  <2>1. /\ node # None
        /\ \E hash : index' \in SortHash(index, node, hash)
    BY <1>2 DEF SortNode
  <2>2. /\ stage \in 1 .. Dims /\ pos \in DOMAIN current
        /\ node.front = current[pos].front /\ node.back = current[pos].back
        /\ node.front \in 0 .. N /\ node.back \in 0 .. N
        /\ current \in Seq(Pivots)
    BY <2>1 DEF IInv, TypeOK, NodeFits, Nodes
  <2>3. Pivot(node.front, node.back) \in Pieces
    <3>1. current[pos] \in Pivots /\ pos \in pos .. Len(current)
      BY <2>2
    <3>2. current[pos] = Pivot(current[pos].front, current[pos].back)
      BY <3>1 DEF Pivots, Pivot
    <3>3. current[pos] \in Pieces
      BY <2>2, <3>1 DEF Pieces
    <3> QED BY <2>2, <3>2, <3>3
  <2> QED BY <2>1, <2>2, <2>3, SortOfPiece
<1>3. CASE ~SplitTile /\ ~SortNode
  <2>1. index' = index
    BY <1>3 DEF Next, NextChild, LeafTile, ReturnTile, OpenNode, EmplacePart,
                EndPass
  <2> QED BY <2>1
<1> QED BY <1>1, <1>2, <1>3

\* No step of the build moves a record into or out of a tile or a part that
\* exists already: the sorts of the descendants of a tile and of the later
\* dimensions stay inside it, for every dataset, schema and order in which
\* std::sort leaves equal hashes.
THEOREM StayInside == Spec => RecordsStayInside
<1>1. Init => IInv /\ PiecesFit
  BY InitIInv, InitPiecesFit
<1>2. IInv /\ PiecesFit /\ [Next]_vars => (IInv /\ PiecesFit)'
  BY NextKeeps, NextPiecesFit
<1> DEFINE A == /\ \A n \in tiles : RecordsOf(n)' = RecordsOf(n)
                /\ \A d \in 1 .. Dims : \A n \in Range(nodes[d]) :
                     \A p \in Range(n.parts) : RecordsOf(p)' = RecordsOf(p)
<1>3. IInv /\ PiecesFit /\ [Next]_vars => [A]_vars
  <2> SUFFICES ASSUME IInv, PiecesFit, Next PROVE A
    OBVIOUS
  <2>1. \A n \in Settled : RecordsOf(n)' = RecordsOf(n)
    BY StepStays DEF RecordsOf, RecordsAt, Span
  <2> QED BY <2>1 DEF Settled
<1> HIDE DEF A
<1>4. Spec => [][A]_vars
  BY <1>1, <1>2, <1>3, PTL DEF Spec
<1> QED BY <1>4 DEF RecordsStayInside, A

-----------------------------------------------------------------------------
(***************************************************************************)
(* A tile or a part stands for records of its own only. The loops read     *)
(* their used maps and hand out positions, the sorts move records: that    *)
(* the two agree is what follows, for the quadtree and for the passes      *)
(* after it.                                                               *)
(***************************************************************************)
-----------------------------------------------------------------------------
(* The invariant of the spatial pass.                                      *)

\* The record at each position.
Placed == [i \in Records |-> data[index[i]]]

\* The records at from .. to - 1 lie in the tile each key has come to.
InZooms(placed, zoom, from, to) ==
    \A k \in 0 .. Keys - 1 : zoom[k].z > 0 =>
        \A i \in from .. to - 1 :
            TileOf(placed[i], k, zoom[k].z - 1) = [x |-> zoom[k].x, y |-> zoom[k].y]

\* The child tiles of the positions a loop has left ...
TilesLeft(placed, f) ==
    LET d == NextKey(f.level)
    IN  [i \in f.accum .. f.back - 1 |-> TileOf(placed[i], d, f.zoom[d].z)]

\* ... ascend, and the map of the loop counts them.
FrameHolds(placed, f) ==
    /\ InZooms(placed, f.zoom, f.accum, f.back)
    /\ f.used = Count(TilesLeft(placed, f))
    /\ Ascends(TilesLeft(placed, f))

\* The tile of a call is the one its own key has come to.
CallHolds(placed, c) ==
    /\ InZooms(placed, c.zoom, c.front, c.back)
    /\ c.zoom[c.level % Keys] = [x |-> c.x, y |-> c.y, z |-> c.z + 1]

SpatialHolds ==
    /\ call # None => CallHolds(Placed, call)
    /\ \A i \in DOMAIN stack : FrameHolds(Placed, stack[i])

-----------------------------------------------------------------------------
(* Sorts and positions.                                                    *)

\* A sort moves records among the positions of its run, into the order of
\* their hashes.
LEMMA SortMoves ==
    ASSUME NEW index_ \in [Records -> Records],
           NEW p, p.front \in 0 .. N, p.back \in 0 .. N,
           NEW hash, NEW ix \in SortHash(index_, p, hash)
    PROVE  /\ \E f \in Bijection(Span(p), Span(p)) :
                \A i \in Span(p) : ix[i] = index_[f[i]]
           /\ \A i \in Records \ Span(p) : ix[i] = index_[i]
           /\ \A i, j \in Span(p) : i < j => hash[ix[i]] <= hash[ix[j]]
<1>1. Span(p) \subseteq Records
  BY CubeAssumption, SMT DEF Span, Records
<1>2. PICK f \in Bijection(Span(p), Span(p)) :
         ix = [i \in Records |-> IF i \in Span(p) THEN index_[f[i]] ELSE index_[i]]
  BY Zenon DEF SortHash, Rearranged
<1>3. \A i, j \in Span(p) : i < j => hash[ix[i]] <= hash[ix[j]]
  BY Zenon DEF SortHash
<1>4. \A i \in Span(p) : ix[i] = index_[f[i]]
  BY <1>1, <1>2
<1>5. \A i \in Records \ Span(p) : ix[i] = index_[i]
  BY <1>2
<1> QED BY <1>3, <1>4, <1>5

\* The record at a position is one of the dataset.
LEMMA PlacedRecord ==
    ASSUME IInv, NEW i \in Records
    PROVE  Placed[i] = data[index[i]] /\ Placed[i] \in Record
<1>1. index[i] \in Records /\ data \in Datasets
  BY DEF IInv, TypeOK
<1>2. data[index[i]] \in Record
  BY <1>1, RecordOf
<1> QED BY <1>2 DEF Placed

\* Positions between two bounds of the dataset.
LEMMA InRecords ==
    ASSUME NEW a \in 0 .. N, NEW b \in 0 .. N, NEW i \in a .. b - 1
    PROVE  i \in Records
BY CubeAssumption, SMT DEF Records

\* What holds of a run of positions goes on doing so while none of its
\* records move.
LEMMA ZoomsLocal ==
    ASSUME NEW f, NEW g, NEW zoom, NEW from, NEW to,
           InZooms(f, zoom, from, to), \A i \in from .. to - 1 : g[i] = f[i]
    PROVE  InZooms(g, zoom, from, to)
BY DEF InZooms

LEMMA FrameLocal ==
    ASSUME NEW f, NEW g, NEW frame, FrameHolds(f, frame),
           \A i \in frame.accum .. frame.back - 1 : g[i] = f[i]
    PROVE  FrameHolds(g, frame)
<1>1. TilesLeft(g, frame) = TilesLeft(f, frame)
  BY DEF TilesLeft
<1>2. InZooms(g, frame.zoom, frame.accum, frame.back)
  BY ZoomsLocal DEF FrameHolds
<1> QED BY <1>1, <1>2 DEF FrameHolds

\* The single tile of zoom 0.
LEMMA RootTile ==
    ASSUME NEW record \in Record, NEW k \in 0 .. Keys - 1
    PROVE  TileOf(record, k, 0) = [x |-> 0, y |-> 0]
<1> DEFINE w == 2^MaxZoom
<1>1. w \in Nat \ {0} /\ MaxZoom - 0 = MaxZoom
  BY CubeAssumption, PowerOfTwo
<1>2. record.at[k] \in [x : 0 .. w - 1, y : 0 .. w - 1]
  BY DEF Record, Point
<1>3. TileOf(record, k, 0) = [x |-> record.at[k].x \div w, y |-> record.at[k].y \div w]
  BY <1>1, Zenon DEF TileOf
<1> HIDE DEF w
<1>4. record.at[k].x \div w = 0 /\ record.at[k].y \div w = 0
  <2>1. \A n \in 0 .. w - 1 : n \div w = 0
    <3> SUFFICES ASSUME NEW n \in 0 .. w - 1 PROVE n \div w = 0
      OBVIOUS
    <3>1. n \in Nat /\ n < w /\ w \in Nat \ {0}
      BY <1>1
    <3> QED BY <3>1, SMT
  <2> QED BY <1>2, <2>1
<1> QED BY <1>3, <1>4

\* Records that share the tile a key has come to are in sibling tiles one
\* zoom below it.
LEMMA Siblings ==
    ASSUME NEW r \in Record, NEW q \in Record, NEW k \in 0 .. Keys - 1,
           NEW z \in Nat, z <= MaxZoom,
           z > 0 => TileOf(r, k, z - 1) = TileOf(q, k, z - 1)
    PROVE  /\ TileOf(r, k, z).x \div 2 = TileOf(q, k, z).x \div 2
           /\ TileOf(r, k, z).y \div 2 = TileOf(q, k, z).y \div 2
<1>1. CASE z = 0
  <2>1. TileOf(r, k, z) = TileOf(q, k, z)
    BY <1>1, RootTile
  <2> QED BY <2>1
<1>2. CASE z # 0
  <2>1. z - 1 \in Nat /\ z - 1 < MaxZoom /\ (z - 1) + 1 = z /\ z > 0
    BY <1>2, CubeAssumption
  <2>2. /\ TileOf(r, k, z - 1).x = TileOf(r, k, (z - 1) + 1).x \div 2
        /\ TileOf(r, k, z - 1).y = TileOf(r, k, (z - 1) + 1).y \div 2
        /\ TileOf(q, k, z - 1).x = TileOf(q, k, (z - 1) + 1).x \div 2
        /\ TileOf(q, k, z - 1).y = TileOf(q, k, (z - 1) + 1).y \div 2
    BY <2>1, TileHalves
  <2>3. TileOf(r, k, z - 1) = TileOf(q, k, z - 1)
    BY <2>1
  <2> QED BY <2>1, <2>2, <2>3, Zenon
<1> QED BY <1>1, <1>2

-----------------------------------------------------------------------------
(* Every step of the spatial pass keeps its invariant.                     *)

\* What a split turns its call into: the loop over its children.
FrameOf(c) == [level |-> c.level, back |-> c.back, zoom |-> c.zoom,
               accum |-> c.front, used |-> Count(ChildTile(c))]

\* The sort by quadrant puts the child tiles in order, and the map counted
\* before it counts them still.
LEMMA SplitSorts ==
    ASSUME IInv, call # None, call.level < MaxZoom * Keys,
           InZooms(Placed, call.zoom, call.front, call.back),
           NEW ix \in SortHash(index, call,
                 [r \in Records |->
                    SetHash(GetIndex(TileOf(data[r], NextKey(call.level),
                                            call.zoom[NextKey(call.level)].z)))])
    PROVE  FrameHolds([i \in Records |-> data[ix[i]]], FrameOf(call))
<1> DEFINE d == NextKey(call.level)
           z == call.zoom[d].z
           hash == [r \in Records |-> SetHash(GetIndex(TileOf(data[r], d, z)))]
           new == [i \in Records |-> data[ix[i]]]
           D == Span(call)
           t == ChildTile(call)
           left == TilesLeft(new, FrameOf(call))
<1>1. /\ call \in Calls /\ call.front \in 0 .. N /\ call.back \in 0 .. N
      /\ index \in [Records -> Records] /\ IsInjective(index) /\ data \in Datasets
  BY DEF IInv, TypeOK, Calls
<1>2. d \in 0 .. Keys - 1 /\ z \in Nat /\ z <= MaxZoom
  <2>1. call.level \in Nat /\ call.zoom \in KeyZooms /\ ZoomsFit(call.level, call.zoom)
    BY <1>1 DEF Calls, IInv, CallFits
  <2>2. d \in 0 .. Keys - 1
    BY <2>1, Sizes, SMT DEF NextKey
  <2>3. z \in Nat /\ z * Keys <= call.level + Keys - d
    BY <2>1, <2>2 DEF KeyZooms, ZoomsFit
  <2> QED BY <2>1, <2>2, <2>3, ZoomStep, SMT
<1>3. /\ \E f \in Bijection(D, D) : \A i \in D : ix[i] = index[f[i]]
      /\ \A i, j \in D : i < j => hash[ix[i]] <= hash[ix[j]]
  <2> ix \in SortHash(index, call, hash)
    OBVIOUS
  <2> HIDE DEF hash
  <2> QED BY <1>1, SortMoves, SMT
<1>4. PICK f \in Bijection(D, D) : \A i \in D : ix[i] = index[f[i]]
  BY <1>3
<1>5. ix \in [Records -> Records]
  BY <1>1, SortKeeps, SMT
<1>6. \A i \in D : i \in Records
  BY <1>1, InRecords DEF Span
<1>7. \A i \in D : f[i] \in D
  BY DEF Bijection, Injection
<1>8. D = call.front .. call.back - 1
  BY DEF Span
<1> HIDE DEF d, z, D
<1>9. \A i \in D : new[i] = Placed[f[i]] /\ new[i] \in Record
  <2> SUFFICES ASSUME NEW i \in D PROVE new[i] = Placed[f[i]] /\ new[i] \in Record
    OBVIOUS
  <2>1. i \in Records /\ f[i] \in Records /\ ix[i] = index[f[i]]
    BY <1>4, <1>6, <1>7
  <2>2. Placed[f[i]] = data[index[f[i]]] /\ Placed[f[i]] \in Record
    BY <2>1, PlacedRecord
  <2> QED BY <2>1, <2>2
<1>10. /\ DOMAIN left = D
       /\ \A i \in D : left[i] = TileOf(new[i], d, z)
  BY <1>8 DEF TilesLeft, FrameOf, d, z
<1>11. /\ DOMAIN t = D
       /\ \A i \in D : t[i] = TileOf(data[index[i]], d, z)
  BY DEF ChildTile, d, z, D
<1>12. left = [i \in D |-> t[f[i]]]
  <2>1. ASSUME NEW i \in D PROVE left[i] = t[f[i]]
    <3>1. ix[i] = index[f[i]] /\ i \in Records /\ f[i] \in D
      BY <1>4, <1>6, <1>7
    <3>2. new[i] = data[index[f[i]]]
      BY <3>1
    <3> HIDE DEF new, t, left
    <3> QED BY <1>10, <1>11, <3>1, <3>2
  <2>2. left = [i \in DOMAIN left |-> left[i]]
    BY DEF TilesLeft
  <2> HIDE DEF left, t
  <2> QED BY <1>10, <2>1, <2>2
<1> HIDE DEF left, t, new
<1>13. FrameOf(call).used = Count(left)
  <2>1. IsFiniteSet(D)
    <3>1. call.front \in Int /\ call.back \in Int
      BY <1>1
    <3> QED BY <1>8, <3>1, SpanFinite
  <2>2. Count([i \in D |-> t[f[i]]]) = Count(t)
    BY <1>11, <2>1, CountMoved
  <2>3. FrameOf(call).used = Count(t)
    BY DEF FrameOf, t
  <2> QED BY <1>12, <2>2, <2>3, Zenon
<1>14. InZooms(new, call.zoom, call.front, call.back)
  BY <1>7, <1>8, <1>9 DEF InZooms
<1>15. Ascends(left)
  <2> SUFFICES ASSUME NEW i \in D, NEW j \in D, i < j
               PROVE  TileBefore(left[i], left[j])
    BY <1>10 DEF Ascends
  <2>1. /\ left[i] = TileOf(new[i], d, z) /\ left[j] = TileOf(new[j], d, z)
        /\ new[i] \in Record /\ new[j] \in Record
    BY <1>9, <1>10
  <2>2. left[i] \in Tile /\ left[j] \in Tile
    BY <1>2, <2>1, TileType
  <2>3. GetIndex(left[i]) <= GetIndex(left[j])
    <3>1. hash[ix[i]] <= hash[ix[j]]
      BY <1>3
    <3>2. /\ ix[i] \in Records /\ ix[j] \in Records
          /\ data[ix[i]] = new[i] /\ data[ix[j]] = new[j]
      BY <1>5, <1>6 DEF new
    <3>3. /\ hash[ix[i]] = SetHash(GetIndex(left[i]))
          /\ hash[ix[j]] = SetHash(GetIndex(left[j]))
      BY <2>1, <3>2
    <3>4. \A tile \in Tile : SetHash(GetIndex(tile)) = GetIndex(tile)
      <4> SUFFICES ASSUME NEW tile \in Tile
                   PROVE  SetHash(GetIndex(tile)) = GetIndex(tile)
        OBVIOUS
      <4>1. GetIndex(tile) \in 0 .. 3
        <5>1. tile.x \in Nat /\ tile.y \in Nat
          BY DEF Tile
        <5> QED BY <5>1, SMT DEF GetIndex
      <4>2. HashMod \in Nat /\ HashMod >= 4
        BY CubeAssumption
      <4>3. \A n \in 0 .. 3 : n % HashMod = n
        BY <4>2, SMT
      <4> QED BY <4>1, <4>3 DEF SetHash
    <3> HIDE DEF hash
    <3> QED BY <2>2, <3>1, <3>3, <3>4
  <2>4. z > 0 => TileOf(new[i], d, z - 1) = TileOf(new[j], d, z - 1)
    BY <1>2, <1>8, <1>14 DEF InZooms, z
  <2>5. /\ left[i].x \div 2 = left[j].x \div 2
        /\ left[i].y \div 2 = left[j].y \div 2
    <3>1. /\ TileOf(new[i], d, z).x \div 2 = TileOf(new[j], d, z).x \div 2
          /\ TileOf(new[i], d, z).y \div 2 = TileOf(new[j], d, z).y \div 2
      BY <1>2, <2>1, <2>4, Siblings
    <3> QED BY <2>1, <3>1, Zenon
  <2> QED BY <2>2, <2>3, <2>5, SiblingOrder DEF Tile
<1>16. InZooms(new, FrameOf(call).zoom, FrameOf(call).accum, FrameOf(call).back)
  BY <1>14 DEF FrameOf
<1>17. FrameHolds(new, FrameOf(call))
  BY <1>13, <1>15, <1>16 DEF FrameHolds, left
<1> QED BY <1>17 DEF new

LEMMA SplitTileHolds ==
    ASSUME IInv, SpatialHolds, SplitTile
    PROVE  SpatialHolds'
<1> USE DEF SplitTile, spatialVars, nodeVars
<1>1. /\ call \in Calls /\ call.front \in 0 .. N /\ call.back \in 0 .. N
      /\ index \in [Records -> Records] /\ stack \in Seq(Frames)
  BY DEF IInv, TypeOK, Calls
<1>2. PICK hash : index' \in SortHash(index, call, hash)
  OBVIOUS
<1>3. FrameHolds(Placed', FrameOf(call))
  <2>1. CallHolds(Placed, call)
    BY DEF SpatialHolds
  <2>2. InZooms(Placed, call.zoom, call.front, call.back)
    BY <2>1 DEF CallHolds
  <2>3. FrameHolds([i \in Records |-> data[index'[i]]], FrameOf(call))
    BY <2>2, SplitSorts, Zenon
  <2>4. Placed' = [i \in Records |-> data[index'[i]]]
    BY DEF Placed
  <2> QED BY <2>3, <2>4, Zenon
<1>4. /\ stack' = Append(stack, FrameOf(call))
      /\ DOMAIN stack' = 1 .. Len(stack) + 1
      /\ DOMAIN stack = 1 .. Len(stack)
      /\ \A i \in DOMAIN stack : stack'[i] = stack[i]
      /\ stack'[Len(stack) + 1] = FrameOf(call)
  <2>1. stack' = Append(stack, FrameOf(call))
    BY DEF FrameOf
  <2> HIDE DEF SplitTile
  <2> QED BY <1>1, <2>1
<1>5. ASSUME NEW i \in DOMAIN stack PROVE FrameHolds(Placed', stack[i])
  <2>1. FrameHolds(Placed, stack[i])
    BY DEF SpatialHolds
  <2>2. call.back <= stack[i].accum /\ stack[i].accum \in 0 .. N /\ stack[i].back \in 0 .. N
    <3>1. stack # << >>
      BY <1>1
    <3>2. call.back = Top.accum
      BY <3>1 DEF IInv, CallFits
    <3>3. stack[i] \in Frames
      BY <1>1
    <3> QED BY <3>1, <3>2, <3>3, StackBehind DEF Frames
  <2>3. ASSUME NEW j \in stack[i].accum .. stack[i].back - 1
        PROVE  Placed'[j] = Placed[j]
    <3>1. j \in Records
      BY <2>2, InRecords
    <3>2. j \notin Span(call)
      BY <1>1, <2>2 DEF Span
    <3>3. index'[j] = index[j]
      <4> HIDE DEF SplitTile
      <4> QED BY <1>1, <1>2, <3>1, <3>2, SortMoves, SMT
    <3> QED BY <3>1, <3>3 DEF Placed
  <2> QED BY <2>1, <2>3, FrameLocal
<1>6. call' = None
  OBVIOUS
<1>7. \A i \in DOMAIN stack' : i \in DOMAIN stack \/ i = Len(stack) + 1
  BY <1>1, <1>4
<1> QED BY <1>3, <1>4, <1>5, <1>6, <1>7 DEF SpatialHolds

\* A child takes the positions of its tile, and leaves the rest to the loop.
LEMMA NextChildHolds ==
    ASSUME IInv, SpatialHolds, NextChild
    PROVE  SpatialHolds'
<1> USE DEF NextChild, nodeVars
<1> DEFINE d == NextKey(Top.level)
           z == Top.zoom[d].z
           entry == CHOOSE e \in Top.used :
                      \A f \in Top.used : TileBefore(e.key, f.key)
           t == entry.key
           b == Top.accum + entry.count
           zoom == [Top.zoom EXCEPT ![d] = [x |-> t.x, y |-> t.y, z |-> z + 1]]
           c == [level |-> Top.level + 1, front |-> Top.accum,
                 back |-> b, x |-> t.x, y |-> t.y, z |-> z, zoom |-> zoom]
           G == [Top EXCEPT !.accum = b, !.used = @ \ {entry}]
           left == TilesLeft(Placed, Top)
<1>1. /\ stack \in Seq(Frames) /\ Len(stack) \in DOMAIN stack /\ Top \in Frames
      /\ FrameFits(Top) /\ FrameHolds(Placed, Top)
  <2>1. stack \in Seq(Frames) /\ stack # << >> /\ StackNests
    BY DEF IInv, TypeOK
  <2>2. Len(stack) \in DOMAIN stack
    BY <2>1
  <2>3. Top \in Frames
    BY <2>1, <2>2 DEF Top
  <2> QED BY <2>1, <2>2, <2>3 DEF StackNests, SpatialHolds, Top
<1>2. /\ Top.level \in Nat /\ Top.zoom \in KeyZooms
      /\ Top.accum \in 0 .. N /\ Top.back \in 0 .. N /\ Top.accum <= Top.back
      /\ Top.accum \in Int /\ Top.back \in Int
      /\ Top.used \in UsedMaps(Tile)
  BY <1>1, Sizes, SMT DEF Frames, FrameFits
<1>3. d \in 0 .. Keys - 1 /\ z \in Nat /\ z <= MaxZoom
  <2>1. d \in 0 .. Keys - 1
    BY <1>2, Sizes, SMT DEF NextKey
  <2>2. z \in Nat /\ z * Keys <= Top.level + Keys - d
    BY <1>1, <1>2, <2>1 DEF KeyZooms, FrameFits, ZoomsFit
  <2>3. Top.level < MaxZoom * Keys
    BY <1>1 DEF FrameFits
  <2> QED BY <1>2, <2>1, <2>2, <2>3, ZoomStep, SMT
<1>4. entry \in Top.used /\ \A f \in Top.used : TileBefore(entry.key, f.key)
  <2>1. \E e \in Top.used : \A f \in Top.used : TileBefore(e.key, f.key)
    BY <1>2, FirstTile, Zenon DEF UsedMaps, Tile
  <2> QED BY <2>1, Zenon
<1>5. t \in Tile
  BY <1>2, <1>4 DEF UsedMaps
<1>6. \A i \in Top.accum .. Top.back - 1 : i \in Records /\ Placed[i] \in Record
  BY <1>2, InRecords, PlacedRecord
<1>7. left \in [Top.accum .. Top.back - 1 -> Tile]
  <2>1. \A i \in Top.accum .. Top.back - 1 : TileOf(Placed[i], d, z) \in Tile
    <3> HIDE DEF d, z, NextChild
    <3> QED BY <1>3, <1>6, TileType
  <2> QED BY <2>1 DEF TilesLeft
<1>8. Top.used = Count(left) /\ Ascends(left)
  BY <1>1 DEF FrameHolds
<1> HIDE DEF entry, left, NextChild
<1>9. /\ b \in Int /\ Top.accum < b /\ b <= Top.back
      /\ \A i \in Top.accum .. b - 1 : left[i] = t
      /\ Count(left) \ {entry} = Count([i \in b .. Top.back - 1 |-> left[i]])
  <2>1. left \in [Top.accum .. Top.back - 1 -> [x : Nat, y : Nat]]
    BY <1>7 DEF Tile
  <2>2. entry \in Count(left) /\ \A f \in Count(left) : TileBefore(entry.key, f.key)
    BY <1>4, <1>8
  <2>3. Ascends(left)
    BY <1>8
  <2>4. Top.accum \in Int /\ Top.back \in Int /\ Top.accum <= Top.back
    BY <1>2
  <2> HIDE DEF b, t
  <2>5. TakesFirst(entry, left, Top.accum, Top.back)
    BY <2>1, <2>2, <2>3, <2>4, FirstTileRun, Zenon
  <2> QED BY <2>5 DEF TakesFirst, b, t
<1>10. call' = c /\ stack' = [stack EXCEPT ![Len(stack)] = G]
  BY DEF NextChild, SetTop, entry
<1>11. /\ G.level = Top.level /\ G.zoom = Top.zoom /\ G.back = Top.back
       /\ G.accum = b /\ G.used = Top.used \ {entry}
  BY <1>1 DEF Frames
<1>12. G \in Frames
  <2>1. b \in 0 .. N
    <3> HIDE DEF b
    <3> QED BY <1>2, <1>9, Sizes
  <2> HIDE DEF b
  <2> QED BY <1>1, <1>2, <2>1 DEF Frames, UsedMaps
<1>13. FrameHolds(Placed, G)
  <2>1. TilesLeft(Placed, G) = [i \in b .. Top.back - 1 |-> left[i]]
    <3>1. /\ TilesLeft(Placed, G) = [i \in b .. Top.back - 1 |-> TileOf(Placed[i], d, z)]
          /\ left = [i \in Top.accum .. Top.back - 1 |-> TileOf(Placed[i], d, z)]
      <4> HIDE DEF G
      <4> QED BY <1>11, Zenon DEF TilesLeft, left
    <3>2. \A i \in b .. Top.back - 1 : i \in Top.accum .. Top.back - 1
      BY <1>2, <1>9
    <3>3. \A i \in b .. Top.back - 1 : left[i] = TileOf(Placed[i], d, z)
      BY <3>1, <3>2
    <3> HIDE DEF G, b, d, z
    <3> QED BY <3>1, <3>3
  <2>2. G.used = Count(TilesLeft(Placed, G))
    BY <1>8, <1>9, <1>11, <2>1, Zenon
  <2>3. Ascends(TilesLeft(Placed, G))
    <3>1. \A i \in b .. Top.back - 1 : i \in DOMAIN left
      BY <1>2, <1>7, <1>9
    <3> HIDE DEF G, b
    <3> QED BY <1>8, <2>1, <3>1 DEF Ascends
  <2>4. InZooms(Placed, G.zoom, G.accum, G.back)
    <3>1. InZooms(Placed, Top.zoom, Top.accum, Top.back)
      BY <1>1 DEF FrameHolds
    <3>2. \A i \in b .. Top.back - 1 : i \in Top.accum .. Top.back - 1
      BY <1>2, <1>9
    <3>3. InZooms(Placed, Top.zoom, b, Top.back)
      <4> HIDE DEF b
      <4> QED BY <3>1, <3>2 DEF InZooms
    <3> QED BY <1>11, <3>3, Zenon
  <2> QED BY <2>2, <2>3, <2>4 DEF FrameHolds
<1>14. CallHolds(Placed, c)
  <2>1. InZooms(Placed, zoom, Top.accum, b)
    <3> SUFFICES ASSUME NEW k \in 0 .. Keys - 1, zoom[k].z > 0,
                        NEW i \in Top.accum .. b - 1
                 PROVE  TileOf(Placed[i], k, zoom[k].z - 1)
                          = [x |-> zoom[k].x, y |-> zoom[k].y]
      BY DEF InZooms
    <3>1. i \in Top.accum .. Top.back - 1
      BY <1>2, <1>9
    <3>2. CASE k = d
      <4>1. zoom[k] = [x |-> t.x, y |-> t.y, z |-> z + 1]
        BY <1>2, <1>3, <3>2 DEF KeyZooms
      <4>2. zoom[k].z - 1 = z /\ zoom[k].x = t.x /\ zoom[k].y = t.y
        <5> HIDE DEF zoom, z, t
        <5> QED BY <1>3, <4>1 
      <4>3. TileOf(Placed[i], d, z) = t
        BY <1>9, <3>1 DEF left, TilesLeft
      <4>4. t = [x |-> t.x, y |-> t.y]
        BY <1>5 DEF Tile
      <4> QED BY <3>2, <4>2, <4>3, <4>4, Zenon
    <3>3. CASE k # d
      <4>1. zoom[k] = Top.zoom[k]
        BY <1>2, <3>3 DEF KeyZooms
      <4>2. InZooms(Placed, Top.zoom, Top.accum, Top.back)
        BY <1>1 DEF FrameHolds
      <4> HIDE DEF zoom
      <4> QED BY <3>1, <4>1, <4>2 DEF InZooms
    <3> QED BY <3>2, <3>3
  <2>2. zoom[d] = [x |-> t.x, y |-> t.y, z |-> z + 1]
    BY <1>2, <1>3 DEF KeyZooms
  <2>3. /\ c.zoom = zoom /\ c.front = Top.accum /\ c.back = b
        /\ c.x = t.x /\ c.y = t.y /\ c.z = z /\ c.level % Keys = d
    BY DEF NextKey
  <2> HIDE DEF c, zoom, d, z, t, b
  <2> QED BY <2>1, <2>2, <2>3 DEF CallHolds
<1>15. Placed' = Placed
  BY DEF Placed, NextChild
<1>16. \A i \in DOMAIN stack' : stack'[i] = G \/ (i \in DOMAIN stack /\ stack'[i] = stack[i])
  <2> DEFINE new == [stack EXCEPT ![Len(stack)] = G]
  <2> HIDE DEF G
  <2>1. /\ DOMAIN new = DOMAIN stack /\ new[Len(stack)] = G
        /\ \A i \in 1 .. Len(stack) - 1 : new[i] = stack[i]
    BY <1>1, <1>12, ReplaceLast, SMT
  <2>2. \A i \in DOMAIN stack : i = Len(stack) \/ i \in 1 .. Len(stack) - 1
    BY <1>1
  <2>3. stack' = new
    BY <1>10
  <2> HIDE DEF new
  <2> QED BY <2>1, <2>2, <2>3
<1>17. CallHolds(Placed', call')
  BY <1>10, <1>14, <1>15, Zenon
<1>18. ASSUME NEW i \in DOMAIN stack' PROVE FrameHolds(Placed', stack'[i])
  <2>1. CASE stack'[i] = G
    BY <1>13, <1>15, <2>1, Zenon
  <2>2. CASE i \in DOMAIN stack /\ stack'[i] = stack[i]
    BY <1>15, <2>2, Zenon DEF SpatialHolds
  <2> QED BY <1>16, <2>1, <2>2
<1> HIDE DEF G, c
<1> QED BY <1>17, <1>18 DEF SpatialHolds

\* A return leaves the outer loops alone.
LEMMA ReturnTileHolds ==
    ASSUME IInv, SpatialHolds, ReturnTile
    PROVE  SpatialHolds'
<1> USE DEF ReturnTile, nodeVars
<1> DEFINE t == SubSeq(stack, 1, Len(stack) - 1)
<1>1. \A i \in DOMAIN t : i \in DOMAIN stack /\ t[i] = stack[i]
  <2>1. stack \in Seq(Frames)
    BY DEF IInv, TypeOK
  <2> QED BY <2>1, DropLast, Zenon
<1>2. stack' = t /\ call' = None /\ Placed' = Placed
  BY DEF Placed
<1> HIDE DEF t
<1> QED BY <1>1, <1>2 DEF SpatialHolds

\* A leaf leaves them alone, too.
LEMMA LeafTileHolds ==
    ASSUME IInv, SpatialHolds, LeafTile
    PROVE  SpatialHolds'
<1>1. stack' = stack /\ call' = None /\ Placed' = Placed
  BY DEF LeafTile, nodeVars, Placed
<1> QED BY <1>1 DEF SpatialHolds

\* The later passes find no call and no loop of the spatial one.
LEMMA LaterStepHolds ==
    ASSUME IInv, IInv', SpatialHolds, OpenNode \/ EmplacePart \/ SortNode \/ EndPass
    PROVE  SpatialHolds'
<1>1. call' = None /\ stack' = << >>
  <2>1. CASE OpenNode \/ EmplacePart \/ SortNode
    <3>1. call' = call /\ stack' = stack /\ stage' = stage
      BY <2>1 DEF OpenNode, EmplacePart, SortNode, spatialVars
    <3>2. stage \in 1 .. Dims
      BY <2>1 DEF OpenNode, EmplacePart, SortNode, IInv, NodeFits
    <3> QED BY <3>1, <3>2, Sizes DEF IInv, Phases
  <2>2. CASE EndPass
    BY <2>2 DEF EndPass, spatialVars
  <2> QED BY <2>1, <2>2
<1> QED BY <1>1 DEF SpatialHolds

\* The root call holds the single tile of zoom 0.
LEMMA InitSpatialHolds ==
    ASSUME Init
    PROVE  SpatialHolds
<1>1. IInv
  BY InitIInv
<1>2. stack = << >> /\ (call # None => call = RootCall)
  BY DEF Init
<1>3. CallHolds(Placed, RootCall)
  <2> DEFINE zoom == [k \in 0 .. Keys - 1 |->
                        [x |-> 0, y |-> 0, z |-> IF k = 0 THEN 1 ELSE 0]]
  <2>1. /\ RootCall.zoom = zoom /\ RootCall.front = 0 /\ RootCall.back = N
        /\ RootCall.level = 0 /\ RootCall.x = 0 /\ RootCall.y = 0 /\ RootCall.z = 0
    BY DEF RootCall
  <2>2. 0 \in 0 .. Keys - 1 /\ 0 % Keys = 0
    BY Sizes, SMT
  <2>3. InZooms(Placed, zoom, 0, N)
    <3> SUFFICES ASSUME NEW k \in 0 .. Keys - 1, zoom[k].z > 0,
                        NEW i \in 0 .. N - 1
                 PROVE  TileOf(Placed[i], k, zoom[k].z - 1)
                          = [x |-> zoom[k].x, y |-> zoom[k].y]
      BY DEF InZooms
    <3>1. Placed[i] \in Record
      BY <1>1, PlacedRecord DEF Records
    <3>2. zoom[k].z - 1 = 0 /\ zoom[k].x = 0 /\ zoom[k].y = 0
      OBVIOUS
    <3> HIDE DEF zoom
    <3> QED BY <3>1, <3>2, RootTile, Zenon
  <2>4. zoom[0] = [x |-> 0, y |-> 0, z |-> 0 + 1]
    BY <2>2
  <2> HIDE DEF zoom
  <2> QED BY <2>1, <2>2, <2>3, <2>4 DEF CallHolds
<1> QED BY <1>2, <1>3 DEF SpatialHolds

LEMMA NextSpatialHolds ==
    ASSUME IInv, SpatialHolds, [Next]_vars
    PROVE  SpatialHolds'
<1>1. CASE SplitTile
  BY <1>1, SplitTileHolds
<1>2. CASE NextChild
  BY <1>2, NextChildHolds
<1>3. CASE LeafTile
  BY <1>3, LeafTileHolds
<1>4. CASE ReturnTile
  BY <1>4, ReturnTileHolds
<1>5. CASE OpenNode \/ EmplacePart \/ SortNode \/ EndPass
  BY <1>5, NextKeeps, LaterStepHolds
<1>6. CASE UNCHANGED vars
  <2>1. stack' = stack /\ call' = call /\ Placed' = Placed
    BY <1>6 DEF vars, Placed
  <2> QED BY <2>1 DEF SpatialHolds
<1> QED BY <1>1, <1>2, <1>3, <1>4, <1>5, <1>6 DEF Next

-----------------------------------------------------------------------------
(* How deep the recursion goes.                                            *)

\* Each key is split once every Keys levels, and not less often.
ZoomsReach(level, zoom) ==
    \A k \in 0 .. Keys - 1 : (zoom[k].z + 1) * Keys > level + Keys - k

LevelsReach ==
    /\ call # None => /\ call.level <= MaxZoom * Keys
                      /\ ZoomsReach(call.level, call.zoom)
    /\ \A i \in DOMAIN stack : ZoomsReach(stack[i].level, stack[i].zoom)

\* A split by the key whose turn it is keeps the zooms in step.
LEMMA ReachStep ==
    ASSUME NEW level \in Nat, NEW k \in 0 .. Keys - 1, NEW z \in Nat,
           (z + 1) * Keys > level + Keys - k
    PROVE  /\ k = NextKey(level) => (z + 2) * Keys > (level + 1) + Keys - k
           /\ k # NextKey(level) => (z + 1) * Keys > (level + 1) + Keys - k
<1> DEFINE d == (level + 1) % Keys
           q == (level + 1) \div Keys
<1>1. Keys \in Nat \ {0}
  BY CubeAssumption
<1>2. d \in 0 .. Keys - 1 /\ q \in Nat /\ level + 1 = (Keys * q) + d
  BY <1>1, SMT
<1>3. NextKey(level) = d
  BY DEF NextKey
<1> HIDE DEF d, q
<1>4. (z + 2) * Keys = (z + 1) * Keys + Keys /\ (z + 1) * Keys \in Int
  BY <1>1, SMT
<1>5. (z + 2) * Keys > (level + 1) + Keys - k
  BY <1>1, <1>4, SMT
<1>6. ASSUME k # d PROVE (z + 1) * Keys # (level + 1) + Keys - k
  <2> SUFFICES ASSUME (z + 1) * Keys = (level + 1) + Keys - k PROVE FALSE
    OBVIOUS
  <2>1. (z + 1) * Keys = z * Keys + Keys /\ z * Keys \in Int /\ q * Keys \in Int
        /\ Keys * q = q * Keys
    BY <1>1, <1>2, SMT
  <2>2. q * Keys + d = z * Keys + k
    BY <1>1, <1>2, <2>1, SMT
  <2>3. ~(q < z)
    <3> SUFFICES ASSUME q < z PROVE FALSE
      OBVIOUS
    <3>1. (z - q - 1) * Keys >= 0
      BY <1>1, <1>2, SMT
    <3>2. (z - q - 1) * Keys = z * Keys - q * Keys - Keys
      BY <1>1, <1>2, SMT
    <3> QED BY <1>1, <1>2, <2>1, <2>2, <3>1, <3>2, SMT
  <2>4. ~(z < q)
    <3> SUFFICES ASSUME z < q PROVE FALSE
      OBVIOUS
    <3>1. (q - z - 1) * Keys >= 0
      BY <1>1, <1>2, SMT
    <3>2. (q - z - 1) * Keys = q * Keys - z * Keys - Keys
      BY <1>1, <1>2, SMT
    <3> QED BY <1>1, <1>2, <2>1, <2>2, <3>1, <3>2, SMT
  <2>5. q = z
    BY <1>2, <2>3, <2>4, SMT
  <2> QED BY <1>2, <1>6, <2>1, <2>2, <2>5, SMT
<1>7. ASSUME k # d PROVE (z + 1) * Keys > (level + 1) + Keys - k
  BY <1>1, <1>4, <1>6, <1>7, SMT
<1> QED BY <1>3, <1>5, <1>7

LEMMA InitLevelsReach ==
    ASSUME Init
    PROVE  LevelsReach
<1>1. /\ RootCall.level = 0
      /\ \A k \in 0 .. Keys - 1 : RootCall.zoom[k].z = IF k = 0 THEN 1 ELSE 0
  BY DEF RootCall
<1>2. ZoomsReach(0, RootCall.zoom) /\ 0 <= MaxZoom * Keys
  BY <1>1, Sizes, SMT DEF ZoomsReach
<1>3. stack = << >> /\ (call # None => call = RootCall)
  BY DEF Init
<1> QED BY <1>1, <1>2, <1>3 DEF LevelsReach

LEMMA NextLevelsReach ==
    ASSUME IInv, LevelsReach, [Next]_vars
    PROVE  LevelsReach'
<1>1. stack \in Seq(Frames) /\ (call = None \/ call \in Calls)
  BY DEF IInv, TypeOK
<1>2. CASE SplitTile
  <2> DEFINE F == FrameOf(call)
  <2>1. stack' = Append(stack, F) /\ call' = None /\ call # None
    BY <1>2 DEF SplitTile, FrameOf
  <2>2. ZoomsReach(F.level, F.zoom)
    BY <2>1 DEF LevelsReach, FrameOf
  <2> HIDE DEF F
  <2>3. \A i \in DOMAIN stack' : \/ stack'[i] = F
                                 \/ i \in DOMAIN stack /\ stack'[i] = stack[i]
    BY <1>1, <2>1
  <2> QED BY <2>1, <2>2, <2>3 DEF LevelsReach, ZoomsReach
<1>3. CASE NextChild
  <2> DEFINE d == NextKey(Top.level)
             zoom == call'.zoom
  <2>1. /\ stack # << >> /\ Len(stack) \in DOMAIN stack
        /\ Top \in Frames /\ FrameFits(Top) /\ Top = stack[Len(stack)]
    <3>1. stack # << >>
      BY <1>3 DEF NextChild
    <3>2. Len(stack) \in DOMAIN stack
      BY <1>1, <3>1
    <3> QED BY <1>1, <3>1, <3>2 DEF Top, IInv, StackNests
  <2>2. /\ Top.level \in Nat /\ Top.zoom \in KeyZooms
        /\ ZoomsReach(Top.level, Top.zoom) /\ Top.level < MaxZoom * Keys
    BY <2>1 DEF Frames, LevelsReach, FrameFits
  <2>3. /\ call'.level = Top.level + 1
        /\ \E x, y : zoom = [Top.zoom EXCEPT
                               ![d] = [x |-> x, y |-> y, z |-> Top.zoom[d].z + 1]]
    BY <1>3 DEF NextChild
  <2>4. \A k \in 0 .. Keys - 1 :
           zoom[k].z = IF k = d THEN Top.zoom[k].z + 1 ELSE Top.zoom[k].z
    <3>1. PICK x, y : zoom = [Top.zoom EXCEPT
                                ![d] = [x |-> x, y |-> y, z |-> Top.zoom[d].z + 1]]
      BY <2>3
    <3>2. DOMAIN Top.zoom = 0 .. Keys - 1
      BY <2>2 DEF KeyZooms
    <3> HIDE DEF zoom, d
    <3> QED BY <3>1, <3>2
  <2> HIDE DEF zoom
  <2>5. ASSUME NEW k \in 0 .. Keys - 1
        PROVE  (zoom[k].z + 1) * Keys > call'.level + Keys - k
    <3>1. Top.zoom[k].z \in Nat /\ (Top.zoom[k].z + 1) * Keys > Top.level + Keys - k
      BY <2>2 DEF KeyZooms, ZoomsReach
    <3>2. /\ k = d => (Top.zoom[k].z + 2) * Keys > (Top.level + 1) + Keys - k
          /\ k # d => (Top.zoom[k].z + 1) * Keys > (Top.level + 1) + Keys - k
      BY <2>2, <3>1, ReachStep
    <3>3. CASE k = d
      <4>1. zoom[k].z + 1 = Top.zoom[k].z + 2
        BY <2>4, <3>1, <3>3
      <4> QED BY <2>3, <3>2, <3>3, <4>1
    <3>4. CASE k # d
      <4>1. zoom[k].z + 1 = Top.zoom[k].z + 1
        BY <2>4, <3>4
      <4> QED BY <2>3, <3>2, <3>4, <4>1
    <3> QED BY <3>3, <3>4
  <2>6. ZoomsReach(call'.level, call'.zoom)
    BY <2>5 DEF ZoomsReach, zoom
  <2>7. call'.level <= MaxZoom * Keys
    <3>1. MaxZoom * Keys \in Nat
      BY Sizes, SMT
    <3> QED BY <2>2, <2>3, <3>1
  <2>8. ASSUME NEW i \in DOMAIN stack'
        PROVE  /\ i \in DOMAIN stack
               /\ stack'[i].level = stack[i].level /\ stack'[i].zoom = stack[i].zoom
    <3>1. PICK b, u : stack' = [stack EXCEPT ![Len(stack)] =
                                  [Top EXCEPT !.accum = b, !.used = u]]
      BY <1>3 DEF NextChild, SetTop
    <3>2. i \in DOMAIN stack
      BY <3>1
    <3> QED BY <1>1, <2>1, <3>1, <3>2 DEF Frames
  <2>9. ASSUME NEW i \in DOMAIN stack'
        PROVE  ZoomsReach(stack'[i].level, stack'[i].zoom)
    BY <2>8 DEF LevelsReach
  <2> QED BY <2>6, <2>7, <2>9 DEF LevelsReach, ZoomsReach
<1>4. CASE ReturnTile
  <2> DEFINE t == SubSeq(stack, 1, Len(stack) - 1)
  <2>1. stack' = t /\ call' = None /\ stack # << >>
    BY <1>4 DEF ReturnTile
  <2>2. \A i \in DOMAIN t : i \in DOMAIN stack /\ t[i] = stack[i]
    BY <1>1, <2>1, DropLast, Zenon
  <2> HIDE DEF t
  <2> QED BY <2>1, <2>2 DEF LevelsReach, ZoomsReach
<1>5. CASE LeafTile
  BY <1>5 DEF LeafTile, LevelsReach, ZoomsReach
<1>6. CASE OpenNode \/ EmplacePart \/ SortNode \/ EndPass \/ UNCHANGED vars
  <2>1. stack' = stack /\ call' = call
    BY <1>6 DEF OpenNode, EmplacePart, SortNode, EndPass, spatialVars, vars
  <2> QED BY <2>1 DEF LevelsReach, ZoomsReach
<1> QED BY <1>2, <1>3, <1>4, <1>5, <1>6 DEF Next

-----------------------------------------------------------------------------
(* Tiles hold their records.                                               *)

\* Every key has a zoom that five bits hold.
LEMMA ZoomBound ==
    ASSUME IInv, LevelsReach, call # None, NEW k \in 0 .. Keys - 1
    PROVE  call.zoom[k].z \in Nat /\ call.zoom[k].z <= MaxZoom + 1
<1>1. /\ call.level \in Nat /\ call.zoom[k].z \in Nat
      /\ call.zoom[k].z * Keys <= call.level + Keys - k
      /\ call.level <= MaxZoom * Keys
  BY DEF IInv, TypeOK, Calls, KeyZooms, CallFits, ZoomsFit, LevelsReach
<1> DEFINE z == call.zoom[k].z
<1> HIDE DEF z
<1>2. (MaxZoom + 2) * Keys = MaxZoom * Keys + 2 * Keys /\ MaxZoom * Keys \in Int
  BY Sizes, SMT
<1>3. z * Keys < (MaxZoom + 2) * Keys
  <2>1. z * Keys \in Int
    BY <1>1, Sizes, SMT DEF z
  <2> QED BY <1>1, <1>2, <2>1, Sizes, SMT DEF z
<1>4. z < MaxZoom + 2
  <2>1. z \in Int /\ MaxZoom + 2 \in Int /\ Keys \in Nat
    BY <1>1, Sizes, SMT DEF z
  <2> QED BY <1>3, <2>1, MulLess, Zenon
<1> QED BY <1>1, <1>4, Sizes, SMT DEF z

\* The records of a call lie in the tile of each of its keys.
LEMMA CallTiles ==
    ASSUME IInv, SpatialHolds, call # None, NEW k \in 0 .. Keys - 1,
           call.zoom[k].z > 0, NEW r \in RecordsAt(index, call)
    PROVE  TileOf(data[r], k, call.zoom[k].z - 1)
             = [x |-> call.zoom[k].x, y |-> call.zoom[k].y]
<1>1. call.front \in 0 .. N /\ call.back \in 0 .. N
  BY DEF IInv, TypeOK, Calls
<1>2. PICK i \in call.front .. call.back - 1 : r = index[i]
  BY DEF RecordsAt, Span
<1>3. i \in Records
  BY <1>1, InRecords
<1>4. Placed[i] = data[r]
  BY <1>2, <1>3, PlacedRecord
<1> QED BY <1>2, <1>4 DEF SpatialHolds, CallHolds, InZooms

\* A tile holds its records.
TileHolds(n, R) ==
    n.z # 31 => \A r \in R : TileOf(data[r], n.level % Keys, n.z) = [x |-> n.x, y |-> n.y]

\* The tile made of a call does ...
LEMMA CallTileHolds ==
    ASSUME IInv, SpatialHolds, call # None, NEW last
    PROVE  TileHolds(TileNode(call, last), RecordsAt(index, call))
<1> DEFINE k == call.level % Keys
<1>1. /\ call.level \in Nat /\ call.zoom \in KeyZooms /\ call.z \in Nat
  BY DEF IInv, TypeOK, Calls
<1>2. k \in 0 .. Keys - 1
  BY <1>1, Sizes, SMT
<1>3. call.zoom[k] = [x |-> call.x, y |-> call.y, z |-> call.z + 1]
  BY DEF SpatialHolds, CallHolds
<1>4. /\ call.zoom[k].z > 0 /\ call.zoom[k].z - 1 = call.z
      /\ call.zoom[k].x = call.x /\ call.zoom[k].y = call.y
  BY <1>1, <1>3
<1> HIDE DEF k
<1>5. \A r \in RecordsAt(index, call) : TileOf(data[r], k, call.z) = [x |-> call.x, y |-> call.y]
  <2> TAKE r \in RecordsAt(index, call)
  <2>1. TileOf(data[r], k, call.zoom[k].z - 1)
             = [x |-> call.zoom[k].x, y |-> call.zoom[k].y]
    BY <1>2, <1>4, CallTiles
  <2> QED BY <1>4, <2>1, Zenon
<1> QED BY <1>5 DEF TileHolds, TileNode, k

\* ... and so do those a leaf hangs below it.
LEMMA ChainTileHolds ==
    ASSUME IInv, SpatialHolds, LevelsReach, call # None, NEW n \in ChainTiles(call)
    PROVE  /\ n.front = call.front /\ n.back = call.back
           /\ TileHolds(n, RecordsAt(index, call))
<1>1. call \in Calls
  BY DEF IInv, TypeOK
<1>2. PICK j \in 1 .. Keys - 1 :
        LET z == call.zoom[(call.level + j) % Keys]
        IN  n = TileNode([call EXCEPT !.level = @ + j, !.x = z.x,
                            !.y = z.y, !.z = (z.z - 1) % 32], TRUE)
  BY Zenon DEF ChainTiles
<1> DEFINE k == (call.level + j) % Keys
           z == call.zoom[k]
<1>3. /\ n.front = call.front /\ n.back = call.back
      /\ n.level = call.level + j /\ n.x = z.x /\ n.y = z.y /\ n.z = (z.z - 1) % 32
  BY <1>1, <1>2 DEF TileNode, Calls
<1>4. k \in 0 .. Keys - 1
  BY <1>1, Sizes, SMT DEF Calls
<1>5. z.z \in Nat /\ z.z <= 32
  <2>1. MaxZoom + 1 <= 32
    BY CubeAssumption
  <2>2. z.z \in Nat /\ z.z <= MaxZoom + 1
    BY <1>4, ZoomBound
  <2> QED BY <2>1, <2>2, Sizes
<1> HIDE DEF k
<1>6. CASE z.z = 0
  <2>1. n.z = 31
    <3>1. (0 - 1) % 32 = 31
      <4>1. \A w \in Int : w < 0 /\ w >= -32 => w % 32 = w + 32
        BY Z3
      <4>2. 0 - 1 \in Int /\ 0 - 1 < 0 /\ 0 - 1 >= -32 /\ (0 - 1) + 32 = 31
        BY SMT
      <4> QED BY <4>1, <4>2, Zenon
    <3> QED BY <1>3, <1>6, <3>1, Zenon
  <2> QED BY <1>3, <2>1 DEF TileHolds
<1>7. CASE z.z # 0
  <2>1. n.z = z.z - 1 /\ z.z > 0
    BY <1>3, <1>5, <1>7, SMT
  <2>2. \A r \in RecordsAt(index, call) :
           TileOf(data[r], k, z.z - 1) = [x |-> z.x, y |-> z.y]
    BY <1>4, <2>1, CallTiles
  <2>3. n.level % Keys = k
    BY <1>3 DEF k
  <2> HIDE DEF z
  <2> QED BY <1>3, <2>1, <2>2, <2>3 DEF TileHolds
<1> QED BY <1>6, <1>7

\* The invariants of this module and of those before it that speak of tiles.
TilesInv == IInv /\ PiecesFit /\ SpatialHolds /\ LevelsReach

LEMMA NextTilesHold ==
    ASSUME TilesInv, TilesHoldTheirRecords, [Next]_vars
    PROVE  TilesHoldTheirRecords'
<1> USE DEF TilesInv
<1>1. \A n \in tiles : TileHolds(n, RecordsAt(index, n))
  BY DEF TilesHoldTheirRecords, TileHolds, RecordsAt, RecordsOf
<1>2. /\ data' = data
      /\ \A n \in tiles : RecordsAt(index', n) = RecordsAt(index, n)
  <2>1. CASE Next
    <3>1. \A n \in Settled : RecordsAt(index', n) = RecordsAt(index, n)
      BY <2>1, StepStays
    <3>2. data' = data
      BY <2>1 DEF Next, SplitTile, NextChild, LeafTile, ReturnTile, OpenNode,
                  EmplacePart, SortNode, EndPass
    <3> QED BY <3>1, <3>2 DEF Settled
  <2>2. CASE UNCHANGED vars
    BY <2>2 DEF vars
  <2> QED BY <2>1, <2>2
<1>3. \A n \in tiles' \ tiles : TileHolds(n, RecordsAt(index', n))
  <2>1. CASE SplitTile
    <3>1. call # None /\ tiles' = tiles \cup {TileNode(call, FALSE)}
      BY <2>1 DEF SplitTile
    <3>2. TileHolds(TileNode(call, FALSE), RecordsAt(index, call))
      BY <3>1, CallTileHolds
    <3>3. RecordsAt(index', call) = RecordsAt(index, call)
      <4>1. /\ index \in [Records -> Records] /\ IsInjective(index)
            /\ call.front \in 0 .. N /\ call.back \in 0 .. N
        BY <3>1 DEF IInv, TypeOK, Calls
      <4>2. PICK hash : index' \in SortHash(index, call, hash)
        BY <2>1 DEF SplitTile
      <4> QED BY <4>1, <4>2, SortKeeps, SMT
    <3>4. RecordsAt(index', TileNode(call, FALSE)) = RecordsAt(index', call)
      BY DEF RecordsAt, Span, TileNode
    <3> QED BY <3>1, <3>2, <3>3, <3>4
  <2>2. CASE LeafTile
    <3>1. /\ call # None /\ index' = index
          /\ tiles' = tiles \cup {TileNode(call, TRUE)} \cup ChainTiles(call)
      BY <2>2 DEF LeafTile
    <3>2. /\ TileHolds(TileNode(call, TRUE), RecordsAt(index, call))
          /\ \A n \in ChainTiles(call) :
               /\ n.front = call.front /\ n.back = call.back
               /\ TileHolds(n, RecordsAt(index, call))
      BY <3>1, CallTileHolds, ChainTileHolds
    <3>3. TileNode(call, TRUE).front = call.front /\ TileNode(call, TRUE).back = call.back
      BY DEF TileNode
    <3>4. \A n : n.front = call.front /\ n.back = call.back =>
                   RecordsAt(index, n) = RecordsAt(index, call)
      BY DEF RecordsAt, Span
    <3>5. ASSUME NEW n \in tiles' \ tiles PROVE TileHolds(n, RecordsAt(index', n))
      <4>1. /\ n.front = call.front /\ n.back = call.back
            /\ TileHolds(n, RecordsAt(index, call))
        BY <3>1, <3>2, <3>3
      <4>2. RecordsAt(index', n) = RecordsAt(index, call)
        BY <3>1, <3>4, <4>1, Zenon
      <4> QED BY <4>1, <4>2, Zenon
    <3> QED BY <3>5, Zenon
  <2>3. CASE ~SplitTile /\ ~LeafTile
    <3>1. tiles' = tiles
      BY <2>3 DEF Next, NextChild, ReturnTile, OpenNode, EmplacePart, SortNode,
                  EndPass, spatialVars, vars
    <3> QED BY <3>1
  <2> QED BY <2>1, <2>2, <2>3
<1>4. \A n \in tiles' : TileHolds(n, RecordsAt(index', n))
  BY <1>1, <1>2, <1>3
<1> QED BY <1>2, <1>4 DEF TilesHoldTheirRecords, TileHolds, RecordsAt, RecordsOf, Span

\* The invariants the theorems about tiles rest on hold throughout the build.
LEMMA InitTilesInv == Init => TilesInv
BY InitIInv, InitPiecesFit, InitSpatialHolds, InitLevelsReach DEF TilesInv

LEMMA NextTilesInv == TilesInv /\ [Next]_vars => TilesInv'
BY NextKeeps, NextPiecesFit, NextSpatialHolds, NextLevelsReach DEF TilesInv

\* A tile node stands for records of its tile only, from the moment
\* TileNode::hashMultiple makes it to the end of the build: the counts of its
\* map, the order std::map iterates in and the order the quadrants are sorted
\* in agree, and no later sort brings in a record of another tile.
THEOREM TilesHold == Spec => []TilesHoldTheirRecords
<1>1. Init => TilesInv /\ TilesHoldTheirRecords
  <2>1. Init => TilesHoldTheirRecords
    BY DEF Init, TilesHoldTheirRecords
  <2> QED BY <2>1, InitTilesInv
<1>2. /\ TilesInv /\ TilesHoldTheirRecords /\ [Next]_vars
      => (TilesInv /\ TilesHoldTheirRecords)'
  BY NextTilesInv, NextTilesHold
<1> QED BY <1>1, <1>2, PTL DEF Spec

-----------------------------------------------------------------------------
(* The invariant of the later passes.                                      *)

\* Part p of a node that starts at a has the positions a sort of the values f
\* leaves to one of them.
PartCounted(f, d, a, p) ==
    \E v \in Nat : /\ p.value = LabelOf(v, d)
                   /\ p.front = a + CountBelow(f, v)
                   /\ p.back = a + CountBelow(f, v + 1)

\* The loop over the values f has come to value w.
NodeCounts(f, d, n) ==
    \E w \in Nat : /\ n.used = {e \in Count(f) : e.key >= w}
                   /\ n.accum = n.front + CountBelow(f, w)
                   /\ \A i \in DOMAIN n.parts : PartCounted(f, d, n.front, n.parts[i])

PartsCounted == node # None => NodeCounts(Values(node), stage, node)

\* The hash of a value keeps the order of the values the dataset has.
\* SetHash wraps at 2^16, so values of one dimension that span more do not.
HashesKeepOrder ==
    \A d \in 1 .. Dims : \A r, q \in Records :
        ValueOf(data[r], d) < ValueOf(data[q], d) =>
            SetHash(ValueOf(data[r], d)) < SetHash(ValueOf(data[q], d))

\* The values a node splits.
LEMMA NodeValues ==
    ASSUME IInv, NEW p, p.front \in 0 .. N, p.back \in 0 .. N, stage \in 1 .. Dims
    PROVE  /\ Values(p) \in [p.front .. p.back - 1 -> Nat]
           /\ \A i \in p.front .. p.back - 1 :
                Values(p)[i] = ValueOf(data[index[i]], stage)
<1>1. \A i \in p.front .. p.back - 1 : ValueOf(data[index[i]], stage) \in Nat
  <2> TAKE i \in p.front .. p.back - 1
  <2>1. i \in Records
    BY InRecords
  <2>2. data[index[i]] \in Record
    BY <2>1, PlacedRecord
  <2> QED BY <2>2, ValueType
<1> QED BY <1>1 DEF Values, Span

LEMMA OpenNodeCounts ==
    ASSUME IInv, OpenNode
    PROVE  PartsCounted'
<1> DEFINE p == current[pos]
           f == Values(p)
<1>1. /\ stage' = stage /\ stage \in 1 .. Dims /\ index' = index /\ data' = data
      /\ node' = [front |-> p.front, back |-> p.back, accum |-> p.front,
                  used |-> Count(f), parts |-> << >>]
  BY DEF OpenNode, spatialVars
<1>2. p.front \in 0 .. N /\ p.back \in 0 .. N
  <2>1. current \in Seq(Pivots) /\ pos \in Nat \ {0} /\ pos <= Len(current)
    BY DEF OpenNode, IInv, TypeOK
  <2>2. current[pos] \in Pivots
    BY <2>1
  <2> QED BY <2>2 DEF Pivots
<1>3. f \in [p.front .. p.back - 1 -> Nat]
  <2> HIDE DEF p
  <2> QED BY <1>1, <1>2, NodeValues
<1>4. Values(node)' = f
  BY <1>1 DEF Values, Span
<1> HIDE DEF f
<1>5. Count(f) = {e \in Count(f) : e.key >= 0}
  <2> HIDE DEF p
  <2>1. \A i \in DOMAIN f : f[i] \in Nat
    BY <1>3
  <2>2. \A e \in Count(f) : e.key \in Nat
    <3> TAKE e \in Count(f)
    <3>1. \E i \in DOMAIN f : f[i] = e.key
      BY CountWithout
    <3> QED BY <2>1, <3>1
  <2> QED BY <2>2
<1>6. CountBelow(f, 0) = 0
  <2>1. {i \in DOMAIN f : f[i] < 0} = {}
    BY <1>3
  <2> QED BY <2>1, FS_EmptySet, Zenon DEF CountBelow
<1>7. p.front = p.front + CountBelow(f, 0)
  BY <1>2, <1>6, Sizes, SMT
<1> DEFINE n == [front |-> p.front, back |-> p.back, accum |-> p.front,
                 used |-> Count(f), parts |-> << >>]
<1>8. /\ n.used = {e \in Count(f) : e.key >= 0}
      /\ n.accum = n.front + CountBelow(f, 0)
      /\ \A i \in DOMAIN n.parts : PartCounted(f, stage, n.front, n.parts[i])
  <2> HIDE DEF p
  <2> QED BY <1>5, <1>7
<1> HIDE DEF n
<1>9. NodeCounts(f, stage, n)
  BY <1>8 DEF NodeCounts
<1> QED BY <1>1, <1>4, <1>9 DEF PartsCounted, n

LEMMA EmplacePartCounts ==
    ASSUME IInv, PartsCounted, EmplacePart
    PROVE  PartsCounted'
<1> DEFINE entry == CHOOSE e \in node.used : \A g \in node.used : e.key <= g.key
           b == node.accum + entry.count
           part == [front |-> node.accum, back |-> b,
                    value |-> LabelOf(entry.key, stage)]
           n == [node EXCEPT !.accum = b, !.used = @ \ {entry},
                             !.parts = Append(@, part)]
           f == Values(node)
           a == node.front
<1>1. /\ node # None /\ node.used # {} /\ node' = n
      /\ stage' = stage /\ index' = index /\ data' = data
  BY DEF EmplacePart, spatialVars
<1>2. /\ node \in Nodes /\ stage \in 1 .. Dims
      /\ a \in 0 .. N /\ node.back \in 0 .. N /\ node.parts \in Seq(Parts)
      /\ node.used \in SUBSET [key : Nat, count : Nat \ {0}]
  BY <1>1 DEF IInv, TypeOK, NodeFits, Nodes, UsedMaps
<1>3. entry \in node.used /\ \A g \in node.used : entry.key <= g.key
  <2>1. \E e \in node.used : \A g \in node.used : e.key <= g.key
    BY <1>1, <1>2, FirstValue, Zenon
  <2> QED BY <2>1, Zenon
<1> HIDE DEF entry
<1>4. /\ n.front = a /\ n.back = node.back /\ n.accum = b
      /\ n.used = node.used \ {entry} /\ n.parts = Append(node.parts, part)
  BY <1>2 DEF Nodes
<1>5. Values(node)' = f
  <2> HIDE DEF n
  <2> QED BY <1>1, <1>4 DEF Values, Span
<1>6. f \in [a .. node.back - 1 -> Nat]
  BY <1>2, NodeValues, Zenon
<1> HIDE DEF f
<1>7. PICK w \in Nat : /\ node.used = {e \in Count(f) : e.key >= w}
                       /\ node.accum = a + CountBelow(f, w)
                       /\ \A i \in DOMAIN node.parts :
                            PartCounted(f, stage, a, node.parts[i])
  BY <1>1 DEF PartsCounted, NodeCounts, f
<1>8. /\ entry.key \in Nat /\ w <= entry.key
      /\ CountBelow(f, entry.key) = CountBelow(f, w)
      /\ CountBelow(f, entry.key + 1) = CountBelow(f, w) + entry.count
      /\ node.used \ {entry} = {g \in Count(f) : g.key >= entry.key + 1}
  <2>1. a \in Int /\ node.back \in Int
    BY <1>2, Sizes, SMT
  <2> HIDE DEF a
  <2> QED BY <1>3, <1>6, <1>7, <2>1, NextValue, SMT
<1>9. b = a + CountBelow(f, entry.key + 1) /\ node.accum = a + CountBelow(f, entry.key)
  <2>1. a \in Int /\ CountBelow(f, w) \in Int /\ entry.count \in Int
    <3>1. a \in Int /\ node.back \in Int
      BY <1>2, Sizes, SMT
    <3>2. DOMAIN f = a .. node.back - 1
      BY <1>6
    <3>3. CountBelow(f, w) \in Nat
      <4> HIDE DEF a
      <4>1. {i \in DOMAIN f : f[i] < w} \in SUBSET (a .. node.back - 1)
        BY <3>2
      <4> QED BY <3>1, <4>1, SpanFinite DEF CountBelow
    <3> QED BY <1>2, <1>3, <3>1, <3>3
  <2> HIDE DEF a
  <2> QED BY <1>7, <1>8, <2>1
<1>10. PartCounted(f, stage, a, part)
  <2>1. /\ part.value = LabelOf(entry.key, stage)
        /\ part.front = node.accum /\ part.back = b
    OBVIOUS
  <2> HIDE DEF part, a, b
  <2> QED BY <1>8, <1>9, <2>1, Zenon DEF PartCounted
<1>11. \A i \in DOMAIN n.parts : PartCounted(f, stage, a, n.parts[i])
  <2>1. \A i \in DOMAIN n.parts : \/ i \in DOMAIN node.parts /\ n.parts[i] = node.parts[i]
                                  \/ n.parts[i] = part
    <3> HIDE DEF part, n
    <3> QED BY <1>2, <1>4
  <2> HIDE DEF part, n, a
  <2> QED BY <1>7, <1>10, <2>1
<1> HIDE DEF n, a, b
<1>12. NodeCounts(f, stage, n)
  <2>1. entry.key + 1 \in Nat
    BY <1>8
  <2>2. n.used = {g \in Count(f) : g.key >= entry.key + 1}
    BY <1>4, <1>8
  <2> QED BY <1>4, <1>9, <1>11, <2>1, <2>2, Zenon DEF NodeCounts
<1> QED BY <1>1, <1>5, <1>12 DEF PartsCounted

LEMMA InitPartsCounted ==
    ASSUME Init
    PROVE  PartsCounted
BY DEF Init, PartsCounted

LEMMA NextPartsCounted ==
    ASSUME IInv, PartsCounted, [Next]_vars
    PROVE  PartsCounted'
<1>1. CASE OpenNode
  BY <1>1, OpenNodeCounts
<1>2. CASE EmplacePart
  BY <1>2, EmplacePartCounts
<1>3. CASE SplitTile \/ NextChild \/ LeafTile \/ ReturnTile
  <2>1. call # None \/ stack # << >>
    BY <1>3 DEF SplitTile, NextChild, LeafTile, ReturnTile
  <2>2. stage = 0
    BY <2>1, Sizes DEF IInv, TypeOK, Phases
  <2>3. node = None
    BY <2>2, Sizes DEF IInv, NodeFits
  <2>4. node' = node
    BY <1>3 DEF SplitTile, NextChild, LeafTile, ReturnTile, nodeVars
  <2> QED BY <2>3, <2>4 DEF PartsCounted
<1>4. CASE SortNode \/ EndPass
  BY <1>4 DEF SortNode, EndPass, PartsCounted
<1>5. CASE UNCHANGED vars
  <2>1. node' = node /\ stage' = stage /\ Values(node)' = Values(node)
    BY <1>5 DEF vars, Values
  <2> QED BY <2>1 DEF PartsCounted
<1> QED BY <1>1, <1>2, <1>3, <1>4, <1>5 DEF Next

-----------------------------------------------------------------------------
(* Parts hold their records.                                               *)

\* The sort that ends a node puts the records of value v where the counts of
\* the values say.
LEMMA SortedRun ==
    ASSUME IInv, HashesKeepOrder, node # None,
           NEW ix \in SortHash(index, node,
                 [r \in Records |-> SetHash(ValueOf(data[r], stage))]),
           NEW v \in Nat, NEW p,
           p.front = node.front + CountBelow(Values(node), v),
           p.back = node.front + CountBelow(Values(node), v + 1),
           NEW r \in RecordsAt(ix, p)
    PROVE  ValueOf(data[r], stage) = v
<1> DEFINE hash == [q \in Records |-> SetHash(ValueOf(data[q], stage))]
           a == node.front
           b == node.back
           D == Span(node)
           f == Values(node)
           new == [j \in D |-> ValueOf(data[ix[j]], stage)]
<1>1. /\ node \in Nodes /\ stage \in 1 .. Dims
      /\ a \in 0 .. N /\ b \in 0 .. N /\ a \in Int /\ b \in Int /\ a <= b
      /\ D = a .. b - 1
  <2>1. /\ node \in Nodes /\ stage \in 1 .. Dims /\ pos \in DOMAIN current
        /\ a \in 0 .. N /\ b \in 0 .. N
        /\ a = current[pos].front /\ b = current[pos].back
    BY DEF IInv, TypeOK, NodeFits, Nodes
  <2>2. Chain(current, 0, N)
    BY <2>1 DEF IInv, ResponseCovers
  <2>3. a < b
    BY <2>1, <2>2 DEF Chain
  <2>4. a \in Int /\ b \in Int
    BY <2>1, Sizes, SMT
  <2>5. a <= b
    BY <2>3, <2>4
  <2> QED BY <2>1, <2>4, <2>5 DEF Span
<1>2. /\ f \in [a .. b - 1 -> Nat]
      /\ \A j \in a .. b - 1 : f[j] = ValueOf(data[index[j]], stage)
  BY <1>1, NodeValues, SMT
<1>3. /\ \E g \in Bijection(D, D) : \A j \in D : ix[j] = index[g[j]]
      /\ \A j, k \in D : j < k => hash[ix[j]] <= hash[ix[k]]
  <2>1. ix \in SortHash(index, node, hash) /\ index \in [Records -> Records]
    BY DEF IInv, TypeOK
  <2> HIDE DEF hash
  <2> QED BY <1>1, <2>1, SortMoves, SMT
<1>4. PICK g \in Bijection(D, D) : \A j \in D : ix[j] = index[g[j]]
  BY <1>3
<1>5. \A j \in D : g[j] \in D
  BY DEF Bijection, Injection
<1>6. \A j \in D : j \in Records /\ ix[j] \in Records
  <2>1. \A j \in D : j \in Records
    BY <1>1, InRecords, Zenon
  <2>2. index \in [Records -> Records]
    BY DEF IInv, TypeOK
  <2> QED BY <1>4, <1>5, <2>1, <2>2
<1> HIDE DEF D, f, hash
<1>7. new = [j \in D |-> f[g[j]]]
  BY <1>1, <1>2, <1>4, <1>5
<1>8. new \in [a .. b - 1 -> Nat] /\ DOMAIN new = D
  BY <1>1, <1>2, <1>5, <1>7
<1>9. \A w : CountBelow(new, w) = CountBelow(f, w)
  <2> TAKE w
  <2>1. IsFiniteSet(D)
    <3> HIDE DEF a, b
    <3> QED BY <1>1, SpanFinite
  <2>2. DOMAIN f = D
    BY <1>1, <1>2
  <2> HIDE DEF new
  <2>3. CountBelow([j \in D |-> f[g[j]]], w) = CountBelow(f, w)
    BY <2>1, <2>2, BelowMoved
  <2> QED BY <1>7, <2>3, Zenon
<1>10. \A j, k \in DOMAIN new : j < k => new[j] <= new[k]
  <2> SUFFICES ASSUME NEW j \in D, NEW k \in D, j < k PROVE new[j] <= new[k]
    BY <1>8
  <2>1. /\ ix[j] \in Records /\ ix[k] \in Records
        /\ new[j] = ValueOf(data[ix[j]], stage)
        /\ new[k] = ValueOf(data[ix[k]], stage)
        /\ hash[ix[j]] <= hash[ix[k]]
    BY <1>3, <1>6
  <2>2. hash[ix[j]] = SetHash(new[j]) /\ hash[ix[k]] = SetHash(new[k])
    BY <2>1 DEF hash
  <2>3. new[k] < new[j] => SetHash(new[k]) < SetHash(new[j])
    BY <1>1, <2>1 DEF HashesKeepOrder
  <2>4. new[j] \in Nat /\ new[k] \in Nat
    BY <1>1, <1>8
  <2>5. SetHash(new[j]) \in Int /\ SetHash(new[k]) \in Int
    BY <2>4, CubeAssumption, SMT DEF SetHash
  <2> HIDE DEF new
  <2> QED BY <2>1, <2>2, <2>3, <2>4, <2>5
<1>11. p.front = a + CountBelow(f, v) /\ p.back = a + CountBelow(f, v + 1)
  BY DEF f
<1> PICK j \in Span(p) : r = ix[j]
  BY DEF RecordsAt
<1>12. j \in D /\ new[j] = v
  <2>1. /\ CountBelow(new, v) \in Nat
        /\ CountBelow(new, v + 1) \in Nat /\ a + CountBelow(new, v + 1) <= b
    <3> v + 1 \in Nat
      OBVIOUS
    <3> HIDE DEF a, b, new
    <3> QED BY <1>1, <1>8, <1>10, SortedBelow, Zenon
  <2>2. j \in a + CountBelow(new, v) .. a + CountBelow(new, v + 1) - 1
    <3> HIDE DEF new, a
    <3>1. p.front = a + CountBelow(new, v) /\ p.back = a + CountBelow(new, v + 1)
      BY <1>9, <1>11, Zenon
    <3>2. j \in p.front .. p.back - 1
      BY DEF Span
    <3>3. a \in Int
      BY <1>1
    <3> QED BY <2>1, <3>1, <3>2, <3>3, SMT
  <2>3. j \in D
    <3> HIDE DEF a, b, new
    <3> QED BY <1>1, <2>1, <2>2
  <2>4. \A k \in DOMAIN new :
          k \in a + CountBelow(new, v) .. a + CountBelow(new, v + 1) - 1
            <=> new[k] = v
    <3> HIDE DEF a, b, new
    <3>1. a \in Int /\ b \in Int /\ a <= b
      BY <1>1
    <3>2. new \in [a .. b - 1 -> Nat]
      BY <1>8
    <3> QED BY <1>10, <3>1, <3>2, SortedValues
  <2> HIDE DEF new
  <2> QED BY <1>8, <2>2, <2>3, <2>4
<1> QED BY <1>11, <1>12

\* That is where its part is.
LEMMA SortedPart ==
    ASSUME IInv, PartsCounted, HashesKeepOrder, node # None,
           NEW ix \in SortHash(index, node,
                 [r \in Records |-> SetHash(ValueOf(data[r], stage))]),
           NEW i \in DOMAIN node.parts, NEW r \in RecordsAt(ix, node.parts[i])
    PROVE  LabelOf(ValueOf(data[r], stage), stage) = node.parts[i].value
<1> DEFINE p == node.parts[i]
<1>1. PICK v \in Nat :
        /\ p.value = LabelOf(v, stage)
        /\ p.front = node.front + CountBelow(Values(node), v)
        /\ p.back = node.front + CountBelow(Values(node), v + 1)
  BY DEF PartsCounted, NodeCounts, PartCounted
<1>2. r \in RecordsAt(ix, p)
  OBVIOUS
<1> HIDE DEF p
<1>3. ValueOf(data[r], stage) = v
  BY <1>1, <1>2, SortedRun, Zenon
<1> QED BY <1>1, <1>3 DEF p

\* A part holds its records.
PartHolds(p, d, R) == \A r \in R : LabelOf(ValueOf(data[r], d), d) = p.value

\* The invariants the theorem about parts rests on.
PartsInv == IInv /\ PiecesFit /\ PartsCounted

LEMMA NextPartsHold ==
    ASSUME PartsInv, HashesKeepOrder, PartsHoldTheirRecords, [Next]_vars
    PROVE  PartsHoldTheirRecords'
<1> USE DEF PartsInv
<1>1. \A d \in 1 .. Dims : \A n \in Range(nodes[d]) : \A p \in Range(n.parts) :
        PartHolds(p, d, RecordsAt(index, p))
  BY DEF PartsHoldTheirRecords, PartHolds, RecordsAt, RecordsOf
<1>2. /\ data' = data
      /\ \A d \in 1 .. Dims : \A n \in Range(nodes[d]) : \A p \in Range(n.parts) :
           RecordsAt(index', p) = RecordsAt(index, p)
  <2>1. CASE Next
    <3>1. \A p \in Settled : RecordsAt(index', p) = RecordsAt(index, p)
      BY <2>1, StepStays
    <3>2. data' = data
      BY <2>1 DEF Next, SplitTile, NextChild, LeafTile, ReturnTile, OpenNode,
                  EmplacePart, SortNode, EndPass
    <3> QED BY <3>1, <3>2 DEF Settled
  <2>2. CASE UNCHANGED vars
    BY <2>2 DEF vars
  <2> QED BY <2>1, <2>2
<1>3. ASSUME NEW d \in 1 .. Dims, NEW n \in Range(nodes[d])', NEW p \in Range(n.parts)
      PROVE  PartHolds(p, d, RecordsAt(index', p))
  <2>1. CASE n \in Range(nodes[d])
    <3>1. /\ PartHolds(p, d, RecordsAt(index, p))
          /\ RecordsAt(index', p) = RecordsAt(index, p)
      BY <1>1, <1>2, <2>1
    <3> QED BY <3>1, Zenon
  <2>2. CASE n \notin Range(nodes[d])
    <3>1. SortNode
      BY <2>2 DEF Next, SplitTile, NextChild, LeafTile, ReturnTile, OpenNode,
                  EmplacePart, EndPass, spatialVars, nodeVars, vars
    <3>2. /\ node \in Nodes /\ stage \in 1 .. Dims /\ node.parts \in Seq(Parts)
          /\ nodes \in [1 .. Dims -> Seq([front : 0 .. N, back : 0 .. N,
                                          parts : Seq(Parts)])]
      BY <3>1 DEF SortNode, IInv, TypeOK, NodeFits, Nodes
    <3> DEFINE m == [front |-> node.front, back |-> node.back, parts |-> node.parts]
               T == [front : 0 .. N, back : 0 .. N, parts : Seq(Parts)]
    <3>3. nodes' = [nodes EXCEPT ![stage] = Append(nodes[stage], m)]
      BY <3>1 DEF SortNode
    <3>4. d = stage /\ n = m
      <4>1. d # stage => nodes'[d] = nodes[d]
        BY <3>2, <3>3
      <4>2. nodes'[stage] = Append(nodes[stage], m)
        BY <3>2, <3>3
      <4>3. d = stage
        BY <2>2, <4>1
      <4>4. m \in T /\ nodes[stage] \in Seq(T)
        BY <3>2 DEF Nodes
      <4> HIDE DEF m, T
      <4>5. Range(Append(nodes[stage], m)) = Range(nodes[stage]) \cup {m}
        BY <4>4, RangeAppend
      <4>6. Range(nodes[d])' = Range(nodes[stage]) \cup {m}
        BY <4>2, <4>3, <4>5
      <4> QED BY <2>2, <4>3, <4>6
    <3>5. PICK i \in DOMAIN node.parts : p = node.parts[i]
      <4>1. Range(node.parts) = Range(n.parts)
        BY <3>4
      <4> QED BY <3>2, <4>1, ElementsOfSeq, Zenon
    <3>6. /\ node # None
          /\ index' \in SortHash(index, node,
                 [r \in Records |-> SetHash(ValueOf(data[r], stage))])
      BY <3>1 DEF SortNode
    <3>7. \A r \in RecordsAt(index', node.parts[i]) :
            LabelOf(ValueOf(data[r], stage), stage) = node.parts[i].value
      BY <3>6, SortedPart, Zenon
    <3> QED BY <3>4, <3>5, <3>7 DEF PartHolds
  <2> QED BY <2>1, <2>2
<1> QED BY <1>2, <1>3 DEF PartsHoldTheirRecords, PartHolds, RecordsAt, RecordsOf, Span

LEMMA InitPartsInv == Init => PartsInv
BY InitIInv, InitPiecesFit, InitPartsCounted DEF PartsInv

LEMMA NextPartsInv == PartsInv /\ [Next]_vars => PartsInv'
BY NextKeeps, NextPiecesFit, NextPartsCounted DEF PartsInv

\* A part of a categorical or temporal node stands for records of its value
\* only, from the sort of its node to the end of the build: the positions the
\* loop over used hands to a value are those the sort by the hash of the
\* value fills with it, and no later sort brings in a record of another
\* value. Data::setHash keeps 16 bits, so this asks that the values of the
\* dataset keep their order there; the run rows_truncated shows a dataset
\* whose values do not.
THEOREM PartsHold == Spec => [](HashesKeepOrder => PartsHoldTheirRecords)
<1>1. Init => PartsInv /\ (HashesKeepOrder => PartsHoldTheirRecords)
  <2>1. Init => PartsHoldTheirRecords
    BY DEF Init, PartsHoldTheirRecords, Range
  <2> QED BY <2>1, InitPartsInv
<1>2. /\ PartsInv /\ (HashesKeepOrder => PartsHoldTheirRecords) /\ [Next]_vars
      => PartsInv' /\ (HashesKeepOrder => PartsHoldTheirRecords)'
  <2> SUFFICES ASSUME PartsInv, HashesKeepOrder => PartsHoldTheirRecords, [Next]_vars
               PROVE  PartsInv' /\ (HashesKeepOrder => PartsHoldTheirRecords)'
    OBVIOUS
  <2>1. data' = data
    BY DEF Next, SplitTile, NextChild, LeafTile, ReturnTile, OpenNode,
           EmplacePart, SortNode, EndPass, vars
  <2>2. HashesKeepOrder' => HashesKeepOrder
    BY <2>1 DEF HashesKeepOrder
  <2> QED BY <2>2, NextPartsInv, NextPartsHold
<1> QED BY <1>1, <1>2, PTL DEF Spec

-----------------------------------------------------------------------------
(* Passes and nodes.                                                       *)

\* The pivots of some nodes ...
Spans(S) == {Pivot(n.front, n.back) : n \in S}

\* ... of the last tiles, of the parts of a dimension ...
LastTiles == {m \in tiles : m.last}

PartSpans(d) == UNION {Spans(Range(n.parts)) : n \in Range(nodes[d])}

\* ... and of what dimension d splits.
Source(d) == IF d = 1 THEN Spans(LastTiles) ELSE PartSpans(d - 1)

\* The pivot a node stands for.
SpanOf(n) == Pivot(n.front, n.back)

\* The nodes of the pass under way are those of the first pivots of current,
\* in their order; the later dimensions have none yet.
PassAligned ==
    /\ stage = 0 => Range(response) = Spans(LastTiles)
    /\ stage \in 1 .. Dims =>
         /\ Range(response) = PartSpans(stage)
         /\ Range(current) = Source(stage)
         /\ pos <= Len(current) + 1
         /\ Len(nodes[stage]) = pos - 1
         /\ \A i \in 1 .. pos - 1 : SpanOf(nodes[stage][i]) = current[i]
    /\ \A d \in 1 .. Dims : d > stage => nodes[d] = << >>
    /\ \A d \in 1 .. Dims : \A n \in Range(nodes[d]) :
         Chain(n.parts, n.front, n.back)

\* A dimension whose pass is over.
NodeAligned(d) == Chain(nodes[d], 0, N) /\ Spans(Range(nodes[d])) = Source(d)

AlignInv == PassAligned /\ \A d \in 1 .. stage - 1 : NodeAligned(d)

LEMMA AlignImplies ==
    ASSUME IInv, AlignInv
    PROVE  NodesAligned
<1> SUFFICES ASSUME NEW d \in 1 .. stage - 1
             PROVE  /\ Chain(nodes[d], 0, N)
                    /\ \A n \in Range(nodes[d]) : Chain(n.parts, n.front, n.back)
                    /\ Spans(Range(nodes[d])) = Source(d)
  <2>1. \A d \in 1 .. stage - 1 :
          Source(d) = IF d = 1
                       THEN {Pivot(n.front, n.back) :
                               n \in {m \in tiles : m.last}}
                       ELSE UNION {{Pivot(p.front, p.back) :
                               p \in Range(n.parts)} : n \in Range(nodes[d - 1])}
    BY Zenon DEF Source, Spans, LastTiles, PartSpans
  <2>2. \A d \in 1 .. stage - 1 :
          Spans(Range(nodes[d])) = {Pivot(n.front, n.back) : n \in Range(nodes[d])}
    BY DEF Spans
  <2> QED BY <2>1, <2>2, Zenon DEF NodesAligned
<1>1. d \in 1 .. Dims
  BY Sizes DEF IInv, TypeOK
<1> QED BY <1>1 DEF AlignInv, PassAligned, NodeAligned

LEMMA InitAlign ==
    ASSUME Init
    PROVE  AlignInv
<1>1. Range(<< >>) = {}
  BY DEF Range
<1>2. Spans(LastTiles) = {}
  BY DEF Init, Spans, LastTiles
<1>3. stage = 0 /\ response = << >> /\ nodes = [d \in 1 .. Dims |-> << >>]
  BY DEF Init
<1>4. 1 .. stage - 1 = {}
  BY <1>3
<1>5. \A d \in 1 .. Dims : nodes[d] = << >>
  BY <1>3
<1>6. stage \notin 1 .. Dims
  BY <1>3
<1> QED BY <1>1, <1>2, <1>3, <1>4, <1>5, <1>6 DEF AlignInv, PassAligned

\* Steps that touch neither a node nor a tile.
LEMMA AlignUnchanged ==
    ASSUME AlignInv, stage' = stage, current' = current, response' = response,
           pos' = pos, nodes' = nodes, LastTiles' = LastTiles
    PROVE  AlignInv'
BY DEF AlignInv, PassAligned, NodeAligned, Source, PartSpans, Spans, SpanOf

\* A leaf answers the pivot of the last tiles it makes.
LEMMA LeafTileAligned ==
    ASSUME IInv, AlignInv, LeafTile
    PROVE  AlignInv'
<1>1. stage = 0 /\ call \in Calls
  <2>1. call # None
    BY DEF LeafTile
  <2> QED BY <2>1, Sizes DEF IInv, TypeOK, Phases
<1> DEFINE q == Pivot(call.front, call.back)
           new == {TileNode(call, TRUE)} \cup ChainTiles(call)
<1>2. /\ response' = Append(response, q) /\ tiles' = tiles \cup new
      /\ stage' = stage /\ nodes' = nodes
  BY DEF LeafTile, nodeVars
<1>3. \A n \in new : n.last /\ SpanOf(n) = q
  <2>1. TileNode(call, TRUE).last /\ SpanOf(TileNode(call, TRUE)) = q
    BY DEF TileNode, SpanOf
  <2>2. ASSUME NEW n \in ChainTiles(call) PROVE n.last /\ SpanOf(n) = q
    <3>1. PICK j \in 1 .. Keys - 1 :
            LET z == call.zoom[(call.level + j) % Keys]
            IN  n = TileNode([call EXCEPT !.level = @ + j, !.x = z.x,
                                !.y = z.y, !.z = (z.z - 1) % 32], TRUE)
      BY Zenon DEF ChainTiles
    <3>2. n.last /\ n.front = call.front /\ n.back = call.back
      BY <1>1, <3>1 DEF TileNode, Calls
    <3> QED BY <3>2 DEF SpanOf
  <2> QED BY <2>1, <2>2
<1>4. \E n \in new : TRUE
  OBVIOUS
<1> HIDE DEF new
<1>5. LastTiles' = LastTiles \cup new
  BY <1>2, <1>3 DEF LastTiles
<1>6. Spans(LastTiles)' = Spans(LastTiles) \cup {q}
  BY <1>3, <1>4, <1>5 DEF Spans, SpanOf
<1>7. Range(response') = Range(response) \cup {q}
  <2>1. response \in Seq(Pivots) /\ q \in Pivots
    BY <1>1 DEF IInv, TypeOK, Pivots, Pivot, Calls
  <2> HIDE DEF q
  <2> QED BY <1>2, <2>1, RangeAppend
<1>8. Range(response') = Spans(LastTiles)'
  BY <1>1, <1>6, <1>7 DEF AlignInv, PassAligned
<1>9. stage' = 0 /\ stage' \notin 1 .. Dims /\ 1 .. stage' - 1 = {}
  BY <1>1, <1>2
<1> QED BY <1>1, <1>2, <1>8, <1>9 DEF AlignInv, PassAligned

\* A sort that ends a node keeps its parts and answers their pivots.
LEMMA SortNodeAligned ==
    ASSUME IInv, AlignInv, SortNode
    PROVE  AlignInv'
<1> DEFINE parts == node.parts
           m == [front |-> node.front, back |-> node.back, parts |-> parts]
           T == [front : 0 .. N, back : 0 .. N, parts : Seq(Parts)]
           pivots == [i \in DOMAIN parts |-> Pivot(parts[i].front, parts[i].back)]
<1>1. /\ node \in Nodes /\ stage \in 1 .. Dims /\ pos \in DOMAIN current
      /\ node.front = current[pos].front /\ node.back = current[pos].back
      /\ Counts({}, node.back - node.accum)
      /\ Chain(parts, node.front, node.accum)
      /\ pos \in Nat \ {0} /\ current \in Seq(Pivots) /\ response \in Seq(Pivots)
      /\ nodes \in [1 .. Dims -> Seq(T)]
  BY DEF SortNode, IInv, TypeOK, NodeFits
<1>2. Chain(parts, node.front, node.back)
  <2>1. node.back - node.accum = 0
    BY <1>1, CountsNothing, SMT
  <2>2. node.back \in Int /\ node.accum \in Int
    BY <1>1, Sizes, SMT DEF Nodes
  <2>3. node.back = node.accum
    BY <2>1, <2>2
  <2> QED BY <1>1, <2>3
<1>3. /\ m \in T /\ parts \in Seq(Parts) /\ SpanOf(m) = current[pos]
      /\ m.parts = parts /\ m.front = node.front /\ m.back = node.back
  <2>1. current[pos] \in Pivots
    BY <1>1
  <2>2. current[pos] = Pivot(current[pos].front, current[pos].back)
    BY <2>1 DEF Pivots, Pivot
  <2> QED BY <1>1, <2>2 DEF Nodes, SpanOf
<1>4. /\ response' = response \o pivots /\ pos' = pos + 1 /\ stage' = stage
      /\ current' = current /\ tiles' = tiles
      /\ nodes' = [nodes EXCEPT ![stage] = Append(nodes[stage], m)]
  BY DEF SortNode, spatialVars
<1>5. Range(pivots) = Spans(Range(parts))
  BY DEF Spans, Range
<1>6. pivots \in Seq(Pivots)
  BY <1>3, PivotsOf, Zenon
<1> HIDE DEF m, T, parts, pivots
<1>7. /\ nodes'[stage] = Append(nodes[stage], m)
      /\ \A d \in 1 .. Dims : d # stage => nodes'[d] = nodes[d]
      /\ nodes[stage] \in Seq(T)
  BY <1>1, <1>4
<1>8. Range(nodes'[stage]) = Range(nodes[stage]) \cup {m}
  BY <1>3, <1>7, RangeAppend
<1>9. Range(response') = Range(response) \cup Spans(Range(parts))
  BY <1>1, <1>4, <1>5, <1>6, RangeConcatenation
<1>10. PartSpans(stage)' = PartSpans(stage) \cup Spans(Range(parts))
  <2>1. PartSpans(stage)' = UNION {Spans(Range(n.parts)) : n \in Range(nodes'[stage])}
    BY <1>4 DEF PartSpans, Spans
  <2>2. PartSpans(stage) = UNION {Spans(Range(n.parts)) : n \in Range(nodes[stage])}
    BY DEF PartSpans
  <2> QED BY <1>3, <1>8, <2>1, <2>2
<1>11. /\ Source(stage)' = Source(stage)
       /\ \A d \in 1 .. stage - 1 : NodeAligned(d) => NodeAligned(d)'
  <2> \A d \in 1 .. stage : d \in Int /\ d - 1 # stage /\ (d # 1 => d - 1 \in 1 .. Dims)
    BY <1>1, Sizes
  <2>1. \A d \in 1 .. stage : d # 1 => nodes'[d - 1] = nodes[d - 1]
    BY <1>7
  <2>2. LastTiles' = LastTiles
    BY <1>4 DEF LastTiles
  <2>3. \A d \in 1 .. stage : Source(d)' = Source(d)
    BY <2>1, <2>2 DEF Source, PartSpans, Spans
  <2>4. \A d \in 1 .. stage - 1 : nodes'[d] = nodes[d] /\ d \in 1 .. stage
    <3>1. \A d \in 1 .. stage - 1 : d \in 1 .. stage /\ d \in 1 .. Dims /\ d # stage
      BY <1>1, Sizes
    <3> QED BY <1>7, <3>1
  <2>5. stage \in 1 .. stage
    BY <1>1
  <2>6. Source(stage)' = Source(stage)
    BY <1>4, <2>3, <2>5
  <2>7. \A d \in 1 .. stage - 1 : NodeAligned(d) => NodeAligned(d)'
    BY <2>3, <2>4 DEF NodeAligned, Spans
  <2> QED BY <2>6, <2>7
<1>12. PassAligned
  BY DEF AlignInv
<1>13. /\ Range(response') = PartSpans(stage)'
       /\ Range(current') = Source(stage)'
  BY <1>1, <1>4, <1>9, <1>10, <1>11, <1>12 DEF PassAligned
<1>14. /\ pos' <= Len(current') + 1
       /\ Len(nodes'[stage]) = pos' - 1
       /\ \A i \in 1 .. pos' - 1 : SpanOf(nodes'[stage][i]) = current'[i]
  <2>1. Len(nodes[stage]) = pos - 1 /\ \A i \in 1 .. pos - 1 : SpanOf(nodes[stage][i]) = current[i]
    BY <1>1, <1>12 DEF PassAligned
  <2>2. Len(nodes'[stage]) = pos
    BY <1>1, <1>7, <2>1
  <2>3. ASSUME NEW i \in 1 .. pos PROVE SpanOf(nodes'[stage][i]) = current[i]
    <3>1. CASE i = pos
      <4>1. nodes'[stage][i] = m
        BY <1>1, <1>7, <2>1, <3>1
      <4> QED BY <1>3, <3>1, <4>1
    <3>2. CASE i # pos
      <4>1. i \in 1 .. pos - 1 /\ nodes'[stage][i] = nodes[stage][i]
        BY <1>1, <1>7, <2>1, <3>2
      <4> QED BY <2>1, <4>1
    <3> QED BY <3>1, <3>2
  <2>4. pos <= Len(current) /\ Len(current) \in Nat
    BY <1>1
  <2>5. pos' - 1 = pos
    BY <1>1, <1>4
  <2>6. pos' <= Len(current') + 1
    BY <1>1, <1>4, <2>4
  <2> QED BY <1>4, <2>2, <2>3, <2>5, <2>6
<1>15. \A d \in 1 .. Dims : /\ d > stage => nodes'[d] = << >>
                            /\ \A n \in Range(nodes'[d]) : Chain(n.parts, n.front, n.back)
  <2> SUFFICES ASSUME NEW d \in 1 .. Dims
               PROVE  /\ d > stage => nodes'[d] = << >>
                      /\ \A n \in Range(nodes'[d]) : Chain(n.parts, n.front, n.back)
    OBVIOUS
  <2>1. CASE d = stage
    <3>1. Chain(m.parts, m.front, m.back)
      BY <1>2, <1>3
    <3>2. \A n \in Range(nodes[stage]) : Chain(n.parts, n.front, n.back)
      BY <1>1, <1>12 DEF PassAligned
    <3>3. ~(d > stage)
      BY <1>1, <2>1
    <3> QED BY <1>8, <2>1, <3>1, <3>2, <3>3
  <2>2. CASE d # stage
    BY <1>7, <1>12, <2>2 DEF PassAligned
  <2> QED BY <2>1, <2>2
<1>16. PassAligned'
  <2>1. stage' # 0
    BY <1>1, <1>4
  <2> QED BY <1>4, <1>13, <1>14, <1>15, <2>1 DEF PassAligned, Source, PartSpans, Spans, SpanOf
<1> QED BY <1>4, <1>11, <1>16 DEF AlignInv

\* A pass starts on what the pass before answered, which is what the nodes of
\* that pass are parted into.
LEMMA EndPassAligned ==
    ASSUME IInv, AlignInv, EndPass
    PROVE  AlignInv'
<1> DEFINE T == [front : 0 .. N, back : 0 .. N, parts : Seq(Parts)]
<1>1. /\ stage \in 0 .. Dims /\ stage' = stage + 1 /\ pos' = 1
      /\ current' = response /\ response' = << >>
      /\ tiles' = tiles /\ nodes' = nodes
      /\ response \in Seq(Pivots) /\ current \in Seq(Pivots)
      /\ nodes \in [1 .. Dims -> Seq(T)] /\ Dims \in Nat
  BY Sizes DEF EndPass, spatialVars, IInv, TypeOK
<1>2. PassAligned /\ \A d \in 1 .. stage - 1 : NodeAligned(d)
  BY DEF AlignInv
<1> HIDE DEF T
<1>3. /\ \A d : Source(d)' = Source(d) /\ PartSpans(d)' = PartSpans(d)
      /\ \A d : NodeAligned(d) => NodeAligned(d)'
  BY <1>1 DEF NodeAligned, Source, PartSpans, Spans, LastTiles
<1>4. Range(response) = Source(stage + 1)
  <2>1. CASE stage = 0
    BY <1>2, <2>1 DEF PassAligned, Source
  <2>2. CASE stage # 0
    <3>1. stage \in 1 .. Dims /\ stage + 1 # 1 /\ (stage + 1) - 1 = stage
      BY <1>1, <2>2
    <3> QED BY <1>2, <3>1 DEF PassAligned, Source
  <2> QED BY <2>1, <2>2
<1>5. stage # 0 => NodeAligned(stage)
  <2> SUFFICES ASSUME stage # 0 PROVE NodeAligned(stage)
    OBVIOUS
  <2>1. stage \in 1 .. Dims /\ stage > 0
    BY <1>1
  <2>2. /\ Range(current) = Source(stage) /\ pos <= Len(current) + 1
        /\ Len(nodes[stage]) = pos - 1
        /\ \A i \in 1 .. pos - 1 : SpanOf(nodes[stage][i]) = current[i]
    BY <1>2, <2>1 DEF PassAligned
  <2>3. pos > Len(current) /\ pos \in Nat /\ Chain(current, 0, N)
    BY <2>1 DEF EndPass, IInv, TypeOK, ResponseCovers
  <2>4. pos - 1 = Len(current) /\ Len(current) \in Nat
    BY <1>1, <2>2, <2>3
  <2> DEFINE s == nodes[stage]
  <2>5. s \in Seq(T)
    BY <1>1, <2>1
  <2> HIDE DEF s
  <2>6. /\ DOMAIN s = DOMAIN current /\ Len(s) = Len(current)
        /\ DOMAIN s = 1 .. Len(s)
        /\ \A i \in DOMAIN s : SpanOf(s[i]) = current[i]
    BY <1>1, <2>2, <2>4, <2>5 DEF s
  <2>7. \A i \in DOMAIN s : s[i].front = current[i].front /\ s[i].back = current[i].back
    <3>1. \A x, y : SpanOf(x) = y => x.front = y.front /\ x.back = y.back
      BY DEF SpanOf, Pivot
    <3> QED BY <2>6, <3>1, Zenon
  <2>8. Chain(s, 0, N)
    <3>1. s = << >> <=> current = << >>
      BY <1>1, <2>5, <2>6
    <3>2. Len(s) \in Nat /\ (s # << >> => Len(s) \in DOMAIN s)
      BY <2>5
    <3>3. \A i \in DOMAIN s : i # 1 => i - 1 \in DOMAIN s
      BY <2>5
    <3> QED BY <2>3, <2>6, <2>7, <3>1, <3>2, <3>3 DEF Chain
  <2>9. Spans(Range(s)) = Range(current)
    BY <2>6 DEF Spans, SpanOf, Range
  <2> QED BY <2>2, <2>8, <2>9 DEF NodeAligned, s
<1>6. \A d \in 1 .. stage' - 1 : NodeAligned(d)'
  <2>1. ASSUME NEW d \in 1 .. stage' - 1 PROVE NodeAligned(d)
    <3>1. d \in 1 .. stage - 1 \/ (d = stage /\ stage # 0)
      BY <1>1, <2>1
    <3> QED BY <1>2, <1>5, <3>1
  <2> QED BY <1>3, <2>1
<1>7. Range(<< >>) = {}
  BY DEF Range
<1>8. ASSUME stage' \in 1 .. Dims
      PROVE  /\ Range(response') = PartSpans(stage)'
             /\ Range(current') = Source(stage)'
             /\ nodes'[stage'] = << >>
  <2>1. nodes[stage + 1] = << >>
    BY <1>1, <1>2, <1>8 DEF PassAligned
  <2>2. PartSpans(stage + 1) = {}
    BY <1>7, <2>1 DEF PartSpans
  <2>3. PartSpans(stage)' = PartSpans(stage + 1) /\ Source(stage)' = Source(stage + 1)
    BY <1>1 DEF Source, PartSpans, Spans, LastTiles
  <2> QED BY <1>1, <1>4, <1>7, <2>1, <2>2, <2>3
<1>9. PassAligned'
  <2>1. stage' # 0
    BY <1>1
  <2>2. \A d \in 1 .. Dims : d > stage' => nodes'[d] = << >>
    BY <1>1, <1>2 DEF PassAligned
  <2>3. \A d \in 1 .. Dims : \A n \in Range(nodes'[d]) : Chain(n.parts, n.front, n.back)
    BY <1>1, <1>2 DEF PassAligned
  <2>4. ASSUME stage' \in 1 .. Dims
        PROVE  /\ pos' <= Len(current') + 1
               /\ Len(nodes'[stage']) = pos' - 1
               /\ 1 .. pos' - 1 = {}
    <3>1. pos' <= Len(current') + 1
      BY <1>1
    <3>2. Len(nodes'[stage']) = pos' - 1
      BY <1>1, <1>8, <2>4
    <3> QED BY <1>1, <3>1, <3>2
  <2> QED BY <1>8, <2>1, <2>2, <2>3, <2>4 DEF PassAligned, Source, PartSpans
<1> QED BY <1>6, <1>9 DEF AlignInv

LEMMA NextAlign == IInv /\ AlignInv /\ [Next]_vars => AlignInv'
<1> SUFFICES ASSUME IInv, AlignInv, [Next]_vars
             PROVE  AlignInv'
  OBVIOUS
<1>1. CASE SplitTile
  <2>1. tiles' = tiles \cup {TileNode(call, FALSE)}
    BY <1>1 DEF SplitTile
  <2>2. ~TileNode(call, FALSE).last
    BY DEF TileNode
  <2>3. LastTiles' = LastTiles
    BY <2>1, <2>2 DEF LastTiles
  <2> QED BY <1>1, <2>3, AlignUnchanged DEF SplitTile, nodeVars
<1>2. CASE LeafTile
  BY <1>2, LeafTileAligned
<1>3. CASE SortNode
  BY <1>3, SortNodeAligned
<1>4. CASE EndPass
  BY <1>4, EndPassAligned
<1>5. CASE NextChild \/ ReturnTile \/ OpenNode \/ EmplacePart \/ UNCHANGED vars
  <2>1. /\ stage' = stage /\ current' = current /\ response' = response
        /\ pos' = pos /\ nodes' = nodes /\ tiles' = tiles
    BY <1>5 DEF NextChild, ReturnTile, OpenNode, EmplacePart, spatialVars,
                nodeVars, vars
  <2> QED BY <2>1, AlignUnchanged DEF LastTiles
<1> QED BY <1>1, <1>2, <1>3, <1>4, <1>5 DEF Next

\* The nodes of a finished pass are the pivots the pass before answered, in
\* their order and without a gap, and so are the parts inside each node: a
\* query that kept a part of one dimension finds a node of the next one that
\* starts exactly there, whatever the data. Hashing::nextNode relies on it.
THEOREM Aligned == Spec => []NodesAligned
<1>1. Init => IInv /\ AlignInv
  BY InitIInv, InitAlign
<1>2. IInv /\ AlignInv /\ [Next]_vars => (IInv /\ AlignInv)'
  BY NextKeeps, NextAlign
<1>3. IInv /\ AlignInv => NodesAligned
  BY AlignImplies
<1> QED BY <1>1, <1>2, <1>3, PTL DEF Spec
=============================================================================
