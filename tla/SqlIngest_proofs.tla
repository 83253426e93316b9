-------------------------- MODULE SqlIngest_proofs --------------------------
(***************************************************************************)
(* Rows and columns of util::twitter_sql agree, for any number of lines.   *)
(***************************************************************************)
EXTENDS SqlIngest, FiniteSetTheorems, SequenceTheorems, TLAPS

-----------------------------------------------------------------------------
(* The body of the loop, by position.                                      *)

StepNames ==
    /\ Len(Steps) = 14
    /\ Doing = "none" <=> step = 0
    /\ Doing = "id" <=> step = 1
    /\ Doing = "add lat0" <=> step = 2
    /\ Doing = "lat0" <=> step = 3
    /\ Doing = "add lon0" <=> step = 4
    /\ Doing = "lon0" <=> step = 5
    /\ Doing = "text" <=> step = 6
    /\ Doing = "add time" <=> step = 7
    /\ Doing = "time" <=> step = 8
    /\ Doing = "add app" <=> step = 9
    /\ Doing = "app" <=> step = 10
    /\ Doing = "execute" <=> step = 11
    /\ Doing = "exec" <=> step = 12
    /\ Doing = "reset" <=> step = 13
    /\ Doing = "next" <=> step = 14

\* The statements one by one.
LEMMA StepsAre ==
    /\ Len(Steps) = 14
    /\ Steps[1] = "id" /\ Steps[2] = "add lat0" /\ Steps[3] = "lat0"
    /\ Steps[4] = "add lon0" /\ Steps[5] = "lon0" /\ Steps[6] = "text"
    /\ Steps[7] = "add time" /\ Steps[8] = "time" /\ Steps[9] = "add app"
    /\ Steps[10] = "app" /\ Steps[11] = "execute" /\ Steps[12] = "exec"
    /\ Steps[13] = "reset" /\ Steps[14] = "next"
BY DEF Steps

\* A position is that of one statement only.
LEMMA StepAt ==
    ASSUME step \in 0 .. 14
    PROVE  StepNames
<1>0. CASE step = 0
  <2>1. Doing = "none"
    BY <1>0 DEF Doing
  <2>2. /\ Doing = "none" <=> step = 0
        /\ Doing = "id" <=> step = 1
        /\ Doing = "add lat0" <=> step = 2
        /\ Doing = "lat0" <=> step = 3
        /\ Doing = "add lon0" <=> step = 4
    BY <1>0, <2>1
  <2>3. /\ Doing = "lon0" <=> step = 5
        /\ Doing = "text" <=> step = 6
        /\ Doing = "add time" <=> step = 7
        /\ Doing = "time" <=> step = 8
        /\ Doing = "add app" <=> step = 9
    BY <1>0, <2>1
  <2>4. /\ Doing = "app" <=> step = 10
        /\ Doing = "execute" <=> step = 11
        /\ Doing = "exec" <=> step = 12
        /\ Doing = "reset" <=> step = 13
        /\ Doing = "next" <=> step = 14
    BY <1>0, <2>1
  <2> QED BY <2>2, <2>3, <2>4, StepsAre, Zenon DEF StepNames
<1>1. CASE step = 1
  BY <1>1, StepsAre DEF StepNames, Doing
<1>2. CASE step = 2
  BY <1>2, StepsAre DEF StepNames, Doing
<1>3. CASE step = 3
  BY <1>3, StepsAre DEF StepNames, Doing
<1>4. CASE step = 4
  BY <1>4, StepsAre DEF StepNames, Doing
<1>5. CASE step = 5
  BY <1>5, StepsAre DEF StepNames, Doing
<1>6. CASE step = 6
  BY <1>6, StepsAre DEF StepNames, Doing
<1>7. CASE step = 7
  BY <1>7, StepsAre DEF StepNames, Doing
<1>8. CASE step = 8
  BY <1>8, StepsAre DEF StepNames, Doing
<1>9. CASE step = 9
  BY <1>9, StepsAre DEF StepNames, Doing
<1>10. CASE step = 10
  BY <1>10, StepsAre DEF StepNames, Doing
<1>11. CASE step = 11
  BY <1>11, StepsAre DEF StepNames, Doing
<1>12. CASE step = 12
  BY <1>12, StepsAre DEF StepNames, Doing
<1>13. CASE step = 13
  BY <1>13, StepsAre DEF StepNames, Doing
<1>14. CASE step = 14
  <2>1. Doing = "next"
    <3>1. Steps[14] = "next"
      BY StepsAre
    <3> QED BY <1>14, <3>1 DEF Doing
  <2>2. /\ Doing = "none" <=> step = 0
        /\ Doing = "id" <=> step = 1
        /\ Doing = "add lat0" <=> step = 2
        /\ Doing = "lat0" <=> step = 3
        /\ Doing = "add lon0" <=> step = 4
    BY <1>14, <2>1
  <2>3. /\ Doing = "lon0" <=> step = 5
        /\ Doing = "text" <=> step = 6
        /\ Doing = "add time" <=> step = 7
        /\ Doing = "time" <=> step = 8
        /\ Doing = "add app" <=> step = 9
    BY <1>14, <2>1
  <2>4. /\ Doing = "app" <=> step = 10
        /\ Doing = "execute" <=> step = 11
        /\ Doing = "exec" <=> step = 12
        /\ Doing = "reset" <=> step = 13
        /\ Doing = "next" <=> step = 14
    BY <1>14, <2>1
  <2> QED BY <2>2, <2>3, <2>4, StepsAre, Zenon DEF StepNames
<1> QED BY <1>0, <1>1, <1>2, <1>3, <1>4, <1>5, <1>6, <1>7,
          <1>8, <1>9, <1>10, <1>11, <1>12, <1>13, <1>14

-----------------------------------------------------------------------------
(* The invariant.                                                          *)

lat == columns["lat0"]
app == columns["app"]

Types ==
    /\ rejected \subseteq 1 .. Lines
    /\ line \in 1 .. Lines + 1 /\ step \in 0 .. 14
    /\ step > 0 => line \in 1 .. Lines
    /\ id \in Nat /\ size \in Nat
    /\ bound \in [Parameters -> Nat \cup {None}]
    /\ query \in {"ready", "halted"}
    /\ columns \in [Keys -> Seq(1 .. Lines)]

\* The columns of a pair are equal but for the line being written.
Twins ==
    /\ lat = IF step \in {3, 4} THEN Append(columns["lon0"], line) ELSE columns["lon0"]
    /\ columns["time"] = IF step \in {8, 9} THEN Append(app, line) ELSE app

\* s has earlier lines, and, past position p, the line under way at its end.
Ordered(s, p) ==
    /\ \A i \in DOMAIN s : /\ s[i] <= line
                           /\ s[i] = line => step > p /\ i = Len(s)
    /\ step > p => s # << >> /\ s[Len(s)] = line

\* The first columns have the torn lines as well, and that between the two
\* halves of its own.
Surplus ==
    Len(lat) = Len(app) + Cardinality(Torn) + (IF step \in 3 .. 9 THEN 1 ELSE 0)

\* Records before the first torn line are at one position of both.
NoGaps ==
    \A j \in DOMAIN app :
        (\A l \in Torn : app[j] < l) => j <= Len(lat) /\ lat[j] = app[j]

ColumnsInv ==
    /\ Types /\ Twins /\ Ordered(lat, 2) /\ Ordered(app, 9) /\ Surplus /\ NoGaps

\* What is bound is of this line and of its row.
BoundIsOfLine ==
    /\ step >= 2 => bound["id"] = id
    /\ step >= 7 => bound["text"] = line

\* A halted statement ends all writing but for the reset.
Halts ==
    /\ query = "halted" => step \in {0, 1, 13}
    /\ step = 13 => query = "halted"

Counted ==
    /\ Len(app) = size + (IF step \in {10, 11} THEN 1 ELSE 0)
    /\ size = IF step >= 12 \/ query = "halted" THEN id + 1 ELSE id
    /\ DOMAIN table = 0 .. (IF step \in {13, 14} THEN id ELSE id - 1)

\* The row of an id is the record after as many.
RowsOfRecords ==
    \A i \in DOMAIN table : i + 1 \in DOMAIN app /\ app[i + 1] = table[i]["text"]

IInv == ColumnsInv /\ BoundIsOfLine /\ Halts /\ Counted /\ RowsOfRecords

-----------------------------------------------------------------------------
(* Columns.                                                                *)

ColumnShape ==
    /\ lat \in Seq(1 .. Lines) /\ app \in Seq(1 .. Lines)
    /\ columns["lon0"] \in Seq(1 .. Lines) /\ columns["time"] \in Seq(1 .. Lines)
    /\ Len(lat) \in Nat /\ Len(app) \in Nat
    /\ DOMAIN lat = 1 .. Len(lat) /\ DOMAIN app = 1 .. Len(app)
    /\ \A i \in DOMAIN lat : lat[i] \in Nat
    /\ \A i \in DOMAIN app : app[i] \in Nat
    /\ line \in Nat /\ step \in Nat /\ Lines \in Nat

\* Columns are sequences of lines.
LEMMA ColumnFacts ==
    ASSUME Types
    PROVE  ColumnShape
<1>1. /\ lat \in Seq(1 .. Lines) /\ app \in Seq(1 .. Lines)
      /\ columns["lon0"] \in Seq(1 .. Lines) /\ columns["time"] \in Seq(1 .. Lines)
  BY DEF Types, Keys, lat, app
<1>2. Lines \in Nat /\ line \in Nat /\ step \in Nat
  BY SqlAssumption DEF Types
<1>3. /\ Len(lat) \in Nat /\ Len(app) \in Nat
      /\ DOMAIN lat = 1 .. Len(lat) /\ DOMAIN app = 1 .. Len(app)
      /\ \A i \in DOMAIN lat : lat[i] \in 1 .. Lines
      /\ \A i \in DOMAIN app : app[i] \in 1 .. Lines
  <2>1. ASSUME NEW S, NEW s \in Seq(S)
        PROVE  /\ Len(s) \in Nat /\ DOMAIN s = 1 .. Len(s)
               /\ \A i \in DOMAIN s : s[i] \in S
    <3>1. Len(s) \in Nat /\ DOMAIN s = 1 .. Len(s)
      OBVIOUS
    <3>2. \A i \in 1 .. Len(s) : s[i] \in S
      OBVIOUS
    <3> QED BY <3>1, <3>2, Zenon
  <2> QED BY <1>1, <2>1
<1>4. /\ \A i \in DOMAIN lat : lat[i] \in Nat
      /\ \A i \in DOMAIN app : app[i] \in Nat
  BY <1>2, <1>3
<1> QED BY <1>1, <1>2, <1>3, <1>4 DEF ColumnShape

\* Torn lines can be counted.
LEMMA TornFinite == IsFiniteSet(Torn) /\ Cardinality(Torn) \in Nat
<1>1. Torn \subseteq 1 .. Lines /\ IsFiniteSet(1 .. Lines)
  BY SqlAssumption, FS_Interval DEF Torn
<1>2. IsFiniteSet(Torn)
  BY <1>1, FS_Subset
<1> QED BY <1>2, FS_CardinalityType

\* A torn line is one of those read before.
LEMMA TornBefore ==
    ASSUME Types, Ordered(lat, 2), NEW l \in Torn
    PROVE  l \in Nat /\ l < line
<1>1. /\ l \in 1 .. Lines /\ l # line
      /\ \E i \in DOMAIN lat : lat[i] = l
  BY DEF Torn, lat
<1> QED BY <1>1, ColumnFacts DEF Ordered, ColumnShape

\* The next statement, where it is not one that adds.
LEMMA StayColumns ==
    ASSUME ColumnsInv, Types', columns' = columns, line' = line, step < 14,
           step \notin {2, 4, 7, 9}, step' = step + 1
    PROVE  ColumnsInv'
<1>1. /\ lat' = lat /\ app' = app /\ Torn' = Torn
  BY DEF lat, app, Torn
<1>2. /\ step > 2 <=> step' > 2
      /\ step > 9 <=> step' > 9
      /\ step \in {3, 4} <=> step' \in {3, 4}
      /\ step \in {8, 9} <=> step' \in {8, 9}
      /\ step \in 3 .. 9 <=> step' \in 3 .. 9
  BY DEF ColumnsInv, Types
<1>3. Ordered(lat, 2)' /\ Ordered(app, 9)'
  BY <1>1, <1>2 DEF ColumnsInv, Ordered
<1>4. Twins' /\ Surplus' /\ NoGaps'
  BY <1>1, <1>2, Zenon DEF ColumnsInv, Twins, Surplus, NoGaps
<1> QED BY <1>3, <1>4 DEF ColumnsInv

\* The line ends, written or not: of the torn ones it is one only if it was
\* left between the halves.
LEMMA EndColumns ==
    ASSUME ColumnsInv, Types', columns' = columns, line' = line + 1,
           step \notin {3, 4, 8, 9}, step' = 0
    PROVE  ColumnsInv'
<1>1. /\ lat' = lat /\ app' = app /\ columns'["lon0"] = columns["lon0"]
      /\ columns'["time"] = columns["time"]
  BY DEF lat, app
<1>2. Types /\ Twins /\ Ordered(lat, 2) /\ Ordered(app, 9) /\ Surplus /\ NoGaps
      /\ ColumnShape /\ step' = 0 /\ step \in 0 .. 14
  BY ColumnFacts DEF ColumnsInv, Types
<1>3. Twins'
  BY <1>1, <1>2 DEF Twins
<1>4. Ordered(lat, 2)' /\ Ordered(app, 9)'
  <2>1. \A i \in DOMAIN lat : lat[i] <= line + 1 /\ lat[i] # line + 1
    BY <1>2 DEF Ordered, ColumnShape
  <2>2. \A i \in DOMAIN app : app[i] <= line + 1 /\ app[i] # line + 1
    BY <1>2 DEF Ordered, ColumnShape
  <2> QED BY <1>1, <2>1, <2>2 DEF Ordered
<1>5. \A i \in DOMAIN lat : lat[i] # line + 1
  BY <1>2 DEF Ordered, ColumnShape
<1>6. Torn' = IF step \in 5 .. 7 THEN Torn \cup {line} ELSE Torn
  <2> DEFINE In(l) == \E i \in DOMAIN lat : lat[i] = l
             Out(l) == \A i \in DOMAIN app : app[i] # l
  <2>1. /\ \A l : l \in Torn <=> l \in 1 .. Lines /\ In(l) /\ Out(l) /\ l # line
        /\ \A l : l \in Torn' <=> l \in 1 .. Lines /\ In(l) /\ Out(l) /\ l # line + 1
    BY <1>1 DEF Torn, lat, app
  <2>2. ~In(line + 1)
    BY <1>5
  <2>3. /\ step \in 5 .. 7 => line \in 1 .. Lines /\ In(line) /\ Out(line)
        /\ step < 5 => ~In(line)
        /\ step > 7 => ~Out(line)
    <3>1. ASSUME step \in 5 .. 7 PROVE line \in 1 .. Lines /\ In(line) /\ Out(line)
      <4>1. line \in 1 .. Lines /\ step > 2 /\ ~(step > 9)
        BY <1>2, <3>1 DEF Types
      <4>2. Len(lat) \in DOMAIN lat /\ lat[Len(lat)] = line
        BY <1>2, <4>1 DEF Ordered, ColumnShape
      <4>3. Out(line)
        BY <1>2, <4>1 DEF Ordered
      <4> QED BY <4>1, <4>2, <4>3
    <3>2. step < 5 => ~In(line)
      BY <1>2 DEF Ordered, ColumnShape
    <3>3. ASSUME step > 7 PROVE ~Out(line)
      <4>1. step > 9
        BY <1>2, <3>3
      <4>2. Len(app) \in DOMAIN app /\ app[Len(app)] = line
        BY <1>2, <4>1 DEF Ordered, ColumnShape
      <4> QED BY <4>2
    <3> QED BY <3>1, <3>2, <3>3
  <2>4. line # line + 1
    BY <1>2 DEF ColumnShape
  <2> HIDE DEF In, Out
  <2>5. CASE step \in 5 .. 7
    BY <2>1, <2>2, <2>3, <2>4, <2>5
  <2>6. CASE step \notin 5 .. 7
    <3>1. ~In(line) \/ ~Out(line)
      BY <1>2, <2>3, <2>6
    <3> QED BY <2>1, <2>2, <2>6, <3>1
  <2> QED BY <2>5, <2>6
<1>7. Surplus'
  <2>1. CASE step \in 5 .. 7
    <3>1. line \notin Torn
      BY DEF Torn
    <3>2. Cardinality(Torn \cup {line}) = Cardinality(Torn) + 1
      BY <3>1, TornFinite, FS_AddElement
    <3>3. Len(lat) = Len(app) + Cardinality(Torn) + 1
      BY <1>2, <2>1 DEF Surplus
    <3> QED BY <1>1, <1>2, <1>6, <2>1, <3>2, <3>3, TornFinite DEF Surplus, ColumnShape
  <2>2. CASE step \notin 5 .. 7
    <3>1. step \notin 3 .. 9
      BY <1>2, <2>2
    <3>2. Torn' = Torn
      BY <1>6, <2>2
    <3>3. Len(lat) = Len(app) + Cardinality(Torn) + 0
      BY <1>2, <3>1 DEF Surplus
    <3>4. step' \notin 3 .. 9
      BY <1>2
    <3> QED BY <1>1, <3>2, <3>3, <3>4 DEF Surplus
  <2> QED BY <2>1, <2>2
<1>8. NoGaps'
  <2>1. Torn \subseteq Torn'
    BY <1>6
  <2> QED BY <1>1, <1>2, <2>1 DEF NoGaps
<1> QED BY <1>3, <1>4, <1>7, <1>8 DEF ColumnsInv

\* A line appended.
LEMMA Appended ==
    ASSUME NEW s \in Seq(1 .. Lines), NEW l \in 1 .. Lines
    PROVE  /\ Append(s, l) \in Seq(1 .. Lines)
           /\ Len(Append(s, l)) = Len(s) + 1
           /\ DOMAIN Append(s, l) = 1 .. Len(s) + 1
           /\ DOMAIN s = 1 .. Len(s) /\ Len(s) \in Nat
           /\ \A i \in DOMAIN s : Append(s, l)[i] = s[i]
           /\ Append(s, l)[Len(s) + 1] = l
OBVIOUS

\* The line under way makes no line a torn one, whichever column it enters.
LEMMA SameTorn ==
    ASSUME Types, line' = line,
           lat' \in {lat, Append(lat, line)}, app' \in {app, Append(app, line)},
           line \in 1 .. Lines
    PROVE  Torn' = Torn
<1> DEFINE In(s, l) == \E i \in DOMAIN s : s[i] = l
<1>1. /\ \A l : l \in Torn <=> l \in 1 .. Lines /\ In(lat, l) /\ ~In(app, l) /\ l # line
      /\ \A l : l \in Torn' <=> l \in 1 .. Lines /\ In(lat', l) /\ ~In(app', l) /\ l # line
  BY DEF Torn, lat, app
<1>2. ASSUME NEW s \in Seq(1 .. Lines), NEW t, t \in {s, Append(s, line)}, NEW l, l # line
      PROVE  In(t, l) <=> In(s, l)
  <2>1. CASE t = s
    BY <2>1
  <2>2. CASE t = Append(s, line)
    <3>1. /\ DOMAIN t = 1 .. Len(s) + 1 /\ DOMAIN s = 1 .. Len(s) /\ Len(s) \in Nat
          /\ \A i \in DOMAIN s : t[i] = s[i]
          /\ t[Len(s) + 1] = line
      BY <2>2, Appended
    <3> QED BY <1>2, <3>1
  <2> QED BY <1>2, <2>1, <2>2
<1>3. lat \in Seq(1 .. Lines) /\ app \in Seq(1 .. Lines)
  BY ColumnFacts DEF ColumnShape
<1> HIDE DEF In
<1>4. \A l : l # line => (In(lat', l) <=> In(lat, l)) /\ (In(app', l) <=> In(app, l))
  BY <1>2, <1>3
<1> QED BY <1>1, <1>4

\* A line comes to the end of a column it is not in.
LEMMA OrderedAppend ==
    ASSUME NEW s \in Seq(1 .. Lines), NEW t, t = Append(s, line), line \in 1 .. Lines,
           NEW p, \A i \in DOMAIN s : s[i] < line
    PROVE  /\ \A i \in DOMAIN t : t[i] <= line /\ (t[i] = line => i = Len(t))
           /\ t # << >> /\ t[Len(t)] = line
<1>1. /\ t \in Seq(1 .. Lines) /\ Len(t) = Len(s) + 1
      /\ DOMAIN t = 1 .. Len(s) + 1 /\ DOMAIN s = 1 .. Len(s) /\ Len(s) \in Nat
      /\ \A i \in DOMAIN s : t[i] = s[i]
      /\ t[Len(s) + 1] = line
  BY Appended
<1>2. line \in Nat /\ \A i \in DOMAIN s : s[i] \in Nat
  BY SqlAssumption
<1> QED BY <1>1, <1>2

\* A line is added to one column.
LEMMA AddColumns ==
    ASSUME ColumnsInv, Types', line' = line, step \in {2, 4, 7, 9}, step' = step + 1,
           columns' = [columns EXCEPT ![CASE step = 2 -> "lat0" [] step = 4 -> "lon0"
                                          [] step = 7 -> "time" [] step = 9 -> "app"]
                         = Append(@, line)]
    PROVE  ColumnsInv'
<1>1. /\ Types /\ Twins /\ Ordered(lat, 2) /\ Ordered(app, 9) /\ Surplus /\ NoGaps
      /\ ColumnShape /\ line \in 1 .. Lines
  BY ColumnFacts DEF ColumnsInv, Types
<1>2. /\ lat' = IF step = 2 THEN Append(lat, line) ELSE lat
      /\ app' = IF step = 9 THEN Append(app, line) ELSE app
      /\ columns'["lon0"] = IF step = 4 THEN Append(columns["lon0"], line)
                                        ELSE columns["lon0"]
      /\ columns'["time"] = IF step = 7 THEN Append(columns["time"], line)
                                        ELSE columns["time"]
  <2>1. columns \in [Keys -> Seq(1 .. Lines)]
    BY <1>1 DEF Types
  <2>2. CASE step = 2
    BY <2>1, <2>2 DEF lat, app, Keys
  <2>3. CASE step = 4
    BY <2>1, <2>3 DEF lat, app, Keys
  <2>4. CASE step = 7
    BY <2>1, <2>4 DEF lat, app, Keys
  <2>5. CASE step = 9
    BY <2>1, <2>5 DEF lat, app, Keys
  <2> QED BY <2>2, <2>3, <2>4, <2>5
<1>3. Torn' = Torn
  BY <1>1, <1>2, SameTorn
<1>4. Twins'
  BY <1>1, <1>2 DEF Twins
<1>5. Ordered(lat, 2)'
  <2>1. CASE step = 2
    <3>1. \A i \in DOMAIN lat : lat[i] < line
      BY <1>1, <2>1 DEF Ordered, ColumnShape
    <3>2. /\ \A i \in DOMAIN lat' : lat'[i] <= line /\ (lat'[i] = line => i = Len(lat'))
          /\ lat' # << >> /\ lat'[Len(lat')] = line
      BY <1>1, <1>2, <2>1, <3>1, OrderedAppend DEF ColumnShape
    <3>3. step' > 2
      BY <2>1
    <3> QED BY <3>2, <3>3 DEF Ordered
  <2>2. CASE step # 2
    <3>1. lat' = lat /\ step > 2 /\ step' > 2
      BY <1>2, <2>2
    <3> QED BY <1>1, <3>1 DEF Ordered
  <2> QED BY <2>1, <2>2
<1>6. Ordered(app, 9)'
  <2>1. CASE step = 9
    <3>1. \A i \in DOMAIN app : app[i] < line
      BY <1>1, <2>1 DEF Ordered, ColumnShape
    <3>2. /\ \A i \in DOMAIN app' : app'[i] <= line /\ (app'[i] = line => i = Len(app'))
          /\ app' # << >> /\ app'[Len(app')] = line
      BY <1>1, <1>2, <2>1, <3>1, OrderedAppend DEF ColumnShape
    <3>3. step' > 9
      BY <2>1
    <3> QED BY <3>2, <3>3 DEF Ordered
  <2>2. CASE step # 9
    <3>1. app' = app /\ ~(step > 9) /\ ~(step' > 9)
      BY <1>2, <2>2
    <3> QED BY <1>1, <3>1 DEF Ordered
  <2> QED BY <2>1, <2>2
<1>7. /\ Len(lat') = IF step = 2 THEN Len(lat) + 1 ELSE Len(lat)
      /\ Len(app') = IF step = 9 THEN Len(app) + 1 ELSE Len(app)
  BY <1>1, <1>2, Appended DEF ColumnShape
<1>8. Surplus'
  <2>1. Len(lat) = Len(app) + Cardinality(Torn) + (IF step \in 3 .. 9 THEN 1 ELSE 0)
    BY <1>1 DEF Surplus
  <2> DEFINE c == Cardinality(Torn)
             m == Len(lat)
             n == Len(app)
  <2>2. c \in Nat /\ m \in Nat /\ n \in Nat
    BY <1>1, TornFinite DEF ColumnShape
  <2>3. /\ Len(lat') = IF step = 2 THEN m + 1 ELSE m
        /\ Len(app') = IF step = 9 THEN n + 1 ELSE n
        /\ m = n + c + (IF step \in 3 .. 9 THEN 1 ELSE 0)
    BY <1>7, <2>1
  <2> HIDE DEF c, m, n
  <2>4. Len(lat') = Len(app') + c + (IF step' \in 3 .. 9 THEN 1 ELSE 0)
    <3>1. CASE step = 2
      BY <2>2, <2>3, <3>1
    <3>2. CASE step = 9
      BY <2>2, <2>3, <3>2
    <3>3. CASE step \in {4, 7}
      BY <2>2, <2>3, <3>3
    <3> QED BY <3>1, <3>2, <3>3
  <2> QED BY <1>3, <2>4 DEF Surplus, c
<1>9. NoGaps'
  <2>1. CASE step # 9
    <3>1. app' = app
      BY <1>2, <2>1
    <3>2. \A j \in DOMAIN lat : lat'[j] = lat[j]
      BY <1>1, <1>2, Appended DEF ColumnShape
    <3>3. Len(lat) <= Len(lat')
      BY <1>1, <1>7 DEF ColumnShape
    <3> SUFFICES ASSUME NEW j \in DOMAIN app, \A l \in Torn : app[j] < l
                 PROVE  j <= Len(lat') /\ lat'[j] = app[j]
      BY <1>3, <3>1 DEF NoGaps
    <3>4. j <= Len(lat) /\ lat[j] = app[j] /\ j \in DOMAIN lat
      BY <1>1 DEF NoGaps, ColumnShape
    <3>5. j \in Nat /\ Len(lat) \in Nat /\ Len(lat') \in Nat
      <4>1. Len(lat) \in Nat /\ j \in 1 .. Len(lat)
        BY <1>1, <3>4 DEF ColumnShape
      <4>2. Len(lat') \in {Len(lat), Len(lat) + 1}
        BY <1>7
      <4> QED BY <4>1, <4>2
    <3> QED BY <3>2, <3>3, <3>4, <3>5
  <2>2. CASE step = 9
    <3>1. /\ lat' = lat /\ DOMAIN app' = 1 .. Len(app) + 1
          /\ \A j \in DOMAIN app : app'[j] = app[j]
          /\ app'[Len(app) + 1] = line
      BY <1>1, <1>2, <2>2, Appended DEF ColumnShape
    <3> SUFFICES ASSUME NEW j \in DOMAIN app', \A l \in Torn : app'[j] < l
                 PROVE  j <= Len(lat) /\ lat[j] = app'[j]
      BY <1>3, <3>1 DEF NoGaps
    <3>2. CASE j \in DOMAIN app
      BY <1>1, <3>1, <3>2 DEF NoGaps
    <3>3. CASE j \notin DOMAIN app
      <4>1. j = Len(app) + 1
        BY <1>1, <3>1, <3>3 DEF ColumnShape
      <4>2. \A l \in Torn : l < line /\ line < l /\ l \in Nat
        BY <1>1, <3>1, <4>1, TornBefore
      <4>3. Torn = {}
        BY <1>1, <4>2 DEF ColumnShape
      <4>4. Cardinality(Torn) = 0
        BY <4>3, FS_EmptySet
      <4>5. Len(lat) = Len(app) + 1
        BY <1>1, <2>2, <4>4 DEF Surplus, ColumnShape
      <4>6. lat[Len(lat)] = line
        BY <1>1, <2>2 DEF Ordered
      <4> QED BY <1>1, <3>1, <4>1, <4>5, <4>6 DEF ColumnShape
    <3> QED BY <3>2, <3>3
  <2> QED BY <2>1, <2>2
<1> QED BY <1>4, <1>5, <1>6, <1>8, <1>9 DEF ColumnsInv

-----------------------------------------------------------------------------
(* Rows.                                                                   *)

RowsInv == BoundIsOfLine /\ Halts /\ Counted /\ RowsOfRecords

\* The statement after the next, where that is not the last.
LEMMA StepsOn ==
    ASSUME step \in 1 .. 13, GoOn
    PROVE  step' = step + 1
<1>1. Len(Steps) = 14
  BY StepsAre
<1>2. step # Len(Steps)
  BY <1>1
<1> QED BY <1>2, Zenon DEF GoOn

\* A line that parses begins with its first statement.
LEMMA ParseKeeps ==
    ASSUME IInv, Parse
    PROVE  IInv'
<1>1. /\ step = 0 /\ step' = 1 /\ line \in 1 .. Lines
      /\ UNCHANGED <<rejected, line, id, bound, query, table, columns, size>>
  BY DEF Parse
<1>2. Types'
  BY <1>1 DEF IInv, ColumnsInv, Types
<1>3. ColumnsInv'
  BY <1>1, <1>2, StayColumns DEF IInv
<1>4. app' = app
  BY <1>1 DEF app
<1>5. BoundIsOfLine' /\ Halts' /\ Counted' /\ RowsOfRecords'
  BY <1>1, <1>4 DEF IInv, BoundIsOfLine, Halts, Counted, RowsOfRecords
<1> QED BY <1>3, <1>5 DEF IInv

\* A line is left at a place where no column is half written.
LEMMA GiveUpKeeps ==
    ASSUME IInv, step \in {0, 1, 6}, step' = 0, line' = line + 1, line \in 1 .. Lines,
           UNCHANGED <<rejected, id, bound, query, table, columns, size>>
    PROVE  IInv'
<1>1. Types'
  BY SqlAssumption DEF IInv, ColumnsInv, Types
<1>2. ColumnsInv'
  BY <1>1, EndColumns DEF IInv
<1>3. app' = app
  BY DEF app
<1>4. BoundIsOfLine' /\ Halts' /\ Counted' /\ RowsOfRecords'
  BY <1>3 DEF IInv, BoundIsOfLine, Halts, Counted, RowsOfRecords
<1> QED BY <1>2, <1>4 DEF IInv

\* A parameter is bound, or the halted statement refuses it.
LEMMA BindKeeps ==
    ASSUME IInv, Bind
    PROVE  IInv'
<1>1. /\ Types /\ step \in 0 .. 14 /\ StepNames
      /\ BoundIsOfLine /\ Halts /\ Counted /\ RowsOfRecords
  BY StepAt DEF IInv, ColumnsInv, Types
<1>2. step \in {1, 3, 5, 6, 8, 10}
  <2>1. Doing \in {"id", "text", "lat0", "lon0", "time", "app"}
    BY DEF Bind, Parameters, Keys
  <2> QED BY <1>1, <2>1 DEF StepNames
<1>3. UNCHANGED <<rejected, id, query, table, columns, size>>
  BY DEF Bind
<1>4. CASE query = "ready"
  <2>1. /\ bound' = [bound EXCEPT ![Doing] = Value(Doing)] /\ line' = line
        /\ step' = step + 1 /\ Doing \in Parameters
    BY <1>2, <1>4, StepsOn DEF Bind
  <2>2. /\ Doing = "id" <=> step = 1
        /\ Doing = "text" <=> step = 6
    BY <1>1 DEF StepNames
  <2>3. /\ bound \in [Parameters -> Nat \cup {None}] /\ id \in Nat /\ line \in Nat
        /\ "id" \in Parameters /\ "text" \in Parameters
    BY <1>1 DEF Types, Parameters
  <2>4. /\ bound' \in [Parameters -> Nat \cup {None}]
        /\ bound'["id"] = IF step = 1 THEN id ELSE bound["id"]
        /\ bound'["text"] = IF step = 6 THEN line ELSE bound["text"]
    BY <2>1, <2>2, <2>3 DEF Value
  <2>5. Types'
    BY <1>1, <1>2, <1>3, <2>1, <2>4 DEF Types
  <2>6. ColumnsInv'
    BY <1>2, <1>3, <2>1, <2>5, StayColumns DEF IInv
  <2>7. app' = app
    BY <1>3 DEF app
  <2>8. BoundIsOfLine'
    BY <1>1, <1>2, <1>3, <2>1, <2>4 DEF BoundIsOfLine
  <2>9. Halts' /\ Counted' /\ RowsOfRecords'
    BY <1>1, <1>2, <1>3, <1>4, <2>1, <2>7 DEF Halts, Counted, RowsOfRecords
  <2> QED BY <2>6, <2>8, <2>9 DEF IInv
<1>5. CASE query # "ready"
  <2>1. step = 1
    BY <1>1, <1>2, <1>5 DEF Halts, Types
  <2>2. step' = 0 /\ line' = line + 1 /\ bound' = bound /\ line \in 1 .. Lines
    BY <1>1, <1>5, <2>1 DEF Bind, Abandon, Types
  <2> QED BY <1>3, <2>1, <2>2, GiveUpKeeps
<1> QED BY <1>4, <1>5

\* The line comes to the end of a column.
LEMMA AddKeeps ==
    ASSUME IInv, Add
    PROVE  IInv'
<1>1. /\ Types /\ step \in 0 .. 14 /\ StepNames
      /\ BoundIsOfLine /\ Halts /\ Counted /\ RowsOfRecords
  BY StepAt DEF IInv, ColumnsInv, Types
<1>2. PICK key \in Keys :
        /\ Doing = Adds[key] /\ columns' = [columns EXCEPT ![key] = Append(@, line)]
        /\ GoOn /\ UNCHANGED <<rejected, line, id, bound, query, table, size>>
  BY DEF Add
<1>3. /\ step \in {2, 4, 7, 9}
      /\ key = CASE step = 2 -> "lat0" [] step = 4 -> "lon0"
                 [] step = 7 -> "time" [] step = 9 -> "app"
  <2>1. /\ Adds["lat0"] = "add lat0" /\ Adds["lon0"] = "add lon0"
        /\ Adds["time"] = "add time" /\ Adds["app"] = "add app"
    BY DEF Adds
  <2>2. CASE key = "lat0"
    <3>1. step = 2
      BY <1>1, <1>2, <2>1, <2>2 DEF StepNames
    <3> QED BY <2>2, <3>1
  <2>3. CASE key = "lon0"
    <3>1. step = 4
      BY <1>1, <1>2, <2>1, <2>3 DEF StepNames
    <3> QED BY <2>3, <3>1
  <2>4. CASE key = "time"
    <3>1. step = 7
      BY <1>1, <1>2, <2>1, <2>4 DEF StepNames
    <3> QED BY <2>4, <3>1
  <2>5. CASE key = "app"
    <3>1. step = 9
      BY <1>1, <1>2, <2>1, <2>5 DEF StepNames
    <3> QED BY <2>5, <3>1
  <2> QED BY <1>2, <2>2, <2>3, <2>4, <2>5 DEF Keys
<1>4. step' = step + 1 /\ line \in 1 .. Lines
  BY <1>1, <1>2, <1>3, StepsOn DEF Types
<1>5. /\ columns \in [Keys -> Seq(1 .. Lines)] /\ columns[key] \in Seq(1 .. Lines)
      /\ app \in Seq(1 .. Lines)
  BY <1>1 DEF Types, app, Keys
<1>6. columns' \in [Keys -> Seq(1 .. Lines)]
  <2>1. Append(columns[key], line) \in Seq(1 .. Lines)
    BY <1>4, <1>5
  <2> QED BY <1>2, <1>5, <2>1
<1>7. Types'
  BY <1>1, <1>2, <1>3, <1>4, <1>6 DEF Types
<1>8. ColumnsInv'
  BY <1>2, <1>3, <1>4, <1>7, AddColumns DEF IInv
<1>9. app' = IF step = 9 THEN Append(app, line) ELSE app
  BY <1>2, <1>3, <1>5 DEF app, Keys
<1>10. /\ Len(app') = IF step = 9 THEN Len(app) + 1 ELSE Len(app)
       /\ Len(app) \in Nat
       /\ \A i \in DOMAIN app : i \in DOMAIN app' /\ app'[i] = app[i]
  BY <1>4, <1>5, <1>9, Appended
<1>11. BoundIsOfLine' /\ Halts'
  BY <1>1, <1>2, <1>3, <1>4 DEF BoundIsOfLine, Halts
<1>12. Counted'
  <2>1. step' < 12 /\ step < 12
    BY <1>3, <1>4
  <2>2. /\ size' = IF step' >= 12 \/ query' = "halted" THEN id' + 1 ELSE id'
        /\ DOMAIN table' = 0 .. (IF step' \in {13, 14} THEN id' ELSE id' - 1)
    BY <1>1, <1>2, <1>3, <1>4 DEF Counted
  <2>3. Len(app') = size' + (IF step' \in {10, 11} THEN 1 ELSE 0)
    <3>1. Len(app) = size + 0 /\ size \in Nat /\ size' = size
      BY <1>1, <1>2, <1>3 DEF Counted, Types
    <3>2. CASE step = 9
      BY <1>4, <1>10, <3>1, <3>2
    <3>3. CASE step # 9
      BY <1>3, <1>4, <1>10, <3>1, <3>3
    <3> QED BY <3>2, <3>3
  <2> QED BY <2>2, <2>3 DEF Counted
<1>13. RowsOfRecords'
  BY <1>1, <1>2, <1>10 DEF RowsOfRecords
<1> QED BY <1>8, <1>11, <1>12, <1>13 DEF IInv

\* The record is counted.
LEMMA ExecuteKeeps ==
    ASSUME IInv, Execute
    PROVE  IInv'
<1>1. /\ Types /\ step \in 0 .. 14 /\ StepNames
      /\ BoundIsOfLine /\ Halts /\ Counted /\ RowsOfRecords
  BY StepAt DEF IInv, ColumnsInv, Types
<1>2. /\ step = 11 /\ step' = 12 /\ size' = size + 1
      /\ UNCHANGED <<rejected, line, id, bound, query, table, columns>>
  BY <1>1, StepsOn DEF Execute, StepNames
<1>3. Types'
  BY <1>1, <1>2 DEF Types
<1>4. ColumnsInv'
  BY <1>2, <1>3, StayColumns DEF IInv
<1>5. app' = app
  BY <1>2 DEF app
<1>6. Counted'
  BY <1>1, <1>2, <1>5 DEF Counted, Halts, Types
<1>7. BoundIsOfLine' /\ Halts' /\ RowsOfRecords'
  BY <1>1, <1>2, <1>5 DEF BoundIsOfLine, Halts, RowsOfRecords
<1> QED BY <1>4, <1>6, <1>7 DEF IInv

\* The row takes the next id, at the position of the record last added.
LEMMA ExecKeeps ==
    ASSUME IInv, Exec
    PROVE  IInv'
<1>1. /\ Types /\ step \in 0 .. 14 /\ StepNames
      /\ BoundIsOfLine /\ Halts /\ Counted /\ RowsOfRecords
      /\ Ordered(app, 9) /\ ColumnShape
  BY StepAt, ColumnFacts DEF IInv, ColumnsInv, Types
<1>2. /\ step = 12 /\ step' = 13 /\ query' = "halted" /\ bound["id"] = id
      /\ bound["text"] = line /\ table' = [i \in DOMAIN table \cup {id} |-> IF i = id THEN bound ELSE table[i]]
      /\ UNCHANGED <<rejected, line, id, bound, columns, size>>
  BY <1>1, StepsOn DEF Exec, StepNames, BoundIsOfLine
<1>3. Types'
  BY <1>1, <1>2 DEF Types
<1>4. ColumnsInv'
  BY <1>2, <1>3, StayColumns DEF IInv
<1>5. app' = app
  BY <1>2 DEF app
<1>6. /\ DOMAIN table = 0 .. id - 1 /\ id \in Nat /\ Len(app) = id + 1
  BY <1>1, <1>2 DEF Counted, Types
<1>7. /\ DOMAIN table' = {id} \cup DOMAIN table
      /\ table'[id] = bound
      /\ \A j \in DOMAIN table : j # id => table'[j] = table[j]
  BY <1>2
<1>8. DOMAIN table' = 0 .. id
  BY <1>6, <1>7
<1>9. Counted'
  BY <1>1, <1>2, <1>5, <1>8 DEF Counted
<1>10. RowsOfRecords'
  <2>1. app[id + 1] = line /\ id + 1 \in DOMAIN app
    BY <1>1, <1>2, <1>6 DEF Ordered, ColumnShape
  <2>2. \A i \in DOMAIN table : i # id
    BY <1>6
  <2> QED BY <1>1, <1>2, <1>5, <1>7, <2>1, <2>2 DEF RowsOfRecords
<1>11. BoundIsOfLine' /\ Halts'
  BY <1>1, <1>2 DEF BoundIsOfLine, Halts
<1> QED BY <1>4, <1>9, <1>10, <1>11 DEF IInv

\* The row is refused: the record stays and the statement is halted.
LEMMA ExecFailsKeeps ==
    ASSUME IInv, ExecFails
    PROVE  IInv'
<1>1. /\ Types /\ step \in 0 .. 14 /\ StepNames
      /\ BoundIsOfLine /\ Halts /\ Counted /\ RowsOfRecords
  BY StepAt DEF IInv, ColumnsInv, Types
<1>2. /\ step = 12 /\ step' = 0 /\ query' = "halted" /\ line' = line + 1
      /\ line \in 1 .. Lines
      /\ UNCHANGED <<rejected, id, bound, table, columns, size>>
  BY <1>1 DEF ExecFails, Abandon, StepNames, Types
<1>3. Types'
  BY <1>1, <1>2, SqlAssumption DEF Types
<1>4. ColumnsInv'
  BY <1>2, <1>3, EndColumns DEF IInv
<1>5. app' = app
  BY <1>2 DEF app
<1>6. Counted'
  BY <1>1, <1>2, <1>5 DEF Counted
<1>7. BoundIsOfLine' /\ Halts' /\ RowsOfRecords'
  BY <1>1, <1>2, <1>5 DEF BoundIsOfLine, Halts, RowsOfRecords
<1> QED BY <1>4, <1>6, <1>7 DEF IInv

\* The statement is ready for the next row.
LEMMA ResetKeeps ==
    ASSUME IInv, Reset
    PROVE  IInv'
<1>1. /\ Types /\ step \in 0 .. 14 /\ StepNames
      /\ BoundIsOfLine /\ Halts /\ Counted /\ RowsOfRecords
  BY StepAt DEF IInv, ColumnsInv, Types
<1>2. /\ step = 13 /\ step' = 14 /\ query' = "ready"
      /\ UNCHANGED <<rejected, line, id, bound, table, columns, size>>
  BY <1>1, StepsOn DEF Reset, StepNames
<1>3. Types'
  BY <1>1, <1>2 DEF Types
<1>4. ColumnsInv'
  BY <1>2, <1>3, StayColumns DEF IInv
<1>5. app' = app
  BY <1>2 DEF app
<1>6. Counted'
  BY <1>1, <1>2, <1>5 DEF Counted
<1>7. BoundIsOfLine' /\ Halts' /\ RowsOfRecords'
  BY <1>1, <1>2, <1>5 DEF BoundIsOfLine, Halts, RowsOfRecords
<1> QED BY <1>4, <1>6, <1>7 DEF IInv

\* The row is counted, and the line ends.
LEMMA NextIdKeeps ==
    ASSUME IInv, NextId
    PROVE  IInv'
<1>1. /\ Types /\ step \in 0 .. 14 /\ StepNames
      /\ BoundIsOfLine /\ Halts /\ Counted /\ RowsOfRecords
  BY StepAt DEF IInv, ColumnsInv, Types
<1>2. /\ step = 14 /\ step' = 0 /\ id' = id + 1 /\ line' = line + 1
      /\ line \in 1 .. Lines /\ query # "halted"
      /\ UNCHANGED <<rejected, bound, query, table, columns, size>>
  <2>1. step = 14 /\ id' = id + 1 /\ line' = line + 1
        /\ UNCHANGED <<rejected, bound, query, table, columns, size>>
    BY <1>1 DEF NextId, StepNames
  <2>2. step' = 0
    <3>1. Len(Steps) = 14
      BY StepsAre
    <3>2. step = Len(Steps)
      BY <2>1, <3>1
    <3> QED BY <3>2, Zenon DEF NextId, GoOn
  <2>3. line \in 1 .. Lines /\ query # "halted"
    BY <1>1, <2>1 DEF Types, Halts
  <2> QED BY <2>1, <2>2, <2>3
<1>3. Types'
  BY <1>1, <1>2, SqlAssumption DEF Types
<1>4. ColumnsInv'
  BY <1>2, <1>3, EndColumns DEF IInv
<1>5. app' = app
  BY <1>2 DEF app
<1>6. Counted'
  BY <1>1, <1>2, <1>5 DEF Counted, Types
<1>7. BoundIsOfLine' /\ Halts' /\ RowsOfRecords'
  BY <1>1, <1>2, <1>5 DEF BoundIsOfLine, Halts, RowsOfRecords
<1> QED BY <1>4, <1>6, <1>7 DEF IInv

\* Every step keeps the invariant.
LEMMA NextKeeps == IInv /\ [Next]_vars => IInv'
<1> SUFFICES ASSUME IInv, [Next]_vars PROVE IInv'
  OBVIOUS
<1>1. CASE Reject
  <2>1. /\ step = 0 /\ step' = 0 /\ line' = line + 1 /\ line \in 1 .. Lines
        /\ UNCHANGED <<rejected, id, bound, query, table, columns, size>>
    BY <1>1 DEF Reject, IInv, ColumnsInv, Types
  <2> QED BY <2>1, GiveUpKeeps
<1>2. CASE BindFails
  <2>1. step \in 0 .. 14 /\ StepNames /\ Types
    BY StepAt DEF IInv, ColumnsInv, Types
  <2>2. /\ step = 6 /\ step' = 0 /\ line' = line + 1 /\ line \in 1 .. Lines
        /\ UNCHANGED <<rejected, id, bound, query, table, columns, size>>
    BY <1>2, <2>1 DEF BindFails, Abandon, StepNames, Types
  <2> QED BY <2>2, GiveUpKeeps
<1>3. CASE UNCHANGED vars
  <2>1. /\ rejected' = rejected /\ line' = line /\ step' = step /\ id' = id
        /\ bound' = bound /\ query' = query /\ table' = table
        /\ columns' = columns /\ size' = size
    BY <1>3 DEF vars
  <2>2. lat' = lat /\ app' = app /\ Torn' = Torn
    BY <2>1 DEF lat, app, Torn
  <2>3. ColumnsInv'
    BY <2>1, <2>2, Zenon DEF IInv, ColumnsInv, Types, Twins, Ordered, Surplus, NoGaps
  <2>4. BoundIsOfLine' /\ Halts' /\ Counted' /\ RowsOfRecords'
    BY <2>1, <2>2, Zenon DEF IInv, BoundIsOfLine, Halts, Counted, RowsOfRecords
  <2> QED BY <2>3, <2>4 DEF IInv
<1> QED BY <1>1, <1>2, <1>3, ParseKeeps, BindKeeps, AddKeeps, ExecuteKeeps, ExecKeeps,
           ExecFailsKeeps, ResetKeeps, NextIdKeeps DEF Next

\* An empty table beside empty columns.
LEMMA InitKeeps == Init => IInv
<1> SUFFICES ASSUME Init PROVE IInv
  OBVIOUS
<1>1. /\ rejected \subseteq 1 .. Lines /\ line = 1 /\ step = 0 /\ id = 0 /\ size = 0
      /\ bound = [p \in Parameters |-> None] /\ query = "ready" /\ table = << >>
      /\ columns = [key \in Keys |-> << >>]
  BY DEF Init
<1>2. /\ lat = << >> /\ app = << >>
      /\ columns["lon0"] = << >> /\ columns["time"] = << >>
  BY <1>1 DEF lat, app, Keys
<1>3. /\ DOMAIN << >> = {} /\ Len(<< >>) = 0 /\ << >> \in Seq(1 .. Lines)
      /\ 0 .. -1 = {}
  OBVIOUS
<1>4. Torn = {}
  BY <1>2, <1>3 DEF Torn, lat
<1>5. Cardinality(Torn) = 0
  BY <1>4, FS_EmptySet
<1>6. Types
  <2>1. bound \in [Parameters -> Nat \cup {None}]
    BY <1>1
  <2>2. columns \in [Keys -> Seq(1 .. Lines)]
    BY <1>1, <1>3
  <2>3. line \in 1 .. Lines + 1
    BY <1>1, SqlAssumption
  <2> QED BY <1>1, <2>1, <2>2, <2>3 DEF Types
<1>7. Twins /\ Surplus
  BY <1>1, <1>2, <1>3, <1>5 DEF Twins, Surplus
<1>8. Ordered(lat, 2) /\ Ordered(app, 9) /\ NoGaps
  BY <1>1, <1>2, <1>3 DEF Ordered, NoGaps
<1>9. BoundIsOfLine /\ Halts
  BY <1>1 DEF BoundIsOfLine, Halts
<1>10. Counted
  <2>1. DOMAIN table = 0 .. id - 1
    BY <1>1, <1>3
  <2> QED BY <1>1, <1>2, <1>3, <2>1 DEF Counted
<1>11. RowsOfRecords
  BY <1>1, <1>3 DEF RowsOfRecords
<1> QED BY <1>6, <1>7, <1>8, <1>9, <1>10, <1>11 DEF IInv, ColumnsInv

\* The columns, the rows and their numbers keep the invariant.
LEMMA Inductive == Spec => []IInv
BY InitKeeps, NextKeeps, PTL DEF Spec

-----------------------------------------------------------------------------
(* What follows.                                                           *)

\* What the invariant says of types and of the numbers of rows.
LEMMA TypesFollow == IInv => TypeOK
<1> SUFFICES ASSUME IInv PROVE TypeOK
  OBVIOUS
<1>1. Types /\ Counted /\ StepNames /\ Len(Steps) = 14
  BY StepAt, StepsAre DEF IInv, ColumnsInv, Types
<1>2. Doing \in {"reset", "next"} <=> step \in {13, 14}
  BY <1>1 DEF StepNames
<1>3. DOMAIN table = 0 .. (IF Doing \in {"reset", "next"} THEN id ELSE id - 1)
  <2>1. CASE step \in {13, 14}
    BY <1>1, <1>2, <2>1 DEF Counted
  <2>2. CASE step \notin {13, 14}
    BY <1>1, <1>2, <2>2 DEF Counted
  <2> QED BY <2>1, <2>2
<1> QED BY <1>1, <1>3, Zenon DEF Types, TypeOK

\* A row before the first torn line is at its position in every column.
LEMMA RowsFollow == IInv => RowsMatchColumns
<1> SUFFICES ASSUME IInv, NEW i \in DOMAIN table, NEW key \in Keys,
                    \A l \in Torn : table[i]["text"] < l
             PROVE  i < Len(columns[key]) /\ columns[key][i + 1] = table[i]["text"]
  BY DEF RowsMatchColumns
<1>1. Types /\ Twins /\ Ordered(app, 9) /\ NoGaps /\ ColumnShape /\ Counted /\ RowsOfRecords
  BY ColumnFacts DEF IInv, ColumnsInv
<1>2. i \in Nat
  <2>1. id \in Nat /\ i \in 0 .. (IF step \in {13, 14} THEN id ELSE id - 1)
    BY <1>1 DEF Counted, Types
  <2> QED BY <2>1
<1> DEFINE j == i + 1
<1>3. j \in DOMAIN app /\ app[j] = table[i]["text"]
  BY <1>1 DEF RowsOfRecords
<1>4. j <= Len(lat) /\ lat[j] = app[j] /\ j \in DOMAIN lat /\ j <= Len(app)
  BY <1>1, <1>3 DEF NoGaps, ColumnShape
<1>5. CASE key \in {"lat0", "app"}
  <2>1. columns[key] \in {lat, app}
    BY <1>5 DEF lat, app
  <2>2. i < Len(lat) /\ i < Len(app) /\ Len(lat) \in Nat /\ Len(app) \in Nat
    BY <1>1, <1>2, <1>4 DEF ColumnShape
  <2> QED BY <1>3, <1>4, <2>1, <2>2
<1>6. CASE key = "time"
  <2>1. CASE step \in {8, 9}
    <3>1. columns["time"] = Append(app, line) /\ line \in 1 .. Lines
      BY <1>1, <2>1 DEF Twins, Types
    <3>2. Len(columns["time"]) = Len(app) + 1 /\ columns["time"][j] = app[j]
      BY <1>1, <1>3, <3>1, Appended DEF ColumnShape
    <3> QED BY <1>1, <1>2, <1>3, <1>4, <1>6, <3>2 DEF ColumnShape
  <2>2. CASE step \notin {8, 9}
    <3>1. columns["time"] = app
      BY <1>1, <2>2 DEF Twins
    <3> QED BY <1>1, <1>2, <1>3, <1>4, <1>6, <3>1 DEF ColumnShape
  <2> QED BY <2>1, <2>2
<1>7. CASE key = "lon0"
  <2>1. CASE step \in {3, 4}
    <3>1. lat = Append(columns["lon0"], line) /\ line \in 1 .. Lines
      BY <1>1, <2>1 DEF Twins, Types
    <3>2. /\ Len(lat) = Len(columns["lon0"]) + 1 /\ lat[Len(columns["lon0"]) + 1] = line
          /\ Len(columns["lon0"]) \in Nat
          /\ DOMAIN columns["lon0"] = 1 .. Len(columns["lon0"])
          /\ \A k \in DOMAIN columns["lon0"] : lat[k] = columns["lon0"][k]
      BY <1>1, <3>1, Appended DEF ColumnShape
    <3>3. app[j] # line
      BY <1>1, <1>3, <2>1 DEF Ordered
    <3>4. j # Len(columns["lon0"]) + 1
      BY <1>4, <3>2, <3>3
    <3>5. j \in 1 .. Len(columns["lon0"])
      BY <1>2, <1>4, <3>2, <3>4
    <3> QED BY <1>2, <1>3, <1>4, <1>7, <3>2, <3>5
  <2>2. CASE step \notin {3, 4}
    <3>1. columns["lon0"] = lat
      BY <1>1, <2>2 DEF Twins
    <3> QED BY <1>1, <1>2, <1>3, <1>4, <1>7, <3>1 DEF ColumnShape
  <2> QED BY <2>1, <2>2
<1> QED BY <1>5, <1>6, <1>7 DEF Keys

\* Between two lines nothing is half written.
LEMMA NumbersFollow == IInv => NumberingAgrees
<1> SUFFICES ASSUME IInv, step = 0 PROVE NumberingAgrees
  BY DEF NumberingAgrees
<1>1. Types /\ Twins /\ Surplus /\ ColumnShape /\ Counted
  BY ColumnFacts DEF IInv, ColumnsInv
<1>2. Len(app) = size /\ Len(lat) = Len(app) + Cardinality(Torn)
  <2>1. Len(app) = size + 0 /\ Len(lat) = Len(app) + Cardinality(Torn) + 0
    BY <1>1 DEF Counted, Surplus
  <2> QED BY <1>1, <2>1, TornFinite DEF Types, ColumnShape
<1>3. columns["lon0"] = lat /\ columns["time"] = app
  BY <1>1 DEF Twins
<1>4. DOMAIN table = 0 .. id - 1 /\ id \in Nat
  BY <1>1 DEF Counted, Types
<1>5. Cardinality(DOMAIN table) = id
  <2>1. Cardinality(0 .. id - 1) = IF 0 > id - 1 THEN 0 ELSE (id - 1) - 0 + 1
    BY <1>4, FS_Interval
  <2> QED BY <1>4, <2>1
<1>6. size = id \/ (size = id + 1 /\ query = "halted")
  BY <1>1 DEF Counted
<1>7. \A key \in {"time", "app"} : Len(columns[key]) = size
  BY <1>2, <1>3 DEF app
<1>8. \A key \in {"lat0", "lon0"} : Len(columns[key]) = size + Cardinality(Torn)
  BY <1>2, <1>3 DEF lat
<1> QED BY <1>5, <1>6, <1>7, <1>8, Zenon DEF NumberingAgrees

\* The state of util::twitter_sql is of its types, and the rows of the table
\* are numbered from 0 without a gap, whatever SQLite refuses.
THEOREM TypeCorrect == Spec => []TypeOK
BY Inductive, TypesFollow, PTL

\* util::twitter_sql keeps a row at the position of its record in every
\* column, up to the first line that was torn.
THEOREM RowsMatch == Spec => []RowsMatchColumns
BY Inductive, RowsFollow, PTL

\* Between two lines of util::twitter_sql the columns differ in length by the
\* torn lines, and only the last record may have no row.
THEOREM NumberingHolds == Spec => []NumberingAgrees
BY Inductive, NumbersFollow, PTL
=============================================================================
