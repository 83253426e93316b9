----------------------------- MODULE QueryText ------------------------------
(***************************************************************************)
(* Requests as text: how the page writes what is selected into an address, *)
(* how Query reads it clause by clause, how operator<< prints a Query to   *)
(* the telemetry file, and how lines of a recorded log of another system   *)
(* become queries (Nanocubes.h). A behaviour is one request: written,      *)
(* read, printed, and what was printed read again.                         *)
(*                                                                         *)
(* A text is the sequence of its tokens; what is between "where" and the   *)
(* next slash is one token.                                                *)
(*                                                                         *)
(* A definition named X_Y is the definition X with the slip Y in it.       *)
(***************************************************************************)
EXTENDS Integers, Sequences, SequencesExt, Functions

CONSTANTS
    Cubes,      \* names of cubes
    Keys,       \* number of spatial keys
    Sizes,      \* values of each categorical dimension, by its name
    Menu,       \* the fields of the menu of the page, in order
    Timelines,  \* the time-series of the page, in order
    Zoom,       \* of the map
    Unclear,    \* numbers a variable may hold that was not initialised
    Mantissa,   \* bits of the mantissa of a float (24)
    Schemata,   \* the fields of the log: their name here, their values
    Bins,       \* [first, last, size] of the times of the log
    LogLines,   \* lines of the log: [instance, type, at, resolution, time,
                \* fields, bad]
    Selections, \* what may be selected on the page:
                \* [instance, type, marker, checked, time, key, place, x, y]
    None

SpatialKeys == 0 .. Keys - 1

ASSUME QueryTextAssumption ==
    /\ Keys \in Nat /\ Zoom \in Nat /\ Mantissa \in Nat \ {0}
    /\ \A f \in DOMAIN Sizes : Sizes[f] \in Nat
    /\ \A sel \in Selections, f \in DOMAIN Sizes :
          f \in ToSet(Menu) => sel.checked[f] \subseteq 0 .. Sizes[f] - 1

Types == {"tile", "group", "tseries", "scatter", "region", "mysql"}

VARIABLES
    asked,   \* what was selected on the page, or the line of the log
    text,    \* the tokens that are still to be read
    query,   \* the Query as far as it is read
    first,   \* the Query that was printed
    turn     \* where the request is: "address", "parse", "served", "printed",
             \* "again", "done"; or how it ended before: "rejected" (answered
             \* []), "undefined" (memory that is not the program's), "ended"

vars == <<asked, text, query, first, turn>>

-----------------------------------------------------------------------------
(* Tokens.                                                                 *)

Word(w)    == <<"word", w>>
Number(n)  == <<"number", n>>
Clauses(c) == <<"clauses", c>>

Words(s)   == [i \in DOMAIN s |-> Word(s[i])]
Numbers(s) == [i \in DOMAIN s |-> Number(s[i])]

Corners(r) == <<r.x0, r.y0, r.x1, r.y1>>

\* "/region/<key>/<z>/<x0>/<y0>/<x1>/<y1>"
RegionText(k, z, rect) == <<Word("region")>> \o Numbers(<<k, z>> \o Corners(rect))

TileText(k, t, r) == <<Word("tile")>> \o Numbers(<<k, t.x, t.y, t.z, r>>)

TimeText(f, i) == Words(<<"tseries", f>>) \o Numbers(<<i.lower, i.upper>>)

WhereText(clauses) == <<Word("where"), Clauses(clauses)>>

\* The numbers of a set, as a sequence in ascending order.
Ascending(S) == SetToSortSeq(S, <)

-----------------------------------------------------------------------------
(* What the page writes: updateDataRestrictions, a_getQuery and drawTile.  *)

World == [x0 |-> 0, y0 |-> 0, x1 |-> 0, y1 |-> 0]

RegionsOfPage(sel) ==
    LET drawn == {k \in SpatialKeys : sel.marker[k] # None}
    IN  IF drawn = {} THEN RegionText(0, 0, World)
        ELSE FlattenSeq([i \in DOMAIN Ascending(drawn) |->
               LET k == Ascending(drawn)[i] IN RegionText(k, Zoom + 8, sel.marker[k])])

\* A field of the menu without a check is written without a value.
WhereOfPage(sel) ==
    IF \A f \in ToSet(Menu) : sel.checked[f] = {} THEN <<>>
    ELSE WhereText([i \in DOMAIN Menu |-> <<Menu[i], Ascending(sel.checked[Menu[i]])>>])

TimesOfPage(sel) ==
    FlattenSeq([i \in DOMAIN Timelines |-> TimeText(Timelines[i], sel.time)])

\* /<instance>/<type>/...
AddressOfPage(sel) ==
    LET region == RegionsOfPage(sel)
        where  == WhereOfPage(sel)
        time   == TimesOfPage(sel)
    IN  Words(<<sel.instance, sel.type>>) \o
        CASE sel.type = "tile"    -> TileText(sel.key, sel.place, 8) \o where \o time
          [] sel.type = "region"  -> region \o time \o where
          [] sel.type = "mysql"   -> time \o region \o where
          [] sel.type = "tseries" -> time \o region \o where
          [] sel.type = "group"   -> Words(<<"field", sel.x>>) \o region \o where \o time
          [] sel.type = "scatter" -> Words(<<"field", sel.x, "field", sel.y>>) \o region

\* An address that is typed may be cut short, hold another word anywhere, or
\* ask for a value there is not.
Damaged(address) ==
    {SubSeq(address, 1, n) : n \in 1 .. Len(address) - 1}
      \cup {[address EXCEPT ![n] = Word("?")] : n \in DOMAIN address}
      \cup {[address EXCEPT ![n] = Clauses(<<<<f, <<Sizes[f]>>>>>>)] :
              n \in {i \in DOMAIN address : address[i][1] = "clauses"},
              f \in DOMAIN Sizes}

-----------------------------------------------------------------------------
(* What Query reads.                                                       *)

HasCube(instance) == instance \in Cubes

\* The constructor by name and type: no regions nor tiles without a cube, and
\* a type that is none of the six is whatever the memory held, "other" if
\* that is none of the six either.
Blank(instance, type) ==
    LET keys == IF HasCube(instance) THEN SpatialKeys ELSE {}
    IN  [instance : {instance},
         type     : IF type \in Types THEN {type} ELSE Types \cup {"other"},
         tile     : {[k \in keys |-> None]},
         region   : {[k \in keys |-> None]},
         last     : {0},
         zoom     : Unclear, resolution : Unclear,
         group    : {{}}, where : {<<>>}, tseries : {<<>>}]

\* emplace of a map: the first value of a key stays.
Emplace(map, key, value) ==
    IF key \in DOMAIN map THEN map
    ELSE [k \in DOMAIN map \cup {key} |-> IF k = key THEN value ELSE map[k]]

\* emplaceTile and emplaceRegion: a key the cube does not have is ignored.
EmplaceTile(q, k, tile) ==
    IF k \in DOMAIN q.tile THEN [q EXCEPT !.tile[k] = tile] ELSE q

EmplaceRegion(q, k, region) ==
    IF k \in DOMAIN q.region THEN [q EXCEPT !.region[k] = region, !.last = k] ELSE q

\* emplaceWhere: the values that are set, where the cube has the dimension.
EmplaceWhere(q, f, values) ==
    IF HasCube(q.instance) /\ f \in DOMAIN Sizes
    THEN [q EXCEPT !.where = Emplace(q.where, f, values)] ELSE q

\* Whether emplaceWhere stays within the bits of the dimension.
WithinSize(instance, clause) ==
    HasCube(instance) /\ clause[1] \in DOMAIN Sizes
       => clause[2] \subseteq 0 .. Sizes[clause[1]] - 1

\* Whether the loop over the clauses of a where does.
AllWithinSize(instance, clauses) ==
    \A i \in DOMAIN clauses : WithinSize(instance, <<clauses[i][1], ToSet(clauses[i][2])>>)

\* That loop; a clause without values says nothing.
ReadClauses_Empty(q, clauses) ==
    FoldLeft(LAMBDA p, c : EmplaceWhere(p, c[1], ToSet(c[2])), q, clauses)

ReadClauses(q, clauses) ==
    FoldLeft(LAMBDA p, c : IF c[2] = <<>> THEN p ELSE EmplaceWhere(p, c[1], ToSet(c[2])),
             q, clauses)

\* (int)stof: what is left of a number in a float, to the nearest, a tie to
\* the even one.
Float(n) ==
    LET unit == CHOOSE u \in {2^e : e \in 0 .. Mantissa} :
                  /\ n < u * 2^Mantissa
                  /\ u = 1 \/ n >= (u \div 2) * 2^Mantissa
        over == 2 * (n % unit)
        low  == n \div unit
    IN  IF over < unit \/ (over = unit /\ low % 2 = 0) THEN low * unit ELSE (low + 1) * unit

\* What nextToken reads after each keyword.
Arguments == [tile    |-> <<"number", "number", "number", "number", "number">>,
              region  |-> <<"number", "number", "number", "number", "number", "number">>,
              field   |-> <<"word">>,
              where   |-> <<"clauses">>,
              tseries |-> <<"word", "number", "number">>]

\* stoi and its like throw where there is no number.
Throws(word, args) ==
    \E i \in DOMAIN args : Arguments[word][i] = "number" /\ args[i][1] # "number"

ReadClause(q, word, args) ==
    LET n(i) == args[i][2]
    IN  CASE word = "tile" ->
               EmplaceTile([q EXCEPT !.zoom = n(4), !.resolution = n(5)],
                           n(1), [x |-> n(2), y |-> n(3), z |-> n(4)])
          [] word = "region" ->
               EmplaceRegion([q EXCEPT !.zoom = n(2)], n(1),
                             [x0 |-> Float(n(3)), y0 |-> Float(n(4)),
                              x1 |-> Float(n(5)), y1 |-> Float(n(6)), z |-> n(2)])
          [] word = "field" -> [q EXCEPT !.group = q.group \cup {n(1)}]
          [] word = "where" ->
               IF args[1][1] = "clauses" THEN ReadClauses(q, n(1)) ELSE q
          [] word = "tseries" ->
               [q EXCEPT !.tseries =
                   Emplace(q.tseries, n(1), [lower |-> n(2), upper |-> n(3)])]

-----------------------------------------------------------------------------
(* What operator<< prints: any order of the maps.                          *)

WhereTexts_All(q) ==
    {WhereText([i \in DOMAIN o |-> <<o[i], Ascending(0 .. Sizes[o[i]] - 1)>>]) :
       o \in SetToSeqs(DOMAIN q.where)}

\* A field restricted to no value is printed like one that is not restricted.
WhereTexts(q) ==
    IF q.where = <<>> THEN {<<>>}
    ELSE {WhereText([i \in DOMAIN o |-> <<o[i], Ascending(q.where[o[i]])>>]) :
            o \in SetToSeqs(DOMAIN q.where)}

Printed(q) ==
    LET Valid(part) == Ascending({k \in DOMAIN part : part[k] # None})
        tiles   == FlattenSeq([i \in DOMAIN Valid(q.tile) |->
                     LET k == Valid(q.tile)[i] IN TileText(k, q.tile[k], q.resolution)])
        regions == FlattenSeq([i \in DOMAIN Valid(q.region) |->
                     LET k == Valid(q.region)[i] IN RegionText(k, q.zoom, q.region[k])])
        head    == Words(IF q.type \in Types THEN <<q.instance, q.type>> ELSE <<q.instance>>)
    IN  {head \o tiles \o regions \o FlattenSeq([i \in DOMAIN g |-> Words(<<"field", g[i]>>)])
           \o w \o FlattenSeq([i \in DOMAIN t |-> TimeText(t[i], q.tseries[t[i]])]) :
           g \in SetToSeqs(q.group), w \in WhereTexts(q), t \in SetToSeqs(DOMAIN q.tseries)}

-----------------------------------------------------------------------------
(* Lines of the log.                                                       *)

\* nanocubes_log_tseries.
LogInterval(time) ==
    LET lower == Bins.size * time.from + Bins.first
    IN  [lower |-> lower,
         upper |-> IF time.to = None THEN Bins.last
                   ELSE Bins.size * (time.to + time.from) + Bins.first]

\* Translate::find: the place of a name, or the number of the names.
Find(names, name) ==
    IF name \in ToSet(names) THEN SelectInSeq(names, LAMBDA n : n = name) - 1 ELSE Len(names)

\* A turn of the loop of nanocubes_log_fields.
LogClause(c) ==
    <<Schemata[c[1]].name, {Find(Schemata[c[1]].values, n) : n \in ToSet(c[2])}>>

LogQueries(line) ==
    LET at(q) == IF line.type = "tile"
                 THEN EmplaceTile([q EXCEPT !.resolution = line.resolution], 0, line.at)
                 ELSE EmplaceRegion(q, 0, line.at)
        timed(q) == IF line.time = None THEN q
                    ELSE [q EXCEPT !.tseries = ("tseries" :> LogInterval(line.time))]
        restricted(q) == FoldLeft(LAMBDA p, c : EmplaceWhere(p, LogClause(c)[1], LogClause(c)[2]),
                                  q, line.fields)
    IN  {restricted(timed(at([q EXCEPT !.zoom = line.at.z]))) :
           q \in Blank(line.instance, line.type)}

-----------------------------------------------------------------------------
(* The life of a request.                                                  *)

\* The page asks, or somebody types; the log is read, a line at a time.
Init ==
    /\ \/ \E sel \in Selections :
             /\ asked = [from |-> "page", what |-> sel]
             /\ text = AddressOfPage(sel)
       \/ \E sel \in Selections :
             /\ asked = [from |-> "hand", what |-> sel]
             /\ text \in Damaged(AddressOfPage(sel))
       \/ \E line \in LogLines :
             /\ asked = [from |-> "log", what |-> line]
             /\ text = <<>>
    /\ turn = IF asked.from = "log" THEN "line" ELSE "address"
    /\ query = None /\ first = None

\* The handler and the first two parts: an address without a type is
\* answered at once.
Begin ==
    /\ turn \in {"address", "printed"}
    /\ IF Len(text) < 2
       THEN /\ turn' = "rejected"
            /\ UNCHANGED <<text, query>>
       ELSE /\ query' \in Blank(text[1][2], text[2][2])
            /\ text' = SubSeq(text, 3, Len(text))
            /\ turn' = IF turn = "address" THEN "parse" ELSE "again"
    /\ UNCHANGED <<asked, first>>

\* A turn of the loop: a clause, or a token that begins none.
ReadToken ==
    /\ turn \in {"parse", "again"} /\ text # <<>>
    /\ LET word == IF text[1][1] = "word" /\ text[1][2] \in DOMAIN Arguments
                   THEN text[1][2] ELSE None
           size == IF word = None THEN 0 ELSE Len(Arguments[word])
           args == SubSeq(text, 2, size + 1)
       IN  IF \/ Len(text) < size + 1
              \/ /\ word = "where" /\ args[1][1] = "clauses"
                 /\ ~AllWithinSize(query.instance, args[1][2])
           THEN turn' = "undefined" /\ UNCHANGED <<text, query>>
           ELSE IF word # None /\ Throws(word, args)
           THEN turn' = "rejected" /\ UNCHANGED <<text, query>>
           ELSE /\ query' = IF word = None THEN query ELSE ReadClause(query, word, args)
                /\ text' = SubSeq(text, size + 2, Len(text))
                /\ UNCHANGED turn
    /\ UNCHANGED <<asked, first>>

EndRead ==
    /\ turn \in {"parse", "again"} /\ text = <<>>
    /\ turn' = IF turn = "parse" THEN "served" ELSE "done"
    /\ UNCHANGED <<asked, text, query, first>>

\* A line of the log. One with a number that is none is skipped; a field that
\* nobody knows throws what is not caught, and ends main.
ReadLine ==
    /\ turn = "line"
    /\ LET line == asked.what
       IN  IF line.bad THEN turn' = "rejected" /\ UNCHANGED query
           ELSE IF \E c \in ToSet(line.fields) : c[1] \notin DOMAIN Schemata
           THEN turn' = "ended" /\ UNCHANGED query
           ELSE IF \E c \in ToSet(line.fields) : ~WithinSize(line.instance, LogClause(c))
           THEN turn' = "undefined" /\ UNCHANGED query
           ELSE turn' = "served" /\ query' \in LogQueries(line)
    /\ UNCHANGED <<asked, text, first>>

\* HashedCubeInstances::query answers, and prints the query if there is a cube.
WriteQuery ==
    /\ turn = "served" /\ HasCube(query.instance)
    /\ text' \in Printed(query)
    /\ first' = query
    /\ turn' = "printed"
    /\ UNCHANGED <<asked, query>>

Next == Begin \/ ReadToken \/ EndRead \/ ReadLine \/ WriteQuery

Spec == Init /\ [][Next]_vars

-----------------------------------------------------------------------------
(* What must come out.                                                     *)

\* What the page means by a selection.
Meant(sel) ==
    LET keys   == IF HasCube(sel.instance) THEN SpatialKeys ELSE {}
        drawn  == {k \in SpatialKeys : sel.marker[k] # None}
        fields == {f \in DOMAIN Sizes \cap ToSet(Menu) : sel.checked[f] # {}}
    IN  [instance |-> sel.instance,
         type     |-> sel.type,
         tile     |-> [k \in keys |-> IF sel.type = "tile" /\ k = sel.key
                                      THEN sel.place ELSE None],
         region   |-> [k \in keys |->
                         IF sel.type = "tile" THEN None
                         ELSE IF drawn = {} /\ k = 0 THEN World
                         ELSE sel.marker[k]],
         group    |-> CASE sel.type = "group"   -> {sel.x}
                        [] sel.type = "scatter" -> {sel.x, sel.y}
                        [] OTHER                -> {},
         where    |-> IF HasCube(sel.instance) /\ sel.type # "scatter"
                      THEN [f \in fields |-> sel.checked[f]] ELSE <<>>,
         tseries  |-> IF sel.type = "scatter" THEN <<>>
                      ELSE [f \in ToSet(Timelines) |-> sel.time]]

\* read is the rectangle meant, but for what a float cannot hold: corners are
\* exact up to 2^Mantissa, and off by a part of their size beyond it.
IsRect(read, meant) ==
    IF meant = None THEN read = None
    ELSE \A i \in 1 .. 4 :
           LET a == Corners(read)[i]
               b == Corners(meant)[i]
           IN  /\ b <= 2^Mantissa => a = b
               /\ (IF a < b THEN b - a ELSE a - b) * 2^Mantissa <= b

\* An address of the page is read as the query it means, by a cube with the
\* dimensions of the page or without some of them, and if there is no such
\* cube: no clause is taken for another, a field without a check restricts
\* nothing, and nothing is read that is not there.
Understood ==
    asked.from = "page" =>
       /\ turn \notin {"rejected", "undefined"}
       /\ turn = "served" =>
            LET meant == Meant(asked.what)
            IN  /\ \A part \in DOMAIN meant \ {"region"} : query[part] = meant[part]
                /\ DOMAIN query.region = DOMAIN meant.region
                /\ \A k \in DOMAIN meant.region : IsRect(query.region[k], meant.region[k])

\* Whether a part of a query was given a value: zoom and resolution are not
\* initialised.
Speaks(q, part) ==
    CASE part = "zoom"       -> \E k \in DOMAIN q.tile : q.tile[k] # None \/ q.region[k] # None
      [] part = "resolution" -> \E k \in DOMAIN q.tile : q.tile[k] # None
      [] OTHER               -> TRUE

\* The line printed for a query, in whatever order its maps are gone through,
\* is the address of that query, unless its type is none of the six or it
\* restricts a field to no value at all.
PrintsBack ==
    (turn = "done" /\ first.type # "other" /\ \A f \in DOMAIN first.where : first.where[f] # {})
       => \A part \in DOMAIN first : Speaks(first, part) => query[part] = first[part]
=============================================================================
