---------------------------- MODULE MCQueryText -----------------------------
(***************************************************************************)
(* QueryText with two spatial keys, two categorical dimensions and one     *)
(* temporal, under a page that knows a field the cube does not have, and   *)
(* has the time-series in its menu as view_schemas.js has.                 *)
(***************************************************************************)
EXTENDS QueryText

MCSizes     == [a |-> 2, b |-> 1]
MCMenu      == <<"a", "old", "tseries", "b">>
MCTimelines == <<"tseries">>

MCSchemata ==
    [device  |-> [name |-> "a", values |-> <<"none", "phone">>],
     carrier |-> [name |-> "b", values |-> <<"one">>],
     ontime  |-> [name |-> "delay", values |-> <<"early", "late">>]]

MCBins == [first |-> 10, last |-> 90, size |-> 7]

Rect(x0, y0, x1, y1) == [x0 |-> x0, y0 |-> y0, x1 |-> x1, y1 |-> y1]

\* With three bits 9 and 11 are not exact.
Drawn == {Rect(1, 2, 3, 4), Rect(5, 9, 11, 12)}

Markers == {m \in [SpatialKeys -> Drawn \cup {None}] : m[0] # m[1] \/ m[0] = None}

Boxes == {[f \in {"a", "b", "old", "tseries"} |->
             IF f = "a" THEN a ELSE IF f = "b" THEN b ELSE IF f = "old" THEN o ELSE {}] :
            a \in SUBSET {0, 1}, b \in SUBSET {0}, o \in SUBSET {1}}

Place == [x |-> 3, y |-> 2, z |-> 2]

MCSelections ==
    [instance : {"cube", "gone"}, type : Types, marker : Markers, checked : Boxes,
     time : {[lower |-> 3, upper |-> 8]}, key : {1}, place : {Place}, x : {"a"}, y : {"b"}]

Line(instance, type, time, fields, bad) ==
    [instance |-> instance, type |-> type, time |-> time, fields |-> fields, bad |-> bad,
     resolution |-> 5,
     at |-> IF type = "tile" THEN Place
            ELSE [x0 |-> 1, y0 |-> 2, x1 |-> 3, y1 |-> 3, z |-> 2]]

MCLogLines ==
    {Line(i, t, s, f, b) :
       i \in {"cube", "gone"}, t \in {"tile", "region", "tseries"},
       s \in {None, [from |-> 2, to |-> 3], [from |-> 0, to |-> None]},
       f \in {<<>>, <<<<"device", <<"phone", "none">>>>>>,
              <<<<"carrier", <<"one">>>>, <<"device", <<"phone">>>>>>,
              <<<<"device", <<"tablet">>>>>>, <<<<"ontime", <<"late">>>>>>,
              <<<<"weather", <<"rain">>>>>>, <<<<"carrier", <<>>>>>>},
       b \in BOOLEAN}
=============================================================================
