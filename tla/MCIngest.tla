------------------------------ MODULE MCIngest ------------------------------
(* Instances of Ingest for TLC: a spatial pass and a categorical one, one   *)
(* or two short files.                                                     *)
EXTENDS Ingest

Keys == <<"lat0", "lon0", "cat0">>

TwoPasses == <<<<"lat0", "lon0">>, <<"cat0">>>>

Plain(lines, ended) == [lines |-> lines, ended |-> ended, second |-> FALSE]

Yellow(lines) == [lines |-> lines, ended |-> TRUE, second |-> TRUE]

\* Text: the first line is the header of a file of trips, a line that is
\* dropped elsewhere.
Text == {
    <<Plain(<<"dropped", "record", "record">>, TRUE)>>,
    <<Plain(<<"dropped", "record", "record">>, FALSE)>>,
    <<Plain(<<"dropped", "record", "invalid">>, FALSE)>>,
    <<Plain(<<"dropped", "record", "range">>, TRUE)>>,
    <<Plain(<<"dropped", "record">>, FALSE),
      Plain(<<"dropped", "range", "record">>, TRUE)>>,
    <<Missing>>}

\* Green taxis and yellow ones, of which the directory may be missing.
Taxis == {
    <<Plain(<<"dropped", "record">>, FALSE), Yellow(<<"dropped", "range", "record">>)>>,
    <<Plain(<<"dropped", "record">>, TRUE), Missing>>}

\* Nothing of a binary file is dropped.
Binary == {<<Plain(<<"record", "record">>, TRUE)>>,
           <<Plain(<<"record">>, TRUE), Plain(<<"record">>, TRUE)>>}

ByLoader == [f \in Formats |-> CASE f = "dmp"   -> Binary
                                 [] f = "trips" -> Text \cup Taxis
                                 [] OTHER       -> Text]
=============================================================================
