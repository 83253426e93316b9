----------------------------- MODULE SqlIngest -----------------------------
(***************************************************************************)
(* util::twitter_sql: a line that parses becomes a row of the table, at    *)
(* the id counted so far, and a record of the column files. The two are    *)
(* written side by side, one column and one parameter of the prepared      *)
(* statement after the other, and everything that throws is caught by      *)
(* going on with the next line. The answers of the mysql query find a row  *)
(* by the position of its record in the columns.                           *)
(*                                                                         *)
(* A definition named X_Y is the definition X with the slip Y in it.       *)
(***************************************************************************)
EXTENDS Integers, Sequences, FiniteSets

CONSTANTS
    Lines,    \* number of lines
    Failures, \* what SQLite may do: "exec" fails, "text" finds no memory
    None      \* "nothing here"

ASSUME SqlAssumption ==
    /\ Lines \in Nat
    /\ Failures \subseteq {"exec", "text"}

Keys == {"lat0", "lon0", "time", "app"}

\* What is done with a record, in order: bind a parameter, add to a column,
\* and at the end count the record, insert the row and count the row.
Steps_CountedAfter ==
    <<"id", "add lat0", "lat0", "add lon0", "lon0", "text",
      "add time", "time", "add app", "app", "exec", "execute", "reset", "next">>

Steps_CountedBefore ==
    <<"id", "add lat0", "lat0", "add lon0", "lon0", "text",
      "add time", "time", "add app", "app", "execute", "next", "exec", "reset">>

Steps == <<"id", "add lat0", "lat0", "add lon0", "lon0", "text",
           "add time", "time", "add app", "app", "execute", "exec", "reset",
           "next">>

Adds == [lat0 |-> "add lat0", lon0 |-> "add lon0", time |-> "add time",
         app |-> "add app"]

Parameters == {"id", "text"} \cup Keys

VARIABLES
    rejected, \* lines whose text does not parse
    line,    \* the line being read
    step,    \* position in Steps, 0 between two lines
    id,      \* rows so far
    bound,   \* parameter -> what is bound to it, the id or the line it is of
    query,   \* the statement: "ready", or "halted" until it is reset
    table,   \* id -> [parameter -> value] of a row
    columns, \* key -> lines whose values are in the column
    size     \* records the descriptor will count

vars == <<rejected, line, step, id, bound, query, table, columns, size>>

\* The table is made anew. A loader whose directory is missing returns at
\* once: it never leaves this state.
Init ==
    /\ rejected \in SUBSET (1 .. Lines)
    /\ line = 1 /\ step = 0 /\ id = 0
    /\ bound = [p \in Parameters |-> None]
    /\ query = "ready"
    /\ table = <<>>
    /\ columns = [key \in Keys |-> <<>>]
    /\ size = 0

\* What the line is up to; "none" between two lines.
Doing == IF step = 0 THEN "none" ELSE Steps[step]

\* The statement after the next one in the body of the loop.
GoOn == step' = IF step = Len(Steps) THEN 0 ELSE step + 1

\* The rest of the line is left out: catch (...) { continue; }
Abandon == step' = 0

-----------------------------------------------------------------------------
\* A line is read and its text is parsed before anything is written.
Parse ==
    /\ step = 0 /\ line \in 1 .. Lines
    /\ line \notin rejected
    /\ step' = 1
    /\ UNCHANGED <<rejected, line, id, bound, query, table, columns, size>>

Reject ==
    /\ step = 0 /\ line \in rejected
    /\ line' = line + 1
    /\ UNCHANGED <<rejected, step, id, bound, query, table, columns, size>>

\* What is bound to parameter p.
Value(p) == IF p = "id" THEN id ELSE line

\* query.bind: refused by a statement that was halted and not reset.
Bind ==
    /\ Doing \in Parameters
    /\ IF query = "ready"
       THEN /\ bound' = [bound EXCEPT ![Doing] = Value(Doing)]
            /\ GoOn /\ UNCHANGED line
       ELSE /\ Abandon /\ line' = line + 1
            /\ UNCHANGED bound
    /\ UNCHANGED <<rejected, id, query, table, columns, size>>

\* The copy of the text finds no memory.
BindFails ==
    /\ Doing = "text" /\ "text" \in Failures
    /\ Abandon /\ line' = line + 1
    /\ UNCHANGED <<rejected, id, bound, query, table, columns, size>>

\* addFloat, addInt.
Add ==
    \E key \in Keys :
        /\ Doing = Adds[key]
        /\ columns' = [columns EXCEPT ![key] = Append(@, line)]
        /\ GoOn
        /\ UNCHANGED <<rejected, line, id, bound, query, table, size>>

\* generator.execute.
Execute ==
    /\ Doing = "execute"
    /\ size' = size + 1
    /\ GoOn
    /\ UNCHANGED <<rejected, line, id, bound, query, table, columns>>

\* query.exec inserts the row.
Exec ==
    /\ Doing = "exec"
    /\ bound["id"] \notin DOMAIN table
    /\ table' = [i \in DOMAIN table \cup {bound["id"]} |->
                   IF i = bound["id"] THEN bound ELSE table[i]]
    /\ query' = "halted"
    /\ GoOn
    /\ UNCHANGED <<rejected, line, id, bound, columns, size>>

\* It fails, also on an id that is taken: the statement halts, and nobody
\* resets it.
ExecFails_Reset ==
    /\ Doing = "exec"
    /\ "exec" \in Failures \/ bound["id"] \in DOMAIN table
    /\ query' = "ready"
    /\ Abandon /\ line' = line + 1
    /\ UNCHANGED <<rejected, id, bound, table, columns, size>>

ExecFails ==
    /\ Doing = "exec"
    /\ "exec" \in Failures \/ bound["id"] \in DOMAIN table
    /\ query' = "halted"
    /\ Abandon /\ line' = line + 1
    /\ UNCHANGED <<rejected, id, bound, table, columns, size>>

Reset ==
    /\ Doing = "reset"
    /\ query' = "ready"
    /\ GoOn
    /\ UNCHANGED <<rejected, line, id, bound, table, columns, size>>

\* id += 1, and the next line.
NextId ==
    /\ Doing = "next"
    /\ id' = id + 1
    /\ GoOn
    /\ line' = line + 1
    /\ UNCHANGED <<rejected, bound, query, table, columns, size>>

Next ==
    \/ Parse \/ Reject \/ Bind \/ BindFails \/ Add \/ Execute \/ Exec
    \/ ExecFails \/ Reset \/ NextId

Spec == Init /\ [][Next]_vars

-----------------------------------------------------------------------------
(* What table and columns must keep.                                       *)

\* The state of the loader; the rows are numbered from 0 without a gap.
TypeOK ==
    /\ rejected \subseteq 1 .. Lines
    /\ line \in 1 .. Lines + 1
    /\ step \in 0 .. Len(Steps)
    /\ id \in Nat /\ size \in Nat
    /\ bound \in [Parameters -> Nat \cup {None}]
    /\ query \in {"ready", "halted"}
    /\ DOMAIN table = 0 .. (IF Doing \in {"reset", "next"} THEN id ELSE id - 1)
    /\ columns \in [Keys -> Seq(1 .. Lines)]

\* Lines that were given up with half of their columns written.
Torn == {l \in 1 .. Lines : /\ \E i \in DOMAIN columns["lat0"] : columns["lat0"][i] = l
                            /\ \A i \in DOMAIN columns["app"] : columns["app"][i] # l
                            /\ l # line}

\* A row is found by the position of its record: the row of an id and the
\* values at this position of every column are of one line, whichever inserts
\* have failed, until a line is torn.
RowsMatchColumns ==
    \A i \in DOMAIN table, key \in Keys :
        (\A l \in Torn : table[i]["text"] < l)
            => /\ i < Len(columns[key])
               /\ columns[key][i + 1] = table[i]["text"]

\* Between two lines the columns are as long as the descriptor will say, but
\* for torn lines, and only one record may be without its row, the last.
NumberingAgrees ==
    step = 0 =>
        /\ \A key \in {"time", "app"} : Len(columns[key]) = size
        /\ \A key \in {"lat0", "lon0"} :
              Len(columns[key]) = size + Cardinality(Torn)
        /\ id = Cardinality(DOMAIN table)
        /\ size = id \/ (size = id + 1 /\ query = "halted")
=============================================================================
