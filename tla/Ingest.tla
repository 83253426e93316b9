------------------------------- MODULE Ingest -------------------------------
(***************************************************************************)
(* Writing a dataset to column files and reading it back. A loader goes    *)
(* through text files with a parallel loop; a turn of the loop reads a     *)
(* line, drops it or writes it, a word or two per column. commit closes    *)
(* the columns and writes the descriptor. Later the build reads the        *)
(* descriptor and, pass by pass, the columns it needs.                     *)
(*                                                                         *)
(* The unit of a file is the word of four bytes: float and int are one     *)
(* word, unsigned long is one or two (IntWords).                           *)
(*                                                                         *)
(* A definition named X_Y is the definition X with the slip Y in it.       *)
(***************************************************************************)
EXTENDS Integers, Sequences, FiniteSets, Functions, SequencesExt

CONSTANTS
    Formats,  \* loaders: "trips", "snap", "delay", "performance", "dmp"
    Columns,  \* keys of the columns, in the order a record is written
    Ints,     \* those addInt writes; addFloat writes the others
    Passes,   \* the keys each pass of the build prepares
    IntWords, \* sizeof(unsigned long) / sizeof(int)
    Percent,  \* the fraction of the schema
    Threads,  \* threads of the parallel loop
    Datasets, \* loader -> what its directories may hold, see File
    None      \* "nothing here"

\* A line is a record, is dropped by a test, or makes a conversion throw
\* invalid_argument or out_of_range.
Kinds == {"record", "dropped", "invalid", "range"}

\* A file: the kinds of its lines, one at least, whether the last one is ended,
\* and whether its directory is the second one of its loader.
File == [lines : Seq(Kinds) \ {<<>>}, ended : BOOLEAN, second : BOOLEAN]

\* A directory that is not there.
Missing == None

ASSUME IngestAssumption ==
    /\ Formats \subseteq {"trips", "snap", "delay", "performance", "dmp"}
    /\ Columns \in Seq(Range(Columns)) /\ IsInjective(Columns)
    /\ Ints \subseteq Range(Columns)
    /\ Passes \in Seq(Seq(Range(Columns)))
    /\ IntWords \in {1, 2}
    /\ Percent \in 1 .. 100
    /\ IsFiniteSet(Threads)
    /\ \A f \in Formats : Datasets[f] \subseteq Seq(File \cup {Missing})

VARIABLES
    format,     \* which loader
    files,      \* the dataset
    team,       \* the threads of the loop, one where OpenMP is not compiled in
    loader,     \* where write is: "files", "lines", "commit" or "ended"
    file,       \* number of the file
    at,         \* lines of it that were read, the empty one at its end too
    turns,      \* turns of the loop nobody has begun
    thread,     \* thread -> [pc, line, column]
    columns,    \* key -> words given to its stream
    bad,        \* keys whose stream has failed
    size,       \* InMemoryDataGenerator::_size
    disk,       \* key -> words of its file
    descriptor, \* descriptor.hcf: [size, new], None if there is none
    pass,       \* number of the pass of the build, 0 before it
    hashing,    \* the pass has prepared its keys
    data        \* InMemoryData::_data, a sequence of columns

vars == <<format, files, team, loader, file, at, turns, thread, columns, bad,
          size, disk, descriptor, pass, hashing, data>>

input == <<format, files, team>>

loopVars == <<file, at, turns, thread>>
streamVars == <<columns, bad, size>>
diskVars == <<disk, descriptor>>
buildVars == <<pass, hashing, data>>

-----------------------------------------------------------------------------
(* Words and lines.                                                        *)

\* A record is known by its file and line.
Word(key, record, part) == [key |-> key, record |-> record, part |-> part]

\* How many words addInt or addFloat writes for a record.
Width(key) == IF key \in Ints THEN IntWords ELSE 1

WordsOf(key, record) == [i \in 1 .. Width(key) |-> Word(key, record, i)]

\* What a read beyond the end of a file leaves in a vector of chars.
Zero == None

Blank == [kind |-> "dropped", record |-> None]

Line(f, i) == [kind |-> files[f].lines[i], record |-> <<f, i>>]

\* A file of trips begins with a header.
Header == format = "trips"

FirstLine == IF Header THEN 1 ELSE 0

\* The loader of trips declares its line outside the loop, where a getline
\* on a stream that has ended leaves it alone.
KeepsLine == format = "trips"

\* What is caught within a turn; anything else ends the process.
Catches ==
    CASE format \in {"snap", "dmp"}                  -> {}
      [] format = "trips" /\ files[file].second       -> {"invalid", "range"}
      [] OTHER                                        -> {"invalid"}

\* Turns of the loop over f: newlines and one more. A binary file is read
\* until a read has failed.
Turns_Newlines(f) ==
    LET lines == Len(files[f].lines)
    IN  IF files[f].ended \/ format = "dmp" THEN lines ELSE lines - 1

Turns(f) ==
    LET lines == Len(files[f].lines)
    IN  IF files[f].ended \/ format = "dmp" THEN lines + 1 ELSE lines

\* The line a turn has after its getline, when n lines of f were read and
\* the one before was old. The loader of binary files has what the failed
\* read has left in memory that is not initialized: the record before.
LineAfter(f, n, old) ==
    LET lines == Len(files[f].lines)
    IN  IF n < lines                                        THEN Line(f, n + 1)
        ELSE IF format = "dmp"                              THEN Line(f, n)
        ELSE IF KeepsLine /\ ~(n = lines /\ files[f].ended) THEN old
        ELSE                                                     Blank

\* Who may run the loop; that of binary files is not parallel.
Teams == {{t} : t \in Threads} \cup (IF format = "dmp" THEN {} ELSE {Threads})

PrefixesOf(s) == {SubSeq(s, 1, n) : n \in 0 .. Len(s)}

\* A thread outside of its turns.
Free(line) == [pc |-> "free", line |-> line, column |-> 1]

-----------------------------------------------------------------------------
(* The loader. Its generator has truncated the column files, the           *)
(* descriptor of an earlier run may still be there.                        *)

Init ==
    /\ format \in Formats /\ files \in Datasets[format] /\ team \in Teams
    /\ loader = "files" /\ file = 0 /\ at = 0 /\ turns = 0
    /\ thread = [t \in Threads |-> Free(Blank)]
    /\ columns = [key \in Range(Columns) |-> <<>>]
    /\ bad = {} /\ size = 0
    /\ disk = [key \in Range(Columns) |-> <<>>]
    /\ descriptor \in {None, [size |-> 1, new |-> FALSE]}
    /\ pass = 0 /\ hashing = FALSE /\ data = <<>>

\* A file is opened, its lines are counted, its header is read. Where OpenMP is
\* not compiled in the line of the loop still holds the header, which has no
\* time where a record has one and is dropped as the blank line is.
OpenFile_NoSeek ==
    /\ loader = "files" /\ file < Len(files)
    /\ files[file + 1] # Missing
    /\ loader' = "lines"
    /\ file' = file + 1
    /\ at' = Len(files[file + 1].lines)
    /\ turns' = Turns(file + 1)
    /\ thread' = [t \in Threads |-> Free(Blank)]
    /\ UNCHANGED <<input, streamVars, diskVars, buildVars>>

OpenFile ==
    /\ loader = "files" /\ file < Len(files)
    /\ files[file + 1] # Missing
    /\ loader' = "lines"
    /\ file' = file + 1
    /\ at' = FirstLine
    /\ turns' = Turns(file + 1)
    /\ thread' = [t \in Threads |-> Free(Blank)]
    /\ UNCHANGED <<input, streamVars, diskVars, buildVars>>

\* A directory is missing: write returns without commit, and the
\* destructors of the streams close the columns.
GiveUp ==
    /\ loader = "files" /\ file < Len(files)
    /\ files[file + 1] = Missing
    /\ loader' = "ended"
    /\ disk' = columns
    /\ UNCHANGED <<input, loopVars, streamVars, descriptor, buildVars>>

\* A turn begins: the section read_* is one step.
ReadLine(t) ==
    /\ loader = "lines" /\ turns > 0
    /\ thread[t].pc = "free"
    /\ turns' = turns - 1
    /\ at' = at + 1
    /\ thread' = [thread EXCEPT ![t].pc = "parse",
                                ![t].line = LineAfter(file, at, thread[t].line)]
    /\ UNCHANGED <<input, loader, file, streamVars, diskVars, buildVars>>

\* continue: the line is dropped, or a conversion throws and is caught.
DropLine(t) ==
    /\ loader = "lines" /\ thread[t].pc = "parse"
    /\ thread[t].line.kind \in {"dropped"} \cup Catches
    /\ thread' = [thread EXCEPT ![t].pc = "free"]
    /\ UNCHANGED <<input, loader, file, at, turns, streamVars, diskVars,
                   buildVars>>

\* The process ends within the loader, because an exception is not caught or
\* from outside: of each column some words have reached the disk, and of a
\* descriptor that is being saved so little that no archive is found in it,
\* which is as good as none.
Die ==
    /\ loader # "ended"
    /\ loader' = "ended"
    /\ disk' \in {d \in [Range(Columns) -> UNION {PrefixesOf(columns[key]) :
                                              key \in Range(Columns)}] :
                   \A key \in Range(Columns) :
                       /\ d[key] \in PrefixesOf(columns[key])
                       /\ IsPrefix(disk[key], d[key])}
    /\ file' = 0 /\ at' = 0 /\ turns' = 0
    /\ thread' = [t \in Threads |-> Free(Blank)]
    /\ columns' = [key \in Range(Columns) |-> <<>>] /\ size' = 0
    /\ \/ UNCHANGED descriptor
       \/ loader = "commit" /\ descriptor' = None
    /\ UNCHANGED <<input, bad, buildVars>>

\* Nobody else is in the section write_*.
MayWrite_Anyone == TRUE

MayWrite == \A t \in Threads : thread[t].pc # "write"

EnterWrite(t) ==
    /\ loader = "lines" /\ thread[t].pc = "parse"
    /\ thread[t].line.kind = "record"
    /\ MayWrite
    /\ thread' = [thread EXCEPT ![t].pc = "write", ![t].column = 1]
    /\ UNCHANGED <<input, loader, file, at, turns, streamVars, diskVars,
                   buildVars>>

\* addInt or addFloat: a stream that fails, on a full disk, takes nothing
\* any more and nobody asks it.
WriteColumn(t) ==
    LET key == Columns[thread[t].column]
    IN  /\ loader = "lines" /\ thread[t].pc = "write"
        /\ thread[t].column <= Len(Columns)
        /\ \/ /\ key \notin bad
              /\ columns' = [columns EXCEPT
                     ![key] = @ \o WordsOf(key, thread[t].line.record)]
              /\ UNCHANGED bad
           \/ /\ bad' = bad \cup {key}
              /\ UNCHANGED columns
        /\ thread' = [thread EXCEPT ![t].column = @ + 1]
        /\ UNCHANGED <<input, loader, file, at, turns, size, diskVars,
                       buildVars>>

\* execute, and the turn ends.
Execute(t) ==
    /\ loader = "lines" /\ thread[t].pc = "write"
    /\ thread[t].column > Len(Columns)
    /\ size' = size + 1
    /\ thread' = [thread EXCEPT ![t] = Free(thread[t].line)]
    /\ UNCHANGED <<input, loader, file, at, turns, columns, bad, diskVars,
                   buildVars>>

\* The loop ends when every thread has.
CloseFile ==
    /\ loader = "lines" /\ turns = 0
    /\ \A t \in Threads : thread[t].pc = "free"
    /\ loader' = "files"
    /\ UNCHANGED <<input, loopVars, streamVars, diskVars, buildVars>>

\* The first half of commit.
CloseColumns_DescriptorFirst ==
    /\ loader = "files" /\ file = Len(files)
    /\ loader' = "commit"
    /\ descriptor' = [size |-> size, new |-> TRUE]
    /\ UNCHANGED <<input, loopVars, streamVars, disk, buildVars>>

CloseColumns ==
    /\ loader = "files" /\ file = Len(files)
    /\ loader' = "commit"
    /\ disk' = columns
    /\ UNCHANGED <<input, loopVars, streamVars, descriptor, buildVars>>

\* The other half; the streams go, those still open are closed.
SaveDescriptor ==
    /\ loader = "commit"
    /\ loader' = "ended"
    /\ disk' = columns
    /\ descriptor' = [size |-> size, new |-> TRUE]
    /\ UNCHANGED <<input, loopVars, streamVars, buildVars>>

-----------------------------------------------------------------------------
(* The build, in a later process. Without a descriptor it does not start.  *)

\* InMemoryDataDescriptor::size.
Size == (descriptor.size * Percent) \div 100

OpenDescriptor ==
    /\ loader = "ended" /\ pass = 0 /\ descriptor # None
    /\ pass' = 1
    /\ UNCHANGED <<input, loader, loopVars, streamVars, diskVars, hashing, data>>

\* prepareKey reads as many words as there are records, whatever addInt wrote.
Loaded(key) ==
    [i \in 1 .. Size |-> IF i <= Len(disk[key]) THEN disk[key][i] ELSE Zero]

\* A pass prepares its keys and hashes every record by its first columns.
Prepare ==
    /\ pass \in 1 .. Len(Passes) /\ ~hashing
    /\ hashing' = TRUE
    /\ data' = data \o [d \in 1 .. Len(Passes[pass]) |-> Loaded(Passes[pass][d])]
    /\ UNCHANGED <<input, loader, loopVars, streamVars, diskVars, pass>>

\* The pass ends: dispose.
Dispose_Kept ==
    /\ hashing
    /\ hashing' = FALSE
    /\ pass' = pass + 1
    /\ UNCHANGED <<input, loader, loopVars, streamVars, diskVars, data>>

Dispose ==
    /\ hashing
    /\ hashing' = FALSE
    /\ data' = <<>>
    /\ pass' = pass + 1
    /\ UNCHANGED <<input, loader, loopVars, streamVars, diskVars>>

-----------------------------------------------------------------------------
Turn(t) ==
    ReadLine(t) \/ DropLine(t) \/ EnterWrite(t) \/ WriteColumn(t) \/ Execute(t)

Write == \/ OpenFile \/ GiveUp \/ CloseFile \/ CloseColumns \/ SaveDescriptor
         \/ \E t \in team : Turn(t)

Build == OpenDescriptor \/ Prepare \/ Dispose

Next == Write \/ Die \/ Build

Spec == Init /\ [][Next]_vars

-----------------------------------------------------------------------------
(* What the files must keep.                                               *)

\* The state of the loader and of the build: the turns of a loop and the lines
\* of its file are used up together, and no column has half of a record.
TypeOK ==
    /\ format \in Formats /\ files \in Datasets[format] /\ team \subseteq Threads
    /\ loader \in {"files", "lines", "commit", "ended"}
    /\ file \in 0 .. Len(files)
    /\ turns \in Nat
    /\ loader = "lines" => at + turns = FirstLine + Turns(file)
    /\ \A t \in Threads :
          /\ thread[t].pc \in {"free", "parse", "write"}
          /\ thread[t].line.kind \in Kinds
          /\ thread[t].column \in 1 .. Len(Columns) + 1
    /\ \A key \in Range(Columns) :
          /\ Len(columns[key]) % Width(key) = 0
          /\ IsPrefix(disk[key], columns[key]) \/ loader = "ended"
    /\ bad \subseteq Range(Columns) /\ size \in Nat
    /\ descriptor \in {None} \cup [size : Nat, new : BOOLEAN]
    /\ pass \in 0 .. Len(Passes) + 1 /\ hashing \in BOOLEAN

\* The record a stream has at position i, in the layout of the writer.
RecordAt(key, i) == columns[key][(i - 1) * Width(key) + 1].record

Written(key) == Len(columns[key]) \div Width(key)

\* Columns never come apart: whichever threads write, the i-th records of two
\* columns are the same, and outside of the section a stream that has not
\* failed has _size records. Only the end of a column may be missing.
ColumnsAligned ==
    /\ \A k, l \in Range(Columns) :
          \A i \in 1 .. Written(k) :
              i <= Written(l) => RecordAt(k, i) = RecordAt(l, i)
    /\ (\A t \in Threads : thread[t].pc # "write")
          => \A key \in Range(Columns) \ bad : Written(key) = size

\* The records of file f.
RecordsOf(f) ==
    {<<f, i>> : i \in {i \in DOMAIN files[f].lines :
                         files[f].lines[i] = "record" /\ (Header => i > 1)}}

\* A turn of the loop past the end of f may find a line again: at the end of
\* a binary file, and where the header has used up a line, unless the only
\* thread has read the empty line at the end.
Surplus(f) ==
    IF format = "dmp" \/ (Header /\ ~(files[f].ended /\ Cardinality(team) = 1))
    THEN 1 ELSE 0

\* When the columns are closed every record of every file was written, once,
\* however the threads shared the turns, except for the surplus turn.
WrittenOnce ==
    loader = "commit" =>
        \A key \in Range(Columns) \ bad, f \in DOMAIN files :
            LET positions == {i \in 1 .. Written(key) : RecordAt(key, i)[1] = f}
            IN  /\ {RecordAt(key, i) : i \in positions} = RecordsOf(f)
                /\ Cardinality(positions) - Cardinality(RecordsOf(f))
                      \in 0 .. Surplus(f)

\* A descriptor promises its columns: whenever the process ends, what the new
\* one counts is on the disk, unless a stream has failed.
DescriptorLast ==
    (descriptor # None /\ descriptor.new) =>
        \A key \in Range(Columns) \ bad :
            Len(disk[key]) = descriptor.size * Width(key)

\* The word a pass should find for record i, in the layout of the writer.
Stored(key, i) ==
    LET w == (i - 1) * Width(key) + 1
    IN  IF w <= Len(disk[key]) THEN disk[key][w] ELSE Zero

\* Each pass of the build hashes every record by what was written for that
\* record under the keys of the pass.
ReadsBack ==
    hashing => \A d \in 1 .. Len(Passes[pass]), i \in 1 .. Size :
                   data[d][i] = Stored(Passes[pass][d], i)
=============================================================================
