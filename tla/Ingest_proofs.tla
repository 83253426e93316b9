---------------------------- MODULE Ingest_proofs ----------------------------
(***************************************************************************)
(* That column files hold together, for any number of threads, columns and *)
(* files, whichever streams fail and wherever the process ends: the        *)
(* columns are aligned, a descriptor counts what is on the disk, and where *)
(* unsigned long has the size of int the build reads what was written.     *)
(* Every record is written, once, but for the surplus turn of a loop.      *)
(* Alignment is not inductive: it hangs on one thread at most being in the *)
(* section (Section) and on what that thread has written so far (Past,     *)
(* Due), which needs every key to be written once for a record.            *)
(***************************************************************************)
EXTENDS Ingest, FiniteSetTheorems, TLAPS

Keys == Range(Columns)

\* What a line may be known by.
Records == (Nat \X Nat) \cup {None}

Words == [key : Keys, record : Records, part : 1 .. 2]

\* A record with the fields of a thread.
IsThread(th) ==
    /\ th = [pc |-> th.pc, line |-> th.line, column |-> th.column]
    /\ th.pc \in {"free", "parse", "write"}
    /\ th.line.record \in Records
    /\ th.column \in 1 .. Len(Columns) + 1

Typed ==
    /\ team \subseteq Threads
    /\ file \in Nat /\ at \in Nat /\ size \in Nat
    /\ thread = [t \in Threads |-> thread[t]]
    /\ \A t \in Threads : IsThread(thread[t])
    /\ columns \in [Keys -> Seq(Words)]

\* One thread at most is in the section, and only while there is a loop.
Section ==
    /\ \A t, u \in Threads :
          (thread[t].pc = "write" /\ thread[u].pc = "write") => t = u
    /\ \A t \in Threads : thread[t].pc = "write" => loader = "lines"

\* Thread t is in the section and past column key.
Past(t, key) ==
    /\ thread[t].pc = "write"
    /\ \E i \in DOMAIN Columns : Columns[i] = key /\ i < thread[t].column

\* Records a column has while its stream has not failed.
Due(key) == IF \E t \in Threads : Past(t, key) THEN size + 1 ELSE size

\* Columns have whole records: as many as are due, fewer only after a failure.
Counts ==
    \A key \in Keys :
        /\ Written(key) \in Nat
        /\ Len(columns[key]) = Written(key) * Width(key)
        /\ Written(key) <= Due(key)
        /\ key \notin bad => Written(key) = Due(key)

\* Records at the same position are the same; the one being written is that
\* of the thread in the section.
Rows ==
    /\ \A k, l \in Keys : \A i \in 1 .. Written(k) :
          i <= Written(l) => RecordAt(k, i) = RecordAt(l, i)
    /\ \A t \in Threads, key \in Keys : \A i \in 1 .. Written(key) :
          (thread[t].pc = "write" /\ i > size)
            => RecordAt(key, i) = thread[t].line.record

IInv == Typed /\ Section /\ Counts /\ Rows

LEMMA Widths == \A key : Width(key) \in {1, 2}
BY IngestAssumption DEF Width

LEMMA Concatenated ==
    ASSUME NEW S, NEW s \in Seq(S), NEW w \in Seq(S), Len(w) >= 1
    PROVE  /\ s \o w \in Seq(S) /\ Len(s \o w) = Len(s) + Len(w)
           /\ \A i \in 1 .. Len(s) : (s \o w)[i] = s[i]
           /\ (s \o w)[Len(s) + 1] = w[1]
<1>1. s \o w \in Seq(S) /\ Len(s \o w) = Len(s) + Len(w)
  OBVIOUS
<1>2. \A i \in 1 .. Len(s) : (s \o w)[i] = s[i]
  OBVIOUS
<1>3. (s \o w)[Len(s) + 1] = w[1]
  OBVIOUS
<1>4. QED
  BY <1>1, <1>2, <1>3

\* The column new is the column s, of n records, and the record r after them.
Adds(key, s, n, r, new) ==
    /\ new \in Seq(Words) /\ Len(new) = (n + 1) * Width(key)
    /\ Len(new) \div Width(key) = n + 1
    /\ new[n * Width(key) + 1].record = r
    /\ \A i \in 1 .. n :
          new[(i - 1) * Width(key) + 1] = s[(i - 1) * Width(key) + 1]

LEMMA Appended ==
    ASSUME NEW key \in Keys, NEW s \in Seq(Words), NEW n \in Nat,
           Len(s) = n * Width(key), NEW r \in Records
    PROVE  Adds(key, s, n, r, s \o WordsOf(key, r))
<1> DEFINE w == WordsOf(key, r)
           new == s \o w
<1>1. w \in Seq(Words) /\ Len(w) = Width(key) /\ w[1].record = r
  <2>1. \A i \in 1 .. Width(key) : Word(key, r, i) \in Words
    BY Widths DEF Word, Words
  <2>2. QED
    BY <2>1, Widths DEF WordsOf, Word
<1>2. /\ new \in Seq(Words) /\ Len(new) = Len(s) + Width(key)
      /\ \A i \in 1 .. Len(s) : new[i] = s[i]
      /\ new[Len(s) + 1] = w[1]
  <2> HIDE DEF w
  <2>1. Len(w) >= 1
    BY <1>1, Widths
  <2>2. QED
    BY <1>1, <2>1, Concatenated
<1> HIDE DEF w
<1>3. ASSUME NEW wd \in {1, 2}, Len(s) = n * wd, Len(new) = Len(s) + wd
      PROVE  /\ Len(new) = (n + 1) * wd /\ Len(new) \div wd = n + 1
             /\ \A i \in 1 .. n : (i - 1) * wd + 1 \in 1 .. Len(s)
  <2>1. CASE wd = 1
    BY <1>3, <2>1
  <2>2. CASE wd = 2
    BY <1>3, <2>2
  <2>3. QED
    BY <2>1, <2>2
<1>4. QED
  BY <1>1, <1>2, <1>3, Widths DEF w, Adds

-----------------------------------------------------------------------------
(* The invariant holds at first and is kept by every step.                 *)

LEMMA Initially == Init => IInv
<1> SUFFICES ASSUME Init PROVE IInv
  OBVIOUS
<1> USE DEF Init
<1>1. Typed
  <2>1. IsThread(Free(Blank))
    BY IngestAssumption DEF IsThread, Free, Blank, Records
  <2>2. columns \in [Keys -> Seq(Words)]
    BY DEF Keys
  <2>3. team \subseteq Threads
    BY DEF Teams
  <2>4. QED
    BY <2>1, <2>2, <2>3 DEF Typed
<1>2. \A t \in Threads : thread[t].pc = "free"
  BY DEF Free
<1>3. Section
  BY <1>2 DEF Section
<1>4. \A key \in Keys : Written(key) = 0 /\ Len(columns[key]) = 0
  BY Widths DEF Written, Keys
<1>5. Counts
  BY <1>2, <1>4, Widths DEF Counts, Due, Past
<1>6. Rows
  BY <1>2, <1>4 DEF Rows
<1>7. QED
  BY <1>1, <1>3, <1>5, <1>6 DEF IInv

\* A step that leaves the columns alone, and the section to whom it is, keeps
\* the counts and the rows.
LEMMA Untouched ==
    ASSUME IInv, UNCHANGED <<columns, bad, size>>,
           \A t \in Threads :
              (thread'[t].pc = "write" \/ thread[t].pc = "write")
                 => thread'[t] = thread[t]
    PROVE  Counts' /\ Rows'
<1>1. \A key \in Keys : Written(key)' = Written(key)
  BY DEF Written
<1>2. \A key \in Keys, t \in Threads : Past(t, key)' = Past(t, key)
  BY DEF Past
<1>3. \A key \in Keys : Due(key)' = Due(key)
  BY <1>2 DEF Due
<1>4. \A key \in Keys : \A i : RecordAt(key, i)' = RecordAt(key, i)
  BY DEF RecordAt
<1>5. Counts'
  BY <1>1, <1>3 DEF IInv, Counts
<1>6. Rows'
  BY <1>1, <1>4 DEF IInv, Rows
<1>7. QED
  BY <1>5, <1>6

LEMMA OpeningFile == ASSUME IInv, OpenFile PROVE IInv'
<1> USE DEF OpenFile
<1>1. \A t \in Threads : thread[t].pc # "write" /\ thread'[t].pc # "write"
  BY DEF IInv, Section, Free
<1>2. Typed'
  <2>1. IsThread(Free(Blank))
    BY IngestAssumption DEF IsThread, Free, Blank, Records
  <2>2. at' \in Nat
    BY DEF FirstLine
  <2>3. QED
    BY <2>1, <2>2 DEF IInv, Typed, input, streamVars
<1>3. Section'
  BY <1>1 DEF Section
<1>4. Counts' /\ Rows'
  BY <1>1, Untouched DEF streamVars
<1>5. QED
  BY <1>2, <1>3, <1>4 DEF IInv

\* A line is known by its file and number.
LEMMA LineRead ==
    ASSUME Typed, NEW t \in Threads
    PROVE  LineAfter(file, at, thread[t].line).record \in Records
<1> DEFINE old == thread[t].line
           line == LineAfter(file, at, old)
<1>1. line \in {Line(file, at + 1), Line(file, at), Blank, old}
  BY DEF LineAfter
<1>2. \A n \in Nat : Line(file, n).record \in Records
  BY DEF Line, Typed, Records
<1>3. Blank.record \in Records /\ old.record \in Records
  BY DEF Blank, Records, Typed, IsThread
<1>4. at \in Nat /\ at + 1 \in Nat
  BY DEF Typed
<1> HIDE DEF line
<1>5. line.record \in Records
  BY <1>1, <1>2, <1>3, <1>4
<1>6. QED
  BY <1>5 DEF line

\* What threads do to their records: g is f with these fields at t.
Becomes(f, g, t, pc, line, column) ==
    /\ g = [u \in Threads |-> g[u]]
    /\ \A u \in Threads : u # t => g[u] = f[u]
    /\ g[t] = [pc |-> pc, line |-> line, column |-> column]

Whole(f, t) ==
    /\ f = [u \in Threads |-> f[u]]
    /\ f[t] = [pc |-> f[t].pc, line |-> f[t].line, column |-> f[t].column]

LEMMA Updates ==
    ASSUME NEW f, NEW t \in Threads, Whole(f, t), NEW p, NEW l, NEW c
    PROVE  /\ Becomes(f, [f EXCEPT ![t].pc = p], t, p, f[t].line, f[t].column)
           /\ Becomes(f, [f EXCEPT ![t].column = c], t, f[t].pc, f[t].line, c)
           /\ Becomes(f, [f EXCEPT ![t].pc = p, ![t].line = l],
                      t, p, l, f[t].column)
           /\ Becomes(f, [f EXCEPT ![t].pc = p, ![t].column = c],
                      t, p, f[t].line, c)
<1> USE DEF Whole, Becomes
<1> DEFINE h == [f EXCEPT ![t].pc = p]
<1>1. Becomes(f, h, t, p, f[t].line, f[t].column)
  OBVIOUS
<1>2. Becomes(f, [f EXCEPT ![t].column = c], t, f[t].pc, f[t].line, c)
  OBVIOUS
<1>3. /\ [f EXCEPT ![t].pc = p, ![t].line = l] = [h EXCEPT ![t].line = l]
      /\ [f EXCEPT ![t].pc = p, ![t].column = c] = [h EXCEPT ![t].column = c]
  OBVIOUS
<1> HIDE DEF h
<1>4. /\ Becomes(f, [h EXCEPT ![t].line = l], t, p, l, f[t].column)
      /\ Becomes(f, [h EXCEPT ![t].column = c], t, p, f[t].line, c)
  <2>1. h[t] = [pc |-> p, line |-> f[t].line, column |-> f[t].column]
    BY <1>1
  <2>2. Becomes(f, [h EXCEPT ![t].line = l], t, p, l, f[t].column)
    BY <1>1, <2>1
  <2>3. Becomes(f, [h EXCEPT ![t].column = c], t, p, f[t].line, c)
    BY <1>1, <2>1
  <2>4. QED
    BY <2>2, <2>3
<1>5. QED
  BY <1>1, <1>2, <1>3, <1>4 DEF h

LEMMA AllWhole == ASSUME Typed, NEW t \in Threads PROVE Whole(thread, t)
BY DEF Typed, IsThread, Whole

\* A thread that was not in the section, and is not now.
LEMMA Outside ==
    ASSUME IInv, NEW t \in Threads, UNCHANGED <<input, streamVars, file, loader>>,
           at' \in Nat,
           NEW pc \in {"free", "parse"}, NEW line, line.record \in Records,
           thread[t].pc # "write",
           Becomes(thread, thread', t, pc, line, thread[t].column)
    PROVE  IInv'
<1> USE DEF Becomes
<1>1. Typed'
  <2>1. \A u \in Threads : IsThread(thread'[u])
    BY DEF IInv, Typed, IsThread
  <2>2. QED
    BY <2>1 DEF IInv, Typed, input, streamVars
<1>2. Section'
  BY DEF IInv, Section
<1>3. Counts' /\ Rows'
  BY Untouched DEF streamVars
<1>4. QED
  BY <1>1, <1>2, <1>3 DEF IInv

LEMMA ReadingLine == ASSUME IInv, NEW t \in Threads, ReadLine(t) PROVE IInv'
<1> DEFINE line == LineAfter(file, at, thread[t].line)
<1>1. line.record \in Records
  BY LineRead DEF IInv
<1>2. thread' = [thread EXCEPT ![t].pc = "parse", ![t].line = line]
  BY DEF ReadLine
<1>3. at' \in Nat /\ thread[t].pc # "write"
      /\ UNCHANGED <<input, streamVars, file, loader>>
  BY DEF ReadLine, IInv, Typed
<1> HIDE DEF line
<1>4. Becomes(thread, thread', t, "parse", line, thread[t].column)
  BY <1>2, AllWhole, Updates DEF IInv
<1>5. QED
  BY <1>1, <1>3, <1>4, Outside

LEMMA DroppingLine == ASSUME IInv, NEW t \in Threads, DropLine(t) PROVE IInv'
<1>1. thread' = [thread EXCEPT ![t].pc = "free"]
  BY DEF DropLine
<1>2. thread[t].line.record \in Records /\ at' \in Nat
      /\ thread[t].pc # "write" /\ UNCHANGED <<input, streamVars, file, loader>>
  BY DEF DropLine, IInv, Typed, IsThread
<1>3. Becomes(thread, thread', t, "free", thread[t].line, thread[t].column)
  BY <1>1, AllWhole, Updates DEF IInv
<1>4. QED
  BY <1>2, <1>3, Outside

\* A thread enters the section before its first column: nothing is past it.
LEMMA EnteringWrite == ASSUME IInv, NEW t \in Threads, EnterWrite(t) PROVE IInv'
<1>1. thread' = [thread EXCEPT ![t].pc = "write", ![t].column = 1]
  BY DEF EnterWrite
<1>2. Becomes(thread, thread', t, "write", thread[t].line, 1)
  BY <1>1, AllWhole, Updates DEF IInv
<1>3. /\ \A u \in Threads : thread[u].pc # "write"
      /\ loader' = "lines" /\ UNCHANGED <<input, file, at, streamVars>>
  BY DEF EnterWrite, MayWrite
<1> USE DEF Becomes
<1>4. Typed'
  <2>1. 1 \in 1 .. Len(Columns) + 1
    BY IngestAssumption
  <2>2. \A u \in Threads : IsThread(thread'[u])
    BY <1>2, <2>1 DEF IInv, Typed, IsThread
  <2>3. QED
    BY <1>2, <1>3, <2>2 DEF IInv, Typed, input, streamVars
<1>5. Section'
  BY <1>2, <1>3 DEF Section
<1>6. \A key \in Keys, u \in Threads : ~Past(u, key) /\ ~Past(u, key)'
  <2>1. \A i \in DOMAIN Columns : ~(i < 1)
    BY IngestAssumption
  <2>2. QED
    BY <1>2, <1>3, <2>1 DEF Past
<1>7. \A key \in Keys : /\ Written(key)' = Written(key)
                        /\ Due(key) = size /\ Due(key)' = size
                        /\ Written(key) <= size /\ size \in Nat
                        /\ \A i : RecordAt(key, i)' = RecordAt(key, i)
  BY <1>3, <1>6 DEF streamVars, Written, RecordAt, Due, IInv, Counts, Typed
<1>8. Counts'
  BY <1>3, <1>7 DEF IInv, Counts, streamVars
<1>9. Rows'
  <2>1. size' = size
    BY <1>3 DEF streamVars
  <2>2. \A key \in Keys : \A i \in 1 .. Written(key)' : ~(i > size')
    BY <1>7, <2>1 DEF IInv, Counts
  <2>3. \A k, l \in Keys : \A i \in 1 .. Written(k)' :
          i <= Written(l)' => RecordAt(k, i)' = RecordAt(l, i)'
    BY <1>7 DEF IInv, Rows
  <2>4. QED
    BY <2>2, <2>3 DEF Rows
<1>10. QED
  BY <1>4, <1>5, <1>8, <1>9 DEF IInv

LEMMA Closing ==
    ASSUME IInv, UNCHANGED <<input, loopVars, streamVars>>,
           loader' = loader \/ loader # "lines"
             \/ \A t \in Threads : thread[t].pc # "write"
    PROVE  IInv'
<1> USE DEF input, loopVars, streamVars
<1>1. Typed'
  BY DEF IInv, Typed
<1>2. Section'
  BY DEF IInv, Section
<1>3. Counts' /\ Rows'
  BY Untouched
<1>4. QED
  BY <1>1, <1>2, <1>3 DEF IInv

\* Without a loader there are no streams.
LEMMA Dying == ASSUME IInv, Die PROVE IInv'
<1> USE DEF Die
<1>1. \A t \in Threads : thread'[t] = Free(Blank) /\ thread'[t].pc = "free"
  BY DEF Free
<1>2. Typed'
  <2>1. IsThread(Free(Blank))
    BY IngestAssumption DEF IsThread, Free, Blank, Records
  <2>2. QED
    BY <1>1, <2>1 DEF IInv, Typed, input, Keys
<1>3. Section'
  BY <1>1 DEF Section
<1>4. \A key \in Keys : Written(key)' = 0 /\ Len(columns'[key]) = 0
  BY Widths DEF Written, Keys
<1>5. Counts'
  BY <1>1, <1>4, Widths DEF Counts, Due, Past
<1>6. Rows'
  BY <1>1, <1>4 DEF Rows
<1>7. QED
  BY <1>2, <1>3, <1>5, <1>6 DEF IInv

\* The column a thread comes past is due one more record, the others are not:
\* no key is written twice for a record.
LEMMA ComingPast ==
    ASSUME IInv, NEW t \in Threads, thread[t].pc = "write",
           thread[t].column <= Len(Columns), size' = size,
           NEW key, key = Columns[thread[t].column],
           Becomes(thread, thread', t, "write", thread[t].line,
                   thread[t].column + 1)
    PROVE  /\ key \in Keys /\ Due(key) = size /\ Due(key)' = size + 1
           /\ \A k \in Keys : k # key => Due(k)' = Due(k)
           /\ ~Past(t, key) /\ Past(t, key)'
           /\ \A k \in Keys : k # key => (Past(t, k)' <=> Past(t, k))
<1> DEFINE c == thread[t].column
<1> USE DEF Becomes
<1>1. c \in 1 .. Len(Columns) /\ DOMAIN Columns = 1 .. Len(Columns)
      /\ \A i, j \in DOMAIN Columns : Columns[i] = Columns[j] => i = j
  <2>1. c \in 1 .. Len(Columns) + 1
    BY DEF IInv, Typed, IsThread
  <2>2. DOMAIN Columns = 1 .. Len(Columns) /\ Len(Columns) \in Nat
    BY IngestAssumption
  <2>3. QED
    BY <2>1, <2>2, IngestAssumption DEF IsInjective
<1>2. key \in Keys
  BY <1>1 DEF Keys, Range
<1>3. \A u \in Threads : u # t => thread[u].pc # "write" /\ thread'[u].pc # "write"
  BY DEF IInv, Section
<1>4. \A u \in Threads, k \in Keys : u # t => ~Past(u, k) /\ ~Past(u, k)'
  BY <1>3 DEF Past
<1>5. thread'[t].pc = "write" /\ thread'[t].column = c + 1
  OBVIOUS
<1>6. ~Past(t, key)
  BY <1>1 DEF Past
<1>7. Past(t, key)'
  BY <1>1, <1>5 DEF Past
<1>8. ASSUME NEW k \in Keys, k # key PROVE Past(t, k)' <=> Past(t, k)
  BY <1>1, <1>5, <1>8 DEF Past
<1>9. Due(key) = size /\ Due(key)' = size + 1
  BY <1>2, <1>4, <1>6, <1>7 DEF Due
<1>10. \A k \in Keys : k # key => Due(k)' = Due(k)
  BY <1>4, <1>8 DEF Due
<1>11. QED
  BY <1>2, <1>6, <1>7, <1>8, <1>9, <1>10

\* Record r is added to column key, which had as many as are counted.
RecordAdded(key, r) ==
    /\ columns' \in [Keys -> Seq(Words)]
    /\ Written(key) = size /\ Written(key)' = size + 1
    /\ Len(columns'[key]) = (size + 1) * Width(key)
    /\ \A i : i = size + 1 => RecordAt(key, i)' = r
    /\ \A i \in 1 .. size : RecordAt(key, i)' = RecordAt(key, i)
    /\ \A k \in Keys : k # key => /\ columns'[k] = columns[k]
                                  /\ Written(k)' = Written(k)
                                  /\ \A i : RecordAt(k, i)' = RecordAt(k, i)

LEMMA AddingRecord ==
    ASSUME IInv, NEW key \in Keys, key \notin bad, Due(key) = size,
           NEW r \in Records,
           columns' = [columns EXCEPT ![key] = columns[key] \o WordsOf(key, r)]
    PROVE  RecordAdded(key, r)
<1>a. size \in Nat /\ columns \in [Keys -> Seq(Words)]
  BY DEF IInv, Typed
<1>s. PICK s : s = columns[key] \o WordsOf(key, r)
  OBVIOUS
<1>1. columns'[key] = s /\ \A k \in Keys : k # key => columns'[k] = columns[k]
  BY <1>a, <1>s
<1>2. Written(key) = size /\ Len(columns[key]) = size * Width(key)
  BY DEF IInv, Counts
<1>3. /\ s \in Seq(Words) /\ Len(s) = (size + 1) * Width(key)
      /\ Len(s) \div Width(key) = size + 1
      /\ s[size * Width(key) + 1].record = r
      /\ \A i \in 1 .. size :
            s[(i - 1) * Width(key) + 1] = columns[key][(i - 1) * Width(key) + 1]
  <2>1. columns[key] \in Seq(Words)
    BY <1>a
  <2>2. key \in Keys /\ r \in Records /\ size \in Nat
        /\ Len(columns[key]) = size * Width(key)
    BY <1>a, <1>2
  <2>3. Adds(key, columns[key], size, r, s)
    BY <1>s, <2>1, <2>2, Appended
  <2>4. QED
    BY <2>3 DEF Adds
<1>4. columns' \in [Keys -> Seq(Words)]
  BY <1>a, <1>3, <1>s
<1>5. ASSUME NEW i, i = size + 1 PROVE RecordAt(key, i)' = r
  <2>1. i - 1 = size
    BY <1>a, <1>5
  <2>2. RecordAt(key, i)' = s[(i - 1) * Width(key) + 1].record
    BY <1>1 DEF RecordAt
  <2>3. QED
    BY <1>3, <2>1, <2>2, Zenon
<1>6. Written(key)' = size + 1
  BY <1>1, <1>3 DEF Written
<1>7. \A i \in 1 .. size : RecordAt(key, i)' = RecordAt(key, i)
  BY <1>1, <1>3, Zenon DEF RecordAt
<1>8. \A k \in Keys : k # key => /\ columns'[k] = columns[k]
                                 /\ Written(k)' = Written(k)
                                 /\ \A i : RecordAt(k, i)' = RecordAt(k, i)
  BY <1>1 DEF Written, RecordAt
<1>9. Len(columns'[key]) = (size + 1) * Width(key)
  BY <1>1, <1>3, Zenon
<1>10. QED
  BY <1>2, <1>4, <1>5, <1>6, <1>7, <1>8, <1>9, Zenon DEF RecordAdded

\* What WriteColumn leaves: one column has one more record, that of the thread,
\* or has failed.
LEMMA WritingColumn == ASSUME IInv, NEW t \in Threads, WriteColumn(t) PROVE IInv'
<1> DEFINE c == thread[t].column
<1>a. PICK key : key = Columns[c]
  OBVIOUS
<1>b. PICK r : r = thread[t].line.record
  OBVIOUS
<1>1. /\ thread' = [thread EXCEPT ![t].column = c + 1]
      /\ loader' = "lines" /\ thread[t].pc = "write" /\ c <= Len(Columns)
      /\ UNCHANGED <<input, file, at, size>>
  BY DEF WriteColumn
<1>2. \/ /\ key \notin bad /\ bad' = bad
         /\ columns' = [columns EXCEPT ![key] = columns[key] \o WordsOf(key, r)]
      \/ bad' = bad \cup {key} /\ columns' = columns
  BY <1>a, <1>b DEF WriteColumn
<1>3. Becomes(thread, thread', t, "write", thread[t].line, c + 1)
  BY <1>1, AllWhole, Updates DEF IInv
<1>4. /\ key \in Keys /\ Due(key) = size /\ Due(key)' = size + 1
      /\ \A k \in Keys : k # key => Due(k)' = Due(k)
  BY <1>1, <1>3, <1>a, ComingPast
<1>5. /\ r \in Records /\ size \in Nat /\ columns \in [Keys -> Seq(Words)]
      /\ \A u \in Threads : thread[u].pc = "write" <=> u = t
      /\ \A u \in Threads : thread'[u].pc = "write" <=> u = t
      /\ thread'[t].line.record = r
  BY <1>1, <1>3, <1>b DEF IInv, Typed, IsThread, Section, Becomes
<1>6. \A u \in Threads : IsThread(thread'[u])
  <2>1. c + 1 \in 1 .. Len(Columns) + 1
    BY <1>1, IngestAssumption DEF IInv, Typed, IsThread
  <2>2. IsThread(thread'[t])
    BY <1>3, <1>5, <2>1 DEF Becomes, IsThread
  <2>3. QED
    BY <1>3, <2>2 DEF IInv, Typed, Becomes
<1>7. Section'
  BY <1>1, <1>5 DEF Section
<1> HIDE DEF c
<1>8. CASE /\ key \notin bad /\ bad' = bad
           /\ columns' = [columns EXCEPT ![key] = columns[key] \o WordsOf(key, r)]
  <2>1. RecordAdded(key, r)
    BY <1>4, <1>5, <1>8, AddingRecord
  <2>2. Written(key) = size
    BY <2>1 DEF RecordAdded
  <2>3. Len(columns'[key]) = (size + 1) * Width(key)
    BY <2>1 DEF RecordAdded
  <2>4. columns' \in [Keys -> Seq(Words)]
    BY <2>1 DEF RecordAdded
  <2>5. Typed'
    BY <1>1, <1>3, <1>6, <2>4 DEF IInv, Typed, Becomes, input
  <2>6. /\ Written(key)' = size + 1
        /\ \A i : i = size + 1 => RecordAt(key, i)' = r
        /\ \A i \in 1 .. size : RecordAt(key, i)' = RecordAt(key, i)
    BY <2>1, Zenon DEF RecordAdded
  <2>7. \A k \in Keys : k # key => /\ columns'[k] = columns[k]
                                   /\ Written(k)' = Written(k)
                                   /\ \A i : RecordAt(k, i)' = RecordAt(k, i)
    BY <2>1, Zenon DEF RecordAdded
  <2>8. Counts'
    <3>1. ASSUME NEW k \in Keys
          PROVE  /\ Written(k)' \in Nat /\ Written(k)' <= Due(k)'
                 /\ Len(columns'[k]) = Written(k)' * Width(k)
                 /\ k \notin bad' => Written(k)' = Due(k)'
      <4>1. CASE k = key
        BY <1>4, <1>5, <2>3, <2>6, <4>1
      <4>2. CASE k # key
        BY <1>4, <1>8, <2>7, <4>2 DEF IInv, Counts
      <4>3. QED
        BY <4>1, <4>2
    <3>2. QED
      BY <3>1 DEF Counts
  <2>9. Rows'
    <3>1. \A k \in Keys : \A i \in 1 .. Written(k) : i > size => RecordAt(k, i) = r
      BY <1>1, <1>5, <1>b DEF IInv, Rows
    <3>2. \A k \in Keys : \A i \in 1 .. Written(k)' : i > size => RecordAt(k, i)' = r
      BY <1>5, <2>6, <2>7, <3>1
    <3>3. \A k \in Keys : Written(k) \in Nat /\ Written(k) <= size + 1
      BY <1>5 DEF IInv, Counts, Due
    <3>4. ASSUME NEW k \in Keys, NEW l \in Keys, NEW i \in 1 .. Written(k)',
                 i <= Written(l)'
          PROVE  RecordAt(k, i)' = RecordAt(l, i)'
      <4>1. CASE i = size + 1
        <5>1. i > size /\ i \in 1 .. Written(l)'
          BY <1>5, <2>6, <2>7, <3>3, <3>4, <4>1
        <5>2. QED
          BY <3>2, <3>4, <5>1
      <4>2. CASE i # size + 1
        <5>1. i \in 1 .. size /\ i \in 1 .. Written(k) /\ i <= Written(l)
          BY <1>5, <2>2, <2>6, <2>7, <3>3, <3>4, <4>2
        <5>2. QED
          BY <2>6, <2>7, <5>1 DEF IInv, Rows
      <4>3. QED
        BY <4>1, <4>2
    <3>5. QED
      BY <1>1, <1>5, <3>2, <3>4 DEF Rows
  <2>10. QED
    BY <1>7, <2>5, <2>8, <2>9 DEF IInv
<1>9. CASE bad' = bad \cup {key} /\ columns' = columns
  <2>1. Typed'
    BY <1>1, <1>3, <1>6, <1>9 DEF IInv, Typed, Becomes, input
  <2>2. \A k \in Keys : /\ Written(k)' = Written(k)
                        /\ \A i : RecordAt(k, i)' = RecordAt(k, i)
    BY <1>9 DEF Written, RecordAt
  <2>3. Counts'
    BY <1>4, <1>5, <1>9, <2>2 DEF IInv, Counts
  <2>4. Rows'
    BY <1>1, <1>5, <1>b, <2>2 DEF IInv, Rows
  <2>5. QED
    BY <1>7, <2>1, <2>3, <2>4 DEF IInv
<1>10. QED
  BY <1>2, <1>8, <1>9

\* The record that was being written is counted.
LEMMA Executing == ASSUME IInv, NEW t \in Threads, Execute(t) PROVE IInv'
<1>1. /\ \A u \in Threads : u # t => thread'[u] = thread[u]
      /\ thread' = [u \in Threads |-> thread'[u]]
      /\ thread'[t] = Free(thread[t].line)
      /\ size' = size + 1 /\ UNCHANGED <<input, file, at, columns, bad>>
      /\ thread[t].pc = "write" /\ ~(thread[t].column <= Len(Columns))
  <2>1. /\ thread' = [thread EXCEPT ![t] = Free(thread[t].line)]
        /\ size' = size + 1 /\ UNCHANGED <<input, file, at, columns, bad>>
        /\ thread[t].pc = "write" /\ thread[t].column > Len(Columns)
    BY DEF Execute
  <2>2. /\ thread = [u \in Threads |-> thread[u]]
        /\ thread[t].column \in 1 .. Len(Columns) + 1
    BY DEF IInv, Typed, IsThread
  <2>3. DOMAIN thread = Threads
    BY <2>2, Zenon
  <2>4. ~(thread[t].column <= Len(Columns))
    BY <2>1, <2>2, IngestAssumption
  <2> DEFINE free == Free(thread[t].line)
  <2> HIDE DEF free
  <2>5. /\ \A u \in Threads : u # t => thread'[u] = thread[u]
        /\ thread' = [u \in Threads |-> thread'[u]] /\ thread'[t] = free
    BY <2>1, <2>3 DEF free
  <2>6. QED
    BY <2>1, <2>4, <2>5 DEF free
<1>2. Typed'
  <2>1. IsThread(thread'[t])
    BY <1>1, IngestAssumption DEF IInv, Typed, IsThread, Free
  <2>2. \A u \in Threads : IsThread(thread'[u])
    BY <1>1, <2>1 DEF IInv, Typed
  <2>3. QED
    BY <1>1, <2>2 DEF IInv, Typed, input
<1>3. \A u \in Threads : thread'[u].pc # "write"
  BY <1>1 DEF IInv, Section, Free
<1>4. Section'
  BY <1>3 DEF Section
<1>5. \A key \in Keys : Past(t, key)
  <2>1. thread[t].column = Len(Columns) + 1 /\ DOMAIN Columns = 1 .. Len(Columns)
    BY <1>1, IngestAssumption DEF IInv, Typed, IsThread
  <2>2. QED
    BY <1>1, <2>1, IngestAssumption DEF Past, Keys, Range
<1>6. \A key \in Keys : Due(key) = size + 1 /\ Due(key)' = size + 1
  BY <1>1, <1>3, <1>5 DEF Due, Past
<1>7. \A key \in Keys : /\ Written(key)' = Written(key)
                        /\ \A i : RecordAt(key, i)' = RecordAt(key, i)
  BY <1>1 DEF Written, RecordAt
<1>8. Counts'
  BY <1>1, <1>6, <1>7 DEF IInv, Counts
<1>9. Rows'
  BY <1>3, <1>7 DEF IInv, Rows
<1>10. QED
  BY <1>2, <1>4, <1>8, <1>9 DEF IInv

LEMMA Stepping == IInv /\ [Next]_vars => IInv'
<1> SUFFICES ASSUME IInv, [Next]_vars PROVE IInv'
  OBVIOUS
<1>1. CASE OpenFile
  BY <1>1, OpeningFile
<1>2. CASE GiveUp \/ CloseColumns \/ SaveDescriptor
  BY <1>2, Closing DEF GiveUp, CloseColumns, SaveDescriptor
<1>3. CASE CloseFile
  <2>1. \A t \in Threads : thread[t].pc # "write"
    BY <1>3 DEF CloseFile
  <2>2. QED
    BY <1>3, <2>1, Closing DEF CloseFile
<1>4. ASSUME NEW t \in team, Turn(t) PROVE IInv'
  <2>1. t \in Threads
    BY DEF IInv, Typed
  <2>2. QED
    BY <1>4, <2>1, ReadingLine, DroppingLine, EnteringWrite, WritingColumn,
       Executing DEF Turn
<1>5. CASE Die
  BY <1>5, Dying
<1>6. CASE Build
  BY <1>6, Closing DEF Build, OpenDescriptor, Prepare, Dispose
<1>7. CASE UNCHANGED vars
  BY <1>7, Closing DEF vars, input, loopVars, streamVars
<1>8. QED
  BY <1>1, <1>2, <1>3, <1>4, <1>5, <1>6, <1>7 DEF Next, Write

\* The columns and the threads stay as IInv says in every state of a loader.
THEOREM Inductive == Spec => []IInv
<1>1. QED
  BY Initially, Stepping, PTL DEF Spec

\* Whichever threads write and whichever streams fail, the i-th records of two
\* columns are the same, and outside of the section a column whose stream has
\* not failed has _size records.
THEOREM ColumnsStayAligned == Spec => []ColumnsAligned
<1>1. IInv => ColumnsAligned
  <2> SUFFICES ASSUME IInv PROVE ColumnsAligned
    OBVIOUS
  <2>1. ASSUME \A t \in Threads : thread[t].pc # "write",
               NEW key \in Keys \ bad
        PROVE  Written(key) = size
    <3>1. Due(key) = size
      BY <2>1 DEF Due, Past
    <3>2. QED
      BY <2>1, <3>1 DEF IInv, Counts
  <2>2. QED
    BY <2>1 DEF IInv, Rows, ColumnsAligned, Keys
<1>2. QED
  BY <1>1, Inductive, PTL

-----------------------------------------------------------------------------
(* The descriptor and the build.                                           *)

\* A new descriptor is the last thing a loader writes, after whole columns.
Saved ==
    /\ loader \in {"files", "lines", "commit", "ended"}
    /\ descriptor \in {None} \cup [size : Nat, new : BOOLEAN]
    /\ (descriptor # None /\ descriptor.new) =>
          /\ loader = "ended"
          /\ \A key \in Keys \ bad :
                Len(disk[key]) = descriptor.size * Width(key)

\* The columns a pass prepares.
Prepared == [d \in 1 .. Len(Passes[pass]) |-> Loaded(Passes[pass][d])]

\* A pass that has prepared its keys has their words and no others.
Fresh ==
    /\ pass \in Nat /\ hashing \in BOOLEAN
    /\ pass > 0 => loader = "ended"
    /\ pass <= Len(Passes) + 1
    /\ hashing => pass \in 1 .. Len(Passes)
    /\ ~hashing => data = <<>>
    /\ hashing => data = Prepared

LEMMA SavedFirst == Init => Saved /\ Fresh
<1> SUFFICES ASSUME Init PROVE Saved /\ Fresh
  OBVIOUS
<1>1. /\ loader = "files" /\ pass = 0 /\ hashing = FALSE /\ data = <<>>
      /\ descriptor \in {None, [size |-> 1, new |-> FALSE]}
  BY DEF Init
<1>2. Saved
  <2>1. [size |-> 1, new |-> FALSE] \in [size : Nat, new : BOOLEAN]
    OBVIOUS
  <2>2. CASE descriptor = None
    BY <1>1, <2>2 DEF Saved
  <2>3. CASE descriptor = [size |-> 1, new |-> FALSE]
    BY <1>1, <2>1, <2>3 DEF Saved
  <2>4. QED
    BY <1>1, <2>2, <2>3
<1>3. Fresh
  <2>1. Len(Passes) \in Nat
    BY IngestAssumption
  <2>2. pass \in Nat /\ ~(pass > 0) /\ pass <= Len(Passes) + 1
    BY <1>1, <2>1
  <2>3. QED
    BY <1>1, <2>2, Zenon DEF Fresh
<1>4. QED
  BY <1>2, <1>3

LEMMA SavedLater == IInv /\ Saved /\ [Next]_vars => Saved'
<1> SUFFICES ASSUME IInv, Saved, [Next]_vars PROVE Saved'
  OBVIOUS
<1> USE DEF Saved
<1>1. CASE OpenFile \/ GiveUp \/ CloseFile \/ CloseColumns
  BY <1>1 DEF OpenFile, GiveUp, CloseFile, CloseColumns, diskVars
<1>2. CASE SaveDescriptor
  <2>1. size \in Nat /\ \A t \in Threads : thread[t].pc # "write"
    BY <1>2 DEF SaveDescriptor, IInv, Section, Typed
  <2>2. \A key \in Keys \ bad : Len(columns[key]) = size * Width(key)
    <3>1. \A key \in Keys : Due(key) = size
      BY <2>1 DEF Due, Past
    <3>2. QED
      BY <3>1 DEF IInv, Counts
  <2>3. descriptor' = [size |-> size, new |-> TRUE] /\ disk' = columns
        /\ loader' = "ended" /\ bad' = bad
    BY <1>2 DEF SaveDescriptor, streamVars
  <2>4. descriptor'.size = size /\ descriptor' \in [size : Nat, new : BOOLEAN]
    BY <2>1, <2>3
  <2>5. QED
    BY <2>2, <2>3, <2>4
<1>3. ASSUME NEW t \in team, Turn(t) PROVE Saved'
  BY <1>3 DEF Turn, ReadLine, DropLine, EnterWrite, WriteColumn, Execute, diskVars
<1>4. CASE Die
  BY <1>4 DEF Die
<1>5. CASE Build
  BY <1>5 DEF Build, OpenDescriptor, Prepare, Dispose, diskVars, streamVars
<1>6. CASE UNCHANGED vars
  BY <1>6 DEF vars, diskVars, streamVars
<1>7. QED
  BY <1>1, <1>2, <1>3, <1>4, <1>5, <1>6 DEF Next, Write

LEMMA EmptyBefore ==
    ASSUME NEW n \in Nat, NEW f, f = [d \in 1 .. n |-> f[d]]
    PROVE  <<>> \o f = f
<1>1. f \in Seq({f[d] : d \in 1 .. n})
  OBVIOUS
<1>2. QED
  BY <1>1

LEMMA Same ==
    ASSUME UNCHANGED <<disk, descriptor, pass>> PROVE Prepared' = Prepared
<1>1. \A key : Loaded(key)' = Loaded(key)
  BY DEF Loaded, Size
<1>2. QED
  BY <1>1 DEF Prepared

LEMMA FreshLater == Saved /\ Fresh /\ [Next]_vars => Fresh'
<1> SUFFICES ASSUME Saved, Fresh, [Next]_vars PROVE Fresh'
  OBVIOUS
<1> USE DEF Fresh
<1>1. CASE Write \/ Die
  <2>1. loader # "ended" /\ UNCHANGED buildVars
    BY <1>1 DEF Write, Die, OpenFile, GiveUp, CloseFile, CloseColumns,
       SaveDescriptor, Turn, ReadLine, DropLine, EnterWrite, WriteColumn, Execute
  <2>2. pass = 0 /\ ~hashing
    BY <2>1
  <2>3. QED
    BY <2>1, <2>2, IngestAssumption DEF buildVars
<1>2. CASE OpenDescriptor
  BY <1>2, IngestAssumption DEF OpenDescriptor
<1>3. CASE Prepare
  <2> DEFINE n == Len(Passes[pass])
             loaded == [d \in 1 .. n |-> Loaded(Passes[pass][d])]
  <2>1. /\ pass \in 1 .. Len(Passes) /\ ~hashing /\ hashing' = TRUE
        /\ data' = <<>> \o loaded /\ pass' = pass /\ loader' = loader
        /\ disk' = disk /\ descriptor' = descriptor
    BY <1>3 DEF Prepare, diskVars
  <2>2. n \in Nat
    BY <2>1, IngestAssumption
  <2>3. data' = loaded
    <3> HIDE DEF n
    <3>1. loaded = [d \in 1 .. n |-> loaded[d]]
      OBVIOUS
    <3> HIDE DEF loaded
    <3>2. <<>> \o loaded = loaded
      BY <2>2, <3>1, EmptyBefore
    <3>3. QED
      BY <2>1, <3>2
  <2>4. loaded = Prepared
    BY DEF Prepared
  <2>5. Prepared' = Prepared
    BY <2>1, Same
  <2> HIDE DEF loaded
  <2>6. QED
    BY <2>1, <2>3, <2>4, <2>5
<1>4. CASE Dispose
  <2>1. hashing' = FALSE /\ data' = <<>> /\ loader' = loader
        /\ pass \in 1 .. Len(Passes) /\ pass' = pass + 1
    BY <1>4 DEF Dispose
  <2>2. pass' \in Nat /\ pass' <= Len(Passes) + 1 /\ pass > 0
    BY <2>1, IngestAssumption
  <2>3. QED
    BY <2>1, <2>2, Zenon
<1>5. CASE UNCHANGED vars
  <2>1. UNCHANGED <<loader, disk, descriptor, pass, hashing, data>>
    BY <1>5 DEF vars, buildVars, diskVars
  <2>2. Prepared' = Prepared
    BY <2>1, Same
  <2>3. QED
    BY <2>1, <2>2, Zenon
<1>6. QED
  BY <1>1, <1>2, <1>3, <1>4, <1>5 DEF Next, Build

LEMMA SavedAndFresh == Spec => [](Saved /\ Fresh)
<1>1. QED
  BY SavedFirst, SavedLater, FreshLater, Inductive, PTL DEF Spec

\* Wherever the process ends, what a new descriptor counts is on the disk, of
\* every column whose stream has not failed.
THEOREM DescriptorIsLast == Spec => []DescriptorLast
<1>1. Saved => DescriptorLast
  BY DEF Saved, DescriptorLast, Keys
<1>2. QED
  BY <1>1, SavedAndFresh, PTL

\* Where unsigned long has the size of int, each pass of the build hashes every
\* record by what was written for it, however many passes there are.
THEOREM ReadsBackWhatWasWritten ==
    ASSUME IntWords = 1
    PROVE  Spec => []ReadsBack
<1>1. Fresh => ReadsBack
  <2> SUFFICES ASSUME Fresh, hashing,
                      NEW d \in 1 .. Len(Passes[pass]), NEW i \in 1 .. Size
               PROVE  data[d][i] = Stored(Passes[pass][d], i)
    BY DEF ReadsBack
  <2> DEFINE key == Passes[pass][d]
  <2>1. data[d] = Loaded(key)
    BY DEF Fresh, Prepared
  <2> HIDE DEF key
  <2>2. Width(key) = 1 /\ (i - 1) * 1 + 1 = i
    BY DEF Width
  <2>3. Loaded(key)[i] = Stored(key, i)
    BY <2>2 DEF Loaded, Stored
  <2>4. QED
    BY <2>1, <2>3 DEF key
<1>2. QED
  BY <1>1, SavedAndFresh, PTL

-----------------------------------------------------------------------------
(* Types: a turn always finds a line, that of a binary file the last one   *)
(* again at its end.                                                       *)

\* What a loop has read of its file and has still to read.
Reading ==
    /\ format \in Formats /\ files \in Datasets[format]
    /\ file \in 0 .. Len(files) /\ turns \in Nat
    /\ loader = "lines" =>
          /\ file > 0 /\ files[file] \in File
          /\ at + turns = FirstLine + Turns(file)
    /\ \A t \in Threads : thread[t].line.kind \in Kinds

\* Nothing of a column is on the disk before the columns are closed.
Buffered ==
    /\ bad \subseteq Keys
    /\ \/ loader = "ended"
       \/ \A key \in Keys : disk[key] = <<>> \/ disk[key] = columns[key]
    /\ loader = "lines" => \A key \in Keys : disk[key] = <<>>
    /\ loader = "files" => \A key \in Keys : disk[key] = <<>>

LEMMA Opened ==
    ASSUME format \in Formats, files \in Datasets[format],
           NEW f \in 1 .. Len(files), files[f] \in File
    PROVE  /\ Turns(f) \in Nat
           /\ Len(files[f].lines) \in Nat /\ Len(files[f].lines) >= 1
           /\ \A i \in 1 .. Len(files[f].lines) : files[f].lines[i] \in Kinds
           /\ Turns(f) <= Len(files[f].lines) + 1
<1>3. files[f].lines \in Seq(Kinds) /\ files[f].lines # <<>>
  BY DEF File
<1>4. /\ Len(files[f].lines) \in Nat /\ Len(files[f].lines) >= 1
      /\ \A i \in 1 .. Len(files[f].lines) : files[f].lines[i] \in Kinds
  <2> DEFINE s == files[f].lines
  <2> HIDE DEF s
  <2>1. s \in Seq(Kinds) /\ s # <<>>
    BY <1>3 DEF s
  <2>2. /\ Len(s) \in Nat /\ Len(s) >= 1
        /\ \A i \in 1 .. Len(s) : s[i] \in Kinds
    BY <2>1
  <2>3. QED
    BY <2>2 DEF s
<1>5. Turns(f) \in Nat /\ Turns(f) <= Len(files[f].lines) + 1
  BY <1>4 DEF Turns
<1>6. QED
  BY <1>4, <1>5

LEMMA KindRead ==
    ASSUME Typed, Reading, loader = "lines", turns > 0, NEW t \in Threads
    PROVE  LineAfter(file, at, thread[t].line).kind \in Kinds
<1> DEFINE old == thread[t].line
           lines == files[file].lines
<1>1. /\ Len(lines) \in Nat /\ Len(lines) >= 1 /\ file \in 1 .. Len(files)
      /\ \A i \in 1 .. Len(lines) : lines[i] \in Kinds
      /\ Turns(file) \in Nat /\ Turns(file) <= Len(lines) + 1
  BY Opened DEF Reading
<1>2. at \in Nat /\ turns \in Nat /\ at + turns = FirstLine + Turns(file)
  BY DEF Typed, Reading
<1>3. Blank.kind \in Kinds /\ old.kind \in Kinds
  BY DEF Blank, Kinds, Reading
<1>4. CASE at < Len(lines)
  <2>1. at + 1 \in 1 .. Len(lines)
    BY <1>1, <1>2, <1>4
  <2>2. Line(file, at + 1).kind \in Kinds
    BY <1>1, <2>1 DEF Line
  <2>3. LineAfter(file, at, old) = Line(file, at + 1)
    BY <1>4 DEF LineAfter
  <2>4. QED
    BY <2>2, <2>3
<1>5. CASE ~(at < Len(lines)) /\ format = "dmp"
  <2>1. FirstLine = 0
    BY <1>5 DEF FirstLine, Header
  <2>2. at \in 1 .. Len(lines)
    BY <1>1, <1>2, <1>5, <2>1
  <2>3. Line(file, at).kind \in Kinds
    BY <1>1, <2>2 DEF Line
  <2>4. LineAfter(file, at, old) = Line(file, at)
    BY <1>5 DEF LineAfter
  <2>5. QED
    BY <2>3, <2>4
<1>6. CASE ~(at < Len(lines)) /\ format # "dmp"
  <2>1. LineAfter(file, at, old) \in {Blank, old}
    BY <1>6 DEF LineAfter
  <2>2. QED
    BY <1>3, <2>1
<1>7. QED
  BY <1>4, <1>5, <1>6

LEMMA ReadingFirst == Init => Reading /\ Buffered
<1> SUFFICES ASSUME Init PROVE Reading /\ Buffered
  OBVIOUS
<1>1. /\ format \in Formats /\ files \in Datasets[format]
      /\ loader = "files" /\ file = 0 /\ turns = 0 /\ bad = {}
      /\ thread = [t \in Threads |-> Free(Blank)]
      /\ disk = [key \in Range(Columns) |-> <<>>]
  BY DEF Init
<1>2. Len(files) \in Nat
  BY <1>1, IngestAssumption
<1>3. \A t \in Threads : thread[t].line.kind \in Kinds
  BY <1>1 DEF Free, Blank, Kinds
<1>4. Reading
  BY <1>1, <1>2, <1>3 DEF Reading
<1>5. Buffered
  BY <1>1 DEF Buffered, Keys
<1>6. QED
  BY <1>4, <1>5

LEMMA ReadingLater == IInv /\ Saved /\ Reading /\ [Next]_vars => Reading'
<1> SUFFICES ASSUME IInv, Saved, Reading, [Next]_vars PROVE Reading'
  OBVIOUS
<1>1. CASE OpenFile
  <2>1. /\ file + 1 \in 1 .. Len(files) /\ files[file + 1] # Missing
        /\ file' = file + 1 /\ turns' = Turns(file + 1) /\ at' = FirstLine
        /\ UNCHANGED input
        /\ thread' = [t \in Threads |-> Free(Blank)]
    BY <1>1, IngestAssumption DEF OpenFile, Reading
  <2>2. files \in Seq(File \cup {Missing})
    BY IngestAssumption DEF Reading
  <2>3. files[file + 1] \in File
    BY <2>1, <2>2
  <2>4. Turns(file + 1) \in Nat
    BY <2>1, <2>3, Opened DEF Reading
  <2>5. \A f : Turns(f)' = Turns(f)
    BY <2>1 DEF Turns, input
  <2>6. FirstLine' = FirstLine /\ FirstLine \in Nat
    BY <2>1 DEF FirstLine, Header, input
  <2>7. \A t \in Threads : thread'[t].line.kind \in Kinds
    BY <2>1 DEF Free, Blank, Kinds
  <2>8. Turns(file)' = Turns(file + 1)
    BY <2>1 DEF Turns, input
  <2>9. QED
    BY <2>1, <2>3, <2>4, <2>6, <2>7, <2>8 DEF Reading, input
<1>2. ASSUME UNCHANGED <<input, file, thread>>,
             \/ UNCHANGED <<loader, at, turns>>
             \/ loader' # "lines" /\ turns' \in Nat
      PROVE  Reading'
  <2>1. Turns(file)' = Turns(file) /\ FirstLine' = FirstLine
    BY <1>2 DEF Turns, FirstLine, Header, input
  <2>2. QED
    BY <1>2, <2>1 DEF Reading, input
<1>3. CASE GiveUp \/ CloseFile \/ CloseColumns \/ SaveDescriptor
  BY <1>2, <1>3 DEF GiveUp, CloseFile, CloseColumns, SaveDescriptor, loopVars,
     Reading
<1>4. ASSUME NEW t \in Threads, ReadLine(t) PROVE Reading'
  <2> DEFINE line == LineAfter(file, at, thread[t].line)
  <2>1. /\ loader = "lines" /\ loader' = "lines" /\ turns > 0
        /\ turns' = turns - 1 /\ at' = at + 1 /\ UNCHANGED <<input, file>>
        /\ thread' = [thread EXCEPT ![t].pc = "parse", ![t].line = line]
    BY <1>4 DEF ReadLine
  <2>2. line.kind \in Kinds
    BY <2>1, KindRead DEF IInv
  <2> HIDE DEF line
  <2>3. Becomes(thread, thread', t, "parse", line, thread[t].column)
    BY <2>1, AllWhole, Updates DEF IInv
  <2>4. \A u \in Threads : thread'[u].line.kind \in Kinds
    BY <2>2, <2>3 DEF Becomes, Reading
  <2>5. Turns(file)' = Turns(file) /\ FirstLine' = FirstLine
        /\ FirstLine \in Nat
    BY <2>1 DEF Turns, FirstLine, Header, input
  <2>6. Turns(file) \in Nat
    BY <2>1, Opened DEF Reading
  <2>7. at' + turns' = FirstLine' + Turns(file)' /\ turns' \in Nat
    BY <2>1, <2>5, <2>6 DEF Reading, IInv, Typed
  <2>8. QED
    BY <2>1, <2>4, <2>7 DEF Reading, input
<1>5. ASSUME NEW t \in Threads,
             \/ DropLine(t) \/ EnterWrite(t) \/ WriteColumn(t) \/ Execute(t)
      PROVE  Reading'
  <2>1. UNCHANGED <<input, loader, file, at, turns>>
    BY <1>5 DEF DropLine, EnterWrite, WriteColumn, Execute
  <2>2. Turns(file)' = Turns(file) /\ FirstLine' = FirstLine
    BY <2>1 DEF Turns, FirstLine, Header, input
  <2>3. \A u \in Threads : thread'[u].line = thread[u].line
    <3>1. CASE DropLine(t)
      <4>1. thread' = [thread EXCEPT ![t].pc = "free"]
        BY <3>1 DEF DropLine
      <4>2. Becomes(thread, thread', t, "free", thread[t].line, thread[t].column)
        BY <4>1, AllWhole, Updates DEF IInv
      <4>3. QED
        BY <4>2 DEF Becomes
    <3>2. CASE EnterWrite(t)
      <4>1. thread' = [thread EXCEPT ![t].pc = "write", ![t].column = 1]
        BY <3>2 DEF EnterWrite
      <4>2. Becomes(thread, thread', t, "write", thread[t].line, 1)
        BY <4>1, AllWhole, Updates DEF IInv
      <4>3. QED
        BY <4>2 DEF Becomes
    <3>3. CASE WriteColumn(t)
      <4>1. thread' = [thread EXCEPT ![t].column = thread[t].column + 1]
        BY <3>3 DEF WriteColumn
      <4>2. Becomes(thread, thread', t, thread[t].pc, thread[t].line,
                    thread[t].column + 1)
        BY <4>1, AllWhole, Updates DEF IInv
      <4>3. QED
        BY <4>2 DEF Becomes
    <3>4. CASE Execute(t)
      BY <3>4 DEF Execute, IInv, Typed, Free
    <3>5. QED
      BY <1>5, <3>1, <3>2, <3>3, <3>4
  <2>4. QED
    BY <2>1, <2>2, <2>3 DEF Reading, input
<1>6. CASE Die
  <2>1. \A t \in Threads : thread'[t].line.kind \in Kinds
    BY <1>6 DEF Die, Free, Blank, Kinds
  <2>2. loader' = "ended" /\ file' = 0 /\ turns' = 0 /\ UNCHANGED input
    BY <1>6 DEF Die
  <2>3. Len(files) \in Nat
    BY IngestAssumption DEF Reading
  <2>4. QED
    BY <2>1, <2>2, <2>3 DEF Reading, input
<1>7. CASE Build
  <2>1. UNCHANGED <<input, loader, loopVars>>
    BY <1>7 DEF Build, OpenDescriptor, Prepare, Dispose
  <2>2. QED
    BY <1>2, <2>1 DEF loopVars
<1>8. CASE UNCHANGED vars
  <2>1. UNCHANGED <<input, loader, loopVars>>
    BY <1>8 DEF vars, input, loopVars
  <2>2. QED
    BY <1>2, <2>1 DEF loopVars
<1>9. team \subseteq Threads
  BY DEF IInv, Typed
<1>10. QED
  BY <1>1, <1>3, <1>4, <1>5, <1>6, <1>7, <1>8, <1>9 DEF Next, Write, Turn

LEMMA BufferedLater == IInv /\ Saved /\ Buffered /\ [Next]_vars => Buffered'
<1> SUFFICES ASSUME IInv, Saved, Buffered, [Next]_vars PROVE Buffered'
  OBVIOUS
<1> USE DEF Buffered
<1>1. CASE OpenFile \/ GiveUp \/ CloseFile \/ CloseColumns \/ SaveDescriptor
  BY <1>1 DEF OpenFile, GiveUp, CloseFile, CloseColumns, SaveDescriptor,
     streamVars, diskVars
<1>2. ASSUME NEW t \in Threads, Turn(t) PROVE Buffered'
  <2>1. loader' = loader /\ loader = "lines" /\ disk' = disk
    BY <1>2 DEF Turn, ReadLine, DropLine, EnterWrite, WriteColumn, Execute, diskVars
  <2>2. bad' \subseteq Keys
    <3>1. CASE WriteColumn(t)
      <4>1. thread[t].column \in DOMAIN Columns
        <5>1. thread[t].column <= Len(Columns)
          BY <3>1, Zenon DEF WriteColumn
        <5>2. thread[t].column \in 1 .. Len(Columns) + 1
          BY Zenon DEF IInv, Typed, IsThread
        <5>3. QED
          BY <5>1, <5>2, IngestAssumption
      <4>2. QED
        BY <3>1, <4>1 DEF WriteColumn, Keys, Range
    <3>2. CASE ~WriteColumn(t)
      BY <1>2, <3>2 DEF Turn, ReadLine, DropLine, EnterWrite, Execute, streamVars
    <3>3. QED
      BY <3>1, <3>2
  <2>3. QED
    BY <2>1, <2>2
<1>3. CASE Die
  BY <1>3 DEF Die
<1>4. CASE Build
  BY <1>4 DEF Build, OpenDescriptor, Prepare, Dispose, diskVars, streamVars
<1>5. CASE UNCHANGED vars
  BY <1>5 DEF vars, diskVars, streamVars
<1>6. team \subseteq Threads
  BY DEF IInv, Typed
<1>7. QED
  BY <1>1, <1>2, <1>3, <1>4, <1>5, <1>6 DEF Next, Write

LEMMA TypesFollow == IInv /\ Saved /\ Fresh /\ Reading /\ Buffered => TypeOK
<1> SUFFICES ASSUME IInv, Saved, Fresh, Reading, Buffered PROVE TypeOK
  OBVIOUS
<1>1. \A t \in Threads : thread[t].pc \in {"free", "parse", "write"}
                         /\ thread[t].column \in 1 .. Len(Columns) + 1
                         /\ thread[t].line.kind \in Kinds
  BY DEF IInv, Typed, IsThread, Reading
<1>2. ASSUME NEW key \in Keys
      PROVE  Len(columns[key]) % Width(key) = 0
  <2>1. Written(key) \in Nat /\ Len(columns[key]) = Written(key) * Width(key)
    BY DEF IInv, Counts
  <2>2. ASSUME NEW n \in Nat, NEW wd \in {1, 2} PROVE (n * wd) % wd = 0
    <3>1. CASE wd = 1
      BY <2>2, <3>1
    <3>2. CASE wd = 2
      BY <2>2, <3>2
    <3>3. QED
      BY <3>1, <3>2
  <2>3. QED
    BY <2>1, <2>2, Widths
<1>3. ASSUME NEW key \in Keys, loader # "ended"
      PROVE  IsPrefix(disk[key], columns[key])
  <2>1. columns[key] \in Seq(Words)
    BY DEF IInv, Typed
  <2>2. disk[key] = <<>> \/ disk[key] = columns[key]
    BY <1>3 DEF Buffered
  <2>3. ASSUME NEW s \in Seq(Words) PROVE IsPrefix(<<>>, s) /\ IsPrefix(s, s)
    BY DEF IsPrefix
  <2>4. QED
    BY <2>1, <2>2, <2>3
<1>4. team \subseteq Threads /\ size \in Nat
  BY DEF IInv, Typed
<1>5. pass \in 0 .. Len(Passes) + 1
  BY IngestAssumption DEF Fresh
<1>6. hashing \in BOOLEAN
  BY Zenon DEF Fresh
<1>7. QED
  BY <1>1, <1>2, <1>3, <1>4, <1>5, <1>6 DEF TypeOK, Reading, Saved, Buffered, Keys

\* The state of loader and build keeps its type: a turn always has a line, the
\* turns and the lines of a file are used up together, no column has half of a
\* record.
THEOREM TypeCorrect == Spec => []TypeOK
<1>1. Spec => [](Reading /\ Buffered)
  BY ReadingFirst, ReadingLater, BufferedLater, Inductive, SavedAndFresh, PTL
     DEF Spec
<1>2. QED
  BY <1>1, TypesFollow, Inductive, SavedAndFresh, PTL
-----------------------------------------------------------------------------
(* Every record is written, once. A record that was read is in a column or *)
(* held by a thread that is not past the column, and there are no more     *)
(* positions and holders than records, save for the surplus turn.          *)

\* The records of the file that were read.
RecordsRead ==
    {<<file, i>> : i \in {i \in DOMAIN files[file].lines :
        files[file].lines[i] = "record" /\ FirstLine < i /\ i <= at}}

\* Thread t has a record to write that is not in column key.
Holds(t, key) ==
    /\ thread[t].line.kind = "record"
    /\ thread[t].pc # "free" /\ ~Past(t, key)

Held(key) == {t \in team : Holds(t, key)}

HeldRecords(key) == {thread[t].line.record : t \in Held(key)}

Positions(key, f) == {i \in 1 .. Written(key) : RecordAt(key, i)[1] = f}

RecordsIn(key, f) == {RecordAt(key, i) : i \in Positions(key, f)}

\* The surplus turn is the last.
SurplusTurn == IF turns = 0 THEN Surplus(file) ELSE 0

\* So many more positions and holders than records.
Balance(positions, held, records, surplus) ==
    Cardinality(positions) + Cardinality(held) - Cardinality(records)
        \in 0 .. surplus

\* Column key while the file is read.
Running(key) ==
    /\ RecordsIn(key, file) \cup HeldRecords(key) = RecordsRead
    /\ Balance(Positions(key, file), Held(key), RecordsRead, SurplusTurn)

\* Column key once file f was read.
Finished(key, f) ==
    /\ RecordsIn(key, f) = RecordsOf(f)
    /\ Cardinality(Positions(key, f)) - Cardinality(RecordsOf(f))
          \in 0 .. Surplus(f)

Accounts ==
    loader # "ended" =>
        \A key \in Keys \ bad :
            /\ \A i \in 1 .. Written(key) : RecordAt(key, i)[1] \in 1 .. file
            /\ \A f \in 1 .. file :
                  IF f = file /\ loader = "lines" THEN Running(key)
                  ELSE Finished(key, f)

\* A record a thread has is of this file and was read; the only thread of a
\* loop has dropped the line it keeps at the end of a file.
Lines ==
    /\ \A t \in Threads :
          thread[t].pc = "write" => thread[t].line.kind = "record"
    /\ loader = "lines" =>
          /\ FirstLine <= at
          /\ \A t \in Threads : thread[t].line.kind = "record"
                                  => thread[t].line.record \in RecordsRead
          /\ (Header /\ Cardinality(team) = 1 /\ files[file].ended
                /\ at > Len(files[file].lines))
                => \A t \in team : thread[t].line.kind = "dropped"
    /\ loader = "commit" => file = Len(files)

All == IInv /\ Reading /\ Lines /\ Accounts

LEMMA Finite ==
    ASSUME IInv, NEW key \in Keys, NEW f
    PROVE  IsFiniteSet(Positions(key, f)) /\ IsFiniteSet(Held(key))
<1>1. IsFiniteSet(1 .. Written(key))
  BY FS_Interval DEF IInv, Counts
<1>2. Positions(key, f) \in SUBSET (1 .. Written(key))
  BY DEF Positions
<1>3. Held(key) \in SUBSET Threads
  BY DEF Held, IInv, Typed
<1>4. QED
  BY <1>1, <1>2, <1>3, IngestAssumption, FS_Subset, Zenon

\* Lines of a file are finitely many.
LEMMA FiniteLines ==
    ASSUME NEW f, NEW n \in Nat, NEW D \in SUBSET (1 .. n)
    PROVE  IsFiniteSet({<<f, i>> : i \in D})
<1>1. IsFiniteSet({f}) /\ IsFiniteSet(1 .. n)
  <2>1. IsFiniteSet(1 .. n)
    BY FS_Interval
  <2>2. IsFiniteSet({f})
    BY FS_Singleton, Zenon
  <2>3. QED
    BY <2>1, <2>2
<1>2. IsFiniteSet({f} \X (1 .. n))
  BY <1>1, FS_Product
<1>3. {<<f, i>> : i \in D} \in SUBSET ({f} \X (1 .. n))
  OBVIOUS
<1>4. QED
  BY <1>2, <1>3, FS_Subset, Zenon

LEMMA FiniteRecords ==
    ASSUME Reading, loader = "lines"
    PROVE  IsFiniteSet(RecordsRead)
<1> DEFINE lines == files[file].lines
           n == Len(lines)
           D == {i \in DOMAIN lines :
                   lines[i] = "record" /\ FirstLine < i /\ i <= at}
<1>1. lines \in Seq(Kinds)
  BY DEF Reading, File
<1> HIDE DEF lines
<1>2. n \in Nat /\ DOMAIN lines = 1 .. n
  BY <1>1
<1>3. D \in SUBSET (1 .. n)
  BY <1>2
<1> HIDE DEF n, D
<1>4. IsFiniteSet({<<file, i>> : i \in D})
  BY <1>2, <1>3, FiniteLines
<1>5. QED
  BY <1>4 DEF RecordsRead, D, lines

\* What the balance is after a record was read and after one was written.
LEMMA Balances ==
    ASSUME NEW P, NEW H, NEW R, NEW s \in {0, 1}, Balance(P, H, R, s),
           IsFiniteSet(P), IsFiniteSet(H), IsFiniteSet(R)
    PROVE  /\ \A t, r : (t \notin H /\ r \notin R)
                           => Balance(P, H \cup {t}, R \cup {r}, s)
           /\ \A t : (t \notin H /\ s = 0) => Balance(P, H \cup {t}, R, 1)
           /\ \A i, t : (i \notin P /\ t \in H)
                           => Balance(P \cup {i}, H \ {t}, R, s)
<1>1. Cardinality(P) \in Nat /\ Cardinality(H) \in Nat /\ Cardinality(R) \in Nat
  BY FS_CardinalityType
<1>2. ASSUME NEW t, NEW r, t \notin H, r \notin R
      PROVE  Balance(P, H \cup {t}, R \cup {r}, s)
  <2>1. Cardinality(H \cup {t}) = Cardinality(H) + 1
    BY <1>2, FS_AddElement
  <2>2. Cardinality(R \cup {r}) = Cardinality(R) + 1
    BY <1>2, FS_AddElement
  <2>3. QED
    BY <1>1, <2>1, <2>2 DEF Balance
<1>3. ASSUME NEW t, t \notin H, s = 0
      PROVE  Balance(P, H \cup {t}, R, 1)
  <2>1. Cardinality(H \cup {t}) = Cardinality(H) + 1
    BY <1>3, FS_AddElement
  <2>2. QED
    BY <1>1, <1>3, <2>1 DEF Balance
<1>4. ASSUME NEW i, NEW t, i \notin P, t \in H
      PROVE  Balance(P \cup {i}, H \ {t}, R, s)
  <2>1. Cardinality(P \cup {i}) = Cardinality(P) + 1
    BY <1>4, FS_AddElement
  <2>2. Cardinality(H \ {t}) = Cardinality(H) - 1
    BY <1>4, FS_RemoveElement
  <2>3. QED
    BY <1>1, <2>1, <2>2 DEF Balance
<1>5. QED
  BY <1>2, <1>3, <1>4, Zenon

LEMMA Surpluses ==
    /\ \A f : Surplus(f) \in {0, 1}
    /\ SurplusTurn \in {0, 1}
BY DEF Surplus, SurplusTurn

LEMMA AccountsFirst == Init => Lines /\ Accounts
<1> SUFFICES ASSUME Init PROVE Lines /\ Accounts
  OBVIOUS
<1>1. /\ loader = "files" /\ file = 0
      /\ \A t \in Threads : thread[t].pc = "free"
  BY DEF Init, Free
<1>2. Lines
  BY <1>1 DEF Lines
<1>3. \A key \in Keys : Written(key) = 0
  BY Widths DEF Init, Written, Keys
<1>4. Accounts
  BY <1>1, <1>3 DEF Accounts
<1>5. QED
  BY <1>2, <1>4

\* What does not depend on the turns.
LEMMA SameColumns ==
    ASSUME UNCHANGED <<input, columns>>
    PROVE  /\ \A key \in Keys : Written(key)' = Written(key)
           /\ \A key \in Keys : \A i : RecordAt(key, i)' = RecordAt(key, i)
           /\ \A key \in Keys : \A f :
                 /\ Positions(key, f)' = Positions(key, f)
                 /\ RecordsIn(key, f)' = RecordsIn(key, f)
           /\ \A key \in Keys : \A f : Finished(key, f)' = Finished(key, f)
           /\ \A f : RecordsOf(f)' = RecordsOf(f) /\ Surplus(f)' = Surplus(f)
<1> USE DEF input
<1>1. /\ \A key \in Keys : Written(key)' = Written(key)
      /\ \A key \in Keys : \A i : RecordAt(key, i)' = RecordAt(key, i)
  BY DEF Written, RecordAt
<1>2. \A key \in Keys : \A f : Positions(key, f)' = Positions(key, f)
  BY <1>1 DEF Positions
<1>3. \A key \in Keys : \A f : RecordsIn(key, f)' = RecordsIn(key, f)
  BY <1>1, <1>2 DEF RecordsIn
<1>4. \A f : RecordsOf(f)' = RecordsOf(f) /\ Surplus(f)' = Surplus(f)
  BY DEF RecordsOf, Surplus, Header
<1>5. \A key \in Keys : \A f : Finished(key, f)' = Finished(key, f)
  BY <1>2, <1>3, <1>4 DEF Finished
<1>6. QED
  BY <1>1, <1>2, <1>3, <1>4, <1>5

\* A step of a turn that touches no column: it is enough that the column that
\* is open stays in balance.
LEMMA TurnKeepsAccounts ==
    ASSUME Accounts, loader = "lines", loader' = "lines",
           UNCHANGED <<input, columns, bad, file>>,
           \A key \in Keys \ bad :
              (file > 0 /\ Running(key)) => Running(key)'
    PROVE  Accounts'
<1> SUFFICES ASSUME NEW key \in Keys \ bad'
             PROVE  /\ \A i \in 1 .. Written(key)' :
                          RecordAt(key, i)'[1] \in 1 .. file'
                    /\ \A f \in 1 .. file' :
                          IF f = file' /\ loader' = "lines" THEN Running(key)'
                          ELSE Finished(key, f)'
  BY DEF Accounts
<1>1. \A i \in 1 .. Written(key)' : RecordAt(key, i)'[1] \in 1 .. file'
  BY SameColumns DEF Accounts
<1>2. ASSUME NEW f \in 1 .. file, f = file PROVE Running(key)'
  BY <1>2 DEF Accounts
<1>3. ASSUME NEW f \in 1 .. file, f # file PROVE Finished(key, f)'
  BY <1>3, SameColumns DEF Accounts
<1>4. QED
  BY <1>1, <1>2, <1>3

\* A file that is opened has given nothing to any column.
LEMMA OpeningAccount == ASSUME All, OpenFile PROVE Lines' /\ Accounts'
<1>1. /\ loader = "files" /\ loader' = "lines" /\ file' = file + 1
      /\ file \in Nat /\ at' = FirstLine
      /\ thread' = [t \in Threads |-> Free(Blank)]
      /\ UNCHANGED <<input, columns, bad>>
  BY DEF OpenFile, streamVars, All, IInv, Typed
<1>2. FirstLine' = FirstLine /\ FirstLine \in Nat
  BY <1>1 DEF FirstLine, Header, input
<1>3. \A t \in Threads : /\ thread'[t].pc = "free"
                         /\ thread'[t].line.kind = "dropped"
  BY <1>1 DEF Free, Blank
<1>4. team' \subseteq Threads
  BY <1>1 DEF All, IInv, Typed, input
<1>5. Lines'
  <2>1. \A t \in team' : thread'[t].line.kind = "dropped"
    BY <1>3, <1>4
  <2>2. FirstLine' <= at'
    BY <1>1, <1>2
  <2>3. \A t \in Threads : /\ thread'[t].pc # "write"
                           /\ thread'[t].line.kind # "record"
    BY <1>3
  <2>4. loader' # "commit"
    BY <1>1
  <2>5. QED
    BY <2>1, <2>2, <2>3, <2>4 DEF Lines
<1>6. RecordsRead' = {}
  <2>1. \A i : ~(FirstLine' < i /\ i <= at') \/ ~(i \in Nat)
    BY <1>1, <1>2
  <2>2. DOMAIN files'[file'].lines \subseteq Nat
    <3>1. files' \in Seq(File \cup {Missing}) /\ file + 1 \in 1 .. Len(files')
      BY <1>1, IngestAssumption DEF All, Reading, OpenFile, input
    <3>2. files'[file'] \in File
      BY <1>1, <3>1, IngestAssumption DEF OpenFile, input
    <3>3. files'[file'].lines \in Seq(Kinds)
      BY <3>2 DEF File
    <3> DEFINE s == files'[file'].lines
    <3> HIDE DEF s
    <3>4. s \in Seq(Kinds)
      BY <3>3 DEF s
    <3>5. DOMAIN s \subseteq Nat
      BY <3>4
    <3>6. QED
      BY <3>5 DEF s
  <2>3. QED
    BY <2>1, <2>2 DEF RecordsRead
<1>7. ASSUME NEW key \in Keys \ bad
      PROVE  /\ Held(key)' = {} /\ Positions(key, file)' = {}
             /\ \A i \in 1 .. Written(key)' : RecordAt(key, i)'[1] \in 1 .. file
  <2>1. \A t \in Threads : ~Holds(t, key)'
    BY <1>3 DEF Holds
  <2>2. Held(key)' = {}
    BY <1>4, <2>1 DEF Held
  <2>3. \A i \in 1 .. Written(key)' : RecordAt(key, i)'[1] \in 1 .. file
    BY <1>1, SameColumns DEF All, Accounts
  <2>4. file' \notin 1 .. file
    BY <1>1
  <2>5. Positions(key, file)' = {}
    BY <2>3, <2>4 DEF Positions
  <2>6. QED
    BY <2>2, <2>3, <2>5
<1>8. ASSUME NEW key \in Keys \ bad PROVE Running(key)'
  <2>1. /\ Held(key)' = {} /\ Positions(key, file)' = {}
    BY <1>1, <1>7
  <2>2. RecordsIn(key, file)' = {} /\ HeldRecords(key)' = {}
    BY <2>1 DEF RecordsIn, HeldRecords
  <2>3. Cardinality({}) = 0
    BY FS_EmptySet
  <2>4. SurplusTurn' \in {0, 1}
    BY DEF Surplus, SurplusTurn
  <2>5. Balance({}, {}, {}, SurplusTurn')
    BY <2>3, <2>4 DEF Balance
  <2>6. QED
    BY <1>6, <2>1, <2>2, <2>5 DEF Running
<1>9. Accounts'
  <2> SUFFICES ASSUME NEW key \in Keys \ bad'
               PROVE  /\ \A i \in 1 .. Written(key)' :
                            RecordAt(key, i)'[1] \in 1 .. file'
                      /\ \A f \in 1 .. file' :
                            IF f = file' /\ loader' = "lines"
                            THEN Running(key)' ELSE Finished(key, f)'
    BY DEF Accounts
  <2>a. key \in Keys \ bad
    BY <1>1
  <2>1. \A i \in 1 .. Written(key)' : RecordAt(key, i)'[1] \in 1 .. file'
    <3>1. 1 .. file \subseteq 1 .. file'
      BY <1>1
    <3>2. QED
      BY <1>7, <2>a, <3>1
  <2>2. ASSUME NEW f \in 1 .. file', f # file' PROVE Finished(key, f)'
    <3>1. f \in 1 .. file
      BY <1>1, <2>2
    <3>2. Finished(key, f)
      BY <1>1, <2>a, <3>1 DEF All, Accounts
    <3>3. QED
      BY <1>1, <3>2, SameColumns
  <2>3. QED
    BY <1>1, <1>8, <2>a, <2>1, <2>2
<1>10. QED
  BY <1>5, <1>9

\* A turn past the end of a file finds a record only where it is the last turn
\* and a surplus one, and a record that was read.
LEMMA ReadPastEnd ==
    ASSUME All, loader = "lines", turns > 0, NEW t \in team,
           ~(at < Len(files[file].lines)),
           NEW line, line = LineAfter(file, at, thread[t].line),
           line.kind = "record"
    PROVE  turns = 1 /\ Surplus(file) = 1 /\ line.record \in RecordsRead
<1> DEFINE lines == files[file].lines
           n == Len(lines)
<1>1. /\ n \in Nat /\ n >= 1 /\ DOMAIN lines = 1 .. n
      /\ file \in 1 .. Len(files)
  <2>1. lines \in Seq(Kinds) /\ lines # <<>>
    BY DEF All, Reading, File
  <2>2. file \in 1 .. Len(files)
    BY DEF All, Reading
  <2> HIDE DEF lines
  <2>3. n \in Nat /\ n >= 1 /\ DOMAIN lines = 1 .. n
    BY <2>1
  <2>4. QED
    BY <2>2, <2>3
<1>2. /\ at \in Nat /\ turns \in Nat /\ turns > 0 /\ n <= at
      /\ at + turns = FirstLine + Turns(file)
  BY <1>1 DEF All, IInv, Typed, Reading
<1>3. t \in Threads
  BY DEF All, IInv, Typed
<1>4. CASE format = "dmp"
  <2>1. FirstLine = 0 /\ Turns(file) = n + 1 /\ ~Header
    BY <1>4 DEF FirstLine, Header, Turns
  <2>2. at = n /\ turns = 1
    BY <1>1, <1>2, <2>1
  <2>3. line = Line(file, at)
    BY <1>4 DEF LineAfter
  <2>4. lines[at] = "record" /\ line.record = <<file, at>>
    BY <2>3 DEF Line
  <2>5. at \in DOMAIN lines /\ FirstLine < at /\ at <= at
    BY <1>1, <2>1, <2>2
  <2>6. line.record \in RecordsRead
    BY <2>4, <2>5 DEF RecordsRead
  <2>7. QED
    BY <1>4, <2>2, <2>6 DEF Surplus
<1>5. CASE format # "dmp"
  <2>1. Blank.kind # "record"
    BY DEF Blank
  <2>2. /\ Header /\ ~(at = n /\ files[file].ended)
        /\ line = thread[t].line
    BY <1>5, <2>1 DEF LineAfter, KeepsLine, Header
  <2>3. line.record \in RecordsRead
    BY <1>3, <2>2 DEF All, Lines
  <2>4. FirstLine = 1
    BY <2>2 DEF FirstLine
  <2>5. CASE files[file].ended
    <3>1. Turns(file) = n + 1
      BY <2>5 DEF Turns
    <3>2. at = n + 1 /\ turns = 1
      BY <1>1, <1>2, <2>2, <2>4, <2>5, <3>1
    <3>3. at > n
      BY <1>1, <3>2
    <3>4. thread[t].line.kind # "dropped"
      BY <2>2
    <3>5. Cardinality(team) # 1
      BY <2>2, <2>5, <3>3, <3>4 DEF All, Lines
    <3>6. Surplus(file) = 1
      BY <2>2, <3>5 DEF Surplus
    <3>7. QED
      BY <2>3, <3>2, <3>6
  <2>6. CASE ~files[file].ended
    <3>1. Turns(file) = n
      BY <1>5, <2>6 DEF Turns
    <3>2. turns = 1
      BY <1>1, <1>2, <2>4, <3>1
    <3>3. Surplus(file) = 1
      BY <2>2, <2>6 DEF Surplus
    <3>4. QED
      BY <2>3, <3>2, <3>3
  <2>7. QED
    BY <2>5, <2>6
<1>6. QED
  BY <1>4, <1>5

\* A line that is read is new, and is read from then on.
LEMMA ReadWithin ==
    ASSUME All, loader = "lines",
           at' = at + 1, UNCHANGED <<input, file>>
    PROVE  /\ ~(at < Len(files[file].lines)) => RecordsRead' = RecordsRead
           /\ at < Len(files[file].lines) =>
                 /\ <<file, at + 1>> \notin RecordsRead
                 /\ RecordsRead' = IF files[file].lines[at + 1] = "record"
                                   THEN RecordsRead \cup {<<file, at + 1>>}
                                   ELSE RecordsRead
<1> DEFINE lines == files[file].lines
           n == Len(lines)
           D(a) == {i \in DOMAIN lines :
                     lines[i] = "record" /\ FirstLine < i /\ i <= a}
<1>1. n \in Nat /\ DOMAIN lines = 1 .. n
  <2>1. lines \in Seq(Kinds)
    BY DEF All, Reading, File
  <2> HIDE DEF lines
  <2>2. QED
    BY <2>1
<1>2. FirstLine' = FirstLine /\ FirstLine \in Nat /\ FirstLine <= at /\ at \in Nat
  BY DEF FirstLine, Header, input, All, Lines, IInv, Typed
<1>3. /\ RecordsRead = {<<file, i>> : i \in D(at)}
      /\ RecordsRead' = {<<file, i>> : i \in D(at + 1)}
  BY <1>2 DEF RecordsRead, input
<1> HIDE DEF lines
<1>4. /\ at >= n => D(at + 1) = D(at)
      /\ at + 1 \notin D(at)
      /\ at < n => D(at + 1) = IF lines[at + 1] = "record"
                               THEN D(at) \cup {at + 1} ELSE D(at)
  BY <1>1, <1>2
<1> HIDE DEF D
<1>5. <<file, at + 1>> \notin RecordsRead
  BY <1>3, <1>4
<1>6. ~(at < n) => RecordsRead' = RecordsRead
  BY <1>1, <1>2, <1>3, <1>4
<1>7. at < n => RecordsRead' = IF lines[at + 1] = "record"
                               THEN RecordsRead \cup {<<file, at + 1>>}
                               ELSE RecordsRead
  BY <1>1, <1>2, <1>3, <1>4
<1>8. QED
  BY <1>5, <1>6, <1>7 DEF lines

\* A turn takes a record that was not read yet, or the surplus one.
LEMMA ReadingAccount ==
    ASSUME All, NEW t \in team, ReadLine(t)
    PROVE  Lines' /\ Accounts'
<1> DEFINE old == thread[t].line
           n == Len(files[file].lines)
<1>l. PICK line : line = LineAfter(file, at, old)
  OBVIOUS
<1>1. /\ loader = "lines" /\ loader' = "lines" /\ turns > 0
      /\ thread[t].pc = "free"
      /\ turns' = turns - 1 /\ at' = at + 1
      /\ UNCHANGED <<input, file, columns, bad, size>>
      /\ thread' = [thread EXCEPT ![t].pc = "parse", ![t].line = line]
  BY <1>l DEF ReadLine, streamVars
<1>2. t \in Threads /\ team \subseteq Threads /\ team' = team
  BY <1>1 DEF All, IInv, Typed, input
<1>3. Becomes(thread, thread', t, "parse", line, thread[t].column)
  BY <1>1, <1>2, AllWhole, Updates DEF All, IInv
<1>4. /\ thread'[t].pc = "parse" /\ thread'[t].line = line
      /\ \A u \in Threads : u # t => thread'[u] = thread[u]
  BY <1>3 DEF Becomes
<1>5. /\ n \in Nat /\ at \in Nat /\ turns \in Nat
      /\ FirstLine \in Nat /\ FirstLine' = FirstLine /\ FirstLine <= at
  <2>1. files[file].lines \in Seq(Kinds)
    BY <1>1 DEF All, Reading, File
  <2> DEFINE s == files[file].lines
  <2> HIDE DEF s
  <2>2. s \in Seq(Kinds)
    BY <2>1 DEF s
  <2>3. Len(s) \in Nat
    BY <2>2
  <2>4. n \in Nat
    BY <2>3 DEF s
  <2>5. QED
    BY <1>1, <2>4
       DEF FirstLine, Header, input, All, Lines, IInv, Typed, Reading
<1>6. /\ ~(at < n) => RecordsRead' = RecordsRead
      /\ at < n =>
            /\ <<file, at + 1>> \notin RecordsRead
            /\ RecordsRead' = IF files[file].lines[at + 1] = "record"
                              THEN RecordsRead \cup {<<file, at + 1>>}
                              ELSE RecordsRead
  BY <1>1, ReadWithin
<1>7. at < n => line = Line(file, at + 1)
  BY <1>l DEF LineAfter
<1> HIDE DEF old, n
<1>8. /\ RecordsRead \subseteq RecordsRead'
      /\ line.kind = "record" => line.record \in RecordsRead'
  <2>1. CASE at < n
    <3>1. /\ line.kind = files[file].lines[at + 1]
          /\ line.record = <<file, at + 1>>
      BY <1>7, <2>1 DEF Line
    <3>2. QED
      BY <1>6, <2>1, <3>1
  <2>2. CASE ~(at < n)
    <3>1. line.kind = "record" => line.record \in RecordsRead
      BY <1>1, <1>l, <2>2, ReadPastEnd DEF n, old
    <3>2. QED
      BY <1>6, <2>2, <3>1
  <2>3. QED
    BY <2>1, <2>2
<1>9. Lines'
  <2>1. \A u \in Threads : /\ thread'[u].pc = "write" => thread'[u].line.kind = "record"
                           /\ thread'[u].line.kind = "record"
                                 => thread'[u].line.record \in RecordsRead'
    BY <1>1, <1>4, <1>8 DEF All, Lines
  <2>2. FirstLine' <= at'
    BY <1>1, <1>5
  <2>3. ASSUME Header', Cardinality(team') = 1, files'[file'].ended,
               at' > Len(files'[file'].lines), NEW u \in team'
        PROVE  thread'[u].line.kind = "dropped"
    <3>1. Header /\ Cardinality(team) = 1 /\ files[file].ended /\ at + 1 > n
      BY <1>1, <2>3 DEF Header, input, n
    <3>2. u = t
      <4>1. IsFiniteSet(team)
        BY <1>2, IngestAssumption, FS_Subset, Zenon
      <4>2. \E x : team = {x}
        BY <3>1, <4>1, FS_Singleton, Zenon
      <4>3. QED
        BY <1>2, <2>3, <4>2
    <3>3. line = IF at = n THEN Blank ELSE old
      <4>1. ~(at < n)
        BY <1>5, <3>1
      <4>2. format = "trips"
        BY <3>1 DEF Header
      <4>3. QED
        BY <1>l, <3>1, <4>1, <4>2 DEF LineAfter, KeepsLine, n
    <3>4. CASE at = n
      BY <1>4, <3>2, <3>3, <3>4 DEF Blank
    <3>5. CASE at # n
      <4>1. at > n
        BY <1>5, <3>1, <3>5
      <4>2. old.kind = "dropped"
        BY <1>1, <3>1, <4>1 DEF All, Lines, n, old
      <4>3. QED
        BY <1>4, <3>2, <3>3, <3>5, <4>2
    <3>6. QED
      BY <3>4, <3>5
  <2>4. loader' # "commit"
    BY <1>1
  <2>5. QED
    BY <2>1, <2>2, <2>3, <2>4 DEF Lines
<1>10. ASSUME NEW key \in Keys \ bad, file > 0, Running(key)
       PROVE  Running(key)'
  <2> DEFINE P == Positions(key, file)
             H == Held(key)
             S == RecordsIn(key, file)
  <2>1. Positions(key, file)' = P /\ RecordsIn(key, file)' = S
    BY <1>1, SameColumns
  <2>2. /\ S \cup HeldRecords(key) = RecordsRead
        /\ Balance(P, H, RecordsRead, 0)
    BY <1>1, <1>5, <1>10 DEF Running, SurplusTurn
  <2>3. IsFiniteSet(P) /\ IsFiniteSet(H) /\ IsFiniteSet(RecordsRead)
    BY <1>1, Finite, FiniteRecords DEF All
  <2>4. t \notin H
    BY <1>1 DEF Held, Holds
  <2>5. /\ ~Past(t, key)'
        /\ \A u \in Threads : u # t => (Past(u, key)' <=> Past(u, key))
    BY <1>1, <1>4 DEF Past
  <2>6. ASSUME NEW u \in Threads, u # t PROVE Holds(u, key)' <=> Holds(u, key)
    <3>1. thread'[u] = thread[u] /\ (Past(u, key)' <=> Past(u, key))
      BY <1>4, <2>5, <2>6, Zenon
    <3>2. QED
      BY <3>1, Zenon DEF Holds
  <2>7. Holds(t, key)' <=> line.kind = "record"
    <3>1. ~Past(t, key)'
      BY <1>2, <2>5, Zenon
    <3>2. thread'[t].pc # "free" /\ thread'[t].line.kind = line.kind
      BY <1>4
    <3>3. QED
      BY <3>1, <3>2, Zenon DEF Holds
  <2>8. Held(key)' = IF line.kind = "record" THEN H \cup {t} ELSE H
    BY <1>2, <2>4, <2>6, <2>7 DEF Held
  <2>9. HeldRecords(key)' = IF line.kind = "record"
                            THEN HeldRecords(key) \cup {line.record}
                            ELSE HeldRecords(key)
    <3>1. H \subseteq Threads
      BY <1>2 DEF Held
    <3>2. \A u \in H : thread'[u].line.record = thread[u].line.record
      BY <1>4, <2>4, <3>1
    <3>3. HeldRecords(key)' = {thread'[u].line.record : u \in Held(key)'}
      BY DEF HeldRecords
    <3>4. HeldRecords(key) = {thread[u].line.record : u \in H}
      BY DEF HeldRecords
    <3>5. thread'[t].line.record = line.record
      BY <1>4
    <3> HIDE DEF H
    <3>6. CASE line.kind = "record"
      <4>1. HeldRecords(key)' = {thread'[u].line.record : u \in H \cup {t}}
        BY <2>8, <3>3, <3>6
      <4>2. QED
        BY <3>2, <3>4, <3>5, <3>6, <4>1
    <3>7. CASE line.kind # "record"
      BY <2>8, <3>2, <3>3, <3>4, <3>7
    <3>8. QED
      BY <3>6, <3>7
  <2>10. SurplusTurn' \in {0, 1} /\ (turns = 1 => SurplusTurn' = Surplus(file))
    <3>1. SurplusTurn' \in {0, 1}
      BY DEF SurplusTurn, Surplus
    <3>2. Surplus(file)' = Surplus(file)
      BY <1>1 DEF Surplus, Header, input
    <3>3. QED
      BY <1>1, <3>1, <3>2 DEF SurplusTurn
  <2> HIDE DEF P, H, S
  <2>11. ASSUME NEW R, NEW G, Balance(P, G, R, 0) PROVE Balance(P, G, R, SurplusTurn')
    BY <2>10, <2>11 DEF Balance
  <2>12. CASE at < n
    <3>1. /\ line.kind = files[file].lines[at + 1]
          /\ line.record = <<file, at + 1>>
      BY <1>7, <2>12 DEF Line
    <3>2. CASE line.kind = "record"
      <4>1. Balance(P, H \cup {t}, RecordsRead \cup {line.record}, 0)
        BY <1>6, <2>12, <2>2, <2>3, <2>4, <3>1, Balances
      <4>2. RecordsRead' = RecordsRead \cup {line.record}
        BY <1>6, <2>12, <3>1, <3>2
      <4>3. Balance(P, H \cup {t}, RecordsRead', SurplusTurn')
        BY <2>11, <4>1, <4>2
      <4>4. S \cup HeldRecords(key)' = RecordsRead'
        BY <2>2, <2>9, <3>2, <4>2
      <4>5. QED
        BY <2>1, <2>8, <3>2, <4>3, <4>4 DEF Running
    <3>3. CASE line.kind # "record"
      <4>1. RecordsRead' = RecordsRead
        BY <1>6, <2>12, <3>1, <3>3
      <4>2. Balance(P, H, RecordsRead', SurplusTurn')
        BY <2>2, <2>11, <4>1
      <4>3. QED
        BY <2>1, <2>2, <2>8, <2>9, <3>3, <4>1, <4>2 DEF Running
    <3>4. QED
      BY <3>2, <3>3
  <2>13. CASE ~(at < n)
    <3>1. RecordsRead' = RecordsRead
      BY <1>6, <2>13
    <3>2. CASE line.kind = "record"
      <4>1. turns = 1 /\ Surplus(file) = 1 /\ line.record \in RecordsRead
        BY <1>1, <1>l, <2>13, <3>2, ReadPastEnd DEF n, old
      <4>2. Balance(P, H \cup {t}, RecordsRead, 1)
        BY <2>2, <2>3, <2>4, Balances
      <4>3. Balance(P, H \cup {t}, RecordsRead', SurplusTurn')
        BY <2>10, <3>1, <4>1, <4>2
      <4>4. S \cup HeldRecords(key)' = RecordsRead'
        BY <2>2, <2>9, <3>1, <3>2, <4>1
      <4>5. QED
        BY <2>1, <2>8, <3>2, <4>3, <4>4 DEF Running
    <3>3. CASE line.kind # "record"
      <4>1. Balance(P, H, RecordsRead', SurplusTurn')
        BY <2>2, <2>11, <3>1
      <4>2. QED
        BY <2>1, <2>2, <2>8, <2>9, <3>1, <3>3, <4>1 DEF Running
    <3>4. QED
      BY <3>2, <3>3
  <2>14. QED
    BY <2>12, <2>13
<1>11. Accounts'
  BY <1>1, <1>10, TurnKeepsAccounts DEF All
<1>12. QED
  BY <1>9, <1>11

\* A step of a turn that neither takes a record nor writes one.
LEMMA HoldersStay ==
    ASSUME All, loader = "lines", loader' = "lines",
           UNCHANGED <<input, file, at, turns, columns, bad>>,
           \A u \in Threads : thread'[u].line = thread[u].line,
           \A key \in Keys, u \in Threads : Holds(u, key)' <=> Holds(u, key),
           \A u \in Threads :
              thread'[u].pc = "write" => thread[u].line.kind = "record"
    PROVE  Lines' /\ Accounts'
<1>1. /\ team \subseteq Threads /\ team' = team
      /\ RecordsRead' = RecordsRead /\ SurplusTurn' = SurplusTurn
      /\ FirstLine' = FirstLine /\ (Header' <=> Header)
      /\ UNCHANGED <<format, files>>
  <2>1. UNCHANGED <<format, files, team>>
    BY DEF input
  <2>2. FirstLine' = FirstLine /\ (Header' <=> Header)
    BY <2>1 DEF FirstLine, Header
  <2>3. RecordsRead' = RecordsRead
    BY <2>1, <2>2 DEF RecordsRead
  <2>4. SurplusTurn' = SurplusTurn
    BY <2>1 DEF SurplusTurn, Surplus, Header
  <2>5. QED
    BY <2>1, <2>2, <2>3, <2>4 DEF All, IInv, Typed
<1>2. Lines'
  <2>1. \A u \in Threads : thread'[u].pc = "write" => thread'[u].line.kind = "record"
    OBVIOUS
  <2>2. /\ FirstLine' <= at' /\ loader' # "commit"
        /\ \A u \in Threads : thread'[u].line.kind = "record"
                                => thread'[u].line.record \in RecordsRead'
    BY <1>1 DEF All, Lines
  <2>3. (Header' /\ Cardinality(team') = 1 /\ files'[file'].ended
           /\ at' > Len(files'[file'].lines))
          => \A u \in team' : thread'[u].line.kind = "dropped"
    BY <1>1 DEF All, Lines
  <2>4. QED
    BY <2>1, <2>2, <2>3 DEF Lines
<1>3. ASSUME NEW key \in Keys \ bad, file > 0, Running(key)
      PROVE  Running(key)'
  <2>1. Held(key)' = Held(key)
    <3>1. ASSUME NEW u \in team PROVE Holds(u, key)' <=> Holds(u, key)
      BY <1>1, <1>3
    <3>2. QED
      BY <1>1, <3>1 DEF Held
  <2>2. HeldRecords(key)' = HeldRecords(key)
    <3>1. Held(key) \subseteq Threads
      BY <1>1 DEF Held
    <3>2. QED
      BY <2>1, <3>1 DEF HeldRecords
  <2>3. /\ Positions(key, file)' = Positions(key, file)
        /\ RecordsIn(key, file)' = RecordsIn(key, file)
    BY SameColumns
  <2>4. QED
    BY <1>1, <1>3, <2>1, <2>2, <2>3 DEF Running
<1>4. Accounts'
  BY <1>3, TurnKeepsAccounts DEF All
<1>5. QED
  BY <1>2, <1>4

\* A line that is dropped is not a record.
LEMMA DroppingAccount ==
    ASSUME All, NEW t \in team, DropLine(t) PROVE Lines' /\ Accounts'
<1>1. t \in Threads
  BY DEF All, IInv, Typed
<1>2. /\ loader = "lines" /\ loader' = "lines"
      /\ thread[t].line.kind \in {"dropped"} \cup Catches
      /\ UNCHANGED <<input, file, at, turns, columns, bad>>
      /\ thread' = [thread EXCEPT ![t].pc = "free"]
  BY DEF DropLine, streamVars
<1>3. Becomes(thread, thread', t, "free", thread[t].line, thread[t].column)
  BY <1>1, <1>2, AllWhole, Updates DEF All, IInv
<1>4. thread[t].line.kind # "record"
  BY <1>2 DEF Catches
<1>5. /\ thread'[t].pc = "free" /\ thread'[t].line = thread[t].line
      /\ \A u \in Threads : u # t => thread'[u] = thread[u]
  BY <1>3 DEF Becomes
<1>6. ASSUME NEW key \in Keys, NEW u \in Threads
      PROVE  Holds(u, key)' <=> Holds(u, key)
  <2>1. CASE u = t
    BY <1>4, <1>5, <2>1 DEF Holds
  <2>2. CASE u # t
    <3>1. thread'[u] = thread[u]
      BY <1>5, <2>2
    <3>2. QED
      BY <3>1 DEF Holds, Past
  <2>3. QED
    BY <2>1, <2>2
<1>7. \A u \in Threads : /\ thread'[u].line = thread[u].line
                         /\ thread'[u].pc = "write" => thread[u].line.kind = "record"
  BY <1>5 DEF All, Lines
<1>8. QED
  BY <1>2, <1>6, <1>7, HoldersStay

\* Before its first column a thread in the section holds its record still.
LEMMA EnteringAccount ==
    ASSUME All, NEW t \in team, EnterWrite(t) PROVE Lines' /\ Accounts'
<1>1. t \in Threads
  BY DEF All, IInv, Typed
<1>2. /\ loader = "lines" /\ loader' = "lines"
      /\ thread[t].line.kind = "record" /\ thread[t].pc = "parse"
      /\ UNCHANGED <<input, file, at, turns, columns, bad>>
      /\ thread' = [thread EXCEPT ![t].pc = "write", ![t].column = 1]
  BY DEF EnterWrite, streamVars
<1>3. Becomes(thread, thread', t, "write", thread[t].line, 1)
  BY <1>1, <1>2, AllWhole, Updates DEF All, IInv
<1>4. /\ thread'[t].pc = "write" /\ thread'[t].line = thread[t].line
      /\ thread'[t].column = 1
      /\ \A u \in Threads : u # t => thread'[u] = thread[u]
  BY <1>3 DEF Becomes
<1>5. ASSUME NEW key \in Keys, NEW u \in Threads
      PROVE  Holds(u, key)' <=> Holds(u, key)
  <2>1. CASE u = t
    <3>1. ~Past(t, key)
      BY <1>2 DEF Past
    <3>2. ~Past(t, key)'
      <4>1. \A i \in DOMAIN Columns : ~(i < 1)
        BY IngestAssumption
      <4>2. QED
        BY <1>4, <4>1 DEF Past
    <3>3. QED
      BY <1>2, <1>4, <2>1, <3>1, <3>2 DEF Holds
  <2>2. CASE u # t
    <3>1. thread'[u] = thread[u]
      BY <1>4, <2>2
    <3>2. QED
      BY <3>1 DEF Holds, Past
  <2>3. QED
    BY <2>1, <2>2
<1>6. \A u \in Threads : /\ thread'[u].line = thread[u].line
                         /\ thread'[u].pc = "write" => thread[u].line.kind = "record"
  BY <1>2, <1>4 DEF All, Lines
<1>7. QED
  BY <1>2, <1>5, <1>6, HoldersStay

\* After its last column it holds nothing.
LEMMA ExecutingAccount ==
    ASSUME All, NEW t \in team, Execute(t) PROVE Lines' /\ Accounts'
<1>1. t \in Threads /\ thread = [u \in Threads |-> thread[u]]
      /\ thread[t].column \in 1 .. Len(Columns) + 1
  BY DEF All, IInv, Typed, IsThread
<1>2. /\ loader = "lines" /\ loader' = "lines"
      /\ thread[t].pc = "write" /\ thread[t].column > Len(Columns)
      /\ UNCHANGED <<input, file, at, turns, columns, bad>>
      /\ thread' = [thread EXCEPT ![t] = Free(thread[t].line)]
  BY DEF Execute
<1>3. /\ thread'[t] = Free(thread[t].line)
      /\ \A u \in Threads : u # t => thread'[u] = thread[u]
  <2>1. DOMAIN thread = Threads
    BY <1>1, Zenon
  <2> DEFINE free == Free(thread[t].line)
  <2>2. thread' = [thread EXCEPT ![t] = free]
    BY <1>2
  <2> HIDE DEF free
  <2>3. thread'[t] = free /\ \A u \in Threads : u # t => thread'[u] = thread[u]
    BY <1>1, <2>1, <2>2
  <2>4. QED
    BY <2>3 DEF free
<1>4. ASSUME NEW key \in Keys, NEW u \in Threads
      PROVE  Holds(u, key)' <=> Holds(u, key)
  <2>1. CASE u = t
    <3>1. Past(t, key)
      <4>1. thread[t].column = Len(Columns) + 1 /\ DOMAIN Columns = 1 .. Len(Columns)
        BY <1>1, <1>2, IngestAssumption
      <4>2. QED
        BY <1>2, <4>1, IngestAssumption DEF Past, Keys, Range
    <3>2. thread'[t].pc = "free"
      BY <1>3 DEF Free
    <3>3. QED
      BY <2>1, <3>1, <3>2 DEF Holds
  <2>2. CASE u # t
    <3>1. thread'[u] = thread[u]
      BY <1>3, <2>2
    <3>2. QED
      BY <3>1 DEF Holds, Past
  <2>3. QED
    BY <2>1, <2>2
<1>5. \A u \in Threads : /\ thread'[u].line = thread[u].line
                         /\ thread'[u].pc = "write" => thread[u].line.kind = "record"
  BY <1>3 DEF All, Lines, Free
<1>6. QED
  BY <1>2, <1>4, <1>5, HoldersStay

\* A column a thread writes takes from it the record it held.
LEMMA WritingAccount ==
    ASSUME All, NEW t \in team, WriteColumn(t) PROVE Lines' /\ Accounts'
<1> DEFINE c == thread[t].column
           r == thread[t].line.record
<1>a. PICK key : key = Columns[c]
  OBVIOUS
<1>1. /\ thread' = [thread EXCEPT ![t].column = c + 1]
      /\ loader = "lines" /\ loader' = "lines" /\ thread[t].pc = "write"
      /\ c <= Len(Columns)
      /\ UNCHANGED <<input, file, at, turns, size>>
  BY DEF WriteColumn
<1>2. \/ /\ key \notin bad /\ bad' = bad
         /\ columns' = [columns EXCEPT ![key] = columns[key] \o WordsOf(key, r)]
      \/ bad' = bad \cup {key} /\ columns' = columns
  BY <1>a DEF WriteColumn
<1>3. t \in Threads /\ team \subseteq Threads /\ UNCHANGED <<format, files, team>>
  BY <1>1 DEF All, IInv, Typed, input
<1>4. Becomes(thread, thread', t, "write", thread[t].line, c + 1)
  BY <1>1, <1>3, AllWhole, Updates DEF All, IInv
<1>5. /\ key \in Keys /\ Due(key) = size
      /\ ~Past(t, key) /\ Past(t, key)'
      /\ \A k \in Keys : k # key => (Past(t, k)' <=> Past(t, k))
  BY <1>1, <1>3, <1>4, <1>a, ComingPast DEF All
<1>6. /\ thread'[t].pc = "write" /\ thread'[t].line = thread[t].line
      /\ \A u \in Threads : u # t => thread'[u] = thread[u]
  BY <1>4 DEF Becomes
<1>7. \A u \in Threads : /\ thread'[u].line = thread[u].line
                         /\ thread'[u].pc = thread[u].pc
  BY <1>1, <1>6
<1>8. /\ thread[t].line.kind = "record" /\ r \in RecordsRead
      /\ r \in Records /\ size \in Nat
  BY <1>1, <1>3 DEF All, Lines, IInv, Typed, IsThread
<1>9. r[1] = file
  BY <1>8 DEF RecordsRead
<1> HIDE DEF c, r
<1>10. /\ RecordsRead' = RecordsRead /\ SurplusTurn' = SurplusTurn
       /\ FirstLine' = FirstLine /\ (Header' <=> Header)
  <2>1. FirstLine' = FirstLine /\ (Header' <=> Header)
    BY <1>3 DEF FirstLine, Header
  <2>2. RecordsRead' = RecordsRead
    BY <1>1, <1>3, <2>1 DEF RecordsRead
  <2>3. SurplusTurn' = SurplusTurn
    BY <1>1, <1>3 DEF SurplusTurn, Surplus, Header
  <2>4. QED
    BY <2>1, <2>2, <2>3
<1>11. Lines'
  <2>1. \A u \in Threads : thread'[u].pc = "write" => thread'[u].line.kind = "record"
    BY <1>7 DEF All, Lines
  <2>2. /\ FirstLine' <= at' /\ loader' # "commit"
        /\ \A u \in Threads : thread'[u].line.kind = "record"
                                => thread'[u].line.record \in RecordsRead'
    BY <1>1, <1>7, <1>10 DEF All, Lines
  <2>3. (Header' /\ Cardinality(team') = 1 /\ files'[file'].ended
           /\ at' > Len(files'[file'].lines))
          => \A u \in team' : thread'[u].line.kind = "dropped"
    BY <1>1, <1>3, <1>7, <1>10 DEF All, Lines
  <2>4. QED
    BY <2>1, <2>2, <2>3 DEF Lines
<1>12. ASSUME NEW k \in Keys, NEW u \in Threads, u # t \/ k # key
       PROVE  Holds(u, k)' <=> Holds(u, k)
  <2>1. Past(u, k)' <=> Past(u, k)
    <3>1. CASE u = t
      BY <1>5, <1>12, <3>1
    <3>2. CASE u # t
      BY <1>6, <3>2 DEF Past
    <3>3. QED
      BY <3>1, <3>2
  <2>2. thread'[u].line = thread[u].line /\ thread'[u].pc = thread[u].pc
    BY <1>7
  <2>3. QED
    BY <2>1, <2>2, Zenon DEF Holds
<1>13. Holds(t, key) /\ ~Holds(t, key)'
  BY <1>1, <1>5, <1>8 DEF Holds
<1>14. ASSUME NEW k \in Keys \ bad', k # key
       PROVE  /\ \A i \in 1 .. Written(k)' : RecordAt(k, i)'[1] \in 1 .. file'
              /\ \A f \in 1 .. file' :
                    IF f = file' /\ loader' = "lines" THEN Running(k)'
                    ELSE Finished(k, f)'
  <2>1. k \in Keys /\ k \notin bad
    BY <1>2, <1>14
  <2>2. Written(k)' = Written(k) /\ \A i : RecordAt(k, i)' = RecordAt(k, i)
    <3>1. CASE columns' = [columns EXCEPT ![key] = columns[key] \o WordsOf(key, r)]
               /\ key \notin bad
      <4>1. RecordAdded(key, r)
        BY <1>5, <1>8, <3>1, AddingRecord DEF All
      <4>2. QED
        BY <1>14, <4>1, Zenon DEF RecordAdded
    <3>2. CASE columns' = columns
      BY <3>2 DEF Written, RecordAt
    <3>3. QED
      BY <1>2, <3>1, <3>2
  <2>3. \A f : Positions(k, f)' = Positions(k, f)
    BY <2>2 DEF Positions
  <2>4. \A f : RecordsIn(k, f)' = RecordsIn(k, f)
    BY <2>2, <2>3 DEF RecordsIn
  <2>5. \A f : RecordsOf(f)' = RecordsOf(f) /\ Surplus(f)' = Surplus(f)
    BY <1>3 DEF RecordsOf, Surplus, Header
  <2>6. \A f : Finished(k, f) => Finished(k, f)'
    BY <2>3, <2>4, <2>5 DEF Finished
  <2>7. Held(k)' = Held(k)
    <3>1. \A u \in team : Holds(u, k)' <=> Holds(u, k)
      BY <1>3, <1>12, <1>14
    <3>2. QED
      BY <1>3, <3>1 DEF Held
  <2>8. HeldRecords(k)' = HeldRecords(k)
    <3>1. Held(k) \subseteq Threads
      BY <1>3 DEF Held
    <3>2. QED
      BY <1>7, <2>7, <3>1 DEF HeldRecords
  <2>9. Positions(k, file)' = Positions(k, file)
        /\ RecordsIn(k, file)' = RecordsIn(k, file)
    <3>1. Positions(k, file)' = Positions(k, file)
      BY <1>1, <2>2 DEF Positions
    <3>2. QED
      BY <2>2, <3>1 DEF RecordsIn
  <2>10. Running(k) => Running(k)'
    BY <1>10, <2>7, <2>8, <2>9 DEF Running
  <2>11. QED
    BY <1>1, <2>1, <2>2, <2>6, <2>10 DEF All, Accounts
<1>15. ASSUME key \notin bad'
       PROVE  /\ \A i \in 1 .. Written(key)' : RecordAt(key, i)'[1] \in 1 .. file'
              /\ \A f \in 1 .. file' :
                    IF f = file' /\ loader' = "lines" THEN Running(key)'
                    ELSE Finished(key, f)'
  <2>1. RecordAdded(key, r) /\ key \in Keys /\ key \notin bad
    BY <1>2, <1>5, <1>8, <1>15, AddingRecord DEF All
  <2>2. /\ Written(key) = size /\ Written(key)' = size + 1
        /\ \A i : i = size + 1 => RecordAt(key, i)' = r
        /\ \A i \in 1 .. size : RecordAt(key, i)' = RecordAt(key, i)
    BY <2>1, Zenon DEF RecordAdded
  <2>3. file \in Nat /\ file \in 1 .. file
    BY <1>1 DEF All, Reading
  <2>4. \A i \in 1 .. Written(key)' : i \in 1 .. size \/ i = size + 1
    BY <1>8, <2>2
  <2>5. \A i \in 1 .. Written(key)' : RecordAt(key, i)'[1] \in 1 .. file'
    BY <1>1, <1>9, <2>1, <2>2, <2>3, <2>4 DEF All, Accounts
  <2>6. Positions(key, file)' = Positions(key, file) \cup {size + 1}
    <3>1. Positions(key, file)' = {i \in 1 .. Written(key)' : RecordAt(key, i)'[1] = file}
      BY <1>1 DEF Positions
    <3>2. Positions(key, file) = {i \in 1 .. size : RecordAt(key, i)[1] = file}
      BY <2>2 DEF Positions
    <3>3. 1 .. Written(key)' = 1 .. size \cup {size + 1}
      BY <1>8, <2>2
    <3>4. QED
      BY <1>9, <2>2, <3>1, <3>2, <3>3
  <2>7. size + 1 \notin Positions(key, file)
    BY <1>8, <2>2 DEF Positions
  <2>8. RecordsIn(key, file)' = RecordsIn(key, file) \cup {r}
    <3>1. RecordsIn(key, file)' = {RecordAt(key, i)' : i \in Positions(key, file)'}
      BY DEF RecordsIn
    <3>2. \A i \in Positions(key, file) : RecordAt(key, i)' = RecordAt(key, i)
      BY <2>2 DEF Positions
    <3>n. PICK n : n = size + 1
      OBVIOUS
    <3>3. RecordAt(key, n)' = r
      BY <2>2, <3>n
    <3> DEFINE P == Positions(key, file)
               A(i) == RecordAt(key, i)
               B(i) == RecordAt(key, i)'
    <3>4. Positions(key, file)' = P \cup {n}
      BY <2>6, <3>n
    <3>5. /\ RecordsIn(key, file) = {A(i) : i \in P}
          /\ RecordsIn(key, file)' = {B(i) : i \in P \cup {n}}
      BY <3>1, <3>4 DEF RecordsIn
    <3>6. B(n) = r /\ \A i \in P : B(i) = A(i)
      BY <3>2, <3>3
    <3> HIDE DEF P, A, B
    <3>7. QED
      BY <3>5, <3>6
  <2>9. Held(key)' = Held(key) \ {t}
    <3>1. \A u \in team : Holds(u, key)' <=> (u # t /\ Holds(u, key))
      BY <1>3, <1>5, <1>12, <1>13
    <3>2. QED
      BY <1>3, <3>1 DEF Held
  <2>10. t \in Held(key)
    BY <1>13 DEF Held
  <2>11. HeldRecords(key)' \cup {r} = HeldRecords(key)
    <3>1. Held(key) \subseteq Threads
      BY <1>3 DEF Held
    <3>2. HeldRecords(key)' = {thread[u].line.record : u \in Held(key) \ {t}}
      BY <1>7, <2>9, <3>1 DEF HeldRecords
    <3>3. QED
      BY <2>10, <3>2 DEF HeldRecords, r
  <2>12. Running(key)'
    <3>1. Running(key)
      BY <1>1, <2>1, <2>3 DEF All, Accounts
    <3>2. IsFiniteSet(Positions(key, file)) /\ IsFiniteSet(Held(key))
          /\ IsFiniteSet(RecordsRead)
      BY <1>1, <2>1, Finite, FiniteRecords DEF All
    <3>3. SurplusTurn \in {0, 1}
      BY DEF SurplusTurn, Surplus
    <3>4. Balance(Positions(key, file) \cup {size + 1}, Held(key) \ {t},
                  RecordsRead, SurplusTurn)
      BY <2>7, <2>10, <3>1, <3>2, <3>3, Balances DEF Running
    <3>5. RecordsIn(key, file)' \cup HeldRecords(key)' = RecordsRead
      BY <2>8, <2>11, <3>1 DEF Running
    <3>6. QED
      BY <1>10, <2>6, <2>9, <3>4, <3>5 DEF Running
  <2>13. ASSUME NEW f \in 1 .. file, f # file PROVE Finished(key, f)'
    <3>1. Finished(key, f)
      BY <2>1, <2>13 DEF All, Accounts, WriteColumn
    <3>2. f' = f
      OBVIOUS
    <3>3. Positions(key, f)' = Positions(key, f)
      <4>1. RecordAt(key, size + 1)'[1] # f
        BY <1>1, <1>9, <2>2, <2>13
      <4>2. Positions(key, f)' = {i \in 1 .. Written(key)' : RecordAt(key, i)'[1] = f}
        BY DEF Positions
      <4>3. QED
        BY <1>8, <1>9, <2>2, <2>4, <2>13, <4>2 DEF Positions
    <3>4. RecordsIn(key, f)' = RecordsIn(key, f)
      BY <2>2, <3>3 DEF RecordsIn, Positions
    <3>5. RecordsOf(f)' = RecordsOf(f) /\ Surplus(f)' = Surplus(f)
      BY <1>3 DEF RecordsOf, Surplus, Header
    <3>6. QED
      BY <3>1, <3>3, <3>4, <3>5 DEF Finished
  <2>14. QED
    BY <1>1, <2>5, <2>12, <2>13
<1>16. Accounts'
  BY <1>14, <1>15 DEF Accounts
<1>17. QED
  BY <1>11, <1>16

\* The loop over a file ends when all of it was read and nobody holds a record.
LEMMA ClosingAccount == ASSUME All, CloseFile PROVE Lines' /\ Accounts'
<1>1. /\ loader = "lines" /\ loader' = "files" /\ turns = 0
      /\ \A t \in Threads : thread[t].pc = "free"
      /\ UNCHANGED <<input, file, at, thread, columns, bad>>
  BY DEF CloseFile, loopVars, streamVars
<1>2. /\ UNCHANGED <<format, files, team>> /\ team \subseteq Threads
      /\ file \in 1 .. Len(files)
  BY <1>1 DEF input, All, IInv, Typed, Reading
<1>3. RecordsRead = RecordsOf(file)
  <2> DEFINE lines == files[file].lines
             n == Len(lines)
  <2>1. lines \in Seq(Kinds)
    BY <1>1 DEF All, Reading, File
  <2>2. /\ at \in Nat /\ at = FirstLine + Turns(file)
        /\ FirstLine = (IF Header THEN 1 ELSE 0)
    BY <1>1 DEF All, IInv, Typed, Reading, FirstLine
  <2>3. Turns(file) \in {n, n + 1}
        /\ (Turns(file) = n => FirstLine + n >= n)
    <3>1. n \in Nat
      <4> HIDE DEF lines
      <4>1. QED
        BY <2>1
    <3>2. Turns(file) \in {n, n + 1}
      <4>1. files[file].ended \/ format = "dmp" => Turns(file) = n + 1
        BY DEF Turns
      <4>2. ~(files[file].ended \/ format = "dmp") => Turns(file) = n
        BY DEF Turns
      <4>3. QED
        BY <4>1, <4>2
    <3> HIDE DEF lines
    <3>3. FirstLine + n >= n
      BY <2>2, <3>1
    <3>4. QED
      BY <3>2, <3>3
  <2> HIDE DEF lines
  <2>4. n \in Nat /\ DOMAIN lines = 1 .. n
    BY <2>1
  <2>5. at >= n
    BY <2>2, <2>3, <2>4
  <2>6. \A i \in DOMAIN lines :
          (FirstLine < i /\ i <= at) <=> (Header => i > 1)
    <3> SUFFICES ASSUME NEW i \in 1 .. n
                 PROVE  (FirstLine < i /\ i <= at) <=> (Header => i > 1)
      BY <2>4
    <3>1. i <= at
      BY <2>2, <2>4, <2>5
    <3>2. CASE Header
      BY <2>2, <3>1, <3>2
    <3>3. CASE ~Header
      BY <2>2, <3>1, <3>3
    <3>4. QED
      BY <3>2, <3>3
  <2>7. {i \in DOMAIN lines : lines[i] = "record" /\ FirstLine < i /\ i <= at}
          = {i \in DOMAIN lines : lines[i] = "record" /\ (Header => i > 1)}
    BY <2>6
  <2>8. QED
    BY <2>7 DEF RecordsRead, RecordsOf, lines
<1>4. ASSUME NEW key \in Keys \ bad, Running(key) PROVE Finished(key, file)
  <2>1. Held(key) = {}
    BY <1>1, <1>2 DEF Held, Holds
  <2>2. HeldRecords(key) = {} /\ Cardinality({}) = 0
    BY <2>1, FS_EmptySet DEF HeldRecords
  <2>3. SurplusTurn = Surplus(file)
    BY <1>1 DEF SurplusTurn
  <2>4. RecordsIn(key, file) = RecordsOf(file)
    BY <1>3, <1>4, <2>2 DEF Running
  <2>5. /\ Cardinality(Positions(key, file)) \in Nat
        /\ Cardinality(RecordsOf(file)) \in Nat
    BY <1>1, <1>3, Finite, FiniteRecords, FS_CardinalityType DEF All
  <2>6. Balance(Positions(key, file), {}, RecordsOf(file), Surplus(file))
    BY <1>3, <1>4, <2>1, <2>3 DEF Running
  <2>7. Cardinality(Positions(key, file)) - Cardinality(RecordsOf(file))
          \in 0 .. Surplus(file)
    BY <2>2, <2>5, <2>6 DEF Balance
  <2>8. QED
    BY <2>4, <2>7 DEF Finished
<1>5. Lines'
  BY <1>1 DEF All, Lines
<1>6. Accounts'
  <2> SUFFICES ASSUME NEW key \in Keys \ bad'
               PROVE  /\ \A i \in 1 .. Written(key)' :
                            RecordAt(key, i)'[1] \in 1 .. file'
                      /\ \A f \in 1 .. file' : Finished(key, f)'
    BY <1>1 DEF Accounts
  <2>a. key \in Keys \ bad /\ UNCHANGED <<input, columns>>
    BY <1>1
  <2>1. \A i \in 1 .. Written(key)' : RecordAt(key, i)'[1] \in 1 .. file'
    BY <1>1, <2>a, SameColumns DEF All, Accounts
  <2>2. \A f \in 1 .. file : Finished(key, f)
    BY <1>1, <1>4, <2>a DEF All, Accounts
  <2>3. QED
    BY <1>1, <2>1, <2>2, <2>a, SameColumns
<1>7. QED
  BY <1>5, <1>6

\* Outside of a loop the columns stay as they are until the loader has ended.
LEMMA RestingAccount ==
    ASSUME All, loader # "lines" \/ loader' = "lines",
           UNCHANGED <<input, file, at, turns, thread, columns, bad>>,
           loader' \in {loader, "ended"}
             \/ (loader = "files" /\ loader' = "commit" /\ file = Len(files))
    PROVE  Lines' /\ Accounts'
<1>1. CASE loader' = "lines"
  <2>1. loader = "lines" /\ UNCHANGED <<format, files, team>>
    BY <1>1 DEF input
  <2>2. team \subseteq Threads
    BY DEF All, IInv, Typed
  <2>3. \A key \in Keys, u \in Threads : Holds(u, key)' <=> Holds(u, key)
    BY DEF Holds, Past
  <2>4. \A u \in Threads : /\ thread'[u].line = thread[u].line
                           /\ thread'[u].pc = "write"
                                 => thread[u].line.kind = "record"
    BY DEF All, Lines
  <2>5. QED
    BY <1>1, <2>1, <2>3, <2>4, HoldersStay
<1>2. CASE loader' # "lines"
  <2>1. loader # "lines"
    BY <1>2
  <2>2. Lines'
    BY <1>2, <2>1 DEF All, Lines, input
  <2>3. CASE loader' = "ended"
    BY <2>2, <2>3 DEF Accounts
  <2>4. CASE loader' # "ended"
    <3>1. loader # "ended"
      BY <2>4
    <3> SUFFICES ASSUME NEW key \in Keys \ bad'
                 PROVE  /\ \A i \in 1 .. Written(key)' :
                              RecordAt(key, i)'[1] \in 1 .. file'
                        /\ \A f \in 1 .. file' : Finished(key, f)'
      BY <1>2, <2>2 DEF Accounts
    <3>2. QED
      BY <2>1, <3>1, SameColumns DEF All, Accounts
  <2>5. QED
    BY <2>3, <2>4
<1>3. QED
  BY <1>1, <1>2

LEMMA AccountsLater ==
    IInv /\ Reading /\ Lines /\ Accounts /\ [Next]_vars => Lines' /\ Accounts'
<1> SUFFICES ASSUME All, [Next]_vars PROVE Lines' /\ Accounts'
  BY DEF All
<1>1. CASE OpenFile
  BY <1>1, OpeningAccount
<1>2. CASE CloseFile
  BY <1>2, ClosingAccount
<1>3. CASE GiveUp \/ CloseColumns \/ SaveDescriptor
  BY <1>3, RestingAccount
     DEF GiveUp, CloseColumns, SaveDescriptor, loopVars, streamVars
<1>4. ASSUME NEW t \in team, Turn(t) PROVE Lines' /\ Accounts'
  BY <1>4, ReadingAccount, DroppingAccount, EnteringAccount, WritingAccount,
     ExecutingAccount DEF Turn
<1>5. CASE Die
  <2>1. /\ loader' = "ended"
        /\ \A t \in Threads : thread'[t].pc = "free"
    BY <1>5 DEF Die, Free
  <2>2. QED
    BY <2>1 DEF Lines, Accounts
<1>6. CASE Build
  <2>1. UNCHANGED <<input, loader, file, at, turns, thread, columns, bad>>
    BY <1>6 DEF Build, OpenDescriptor, Prepare, Dispose, loopVars, streamVars
  <2>2. QED
    BY <2>1, RestingAccount
<1>7. CASE UNCHANGED vars
  <2>1. UNCHANGED <<input, loader, file, at, turns, thread, columns, bad>>
    BY <1>7 DEF vars, input
  <2>2. QED
    BY <2>1, RestingAccount
<1>8. QED
  BY <1>1, <1>2, <1>3, <1>4, <1>5, <1>6, <1>7 DEF Next, Write

\* When the columns are closed every record of every file was written, once
\* but for the surplus turn, however the threads shared the turns.
THEOREM RecordsWrittenOnce == Spec => []WrittenOnce
<1>1. Reading /\ Lines /\ Accounts => WrittenOnce
  <2> SUFFICES ASSUME Reading, Lines, Accounts, loader = "commit",
                      NEW key \in Keys \ bad, NEW f \in DOMAIN files
               PROVE  /\ RecordsIn(key, f) = RecordsOf(f)
                      /\ Cardinality(Positions(key, f))
                           - Cardinality(RecordsOf(f)) \in 0 .. Surplus(f)
    BY DEF WrittenOnce, RecordsIn, Positions, Keys
  <2>1. file = Len(files)
    BY DEF Lines
  <2>2. f \in 1 .. file
    BY <2>1, IngestAssumption DEF Reading
  <2>3. Finished(key, f)
    BY <2>2 DEF Accounts
  <2>4. QED
    BY <2>3 DEF Finished
<1>2. Spec => [](Reading /\ Lines /\ Accounts)
  <2>1. Spec => []Reading
    BY ReadingFirst, ReadingLater, Inductive, SavedAndFresh, PTL DEF Spec
  <2>2. QED
    BY <2>1, AccountsFirst, AccountsLater, Inductive, PTL DEF Spec
<1>3. QED
  BY <1>1, <1>2, PTL

=============================================================================
