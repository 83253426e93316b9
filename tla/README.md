# Hashedcubes: models and proofs

This directory specifies the core of Hashedcubes in TLA+. A Hashedcube is an
in-memory data cube: it sorts the records of a dataset so that every region,
category and time bucket is a contiguous run of positions, keeps only the ends
of these runs (pivots), and answers aggregate queries of a map client by
subtracting them. The paths below are relative to the repository root; the
program's own C++ is in `src/src`.

## The system

| Part | State it keeps | Operations | Correct when |
|---|---|---|---|
| **Data** (`Data.cpp`, `InMemoryData`, `SQLData`) | `_index` (position -> record), `_hash` | `setHash`, `sortHash(front, back)` | `_index` stays a permutation; a sort touches its own run only |
| **SpatialDimension / TileNode** | quadtree of `TileNode`s, each with a pivot and four children | `hash` (`hashSingle`, `hashMultiple`), `queryTile`, `aggregateTile`, `queryRegion` | a tile stands for records of its tile only; children cover their parent; walks neither lose nor add records |
| **CategoricalDimension / CategoricalNode** | `_nodes`: one per incoming pivot, with its parts | `hash`, `query` (`queryWhere`, `queryGroup`) | a part stands for the records of its value; nodes are found by their front |
| **TemporalDimension / TemporalNode** | the same, and `_interval` | `hash`, `query`, `queryTseries` | the same; the interval is tight, because a query trusts it to skip the dimension |
| **DataLoader::build** | `current`, `response` | one `hash` pass per dimension | each pass answers ascending pivots without gap or overlap and covers the dataset |
| **HashedCubeInstances::query** and the **serializers** | `response[0/1]`, `target`, `target_equal`, `scatter_tuples` | the dimensions one by one, then one of six serializers | every number answered is the number of records that pass the query |
| **Query** | type, regions, tiles, fields, intervals | parsing a request, printing it back | what is printed parses to the same query |
| **Server / main** | `running`, the registry of cubes, `setReady` | build thread, poll loop, a thread per connection, stop | requests before the cube is ready get no cacheable wrong answer; stop ends the loop |
| **HTTP library** (`include/meerkat`) | connections with buffers and flags, the lists of the managers, links between connections | accept, forward to a thread, read, write, serve a file, close, free | no link leads to a connection that is gone; answers come whole and in order; no thread is left behind |
| **Ingest** (HCF column files, SQL, loaders) | column files, descriptor, table | write record by record, read back | the record read is the record written, in table and columns alike |
| **Date** | none | dates to days, seconds and weekdays, and back | all of them agree with the calendar |
| **Benchmark log** (`Nanocubes.h`) | four tables of names | a line becomes a `Query` | what is printed for it is the same query |
| **Web client** (`WebContent/js`) | selections, charts, map | requests on a change, answers in any order | what is shown belongs to the last selection |

How they interact. `main` starts a thread that builds the cube, joins it, and
runs the server. `DataLoader::build` calls `hash` on the spatial dimension, then
on the categorical ones, then on the temporal ones; all of them share one `Data`
and pass vectors of pivots (`response_t`) to each other. A request of the web
client is parsed to a `Query`; `HashedCubeInstances::query` lets every dimension
narrow the vector in the same order and gives the last one, or the pivots of the
dimension the query is about merged with the last one, to a serializer. The
`mysql` serializer reads the positions of the vector back to records.

What is hard. The build is one thread; its difficulty is that tiles and parts
are nothing but intervals of positions whose content later sorts could exchange,
through a recursion, three loops and a sort that is not stable. The queries are
one thread each over a cube that no longer changes; their difficulty is cursors
that advance together and are never tested against the end, and numbers on edges
(tile edges, interval bounds, the zoom of early leaves, 16-bit hashes, 8-bit
labels). Concurrency is confined to the server, to the library under it (a connection
with a thread of its own is three connections, of which two belong to another
thread than the third) and to the parallel loops of the loaders, partial failure
to ingest, and reordered answers to the web client. `PROJECT.json` lists the
hazards, each with its line and the properties that would notice it.

## Modules

| Module | Models |
|---|---|
| `Cube` | Vocabulary: records, pivots, chains of pivots, tiles and quadrants (`Mercator.h`, `TileNode::getIndex`), values and labels, the `used` maps, `setHash` and `sortHash` |
| `CubeBuild` | `DataLoader::build` and every `hash` it calls, one loop turn or call per action; the invariants of the build |
| `Partition` | What the build promises, with no pivots, hashes or sorts: blocks of records are split, never joined, until the pass has separated what it must |
| `CubeQuery` | `HashedCubeInstances::query` on the cube `CubeBuild` made: cursors, walks of the quadtree, selections, serializers; the reference answer by looking at every record |
| `Server` | The process: `main`, the build thread, the registry of cubes, the poll loop, a thread per connection, stop, telemetry lines, browser caches, the page that waits for its schema |
| `Exchange` | What the HTTP library promises a browser on one connection, with no buffers, threads or polls |
| `Meerkat` | The library as `Server.cpp` uses it: poll loops, socket pairs, partial reads and writes, files in chunks, closing |
| `Client` | The page: loading, controls, which change asks for what, answers in any order |
| `QueryText` | Requests as text: written by the page, read by `Query`, printed by `operator<<`, and lines of the benchmark log |
| `Dates` | `Date.h`, against a calendar that goes on day by day |
| `Ingest` | Loaders, `InMemoryDataGenerator`, descriptor and `InMemoryData`: writing column files with a parallel loop and reading them back |
| `SqlIngest` | `util::twitter_sql`: table and column files written side by side |
| `MCCubeBuild`, `MCCubeQuery`, `MCServer`, `MCIngest`, `MCQueryText` | Instances for TLC (`Meerkat`, `Client`, `Dates` and `SqlIngest` need only a `.cfg`) |
| `CubeBuild_proofs` | Lemmas on spans, chains, counts and sorts; the inductive invariant of the build: types, permutation, coverage; no step moves a record into or out of an existing tile or part; tiles and parts hold records of their own only; the nodes of a pass are the pivots of the pass before |
| `CubeRefines_proofs` | `CubeBuild` implements `Partition`; the children of a tile cover it, lie apart and take different slots |
| `CubeQuery_proofs` | The cursor of a query is always on a node; what the walks of the quadtree and the selections answer, and in which order |
| `Server_proofs` | The safety properties of the process |
| `Ingest_proofs` | Column files hold together and every record is written once, for any number of threads, columns and files |
| `SqlIngest_proofs` | Rows and columns of `twitter_sql` agree, for any number of lines |
| `Client_proofs` | What the page shows is what is selected, for any controls and any number of requests |
| `Meerkat_proofs` | No link of the library leads to a connection that is gone; `Meerkat` implements `Exchange` |

A definition named `X_Y` is the definition `X` with the slip `Y` in it. No
specification uses these; each is the bug that the property named in
`PROJECT.json` notices.

### Correspondence with the code

*Build* (`CubeBuild`). `stage` counts the passes of `DataLoader::build`;
`current` and `response` are its two vectors. The recursion of
`TileNode::hashMultiple` is an explicit `stack`: `call` is the node the function
has just been called on, a frame of `stack` is a call inside its loop over the
`used` map, with `accum` and the entries still to come. `SplitTile` is the part
of the function before the loop (hashes, sort, counts), `NextChild` one turn of
the loop, `LeafTile` the early return with its chain of nodes for the other
keys, `ReturnTile` the end. `hashSingle` is the same function with one key.
`OpenNode`, `EmplacePart` and `SortNode` are the counting, the loop over the
values and the end of `CategoricalNode::hash` and `TemporalNode::hash`, which
differ only in the value, the label and the interval. Nodes keep pivots by
value; the code shares them by pointer and never writes to one after it was
answered.

*Queries* (`CubeQuery`). `range` and `found` are `response[0]` and
`response[1]`, `at` and `it` the two iterators of the `query` functions.
`SeekNode` is `Hashing::nextNode`, `VisitNode` a turn of the inner loop,
`LeaveRange` its end, `FinishDim` the swap with the bookkeeping of `target` and
`target_equal`. The walks of the quadtree are recursive functions over the set
of tiles: a query has one root, and they change no state but the vector. The
serializers are operators (`CountByTarget`, `CountPairs`, `Rows`, `Total`) with
the one-pass merge as the function `Holder`.

*Process* (`Server`). `main` is where `main()` is, `builder` how far
`HashedCubeInstances::run` is, `server` where `Server::run` is. The connections
are `conn`, from the request (`sent`) to the answer in the buffer (`printed`).
Without telemetry a request is forwarded to the thread of its connection
(`Forward`) and the handler takes its steps there; with telemetry the server
thread itself is in the handler (`server = "handle"`). A line of the telemetry
file is two steps, `RunQuery` and `EndLine` (or `EndLineOfMain` for the
benchmark), because `operator<<` writes it in pieces. `BeginReport` and `SetReady` are
the report the build thread writes to the same stream and the flag it sets after it. `FreeManager` is
`mg_mgr_free`, after its last poll. `Destroy` is the destructor of the registry
and `End` the end of the process, with whatever threads are left. meerkat is
seen from above here: `Forward`, `Deliver`, `FreeManager` and `HasThread` say what
its multithreading does, as far as this code depends on it; how it does it is in
`Meerkat`.

*HTTP library* (`Meerkat`). A manager (`mg_mgr`) is `"main"` or the thread of a
client. `Select`, `Read`, `Write`, `Accept`, `BeginClose`, `Close` and `EndPoll` are
one `mg_mgr_poll`, cut where another thread may come in between: `todo` is what
select has reported and, later, what the close loop has before it, and `Comes` takes
it in the order of the list of the manager. A connection is
an *end*: `nc` is the accepted one; with threads its handler only forwards, over
`c0` and the socket pair, to `c1`, which the manager of the thread owns. `Parsed`
and `Handled` are `http_handler` with `Server::handler` under it, `Transfer` is
`transfer_file_data`, `Dropped` the same events in a connection that forwards.
`Unlinked` is `unlink_conns`, `Free` and `FreeListener` are `mg_mgr_free`. A request
is two parts on the wire and an answer a few, so that everything may come in
pieces. A request is of one of four kinds, by what the library does after it.

*Web client* (`Client`). `Current` is the selection `updateDataRestrictions`
writes, `asked` the strings of the last query, `UpdatesPanels` and `UpdatesTiles` the
comparisons of `update` and `update_tile`, `A_getQuery` the function of that name.
Panels share nothing but these strings, so one behaviour follows one panel, or the
tiles. `requests` are those of it that are under way; `newest` remembers whether the
answer to the last one was shown, lost, or covered by an older one that came late.

*Requests as text* (`QueryText`). `AddressOfPage` is what `updateDataRestrictions`
and `a_getQuery` write, `ReadToken` a turn of the loop of `Query`'s constructor,
`WriteQuery` is `operator<<` and `ReadLine` the loop of `nanocubes_log`. A text is the
sequence of its tokens. `Damaged` are addresses that are typed: cut short, with
another word somewhere, or with a value there is not.

*Dates* (`Dates`). The four functions of `Date.h` have their names;
`mkgmtime` keeps the seconds of a day apart from the days.

*Ingest* (`Ingest`). `OpenFile`, `ReadLine`, `DropLine`, `EnterWrite`,
`WriteColumn`, `Execute` and `CloseFile` are the common body of
`TripLoader`, `SnapLoader`, `FlightsDelayLoader`, `FlightsPerformanceLoader` and
`DMPLoader`; where these differ is in `Header`, `KeepsLine`, `Catches`, `Turns`,
`LineAfter` and `Teams`. What the tests and conversions of a loader make of a
line is the kind of the line. `CloseColumns` and `SaveDescriptor` are `commit`;
`OpenDescriptor`, `Prepare` and `Dispose` are what the build does later with
`InMemoryDataDescriptor` and `InMemoryData`. A file is a sequence of words of
four bytes, and `Width` is how many of them a value takes.

*SQL ingest* (`SqlIngest`). `Steps` is the straight line of the loop's body;
every action does the step `step` stands at and goes on, or abandons the line
as `catch (...) { continue; }` does.

### Abstractions

* A position on the map is its tile at the finest zoom. `lon2tilex` and
  `lat2tiley` at a coarser zoom are then exact halvings. Comparisons of
  longitudes and latitudes in `Mercator.h` become comparisons on the grid of half
  finest tiles (`Line`); the half is needed to place the tile of a wrapped zoom.
  Rounding of doubles is not modelled.
* `std::sort` is any permutation of the run that ascends by hash: equal hashes
  end in any order, and TLC explores all of them.
* The hash is kept modulo `HashMod` (2^16 in the code), the label of a category
  modulo `LabelMod` (2^8).
* `SQLData::dispose` clears `_hash` after the first pass and later passes still
  write to it through `operator[]`. That is undefined behaviour; what the builds
  at hand do is keep the storage, and the model stores the hashes.
* A text is its tokens (`QueryText`); JSON, colours and the palette are left out.
* `stof` of a corner rounds to `Mantissa` bits (24 in the code, 3 in the run, so that
  small numbers are rounded).
* An `unsigned` of `Dates` wraps at 2^18, the narrowest word with which the code is
  right in the years of the run; the builds have 2^32.
* In `Meerkat` `MG_EV_POLL` changes nothing and is left out: only a connection with a
  file listens to it, and its buffer was filled up at the event before.

## Runs

| Run | Instance | Distinct states | What it shows |
|---|---|---|---|
| `build_one_key` | 4 records of 8 samples, 1 key, 1 category, 1 temporal dimension, leaf 1 | 39 670 | Invariants of the build, `RecordsStayInside`, the refinement of `Partition`, termination |
| `query` | 3 records of 6 samples, 1 key, 2 categories, 1 temporal dimension, leaf 2, about 300 queries of all six kinds | 395 477 | Cursors stay on nodes, every answer is the count of the records that pass, rows are those of the selection, tiles miss no record, every query is answered |
| `query_trips` | 3 records of 7 samples, 2 keys, leaf 1, regions and tiles on one key or both | 20 721 | The alternating quadtree, the nodes hung below its leaves, region walks |
| `rows_truncated` | the `query` instance with `HashMod` 4 | | Expected violation: the rows fetched are not those of the selection (below) |
| `server` | 2 cubes, 2 connections, every choice of telemetry, benchmark and server | 45 754 | Telemetry lines never mix, nobody reads the registry while it changes, browsers keep only answers that stay right, a loading page gets ready, requests end, a key ends the process |
| `meerkat` | 1 client, 2 requests of 4 kinds, files of 2 chunks, 2 parts of buffer, with and without threads | 169 703 | Links are mutual and alive, the library refines `Exchange`, requests are answered whole or the connection closed, threads end |
| `client` | 4 views, 2 values of every control, 2 requests and 2 polls under way | 1 021 392 | What is shown is what is selected, wherever the page can see to it |
| `query_text` | 2 keys, 2 dimensions, a menu with two fields that are none, addresses of the page, damaged ones, and lines of the log | 1 094 470 | Addresses are read as they are meant; what is printed is read as the same query |
| `dates` | every day from 1899 to 2101 | 74 144 | The functions of `Date.h` agree with the calendar and each other |
| `ingest` | five loaders, two to eight datasets of one or two files each, 1 or 2 threads, `IntWords` 1 | 238 854 | Columns stay aligned, every record is written once, a descriptor is right about its columns, each pass reads its own columns back |
| `ingest_linux` | the same with `IntWords` 2 | | Expected violation: other values are read than were written (below) |
| `sql_ingest` | 4 lines, any of which may not parse; inserts and text bindings may fail | 1 285 | Rows and columns number records alike |

All runs set `CHECK_DEADLOCK FALSE`: the build stops when the cube is made, a
behaviour of `CubeQuery` when its one query is answered, a process when it ends,
a loader when there is no descriptor to build from, a page when nobody touches
it, the library when the server has stopped, a request when it is done with, and
the calendar at its ends.

Bounds, and why they are enough:

* `MaxZoom = 2` (20 in the code): a root, an inner level and a finest level, so
  that a leaf may be early, at the last zoom, or a level above a tile asked for.
* Three or four records: two siblings, one of which splits again, with equal and
  different hashes inside one run; datasets are multisets of samples because the
  order of the records only renames them.
* `Leaf` 1 and 2: with 1 every different position is split; with 2 records of
  different tiles stay together in an early leaf.
* `HashMod` 8 is above every value of the samples, 4 below some of them; the
  samples have buckets 0, 2 and 4, so that 0 and 4 collide.
* `Bins = 4` (256) and `MaxRows = 2` (300): fewer than days or records, so that
  bins are shared and rows are cut off.
* `Conns`: the page's connection and another, so that two handlers and the
  benchmark may be in a line at once if the code lets them (any number in
  `Server_proofs`); `Benchmarks = 1`, a query of `main`
  that overlaps with a handler if it can.
* Files of two or three lines: with a header, ended or not, with a second file
  in the second directory of its loader or a missing one. Two threads are enough
  to interleave two records, two words per column to tear one (any
  number in `Ingest_proofs`).
* One client in `meerkat`: connections of clients share the list and the poll of the
  main manager only, and a poll handles them one by one; what could go wrong
  between them is a link, and `LinksAlive` is proved for any number. Two requests,
  the second of which may come while the first one's connection closes; files
  longer than the buffer (`FileChunks` + 1 > `Room`).
* Two requests and two polls under way in `client`, as many as it takes for one to
  overtake another and for a page to be loaded twice.
* 1899 to 2101 has the centuries 1900 and 2100, which are no leap years, 2000,
  which is one, and both sides of 1970, where weekdays change formula.
* One query per behaviour: a query changes nothing a later one reads, so every
  query is asked of every cube.

Fairness. The build is one thread that nothing blocks, hence weak fairness of
`Next`; a request is handled by a thread to its end, hence weak fairness of
`QueryStep`. Nothing is fair about `Ask`: no client has to ask.
In `Server` the threads (`main`, build, poll loop, handlers) are weakly fair: they
are threads of the operating system. What a poll does for one connection is
strongly fair, because a poll reports every socket that is ready, whatever else
happens. The page polls with a timer (`PagePoll`, weakly fair). Pressing a key and
sending other requests is not fair. In `Meerkat` every manager is a thread (weakly
fair), and so is a browser in what it does by itself: send the rest of a request it
has begun, read what has come, notice the end. `Client`, `QueryText`, `Dates` and the
two ingests state no fairness: they have safety properties only.

## What the checks show

* **Partitioning.** Tiles and parts hold the records of their tile or value
  (`TilesHoldTheirRecords`, `PartsHoldTheirRecords`) although the children of a
  node are laid out in the order of a map by `(x, y)` and the records are sorted
  by quadrant: the two orders agree only because siblings differ in the lowest
  bit and the x bit is the high bit of `getIndex`.
* **Alignment.** The nodes of each pass are exactly the pivots of the pass before
  (`NodesAligned`), in ascending order. `Hashing::nextNode` reads its iterator
  unchecked; `CursorOnNode` shows why this is safe on a cube that is not empty.
* **Answers.** Every count is the number of records that pass, except that a
  temporal restriction is closed at its upper bound for a node inside the
  interval and half-open for a node it cuts (`TemporalNode.cpp`): records exactly
  on the bound may or may not be counted, which `AnswerIsCount` states as a pair
  of bounds.

* **The library.** Three connections and two threads act as one towards a browser.
  What makes it so is in one function: `unlink_conns` must clear the pointer *and*
  set "send and close" on the other side. Without the first the next read follows
  a pointer to a destroyed connection (`LinksAlive`), without the second the thread
  waits for ever (`ThreadsEnd`), and a flag obeyed before the buffer is empty cuts
  answers short, but only if the kernel takes them in pieces (`RefinesExchange`).
* **The page.** Whatever overtakes or fails, the tiles on the map belong to the
  current selection, because every query has canvases of its own
  (`TilesShowSelection`). Panels have nothing of the kind: they show the selection
  whenever the answer to their last request is the one they show
  (`PanelsShowSelection`), which is what the comparison in `update` and the order of
  the handlers have to see to.
* **Requests as text.** No clause of an address of the page is taken for another,
  and a field of the menu that is not checked restricts nothing, thanks to the test
  for an empty list (`Understood`); a line of the telemetry file is the address of
  its query in whatever order the maps are gone through (`PrintsBack`).
* **Dates.** The two loops of `mkgmtime` and the closed forms count the same days,
  through centuries and before 1970, with unsigned numbers that wrap
  (`CalendarsAgree`).
* **The process.** `main` joins the build thread before it starts the server.
  Everything about a server that is not ready hangs on this: the answer `[]` of a
  server that is not ready is sent with a day of `max-age` (`printJson` excepts
  only `[null]`), so that a page that got it once would never get ready
  (`CacheIsFinal`, `PageStarts`; the mutant that does not wait violates both), and
  the registry is a map without a lock (`RegistryUndisturbed`). With telemetry the
  flag handed to `Server::run` turns threads off, which is what keeps lines whole
  (`LogLinesWhole`).
* **Ingest.** The columns stay aligned because all columns of a record and the
  counter are one critical section, and a failed stream or process only cuts off
  ends. Rows and columns of the SQL loader keep one numbering after a failed
  insert only because the statement is *not* reset in the `catch`: every later
  `bind` is refused before anything is written. Resetting it there, which looks
  like a repair, would shift every later row (mutant `ExecFails_Reset`).

### Disagreements with the documentation

`README.md:5` of the repository presents the link to the original records as
natural in the structure. `TemporalNode::hash` sorts records by
`setHash(i, value)`, whose parameter is an `unsigned short` (`Data.cpp:19`),
while the parts are laid out by the whole value. As soon as bucketed times differ
in more than 16 bits the positions of a part hold records of other times: the
rows fetched for a time selection are not the rows counted. Run
`rows_truncated` shows it. The size of a part comes from counting and not from the
order, so counts stay right as long as the truncated dimension is the last one; a
later dimension would be hashed over the wrong positions.

`README.md:9` of the repository names Windows and Linux, and `main.cpp:73` offers
to "generate hcf binary file". `addInt` writes `sizeof(ulong)` bytes, eight on
64-bit Linux, and `InMemoryData` reads `sizeof(int)` bytes per record. Files of
integer columns that were generated on Linux are therefore read back wrongly from
the second record on (run `ingest_linux`); where the two sizes agree they are read
back right (run `ingest`).

### Known edges outside the instances

* A dataset no larger than the leaf threshold, with several keys: the root is a
  leaf, its chain of nodes takes `z - 1` of keys that were never split, and the
  five-bit field wraps to 31 (`TileNode.cpp`, the chain of `hashMultiple`). A
  region on such a key then finds nothing. With `Leaf = 3` in
  `MCCubeQuery_trips.cfg` TLC reports `RegionsAreComplete` violated.
* Without telemetry the handlers run on threads that nobody joins. When `main`
  returns, one may still be in a query while the registry is destroyed;
  `RegistryUndisturbed` makes no claim about this case.
* A request under `/rest` with fewer than four tokens is not answered until the
  server stops; `RequestsEnd` leaves it out.
* `TripLoader` declares `line` outside its loop, and `std::getline` on a stream
  that has ended leaves it alone. The header has used up one of the lines counted,
  so the last turn may find the record before it again: in a sequential build if
  the last line is not ended, with OpenMP always when another thread takes that
  turn. `DMPLoader` tests `eof` before it reads and appends one record to every
  file. `Surplus` allows exactly these.
* A run of a loader that ends without `commit` leaves truncated columns beside the
  descriptor of the run before, and the build reads them without complaint. A
  descriptor `commit` was saving when the process ended is empty and comes to no
  build: `Die` leaves none.
* Without OpenMP the variable `line` holds the header, not a blank line, before the
  first turn of `TripLoader`. It matters for an unended file of a header alone; a header
  is dropped as a blank line is, so `OpenFile` does not tell them apart.
* A text that SQLite finds no memory to copy leaves a torn record, after which
  positions and times are off by one; `RowsMatchColumns` holds until then.
* Answers that overtake each other in a panel: the older selection stays on the
  screen (`loadmap.js:214`). A chart keeps what it shows if the new interval has less
  than two points. A rectangle whose button is released outside the map goes on
  following the mouse. A second answer to the polls of the start loads the page
  twice, after which the tiles of the map hear of no change. A second load also sets
  the interval back to the whole one (`Whole`).
* Addresses nobody's page writes: one of unknown type is answered as whatever
  `Query::type` happens to hold, a value beyond the size of its dimension writes out
  of the bits of the restriction, and an address cut short within a clause reads
  tokens beyond the last. `QueryText` has all three (`"undefined"` for the latter two);
  the properties are about the addresses of the page and about what was printed.
* A line of the benchmark log with a field that is in no table throws what nobody
  catches, and ends `main` (`Nanocubes.h`).
* Corners of a region are read with `stof`: at zoom 28 a rectangle is moved by up to
  eight tiles (`Query.cpp:59`). `Understood` allows this rounding and nothing more.
* `spawn_handling_thread` does not look at the result of `mg_socketpair`
  (`meerkat.c:3353`), `Server::run` not at that of `mg_bind` (`Server.cpp:16`), and
  `mg_add_to_set` leaves out a socket whose number is `FD_SETSIZE` or more, which with
  five descriptors per connection comes sooner than it looks. `Meerkat` has
  sockets for everybody.
* An empty dataset: no dimension has a node, and `SpatialDimension::query` reads
  `*_nodes.begin()`.
* A single bucket in the dataset: `linearScale` divides by zero; `BinOf` has no
  value there.
* A dimension of more than 256 labels: two parts of a node share a label. The datasets
  of the runs have a handful, and `LabelsTellApart` is a hypothesis of `RowsHold` and
  `CountsHold`.
* The bucket of a time is computed with floats (`TemporalNode.cpp:46`) and modelled
  exactly.

## Proofs

The theorems about the cube hold for every value of the constants that satisfies
`CubeAssumption` (at least one key, at most 31 zooms, which is what the five bits of
`tile_t::z` can count, a hash of at least two bits, non-empty buckets, any number of
records) and `NoneAssumption` (`None` is not a value it is distinguished from).
Those about a query also use `QueriesAssumption`: the limit on rows is a number and so
are the bounds of an interval, as `Query::Query` parses them.

* `Inductive`, `TypeCorrect`, `IndexIsPermutation`, `PassesCover`
  (`CubeBuild_proofs`). `TypeOK` and `ResponseCovers` are not inductive: that the
  next child still lies in the dataset depends on what the `used` map has left.
  `IInv` therefore adds that the index is a permutation, and
  `Phases` (which variables are in use in which pass), `CallFits` (the node
  called on is not empty and its keys are not past the finest zoom, because the
  zooms of the keys add up to the level), `StackNests` (the entries left in the
  map of a frame count exactly the positions left in it, and the frame inside
  takes up where the frame outside is), and `NodeFits` (the same for the node of
  a one-level pass). The core of the argument is that the counts of a `used` map
  over a run add up to the size of the run (`CountsInitially`, `CountsSplit`), so the last child ends
  where its parent does.
* `StayInside` (`CubeBuild_proofs`): `Spec => RecordsStayInside`. A sort permutes
  one run, so it preserves the record set of every pivot that contains the run or
  is apart from it (`SortStaysInside`). The strengthening `PiecesFit` says that
  the run about to be sorted is in one of these two relations to every tile and
  part that exists: pieces are closed off once their pass has moved past them,
  and a pass only splits pieces of the pass before.
* `TilesHold` (`CubeBuild_proofs`): `Spec => []TilesHoldTheirRecords`. The loop over the
  children hands out positions by what its map counts, before and independently of
  where the sort by quadrant has put the records. `SpatialHolds` says that the two
  agree at every turn: the child tiles of the positions a loop has left ascend in the
  order of `std::map` (`Ascends`), its map counts exactly them, and the records of a
  call or a loop lie in the tile every key has come to (`InZooms`). That the order of
  the quadrants, which looks at the lowest bits only, is the order of the tiles needs
  that siblings have the same parent, which `InZooms` gives. `LevelsReach` bounds the
  zooms from below, so that the tiles `ChainTiles` hangs below a leaf repeat those of
  their keys.
* `PartsHold`: `Spec => [](HashesKeepOrder => PartsHoldTheirRecords)`. The node hands
  out positions in the order of the values, the sort places records in the order of
  the 16 bits `Data::setHash` keeps of them. `HashesKeepOrder` asks that the second is
  the first for the values the dataset has (all of them below 2^16 is enough); without
  it the theorem is false, as `rows_truncated` shows. `PartsCounted` is the invariant:
  a part starts where as many values of the node are smaller (`CountBelow`) and ends
  where as many are smaller or equal, and the map holds the values that are left.
* `Aligned`: `Spec => []NodesAligned`. `AlignInv` says of the pass under way what
  `NodesAligned` says of those that have ended: its nodes so far are the pivots of
  `current` before `pos`, and `response` holds their parts (in the first pass, the leaf
  tiles).
* `Refines` (`CubeRefines_proofs`): `Spec /\ HashesKeepOrder => RefinesPartition`. The
  pivots answered and those still to split (`Pieces`) lie apart from each other
  (`PiecesApart`), so a step that replaces one of them replaces one block
  (`SplitStep`, `RefineBlock`). `NextChild` cuts the records of one tile off what its
  loop has left; records in different tiles of a zoom stay in different tiles of every
  finer one (`FinerDiffers`), so the cut separates them by what `Attr` says. `SortNode`
  cuts a pivot into one set per value. `EndPass` is `Advance`: that every block is
  then done (`AnsweredDone`) is because a leaf is either small or so deep that all its
  keys have come to their finest zoom (`DeepestUniform`), and a part holds one value.
  All other steps change no block. The data never changes, so `HashesKeepOrder` is
  asked of the initial state only.
* `TreeHolds` (`CubeRefines_proofs`): `Spec => []QuadtreeCovers`. `QuadtreeCovers` speaks of
  the state after the recursion; `TreeInv` says what is true within it. Every call is one
  level deeper than its loop (`Levels`), tiles of one level lie apart (`LevelsApart`), and
  a tile deeper than an active call ends before the cursor of the recursion
  (`DeepBehind`), so a new tile meets none of its level. Every loop has its tile
  (`LoopsHaveTiles`), and a position of an inner tile is in one of its children or its
  turn is still to come, in the loop or in the call (`Covered`): with no loop left, the
  children cover their node. That two of them take different slots of `_container` needs
  more than that they are apart. `SiblingsFit` says that a child has all the records of
  its node that are in its tile, that the records a loop has passed are in other tiles
  than those it has left (`PassedApart`), and that all records of the node share the
  parent tile of the children (`SharesParent`, from the zooms every key has come to). So
  distinct children are distinct tiles below one parent, and the lowest bits tell those
  apart (`SlotsDiffer`).

* `CursorHolds` (`CubeQuery_proofs`): `QuerySpec => []CursorOnNode`, for any set of
  queries. `node_it` and `range_it` are two cursors that only move forward and are
  dereferenced before they are compared with an end, so all hangs on their going at the
  same pace: a pivot of the range must start where a node does. The invariant
  `QueryInv` has three parts. `WalkInv` says of the tree what the walks of a query
  need beyond `TreeInv`: siblings ascend in the order of the map (`ChildrenAscend`), so
  that the slots of `_container` list them by position (`SlotsAscend`: with the same
  parent, the lowest bits order like the tiles), no tile above cuts into a leaf
  (`LeavesWhole`), and below a leaf hang the nodes of all keys (`LeafChains`).
  `QueryPhase` says which dimension the query is at. `LoopFits` is the invariant
  of the loop: the pivots of the range are not empty, ascend, and start and end at edges
  of nodes of the dimension (`RangeFits`); the cursor is in the pivot under way, or not
  behind the next one (`InPivot`, `BeforePivot`); and what was found ascends, ends where
  the cursor has been, and lies on edges of the nodes of the *next* dimension
  (`FoundFits`, `EdgesOn`), which are the leaves or parts of this one by `Aligned`. That
  the spatial dimension starts this off is about the recursive walks `queryTile`,
  `aggregateTile` and `queryRegion`. They are one scheme, `Walks`: answer the node
  itself, stop, or go on to the children in order. `WalksList` shows by induction from the
  leaves upwards (`TreeInduct`, from the least counterexample, as levels are bounded)
  that such a walk lists tiles inside its node, each behind the one before.

* `RowsHold` (`CubeQuery_proofs`): `RowsMatchQuery` in every state of `QuerySpec`, when
  the dataset is not empty, its values keep their order in 16 bits (`HashesKeepOrder`)
  and its categorical values fit a byte (`LabelsTellApart`). The answer is read off the
  last range, so the invariant says what each range has: `Through(q, d)`, the positions
  the spatial dimension selects whose records pass what `q` asks of dimensions 1 to `d`
  (`Narrowed`). Times equal to an upper bound may be in or out, so it is two inclusions.
  Inside the loop of a dimension (`LoopFinds`) what was found passes, and what passes
  and lies before the cursor was found; a pivot the loop has left ends before the
  cursor. A node that is asked gives what passes of it (`SelectAdmits`), and a dimension
  that is skipped would have let everything through (`SkipAdmits`), because the parts of a
  node hold the records of their value (`PartsHold`) and those of a temporal node ascend
  within `_interval` (`ValuesAscend`, a second invariant of the build, as
  `TemporalNode::query` compares the first and last of them only). What is
  written then are the first `MaxRows` positions of a rising sequence (`PositionsRise`),
  and `Total`, a sum over the range, is their number (`SumIsCount`).
* `CountsHold` (`CubeQuery_proofs`): `AnswerIsCount` under the same assumptions, for
  queries of the shapes the page sends (`ClientShape`, which TLC checks of the queries
  of the runs). The serializers count the last range by merging it into the target, the
  pivots of the dimension the query is about, or add it up alone where `target_equal`
  says they are the same. So the invariant (`KeysInv`) says how the two lie: behind
  that dimension every pivot of the range lies inside one of the target (`Nested`),
  `target_equal` implies that they are the same, and the value of a pivot of the
  target is that of its records (`Tells`); in a scatter plot the pivots of the second
  field lie in those of the first. Then the merge loop, which goes on from where it was
  and tests the back of the coarser pivot alone, finds for each pivot of the range the
  one it lies in (`HolderIs`), and the sizes added up by key are the numbers of records
  with that key (`AggregateCounts`). The restriction to `ClientShape` is one of the
  code: a scatter plot takes no interval into account (`TemporalDimension::query` is
  not asked for one), and what restricts it behind its second field is not in its
  tuples.
* `RegionsHold` (`CubeQuery_proofs`): `RegionsAreComplete` in every state of `QuerySpec`,
  for queries whose regions lie on the grid, corners in order, with the zoom of the last
  one parsed (`RegionShape`, which TLC checks of the queries of the runs), trees no
  deeper than `tile_t::z` can count (`MaxZoom < 31`) and cubes in which no zoom wraps.
  That is so with one key, or two and more records than the leaf threshold (`FewKeys`: every schema of the repository), or whenever each leaf
  is at or below the level where the last key is first split (`LeavesDeep`); it is
  a condition of the code, not of the proof, see "Known edges". The walk does not cut a
  node that holds a record inside the regions (`NotCut`, edges included, whatever the
  zooms of node and region), and the record is then in a child (`DescendHas`) until a
  node of the key parsed last is reached (`RegionsCover`). That such a node comes,
  through other keys and early leaves, is `Reaches`: below a leaf lies a chain of one
  node per level down to every other key. The zooms need an invariant of the
  build of their own (`ZoomInv`): an ordinary tile has zoom `level \div Keys`, a node of
  a chain that of its key in the call that hung it (`ChainZoom`), and what the stack
  holds for its calls is what those will give their tiles (`Origins`). The range of the
  spatial dimension is still that list when the next dimension starts (`FirstRange`).
* `RegionsTight` (`CubeQuery_proofs`): `RegionsAreTight` in every state of `QuerySpec`, for
  the same queries and depths, any number of keys and a non-empty dataset; no leaf need
  be deep, as a wrapped zoom is never the one asked for. To every node answered leads a
  `Way` of nodes, one of each level, none of them cut (`WaysFound`, by induction on the
  tree). For each key of the request the way passes a node of it in the turn of the node
  answered (`WayTurns`). It is no coarser: an ordinary one has the zoom of the turn, and
  one that hangs below a leaf is either followed by the node answered in the same chain,
  which gives them one zoom, or the chain had a node of the last key a turn before,
  where the walk would have stopped (`WayZoom`). What touches the finer tile touches the
  coarser one around it (`CoarserTouches`).
* `TilesDrawAll` (`CubeQuery_proofs`): `EveryRecordIsDrawn` in every state of `QuerySpec`
  with a non-empty dataset and `MaxZoom < 31`, for any number of keys: here a wrapped
  zoom does no harm, as a leaf is taken by its corner. By descent in the tree: a node
  above the zoom asked for is drawn if its children are (`ChildDraws`); a node of the key
  at that zoom, or the last one of its key, is hit by the tile that has its corner
  (`LeafCorner`, `CornerOf`), and aggregated whole (`AggregateHas`).

* `LinksStayAlive` (`Meerkat_proofs`), for every set of clients and every bound that
  satisfies `MeerkatAssumption`. The invariant is `LinksAlive` with two facts it does
  not carry itself: connections are records (`ConnsOK`), and without threads nobody
  has a link (`NoLinks`). The argument: everything the handlers run keeps the link and
  the life of its connection (`SameLink`); only `Accept` makes links, two at a time,
  and only `Closed` destroys a connection, after `Unlinked` has cleared the other
  end of its link.
* `ExchangeRefined` (`Meerkat_proofs`): the library implements `Exchange`, with any
  number of browsers, requests, chunks and any room in the send buffer. The invariant
  is `ExchInv`. What is between a browser and the end that serves it is read as two
  sequences, whatever buffers, wires and ends it is in: `Requests`, not handled yet,
  and `Stream`, the answer with what the browser has of it. Reading, forwarding and
  writing move parts along them and change neither; only the browser and the serving
  end do, and `Phase` says how far they are with the last request. The hard part is
  the end of a connection. It may not be closed with a part of an answer behind it on
  the way, so once the serving end cannot be reached (`Reaches`) the browser must be
  entitled to learn it (`Doomed`): it has asked for a listing and all of that is on
  its way, with every end behind it emptied before it is closed (`EndsAll`), or
  such a request came before its last and there is nothing on the way at all
  (`EndedBefore`). This needs what a poll does in order: a connection that has sent the
  last of an answer after which it is closed is closed by that poll and not read again
  (`Leaves`), what is still to be handled is in the list and has something to send
  (`TodoThere`), an end with a link is never closed after a send (`LinkedStay`), and
  the lists have exactly what is alive (`Listed`). `ExchInv` speaks of one client at
  a time, so the steps of one leave the others alone (`SameForKeeps`).
* `TypeCorrect`, `LinesAreWhole`, `CachesAreFinal` and `RegistryStays`
  (`Server_proofs`), for any number of connections, cubes and benchmark queries that
  satisfies `ServerAssumption`. None of the properties is inductive. They hang on
  which threads there are in which part of `main` (`Phases`), on the registry holding
  what the build thread has made so far, hence everything once it was joined
  (`Registry`), on the server thread being in one handler at most where it runs them
  itself (`Handlers`), on the answers that wait being final (`Answers`), and on who is
  in a line (`Lines`). `RegistryStays` is an action property: only a step of the build
  thread or `Destroy` changes the registry, and in the first case there is no server
  yet, in the second the server was joined. The fairness of `Spec` is not used.

* `ColumnsStayAligned`, `DescriptorIsLast`, `TypeCorrect` and, where unsigned long
  has the size of int, `ReadsBackWhatWasWritten` (`Ingest_proofs`), for any loader,
  files, columns, threads and passes that satisfy `IngestAssumption`: files have a line
  at least (of an empty binary file a loader would use a record that is not
  initialized), and no key is written twice for a record, as in every loader.
  `ColumnsAligned` speaks of the columns between two records; `IInv` says what they are
  within one. One thread at most is in the section (`Section`), the columns it is past
  have one record more than `_size` unless their stream has failed (`Counts`, with
  `Due`), and this record is that of its line (`Rows`). A failed stream takes nothing
  more, so its column stays a prefix. A new descriptor exists only once the loader has
  ended, when nothing changes any more (`Saved`); a pass has the columns it has
  prepared and no others (`Fresh`); turns and lines of a file add up, so that the
  surplus turn of a binary file finds its last line again (`Reading`).
* `RecordsWrittenOnce` (`Ingest_proofs`): `Spec => []WrittenOnce`, which counts records
  over all interleavings of the threads. `Accounts` is a balance that every turn keeps:
  a record that was read is in a column or held by a thread that is not past it, and
  there are as many positions and holders as records that were read (`Running`). A turn
  adds one on both sides, `addInt` moves one from the holders to the positions. Only a
  turn that finds a line again adds to one side; `ReadPastEnd` shows that it is the last
  of its loop, and a surplus one: alone, the loader of trips has dropped the line it
  keeps (`Lines`). For the number of threads this needs that there are finitely many of
  them (`IngestAssumption`).

* `TypeCorrect`, `RowsMatch` and `NumberingHolds` (`SqlIngest_proofs`), for any number
  of lines and whatever SQLite refuses. `RowsMatchColumns` speaks of rows and columns
  that are written a dozen statements apart. Its strengthening says where within a line
  they are. The columns before the text and those after it are equal in pairs but for
  the line being written (`Twins`); no column has a line twice or a later one
  (`Ordered`); the first pair is longer than the second by the torn lines (`Surplus`),
  and before the first of these its records are at the same positions (`NoGaps`). A
  halted statement lets nothing happen but its reset or the end of the line (`Halts`),
  so the record without a row is the last (`Counted`), and the row of an id is the
  record after as many (`RowsOfRecords`).
* `PanelsFollowSelection` and `TilesFollowSelection` (`Client_proofs`), for any
  rectangles, boxes, intervals, resolutions and zooms that satisfy `ClientAssumption`,
  and any number of requests under way. What was asked for last is what the controls
  say (`AskedIsSelected`), though a change that does not concern a view asks for
  nothing: then its query is the same (`SameQuery`). In a panel every request is live,
  and the one waited for is the last (`PanelsFollow`), whatever overtakes it. On the
  map a request that can still be drawn is of the last query (`TilesFollow`): new tiles
  make every earlier one dead. This is false after a second load, so the theorem has
  `loads = 1` in its property as the run does.

Each invariant was also run through TLC on the instances.

Model-checked only: liveness (`Terminates`, `Answered`, `PageStarts`, `RequestsEnd`,
`StopEnds`, `AnswersEnd`, `ThreadsEnd`), and everything of `QueryText` and `Dates`, which
compute with recursive functions and folds, about which the provers can say nothing
without induction. Every other safety property of the runs is a theorem.

## Not modelled

* Of the vendored code (`src/include`) only what the program runs of meerkat, with its
  build options and document root. TLS, UDP, websockets, MQTT, CGI, WebDAV,
  server-side includes, multipart, DNS and the client side of meerkat are dead code
  here. `sqlite3.h` is declarations, `SQLiteCpp` a thin wrapper around a library that
  is not in the repository, `rapidjson` prints answers whose wording no property is
  about. These files are two thirds of the repository, so most of its lines have no
  definition here and are not meant to get one.
* In `WebContent`: what the charts and Leaflet draw, colours and layout, the schemas
  of the views, the projection of a rectangle to tiles in `global.js` (doubles).
* Schemas and styles: configuration; it gives the constants their meaning.
* The reading of XML schemas and of the command line, which have no state.
* Of ingest: `SplomLoader`, which generates random records, the airports of
  `FlightsLoader`, and the bins a loader puts a value in; the opening of the database
  of `twitter_sql`.

## Plan

Done: every module above with its runs; the proofs above. What would add most next,
in this order:

1. The binning of times (`linearScale` with its floats) against a reference.
2. The liveness of `Meerkat` with several browsers, once it can be explored with two.
