------------------------------- MODULE Server -------------------------------
(***************************************************************************)
(* The process around the cubes: main starts the thread that builds them,  *)
(* runs the benchmark, starts the server thread and waits for a key; the   *)
(* server thread polls its connections until it is stopped. Without        *)
(* telemetry every connection is served by a thread of its own, which      *)
(* nobody joins; with telemetry the server thread runs the handlers, for   *)
(* they write to one file. Browsers keep what they may cache, and a page   *)
(* asks for the schema of its cube until it gets it.                       *)
(*                                                                         *)
(* A definition named X_Y is the definition X with the slip Y in it.       *)
(***************************************************************************)
EXTENDS Integers, Sequences, FiniteSets, Functions

CONSTANTS
    Cubes,      \* names a request may give
    Schemas,    \* the cubes of the command line, in order
    PageCube,   \* the cube the page shows
    Conns,      \* connections; "page" is the one of the page
    Requests,   \* what else is asked for: by others, by a page that is ready
    Benchmarks, \* queries of a benchmark (bound)
    None        \* "nothing here"

\* A request: of what kind, and for which cube. "file" is served from the
\* document root; "short" has fewer than four tokens; "bad" is a query whose
\* numbers do not parse; "other" names no operation of the server.
Url == [kind : {"file", "short", "schema", "query", "bad", "other"},
        cube : Cubes]

Contents == {"file", "[]", "[null]", "info", "result"}

ASSUME ServerAssumption ==
    /\ Schemas \in Seq(Cubes)
    /\ PageCube \in Range(Schemas)
    /\ Benchmarks \in Nat
    /\ Requests \subseteq Url
    /\ {"main", "build"} \cap Conns = {} /\ "page" \in Conns
    /\ None \notin Nat

VARIABLES
    options,   \* of the command line: [telemetry, log, server]
    main,      \* where main is
    queries,   \* queries of the benchmark still to run
    builder,   \* cubes the build thread has made; None before it starts
    ready,     \* HashedCubeInstances::_ready
    container, \* names in HashedCubeInstances::_container
    server,    \* where the server thread is
    running,   \* Server::running
    conn,      \* connection -> [pc, url, content]
    line,      \* who is in the middle of a line of the telemetry file
    logOpen,   \* the telemetry file is open
    cache,     \* what browsers keep: request -> content
    page       \* "loading" or "ready"

vars == <<options, main, queries, builder, ready, container, server, running,
          conn, line, logOpen, cache, page>>

mainVars == <<main, queries>>
cubeVars == <<builder, ready, container>>
serverVars == <<server, running>>
fileVars == <<line, logOpen>>
clientVars == <<cache, page>>

\* Server::run(telemetry, port): its first parameter disables the threads.
Multithreaded_Inverted == options.telemetry

Multithreaded == ~options.telemetry

\* Places inside the handler.
Handled == {"begun", "query", "line"}

Handling == {c \in Conns : conn[c].pc \in Handled}

Idle == [pc |-> "idle", url |-> None, content |-> None]

Connection == [pc      : {"idle", "sent", "forwarded", "begun", "query", "line",
                          "printed", "silent"},
               url     : Url \cup {None},
               content : Contents \cup {None}]

Init ==
    /\ options \in [telemetry : BOOLEAN, log : BOOLEAN, server : BOOLEAN]
    /\ main = "start" /\ queries = 0
    /\ builder = None /\ ready = FALSE /\ container = {}
    /\ server = "off" /\ running = TRUE
    /\ conn = [c \in Conns |-> Idle]
    /\ line = {} /\ logOpen = options.telemetry
    /\ cache = [u \in Url |-> None]
    /\ page = "loading"

-----------------------------------------------------------------------------
(* main.                                                                   *)

StartBuild ==
    /\ main = "start"
    /\ main' = "build"
    /\ builder' = 0
    /\ UNCHANGED <<options, queries, ready, container, serverVars, conn,
                   fileVars, clientVars>>

\* What main does after t1.join().
AfterBuild ==
    IF options.log THEN "benchmark" ELSE IF options.server THEN "serve" ELSE "exit"

\* t1.join() returns.
BuildJoined_Detached == TRUE

BuildJoined == builder = Len(Schemas) + 1

JoinBuild ==
    /\ main = "build"
    /\ BuildJoined
    /\ main' = AfterBuild
    /\ queries' = IF options.log THEN Benchmarks ELSE 0
    /\ UNCHANGED <<options, cubeVars, serverVars, conn, fileVars, clientVars>>

\* A query of the benchmark, which main runs itself: its line is begun here
\* and ended by EndLine.
RunBenchmark ==
    /\ main = "benchmark" /\ "main" \notin line
    /\ queries > 0
    /\ queries' = queries - 1
    /\ line' = IF options.telemetry THEN line \cup {"main"} ELSE line
    /\ UNCHANGED <<options, main, cubeVars, serverVars, conn, logOpen,
                   clientVars>>

EndBenchmark ==
    /\ main = "benchmark" /\ "main" \notin line
    /\ queries = 0
    /\ main' = IF options.server THEN "serve" ELSE "exit"
    /\ UNCHANGED <<options, queries, cubeVars, serverVars, conn, fileVars,
                   clientVars>>

StartServer ==
    /\ main = "serve"
    /\ main' = "getchar"
    /\ server' = "check"
    /\ UNCHANGED <<options, queries, cubeVars, running, conn, fileVars,
                   clientVars>>

\* A key is pressed: Server::stop.
Stop_Forgotten ==
    /\ main = "getchar"
    /\ main' = "join"
    /\ UNCHANGED <<options, queries, cubeVars, serverVars, conn, fileVars,
                   clientVars>>

Stop ==
    /\ main = "getchar"
    /\ main' = "join"
    /\ running' = FALSE
    /\ UNCHANGED <<options, queries, cubeVars, server, conn, fileVars,
                   clientVars>>

JoinServer_Detached ==
    /\ main = "join"
    /\ main' = "exit"
    /\ UNCHANGED <<options, queries, cubeVars, serverVars, conn, fileVars,
                   clientVars>>

JoinServer ==
    /\ main = "join"
    /\ server = "done"
    /\ main' = "exit"
    /\ UNCHANGED <<options, queries, cubeVars, serverVars, conn, fileVars,
                   clientVars>>

\* main returns: ~HashedCubeInstances, while threads of connections may run.
Destroy ==
    /\ main = "exit"
    /\ main' = "destroyed"
    /\ ready' = FALSE /\ container' = {} /\ logOpen' = FALSE
    /\ UNCHANGED <<options, queries, builder, serverVars, conn, line,
                   clientVars>>

\* The process ends and every thread with it.
End ==
    /\ main = "destroyed"
    /\ main' = "gone"
    /\ conn' = [c \in Conns |-> Idle]
    /\ UNCHANGED <<options, queries, cubeVars, serverVars, fileVars,
                   clientVars>>

-----------------------------------------------------------------------------
(* The build thread: HashedCubeInstances::run.                             *)

BuildCube ==
    /\ builder \in 0 .. Len(Schemas) - 1
    /\ builder' = builder + 1
    /\ container' = container \cup {Schemas[builder + 1]}
    /\ UNCHANGED <<options, mainVars, ready, serverVars, conn, fileVars,
                   clientVars>>

\* With telemetry its first lines say what the build has taken.
BeginReport ==
    /\ builder = Len(Schemas)
    /\ options.telemetry /\ "build" \notin line
    /\ line' = line \cup {"build"}
    /\ UNCHANGED <<options, mainVars, cubeVars, serverVars, conn, logOpen,
                   clientVars>>

\* The report ends and the cubes are ready.
SetReady_Forgotten ==
    /\ builder = Len(Schemas)
    /\ options.telemetry => "build" \in line
    /\ builder' = builder + 1
    /\ line' = line \ {"build"}
    /\ UNCHANGED <<options, mainVars, ready, container, serverVars, conn,
                   logOpen, clientVars>>

SetReady ==
    /\ builder = Len(Schemas)
    /\ options.telemetry => "build" \in line
    /\ builder' = builder + 1
    /\ ready' = TRUE
    /\ line' = line \ {"build"}
    /\ UNCHANGED <<options, mainVars, container, serverVars, conn, logOpen,
                   clientVars>>

-----------------------------------------------------------------------------
(* The server thread: Server::run.                                         *)

\* The test of the loop.
CheckRunning ==
    /\ server = "check"
    /\ server' = IF running THEN "poll" ELSE "last"
    /\ UNCHANGED <<options, mainVars, cubeVars, running, conn, fileVars,
                   clientVars>>

\* After a poll, of the loop or the last one, which mg_mgr_free does.
AfterPoll == IF server = "poll" THEN "check" ELSE "free"

\* The manager is polled and nothing has come.
PollNothing ==
    /\ server \in {"poll", "last"}
    /\ server' = AfterPoll
    /\ UNCHANGED <<options, mainVars, cubeVars, running, conn, fileVars,
                   clientVars>>

\* Each connection has a thread: the request is forwarded to it.
Forward(c) ==
    /\ Multithreaded
    /\ server \in {"poll", "last"}
    /\ conn[c].pc = "sent"
    /\ conn' = [conn EXCEPT ![c].pc = "forwarded"]
    /\ server' = AfterPoll
    /\ UNCHANGED <<options, mainVars, cubeVars, running, fileVars, clientVars>>

\* The header printJson writes lets browsers keep every other answer.
Cacheable_Always(content) == content # "file"

Cacheable(content) == content \notin {"file", "[null]"}

\* jQuery.isEmptyObject in onReady of the page.
EmptyObject(content) == content = "[]"

\* The page shows the cube of url and takes content for its schema.
PageTakes(url, content) ==
    IF url = [kind |-> "schema", cube |-> PageCube] /\ ~EmptyObject(content)
    THEN "ready" ELSE page

\* An answer leaves the server and reaches its browser.
Deliver(c) ==
    /\ server \in {"poll", "last"}
    /\ conn[c].pc = "printed"
    /\ conn' = [conn EXCEPT ![c] = Idle]
    /\ cache' = IF Cacheable(conn[c].content)
                THEN [cache EXCEPT ![conn[c].url] = conn[c].content] ELSE cache
    /\ page' = PageTakes(conn[c].url, conn[c].content)
    /\ server' = AfterPoll
    /\ UNCHANGED <<options, mainVars, cubeVars, running, fileVars>>

\* mg_mgr_free: the connections are closed. The thread of a connection that
\* is running its handler goes on with it.
FreeManager ==
    /\ server = "free"
    /\ server' = "done"
    /\ conn' = [c \in Conns |-> IF conn[c].pc \in Handled \cup {"forwarded"}
                                THEN conn[c] ELSE Idle]
    /\ UNCHANGED <<options, mainVars, cubeVars, running, fileVars, clientVars>>

-----------------------------------------------------------------------------
(* Server::handler, on the thread of the connection or of the server.      *)

\* The thread that runs the handler of c may take a step of it.
HasThread(c) ==
    /\ main # "gone"
    /\ Multithreaded \/ server \in {"handle", "last_handle"}

\* The server thread comes back from the handler to its poll.
Return ==
    \/ Multithreaded /\ UNCHANGED server
    \/ ~Multithreaded /\ server = "handle" /\ server' = "check"
    \/ ~Multithreaded /\ server = "last_handle" /\ server' = "free"

\* printJson, and the end of the handler.
Reply(c, content) ==
    /\ conn' = [conn EXCEPT ![c].pc = "printed", ![c].content = content]
    /\ Return

\* The handler begins: on the thread of the connection with a request that
\* was forwarded to it, on the server thread with one that comes in a poll.
Begin(c) ==
    \/ /\ Multithreaded /\ main # "gone"
       /\ conn[c].pc = "forwarded"
       /\ conn' = [conn EXCEPT ![c].pc = "begun"]
       /\ UNCHANGED server
    \/ /\ ~Multithreaded
       /\ server \in {"poll", "last"}
       /\ conn[c].pc = "sent"
       /\ conn' = [conn EXCEPT ![c].pc = "begun"]
       /\ server' = IF server = "poll" THEN "handle" ELSE "last_handle"
    /\ UNCHANGED <<options, mainVars, cubeVars, running, fileVars, clientVars>>

\* What a ready server does not answer: under /rest, fewer than four tokens.
\* A request that throws is caught and answered.
Unanswered_NoCatch == {"short", "bad"}

Unanswered == {"short"}

\* What the handler does with a request before it runs a query.
Dispatch(c) ==
    LET url == conn[c].url
    IN  /\ conn[c].pc = "begun" /\ HasThread(c)
        /\ \/ /\ url.kind = "file"
              /\ Reply(c, "file")
           \/ /\ url.kind # "file" /\ ~ready
              /\ Reply(c, "[]")
           \/ /\ url.kind \in Unanswered /\ ready
              /\ conn' = [conn EXCEPT ![c].pc = "silent"]
              /\ Return
           \/ /\ url.kind = "schema" /\ ready
              /\ Reply(c, IF url.cube \in container THEN "info" ELSE "[null]")
           \/ /\ \/ url.kind \in {"other", "bad"} \ Unanswered
                 \/ url.kind = "query" /\ url.cube \notin container
              /\ ready
              /\ Reply(c, "[]")
           \/ /\ url.kind = "query" /\ ready /\ url.cube \in container
              /\ conn' = [conn EXCEPT ![c].pc = "query"]
              /\ UNCHANGED server
        /\ UNCHANGED <<options, mainVars, cubeVars, running, fileVars,
                       clientVars>>

\* HashedCubeInstances::query on the cube the query holds; with telemetry a
\* line of the file is begun.
RunQuery(c) ==
    /\ conn[c].pc = "query" /\ HasThread(c)
    /\ IF options.telemetry
       THEN /\ line' = line \cup {c}
            /\ conn' = [conn EXCEPT ![c].pc = "line"]
            /\ UNCHANGED server
       ELSE Reply(c, "result") /\ UNCHANGED line
    /\ UNCHANGED <<options, mainVars, cubeVars, running, logOpen, clientVars>>

\* The rest of the line is written.
EndLine(c) ==
    /\ conn[c].pc = "line" /\ HasThread(c)
    /\ line' = line \ {c}
    /\ Reply(c, "result")
    /\ UNCHANGED <<options, mainVars, cubeVars, running, logOpen, clientVars>>

EndLineOfMain ==
    /\ "main" \in line
    /\ line' = line \ {"main"}
    /\ UNCHANGED <<options, mainVars, cubeVars, serverVars, conn, logOpen,
                   clientVars>>

-----------------------------------------------------------------------------
(* Browsers.                                                               *)

PageUrl == [kind |-> "schema", cube |-> PageCube]

\* A request goes out unless the browser has its answer.
Send(c, url) ==
    /\ server \notin {"off", "done"}
    /\ conn[c].pc = "idle"
    /\ cache[url] = None
    /\ conn' = [conn EXCEPT ![c] = [pc |-> "sent", url |-> url, content |-> None]]
    /\ UNCHANGED <<options, mainVars, cubeVars, serverVars, fileVars,
                   clientVars>>

\* The page asks twice a second until it is ready; an answer its browser has
\* kept is the one it gets again.
PagePoll ==
    /\ page = "loading"
    /\ Send("page", PageUrl)

-----------------------------------------------------------------------------
MainStep ==
    \/ StartBuild \/ JoinBuild \/ RunBenchmark \/ EndBenchmark \/ EndLineOfMain
    \/ StartServer \/ JoinServer \/ Destroy \/ End

BuildStep == BuildCube \/ BeginReport \/ SetReady

LoopStep == CheckRunning \/ PollNothing \/ FreeManager

HandlerStep(c) == Dispatch(c) \/ RunQuery(c) \/ EndLine(c)

Next ==
    \/ MainStep
    \/ Stop
    \/ BuildStep
    \/ LoopStep
    \/ \E c \in Conns : Forward(c) \/ Begin(c) \/ HandlerStep(c) \/ Deliver(c)
    \/ \E c \in Conns, url \in Requests :
          (c = "page" => page = "ready") /\ Send(c, url)
    \/ PagePoll

\* Every thread goes on, and a poll reports every connection that has
\* something to report; nobody has to press a key or send a request, but the
\* timer of the page fires.
Fairness ==
    /\ WF_vars(MainStep) /\ WF_vars(BuildStep) /\ WF_vars(LoopStep)
    /\ \A c \in Conns : /\ SF_vars(Forward(c)) /\ SF_vars(Begin(c))
                        /\ WF_vars(HandlerStep(c)) /\ SF_vars(Deliver(c))
    /\ WF_vars(PagePoll)

Spec == Init /\ [][Next]_vars /\ Fairness

-----------------------------------------------------------------------------
(* What the process must keep.                                             *)

\* The state of the process; a cache never holds [null], the answer to a
\* schema that may still come.
TypeOK ==
    /\ options \in [telemetry : BOOLEAN, log : BOOLEAN, server : BOOLEAN]
    /\ main \in {"start", "build", "benchmark", "serve", "getchar", "join",
                 "exit", "destroyed", "gone"}
    /\ queries \in 0 .. Benchmarks
    /\ builder \in 0 .. Len(Schemas) + 1 \cup {None}
    /\ ready \in BOOLEAN
    /\ container \subseteq Cubes
    /\ server \in {"off", "check", "poll", "last", "handle", "last_handle",
                   "free", "done"}
    /\ running \in BOOLEAN
    /\ conn \in [Conns -> Connection]
    /\ line \subseteq Conns \cup {"main", "build"}
    /\ logOpen \in BOOLEAN
    /\ cache \in [Url -> (Contents \ {"[null]", "file"}) \cup {None}]
    /\ page \in {"loading", "ready"}

\* The registry of cubes has no lock: nobody reads it while the build thread
\* fills it, and where the server thread runs the handlers nobody reads it
\* when main destroys it. (A thread of a connection may: see the README.)
RegistryUndisturbed ==
    [][container' # container =>
         /\ main # "benchmark"
         /\ (main = "exit" /\ Multithreaded) \/ Handling = {}]_vars

\* A line of the telemetry file is written in pieces by the build or by
\* whoever ran the query: two lines never mix, and none is written to a closed
\* file.
LogLinesWhole ==
    /\ Cardinality(line) <= 1
    /\ line # {} => logOpen

\* What the built server answers to a request.
FinalContent(url) ==
    CASE url.kind = "schema" -> IF url.cube \in Range(Schemas) THEN "info"
                                ELSE "[null]"
      [] url.kind = "query"  -> IF url.cube \in Range(Schemas) THEN "result"
                                ELSE "[]"
      [] OTHER               -> "[]"

\* An answer may be kept for a day: whatever a browser keeps is what the
\* server would answer again, never the [] of a server that is not ready.
CacheIsFinal ==
    \A url \in Url : cache[url] \in {None, FinalContent(url)}

\* A page that is loading gets ready unless the server is stopped.
PageStarts ==
    (server = "check" /\ page = "loading") ~> (page = "ready" \/ ~running)

\* A request is answered, or its connection is closed, also one that throws;
\* only a request with too few tokens waits for the server to stop.
RequestsEnd ==
    \A c \in Conns :
        (conn[c].pc = "sent" /\ conn[c].url.kind # "short")
          ~> conn[c].pc = "idle"

\* After a key the process ends, whatever is being served.
StopEnds == main = "join" ~> main = "gone"
=============================================================================
