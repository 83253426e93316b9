---------------------------- MODULE Server_proofs ----------------------------
(***************************************************************************)
(* The safety properties of Server for any number of connections, cubes    *)
(* and benchmark queries. None of them is inductive: they all hang on the  *)
(* order in which main starts and joins its threads (Phases, Registry),    *)
(* and, with telemetry, on the server thread being in one handler at most  *)
(* (Handlers).                                                             *)
(***************************************************************************)
EXTENDS Server, FiniteSetTheorems, TLAPS

\* Which threads there are in which part of main.
Phases ==
    /\ main \in {"start", "build", "benchmark", "serve"} => server = "off"
    /\ main \in {"getchar", "join"} => server # "off"
    /\ main \in {"exit", "destroyed", "gone"} => server \in {"off", "done"}

\* The cubes made so far.
Made == {Schemas[i] : i \in {j \in 1 .. Len(Schemas) : j <= builder}}

\* The registry holds what the build thread has made, and all of it when that
\* thread was joined, until main destroys it; then it is empty.
Registry ==
    /\ main = "start" => builder = None
    /\ main \notin {"start", "build"} => builder = Len(Schemas) + 1
    /\ (builder = None \/ main \in {"destroyed", "gone"}) => container = {}
    /\ (builder # None /\ main \notin {"destroyed", "gone"}) => container = Made
    /\ (builder = Len(Schemas) + 1 /\ main \notin {"destroyed", "gone"}) => ready

\* A connection has a request once it is not idle, and none before there is a
\* server; with telemetry only the server thread runs handlers.
Handlers ==
    /\ \A c \in Conns :
          /\ conn[c].pc # "idle" => conn[c].url \in Url
          /\ server = "off" => conn[c].pc = "idle"
          /\ (~Multithreaded /\ conn[c].pc \in Handled)
                => server \in {"handle", "last_handle"}
          /\ ~Multithreaded => conn[c].pc # "forwarded"
    /\ \A c, d \in Conns :
          (~Multithreaded /\ conn[c].pc \in Handled /\ conn[d].pc \in Handled) => c = d

\* A query that runs is one for a cube there is; an answer that a poll may
\* still deliver is the final one.
Answers ==
    \A c \in Conns :
        /\ conn[c].pc \in {"query", "line"}
             => FinalContent(conn[c].url) = "result" /\ conn[c].url.kind = "query"
        /\ (conn[c].pc = "printed" /\ server \notin {"off", "done"})
             => conn[c].content = IF conn[c].url.kind = "file" THEN "file"
                                  ELSE FinalContent(conn[c].url)

\* Who is in the middle of a line.
Lines ==
    /\ \A c \in Conns : c \in line <=> conn[c].pc = "line"
    /\ "main" \in line => main = "benchmark"
    /\ "build" \in line => main = "build" /\ builder = Len(Schemas)
    /\ line # {} => options.telemetry
    /\ (options.telemetry /\ main \notin {"destroyed", "gone"}) => logOpen

IInv == TypeOK /\ Phases /\ Registry /\ Handlers /\ Answers /\ Lines /\ CacheIsFinal

USE DEF Multithreaded, Handled

LEMMA PageUrlIsUrl == PageUrl \in Url
<1>1. Range(Schemas) \subseteq Cubes
  BY ServerAssumption DEF Range
<1>2. QED
  BY <1>1, ServerAssumption DEF PageUrl, Url

LEMMA MadeAll ==
    ASSUME builder = Len(Schemas) + 1 PROVE Made = Range(Schemas)
<1>1. Len(Schemas) \in Nat /\ DOMAIN Schemas = 1 .. Len(Schemas)
  BY ServerAssumption
<1>2. \A j \in 1 .. Len(Schemas) : j <= builder
  BY <1>1
<1>3. QED
  BY <1>1, <1>2 DEF Made, Range

LEMMA IdleConnection == Idle \in Connection
BY DEF Idle, Connection

LEMMA Numbers ==
    /\ Len(Schemas) \in Nat /\ Benchmarks \in Nat
    /\ \A n \in Nat : n # None
    /\ "main" \notin Conns /\ "build" \notin Conns
BY ServerAssumption

LEMMA Initially == Init => IInv
<1> SUFFICES ASSUME Init PROVE IInv
  OBVIOUS
<1>1. conn \in [Conns -> Connection]
  BY IdleConnection DEF Init
<1>2. /\ builder \in 0 .. Len(Schemas) + 1 \cup {None}
      /\ queries \in 0 .. Benchmarks
  BY ServerAssumption DEF Init
<1>3. options \in [telemetry : BOOLEAN, log : BOOLEAN, server : BOOLEAN]
  BY DEF Init
<1>4. options.telemetry \in BOOLEAN
  BY <1>3
<1>5. TypeOK
  BY <1>1, <1>2, <1>3, <1>4 DEF Init, TypeOK
<1>6. Phases /\ Registry
  BY ServerAssumption DEF Init, Phases, Registry
<1>7. Handlers /\ Answers
  BY DEF Init, Handlers, Answers, Idle
<1>8. Lines /\ CacheIsFinal
  BY DEF Init, Lines, CacheIsFinal, Idle
<1>9. QED
  BY <1>5, <1>6, <1>7, <1>8 DEF IInv

\* While the server runs, the cubes are built and main has them still.
LEMMA Serving ==
    ASSUME IInv, server \notin {"off", "done"}
    PROVE  main \in {"getchar", "join"} /\ ready /\ container = Range(Schemas)
<1>1. main \in {"getchar", "join"}
  BY DEF IInv, TypeOK, Phases
<1>2. builder = Len(Schemas) + 1 /\ builder # None
  BY <1>1, ServerAssumption DEF IInv, Registry
<1>3. QED
  BY <1>1, <1>2, MadeAll DEF IInv, Registry

LEMMA OnlySchemas == IInv => container \subseteq Range(Schemas)
<1> SUFFICES ASSUME IInv PROVE container \subseteq Range(Schemas)
  OBVIOUS
<1>1. DOMAIN Schemas = 1 .. Len(Schemas)
  BY ServerAssumption
<1>2. Made \subseteq Range(Schemas)
  BY <1>1 DEF Made, Range
<1>3. QED
  BY <1>2 DEF IInv, Registry

LEMMA Replied ==
    ASSUME NEW c \in Conns, NEW content \in Contents, Reply(c, content),
           conn \in [Conns -> Connection]
    PROVE  /\ conn' \in [Conns -> Connection]
           /\ conn'[c].pc = "printed" /\ conn'[c].url = conn[c].url
           /\ conn'[c].content = content
           /\ \A d \in Conns : d # c => conn'[d] = conn[d]
BY DEF Reply, Connection

LEMMA FinalByKind ==
    ASSUME NEW url
    PROVE  /\ url.kind = "schema"
                => FinalContent(url) = IF url.cube \in Range(Schemas) THEN "info"
                                       ELSE "[null]"
           /\ url.kind = "query"
                => FinalContent(url) = IF url.cube \in Range(Schemas)
                                       THEN "result" ELSE "[]"
           /\ url.kind \notin {"schema", "query"} => FinalContent(url) = "[]"
BY DEF FinalContent


\* main.
LEMMA MainSteps == IInv /\ MainStep => IInv'
<1> SUFFICES ASSUME IInv, MainStep PROVE IInv'
  OBVIOUS
<1> USE Numbers, IdleConnection DEF mainVars, cubeVars, serverVars, fileVars, clientVars
<1>1. CASE StartBuild
  <2>1. TypeOK'
    BY <1>1 DEF StartBuild, IInv, TypeOK
  <2>2. Phases' /\ builder' # Len(Schemas) + 1 /\ builder' # None /\ main' = "build"
    BY <1>1 DEF StartBuild, IInv, Phases
  <2>3. Made' = {} /\ container' = {}
    BY <1>1 DEF StartBuild, IInv, Registry, Made
  <2>4. Registry'
    BY <2>2, <2>3 DEF Registry
  <2>5. Handlers' /\ Answers' /\ CacheIsFinal'
    BY <1>1 DEF StartBuild, IInv, TypeOK, Phases, Handlers, Answers, CacheIsFinal,
                   Idle, FinalContent
  <2>6. Lines'
    BY <1>1 DEF StartBuild, IInv, TypeOK, Phases, Handlers, Lines, Idle
  <2>7. QED
    BY <2>1, <2>2, <2>4, <2>5, <2>6 DEF IInv
<1>2. CASE JoinBuild
  <2>1. TypeOK'
    BY <1>2 DEF JoinBuild, IInv, TypeOK, AfterBuild, BuildJoined
  <2>2. Phases' /\ Registry'
    BY <1>2 DEF JoinBuild, IInv, TypeOK, Phases, Registry, Made, AfterBuild, BuildJoined
  <2>3. Handlers' /\ Answers' /\ CacheIsFinal'
    BY <1>2 DEF JoinBuild, IInv, TypeOK, Phases, Handlers, Answers, CacheIsFinal,
                   Idle, FinalContent, AfterBuild, BuildJoined
  <2>4. Lines'
    BY <1>2 DEF JoinBuild, IInv, TypeOK, Phases, Handlers, Lines, Idle, AfterBuild, BuildJoined
  <2>5. QED
    BY <2>1, <2>2, <2>3, <2>4 DEF IInv
<1>3. CASE RunBenchmark
  <2>1. TypeOK'
    BY <1>3 DEF RunBenchmark, IInv, TypeOK
  <2>2. Phases' /\ Registry'
    BY <1>3 DEF RunBenchmark, IInv, TypeOK, Phases, Registry, Made
  <2>3. Handlers' /\ Answers' /\ CacheIsFinal'
    BY <1>3 DEF RunBenchmark, IInv, TypeOK, Phases, Handlers, Answers, CacheIsFinal,
                   Idle, FinalContent
  <2>4. Lines'
    BY <1>3 DEF RunBenchmark, IInv, TypeOK, Phases, Handlers, Lines, Idle
  <2>5. QED
    BY <2>1, <2>2, <2>3, <2>4 DEF IInv
<1>4. CASE EndBenchmark
  <2>1. TypeOK'
    BY <1>4 DEF EndBenchmark, IInv, TypeOK
  <2>2. Phases' /\ Registry'
    BY <1>4 DEF EndBenchmark, IInv, TypeOK, Phases, Registry, Made
  <2>3. Handlers' /\ Answers' /\ CacheIsFinal'
    BY <1>4 DEF EndBenchmark, IInv, TypeOK, Phases, Handlers, Answers, CacheIsFinal,
                   Idle, FinalContent
  <2>4. Lines'
    BY <1>4 DEF EndBenchmark, IInv, TypeOK, Phases, Handlers, Lines, Idle
  <2>5. QED
    BY <2>1, <2>2, <2>3, <2>4 DEF IInv
<1>5. CASE EndLineOfMain
  <2>1. TypeOK'
    BY <1>5 DEF EndLineOfMain, IInv, TypeOK
  <2>2. Phases' /\ Registry'
    BY <1>5 DEF EndLineOfMain, IInv, TypeOK, Phases, Registry, Made
  <2>3. Handlers' /\ Answers' /\ CacheIsFinal'
    BY <1>5 DEF EndLineOfMain, IInv, TypeOK, Phases, Handlers, Answers, CacheIsFinal,
                   Idle, FinalContent
  <2>4. Lines'
    BY <1>5 DEF EndLineOfMain, IInv, TypeOK, Phases, Handlers, Lines, Idle
  <2>5. QED
    BY <2>1, <2>2, <2>3, <2>4 DEF IInv
<1>6. CASE StartServer
  <2>1. TypeOK'
    BY <1>6 DEF StartServer, IInv, TypeOK
  <2>2. Phases' /\ Registry'
    BY <1>6 DEF StartServer, IInv, TypeOK, Phases, Registry, Made
  <2>3. Handlers' /\ Answers' /\ CacheIsFinal'
    BY <1>6 DEF StartServer, IInv, TypeOK, Phases, Handlers, Answers, CacheIsFinal,
                   Idle, FinalContent
  <2>4. Lines'
    BY <1>6 DEF StartServer, IInv, TypeOK, Phases, Handlers, Lines, Idle
  <2>5. QED
    BY <2>1, <2>2, <2>3, <2>4 DEF IInv
<1>7. CASE JoinServer
  <2>1. TypeOK'
    BY <1>7 DEF JoinServer, IInv, TypeOK
  <2>2. Phases' /\ Registry'
    BY <1>7 DEF JoinServer, IInv, TypeOK, Phases, Registry, Made
  <2>3. Handlers' /\ Answers' /\ CacheIsFinal'
    BY <1>7 DEF JoinServer, IInv, TypeOK, Phases, Handlers, Answers, CacheIsFinal,
                   Idle, FinalContent
  <2>4. Lines'
    BY <1>7 DEF JoinServer, IInv, TypeOK, Phases, Handlers, Lines, Idle
  <2>5. QED
    BY <2>1, <2>2, <2>3, <2>4 DEF IInv
<1>8. CASE Destroy
  <2>1. TypeOK'
    BY <1>8 DEF Destroy, IInv, TypeOK
  <2>2. Phases' /\ Registry'
    BY <1>8 DEF Destroy, IInv, TypeOK, Phases, Registry, Made
  <2>3. Handlers' /\ Answers' /\ CacheIsFinal'
    BY <1>8 DEF Destroy, IInv, TypeOK, Phases, Handlers, Answers, CacheIsFinal,
                   Idle, FinalContent
  <2>4. Lines'
    BY <1>8 DEF Destroy, IInv, TypeOK, Phases, Handlers, Lines, Idle
  <2>5. QED
    BY <2>1, <2>2, <2>3, <2>4 DEF IInv
<1>9. CASE End
  <2>1. TypeOK'
    BY <1>9 DEF End, IInv, TypeOK
  <2>2. Phases' /\ Registry'
    BY <1>9 DEF End, IInv, TypeOK, Phases, Registry, Made
  <2>3. Handlers' /\ Answers' /\ CacheIsFinal'
    BY <1>9 DEF End, IInv, TypeOK, Phases, Handlers, Answers, CacheIsFinal,
                   Idle, FinalContent
  <2>4. Lines'
    BY <1>9 DEF End, IInv, TypeOK, Phases, Handlers, Lines, Idle
  <2>5. QED
    BY <2>1, <2>2, <2>3, <2>4 DEF IInv
<1>10. QED
  BY <1>1, <1>2, <1>3, <1>4, <1>5, <1>6, <1>7, <1>8, <1>9 DEF MainStep

\* A key is pressed.
LEMMA StopStep == IInv /\ Stop => IInv'
<1> SUFFICES ASSUME IInv, Stop PROVE IInv'
  OBVIOUS
<1> USE Numbers, IdleConnection DEF mainVars, cubeVars, serverVars, fileVars, clientVars
<1>1. TypeOK'
  BY DEF Stop, IInv, TypeOK
<1>2. Phases' /\ Registry'
  BY DEF Stop, IInv, TypeOK, Phases, Registry, Made
<1>3. Handlers' /\ Answers' /\ CacheIsFinal'
  BY DEF Stop, IInv, TypeOK, Phases, Handlers, Answers, CacheIsFinal,
                 Idle, FinalContent
<1>4. Lines'
  BY DEF Stop, IInv, TypeOK, Phases, Handlers, Lines, Idle
<1>5. QED
  BY <1>1, <1>2, <1>3, <1>4 DEF IInv

\* The build thread works only while main waits to join it.
LEMMA Building ==
    ASSUME IInv, BuildStep
    PROVE  /\ main = "build" /\ server = "off"
           /\ builder \in 0 .. Len(Schemas) /\ builder' \in {builder, builder + 1}
           /\ builder # None /\ builder' # None /\ container = Made
<1>1. builder \in 0 .. Len(Schemas) /\ builder' \in {builder, builder + 1}
  BY Numbers DEF BuildStep, BuildCube, BeginReport, SetReady, cubeVars
<1>2. builder # None /\ builder' # None /\ builder # Len(Schemas) + 1
  BY <1>1, Numbers
<1>3. main = "build"
  BY <1>2 DEF IInv, Registry
<1>4. QED
  BY <1>1, <1>2, <1>3 DEF IInv, Phases, Registry

\* The build thread.
LEMMA BuildSteps == IInv /\ BuildStep => IInv'
<1> SUFFICES ASSUME IInv, BuildStep PROVE IInv'
  OBVIOUS
<1> USE Numbers, Building DEF mainVars, cubeVars, serverVars, fileVars, clientVars
<1>1. UNCHANGED <<options, main, queries, server, running, conn, logOpen, cache, page>>
  BY DEF BuildStep, BuildCube, BeginReport, SetReady
<1>2. ready' \in BOOLEAN /\ container' \subseteq Cubes
  <2>1. CASE BuildCube
    <3>1. Schemas[builder + 1] \in Cubes
      BY <2>1, ServerAssumption DEF BuildCube
    <3>2. QED
      BY <2>1, <3>1 DEF BuildCube, IInv, TypeOK
  <2>2. CASE SetReady
    BY <2>2 DEF SetReady, IInv, TypeOK
  <2>3. CASE BeginReport
    BY <2>3 DEF BeginReport, IInv, TypeOK
  <2>4. QED
    BY <2>1, <2>2, <2>3 DEF BuildStep
<1>3. TypeOK'
  <2>1. line' \in {line, line \cup {"build"}, line \ {"build"}}
    BY DEF BuildStep, BuildCube, BeginReport, SetReady
  <2>2. QED
    BY <1>1, <1>2, <2>1 DEF IInv, TypeOK
<1>4. container' = Made' /\ (builder' = Len(Schemas) + 1 => ready')
  <2>1. CASE BuildCube
    <3>1. {j \in 1 .. Len(Schemas) : j <= builder + 1}
            = {j \in 1 .. Len(Schemas) : j <= builder} \cup {builder + 1}
      BY <2>1 DEF BuildCube
    <3>2. QED
      BY <2>1, <3>1 DEF BuildCube, Made
  <2>2. CASE SetReady
    <3>1. {j \in 1 .. Len(Schemas) : j <= builder + 1}
            = {j \in 1 .. Len(Schemas) : j <= builder}
      BY <2>2 DEF SetReady
    <3>2. QED
      BY <2>2, <3>1 DEF SetReady, Made
  <2>3. CASE BeginReport
    BY <2>3 DEF BeginReport, Made
  <2>4. QED
    BY <2>1, <2>2, <2>3 DEF BuildStep
<1>5. Phases' /\ Registry'
  BY <1>1, <1>4 DEF IInv, Phases, Registry
<1>6. Handlers' /\ Answers' /\ CacheIsFinal'
  BY <1>1 DEF IInv, Handlers, Answers, CacheIsFinal, FinalContent
<1>7. Lines'
  <2>1. CASE BuildCube
    BY <1>1, <2>1 DEF BuildCube, IInv, Lines
  <2>2. CASE BeginReport
    BY <1>1, <2>2 DEF BeginReport, IInv, Lines
  <2>3. CASE SetReady
    BY <1>1, <2>3 DEF SetReady, IInv, Lines
  <2>4. QED
    BY <2>1, <2>2, <2>3 DEF BuildStep
<1>8. QED
  BY <1>3, <1>5, <1>6, <1>7 DEF IInv

\* The loop of the server thread.
LEMMA LoopSteps == IInv /\ LoopStep => IInv'
<1> SUFFICES ASSUME IInv, LoopStep PROVE IInv'
  OBVIOUS
<1> USE Numbers, IdleConnection DEF mainVars, cubeVars, serverVars, fileVars, clientVars
<1>1. CASE CheckRunning
  <2>1. TypeOK'
    BY <1>1 DEF CheckRunning, IInv, TypeOK
  <2>2. Phases' /\ Registry'
    BY <1>1 DEF CheckRunning, IInv, TypeOK, Phases, Registry, Made
  <2>3. Handlers' /\ Answers' /\ CacheIsFinal'
    BY <1>1 DEF CheckRunning, IInv, TypeOK, Phases, Handlers, Answers, CacheIsFinal,
                   Idle, FinalContent
  <2>4. Lines'
    BY <1>1 DEF CheckRunning, IInv, TypeOK, Phases, Handlers, Lines, Idle
  <2>5. QED
    BY <2>1, <2>2, <2>3, <2>4 DEF IInv
<1>2. CASE PollNothing
  <2>1. TypeOK'
    BY <1>2 DEF PollNothing, IInv, TypeOK, AfterPoll
  <2>2. Phases' /\ Registry'
    BY <1>2 DEF PollNothing, IInv, TypeOK, Phases, Registry, Made, AfterPoll
  <2>3. Handlers' /\ Answers' /\ CacheIsFinal'
    BY <1>2 DEF PollNothing, IInv, TypeOK, Phases, Handlers, Answers, CacheIsFinal,
                   Idle, FinalContent, AfterPoll
  <2>4. Lines'
    BY <1>2 DEF PollNothing, IInv, TypeOK, Phases, Handlers, Lines, Idle, AfterPoll
  <2>5. QED
    BY <2>1, <2>2, <2>3, <2>4 DEF IInv
<1>3. CASE FreeManager
  <2>1. TypeOK'
    BY <1>3 DEF FreeManager, IInv, TypeOK
  <2>2. Phases' /\ Registry'
    BY <1>3 DEF FreeManager, IInv, TypeOK, Phases, Registry, Made
  <2>3. Handlers' /\ Answers' /\ CacheIsFinal'
    BY <1>3 DEF FreeManager, IInv, TypeOK, Phases, Handlers, Answers, CacheIsFinal,
                   Idle, FinalContent
  <2>4. Lines'
    BY <1>3 DEF FreeManager, IInv, TypeOK, Phases, Handlers, Lines, Idle
  <2>5. QED
    BY <2>1, <2>2, <2>3, <2>4 DEF IInv
<1>4. QED
  BY <1>1, <1>2, <1>3 DEF LoopStep

\* What happens on a connection.
LEMMA ConnectionSteps ==
    ASSUME IInv, NEW c \in Conns,
           Forward(c) \/ Begin(c) \/ HandlerStep(c) \/ Deliver(c)
    PROVE  IInv'
<1>0. {"file", "[]", "[null]", "info", "result"} \subseteq Contents
  BY DEF Contents
<1> USE Numbers, IdleConnection DEF mainVars, cubeVars, serverVars, fileVars, clientVars
<1>1. CASE Forward(c)
  <2>1. TypeOK'
    BY <1>1 DEF Forward, IInv, TypeOK, Connection, AfterPoll
  <2>2. Phases' /\ Registry'
    BY <1>1 DEF Forward, IInv, Phases, Registry, Made, AfterPoll
  <2>3. Handlers'
    BY <1>1 DEF Forward, IInv, TypeOK, Handlers, Connection, AfterPoll
  <2>4. Answers'
    BY <1>1 DEF Forward, IInv, TypeOK, Answers, Connection, AfterPoll
  <2>5. Lines'
    BY <1>1 DEF Forward, IInv, TypeOK, Lines, Connection
  <2>6. CacheIsFinal'
    BY <1>1 DEF Forward, IInv, CacheIsFinal
  <2>7. QED
    BY <2>1, <2>2, <2>3, <2>4, <2>5, <2>6 DEF IInv
<1>2. CASE Begin(c)
  <2>1. TypeOK'
    BY <1>2 DEF Begin, IInv, TypeOK, Connection
  <2>2. Phases' /\ Registry'
    BY <1>2 DEF Begin, IInv, Phases, Registry, Made
  <2>3. Handlers'
    BY <1>2 DEF Begin, IInv, TypeOK, Handlers, Connection
  <2>4. Answers'
    BY <1>2 DEF Begin, IInv, TypeOK, Answers, Connection
  <2>5. Lines'
    BY <1>2 DEF Begin, IInv, TypeOK, Lines, Connection
  <2>6. CacheIsFinal'
    BY <1>2 DEF Begin, IInv, CacheIsFinal
  <2>7. QED
    BY <2>1, <2>2, <2>3, <2>4, <2>5, <2>6 DEF IInv
<1>3. CASE Dispatch(c)
  <2>0. \/ \E content \in Contents : Reply(c, content)
        \/ conn' = [conn EXCEPT ![c].pc = "silent"] /\ Return
        \/ conn' = [conn EXCEPT ![c].pc = "query"] /\ UNCHANGED server
    BY <1>3, <1>0 DEF Dispatch
  <2>1. TypeOK'
    <3>1. server' = server \/ server' \in {"check", "free"}
      BY <2>0 DEF Reply, Return
    <3>2. conn' \in [Conns -> Connection]
      BY <2>0, Replied, SMTT(30) DEF IInv, TypeOK, Connection
    <3>3. QED
      BY <1>3, <3>1, <3>2 DEF Dispatch, IInv, TypeOK
  <2>2. Phases' /\ Registry'
    BY <1>3 DEF Dispatch, IInv, Phases, Registry, Made, Reply, Return
  <2>3. Handlers'
    BY <1>3, SMTT(30) DEF Dispatch, IInv, TypeOK, Handlers, Connection, Reply, Return
  <2>4. Answers'
    <3>1. conn[c].url \in Url /\ conn \in [Conns -> Connection]
      BY <1>3 DEF Dispatch, IInv, Handlers, TypeOK
    <3>2. server' \notin {"off", "done"} => server \notin {"off", "done"}
      BY <2>0 DEF Reply, Return
    <3>3. \A d \in Conns : d # c => conn'[d] = conn[d]
      BY <2>0, <3>1, Replied
    <3>4. conn'[c].url = conn[c].url
      BY <2>0, <3>1, Replied DEF Connection
    <3>5. conn'[c].pc \in {"query", "line"}
            => FinalContent(conn[c].url) = "result" /\ conn[c].url.kind = "query"
      BY <1>3, <3>1, OnlySchemas, FinalByKind DEF Dispatch, Reply, Connection
    <3>6. (conn'[c].pc = "printed" /\ server \notin {"off", "done"})
            => conn'[c].content = IF conn[c].url.kind = "file" THEN "file"
                                  ELSE FinalContent(conn[c].url)
      BY <1>3, <3>1, Serving, FinalByKind
         DEF Dispatch, Reply, Connection, Unanswered
    <3>7. QED
      BY <3>2, <3>3, <3>4, <3>5, <3>6 DEF IInv, Answers
  <2>5. Lines'
    BY <1>3 DEF Dispatch, IInv, TypeOK, Lines, Connection, Reply
  <2>6. CacheIsFinal'
    BY <1>3 DEF Dispatch, IInv, CacheIsFinal
  <2>7. QED
    BY <2>1, <2>2, <2>3, <2>4, <2>5, <2>6 DEF IInv
<1>4. CASE RunQuery(c)
  <2>1. TypeOK'
    BY <1>4 DEF RunQuery, IInv, TypeOK, Connection, Contents, Reply, Return
  <2>2. Phases' /\ Registry'
    BY <1>4 DEF RunQuery, IInv, Phases, Registry, Made, Reply, Return
  <2>3. Handlers'
    BY <1>4 DEF RunQuery, IInv, TypeOK, Handlers, Connection, Reply, Return
  <2>4. Answers'
    BY <1>4 DEF RunQuery, IInv, TypeOK, Answers, Connection, Reply, Return
  <2>5. Lines'
    BY <1>4 DEF RunQuery, IInv, TypeOK, Lines, Connection, Reply
  <2>6. CacheIsFinal'
    BY <1>4 DEF RunQuery, IInv, CacheIsFinal
  <2>7. QED
    BY <2>1, <2>2, <2>3, <2>4, <2>5, <2>6 DEF IInv
<1>5. CASE EndLine(c)
  <2>1. TypeOK'
    <3>1. conn' \in [Conns -> Connection]
      BY <1>5, <1>0, Replied DEF EndLine, IInv, TypeOK
    <3>2. server' = server \/ server' \in {"check", "free"}
      BY <1>5 DEF EndLine, Reply, Return
    <3>3. QED
      BY <1>5, <3>1, <3>2 DEF EndLine, IInv, TypeOK
  <2>2. Phases' /\ Registry'
    BY <1>5 DEF EndLine, IInv, Phases, Registry, Made, Reply, Return
  <2>3. Handlers'
    BY <1>5 DEF EndLine, IInv, TypeOK, Handlers, Connection, Reply, Return
  <2>4. Answers'
    BY <1>5 DEF EndLine, IInv, TypeOK, Answers, Connection, Reply, Return
  <2>5. Lines'
    BY <1>5 DEF EndLine, IInv, TypeOK, Lines, Connection, Reply
  <2>6. CacheIsFinal'
    BY <1>5 DEF EndLine, IInv, CacheIsFinal
  <2>7. QED
    BY <2>1, <2>2, <2>3, <2>4, <2>5, <2>6 DEF IInv
<1>6. CASE Deliver(c)
  <2>1. TypeOK'
    <3>1. TypeOK
      BY DEF IInv
    <3>2. conn' \in [Conns -> Connection]
      <4>1. Idle \in Connection
        BY DEF Idle, Connection
      <4>2. QED
        BY <1>6, <3>1, <4>1 DEF Deliver, TypeOK
    <3>3. cache' \in [Url -> (Contents \ {"[null]", "file"}) \cup {None}]
      <4>1. conn[c].content \in Contents \cup {None}
        BY <3>1 DEF TypeOK, Connection
      <4>2. Cacheable(conn[c].content)
              => conn[c].content \in (Contents \ {"[null]", "file"}) \cup {None}
        BY <4>1 DEF Cacheable
      <4>3. QED
        BY <1>6, <3>1, <4>2 DEF Deliver, TypeOK
    <3>4. page' \in {"loading", "ready"} /\ server' \in {"check", "free"}
      BY <1>6, <3>1 DEF Deliver, TypeOK, PageTakes, AfterPoll
    <3>5. QED
      BY <1>6, <3>1, <3>2, <3>3, <3>4 DEF Deliver, TypeOK
  <2>2. Phases' /\ Registry'
    BY <1>6 DEF Deliver, IInv, Phases, Registry, Made, AfterPoll
  <2>3. Handlers'
    BY <1>6 DEF Deliver, IInv, TypeOK, Handlers, Connection, Idle, AfterPoll
  <2>4. Answers'
    BY <1>6 DEF Deliver, IInv, TypeOK, Answers, Connection, Idle, AfterPoll
  <2>5. Lines'
    BY <1>6 DEF Deliver, IInv, TypeOK, Lines, Connection, Idle
  <2>6. CacheIsFinal'
    BY <1>6 DEF Deliver, IInv, TypeOK, Handlers, Answers, CacheIsFinal,
       Cacheable
  <2>7. QED
    BY <2>1, <2>2, <2>3, <2>4, <2>5, <2>6 DEF IInv
<1>7. QED
  BY <1>1, <1>2, <1>3, <1>4, <1>5, <1>6 DEF HandlerStep

\* A browser asks.
LEMMA SendSteps ==
    ASSUME IInv, NEW c \in Conns, NEW url \in Url, Send(c, url)
    PROVE  IInv'
<1> USE Numbers DEF mainVars, cubeVars, serverVars, fileVars, clientVars
<1>1. [pc |-> "sent", url |-> url, content |-> None] \in Connection
  BY DEF Connection
<1>2. conn' \in [Conns -> Connection]
  BY <1>1 DEF Send, IInv, TypeOK
<1>3. TypeOK'
  BY <1>2 DEF Send, IInv, TypeOK
<1>4. Phases' /\ Registry'
  BY DEF Send, IInv, Phases, Registry, Made
<1>5. Handlers' /\ Answers'
  BY DEF Send, IInv, TypeOK, Handlers, Answers, FinalContent
<1>6. Lines' /\ CacheIsFinal'
  BY DEF Send, IInv, TypeOK, Lines, CacheIsFinal, FinalContent
<1>7. QED
  BY <1>3, <1>4, <1>5, <1>6 DEF IInv

LEMMA Stutters == IInv /\ UNCHANGED vars => IInv'
BY DEF vars, IInv, TypeOK, Phases, Registry, Made, Handlers, Answers, Lines,
       CacheIsFinal, FinalContent

LEMMA Preserved == IInv /\ [Next]_vars => IInv'
<1> SUFFICES ASSUME IInv, [Next]_vars PROVE IInv'
  OBVIOUS
<1>1. CASE MainStep
  BY <1>1, MainSteps
<1>2. CASE Stop
  BY <1>2, StopStep
<1>3. CASE BuildStep
  BY <1>3, BuildSteps
<1>4. CASE LoopStep
  BY <1>4, LoopSteps
<1>5. CASE \E c \in Conns : Forward(c) \/ Begin(c) \/ HandlerStep(c) \/ Deliver(c)
  BY <1>5, ConnectionSteps
<1>6. CASE \E c \in Conns, url \in Requests : Send(c, url)
  BY <1>6, SendSteps, ServerAssumption
<1>7. CASE PagePoll
  BY <1>7, SendSteps, PageUrlIsUrl, ServerAssumption DEF PagePoll
<1>8. CASE UNCHANGED vars
  BY <1>8, Stutters
<1>9. QED
  BY <1>1, <1>2, <1>3, <1>4, <1>5, <1>6, <1>7, <1>8 DEF Next

LEMMA Invariant == Spec => []IInv
BY Initially, Preserved, PTL DEF Spec

-----------------------------------------------------------------------------
(* What the process keeps.                                                 *)

\* The state stays well formed; in particular no browser ever keeps [null],
\* the answer about a cube that is not there.
THEOREM TypeCorrect == Spec => []TypeOK
BY Invariant, PTL DEF IInv

\* Lines of the telemetry file never mix and go to an open file: main writes
\* before there is a server, and with telemetry the server runs one handler
\* at a time (Server::run starts no threads).
THEOREM LinesAreWhole == Spec => []LogLinesWhole
<1>1. IInv => LogLinesWhole
  <2> SUFFICES ASSUME IInv PROVE LogLinesWhole
    OBVIOUS
  <2>1. line # {} => logOpen /\ options.telemetry
    <3>1. ASSUME line # {} PROVE main \notin {"destroyed", "gone"}
      <4>1. PICK w \in line : TRUE
        BY <3>1
      <4>2. CASE w = "main"
        BY <4>1, <4>2 DEF IInv, Lines
      <4>3. CASE w \in Conns
        BY <4>1, <4>3, <3>1 DEF IInv, Lines, Handlers, Phases
      <4>4. CASE w = "build"
        BY <4>1, <4>4 DEF IInv, Lines
      <4>5. QED
        BY <4>1, <4>2, <4>3, <4>4 DEF IInv, TypeOK
    <3>2. QED
      BY <3>1 DEF IInv, Lines
  <2>2. \A v, w \in line : v = w
    <3> SUFFICES ASSUME NEW v \in line, NEW w \in line, v # w PROVE FALSE
      OBVIOUS
    <3>1. CASE v \in Conns /\ w \in Conns
      BY <2>1, <3>1 DEF IInv, Lines, Handlers
    <3>2. ASSUME NEW u \in {"main", "build"} \cap line, NEW c \in Conns \cap line
          PROVE  FALSE
      <4>1. main \in {"benchmark", "build"}
        BY <3>2 DEF IInv, Lines
      <4>2. QED
        BY <3>2, <4>1 DEF IInv, Lines, Handlers, Phases
    <3>3. ~("main" \in line /\ "build" \in line)
      BY DEF IInv, Lines
    <3>4. QED
      BY <3>1, <3>2, <3>3 DEF IInv, TypeOK
  <2>3. Cardinality(line) <= 1
    <3>1. CASE line = {}
      BY <3>1, FS_EmptySet
    <3>2. CASE line # {}
      <4>1. PICK w : line = {w}
        BY <2>2, <3>2
      <4>2. Cardinality({w}) = 1
        BY FS_Singleton
      <4>3. QED
        BY <4>1, <4>2
    <3>3. QED
      BY <3>1, <3>2
  <2>4. QED
    BY <2>1, <2>3 DEF LogLinesWhole
<1>2. QED
  BY <1>1, Invariant, PTL

\* What a browser keeps for a day is what the server would answer again: the
\* server starts when t1.join() has returned, so no [] of a server that is not
\* ready is ever sent.
THEOREM CachesAreFinal == Spec => []CacheIsFinal
BY Invariant, PTL DEF IInv

\* The registry of cubes, which has no lock, changes only while nobody uses
\* it: the build thread is joined before the benchmark and the server start,
\* and with telemetry main joins the server before it destroys the cubes.
THEOREM RegistryStays == Spec => RegistryUndisturbed
<1> DEFINE Alone == container' # container =>
                      /\ main # "benchmark"
                      /\ (main = "exit" /\ Multithreaded) \/ Handling = {}
<1>1. IInv /\ [Next]_vars => [Alone]_vars
  <2> SUFFICES ASSUME IInv, [Next]_vars, container' # container PROVE Alone
    OBVIOUS
  <2> USE DEF mainVars, cubeVars, serverVars, fileVars, clientVars
  <2>1. BuildStep \/ Destroy
    BY DEF Next, vars, MainStep, StartBuild, JoinBuild, RunBenchmark, EndBenchmark,
           EndLineOfMain, StartServer, JoinServer, End, Stop, LoopStep,
           CheckRunning, PollNothing, FreeManager, Forward, Begin, HandlerStep,
           Dispatch, RunQuery, EndLine, Deliver, Send, PagePoll
  <2>2. CASE BuildStep
    <3>1. main = "build" /\ server = "off"
      BY <2>2, Building
    <3>2. QED
      BY <3>1 DEF IInv, Handlers, Handling
  <2>3. CASE Destroy
    BY <2>3 DEF Destroy, IInv, Phases, Handlers, Handling
  <2>4. QED
    BY <2>1, <2>2, <2>3
<1>2. QED
  BY <1>1, Invariant, PTL DEF Spec, RegistryUndisturbed
=============================================================================
