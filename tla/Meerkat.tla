------------------------------ MODULE Meerkat ------------------------------
(***************************************************************************)
(* The HTTP library as the server uses it. A manager polls its connections *)
(* on one thread: it selects, handles what is ready, closes what is to be  *)
(* closed. With threads, an accepted connection (nc) keeps nothing but a   *)
(* link to one end (c0) of a socket pair and forwards what it gets; the    *)
(* other end (c1) belongs to the manager of a thread of its own, which     *)
(* runs the handler. Without, nc runs the handler itself.                  *)
(*                                                                         *)
(* A request is two parts on the wire, an answer AnswerLen of its kind;    *)
(* a browser sends a request when it has the whole answer to the last.     *)
(* A definition named X_Y is the definition X with the slip Y in it.       *)
(***************************************************************************)
EXTENDS Integers, Sequences, SequencesExt

CONSTANTS
    Clients,      \* browsers, each with one connection
    Kinds,        \* of requests: "rest" is answered by one mg_printf; "file"
                  \* in chunks; "listing" by mg_printf, then the connection
                  \* is to be closed; "garbled" does not parse
    MaxRequests,  \* requests a browser sends on its connection (bound)
    FileChunks,   \* chunks of a file (bound)
    Room,         \* parts in the send buffer at which no chunk is added
    None

ASSUME MeerkatAssumption ==
    /\ Kinds \subseteq {"rest", "file", "listing", "garbled"}
    /\ MaxRequests \in Nat /\ FileChunks \in Nat /\ Room \in Nat \ {0}
    /\ "main" \notin Clients /\ None \notin Clients \X {"nc", "c0", "c1"}

AnswerLen == [kind \in Kinds |-> CASE kind = "file"    -> 1 + FileChunks
                                   [] kind = "garbled" -> 0
                                   [] OTHER            -> 2]

VARIABLES
    threaded,  \* the listener has been given multithreaded_ev_handler
    running,   \* Server::running
    backlog,   \* clients the kernel has connected and nobody has accepted
    browser,   \* client -> [pc, asked, sent, got], see Exchange
    conn,      \* end -> mg_connection: [alive, recv, send, flags, peer, file]
    wire,      \* end -> what has been sent to its socket and it has not read
    toBrowser, \* client -> what has been sent to the browser
    list,      \* manager -> its active_connections
    mgr        \* manager -> [pc, todo, last]: where its thread is; todo is
               \* what select has reported, then the ends still to close

vars == <<threaded, running, backlog, browser, conn, wire, toBrowser, list, mgr>>

Ends == Clients \X {"nc", "c0", "c1"}

Managers == {"main"} \cup Clients

\* The end that runs http_handler over Server::handler for a client.
HttpEnd(c) == IF threaded THEN <<c, "c1">> ELSE <<c, "nc">>

IsHttp(e) == e = HttpEnd(e[1])

Gone == [alive |-> FALSE, recv |-> <<>>, send |-> <<>>, flags |-> {},
         peer |-> None, file |-> None]

\* mg_create_connection.
Fresh == [Gone EXCEPT !.alive = TRUE]

Init ==
    /\ threaded \in BOOLEAN
    /\ running = TRUE
    /\ backlog = {}
    /\ browser = [c \in Clients |->
                    [pc |-> "new", asked |-> <<>>, sent |-> 0, got |-> <<>>]]
    /\ conn = [e \in Ends |-> Gone]
    /\ wire = [e \in Ends |-> <<>>]
    /\ toBrowser = [c \in Clients |-> <<>>]
    /\ list = [m \in Managers |-> <<>>]
    /\ mgr = [m \in Managers |->
                [pc |-> IF m = "main" THEN "select" ELSE "off",
                 todo |-> {}, last |-> FALSE]]

-----------------------------------------------------------------------------
(* Sockets.                                                                *)

\* The end at the other side of the socket pair.
Other(e) == IF e[2] = "c0" THEN <<e[1], "c1">> ELSE <<e[1], "c0">>

\* The other side of the socket of e is closed.
Hungup(e) ==
    IF e[2] = "nc" THEN browser[e[1]].pc = "left" ELSE ~conn[Other(e)].alive

Readable(e) == wire[e] # <<>> \/ Hungup(e)

\* parts leave e for the other side: into the void if that is closed.
Sent(e, parts) ==
    IF e[2] = "nc"
    THEN /\ toBrowser' = IF Hungup(e) THEN toBrowser
                         ELSE [toBrowser EXCEPT ![e[1]] = @ \o parts]
         /\ UNCHANGED wire
    ELSE /\ wire' = IF Hungup(e) THEN wire
                    ELSE [wire EXCEPT ![Other(e)] = @ \o parts]
         /\ UNCHANGED toBrowser

-----------------------------------------------------------------------------
(* http_handler, on the record of a connection.                            *)

\* transfer_file_data: tops up the send buffer from the file; with nothing
\* left the file is closed.
Transfer(cn) ==
    LET left == FileChunks - cn.file.sent
        room == Room - Len(cn.send)
        n    == IF left < room THEN left ELSE room
        kth  == cn.file.sent + 1
    IN  IF cn.file = None \/ room <= 0 THEN cn
        ELSE IF left > 0
        THEN [cn EXCEPT !.send = @ \o [i \in 1 .. n |->
                            [req |-> cn.file.req, part |-> kth + i]],
                        !.file.sent = @ + n]
        ELSE [cn EXCEPT !.file = None]

\* The handler with a whole request: what it prints, and the rest.
Handled(cn, req, kind) ==
    LET printed == [cn EXCEPT !.send = @ \o
                      [i \in 1 .. (IF kind = "file" THEN 1 ELSE 2) |->
                         [req |-> req, part |-> i]],
                              !.recv = <<>>]
    IN  CASE kind = "rest"    -> printed
          [] kind = "listing" -> [printed EXCEPT !.flags = @ \cup {"send and close"}]
          [] OTHER            ->
               Transfer([printed EXCEPT !.file = [req |-> req, sent |-> 0]])

\* mg_parse_http over the receive buffer.
Parsed(cn) ==
    IF cn.recv = <<>> THEN cn
    ELSE LET first == cn.recv[1]
         IN  IF first.kind = "garbled"
             THEN [cn EXCEPT !.flags = @ \cup {"close"}]
             ELSE IF Len(cn.recv) < 2 THEN cn
             ELSE Handled(cn, first.req, first.kind)

\* The same in a connection whose handler is forwarder_ev_handler: a whole
\* request that nobody took is dropped.
Dropped(cn) ==
    IF cn.recv = <<>> THEN cn
    ELSE IF cn.recv[1].kind = "garbled"
         THEN [cn EXCEPT !.flags = @ \cup {"close"}]
         ELSE IF Len(cn.recv) < 2 THEN cn ELSE [cn EXCEPT !.recv = <<>>]

-----------------------------------------------------------------------------
(* mg_mgr_poll.                                                            *)

\* What select reports of e, or of the listener.
Item(e, io) == [end |-> e, io |-> io]

Listener == Item(None, "accept")

\* What a poll that begins now will handle. (A connection with nothing to
\* report gets MG_EV_POLL, which changes nothing: only one with a file
\* listens, and its buffer has been filled up at the last event.)
Ready(m) ==
    {Item(e, "read") : e \in {e \in Range(list[m]) : Readable(e)}}
      \cup {Item(e, "write") : e \in {e \in Range(list[m]) : conn[e].send # <<>>}}
      \cup (IF m = "main" /\ backlog # {} THEN {Listener} ELSE {})

\* A loop over the connections of m comes to e, the first of ends.
Comes(m, e, ends) ==
    \E i \in DOMAIN list[m] : /\ list[m][i] = e /\ e \in ends
                             /\ \A j \in 1 .. i - 1 : list[m][j] \notin ends

\* The close loop takes e.
ToClose_AtOnce(e) == conn[e].flags # {}

ToClose(e) ==
    \/ "close" \in conn[e].flags
    \/ "send and close" \in conn[e].flags /\ conn[e].send = <<>>

\* A poll that has something to do, or the one of mg_mgr_free.
Select(m) ==
    /\ mgr[m].pc = "select"
    /\ \/ Ready(m) # {}
       \/ \E e \in Range(list[m]) : ToClose(e)
       \/ m = "main" /\ ~running
    /\ mgr' = [mgr EXCEPT ![m] = [pc |-> "handle", todo |-> Ready(m),
                                  last |-> m = "main" /\ ~running]]
    /\ UNCHANGED <<threaded, running, backlog, browser, conn, wire, toBrowser,
                   list>>

\* mg_mgr_handle_connection reads of a connection before it writes.
Handling(m, e, io) ==
    /\ mgr[m].pc = "handle"
    /\ Item(e, io) \in mgr[m].todo
    /\ Comes(m, e, {item.end : item \in mgr[m].todo})
    /\ io = "write" => Item(e, "read") \notin mgr[m].todo
    /\ mgr' = [mgr EXCEPT ![m].todo = @ \ {Item(e, io)}]

\* mbuf_append to the receive buffer.
Buffered_Over(cn, parts) == [cn EXCEPT !.recv = parts]

Buffered(cn, parts) == [cn EXCEPT !.recv = @ \o parts]

\* MG_EV_RECV with parts, and MG_EV_SEND, in the connection of e.
Received(e, parts) ==
    IF parts = <<>> THEN conn[e]
    ELSE IF IsHttp(e) THEN Parsed(Buffered(Transfer(conn[e]), parts))
    ELSE IF e[2] = "nc" THEN Dropped(Buffered(conn[e], parts))
    ELSE Buffered(conn[e], parts)

AfterSend(e, cn) == IF IsHttp(e) THEN Transfer(cn) ELSE cn

\* mg_read_from_socket, to the end of what is there: to the handler, or to
\* the send buffer of the linked connection.
Read(m, e) ==
    LET gone == IF Hungup(e) THEN {"close"} ELSE {}
        peer == conn[e].peer
    IN  /\ Handling(m, e, "read")
        /\ wire' = [wire EXCEPT ![e] = <<>>]
        /\ conn' = IF peer # None
                   THEN [conn EXCEPT ![peer].send = @ \o wire[e],
                                     ![e].flags = @ \cup gone]
                   ELSE [conn EXCEPT ![e] = [Received(e, wire[e]) EXCEPT
                                               !.flags = @ \cup gone]]
        /\ UNCHANGED <<threaded, running, backlog, browser, toBrowser, list>>

\* mg_write_to_socket: the kernel takes some of the buffer, or refuses if the
\* other side is closed. Nothing is written once reading has failed.
Write(m, e) ==
    /\ Handling(m, e, "write")
    /\ \/ /\ "close" \notin conn[e].flags
          /\ \E n \in 1 .. Len(conn[e].send) :
               /\ Sent(e, SubSeq(conn[e].send, 1, n))
               /\ conn' = [conn EXCEPT ![e] =
                     AfterSend(e, [conn[e] EXCEPT !.send = SubSeq(@, n + 1, Len(@))])]
       \/ /\ "close" \notin conn[e].flags /\ Hungup(e)
          /\ conn' = [conn EXCEPT ![e] =
                AfterSend(e, [conn[e] EXCEPT !.flags = @ \cup {"close"}])]
          /\ UNCHANGED <<wire, toBrowser>>
       \/ /\ "close" \in conn[e].flags
          /\ UNCHANGED <<conn, wire, toBrowser>>
    /\ UNCHANGED <<threaded, running, backlog, browser, list>>

\* accept_conn: one connection a poll, after all others, as the listener is
\* the last in the list. With threads spawn_handling_thread makes the socket
\* pair, links c0 with nc, and starts the thread of c1.
Accept(c) ==
    LET nc == <<c, "nc">>  c0 == <<c, "c0">>  c1 == <<c, "c1">>
    IN  /\ mgr["main"].pc = "handle" /\ mgr["main"].todo = {Listener}
        /\ mgr' = [mgr EXCEPT !["main"].todo = {}]
        /\ c \in backlog
        /\ backlog' = backlog \ {c}
        /\ conn' = IF threaded
                   THEN [conn EXCEPT ![nc] = [Fresh EXCEPT !.peer = c0],
                                     ![c0] = [Fresh EXCEPT !.peer = nc],
                                     ![c1] = Fresh]
                   ELSE [conn EXCEPT ![nc] = Fresh]
        /\ list' = IF threaded
                   THEN [list EXCEPT !["main"] = <<c0, nc>> \o @, ![c] = <<c1>>]
                   ELSE [list EXCEPT !["main"] = <<nc>> \o @]
        /\ UNCHANGED <<threaded, running, browser, wire, toBrowser>>

\* With threads, the thread of an accepted connection begins to poll.
StartThread(c) ==
    /\ mgr[c].pc = "off" /\ list[c] # <<>>
    /\ mgr' = [mgr EXCEPT ![c].pc = "select"]
    /\ UNCHANGED <<threaded, running, backlog, browser, conn, wire, toBrowser,
                   list>>

\* Everything is handled: the close loop begins.
BeginClose(m) ==
    /\ mgr[m].pc = "handle" /\ mgr[m].todo = {}
    /\ mgr' = [mgr EXCEPT ![m].pc = "close", ![m].todo = Range(list[m])]
    /\ UNCHANGED <<threaded, running, backlog, browser, conn, wire, toBrowser,
                   list>>

\* unlink_conns at the close of e.
Unlinked_HalfWay(e) ==
    IF conn[e].peer = None THEN conn
    ELSE [conn EXCEPT ![conn[e].peer].flags = @ \cup {"send and close"}]

Unlinked_Silent(e) ==
    IF conn[e].peer = None THEN conn ELSE [conn EXCEPT ![conn[e].peer].peer = None]

Unlinked(e) ==
    IF conn[e].peer = None THEN conn
    ELSE [conn EXCEPT ![conn[e].peer].flags = @ \cup {"send and close"},
                      ![conn[e].peer].peer = None]

\* mg_close_conn: the handler is told, the connection leaves the list and is
\* destroyed with its buffers and its socket.
Closed(m, e) ==
    /\ conn' = [Unlinked(e) EXCEPT ![e] = Gone]
    /\ wire' = [wire EXCEPT ![e] = <<>>]
    /\ list' = [list EXCEPT ![m] = RemoveFirst(@, e)]

\* One turn of the close loop.
Close(m, e) ==
    /\ mgr[m].pc = "close" /\ Comes(m, e, mgr[m].todo)
    /\ mgr' = [mgr EXCEPT ![m].todo = @ \ {e}]
    /\ IF ToClose(e) THEN Closed(m, e) ELSE UNCHANGED <<conn, wire, list>>
    /\ UNCHANGED <<threaded, running, backlog, browser, toBrowser>>

\* The poll is over: mg_mgr_free closes what is left, a thread ends when its
\* connection is closed, and every other manager polls again.
EndPoll(m) ==
    /\ mgr[m].pc = "close" /\ mgr[m].todo = {}
    /\ mgr' = [mgr EXCEPT ![m].pc =
                 IF mgr[m].last THEN "free"
                 ELSE IF m # "main" /\ list[m] = <<>> THEN "done" ELSE "select"]
    /\ UNCHANGED <<threaded, running, backlog, browser, conn, wire, toBrowser,
                   list>>

\* One turn of the loop of mg_mgr_free.
Free(e) ==
    /\ mgr["main"].pc = "free" /\ list["main"] # <<>> /\ e = Head(list["main"])
    /\ Closed("main", e)
    /\ UNCHANGED <<threaded, running, backlog, browser, toBrowser, mgr>>

\* The last one: the listener is closed, and the backlog with it.
FreeListener ==
    /\ mgr["main"].pc = "free" /\ list["main"] = <<>>
    /\ mgr' = [mgr EXCEPT !["main"].pc = "done"]
    /\ backlog' = {}
    /\ UNCHANGED <<threaded, running, browser, conn, wire, toBrowser, list>>

\* Server::stop.
Stop ==
    /\ running
    /\ running' = FALSE
    /\ UNCHANGED <<threaded, backlog, browser, conn, wire, toBrowser, list, mgr>>

-----------------------------------------------------------------------------
(* Browsers.                                                               *)

Asked(c) == Len(browser[c].asked)

LastKind(c) == browser[c].asked[Asked(c)]

\* The browser has the whole answer to its last request.
Answered(c) ==
    Len(browser[c].got) = IF Asked(c) = 0 THEN 0 ELSE AnswerLen[LastKind(c)]

Connect(c) ==
    /\ browser[c].pc = "new" /\ mgr["main"].pc # "done"
    /\ browser' = [browser EXCEPT ![c].pc = "open"]
    /\ backlog' = backlog \cup {c}
    /\ UNCHANGED <<threaded, running, conn, wire, toBrowser, list, mgr>>

\* Nobody reads what is sent to a socket the server has closed.
Arrives(c, part) ==
    wire' = IF c \in backlog \/ conn[<<c, "nc">>].alive
            THEN [wire EXCEPT ![<<c, "nc">>] = Append(@, part)] ELSE wire

\* The first part of the next request goes out.
Ask(c, kind) ==
    /\ browser[c].pc = "open" /\ Answered(c) /\ Asked(c) < MaxRequests
    /\ browser[c].sent \in {0, 2}
    /\ browser' = [browser EXCEPT ![c].asked = Append(@, kind), ![c].sent = 1,
                                  ![c].got = <<>>]
    /\ Arrives(c, [req |-> Asked(c) + 1, kind |-> kind])
    /\ UNCHANGED <<threaded, running, backlog, conn, toBrowser, list, mgr>>

\* The second one.
AskRest(c) ==
    /\ browser[c].pc = "open" /\ browser[c].sent = 1
    /\ browser' = [browser EXCEPT ![c].sent = 2]
    /\ Arrives(c, [req |-> Asked(c), kind |-> LastKind(c)])
    /\ UNCHANGED <<threaded, running, backlog, conn, toBrowser, list, mgr>>

Receive(c) ==
    /\ browser[c].pc = "open" /\ toBrowser[c] # <<>>
    /\ browser' = [browser EXCEPT ![c].got = Append(@, Head(toBrowser[c]))]
    /\ toBrowser' = [toBrowser EXCEPT ![c] = Tail(@)]
    /\ UNCHANGED <<threaded, running, backlog, conn, wire, list, mgr>>

\* The user goes to another page or cancels.
Leave(c) ==
    /\ browser[c].pc = "open"
    /\ browser' = [browser EXCEPT ![c].pc = "left"]
    /\ toBrowser' = [toBrowser EXCEPT ![c] = <<>>]
    /\ UNCHANGED <<threaded, running, backlog, conn, wire, list, mgr>>

\* The browser has read all and finds the connection closed.
SeeEnd(c) ==
    /\ browser[c].pc = "open" /\ toBrowser[c] = <<>>
    /\ c \notin backlog /\ ~conn[<<c, "nc">>].alive
    /\ browser' = [browser EXCEPT ![c].pc = "ended"]
    /\ UNCHANGED <<threaded, running, backlog, conn, wire, toBrowser, list, mgr>>

-----------------------------------------------------------------------------
EndsOf(m) == {e \in Ends : (m = "main") = (e[2] # "c1")
                             /\ (m # "main" => e[1] = m)}

ManagerStep(m) ==
    \/ Select(m) \/ BeginClose(m) \/ EndPoll(m)
    \/ \E e \in EndsOf(m) : Read(m, e) \/ Write(m, e) \/ Close(m, e)
    \/ /\ m = "main"
       /\ \/ \E c \in Clients : Accept(c)
          \/ \E e \in EndsOf(m) : Free(e)
          \/ FreeListener
    \/ m # "main" /\ StartThread(m)

BrowserStep(c) == AskRest(c) \/ Receive(c) \/ SeeEnd(c)

Next ==
    \/ Stop
    \/ \E m \in Managers : ManagerStep(m)
    \/ \E c \in Clients : \/ Connect(c) \/ Leave(c) \/ BrowserStep(c)
                          \/ \E kind \in Kinds : Ask(c, kind)

\* Threads go on and kernels deliver; a browser sends the rest of a request
\* it has begun and reads what comes. Nobody has to ask, leave or stop.
Fairness ==
    /\ \A m \in Managers : WF_vars(ManagerStep(m))
    /\ \A c \in Clients : WF_vars(BrowserStep(c))

Spec == Init /\ [][Next]_vars /\ Fairness

-----------------------------------------------------------------------------
(* What the library must keep.                                             *)

\* The only end e is ever linked with; c1, on its thread, with none.
Mate(e) == <<e[1], IF e[2] = "nc" THEN "c0" ELSE "nc">>

\* A link is mutual and leads to a connection that is alive and of the same
\* manager: a thread never follows a pointer to what was destroyed or to
\* what another thread works on. (mg_forward and unlink_conns follow it
\* without asking.)
LinksAlive ==
    \A e \in Ends : conn[e].peer # None =>
        /\ e[2] # "c1" /\ conn[e].peer = Mate(e)
        /\ conn[e].alive /\ conn[Mate(e)].alive
        /\ conn[Mate(e)].peer = e

\* To a browser the two sides of the pair and the loops between are one
\* connection that answers in order and cuts no answer short.
Exchanges == INSTANCE Exchange WITH
    asked    <- [c \in Clients |-> browser[c].asked],
    got      <- [c \in Clients |-> browser[c].got],
    open     <- [c \in Clients |-> browser[c].pc],
    stopping <- ~running

RefinesExchange == Exchanges!Spec

\* A request that was sent is answered whole or the browser learns that the
\* connection is closed, unless it leaves.
AnswersEnd ==
    \A c \in Clients :
        (browser[c].pc = "open" /\ browser[c].sent = 2)
          ~> (browser[c].pc # "open"
                \/ (Asked(c) > 0 /\ Answered(c) /\ LastKind(c) # "garbled"))

\* The thread of a connection ends when the browser has left or the server
\* is stopped: what one side of the pair learns reaches the other.
ThreadsEnd ==
    \A c \in Clients :
        (list[c] # <<>> /\ (browser[c].pc = "left" \/ ~running))
          ~> mgr[c].pc = "done"
=============================================================================
