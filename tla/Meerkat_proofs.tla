--------------------------- MODULE Meerkat_proofs ---------------------------
(***************************************************************************)
(* LinksAlive of Meerkat and its refinement of Exchange, for every set of  *)
(* clients and every bound.                                                *)
(*                                                                         *)
(* LinksAlive is inductive once the connections are known to be records:   *)
(* the handlers of an end touch neither its link nor its life, only        *)
(* accepting and closing do, and both on the two ends of one link at once. *)
(*                                                                         *)
(* For the refinement all that is between a browser and the end that       *)
(* serves it is read as two sequences: the requests on their way           *)
(* (Requests) and the answers (Stream), what has arrived included. A step  *)
(* of a manager moves parts along them, or is the serving end taking a     *)
(* request and adding to the answer; Exch says how far the last request    *)
(* can be (Phase), and what the browser can still get when the serving end *)
(* cannot be reached any more (Doomed). That the close of one end of the   *)
(* pair loses nothing on the way hangs on the order in which a poll reads, *)
(* writes and closes (TodoThere, Leaves).                                  *)
(***************************************************************************)
EXTENDS Meerkat, SequenceTheorems, TLAPS

\* A record with the fields of a connection, whatever they hold.
IsConn(cn) ==
    /\ cn = [field \in DOMAIN cn |-> cn[field]]
    /\ DOMAIN cn = {"alive", "recv", "send", "flags", "peer", "file"}

ConnsOK ==
    /\ conn = [e \in Ends |-> conn[e]]
    /\ \A e \in Ends : IsConn(conn[e])

\* d is c but for its buffers, its flags and its file.
SameLink(c, d) == IsConn(d) /\ d.alive = c.alive /\ d.peer = c.peer

\* Without threads there are no links.
NoLinks == threaded \/ \A e \in Ends : conn[e].peer = None

IInv == ConnsOK /\ NoLinks /\ LinksAlive

\* Mates are two ends, each the mate of the other.
LEMMA Mates ==
    ASSUME NEW e \in Ends, e[2] # "c1"
    PROVE  Mate(e) \in Ends /\ Mate(e) # e /\ Mate(Mate(e)) = e /\ Mate(e)[2] # "c1"
BY DEF Mate, Ends

\* transfer_file_data leaves the link alone.
LEMMA TransferLinks ==
    ASSUME NEW cn, IsConn(cn) PROVE SameLink(cn, Transfer(cn))
BY DEF Transfer, SameLink, IsConn

\* So does the handler of a request.
LEMMA HandledLinks ==
    ASSUME NEW cn, IsConn(cn), NEW req, NEW kind
    PROVE  SameLink(cn, Handled(cn, req, kind))
<1> DEFINE out == [i \in 1 .. (IF kind = "file" THEN 1 ELSE 2) |->
                     [req |-> req, part |-> i]]
           printed == [cn EXCEPT !.send = @ \o out, !.recv = <<>>]
           begun == [printed EXCEPT !.file = [req |-> req, sent |-> 0]]
<1>1. SameLink(cn, printed)
  BY DEF SameLink, IsConn
<1>2. SameLink(cn, [printed EXCEPT !.flags = @ \cup {"send and close"}])
  BY <1>1 DEF SameLink, IsConn
<1>3. SameLink(cn, begun)
  BY <1>1 DEF SameLink, IsConn
<1>4. SameLink(cn, Transfer(begun))
  BY <1>3, TransferLinks DEF SameLink
<1>5. QED
  BY <1>1, <1>2, <1>4 DEF Handled

\* And so does everything that MG_EV_RECV and MG_EV_SEND run.
LEMMA ParsedLinks ==
    ASSUME NEW cn, IsConn(cn)
    PROVE  SameLink(cn, Parsed(cn)) /\ SameLink(cn, Dropped(cn))
<1>1. SameLink(cn, cn)
  BY DEF SameLink
<1>2. SameLink(cn, [cn EXCEPT !.flags = @ \cup {"close"}])
  BY DEF SameLink, IsConn
<1>3. SameLink(cn, [cn EXCEPT !.recv = <<>>])
  BY DEF SameLink, IsConn
<1>4. SameLink(cn, Handled(cn, cn.recv[1].req, cn.recv[1].kind))
  BY HandledLinks
<1>5. QED
  BY <1>1, <1>2, <1>3, <1>4 DEF Parsed, Dropped

LEMMA ReceivedLinks ==
    ASSUME ConnsOK, NEW e \in Ends, NEW parts
    PROVE  SameLink(conn[e], Received(e, parts))
<1>1. IsConn(conn[e])
  BY DEF ConnsOK
<1>2. SameLink(conn[e], Transfer(conn[e]))
  BY <1>1, TransferLinks
<1>3. ASSUME NEW cn, SameLink(conn[e], cn)
      PROVE  /\ SameLink(conn[e], Parsed(Buffered(cn, parts)))
             /\ SameLink(conn[e], Dropped(Buffered(cn, parts)))
             /\ SameLink(conn[e], Buffered(cn, parts))
  <2>1. SameLink(conn[e], Buffered(cn, parts))
    BY <1>3 DEF SameLink, Buffered, IsConn
  <2>2. QED
    BY <2>1, ParsedLinks DEF SameLink
<1>4. SameLink(conn[e], conn[e])
  BY <1>1 DEF SameLink
<1>5. QED
  BY <1>2, <1>3, <1>4 DEF Received

\* A step that changes one connection and not its link keeps the invariant.
LEMMA SameLinkKeeps ==
    ASSUME IInv, NEW e \in Ends, NEW cn, SameLink(conn[e], cn),
           conn' = [conn EXCEPT ![e] = cn], threaded' = threaded
    PROVE  IInv'
<1>1. ConnsOK'
  BY DEF IInv, ConnsOK, SameLink
<1>2. \A x \in Ends : conn'[x].alive = conn[x].alive /\ conn'[x].peer = conn[x].peer
  BY DEF IInv, ConnsOK, SameLink
<1>3. NoLinks'
  BY <1>2 DEF IInv, NoLinks
<1>4. LinksAlive'
  BY <1>2, Mates DEF IInv, LinksAlive
<1>5. QED
  BY <1>1, <1>3, <1>4 DEF IInv

\* Reading: with a link the buffer of the other end grows, without one the
\* handler runs.
LEMMA ReadKeeps ==
    ASSUME IInv, NEW m, NEW e \in Ends, Read(m, e)
    PROVE  IInv'
<1> DEFINE gone == IF Hungup(e) THEN {"close"} ELSE {}
           peer == conn[e].peer
<1>1. CASE peer # None
  <2>1. conn' = [conn EXCEPT ![peer].send = @ \o wire[e], ![e].flags = @ \cup gone]
    BY <1>1 DEF Read
  <2>2. peer \in Ends /\ peer # e
    BY <1>1, Mates DEF IInv, LinksAlive
  <2>3. ConnsOK'
    BY <2>1, <2>2 DEF IInv, ConnsOK, IsConn
  <2>4. \A x \in Ends : conn'[x].alive = conn[x].alive /\ conn'[x].peer = conn[x].peer
    BY <2>1, <2>2 DEF IInv, ConnsOK, IsConn
  <2>5. NoLinks'
    BY <2>4 DEF IInv, NoLinks, Read
  <2>6. LinksAlive'
    BY <2>4, Mates DEF IInv, LinksAlive
  <2>7. QED
    BY <2>3, <2>5, <2>6 DEF IInv
<1>2. CASE peer = None
  <2> DEFINE cn == [Received(e, wire[e]) EXCEPT !.flags = @ \cup gone]
  <2>1. conn' = [conn EXCEPT ![e] = cn]
    BY <1>2 DEF Read
  <2>2. SameLink(conn[e], Received(e, wire[e]))
    BY ReceivedLinks DEF IInv
  <2>3. SameLink(conn[e], cn)
    BY <2>2 DEF SameLink, IsConn
  <2>4. QED
    BY <2>1, <2>3, SameLinkKeeps DEF Read
<1>3. QED
  BY <1>1, <1>2

\* Writing changes the connection that writes.
LEMMA WriteKeeps ==
    ASSUME IInv, NEW m, NEW e \in Ends, Write(m, e)
    PROVE  IInv'
<1>1. IsConn(conn[e])
  BY DEF IInv, ConnsOK
<1>2. ASSUME NEW cn, SameLink(conn[e], cn) PROVE SameLink(conn[e], AfterSend(e, cn))
  BY <1>2, TransferLinks DEF AfterSend, SameLink
<1>3. threaded' = threaded
  BY DEF Write
<1>4. CASE conn' = conn
  BY <1>3, <1>4 DEF IInv, ConnsOK, LinksAlive, NoLinks
<1>5. ASSUME NEW n,
             conn' = [conn EXCEPT ![e] =
                AfterSend(e, [conn[e] EXCEPT !.send = SubSeq(@, n + 1, Len(@))])]
      PROVE  IInv'
  <2> DEFINE cn == [conn[e] EXCEPT !.send = SubSeq(@, n + 1, Len(@))]
  <2>1. conn' = [conn EXCEPT ![e] = AfterSend(e, cn)]
    BY <1>5
  <2>2. SameLink(conn[e], cn)
    BY <1>1 DEF SameLink, IsConn
  <2> HIDE DEF cn
  <2>3. QED
    BY <1>2, <1>3, <2>1, <2>2, SameLinkKeeps
<1>6. CASE conn' = [conn EXCEPT ![e] =
                      AfterSend(e, [conn[e] EXCEPT !.flags = @ \cup {"close"}])]
  <2> DEFINE cn == [conn[e] EXCEPT !.flags = @ \cup {"close"}]
  <2>1. conn' = [conn EXCEPT ![e] = AfterSend(e, cn)]
    BY <1>6
  <2>2. SameLink(conn[e], cn)
    BY <1>1 DEF SameLink, IsConn
  <2> HIDE DEF cn
  <2>3. QED
    BY <1>2, <1>3, <2>1, <2>2, SameLinkKeeps
<1>7. QED
  BY <1>4, <1>5, <1>6 DEF Write

\* Accepting makes the two ends of one link at once.
LEMMA AcceptKeeps ==
    ASSUME IInv, NEW c \in Clients, Accept(c)
    PROVE  IInv'
<1> DEFINE nc == <<c, "nc">>
           c0 == <<c, "c0">>
           c1 == <<c, "c1">>
<1>1. IsConn(Gone) /\ Gone.peer = None
  BY DEF Gone, IsConn
<1>2. IsConn(Fresh) /\ Fresh.alive = TRUE /\ Fresh.peer = None
  BY <1>1 DEF Fresh, IsConn
<1>3. \A p : IsConn([Fresh EXCEPT !.peer = p]) /\ [Fresh EXCEPT !.peer = p].peer = p
                 /\ [Fresh EXCEPT !.peer = p].alive = TRUE
  BY <1>2 DEF IsConn
<1>4. nc \in Ends /\ c0 \in Ends /\ c1 \in Ends /\ nc # c0 /\ nc # c1 /\ c0 # c1
  BY DEF Ends
<1>5. nc # None /\ c0 # None
  BY MeerkatAssumption
<1>6. \A x \in Ends : x \notin {nc, c0, c1} => Mate(x) \notin {nc, c0, c1}
  BY DEF Mate, Ends
<1>7. Mate(nc) = c0 /\ Mate(c0) = nc
  BY DEF Mate
<1>8. CASE threaded
  <2>1. conn' = [conn EXCEPT ![nc] = [Fresh EXCEPT !.peer = c0],
                             ![c0] = [Fresh EXCEPT !.peer = nc],
                             ![c1] = Fresh]
    BY <1>8 DEF Accept
  <2>2. conn'[nc] = [Fresh EXCEPT !.peer = c0] /\ conn'[c0] = [Fresh EXCEPT !.peer = nc]
        /\ conn'[c1] = Fresh
        /\ \A x \in Ends : x \notin {nc, c0, c1} => conn'[x] = conn[x]
    BY <2>1, <1>4 DEF IInv, ConnsOK
  <2>3. conn' = [x \in Ends |-> conn'[x]]
    BY <2>1 DEF IInv, ConnsOK
  <2>4. ConnsOK'
    BY <2>2, <2>3, <1>2, <1>3 DEF IInv, ConnsOK
  <2>5. ASSUME NEW x \in Ends, conn'[x].peer # None
        PROVE  /\ x[2] # "c1" /\ conn'[x].peer = Mate(x)
               /\ conn'[x].alive /\ conn'[Mate(x)].alive
               /\ conn'[Mate(x)].peer = x
    <3>1. CASE x = nc
      BY <3>1, <2>2, <1>3, <1>7
    <3>2. CASE x = c0
      BY <3>2, <2>2, <1>3, <1>7
    <3>3. CASE x = c1
      BY <3>3, <2>2, <2>5, <1>2
    <3>4. CASE x \notin {nc, c0, c1}
      BY <3>4, <2>2, <2>5, <1>6, Mates DEF IInv, LinksAlive
    <3>5. QED
      BY <3>1, <3>2, <3>3, <3>4
  <2>6. NoLinks'
    BY <1>8 DEF NoLinks, Accept
  <2>7. QED
    BY <2>4, <2>5, <2>6 DEF IInv, LinksAlive
<1>9. CASE ~threaded
  <2>1. conn' = [conn EXCEPT ![nc] = Fresh]
    BY <1>9 DEF Accept
  <2>2. \A x \in Ends : conn[x].peer = None
    BY <1>9 DEF IInv, NoLinks
  <2>3. \A x \in Ends : conn'[x].peer = None /\ IsConn(conn'[x])
    BY <2>1, <2>2, <1>2, <1>4 DEF IInv, ConnsOK
  <2>4. conn' = [x \in Ends |-> conn'[x]]
    BY <2>1 DEF IInv, ConnsOK
  <2>5. QED
    BY <2>3, <2>4 DEF IInv, ConnsOK, NoLinks, LinksAlive
<1>10. QED
  BY <1>8, <1>9

\* Closing takes both pointers of a link away before either end is destroyed.
LEMMA ClosedKeeps ==
    ASSUME IInv, NEW m, NEW e \in Ends, Closed(m, e), threaded' = threaded
    PROVE  IInv'
<1> DEFINE p == conn[e].peer
<1>1. IsConn(Gone) /\ Gone.peer = None
  BY DEF Gone, IsConn
<1>2. CASE p = None
  <2>1. conn' = [conn EXCEPT ![e] = Gone]
    BY <1>2 DEF Closed, Unlinked
  <2>2. \A x \in Ends : x # e => conn'[x] = conn[x]
    BY <2>1 DEF IInv, ConnsOK
  <2>3. conn'[e] = Gone
    BY <2>1 DEF IInv, ConnsOK
  <2>4. ConnsOK'
    BY <2>1, <2>2, <2>3, <1>1 DEF IInv, ConnsOK
  <2>5. NoLinks'
    BY <2>2, <2>3, <1>1 DEF IInv, NoLinks
  <2>6. \A x \in Ends : conn[x].peer # None => Mate(x) # e
    BY <1>2, MeerkatAssumption DEF IInv, LinksAlive, Ends
  <2>7. LinksAlive'
    BY <2>2, <2>3, <2>6, <1>1, Mates DEF IInv, LinksAlive
  <2>8. QED
    BY <2>4, <2>5, <2>7 DEF IInv
<1>3. CASE p # None
  <2>1. conn' = [[conn EXCEPT ![p].flags = @ \cup {"send and close"},
                              ![p].peer = None] EXCEPT ![e] = Gone]
    BY <1>3 DEF Closed, Unlinked
  <2>2. e[2] # "c1" /\ p = Mate(e) /\ p \in Ends /\ p # e /\ Mate(p) = e
    BY <1>3, Mates DEF IInv, LinksAlive
  <2>3. \A x \in Ends : x \notin {e, p} => conn'[x] = conn[x]
    BY <2>1, <2>2 DEF IInv, ConnsOK
  <2>4. conn'[e] = Gone /\ IsConn(conn'[p]) /\ conn'[p].peer = None
    BY <2>1, <2>2 DEF IInv, ConnsOK, IsConn
  <2>5. conn' = [x \in Ends |-> conn'[x]]
    BY <2>1 DEF IInv, ConnsOK
  <2>6. ConnsOK'
    BY <2>3, <2>4, <2>5, <1>1 DEF IInv, ConnsOK
  <2>7. NoLinks'
    BY <2>3, <2>4, <1>1 DEF IInv, NoLinks
  <2>8. \A x \in Ends : conn[x].peer # None /\ x \notin {e, p}
                           => Mate(x) \notin {e, p}
    BY <2>2, Mates DEF IInv, LinksAlive
  <2>9. LinksAlive'
    BY <2>3, <2>4, <2>8, <1>1, Mates DEF IInv, LinksAlive
  <2>10. QED
    BY <2>6, <2>7, <2>9 DEF IInv
<1>4. QED
  BY <1>2, <1>3

\* No link at the start.
LEMMA LinksStart == Init => IInv
<1> SUFFICES ASSUME Init PROVE IInv
  OBVIOUS
<1>1. IsConn(Gone) /\ Gone.peer = None
  BY DEF Gone, IsConn
<1>2. QED
  BY <1>1 DEF Init, IInv, ConnsOK, NoLinks, LinksAlive

\* Every step keeps the links.
LEMMA LinksStay == IInv /\ [Next]_vars => IInv'
<1> SUFFICES ASSUME IInv, [Next]_vars PROVE IInv'
  OBVIOUS
<1>1. CASE conn' = conn /\ threaded' = threaded
  BY <1>1 DEF IInv, ConnsOK, NoLinks, LinksAlive
<1>2. ASSUME NEW m \in Managers, ManagerStep(m) PROVE IInv'
  <2>1. CASE Select(m) \/ BeginClose(m) \/ EndPoll(m) \/ FreeListener \/ StartThread(m)
    BY <2>1, <1>1 DEF Select, BeginClose, EndPoll, FreeListener, StartThread
  <2>2. ASSUME NEW e \in EndsOf(m), Read(m, e) PROVE IInv'
    BY <2>2, ReadKeeps DEF EndsOf
  <2>3. ASSUME NEW e \in EndsOf(m), Write(m, e) PROVE IInv'
    BY <2>3, WriteKeeps DEF EndsOf
  <2>4. ASSUME NEW e \in EndsOf(m), Close(m, e) PROVE IInv'
    <3>1. CASE ToClose(e)
      BY <2>4, <3>1, ClosedKeeps DEF EndsOf, Close
    <3>2. CASE ~ToClose(e)
      BY <2>4, <3>2, <1>1 DEF Close
    <3>3. QED
      BY <3>1, <3>2
  <2>5. ASSUME NEW e \in EndsOf(m), Free(e) PROVE IInv'
    BY <2>5, ClosedKeeps DEF EndsOf, Free
  <2>6. ASSUME NEW c \in Clients, Accept(c) PROVE IInv'
    BY <2>6, AcceptKeeps
  <2>7. QED
    BY <1>2, <2>1, <2>2, <2>3, <2>4, <2>5, <2>6 DEF ManagerStep
<1>3. ASSUME NEW c \in Clients,
             Connect(c) \/ Leave(c) \/ BrowserStep(c) \/ \E kind \in Kinds : Ask(c, kind)
      PROVE  IInv'
  BY <1>3, <1>1 DEF Connect, Leave, BrowserStep, AskRest, Receive, SeeEnd, Ask
<1>4. CASE Stop
  BY <1>4, <1>1 DEF Stop
<1>5. CASE UNCHANGED vars
  BY <1>5, <1>1 DEF vars
<1>6. QED
  BY <1>2, <1>3, <1>4, <1>5 DEF Next

\* No step of the server or of a browser leaves a link to a connection that
\* is destroyed, or across threads: a forwarder follows its pointer without
\* asking, and may (mg_forward, unlink_conns).
THEOREM LinksStayAlive == Spec => []LinksAlive
<1>1. QED
  BY LinksStart, LinksStay, PTL DEF Spec, IInv

-----------------------------------------------------------------------------
(* What is on the way between a browser and the end that serves it.        *)

\* The ends of a client, and the connection that runs the handler for it.
NC(c) == <<c, "nc">>
C0(c) == <<c, "c0">>
C1(c) == <<c, "c1">>
Http(c) == conn[HttpEnd(c)]

\* What goes over a wire: a part of a request, or of an answer.
Msg == [req : Nat, kind : Kinds] \cup [req : Nat, part : Nat]

\* The parts of the answer the browser has, and those that can reach it.
Stream(c) ==
    IF threaded /\ conn[NC(c)].peer # None
    THEN ((browser[c].got \o toBrowser[c]) \o conn[NC(c)].send)
            \o (wire[C0(c)] \o conn[C1(c)].send)
    ELSE (browser[c].got \o toBrowser[c]) \o conn[NC(c)].send

\* The parts of requests on their way to the end that serves them.
Requests(c) ==
    IF threaded THEN Http(c).recv \o ((wire[C1(c)] \o conn[C0(c)].send) \o wire[NC(c)])
    ELSE Http(c).recv \o wire[NC(c)]

\* The parts of the answer to the last request.
Limit(asked) == IF asked = <<>> THEN 0 ELSE AnswerLen[asked[Len(asked)]]

\* s is the beginning of the answer to the last request.
InOrder(asked, s) ==
    /\ Len(s) <= Limit(asked)
    /\ \A i \in 1 .. Len(s) : s[i] = [req |-> Len(asked), part |-> i]

\* The serving end has still to be reached by requests, or can be.
Reaches(c) ==
    \/ c \in backlog
    \/ /\ conn[NC(c)].alive
       /\ threaded => conn[NC(c)].peer # None /\ conn[C1(c)].alive

\* No chunk of a file is left.
Rested(cn) == cn.file = None \/ cn.file.sent = FileChunks

\* How far the last request of b is, with u of requests and s of answers on
\* the way and cn the serving end. Nothing has been asked.
Idle(b, u, s, cn) ==
    Len(b.asked) = 0 /\ b.sent = 0 /\ u = <<>> /\ s = <<>> /\ cn.flags = {} /\ Rested(cn)

\* What has been sent of the last request has not been handled.
Waits(b, u, s, cn) ==
    /\ Len(b.asked) > 0 /\ b.asked[Len(b.asked)] # "garbled" /\ b.sent \in {1, 2}
    /\ Len(u) = b.sent
    /\ \A i \in 1 .. b.sent : u[i] = [req |-> Len(b.asked), kind |-> b.asked[Len(b.asked)]]
    /\ s = <<>> /\ cn.flags = {} /\ Rested(cn)

\* The last request has been handled; of a file some chunks may be left.
Answers(b, u, s, cn) ==
    /\ Len(b.asked) > 0 /\ b.asked[Len(b.asked)] \in {"rest", "file"} /\ b.sent = 2
    /\ u = <<>> /\ cn.flags = {} /\ cn.alive
    /\ \/ Rested(cn)
       \/ /\ b.asked[Len(b.asked)] = "file"
          /\ cn.file.req = Len(b.asked) /\ Len(s) = 1 + cn.file.sent

\* It was for a listing, after which the connection is to be closed.
Lists(b, u, s, cn) ==
    /\ Len(b.asked) > 0 /\ b.asked[Len(b.asked)] = "listing" /\ b.sent = 2
    /\ u = <<>> /\ Len(s) = 2
    /\ cn.flags = {"send and close"} /\ cn.alive /\ Rested(cn)

\* A request that does not parse comes before all others on the way.
Garbles(b, u, s, cn) ==
    /\ \E i \in 1 .. Len(b.asked) : b.asked[i] = "garbled"
    /\ u # <<>> /\ u[1].kind = "garbled" /\ s = <<>>
    /\ cn.flags \subseteq {"close"} /\ Rested(cn)

\* The browser has asked again after a listing: that is not answered.
Over(b, u, s, cn) ==
    /\ \E i \in 1 .. Len(b.asked) - 1 : b.asked[i] = "listing"
    /\ cn.flags = {"send and close"} /\ cn.alive /\ s = <<>> /\ Rested(cn)

Phase(b, u, s, cn) ==
    \/ Idle(b, u, s, cn) \/ Waits(b, u, s, cn) \/ Answers(b, u, s, cn)
    \/ Lists(b, u, s, cn) \/ Garbles(b, u, s, cn) \/ Over(b, u, s, cn)

\* The last request is for a listing and has been sent.
ListsLast(b) == Len(b.asked) > 0 /\ b.asked[Len(b.asked)] = "listing" /\ b.sent = 2

\* The serving end is lost and the whole answer to a listing is on its way:
\* what is left of the way is closed behind it.
EndsAll(c) ==
    /\ ListsLast(browser[c]) /\ Len(Stream(c)) = 2 /\ wire[NC(c)] = <<>>
    /\ "close" \notin conn[NC(c)].flags
    /\ threaded /\ conn[NC(c)].peer # None =>
          /\ conn[C0(c)].send = <<>>
          /\ conn[C0(c)].flags \subseteq {"close"}
          /\ "close" \in conn[C0(c)].flags => wire[C0(c)] = <<>>

\* A request before the last, or the last that has no answer, ends it.
CutOff(asked) ==
    \E i \in 1 .. Len(asked) :
        \/ asked[i] = "garbled"
        \/ asked[i] = "listing" /\ i < Len(asked)

\* Such a request has ended the exchange and nothing is on its way.
EndedBefore(c) == CutOff(browser[c].asked) /\ Stream(c) = <<>>

\* The browser may learn that the connection is closed.
Doomed(c) == EndsAll(c) \/ EndedBefore(c)

\* The exchange of a browser that has not left is in one of these states.
Exch(c) ==
    browser[c].pc = "open" =>
        /\ InOrder(browser[c].asked, Stream(c))
        /\ Reaches(c) =>
              /\ Phase(browser[c], Requests(c), Stream(c), Http(c))
              /\ threaded => conn[NC(c)].flags = {} /\ conn[C0(c)].flags = {}
        /\ ~Reaches(c) /\ running => Doomed(c)

\* Nothing of a client that has not been accepted is there.
Unaccepted(c) ==
    /\ browser[c].pc = "new" \/ c \in backlog =>
          /\ conn[NC(c)] = Gone /\ conn[C0(c)] = Gone /\ conn[C1(c)] = Gone
          /\ wire[C0(c)] = <<>> /\ wire[C1(c)] = <<>> /\ toBrowser[c] = <<>>
          /\ browser[c].got = <<>>
    /\ browser[c].pc = "new" =>
          /\ wire[NC(c)] = <<>> /\ c \notin backlog
          /\ browser[c].asked = <<>> /\ browser[c].sent = 0

-----------------------------------------------------------------------------
(* Types.                                                                  *)

\* The file of a connection, its buffers, and the fields of the records.
Files == {None} \cup [req : Nat, sent : 0 .. FileChunks]

BuffersOK(cn) == cn.recv \in Seq(Msg) /\ cn.send \in Seq(Msg) /\ cn.file \in Files

BrowserOK(b) ==
    /\ b = [field \in DOMAIN b |-> b[field]]
    /\ DOMAIN b = {"pc", "asked", "sent", "got"}
    /\ b.asked \in Seq(Kinds) /\ b.sent \in 0 .. 2 /\ b.got \in Seq(Msg)
    /\ b.asked = <<>> => b.sent = 0

ThreadOK(t) ==
    /\ t = [field \in DOMAIN t |-> t[field]]
    /\ DOMAIN t = {"pc", "todo", "last"}

Typed ==
    /\ threaded \in BOOLEAN /\ running \in BOOLEAN
    /\ \A e \in Ends : BuffersOK(conn[e])
    /\ wire \in [Ends -> Seq(Msg)] /\ toBrowser \in [Clients -> Seq(Msg)]
    /\ browser = [c \in Clients |-> browser[c]]
    /\ \A c \in Clients : BrowserOK(browser[c])
    /\ list \in [Managers -> Seq(Ends)]
    /\ mgr = [m \in Managers |-> mgr[m]]
    /\ \A m \in Managers : ThreadOK(mgr[m])

-----------------------------------------------------------------------------
(* Sequences.                                                              *)

\* The first n of t go over to s.
LEMMA MoveSome ==
    ASSUME NEW s \in Seq(Msg), NEW t \in Seq(Msg), NEW n \in 1 .. Len(t)
    PROVE  /\ SubSeq(t, 1, n) \in Seq(Msg) /\ SubSeq(t, n + 1, Len(t)) \in Seq(Msg)
           /\ (s \o SubSeq(t, 1, n)) \o SubSeq(t, n + 1, Len(t)) = s \o t
           /\ Len(SubSeq(t, n + 1, Len(t))) < Len(t)
<1> DEFINE a == SubSeq(t, 1, n)
           b == SubSeq(t, n + 1, Len(t))
<1>1. a \in Seq(Msg) /\ b \in Seq(Msg)
  BY SubSeqProperties, ElementOfSeq
<1>2. a \o b = t
  BY ConcatAdjacentSubSeq, SubSeqFull
<1>3. Len(b) < Len(t)
  OBVIOUS
<1> HIDE DEF a, b
<1>4. (s \o a) \o b = s \o (a \o b)
  BY <1>1, ConcatAssociative
<1>5. (s \o a) \o b = s \o t
  BY <1>2, <1>4
<1> USE DEF a, b
<1>6. QED
  BY <1>1, <1>3, <1>5

\* What is not empty has a first part.
LEMMA NotEmpty ==
    ASSUME NEW s \in Seq(Msg), s # <<>>
    PROVE  Len(s) \in Nat /\ Len(s) > 0 /\ s[1] \in Msg
OBVIOUS

\* Putting sequences of parts together associates.
LEMMA Assoc ==
    ASSUME NEW s \in Seq(Msg), NEW t \in Seq(Msg), NEW u \in Seq(Msg)
    PROVE  (s \o t) \o u = s \o (t \o u)
BY ConcatAssociative

\* Nothing put before or after a sequence leaves it.
LEMMA NoneAdded ==
    ASSUME NEW s \in Seq(Msg)
    PROVE  s \o <<>> = s /\ <<>> \o s = s
BY ConcatEmptySeq

\* All of t goes over to s.
LEMMA MoveAll ==
    ASSUME NEW r \in Seq(Msg), NEW s \in Seq(Msg), NEW t \in Seq(Msg), NEW u \in Seq(Msg)
    PROVE  /\ s \o t \in Seq(Msg) /\ s \o <<>> = s /\ <<>> \o s = s
           /\ (s \o t) \o u = s \o (t \o u)
           /\ (r \o (s \o t)) \o (<<>> \o u) = (r \o s) \o (t \o u)
           /\ s \o ((t \o <<>>) \o u) = s \o (t \o u)
<1>1. s \o t \in Seq(Msg) /\ s \o <<>> = s /\ <<>> \o s = s /\ <<>> \o u = u
      /\ t \o <<>> = t
  BY ConcatProperties, ConcatEmptySeq
<1>2. (s \o t) \o u = s \o (t \o u)
  BY ConcatAssociative
<1>3. t \o u \in Seq(Msg) /\ r \o s \in Seq(Msg)
  BY ConcatProperties
<1>4. (r \o (s \o t)) \o u = (r \o s) \o (t \o u)
  <2>1. r \o (s \o t) = (r \o s) \o t
    BY ConcatAssociative
  <2>2. ASSUME NEW x \in Seq(Msg) PROVE (x \o t) \o u = x \o (t \o u)
    BY ConcatAssociative
  <2>3. QED
    BY <1>3, <2>1, <2>2
<1>5. QED
  BY <1>1, <1>2, <1>4

\* What two sequences put together are.
LEMMA ConcatEmpty ==
    ASSUME NEW s \in Seq(Msg), NEW t \in Seq(Msg)
    PROVE  /\ s \o t \in Seq(Msg) /\ Len(s \o t) = Len(s) + Len(t)
           /\ s \o t = <<>> => s = <<>> /\ t = <<>>
           /\ s # <<>> => (s \o t)[1] = s[1] /\ s \o t # <<>>
           /\ \A i \in 1 .. Len(s) : (s \o t)[i] = s[i]
           /\ Len(s) \in Nat /\ Len(t) \in Nat
<1>1. /\ s \o t \in Seq(Msg) /\ Len(s \o t) = Len(s) + Len(t)
      /\ Len(s) \in Nat /\ Len(t) \in Nat
      /\ \A i \in 1 .. Len(s) + Len(t) : (s \o t)[i] = IF i <= Len(s) THEN s[i] ELSE t[i - Len(s)]
  BY ConcatProperties, LenProperties
<1>2. s \o t = <<>> => s = <<>> /\ t = <<>>
  BY ConcatEqualIffEmpty
<1>3. \A i \in 1 .. Len(s) : (s \o t)[i] = s[i]
  BY <1>1
<1>4. s # <<>> => (s \o t)[1] = s[1] /\ s \o t # <<>>
  BY <1>1, <1>2, <1>3, EmptySeq
<1>5. QED
  BY <1>1, <1>2, <1>3, <1>4

\* What is in order up to its end is in order up to any place.
LEMMA InOrderPrefix ==
    ASSUME NEW asked, NEW s \in Seq(Msg), NEW t \in Seq(Msg), InOrder(asked, s \o t),
           Limit(asked) \in Nat
    PROVE  InOrder(asked, s)
BY ConcatEmpty DEF InOrder

\* What comes at the end of t comes at the end of both.
LEMMA AppendTo ==
    ASSUME NEW s \in Seq(Msg), NEW t \in Seq(Msg), NEW p \in Msg
    PROVE  Append(t, p) \in Seq(Msg) /\ s \o Append(t, p) = Append(s \o t, p)
<1>1. Append(t, p) = t \o <<p>> /\ <<p>> \in Seq(Msg) /\ Append(t, p) \in Seq(Msg)
  BY AppendIsConcat, AppendProperties
<1>2. s \o t \in Seq(Msg)
  BY ConcatProperties
<1>3. Append(s \o t, p) = (s \o t) \o <<p>>
  BY <1>2, AppendIsConcat
<1>4. QED
  BY <1>1, <1>3, ConcatAssociative

\* The first of t goes over to s.
LEMMA MoveFirst ==
    ASSUME NEW s \in Seq(Msg), NEW t \in Seq(Msg), t # <<>>
    PROVE  /\ Append(s, Head(t)) \in Seq(Msg) /\ Tail(t) \in Seq(Msg)
           /\ Append(s, Head(t)) \o Tail(t) = s \o t
<1> DEFINE h == <<Head(t)>>
           r == Tail(t)
<1>1. Head(t) \in Msg /\ r \in Seq(Msg) /\ h \in Seq(Msg)
  BY HeadTailProperties
<1>2. Append(s, Head(t)) = s \o h /\ Append(s, Head(t)) \in Seq(Msg)
  BY <1>1, AppendIsConcat, AppendProperties
<1>3. h \o r = t
  OBVIOUS
<1> HIDE DEF h, r
<1>4. (s \o h) \o r = s \o (h \o r)
  BY <1>1, ConcatAssociative
<1>5. Append(s, Head(t)) \o r = s \o t
  BY <1>2, <1>3, <1>4
<1> USE DEF r
<1>6. QED
  BY <1>1, <1>2, <1>5

-----------------------------------------------------------------------------
(* The phases of an exchange.                                              *)

\* The lengths of the answers.
LEMMA Limits ==
    ASSUME NEW asked \in Seq(Kinds)
    PROVE  /\ Limit(asked) \in Nat
           /\ asked # <<>> =>
                /\ asked[Len(asked)] \in Kinds /\ Len(asked) \in Nat /\ Len(asked) > 0
                /\ asked[Len(asked)] \in {"rest", "listing"} => Limit(asked) = 2
                /\ asked[Len(asked)] = "file" => Limit(asked) = 1 + FileChunks
                /\ asked[Len(asked)] = "garbled" => Limit(asked) = 0
           /\ asked = <<>> => Limit(asked) = 0 /\ Len(asked) = 0
<1>1. CASE asked = <<>>
  BY <1>1 DEF Limit
<1>2. CASE asked # <<>>
  <2>1. asked[Len(asked)] \in Kinds /\ Len(asked) \in Nat /\ Len(asked) > 0
    BY <1>2, EmptySeq, ElementOfSeq
  <2>2. asked[Len(asked)] \in {"rest", "file", "listing", "garbled"}
    BY <2>1, MeerkatAssumption
  <2>3. /\ AnswerLen[asked[Len(asked)]] \in Nat
        /\ asked[Len(asked)] \in {"rest", "listing"} => AnswerLen[asked[Len(asked)]] = 2
        /\ asked[Len(asked)] = "file" => AnswerLen[asked[Len(asked)]] = 1 + FileChunks
        /\ asked[Len(asked)] = "garbled" => AnswerLen[asked[Len(asked)]] = 0
    BY <2>1, <2>2, MeerkatAssumption DEF AnswerLen
  <2>4. QED
    BY <1>2, <2>1, <2>3 DEF Limit
<1>3. QED
  BY <1>1, <1>2

\* The phase is seen on the flags, the life and the file of the serving end.
LEMMA PhaseSame ==
    ASSUME NEW b, NEW u, NEW s, NEW cn, NEW dn, Phase(b, u, s, cn),
           dn.flags = cn.flags, dn.file = cn.file, cn.alive => dn.alive
    PROVE  Phase(b, u, s, dn)
BY DEF Phase, Idle, Waits, Answers, Lists, Garbles, Over, Rested

\* The browser asks again when it has the whole answer.
LEMMA PhaseAsk ==
    ASSUME NEW b, NEW u \in Seq(Msg), NEW s \in Seq(Msg), NEW cn, BrowserOK(b),
           BuffersOK(cn), Phase(b, u, s, cn), InOrder(b.asked, s), Len(s) = Limit(b.asked),
           b.sent \in {0, 2}, NEW kind \in Kinds, NEW d,
           d.asked = Append(b.asked, kind), d.sent = 1
    PROVE  Phase(d, Append(u, [req |-> Len(b.asked) + 1, kind |-> kind]), <<>>, cn)
<1> DEFINE n == Len(b.asked)
           p == [req |-> n + 1, kind |-> kind]
<1>1. n \in Nat /\ p \in Msg
  BY DEF BrowserOK, Msg
<1>2. /\ Len(d.asked) = n + 1 /\ d.asked[n + 1] = kind
      /\ \A i \in 1 .. n : d.asked[i] = b.asked[i]
  BY AppendProperties DEF BrowserOK
<1>3. /\ Len(Append(u, p)) = Len(u) + 1 /\ Append(u, p)[Len(u) + 1] = p
      /\ Append(u, p) # <<>> /\ u # <<>> => Append(u, p)[1] = u[1]
      /\ Len(u) \in Nat
  <2>1. u # <<>> => 1 \in 1 .. Len(u)
    BY EmptySeq
  <2>2. QED
    BY <1>1, <2>1, AppendProperties, LenProperties
<1>4. ASSUME u = <<>>, cn.flags = {}, Rested(cn)
      PROVE  Phase(d, Append(u, p), <<>>, cn)
  <2>1. Len(u) = 0
    BY <1>4
  <2>2. CASE kind = "garbled"
    BY <1>1, <1>2, <1>3, <1>4, <2>1, <2>2 DEF Phase, Garbles
  <2>3. CASE kind # "garbled"
    BY <1>1, <1>2, <1>3, <1>4, <2>1, <2>3 DEF Phase, Waits
  <2>4. QED
    BY <2>2, <2>3
<1>5. CASE Idle(b, u, s, cn)
  BY <1>4, <1>5 DEF Idle
<1>6. CASE Waits(b, u, s, cn)
  <2>1. b.asked # <<>> /\ Len(s) = 0
    BY <1>6 DEF Waits, BrowserOK
  <2>2. b.asked[n] \in {"rest", "file", "listing"} /\ Limit(b.asked) > 0
    BY <1>6, <2>1, Limits, MeerkatAssumption DEF Waits, BrowserOK
  <2>3. QED
    BY <2>1, <2>2
<1>7. CASE Answers(b, u, s, cn)
  <2>1. b.asked # <<>>
    BY <1>7 DEF Answers, BrowserOK
  <2>2. Rested(cn)
    <3>1. CASE Rested(cn)
      BY <3>1
    <3>2. CASE ~Rested(cn)
      <4>1. cn.file \in [req : Nat, sent : 0 .. FileChunks]
        BY <3>2 DEF BuffersOK, Files, Rested
      <4>2. b.asked[n] = "file" /\ Len(s) = 1 + cn.file.sent
        BY <1>7, <3>2 DEF Answers
      <4>3. 1 + cn.file.sent = 1 + FileChunks
        BY <2>1, <4>2, Limits DEF BrowserOK
      <4>4. cn.file.sent = FileChunks
        BY <4>1, <4>3, MeerkatAssumption
      <4>5. QED
        BY <4>4 DEF Rested
    <3>3. QED
      BY <3>1, <3>2
  <2>3. QED
    BY <1>4, <1>7, <2>2 DEF Answers
<1>8. CASE Lists(b, u, s, cn)
  <2>1. n > 0 /\ b.asked[n] = "listing"
    BY <1>8 DEF Lists
  <2>2. n \in 1 .. n /\ n \in 1 .. Len(d.asked) - 1
    BY <1>1, <1>2, <2>1
  <2>3. d.asked[n] = "listing"
    BY <1>2, <2>1, <2>2
  <2>4. QED
    BY <1>8, <2>2, <2>3 DEF Phase, Over, Lists
<1>9. CASE Garbles(b, u, s, cn)
  <2>1. \E i \in 1 .. Len(d.asked) : d.asked[i] = "garbled"
    BY <1>1, <1>2, <1>9 DEF Garbles
  <2>2. QED
    BY <1>3, <1>9, <2>1 DEF Phase, Garbles
<1>10. CASE Over(b, u, s, cn)
  <2>1. PICK i \in 1 .. Len(b.asked) - 1 : b.asked[i] = "listing"
    BY <1>10 DEF Over
  <2>2. i \in 1 .. n /\ i \in 1 .. Len(d.asked) - 1
    BY <1>1, <1>2, <2>1
  <2>3. d.asked[i] = "listing"
    BY <1>2, <2>1, <2>2
  <2>4. QED
    BY <1>10, <2>2, <2>3 DEF Phase, Over
<1>11. QED
  BY <1>5, <1>6, <1>7, <1>8, <1>9, <1>10 DEF Phase

\* It sends the second part.
LEMMA PhaseAskRest ==
    ASSUME NEW b, NEW u \in Seq(Msg), NEW s, NEW cn, BrowserOK(b), Phase(b, u, s, cn),
           b.sent = 1, NEW d, d.asked = b.asked, d.sent = 2
    PROVE  /\ b.asked # <<>>
           /\ Phase(d, Append(u, [req |-> Len(b.asked), kind |-> b.asked[Len(b.asked)]]),
                    s, cn)
<1> DEFINE n == Len(b.asked)
           p == [req |-> n, kind |-> b.asked[n]]
<1>1. b.asked # <<>>
  <2>1. b.asked = <<>> => Len(b.asked) = 0
    OBVIOUS
  <2>2. Waits(b, u, s, cn) \/ Garbles(b, u, s, cn) \/ Over(b, u, s, cn)
    BY DEF Phase, Idle, Answers, Lists
  <2>3. CASE Waits(b, u, s, cn)
    BY <2>1, <2>3 DEF Waits
  <2>4. CASE Garbles(b, u, s, cn)
    BY <2>1, <2>4 DEF Garbles
  <2>5. CASE Over(b, u, s, cn)
    <3>1. PICK i \in 1 .. Len(b.asked) - 1 : b.asked[i] = "listing"
      BY <2>5 DEF Over
    <3>2. Len(b.asked) \in Nat
      BY LenProperties DEF BrowserOK
    <3>3. Len(b.asked) # 0
      BY <3>1, <3>2
    <3>4. QED
      BY <2>1, <3>3
  <2>6. QED
    BY <2>2, <2>3, <2>4, <2>5
<1>2. n \in Nat /\ b.asked[n] \in Kinds /\ p \in Msg
  BY <1>1, Limits DEF BrowserOK, Msg
<1>3. /\ Len(Append(u, p)) = Len(u) + 1 /\ Append(u, p)[Len(u) + 1] = p
      /\ Append(u, p) # <<>>
      /\ \A i \in 1 .. Len(u) : Append(u, p)[i] = u[i]
      /\ Len(u) \in Nat
  BY <1>2, AppendProperties, LenProperties
<1>4. u # <<>> => Append(u, p)[1] = u[1]
  BY <1>3, EmptySeq
<1>5. CASE Waits(b, u, s, cn)
  <2>1. Len(Append(u, p)) = 2 /\ Append(u, p)[1] = p /\ Append(u, p)[2] = p
    BY <1>3, <1>5 DEF Waits
  <2>2. QED
    BY <1>1, <1>5, <2>1 DEF Waits, Phase
<1>6. CASE Garbles(b, u, s, cn)
  BY <1>1, <1>3, <1>4, <1>6 DEF Garbles, Phase
<1>7. CASE Over(b, u, s, cn)
  BY <1>1, <1>7 DEF Over, Phase
<1>8. Waits(b, u, s, cn) \/ Garbles(b, u, s, cn) \/ Over(b, u, s, cn)
  BY DEF Phase, Idle, Answers, Lists
<1>9. QED
  BY <1>1, <1>5, <1>6, <1>7, <1>8

\* The chunks k further on of the file that cn sends.
Chunks(cn, k) ==
    [i \in 1 .. k |-> [req |-> cn.file.req, part |-> cn.file.sent + 1 + i]]

\* d is c after transfer_file_data: the same but for the file, or further on.
ToppedUp(c, d) ==
    \/ d.send = c.send /\ (d.file = c.file \/ (d.file = None /\ Rested(c)))
    \/ /\ c.file \in [req : Nat, sent : 0 .. FileChunks] /\ ~Rested(c)
       /\ \E k \in Nat \ {0} :
            /\ c.file.sent + k <= FileChunks
            /\ d.file.req = c.file.req /\ d.file.sent = c.file.sent + k
            /\ d.send = c.send \o Chunks(c, k)

\* transfer_file_data changes the send buffer and the file, and tops the one
\* up from the other.
LEMMA Transfers ==
    ASSUME NEW cn, IsConn(cn), BuffersOK(cn)
    PROVE  /\ IsConn(Transfer(cn)) /\ BuffersOK(Transfer(cn))
           /\ Transfer(cn).recv = cn.recv /\ Transfer(cn).flags = cn.flags
           /\ Transfer(cn).alive = cn.alive /\ Transfer(cn).peer = cn.peer
           /\ ToppedUp(cn, Transfer(cn))
<1> DEFINE left == FileChunks - cn.file.sent
           room == Room - Len(cn.send)
           n    == IF left < room THEN left ELSE room
           some == [cn EXCEPT !.send = @ \o Chunks(cn, n), !.file.sent = @ + n]
           none == [cn EXCEPT !.file = None]
<1>1. IsConn(Transfer(cn)) /\ Transfer(cn).alive = cn.alive /\ Transfer(cn).peer = cn.peer
  BY TransferLinks DEF SameLink
<1>2. CASE cn.file = None \/ room <= 0
  <2>1. Transfer(cn) = cn
    BY <1>2 DEF Transfer
  <2>2. ToppedUp(cn, cn)
    BY DEF ToppedUp
  <2>3. QED
    BY <2>1, <2>2
<1>3. CASE ~(cn.file = None \/ room <= 0)
  <2>1. cn.file \in [req : Nat, sent : 0 .. FileChunks]
    BY <1>3 DEF BuffersOK, Files
  <2>2. room \in Nat /\ left \in Nat /\ cn.file.sent \in Nat /\ FileChunks \in Nat
        /\ room > 0 /\ cn.file.req \in Nat
    BY <1>3, <2>1, MeerkatAssumption, LenProperties DEF BuffersOK
  <2>3. CASE left > 0
    <3>1. Transfer(cn) = some
      BY <1>3, <2>3 DEF Transfer, Chunks
    <3>2. n \in Nat \ {0} /\ cn.file.sent + n <= FileChunks
      BY <2>2, <2>3
    <3>3. ~Rested(cn)
      BY <1>3, <2>2, <2>3 DEF Rested
    <3>4. Chunks(cn, n) \in Seq(Msg)
      <4> HIDE DEF n
      <4>1. \A i \in 1 .. n : cn.file.sent + 1 + i \in Nat
        BY <2>2, <3>2
      <4>2. \A i \in 1 .. n : Chunks(cn, n)[i] \in Msg
        BY <2>2, <4>1 DEF Msg, Chunks
      <4>3. Chunks(cn, n) \in [1 .. n -> Msg]
        BY <4>2 DEF Chunks
      <4>4. QED
        BY <3>2, <4>3
    <3> HIDE DEF n
    <3>5. some.send = cn.send \o Chunks(cn, n) /\ some.recv = cn.recv
          /\ some.flags = cn.flags /\ some.file = [cn.file EXCEPT !.sent = @ + n]
      BY DEF IsConn
    <3>6. some.file.req = cn.file.req /\ some.file.sent = cn.file.sent + n
          /\ some.file \in [req : Nat, sent : 0 .. FileChunks]
      <4> DEFINE f == cn.file
      <4> HIDE DEF f, some
      <4>1. f \in [req : Nat, sent : 0 .. FileChunks] /\ f.sent + n \in 0 .. FileChunks
        BY <2>1, <2>2, <3>2 DEF f
      <4>2. some.file = [f EXCEPT !.sent = @ + n]
        BY <3>5 DEF f
      <4>3. some.file.req = f.req /\ some.file.sent = f.sent + n
            /\ some.file \in [req : Nat, sent : 0 .. FileChunks]
        BY <4>1, <4>2
      <4>4. QED
        BY <4>3 DEF f
    <3> HIDE DEF some
    <3>7. BuffersOK(some)
      BY <3>4, <3>5, <3>6, ConcatProperties DEF BuffersOK, Files
    <3>8. ToppedUp(cn, some)
      BY <2>1, <3>2, <3>3, <3>5, <3>6 DEF ToppedUp
    <3>9. QED
      BY <1>1, <3>1, <3>5, <3>7, <3>8
  <2>4. CASE ~(left > 0)
    <3>1. Transfer(cn) = none
      BY <1>3, <2>4 DEF Transfer
    <3>2. none.send = cn.send /\ none.recv = cn.recv /\ none.flags = cn.flags
          /\ none.file = None
      BY DEF IsConn
    <3>3. Rested(cn)
      BY <2>1, <2>2, <2>4 DEF Rested
    <3>4. BuffersOK(none)
      BY <3>2 DEF BuffersOK, Files
    <3>5. ToppedUp(cn, none)
      BY <3>2, <3>3 DEF ToppedUp
    <3> HIDE DEF none
    <3>6. QED
      BY <1>1, <3>1, <3>2, <3>4, <3>5
  <2>5. QED
    BY <2>3, <2>4
<1>4. QED
  BY <1>2, <1>3

\* The exchange with cn, of which pre has left the serving end.
Served(b, u, pre, cn) ==
    Phase(b, u, pre \o cn.send, cn) /\ InOrder(b.asked, pre \o cn.send)

\* A function on the first numbers is a sequence.
LEMMA FunctionIsSeq ==
    ASSUME NEW S, NEW k \in Nat, NEW f \in [1 .. k -> S]
    PROVE  f \in Seq(S)
BY SeqDef

\* The place of a chunk in what is put after n parts.
LEMMA PastEnd ==
    ASSUME NEW n \in Nat, NEW k \in Nat, NEW f \in Nat, n = 1 + f,
           NEW i \in 1 .. n + k, ~(i <= n)
    PROVE  i - n \in 1 .. k /\ f + 1 + (i - n) = i
OBVIOUS

\* Chunks continue the answer where it stands.
LEMMA ChunksInOrder ==
    ASSUME NEW asked, NEW s \in Seq(Msg), InOrder(asked, s), NEW cn, NEW k \in Nat,
           cn.file.req = Len(asked), cn.file.sent \in Nat, Len(s) = 1 + cn.file.sent,
           Limit(asked) = 1 + FileChunks, cn.file.sent + k <= FileChunks,
           Chunks(cn, k) \in Seq(Msg)
    PROVE  /\ InOrder(asked, s \o Chunks(cn, k))
           /\ Len(s \o Chunks(cn, k)) = 1 + (cn.file.sent + k)
<1> DEFINE t == Chunks(cn, k)
           n == Len(s)
<1>1. Len(t) = k /\ \A i \in 1 .. k :
         t[i] = [req |-> Len(asked), part |-> cn.file.sent + 1 + i]
  BY DEF Chunks
<1>2. t \in Seq(Msg)
  OBVIOUS
<1> HIDE DEF t
<1>3. /\ Len(s \o t) = n + k
      /\ \A i \in 1 .. n + k : (s \o t)[i] = IF i <= n THEN s[i] ELSE t[i - n]
  BY <1>1, <1>2, ConcatProperties
<1>4. n \in Nat /\ \A i \in 1 .. n : s[i] = [req |-> Len(asked), part |-> i]
  BY LenProperties DEF InOrder
<1> HIDE DEF n
<1>5. n = 1 + cn.file.sent /\ FileChunks \in Nat
  BY MeerkatAssumption DEF n
<1>6. ASSUME NEW i \in 1 .. n + k
      PROVE  (s \o t)[i] = [req |-> Len(asked), part |-> i]
  <2>1. CASE i <= n
    BY <1>3, <1>4, <1>6, <2>1
  <2>2. CASE ~(i <= n)
    <3>1. i - n \in 1 .. k /\ cn.file.sent + 1 + (i - n) = i
      BY <1>4, <1>5, <2>2, PastEnd
    <3>2. QED
      BY <1>1, <1>3, <1>6, <2>2, <3>1
  <2>3. QED
    BY <2>1, <2>2
<1>7. n + k <= Limit(asked) /\ n + k = 1 + (cn.file.sent + k)
  BY <1>4, <1>5
<1>8. QED
  BY <1>3, <1>6, <1>7 DEF InOrder, t

\* Topping up the send buffer keeps the exchange where it is.
LEMMA ServedTransfer ==
    ASSUME NEW b, BrowserOK(b), NEW u, NEW pre \in Seq(Msg), NEW cn,
           IsConn(cn), BuffersOK(cn), Served(b, u, pre, cn)
    PROVE  Served(b, u, pre, Transfer(cn))
<1> DEFINE dn == Transfer(cn)
           s  == pre \o cn.send
<1>1. /\ BuffersOK(dn) /\ dn.flags = cn.flags /\ dn.alive = cn.alive /\ ToppedUp(cn, dn)
  BY Transfers
<1> SUFFICES Served(b, u, pre, dn)
  OBVIOUS
<1> HIDE DEF dn
<1>2. s \in Seq(Msg)
  BY ConcatProperties DEF BuffersOK
<1>3. CASE dn.send = cn.send /\ dn.file = cn.file
  BY <1>1, <1>3, PhaseSame DEF Served
<1>4. CASE dn.send = cn.send /\ dn.file = None /\ Rested(cn)
  <2>1. Rested(dn)
    BY <1>4 DEF Rested
  <2>2. Phase(b, u, s, dn)
    BY <1>1, <1>4, <2>1 DEF Served, Phase, Idle, Waits, Answers, Lists, Garbles, Over
  <2>3. QED
    BY <1>4, <2>2 DEF Served
<1>5. ASSUME cn.file \in [req : Nat, sent : 0 .. FileChunks], ~Rested(cn),
             NEW k \in Nat \ {0}, cn.file.sent + k <= FileChunks,
             dn.file.req = cn.file.req, dn.file.sent = cn.file.sent + k,
             dn.send = cn.send \o Chunks(cn, k)
      PROVE  Served(b, u, pre, dn)
  <2>1. /\ Answers(b, u, s, cn) /\ b.asked[Len(b.asked)] = "file"
        /\ cn.file.req = Len(b.asked) /\ Len(s) = 1 + cn.file.sent
    BY <1>5 DEF Served, Phase, Idle, Waits, Answers, Lists, Garbles, Over
  <2>2. Limit(b.asked) = 1 + FileChunks
    BY <2>1, Limits DEF Answers, BrowserOK
  <2>3. Chunks(cn, k) \in Seq(Msg)
    <3>1. \A i \in 1 .. k : cn.file.sent + 1 + i \in Nat
      BY <1>5
    <3>2. \A i \in 1 .. k : Chunks(cn, k)[i] \in Msg
      BY <1>5, <3>1 DEF Msg, Chunks
    <3>3. Chunks(cn, k) \in [1 .. k -> Msg]
      BY <3>2 DEF Chunks
    <3>4. QED
      BY <1>5, <3>3, FunctionIsSeq
  <2>4. pre \o dn.send = s \o Chunks(cn, k)
    <3>1. ASSUME NEW x \in Seq(Msg), NEW y \in Seq(Msg)
          PROVE  pre \o (x \o y) = (pre \o x) \o y
      BY ConcatAssociative
    <3>2. cn.send \in Seq(Msg)
      BY DEF BuffersOK
    <3>3. QED
      BY <1>5, <2>3, <3>1, <3>2
  <2>5. /\ InOrder(b.asked, s \o Chunks(cn, k))
        /\ Len(s \o Chunks(cn, k)) = 1 + dn.file.sent
    <3>1. InOrder(b.asked, s) /\ cn.file.sent \in Nat /\ k \in Nat
      BY <1>5 DEF Served
    <3> HIDE DEF s
    <3>2. QED
      BY <1>2, <1>5, <2>1, <2>2, <2>3, <3>1, ChunksInOrder
  <2>6. Answers(b, u, pre \o dn.send, dn)
    <3>1. dn.file.req = Len(b.asked) /\ dn.flags = {} /\ dn.alive
      BY <1>1, <1>5, <2>1 DEF Answers
    <3>2. QED
      BY <2>1, <2>4, <2>5, <3>1 DEF Answers
  <2>7. QED
    BY <2>4, <2>5, <2>6 DEF Served, Phase
<1>6. QED
  BY <1>1, <1>3, <1>4, <1>5 DEF ToppedUp

\* The first k parts of an answer.
Parts(req, k) == [i \in 1 .. k |-> [req |-> req, part |-> i]]

\* A connection may have more to send, and is to be closed after that only if
\* there is something.
Grown(c, d) ==
    /\ IsConn(d) /\ BuffersOK(d) /\ c.flags \subseteq d.flags
    /\ c.send # <<>> => d.send # <<>>
    /\ "send and close" \in d.flags => "send and close" \in c.flags \/ d.send # <<>>

\* The parts of an answer are messages.
LEMMA PartsAreSent ==
    ASSUME NEW req \in Nat, NEW k \in 1 .. 2
    PROVE  /\ Parts(req, k) \in Seq(Msg) /\ Len(Parts(req, k)) = k
           /\ Parts(req, k) # <<>>
           /\ \A i \in 1 .. k : Parts(req, k)[i] = [req |-> req, part |-> i]
<1>1. \A i \in 1 .. k : Parts(req, k)[i] = [req |-> req, part |-> i] /\ i \in Nat
  BY DEF Parts
<1>2. Parts(req, k) \in [1 .. k -> Msg]
  BY <1>1 DEF Parts, Msg
<1>3. Len(Parts(req, k)) = k
  BY DEF Parts
<1>4. QED
  BY <1>1, <1>2, <1>3

\* What the handler of a whole request prints; chunks of a file follow later.
AtOnce(kind) == IF kind = "file" THEN 1 ELSE 2

Printed(cn, req, kind) ==
    [cn EXCEPT !.send = @ \o Parts(req, AtOnce(kind)), !.recv = <<>>]

\* d is c with that and an empty receive buffer.
IsPrinted(c, d, req, kind) ==
    /\ IsConn(d) /\ BuffersOK(d) /\ d.recv = <<>>
    /\ d.send = c.send \o Parts(req, AtOnce(kind)) /\ d.send # <<>>
    /\ d.flags = c.flags /\ d.file = c.file /\ d.alive = c.alive

\* What mg_printf leaves.
LEMMA Prints ==
    ASSUME NEW cn, IsConn(cn), BuffersOK(cn), NEW req \in Nat, NEW kind
    PROVE  IsPrinted(cn, Printed(cn, req, kind), req, kind)
<1> DEFINE k == AtOnce(kind)
           dn == Printed(cn, req, kind)
<1>1. k \in 1 .. 2
  BY DEF AtOnce
<1>2. Parts(req, k) \in Seq(Msg) /\ Parts(req, k) # <<>>
  BY <1>1, PartsAreSent
<1>3. dn = [cn EXCEPT !.send = @ \o Parts(req, k), !.recv = <<>>]
  BY DEF Printed
<1> HIDE DEF k, dn
<1>4. /\ IsConn(dn) /\ dn.recv = <<>> /\ dn.send = cn.send \o Parts(req, k)
      /\ dn.flags = cn.flags /\ dn.file = cn.file /\ dn.alive = cn.alive
  BY <1>3 DEF IsConn
<1>5. dn.send \in Seq(Msg) /\ dn.send # <<>>
  BY <1>2, <1>4, ConcatEmpty DEF BuffersOK
<1>6. BuffersOK(dn)
  BY <1>4, <1>5, EmptySeq DEF BuffersOK
<1> USE DEF k, dn
<1>7. QED
  BY <1>4, <1>5, <1>6 DEF IsPrinted

\* A handler only adds to what is to be sent.
LEMMA TransferGrows ==
    ASSUME NEW cn, IsConn(cn), BuffersOK(cn)
    PROVE  Grown(cn, Transfer(cn))
<1> DEFINE dn == Transfer(cn)
<1>1. IsConn(dn) /\ BuffersOK(dn) /\ dn.flags = cn.flags /\ ToppedUp(cn, dn)
  BY Transfers
<1>2. cn.send # <<>> => dn.send # <<>>
  <2> HIDE DEF dn
  <2>1. CASE dn.send = cn.send
    BY <2>1
  <2>2. ASSUME NEW k \in Nat \ {0}, dn.send = cn.send \o Chunks(cn, k)
        PROVE  cn.send # <<>> => dn.send # <<>>
    <3>1. Len(cn.send \o Chunks(cn, k)) = Len(cn.send) + k /\ Len(cn.send) \in Nat
      BY <2>2 DEF Chunks, BuffersOK
    <3>2. dn.send = <<>> => Len(dn.send) = 0
      OBVIOUS
    <3>3. QED
      BY <2>2, <3>1, <3>2
  <2>3. QED
    BY <1>1, <2>1, <2>2 DEF ToppedUp
<1>3. QED
  BY <1>1, <1>2 DEF Grown

\* The handler of a request adds to what is to be sent.
LEMMA HandledGrows ==
    ASSUME NEW cn, IsConn(cn), BuffersOK(cn), NEW req \in Nat, NEW kind
    PROVE  Grown(cn, Handled(cn, req, kind))
<1> DEFINE printed == Printed(cn, req, kind)
           begun == [printed EXCEPT !.file = [req |-> req, sent |-> 0]]
           over == [printed EXCEPT !.flags = @ \cup {"send and close"}]
<1>1. IsConn(printed) /\ BuffersOK(printed) /\ printed.send # <<>>
      /\ printed.flags = cn.flags
  BY Prints DEF IsPrinted
<1>2. /\ kind = "rest" => Handled(cn, req, kind) = printed
      /\ kind = "listing" => Handled(cn, req, kind) = over
      /\ kind # "rest" /\ kind # "listing" => Handled(cn, req, kind) = Transfer(begun)
  BY DEF Handled, Printed, Parts, AtOnce
<1> HIDE DEF printed
<1>3. /\ IsConn(begun) /\ BuffersOK(begun) /\ begun.flags = cn.flags
      /\ begun.send # <<>>
  <2>1. [req |-> req, sent |-> 0] \in Files
    BY MeerkatAssumption DEF Files
  <2>2. QED
    BY <1>1, <2>1 DEF IsConn, BuffersOK
<1>4. /\ IsConn(over) /\ BuffersOK(over) /\ cn.flags \subseteq over.flags
      /\ over.send # <<>>
  BY <1>1 DEF IsConn, BuffersOK
<1> HIDE DEF begun, over
<1>5. Grown(begun, Transfer(begun))
  BY <1>3, TransferGrows
<1>6. QED
  BY <1>1, <1>2, <1>3, <1>4, <1>5 DEF Grown

\* So do the two event handlers of mg_parse_http.
LEMMA ParsedGrows ==
    ASSUME NEW cn, IsConn(cn), BuffersOK(cn)
    PROVE  Grown(cn, Parsed(cn)) /\ Grown(cn, Dropped(cn))
<1>1. Grown(cn, cn)
  BY DEF Grown
<1>2. Grown(cn, [cn EXCEPT !.flags = @ \cup {"close"}])
  BY DEF Grown, IsConn, BuffersOK
<1>3. Grown(cn, [cn EXCEPT !.recv = <<>>])
  BY EmptySeq DEF Grown, IsConn, BuffersOK
<1>4. ASSUME cn.recv # <<>> PROVE Grown(cn, Handled(cn, cn.recv[1].req, cn.recv[1].kind))
  <2>1. cn.recv[1] \in Msg
    BY <1>4, EmptySeq, ElementOfSeq DEF BuffersOK
  <2>2. cn.recv[1].req \in Nat
    BY <2>1 DEF Msg
  <2>3. QED
    BY <2>2, HandledGrows
<1>5. QED
  BY <1>1, <1>2, <1>3, <1>4 DEF Parsed, Dropped

\* A part that comes in is in the receive buffer and nowhere else.
LEMMA BufferedGrows ==
    ASSUME NEW cn, IsConn(cn), BuffersOK(cn), NEW parts \in Seq(Msg)
    PROVE  /\ Grown(cn, Buffered(cn, parts))
           /\ LET dn == Buffered(cn, parts)
              IN  /\ dn.recv = cn.recv \o parts /\ dn.send = cn.send /\ dn.file = cn.file
                  /\ dn.flags = cn.flags /\ dn.alive = cn.alive
<1> DEFINE dn == Buffered(cn, parts)
<1>1. /\ IsConn(dn) /\ dn.recv = cn.recv \o parts /\ dn.send = cn.send
      /\ dn.file = cn.file /\ dn.flags = cn.flags /\ dn.alive = cn.alive
  BY DEF Buffered, IsConn
<1>2. BuffersOK(dn)
  BY <1>1, ConcatProperties DEF BuffersOK
<1>3. QED
  BY <1>1, <1>2 DEF Grown

\* What has grown and grows again has grown.
LEMMA GrownFurther ==
    ASSUME NEW c, NEW d, NEW e, Grown(c, d), Grown(d, e) PROVE Grown(c, e)
BY DEF Grown

\* A connection that receives has no less to send.
LEMMA ReceivedGrows ==
    ASSUME NEW e, IsConn(conn[e]), BuffersOK(conn[e]), NEW parts \in Seq(Msg)
    PROVE  Grown(conn[e], Received(e, parts))
<1> DEFINE cn == conn[e]
           tn == Transfer(cn)
<1>1. Grown(cn, cn) /\ Grown(cn, tn) /\ IsConn(tn) /\ BuffersOK(tn)
  BY TransferGrows DEF Grown
<1>2. Grown(cn, Buffered(cn, parts)) /\ Grown(tn, Buffered(tn, parts))
  BY <1>1, BufferedGrows
<1> HIDE DEF tn, cn
<1>3. /\ Grown(Buffered(cn, parts), Dropped(Buffered(cn, parts)))
      /\ Grown(Buffered(tn, parts), Parsed(Buffered(tn, parts)))
  BY <1>2, ParsedGrows DEF Grown
<1>4. /\ Grown(cn, Dropped(Buffered(cn, parts)))
      /\ Grown(tn, Parsed(Buffered(tn, parts)))
  BY <1>2, <1>3, GrownFurther
<1>5. Grown(cn, Parsed(Buffered(tn, parts)))
  BY <1>1, <1>4, GrownFurther
<1> USE DEF tn, cn
<1>6. QED
  BY <1>1, <1>2, <1>4, <1>5 DEF Received

\* The handler of the request that waits begins its answer.
LEMMA ServedHandled ==
    ASSUME NEW b, BrowserOK(b), NEW pre \in Seq(Msg), NEW cn, IsConn(cn), BuffersOK(cn),
           cn.alive, b.asked # <<>>, b.asked[Len(b.asked)] # "garbled", b.sent = 2,
           pre \o cn.send = <<>>, cn.flags = {}, Rested(cn)
    PROVE  /\ Served(b, <<>>, pre, Handled(cn, Len(b.asked), b.asked[Len(b.asked)]))
           /\ Handled(cn, Len(b.asked), b.asked[Len(b.asked)]).recv = <<>>
<1> DEFINE n == Len(b.asked)
           kind == b.asked[n]
           k == AtOnce(kind)
           printed == Printed(cn, n, kind)
           begun == [printed EXCEPT !.file = [req |-> n, sent |-> 0]]
           over == [printed EXCEPT !.flags = @ \cup {"send and close"}]
<1>1. n \in Nat /\ n > 0 /\ kind \in {"rest", "file", "listing"}
  BY Limits, MeerkatAssumption DEF BrowserOK
<1>2. /\ IsConn(printed) /\ BuffersOK(printed) /\ printed.recv = <<>>
      /\ printed.send = cn.send \o Parts(n, k)
      /\ printed.flags = {} /\ printed.file = cn.file /\ printed.alive
  <2>1. IsPrinted(cn, printed, n, kind)
    BY <1>1, Prints
  <2>2. QED
    BY <2>1 DEF IsPrinted
<1>3. /\ kind = "rest" => Handled(cn, n, kind) = printed
      /\ kind = "listing" => Handled(cn, n, kind) = over
      /\ kind = "file" => Handled(cn, n, kind) = Transfer(begun)
  BY DEF Handled, Printed, Parts, AtOnce
<1>4. k \in 1 .. 2 /\ k <= Limit(b.asked)
  <2>1. /\ kind \in {"rest", "listing"} => Limit(b.asked) = 2
        /\ kind = "file" => Limit(b.asked) = 1 + FileChunks
    BY Limits DEF BrowserOK
  <2>2. QED
    BY <1>1, <2>1, MeerkatAssumption DEF AtOnce
<1>5. /\ Parts(n, k) \in Seq(Msg) /\ Len(Parts(n, k)) = k
      /\ \A i \in 1 .. k : Parts(n, k)[i] = [req |-> n, part |-> i]
  BY <1>1, <1>4, PartsAreSent
<1>6. pre = <<>> /\ cn.send = <<>>
  BY ConcatEmpty DEF BuffersOK
<1>7. pre \o printed.send = Parts(n, k)
  BY <1>2, <1>5, <1>6, ConcatEmptySeq
<1>8. InOrder(b.asked, pre \o printed.send) /\ Len(pre \o printed.send) = k
  BY <1>4, <1>5, <1>7 DEF InOrder
<1>9. /\ IsConn(begun) /\ BuffersOK(begun) /\ begun.flags = {} /\ begun.recv = <<>>
      /\ begun.send = printed.send /\ begun.file = [req |-> n, sent |-> 0] /\ begun.alive
  <2>1. [req |-> n, sent |-> 0] \in Files
    BY <1>1, MeerkatAssumption DEF Files
  <2>2. QED
    BY <1>2, <2>1 DEF IsConn, BuffersOK
<1>10. /\ over.flags = {"send and close"} /\ over.recv = <<>>
       /\ over.send = printed.send /\ over.file = cn.file /\ over.alive
  BY <1>2 DEF IsConn
<1> SUFFICES Served(b, <<>>, pre, Handled(cn, n, kind)) /\ Handled(cn, n, kind).recv = <<>>
  OBVIOUS
<1> HIDE DEF printed, begun, over
<1>11. CASE kind = "rest"
  <2>1. Rested(printed)
    BY <1>2 DEF Rested
  <2>2. Answers(b, <<>>, pre \o printed.send, printed)
    BY <1>1, <1>2, <1>11, <2>1 DEF Answers
  <2>3. QED
    BY <1>2, <1>3, <1>8, <1>11, <2>2 DEF Served, Phase
<1>12. CASE kind = "listing"
  <2>1. Rested(over)
    BY <1>10 DEF Rested
  <2>2. k = 2
    BY <1>12 DEF AtOnce
  <2>3. Lists(b, <<>>, pre \o over.send, over)
    BY <1>1, <1>8, <1>10, <1>12, <2>1, <2>2 DEF Lists
  <2>4. QED
    BY <1>3, <1>8, <1>10, <1>12, <2>3 DEF Served, Phase
<1>13. CASE kind = "file"
  <2>1. k = 1
    BY <1>13 DEF AtOnce
  <2>2. begun.file.req = n /\ begun.file.sent = 0
    BY <1>9
  <2>3. Len(pre \o begun.send) = 1 + begun.file.sent
    <3>1. Len(pre \o begun.send) = 1
      BY <1>8, <1>9, <2>1
    <3>2. 1 + begun.file.sent = 1
      BY <2>2
    <3>3. QED
      BY <3>1, <3>2
  <2>4. Answers(b, <<>>, pre \o begun.send, begun)
    BY <1>1, <1>9, <1>13, <2>2, <2>3 DEF Answers
  <2>5. Served(b, <<>>, pre, begun)
    BY <1>8, <1>9, <2>4 DEF Served, Phase
  <2>6. Served(b, <<>>, pre, Transfer(begun)) /\ Transfer(begun).recv = <<>>
    BY <1>9, <2>5, ServedTransfer, Transfers
  <2>7. QED
    BY <1>3, <1>13, <2>6
<1>14. QED
  BY <1>1, <1>11, <1>12, <1>13

\* The serving end gets parts of requests.
LEMMA ServedParsed ==
    ASSUME NEW b, BrowserOK(b), NEW pre \in Seq(Msg), NEW cn, IsConn(cn), BuffersOK(cn),
           cn.alive, cn.recv # <<>>, NEW rest \in Seq(Msg),
           Served(b, cn.recv \o rest, pre, cn), cn.flags # {"send and close"}
    PROVE  Served(b, Parsed(cn).recv \o rest, pre, Parsed(cn))
<1> DEFINE u == cn.recv \o rest
           n == Len(b.asked)
           first == cn.recv[1]
           closing == [cn EXCEPT !.flags = @ \cup {"close"}]
<1>1. u # <<>> /\ first = u[1] /\ Len(u) = Len(cn.recv) + Len(rest)
      /\ Len(cn.recv) \in Nat /\ Len(rest) \in Nat /\ Len(cn.recv) > 0
  <2>1. cn.recv \in Seq(Msg)
    BY DEF BuffersOK
  <2>2. Len(cn.recv) > 0
    BY <2>1, NotEmpty
  <2>3. QED
    BY <2>1, <2>2, ConcatEmpty
<1>2. Waits(b, u, pre \o cn.send, cn) \/ Garbles(b, u, pre \o cn.send, cn)
  BY <1>1 DEF Served, Phase, Idle, Answers, Lists, Over
<1>3. CASE Garbles(b, u, pre \o cn.send, cn)
  <2>1. Parsed(cn) = closing
    BY <1>1, <1>3 DEF Parsed, Garbles
  <2>2. closing.flags = cn.flags \cup {"close"} /\ closing.recv = cn.recv
        /\ closing.send = cn.send /\ closing.file = cn.file
    BY DEF IsConn
  <2> HIDE DEF closing, u
  <2>3. Garbles(b, u, pre \o closing.send, closing)
    BY <1>3, <2>2 DEF Garbles, Rested
  <2> USE DEF u
  <2>4. QED
    BY <2>1, <2>2, <2>3 DEF Served, Phase
<1>4. CASE Waits(b, u, pre \o cn.send, cn)
  <2>1. /\ n > 0 /\ b.asked[n] # "garbled" /\ b.sent \in {1, 2} /\ Len(u) = b.sent
        /\ first = [req |-> n, kind |-> b.asked[n]]
        /\ pre \o cn.send = <<>> /\ cn.flags = {} /\ Rested(cn)
    BY <1>1, <1>4 DEF Waits
  <2>2. first.kind = b.asked[n] /\ first.req = n /\ b.asked # <<>>
    BY <2>1
  <2>3. CASE Len(cn.recv) < 2
    BY <2>1, <2>2, <2>3 DEF Parsed
  <2>4. CASE ~(Len(cn.recv) < 2)
    <3>1. b.sent = 2 /\ rest = <<>>
      BY <1>1, <2>1, <2>4
    <3>2. Parsed(cn) = Handled(cn, n, b.asked[n])
      BY <2>1, <2>2, <2>4 DEF Parsed
    <3>3. Served(b, <<>>, pre, Parsed(cn)) /\ Parsed(cn).recv = <<>>
      <4>1. b.asked[Len(b.asked)] # "garbled"
        BY <2>1
      <4> HIDE DEF u, first, closing
      <4>2. /\ Served(b, <<>>, pre, Handled(cn, Len(b.asked), b.asked[Len(b.asked)]))
            /\ Handled(cn, Len(b.asked), b.asked[Len(b.asked)]).recv = <<>>
        BY <2>1, <2>2, <3>1, <4>1, ServedHandled
      <4>3. QED
        BY <3>2, <4>2
    <3>4. <<>> \o rest = <<>>
      BY <3>1, NoneAdded
    <3>5. QED
      BY <3>3, <3>4
  <2>5. QED
    BY <2>3, <2>4
<1>5. QED
  BY <1>2, <1>3, <1>4

\* The serving end reads: what was on its wire is in its buffer, or answered.
LEMMA ServedRead ==
    ASSUME NEW b, BrowserOK(b), NEW pre \in Seq(Msg), NEW cn, IsConn(cn), BuffersOK(cn),
           cn.alive, NEW parts \in Seq(Msg), parts # <<>>, NEW rest \in Seq(Msg),
           Served(b, cn.recv \o (parts \o rest), pre, cn),
           ~(cn.flags = {"send and close"} /\ cn.send = <<>>)
    PROVE  Served(b, Parsed(Buffered(Transfer(cn), parts)).recv \o rest, pre,
                  Parsed(Buffered(Transfer(cn), parts)))
<1> DEFINE tn == Transfer(cn)
           bn == Buffered(tn, parts)
<1>1. /\ IsConn(tn) /\ BuffersOK(tn) /\ tn.recv = cn.recv /\ tn.flags = cn.flags
      /\ tn.alive
  BY Transfers
<1>2. Served(b, cn.recv \o (parts \o rest), pre, tn)
  BY ServedTransfer
<1> HIDE DEF tn
<1>3. /\ IsConn(bn) /\ BuffersOK(bn) /\ bn.recv = tn.recv \o parts /\ bn.send = tn.send
      /\ bn.flags = tn.flags /\ bn.file = tn.file /\ bn.alive
  BY <1>1, BufferedGrows DEF Grown
<1> HIDE DEF bn
<1>4. bn.recv \o rest = cn.recv \o (parts \o rest)
  <2>1. cn.recv \in Seq(Msg) /\ bn.recv = cn.recv \o parts
    BY <1>1, <1>3 DEF BuffersOK
  <2>2. ASSUME NEW x \in Seq(Msg) PROVE (x \o parts) \o rest = x \o (parts \o rest)
    BY Assoc
  <2>3. QED
    BY <2>1, <2>2
<1>5. bn.recv # <<>>
  <2>1. cn.recv \in Seq(Msg) /\ bn.recv = cn.recv \o parts
    BY <1>1, <1>3 DEF BuffersOK
  <2>2. ASSUME NEW x \in Seq(Msg) PROVE x \o parts # <<>>
    BY ConcatEmpty
  <2>3. QED
    BY <2>1, <2>2
<1>6. Served(b, bn.recv \o rest, pre, bn)
  BY <1>1, <1>2, <1>3, <1>4, PhaseSame DEF Served
<1>7. bn.flags # {"send and close"}
  <2> SUFFICES ASSUME cn.flags = {"send and close"}, cn.send # <<>> PROVE FALSE
    BY <1>1, <1>3
  <2>1. pre \o cn.send # <<>>
    BY ConcatEmpty DEF BuffersOK
  <2>2. Lists(b, cn.recv \o (parts \o rest), pre \o cn.send, cn)
    BY <2>1 DEF Served, Phase, Idle, Waits, Answers, Garbles, Over
  <2>3. cn.recv \o (parts \o rest) # <<>>
    BY ConcatEmpty DEF BuffersOK
  <2>4. QED
    BY <2>2, <2>3 DEF Lists
<1>8. Served(b, Parsed(bn).recv \o rest, pre, Parsed(bn))
  BY <1>3, <1>5, <1>6, <1>7, ServedParsed
<1> USE DEF tn, bn
<1>9. QED
  BY <1>8

-----------------------------------------------------------------------------
(* The invariant of the exchange.                                          *)

\* Nothing is left of a connection that is closed.
DeadQuiet == \A e \in Ends : ~conn[e].alive => conn[e] = Gone

\* A manager has the connections that are alive, each once.
Listed ==
    \A m \in Managers :
        /\ Range(list[m]) = {e \in EndsOf(m) : conn[e].alive}
        /\ \A i, j \in DOMAIN list[m] : list[m][i] = list[m][j] => i = j

\* What is still to be handled is there, and what is to be written too.
TodoThere ==
    /\ \A m \in Managers : mgr[m].pc = "handle" =>
         \A x \in mgr[m].todo :
             \/ x = Listener
             \/ /\ x = Item(x.end, x.io) /\ x.end \in Range(list[m])
                /\ x.io = "write" => conn[x.end].send # <<>>
    /\ mgr["main"].last \/ mgr["main"].pc = "free" => ~running

\* An end of a link is closed because it cannot be read, not after a send.
LinkedStay == \A e \in Ends : conn[e].peer # None => "send and close" \notin conn[e].flags

\* The manager an end belongs to.
ManagerOf(e) == IF e[2] = "c1" THEN e[1] ELSE "main"

\* The poll that has sent the last of an answer after which the connection is
\* closed closes it: nothing more is read of it.
Leaves(c) ==
    LET e == HttpEnd(c)
        m == ManagerOf(e)
    IN  conn[e].flags = {"send and close"} /\ conn[e].send = <<>> =>
          \/ mgr[m].pc = "handle" /\ Item(e, "read") \notin mgr[m].todo
          \/ mgr[m].pc = "close" /\ e \in mgr[m].todo

\* All that makes the refinement inductive.
ExchInv ==
    /\ Typed /\ DeadQuiet /\ Listed /\ TodoThere /\ LinkedStay
    /\ \A c \in Clients : Exch(c) /\ Unaccepted(c) /\ Leaves(c)

-----------------------------------------------------------------------------
(* One client.                                                             *)

\* A step that is not about c.
SameFor(c) ==
    /\ threaded' = threaded /\ (c \in backlog' <=> c \in backlog)
    /\ browser'[c] = browser[c] /\ toBrowser'[c] = toBrowser[c]
    /\ conn'[NC(c)] = conn[NC(c)] /\ conn'[C0(c)] = conn[C0(c)]
    /\ conn'[C1(c)] = conn[C1(c)]
    /\ wire'[NC(c)] = wire[NC(c)] /\ wire'[C0(c)] = wire[C0(c)]
    /\ wire'[C1(c)] = wire[C1(c)]

\* A step that is not about c leaves its exchange alone.
LEMMA SameForKeeps ==
    ASSUME NEW c \in Clients, Exch(c), Unaccepted(c), SameFor(c), running' => running
    PROVE  Exch(c)' /\ Unaccepted(c)'
<1>1. Stream(c)' = Stream(c)
  BY DEF SameFor, Stream, NC, C0, C1
<1>2. Http(c)' = Http(c)
  BY DEF SameFor, Http, HttpEnd, NC, C0, C1
<1>3. Requests(c)' = Requests(c)
  BY <1>2 DEF SameFor, Requests, NC, C0, C1
<1>4. Reaches(c)' <=> Reaches(c)
  BY DEF SameFor, Reaches, NC, C0, C1
<1>5. EndsAll(c)' <=> EndsAll(c)
  BY <1>1 DEF SameFor, EndsAll, NC, C0, C1
<1>6. EndedBefore(c)' <=> EndedBefore(c)
  BY <1>1 DEF SameFor, EndedBefore
<1>7. Unaccepted(c)'
  BY DEF SameFor, Unaccepted, NC, C0, C1
<1>8. Exch(c)'
  <2> SUFFICES ASSUME browser[c].pc = "open"
               PROVE  /\ InOrder(browser[c].asked, Stream(c))
                      /\ Reaches(c) =>
                           /\ Phase(browser[c], Requests(c), Stream(c), Http(c))
                           /\ threaded => conn[NC(c)].flags = {} /\ conn[C0(c)].flags = {}
                      /\ ~Reaches(c) /\ running => Doomed(c)
    BY <1>1, <1>2, <1>3, <1>4, <1>5, <1>6 DEF SameFor, Exch, Doomed, NC, C0, C1
  <2>1. QED
    BY DEF Exch
<1>9. QED
  BY <1>7, <1>8

\* The three ends of a client.
LEMMA EndsOfClient ==
    ASSUME NEW c \in Clients
    PROVE  /\ NC(c) \in Ends /\ C0(c) \in Ends /\ C1(c) \in Ends
           /\ NC(c) # C0(c) /\ NC(c) # C1(c) /\ C0(c) # C1(c)
           /\ NC(c)[1] = c /\ C0(c)[1] = c /\ C1(c)[1] = c
           /\ NC(c)[2] = "nc" /\ C0(c)[2] = "c0" /\ C1(c)[2] = "c1"
           /\ NC(c) # None /\ C0(c) # None /\ C1(c) # None
           /\ \A e \in Ends : e[1] = c => e \in {NC(c), C0(c), C1(c)}
           /\ Mate(NC(c)) = C0(c) /\ Mate(C0(c)) = NC(c)
           /\ Other(NC(c)) = C0(c) /\ Other(C0(c)) = C1(c) /\ Other(C1(c)) = C0(c)
           /\ HttpEnd(c) = IF threaded THEN C1(c) ELSE NC(c)
BY MeerkatAssumption DEF NC, C0, C1, Ends, Mate, Other, HttpEnd

\* Another client has other ends.
LEMMA EndsDiffer ==
    ASSUME NEW c \in Clients, NEW e \in Ends, e[1] # c
    PROVE  e \notin {NC(c), C0(c), C1(c)}
BY DEF NC, C0, C1

\* An end is that of one client.
LEMMA ClientOf ==
    ASSUME NEW e \in Ends
    PROVE  e[1] \in Clients /\ e[2] \in {"nc", "c0", "c1"} /\ e = <<e[1], e[2]>>
BY DEF Ends

\* The links of a client.
LEMMA Linked ==
    ASSUME IInv, NEW c \in Clients
    PROVE  /\ conn[NC(c)].peer # None =>
                /\ conn[NC(c)].peer = C0(c) /\ conn[C0(c)].peer = NC(c)
                /\ conn[NC(c)].alive /\ conn[C0(c)].alive /\ threaded
           /\ conn[C0(c)].peer # None =>
                /\ conn[C0(c)].peer = NC(c) /\ conn[NC(c)].peer = C0(c)
           /\ conn[C1(c)].peer = None
BY EndsOfClient DEF IInv, LinksAlive, NoLinks

\* A connection that is alive is that of a client that has been accepted.
LEMMA AliveAccepted ==
    ASSUME ExchInv, NEW e \in Ends, conn[e].alive
    PROVE  /\ browser[e[1]].pc # "new" /\ e[1] \notin backlog
<1>1. e[1] \in Clients /\ e \in {NC(e[1]), C0(e[1]), C1(e[1])}
  BY ClientOf, EndsOfClient
<1>2. ~Gone.alive
  BY DEF Gone
<1>3. Unaccepted(e[1])
  BY <1>1 DEF ExchInv
<1>4. QED
  BY <1>1, <1>2, <1>3 DEF Unaccepted

\* The types of a client's part of the state.
LEMMA TypesOf ==
    ASSUME ExchInv, NEW c \in Clients
    PROVE  /\ BrowserOK(browser[c])
           /\ browser[c].got \in Seq(Msg) /\ toBrowser[c] \in Seq(Msg)
           /\ conn[NC(c)].send \in Seq(Msg) /\ conn[NC(c)].recv \in Seq(Msg)
           /\ conn[C0(c)].send \in Seq(Msg) /\ conn[C0(c)].recv \in Seq(Msg)
           /\ conn[C1(c)].send \in Seq(Msg) /\ conn[C1(c)].recv \in Seq(Msg)
           /\ wire[NC(c)] \in Seq(Msg) /\ wire[C0(c)] \in Seq(Msg)
           /\ wire[C1(c)] \in Seq(Msg)
           /\ Limit(browser[c].asked) \in Nat
BY EndsOfClient, Limits DEF ExchInv, Typed, BuffersOK, BrowserOK

\* What has left the serving end, and the requests it has not got.
Sofar(c) ==
    IF threaded THEN ((browser[c].got \o toBrowser[c]) \o conn[NC(c)].send) \o wire[C0(c)]
    ELSE browser[c].got \o toBrowser[c]

Rest(c) == IF threaded THEN conn[C0(c)].send \o wire[NC(c)] ELSE <<>>

\* The browser's end is still tied to the serving end, or is that.
Tied(c) == threaded => conn[NC(c)].peer # None

\* The send buffer of the serving end comes last of what is on its way.
LEMMA StreamTied ==
    ASSUME ExchInv, NEW c \in Clients, Tied(c)
    PROVE  /\ Stream(c) = Sofar(c) \o Http(c).send
           /\ Sofar(c) \in Seq(Msg) /\ Http(c).send \in Seq(Msg)
<1> DEFINE a == (browser[c].got \o toBrowser[c]) \o conn[NC(c)].send
           w == wire[C0(c)]
           s == conn[C1(c)].send
<1>1. /\ browser[c].got \o toBrowser[c] \in Seq(Msg) /\ w \in Seq(Msg) /\ s \in Seq(Msg)
      /\ conn[NC(c)].send \in Seq(Msg)
  BY TypesOf, ConcatEmpty
<1>2. a \in Seq(Msg)
  BY <1>1, ConcatEmpty
<1>3. CASE threaded
  <2>1. Stream(c) = a \o (w \o s) /\ Sofar(c) = a \o w /\ Http(c).send = s
    BY <1>3 DEF Stream, Sofar, Http, HttpEnd, Tied, C1
  <2> HIDE DEF a, w, s
  <2>2. a \o w \in Seq(Msg) /\ (a \o w) \o s = a \o (w \o s)
    BY <1>1, <1>2, ConcatEmpty, Assoc
  <2>3. QED
    BY <1>1, <2>1, <2>2
<1>4. CASE ~threaded
  BY <1>1, <1>4 DEF Stream, Sofar, Http, HttpEnd, NC
<1>5. QED
  BY <1>3, <1>4

\* The receive buffer comes first of the requests on their way, then the wire.
LEMMA RequestsSplit ==
    ASSUME ExchInv, NEW c \in Clients
    PROVE  /\ Requests(c) = Http(c).recv \o (wire[HttpEnd(c)] \o Rest(c))
           /\ Http(c).recv \in Seq(Msg) /\ wire[HttpEnd(c)] \in Seq(Msg)
           /\ Rest(c) \in Seq(Msg)
<1> DEFINE a == conn[C1(c)].recv
           b == wire[C1(c)]
           d == conn[C0(c)].send
           w == wire[NC(c)]
<1>1. a \in Seq(Msg) /\ b \in Seq(Msg) /\ d \in Seq(Msg) /\ w \in Seq(Msg)
      /\ conn[NC(c)].recv \in Seq(Msg)
  BY TypesOf
<1>2. CASE threaded
  <2>1. Requests(c) = a \o ((b \o d) \o w) /\ Rest(c) = d \o w /\ Http(c).recv = a
        /\ wire[HttpEnd(c)] = b
    BY <1>2 DEF Requests, Rest, Http, HttpEnd, C1
  <2> HIDE DEF a, b, d, w
  <2>2. d \o w \in Seq(Msg) /\ (b \o d) \o w = b \o (d \o w)
    BY <1>1, ConcatEmpty, Assoc
  <2>3. QED
    BY <1>1, <2>1, <2>2
<1>3. CASE ~threaded
  <2>1. Requests(c) = conn[NC(c)].recv \o w /\ Rest(c) = <<>>
        /\ Http(c).recv = conn[NC(c)].recv /\ wire[HttpEnd(c)] = w
    BY <1>3 DEF Requests, Rest, Http, HttpEnd, NC
  <2>2. w \o <<>> = w
    BY <1>1, NoneAdded
  <2>3. QED
    BY <1>1, <2>1, <2>2, EmptySeq
<1>4. QED
  BY <1>2, <1>3

\* An end that is handled or closed is alive and of the manager.
LEMMA InList ==
    ASSUME ExchInv, NEW m \in Managers, NEW e \in Range(list[m])
    PROVE  e \in EndsOf(m) /\ e \in Ends /\ conn[e].alive /\ ManagerOf(e) = m
           /\ e \in {NC(e[1]), C0(e[1]), C1(e[1])} /\ e[1] \in Clients
           /\ browser[e[1]].pc # "new" /\ e[1] \notin backlog
<1>1. e \in EndsOf(m) /\ conn[e].alive
  BY DEF ExchInv, Listed
<1>2. e \in Ends /\ ManagerOf(e) = m
  BY <1>1 DEF EndsOf, ManagerOf
<1>3. QED
  BY <1>1, <1>2, AliveAccepted, ClientOf, EndsOfClient

\* An end that is handled is in the list, and has what it is handled for.
LEMMA HandlingThere ==
    ASSUME ExchInv, NEW m \in Managers, NEW e \in Ends, NEW io, Handling(m, e, io)
    PROVE  /\ e \in Range(list[m]) /\ mgr[m].pc = "handle"
           /\ io = "write" => conn[e].send # <<>>
           /\ Item(e, io) \in mgr[m].todo
<1>1. mgr[m].pc = "handle" /\ Item(e, io) \in mgr[m].todo
  BY DEF Handling
<1>2. Item(e, io).end = e /\ Item(e, io).io = io /\ Listener.end = None
  BY DEF Item, Listener
<1>3. e # None
  BY MeerkatAssumption DEF Ends
<1>4. QED
  BY <1>1, <1>2, <1>3 DEF ExchInv, TodoThere

\* With the link gone the browser sees nothing of the other two ends.
LEMMA DetachedKeeps ==
    ASSUME NEW c \in Clients, Exch(c), c \notin backlog,
           ~threaded \/ conn[NC(c)].peer = None,
           threaded' = threaded, running' = running, backlog' = backlog,
           browser' = browser, toBrowser' = toBrowser,
           conn'[NC(c)] = conn[NC(c)], wire'[NC(c)] = wire[NC(c)]
    PROVE  Exch(c)'
<1>1. Stream(c)' = Stream(c)
  BY DEF Stream, NC
<1>2. Reaches(c)' <=> Reaches(c)
  BY DEF Reaches, NC
<1>3. ~threaded => Requests(c)' = Requests(c) /\ Http(c)' = Http(c)
  BY DEF Requests, Http, HttpEnd, NC
<1>4. EndsAll(c)' <=> EndsAll(c)
  BY <1>1 DEF EndsAll, NC
<1>5. EndedBefore(c)' <=> EndedBefore(c)
  BY <1>1 DEF EndedBefore
<1>6. threaded => ~Reaches(c)
  BY DEF Reaches
<1>7. CASE browser[c].pc # "open"
  BY <1>7 DEF Exch
<1>8. CASE browser[c].pc = "open"
  <2>1. InOrder(browser[c].asked, Stream(c)) /\ (~Reaches(c) /\ running => Doomed(c))
    BY <1>8 DEF Exch
  <2>2. ~Reaches(c) /\ running => Doomed(c)'
    BY <1>4, <1>5, <2>1 DEF Doomed
  <2>3. Reaches(c) => Phase(browser[c], Requests(c), Stream(c), Http(c))
    BY <1>8 DEF Exch
  <2>4. CASE threaded
    BY <1>1, <1>2, <1>6, <2>1, <2>2, <2>4 DEF Exch
  <2>5. CASE ~threaded
    BY <1>1, <1>2, <1>3, <2>1, <2>2, <2>3, <2>5 DEF Exch
  <2>6. QED
    BY <2>4, <2>5
<1>9. QED
  BY <1>7, <1>8

\* The serving end reads.
LEMMA HttpReads ==
    ASSUME ExchInv, IInv, NEW c \in Clients, NEW m \in Managers, Tied(c),
           Read(m, HttpEnd(c)), browser[c].pc = "open"
    PROVE  Exch(c)'
<1> DEFINE e == HttpEnd(c)
           b == browser[c]
           cn == conn[e]
           dn == conn'[e]
           parts == wire[e]
<1>1. e \in Ends /\ e[1] = c /\ IsHttp(e) /\ cn.peer = None
  BY EndsOfClient, Linked DEF IsHttp, IInv, NoLinks
<1>2. Handling(m, e, "read")
  BY DEF Read
<1>3. /\ e \in Range(list[m]) /\ mgr[m].pc = "handle" /\ Item(e, "read") \in mgr[m].todo
      /\ cn.alive /\ ManagerOf(e) = m /\ c \notin backlog
  BY <1>1, <1>2, HandlingThere, InList
<1>4. ~(cn.flags = {"send and close"} /\ cn.send = <<>>)
  BY <1>3 DEF ExchInv, Leaves
<1>5. Reaches(c) /\ ~Hungup(e)
  BY <1>1, <1>3, Linked, EndsOfClient DEF Tied, Reaches, Hungup
<1>6. /\ conn' = [conn EXCEPT ![e] = [Received(e, parts) EXCEPT !.flags = @ \cup {}]]
      /\ wire' = [wire EXCEPT ![e] = <<>>]
      /\ threaded' = threaded /\ running' = running /\ backlog' = backlog
      /\ browser' = browser /\ toBrowser' = toBrowser
  BY <1>1, <1>5 DEF Read
<1>7. IsConn(cn) /\ BuffersOK(cn) /\ BrowserOK(b) /\ SameLink(cn, Received(e, parts))
  BY <1>1, ReceivedLinks DEF ExchInv, Typed, IInv, ConnsOK
<1>8. /\ dn.recv = Received(e, parts).recv /\ dn.send = Received(e, parts).send
      /\ dn.flags = Received(e, parts).flags /\ dn.file = Received(e, parts).file
      /\ dn.alive /\ dn.peer = None
  BY <1>1, <1>3, <1>6, <1>7 DEF SameLink, IsConn, IInv, ConnsOK
<1>9. /\ \A x \in Ends : x # e => conn'[x] = conn[x] /\ wire'[x] = wire[x]
      /\ wire'[e] = <<>>
  BY <1>1, <1>6 DEF ExchInv, Typed, IInv, ConnsOK
<1>10. /\ Http(c) = cn /\ Stream(c) = Sofar(c) \o cn.send
       /\ Requests(c) = cn.recv \o (parts \o Rest(c))
       /\ Sofar(c) \in Seq(Msg) /\ parts \in Seq(Msg) /\ Rest(c) \in Seq(Msg)
  BY StreamTied, RequestsSplit DEF Http
<1>11. Served(b, cn.recv \o (parts \o Rest(c)), Sofar(c), cn)
       /\ (threaded => conn[NC(c)].flags = {} /\ conn[C0(c)].flags = {})
  BY <1>5, <1>10 DEF ExchInv, Exch, Served
<1>12. Served(b, dn.recv \o Rest(c), Sofar(c), dn)
  <2> HIDE DEF cn, dn, e, b, parts
  <2>1. CASE parts = <<>>
    <3>1. Received(e, parts) = cn
      BY <2>1 DEF Received, cn
    <3>2. <<>> \o Rest(c) = Rest(c)
      BY <1>10, NoneAdded
    <3>3. QED
      BY <1>3, <1>8, <1>11, <2>1, <3>1, <3>2, PhaseSame DEF Served
  <2>2. CASE parts # <<>>
    <3> DEFINE rn == Parsed(Buffered(Transfer(cn), parts))
    <3>1. Received(e, parts) = rn
      BY <1>1, <2>2 DEF Received, cn
    <3> HIDE DEF rn
    <3>2. Served(b, rn.recv \o Rest(c), Sofar(c), rn)
      BY <1>3, <1>4, <1>7, <1>10, <1>11, <2>2, ServedRead DEF rn
    <3>3. QED
      BY <1>8, <3>1, <3>2, PhaseSame DEF Served
  <2>3. QED
    BY <2>1, <2>2
<1>13. Http(c)' = dn
  BY <1>6 DEF Http, HttpEnd
<1>14. /\ Reaches(c)'
       /\ Requests(c)' = dn.recv \o Rest(c)
       /\ Stream(c)' = Sofar(c) \o dn.send
       /\ threaded => conn'[NC(c)].flags = {} /\ conn'[C0(c)].flags = {}
  <2>1. CASE threaded
    <3>1. e = C1(c) /\ conn[NC(c)].peer # None /\ conn[NC(c)].alive
      BY <2>1, <1>5, <1>3, EndsOfClient DEF Tied, Reaches
    <3>2. conn'[NC(c)] = conn[NC(c)] /\ conn'[C0(c)] = conn[C0(c)]
          /\ wire'[C0(c)] = wire[C0(c)] /\ wire'[NC(c)] = wire[NC(c)] /\ wire'[C1(c)] = <<>>
      BY <3>1, <1>9, EndsOfClient
    <3>3. Reaches(c)'
      BY <1>8, <3>1, <3>2 DEF Reaches
    <3>4. Requests(c)' = dn.recv \o ((<<>> \o conn[C0(c)].send) \o wire[NC(c)])
      BY <1>6, <1>13, <2>1, <3>2 DEF Requests
    <3>5. <<>> \o conn[C0(c)].send = conn[C0(c)].send
      BY TypesOf, NoneAdded
    <3>6. Requests(c)' = dn.recv \o Rest(c)
      BY <2>1, <3>4, <3>5 DEF Rest
    <3>7. Stream(c)' = ((browser[c].got \o toBrowser[c]) \o conn[NC(c)].send)
                         \o (wire[C0(c)] \o dn.send)
      BY <1>6, <2>1, <3>1, <3>2 DEF Stream
    <3>8. Stream(c)' = Sofar(c) \o dn.send
      <4>1. ASSUME NEW x \in Seq(Msg), NEW y \in Seq(Msg), NEW z \in Seq(Msg)
            PROVE  x \o (y \o z) = (x \o y) \o z
        BY Assoc
      <4>2. dn.send \in Seq(Msg)
        BY <1>1, <1>7, <1>8, <1>10, ReceivedGrows DEF Grown, BuffersOK
      <4>3. (browser[c].got \o toBrowser[c]) \o conn[NC(c)].send \in Seq(Msg)
            /\ wire[C0(c)] \in Seq(Msg)
        BY TypesOf, ConcatEmpty
      <4>4. QED
        BY <2>1, <3>7, <4>1, <4>2, <4>3 DEF Sofar
    <3>9. QED
      BY <1>11, <3>2, <3>3, <3>6, <3>8
  <2>2. CASE ~threaded
    <3>1. e = NC(c)
      BY <2>2, EndsOfClient
    <3>2. Reaches(c)'
      BY <1>6, <1>8, <2>2, <3>1 DEF Reaches
    <3>3. Requests(c)' = dn.recv \o <<>>
      BY <1>6, <1>9, <1>13, <2>2, <3>1 DEF Requests
    <3>4. Stream(c)' = (browser[c].got \o toBrowser[c]) \o dn.send
      BY <1>6, <2>2, <3>1 DEF Stream
    <3>5. QED
      BY <2>2, <3>2, <3>3, <3>4 DEF Rest, Sofar
  <2>3. QED
    BY <2>1, <2>2
<1>15. /\ Phase(b, Requests(c)', Stream(c)', Http(c)')
       /\ InOrder(b.asked, Stream(c)')
  BY <1>12, <1>13, <1>14 DEF Served
<1>16. browser'[c] = b /\ threaded' = threaded
  BY <1>6
<1> HIDE DEF b, dn, cn, e, parts
<1>17. QED
  BY <1>14, <1>15, <1>16 DEF Exch

Shifts(s, t, u, v) == s \o ((t \o u) \o v) = ((s \o t) \o u) \o v

\* What is between two parts of a way can be counted to either.
LEMMA Between ==
    ASSUME NEW s \in Seq(Msg), NEW t \in Seq(Msg), NEW u \in Seq(Msg), NEW v \in Seq(Msg)
    PROVE  Shifts(s, t, u, v)
<1>1. t \o u \in Seq(Msg) /\ s \o t \in Seq(Msg)
  BY ConcatEmpty
<1>2. s \o ((t \o u) \o v) = (s \o (t \o u)) \o v
  BY <1>1, Assoc
<1>3. s \o (t \o u) = (s \o t) \o u
  BY Assoc
<1>4. QED
  BY <1>2, <1>3 DEF Shifts

\* The serving end writes.
LEMMA HttpWrites ==
    ASSUME ExchInv, IInv, NEW c \in Clients, NEW m \in Managers, Tied(c),
           Write(m, HttpEnd(c)), browser[c].pc = "open"
    PROVE  Exch(c)'
<1> DEFINE e == HttpEnd(c)
           b == browser[c]
           cn == conn[e]
           dn == conn'[e]
           u == Requests(c)
<1>1. e \in Ends /\ e[1] = c /\ IsHttp(e) /\ cn.peer = None
  BY EndsOfClient, Linked DEF IsHttp, IInv, NoLinks
<1>2. Handling(m, e, "write")
  BY DEF Write
<1>3. e \in Range(list[m]) /\ cn.alive /\ c \notin backlog
  BY <1>1, <1>2, HandlingThere, InList
<1>5. Reaches(c) /\ ~Hungup(e)
  BY <1>1, <1>3, Linked, EndsOfClient DEF Tied, Reaches, Hungup
<1>6. /\ threaded' = threaded /\ running' = running /\ backlog' = backlog
      /\ browser' = browser
  BY DEF Write
<1>7. IsConn(cn) /\ BuffersOK(cn) /\ BrowserOK(b) /\ cn.send \in Seq(Msg)
  BY <1>1 DEF ExchInv, Typed, IInv, ConnsOK, BuffersOK
<1>8. /\ Http(c) = cn /\ Stream(c) = Sofar(c) \o cn.send /\ Sofar(c) \in Seq(Msg)
  BY StreamTied DEF Http
<1>9. Served(b, u, Sofar(c), cn)
      /\ (threaded => conn[NC(c)].flags = {} /\ conn[C0(c)].flags = {})
  BY <1>5, <1>8 DEF ExchInv, Exch, Served
<1>10. CASE "close" \in cn.flags
  <2>1. conn' = conn /\ wire' = wire /\ toBrowser' = toBrowser
    BY <1>5, <1>10 DEF Write
  <2>2. SameFor(c)
    BY <1>6, <2>1 DEF SameFor
  <2>3. QED
    BY <1>6, <2>2, SameForKeeps DEF ExchInv
<1>11. CASE "close" \notin cn.flags
  <2>1. PICK n \in 1 .. Len(cn.send) :
          /\ Sent(e, SubSeq(cn.send, 1, n))
          /\ conn' = [conn EXCEPT ![e] =
                 AfterSend(e, [cn EXCEPT !.send = SubSeq(@, n + 1, Len(@))])]
    BY <1>5, <1>11 DEF Write
  <2> DEFINE p == SubSeq(cn.send, 1, n)
             q == SubSeq(cn.send, n + 1, Len(cn.send))
             tn == [cn EXCEPT !.send = q]
             sofar == Sofar(c) \o p
  <2>2. /\ p \in Seq(Msg) /\ q \in Seq(Msg)
        /\ sofar \o q = Sofar(c) \o cn.send
    BY <1>7, <1>8, MoveSome
  <2>3. sofar \in Seq(Msg)
    BY <1>8, <2>2, ConcatEmpty
  <2>4. conn' = [conn EXCEPT ![e] = Transfer(tn)]
    BY <1>1, <2>1 DEF AfterSend
  <2>5. Sent(e, p)
    BY <2>1
  <2> HIDE DEF p, q
  <2>6. /\ IsConn(tn) /\ BuffersOK(tn) /\ tn.send = q /\ tn.recv = cn.recv
        /\ tn.flags = cn.flags /\ tn.file = cn.file /\ tn.alive = cn.alive
        /\ tn.peer = cn.peer
    BY <1>7, <2>2 DEF IsConn, BuffersOK
  <2> HIDE DEF tn, sofar, u
  <2>7. Served(b, u, sofar, tn)
    BY <1>9, <2>2, <2>6, PhaseSame DEF Served
  <2>8. Served(b, u, sofar, Transfer(tn))
    BY <1>7, <2>3, <2>6, <2>7, ServedTransfer
  <2>9. /\ dn = Transfer(tn)
        /\ \A x \in Ends : x # e => conn'[x] = conn[x]
    BY <1>1, <2>4 DEF IInv, ConnsOK
  <2>10. dn.recv = cn.recv /\ dn.alive /\ BuffersOK(dn)
    <3>1. /\ BuffersOK(Transfer(tn)) /\ Transfer(tn).recv = tn.recv
          /\ Transfer(tn).alive = tn.alive
      BY <2>6, Transfers
    <3> HIDE DEF dn, cn
    <3>2. QED
      BY <1>3, <2>6, <2>9, <3>1
  <2>11. Http(c)' = dn
    BY <1>6 DEF Http, HttpEnd
  <2>12. /\ Reaches(c)'
         /\ Requests(c)' = u
         /\ Stream(c)' = sofar \o dn.send
         /\ threaded => conn'[NC(c)].flags = {} /\ conn'[C0(c)].flags = {}
    <3>1. CASE threaded
      <4>1. e = C1(c) /\ conn[NC(c)].peer # None /\ conn[NC(c)].alive
        BY <3>1, <1>5, <1>3, EndsOfClient DEF Tied, Reaches
      <4>2. /\ toBrowser' = toBrowser
            /\ wire' = [wire EXCEPT ![C0(c)] = @ \o p]
        BY <1>5, <2>5, <4>1, EndsOfClient DEF Sent
      <4>3. /\ conn'[NC(c)] = conn[NC(c)] /\ conn'[C0(c)] = conn[C0(c)]
            /\ wire'[C0(c)] = wire[C0(c)] \o p /\ wire'[NC(c)] = wire[NC(c)]
            /\ wire'[C1(c)] = wire[C1(c)]
        BY <2>9, <4>1, <4>2, EndsOfClient DEF ExchInv, Typed
      <4>4. Reaches(c)'
        BY <2>10, <4>1, <4>3 DEF Reaches
      <4>5. Requests(c)' = u
        BY <1>6, <1>8, <2>10, <2>11, <3>1, <4>3 DEF Requests, u
      <4>6. Stream(c)' = ((browser[c].got \o toBrowser[c]) \o conn[NC(c)].send)
                           \o ((wire[C0(c)] \o p) \o dn.send)
        BY <1>6, <3>1, <4>1, <4>2, <4>3 DEF Stream
      <4>8. /\ (browser[c].got \o toBrowser[c]) \o conn[NC(c)].send \in Seq(Msg)
            /\ wire[C0(c)] \in Seq(Msg) /\ dn.send \in Seq(Msg)
        BY <2>10, TypesOf, ConcatEmpty DEF BuffersOK
      <4>9. Stream(c)' = sofar \o dn.send
        <5>1. sofar = (((browser[c].got \o toBrowser[c]) \o conn[NC(c)].send)
                         \o wire[C0(c)]) \o p
          BY <3>1 DEF Sofar, sofar
        <5> DEFINE x == (browser[c].got \o toBrowser[c]) \o conn[NC(c)].send
                   y == wire[C0(c)]
                   t == dn.send
        <5>2. x \in Seq(Msg) /\ y \in Seq(Msg) /\ t \in Seq(Msg)
          BY <4>8
        <5>3. Stream(c)' = x \o ((y \o p) \o t) /\ sofar = (x \o y) \o p
          BY <4>6, <5>1
        <5> HIDE DEF x, y, t
        <5>4. x \o ((y \o p) \o t) = ((x \o y) \o p) \o t
          <6>1. p \in Seq(Msg)
            BY <2>2
          <6>2. Shifts(x, y, p, t)
            BY <5>2, <6>1, Between
          <6>3. QED
            BY <6>2 DEF Shifts
        <5>5. Stream(c)' = sofar \o t
          BY <5>3, <5>4
        <5> USE DEF t
        <5>6. QED
          BY <5>5
      <4>10. QED
        BY <1>9, <4>3, <4>4, <4>5, <4>9
    <3>2. CASE ~threaded
      <4>1. e = NC(c) /\ e[2] = "nc"
        BY <3>2, EndsOfClient
      <4>2. /\ wire' = wire /\ toBrowser' = [toBrowser EXCEPT ![c] = @ \o p]
        BY <1>1, <1>5, <2>5, <4>1 DEF Sent
      <4>3. toBrowser'[c] = toBrowser[c] \o p
        BY <4>2 DEF ExchInv, Typed
      <4>4. Reaches(c)'
        BY <1>6, <2>10, <3>2, <4>1 DEF Reaches
      <4>5. Requests(c)' = u
        BY <1>6, <1>8, <2>10, <2>11, <3>2, <4>2 DEF Requests, u
      <4>6. Stream(c)' = (browser[c].got \o (toBrowser[c] \o p)) \o dn.send
        BY <1>6, <3>2, <4>1, <4>3 DEF Stream
      <4>7. browser[c].got \o (toBrowser[c] \o p) = (browser[c].got \o toBrowser[c]) \o p
        <5>1. ASSUME NEW x \in Seq(Msg), NEW y \in Seq(Msg), NEW z \in Seq(Msg)
              PROVE  x \o (y \o z) = (x \o y) \o z
          BY Assoc
        <5>2. browser[c].got \in Seq(Msg) /\ toBrowser[c] \in Seq(Msg)
          BY TypesOf
        <5>3. QED
          BY <2>2, <5>1, <5>2
      <4>8. Stream(c)' = sofar \o dn.send
        BY <3>2, <4>6, <4>7 DEF Sofar, sofar
      <4>9. QED
        BY <3>2, <4>4, <4>5, <4>8
    <3>3. QED
      BY <3>1, <3>2
  <2>13. /\ Phase(b, Requests(c)', Stream(c)', Http(c)')
         /\ InOrder(b.asked, Stream(c)')
    BY <2>8, <2>9, <2>11, <2>12 DEF Served
  <2>14. browser'[c] = b /\ threaded' = threaded
    BY <1>6
  <2> HIDE DEF b, dn, cn, e
  <2>15. QED
    BY <2>12, <2>13, <2>14 DEF Exch
<1>12. QED
  BY <1>10, <1>11

\* A step that hands parts on keeps the exchange.
LEMMA HandedOn ==
    ASSUME NEW c \in Clients, Exch(c), browser[c].pc = "open",
           browser' = browser, threaded' = threaded, running' = running,
           Stream(c)' = Stream(c), Reaches(c)' <=> Reaches(c),
           Reaches(c) => /\ Requests(c)' = Requests(c) /\ Http(c)'.flags = Http(c).flags
                         /\ Http(c)'.file = Http(c).file
                         /\ Http(c).alive => Http(c)'.alive
                         /\ threaded => /\ conn'[NC(c)].flags = conn[NC(c)].flags
                                        /\ conn'[C0(c)].flags = conn[C0(c)].flags,
           ~Reaches(c) /\ running /\ Doomed(c) => Doomed(c)'
    PROVE  Exch(c)'
<1>1. /\ InOrder(browser[c].asked, Stream(c))
      /\ Reaches(c) => /\ Phase(browser[c], Requests(c), Stream(c), Http(c))
                       /\ threaded => conn[NC(c)].flags = {} /\ conn[C0(c)].flags = {}
      /\ ~Reaches(c) /\ running => Doomed(c)
  BY DEF Exch
<1>2. Reaches(c) => Phase(browser[c], Requests(c)', Stream(c)', Http(c)')
  BY <1>1, PhaseSame
<1>3. Reaches(c) => (threaded => conn'[NC(c)].flags = {} /\ conn'[C0(c)].flags = {})
  BY <1>1
<1>4. InOrder(browser[c].asked, Stream(c)') /\ (~Reaches(c) /\ running => Doomed(c)')
  BY <1>1
<1>5. browser'[c] = browser[c] /\ browser[c].pc = "open" /\ (NC(c))' = NC(c)
      /\ (C0(c))' = C0(c)
  BY DEF NC, C0
<1>6. QED
  BY <1>2, <1>3, <1>4, <1>5 DEF Exch, NC, C0

\* nc forwards what it reads to c0.
LEMMA NcForwards ==
    ASSUME ExchInv, IInv, NEW c \in Clients, NEW m \in Managers, Read(m, NC(c)),
           conn[NC(c)].peer # None, browser[c].pc = "open"
    PROVE  Exch(c)'
<1> DEFINE w == wire[NC(c)]
<1>1. conn[NC(c)].peer = C0(c) /\ conn[C0(c)].peer = NC(c) /\ threaded
      /\ conn[NC(c)].alive
  BY Linked
<1>2. ~Hungup(NC(c))
  BY EndsOfClient DEF Hungup
<1>3. /\ conn' = [conn EXCEPT ![C0(c)].send = @ \o w, ![NC(c)].flags = @ \cup {}]
      /\ wire' = [wire EXCEPT ![NC(c)] = <<>>]
      /\ threaded' = threaded /\ running' = running /\ backlog' = backlog
      /\ browser' = browser /\ toBrowser' = toBrowser
  BY <1>1, <1>2 DEF Read
<1>4. /\ conn'[C1(c)] = conn[C1(c)]
      /\ conn'[C0(c)].send = conn[C0(c)].send \o w
      /\ conn'[C0(c)].flags = conn[C0(c)].flags
      /\ conn'[NC(c)].flags = conn[NC(c)].flags /\ conn'[NC(c)].send = conn[NC(c)].send
      /\ conn'[NC(c)].peer = conn[NC(c)].peer /\ conn'[NC(c)].alive = conn[NC(c)].alive
  <2>1. /\ conn'[C1(c)] = conn[C1(c)]
        /\ conn'[C0(c)] = [conn[C0(c)] EXCEPT !.send = @ \o w]
        /\ conn'[NC(c)] = [conn[NC(c)] EXCEPT !.flags = @ \cup {}]
    BY <1>3, EndsOfClient DEF IInv, ConnsOK
  <2>2. IsConn(conn[C0(c)]) /\ IsConn(conn[NC(c)])
    BY EndsOfClient DEF IInv, ConnsOK
  <2>3. /\ conn'[C0(c)].send = conn[C0(c)].send \o w
        /\ conn'[C0(c)].flags = conn[C0(c)].flags
    BY <2>1, <2>2 DEF IsConn
  <2>4. /\ conn'[NC(c)].flags = conn[NC(c)].flags \cup {}
        /\ conn'[NC(c)].send = conn[NC(c)].send /\ conn'[NC(c)].peer = conn[NC(c)].peer
        /\ conn'[NC(c)].alive = conn[NC(c)].alive
    BY <2>1, <2>2 DEF IsConn
  <2>5. conn[NC(c)].flags \cup {} = conn[NC(c)].flags
    OBVIOUS
  <2>6. QED
    BY <2>1, <2>3, <2>4, <2>5
<1>5. wire'[NC(c)] = <<>> /\ wire'[C0(c)] = wire[C0(c)] /\ wire'[C1(c)] = wire[C1(c)]
  BY <1>3, EndsOfClient DEF ExchInv, Typed
<1>6. Stream(c)' = Stream(c)
  <2>1. Stream(c)' = ((browser[c].got \o toBrowser[c]) \o conn[NC(c)].send)
                       \o (wire[C0(c)] \o conn[C1(c)].send)
    BY <1>1, <1>3, <1>4, <1>5 DEF Stream, NC, C0, C1
  <2>2. QED
    BY <1>1, <2>1 DEF Stream
<1>7. Reaches(c)' <=> Reaches(c)
  BY <1>3, <1>4 DEF Reaches, NC, C1
<1>8. Http(c)' = Http(c)
  BY <1>1, <1>3, <1>4, EndsOfClient DEF Http, HttpEnd, C1
<1>9. Requests(c)' = Requests(c)
  <2> DEFINE r == Http(c).recv
             s == wire[C1(c)]
             t == conn[C0(c)].send
  <2>1. Requests(c) = r \o ((s \o t) \o w)
    BY <1>1 DEF Requests
  <2>2. Requests(c)' = r \o ((s \o (t \o w)) \o <<>>)
    BY <1>1, <1>3, <1>4, <1>5, <1>8 DEF Requests, C1, C0, NC
  <2>3. r \in Seq(Msg) /\ s \in Seq(Msg) /\ t \in Seq(Msg) /\ w \in Seq(Msg)
    BY TypesOf, RequestsSplit
  <2> HIDE DEF r, s, t, w
  <2>4. (s \o t) \o w = s \o (t \o w) /\ s \o (t \o w) \in Seq(Msg)
    BY <2>3, Assoc, ConcatEmpty
  <2>5. (s \o (t \o w)) \o <<>> = s \o (t \o w)
    BY <2>4, NoneAdded
  <2>6. QED
    BY <2>1, <2>2, <2>4, <2>5
<1>10. ASSUME Doomed(c) PROVE Doomed(c)'
  <2>1. CASE EndedBefore(c)
    BY <2>1, <1>3, <1>6 DEF EndedBefore, Doomed
  <2>2. CASE EndsAll(c)
    <3>1. w = <<>> /\ conn[C0(c)].send = <<>>
      BY <2>2, <1>1 DEF EndsAll
    <3>2. conn'[C0(c)].send = <<>>
      BY <1>4, <3>1, NoneAdded, EmptySeq
    <3>3. EndsAll(c)'
      BY <2>2, <1>3, <1>4, <1>5, <1>6, <3>2 DEF EndsAll, NC, C0
    <3>4. QED
      BY <3>3 DEF Doomed
  <2>3. QED
    BY <1>10, <2>1, <2>2 DEF Doomed
<1>11. Exch(c)
  BY DEF ExchInv
<1>12. QED
  BY <1>3, <1>4, <1>6, <1>7, <1>8, <1>9, <1>10, <1>11, HandedOn

\* c0 forwards what it reads to nc.
LEMMA C0Forwards ==
    ASSUME ExchInv, IInv, NEW c \in Clients, NEW m \in Managers, Read(m, C0(c)),
           conn[NC(c)].peer # None, browser[c].pc = "open"
    PROVE  Exch(c)'
<1> DEFINE w == wire[C0(c)]
           gone == IF Hungup(C0(c)) THEN {"close"} ELSE {}
<1>1. conn[NC(c)].peer = C0(c) /\ conn[C0(c)].peer = NC(c) /\ threaded
      /\ conn[NC(c)].alive /\ NC(c) # None
  BY Linked, EndsOfClient
<1>2. Hungup(C0(c)) <=> ~conn[C1(c)].alive
  BY EndsOfClient DEF Hungup
<1>3. /\ conn' = [conn EXCEPT ![NC(c)].send = @ \o w, ![C0(c)].flags = @ \cup gone]
      /\ wire' = [wire EXCEPT ![C0(c)] = <<>>]
      /\ threaded' = threaded /\ running' = running /\ backlog' = backlog
      /\ browser' = browser /\ toBrowser' = toBrowser
  BY <1>1 DEF Read
<1> HIDE DEF gone
<1>4. /\ conn'[C1(c)] = conn[C1(c)]
      /\ conn'[NC(c)].send = conn[NC(c)].send \o w
      /\ conn'[C0(c)].flags = conn[C0(c)].flags \cup gone
      /\ conn'[C0(c)].send = conn[C0(c)].send
      /\ conn'[NC(c)].flags = conn[NC(c)].flags
      /\ conn'[NC(c)].peer = conn[NC(c)].peer /\ conn'[NC(c)].alive = conn[NC(c)].alive
  <2>1. /\ conn'[C1(c)] = conn[C1(c)]
        /\ conn'[NC(c)] = [conn[NC(c)] EXCEPT !.send = @ \o w]
        /\ conn'[C0(c)] = [conn[C0(c)] EXCEPT !.flags = @ \cup gone]
    BY <1>3, EndsOfClient DEF IInv, ConnsOK
  <2>2. IsConn(conn[C0(c)]) /\ IsConn(conn[NC(c)])
    BY EndsOfClient DEF IInv, ConnsOK
  <2>3. QED
    BY <2>1, <2>2 DEF IsConn
<1>5. wire'[C0(c)] = <<>> /\ wire'[NC(c)] = wire[NC(c)] /\ wire'[C1(c)] = wire[C1(c)]
  BY <1>3, EndsOfClient DEF ExchInv, Typed
<1>6. Stream(c)' = Stream(c)
  <2> DEFINE r == browser[c].got \o toBrowser[c]
             s == conn[NC(c)].send
             t == conn[C1(c)].send
  <2>1. Stream(c) = (r \o s) \o (w \o t)
    BY <1>1 DEF Stream
  <2>2. Stream(c)' = (r \o (s \o w)) \o (<<>> \o t)
    BY <1>1, <1>3, <1>4, <1>5 DEF Stream, NC, C0, C1
  <2>3. r \in Seq(Msg) /\ s \in Seq(Msg) /\ w \in Seq(Msg) /\ t \in Seq(Msg)
    BY TypesOf, ConcatEmpty
  <2> HIDE DEF r, s, t, w
  <2>4. <<>> \o t = t
    BY <2>3, NoneAdded
  <2>5. Shifts(r, s, w, t)
    BY <2>3, Between
  <2>6. r \o ((s \o w) \o t) = (r \o (s \o w)) \o t
    BY <2>3, ConcatEmpty, Assoc
  <2>7. ((r \o s) \o w) \o t = (r \o s) \o (w \o t)
    BY <2>3, ConcatEmpty, Assoc
  <2>8. QED
    BY <2>1, <2>2, <2>4, <2>5, <2>6, <2>7 DEF Shifts
<1>7. Reaches(c)' <=> Reaches(c)
  BY <1>3, <1>4 DEF Reaches, NC, C1
<1>8. Http(c)' = Http(c)
  BY <1>1, <1>3, <1>4, EndsOfClient DEF Http, HttpEnd, C1
<1>9. Requests(c)' = Requests(c)
  <2>1. Requests(c)' = Http(c).recv \o ((wire[C1(c)] \o conn[C0(c)].send) \o wire[NC(c)])
    BY <1>1, <1>3, <1>4, <1>5, <1>8 DEF Requests, NC, C0, C1
  <2>2. QED
    BY <1>1, <2>1 DEF Requests
<1>10. ASSUME Doomed(c) PROVE Doomed(c)'
  <2>1. CASE EndedBefore(c)
    BY <2>1, <1>3, <1>6 DEF EndedBefore, Doomed
  <2>2. CASE EndsAll(c)
    <3>1. gone \subseteq {"close"}
      BY DEF gone
    <3>2. /\ conn'[C0(c)].send = <<>> /\ conn'[C0(c)].flags \subseteq {"close"}
          /\ wire'[C0(c)] = <<>> /\ "close" \notin conn'[NC(c)].flags
          /\ wire'[NC(c)] = <<>>
      BY <2>2, <1>1, <1>4, <1>5, <3>1 DEF EndsAll
    <3>3. EndsAll(c)'
      BY <2>2, <1>3, <1>6, <3>2 DEF EndsAll, NC, C0
    <3>4. QED
      BY <3>3 DEF Doomed
  <2>3. QED
    BY <1>10, <2>1, <2>2 DEF Doomed
<1>11. Exch(c)
  BY DEF ExchInv
<1>12. Reaches(c) => conn'[C0(c)].flags = conn[C0(c)].flags
  <2>1. Reaches(c) => conn[C1(c)].alive
    <3>1. c \notin backlog
      BY <1>1, EndsOfClient, AliveAccepted
    <3>2. QED
      BY <1>1, <3>1 DEF Reaches
  <2>2. QED
    BY <1>2, <1>4, <2>1 DEF gone
<1>13. QED
  BY <1>3, <1>4, <1>6, <1>7, <1>8, <1>9, <1>10, <1>11, <1>12, HandedOn

\* Without a link nc drops what it reads.
LEMMA NcReadsAlone ==
    ASSUME ExchInv, IInv, NEW c \in Clients, NEW m \in Managers, Read(m, NC(c)), threaded,
           conn[NC(c)].peer = None, c \notin backlog, browser[c].pc = "open"
    PROVE  Exch(c)'
<1> DEFINE e == NC(c)
           cn == conn[e]
           w == wire[e]
           rn == Received(e, w)
<1>1. ~Hungup(e) /\ ~IsHttp(e) /\ e \in Ends /\ e[2] = "nc"
  BY EndsOfClient DEF Hungup, IsHttp
<1>2. /\ conn' = [conn EXCEPT ![e] = [rn EXCEPT !.flags = @ \cup {}]]
      /\ wire' = [wire EXCEPT ![e] = <<>>]
      /\ threaded' = threaded /\ running' = running /\ backlog' = backlog
      /\ browser' = browser /\ toBrowser' = toBrowser
  BY <1>1 DEF Read
<1>3. rn = IF w = <<>> THEN cn ELSE Dropped(Buffered(cn, w))
  BY <1>1 DEF Received
<1>4. IsConn(cn) /\ SameLink(cn, rn)
  BY <1>1, ReceivedLinks DEF IInv, ConnsOK
<1>5. rn.send = cn.send
  <2>1. IsConn(Buffered(cn, w)) /\ Buffered(cn, w).send = cn.send
    BY <1>4 DEF Buffered, IsConn
  <2>2. Dropped(Buffered(cn, w)).send = cn.send
    BY <2>1 DEF Dropped, IsConn
  <2>3. QED
    BY <1>3, <2>2
<1>6. conn'[e] = [rn EXCEPT !.flags = @ \cup {}]
  BY <1>1, <1>2 DEF IInv, ConnsOK
<1> HIDE DEF rn, cn
<1>7. conn'[e].send = cn.send /\ conn'[e].peer = None /\ conn'[e].flags = rn.flags \cup {}
  BY <1>4, <1>5, <1>6 DEF SameLink, IsConn, cn
<1>8. Stream(c)' = Stream(c)
  <2>1. Stream(c)' = (browser[c].got \o toBrowser[c]) \o cn.send
    BY <1>2, <1>7 DEF Stream, NC
  <2>2. QED
    BY <2>1 DEF Stream, cn
<1>9. ~Reaches(c) /\ ~Reaches(c)'
  BY <1>2, <1>7 DEF Reaches, NC
<1>10. ASSUME Doomed(c) PROVE Doomed(c)'
  <2>1. CASE EndedBefore(c)
    BY <2>1, <1>2, <1>8 DEF EndedBefore, Doomed
  <2>2. CASE EndsAll(c)
    <3>1. w = <<>> /\ "close" \notin cn.flags
      BY <2>2 DEF EndsAll, cn
    <3>2. "close" \notin conn'[e].flags
      BY <1>3, <1>7, <3>1
    <3>3. wire'[e] = <<>>
      BY <1>1, <1>2 DEF ExchInv, Typed
    <3>4. EndsAll(c)'
      BY <2>2, <1>2, <1>7, <1>8, <3>2, <3>3 DEF EndsAll, NC, C0
    <3>5. QED
      BY <3>4 DEF Doomed
  <2>3. QED
    BY <1>10, <2>1, <2>2 DEF Doomed
<1>11. Exch(c)
  BY DEF ExchInv
<1>12. QED
  BY <1>2, <1>8, <1>9, <1>10, <1>11, HandedOn

\* nc, that does not serve, writes.
LEMMA NcWrites ==
    ASSUME ExchInv, IInv, NEW c \in Clients, NEW m \in Managers, Write(m, NC(c)), threaded,
           c \notin backlog, browser[c].pc = "open"
    PROVE  Exch(c)'
<1> DEFINE e == NC(c)
           cn == conn[e]
<1>1. ~Hungup(e) /\ ~IsHttp(e) /\ e \in Ends /\ e[2] = "nc" /\ e[1] = c
  BY EndsOfClient DEF Hungup, IsHttp
<1>2. threaded' = threaded /\ running' = running /\ backlog' = backlog /\ browser' = browser
  BY DEF Write
<1>3. CASE "close" \in cn.flags
  <2>1. conn' = conn /\ wire' = wire /\ toBrowser' = toBrowser
    BY <1>1, <1>3 DEF Write
  <2>2. SameFor(c)
    BY <1>2, <2>1 DEF SameFor
  <2>3. QED
    BY <1>2, <2>2, SameForKeeps DEF ExchInv
<1>4. CASE "close" \notin cn.flags
  <2>1. PICK n \in 1 .. Len(cn.send) :
          /\ Sent(e, SubSeq(cn.send, 1, n))
          /\ conn' = [conn EXCEPT ![e] =
                 AfterSend(e, [cn EXCEPT !.send = SubSeq(@, n + 1, Len(@))])]
    BY <1>1, <1>4 DEF Write
  <2> DEFINE p == SubSeq(cn.send, 1, n)
             q == SubSeq(cn.send, n + 1, Len(cn.send))
             g == browser[c].got
             t == toBrowser[c]
             s == cn.send
  <2>2. g \in Seq(Msg) /\ t \in Seq(Msg) /\ g \o t \in Seq(Msg) /\ s \in Seq(Msg)
    BY TypesOf, ConcatEmpty
  <2>3. /\ p \in Seq(Msg) /\ q \in Seq(Msg)
        /\ ((g \o t) \o p) \o q = (g \o t) \o s
    BY <2>2, MoveSome
  <2>4. conn' = [conn EXCEPT ![e] = [cn EXCEPT !.send = q]]
    BY <1>1, <2>1 DEF AfterSend
  <2>5. wire' = wire /\ toBrowser' = [toBrowser EXCEPT ![c] = @ \o p]
    BY <1>1, <2>1 DEF Sent
  <2> HIDE DEF p, q
  <2>6. /\ conn'[C0(c)] = conn[C0(c)] /\ conn'[C1(c)] = conn[C1(c)]
        /\ conn'[e] = [cn EXCEPT !.send = q]
    BY <2>4, EndsOfClient DEF IInv, ConnsOK
  <2>7. IsConn(cn)
    BY <1>1 DEF IInv, ConnsOK
  <2> HIDE DEF cn
  <2>8. /\ conn'[e].send = q /\ conn'[e].flags = cn.flags /\ conn'[e].peer = cn.peer
        /\ conn'[e].alive = cn.alive
    BY <2>6, <2>7 DEF IsConn
  <2>9. toBrowser'[c] = t \o p
    BY <2>5 DEF ExchInv, Typed
  <2>10. (g \o (t \o p)) \o q = (g \o t) \o s
    <3> HIDE DEF g, t, s
    <3>1. g \o (t \o p) = (g \o t) \o p
      BY <2>2, <2>3, Assoc
    <3>2. QED
      BY <2>3, <3>1
  <2>11. Stream(c)' = Stream(c)
    <3>1. CASE cn.peer # None
      <4> DEFINE tail == wire[C0(c)] \o conn[C1(c)].send
      <4>1. Stream(c)' = ((g \o (t \o p)) \o q) \o tail
        BY <1>2, <2>5, <2>6, <2>8, <2>9, <3>1 DEF Stream, NC, C0, C1
      <4>2. Stream(c) = ((g \o t) \o s) \o tail
        BY <3>1 DEF Stream, cn
      <4> HIDE DEF tail, g, t, s
      <4>3. QED
        BY <2>10, <4>1, <4>2
    <3>2. CASE cn.peer = None
      <4>1. Stream(c)' = (g \o (t \o p)) \o q
        BY <1>2, <2>8, <2>9, <3>2 DEF Stream, NC, C0, C1
      <4>2. Stream(c) = (g \o t) \o s
        BY <3>2 DEF Stream, cn
      <4>3. QED
        BY <2>10, <4>1, <4>2
    <3>3. QED
      BY <3>1, <3>2
  <2>12. Reaches(c)' <=> Reaches(c)
    BY <1>2, <2>6, <2>8 DEF Reaches, NC, C1, cn
  <2>13. Http(c)' = Http(c)
    BY <1>2, <2>6, EndsOfClient DEF Http, HttpEnd, C1
  <2>14. Requests(c)' = Requests(c)
    <3>1. Requests(c)' = Http(c).recv \o ((wire[C1(c)] \o conn[C0(c)].send) \o wire[NC(c)])
      BY <1>2, <2>5, <2>6, <2>13 DEF Requests, NC, C0, C1
    <3>2. QED
      BY <3>1 DEF Requests
  <2>15. ASSUME Doomed(c) PROVE Doomed(c)'
    <3>1. CASE EndedBefore(c)
      BY <3>1, <1>2, <2>11 DEF EndedBefore, Doomed
    <3>2. CASE EndsAll(c)
      <4>1. EndsAll(c)'
        BY <3>2, <1>2, <2>5, <2>6, <2>8, <2>11 DEF EndsAll, NC, C0, cn
      <4>2. QED
        BY <4>1 DEF Doomed
    <3>3. QED
      BY <2>15, <3>1, <3>2 DEF Doomed
  <2>16. Exch(c)
    BY DEF ExchInv
  <2>17. conn'[NC(c)].flags = conn[NC(c)].flags /\ conn'[C0(c)].flags = conn[C0(c)].flags
    BY <2>6, <2>8 DEF cn
  <2>18. QED
    BY <1>2, <2>11, <2>12, <2>13, <2>14, <2>15, <2>16, <2>17, HandedOn
<1>5. QED
  BY <1>3, <1>4

\* c0 writes what it was given to forward.
LEMMA C0Writes ==
    ASSUME ExchInv, IInv, NEW c \in Clients, NEW m \in Managers, Write(m, C0(c)),
           conn[NC(c)].peer # None, browser[c].pc = "open"
    PROVE  Exch(c)'
<1> DEFINE e == C0(c)
           cn == conn[e]
<1>1. /\ threaded /\ conn[NC(c)].alive /\ ~IsHttp(e) /\ e \in Ends /\ e[2] = "c0" /\ e[1] = c
      /\ (Hungup(e) <=> ~conn[C1(c)].alive) /\ Other(e) = C1(c)
  BY EndsOfClient, Linked DEF Hungup, IsHttp
<1>2. threaded' = threaded /\ running' = running /\ backlog' = backlog /\ browser' = browser
  BY DEF Write
<1>3. Handling(m, e, "write")
  BY DEF Write
<1>4. cn.send # <<>> /\ c \notin backlog
  BY <1>1, <1>3, HandlingThere, InList
<1>5. ~EndsAll(c)
  BY <1>1, <1>4 DEF EndsAll
<1>6. Reaches(c) <=> conn[C1(c)].alive
  BY <1>1, <1>4 DEF Reaches
<1>7. Exch(c) /\ IsConn(cn) /\ cn.send \in Seq(Msg)
  BY <1>1, TypesOf DEF ExchInv, IInv, ConnsOK
\* Whatever is written, only c0 and the way to c1 change.
<1>8. ASSUME NEW dn, conn' = [conn EXCEPT ![e] = dn], toBrowser' = toBrowser,
             wire'[C0(c)] = wire[C0(c)], wire'[NC(c)] = wire[NC(c)],
             Reaches(c) => dn.flags = cn.flags /\ wire'[C1(c)] \o dn.send = wire[C1(c)] \o cn.send
      PROVE  Exch(c)'
  <2>1. /\ conn'[NC(c)] = conn[NC(c)] /\ conn'[C1(c)] = conn[C1(c)]
        /\ conn'[e] = dn
    BY <1>8, EndsOfClient DEF IInv, ConnsOK
  <2>2. Stream(c)' = Stream(c)
    <3>1. Stream(c)' = ((browser[c].got \o toBrowser[c]) \o conn[NC(c)].send)
                         \o (wire[C0(c)] \o conn[C1(c)].send)
      BY <1>1, <1>2, <1>8, <2>1 DEF Stream, NC, C0, C1
    <3>2. QED
      BY <1>1, <3>1 DEF Stream
  <2>3. Reaches(c)' <=> Reaches(c)
    BY <1>2, <2>1 DEF Reaches, NC, C1
  <2>4. Http(c)' = Http(c)
    BY <1>1, <1>2, <2>1, EndsOfClient DEF Http, HttpEnd, C1
  <2>5. Reaches(c) => Requests(c)' = Requests(c)
    <3>1. Requests(c)' = Http(c).recv \o ((wire'[C1(c)] \o dn.send) \o wire[NC(c)])
      BY <1>1, <1>2, <1>8, <2>1, <2>4 DEF Requests, NC, C0, C1
    <3>2. Requests(c) = Http(c).recv \o ((wire[C1(c)] \o cn.send) \o wire[NC(c)])
      BY <1>1 DEF Requests
    <3> HIDE DEF cn
    <3>3. QED
      BY <1>8, <3>1, <3>2
  <2>6. Doomed(c) => Doomed(c)'
    BY <1>2, <1>5, <2>2 DEF EndedBefore, Doomed
  <2>7. QED
    BY <1>2, <1>7, <1>8, <2>1, <2>2, <2>3, <2>4, <2>5, <2>6, HandedOn
<1>9. CASE conn' = conn /\ wire' = wire /\ toBrowser' = toBrowser
  <2>1. SameFor(c)
    BY <1>2, <1>9 DEF SameFor
  <2>2. QED
    BY <1>2, <1>7, <2>1, SameForKeeps DEF ExchInv
<1>10. ASSUME NEW n \in 1 .. Len(cn.send), Sent(e, SubSeq(cn.send, 1, n)),
              conn' = [conn EXCEPT ![e] =
                 AfterSend(e, [cn EXCEPT !.send = SubSeq(@, n + 1, Len(@))])]
       PROVE  Exch(c)'
  <2> DEFINE p == SubSeq(cn.send, 1, n)
             q == SubSeq(cn.send, n + 1, Len(cn.send))
             dn == [cn EXCEPT !.send = q]
  <2>1. conn' = [conn EXCEPT ![e] = dn]
    BY <1>1, <1>10 DEF AfterSend
  <2>2. dn.flags = cn.flags /\ dn.send = q
    BY <1>7 DEF IsConn
  <2>3. /\ toBrowser' = toBrowser
        /\ wire' = IF Hungup(e) THEN wire ELSE [wire EXCEPT ![C1(c)] = @ \o p]
    BY <1>1, <1>10 DEF Sent
  <2>4. (wire[C1(c)] \o p) \o q = wire[C1(c)] \o cn.send
    BY <1>7, TypesOf, MoveSome
  <2> HIDE DEF p, q, dn, cn
  <2>5. wire'[C0(c)] = wire[C0(c)] /\ wire'[NC(c)] = wire[NC(c)]
        /\ (Reaches(c) => wire'[C1(c)] = wire[C1(c)] \o p)
    BY <1>1, <1>6, <2>3, EndsOfClient DEF ExchInv, Typed
  <2>6. QED
    BY <1>8, <2>1, <2>2, <2>3, <2>4, <2>5
<1>11. ASSUME Hungup(e), wire' = wire, toBrowser' = toBrowser,
              conn' = [conn EXCEPT ![e] =
                         AfterSend(e, [cn EXCEPT !.flags = @ \cup {"close"}])]
       PROVE  Exch(c)'
  BY <1>1, <1>6, <1>8, <1>11
<1>12. QED
  BY <1>9, <1>10, <1>11 DEF Write

\* What a step of one end does to its client's exchange.
LEMMA ReadExch ==
    ASSUME ExchInv, IInv, NEW m \in Managers, NEW e \in EndsOf(m), Read(m, e),
           NEW c \in Clients, e[1] = c
    PROVE  Exch(c)'
<1>1. e \in Ends /\ e \in {NC(c), C0(c), C1(c)}
  BY ClientOf, EndsOfClient DEF EndsOf
<1>2. c \notin backlog
  BY <1>1, HandlingThere, InList DEF Read
<1>3. /\ threaded' = threaded /\ running' = running /\ backlog' = backlog
      /\ browser' = browser /\ toBrowser' = toBrowser
  BY DEF Read
<1>4. Exch(c)
  BY <1>1 DEF ExchInv
<1>5. CASE browser[c].pc # "open"
  BY <1>3, <1>5 DEF Exch
<1>6. CASE browser[c].pc = "open"
  <2>1. CASE e = HttpEnd(c) /\ Tied(c)
    BY <1>1, <1>6, <2>1, HttpReads
  <2>2. CASE e = NC(c) /\ ~(e = HttpEnd(c) /\ Tied(c))
    <3>1. threaded
      BY <1>1, <2>2, EndsOfClient DEF Tied
    <3>2. QED
      BY <1>1, <1>2, <1>6, <2>2, <3>1, NcForwards, NcReadsAlone
  <2>3. CASE e = C0(c) /\ conn[NC(c)].peer # None
    BY <1>1, <1>6, <2>3, C0Forwards
  <2>4. CASE e # NC(c) /\ conn[NC(c)].peer = None
    <3>1. conn[e].peer = None
      BY <1>1, <2>4, Linked, EndsOfClient
    <3>2. \E cn : conn' = [conn EXCEPT ![e] = cn]
      BY <3>1 DEF Read
    <3>3. wire' = [wire EXCEPT ![e] = <<>>]
      BY DEF Read
    <3>4. conn'[NC(c)] = conn[NC(c)] /\ wire'[NC(c)] = wire[NC(c)]
      BY <1>1, <2>4, <3>2, <3>3, EndsOfClient DEF IInv, ConnsOK, ExchInv, Typed
    <3>5. QED
      BY <1>1, <1>2, <1>3, <1>4, <2>4, <3>4, DetachedKeeps
  <2>5. CASE e = C1(c) /\ conn[NC(c)].peer # None
    <3>1. threaded
      BY <1>1, <2>5, Linked
    <3>2. QED
      BY <1>1, <2>1, <2>5, <3>1, EndsOfClient DEF Tied
  <2>6. QED
    BY <1>1, <2>1, <2>2, <2>3, <2>4, <2>5
<1>7. QED
  BY <1>5, <1>6

\* Every end of a client that writes keeps its exchange.
LEMMA WriteExch ==
    ASSUME ExchInv, IInv, NEW m \in Managers, NEW e \in EndsOf(m), Write(m, e),
           NEW c \in Clients, e[1] = c
    PROVE  Exch(c)'
<1>1. e \in Ends /\ e \in {NC(c), C0(c), C1(c)}
  BY ClientOf, EndsOfClient DEF EndsOf
<1>2. c \notin backlog
  BY <1>1, HandlingThere, InList DEF Write
<1>3. threaded' = threaded /\ running' = running /\ backlog' = backlog /\ browser' = browser
  BY DEF Write
<1>4. Exch(c)
  BY <1>1 DEF ExchInv
<1>5. CASE browser[c].pc # "open"
  BY <1>3, <1>5 DEF Exch
<1>6. CASE browser[c].pc = "open"
  <2>1. CASE e = HttpEnd(c) /\ Tied(c)
    BY <1>1, <1>6, <2>1, HttpWrites
  <2>2. CASE e = NC(c) /\ ~(e = HttpEnd(c) /\ Tied(c))
    <3>1. threaded
      BY <1>1, <2>2, EndsOfClient DEF Tied
    <3>2. QED
      BY <1>1, <1>2, <1>6, <2>2, <3>1, NcWrites
  <2>3. CASE e = C0(c) /\ conn[NC(c)].peer # None
    BY <1>1, <1>6, <2>3, C0Writes
  <2>4. CASE e # NC(c) /\ conn[NC(c)].peer = None
    <3>1. conn' = conn \/ \E cn : conn' = [conn EXCEPT ![e] = cn]
      BY DEF Write
    <3>2. e[2] # "nc" /\ Other(e) # NC(c)
      BY <1>1, <2>4, EndsOfClient
    <3>3. toBrowser' = toBrowser /\ (wire' = wire \/ \E w : wire' = [wire EXCEPT ![Other(e)] = w])
      BY <3>2 DEF Write, Sent
    <3>4. conn'[NC(c)] = conn[NC(c)] /\ wire'[NC(c)] = wire[NC(c)]
      BY <1>1, <2>4, <3>1, <3>2, <3>3, EndsOfClient DEF IInv, ConnsOK, ExchInv, Typed
    <3>5. QED
      BY <1>1, <1>2, <1>3, <1>4, <2>4, <3>3, <3>4, DetachedKeeps
  <2>5. CASE e = C1(c) /\ conn[NC(c)].peer # None
    <3>1. threaded
      BY <1>1, <2>5, Linked
    <3>2. QED
      BY <1>1, <2>1, <2>5, <3>1, EndsOfClient DEF Tied
  <2>6. QED
    BY <1>1, <2>1, <2>2, <2>3, <2>4, <2>5
<1>7. QED
  BY <1>5, <1>6

-----------------------------------------------------------------------------
(* Closing.                                                                *)

\* What comes before the last.
LEMMA Below ==
    ASSUME NEW n \in Nat
    PROVE  \A j \in 1 .. n - 1 : j \in 1 .. n /\ j < n
OBVIOUS

\* An exchange whose serving end is to be closed is over.
LEMMA PhaseClosed ==
    ASSUME NEW b, BrowserOK(b), NEW u, NEW s, NEW cn, Phase(b, u, s, cn),
           "close" \in cn.flags \/ ("send and close" \in cn.flags /\ cn.send = <<>>)
    PROVE  \/ Lists(b, u, s, cn) /\ cn.send = <<>>
           \/ CutOff(b.asked) /\ s = <<>>
<1>1. CASE Lists(b, u, s, cn)
  BY <1>1 DEF Lists
<1>2. CASE Garbles(b, u, s, cn)
  BY <1>2 DEF Garbles, CutOff
<1>3. CASE Over(b, u, s, cn)
  <2>1. PICK i \in 1 .. Len(b.asked) - 1 : b.asked[i] = "listing"
    BY <1>3 DEF Over
  <2>2. Len(b.asked) \in Nat
    BY LenProperties DEF BrowserOK
  <2>3. i \in 1 .. Len(b.asked) /\ i < Len(b.asked)
    BY <2>2, Below
  <2>4. QED
    BY <1>3, <2>1, <2>3 DEF Over, CutOff
<1>4. QED
  BY <1>1, <1>2, <1>3 DEF Phase, Idle, Waits, Answers

\* e is destroyed, by a poll or by mg_mgr_free.
Destroys(m, e) ==
    /\ conn[e].alive /\ Closed(m, e) /\ (running => ToClose(e))
    /\ threaded' = threaded /\ running' = running /\ backlog' = backlog
    /\ browser' = browser /\ toBrowser' = toBrowser

\* What that leaves.
Destroyed(e) ==
    /\ conn'[e] = Gone /\ wire'[e] = <<>>
    /\ \A x \in Ends : x # e => wire'[x] = wire[x]
    /\ \A x \in Ends : x # e /\ x # conn[e].peer => conn'[x] = conn[x]
    /\ conn[e].peer # None =>
         /\ conn[e].peer = Mate(e) /\ Mate(e) \in Ends /\ Mate(e) # e
         /\ conn'[Mate(e)].peer = None
         /\ conn'[Mate(e)].flags = conn[Mate(e)].flags \cup {"send and close"}
         /\ conn'[Mate(e)].send = conn[Mate(e)].send
         /\ conn'[Mate(e)].alive = conn[Mate(e)].alive
         /\ conn'[Mate(e)].recv = conn[Mate(e)].recv
         /\ conn'[Mate(e)].file = conn[Mate(e)].file

\* mg_close_conn leaves this.
LEMMA DestroyedEnd ==
    ASSUME IInv, ExchInv, NEW m, NEW e \in Ends, Closed(m, e)
    PROVE  Destroyed(e)
<1>1. wire'[e] = <<>> /\ \A x \in Ends : x # e => wire'[x] = wire[x]
  BY DEF Closed, ExchInv, Typed
<1>2. CASE conn[e].peer = None
  <2>1. conn' = [conn EXCEPT ![e] = Gone]
    BY <1>2 DEF Closed, Unlinked
  <2>2. QED
    BY <1>1, <1>2, <2>1 DEF IInv, ConnsOK, Destroyed
<1>3. CASE conn[e].peer # None
  <2>1. e[2] # "c1" /\ conn[e].peer = Mate(e)
    BY <1>3 DEF IInv, LinksAlive
  <2>2. Mate(e) \in Ends /\ Mate(e) # e
    BY <2>1, Mates
  <2>3. conn' = [[conn EXCEPT ![Mate(e)].flags = @ \cup {"send and close"},
                              ![Mate(e)].peer = None] EXCEPT ![e] = Gone]
    BY <1>3, <2>1 DEF Closed, Unlinked
  <2> DEFINE p == Mate(e)
  <2>4. /\ conn'[e] = Gone
        /\ conn'[p] = [conn[p] EXCEPT !.flags = @ \cup {"send and close"}, !.peer = None]
        /\ \A x \in Ends : x # e /\ x # p => conn'[x] = conn[x]
    BY <2>2, <2>3 DEF IInv, ConnsOK, IsConn
  <2>5. IsConn(conn[p])
    BY <2>2 DEF IInv, ConnsOK
  <2> HIDE DEF p
  <2>6. /\ conn'[p].peer = None /\ conn'[p].flags = conn[p].flags \cup {"send and close"}
        /\ conn'[p].send = conn[p].send /\ conn'[p].alive = conn[p].alive
        /\ conn'[p].recv = conn[p].recv /\ conn'[p].file = conn[p].file
    BY <2>4, <2>5 DEF IsConn
  <2> USE DEF p
  <2>7. QED
    BY <1>1, <2>1, <2>2, <2>4, <2>6 DEF Destroyed
<1>4. QED
  BY <1>2, <1>3

Empty(s) == s = <<>>

\* Two sequences put together are empty if both are.
LEMMA BothEmpty ==
    ASSUME NEW s \in Seq(Msg), NEW t \in Seq(Msg)
    PROVE  Empty(s \o t) <=> Empty(s) /\ Empty(t)
<1>1. s \o t = <<>> => s = <<>> /\ t = <<>>
  BY ConcatEmpty
<1>2. <<>> \o <<>> = <<>>
  OBVIOUS
<1>3. QED
  BY <1>1, <1>2 DEF Empty

\* An exchange whose browser is cut off from the serving end.
LEMMA CutOffExch ==
    ASSUME NEW c, browser'[c] = browser[c], running' = running,
           ~Reaches(c)', InOrder(browser[c].asked, Stream(c)'), running => Doomed(c)'
    PROVE  Exch(c)'
BY DEF Exch

\* The last request of a client that is listed is one for a listing.
LEMMA ListsIsLast ==
    ASSUME NEW b, NEW u, NEW s, NEW cn, Lists(b, u, s, cn)
    PROVE  ListsLast(b)
BY DEF Lists, ListsLast

\* The browser's end is destroyed.
LEMMA NcDestroyed ==
    ASSUME ExchInv, IInv, NEW m, NEW c \in Clients, Destroys(m, NC(c)),
           browser[c].pc = "open"
    PROVE  Exch(c)'
<1> DEFINE g == browser[c].got \o toBrowser[c]
           s == conn[NC(c)].send
           wz == wire[C0(c)] \o conn[C1(c)].send
           b == browser[c]
<1>1. /\ NC(c) \in Ends /\ Closed(m, NC(c)) /\ conn[NC(c)].alive /\ threaded' = threaded
      /\ running' = running /\ backlog' = backlog /\ browser' = browser /\ toBrowser' = toBrowser
      /\ running => ToClose(NC(c))
  BY EndsOfClient DEF Destroys
<1>2. c \notin backlog
  BY <1>1, AliveAccepted, EndsOfClient
<1>3. Destroyed(NC(c))
  BY <1>1, DestroyedEnd
<1>4. conn'[NC(c)] = Gone /\ wire'[NC(c)] = <<>>
  BY <1>3 DEF Destroyed
<1>5. /\ g \in Seq(Msg) /\ s \in Seq(Msg) /\ wz \in Seq(Msg) /\ g \o s \in Seq(Msg)
      /\ g \o <<>> = g /\ Limit(b.asked) \in Nat /\ BrowserOK(b)
  BY TypesOf, ConcatEmpty, NoneAdded
<1>6. /\ InOrder(b.asked, Stream(c))
      /\ Reaches(c) => /\ Phase(b, Requests(c), Stream(c), Http(c))
                       /\ threaded => conn[NC(c)].flags = {}
      /\ ~Reaches(c) /\ running => Doomed(c)
  BY DEF ExchInv, Exch
<1>7. Stream(c) = IF threaded /\ conn[NC(c)].peer # None THEN (g \o s) \o wz ELSE g \o s
  BY DEF Stream
<1>8. Gone.send = <<>> /\ Gone.peer = None /\ Gone.flags = {} /\ ~Gone.alive
  BY DEF Gone
<1>9. Stream(c)' = g
  <2>1. Stream(c)' = g \o <<>>
    BY <1>1, <1>4, <1>8 DEF Stream, NC, g
  <2>2. QED
    BY <1>5, <2>1
<1> HIDE DEF g, s, wz, b
<1>10. InOrder(b.asked, g)
  <2>1. InOrder(b.asked, g \o s)
    BY <1>5, <1>6, <1>7, InOrderPrefix
  <2>2. QED
    BY <1>5, <2>1, InOrderPrefix
<1>11. ~Reaches(c)'
  BY <1>1, <1>2, <1>4, <1>8 DEF Reaches, NC
<1>12. browser'[c] = browser[c] /\ b = browser[c]
  BY <1>1 DEF b
<1>13. ListsLast(b) /\ Len(g) = 2 => Doomed(c)'
  BY <1>4, <1>8, <1>9, <1>12 DEF Doomed, EndsAll, NC
<1>14. CutOff(b.asked) /\ Empty(g) => Doomed(c)'
  BY <1>9, <1>12 DEF Doomed, EndedBefore, Empty
<1>15. ASSUME running PROVE Doomed(c)'
  <2>1. ToClose(NC(c))
    BY <1>1, <1>15
  <2>2. CASE threaded
    <3>1. ~Reaches(c)
      BY <1>6, <2>1, <2>2 DEF ToClose
    <3>2. CASE EndsAll(c)
      <4>1. ListsLast(b) /\ Len(Stream(c)) = 2 /\ "close" \notin conn[NC(c)].flags
        BY <3>2 DEF EndsAll, b
      <4>2. s = <<>> /\ conn[NC(c)].peer = None
        BY <1>1, <2>1, <4>1 DEF ToClose, ExchInv, LinkedStay, s
      <4>3. Len(g) = 2
        BY <1>5, <1>7, <4>1, <4>2
      <4>4. QED
        BY <1>13, <4>1, <4>3
    <3>3. CASE EndedBefore(c)
      <4>1. CutOff(b.asked) /\ Empty(Stream(c))
        BY <3>3 DEF EndedBefore, b, Empty
      <4>2. Empty(g \o s)
        BY <1>5, <1>7, <4>1, BothEmpty
      <4>3. Empty(g)
        BY <1>5, <4>2, BothEmpty
      <4>4. QED
        BY <1>14, <4>1, <4>3
    <3>4. QED
      BY <1>6, <1>15, <3>1, <3>2, <3>3 DEF Doomed
  <2>3. CASE ~threaded
    <3>1. Reaches(c) /\ Http(c) = conn[NC(c)] /\ Stream(c) = g \o s
      BY <1>1, <1>7, <2>3 DEF Reaches, Http, HttpEnd, NC
    <3>2. Phase(b, Requests(c), Stream(c), Http(c))
      BY <1>6, <3>1
    <3>3. "close" \in Http(c).flags \/ ("send and close" \in Http(c).flags /\ Http(c).send = <<>>)
      BY <2>1, <3>1 DEF ToClose
    <3>4. \/ Lists(b, Requests(c), Stream(c), Http(c)) /\ Http(c).send = <<>>
          \/ CutOff(b.asked) /\ Stream(c) = <<>>
      BY <1>5, <3>2, <3>3, PhaseClosed
    <3>5. CASE CutOff(b.asked) /\ Stream(c) = <<>>
      <4>1. Empty(g \o s)
        BY <3>1, <3>5 DEF Empty
      <4>2. Empty(g)
        BY <1>5, <4>1, BothEmpty
      <4>3. QED
        BY <1>14, <3>5, <4>2
    <3>6. CASE Lists(b, Requests(c), Stream(c), Http(c)) /\ Http(c).send = <<>>
      <4>1. s = <<>> /\ Len(g \o s) = 2
        BY <3>1, <3>6 DEF s, Lists
      <4>2. Len(g) = 2
        BY <1>5, <4>1
      <4>3. ListsLast(b)
        BY <3>6, ListsIsLast
      <4>4. QED
        BY <1>13, <4>2, <4>3
    <3>7. QED
      BY <3>4, <3>5, <3>6
  <2>4. QED
    BY <2>2, <2>3
<1>16. QED
  <2>1. InOrder(browser[c].asked, Stream(c)')
    BY <1>9, <1>10, <1>12
  <2>2. QED
    BY <1>1, <1>11, <1>12, <1>15, <2>1, CutOffExch

\* The forwarder's end of the pair is destroyed while it is linked.
LEMMA C0Destroyed ==
    ASSUME ExchInv, IInv, NEW m, NEW c \in Clients, Destroys(m, C0(c)),
           browser[c].pc = "open", conn[NC(c)].peer # None
    PROVE  Exch(c)'
<1> DEFINE gs == (browser[c].got \o toBrowser[c]) \o conn[NC(c)].send
           w == wire[C0(c)]
           z == conn[C1(c)].send
           b == browser[c]
<1>1. /\ C0(c) \in Ends /\ Closed(m, C0(c)) /\ conn[C0(c)].alive /\ threaded' = threaded
      /\ running' = running /\ backlog' = backlog /\ browser' = browser /\ toBrowser' = toBrowser
      /\ running => ToClose(C0(c))
  BY EndsOfClient DEF Destroys
<1>2. c \notin backlog
  BY <1>1, AliveAccepted, EndsOfClient
<1>3. Destroyed(C0(c))
  BY <1>1, DestroyedEnd
<1>4. /\ threaded /\ conn[C0(c)].peer = NC(c) /\ Mate(C0(c)) = NC(c) /\ conn[NC(c)].alive
      /\ NC(c) # None /\ C1(c) \in Ends /\ NC(c) \in Ends /\ NC(c) # C0(c)
  BY Linked, EndsOfClient
<1>5. /\ conn'[NC(c)].peer = None /\ conn'[NC(c)].send = conn[NC(c)].send
      /\ conn'[NC(c)].flags = conn[NC(c)].flags \cup {"send and close"}
      /\ wire'[NC(c)] = wire[NC(c)]
  BY <1>3, <1>4 DEF Destroyed
<1>6. /\ gs \in Seq(Msg) /\ w \in Seq(Msg) /\ z \in Seq(Msg) /\ w \o z \in Seq(Msg)
      /\ gs \o <<>> = gs /\ Limit(b.asked) \in Nat /\ BrowserOK(b)
  <2>1. browser[c].got \o toBrowser[c] \in Seq(Msg)
    BY TypesOf, ConcatEmpty
  <2>2. gs \in Seq(Msg)
    BY <2>1, TypesOf, ConcatEmpty
  <2>3. w \o z \in Seq(Msg)
    BY TypesOf, ConcatEmpty
  <2>4. QED
    BY <2>2, <2>3, TypesOf, NoneAdded
<1>7. /\ InOrder(b.asked, Stream(c))
      /\ Reaches(c) /\ threaded => conn[C0(c)].flags = {}
      /\ ~Reaches(c) /\ running => Doomed(c)
  BY DEF ExchInv, Exch
<1>8. Stream(c) = gs \o (w \o z)
  BY <1>4 DEF Stream
<1>9. Stream(c)' = gs
  BY <1>1, <1>5 DEF Stream, NC, gs
<1>10. browser'[c] = browser[c] /\ b = browser[c]
  BY <1>1 DEF b
<1> HIDE DEF gs, w, z, b
<1>11. InOrder(b.asked, gs)
  BY <1>6, <1>7, <1>8, InOrderPrefix
<1>12. ~Reaches(c)'
  BY <1>1, <1>2, <1>4, <1>5 DEF Reaches, NC
<1>13. ASSUME running PROVE Doomed(c)'
  <2>1. "close" \in conn[C0(c)].flags
    BY <1>1, <1>4, <1>13 DEF ToClose, ExchInv, LinkedStay
  <2>2. ~Reaches(c) /\ ~conn[C1(c)].alive
    BY <1>4, <1>7, <2>1 DEF Reaches
  <2>3. z = <<>>
    BY <1>4, <2>2 DEF ExchInv, DeadQuiet, z, Gone
  <2>4. CASE EndsAll(c)
    <3>1. /\ ListsLast(b) /\ Len(Stream(c)) = 2 /\ "close" \notin conn[NC(c)].flags
          /\ w = <<>> /\ wire[NC(c)] = <<>>
      BY <1>4, <2>1, <2>4 DEF EndsAll, w, b
    <3>2. Len(gs) = 2
      <4>1. <<>> \o <<>> = <<>>
        OBVIOUS
      <4>2. Stream(c) = gs
        BY <1>6, <1>8, <2>3, <3>1, <4>1
      <4>3. QED
        BY <3>1, <4>2
    <3>3. EndsAll(c)'
      BY <1>5, <1>9, <1>10, <3>1, <3>2 DEF EndsAll, NC
    <3>4. QED
      BY <3>3 DEF Doomed
  <2>5. CASE EndedBefore(c)
    <3>1. CutOff(b.asked) /\ Empty(gs \o (w \o z))
      BY <1>8, <2>5 DEF EndedBefore, b, Empty
    <3>2. Empty(gs)
      BY <1>6, <3>1, BothEmpty
    <3>3. QED
      BY <1>9, <1>10, <3>1, <3>2 DEF Doomed, EndedBefore, Empty
  <2>6. QED
    BY <1>7, <1>13, <2>2, <2>4, <2>5 DEF Doomed
<1>14. QED
  <2>1. InOrder(browser[c].asked, Stream(c)')
    BY <1>9, <1>10, <1>11
  <2>2. QED
    BY <1>1, <1>10, <1>12, <1>13, <2>1, CutOffExch

\* The thread's end of the pair is destroyed while the others are linked.
LEMMA C1Destroyed ==
    ASSUME ExchInv, IInv, NEW m, NEW c \in Clients, Destroys(m, C1(c)),
           browser[c].pc = "open", conn[NC(c)].peer # None
    PROVE  Exch(c)'
<1> DEFINE gs == (browser[c].got \o toBrowser[c]) \o conn[NC(c)].send
           w == wire[C0(c)]
           z == conn[C1(c)].send
           b == browser[c]
<1>1. /\ C1(c) \in Ends /\ Closed(m, C1(c)) /\ conn[C1(c)].alive /\ threaded' = threaded
      /\ running' = running /\ backlog' = backlog /\ browser' = browser /\ toBrowser' = toBrowser
      /\ running => ToClose(C1(c))
  BY EndsOfClient DEF Destroys
<1>2. c \notin backlog
  BY <1>1, AliveAccepted, EndsOfClient
<1>3. Destroyed(C1(c))
  BY <1>1, DestroyedEnd
<1>4. /\ threaded /\ conn[C1(c)].peer = None /\ conn[NC(c)].alive
      /\ NC(c) # None /\ C0(c) # None /\ C0(c) \in Ends /\ NC(c) \in Ends
      /\ NC(c) # C1(c) /\ C0(c) # C1(c)
  BY Linked, EndsOfClient
<1>5. /\ conn'[C1(c)] = Gone /\ conn'[NC(c)] = conn[NC(c)] /\ conn'[C0(c)] = conn[C0(c)]
      /\ wire'[NC(c)] = wire[NC(c)] /\ wire'[C0(c)] = wire[C0(c)]
  BY <1>3, <1>4 DEF Destroyed
<1>6. /\ gs \in Seq(Msg) /\ w \in Seq(Msg) /\ z \in Seq(Msg) /\ w \o z \in Seq(Msg)
      /\ gs \o w \in Seq(Msg) /\ w \o <<>> = w /\ Limit(b.asked) \in Nat /\ BrowserOK(b)
  <2>1. browser[c].got \o toBrowser[c] \in Seq(Msg)
    BY TypesOf, ConcatEmpty
  <2>2. gs \in Seq(Msg)
    BY <2>1, TypesOf, ConcatEmpty
  <2>3. w \in Seq(Msg) /\ z \in Seq(Msg)
    BY TypesOf
  <2> HIDE DEF gs, w, z
  <2>4. w \o z \in Seq(Msg) /\ gs \o w \in Seq(Msg) /\ w \o <<>> = w
    BY <2>2, <2>3, ConcatEmpty, NoneAdded
  <2>5. QED
    BY <2>2, <2>3, <2>4, TypesOf
<1>7. /\ InOrder(b.asked, Stream(c))
      /\ Reaches(c) => Phase(b, Requests(c), Stream(c), Http(c))
      /\ Reaches(c) /\ threaded => conn[NC(c)].flags = {} /\ conn[C0(c)].flags = {}
  BY DEF ExchInv, Exch
<1>8. Stream(c) = gs \o (w \o z)
  BY <1>4 DEF Stream
<1>9. Stream(c)' = gs \o w
  <2>1. Gone.send = <<>>
    BY DEF Gone
  <2>2. Stream(c)' = gs \o (w \o <<>>)
    BY <1>1, <1>4, <1>5, <2>1 DEF Stream, NC, C0, C1, gs, w
  <2>3. QED
    BY <1>6, <2>2
<1>10. browser'[c] = browser[c] /\ b = browser[c]
  BY <1>1 DEF b
<1>11. Reaches(c) /\ Http(c) = conn[C1(c)]
  BY <1>1, <1>4 DEF Reaches, Http, HttpEnd, C1
<1>12. ~Reaches(c)'
  <2>1. ~Gone.alive
    BY DEF Gone
  <2>2. QED
    BY <1>1, <1>2, <1>4, <1>5, <2>1 DEF Reaches, C1
<1> HIDE DEF gs, w, z, b
<1>13. gs \o (w \o z) = (gs \o w) \o z
  BY <1>6, Assoc
<1>14. InOrder(b.asked, gs \o w)
  <2>1. InOrder(b.asked, (gs \o w) \o z)
    BY <1>7, <1>8, <1>13
  <2>2. QED
    BY <1>6, <2>1, InOrderPrefix
<1>15. ASSUME running PROVE Doomed(c)'
  <2>1. "close" \in Http(c).flags \/ ("send and close" \in Http(c).flags /\ Http(c).send = <<>>)
    BY <1>1, <1>11, <1>15 DEF ToClose
  <2>2. Phase(b, Requests(c), Stream(c), Http(c))
    BY <1>7, <1>11
  <2>3. \/ Lists(b, Requests(c), Stream(c), Http(c)) /\ Http(c).send = <<>>
        \/ CutOff(b.asked) /\ Stream(c) = <<>>
    BY <1>6, <2>1, <2>2, PhaseClosed
  <2>4. CASE CutOff(b.asked) /\ Stream(c) = <<>>
    <3>1. Empty((gs \o w) \o z)
      <4>1. Empty(Stream(c))
        BY <2>4 DEF Empty
      <4>2. QED
        BY <1>8, <1>13, <4>1
    <3>2. Empty(gs \o w)
      BY <1>6, <3>1, BothEmpty
    <3>3. QED
      BY <1>9, <1>10, <2>4, <3>2 DEF Doomed, EndedBefore, Empty
  <2>5. CASE Lists(b, Requests(c), Stream(c), Http(c)) /\ Http(c).send = <<>>
    <3>1. z = <<>>
      BY <1>11, <2>5 DEF z
    <3>2. Stream(c)' = Stream(c)
      <4>1. w \o z = w
        BY <1>6, <3>1
      <4>2. QED
        BY <1>8, <1>9, <4>1
    <3>3. ListsLast(b) /\ Len(Stream(c)) = 2 /\ Empty(Requests(c))
      BY <2>5, ListsIsLast DEF Lists, Empty
    <3>4. wire[NC(c)] = <<>> /\ conn[C0(c)].send = <<>>
      <4>1. Requests(c) = Http(c).recv \o (wire[HttpEnd(c)] \o Rest(c)) /\ Http(c).recv \in Seq(Msg)
            /\ wire[HttpEnd(c)] \in Seq(Msg) /\ Rest(c) \in Seq(Msg)
        BY RequestsSplit
      <4>2. wire[HttpEnd(c)] \o Rest(c) \in Seq(Msg)
        BY <4>1, ConcatEmpty
      <4>3. Empty(wire[HttpEnd(c)] \o Rest(c))
        <5>1. Empty(Http(c).recv \o (wire[HttpEnd(c)] \o Rest(c)))
          BY <3>3, <4>1
        <5>2. ASSUME NEW x \in Seq(Msg), NEW y \in Seq(Msg), Empty(x \o y) PROVE Empty(y)
          BY <5>2, BothEmpty
        <5>3. QED
          BY <4>1, <4>2, <5>1, <5>2
      <4>4. Empty(Rest(c))
        BY <4>1, <4>3, BothEmpty
      <4>5. Empty(conn[C0(c)].send \o wire[NC(c)])
        BY <1>4, <4>4 DEF Rest
      <4>6. Empty(conn[C0(c)].send) /\ Empty(wire[NC(c)])
        BY <4>5, TypesOf, BothEmpty
      <4>7. QED
        BY <4>6 DEF Empty
    <3>5. conn[NC(c)].flags = {} /\ conn[C0(c)].flags = {}
      BY <1>4, <1>7, <1>11
    <3>6. EndsAll(c)'
      BY <1>5, <1>10, <3>2, <3>3, <3>4, <3>5 DEF EndsAll, NC, C0
    <3>7. QED
      BY <3>6 DEF Doomed
  <2>6. QED
    BY <2>3, <2>4, <2>5
<1>16. QED
  <2>1. InOrder(browser[c].asked, Stream(c)')
    BY <1>9, <1>10, <1>14
  <2>2. QED
    BY <1>1, <1>10, <1>12, <1>15, <2>1, CutOffExch

\* An end that is destroyed takes the exchange with it, when it is tied.
LEMMA DestroyExch ==
    ASSUME ExchInv, IInv, NEW m, NEW e \in Ends, Destroys(m, e), NEW c \in Clients, e[1] = c
    PROVE  Exch(c)'
<1>1. e \in {NC(c), C0(c), C1(c)}
  BY EndsOfClient
<1>2. browser' = browser
  BY DEF Destroys
<1>3. CASE browser[c].pc # "open"
  BY <1>2, <1>3 DEF Exch
<1>4. CASE browser[c].pc = "open"
  <2>1. CASE e = NC(c)
    BY <1>4, <2>1, NcDestroyed
  <2>2. CASE e = C0(c) /\ conn[NC(c)].peer # None
    BY <1>4, <2>2, C0Destroyed
  <2>3. CASE e = C1(c) /\ conn[NC(c)].peer # None
    BY <1>4, <2>3, C1Destroyed
  <2>4. CASE e # NC(c) /\ conn[NC(c)].peer = None
    <3>1. conn[e].peer = None /\ e # None
      BY <1>1, <2>4, Linked, EndsOfClient
    <3>2. Destroyed(e) /\ NC(c) \in Ends /\ NC(c) # None
      BY DestroyedEnd, EndsOfClient DEF Destroys
    <3>3. conn'[NC(c)] = conn[NC(c)] /\ wire'[NC(c)] = wire[NC(c)]
      BY <2>4, <3>1, <3>2 DEF Destroyed
    <3>4. c \notin backlog /\ Exch(c)
      BY AliveAccepted DEF Destroys, ExchInv
    <3>5. QED
      BY <2>4, <3>3, <3>4, DetachedKeeps DEF Destroys
  <2>5. QED
    BY <1>1, <2>1, <2>2, <2>3, <2>4
<1>5. QED
  BY <1>3, <1>4

-----------------------------------------------------------------------------
(* What a browser does to its exchange.                                    *)

\* What can still reach a browser beyond what it has got.
Beyond(c) ==
    IF threaded /\ conn[NC(c)].peer # None
    THEN (toBrowser[c] \o conn[NC(c)].send) \o (wire[C0(c)] \o conn[C1(c)].send)
    ELSE toBrowser[c] \o conn[NC(c)].send

\* What the browser has comes first of what it has been sent.
LEMMA StreamGot ==
    ASSUME ExchInv, NEW c \in Clients
    PROVE  /\ Stream(c) = browser[c].got \o Beyond(c)
           /\ Beyond(c) \in Seq(Msg) /\ Stream(c) \in Seq(Msg)
<1> DEFINE g == browser[c].got
           t == toBrowser[c]
           s == conn[NC(c)].send
           v == wire[C0(c)] \o conn[C1(c)].send
<1>1. g \in Seq(Msg) /\ t \in Seq(Msg) /\ s \in Seq(Msg) /\ v \in Seq(Msg)
  BY TypesOf, ConcatEmpty
<1>2. Stream(c) = IF threaded /\ conn[NC(c)].peer # None THEN ((g \o t) \o s) \o v
                  ELSE (g \o t) \o s
  BY DEF Stream
<1>3. Beyond(c) = IF threaded /\ conn[NC(c)].peer # None THEN (t \o s) \o v ELSE t \o s
  BY DEF Beyond
<1> HIDE DEF g, t, s, v
<1>4. t \o s \in Seq(Msg) /\ g \o t \in Seq(Msg)
  BY <1>1, ConcatEmpty
<1>5. (t \o s) \o v \in Seq(Msg)
  BY <1>1, <1>4, ConcatEmpty
<1>6. (g \o t) \o s = g \o (t \o s)
  BY <1>1, Assoc
<1>7. (g \o (t \o s)) \o v = g \o ((t \o s) \o v)
  BY <1>1, <1>4, Assoc
<1>8. g = browser[c].got /\ g \o (t \o s) \in Seq(Msg) /\ g \o ((t \o s) \o v) \in Seq(Msg)
  BY <1>1, <1>4, <1>5, ConcatEmpty DEF g
<1>9. QED
  BY <1>2, <1>3, <1>4, <1>5, <1>6, <1>7, <1>8

\* What is ahead of the parts the browser sends now.
Ahead(c) ==
    IF threaded THEN Http(c).recv \o (wire[C1(c)] \o conn[C0(c)].send)
    ELSE Http(c).recv

\* What the browser has sent last comes last of the requests on their way.
LEMMA RequestsLast ==
    ASSUME ExchInv, NEW c \in Clients
    PROVE  /\ Requests(c) = Ahead(c) \o wire[NC(c)]
           /\ Ahead(c) \in Seq(Msg) /\ Requests(c) \in Seq(Msg)
<1> DEFINE r == Http(c).recv
           d == wire[C1(c)] \o conn[C0(c)].send
           w == wire[NC(c)]
<1>1. r \in Seq(Msg) /\ d \in Seq(Msg) /\ w \in Seq(Msg)
  BY RequestsSplit, TypesOf, ConcatEmpty
<1>2. Requests(c) = (IF threaded THEN r \o (d \o w) ELSE r \o w)
      /\ Ahead(c) = (IF threaded THEN r \o d ELSE r)
  BY DEF Requests, Ahead
<1>3. w = wire[NC(c)]
  BY DEF w
<1> HIDE DEF r, d, w
<1>4. r \o (d \o w) = (r \o d) \o w /\ r \o d \in Seq(Msg)
  BY <1>1, Assoc, ConcatEmpty
<1>5. (r \o d) \o w \in Seq(Msg) /\ r \o w \in Seq(Msg)
  BY <1>1, <1>4, ConcatEmpty
<1>6. QED
  BY <1>1, <1>2, <1>3, <1>4, <1>5

\* The phase is seen on the requests of the browser, not on what it has.
LEMMA PhaseOfAsked ==
    ASSUME NEW b, NEW d, NEW u, NEW s, NEW cn, Phase(b, u, s, cn),
           d.asked = b.asked, d.sent = b.sent
    PROVE  Phase(d, u, s, cn)
BY DEF Phase, Idle, Waits, Answers, Lists, Garbles, Over

\* A browser that connects has asked nothing.
LEMMA ConnectExch ==
    ASSUME ExchInv, IInv, NEW c \in Clients, Connect(c)
    PROVE  Exch(c)' /\ Unaccepted(c)'
<1>1. /\ browser[c].pc = "new" /\ browser' = [browser EXCEPT ![c].pc = "open"]
      /\ backlog' = backlog \cup {c} /\ threaded' = threaded /\ running' = running
      /\ conn' = conn /\ wire' = wire /\ toBrowser' = toBrowser
  BY DEF Connect
<1>2. /\ conn[NC(c)] = Gone /\ conn[C0(c)] = Gone /\ conn[C1(c)] = Gone
      /\ wire[C0(c)] = <<>> /\ wire[C1(c)] = <<>> /\ toBrowser[c] = <<>>
      /\ browser[c].got = <<>>
      /\ wire[NC(c)] = <<>> /\ browser[c].asked = <<>> /\ browser[c].sent = 0
  BY <1>1 DEF ExchInv, Unaccepted
<1>3. /\ browser'[c].pc = "open" /\ browser'[c].got = <<>>
      /\ browser'[c].asked = <<>> /\ browser'[c].sent = 0
  BY <1>1, <1>2 DEF ExchInv, Typed, BrowserOK
<1>4. /\ Gone.send = <<>> /\ Gone.recv = <<>> /\ Gone.peer = None /\ Gone.flags = {}
      /\ Gone.file = None
  BY DEF Gone
<1>5. <<>> \o <<>> = <<>> /\ Len(<<>>) = 0
  OBVIOUS
<1>6. Stream(c)' = <<>>
  BY <1>1, <1>2, <1>3, <1>4, <1>5 DEF Stream, NC
<1>7. Http(c)' = Gone
  BY <1>1, <1>2 DEF Http, HttpEnd, NC, C1
<1>8. Requests(c)' = <<>>
  BY <1>1, <1>2, <1>4, <1>5, <1>7 DEF Requests, NC, C0, C1
<1>9. Reaches(c)'
  BY <1>1 DEF Reaches
<1>10. Phase(browser[c], <<>>, <<>>, Gone)'
  BY <1>3, <1>4, <1>5 DEF Phase, Idle, Rested, Gone
<1>11. InOrder(<<>>, <<>>)
  BY <1>5 DEF InOrder, Limit
<1>12. Exch(c)'
  BY <1>1, <1>2, <1>3, <1>4, <1>6, <1>7, <1>8, <1>9, <1>10, <1>11 DEF Exch, NC, C0
<1>13. Unaccepted(c)'
  BY <1>1, <1>2, <1>3 DEF Unaccepted, NC, C0, C1
<1>14. QED
  BY <1>12, <1>13

\* A part the browser sends comes last of its requests.
LEMMA ArrivesLast ==
    ASSUME ExchInv, NEW c \in Clients, NEW p \in Msg, Arrives(c, p), Reaches(c),
           conn' = conn, threaded' = threaded
    PROVE  Requests(c)' = Append(Requests(c), p)
<1> DEFINE w == wire[NC(c)]
           a == Ahead(c)
<1>1. wire' = [wire EXCEPT ![NC(c)] = Append(@, p)]
  BY DEF Arrives, Reaches, NC
<1>2. wire'[NC(c)] = Append(w, p) /\ wire'[C1(c)] = wire[C1(c)]
  BY <1>1, EndsOfClient DEF ExchInv, Typed
<1>3. Requests(c) = a \o w /\ a \in Seq(Msg) /\ w \in Seq(Msg)
  BY RequestsLast, TypesOf
<1>4. Http(c)' = Http(c)
  BY DEF Http, HttpEnd
<1>5. Requests(c)' = IF threaded THEN Http(c).recv \o ((wire[C1(c)] \o conn[C0(c)].send) \o Append(w, p))
                     ELSE Http(c).recv \o Append(w, p)
  BY <1>2, <1>4 DEF Requests, C0, C1, NC
<1>6. Append(w, p) \in Seq(Msg) /\ a \o Append(w, p) = Append(a \o w, p)
  BY <1>3, AppendTo
<1> HIDE DEF w
<1>7. Requests(c)' = a \o Append(w, p)
  <2> DEFINE x == Append(w, p)
             r == Http(c).recv
             d == wire[C1(c)] \o conn[C0(c)].send
  <2>1. r \in Seq(Msg) /\ d \in Seq(Msg) /\ x \in Seq(Msg)
    BY <1>6, RequestsSplit, TypesOf, ConcatEmpty
  <2>2. Requests(c)' = IF threaded THEN r \o (d \o x) ELSE r \o x
    BY <1>5
  <2>3. a = IF threaded THEN r \o d ELSE r
    BY DEF Ahead
  <2> HIDE DEF x, r, d, a
  <2>4. r \o (d \o x) = (r \o d) \o x
    BY <2>1, Assoc
  <2>5. Requests(c)' = a \o x
    BY <2>2, <2>3, <2>4
  <2> USE DEF x
  <2>6. QED
    BY <2>5
<1>8. QED
  BY <1>3, <1>6, <1>7

\* A browser asks when it has the whole answer to its last request.
LEMMA AskExch ==
    ASSUME ExchInv, IInv, NEW c \in Clients, NEW kind \in Kinds, Ask(c, kind)
    PROVE  Exch(c)' /\ Unaccepted(c)'
<1> DEFINE b == browser[c]
           d == browser'[c]
           n == Len(b.asked)
           p == [req |-> n + 1, kind |-> kind]
<1>1. /\ b.pc = "open" /\ Answered(c) /\ b.sent \in {0, 2} /\ Arrives(c, p)
      /\ browser' = [browser EXCEPT ![c].asked = Append(@, kind), ![c].sent = 1, ![c].got = <<>>]
      /\ threaded' = threaded /\ running' = running /\ backlog' = backlog
      /\ conn' = conn /\ toBrowser' = toBrowser
  BY DEF Ask, Asked
<1>2. BrowserOK(b) /\ n \in Nat /\ p \in Msg
  <2>1. BrowserOK(b)
    BY TypesOf
  <2>2. b.asked \in Seq(Kinds)
    BY <2>1 DEF BrowserOK
  <2>3. n \in Nat
    BY <2>2, LenProperties
  <2>4. p \in Msg
    BY <2>3 DEF Msg
  <2>5. QED
    BY <2>1, <2>3, <2>4
<1>3. d.pc = "open" /\ d.asked = Append(b.asked, kind) /\ d.sent = 1 /\ d.got = <<>>
  <2>1. d = [b EXCEPT !.asked = Append(@, kind), !.sent = 1, !.got = <<>>]
    BY <1>1 DEF ExchInv, Typed
  <2> HIDE DEF d
  <2>2. QED
    BY <1>1, <1>2, <2>1 DEF BrowserOK
<1>4. /\ InOrder(b.asked, Stream(c))
      /\ Reaches(c) => /\ Phase(b, Requests(c), Stream(c), Http(c))
                       /\ threaded => conn[NC(c)].flags = {} /\ conn[C0(c)].flags = {}
      /\ ~Reaches(c) /\ running => Doomed(c)
  BY <1>1 DEF ExchInv, Exch
<1>5. Len(b.got) = Limit(b.asked)
  BY <1>1, <1>2 DEF Answered, Limit, Asked, LastKind, BrowserOK
<1>6. /\ Stream(c) = b.got \o Beyond(c) /\ Beyond(c) \in Seq(Msg) /\ b.got \in Seq(Msg)
      /\ Stream(c) \in Seq(Msg)
  BY StreamGot, TypesOf
<1>7. Beyond(c) = <<>> /\ Len(Stream(c)) = Limit(b.asked)
  <2> DEFINE g == b.got
             t == Beyond(c)
  <2>1. Len(g \o t) <= Len(g) /\ g \in Seq(Msg) /\ t \in Seq(Msg)
    BY <1>4, <1>5, <1>6 DEF InOrder
  <2>2. Stream(c) = g \o t /\ Len(g) = Limit(b.asked) /\ t = Beyond(c)
    BY <1>5, <1>6
  <2> HIDE DEF g, t
  <2>3. Len(g \o t) = Len(g) + Len(t) /\ Len(g) \in Nat /\ Len(t) \in Nat
    BY <2>1, ConcatEmpty
  <2>4. Len(t) = 0
    BY <2>1, <2>3
  <2>5. t = <<>>
    BY <2>1, <2>4, EmptySeq
  <2>6. QED
    BY <2>2, <2>3, <2>4, <2>5
<1>8. Stream(c)' = <<>>
  <2>1. Stream(c)' = IF threaded /\ conn[NC(c)].peer # None
            THEN ((<<>> \o toBrowser[c]) \o conn[NC(c)].send) \o (wire'[C0(c)] \o conn[C1(c)].send)
            ELSE (<<>> \o toBrowser[c]) \o conn[NC(c)].send
    <3>1. browser'[c].got = <<>>
      BY <1>3
    <3>2. conn' = conn /\ toBrowser' = toBrowser /\ threaded' = threaded
      BY <1>1
    <3> HIDE DEF d, b
    <3>3. QED
      BY <3>1, <3>2 DEF Stream, NC, C0, C1
  <2>2. wire'[C0(c)] = wire[C0(c)]
    BY <1>1, EndsOfClient DEF Arrives, NC, ExchInv, Typed
  <2>3. <<>> \o toBrowser[c] = toBrowser[c]
    BY TypesOf, NoneAdded
  <2>4. QED
    BY <1>7, <2>1, <2>2, <2>3 DEF Beyond
<1>9. Reaches(c)' <=> Reaches(c)
  BY <1>1 DEF Reaches, NC, C1
<1>10. Http(c)' = Http(c)
  BY <1>1 DEF Http, HttpEnd
<1>11. InOrder(d.asked, <<>>)
  <2>1. Append(b.asked, kind) \in Seq(Kinds)
    BY <1>2 DEF BrowserOK
  <2>2. Limit(d.asked) \in Nat
    BY <1>3, <2>1, Limits
  <2>3. Len(<<>>) = 0
    OBVIOUS
  <2>4. QED
    BY <2>2, <2>3 DEF InOrder
<1>12. CutOff(b.asked) \/ ListsLast(b) => CutOff(d.asked)
  <2>1. /\ Len(d.asked) = n + 1 /\ \A i \in 1 .. n : d.asked[i] = b.asked[i]
    BY <1>2, <1>3, AppendProperties DEF BrowserOK
  <2>2. /\ ListsLast(b) => n \in 1 .. n + 1 /\ n \in 1 .. n /\ n < n + 1
        /\ \A i \in 1 .. n : i \in 1 .. n + 1 /\ (i < n => i < n + 1)
    BY <1>2 DEF ListsLast
  <2> HIDE DEF d, b
  <2>3. ListsLast(b) => CutOff(d.asked)
    BY <2>1, <2>2 DEF ListsLast, CutOff
  <2>4. CutOff(b.asked) => CutOff(d.asked)
    BY <2>1, <2>2 DEF CutOff
  <2>5. QED
    BY <2>3, <2>4
<1>13. ~Reaches(c) /\ running => Doomed(c)'
  <2>1. Doomed(c) => CutOff(b.asked) \/ ListsLast(b)
    BY DEF Doomed, EndsAll, EndedBefore
  <2>2. CutOff(d.asked) => EndedBefore(c)'
    BY <1>8 DEF EndedBefore
  <2>3. QED
    BY <1>4, <1>12, <2>1, <2>2 DEF Doomed
<1>14. ASSUME Reaches(c) PROVE Phase(d, Requests(c)', Stream(c)', Http(c)')
  <2>1. Requests(c)' = Append(Requests(c), p)
    BY <1>1, <1>2, <1>14, ArrivesLast
  <2>2. Requests(c) \in Seq(Msg) /\ BuffersOK(Http(c))
    <3>1. Requests(c) \in Seq(Msg)
      BY RequestsLast
    <3>2. HttpEnd(c) \in Ends
      BY EndsOfClient
    <3>3. QED
      BY <3>1, <3>2 DEF Http, ExchInv, Typed
  <2>3. Phase(b, Requests(c), Stream(c), Http(c))
    BY <1>4, <1>14
  <2> HIDE DEF d, b
  <2>4. Phase(d, Append(Requests(c), p), <<>>, Http(c))
    BY <1>1, <1>2, <1>3, <1>4, <1>6, <1>7, <2>2, <2>3, PhaseAsk
  <2>5. QED
    BY <1>8, <1>10, <2>1, <2>4
<1>15. Exch(c)'
  BY <1>1, <1>4, <1>8, <1>9, <1>11, <1>13, <1>14 DEF Exch, NC, C0
<1>16. Unaccepted(c)'
  <2>1. wire'[C0(c)] = wire[C0(c)] /\ wire'[C1(c)] = wire[C1(c)]
    BY <1>1, EndsOfClient DEF Arrives, NC, ExchInv, Typed
  <2>2. Unaccepted(c)
    BY DEF ExchInv
  <2>3. QED
    BY <1>1, <1>3, <2>1, <2>2 DEF Unaccepted, NC, C0, C1
<1>17. QED
  BY <1>15, <1>16

\* It sends the second part of the request.
LEMMA AskRestExch ==
    ASSUME ExchInv, IInv, NEW c \in Clients, AskRest(c)
    PROVE  Exch(c)' /\ Unaccepted(c)'
<1> DEFINE b == browser[c]
           d == browser'[c]
           n == Len(b.asked)
           p == [req |-> n, kind |-> b.asked[n]]
<1>1. /\ b.pc = "open" /\ b.sent = 1 /\ Arrives(c, p)
      /\ browser' = [browser EXCEPT ![c].sent = 2]
      /\ threaded' = threaded /\ running' = running /\ backlog' = backlog
      /\ conn' = conn /\ toBrowser' = toBrowser
  BY DEF AskRest, Asked, LastKind
<1>2. BrowserOK(b)
  BY TypesOf
<1>3. d.pc = "open" /\ d.asked = b.asked /\ d.sent = 2 /\ d.got = b.got
  <2>1. d = [b EXCEPT !.sent = 2]
    BY <1>1 DEF ExchInv, Typed
  <2> HIDE DEF d
  <2>2. QED
    BY <1>1, <1>2, <2>1 DEF BrowserOK
<1>4. /\ InOrder(b.asked, Stream(c))
      /\ Reaches(c) => /\ Phase(b, Requests(c), Stream(c), Http(c))
                       /\ threaded => conn[NC(c)].flags = {} /\ conn[C0(c)].flags = {}
      /\ ~Reaches(c) /\ running => Doomed(c)
  BY <1>1 DEF ExchInv, Exch
<1>5. wire'[C0(c)] = wire[C0(c)] /\ wire'[C1(c)] = wire[C1(c)]
  BY <1>1, EndsOfClient DEF Arrives, NC, ExchInv, Typed
<1>6. Stream(c)' = Stream(c)
  <2>1. browser'[c].got = browser[c].got
    BY <1>3
  <2> HIDE DEF b, d
  <2>2. QED
    BY <1>1, <1>5, <2>1 DEF Stream, NC, C0, C1
<1>7. Reaches(c)' <=> Reaches(c)
  BY <1>1 DEF Reaches, NC, C1
<1>8. Http(c)' = Http(c)
  BY <1>1 DEF Http, HttpEnd
<1>9. ~Reaches(c) /\ running => Doomed(c)'
  <2>1. ~EndsAll(c)
    BY <1>1 DEF EndsAll, ListsLast
  <2>2. EndedBefore(c) => EndedBefore(c)'
    BY <1>3, <1>6 DEF EndedBefore
  <2>3. QED
    BY <1>4, <2>1, <2>2 DEF Doomed
<1>10. ASSUME Reaches(c) PROVE Phase(d, Requests(c)', Stream(c)', Http(c)')
  <2>1. Phase(b, Requests(c), Stream(c), Http(c)) /\ Requests(c) \in Seq(Msg)
    BY <1>4, <1>10, RequestsLast
  <2>2. b.asked # <<>> /\ Phase(d, Append(Requests(c), p), Stream(c), Http(c))
    BY <1>1, <1>2, <1>3, <2>1, PhaseAskRest
  <2>3. p \in Msg
    BY <1>2, <2>2, Limits DEF BrowserOK, Msg
  <2>4. Requests(c)' = Append(Requests(c), p)
    BY <1>1, <1>10, <2>3, ArrivesLast
  <2>5. QED
    BY <1>6, <1>8, <2>2, <2>4
<1>11. Exch(c)'
  BY <1>1, <1>3, <1>4, <1>6, <1>7, <1>9, <1>10 DEF Exch, NC, C0
<1>12. Unaccepted(c)'
  <2>1. Unaccepted(c)
    BY DEF ExchInv
  <2>2. QED
    BY <1>1, <1>3, <1>5, <2>1 DEF Unaccepted, NC, C0, C1
<1>13. QED
  BY <1>11, <1>12

\* It receives a part of the answer.
LEMMA ReceiveExch ==
    ASSUME ExchInv, IInv, NEW c \in Clients, Receive(c)
    PROVE  Exch(c)' /\ Unaccepted(c)'
<1> DEFINE b == browser[c]
           d == browser'[c]
           t == toBrowser[c]
           g == browser[c].got
<1>1. /\ b.pc = "open" /\ t # <<>> /\ threaded' = threaded /\ running' = running
      /\ backlog' = backlog /\ conn' = conn /\ wire' = wire
      /\ browser' = [browser EXCEPT ![c].got = Append(@, Head(t))]
      /\ toBrowser' = [toBrowser EXCEPT ![c] = Tail(@)]
  BY DEF Receive
<1>2. BrowserOK(b) /\ g \in Seq(Msg) /\ t \in Seq(Msg)
  BY TypesOf
<1>3. /\ d.pc = "open" /\ d.asked = b.asked /\ d.sent = b.sent /\ d.got = Append(g, Head(t))
      /\ toBrowser'[c] = Tail(t)
  <2>1. d = [b EXCEPT !.got = Append(@, Head(t))] /\ toBrowser'[c] = Tail(t)
    BY <1>1 DEF ExchInv, Typed
  <2> HIDE DEF d
  <2>2. QED
    BY <1>1, <1>2, <2>1 DEF BrowserOK
<1>4. Append(g, Head(t)) \o Tail(t) = g \o t
  BY <1>1, <1>2, MoveFirst
<1>5. Stream(c)' = Stream(c)
  <2> DEFINE gt == g \o t
  <2>1. browser'[c].got \o toBrowser'[c] = gt
    BY <1>3, <1>4
  <2>2. Stream(c) = IF threaded /\ conn[NC(c)].peer # None
                    THEN (gt \o conn[NC(c)].send) \o (wire[C0(c)] \o conn[C1(c)].send)
                    ELSE gt \o conn[NC(c)].send
    BY DEF Stream
  <2> HIDE DEF b, d, t, g, gt
  <2>3. QED
    BY <1>1, <2>1, <2>2 DEF Stream, NC, C0, C1
<1>6. /\ InOrder(b.asked, Stream(c))
      /\ Reaches(c) => /\ Phase(b, Requests(c), Stream(c), Http(c))
                       /\ threaded => conn[NC(c)].flags = {} /\ conn[C0(c)].flags = {}
      /\ ~Reaches(c) /\ running => Doomed(c)
  BY <1>1 DEF ExchInv, Exch
<1>7. Reaches(c)' <=> Reaches(c)
  BY <1>1 DEF Reaches, NC, C1
<1>8. Http(c)' = Http(c) /\ Requests(c)' = Requests(c)
  BY <1>1 DEF Http, HttpEnd, Requests, NC, C0, C1
<1>9. Doomed(c) => Doomed(c)'
  BY <1>1, <1>3, <1>5 DEF Doomed, EndsAll, EndedBefore, ListsLast, NC, C0
<1>10. Reaches(c) => Phase(d, Requests(c)', Stream(c)', Http(c)')
  BY <1>3, <1>5, <1>6, <1>8, PhaseOfAsked
<1>11. Exch(c)'
  BY <1>1, <1>3, <1>5, <1>6, <1>7, <1>9, <1>10 DEF Exch, NC, C0
<1>12. Unaccepted(c)'
  <2>1. Unaccepted(c)
    BY DEF ExchInv
  <2>2. c \notin backlog
    BY <1>1, <2>1 DEF Unaccepted
  <2>3. QED
    BY <1>1, <1>3, <2>2 DEF Unaccepted
<1>13. QED
  BY <1>11, <1>12

\* A browser that has left or seen the end has no exchange.
LEMMA EndsExch ==
    ASSUME ExchInv, NEW c \in Clients, Leave(c) \/ SeeEnd(c)
    PROVE  Exch(c)' /\ Unaccepted(c)'
<1> DEFINE b == browser[c]
           d == browser'[c]
<1>1. /\ threaded' = threaded /\ running' = running /\ backlog' = backlog
      /\ conn' = conn /\ wire' = wire
      /\ toBrowser' = toBrowser \/ toBrowser' = [toBrowser EXCEPT ![c] = <<>>]
      /\ \E pc \in {"left", "ended"} : browser' = [browser EXCEPT ![c].pc = pc]
  BY DEF Leave, SeeEnd
<1>2. BrowserOK(b) /\ Unaccepted(c)
  BY TypesOf DEF ExchInv
<1>3. toBrowser'[c] = toBrowser[c] \/ toBrowser'[c] = <<>>
  BY <1>1 DEF ExchInv, Typed
<1>4. d.pc \in {"left", "ended"} /\ d.got = b.got
  <2>1. PICK pc \in {"left", "ended"} : d = [b EXCEPT !.pc = pc]
    BY <1>1 DEF ExchInv, Typed
  <2> HIDE DEF d
  <2>2. QED
    BY <1>2, <2>1 DEF BrowserOK
<1>5. QED
  BY <1>1, <1>2, <1>3, <1>4 DEF Exch, Unaccepted, NC, C0, C1

\* What one browser does is not about another.
LEMMA OtherBrowser ==
    ASSUME ExchInv, NEW c \in Clients,
           Connect(c) \/ Leave(c) \/ BrowserStep(c) \/ \E kind \in Kinds : Ask(c, kind),
           NEW x \in Clients, x # c
    PROVE  Exch(x)' /\ Unaccepted(x)'
<1>1. /\ threaded' = threaded /\ running' = running /\ conn' = conn
      /\ backlog' = backlog \/ backlog' = backlog \cup {c}
      /\ toBrowser' = toBrowser \/ \E t : toBrowser' = [toBrowser EXCEPT ![c] = t]
      /\ wire' = wire \/ \E p : Arrives(c, p)
  BY DEF Connect, Leave, BrowserStep, AskRest, Receive, SeeEnd, Ask
<1>2. browser'[x] = browser[x]
  BY DEF Connect, Leave, BrowserStep, AskRest, Receive, SeeEnd, Ask, ExchInv, Typed
<1>3. wire' = wire \/ \E w : wire' = [wire EXCEPT ![NC(c)] = w]
  BY <1>1 DEF Arrives, NC
<1>4. NC(c) # NC(x) /\ NC(c) # C0(x) /\ NC(c) # C1(x)
  BY DEF NC, C0, C1
<1>5. /\ wire'[NC(x)] = wire[NC(x)] /\ wire'[C0(x)] = wire[C0(x)]
      /\ wire'[C1(x)] = wire[C1(x)]
  BY <1>3, <1>4, EndsOfClient DEF ExchInv, Typed
<1>6. toBrowser'[x] = toBrowser[x]
  BY <1>1 DEF ExchInv, Typed
<1>7. SameFor(x)
  BY <1>1, <1>2, <1>5, <1>6 DEF SameFor, NC, C0, C1
<1>8. QED
  BY <1>1, <1>7, SameForKeeps DEF ExchInv

\* What one browser does keeps the exchanges of all.
LEMMA BrowsersExch ==
    ASSUME ExchInv, IInv, NEW c \in Clients,
           Connect(c) \/ Leave(c) \/ BrowserStep(c) \/ \E kind \in Kinds : Ask(c, kind),
           NEW x \in Clients
    PROVE  Exch(x)' /\ Unaccepted(x)'
<1>1. CASE x # c
  BY <1>1, OtherBrowser
<1>2. CASE x = c
  BY <1>2, ConnectExch, EndsExch, AskRestExch, ReceiveExch, AskExch DEF BrowserStep
<1>3. QED
  BY <1>1, <1>2

-----------------------------------------------------------------------------
(* What a manager does to the exchanges.                                   *)

\* An action on ends of c only is not about another client.
LEMMA OtherClient ==
    ASSUME NEW c \in Clients, NEW x \in Clients, x # c,
           threaded' = threaded, x \in backlog' <=> x \in backlog, browser' = browser,
           toBrowser'[x] = toBrowser[x],
           \A y \in Ends : y[1] # c => conn'[y] = conn[y] /\ wire'[y] = wire[y]
    PROVE  SameFor(x)
BY EndsOfClient DEF SameFor

\* Accepting a connection begins where the kernel has left it.
LEMMA AcceptExch ==
    ASSUME ExchInv, IInv, NEW c \in Clients, Accept(c)
    PROVE  Exch(c)' /\ Unaccepted(c)'
<1> DEFINE b == browser[c]
<1>1. /\ c \in backlog /\ backlog' = backlog \ {c} /\ threaded' = threaded
      /\ running' = running /\ browser' = browser /\ wire' = wire /\ toBrowser' = toBrowser
  BY DEF Accept
<1>2. /\ conn[NC(c)] = Gone /\ conn[C0(c)] = Gone /\ conn[C1(c)] = Gone
      /\ wire[C0(c)] = <<>> /\ wire[C1(c)] = <<>> /\ toBrowser[c] = <<>>
      /\ b.got = <<>> /\ b.pc # "new"
  BY <1>1 DEF ExchInv, Unaccepted
<1>3. Unaccepted(c)'
  BY <1>1, <1>2 DEF Unaccepted
<1>4. /\ Gone.send = <<>> /\ Gone.recv = <<>> /\ Gone.peer = None /\ Gone.flags = {}
      /\ Gone.file = None
      /\ Fresh.send = <<>> /\ Fresh.recv = <<>> /\ Fresh.peer = None /\ Fresh.flags = {}
      /\ Fresh.file = None /\ Fresh.alive
      /\ Fresh.peer = None
      /\ DOMAIN Fresh = {"alive", "recv", "send", "flags", "peer", "file"}
  BY DEF Gone, Fresh
<1>5. \A p : /\ [Fresh EXCEPT !.peer = p].peer = p /\ [Fresh EXCEPT !.peer = p].alive
             /\ [Fresh EXCEPT !.peer = p].send = <<>> /\ [Fresh EXCEPT !.peer = p].flags = {}
  BY <1>4
<1>6. CASE threaded
  <2>1. conn' = [conn EXCEPT ![NC(c)] = [Fresh EXCEPT !.peer = C0(c)],
                             ![C0(c)] = [Fresh EXCEPT !.peer = NC(c)],
                             ![C1(c)] = Fresh]
    BY <1>6 DEF Accept, NC, C0, C1
  <2>2. /\ conn'[NC(c)] = [Fresh EXCEPT !.peer = C0(c)]
        /\ conn'[C0(c)] = [Fresh EXCEPT !.peer = NC(c)] /\ conn'[C1(c)] = Fresh
    BY <2>1, EndsOfClient DEF IInv, ConnsOK
  <2>3. /\ conn'[NC(c)].peer # None /\ conn'[NC(c)].alive /\ conn'[NC(c)].send = <<>>
        /\ conn'[NC(c)].flags = {} /\ conn'[C0(c)].send = <<>> /\ conn'[C0(c)].flags = {}
        /\ conn'[C1(c)] = Fresh
    BY <1>5, <2>2, EndsOfClient
  <2>4. <<>> \o <<>> = <<>>
    OBVIOUS
  <2>5. Stream(c)' = <<>> /\ Stream(c) = <<>>
    <3>1. Stream(c)' = ((<<>> \o <<>>) \o <<>>) \o (<<>> \o <<>>)
      BY <1>1, <1>2, <1>4, <1>6, <2>3 DEF Stream, NC, C0, C1
    <3>2. Stream(c) = (<<>> \o <<>>) \o <<>>
      BY <1>2, <1>4 DEF Stream
    <3>3. QED
      BY <2>4, <3>1, <3>2
  <2>6. Requests(c)' = Requests(c)
    BY <1>1, <1>2, <1>4, <1>6, <2>3 DEF Requests, Http, HttpEnd, NC, C0, C1
  <2>7. Http(c) = Gone /\ Http(c)' = Fresh
    BY <1>1, <1>2, <1>6, <2>3 DEF Http, HttpEnd, C1
  <2>8. Reaches(c) /\ Reaches(c)'
    BY <1>1, <1>4, <2>3 DEF Reaches, NC, C1
  <2>9. b.pc = "open" => /\ InOrder(b.asked, Stream(c))
                         /\ Phase(b, Requests(c), Stream(c), Gone)
    BY <2>7, <2>8 DEF ExchInv, Exch
  <2>10. Gone.flags = Fresh.flags /\ Gone.file = Fresh.file /\ Fresh.alive
    BY <1>4
  <2>11. b.pc = "open" => Phase(b, Requests(c), Stream(c), Fresh)
    BY <2>9, <2>10, PhaseSame
  <2>12. QED
    BY <1>1, <1>3, <2>3, <2>5, <2>6, <2>7, <2>8, <2>9, <2>11 DEF Exch, NC, C0
<1>7. CASE ~threaded
  <2>1. conn' = [conn EXCEPT ![NC(c)] = Fresh]
    BY <1>7 DEF Accept, NC
  <2>2. conn'[NC(c)] = Fresh
    BY <2>1, EndsOfClient DEF IInv, ConnsOK
  <2>3. Stream(c)' = Stream(c) /\ Requests(c)' = Requests(c)
    BY <1>1, <1>2, <1>4, <1>7, <2>2 DEF Stream, Requests, Http, HttpEnd, NC
  <2>4. Http(c) = Gone /\ Http(c)' = Fresh
    BY <1>1, <1>2, <1>7, <2>2 DEF Http, HttpEnd, NC
  <2>5. Reaches(c) /\ Reaches(c)'
    BY <1>1, <1>4, <1>7, <2>2 DEF Reaches, NC
  <2>6. b.pc = "open" => /\ InOrder(b.asked, Stream(c))
                         /\ Phase(b, Requests(c), Stream(c), Gone)
    BY <2>4, <2>5 DEF ExchInv, Exch
  <2>7. Gone.flags = Fresh.flags /\ Gone.file = Fresh.file /\ Fresh.alive
    BY <1>4
  <2>8. b.pc = "open" => Phase(b, Requests(c), Stream(c), Fresh)
    BY <2>6, <2>7, PhaseSame
  <2>9. QED
    BY <1>1, <1>3, <1>7, <2>3, <2>4, <2>5, <2>6, <2>8 DEF Exch
<1>8. QED
  BY <1>6, <1>7

\* Of the other clients nothing changes.
LEMMA AcceptOthers ==
    ASSUME ExchInv, IInv, NEW c \in Clients, Accept(c), NEW x \in Clients, x # c
    PROVE  Exch(x)' /\ Unaccepted(x)'
<1>1. /\ backlog' = backlog \ {c} /\ threaded' = threaded /\ running' = running
      /\ browser' = browser /\ wire' = wire /\ toBrowser' = toBrowser
  BY DEF Accept
<1>2. \A y \in Ends : y[1] # c => conn'[y] = conn[y]
  BY EndsDiffer DEF Accept, NC, C0, C1, IInv, ConnsOK
<1>3. SameFor(x)
  BY <1>1, <1>2, OtherClient
<1>4. QED
  BY <1>1, <1>3, SameForKeeps DEF ExchInv

\* To read for one client keeps the exchanges of the others.
LEMMA ReadOthers ==
    ASSUME ExchInv, IInv, NEW m, NEW e \in Ends, Read(m, e), NEW x \in Clients, x # e[1]
    PROVE  Exch(x)' /\ Unaccepted(x)'
<1>1. /\ backlog' = backlog /\ threaded' = threaded /\ running' = running
      /\ browser' = browser /\ toBrowser' = toBrowser /\ wire' = [wire EXCEPT ![e] = <<>>]
  BY DEF Read
<1>2. e[1] \in Clients
  BY ClientOf
<1>3. \A y \in Ends : y[1] # e[1] => conn'[y] = conn[y] /\ wire'[y] = wire[y]
  <2>1. conn[e].peer # None => conn[e].peer = Mate(e) /\ Mate(e)[1] = e[1] /\ Mate(e) \in Ends
    BY Mates DEF IInv, LinksAlive, Mate
  <2>2. \E cn, dn : conn' = [conn EXCEPT ![e] = cn] \/
                    (conn[e].peer # None /\ conn' = [conn EXCEPT ![conn[e].peer].send = cn, ![e].flags = dn])
    BY DEF Read
  <2>3. QED
    BY <1>1, <2>1, <2>2 DEF ExchInv, Typed, IInv, ConnsOK
<1>4. SameFor(x)
  BY <1>1, <1>2, <1>3, OtherClient
<1>5. QED
  BY <1>1, <1>4, SameForKeeps DEF ExchInv

\* So does to write.
LEMMA WriteOthers ==
    ASSUME ExchInv, IInv, NEW m, NEW e \in Ends, Write(m, e), NEW x \in Clients, x # e[1]
    PROVE  Exch(x)' /\ Unaccepted(x)'
<1>1. /\ backlog' = backlog /\ threaded' = threaded /\ running' = running
      /\ browser' = browser
  BY DEF Write
<1>2. e[1] \in Clients /\ Other(e)[1] = e[1]
  BY ClientOf DEF Other
<1>3. /\ conn' = conn \/ \E cn : conn' = [conn EXCEPT ![e] = cn]
      /\ wire' = wire \/ \E w : wire' = [wire EXCEPT ![Other(e)] = w]
      /\ toBrowser' = toBrowser \/ \E t : toBrowser' = [toBrowser EXCEPT ![e[1]] = t]
  BY DEF Write, Sent
<1>4. \A y \in Ends : y[1] # e[1] => conn'[y] = conn[y] /\ wire'[y] = wire[y]
  BY <1>2, <1>3 DEF ExchInv, Typed, IInv, ConnsOK
<1>5. toBrowser'[x] = toBrowser[x]
  BY <1>3 DEF ExchInv, Typed
<1>6. SameFor(x)
  BY <1>1, <1>2, <1>4, <1>5, OtherClient
<1>7. QED
  BY <1>1, <1>6, SameForKeeps DEF ExchInv

\* So does to close a connection.
LEMMA DestroyOthers ==
    ASSUME ExchInv, IInv, NEW m, NEW e \in Ends, Destroys(m, e), NEW x \in Clients, x # e[1]
    PROVE  Exch(x)' /\ Unaccepted(x)'
<1>1. /\ backlog' = backlog /\ threaded' = threaded /\ running' = running
      /\ browser' = browser /\ toBrowser' = toBrowser
  BY DEF Destroys
<1>2. e[1] \in Clients /\ Mate(e)[1] = e[1]
  BY ClientOf DEF Mate
<1>3. Destroyed(e)
  BY DestroyedEnd DEF Destroys
<1>4. \A y \in Ends : y[1] # e[1] => conn'[y] = conn[y] /\ wire'[y] = wire[y]
  <2>1. \A y \in Ends : y[1] # e[1] => y # e /\ y # conn[e].peer
    <3>1. conn[e].peer # None => conn[e].peer = Mate(e)
      BY DEF IInv, LinksAlive
    <3>2. \A y \in Ends : y # None
      BY MeerkatAssumption DEF Ends
    <3>3. QED
      BY <1>2, <3>1, <3>2
  <2>2. QED
    BY <1>3, <2>1 DEF Destroyed
<1>5. SameFor(x)
  BY <1>1, <1>2, <1>4, OtherClient
<1>6. QED
  BY <1>1, <1>5, SameForKeeps DEF ExchInv

\* A client that has been accepted stays so.
LEMMA StaysAccepted ==
    ASSUME NEW c \in Clients, browser[c].pc # "new", c \notin backlog,
           browser' = browser, backlog' = backlog
    PROVE  Unaccepted(c)'
BY DEF Unaccepted

\* A loop comes to an end of its list.
LEMMA ComesThere ==
    ASSUME ExchInv, NEW m \in Managers, NEW e, NEW ends, Comes(m, e, ends)
    PROVE  e \in Range(list[m]) /\ e \in ends
BY DEF Comes, Range

\* The first of a list is in it.
LEMMA HeadThere ==
    ASSUME ExchInv, NEW m \in Managers, list[m] # <<>>
    PROVE  Head(list[m]) \in Range(list[m])
<1>1. list[m] \in Seq(Ends)
  BY DEF ExchInv, Typed
<1>2. 1 \in DOMAIN list[m] /\ Head(list[m]) = list[m][1]
  BY <1>1, EmptySeq
<1>3. QED
  BY <1>2 DEF Range

\* An end that a manager closes, or that mg_mgr_free does.
LEMMA CloseDestroys ==
    ASSUME ExchInv, NEW m \in Managers, NEW e \in Ends, Close(m, e), ToClose(e)
    PROVE  Destroys(m, e) /\ e \in Range(list[m])
<1>1. e \in Range(list[m])
  BY ComesThere DEF Close
<1>2. QED
  BY <1>1, InList DEF Close, Destroys

\* mg_mgr_free closes the ends of the main manager when the server stops.
LEMMA FreeDestroys ==
    ASSUME ExchInv, NEW e \in Ends, Free(e)
    PROVE  Destroys("main", e) /\ e \in Range(list["main"])
<1>1. "main" \in Managers
  BY DEF Managers
<1>2. e \in Range(list["main"])
  BY <1>1, HeadThere DEF Free
<1>3. ~running
  BY DEF Free, ExchInv, TodoThere
<1>4. QED
  BY <1>1, <1>2, <1>3, InList DEF Free, Destroys

\* To close a connection keeps all exchanges.
LEMMA DestroysExch ==
    ASSUME ExchInv, IInv, NEW m \in Managers, NEW e \in Ends, Destroys(m, e),
           NEW x \in Clients
    PROVE  Exch(x)' /\ Unaccepted(x)'
<1>1. CASE x # e[1]
  BY <1>1, DestroyOthers
<1>2. CASE x = e[1]
  <2>1. Exch(x)'
    BY <1>2, DestroyExch
  <2>2. Unaccepted(x)'
    BY <1>2, AliveAccepted, StaysAccepted DEF Destroys
  <2>3. QED
    BY <2>1, <2>2
<1>3. QED
  BY <1>1, <1>2

\* A step that leaves connections, wires and browsers alone.
LEMMA IdleExch ==
    ASSUME ExchInv, threaded' = threaded, running' => running, backlog' = backlog,
           browser' = browser, conn' = conn, wire' = wire, toBrowser' = toBrowser,
           NEW x \in Clients
    PROVE  Exch(x)' /\ Unaccepted(x)'
<1>1. SameFor(x)
  BY DEF SameFor, NC, C0, C1
<1>2. QED
  BY <1>1, SameForKeeps DEF ExchInv

\* With the listener the backlog is closed.
LEMMA FreeListenerExch ==
    ASSUME ExchInv, FreeListener, NEW x \in Clients
    PROVE  Exch(x)' /\ Unaccepted(x)'
<1>1. /\ backlog' = {} /\ threaded' = threaded /\ running' = running /\ browser' = browser
      /\ conn' = conn /\ wire' = wire /\ toBrowser' = toBrowser /\ ~running
  BY DEF FreeListener, ExchInv, TodoThere
<1>2. Unaccepted(x) /\ Exch(x)
  BY DEF ExchInv
<1>3. Unaccepted(x)'
  BY <1>1, <1>2 DEF Unaccepted, NC, C0, C1
<1>4. Stream(x)' = Stream(x) /\ Http(x)' = Http(x) /\ Requests(x)' = Requests(x)
  BY <1>1 DEF Stream, Http, HttpEnd, Requests, NC, C0, C1
<1>5. Reaches(x)' => Reaches(x)
  BY <1>1 DEF Reaches, NC, C1
<1>6. Exch(x)'
  BY <1>1, <1>2, <1>4, <1>5 DEF Exch, NC, C0
<1>7. QED
  BY <1>3, <1>6

\* Every step of a manager keeps the exchange of every client.
LEMMA ManagersExch ==
    ASSUME ExchInv, IInv, NEW m \in Managers, ManagerStep(m), NEW x \in Clients
    PROVE  Exch(x)' /\ Unaccepted(x)'
<1>1. CASE Select(m) \/ BeginClose(m) \/ EndPoll(m) \/ StartThread(m)
  BY <1>1, IdleExch DEF Select, BeginClose, EndPoll, StartThread
<1>2. ASSUME NEW e \in EndsOf(m), Read(m, e) PROVE Exch(x)' /\ Unaccepted(x)'
  <2>1. e \in Ends
    BY DEF EndsOf
  <2>2. CASE x # e[1]
    BY <1>2, <2>1, <2>2, ReadOthers
  <2>3. CASE x = e[1]
    <3>1. Exch(x)'
      BY <1>2, <2>3, ReadExch
    <3>2. Unaccepted(x)'
      BY <1>2, <2>1, <2>3, HandlingThere, InList, StaysAccepted DEF Read
    <3>3. QED
      BY <3>1, <3>2
  <2>4. QED
    BY <2>2, <2>3
<1>3. ASSUME NEW e \in EndsOf(m), Write(m, e) PROVE Exch(x)' /\ Unaccepted(x)'
  <2>1. e \in Ends
    BY DEF EndsOf
  <2>2. CASE x # e[1]
    BY <1>3, <2>1, <2>2, WriteOthers
  <2>3. CASE x = e[1]
    <3>1. Exch(x)'
      BY <1>3, <2>3, WriteExch
    <3>2. Unaccepted(x)'
      BY <1>3, <2>1, <2>3, HandlingThere, InList, StaysAccepted DEF Write
    <3>3. QED
      BY <3>1, <3>2
  <2>4. QED
    BY <2>2, <2>3
<1>4. ASSUME NEW e \in EndsOf(m), Close(m, e) PROVE Exch(x)' /\ Unaccepted(x)'
  <2>1. e \in Ends
    BY DEF EndsOf
  <2>2. CASE ToClose(e)
    BY <1>4, <2>1, <2>2, CloseDestroys, DestroysExch
  <2>3. CASE ~ToClose(e)
    BY <1>4, <2>3, IdleExch DEF Close
  <2>4. QED
    BY <2>2, <2>3
<1>5. ASSUME NEW e \in EndsOf(m), Free(e) PROVE Exch(x)' /\ Unaccepted(x)'
  BY <1>5, FreeDestroys, DestroysExch DEF EndsOf, Managers
<1>6. ASSUME NEW c \in Clients, Accept(c) PROVE Exch(x)' /\ Unaccepted(x)'
  BY <1>6, AcceptExch, AcceptOthers
<1>7. QED
  BY <1>1, <1>2, <1>3, <1>4, <1>5, <1>6, FreeListenerExch DEF ManagerStep

\* Every step does.
LEMMA ExchKept ==
    ASSUME ExchInv, IInv, [Next]_vars, NEW x \in Clients
    PROVE  Exch(x)' /\ Unaccepted(x)'
<1>1. CASE Stop \/ UNCHANGED vars
  BY <1>1, IdleExch DEF Stop, vars
<1>2. ASSUME NEW m \in Managers, ManagerStep(m) PROVE Exch(x)' /\ Unaccepted(x)'
  BY <1>2, ManagersExch
<1>3. ASSUME NEW c \in Clients,
             Connect(c) \/ Leave(c) \/ BrowserStep(c) \/ \E kind \in Kinds : Ask(c, kind)
      PROVE  Exch(x)' /\ Unaccepted(x)'
  BY <1>3, BrowsersExch
<1>4. QED
  BY <1>1, <1>2, <1>3 DEF Next

-----------------------------------------------------------------------------
(* The lists of the managers.                                              *)

\* Nothing is in s twice.
OnceEach(s) == \A i, j \in DOMAIN s : s[i] = s[j] => i = j

\* Taken out of a list in which it is once, an end is in it no more.
LEMMA RemoveFirstTakes ==
    ASSUME NEW s \in Seq(Ends), OnceEach(s), NEW e \in Range(s)
    PROVE  LET r == RemoveFirst(s, e)
           IN  r \in Seq(Ends) /\ Range(r) = Range(s) \ {e} /\ OnceEach(r)
<1> DEFINE r == RemoveFirst(s, e)
<1>1. DOMAIN s = 1 .. Len(s) /\ Len(s) \in Nat
  OBVIOUS
<1>2. PICK k \in 1 .. Len(s) : s[k] = e
  BY <1>1 DEF Range
<1>3. r = RemoveAt(s, k)
  <2>1. \E i \in 1 .. Len(s) : s[i] = e
    BY <1>2
  <2>2. r = RemoveAt(s, SelectInSeq(s, LAMBDA v : v = e))
    BY <2>1 DEF RemoveFirst
  <2>3. {i \in 1 .. Len(s) : s[i] = e} = {k}
    BY <1>1, <1>2 DEF OnceEach
  <2>4. SelectInSeq(s, LAMBDA v : v = e) = k
    BY <2>3 DEF SelectInSeq, Min
  <2>5. QED
    BY <2>2, <2>4
<1> DEFINE a == SubSeq(s, 1, k - 1)
           b == SubSeq(s, k + 1, Len(s))
<1>4. /\ a \in Seq(Ends) /\ Len(a) = k - 1 /\ \A i \in 1 .. k - 1 : a[i] = s[i]
  <2>1. \A i \in 1 .. k - 1 : s[i] \in Ends
    BY <1>1
  <2>2. 1 \in Int /\ k - 1 \in Int /\ (IF 1 <= k - 1 THEN (k - 1) - 1 + 1 ELSE 0) = k - 1
        /\ (k - 1) - 1 + 1 = k - 1 /\ \A i \in 1 .. k - 1 : 1 + i - 1 = i
    BY <1>1
  <2>3. QED
    BY <2>1, <2>2, SubSeqProperties
<1>5. /\ b \in Seq(Ends) /\ Len(b) = Len(s) - k /\ \A i \in 1 .. Len(s) - k : b[i] = s[i + k]
  <2>1. \A i \in k + 1 .. Len(s) : s[i] \in Ends
    BY <1>1
  <2>2. /\ k + 1 \in Int /\ Len(s) \in Int /\ k <= Len(s)
        /\ (IF k + 1 <= Len(s) THEN Len(s) - (k + 1) + 1 ELSE 0) = Len(s) - k
        /\ Len(s) - (k + 1) + 1 = Len(s) - k
        /\ \A i \in 1 .. Len(s) - k : (k + 1) + i - 1 = i + k
    <3>1. k \in Int /\ Len(s) \in Int /\ 1 <= k /\ k <= Len(s)
      BY <1>1
    <3>2. ASSUME NEW n \in Int, NEW x \in Int, x <= n
          PROVE  /\ (IF x + 1 <= n THEN n - (x + 1) + 1 ELSE 0) = n - x
                 /\ n - (x + 1) + 1 = n - x
                 /\ \A i \in 1 .. n - x : (x + 1) + i - 1 = i + x
      BY <3>2
    <3>3. QED
      BY <3>1, <3>2
  <2>3. /\ b \in Seq(Ends) /\ Len(b) = IF k + 1 <= Len(s) THEN Len(s) - (k + 1) + 1 ELSE 0
        /\ \A i \in 1 .. Len(s) - (k + 1) + 1 : b[i] = s[(k + 1) + i - 1]
    <3>1. ASSUME NEW p \in Int, NEW n \in Int, \A i \in p .. n : s[i] \in Ends
          PROVE  /\ SubSeq(s, p, n) \in Seq(Ends)
                 /\ Len(SubSeq(s, p, n)) = IF p <= n THEN n - p + 1 ELSE 0
                 /\ \A i \in 1 .. n - p + 1 : SubSeq(s, p, n)[i] = s[p + i - 1]
      BY <3>1, SubSeqProperties
    <3>2. PICK p \in Int : p = k + 1
      BY <2>2
    <3>3. PICK n \in Int : n = Len(s)
      BY <2>2
    <3>4. b = SubSeq(s, p, n)
      BY <3>2, <3>3
    <3>5. \A i \in p .. n : s[i] \in Ends
      BY <2>1, <3>2, <3>3
    <3> HIDE DEF b
    <3>6. /\ b \in Seq(Ends) /\ Len(b) = IF p <= n THEN n - p + 1 ELSE 0
          /\ \A i \in 1 .. n - p + 1 : b[i] = s[p + i - 1]
      BY <3>1, <3>4, <3>5
    <3>7. QED
      BY <3>2, <3>3, <3>6
  <2> HIDE DEF b
  <2>4. ASSUME NEW i \in 1 .. Len(s) - k PROVE b[i] = s[i + k]
    <3>1. i \in 1 .. Len(s) - (k + 1) + 1 /\ (k + 1) + i - 1 = i + k
      BY <2>2
    <3>2. b[i] = s[(k + 1) + i - 1]
      BY <2>3, <3>1
    <3>3. QED
      BY <3>1, <3>2
  <2>5. QED
    BY <2>2, <2>3, <2>4
<1>6. r = a \o b
  BY <1>3 DEF RemoveAt
<1> HIDE DEF a, b, r
<1>7. /\ r \in Seq(Ends) /\ Len(r) = Len(s) - 1 /\ DOMAIN r = 1 .. Len(s) - 1
      /\ \A i \in 1 .. Len(s) - 1 : r[i] = IF i < k THEN s[i] ELSE s[i + 1]
  <2>1. /\ r \in Seq(Ends) /\ Len(r) = Len(a) + Len(b)
        /\ \A i \in 1 .. Len(a) + Len(b) : r[i] = IF i <= Len(a) THEN a[i] ELSE b[i - Len(a)]
    BY <1>4, <1>5, <1>6, ConcatProperties
  <2>2. Len(r) = Len(s) - 1 /\ DOMAIN r = 1 .. Len(r)
    BY <1>1, <1>4, <1>5, <2>1
  <2>3. ASSUME NEW i \in 1 .. Len(s) - 1
        PROVE  r[i] = IF i < k THEN s[i] ELSE s[i + 1]
    <3>1. r[i] = IF i <= k - 1 THEN a[i] ELSE b[i - (k - 1)]
      BY <1>4, <2>1, <2>2
    <3>2. CASE i < k
      <4>1. i \in 1 .. k - 1 /\ i <= k - 1
        BY <3>2
      <4>2. QED
        BY <1>4, <3>1, <3>2, <4>1
    <3>3. CASE ~(i < k)
      <4>1. ~(i <= k - 1) /\ i - (k - 1) \in 1 .. Len(s) - k /\ (i - (k - 1)) + k = i + 1
        BY <1>1, <3>3
      <4>2. QED
        BY <1>5, <3>1, <3>3, <4>1
    <3>4. QED
      BY <3>2, <3>3
  <2>4. QED
    BY <2>1, <2>2, <2>3
<1>8. OnceEach(r)
  <2>1. ASSUME NEW i \in 1 .. Len(s) - 1, NEW j \in 1 .. Len(s) - 1, r[i] = r[j]
        PROVE  i = j
    <3> DEFINE x(n) == IF n < k THEN n ELSE n + 1
    <3>1. \A n \in 1 .. Len(s) - 1 : x(n) \in 1 .. Len(s) /\ r[n] = s[x(n)]
      BY <1>1, <1>7
    <3>2. x(i) = x(j)
      BY <1>1, <2>1, <3>1 DEF OnceEach
    <3>3. i \in Int /\ j \in Int /\ k \in Int
      BY <1>1
    <3>4. QED
      BY <3>2, <3>3
  <2>2. QED
    BY <1>7, <2>1 DEF OnceEach
<1>9. ASSUME NEW x \in Range(s) \ {e} PROVE x \in Range(r)
  <2>1. PICK j \in 1 .. Len(s) : s[j] = x /\ j # k
    BY <1>1, <1>2, <1>9 DEF Range
  <2>2. CASE j < k
    BY <1>1, <1>2, <1>7, <2>1, <2>2 DEF Range
  <2>3. CASE j > k
    <3>1. j - 1 \in 1 .. Len(s) - 1 /\ ~(j - 1 < k) /\ (j - 1) + 1 = j
      BY <1>1, <1>2, <2>1, <2>3
    <3>2. r[j - 1] = x
      BY <1>7, <2>1, <3>1
    <3>3. QED
      BY <1>7, <3>1, <3>2 DEF Range
  <2>4. QED
    BY <1>2, <2>1, <2>2, <2>3
<1>10. ASSUME NEW x \in Range(r) PROVE x \in Range(s) /\ x # e
  <2>1. PICK i \in 1 .. Len(s) - 1 : r[i] = x
    BY <1>7, <1>10 DEF Range
  <2>2. \E j \in 1 .. Len(s) : s[j] = x /\ j # k
    BY <1>1, <1>2, <1>7, <2>1
  <2>3. QED
    BY <1>1, <1>2, <2>2 DEF Range, OnceEach
<1>11. QED
  BY <1>7, <1>8, <1>9, <1>10 DEF r

\* A manager's list with an end at its head.
LEMMA PutFirst ==
    ASSUME NEW s \in Seq(Ends), OnceEach(s), NEW e \in Ends, e \notin Range(s)
    PROVE  LET r == <<e>> \o s
           IN  r \in Seq(Ends) /\ Range(r) = Range(s) \cup {e} /\ OnceEach(r)
<1> DEFINE r == <<e>> \o s
<1>1. /\ Len(s) \in Nat /\ DOMAIN s = 1 .. Len(s)
      /\ r \in Seq(Ends) /\ DOMAIN r = 1 .. Len(s) + 1 /\ r[1] = e
      /\ \A i \in 1 .. Len(s) : r[i + 1] = s[i]
  OBVIOUS
<1> HIDE DEF r
<1>2. \A i \in 1 .. Len(s) + 1 : i # 1 => i - 1 \in 1 .. Len(s) /\ r[i] = s[i - 1]
  <2>1. ASSUME NEW i \in 1 .. Len(s) + 1, i # 1
        PROVE  i - 1 \in 1 .. Len(s) /\ (i - 1) + 1 = i
    BY <1>1, <2>1
  <2>2. QED
    BY <1>1, <2>1
<1>3. Range(r) = Range(s) \cup {e}
  <2>1. 1 \in 1 .. Len(s) + 1 /\ \A i \in 1 .. Len(s) : i + 1 \in 1 .. Len(s) + 1
    BY <1>1
  <2>2. ASSUME NEW x \in Range(s) PROVE x \in Range(r)
    BY <1>1, <2>1, <2>2 DEF Range
  <2>3. e \in Range(r)
    BY <1>1, <2>1 DEF Range
  <2>4. ASSUME NEW x \in Range(r) PROVE x = e \/ x \in Range(s)
    BY <1>1, <1>2, <2>4 DEF Range
  <2>5. QED
    BY <2>2, <2>3, <2>4
<1>4. OnceEach(r)
  <2>1. ASSUME NEW i \in 1 .. Len(s) + 1, NEW j \in 1 .. Len(s) + 1, r[i] = r[j]
        PROVE  i = j
    <3>1. \A n \in 1 .. Len(s) : s[n] # e
      BY <1>1 DEF Range
    <3>2. CASE i = 1
      BY <1>1, <1>2, <2>1, <3>1, <3>2
    <3>3. CASE j = 1
      BY <1>1, <1>2, <2>1, <3>1, <3>3
    <3>4. CASE i # 1 /\ j # 1
      <4>1. i - 1 \in 1 .. Len(s) /\ j - 1 \in 1 .. Len(s) /\ s[i - 1] = s[j - 1]
        BY <1>2, <2>1, <3>4
      <4>2. i - 1 = j - 1
        BY <1>1, <4>1 DEF OnceEach
      <4>3. QED
        BY <1>1, <4>2
    <3>5. QED
      BY <3>2, <3>3, <3>4
  <2>2. QED
    BY <1>1, <2>1 DEF OnceEach
<1>5. QED
  BY <1>1, <1>3, <1>4 DEF r

-----------------------------------------------------------------------------
(* What a step does to the connections.                                    *)

\* A handler of an end keeps its life and its link, and an end with a link is
\* not to be closed after a send because of it.
Kept(c, d) ==
    /\ BuffersOK(d) /\ d.alive = c.alive /\ d.peer = c.peer
    /\ ~c.alive => d = c
    /\ "send and close" \in d.flags /\ c.peer # None => "send and close" \in c.flags

ConnsThere == (\A e \in Ends : BuffersOK(conn[e])) /\ DeadQuiet /\ LinkedStay

\* A connection that does not change is kept.
LEMMA KeptSame ==
    ASSUME ExchInv, NEW e \in Ends PROVE Kept(conn[e], conn[e])
BY DEF ExchInv, Typed, Kept

\* Connections that are kept stay as they must be.
LEMMA KeptThere ==
    ASSUME ExchInv, \A e \in Ends : Kept(conn[e], conn'[e])
    PROVE  ConnsThere'
BY DEF ExchInv, Kept, ConnsThere, DeadQuiet, LinkedStay

\* Reading fills buffers, and empties none of what is to be sent.
LEMMA ReadKept ==
    ASSUME ExchInv, IInv, NEW m \in Managers, NEW e \in Ends, Read(m, e), NEW x \in Ends
    PROVE  Kept(conn[x], conn'[x]) /\ (conn[x].send # <<>> => conn'[x].send # <<>>)
<1> DEFINE gone == IF Hungup(e) THEN {"close"} ELSE {}
           p == conn[e].peer
<1>1. conn[e].alive /\ wire[e] \in Seq(Msg) /\ \A y \in Ends : IsConn(conn[y]) /\ BuffersOK(conn[y])
  BY HandlingThere, InList DEF Read, ExchInv, Typed, IInv, ConnsOK
<1>2. CASE p # None
  <2>1. p = Mate(e) /\ p \in Ends /\ p # e /\ conn[p].alive
    BY <1>2, Mates DEF IInv, LinksAlive
  <2>2. conn' = [conn EXCEPT ![p].send = @ \o wire[e], ![e].flags = @ \cup gone]
    BY <1>2 DEF Read
  <2>3. /\ conn'[p] = [conn[p] EXCEPT !.send = @ \o wire[e]]
        /\ conn'[e] = [conn[e] EXCEPT !.flags = @ \cup gone]
        /\ \A y \in Ends : y # p /\ y # e => conn'[y] = conn[y]
    BY <2>1, <2>2 DEF IInv, ConnsOK, IsConn
  <2> HIDE DEF p
  <2>4. CASE x = p
    <3>1. /\ conn'[p].send = conn[p].send \o wire[e] /\ conn'[p].recv = conn[p].recv
          /\ conn'[p].alive = conn[p].alive /\ conn'[p].peer = conn[p].peer
          /\ conn'[p].file = conn[p].file /\ conn'[p].flags = conn[p].flags
      <4> DEFINE cn == conn[p]
                 t == cn.send \o wire[e]
      <4>1. IsConn(cn)
        BY <1>1, <2>1
      <4>2. conn'[p] = [cn EXCEPT !.send = t]
        BY <2>3
      <4> HIDE DEF cn, t
      <4>3. /\ conn'[p].send = t /\ conn'[p].recv = cn.recv
            /\ conn'[p].alive = cn.alive /\ conn'[p].peer = cn.peer
            /\ conn'[p].file = cn.file /\ conn'[p].flags = cn.flags
        BY <4>1, <4>2 DEF IsConn
      <4> USE DEF cn, t
      <4>4. QED
        BY <4>3
    <3>2. conn[p].send \in Seq(Msg)
      BY <1>1, <2>1 DEF BuffersOK
    <3>3. conn[p].send \o wire[e] \in Seq(Msg)
          /\ (conn[p].send # <<>> => conn[p].send \o wire[e] # <<>>)
      BY <1>1, <3>2, ConcatEmpty
    <3>4. QED
      BY <1>1, <2>1, <2>4, <3>1, <3>3 DEF Kept, BuffersOK
  <2>5. CASE x = e
    <3>1. /\ conn'[e].send = conn[e].send /\ conn'[e].recv = conn[e].recv
          /\ conn'[e].alive = conn[e].alive /\ conn'[e].peer = conn[e].peer
          /\ conn'[e].file = conn[e].file /\ conn'[e].flags = conn[e].flags \cup gone
      BY <1>1, <2>3 DEF IsConn
    <3>2. "send and close" \notin gone
      OBVIOUS
    <3>3. QED
      BY <1>1, <2>5, <3>1, <3>2 DEF Kept, BuffersOK
  <2>6. CASE x # p /\ x # e
    BY <2>3, <2>6, KeptSame
  <2>7. QED
    BY <2>4, <2>5, <2>6
<1>3. CASE p = None
  <2> DEFINE cn == Received(e, wire[e])
  <2>1. conn' = [conn EXCEPT ![e] = [cn EXCEPT !.flags = @ \cup gone]]
    BY <1>3 DEF Read
  <2>2. Grown(conn[e], cn) /\ SameLink(conn[e], cn)
    BY <1>1, ReceivedGrows, ReceivedLinks DEF IInv
  <2> HIDE DEF cn
  <2>3. /\ conn'[e] = [cn EXCEPT !.flags = @ \cup gone]
        /\ \A y \in Ends : y # e => conn'[y] = conn[y]
    BY <2>1 DEF IInv, ConnsOK
  <2>4. /\ conn'[e].send = cn.send /\ conn'[e].recv = cn.recv
        /\ conn'[e].alive = conn[e].alive /\ conn'[e].peer = conn[e].peer
        /\ conn'[e].file = cn.file
    BY <2>2, <2>3 DEF IsConn, SameLink
  <2>5. CASE x = e
    BY <1>1, <1>3, <2>2, <2>4, <2>5 DEF Kept, Grown, BuffersOK
  <2>6. CASE x # e
    BY <2>3, <2>6, KeptSame
  <2>7. QED
    BY <2>5, <2>6
<1>4. QED
  BY <1>2, <1>3

\* Writing is about the end that writes.
LEMMA WriteKept ==
    ASSUME ExchInv, IInv, NEW m \in Managers, NEW e \in Ends, Write(m, e), NEW x \in Ends
    PROVE  Kept(conn[x], conn'[x]) /\ (x # e => conn'[x] = conn[x])
<1>1. conn[e].alive /\ IsConn(conn[e]) /\ BuffersOK(conn[e])
  BY HandlingThere, InList DEF Write, ExchInv, Typed, IInv, ConnsOK
<1>2. ASSUME NEW cn, IsConn(cn), BuffersOK(cn), cn.alive = conn[e].alive, cn.peer = conn[e].peer,
             "send and close" \in cn.flags => "send and close" \in conn[e].flags,
             conn' = [conn EXCEPT ![e] = AfterSend(e, cn)]
      PROVE  Kept(conn[x], conn'[x]) /\ (x # e => conn'[x] = conn[x])
  <2> DEFINE dn == AfterSend(e, cn)
  <2>1. /\ BuffersOK(dn) /\ dn.alive = cn.alive /\ dn.peer = cn.peer /\ dn.flags = cn.flags
    BY <1>2, Transfers DEF AfterSend
  <2>2. conn' = [conn EXCEPT ![e] = dn]
    BY <1>2
  <2> HIDE DEF dn
  <2>3. conn'[e] = dn /\ \A y \in Ends : y # e => conn'[y] = conn[y]
    BY <2>2 DEF IInv, ConnsOK
  <2>4. CASE x = e
    BY <1>1, <1>2, <2>1, <2>3, <2>4 DEF Kept
  <2>5. CASE x # e
    BY <2>3, <2>5, KeptSame
  <2>6. QED
    BY <2>4, <2>5
<1>3. CASE conn' = conn
  BY <1>3, KeptSame
<1>4. ASSUME NEW n \in 1 .. Len(conn[e].send),
             conn' = [conn EXCEPT ![e] =
                AfterSend(e, [conn[e] EXCEPT !.send = SubSeq(@, n + 1, Len(@))])]
      PROVE  Kept(conn[x], conn'[x]) /\ (x # e => conn'[x] = conn[x])
  <2> DEFINE q == SubSeq(conn[e].send, n + 1, Len(conn[e].send))
             cn == [conn[e] EXCEPT !.send = q]
  <2>1. q \in Seq(Msg)
    BY <1>1, MoveSome DEF BuffersOK
  <2> HIDE DEF q
  <2>2. /\ IsConn(cn) /\ BuffersOK(cn) /\ cn.alive = conn[e].alive /\ cn.peer = conn[e].peer
        /\ cn.flags = conn[e].flags
    BY <1>1, <2>1 DEF IsConn, BuffersOK
  <2>3. conn' = [conn EXCEPT ![e] = AfterSend(e, cn)]
    BY <1>4 DEF q
  <2> HIDE DEF cn
  <2>4. QED
    BY <1>2, <2>2, <2>3
<1>5. CASE conn' = [conn EXCEPT ![e] =
                      AfterSend(e, [conn[e] EXCEPT !.flags = @ \cup {"close"}])]
  <2> DEFINE cn == [conn[e] EXCEPT !.flags = @ \cup {"close"}]
  <2>1. /\ IsConn(cn) /\ BuffersOK(cn) /\ cn.alive = conn[e].alive /\ cn.peer = conn[e].peer
        /\ cn.flags = conn[e].flags \cup {"close"}
    BY <1>1 DEF IsConn, BuffersOK
  <2>2. conn' = [conn EXCEPT ![e] = AfterSend(e, cn)]
    BY <1>5
  <2> HIDE DEF cn
  <2>3. QED
    BY <1>2, <2>1, <2>2
<1>6. QED
  BY <1>3, <1>4, <1>5 DEF Write

\* A destroyed end leaves nothing, and takes the link of its peer.
LEMMA DestroyThere ==
    ASSUME ExchInv, IInv, NEW m, NEW e \in Ends, Destroys(m, e)
    PROVE  ConnsThere'
<1>1. Destroyed(e)
  BY DestroyedEnd DEF Destroys
<1>2. \A x \in Ends : BuffersOK(conn[x])
  BY DEF ExchInv, Typed
<1>3. BuffersOK(Gone) /\ Gone.peer = None
  BY EmptySeq DEF Gone, BuffersOK, Files
<1>4. ASSUME NEW x \in Ends
      PROVE  /\ BuffersOK(conn'[x]) /\ (~conn'[x].alive => conn'[x] = Gone)
             /\ conn'[x].peer # None => "send and close" \notin conn'[x].flags
  <2>1. CASE x = e
    BY <1>1, <1>3, <2>1 DEF Destroyed
  <2>2. CASE x # e /\ x # conn[e].peer
    BY <1>1, <1>2, <2>2 DEF Destroyed, ExchInv, DeadQuiet, LinkedStay
  <2>3. CASE x # e /\ x = conn[e].peer
    <3>1. conn[e].peer # None /\ x = Mate(e) /\ conn[x].alive
      BY <2>3, MeerkatAssumption DEF Ends, IInv, LinksAlive
    <3>2. QED
      BY <1>1, <1>2, <3>1 DEF Destroyed, BuffersOK
  <2>4. QED
    BY <2>1, <2>2, <2>3
<1>5. QED
  BY <1>4 DEF ConnsThere, DeadQuiet, LinkedStay

\* Connections that are made are as they must be.
LEMMA AcceptThere ==
    ASSUME ExchInv, IInv, NEW c \in Clients, Accept(c)
    PROVE  ConnsThere'
<1>1. /\ Fresh.alive /\ Fresh.peer = None /\ Fresh.flags = {} /\ BuffersOK(Fresh)
      /\ DOMAIN Fresh = {"alive", "recv", "send", "flags", "peer", "file"}
  BY EmptySeq DEF Gone, Fresh, BuffersOK, Files
<1>2. \A p : /\ [Fresh EXCEPT !.peer = p].alive /\ [Fresh EXCEPT !.peer = p].flags = {}
             /\ BuffersOK([Fresh EXCEPT !.peer = p])
  BY <1>1 DEF BuffersOK
<1>3. ASSUME NEW x \in Ends
      PROVE  \/ conn'[x] = conn[x] \/ conn'[x] = Fresh
             \/ \E p : conn'[x] = [Fresh EXCEPT !.peer = p]
  BY DEF Accept, IInv, ConnsOK
<1>4. \A x \in Ends : /\ BuffersOK(conn[x]) /\ (~conn[x].alive => conn[x] = Gone)
                      /\ conn[x].peer # None => "send and close" \notin conn[x].flags
  BY DEF ExchInv, Typed, DeadQuiet, LinkedStay
<1>5. ASSUME NEW x \in Ends
      PROVE  /\ BuffersOK(conn'[x]) /\ (~conn'[x].alive => conn'[x] = Gone)
             /\ conn'[x].peer # None => "send and close" \notin conn'[x].flags
  <2>1. CASE conn'[x] = conn[x]
    BY <1>4, <2>1
  <2>2. CASE conn'[x] = Fresh
    BY <1>1, <2>2
  <2>3. CASE \E p : conn'[x] = [Fresh EXCEPT !.peer = p]
    BY <1>2, <2>3
  <2>4. QED
    BY <1>3, <2>1, <2>2, <2>3
<1>6. QED
  BY <1>5 DEF ConnsThere, DeadQuiet, LinkedStay

ListsThere == list \in [Managers -> Seq(Ends)] /\ Listed

\* A list is right as long as what is alive does not change.
LEMMA SameLists ==
    ASSUME ExchInv, list' = list, \A e \in Ends : conn'[e].alive = conn[e].alive
    PROVE  ListsThere'
<1>1. \A m \in Managers : EndsOf(m) \subseteq Ends
  BY DEF EndsOf
<1>2. QED
  BY <1>1 DEF ExchInv, Typed, ListsThere, Listed

\* An end that is closed leaves the list of its manager.
LEMMA DestroyLists ==
    ASSUME ExchInv, IInv, NEW m \in Managers, NEW e \in Range(list[m]), Destroys(m, e)
    PROVE  ListsThere'
<1>1. e \in Ends /\ e \in EndsOf(m) /\ ManagerOf(e) = m
  BY InList
<1>2. Destroyed(e)
  BY <1>1, DestroyedEnd DEF Destroys
<1>3. \A x \in Ends : conn'[x].alive <=> x # e /\ conn[x].alive
  <2>1. conn[e].peer # None => conn[e].peer = Mate(e)
    BY <1>1 DEF IInv, LinksAlive
  <2>2. \A y \in Ends : y # None
    BY MeerkatAssumption DEF Ends
  <2>3. ASSUME NEW y \in Ends, y # e PROVE conn'[y].alive = conn[y].alive
    BY <1>2, <2>1, <2>2, <2>3 DEF Destroyed
  <2>4. ~conn'[e].alive
    <3>1. ~Gone.alive
      BY DEF Gone
    <3>2. QED
      BY <1>2, <3>1 DEF Destroyed
  <2>5. QED
    BY <2>3, <2>4
<1>4. /\ list \in [Managers -> Seq(Ends)] /\ \A x \in Managers : OnceEach(list[x])
      /\ \A x \in Managers : Range(list[x]) = {y \in EndsOf(x) : conn[y].alive}
  BY DEF ExchInv, Typed, Listed, OnceEach
<1> DEFINE r == RemoveFirst(list[m], e)
<1>5. r \in Seq(Ends) /\ Range(r) = Range(list[m]) \ {e} /\ OnceEach(r)
  BY <1>4, RemoveFirstTakes
<1>6. list' = [list EXCEPT ![m] = r]
  BY DEF Destroys, Closed
<1> HIDE DEF r
<1>7. list' \in [Managers -> Seq(Ends)] /\ \A x \in Managers : OnceEach(list'[x])
  BY <1>4, <1>5, <1>6
<1>8. ASSUME NEW x \in Managers
      PROVE  Range(list'[x]) = {y \in EndsOf(x) : conn'[y].alive}
  <2>1. EndsOf(x) \subseteq Ends /\ (e \in EndsOf(x) => x = m)
    BY <1>1 DEF EndsOf, Managers, ManagerOf
  <2>2. {y \in EndsOf(x) : conn'[y].alive} = {y \in EndsOf(x) : conn[y].alive} \ {e}
    BY <1>3, <2>1
  <2>3. CASE x = m
    BY <1>4, <1>5, <1>6, <2>2, <2>3
  <2>4. CASE x # m
    BY <1>4, <1>6, <2>1, <2>2, <2>4
  <2>5. QED
    BY <2>3, <2>4
<1>9. QED
  BY <1>7, <1>8 DEF ListsThere, Listed, OnceEach

\* The three ends of a client, by their managers.
LEMMA ManagersOfClient ==
    ASSUME NEW c \in Clients
    PROVE  /\ NC(c) \in EndsOf("main") /\ C0(c) \in EndsOf("main") /\ C1(c) \in EndsOf(c)
           /\ "main" \in Managers /\ c \in Managers /\ c # "main"
           /\ EndsOf(c) = {C1(c)}
           /\ \A m \in Managers : C1(c) \in EndsOf(m) => m = c
           /\ \A m \in Managers : NC(c) \in EndsOf(m) \/ C0(c) \in EndsOf(m) => m = "main"
BY MeerkatAssumption DEF EndsOf, Managers, Ends, NC, C0, C1

\* Two put first are one put first, then the other.
LEMMA TwoFirst ==
    ASSUME NEW S, NEW x \in S, NEW y \in S, NEW t \in Seq(S)
    PROVE  <<x, y>> \o t = <<x>> \o (<<y>> \o t)
<1> DEFINE p == <<x, y>>
           q == <<x>>
           r == <<y>>
<1>1. p = Append(q, y)
  OBVIOUS
<1>2. q \in Seq(S) /\ r \in Seq(S)
  OBVIOUS
<1>3. Append(q, y) = q \o r
  BY <1>2, AppendIsConcat
<1> HIDE DEF p, q, r
<1>4. (q \o r) \o t = q \o (r \o t)
  BY <1>2, ConcatAssociative
<1>5. p \o t = q \o (r \o t)
  BY <1>1, <1>3, <1>4
<1>6. QED
  BY <1>5 DEF p, q, r

\* Accepted ends are put before the others.
LEMMA AcceptLists ==
    ASSUME ExchInv, IInv, NEW c \in Clients, Accept(c)
    PROVE  ListsThere'
<1>1. /\ list \in [Managers -> Seq(Ends)] /\ \A x \in Managers : OnceEach(list[x])
      /\ \A x \in Managers : Range(list[x]) = {y \in EndsOf(x) : conn[y].alive}
  BY DEF ExchInv, Typed, Listed, OnceEach
<1>2. c \in backlog /\ ~conn[NC(c)].alive /\ ~conn[C0(c)].alive /\ ~conn[C1(c)].alive
  BY DEF Accept, ExchInv, Unaccepted, Gone
<1>3. /\ NC(c) \in Ends /\ C0(c) \in Ends /\ C1(c) \in Ends
      /\ NC(c) # C0(c) /\ NC(c) # C1(c) /\ C0(c) # C1(c)
  BY EndsOfClient
<1>4. /\ "main" \in Managers /\ c \in Managers /\ c # "main"
      /\ NC(c) \in EndsOf("main") /\ C0(c) \in EndsOf("main") /\ EndsOf(c) = {C1(c)}
      /\ \A m \in Managers : C1(c) \in EndsOf(m) => m = c
      /\ \A m \in Managers : NC(c) \in EndsOf(m) \/ C0(c) \in EndsOf(m) => m = "main"
      /\ \A m \in Managers : EndsOf(m) \subseteq Ends
  BY ManagersOfClient DEF EndsOf
<1>5. /\ Fresh.alive = TRUE /\ \A p : [Fresh EXCEPT !.peer = p].alive = TRUE
  BY DEF Gone, Fresh
<1> DEFINE s == list["main"]
           r == <<NC(c)>> \o s
           q == <<C0(c)>> \o r
<1>6. s \in Seq(Ends) /\ OnceEach(s) /\ NC(c) \notin Range(s) /\ C0(c) \notin Range(s)
      /\ Range(s) = {y \in EndsOf("main") : conn[y].alive}
  BY <1>1, <1>2, <1>4
<1>7. r \in Seq(Ends) /\ Range(r) = Range(s) \cup {NC(c)} /\ OnceEach(r)
  BY <1>3, <1>6, PutFirst
<1> HIDE DEF s, r
<1>8. q \in Seq(Ends) /\ Range(q) = Range(r) \cup {C0(c)} /\ OnceEach(q)
  BY <1>3, <1>6, <1>7, PutFirst
<1>9. <<C0(c), NC(c)>> \o s = q
  <2>1. <<C0(c), NC(c)>> \o s = <<C0(c)>> \o (<<NC(c)>> \o s)
    BY <1>3, <1>6, TwoFirst
  <2>2. QED
    BY <2>1 DEF r
<1>10. <<C1(c)>> \in Seq(Ends) /\ Range(<<C1(c)>>) = {C1(c)} /\ OnceEach(<<C1(c)>>)
  BY <1>3 DEF Range, OnceEach
<1> HIDE DEF q
<1>11. CASE threaded
  <2>1. list' = [list EXCEPT !["main"] = q, ![c] = <<C1(c)>>]
    BY <1>9, <1>11 DEF Accept, NC, C0, C1, s
  <2>2. conn' = [conn EXCEPT ![NC(c)] = [Fresh EXCEPT !.peer = C0(c)],
                             ![C0(c)] = [Fresh EXCEPT !.peer = NC(c)],
                             ![C1(c)] = Fresh]
    BY <1>11 DEF Accept, NC, C0, C1
  <2>3. \A x \in Ends : conn'[x].alive <=> x \in {NC(c), C0(c), C1(c)} \/ conn[x].alive
    BY <1>3, <1>5, <2>2 DEF IInv, ConnsOK
  <2>4. list' \in [Managers -> Seq(Ends)] /\ \A x \in Managers : OnceEach(list'[x])
    BY <1>1, <1>8, <1>10, <2>1
  <2>5. ASSUME NEW x \in Managers
        PROVE  Range(list'[x]) = {y \in EndsOf(x) : conn'[y].alive}
    <3>1. CASE x = "main"
      <4>1. list'[x] = q
        BY <1>1, <1>4, <2>1, <3>1
      <4>2. C1(c) \notin EndsOf(x)
        BY <1>4, <3>1
      <4>3. QED
        BY <1>4, <1>6, <1>7, <1>8, <2>3, <3>1, <4>1, <4>2
    <3>2. CASE x = c
      <4>1. list'[x] = <<C1(c)>>
        BY <1>1, <1>4, <2>1, <3>2
      <4>2. QED
        BY <1>3, <1>4, <1>10, <2>3, <3>2, <4>1
    <3>3. CASE x # "main" /\ x # c
      <4>1. list'[x] = list[x]
        BY <1>1, <2>1, <3>3
      <4>2. \A y \in EndsOf(x) : y \notin {NC(c), C0(c), C1(c)} /\ y \in Ends
        BY <1>4, <3>3
      <4>3. QED
        BY <1>1, <2>3, <4>1, <4>2
    <3>4. QED
      BY <3>1, <3>2, <3>3
  <2>6. QED
    BY <2>4, <2>5 DEF ListsThere, Listed, OnceEach
<1>12. CASE ~threaded
  <2>1. list' = [list EXCEPT !["main"] = r]
    BY <1>12 DEF Accept, NC, s, r
  <2>2. conn' = [conn EXCEPT ![NC(c)] = Fresh]
    BY <1>12 DEF Accept, NC
  <2>3. \A x \in Ends : conn'[x].alive <=> x = NC(c) \/ conn[x].alive
    BY <1>3, <1>5, <2>2 DEF IInv, ConnsOK
  <2>4. list' \in [Managers -> Seq(Ends)] /\ \A x \in Managers : OnceEach(list'[x])
    BY <1>1, <1>7, <2>1
  <2>5. ASSUME NEW x \in Managers
        PROVE  Range(list'[x]) = {y \in EndsOf(x) : conn'[y].alive}
    <3>1. CASE x = "main"
      <4>1. list'[x] = r
        BY <1>1, <1>4, <2>1, <3>1
      <4>2. QED
        BY <1>4, <1>6, <1>7, <2>3, <3>1, <4>1
    <3>2. CASE x # "main"
      <4>1. list'[x] = list[x]
        BY <1>1, <2>1, <3>2
      <4>2. \A y \in EndsOf(x) : y # NC(c) /\ y \in Ends
        BY <1>4, <3>2
      <4>3. QED
        BY <1>1, <2>3, <4>1, <4>2
    <3>3. QED
      BY <3>1, <3>2
  <2>6. QED
    BY <2>4, <2>5 DEF ListsThere, Listed, OnceEach
<1>13. QED
  BY <1>11, <1>12

-----------------------------------------------------------------------------
(* Types.                                                                  *)

\* Sockets and threads.
OthersTyped ==
    /\ threaded \in BOOLEAN /\ running \in BOOLEAN
    /\ wire \in [Ends -> Seq(Msg)] /\ toBrowser \in [Clients -> Seq(Msg)]
    /\ browser = [c \in Clients |-> browser[c]]
    /\ \A c \in Clients : BrowserOK(browser[c])

ThreadsTyped ==
    /\ mgr = [m \in Managers |-> mgr[m]]
    /\ \A m \in Managers : ThreadOK(mgr[m])

\* Every step leaves each manager a record of its fields.
LEMMA ThreadsTypes ==
    ASSUME ThreadsTyped, [Next]_vars
    PROVE  ThreadsTyped'
<1>1. ASSUME mgr' = mgr PROVE ThreadsTyped'
  BY <1>1 DEF ThreadsTyped
<1>2. ASSUME NEW m \in Managers, NEW pc, NEW todo, NEW last,
             mgr' = [mgr EXCEPT ![m] = [pc |-> pc, todo |-> todo, last |-> last]]
      PROVE  ThreadsTyped'
  BY <1>2 DEF ThreadsTyped, ThreadOK
<1>3. ASSUME NEW m \in Managers, NEW todo, mgr' = [mgr EXCEPT ![m].todo = todo]
      PROVE  ThreadsTyped'
  BY <1>3 DEF ThreadsTyped, ThreadOK
<1>4. ASSUME NEW m \in Managers, NEW pc, mgr' = [mgr EXCEPT ![m].pc = pc]
      PROVE  ThreadsTyped'
  BY <1>4 DEF ThreadsTyped, ThreadOK
<1>5. ASSUME NEW m \in Managers, NEW pc, NEW todo,
             mgr' = [mgr EXCEPT ![m].pc = pc, ![m].todo = todo]
      PROVE  ThreadsTyped'
  BY <1>5 DEF ThreadsTyped, ThreadOK
<1>6. "main" \in Managers
  BY DEF Managers
<1>7. ASSUME NEW m \in Managers, ManagerStep(m) PROVE ThreadsTyped'
  <2>1. CASE Select(m)
    BY <1>2, <2>1 DEF Select
  <2>2. CASE BeginClose(m)
    BY <1>5, <2>2 DEF BeginClose
  <2>3. CASE EndPoll(m) \/ StartThread(m)
    BY <1>4, <2>3 DEF EndPoll, StartThread
  <2>4. ASSUME NEW e \in EndsOf(m), Read(m, e) \/ Write(m, e) PROVE ThreadsTyped'
    <3>1. \E io : mgr' = [mgr EXCEPT ![m].todo = @ \ {Item(e, io)}]
      BY <2>4 DEF Read, Write, Handling
    <3>2. QED
      BY <1>3, <3>1
  <2>5. ASSUME NEW e \in EndsOf(m), Close(m, e) PROVE ThreadsTyped'
    BY <1>3, <2>5 DEF Close
  <2>6. ASSUME NEW c \in Clients, Accept(c) PROVE ThreadsTyped'
    BY <1>3, <1>6, <2>6 DEF Accept
  <2>7. CASE FreeListener
    BY <1>4, <1>6, <2>7 DEF FreeListener
  <2>8. ASSUME NEW e \in EndsOf(m), Free(e) PROVE ThreadsTyped'
    BY <1>1, <2>8 DEF Free
  <2>9. QED
    BY <1>7, <2>1, <2>2, <2>3, <2>4, <2>5, <2>6, <2>7, <2>8 DEF ManagerStep
<1>8. ASSUME NEW c \in Clients,
             Connect(c) \/ Leave(c) \/ BrowserStep(c) \/ \E kind \in Kinds : Ask(c, kind)
      PROVE  ThreadsTyped'
  BY <1>1, <1>8 DEF Connect, Leave, BrowserStep, AskRest, Receive, SeeEnd, Ask
<1>9. CASE Stop \/ UNCHANGED vars
  BY <1>1, <1>9 DEF Stop, vars
<1>10. QED
  BY <1>7, <1>8, <1>9 DEF Next

\* What is sent is messages.
LEMMA SentTypes ==
    ASSUME ExchInv, NEW e \in Ends, NEW parts \in Seq(Msg), Sent(e, parts)
    PROVE  wire' \in [Ends -> Seq(Msg)] /\ toBrowser' \in [Clients -> Seq(Msg)]
<1>1. wire \in [Ends -> Seq(Msg)] /\ toBrowser \in [Clients -> Seq(Msg)]
  BY DEF ExchInv, Typed
<1>2. \A s \in Seq(Msg) : s \o parts \in Seq(Msg)
  BY ConcatEmpty
<1>3. e[1] \in Clients /\ Other(e) \in Ends
  BY ClientOf, EndsOfClient DEF Other, Ends
<1>4. toBrowser[e[1]] \o parts \in Seq(Msg) /\ wire[Other(e)] \o parts \in Seq(Msg)
  BY <1>1, <1>2, <1>3
<1> DEFINE t == toBrowser[e[1]] \o parts
           w == wire[Other(e)] \o parts
<1>5. /\ wire' = wire \/ wire' = [wire EXCEPT ![Other(e)] = w]
      /\ toBrowser' = toBrowser \/ toBrowser' = [toBrowser EXCEPT ![e[1]] = t]
  BY DEF Sent
<1>6. t \in Seq(Msg) /\ w \in Seq(Msg)
  BY <1>4
<1> HIDE DEF t, w
<1>7. QED
  BY <1>1, <1>3, <1>5, <1>6

\* What a browser sends are messages.
LEMMA ArrivesTypes ==
    ASSUME ExchInv, NEW c \in Clients, NEW p \in Msg, Arrives(c, p)
    PROVE  wire' \in [Ends -> Seq(Msg)]
<1>1. wire \in [Ends -> Seq(Msg)] /\ NC(c) \in Ends
  BY EndsOfClient DEF ExchInv, Typed
<1>2. \A s \in Seq(Msg) : Append(s, p) \in Seq(Msg)
  BY AppendTo
<1>3. QED
  BY <1>1, <1>2 DEF Arrives, NC

\* Managers keep the types of wires and browsers.
LEMMA ManagersTypes ==
    ASSUME ExchInv, IInv, NEW m \in Managers, ManagerStep(m)
    PROVE  OthersTyped'
<1>1. /\ threaded \in BOOLEAN /\ running \in BOOLEAN
      /\ wire \in [Ends -> Seq(Msg)] /\ toBrowser \in [Clients -> Seq(Msg)]
      /\ browser = [c \in Clients |-> browser[c]]
      /\ \A c \in Clients : BrowserOK(browser[c])
  BY DEF ExchInv, Typed
<1>2. ASSUME threaded' = threaded, running' = running, browser' = browser,
             wire' \in [Ends -> Seq(Msg)], toBrowser' \in [Clients -> Seq(Msg)]
      PROVE  OthersTyped'
  BY <1>1, <1>2 DEF OthersTyped
<1>3. CASE Select(m) \/ BeginClose(m) \/ EndPoll(m) \/ FreeListener \/ StartThread(m)
  BY <1>1, <1>2, <1>3 DEF Select, BeginClose, EndPoll, FreeListener, StartThread
<1>4. <<>> \in Seq(Msg)
  BY EmptySeq
<1>5. ASSUME NEW e \in EndsOf(m), Read(m, e) PROVE OthersTyped'
  BY <1>1, <1>2, <1>4, <1>5 DEF Read
<1>6. ASSUME NEW e \in EndsOf(m), Write(m, e) PROVE OthersTyped'
  <2>1. e \in Ends /\ conn[e].send \in Seq(Msg)
    BY DEF EndsOf, ExchInv, Typed, BuffersOK
  <2>2. \/ wire' = wire /\ toBrowser' = toBrowser
        \/ \E n \in 1 .. Len(conn[e].send) : Sent(e, SubSeq(conn[e].send, 1, n))
    BY <1>6 DEF Write
  <2>3. \A n \in 1 .. Len(conn[e].send) : SubSeq(conn[e].send, 1, n) \in Seq(Msg)
    BY <2>1, MoveSome
  <2>4. wire' \in [Ends -> Seq(Msg)] /\ toBrowser' \in [Clients -> Seq(Msg)]
    BY <1>1, <2>1, <2>2, <2>3, SentTypes
  <2>5. QED
    BY <1>2, <1>6, <2>4 DEF Write
<1>7. ASSUME NEW e \in EndsOf(m), Close(m, e) PROVE OthersTyped'
  BY <1>1, <1>2, <1>4, <1>7 DEF Close, Closed
<1>8. ASSUME NEW e \in EndsOf(m), Free(e) PROVE OthersTyped'
  BY <1>1, <1>2, <1>4, <1>8 DEF Free, Closed
<1>9. ASSUME NEW c \in Clients, Accept(c) PROVE OthersTyped'
  BY <1>1, <1>2, <1>9 DEF Accept
<1>10. QED
  BY <1>3, <1>5, <1>6, <1>7, <1>8, <1>9 DEF ManagerStep

\* So do browsers.
LEMMA BrowsersTypes ==
    ASSUME ExchInv, IInv, NEW c \in Clients,
           Connect(c) \/ Leave(c) \/ BrowserStep(c) \/ \E kind \in Kinds : Ask(c, kind)
    PROVE  OthersTyped'
<1> DEFINE b == browser[c]
           d == browser'[c]
<1>1. /\ threaded \in BOOLEAN /\ running \in BOOLEAN
      /\ wire \in [Ends -> Seq(Msg)] /\ toBrowser \in [Clients -> Seq(Msg)]
      /\ browser = [x \in Clients |-> browser[x]]
      /\ \A x \in Clients : BrowserOK(browser[x])
  BY DEF ExchInv, Typed
<1>2. threaded' = threaded /\ running' = running
  BY DEF Connect, Leave, BrowserStep, AskRest, Receive, SeeEnd, Ask
<1>3. BrowserOK(b)
  BY <1>1
<1>4. ASSUME NEW dn, BrowserOK(dn), browser' = [browser EXCEPT ![c] = dn],
             wire' \in [Ends -> Seq(Msg)], toBrowser' \in [Clients -> Seq(Msg)]
      PROVE  OthersTyped'
  BY <1>1, <1>2, <1>4 DEF OthersTyped
<1>5. ASSUME NEW pc PROVE BrowserOK([b EXCEPT !.pc = pc])
  BY <1>3 DEF BrowserOK
<1>6. <<>> \in Seq(Msg)
  BY EmptySeq
<1>7. CASE Connect(c) \/ Leave(c) \/ SeeEnd(c)
  <2>1. \E pc : browser' = [browser EXCEPT ![c].pc = pc]
    BY <1>7 DEF Connect, Leave, SeeEnd
  <2>2. \E pc : browser' = [browser EXCEPT ![c] = [b EXCEPT !.pc = pc]]
    BY <2>1
  <2>3. wire' \in [Ends -> Seq(Msg)] /\ toBrowser' \in [Clients -> Seq(Msg)]
    BY <1>1, <1>6, <1>7 DEF Connect, Leave, SeeEnd
  <2>4. QED
    BY <1>4, <1>5, <2>2, <2>3
<1>8. CASE AskRest(c)
  <2> DEFINE dn == [b EXCEPT !.sent = 2]
             p == [req |-> Asked(c), kind |-> LastKind(c)]
  <2>1. browser' = [browser EXCEPT ![c] = dn] /\ b.sent = 1 /\ Arrives(c, p)
        /\ toBrowser' = toBrowser
    BY <1>8 DEF AskRest
  <2>2. b.asked # <<>> /\ b.asked \in Seq(Kinds)
    BY <1>3, <2>1 DEF BrowserOK
  <2>3. p \in Msg
    BY <2>2, Limits DEF Msg, Asked, LastKind
  <2>4. BrowserOK(dn)
    BY <1>3, <2>2 DEF BrowserOK
  <2> HIDE DEF p, dn
  <2>5. wire' \in [Ends -> Seq(Msg)]
    BY <2>1, <2>3, ArrivesTypes
  <2>6. QED
    BY <1>1, <1>4, <2>1, <2>4, <2>5
<1>9. CASE Receive(c)
  <2> DEFINE t == toBrowser[c]
             dn == [b EXCEPT !.got = Append(@, Head(t))]
  <2>1. /\ t # <<>> /\ browser' = [browser EXCEPT ![c] = dn] /\ wire' = wire
        /\ toBrowser' = [toBrowser EXCEPT ![c] = Tail(t)]
    BY <1>9 DEF Receive
  <2>2. b.got \in Seq(Msg) /\ t \in Seq(Msg)
    BY <1>1, <1>3 DEF BrowserOK
  <2>3. Append(b.got, Head(t)) \in Seq(Msg) /\ Tail(t) \in Seq(Msg)
    BY <2>1, <2>2, MoveFirst
  <2>4. BrowserOK(dn)
    BY <1>3, <2>3 DEF BrowserOK
  <2>5. toBrowser' \in [Clients -> Seq(Msg)]
    BY <1>1, <2>1, <2>3
  <2> HIDE DEF dn
  <2>6. QED
    BY <1>1, <1>4, <2>1, <2>4, <2>5
<1>10. ASSUME NEW kind \in Kinds, Ask(c, kind) PROVE OthersTyped'
  <2> DEFINE dn == [b EXCEPT !.asked = Append(@, kind), !.sent = 1, !.got = <<>>]
             p == [req |-> Asked(c) + 1, kind |-> kind]
  <2>1. /\ browser' = [browser EXCEPT ![c].asked = Append(@, kind), ![c].sent = 1,
                                      ![c].got = <<>>]
        /\ Arrives(c, p) /\ toBrowser' = toBrowser
    BY <1>10 DEF Ask
  <2>2. browser' = [browser EXCEPT ![c] = dn]
    BY <1>1, <2>1
  <2>3. b.asked \in Seq(Kinds)
    BY <1>3 DEF BrowserOK
  <2>4. p \in Msg
    BY <2>3, LenProperties DEF Msg, Asked
  <2>5. Append(b.asked, kind) \in Seq(Kinds) /\ Append(b.asked, kind) # <<>>
    BY <2>3, AppendProperties
  <2>6. BrowserOK(dn)
    <3> DEFINE asked == Append(b.asked, kind)
    <3>1. dn = [b EXCEPT !.asked = asked, !.sent = 1, !.got = <<>>]
      OBVIOUS
    <3>2. asked \in Seq(Kinds) /\ asked # <<>>
      BY <2>5
    <3> HIDE DEF asked, dn
    <3>3. /\ dn = [field \in DOMAIN dn |-> dn[field]]
          /\ DOMAIN dn = {"pc", "asked", "sent", "got"}
          /\ dn.asked = asked /\ dn.sent = 1 /\ dn.got = <<>>
      BY <1>3, <3>1 DEF BrowserOK
    <3>4. QED
      BY <1>6, <3>2, <3>3 DEF BrowserOK
  <2> HIDE DEF p, dn
  <2>7. wire' \in [Ends -> Seq(Msg)]
    BY <2>1, <2>4, ArrivesTypes
  <2>8. QED
    BY <1>1, <1>4, <2>1, <2>2, <2>6, <2>7
<1>11. QED
  BY <1>7, <1>8, <1>9, <1>10 DEF BrowserStep

\* So does every step.
LEMMA TypesKept ==
    ASSUME ExchInv, IInv, [Next]_vars
    PROVE  OthersTyped'
<1>1. CASE Stop \/ UNCHANGED vars
  BY <1>1 DEF Stop, vars, ExchInv, Typed, OthersTyped
<1>2. QED
  BY <1>1, ManagersTypes, BrowsersTypes DEF Next

-----------------------------------------------------------------------------
(* Connections and lists.                                                  *)

\* Connections that are kept stay in their lists.
LEMMA KeptConns ==
    ASSUME ExchInv, list' = list, \A e \in Ends : Kept(conn[e], conn'[e])
    PROVE  ConnsThere' /\ ListsThere'
BY KeptThere, SameLists DEF Kept

\* Without a change of connections there is none.
LEMMA IdleConns ==
    ASSUME ExchInv, list' = list, conn' = conn
    PROVE  ConnsThere' /\ ListsThere'
BY KeptConns, KeptSame

\* Every step of a manager keeps them.
LEMMA ManagersConns ==
    ASSUME ExchInv, IInv, NEW m \in Managers, ManagerStep(m)
    PROVE  ConnsThere' /\ ListsThere'
<1>1. CASE Select(m) \/ BeginClose(m) \/ EndPoll(m) \/ StartThread(m) \/ FreeListener
  BY <1>1, IdleConns DEF Select, BeginClose, EndPoll, StartThread, FreeListener
<1>2. ASSUME NEW e \in EndsOf(m), Read(m, e) PROVE ConnsThere' /\ ListsThere'
  BY <1>2, ReadKept, KeptConns DEF EndsOf, Read
<1>3. ASSUME NEW e \in EndsOf(m), Write(m, e) PROVE ConnsThere' /\ ListsThere'
  BY <1>3, WriteKept, KeptConns DEF EndsOf, Write
<1>4. ASSUME NEW e \in EndsOf(m), Close(m, e) PROVE ConnsThere' /\ ListsThere'
  <2>1. CASE ToClose(e)
    BY <1>4, <2>1, CloseDestroys, DestroyThere, DestroyLists DEF EndsOf
  <2>2. CASE ~ToClose(e)
    BY <1>4, <2>2, IdleConns DEF Close
  <2>3. QED
    BY <2>1, <2>2
<1>5. ASSUME NEW e \in EndsOf(m), Free(e) PROVE ConnsThere' /\ ListsThere'
  BY <1>5, FreeDestroys, DestroyThere, DestroyLists DEF EndsOf, Managers
<1>6. ASSUME NEW c \in Clients, Accept(c) PROVE ConnsThere' /\ ListsThere'
  BY <1>6, AcceptThere, AcceptLists
<1>7. QED
  BY <1>1, <1>2, <1>3, <1>4, <1>5, <1>6 DEF ManagerStep

\* So does every step.
LEMMA ConnsKept ==
    ASSUME ExchInv, IInv, [Next]_vars
    PROVE  ConnsThere' /\ ListsThere'
<1>1. CASE Stop \/ UNCHANGED vars
  BY <1>1, IdleConns DEF Stop, vars
<1>2. ASSUME NEW c \in Clients,
             Connect(c) \/ Leave(c) \/ BrowserStep(c) \/ \E kind \in Kinds : Ask(c, kind)
      PROVE  ConnsThere' /\ ListsThere'
  BY <1>2, IdleConns DEF Connect, Leave, BrowserStep, AskRest, Receive, SeeEnd, Ask
<1>3. QED
  BY <1>1, <1>2, ManagersConns DEF Next

-----------------------------------------------------------------------------
(* What is to be handled.                                                  *)

ItemThere(m, x) ==
    \/ x = Listener
    \/ /\ x = Item(x.end, x.io) /\ x.end \in Range(list[m])
       /\ x.io = "write" => conn[x.end].send # <<>>

\* A manager has nothing new to do, and what it had is there.
LEMMA TodoShrinks ==
    ASSUME ExchInv, running' => running,
           \A m \in Managers : mgr'[m].pc = "handle" =>
              /\ mgr[m].pc = "handle"
              /\ \A x \in mgr'[m].todo :
                    /\ x \in mgr[m].todo
                    /\ ItemThere(m, x) => ItemThere(m, x)',
           mgr'["main"].last \/ mgr'["main"].pc = "free" =>
              mgr["main"].last \/ mgr["main"].pc = "free" \/ ~running'
    PROVE  TodoThere'
BY DEF ExchInv, TodoThere, ItemThere

\* Items are told apart by their ends and by what they are about.
LEMMA ItemsDiffer ==
    ASSUME NEW e, NEW io
    PROVE  Item(e, io).end = e /\ Item(e, io).io = io
BY DEF Item

\* To read takes nothing away that another connection has to send.
LEMMA ReadTodo ==
    ASSUME ExchInv, IInv, NEW m \in Managers, NEW e \in Ends, Read(m, e)
    PROVE  TodoThere'
<1>1. /\ mgr' = [mgr EXCEPT ![m].todo = @ \ {Item(e, "read")}]
      /\ list' = list /\ running' = running
  BY DEF Read, Handling
<1>2. \A y \in Managers : /\ mgr'[y].pc = mgr[y].pc /\ mgr'[y].todo \subseteq mgr[y].todo
                          /\ mgr'[y].last = mgr[y].last
  BY <1>1 DEF ExchInv, Typed, ThreadOK
<1>3. \A x \in Ends : conn[x].send # <<>> => conn'[x].send # <<>>
  BY ReadKept
<1>4. \A y \in Managers : Range(list[y]) \subseteq Ends
  BY InList
<1>5. \A y \in Managers : \A x : ItemThere(y, x) => ItemThere(y, x)'
  BY <1>1, <1>3, <1>4 DEF ItemThere
<1>6. "main" \in Managers
  BY DEF Managers
<1>7. QED
  BY <1>1, <1>2, <1>5, <1>6, TodoShrinks

\* What is written of a connection is no longer to be handled.
LEMMA WriteTodo ==
    ASSUME ExchInv, IInv, NEW m \in Managers, NEW e \in Ends, Write(m, e)
    PROVE  TodoThere'
<1>1. /\ mgr' = [mgr EXCEPT ![m].todo = @ \ {Item(e, "write")}]
      /\ list' = list /\ running' = running
  BY DEF Write, Handling
<1>2. /\ \A y \in Managers : /\ mgr'[y].pc = mgr[y].pc /\ mgr'[y].todo \subseteq mgr[y].todo
                             /\ mgr'[y].last = mgr[y].last
      /\ Item(e, "write") \notin mgr'[m].todo
  BY <1>1 DEF ExchInv, Typed, ThreadOK
<1>3. \A x \in Ends : x # e => conn'[x] = conn[x]
  BY WriteKept
<1>4. \A y \in Managers : /\ Range(list[y]) \subseteq Ends
                          /\ e \in Range(list[y]) => y = m
  <2>1. ManagerOf(e) = m
    BY HandlingThere, InList DEF Write
  <2>2. QED
    BY <2>1, InList
<1>5. ASSUME NEW y \in Managers, NEW x \in mgr'[y].todo, ItemThere(y, x)
      PROVE  ItemThere(y, x)'
  <2>1. CASE x = Listener
    BY <2>1 DEF ItemThere
  <2>2. CASE x # Listener
    <3>1. /\ x = Item(x.end, x.io) /\ x.end \in Range(list[y])
          /\ x.io = "write" => conn[x.end].send # <<>>
      BY <1>5, <2>2 DEF ItemThere
    <3>2. x.end = e => x.io # "write"
      BY <1>2, <1>4, <3>1
    <3>3. x.io = "write" => conn'[x.end].send # <<>>
      BY <1>3, <1>4, <3>1, <3>2
    <3>4. QED
      BY <1>1, <3>1, <3>3 DEF ItemThere
  <2>3. QED
    BY <2>1, <2>2
<1>6. "main" \in Managers
  BY DEF Managers
<1>7. QED
  BY <1>1, <1>2, <1>5, <1>6, TodoShrinks

\* The end that is destroyed is one of the manager that has handled all.
LEMMA DestroyTodo ==
    ASSUME ExchInv, IInv, NEW m \in Managers, NEW e \in Range(list[m]), Destroys(m, e),
           mgr[m].pc # "handle", NEW todo, mgr' = mgr \/ mgr' = [mgr EXCEPT ![m].todo = todo]
    PROVE  TodoThere'
<1>1. e \in Ends /\ ManagerOf(e) = m
  BY InList
<1>2. /\ list' = [list EXCEPT ![m] = RemoveFirst(@, e)] /\ running' = running
  BY DEF Destroys, Closed
<1>3. /\ \A y \in Managers : /\ mgr'[y].pc = mgr[y].pc
                             /\ mgr'[y].pc = "handle" => y # m /\ mgr'[y].todo = mgr[y].todo
      /\ mgr'["main"].last = mgr["main"].last
  <2>1. /\ mgr = [y \in Managers |-> mgr[y]] /\ "main" \in Managers
        /\ \A y \in Managers : ThreadOK(mgr[y])
    BY DEF ExchInv, Typed, Managers
  <2>2. CASE mgr' = mgr
    BY <2>1, <2>2
  <2>3. CASE mgr' = [mgr EXCEPT ![m].todo = todo]
    <3>1. mgr'[m] = [mgr[m] EXCEPT !.todo = todo] /\ \A y \in Managers : y # m => mgr'[y] = mgr[y]
      BY <2>1, <2>3
    <3>2. mgr'[m].pc = mgr[m].pc /\ mgr'[m].last = mgr[m].last
      BY <2>1, <3>1 DEF ThreadOK
    <3>3. QED
      BY <2>1, <3>1, <3>2
  <2>4. QED
    BY <2>2, <2>3
<1>4. \A y \in Managers : y # m => list'[y] = list[y]
  BY <1>2 DEF ExchInv, Typed
<1>5. \A x \in Ends : x # e => conn'[x].send = conn[x].send
  <2>1. Destroyed(e)
    BY <1>1, DestroyedEnd DEF Destroys
  <2>2. conn[e].peer # None => conn[e].peer = Mate(e)
    BY <1>1 DEF IInv, LinksAlive
  <2>3. \A y \in Ends : y # None
    BY MeerkatAssumption DEF Ends
  <2>4. QED
    BY <2>1, <2>2, <2>3 DEF Destroyed
<1>6. ASSUME NEW y \in Managers, y # m, NEW x, ItemThere(y, x)
      PROVE  ItemThere(y, x)'
  <2>1. \A z \in Range(list[y]) : z \in Ends /\ z # e
    BY <1>1, <1>6, InList
  <2>2. QED
    BY <1>4, <1>5, <1>6, <2>1 DEF ItemThere
<1>7. "main" \in Managers
  BY DEF Managers
<1>8. QED
  BY <1>2, <1>3, <1>6, <1>7, TodoShrinks

\* select reports what is there.
LEMMA SelectTodo ==
    ASSUME ExchInv, NEW m \in Managers, Select(m)
    PROVE  TodoThere'
<1>1. /\ mgr' = [mgr EXCEPT ![m] = [pc |-> "handle", todo |-> Ready(m),
                                    last |-> m = "main" /\ ~running]]
      /\ list' = list /\ conn' = conn /\ running' = running
  BY DEF Select
<1>2. /\ mgr'[m] = [pc |-> "handle", todo |-> Ready(m), last |-> m = "main" /\ ~running]
      /\ \A y \in Managers : y # m => mgr'[y] = mgr[y]
  BY <1>1 DEF ExchInv, Typed
<1>3. ASSUME NEW x \in Ready(m) PROVE ItemThere(m, x)
  <2>1. CASE x = Listener
    BY <2>1 DEF ItemThere
  <2>2. CASE x # Listener
    <3>1. PICK e \in Range(list[m]), io \in {"read", "write"} :
             x = Item(e, io) /\ (io = "write" => conn[e].send # <<>>)
      BY <2>2 DEF Ready
    <3>2. QED
      BY <3>1, ItemsDiffer DEF ItemThere
  <2>3. QED
    BY <2>1, <2>2
<1>4. ASSUME NEW y \in Managers, mgr'[y].pc = "handle", NEW x \in mgr'[y].todo
      PROVE  ItemThere(y, x)
  <2>1. CASE y = m
    BY <1>2, <1>3, <1>4, <2>1
  <2>2. CASE y # m
    BY <1>2, <1>4, <2>2 DEF ExchInv, TodoThere, ItemThere
  <2>3. QED
    BY <2>1, <2>2
<1>5. mgr'["main"].last \/ mgr'["main"].pc = "free" => ~running
  <2>1. "main" \in Managers
    BY DEF Managers
  <2>2. CASE m = "main"
    <3>1. mgr'["main"].pc = "handle"
      BY <1>2, <2>2
    <3>2. mgr'["main"].last = (m = "main" /\ ~running)
      BY <1>2, <2>2
    <3>3. mgr'["main"].last => ~running
      BY <3>2, Zenon
    <3>4. QED
      BY <3>1, <3>3
  <2>3. CASE m # "main"
    BY <1>2, <2>1, <2>3 DEF ExchInv, TodoThere
  <2>4. QED
    BY <2>2, <2>3
<1>6. QED
  BY <1>1, <1>4, <1>5 DEF TodoThere, ItemThere

\* Connections that are made have been in no list.
LEMMA AcceptTodo ==
    ASSUME ExchInv, IInv, NEW c \in Clients, Accept(c)
    PROVE  TodoThere'
<1>1. c \in backlog /\ ~conn[NC(c)].alive /\ ~conn[C0(c)].alive /\ ~conn[C1(c)].alive
  <2>1. c \in backlog
    BY DEF Accept
  <2>2. ~Gone.alive
    BY DEF Gone
  <2>3. Unaccepted(c)
    BY DEF ExchInv
  <2>4. QED
    BY <2>1, <2>2, <2>3 DEF Unaccepted
<1>2. /\ mgr' = [mgr EXCEPT !["main"].todo = {}] /\ running' = running
      /\ \A y \in Managers : y # "main" /\ y # c => list'[y] = list[y]
  BY DEF Accept, ExchInv, Typed
<1>3. /\ \A y \in Managers : mgr'[y].pc = mgr[y].pc /\ mgr'[y].last = mgr[y].last
      /\ \A y \in Managers : y # "main" => mgr'[y].todo = mgr[y].todo
      /\ mgr'["main"].todo = {} /\ "main" \in Managers
  BY <1>2 DEF ExchInv, Typed, ThreadOK, Managers
<1>4. \A x \in Ends : x \notin {NC(c), C0(c), C1(c)} => conn'[x] = conn[x]
  BY EndsOfClient DEF Accept, IInv, ConnsOK, NC, C0, C1
<1>5. ASSUME NEW y \in Managers, y # "main", NEW x, ItemThere(y, x)
      PROVE  ItemThere(y, x)'
  <2>1. CASE x = Listener
    BY <2>1 DEF ItemThere
  <2>2. CASE x # Listener
    <3>1. /\ x = Item(x.end, x.io) /\ x.end \in Range(list[y])
          /\ x.io = "write" => conn[x.end].send # <<>>
      BY <1>5, <2>2 DEF ItemThere
    <3>2. x.end \in Ends /\ conn[x.end].alive /\ x.end \in EndsOf(y)
      BY <3>1, InList
    <3>3. x.end \notin {NC(c), C0(c), C1(c)}
      BY <1>1, <3>2
    <3>4. y # c
      BY <3>2, <3>3, ManagersOfClient
    <3>5. QED
      BY <1>2, <1>4, <1>5, <3>1, <3>2, <3>3, <3>4 DEF ItemThere
  <2>3. QED
    BY <2>1, <2>2
<1>6. QED
  BY <1>2, <1>3, <1>5, TodoShrinks

\* Managers that go on, close and end their polls.
LEMMA ManagersTodo ==
    ASSUME ExchInv, IInv, NEW m \in Managers, ManagerStep(m)
    PROVE  TodoThere'
<1>1. /\ mgr = [y \in Managers |-> mgr[y]] /\ "main" \in Managers
      /\ \A y \in Managers : ThreadOK(mgr[y])
  BY DEF ExchInv, Typed, Managers
<1>2. ASSUME list' = list, conn' = conn, running' = running,
             NEW pc, pc # "handle", NEW todo,
             mgr' = [mgr EXCEPT ![m].pc = pc, ![m].todo = todo],
             m = "main" /\ pc = "free" => mgr[m].last \/ mgr[m].pc = "free"
      PROVE  TodoThere'
  <2>1. /\ mgr'[m] = [mgr[m] EXCEPT !.pc = pc, !.todo = todo]
        /\ \A y \in Managers : y # m => mgr'[y] = mgr[y]
    BY <1>1, <1>2
  <2>2. mgr'[m].pc = pc /\ mgr'[m].last = mgr[m].last
    BY <1>1, <2>1 DEF ThreadOK
  <2>3. \A y \in Managers : \A x : ItemThere(y, x) => ItemThere(y, x)'
    BY <1>2 DEF ItemThere
  <2>4. QED
    BY <1>1, <1>2, <2>1, <2>2, <2>3, TodoShrinks
<1>3. ASSUME list' = list, conn' = conn, running' = running,
             NEW pc, pc # "handle", mgr' = [mgr EXCEPT ![m].pc = pc],
             m = "main" /\ pc = "free" => mgr[m].last \/ mgr[m].pc = "free"
      PROVE  TodoThere'
  <2>1. mgr'[m] = [mgr[m] EXCEPT !.pc = pc] /\ \A y \in Managers : y # m => mgr'[y] = mgr[y]
    BY <1>1, <1>3
  <2>2. mgr'[m].pc = pc /\ mgr'[m].last = mgr[m].last
    BY <1>1, <2>1 DEF ThreadOK
  <2>3. \A y \in Managers : \A x : ItemThere(y, x) => ItemThere(y, x)'
    BY <1>3 DEF ItemThere
  <2>4. QED
    BY <1>1, <1>3, <2>1, <2>2, <2>3, TodoShrinks
<1>4. CASE Select(m)
  BY <1>4, SelectTodo
<1>5. CASE BeginClose(m)
  <2> DEFINE pc == "close"
             todo == Range(list[m])
  <2>1. /\ pc # "handle" /\ pc # "free" /\ mgr' = [mgr EXCEPT ![m].pc = pc, ![m].todo = todo]
        /\ list' = list /\ conn' = conn /\ running' = running
    BY <1>5 DEF BeginClose
  <2> HIDE DEF pc, todo
  <2>2. QED
    BY <1>2, <2>1
<1>6. CASE EndPoll(m)
  <2> DEFINE pc == IF mgr[m].last THEN "free"
                   ELSE IF m # "main" /\ list[m] = <<>> THEN "done" ELSE "select"
  <2>1. /\ pc # "handle" /\ mgr' = [mgr EXCEPT ![m].pc = pc]
        /\ list' = list /\ conn' = conn /\ running' = running
        /\ pc = "free" => mgr[m].last
    BY <1>6 DEF EndPoll
  <2> HIDE DEF pc
  <2>2. QED
    BY <1>3, <2>1
<1>7. CASE StartThread(m)
  BY <1>3, <1>7 DEF StartThread
<1>8. CASE m = "main" /\ FreeListener
  BY <1>3, <1>8 DEF FreeListener
<1>9. ASSUME NEW e \in EndsOf(m), Read(m, e) \/ Write(m, e) PROVE TodoThere'
  BY <1>9, ReadTodo, WriteTodo DEF EndsOf
<1>10. ASSUME NEW e \in EndsOf(m), Close(m, e) PROVE TodoThere'
  <2>1. /\ mgr[m].pc = "close" /\ mgr' = [mgr EXCEPT ![m].todo = @ \ {e}] /\ e \in Ends
    BY <1>10 DEF Close, EndsOf
  <2>2. CASE ToClose(e)
    BY <1>10, <2>1, <2>2, CloseDestroys, DestroyTodo
  <2>3. CASE ~ToClose(e)
    <3>1. list' = list /\ conn' = conn /\ running' = running
      BY <1>10, <2>3 DEF Close
    <3>2. /\ mgr'[m] = [mgr[m] EXCEPT !.todo = @ \ {e}]
          /\ \A y \in Managers : y # m => mgr'[y] = mgr[y]
      BY <1>1, <2>1
    <3>3. mgr'[m].pc = mgr[m].pc /\ mgr'[m].last = mgr[m].last
      BY <1>1, <3>2 DEF ThreadOK
    <3>4. \A y \in Managers : \A x : ItemThere(y, x) => ItemThere(y, x)'
      BY <3>1 DEF ItemThere
    <3>5. QED
      BY <1>1, <2>1, <3>1, <3>2, <3>3, <3>4, TodoShrinks
  <2>4. QED
    BY <2>2, <2>3
<1>11. ASSUME NEW e \in EndsOf("main"), Free(e) PROVE TodoThere'
  BY <1>1, <1>11, FreeDestroys, DestroyTodo DEF EndsOf, Free
<1>12. ASSUME NEW c \in Clients, Accept(c) PROVE TodoThere'
  BY <1>12, AcceptTodo
<1>13. QED
  BY <1>4, <1>5, <1>6, <1>7, <1>8, <1>9, <1>10, <1>11, <1>12 DEF ManagerStep

\* No step leaves a thing to be done that is not there.
LEMMA TodoKept ==
    ASSUME ExchInv, IInv, [Next]_vars
    PROVE  TodoThere'
<1>1. ASSUME mgr' = mgr, list' = list, conn' = conn, running' => running PROVE TodoThere'
  BY <1>1, TodoShrinks DEF ItemThere
<1>2. CASE Stop \/ UNCHANGED vars
  BY <1>1, <1>2 DEF Stop, vars
<1>3. ASSUME NEW c \in Clients,
             Connect(c) \/ Leave(c) \/ BrowserStep(c) \/ \E kind \in Kinds : Ask(c, kind)
      PROVE  TodoThere'
  BY <1>1, <1>3 DEF Connect, Leave, BrowserStep, AskRest, Receive, SeeEnd, Ask
<1>4. QED
  BY <1>2, <1>3, ManagersTodo DEF Next

-----------------------------------------------------------------------------
(* A connection that has sent all before it is closed.                     *)

Spent(cn) == cn.flags = {"send and close"} /\ cn.send = <<>>

\* Its manager reads it no more.
Watched(e, t) ==
    \/ t.pc = "handle" /\ Item(e, "read") \notin t.todo
    \/ t.pc = "close" /\ e \in t.todo

\* Nobody is linked with the end that serves a client.
LEMMA HttpAlone ==
    ASSUME IInv, NEW c \in Clients
    PROVE  /\ HttpEnd(c) \in Ends /\ HttpEnd(c) # None /\ HttpEnd(c)[1] = c
           /\ HttpEnd(c) \in EndsOf(ManagerOf(HttpEnd(c)))
           /\ conn[HttpEnd(c)].peer = None /\ IsHttp(HttpEnd(c))
           /\ \A x \in Ends : conn[x].peer # HttpEnd(c)
           /\ ManagerOf(HttpEnd(c)) \in Managers
<1>1. HttpEnd(c) = C1(c) \/ (~threaded /\ HttpEnd(c) = NC(c))
  BY EndsOfClient
<1>2. ManagerOf(C1(c)) = c /\ ManagerOf(NC(c)) = "main"
  BY EndsOfClient DEF ManagerOf
<1>3. /\ HttpEnd(c) \in Ends /\ HttpEnd(c) # None /\ HttpEnd(c)[1] = c
      /\ HttpEnd(c) \in EndsOf(ManagerOf(HttpEnd(c)))
      /\ ManagerOf(HttpEnd(c)) \in Managers
  BY <1>1, <1>2, EndsOfClient, ManagersOfClient
<1>4. conn[HttpEnd(c)].peer = None
  BY <1>1, Linked
<1>5. IsHttp(HttpEnd(c))
  BY <1>3 DEF IsHttp
<1>6. \A x \in Ends : conn[x].peer # HttpEnd(c)
  BY <1>3, <1>4, MeerkatAssumption DEF IInv, LinksAlive, Ends
<1>7. QED
  BY <1>3, <1>4, <1>5, <1>6

\* A connection was spent before, or it is watched after.
LEMMA LeavesSame ==
    ASSUME ExchInv, NEW c \in Clients, threaded' = threaded,
           Spent(conn'[HttpEnd(c)]) =>
              \/ /\ Spent(conn[HttpEnd(c)])
                 /\ Watched(HttpEnd(c), mgr[ManagerOf(HttpEnd(c))]) =>
                       Watched(HttpEnd(c), mgr'[ManagerOf(HttpEnd(c))])
              \/ Watched(HttpEnd(c), mgr'[ManagerOf(HttpEnd(c))])
    PROVE  Leaves(c)'
<1> DEFINE e == HttpEnd(c)
           m == ManagerOf(e)
<1>1. HttpEnd(c)' = e
  BY DEF HttpEnd
<1>2. Spent(conn[e]) => Watched(e, mgr[m])
  BY DEF ExchInv, Leaves, Spent, Watched
<1>3. Spent(conn'[e]) => Watched(e, mgr'[m])
  BY <1>2
<1> HIDE DEF e
<1>4. QED
  BY <1>1, <1>3 DEF Leaves, Spent, Watched, ManagerOf

\* What is spent is alive, and its manager has it.
LEMMA SpentThere ==
    ASSUME ExchInv, IInv, NEW c \in Clients, Spent(conn[HttpEnd(c)])
    PROVE  /\ conn[HttpEnd(c)].alive
           /\ HttpEnd(c) \in Range(list[ManagerOf(HttpEnd(c))])
<1>1. Gone.flags # {"send and close"}
  BY DEF Gone
<1>2. conn[HttpEnd(c)].alive
  BY <1>1, HttpAlone DEF ExchInv, DeadQuiet, Spent
<1>3. QED
  BY <1>2, HttpAlone DEF ExchInv, Listed

\* A manager that neither handles nor closes, or is done with both.
LEMMA IdleLeaves ==
    ASSUME ExchInv, IInv, NEW c \in Clients, NEW m \in Managers, threaded' = threaded,
           conn' = conn, \A y \in Managers : y # m => mgr'[y] = mgr[y],
           mgr[m].pc \notin {"handle", "close"} \/ (mgr[m].pc = "close" /\ mgr[m].todo = {})
    PROVE  Leaves(c)'
<1>1. ManagerOf(HttpEnd(c)) \in Managers
  BY HttpAlone
<1>2. Watched(HttpEnd(c), mgr[ManagerOf(HttpEnd(c))]) => ManagerOf(HttpEnd(c)) # m
  BY DEF Watched
<1>3. QED
  BY <1>1, <1>2, LeavesSame

\* The close loop begins with all connections of the manager.
LEMMA BeginCloseLeaves ==
    ASSUME ExchInv, IInv, NEW c \in Clients, NEW m \in Managers, BeginClose(m)
    PROVE  Leaves(c)'
<1> DEFINE e == HttpEnd(c)
<1>1. /\ threaded' = threaded /\ conn' = conn
      /\ mgr' = [mgr EXCEPT ![m].pc = "close", ![m].todo = Range(list[m])]
  BY DEF BeginClose
<1>2. /\ mgr'[m].pc = "close" /\ mgr'[m].todo = Range(list[m])
      /\ \A y \in Managers : y # m => mgr'[y] = mgr[y]
  BY <1>1 DEF ExchInv, Typed, ThreadOK
<1>3. ManagerOf(e) \in Managers
  BY HttpAlone
<1>4. Spent(conn[e]) /\ ManagerOf(e) = m => Watched(e, mgr'[m])
  BY <1>2, SpentThere DEF Watched
<1>5. QED
  BY <1>1, <1>2, <1>3, <1>4, LeavesSame

\* A manager that handles takes things off its list of things to do.
LEMMA HandlesWatched ==
    ASSUME ExchInv, NEW e, NEW m \in Managers, NEW y \in Managers, mgr[m].pc = "handle", NEW x,
           mgr' = [mgr EXCEPT ![m].todo = @ \ {x}], Watched(e, mgr[y])
    PROVE  Watched(e, mgr'[y])
<1>1. /\ mgr'[m].pc = "handle" /\ mgr'[m].todo = mgr[m].todo \ {x}
      /\ y # m => mgr'[y] = mgr[y]
  BY DEF ExchInv, Typed, ThreadOK
<1>2. QED
  BY <1>1 DEF Watched

\* A connection that is written is not read again by that poll.
LEMMA WriteLeaves ==
    ASSUME ExchInv, IInv, NEW c \in Clients, NEW m \in Managers, NEW x \in Ends, Write(m, x)
    PROVE  Leaves(c)'
<1> DEFINE e == HttpEnd(c)
<1>1. /\ threaded' = threaded /\ mgr[m].pc = "handle" /\ Item(x, "read") \notin mgr[m].todo
      /\ mgr' = [mgr EXCEPT ![m].todo = @ \ {Item(x, "write")}]
      /\ x \in Range(list[m])
  BY HandlingThere DEF Write, Handling
<1>2. e \in Ends /\ ManagerOf(e) \in Managers
  BY HttpAlone
<1>3. CASE x = e
  <2>1. ManagerOf(e) = m
    BY <1>1, <1>3, InList
  <2>2. Watched(e, mgr[m])
    BY <1>1, <1>3 DEF Watched
  <2>3. Watched(e, mgr'[m])
    BY <1>1, <2>2, HandlesWatched
  <2>4. QED
    BY <1>1, <2>1, <2>3, LeavesSame
<1>4. CASE x # e
  <2>1. conn'[e] = conn[e]
    BY <1>2, <1>4, WriteKept
  <2>2. QED
    BY <1>1, <1>2, <2>1, HandlesWatched, LeavesSame
<1>5. QED
  BY <1>3, <1>4

\* A connection that is read has not been spent, and is not by that.
LEMMA ReadLeaves ==
    ASSUME ExchInv, IInv, NEW c \in Clients, NEW m \in Managers, NEW x \in Ends, Read(m, x)
    PROVE  Leaves(c)'
<1> DEFINE e == HttpEnd(c)
           gone == IF Hungup(x) THEN {"close"} ELSE {}
           cn == Received(x, wire[x])
<1>1. /\ threaded' = threaded /\ mgr[m].pc = "handle" /\ Item(x, "read") \in mgr[m].todo
      /\ mgr' = [mgr EXCEPT ![m].todo = @ \ {Item(x, "read")}]
      /\ x \in Range(list[m])
  BY HandlingThere DEF Read, Handling
<1>2. /\ e \in Ends /\ ManagerOf(e) \in Managers /\ conn[e].peer = None
      /\ conn[x].peer # e
  BY HttpAlone
<1>3. CASE x = e
  <2>1. conn' = [conn EXCEPT ![e] = [cn EXCEPT !.flags = @ \cup gone]]
    BY <1>2, <1>3 DEF Read
  <2>2. Grown(conn[e], cn)
    BY <1>2, <1>3, ReceivedGrows DEF ExchInv, Typed, IInv, ConnsOK
  <2> HIDE DEF cn
  <2>3. conn'[e] = [cn EXCEPT !.flags = @ \cup gone]
    BY <1>2, <2>1 DEF IInv, ConnsOK
  <2>4. conn'[e].send = cn.send /\ conn'[e].flags = cn.flags \cup gone
    BY <2>2, <2>3 DEF Grown, IsConn
  <2>5. "send and close" \notin gone
    OBVIOUS
  <2>6. Spent(conn'[e]) => Spent(conn[e])
    <3> SUFFICES ASSUME Spent(conn'[e]) PROVE Spent(conn[e])
      OBVIOUS
    <3>1. "send and close" \in cn.flags /\ cn.send = <<>> /\ cn.flags \subseteq {"send and close"}
      BY <2>4, <2>5 DEF Spent
    <3>2. "send and close" \in conn[e].flags /\ conn[e].flags \subseteq {"send and close"}
          /\ conn[e].send = <<>>
      BY <2>2, <3>1 DEF Grown
    <3>3. QED
      BY <3>2 DEF Spent
  <2>7. ~Watched(e, mgr[m])
    BY <1>1, <1>3 DEF Watched
  <2>8. ManagerOf(e) = m
    BY <1>1, <1>3, InList
  <2>9. QED
    BY <1>1, <2>6, <2>7, <2>8, LeavesSame
<1>4. CASE x # e
  <2>1. conn'[e] = conn[e]
    BY <1>2, <1>4 DEF Read, IInv, ConnsOK, LinksAlive
  <2>2. QED
    BY <1>1, <1>2, <2>1, HandlesWatched, LeavesSame
<1>5. QED
  BY <1>3, <1>4

\* A connection that is closed is not spent, and no other changes its flags.
LEMMA DestroyLeaves ==
    ASSUME ExchInv, IInv, NEW c \in Clients, NEW m \in Managers, NEW x \in Ends, Destroys(m, x),
           Watched(HttpEnd(c), mgr[ManagerOf(HttpEnd(c))]) /\ x # HttpEnd(c) =>
              Watched(HttpEnd(c), mgr'[ManagerOf(HttpEnd(c))])
    PROVE  Leaves(c)'
<1> DEFINE e == HttpEnd(c)
<1>1. Destroyed(x) /\ threaded' = threaded
  BY DestroyedEnd DEF Destroys
<1>2. e \in Ends /\ conn[x].peer # e
  BY HttpAlone
<1>3. CASE x = e
  <2>1. ~Spent(conn'[e])
    <3>1. ~Spent(Gone)
      BY DEF Gone, Spent
    <3>2. conn'[e] = Gone
      BY <1>1, <1>3 DEF Destroyed
    <3>3. QED
      BY <3>1, <3>2
  <2>2. QED
    BY <1>1, <2>1, LeavesSame
<1>4. CASE x # e
  <2>1. conn'[e] = conn[e]
    BY <1>1, <1>2, <1>4 DEF Destroyed
  <2>2. QED
    BY <1>1, <1>4, <2>1, LeavesSame
<1>5. QED
  BY <1>3, <1>4

\* The close loop does not go past a connection that is spent.
LEMMA CloseLeaves ==
    ASSUME ExchInv, IInv, NEW c \in Clients, NEW m \in Managers, NEW x \in Ends, Close(m, x)
    PROVE  Leaves(c)'
<1> DEFINE e == HttpEnd(c)
           M == ManagerOf(e)
<1>1. /\ mgr[m].pc = "close" /\ mgr' = [mgr EXCEPT ![m].todo = @ \ {x}]
      /\ threaded' = threaded
  BY DEF Close
<1>2. M \in Managers /\ e \in Ends
  BY HttpAlone
<1>3. /\ mgr'[m].pc = "close" /\ mgr'[m].todo = mgr[m].todo \ {x}
      /\ M # m => mgr'[M] = mgr[M]
  BY <1>1, <1>2 DEF ExchInv, Typed, ThreadOK
<1>4. Watched(e, mgr[M]) /\ x # e => Watched(e, mgr'[M])
  BY <1>1, <1>3 DEF Watched
<1>5. CASE ToClose(x)
  BY <1>4, <1>5, CloseDestroys, DestroyLeaves
<1>6. CASE ~ToClose(x)
  <2>1. conn' = conn
    BY <1>6 DEF Close
  <2>2. Spent(conn[e]) => x # e
    BY <1>6 DEF Spent, ToClose
  <2>3. QED
    BY <1>1, <1>4, <2>1, <2>2, LeavesSame
<1>7. QED
  BY <1>5, <1>6

\* A connection that is made has no flags.
LEMMA AcceptLeaves ==
    ASSUME ExchInv, IInv, NEW c \in Clients, NEW x \in Clients, Accept(x)
    PROVE  Leaves(c)'
<1> DEFINE e == HttpEnd(c)
           M == ManagerOf(e)
<1>1. /\ mgr["main"].pc = "handle" /\ mgr' = [mgr EXCEPT !["main"].todo = {}]
      /\ threaded' = threaded /\ mgr["main"].todo \ {Listener} = {}
  BY DEF Accept
<1>2. mgr' = [mgr EXCEPT !["main"].todo = @ \ {Listener}]
  BY <1>1
<1>3. M \in Managers /\ "main" \in Managers /\ e \in Ends /\ e[1] = c
  BY HttpAlone DEF Managers
<1>4. Watched(e, mgr[M]) => Watched(e, mgr'[M])
  BY <1>1, <1>2, <1>3, HandlesWatched
<1>5. CASE c = x
  <2>1. conn'[e] = Fresh
    <3>1. /\ NC(c) \in Ends /\ C1(c) \in Ends /\ C0(c) \in Ends /\ NC(c) # C1(c)
          /\ C0(c) # C1(c) /\ e = IF threaded THEN C1(c) ELSE NC(c)
      BY EndsOfClient
    <3>2. CASE threaded
      BY <1>5, <3>1, <3>2 DEF Accept, IInv, ConnsOK, NC, C0, C1
    <3>3. CASE ~threaded
      BY <1>5, <3>1, <3>3 DEF Accept, IInv, ConnsOK, NC, C0, C1
    <3>4. QED
      BY <3>2, <3>3
  <2>2. ~Spent(Fresh)
    BY DEF Spent, Fresh, Gone
  <2>3. QED
    BY <1>1, <2>1, <2>2, LeavesSame
<1>6. CASE c # x
  <2>1. conn'[e] = conn[e]
    BY <1>3, <1>6, EndsDiffer DEF Accept, IInv, ConnsOK, NC, C0, C1
  <2>2. QED
    BY <1>1, <1>4, <2>1, LeavesSame
<1>7. QED
  BY <1>5, <1>6

\* A connection is not read between its last write and its close.
LEMMA LeavesKept ==
    ASSUME ExchInv, IInv, [Next]_vars, NEW c \in Clients
    PROVE  Leaves(c)'
<1>1. ASSUME threaded' = threaded, conn' = conn, mgr' = mgr PROVE Leaves(c)'
  BY <1>1, LeavesSame
<1>2. CASE Stop \/ UNCHANGED vars
  BY <1>1, <1>2 DEF Stop, vars
<1>3. ASSUME NEW x \in Clients,
             Connect(x) \/ Leave(x) \/ BrowserStep(x) \/ \E kind \in Kinds : Ask(x, kind)
      PROVE  Leaves(c)'
  BY <1>1, <1>3 DEF Connect, Leave, BrowserStep, AskRest, Receive, SeeEnd, Ask
<1>4. ASSUME NEW m \in Managers, ManagerStep(m) PROVE Leaves(c)'
  <2>1. "main" \in Managers /\ mgr = [y \in Managers |-> mgr[y]]
    BY DEF Managers, ExchInv, Typed
  <2>2. CASE Select(m)
    <3>1. /\ threaded' = threaded /\ conn' = conn /\ mgr[m].pc = "select"
          /\ \A y \in Managers : y # m => mgr'[y] = mgr[y]
      BY <2>1, <2>2 DEF Select
    <3>2. QED
      BY <3>1, IdleLeaves
  <2>3. CASE StartThread(m)
    <3>1. /\ threaded' = threaded /\ conn' = conn /\ mgr[m].pc = "off"
          /\ \A y \in Managers : y # m => mgr'[y] = mgr[y]
      BY <2>1, <2>3 DEF StartThread
    <3>2. QED
      BY <3>1, IdleLeaves
  <2>4. CASE EndPoll(m)
    <3>1. /\ threaded' = threaded /\ conn' = conn /\ mgr[m].pc = "close" /\ mgr[m].todo = {}
          /\ \A y \in Managers : y # m => mgr'[y] = mgr[y]
      BY <2>1, <2>4 DEF EndPoll
    <3>2. QED
      BY <3>1, IdleLeaves
  <2>5. CASE FreeListener
    <3>1. /\ threaded' = threaded /\ conn' = conn /\ mgr["main"].pc = "free"
          /\ \A y \in Managers : y # "main" => mgr'[y] = mgr[y]
      BY <2>1, <2>5 DEF FreeListener
    <3>2. QED
      BY <2>1, <3>1, IdleLeaves
  <2>6. CASE BeginClose(m)
    BY <2>6, BeginCloseLeaves
  <2>7. ASSUME NEW e \in EndsOf(m), Read(m, e) \/ Write(m, e) \/ Close(m, e)
        PROVE  Leaves(c)'
    BY <2>7, ReadLeaves, WriteLeaves, CloseLeaves DEF EndsOf
  <2>8. ASSUME NEW e \in EndsOf(m), Free(e) PROVE Leaves(c)'
    <3>1. Destroys("main", e) /\ mgr' = mgr /\ e \in Ends
      BY <2>8, FreeDestroys DEF EndsOf, Free
    <3>2. QED
      BY <2>1, <3>1, DestroyLeaves
  <2>9. ASSUME NEW x \in Clients, Accept(x) PROVE Leaves(c)'
    BY <2>9, AcceptLeaves
  <2>10. QED
    BY <1>4, <2>2, <2>3, <2>4, <2>5, <2>6, <2>7, <2>8, <2>9 DEF ManagerStep
<1>5. QED
  BY <1>2, <1>3, <1>4 DEF Next

-----------------------------------------------------------------------------
(* The invariant.                                                          *)

\* The invariant holds at the start.
LEMMA ExchStarts == Init => ExchInv
<1> SUFFICES ASSUME Init PROVE ExchInv
  OBVIOUS
<1>1. /\ Gone.recv = <<>> /\ Gone.send = <<>> /\ Gone.file = None /\ Gone.flags = {}
      /\ Gone.peer = None /\ ~Gone.alive
  BY DEF Gone
<1>2. <<>> \in Seq(Msg) /\ <<>> \in Seq(Ends) /\ <<>> \in Seq(Kinds) /\ Range(<<>>) = {}
  BY DEF Range
<1>3. \A e \in Ends : conn[e] = Gone /\ wire[e] = <<>>
  BY DEF Init
<1>4. /\ running = TRUE /\ threaded \in BOOLEAN /\ backlog = {}
      /\ \A c \in Clients : /\ browser[c].pc = "new" /\ browser[c].asked = <<>>
                            /\ browser[c].sent = 0 /\ browser[c].got = <<>>
                            /\ BrowserOK(browser[c]) /\ toBrowser[c] = <<>>
  <2>1. ASSUME NEW c \in Clients
        PROVE  browser[c] = [pc |-> "new", asked |-> <<>>, sent |-> 0, got |-> <<>>]
    BY DEF Init
  <2>2. BrowserOK([pc |-> "new", asked |-> <<>>, sent |-> 0, got |-> <<>>])
    BY <1>2 DEF BrowserOK
  <2>3. running = TRUE /\ threaded \in BOOLEAN /\ backlog = {}
        /\ \A c \in Clients : toBrowser[c] = <<>>
    BY DEF Init
  <2>4. QED
    BY <2>1, <2>2, <2>3
<1>5. /\ \A m \in Managers : list[m] = <<>> /\ ThreadOK(mgr[m]) /\ mgr[m].todo = {}
                              /\ mgr[m].pc \in {"select", "off"}
      /\ mgr = [m \in Managers |-> mgr[m]]
  BY DEF Init, ThreadOK
<1>6. ~mgr["main"].last
  BY DEF Init, Managers
<1>7. Typed
  <2>1. \A e \in Ends : BuffersOK(conn[e])
    BY <1>1, <1>2, <1>3 DEF BuffersOK, Files
  <2>2. /\ wire \in [Ends -> Seq(Msg)] /\ toBrowser \in [Clients -> Seq(Msg)]
        /\ browser = [c \in Clients |-> browser[c]] /\ list \in [Managers -> Seq(Ends)]
    BY <1>2 DEF Init
  <2>3. QED
    BY <1>4, <1>5, <2>1, <2>2 DEF Typed
<1>8. DeadQuiet /\ LinkedStay
  BY <1>1, <1>3 DEF DeadQuiet, LinkedStay
<1>9. Listed
  BY <1>1, <1>2, <1>3, <1>5 DEF Listed, EndsOf
<1>10. TodoThere
  BY <1>5, <1>6 DEF TodoThere, Managers
<1>11. ASSUME NEW c \in Clients PROVE Exch(c) /\ Unaccepted(c) /\ Leaves(c)
  <2>1. HttpEnd(c) \in Ends /\ NC(c) \in Ends /\ C0(c) \in Ends /\ C1(c) \in Ends
    BY EndsOfClient
  <2>2. Exch(c)
    BY <1>4 DEF Exch
  <2>3. Unaccepted(c)
    BY <1>3, <1>4, <2>1 DEF Unaccepted
  <2>4. Leaves(c)
    BY <1>1, <1>3, <2>1 DEF Leaves
  <2>5. QED
    BY <2>2, <2>3, <2>4
<1>12. QED
  BY <1>7, <1>8, <1>9, <1>10, <1>11 DEF ExchInv

\* Every step keeps the invariant.
LEMMA ExchStays == ExchInv /\ IInv /\ [Next]_vars => ExchInv'
<1> SUFFICES ASSUME ExchInv, IInv, [Next]_vars PROVE ExchInv'
  OBVIOUS
<1>1. ConnsThere' /\ ListsThere' /\ OthersTyped' /\ TodoThere'
  BY ConnsKept, TypesKept, TodoKept
<1>2. ThreadsTyped'
  BY ThreadsTypes DEF ExchInv, Typed, ThreadsTyped
<1>3. \A c \in Clients : (Exch(c) /\ Unaccepted(c))'
  BY ExchKept
<1>4. \A c \in Clients : Leaves(c)'
  BY LeavesKept
<1>5. Typed' /\ DeadQuiet' /\ LinkedStay' /\ Listed'
  BY <1>1, <1>2 DEF ConnsThere, ListsThere, OthersTyped, ThreadsTyped, Typed
<1>6. QED
  BY <1>1, <1>3, <1>4, <1>5 DEF ExchInv

-----------------------------------------------------------------------------
(* The refinement.                                                         *)

\* The next part a browser gets is the next one of the answer it waits for.
LEMMA NextPart ==
    ASSUME ExchInv, NEW c \in Clients, Receive(c)
    PROVE  /\ Head(toBrowser[c]) = [req |-> Len(browser[c].asked),
                                    part |-> Len(browser[c].got) + 1]
           /\ Len(browser[c].got) < Limit(browser[c].asked)
<1> DEFINE b == browser[c]
           t == toBrowser[c]
           g == b.got
           s == conn[NC(c)].send
           w == wire[C0(c)] \o conn[C1(c)].send
<1>1. b.pc = "open" /\ t # <<>>
  BY DEF Receive
<1>2. /\ g \in Seq(Msg) /\ t \in Seq(Msg) /\ s \in Seq(Msg) /\ w \in Seq(Msg)
      /\ Limit(b.asked) \in Nat
  BY TypesOf, ConcatEmpty
<1>3. InOrder(b.asked, Stream(c))
  BY <1>1 DEF ExchInv, Exch
<1>4. Stream(c) = ((g \o t) \o s) \o w \/ Stream(c) = (g \o t) \o s
  BY DEF Stream
<1> HIDE DEF b, t, g, s, w
<1>5. g \o t \in Seq(Msg) /\ (g \o t) \o s \in Seq(Msg)
  BY <1>2, ConcatEmpty
<1>6. InOrder(b.asked, (g \o t) \o s)
  BY <1>2, <1>3, <1>4, <1>5, InOrderPrefix
<1>7. InOrder(b.asked, g \o t)
  BY <1>2, <1>5, <1>6, InOrderPrefix
<1> DEFINE h == Append(g, Head(t))
           r == Tail(t)
<1>8. h \in Seq(Msg) /\ r \in Seq(Msg) /\ h \o r = g \o t /\ Head(t) \in Msg
  BY <1>1, <1>2, MoveFirst, HeadTailProperties
<1>9. Len(h) = Len(g) + 1 /\ h[Len(g) + 1] = Head(t) /\ Len(g) \in Nat
  BY <1>2, <1>8, AppendProperties, LenProperties
<1> HIDE DEF h, r
<1>10. InOrder(b.asked, h)
  BY <1>2, <1>7, <1>8, InOrderPrefix
<1>11. /\ Len(g) + 1 <= Limit(b.asked) /\ Len(g) + 1 \in 1 .. Len(h)
       /\ h[Len(g) + 1] = [req |-> Len(b.asked), part |-> Len(g) + 1]
  BY <1>9, <1>10 DEF InOrder
<1>12. /\ Head(t) = [req |-> Len(b.asked), part |-> Len(g) + 1]
       /\ Len(g) < Limit(b.asked)
  BY <1>2, <1>9, <1>11
<1> USE DEF b, t, g
<1>13. QED
  BY <1>12

\* A browser that sees the end has all there was.
LEMMA EndSeen ==
    ASSUME ExchInv, NEW c \in Clients, SeeEnd(c), running
    PROVE  LET b == browser[c]
           IN  \/ ListsLast(b) /\ Len(b.got) = 2
               \/ CutOff(b.asked) /\ b.got = <<>>
<1>1. /\ browser[c].pc = "open" /\ toBrowser[c] = <<>>
      /\ c \notin backlog /\ ~conn[NC(c)].alive
  BY DEF SeeEnd, NC
<1>2. conn[NC(c)] = Gone
  BY <1>1, EndsOfClient DEF ExchInv, DeadQuiet
<1>3. ~Reaches(c) /\ Doomed(c)
  BY <1>1 DEF ExchInv, Exch, Reaches
<1>4. Stream(c) = (browser[c].got \o <<>>) \o <<>>
  BY <1>1, <1>2 DEF Stream, Gone
<1>5. Stream(c) = browser[c].got
  <2>1. browser[c].got \o <<>> = browser[c].got
    BY TypesOf, NoneAdded
  <2>2. QED
    BY <1>4, <2>1
<1>6. QED
  BY <1>3, <1>5 DEF Doomed, EndsAll, EndedBefore

\* Whether a browser has the whole answer is the same for both.
LEMMA AnsweredIs ==
    ASSUME ExchInv, NEW c \in Clients
    PROVE  Exchanges!Answered(c) <=> Len(browser[c].got) = Limit(browser[c].asked)
BY DEF Exchanges!Answered, Exchanges!Last, Limit

\* The state the browsers see starts as that of Exchange does.
LEMMA ExchangeStarts == Init => Exchanges!Init
BY DEF Init, Exchanges!Init

\* A step that changes no browser is none of Exchange.
LEMMA ExchangeStutters ==
    ASSUME browser' = browser, running' = running
    PROVE  UNCHANGED Exchanges!vars
BY DEF Exchanges!vars

\* A record of a browser that changes in some field changes what is seen of
\* that field.
LEMMA Seen ==
    ASSUME ExchInv, NEW c \in Clients, NEW d, browser' = [browser EXCEPT ![c] = d]
    PROVE  /\ [x \in Clients |-> browser'[x].asked] =
                 [[x \in Clients |-> browser[x].asked] EXCEPT ![c] = d.asked]
           /\ [x \in Clients |-> browser'[x].got] =
                 [[x \in Clients |-> browser[x].got] EXCEPT ![c] = d.got]
           /\ [x \in Clients |-> browser'[x].pc] =
                 [[x \in Clients |-> browser[x].pc] EXCEPT ![c] = d.pc]
BY DEF ExchInv, Typed

\* Every step of a browser is one of Exchange.
LEMMA BrowsersRefine ==
    ASSUME ExchInv, NEW c \in Clients,
           Connect(c) \/ Leave(c) \/ BrowserStep(c) \/ \E kind \in Kinds : Ask(c, kind)
    PROVE  [Exchanges!Next]_(Exchanges!vars)
<1> DEFINE b == browser[c]
           asked == [x \in Clients |-> browser[x].asked]
           got == [x \in Clients |-> browser[x].got]
           open == [x \in Clients |-> browser[x].pc]
<1>1. BrowserOK(b) /\ running' = running
  BY TypesOf DEF Connect, Leave, BrowserStep, AskRest, Receive, SeeEnd, Ask
<1>2. asked[c] = b.asked /\ got[c] = b.got /\ open[c] = b.pc
  OBVIOUS
<1>3. ASSUME NEW d, browser' = [browser EXCEPT ![c] = d], d.asked = b.asked, d.got = b.got
      PROVE  /\ asked' = asked /\ got' = got /\ open' = [open EXCEPT ![c] = d.pc]
  <2>1. /\ asked' = [asked EXCEPT ![c] = d.asked] /\ got' = [got EXCEPT ![c] = d.got]
        /\ open' = [open EXCEPT ![c] = d.pc]
    BY <1>3, Seen
  <2>2. QED
    BY <1>3, <2>1
<1>4. ASSUME NEW pc, browser' = [browser EXCEPT ![c].pc = pc]
      PROVE  asked' = asked /\ got' = got /\ open' = [open EXCEPT ![c] = pc]
  <2> DEFINE d == [b EXCEPT !.pc = pc]
  <2>1. d.asked = b.asked /\ d.got = b.got /\ d.pc = pc
    BY <1>1 DEF BrowserOK
  <2>2. browser' = [browser EXCEPT ![c] = d]
    BY <1>4
  <2> HIDE DEF d, asked, got, open, b
  <2>3. QED
    BY <1>3, <2>1, <2>2
<1>5. CASE Connect(c)
  <2>1. asked' = asked /\ got' = got /\ open' = [open EXCEPT ![c] = "open"] /\ b.pc = "new"
    BY <1>4, <1>5 DEF Connect
  <2>2. Exchanges!Connect(c)
    BY <1>1, <1>2, <2>1 DEF Exchanges!Connect
  <2>3. QED
    BY <2>2 DEF Exchanges!Next
<1>6. CASE Leave(c)
  <2>1. asked' = asked /\ got' = got /\ open' = [open EXCEPT ![c] = "left"] /\ b.pc = "open"
    BY <1>4, <1>6 DEF Leave
  <2>2. Exchanges!Leave(c)
    BY <1>1, <1>2, <2>1 DEF Exchanges!Leave
  <2>3. QED
    BY <2>2 DEF Exchanges!Next
<1>7. CASE SeeEnd(c)
  <2>1. asked' = asked /\ got' = got /\ open' = [open EXCEPT ![c] = "ended"] /\ b.pc = "open"
    BY <1>4, <1>7 DEF SeeEnd
  <2>2. \/ ~running
        \/ b.asked # <<>> /\ b.asked[Len(b.asked)] \in {"listing", "garbled"} /\ Exchanges!Answered(c)
        \/ /\ \E i \in 1 .. Len(b.asked) - 1 : b.asked[i] \in {"listing", "garbled"}
           /\ b.got = <<>>
    <3> SUFFICES ASSUME running
                 PROVE  \/ /\ b.asked # <<>> /\ b.asked[Len(b.asked)] \in {"listing", "garbled"}
                           /\ Exchanges!Answered(c)
                        \/ /\ \E i \in 1 .. Len(b.asked) - 1 : b.asked[i] \in {"listing", "garbled"}
                           /\ b.got = <<>>
      OBVIOUS
    <3>1. \/ ListsLast(b) /\ Len(b.got) = 2
          \/ CutOff(b.asked) /\ b.got = <<>>
      BY <1>7, EndSeen
    <3>2. b.asked \in Seq(Kinds) /\ Len(b.asked) \in Nat
      BY <1>1, LenProperties DEF BrowserOK
    <3>3. CASE ListsLast(b) /\ Len(b.got) = 2
      <4>1. b.asked # <<>> /\ b.asked[Len(b.asked)] = "listing"
        BY <3>3 DEF ListsLast
      <4>2. Limit(b.asked) = 2
        BY <3>2, <4>1, Limits
      <4>3. QED
        BY <3>3, <4>1, <4>2, AnsweredIs
    <3>4. CASE CutOff(b.asked) /\ b.got = <<>>
      <4>1. PICK i \in 1 .. Len(b.asked) : \/ b.asked[i] = "garbled"
                                           \/ b.asked[i] = "listing" /\ i < Len(b.asked)
        BY <3>4 DEF CutOff
      <4>2. CASE i < Len(b.asked)
        <5>1. i \in 1 .. Len(b.asked) - 1
          BY <3>2, <4>2
        <5>2. QED
          BY <3>4, <4>1, <5>1
      <4>3. CASE i = Len(b.asked)
        <5>1. b.asked # <<>> /\ b.asked[Len(b.asked)] = "garbled"
          BY <3>2, <4>1, <4>3
        <5>2. Limit(b.asked) = 0 /\ Len(b.got) = 0
          BY <3>2, <3>4, <5>1, Limits
        <5>3. QED
          BY <5>1, <5>2, AnsweredIs
      <4>4. QED
        BY <3>2, <4>2, <4>3
    <3>5. QED
      BY <3>1, <3>3, <3>4
  <2>3. Exchanges!End(c)
    BY <1>1, <1>2, <2>1, <2>2 DEF Exchanges!End, Exchanges!EndsConnection, Exchanges!Last
  <2>4. QED
    BY <2>3 DEF Exchanges!Next
<1>8. CASE Receive(c)
  <2> DEFINE h == Head(toBrowser[c])
             g == Append(b.got, h)
             d == [b EXCEPT !.got = g]
  <2>1. browser' = [browser EXCEPT ![c] = d] /\ b.pc = "open"
    BY <1>8 DEF Receive
  <2>2. d.asked = b.asked /\ d.got = g /\ d.pc = b.pc
    BY <1>1 DEF BrowserOK
  <2>3. h = [req |-> Len(b.asked), part |-> Len(b.got) + 1] /\ ~Exchanges!Answered(c)
    BY <1>1, <1>8, NextPart, AnsweredIs, TypesOf
  <2> HIDE DEF d, g
  <2>4. /\ asked' = [asked EXCEPT ![c] = d.asked] /\ got' = [got EXCEPT ![c] = d.got]
        /\ open' = [open EXCEPT ![c] = d.pc]
    BY <2>1, Seen
  <2>5. asked' = asked /\ open' = open /\ got' = [got EXCEPT ![c] = g]
    BY <2>2, <2>4
  <2> USE DEF g
  <2>6. Exchanges!Receive(c)
    BY <1>1, <1>2, <2>1, <2>3, <2>5 DEF Exchanges!Receive
  <2>7. QED
    BY <2>6 DEF Exchanges!Next
<1>9. CASE AskRest(c)
  <2> DEFINE d == [b EXCEPT !.sent = 2]
  <2>1. browser' = [browser EXCEPT ![c] = d]
    BY <1>9 DEF AskRest
  <2>2. d.asked = b.asked /\ d.got = b.got /\ d.pc = b.pc
    BY <1>1 DEF BrowserOK
  <2> HIDE DEF d
  <2>3. asked' = asked /\ got' = got /\ open' = [open EXCEPT ![c] = d.pc]
    BY <1>3, <2>1, <2>2
  <2>4. asked' = asked /\ got' = got /\ open' = open
    BY <2>2, <2>3
  <2>5. QED
    BY <1>1, <2>4 DEF Exchanges!vars
<1>10. ASSUME NEW kind \in Kinds, Ask(c, kind) PROVE Exchanges!Next
  <2> DEFINE a == Append(b.asked, kind)
             d == [b EXCEPT !.asked = a, !.sent = 1, !.got = <<>>]
  <2>1. /\ browser' = [browser EXCEPT ![c].asked = Append(@, kind), ![c].sent = 1,
                                      ![c].got = <<>>]
        /\ b.pc = "open" /\ Answered(c) /\ Len(b.asked) < MaxRequests
    BY <1>10 DEF Ask, Asked
  <2>2. browser' = [browser EXCEPT ![c] = d]
    BY <2>1 DEF ExchInv, Typed
  <2>3. Exchanges!Answered(c)
    BY <1>1, <2>1, AnsweredIs DEF Answered, Limit, Asked, LastKind, BrowserOK
  <2> HIDE DEF a
  <2>4. d.asked = a /\ d.got = <<>> /\ d.pc = b.pc
    BY <1>1 DEF BrowserOK
  <2> HIDE DEF d
  <2>5. /\ asked' = [asked EXCEPT ![c] = d.asked] /\ got' = [got EXCEPT ![c] = d.got]
        /\ open' = [open EXCEPT ![c] = d.pc]
    BY <2>2, Seen
  <2>6. asked' = [asked EXCEPT ![c] = a] /\ open' = open /\ got' = [got EXCEPT ![c] = <<>>]
    BY <2>4, <2>5
  <2> USE DEF a
  <2>7. Exchanges!Ask(c, kind)
    BY <1>1, <1>2, <2>1, <2>3, <2>6 DEF Exchanges!Ask
  <2>8. QED
    BY <2>7 DEF Exchanges!Next
<1>11. QED
  BY <1>5, <1>6, <1>7, <1>8, <1>9, <1>10 DEF BrowserStep

\* The steps of the server are no steps of Exchange.
LEMMA ExchangeSteps == ExchInv /\ [Next]_vars => [Exchanges!Next]_(Exchanges!vars)
<1> SUFFICES ASSUME ExchInv, [Next]_vars PROVE [Exchanges!Next]_(Exchanges!vars)
  OBVIOUS
<1>1. CASE UNCHANGED vars
  BY <1>1, ExchangeStutters DEF vars
<1>2. ASSUME NEW m \in Managers, ManagerStep(m) PROVE UNCHANGED Exchanges!vars
  <2>1. browser' = browser /\ running' = running
    BY <1>2 DEF ManagerStep, Select, BeginClose, EndPoll, Read, Write, Close, Accept, Free,
                FreeListener, StartThread
  <2>2. QED
    BY <2>1, ExchangeStutters
<1>3. CASE Stop
  <2>1. Exchanges!Stop
    BY <1>3 DEF Stop, Exchanges!Stop
  <2>2. QED
    BY <2>1 DEF Exchanges!Next
<1>4. QED
  BY <1>1, <1>2, <1>3, BrowsersRefine DEF Next

\* To a browser the two ends of the socket pair, the forwarding between them
\* and the close of one end after the other are one connection that answers
\* in order, answers what it is asked, and ends only where a request says so
\* or when the server stops (mg_forward, unlink_conns, mg_mgr_poll).
THEOREM ExchangeRefined == Spec => RefinesExchange
<1>1. Init => IInv /\ ExchInv
  BY LinksStart, ExchStarts
<1>2. (IInv /\ ExchInv) /\ [Next]_vars => (IInv /\ ExchInv)'
  BY LinksStay, ExchStays
<1>3. Spec => Exchanges!Init /\ [][Exchanges!Next]_(Exchanges!vars)
  BY <1>1, <1>2, ExchangeStarts, ExchangeSteps, PTL DEF Spec
<1>4. QED
  BY <1>3 DEF RefinesExchange, Exchanges!Spec
=============================================================================
