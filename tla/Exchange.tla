------------------------------ MODULE Exchange ------------------------------
(***************************************************************************)
(* What the HTTP server promises a browser on one connection: the parts of *)
(* the answer to a request come in order, none without a request, and the  *)
(* server ends a connection only after a request that makes it do so or    *)
(* when it stops; it never cuts an answer short before that.               *)
(***************************************************************************)
EXTENDS Naturals, Sequences, SequencesExt

CONSTANTS
    Clients, Kinds,
    MaxRequests,  \* requests a browser sends on one connection (bound)
    AnswerLen     \* kind -> parts of the answer to it

VARIABLES
    asked,     \* client -> the kinds of the requests it has begun, in order
    got,       \* client -> parts of the answer to the last one it has
    open,      \* client -> "new", "open", "left" (by the browser) or "ended"
    stopping   \* the server is being stopped

vars == <<asked, got, open, stopping>>

Answered(c) ==
    Len(got[c]) = IF asked[c] = <<>> THEN 0 ELSE AnswerLen[Last(asked[c])]

Init ==
    /\ asked = [c \in Clients |-> <<>>]
    /\ got = [c \in Clients |-> <<>>]
    /\ open = [c \in Clients |-> "new"]
    /\ stopping = FALSE

Connect(c) ==
    /\ open[c] = "new"
    /\ open' = [open EXCEPT ![c] = "open"]
    /\ UNCHANGED <<asked, got, stopping>>

Ask(c, kind) ==
    /\ open[c] = "open" /\ Answered(c) /\ Len(asked[c]) < MaxRequests
    /\ asked' = [asked EXCEPT ![c] = Append(@, kind)]
    /\ got' = [got EXCEPT ![c] = <<>>]
    /\ UNCHANGED <<open, stopping>>

\* The next part of the answer to the request that waits.
Receive(c) ==
    /\ open[c] = "open" /\ ~Answered(c)
    /\ got' = [got EXCEPT ![c] =
                 Append(@, [req |-> Len(asked[c]), part |-> Len(@) + 1])]
    /\ UNCHANGED <<asked, open, stopping>>

Leave(c) ==
    /\ open[c] = "open"
    /\ open' = [open EXCEPT ![c] = "left"]
    /\ UNCHANGED <<asked, got, stopping>>

\* A request after which the server ends the connection.
EndsConnection == {"listing", "garbled"}

\* The server ends the connection: when it has answered such a request, which
\* may leave one the browser has sent meanwhile without any answer.
End(c) ==
    /\ open[c] = "open"
    /\ \/ stopping
       \/ /\ asked[c] # <<>> /\ Last(asked[c]) \in EndsConnection
          /\ Answered(c)
       \/ /\ \E i \in 1 .. Len(asked[c]) - 1 : asked[c][i] \in EndsConnection
          /\ got[c] = <<>>
    /\ open' = [open EXCEPT ![c] = "ended"]
    /\ UNCHANGED <<asked, got, stopping>>

Stop == stopping' = TRUE /\ UNCHANGED <<asked, got, open>>

Next ==
    \/ Stop
    \/ \E c \in Clients : \/ Connect(c) \/ Receive(c) \/ Leave(c) \/ End(c)
                          \/ \E kind \in Kinds : Ask(c, kind)

Spec == Init /\ [][Next]_vars
=============================================================================
