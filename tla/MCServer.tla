------------------------------ MODULE MCServer ------------------------------
(* Instances of Server for TLC: two cubes on the command line, the page     *)
(* shows the second; requests for the first and for one there is not.      *)
EXTENDS Server

TwoSchemas == <<"a", "b">>

Names == {"a", "b", "x"}

Sent == [kind : {"file", "short", "query", "bad"}, cube : {"a"}]
          \cup [kind : {"schema"}, cube : {"x"}]
=============================================================================
