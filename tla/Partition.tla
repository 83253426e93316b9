----------------------------- MODULE Partition ------------------------------
(***************************************************************************)
(* What the build promises, without pivots, hashes or sorts: progressive   *)
(* partitioning. The dataset starts as one block. Pass p splits blocks by  *)
(* what attr[p] says of their records and never joins or exchanges them,   *)
(* and ends when no block still mixes values it had to separate.           *)
(***************************************************************************)
EXTENDS Naturals, FiniteSets

CONSTANTS
    Records,   \* the records partitioned
    Passes,    \* the last pass; pass 0 is the spatial one
    Leaf       \* blocks this small need no further spatial split

VARIABLES
    attr,      \* pass -> record -> what the pass separates records by
    blocks,    \* the partition
    pass       \* the pass under way

vars == <<attr, blocks, pass>>

Uniform(b) == \A r, q \in b : attr[pass][r] = attr[pass][q]

\* No value is torn between two sets of made.
Separated(made) ==
    \A S, T \in made : S # T =>
        \A r \in S, q \in T : attr[pass][r] # attr[pass][q]

Init ==
    /\ blocks = {Records} \ {{}}
    /\ pass = 0

\* One block gives way to the non-empty sets made of it.
Refine ==
    /\ pass \in 0 .. Passes
    /\ \E b \in blocks :
         LET made == blocks' \ (blocks \ {b})
         IN  /\ blocks \ {b} \subseteq blocks'
             /\ b \notin made
             /\ UNION made = b
             /\ {} \notin made
             /\ Separated(made)
    /\ UNCHANGED <<attr, pass>>

Done(b) == Uniform(b) \/ (pass = 0 /\ Cardinality(b) <= Leaf)

Advance ==
    /\ pass \in 0 .. Passes
    /\ \A b \in blocks : Done(b)
    /\ pass' = pass + 1
    /\ UNCHANGED <<attr, blocks>>

Next == Refine \/ Advance

Spec == Init /\ [][Next]_vars
=============================================================================
