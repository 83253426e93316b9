---------------------------- MODULE MCCubeBuild -----------------------------
(* Instances of CubeBuild for TLC.                                         *)
EXTENDS CubeBuild

Pt(x, y) == [x |-> x, y |-> y]

\* Datasets are chosen up to the order of their records: a sequence of
\* samples in ascending order stands for each of its permutations.
AscendingPicks(samples) ==
    {[r \in Records |-> samples[pick[r]]] :
       pick \in {p \in [Records -> DOMAIN samples] :
                   \A r \in Records : r > 0 => p[r - 1] <= p[r]}}

\* One spatial key; positions in the same and in different quadrants at each
\* zoom, two categorical values, three days.
OneKeySamples ==
    [i \in 1 .. 8 |->
       [at  |-> [k \in {0} |-> <<Pt(0, 0), Pt(0, 1), Pt(3, 1), Pt(1, 2),
                                 Pt(0, 0), Pt(0, 1), Pt(0, 0), Pt(3, 1)>>[i]],
        val |-> <<<<0, 3>>, <<1, 0>>, <<1, 4>>, <<0, 5>>,
                  <<1, 3>>, <<1, 3>>, <<0, 4>>, <<0, 1>>>>[i]]]

OneKeyDatasets == AscendingPicks(OneKeySamples)

OneCategory == <<2>>

TwoDayBucket == <<2>>
=============================================================================
