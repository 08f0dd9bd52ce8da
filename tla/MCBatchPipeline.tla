-------------------------- MODULE MCBatchPipeline ---------------------------
EXTENDS BatchPipeline, TLC

CONSTANTS a1, a2

OneItem == {a1}
OneJobOf == [i \in OneItem |-> "a"]
TwoItems == {a1, a2}
TwoJobOf == [i \in TwoItems |-> "a"]

\* The two items of the job are alike.
Symmetry == Permutations(TwoItems)
=============================================================================
