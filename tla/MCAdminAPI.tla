----------------------------- MODULE MCAdminAPI -----------------------------
EXTENDS AdminAPI, TLC

CONSTANTS n1, m1, u1

\* One value on each side of every limit of the validators and the columns.
SomePriorities == {-1, 0, 1}
SomeWeights == {0, 1, 2}

SeedRows ==
    << [table |-> "backend", name |-> n1,
        row |-> [model |-> m1, base_url |-> u1, enabled |-> TRUE, priority |-> 1, weight |-> 1]],
       [table |-> "policy", name |-> n1,
        row |-> [model |-> m1, config |-> Empty, enabled |-> TRUE]] >>

\* The two handlers are alike.
Symmetry == Permutations(Handlers)
=============================================================================
