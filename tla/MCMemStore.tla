----------------------------- MODULE MCMemStore -----------------------------
(* One job of two items for model checking MemStore. *)
EXTENDS MemStore

MemItems == {"a1", "a2"}
MemJobOf == [i \in MemItems |-> "a"]
MemRank == [i \in MemItems |-> IF i = "a1" THEN 1 ELSE 2]

\* A method that has begun goes on to its end.
MemStoreFairSpec ==
    /\ MemStoreSpec
    /\ \A c \in Callers : WF_memStoreVars(ClaimTake(c)) /\ WF_memStoreVars(RecountWrite(c))
=============================================================================
