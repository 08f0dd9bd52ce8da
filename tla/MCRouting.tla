----------------------------- MODULE MCRouting ------------------------------
EXTENDS Routing

\* One tier, and a preferred backend with one to fall back on.
SamePriority == [b \in Backends |-> 0]
Fallback == [b \in Backends |-> IF b = "b1" THEN 0 ELSE 1]
=============================================================================
