--------------------------- MODULE MCIdempotency ----------------------------
EXTENDS Idempotency

\* The third request reuses the key with another body.
MCBody == [r \in Requests |-> IF r = 3 THEN "other" ELSE "same"]

\* The second request is served by a replica whose clock is ahead.
MCSkew == [r \in Requests |-> IF r = 2 THEN 1 ELSE 0]
=============================================================================
