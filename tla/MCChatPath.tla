----------------------------- MODULE MCChatPath -----------------------------
(***************************************************************************)
(* Two parts of the chat path that share no state, model-checked side by   *)
(* side: the response cache and the call of a backend.  "part" says whose  *)
(* behaviour this is; the other rests.                                     *)
(***************************************************************************)
EXTENDS ResponseCache, InferenceClient

VARIABLE part

chatVars == <<cacheVars, clientVars, part>>

Init ==
    /\ part \in {"ResponseCache", "InferenceClient"}
    /\ CacheInit
    /\ ClientInit
    /\ part = "ResponseCache" =>
          cfg = [timeout |-> Min(Timeouts), attempts |-> Min(Attempts),
                 base |-> Min(Bases), max |-> Min(Maxes)]

Next ==
    \/ part = "ResponseCache" /\ CacheNext /\ UNCHANGED <<clientVars, part>>
    \/ part = "InferenceClient" /\ ClientNext /\ UNCHANGED <<cacheVars, part>>

Spec == Init /\ [][Next]_chatVars
=============================================================================
