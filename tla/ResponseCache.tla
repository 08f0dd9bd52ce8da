--------------------------- MODULE ResponseCache ----------------------------
(***************************************************************************)
(* The response cache on the chat path: what a wire body decodes to and is *)
(* forwarded as (internal/api/chat.go), which requests may be cached and   *)
(* under what key (internal/cache/cache.go), and handlers that look up,    *)
(* call a backend and store concurrently.  The prompt stands for model and *)
(* messages; max_tokens is an optional number like temperature.            *)
(* Temperatures are in tenths.                                             *)
(***************************************************************************)
EXTENDS Integers, Sequences, FiniteSets, SequencesExt

CONSTANTS
    Handlers,      \* requests being served
    Scopes,        \* tenant and API key of the caller
    Prompts,
    Temperatures,  \* values a client may send
    Words,         \* stop sequences a client may send; Blank is the empty one
    Blank,
    MaxEntries     \* bound: entries cached at a time

ASSUME CacheAssumption == Temperatures \subseteq Int /\ Blank \in Words /\ MaxEntries \in Nat

VARIABLES
    store,   \* under each key, whose request the cached answer was given to
    hand     \* each handler: where it is, what it was sent, what it answered

cacheVars == <<store, hand>>

\* A stop field: absent or null (<<>>), a string, or an array.
WireStop == {<<>>} \cup ({"string"} \X Words)
            \cup ({"array"} \X {<<>>}) \cup ({"array"} \X (Words \X Words))
            \cup {<<"array", <<w>>>> : w \in Words}
\* An optional number: absent or null ({}), or the value sent.
Optional(S) == {{}} \cup {{v} : v \in S}
Wire == [prompt : Prompts, temperature : Optional(Temperatures), stop : WireStop]

\* parseStop: both shapes become a sequence; nothing empty is accepted.
StopWords(stop) ==
    IF stop = <<>> THEN <<>> ELSE IF stop[1] = "string" THEN <<stop[2]>> ELSE stop[2]
ValidStop(stop) ==
    stop # <<>> => StopWords(stop) # <<>> /\ Blank \notin ToSet(StopWords(stop))

\* decodeChatRequest's tests.
Valid(w) ==
    /\ \A t \in w.temperature : t \in 0 .. 20
    /\ ValidStop(w.stop)

\* Mutant of Decode: a stop string is kept apart from the array of one.
DecodeKeepsShape(w) == [prompt |-> w.prompt, temperature |-> w.temperature, stop |-> w.stop]

Decode(w) ==
    [prompt |-> w.prompt, temperature |-> w.temperature, stop |-> StopWords(w.stop)]

\* Omitted counts as 1.0, above the limit of 0.2.
Eligible(r) == LET t == IF r.temperature = {} THEN 10 ELSE CHOOSE v \in r.temperature : TRUE
               IN t <= 2

\* Mutant of Key: the order of the stop sequences is lost.
KeySortsStop(scope, r) ==
    <<scope, [prompt |-> r.prompt, temperature |-> r.temperature, stop |-> ToSet(r.stop)]>>

\* Key over the scope and CanonicalBody: the fields sent, arrays in order.
Key(scope, r) ==
    <<scope, [prompt |-> r.prompt, temperature |-> r.temperature, stop |-> r.stop]>>

-----------------------------------------------------------------------------
Idle == [pc |-> "idle"]
KeyOf(h) == Key(h.scope, h.req)

CacheInit ==
    /\ store = <<>>
    /\ hand = [a \in Handlers |-> Idle]

\* A decoded request that may not be cached goes straight to the backend.
Arrive(a, scope, w) ==
    /\ hand[a] = Idle
    /\ Valid(w)
    /\ LET r == Decode(w)
       IN hand' = [hand EXCEPT ![a] =
                     [pc |-> IF Eligible(r) THEN "lookup" ELSE "call",
                      scope |-> scope, wire |-> w, req |-> r]]
    /\ UNCHANGED store

\* A hit answers with the stored body; a miss, a failed call and a corrupt
\* entry all go on to the backend.
Lookup(a) ==
    /\ hand[a].pc = "lookup"
    /\ \/ hand' = [hand EXCEPT ![a].pc = "call"]
       \/ /\ KeyOf(hand[a]) \in DOMAIN store
          /\ hand' = [hand EXCEPT ![a] =
                        [pc |-> "hit", scope |-> @.scope, wire |-> @.wire, req |-> @.req,
                         body |-> store[KeyOf(@)]]]
    /\ UNCHANGED store

\* The backend was sent the decoded request: its answer is that request's.
BackendAnswer(a) ==
    /\ hand[a].pc = "call"
    /\ \/ hand' = [hand EXCEPT ![a] = Idle]      \* an error, never stored
       \/ hand' = [hand EXCEPT ![a].pc = IF Eligible(hand[a].req) THEN "put" ELSE "done"]
    /\ UNCHANGED store

\* A failed store is skipped; the last of two writers wins.
Put(a) ==
    /\ hand[a].pc = "put"
    /\ \/ UNCHANGED store
       \/ LET keys == DOMAIN store \cup {KeyOf(hand[a])}
          IN /\ Cardinality(keys) <= MaxEntries
             /\ store' = [k \in keys |->
                            IF k = KeyOf(hand[a])
                            THEN [scope |-> hand[a].scope, wire |-> hand[a].wire]
                            ELSE store[k]]
    /\ hand' = [hand EXCEPT ![a].pc = "done"]

Respond(a) ==
    /\ hand[a].pc \in {"hit", "done"}
    /\ hand' = [hand EXCEPT ![a] = Idle]
    /\ UNCHANGED store

\* The entry's time to live is over.
Expire ==
    /\ \E k \in DOMAIN store : store' = [j \in DOMAIN store \ {k} |-> store[j]]
    /\ UNCHANGED hand

CacheNext ==
    \/ \E a \in Handlers :
          \/ \E scope \in Scopes, w \in Wire : Arrive(a, scope, w)
          \/ Lookup(a) \/ BackendAnswer(a) \/ Put(a) \/ Respond(a)
    \/ Expire

-----------------------------------------------------------------------------
\* What a wire body asks for: an omitted temperature is the default 1.0, and
\* a stop string asks for the same as the array of that one string.
Asks(stop, words) ==
    \/ stop = <<>> /\ words = <<>>
    \/ Len(words) = 1 /\ stop = <<"string", words[1]>>
    \/ stop = <<"array", words>>
Effective(temperature) == IF temperature = {} THEN {10} ELSE temperature
SameMeaning(v, w) ==
    /\ v.prompt = w.prompt
    /\ Effective(v.temperature) = Effective(w.temperature)
    /\ \E words \in BoundedSeq(Words, 2) : Asks(v.stop, words) /\ Asks(w.stop, words)

\* A hit answers with what a backend said to a request that asks for the same,
\* made under the same tenant and API key, whichever handler stored it; and
\* nothing sampled at more than 0.2, or at the 1.0 of an omitted temperature, is
\* ever replayed.
HitFaithful ==
    \A a \in Handlers : hand[a].pc = "hit" =>
        /\ hand[a].body.scope = hand[a].scope
        /\ SameMeaning(hand[a].body.wire, hand[a].wire)
        /\ \A t \in Effective(hand[a].wire.temperature) : t <= 2

\* "semantically equal requests ... map to one cache key" (CanonicalBody): two
\* requests of one caller that ask for the same are looked up under one key.
SharesEntry ==
    \A a, b \in Handlers :
        /\ hand[a].pc = "lookup" /\ hand[b].pc = "lookup"
        /\ hand[a].scope = hand[b].scope /\ SameMeaning(hand[a].wire, hand[b].wire)
        => KeyOf(hand[a]) = KeyOf(hand[b])
=============================================================================
