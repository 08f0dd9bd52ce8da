---------------------------- MODULE BatchDecode -----------------------------
(***************************************************************************)
(* decodeBatchCreate of internal/api/batch.go, the loop that validates the *)
(* entries of a batch, one entry to a step.  An entry's id and body are    *)
(* what the code tells apart: a custom_id that is no string, one that is   *)
(* missing or blank, or its text; a body that is missing, one that         *)
(* decodeChatRequest refuses, or the model of a valid request.             *)
(***************************************************************************)
EXTENDS Integers, Sequences, FiniteSets

CONSTANTS
    CustomIds,     \* texts of custom_id that are not blank
    BatchModels,   \* model names
    MaxRequests    \* maxBatchRequests

ASSUME DecodeAssumption ==
    /\ MaxRequests \in Nat \ {0}
    /\ CustomIds \cap {"mistyped", ""} = {}
    /\ BatchModels \cap {"missing", "invalid", ""} = {}

VARIABLES
    entries,   \* the array requests
    next,      \* index of the entry to look at
    seen,      \* the map of ids
    model,     \* the batch's model, "" as long as there is none
    verdict    \* accepted, refused or not known yet

decodeVars == <<entries, next, seen, model, verdict>>

Entry ==
    [known : {TRUE}, id : CustomIds \cup {"mistyped", ""},
     body : BatchModels \cup {"missing", "invalid"}]
    \cup [known : {FALSE}, id : {""}, body : {"missing"}]   \* an unsupported field

DecodeInit ==
    /\ entries \in UNION {[1 .. n -> Entry] : n \in 0 .. MaxRequests + 1}
    /\ next = 1 /\ seen = {} /\ model = "" /\ verdict = "open"

CountInRange == Len(entries) \in 1 .. MaxRequests

\* Mutant of Refused: the model is not compared.
RefusedNotModel(e) ==
    \/ ~e.known
    \/ e.id \in {"mistyped", ""} \cup seen
    \/ e.body \in {"missing", "invalid"}

Refused(e) ==
    \/ ~e.known
    \/ e.id \in {"mistyped", ""} \cup seen
    \/ e.body \in {"missing", "invalid"}
    \/ model # "" /\ e.body # model

TakeEntry ==
    /\ verdict = "open" /\ CountInRange /\ next <= Len(entries)
    /\ ~Refused(entries[next])
    /\ seen' = seen \cup {entries[next].id}
    /\ model' = IF model = "" THEN entries[next].body ELSE model
    /\ next' = next + 1
    /\ UNCHANGED <<entries, verdict>>

Refuse ==
    /\ verdict = "open"
    /\ ~CountInRange \/ (next <= Len(entries) /\ Refused(entries[next]))
    /\ verdict' = "refused"
    /\ UNCHANGED <<entries, next, seen, model>>

Accept ==
    /\ verdict = "open" /\ CountInRange /\ next > Len(entries)
    /\ verdict' = "accepted"
    /\ UNCHANGED <<entries, next, seen, model>>

DecodeNext == TakeEntry \/ Refuse \/ Accept

-----------------------------------------------------------------------------
\* Accepted are exactly the batches that the schema can store and the worker can
\* run: 1 to MaxRequests entries, ids that are present and pairwise different
\* (UNIQUE (job_id, custom_id) in migrations/00005_batch.sql), valid bodies, and
\* the one model that the job's row names.
WellFormed ==
    /\ Len(entries) \in 1 .. MaxRequests
    /\ \A n \in DOMAIN entries : /\ entries[n].known /\ entries[n].id \in CustomIds
                                 /\ entries[n].body \in BatchModels
    /\ \A m, n \in DOMAIN entries :
          /\ entries[m].id = entries[n].id => m = n
          /\ entries[m].body = entries[n].body
DecodesExactly ==
    /\ verdict = "accepted" => WellFormed /\ model = entries[1].body
    /\ verdict = "refused" => ~WellFormed
=============================================================================
