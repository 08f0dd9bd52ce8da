------------------------------ MODULE AdminAPI ------------------------------
(***************************************************************************)
(* The control plane's two tables, model_backends and routing_policies,    *)
(* under the admin handlers (internal/api/admin.go) and the seeder         *)
(* (internal/seed/seed.go).  A PATCH loads the row, lays the fields it was *)
(* sent over it, validates the result and writes the whole row back; the   *)
(* load and the write are two statements with no transaction around them.  *)
(* Rows are never deleted and no statement changes a name, so a name also  *)
(* stands for the row's id.  model_name stands for every identity column.  *)
(***************************************************************************)
EXTENDS Integers, Sequences, FiniteSets

CONSTANTS
    Handlers,     \* admin requests being served at the same time
    Names,        \* names of backends and policies
    Models,       \* values of model_name
    URLs,         \* values a client may send as base_url
    AbsoluteURLs, \* those isAbsoluteHTTPURL accepts
    SeedURLs,     \* those requireAbsoluteURL accepts, of any scheme: what the
                  \* environment may give the seeder
    Configs,      \* values a client may send as config
    Objects,      \* those isJSONObject accepts
    Empty,        \* the object {}
    Priorities,   \* values a client may send as priority
    Weights,      \* values a client may send as weight
    MaxInteger,   \* the largest value of a Postgres integer column
    Declared,     \* what the seeder upserts, in order
    NoRow

ASSUME AdminAssumption ==
    /\ AbsoluteURLs \subseteq SeedURLs /\ SeedURLs \subseteq URLs /\ Objects \subseteq Configs
    /\ Empty \in Objects /\ Priorities \cup Weights \subseteq Int /\ MaxInteger \in Nat

VARIABLES
    rows,   \* rows[t][n]: the row named n of table t, or NoRow
    hand,   \* each handler: where it is, the row it loaded and the one it will
            \* write, its last answer
    seed    \* how many of its upserts the seeder has done

vars == <<rows, hand, seed>>

Tables == {"backend", "policy"}

BackendRow == [model : Models, base_url : URLs, enabled : BOOLEAN,
               priority : Priorities, weight : Weights]
PolicyRow == [model : Models, config : Configs, enabled : BOOLEAN]
RowOf(t) == IF t = "backend" THEN BackendRow ELSE PolicyRow

\* A pointer field of a request: nothing, or the one value sent.
Sent(S) == {{}} \cup {{v} : v \in S}
BackendPatch == [base_url : Sent(URLs), enabled : Sent(BOOLEAN),
                 priority : Sent(Priorities), weight : Sent(Weights)]
PolicyPatch == [config : Sent(Configs), enabled : Sent(BOOLEAN)]

\* Mutant of Apply: an omitted flag is taken for its zero value.
ApplyZeroValue(row, req) ==
    [f \in DOMAIN row |-> IF f \in DOMAIN req /\ req[f] # {}
                          THEN CHOOSE v \in req[f] : TRUE
                          ELSE IF f = "enabled" THEN FALSE ELSE row[f]]

\* The fields the request carries, laid over the row; the others carried through.
Apply(row, req) ==
    [f \in DOMAIN row |-> IF f \in DOMAIN req /\ req[f] # {}
                          THEN CHOOSE v \in req[f] : TRUE ELSE row[f]]
FieldsSent(req) == {f \in DOMAIN req : req[f] # {}}

\* Mutant of ValidateBackendValues: a weight of zero passes.
ValidateZeroWeight(b) ==
    b.base_url \in AbsoluteURLs /\ b.priority >= 0 /\ b.weight >= 0

\* weight stands for max_in_flight too: they are tested alike.
ValidateBackendValues(b) ==
    b.base_url \in AbsoluteURLs /\ b.priority >= 0 /\ b.weight > 0
ValidatePolicy(p) == p.config \in Objects
Validate(t, row) == IF t = "backend" THEN ValidateBackendValues(row) ELSE ValidatePolicy(row)

\* What Postgres refuses: a CHECK that fails, a number wider than the column.
Checks(t, row) == t = "backend" => row.priority >= 0 /\ row.weight > 0
InRange(t, row) == t = "backend" => row.priority <= MaxInteger /\ row.weight <= MaxInteger

\* What the seeder declares is written out in the program and valid, but for
\* the base URLs, which seed.Run takes from the environment.
SeedRow(d, u) == IF d.table = "backend" THEN [d.row EXCEPT !.base_url = u] ELSE d.row

ASSUME SeedAssumption ==
    /\ NoRow \notin BackendRow \cup PolicyRow
    /\ Declared \in Seq([table : Tables, name : Names, row : BackendRow \cup PolicyRow])
    /\ \A k \in 1 .. Len(Declared) :
          LET d == Declared[k]
          IN /\ d.row \in RowOf(d.table) /\ Checks(d.table, d.row) /\ InRange(d.table, d.row)
             /\ d.table = "policy" => ValidatePolicy(d.row)

-----------------------------------------------------------------------------
Idle(a) == hand[a].pc = "idle"
\* A handler that has answered.
Answered(ans) ==
    [pc |-> "idle", at |-> <<>>, old |-> NoRow, row |-> NoRow, sent |-> {}, ans |-> ans]

Init ==
    /\ rows = [t \in Tables |-> [n \in Names |-> NoRow]]
    /\ hand = [a \in Handlers |-> Answered("none")]
    /\ seed = 0

\* One INSERT: it fails, hits the unique name, is refused, or adds the row,
\* whose confirmation may be lost.
Insert(a, t, n, row) ==
    \/ /\ hand' = [hand EXCEPT ![a] = Answered("internal")]
       /\ UNCHANGED rows
    \/ /\ rows[t][n] # NoRow
       /\ hand' = [hand EXCEPT ![a] = Answered("conflict")]
       /\ UNCHANGED rows
    \/ /\ rows[t][n] = NoRow /\ ~ Checks(t, row)
       /\ hand' = [hand EXCEPT ![a] = Answered("refused")]
       /\ UNCHANGED rows
    \/ /\ rows[t][n] = NoRow /\ Checks(t, row) /\ InRange(t, row)
       /\ rows' = [rows EXCEPT ![t][n] = row]
       /\ \E ans \in {"created", "internal"} :
             hand' = [hand EXCEPT ![a] = Answered(ans)]

EnabledOr(sent) == IF sent = {} THEN TRUE ELSE CHOOSE v \in sent : TRUE
\* defaultConfig, and the repositories' normalizeJSONB.
DefaultConfig(sent) == IF sent = {} THEN Empty ELSE CHOOSE v \in sent : TRUE

Create(a, t, n, row) ==
    /\ Idle(a)
    /\ IF Validate(t, row)
       THEN Insert(a, t, n, row)
       ELSE /\ hand' = [hand EXCEPT ![a] = Answered("bad_request")]
            /\ UNCHANGED rows
    /\ UNCHANGED seed

CreateBackend(a) ==
    \E n \in Names, m \in Models, u \in URLs, p \in Priorities, w \in Weights,
       e \in Sent(BOOLEAN) :
          Create(a, "backend", n,
                 [model |-> m, base_url |-> u, enabled |-> EnabledOr(e),
                  priority |-> p, weight |-> w])

CreatePolicy(a) ==
    \E n \in Names, m \in Models, c \in Sent(Configs), e \in Sent(BOOLEAN) :
          Create(a, "policy", n,
                 [model |-> m, config |-> DefaultConfig(c), enabled |-> EnabledOr(e)])

-----------------------------------------------------------------------------
\* Mutant of PatchLoad: the row is validated as loaded, before the fields are laid over it.
PatchLoadValidatesOld(a, t, n, req) ==
    /\ Idle(a)
    /\ hand' = [hand EXCEPT ![a] =
                  IF rows[t][n] = NoRow THEN Answered("not_found")
                  ELSE [pc |-> "write", at |-> <<t, n>>, old |-> rows[t][n],
                        row |-> Apply(rows[t][n], req),
                        sent |-> FieldsSent(req), ans |-> "none"]]
    /\ UNCHANGED <<rows, seed>>

\* patchBackend validates the merged row, patchPolicy the config it was sent.
PatchAccepted(t, new, req) ==
    IF t = "backend" THEN ValidateBackendValues(new)
    ELSE req.config # {} => ValidatePolicy(new)

\* GetByID, the fields sent laid over the row, and the validation.
PatchLoad(a, t, n, req) ==
    /\ Idle(a)
    /\ \/ hand' = [hand EXCEPT ![a] = Answered("internal")]
       \/ hand' = [hand EXCEPT ![a] =
                     IF rows[t][n] = NoRow THEN Answered("not_found")
                     ELSE LET new == Apply(rows[t][n], req)
                          IN IF PatchAccepted(t, new, req)
                             THEN [pc |-> "write", at |-> <<t, n>>, old |-> rows[t][n], row |-> new,
                                   sent |-> FieldsSent(req), ans |-> "none"]
                             ELSE Answered("bad_request")]
    /\ UNCHANGED <<rows, seed>>

PatchBackend(a) == \E n \in Names, req \in BackendPatch : PatchLoad(a, "backend", n, req)
PatchPolicy(a) == \E n \in Names, req \in PolicyPatch : PatchLoad(a, "policy", n, req)

\* The repositories' Update: every column of the row, identity included.
Update(a) ==
    /\ hand[a].pc = "write"
    /\ LET t == hand[a].at[1]
           n == hand[a].at[2]
           row == hand[a].row
       IN \/ /\ hand' = [hand EXCEPT ![a] = Answered("internal")]
             /\ UNCHANGED rows
          \/ /\ ~ Checks(t, row)
             /\ hand' = [hand EXCEPT ![a] = Answered("refused")]
             /\ UNCHANGED rows
          \/ /\ Checks(t, row) /\ InRange(t, row)
             /\ rows' = [rows EXCEPT ![t][n] = row]
             /\ \E ans \in {"updated", "internal"} :
                   hand' = [hand EXCEPT ![a] = Answered(ans)]
    /\ UNCHANGED seed

-----------------------------------------------------------------------------
\* INSERT ... ON CONFLICT (name) DO UPDATE.
Upsert(d, u) == rows' = [rows EXCEPT ![d.table][d.name] = SeedRow(d, u)]

\* seed.Run: the declared rows upserted in order.  A failure ends the run, and
\* the next run starts again from the first, perhaps under another environment.
SeedUpsert ==
    /\ seed < Len(Declared)
    /\ \E u \in SeedURLs : Upsert(Declared[seed + 1], u)
    /\ seed' \in {seed + 1, 0}
    /\ UNCHANGED hand

SeedAgain ==
    /\ seed > 0
    /\ seed' = 0
    /\ UNCHANGED <<rows, hand>>

Next ==
    \/ \E a \in Handlers : \/ CreateBackend(a) \/ CreatePolicy(a)
                           \/ PatchBackend(a) \/ PatchPolicy(a) \/ Update(a)
    \/ SeedUpsert
    \/ SeedAgain

Spec == Init /\ [][Next]_vars

-----------------------------------------------------------------------------
\* Row n of table t is as the seeder wrote it, with a base URL of another scheme
\* than the admin API takes.
SeededAsIs(t, n) ==
    \E k \in 1 .. Len(Declared), u \in SeedURLs :
        /\ Declared[k].table = t /\ Declared[k].name = n
        /\ rows[t][n] = SeedRow(Declared[k], u)

\* Every stored row fits its columns and passes the validation of its table,
\* whatever a PATCH laid over what it had loaded, unless it is as the seeder
\* wrote it: a PATCH never builds on a row that fails the validation without
\* repairing it, so a handler between its two statements holds a valid row.
RowsValid ==
    /\ \A t \in Tables, n \in Names :
          rows[t][n] # NoRow =>
             /\ rows[t][n] \in RowOf(t)
             /\ Checks(t, rows[t][n]) /\ InRange(t, rows[t][n])
             /\ Validate(t, rows[t][n]) \/ SeededAsIs(t, n)
    /\ \A a \in Handlers :
          /\ hand[a].pc \in {"idle", "write"}
          /\ hand[a].pc = "write" =>
                LET t == hand[a].at[1]
                IN /\ rows[t][hand[a].at[2]] # NoRow
                   /\ hand[a].row \in RowOf(t) /\ Validate(t, hand[a].row)
    /\ seed \in 0 .. Len(Declared)

\* The numeric ranges of validateBackendValues mirror the CHECK constraints: no
\* row a handler sends to the database is refused by one (which the client
\* would see as an internal error instead of a bad request).
ChecksMirrored == \A a \in Handlers : hand[a].ans # "refused"

\* The write of handler a in this step.
WroteBy(a, t, n) == hand[a].pc = "write" /\ hand'[a].pc = "idle" /\ hand[a].at = <<t, n>>

\* "patch touch only the fields the caller actually sent" (admin.go:86): a
\* handler's write changes no other field of the row, unless the row is no longer
\* the one it loaded.
TouchesOnlySent ==
    \A a \in Handlers, t \in Tables, n \in Names :
        WroteBy(a, t, n) /\ rows[t][n] = hand[a].old =>
           \A f \in DOMAIN rows[t][n] :
               rows'[t][n][f] # rows[t][n][f] => f \in hand[a].sent
PatchTouchesOnlySent == [][TouchesOnlySent]_vars

\* "so the admin API cannot rewrite a backend's identity" (admin.go:100): the
\* identity of a row changes only when the seeder upserts it.
IdentityFixed ==
    \A a \in Handlers, t \in Tables, n \in Names :
        WroteBy(a, t, n) => rows'[t][n].model = rows[t][n].model
AdminKeepsIdentity == [][IdentityFixed]_vars
=============================================================================
