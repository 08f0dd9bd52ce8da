--------------------------- MODULE GatewayProofs ----------------------------
(***************************************************************************)
(* The edge of the gateway: the admin API with the seeder, the rate limit  *)
(* on the bearer routes, and the validation of batches.                    *)
(***************************************************************************)
EXTENDS AdminAPI, RateLimit, BatchDecode, FiniteSetTheorems, SequenceTheorems, TLAPS

-----------------------------------------------------------------------------
(***************************************************************************)
(* The admin API, for any handlers, names, values and declared rows:       *)
(* stored rows are valid or the seeder's, the database never refuses what  *)
(* the handlers accepted, and a handler changes only the fields it was     *)
(* sent.                                                                   *)
(***************************************************************************)

\* A row as the seeder writes it under the name n.
SeedMade(t, n, row) ==
    \E k \in 1 .. Len(Declared), u \in SeedURLs :
        Declared[k].table = t /\ Declared[k].name = n /\ row = SeedRow(Declared[k], u)

\* A row that fits its columns and is valid, or is the seeder's; a policy is valid.
Good(t, n, row) ==
    /\ row \in RowOf(t) /\ Checks(t, row) /\ InRange(t, row)
    /\ Validate(t, row) \/ SeedMade(t, n, row)
    /\ t = "policy" => ValidatePolicy(row)

\* Tables hold nothing or good rows.
TablesGood ==
    /\ rows \in [Tables -> [Names -> BackendRow \cup PolicyRow \cup {NoRow}]]
    /\ \A t \in Tables, n \in Names : rows[t][n] # NoRow => Good(t, n, rows[t][n])

\* Between its two statements a handler holds a valid row for a row there is, and
\* it differs from the one loaded in the fields sent.
Writes(a, t, n) ==
    /\ hand[a].at = <<t, n>> /\ rows[t][n] # NoRow
    /\ hand[a].row \in RowOf(t) /\ Validate(t, hand[a].row)
    /\ \A f \in DOMAIN hand[a].old :
          hand[a].row[f] # hand[a].old[f] => f \in hand[a].sent

\* A handler is idle or about to write such a row, and was never refused.
HandGood(a) ==
    /\ hand[a].ans # "refused"
    /\ \/ hand[a].pc = "idle"
       \/ hand[a].pc = "write" /\ \E t \in Tables, n \in Names : Writes(a, t, n)

\* The inductive invariant.
AdminInv ==
    /\ TablesGood
    /\ DOMAIN hand = Handlers
    /\ \A a \in Handlers : HandGood(a)
    /\ seed \in 0 .. Len(Declared)

-----------------------------------------------------------------------------
\* What a request field carries is one of its values.
LEMMA SentValue ==
    ASSUME NEW S, NEW x \in Sent(S), x # {}
    PROVE  (CHOOSE v \in x : TRUE) \in S
BY DEF Sent

\* Laying a request over a row keeps the row's shape, and touches only what the
\* request carries (the pointer fields of patchBackend).
LEMMA ApplyBackend ==
    ASSUME NEW row \in BackendRow, NEW req \in BackendPatch
    PROVE  /\ Apply(row, req) \in BackendRow
           /\ \A f \in DOMAIN row :
                 Apply(row, req)[f] # row[f] => f \in FieldsSent(req)
<1> DEFINE g == Apply(row, req)
<1>1. /\ DOMAIN row = {"model", "base_url", "enabled", "priority", "weight"}
      /\ DOMAIN req = {"base_url", "enabled", "priority", "weight"}
  BY DEF BackendRow, BackendPatch
<1>2. /\ g.model = row.model
      /\ g.base_url = IF req.base_url # {} THEN CHOOSE v \in req.base_url : TRUE ELSE row.base_url
      /\ g.enabled = IF req.enabled # {} THEN CHOOSE v \in req.enabled : TRUE ELSE row.enabled
      /\ g.priority = IF req.priority # {} THEN CHOOSE v \in req.priority : TRUE ELSE row.priority
      /\ g.weight = IF req.weight # {} THEN CHOOSE v \in req.weight : TRUE ELSE row.weight
  BY <1>1 DEF Apply
<1>3. /\ g.model \in Models /\ g.base_url \in URLs /\ g.enabled \in BOOLEAN
      /\ g.priority \in Priorities /\ g.weight \in Weights
  <2>1. g.model \in Models
    BY <1>2 DEF BackendRow
  <2>2. g.base_url \in URLs
    BY <1>2, SentValue DEF BackendRow, BackendPatch
  <2>3. g.enabled \in BOOLEAN
    BY <1>2, SentValue DEF BackendRow, BackendPatch
  <2>4. g.priority \in Priorities /\ g.weight \in Weights
    BY <1>2, SentValue DEF BackendRow, BackendPatch
  <2> QED BY <2>1, <2>2, <2>3, <2>4
<1>4. g \in [{"model", "base_url", "enabled", "priority", "weight"} -> {g[f] : f \in DOMAIN row}]
  BY <1>1 DEF Apply
<1>5. \A f \in DOMAIN row : g[f] # row[f] => f \in FieldsSent(req)
  BY <1>1 DEF Apply, FieldsSent
<1> HIDE DEF g
<1>6. g \in BackendRow
  BY <1>3, <1>4 DEF BackendRow
<1> QED BY <1>5, <1>6 DEF g

\* The same for patchPolicy.
LEMMA ApplyPolicy ==
    ASSUME NEW row \in PolicyRow, NEW req \in PolicyPatch
    PROVE  /\ Apply(row, req) \in PolicyRow
           /\ ValidatePolicy(row) /\ PatchAccepted("policy", Apply(row, req), req) =>
                 ValidatePolicy(Apply(row, req))
           /\ \A f \in DOMAIN row :
                 Apply(row, req)[f] # row[f] => f \in FieldsSent(req)
<1> DEFINE g == Apply(row, req)
<1>1. /\ DOMAIN row = {"model", "config", "enabled"}
      /\ DOMAIN req = {"config", "enabled"}
  BY DEF PolicyRow, PolicyPatch
<1>2. /\ g.model = row.model
      /\ g.config = IF req.config # {} THEN CHOOSE v \in req.config : TRUE ELSE row.config
      /\ g.enabled = IF req.enabled # {} THEN CHOOSE v \in req.enabled : TRUE ELSE row.enabled
  BY <1>1 DEF Apply
<1>3. g.model \in Models /\ g.config \in Configs /\ g.enabled \in BOOLEAN
  <2>1. g.model \in Models
    BY <1>2 DEF PolicyRow
  <2>2. g.config \in Configs
    BY <1>2, SentValue DEF PolicyRow, PolicyPatch
  <2>3. g.enabled \in BOOLEAN
    BY <1>2, SentValue DEF PolicyRow, PolicyPatch
  <2> QED BY <2>1, <2>2, <2>3
<1>4. g \in [{"model", "config", "enabled"} -> {g[f] : f \in DOMAIN row}]
  BY <1>1 DEF Apply
<1>5. \A f \in DOMAIN row : g[f] # row[f] => f \in FieldsSent(req)
  BY <1>1 DEF Apply, FieldsSent
<1>7. ValidatePolicy(row) /\ PatchAccepted("policy", g, req) => ValidatePolicy(g)
  <2>1. PatchAccepted("policy", g, req) <=> (req.config # {} => ValidatePolicy(g))
    BY DEF PatchAccepted
  <2>2. req.config = {} => g.config = row.config
    BY <1>2
  <2> HIDE DEF g
  <2> QED BY <2>1, <2>2 DEF ValidatePolicy
<1> HIDE DEF g
<1>6. g \in PolicyRow
  BY <1>3, <1>4 DEF PolicyRow
<1> QED BY <1>5, <1>6, <1>7 DEF g

\* A row that is written is good for its table; no row disappears.
LEMMA RowWritten ==
    ASSUME TablesGood, NEW t \in Tables, NEW n \in Names, NEW row, Good(t, n, row),
           rows' = [rows EXCEPT ![t][n] = row]
    PROVE  /\ TablesGood'
           /\ \A u \in Tables, m \in Names : rows[u][m] # NoRow => rows'[u][m] # NoRow
<1>1. row \in BackendRow \cup PolicyRow /\ row # NoRow
  BY SeedAssumption DEF Good, RowOf
<1>2. rows' \in [Tables -> [Names -> BackendRow \cup PolicyRow \cup {NoRow}]]
  BY <1>1 DEF TablesGood
<1>3. \A u \in Tables, m \in Names :
         rows'[u][m] = IF u = t /\ m = n THEN row ELSE rows[u][m]
  BY DEF TablesGood
<1>4. \A u \in Tables, m \in Names : rows'[u][m] # NoRow => Good(u, m, rows'[u][m])
  BY <1>3 DEF TablesGood
<1> QED BY <1>1, <1>2, <1>3, <1>4 DEF TablesGood, Good, SeedMade

\* Handlers that do not move keep what they hold.
LEMMA OthersKept ==
    ASSUME AdminInv, NEW a \in Handlers, NEW ans, ans # "refused",
           hand' = [hand EXCEPT ![a] = Answered(ans)],
           TablesGood', UNCHANGED seed,
           \A u \in Tables, m \in Names : rows[u][m] # NoRow => rows'[u][m] # NoRow
    PROVE  AdminInv'
<1>1. DOMAIN hand' = Handlers /\ \A b \in Handlers : b # a => hand'[b] = hand[b]
  BY DEF AdminInv
<1>2. hand'[a].ans = ans /\ hand'[a].pc = "idle"
  BY DEF AdminInv, Answered
<1>3. \A b \in Handlers : HandGood(b)'
  BY <1>1, <1>2 DEF AdminInv, HandGood, Writes
<1> QED BY <1>1, <1>3 DEF AdminInv

\* validateBackendValues asks for what the CHECK constraints ask for.
LEMMA ChecksPass ==
    ASSUME NEW t, NEW row, Validate(t, row)
    PROVE  Checks(t, row)
BY DEF Validate, ValidateBackendValues, Checks

\* An INSERT of a validated row.
LEMMA CreateKeeps ==
    ASSUME AdminInv, NEW a \in Handlers, NEW t \in Tables, NEW n \in Names,
           NEW row \in RowOf(t), Create(a, t, n, row)
    PROVE  AdminInv'
<1>a. ASSUME NEW ans, ans # "refused",
             hand' = [hand EXCEPT ![a] = Answered(ans)], UNCHANGED rows
      PROVE  AdminInv'
  <2>1. TablesGood'
    BY <1>a DEF AdminInv, TablesGood
  <2>2. UNCHANGED seed
    BY DEF Create
  <2> QED BY <1>a, <2>1, <2>2, OthersKept
<1>1. CASE ~Validate(t, row)
  BY <1>1, <1>a DEF Create
<1>2. CASE Validate(t, row)
  <2>1. Insert(a, t, n, row) /\ UNCHANGED seed
    BY <1>2 DEF Create
  <2>2. ASSUME Checks(t, row), InRange(t, row), rows' = [rows EXCEPT ![t][n] = row],
               NEW ans \in {"created", "internal"},
               hand' = [hand EXCEPT ![a] = Answered(ans)]
        PROVE  AdminInv'
    <3>1. Good(t, n, row)
      BY <1>2, <2>2 DEF Good, Validate
    <3>2. /\ TablesGood'
          /\ \A u \in Tables, m \in Names : rows[u][m] # NoRow => rows'[u][m] # NoRow
      BY <2>2, <3>1, RowWritten DEF AdminInv
    <3> QED BY <2>1, <2>2, <3>2, OthersKept
  <2> QED BY <1>2, <1>a, <2>1, <2>2, ChecksPass DEF Insert
<1> QED BY <1>1, <1>2

\* A PATCH loads the row and keeps, if it is valid, what it will write.
LEMMA PatchLoadKeeps ==
    ASSUME AdminInv, NEW a \in Handlers, NEW t \in Tables, NEW n \in Names, NEW req,
           rows[t][n] # NoRow =>
              /\ Apply(rows[t][n], req) \in RowOf(t)
              /\ \A f \in DOMAIN rows[t][n] :
                    Apply(rows[t][n], req)[f] # rows[t][n][f] => f \in FieldsSent(req)
              /\ PatchAccepted(t, Apply(rows[t][n], req), req) =>
                    Validate(t, Apply(rows[t][n], req)),
           PatchLoad(a, t, n, req)
    PROVE  AdminInv'
<1>0. UNCHANGED <<rows, seed>> /\ TablesGood'
  BY DEF PatchLoad, AdminInv, TablesGood
<1>a. ASSUME NEW ans, ans # "refused",
             hand' = [hand EXCEPT ![a] = Answered(ans)]
      PROVE  AdminInv'
  BY <1>0, <1>a, OthersKept
<1>b. ASSUME rows[t][n] # NoRow, NEW new, new = Apply(rows[t][n], req), Validate(t, new),
             NEW h, h = [pc |-> "write", at |-> <<t, n>>, old |-> rows[t][n], row |-> new,
                   sent |-> FieldsSent(req), ans |-> "none"],
             hand' = [hand EXCEPT ![a] = h]
      PROVE  AdminInv'
  <2>1. DOMAIN hand' = Handlers /\ \A b \in Handlers : hand'[b] = IF b = a THEN h ELSE hand[b]
    BY <1>b DEF AdminInv
  <2>2. Writes(a, t, n)' /\ h.ans = "none" /\ h.pc = "write"
    BY <1>0, <1>b, <2>1 DEF Writes
  <2>3. \A b \in Handlers : HandGood(b)'
    <3>1. HandGood(a)'
      BY <2>1, <2>2 DEF HandGood
    <3>2. ASSUME NEW b \in Handlers, b # a PROVE HandGood(b)'
      BY <1>0, <2>1, <3>2 DEF AdminInv, HandGood, Writes
    <3> QED BY <3>1, <3>2
  <2> QED BY <1>0, <2>1, <2>3 DEF AdminInv
<1> QED BY <1>a, <1>b DEF PatchLoad

\* The second statement of a PATCH: the row was validated before, whatever has
\* happened to the table in between.
LEMMA UpdateKeeps ==
    ASSUME AdminInv, NEW a \in Handlers, Update(a)
    PROVE  AdminInv'
<1>1. PICK t \in Tables, n \in Names : Writes(a, t, n)
  BY DEF Update, AdminInv, HandGood
<1>2. hand[a].at[1] = t /\ hand[a].at[2] = n /\ Checks(t, hand[a].row) /\ UNCHANGED seed
  BY <1>1, ChecksPass DEF Writes, Update
<1>3. ASSUME NEW ans \in {"updated", "internal"}, hand' = [hand EXCEPT ![a] = Answered(ans)],
             UNCHANGED rows
      PROVE  AdminInv'
  <2>1. TablesGood'
    BY <1>3 DEF AdminInv, TablesGood
  <2>2. hand' = [hand EXCEPT ![a] = Answered(ans)]
    BY <1>3 DEF AdminInv
  <2> QED BY <1>2, <1>3, <2>1, <2>2, OthersKept
<1>4. ASSUME InRange(t, hand[a].row), rows' = [rows EXCEPT ![t][n] = hand[a].row],
             NEW ans \in {"updated", "internal"}, hand' = [hand EXCEPT ![a] = Answered(ans)]
      PROVE  AdminInv'
  <2>1. Good(t, n, hand[a].row)
    BY <1>1, <1>2, <1>4 DEF Good, Writes, Validate
  <2>2. /\ TablesGood'
        /\ \A u \in Tables, m \in Names : rows[u][m] # NoRow => rows'[u][m] # NoRow
    BY <1>4, <2>1, RowWritten DEF AdminInv
  <2>3. hand' = [hand EXCEPT ![a] = Answered(ans)]
    BY <1>4 DEF AdminInv
  <2> QED BY <1>2, <2>2, <2>3, OthersKept
<1> QED BY <1>2, <1>3, <1>4 DEF Update

\* An upsert of the seeder writes a declared row.
LEMMA SeedKeeps ==
    ASSUME AdminInv, SeedUpsert
    PROVE  AdminInv'
<1>1. Len(Declared) \in Nat /\ seed + 1 \in 1 .. Len(Declared)
  BY SeedAssumption DEF AdminInv, SeedUpsert
<1>2. PICK k \in 1 .. Len(Declared) : k = seed + 1
  BY <1>1
<1>3. PICK d : d = Declared[k]
  OBVIOUS
<1>4. PICK u \in SeedURLs : rows' = [rows EXCEPT ![d.table][d.name] = SeedRow(d, u)]
  BY <1>2, <1>3 DEF SeedUpsert, Upsert
<1>7. /\ d.table \in Tables /\ d.name \in Names
      /\ d.row \in RowOf(d.table) /\ Checks(d.table, d.row) /\ InRange(d.table, d.row)
      /\ d.table = "policy" => ValidatePolicy(d.row)
  <2> DEFINE D == [table : Tables, name : Names, row : BackendRow \cup PolicyRow]
  <2>1. Declared \in Seq(D)
    BY SeedAssumption
  <2>2. d \in D
    <3> HIDE DEF D
    <3> QED BY <1>3, <2>1
  <2>3. /\ d.row \in RowOf(d.table) /\ Checks(d.table, d.row) /\ InRange(d.table, d.row)
        /\ d.table = "policy" => ValidatePolicy(d.row)
    BY <1>3, SeedAssumption, Zenon
  <2> QED BY <2>2, <2>3
<1>8. Good(d.table, d.name, SeedRow(d, u))
  <2>1. SeedMade(d.table, d.name, SeedRow(d, u))
    BY <1>3 DEF SeedMade
  <2>2. CASE d.table = "backend"
    <3>1. d.row \in BackendRow /\ u \in URLs
      BY <1>7, <2>2, AdminAssumption DEF RowOf
    <3>2. PICK row : row = SeedRow(d, u)
      OBVIOUS
    <3>3. /\ row \in BackendRow
          /\ row.priority = d.row.priority /\ row.weight = d.row.weight
      BY <2>2, <3>1, <3>2 DEF SeedRow, BackendRow
    <3>4. Checks("backend", row) /\ InRange("backend", row)
      BY <1>7, <2>2, <3>3 DEF Checks, InRange
    <3> QED BY <2>1, <2>2, <3>2, <3>3, <3>4 DEF Good, RowOf
  <2>3. CASE d.table = "policy"
    BY <1>7, <2>1, <2>3 DEF Good, SeedRow
  <2> QED BY <1>7, <2>2, <2>3 DEF Tables
<1>9. /\ TablesGood'
      /\ \A t \in Tables, m \in Names : rows[t][m] # NoRow => rows'[t][m] # NoRow
  BY <1>4, <1>7, <1>8, RowWritten DEF AdminInv
<1>5. seed' \in 0 .. Len(Declared) /\ hand' = hand
  BY <1>1 DEF SeedUpsert
<1>6. \A a \in Handlers : HandGood(a)'
  BY <1>5, <1>9 DEF AdminInv, HandGood, Writes
<1> QED BY <1>5, <1>6, <1>9 DEF AdminInv

\* Every step keeps the invariant.
LEMMA AdminInvStep ==
    ASSUME AdminInv, [Next]_vars
    PROVE  AdminInv'
<1>1. ASSUME NEW a \in Handlers, CreateBackend(a) PROVE AdminInv'
  <2>1. PICK n \in Names, m \in Models, u \in URLs, p \in Priorities, w \in Weights,
             e \in Sent(BOOLEAN) :
           Create(a, "backend", n,
                  [model |-> m, base_url |-> u, enabled |-> EnabledOr(e),
                   priority |-> p, weight |-> w])
    BY <1>1 DEF CreateBackend
  <2>2. EnabledOr(e) \in BOOLEAN
    BY SentValue DEF EnabledOr
  <2>3. [model |-> m, base_url |-> u, enabled |-> EnabledOr(e), priority |-> p, weight |-> w]
           \in RowOf("backend")
    BY <2>2 DEF RowOf, BackendRow
  <2> QED BY <2>1, <2>3, CreateKeeps DEF Tables
<1>2. ASSUME NEW a \in Handlers, CreatePolicy(a) PROVE AdminInv'
  <2>1. PICK n \in Names, m \in Models, c \in Sent(Configs), e \in Sent(BOOLEAN) :
           Create(a, "policy", n,
                  [model |-> m, config |-> DefaultConfig(c), enabled |-> EnabledOr(e)])
    BY <1>2 DEF CreatePolicy
  <2>2. EnabledOr(e) \in BOOLEAN
    BY SentValue DEF EnabledOr
  <2>3. DefaultConfig(c) \in Configs
    BY SentValue, AdminAssumption DEF DefaultConfig
  <2>4. [model |-> m, config |-> DefaultConfig(c), enabled |-> EnabledOr(e)] \in RowOf("policy")
    BY <2>2, <2>3 DEF RowOf, PolicyRow
  <2> QED BY <2>1, <2>4, CreateKeeps DEF Tables
<1>3. ASSUME NEW a \in Handlers, PatchBackend(a) PROVE AdminInv'
  <2>1. PICK n \in Names, req \in BackendPatch : PatchLoad(a, "backend", n, req)
    BY <1>3 DEF PatchBackend
  <2>2. rows["backend"][n] # NoRow => rows["backend"][n] \in BackendRow
    BY DEF AdminInv, TablesGood, Good, RowOf, Tables
  <2>3. \A row : PatchAccepted("backend", row, req) => Validate("backend", row)
    BY DEF PatchAccepted, Validate
  <2> QED BY <2>1, <2>2, <2>3, ApplyBackend, PatchLoadKeeps DEF Tables, RowOf
<1>4. ASSUME NEW a \in Handlers, PatchPolicy(a) PROVE AdminInv'
  <2>1. PICK n \in Names, req \in PolicyPatch : PatchLoad(a, "policy", n, req)
    BY <1>4 DEF PatchPolicy
  <2>2. rows["policy"][n] # NoRow =>
           rows["policy"][n] \in PolicyRow /\ ValidatePolicy(rows["policy"][n])
    BY DEF AdminInv, TablesGood, Good, RowOf, Tables
  <2>3. \A row : ValidatePolicy(row) => Validate("policy", row)
    BY DEF Validate
  <2> QED BY <2>1, <2>2, <2>3, ApplyPolicy, PatchLoadKeeps DEF Tables, RowOf
<1>5. ASSUME NEW a \in Handlers, Update(a) PROVE AdminInv'
  BY <1>5, UpdateKeeps
<1>6. CASE SeedUpsert
  BY <1>6, SeedKeeps
<1>7. CASE SeedAgain \/ UNCHANGED vars
  <2>1. UNCHANGED <<rows, hand>> /\ seed' \in {seed, 0}
    BY <1>7 DEF SeedAgain, vars
  <2>2. seed' \in 0 .. Len(Declared)
    BY <2>1, SeedAssumption DEF AdminInv
  <2> QED BY <2>1, <2>2 DEF AdminInv, TablesGood, HandGood, Writes
<1> QED BY <1>1, <1>2, <1>3, <1>4, <1>5, <1>6, <1>7 DEF Next

\* The invariant in every reachable state.
LEMMA AdminInvAlways == Spec => []AdminInv
<1>1. Init => AdminInv
  <2> SUFFICES ASSUME Init PROVE AdminInv
    OBVIOUS
  <2>1. TablesGood
    BY DEF Init, TablesGood
  <2>2. DOMAIN hand = Handlers /\ \A a \in Handlers : HandGood(a)
    BY DEF Init, Answered, HandGood
  <2>3. seed \in 0 .. Len(Declared)
    BY SeedAssumption DEF Init
  <2> QED BY <2>1, <2>2, <2>3 DEF AdminInv
<1> QED BY <1>1, AdminInvStep, PTL DEF Spec

\* Every stored row fits its columns and is valid or as the seeder wrote it, though a
\* PATCH loads and writes in two statements with no transaction around them
\* (patchBackend, patchPolicy); what a handler is about to write is valid.
THEOREM StoredRowsValid == Spec => []RowsValid
<1>1. ASSUME AdminInv PROVE RowsValid
  <2>1. \A t \in Tables, n \in Names :
           rows[t][n] # NoRow =>
              /\ rows[t][n] \in RowOf(t)
              /\ Checks(t, rows[t][n]) /\ InRange(t, rows[t][n])
              /\ Validate(t, rows[t][n]) \/ SeededAsIs(t, n)
    BY <1>1 DEF AdminInv, TablesGood, Good, SeedMade, SeededAsIs
  <2>2. ASSUME NEW a \in Handlers, hand[a].pc = "write"
        PROVE  /\ rows[hand[a].at[1]][hand[a].at[2]] # NoRow
               /\ hand[a].row \in RowOf(hand[a].at[1])
               /\ Validate(hand[a].at[1], hand[a].row)
    <3>1. PICK t \in Tables, n \in Names : Writes(a, t, n)
      BY <1>1, <2>2 DEF AdminInv, HandGood
    <3> QED BY <3>1 DEF Writes
  <2> QED BY <1>1, <2>1, <2>2 DEF AdminInv, HandGood, RowsValid
<1> QED BY <1>1, AdminInvAlways, PTL

\* No row that a handler sends to the database fails a CHECK there.
THEOREM NothingRefused == Spec => []ChecksMirrored
<1>1. AdminInv => ChecksMirrored
  BY DEF AdminInv, HandGood, ChecksMirrored
<1> QED BY <1>1, AdminInvAlways, PTL

\* A PATCH whose row nobody has changed since it was loaded changes the fields it
\* was sent and no other.
THEOREM PatchIsPartial == Spec => PatchTouchesOnlySent
<1>1. ASSUME AdminInv, [Next]_vars, NEW a \in Handlers, NEW t \in Tables, NEW n \in Names,
             WroteBy(a, t, n), rows[t][n] = hand[a].old,
             NEW f \in DOMAIN rows[t][n], rows'[t][n][f] # rows[t][n][f]
      PROVE  f \in hand[a].sent
  <2>1. hand[a].pc = "write" /\ hand'[a].pc = "idle" /\ hand[a].at = <<t, n>> /\ hand' # hand
    BY <1>1 DEF WroteBy
  <2>2. PICK b \in Handlers : Update(b) \/ (Idle(b) /\ \E h : hand' = [hand EXCEPT ![b] = h])
    <3>1. ASSUME NEW b \in Handlers, NEW u, NEW m, NEW row, Create(b, u, m, row)
          PROVE  Idle(b) /\ \E h : hand' = [hand EXCEPT ![b] = h]
      BY <3>1 DEF Create, Insert
    <3>2. ASSUME NEW b \in Handlers, NEW u, NEW m, NEW req, PatchLoad(b, u, m, req)
          PROVE  Idle(b) /\ \E h : hand' = [hand EXCEPT ![b] = h]
      BY <3>2 DEF PatchLoad
    <3>3. ~SeedUpsert /\ ~SeedAgain /\ ~UNCHANGED vars
      BY <2>1 DEF SeedUpsert, SeedAgain, vars
    <3> QED BY <1>1, <3>1, <3>2, <3>3
      DEF Next, CreateBackend, CreatePolicy, PatchBackend, PatchPolicy
  <2>3. \E h : hand' = [hand EXCEPT ![b] = h]
    BY <2>2 DEF Update
  <2>4. b = a /\ Update(a)
    BY <1>1, <2>1, <2>2, <2>3 DEF Idle, AdminInv
  <2>5. rows' = rows \/ rows' = [rows EXCEPT ![t][n] = hand[a].row]
    BY <2>1, <2>4 DEF Update
  <2>6. rows'[t][n] = hand[a].row
    BY <1>1, <2>5 DEF AdminInv, TablesGood
  <2>7. PICK u \in Tables, m \in Names : Writes(a, u, m)
    BY <1>1, <2>1 DEF AdminInv, HandGood
  <2> QED BY <1>1, <2>6, <2>7 DEF Writes
<1>2. ASSUME AdminInv, [Next]_vars PROVE TouchesOnlySent
  BY <1>1, <1>2 DEF TouchesOnlySent
<1> QED BY <1>2, AdminInvAlways, PTL DEF Spec, PatchTouchesOnlySent

-----------------------------------------------------------------------------
(***************************************************************************)
(* The rate limiter, for any keys, limit and window: a request is charged  *)
(* once, and a window of time admits at most two limits.                   *)
(***************************************************************************)

\* A request on its way through the middleware and its handler.
SlotState == [pc : {"idle", "auth", "wrap", "handler", "limit", "work"},
              route : Get \cup Post, key : Keys \cup {NoKey}, charged : Nat]

\* Where a request stands when it has not been charged yet.  Only a read route
\* passes the middleware, so a POST request reaches its own check uncharged.
Uncharged(s) ==
    \/ s.pc \in {"idle", "auth", "wrap", "limit"}
    \/ s.pc = "handler" /\ s.route \in Post

\* A request at most charged once, and only where it may be; past BearerAuth it
\* has a key.
SlotGood(s) ==
    /\ s \in SlotState
    /\ s.charged <= 1
    /\ Uncharged(s) => s.charged = 0
    /\ s.pc = "wrap" => s.route \in Get
    /\ s.pc = "limit" => s.route \in Post
    /\ s.pc \in {"idle", "auth"} \/ s.key \in Keys

\* Every request is good.
RateInv == slot \in [Slots -> SlotState] /\ \A q \in Slots : SlotGood(slot[q])

\* A step that turns one request into a good one keeps the invariant.
LEMMA SlotReplaced ==
    ASSUME RateInv, NEW q \in Slots, NEW s, SlotGood(s), slot' = [slot EXCEPT ![q] = s]
    PROVE  RateInv'
BY DEF RateInv, SlotGood

\* A request that is answered leaves a free slot.
LEMMA RestingGood == SlotGood(Resting)
BY DEF SlotGood, Resting, SlotState, Uncharged, Get, Post

\* The check, from a place where nothing is charged yet to one where it may be.
LEMMA AllowRateKeeps ==
    ASSUME RateInv, NEW q \in Slots, NEW onward \in {"handler", "work"},
           slot[q].pc \in {"wrap", "limit"}, onward = "handler" => slot[q].route \in Get,
           AllowRate(q, onward)
    PROVE  RateInv'
  <1>1. slot[q] \in SlotState /\ slot[q].charged = 0 /\ slot[q].key \in Keys
    BY DEF RateInv, SlotGood, Uncharged
  <1>2. CASE slot' = [slot EXCEPT ![q] = Resting]
    BY <1>2, SlotReplaced, RestingGood
  <1>3. CASE slot' = [slot EXCEPT ![q].pc = onward, ![q].charged = @ + 1]
    <2> DEFINE s == [slot[q] EXCEPT !.pc = onward, !.charged = 1]
    <2>1. SlotGood(s)
      <3>1. /\ s \in SlotState /\ s.pc = onward /\ s.charged = 1
            /\ s.route = slot[q].route /\ s.route \in Get \cup Post /\ s.key \in Keys
        BY <1>1 DEF SlotState
      <3>2. ~Uncharged(s)
        BY <3>1 DEF Uncharged, Get, Post
      <3> QED BY <3>1, <3>2 DEF SlotGood
    <2>2. slot' = [slot EXCEPT ![q] = s]
      BY <1>1, <1>3 DEF RateInv, SlotState
    <2> QED BY <2>1, <2>2, SlotReplaced
  <1>4. CASE slot' = [slot EXCEPT ![q].pc = onward]
    <2> DEFINE s == [slot[q] EXCEPT !.pc = onward]
    <2>1. SlotGood(s)
      BY <1>1 DEF SlotGood, SlotState, Uncharged, Get, Post
    <2>2. slot' = [slot EXCEPT ![q] = s]
      BY <1>4 DEF RateInv
    <2> QED BY <2>1, <2>2, SlotReplaced
  <1>5. CASE slot' = slot
    BY <1>5 DEF RateInv
  <1> QED BY <1>2, <1>3, <1>4, <1>5 DEF AllowRate, Finish, Enter

\* Every step of the way keeps the invariant.
LEMMA RateInvStep ==
    ASSUME RateInv, [RateNext]_rateVars
    PROVE  RateInv'
  <1>1. CASE slot' = slot
    BY <1>1 DEF RateInv
  <1>2. ASSUME NEW q \in Slots, Arrive(q) PROVE RateInv'
    <2>1. PICK route \in Get \cup Post, k \in Keys \cup {NoKey} :
             slot' = [slot EXCEPT ![q] = [pc |-> "auth", route |-> route, key |-> k, charged |-> 0]]
      BY <1>2 DEF Arrive
    <2>2. SlotGood([pc |-> "auth", route |-> route, key |-> k, charged |-> 0])
      BY DEF SlotGood, SlotState, Uncharged
    <2> QED BY <2>1, <2>2, SlotReplaced
  <1>3. ASSUME NEW q \in Slots, slot[q].pc \in {"auth", "handler"},
               NEW pc \in {"wrap", "handler", "limit", "work"},
               pc = "wrap" => slot[q].route \in Get,
               pc = "handler" => slot[q].pc = "auth",
               pc = "limit" => slot[q].route \in Post,
               pc \in {"wrap", "limit"} => slot[q].pc = "auth" \/ slot[q].route \in Post,
               slot[q].key # NoKey, Enter(q, pc)
        PROVE  RateInv'
    <2> DEFINE s == [slot[q] EXCEPT !.pc = pc]
    <2>1. SlotGood(s)
      BY <1>3 DEF SlotGood, SlotState, Uncharged, RateInv
    <2>2. slot' = [slot EXCEPT ![q] = s]
      BY <1>3 DEF RateInv, Enter
    <2> QED BY <2>1, <2>2, SlotReplaced
  <1>4. ASSUME NEW q \in Slots, Finish(q) PROVE RateInv'
    BY <1>4, SlotReplaced, RestingGood DEF Finish
  <1>5. ASSUME NEW q \in Slots, BearerAuth(q) PROVE RateInv'
    <2>1. CASE Finish(q)
      BY <1>4, <2>1
    <2>2. CASE /\ slot[q].key # NoKey
               /\ Enter(q, IF slot[q].route \in Wrapped THEN "wrap" ELSE "handler")
      <3>1. slot[q].pc = "auth" /\ slot[q].key # NoKey
        BY <1>5, <2>2 DEF BearerAuth
      <3>2. CASE slot[q].route \in Wrapped
        <4>1. Enter(q, "wrap")
          BY <2>2, <3>2
        <4> QED BY <1>3, <3>1, <3>2, <4>1 DEF Wrapped
      <3>3. CASE slot[q].route \notin Wrapped
        <4>1. Enter(q, "handler")
          BY <2>2, <3>3
        <4> QED BY <1>3, <3>1, <4>1
      <3> QED BY <3>2, <3>3
    <2> QED BY <1>5, <2>1, <2>2 DEF BearerAuth
  <1>6. ASSUME NEW q \in Slots, RateLimitMiddleware(q) PROVE RateInv'
    BY <1>6, AllowRateKeeps DEF RateLimitMiddleware, RateInv, SlotGood
  <1>7. ASSUME NEW q \in Slots, CheckPost(q) PROVE RateInv'
    <2>1. slot[q].key # NoKey
      BY <1>7, RateAssumption DEF CheckPost, RateInv, SlotGood
    <2> QED BY <1>3, <1>4, <1>7, <2>1 DEF CheckPost
  <1>8. ASSUME NEW q \in Slots, LimitPost(q) PROVE RateInv'
    BY <1>8, AllowRateKeeps DEF LimitPost
  <1>9. ASSUME NEW q \in Slots, ReadHandler(q) PROVE RateInv'
    <2>1. slot[q].key # NoKey
      BY <1>9, RateAssumption DEF ReadHandler, RateInv, SlotGood
    <2> QED BY <1>3, <1>9, <2>1 DEF ReadHandler
  <1>10. ASSUME NEW q \in Slots, Respond(q) PROVE RateInv'
    BY <1>4, <1>10 DEF Respond
  <1> QED
    BY <1>1, <1>2, <1>5, <1>6, <1>7, <1>8, <1>9, <1>10 DEF RateNext, Elapsed, rateVars

\* A request is charged at most once, and a POST request not before its replay
\* lookup, for any keys, limits and number of requests (router.go: the chat and
\* create routes run the check themselves and are not wrapped).
THEOREM NoDoubleCharge == RateInit /\ [][RateNext]_rateVars => []ChargedOnce
  <1>1. RateInit => RateInv
    BY RestingGood DEF RateInit, RateInv, SlotGood
  <1>2. RateInv => ChargedOnce
    BY DEF RateInv, SlotGood, ChargedOnce, Uncharged
  <1> QED BY <1>1, <1>2, RateInvStep, PTL
-----------------------------------------------------------------------------
\* A request let through less than a window ago: the count it got, and how many
\* ticks ago.
Admission == [count : 1 .. Limit, age : 0 .. Window - 1]

\* The request e was let through in the life of the counter c that is running.
Current(c, e) == c.count > 0 /\ e.age <= Window - c.left

\* A key's counter and what it let through: within one life of the counter each
\* number is given once, and only one earlier life reaches into the window.
KeyGood(c, R) ==
    /\ c \in [count : 0 .. Limit + 1, left : 0 .. Window]
    /\ c.count = 0 <=> c.left = 0
    /\ R \subseteq Admission
    /\ c.count = 0 => \A e \in R : e.age >= 1
    /\ \A e \in R : Current(c, e) => e.count <= c.count
    /\ \A e, f \in R : e.count = f.count /\ (Current(c, e) <=> Current(c, f)) => e = f

\* The requests of each life have different numbers, so they are at most two
\* times the limit.
LEMMA TwoLives ==
    ASSUME NEW c, NEW R, KeyGood(c, R)
    PROVE  Cardinality(R) <= 2 * Limit
  <1> DEFINE f == [e \in R |-> IF Current(c, e) THEN e.count ELSE Limit + e.count]
  <1>0. Limit \in Nat \ {0} /\ Window \in Nat \ {0}
    BY RateAssumption
  <1>1. ASSUME NEW e \in R PROVE e.count \in 1 .. Limit
    BY DEF KeyGood, Admission
  <1>2. f \in [R -> 1 .. 2 * Limit]
    BY <1>0, <1>1
  <1>3. ASSUME NEW d \in R, NEW e \in R, f[d] = f[e] PROVE d = e
    <2>1. d.count \in 1 .. Limit /\ e.count \in 1 .. Limit
      BY <1>1
    <2>2. d.count = e.count /\ (Current(c, d) <=> Current(c, e))
      <3>1. CASE Current(c, d) /\ Current(c, e)
        BY <1>3, <3>1
      <3>2. CASE ~Current(c, d) /\ ~Current(c, e)
        BY <1>0, <1>3, <2>1, <3>2
      <3>3. CASE Current(c, d) /\ ~Current(c, e)
        BY <1>0, <1>3, <2>1, <3>3
      <3>4. CASE ~Current(c, d) /\ Current(c, e)
        BY <1>0, <1>3, <2>1, <3>4
      <3> QED BY <3>1, <3>2, <3>3, <3>4
    <2> QED BY <2>2 DEF KeyGood
  <1>4. f \in Injection(R, 1 .. 2 * Limit)
    <2> HIDE DEF f
    <2> QED BY <1>2, <1>3 DEF Injection, IsInjective
  <1>5. IsFiniteSet(1 .. 2 * Limit) /\ Cardinality(1 .. 2 * Limit) = 2 * Limit
    <2>1. 1 \in Int /\ 2 * Limit \in Int /\ ~(1 > 2 * Limit) /\ 2 * Limit - 1 + 1 = 2 * Limit
      BY <1>0
    <2> QED BY <2>1, FS_Interval
  <1> HIDE DEF f
  <1> QED BY <1>4, <1>5, FS_Injection

\* The script, its reply lost: the counter moves on and nothing is let through.
LEMMA HitGood ==
    ASSUME NEW k, NEW R, KeyGood(counter[k], R)
    PROVE  /\ KeyGood(Hit(k), R)
           /\ Hit(k).count <= Limit =>
                 KeyGood(Hit(k), R \cup {[count |-> Hit(k).count, age |-> 0]})
  <1>0. Limit \in Nat \ {0} /\ Window \in Nat \ {0}
    BY RateAssumption
  <1>1. PICK c \in [count : 0 .. Limit + 1, left : 0 .. Window] : c = counter[k]
    BY DEF KeyGood
  <1>2. c.count \in Nat /\ c.count <= Limit + 1 /\ c.left \in Nat /\ c.left <= Window
    BY <1>0
  <1>3. PICK h \in [count : 1 .. Limit + 1, left : 1 .. Window] :
           /\ h = Hit(k)
           /\ c.count = 0 => h.count = 1 /\ h.left = Window
           /\ c.count # 0 => h.left = c.left /\ h.count >= c.count
                             /\ (h.count <= Limit => h.count = c.count + 1)
    <2>1. CASE c.count = 0
      <3>1. Hit(k) = [count |-> 1, left |-> Window]
        BY <1>1, <2>1 DEF Hit
      <3>2. [count |-> 1, left |-> Window] \in [count : 1 .. Limit + 1, left : 1 .. Window]
        BY <1>0
      <3> QED BY <2>1, <3>1, <3>2
    <2>2. CASE c.count # 0
      <3>1. c.left >= 1
        BY <1>1, <1>2, <2>2 DEF KeyGood
      <3> DEFINE n == IF c.count <= Limit THEN c.count + 1 ELSE c.count
      <3>2. Hit(k) = [c EXCEPT !.count = n]
        BY <1>1, <2>2 DEF Hit
      <3>3. n \in 1 .. Limit + 1 /\ n >= c.count /\ (n <= Limit => n = c.count + 1)
        BY <1>0, <1>2, <2>2
      <3> HIDE DEF n
      <3> QED BY <1>0, <1>1, <1>2, <2>2, <3>1, <3>2, <3>3
    <2> QED BY <2>1, <2>2
  <1>4. /\ R \subseteq Admission
        /\ c.count = 0 => \A e \in R : e.age >= 1
        /\ \A e \in R : Current(c, e) => e.count <= c.count
        /\ \A e, f \in R : e.count = f.count /\ (Current(c, e) <=> Current(c, f)) => e = f
    BY <1>1 DEF KeyGood
  <1>5. /\ h.count \in Nat \ {0} /\ h.left \in Nat \ {0}
        /\ h.count <= Limit + 1 /\ h.left <= Window
    BY <1>0
  <1>6. ASSUME NEW e \in R PROVE e.count \in Nat /\ e.age \in Nat
    BY <1>0, <1>4 DEF Admission
  <1>7. ASSUME NEW e \in R PROVE Current(h, e) <=> Current(c, e)
    <2>1. CASE c.count = 0
      <3>1. ~Current(c, e)
        BY <2>1 DEF Current
      <3>2. h.left = Window /\ e.age >= 1
        BY <1>3, <1>4, <2>1
      <3>3. ~Current(h, e)
        BY <1>0, <1>6, <3>2 DEF Current
      <3> QED BY <3>1, <3>3
    <2>2. CASE c.count # 0
      BY <1>2, <1>3, <1>5, <2>2 DEF Current
    <2> QED BY <2>1, <2>2
  <1>8. ASSUME NEW e \in R, Current(h, e)
        PROVE  e.count <= c.count /\ e.count <= h.count /\ c.count # 0
    <2>1. Current(c, e)
      BY <1>7, <1>8
    <2>2. c.count # 0
      BY <2>1 DEF Current
    <2> QED BY <1>2, <1>3, <1>4, <1>5, <1>6, <2>1, <2>2
  <1>9. KeyGood(h, R)
    BY <1>3, <1>4, <1>5, <1>7, <1>8 DEF KeyGood
  <1>10. ASSUME h.count <= Limit
         PROVE  KeyGood(h, R \cup {[count |-> h.count, age |-> 0]})
    <2> DEFINE a == [count |-> h.count, age |-> 0]
    <2>1. a \in Admission /\ a.count = h.count /\ a.age = 0
      BY <1>0, <1>5, <1>10 DEF Admission
    <2>2. Current(h, a)
      BY <1>0, <1>5, <2>1 DEF Current
    <2>3. ASSUME NEW e \in R, Current(h, e) PROVE e.count # a.count
      <3>1. h.count = c.count + 1
        BY <1>3, <1>8, <1>10, <2>3
      <3> QED BY <1>2, <1>6, <1>8, <2>1, <2>3, <3>1
    <2> HIDE DEF a
    <2>4. R \cup {a} \subseteq Admission
      BY <1>4, <2>1
    <2>5. \A e \in R \cup {a} : Current(h, e) => e.count <= h.count
      BY <1>5, <1>8, <2>1
    <2>6. ASSUME NEW e \in R \cup {a}, NEW f \in R \cup {a},
                 e.count = f.count, Current(h, e) <=> Current(h, f)
          PROVE  e = f
      <3>1. CASE e \in R /\ f \in R
        BY <1>4, <1>7, <2>6, <3>1
      <3>2. CASE e = a \/ f = a
        BY <2>2, <2>3, <2>6, <3>2
      <3> QED BY <3>1, <3>2
    <2>7. KeyGood(h, R \cup {a})
      BY <1>3, <1>5, <2>4, <2>5, <2>6 DEF KeyGood
    <2> QED BY <2>7 DEF a
  <1> QED BY <1>3, <1>9, <1>10

\* What a tick does to the requests of the window and to a counter.
Aged(R) == {[e EXCEPT !.age = @ + 1] : e \in {e \in R : e.age + 1 < Window}}
Older(c) == IF c.left <= 1 THEN [count |-> 0, left |-> 0] ELSE [c EXCEPT !.left = @ - 1]

\* A tick: when the counter is gone, the requests of its life are the only ones
\* left in the window.
LEMMA ElapsedGood ==
    ASSUME NEW c, NEW R, KeyGood(c, R)
    PROVE  KeyGood(Older(c), Aged(R))
  <1>0. Limit \in Nat \ {0} /\ Window \in Nat \ {0}
    BY RateAssumption
  <1>1. /\ c \in [count : 0 .. Limit + 1, left : 0 .. Window]
        /\ c.count \in Nat /\ c.left \in Nat /\ c.left <= Window
        /\ c.count = 0 <=> c.left = 0
    BY <1>0 DEF KeyGood
  <1>2. ASSUME NEW a \in Aged(R)
        PROVE  \E e \in R : /\ a = [count |-> e.count, age |-> e.age + 1] /\ e.age + 1 < Window
                            /\ e.count \in 1 .. Limit /\ e.age \in 0 .. Window - 1
    <2>1. PICK e \in R : a = [e EXCEPT !.age = @ + 1] /\ e.age + 1 < Window
      BY DEF Aged
    <2>2. e \in Admission
      BY DEF KeyGood
    <2> QED BY <2>1, <2>2 DEF Admission
  <1>3. ASSUME NEW a \in Aged(R) PROVE a \in Admission /\ a.age >= 1
    <2>1. PICK e \in R : /\ a = [count |-> e.count, age |-> e.age + 1] /\ e.age + 1 < Window
                         /\ e.count \in 1 .. Limit /\ e.age \in 0 .. Window - 1
      BY <1>2
    <2> QED BY <1>0, <2>1 DEF Admission
  <1>4. PICK d : d = Older(c)
    OBVIOUS
  <1>5. CASE c.left <= 1
    <2>1. d = [count |-> 0, left |-> 0]
      BY <1>4, <1>5 DEF Older
    <2>2. d \in [count : 0 .. Limit + 1, left : 0 .. Window] /\ d.count = 0 /\ d.left = 0
      BY <1>0, <2>1
    <2>3. \A a \in Aged(R) : ~Current(d, a)
      BY <2>2 DEF Current
    <2>4. ASSUME NEW a \in Aged(R), NEW b \in Aged(R), a.count = b.count PROVE a = b
      <3>1. PICK e \in R : /\ a = [count |-> e.count, age |-> e.age + 1] /\ e.age + 1 < Window
                           /\ e.count \in 1 .. Limit /\ e.age \in 0 .. Window - 1
        BY <1>2
      <3>2. PICK f \in R : /\ b = [count |-> f.count, age |-> f.age + 1] /\ f.age + 1 < Window
                           /\ f.count \in 1 .. Limit /\ f.age \in 0 .. Window - 1
        BY <1>2
      <3>3. Current(c, e) <=> Current(c, f)
        <4>1. CASE c.count = 0
          BY <4>1 DEF Current
        <4>2. CASE c.count # 0
          <5>1. c.left = 1 /\ c.count > 0
            BY <1>1, <1>5, <4>2
          <5> QED BY <1>0, <3>1, <3>2, <5>1 DEF Current
        <4> QED BY <4>1, <4>2
      <3>4. e.count = f.count
        BY <2>4, <3>1, <3>2
      <3>5. e = f
        BY <3>3, <3>4 DEF KeyGood
      <3> QED BY <3>1, <3>2, <3>5
    <2> QED BY <1>3, <1>4, <2>2, <2>3, <2>4 DEF KeyGood
  <1>6. CASE c.left > 1
    <2>1. d = [c EXCEPT !.left = c.left - 1]
      BY <1>1, <1>4, <1>6 DEF Older
    <2>2. /\ d \in [count : 0 .. Limit + 1, left : 0 .. Window]
          /\ d.count = c.count /\ d.left = c.left - 1 /\ d.left # 0 /\ d.count > 0
      BY <1>0, <1>1, <1>6, <2>1
    <2>3. ASSUME NEW a \in Aged(R), NEW e \in R, a = [count |-> e.count, age |-> e.age + 1],
                 e.age \in 0 .. Window - 1
          PROVE  Current(d, a) <=> Current(c, e)
      <3>1. a.age = e.age + 1
        BY <2>3
      <3>2. e.age \in Nat
        BY <2>3, <1>0
      <3>3. a.age <= Window - d.left <=> e.age <= Window - c.left
        BY ONLY <1>0, <1>1, <2>2, <3>1, <3>2
      <3> QED BY <2>2, <3>3 DEF Current
    <2>4. ASSUME NEW a \in Aged(R), Current(d, a) PROVE a.count <= d.count
      <3>1. PICK e \in R : /\ a = [count |-> e.count, age |-> e.age + 1] /\ e.age + 1 < Window
                           /\ e.count \in 1 .. Limit /\ e.age \in 0 .. Window - 1
        BY <1>2
      <3>2. Current(c, e)
        BY <2>3, <2>4, <3>1
      <3>3. e.count <= c.count
        BY <3>2 DEF KeyGood
      <3> QED BY <2>2, <3>1, <3>3
    <2>5. ASSUME NEW a \in Aged(R), NEW b \in Aged(R), a.count = b.count,
                 Current(d, a) <=> Current(d, b)
          PROVE  a = b
      <3>1. PICK e \in R : /\ a = [count |-> e.count, age |-> e.age + 1] /\ e.age + 1 < Window
                           /\ e.count \in 1 .. Limit /\ e.age \in 0 .. Window - 1
        BY <1>2
      <3>2. PICK f \in R : /\ b = [count |-> f.count, age |-> f.age + 1] /\ f.age + 1 < Window
                           /\ f.count \in 1 .. Limit /\ f.age \in 0 .. Window - 1
        BY <1>2
      <3>3. Current(c, e) <=> Current(c, f)
        BY <2>3, <2>5, <3>1, <3>2
      <3>4. e.count = f.count
        BY <2>5, <3>1, <3>2
      <3>5. e = f
        BY <3>3, <3>4 DEF KeyGood
      <3> QED BY <3>1, <3>2, <3>5
    <2> QED BY <1>3, <1>4, <2>2, <2>4, <2>5 DEF KeyGood
  <1> QED BY <1>1, <1>5, <1>6

\* Every key's counter is good with the requests it let through.
WindowInv ==
    /\ counter \in [Keys -> [count : 0 .. Limit + 1, left : 0 .. Window]]
    /\ recent \in [Keys -> SUBSET Admission]
    /\ \A k \in Keys : KeyGood(counter[k], recent[k])

\* A step that leaves one key's counter and requests good.
LEMMA KeyReplaced ==
    ASSUME WindowInv, NEW k \in Keys, NEW c, NEW R, KeyGood(c, R),
           counter' = [counter EXCEPT ![k] = c], recent' = [recent EXCEPT ![k] = R]
    PROVE  WindowInv'
  <1>1. c \in [count : 0 .. Limit + 1, left : 0 .. Window] /\ R \in SUBSET Admission
    BY DEF KeyGood
  <1>2. ASSUME NEW j \in Keys PROVE KeyGood(counter'[j], recent'[j])
    BY DEF WindowInv
  <1> QED BY <1>1, <1>2 DEF WindowInv

\* The check moves the counter of the request's key, and lets the request
\* through or not.
LEMMA AllowRateCounts ==
    ASSUME WindowInv, NEW q \in Slots, slot[q].key \in Keys, NEW onward, AllowRate(q, onward)
    PROVE  WindowInv'
  <1>1. PICK k \in Keys : k = slot[q].key
    OBVIOUS
  <1>2. KeyGood(counter[k], recent[k])
    BY DEF WindowInv
  <1>3. CASE counter' = [counter EXCEPT ![k] = Hit(k)] /\ UNCHANGED recent
    <2>1. recent' = [recent EXCEPT ![k] = recent[k]]
      BY <1>3 DEF WindowInv
    <2> QED BY <1>2, <1>3, <2>1, HitGood, KeyReplaced
  <1>4. CASE /\ counter' = [counter EXCEPT ![k] = Hit(k)] /\ Within(Hit(k).count)
             /\ recent' = [recent EXCEPT ![k] = @ \cup {[count |-> Hit(k).count, age |-> 0]}]
    <2>1. KeyGood(Hit(k), recent[k] \cup {[count |-> Hit(k).count, age |-> 0]})
      BY <1>2, <1>4, HitGood DEF Within
    <2>2. recent' = [recent EXCEPT ![k] = recent[k] \cup {[count |-> Hit(k).count, age |-> 0]}]
      BY <1>4
    <2> QED BY <1>4, <2>1, <2>2, KeyReplaced
  <1>5. CASE UNCHANGED <<counter, recent>>
    BY <1>5 DEF WindowInv
  <1> QED BY <1>1, <1>3, <1>4, <1>5 DEF AllowRate

\* Every step keeps each key's counter and requests good.
LEMMA WindowInvStep ==
    ASSUME RateInv, WindowInv, [RateNext]_rateVars
    PROVE  WindowInv'
  <1>1. CASE UNCHANGED <<counter, recent>>
    BY <1>1 DEF WindowInv
  <1>2. ASSUME NEW q \in Slots, RateLimitMiddleware(q) PROVE WindowInv'
    <2>1. slot[q].key \in Keys
      BY <1>2 DEF RateInv, SlotGood, RateLimitMiddleware
    <2> QED BY <1>2, <2>1, AllowRateCounts DEF RateLimitMiddleware
  <1>3. ASSUME NEW q \in Slots, LimitPost(q) PROVE WindowInv'
    <2>1. slot[q].key \in Keys
      BY <1>3 DEF RateInv, SlotGood, LimitPost
    <2> QED BY <1>3, <2>1, AllowRateCounts DEF LimitPost
  <1>4. CASE Elapsed
    <2>1. /\ counter' = [k \in Keys |-> Older(counter[k])]
          /\ recent' = [k \in Keys |-> Aged(recent[k])]
      BY <1>4 DEF Elapsed, Older, Aged
    <2>2. ASSUME NEW k \in Keys PROVE KeyGood(counter'[k], recent'[k])
      BY <2>1, ElapsedGood DEF WindowInv
    <2>3. ASSUME NEW k \in Keys
          PROVE  /\ Older(counter[k]) \in [count : 0 .. Limit + 1, left : 0 .. Window]
                 /\ Aged(recent[k]) \in SUBSET Admission
      BY <2>1, <2>2 DEF KeyGood
    <2> QED BY <2>1, <2>2, <2>3 DEF WindowInv
  <1> QED
    BY <1>1, <1>2, <1>3, <1>4
    DEF RateNext, rateVars, Arrive, BearerAuth, CheckPost, ReadHandler, Respond

\* In any stretch as long as the window the counter lets through at most twice
\* the limit, for any limit, window and number of requests (the script arms one
\* expiry per counter).
THEOREM AtMostTwoWindows == RateInit /\ [][RateNext]_rateVars => []WindowBound
  <1>1. RateInit => RateInv
    BY RestingGood DEF RateInit, RateInv, SlotGood
  <1>2. RateInit => WindowInv
    <2> SUFFICES ASSUME RateInit PROVE WindowInv
      OBVIOUS
    <2> DEFINE c == [count |-> 0, left |-> 0]
    <2>1. c \in [count : 0 .. Limit + 1, left : 0 .. Window] /\ c.count = 0 /\ c.left = 0
      BY RateAssumption
    <2>2. KeyGood(c, {})
      BY <2>1 DEF KeyGood
    <2>3. counter = [k \in Keys |-> c] /\ recent = [k \in Keys |-> {}]
      BY DEF RateInit
    <2> HIDE DEF c
    <2> QED BY <2>1, <2>2, <2>3 DEF WindowInv
  <1>3. WindowInv => WindowBound
    BY TwoLives DEF WindowInv, WindowBound, Admitted
  <1> QED BY <1>1, <1>2, <1>3, RateInvStep, WindowInvStep, PTL

-----------------------------------------------------------------------------
(***************************************************************************)
(* The decoder of batch bodies, for arrays of any length: it accepts       *)
(* exactly the well-formed ones.                                           *)
(***************************************************************************)

\* The entries the loop has passed.
Looked == 1 .. next - 1

\* What the loop knows of the entries it has looked at.
PrefixGood ==
    /\ \A n \in Looked : /\ entries[n].known /\ entries[n].id \in CustomIds
                         /\ entries[n].body \in BatchModels /\ entries[n].body = model
    /\ \A m, n \in Looked : entries[m].id = entries[n].id => m = n
    /\ seen = {entries[n].id : n \in Looked}
    /\ next = 1 => model = ""

\* A verdict is given at the end of the array, or at an entry that is refused.
VerdictGrounded ==
    /\ verdict = "accepted" => CountInRange /\ next = Len(entries) + 1
    /\ verdict = "refused" =>
          ~CountInRange \/ (next <= Len(entries) /\ Refused(entries[next]))

\* The loop is within the array, or one past its end.
DecodeInv ==
    /\ entries \in Seq(Entry) /\ next \in 1 .. Len(entries) + 1
    /\ PrefixGood /\ VerdictGrounded

\* An entry that is not refused has an id, a body and the fields the loop knows.
LEMMA NotRefused ==
    ASSUME NEW e \in Entry, ~Refused(e)
    PROVE  /\ e.known /\ e.id \in CustomIds /\ e.id \notin seen /\ e.body \in BatchModels
           /\ model # "" => e.body = model
  <1>1. CASE e \in [known : {TRUE}, id : CustomIds \cup {"mistyped", ""},
                    body : BatchModels \cup {"missing", "invalid"}]
    BY <1>1 DEF Refused
  <1>2. CASE e \in [known : {FALSE}, id : {""}, body : {"missing"}]
    BY <1>2 DEF Refused
  <1> QED BY <1>1, <1>2 DEF Entry

\* The loop's first state.
LEMMA DecodeInvInit == DecodeInit => DecodeInv
  <1> SUFFICES ASSUME DecodeInit PROVE DecodeInv
    OBVIOUS
  <1>1. PICK n \in 0 .. MaxRequests + 1 : entries \in [1 .. n -> Entry]
    BY DEF DecodeInit
  <1>2. n \in Nat
    <2>1. MaxRequests \in Nat
      BY DecodeAssumption
    <2> QED BY <2>1
  <1>3. entries \in Seq(Entry) /\ Len(entries) = n
    BY <1>1, <1>2
  <1>4. next = 1 /\ seen = {} /\ model = "" /\ verdict = "open"
    BY DEF DecodeInit
  <1>5. Looked = {}
    <2>1. next = 1
      BY <1>4
    <2> QED BY ONLY <2>1 DEF Looked
  <1>6. next \in 1 .. Len(entries) + 1
    <2>1. next = 1
      BY <1>4
    <2> QED BY ONLY <1>2, <1>3, <2>1
  <1> QED BY <1>3, <1>4, <1>5, <1>6 DEF DecodeInv, PrefixGood, VerdictGrounded

\* Taking an entry adds it to the ones known to be good and different.
LEMMA DecodeInvStep ==
    ASSUME DecodeInv, [DecodeNext]_decodeVars
    PROVE  DecodeInv'
  <1>0. /\ entries \in Seq(Entry) /\ Len(entries) \in Nat /\ next \in 1 .. Len(entries) + 1
        /\ next \in Nat
    BY DEF DecodeInv
  <1>1. CASE TakeEntry
    <2>1. /\ verdict = "open" /\ CountInRange /\ next <= Len(entries) /\ ~Refused(entries[next])
          /\ entries' = entries /\ verdict' = verdict /\ next' = next + 1
          /\ seen' = seen \cup {entries[next].id}
          /\ model' = IF model = "" THEN entries[next].body ELSE model
      BY <1>1 DEF TakeEntry
    <2>a. next' = next + 1 /\ next <= Len(entries)
      BY <2>1
    <2>2. PICK e \in Entry : e = entries[next]
      <3>1. next \in 1 .. Len(entries)
        BY ONLY <1>0, <2>a
      <3> QED BY ONLY <1>0, <3>1
    <2>3. /\ e.known /\ e.id \in CustomIds /\ e.id \notin seen /\ e.body \in BatchModels
          /\ model # "" => e.body = model
      BY <2>1, <2>2, NotRefused
    <2>4. Looked' = Looked \cup {next}
      BY ONLY <1>0, <2>a DEF Looked
    <2>5. model' = e.body
      BY <2>1, <2>2, <2>3
    <2>6. ASSUME NEW n \in Looked'
          PROVE  /\ entries[n].known /\ entries[n].id \in CustomIds
                 /\ entries[n].body \in BatchModels /\ entries[n].body = model'
      <3>1. CASE n = next
        BY <2>2, <2>3, <2>5, <3>1
      <3>2. CASE n \in Looked
        BY <2>3, <2>5, <3>2, DecodeAssumption DEF DecodeInv, PrefixGood
      <3> QED BY <2>4, <3>1, <3>2
    <2>7. ASSUME NEW m \in Looked', NEW n \in Looked', entries[m].id = entries[n].id
          PROVE  m = n
      <3>1. ASSUME NEW k \in Looked PROVE entries[k].id # e.id
        BY <2>3, <3>1 DEF DecodeInv, PrefixGood
      <3> QED BY <2>2, <2>4, <2>7, <3>1 DEF DecodeInv, PrefixGood
    <2>8. seen' = {entries[n].id : n \in Looked'}
      BY <2>1, <2>2, <2>4 DEF DecodeInv, PrefixGood
    <2>9. PrefixGood'
      <3>1. next' # 1
        BY ONLY <1>0, <2>a
      <3> QED BY <2>1, <2>6, <2>7, <2>8, <3>1 DEF PrefixGood
    <2>10. VerdictGrounded'
      BY <2>1 DEF VerdictGrounded
    <2>11. next' \in 1 .. Len(entries) + 1
      BY ONLY <1>0, <2>a
    <2> QED BY <1>0, <2>1, <2>9, <2>10, <2>11 DEF DecodeInv
  <1>2. CASE Refuse \/ Accept
    <2>1. /\ UNCHANGED <<entries, next, seen, model>>
          /\ Refused(entries[next]) <=> Refused(entries[next])'
      BY <1>2 DEF Refuse, Accept, Refused
    <2>2. VerdictGrounded'
      BY <1>0, <1>2, <2>1 DEF Refuse, Accept, VerdictGrounded, CountInRange
    <2> QED BY <2>1, <2>2 DEF DecodeInv, PrefixGood, Looked
  <1>3. CASE UNCHANGED decodeVars
    BY <1>3 DEF decodeVars, DecodeInv, PrefixGood, VerdictGrounded, Looked, CountInRange, Refused
  <1> QED BY <1>1, <1>2, <1>3 DEF DecodeNext

\* The loop of decodeBatchCreate, which looks at each entry once and remembers
\* ids in a map, accepts exactly the arrays whose entries are complete, pairwise
\* different in id and alike in model, for any number of entries.
THEOREM AcceptsWellFormed == DecodeInit /\ [][DecodeNext]_decodeVars => []DecodesExactly
  <1>1. ASSUME DecodeInv PROVE DecodesExactly
    <2>0. /\ entries \in Seq(Entry) /\ Len(entries) \in Nat /\ next \in 1 .. Len(entries) + 1
          /\ next \in Nat
      BY <1>1 DEF DecodeInv
    <2>1. DOMAIN entries = 1 .. Len(entries)
      BY <2>0
    <2>2. ASSUME verdict = "accepted" PROVE WellFormed /\ model = entries[1].body
      <3>1. CountInRange /\ next = Len(entries) + 1
        BY <1>1, <2>2 DEF DecodeInv, VerdictGrounded
      <3>2. Looked = 1 .. Len(entries)
        BY <2>0, <3>1 DEF Looked
      <3>3. 1 \in Looked
        BY <2>0, <3>1, <3>2 DEF CountInRange
      <3> QED BY <1>1, <2>1, <3>1, <3>2, <3>3 DEF DecodeInv, PrefixGood, WellFormed, CountInRange
    <2>3. ASSUME verdict = "refused", WellFormed PROVE FALSE
      <3>1. next <= Len(entries) /\ Refused(entries[next])
        BY <1>1, <2>3 DEF DecodeInv, VerdictGrounded, WellFormed, CountInRange
      <3>2. next \in DOMAIN entries /\ Looked \subseteq DOMAIN entries /\ next \notin Looked
        BY <2>0, <2>1, <3>1 DEF Looked
      <3>3. CASE entries[next].id \in seen
        <4>1. PICK n \in Looked : entries[n].id = entries[next].id
          BY <1>1, <3>3 DEF DecodeInv, PrefixGood
        <4> QED BY <2>3, <3>2, <4>1 DEF WellFormed
      <3>4. CASE model # "" /\ entries[next].body # model
        <4>1. 1 \in Looked
          <5>1. next # 1
            BY <1>1, <3>4 DEF DecodeInv, PrefixGood
          <5> QED BY ONLY <2>0, <5>1 DEF Looked
        <4> QED BY <1>1, <2>3, <3>2, <3>4, <4>1 DEF WellFormed, DecodeInv, PrefixGood
      <3>5. /\ entries[next].known /\ entries[next].id \in CustomIds
            /\ entries[next].body \in BatchModels
        BY <2>3, <3>2 DEF WellFormed
      <3> QED BY <3>1, <3>3, <3>4, <3>5, DecodeAssumption DEF Refused
    <2> QED BY <2>2, <2>3 DEF DecodesExactly
  <1> QED BY <1>1, DecodeInvInit, DecodeInvStep, PTL

=============================================================================
