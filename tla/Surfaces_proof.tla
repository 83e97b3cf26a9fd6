--------------------------- MODULE Surfaces_proof ---------------------------
(***************************************************************************)
(* Theorems about Surfaces, for any number of overlapping requests of any  *)
(* of the four surfaces.                                                   *)
(***************************************************************************)
EXTENDS Surfaces, TLAPS

-----------------------------------------------------------------------------
(* What requests name. *)

\* A request about table t names columns of t, a create no null, and none but
\* the tools of the agent a null for a list without an answer that holds it.
RequestOK(q, t) ==
  /\ q.op \in {"update", "create", "delete"}
  /\ DOMAIN q.named \subseteq Fields[t]
  /\ q.op = "create" => \A f \in DOMAIN q.named : q.named[f] # "null"
  /\ \/ q.whole = TRUE \/ q \in AgentSources \union AgentTemplates
     \/ \A f \in DOMAIN q.named \cap {"tags", "formats"} : q.named[f] # "null"

LEMMA UpdatesOK ==
  ASSUME NEW t \in Tables, NEW F \in SUBSET Fields[t], NEW V \in SUBSET Values, NEW w,
         NEW q \in Updates(F, V, w),
         \/ w = TRUE \/ "null" \notin V \/ F \cap {"tags", "formats"} = {}
         \/ q \in AgentSources \union AgentTemplates
  PROVE  RequestOK(q, t)
<1> DEFINE R(g, v) == Request("update", [f \in {g} |-> v], w)
<1>1. Updates(F, V, w) = {R(g, v) : g \in F, v \in V}
  BY DEF Updates
<1> HIDE DEF R
<1>2. PICK g \in F, v \in V : q = R(g, v)
  BY <1>1
<1>3. q.op = "update" /\ q.named = [f \in {g} |-> v] /\ q.whole = w
  BY <1>2 DEF R, Request
<1> QED
  BY <1>3 DEF RequestOK

LEMMA CreatesOK ==
  ASSUME NEW t \in Tables, NEW F \in SUBSET Fields[t], NEW w, NEW q \in Creates(F, w)
  PROVE  RequestOK(q, t)
<1>1. PICK n \in [F -> Values \ {"null"}] : q = Request("create", n, w)
  BY DEF Creates
<1>2. q.op = "create" /\ q.named = n
  BY <1>1 DEF Request
<1> QED
  BY <1>2 DEF RequestOK

LEMMA OthersOK ==
  ASSUME NEW t \in Tables
  PROVE  RequestOK(Delete, t) /\ \A w : RequestOK(Request("update", NoFields, w), t)
BY DEF Delete, NoFields, Request, RequestOK

\* The surfaces name columns of the table they are about.
LEMMA RequestsOK ==
  ASSUME NEW t \in Tables, NEW q \in Requests[t] PROVE RequestOK(q, t)
<1> USE UpdatesOK, CreatesOK, OthersOK DEF Kept, OnlySet
<1>1. CASE t = "sources"
  <2> USE <1>1 DEF Fields
  <2>1. ASSUME q \in HttpSources PROVE RequestOK(q, t)
    BY <2>1 DEF HttpSources
  <2>2. ASSUME q \in CliSources PROVE RequestOK(q, t)
    BY <2>2 DEF CliSources
  <2>3. ASSUME q \in McpSources PROVE RequestOK(q, t)
    BY <2>3 DEF McpSources
  <2>4. ASSUME q \in AgentSources PROVE RequestOK(q, t)
    BY <2>4 DEF AgentSources
  <2> QED
    BY <2>1, <2>2, <2>3, <2>4 DEF Requests
<1>2. CASE t = "subscriptions"
  <2> USE <1>2 DEF Fields
  <2>1. ASSUME q \in HttpSubscriptions PROVE RequestOK(q, t)
    BY <2>1 DEF HttpSubscriptions
  <2>2. ASSUME q \in CliSubscriptions PROVE RequestOK(q, t)
    BY <2>2 DEF CliSubscriptions
  <2>3. ASSUME q \in McpSubscriptions PROVE RequestOK(q, t)
    BY <2>3 DEF McpSubscriptions
  <2>4. ASSUME q \in AgentSubscriptions PROVE RequestOK(q, t)
    BY <2>4 DEF AgentSubscriptions
  <2> QED
    BY <2>1, <2>2, <2>3, <2>4 DEF Requests
<1>3. CASE t = "pipelines"
  <2> USE <1>3 DEF Fields
  <2>1. ASSUME q \in HttpPipelines PROVE RequestOK(q, t)
    BY <2>1 DEF HttpPipelines
  <2>2. ASSUME q \in CliPipelines PROVE RequestOK(q, t)
    BY <2>2 DEF CliPipelines
  <2>3. ASSUME q \in McpPipelines PROVE RequestOK(q, t)
    BY <2>3 DEF McpPipelines
  <2>4. ASSUME q \in AgentPipelines PROVE RequestOK(q, t)
    BY <2>4 DEF AgentPipelines
  <2> QED
    BY <2>1, <2>2, <2>3, <2>4 DEF Requests
<1>4. CASE t = "templates"
  <2> USE <1>4 DEF Fields
  <2>1. ASSUME q \in HttpTemplates PROVE RequestOK(q, t)
    BY <2>1 DEF HttpTemplates
  <2>2. ASSUME q \in CliTemplates PROVE RequestOK(q, t)
    BY <2>2 DEF CliTemplates
  <2>3. ASSUME q \in McpTemplates PROVE RequestOK(q, t)
    BY <2>3 DEF McpTemplates
  <2>4. ASSUME q \in AgentTemplates PROVE RequestOK(q, t)
    BY <2>4 DEF AgentTemplates
  <2> QED
    BY <2>1, <2>2, <2>3, <2>4 DEF Requests
<1> QED
  BY <1>1, <1>2, <1>3, <1>4 DEF Tables

-----------------------------------------------------------------------------
(* The invariant. *)

\* A client without a request asks for nothing.
LEMMA NoTxnAsksNothing ==
  NoTxn.request.op = "none" /\ DOMAIN NoTxn.request.named = {}
BY DEF NoTxn, Request, NoFields

\* There is no row, or it has the columns of its table and can be loaded.
Good(r, t) ==
  \/ r = NoRow
  \/ /\ DOMAIN r = Fields[t]
     /\ \A f \in Fields[t] :
          /\ f \in {"mode", "permissions", "base"} => r[f] # "bad"
          /\ f \in Required => r[f] # "null"

\* The row and what the requests have seen of it; a source or a subscription
\* that has been seen is there: their deletion is a pause.
Inv ==
  /\ table \in Tables
  /\ DOMAIN txn = Clients
  /\ Good(row, table)
  /\ \A c \in Clients : txn[c] # NoTxn =>
       /\ RequestOK(txn[c].request, table)
       /\ txn[c].request.op = "create" => ~Refuses(CreateChecks, txn[c].request.named)
       /\ Good(txn[c].seen, table)
       /\ table # "pipelines" \/ txn[c].request.op # "update"
            => txn[c].base = txn[c].seen /\ txn[c].ready
       /\ table \in {"sources", "subscriptions"} /\ txn[c].seen # NoRow => row # NoRow

LEMMA NoRowHasNoColumns ==
  ASSUME NEW t \in Tables PROVE DOMAIN NoRow # Fields[t] /\ DOMAIN NoRow = {}
<1>1. Fields[t] # {}
  BY DEF Tables, Fields
<1> QED
  BY <1>1 DEF NoRow, NoFields

\* Storing and flushing.
LEMMA FlushedGood ==
  ASSUME table \in Tables, row # NoRow, Good(row, table), NEW seen, NEW fields,
         \A f \in {"mode", "permissions", "base"} \cap DOMAIN fields : fields[f] # "bad",
         \A f \in Required \cap Fields[table] : Flushed(seen, fields)[f] # "null"
  PROVE  Good(Flushed(seen, fields), table)
BY DEF Flushed, Good

LEMMA DefaultedGood ==
  ASSUME table \in Tables, NEW named, ~Refuses(CreateChecks, named)
  PROVE  /\ DOMAIN Defaulted(named) = Fields[table]
         /\ \A f \in Fields[table] :
              /\ f \in {"mode", "permissions", "base"} => Defaulted(named)[f] # "bad"
              /\ f \in Required => Defaulted(named)[f] # "null"
BY DEF Defaulted, Refuses, CreateChecks, Required

LEMMA UpsertedGood ==
  ASSUME table \in Tables, Good(row, table), NEW seen, (seen = NoRow) = (row = NoRow),
         NEW named, ~Refuses(CreateChecks, named)
  PROVE  Good(Upserted(seen, named), table)
<1>1. CASE seen = NoRow
  BY <1>1, DefaultedGood DEF Upserted, Good
<1>2. CASE seen # NoRow
  <2> DEFINE fields == [f \in Configured |-> Defaulted(named)[f]]
  <2>1. Configured \subseteq Fields[table]
    BY DEF Configured
  <2>2. \A f \in DOMAIN fields :
          /\ f \in {"mode", "permissions", "base"} => fields[f] # "bad"
          /\ f \in Required => fields[f] # "null"
    BY <2>1, DefaultedGood
  <2>3. Upserted(seen, named) = Flushed(seen, fields)
    BY <1>2 DEF Upserted
  <2> HIDE DEF fields
  <2>4. \A f \in Required \cap Fields[table] : Flushed(seen, fields)[f] # "null"
    BY <1>2, <2>2, NoRowHasNoColumns DEF Flushed, Good
  <2> QED
    BY <1>2, <2>2, <2>3, <2>4, FlushedGood
<1> QED
  BY <1>1, <1>2

LEMMA MergedGood ==
  ASSUME table = "pipelines", NEW seen, Good(seen, table), seen # NoRow,
         NEW named, ~Refuses(PatchChecks, named)
  PROVE  /\ DOMAIN Merged(seen, named) = Fields[table]
         /\ \A f \in Fields[table] \cap {"mode", "permissions", "base"} :
              Merged(seen, named)[f] # "bad"
BY NoRowHasNoColumns DEF Merged, Coerced, Good, Refuses, PatchChecks, Tables

LEMMA PatchedGood ==
  ASSUME table \in Tables, Good(row, table), NEW t, Good(t.seen, table), t.seen # NoRow,
         (t.base = NoRow) = (row = NoRow),
         table # "pipelines" => t.base = t.seen,
         NEW named, ~Refuses(PatchChecks, named),
         NEW whole, Storable(Patched(t, named), whole)
  PROVE  /\ Good(Patched(t, named), table)
         /\ DOMAIN Patched(t, named) = Fields[table]
<1> DEFINE fields == IF table = "pipelines" THEN Merged(t.seen, named) ELSE named
<1>1. Patched(t, named) = IF t.base = NoRow THEN fields ELSE Flushed(t.base, fields)
  BY DEF Patched
<1>2. \A f \in {"mode", "permissions", "base"} \cap DOMAIN fields : fields[f] # "bad"
  BY MergedGood DEF Refuses, PatchChecks
<1>3. CASE t.base = NoRow
  <2>1. table = "pipelines" /\ Patched(t, named) = Merged(t.seen, named)
    BY <1>1, <1>3
  <2> QED
    BY <2>1, MergedGood DEF Good, Storable
<1>4. CASE t.base # NoRow
  <2> HIDE DEF fields
  <2>1. Patched(t, named) = Flushed(t.base, fields)
    BY <1>1, <1>4
  <2>2. DOMAIN Flushed(t.base, fields) = Fields[table]
    BY DEF Flushed
  <2>3. \A f \in Required \cap Fields[table] : Flushed(t.base, fields)[f] # "null"
    BY <2>1, <2>2 DEF Storable
  <2>4. Good(Flushed(t.base, fields), table)
    BY <1>2, <1>4, <2>3, FlushedGood
  <2> QED
    BY <2>1, <2>2, <2>4
<1> QED
  BY <1>3, <1>4

LEMMA RemovedGood ==
  ASSUME table \in Tables, Good(row, table), row # NoRow, NEW seen
  PROVE  Good(Flushed(seen, [f \in {"status"} |-> "v1"]), table)
<1> DEFINE fields == [f \in {"status"} |-> "v1"]
<1>1. DOMAIN fields = {"status"} /\ fields["status"] = "v1"
  OBVIOUS
<1> HIDE DEF fields
<1>2. \A f \in Required \cap Fields[table] : Flushed(seen, fields)[f] # "null"
  BY <1>1, NoRowHasNoColumns DEF Flushed, Good
<1>3. Good(Flushed(seen, fields), table)
  BY <1>1, <1>2, FlushedGood
<1> QED
  BY <1>3 DEF fields

-----------------------------------------------------------------------------
(* Steps. *)

\* A request that ends leaves the others as they are.
LEMMA EndKeeps ==
  ASSUME Inv, NEW c \in Clients, NEW how, End(c, how), Good(row', table),
         table \in {"sources", "subscriptions"} /\ row # NoRow => row' # NoRow
  PROVE  Inv'
<1>1. UNCHANGED table /\ DOMAIN txn' = Clients
  BY DEF End, Inv
<1>2. \A d \in Clients : txn'[d] # NoTxn => txn'[d] = txn[d]
  BY DEF End, Inv
<1> QED
  BY <1>1, <1>2 DEF Inv

\* A row that was there is no less there.
LEMMA StillThere ==
  ASSUME NEW r, table \in Tables, DOMAIN r = Fields[table] PROVE r # NoRow
BY NoRowHasNoColumns

LEMMA InvUpdate ==
  ASSUME Inv, NEW c \in Clients, Update(c) PROVE Inv'
<1> DEFINE named == txn[c].request.named
           whole == txn[c].request.whole
<1>1. table \in Tables /\ Good(row, table)
  BY DEF Inv
<1>2. txn[c] # NoTxn
  BY NoTxnAsksNothing DEF Update
<1>3. CASE row' = row /\ \E how : End(c, how)
  BY <1>1, <1>3, EndKeeps
<1>4. CASE /\ txn[c].seen # NoRow /\ ~Refuses(PatchChecks, named)
           /\ (txn[c].base = NoRow) = (row = NoRow)
           /\ Storable(Patched(txn[c], named), whole)
           /\ row' = Patched(txn[c], named) /\ End(c, "done")
  <2>1. Good(txn[c].seen, table) /\ (table # "pipelines" => txn[c].base = txn[c].seen)
    BY <1>2 DEF Inv
  <2>2. Good(row', table) /\ DOMAIN row' = Fields[table]
    BY <1>1, <1>4, <2>1, PatchedGood
  <2> QED
    BY <1>1, <1>4, <2>2, EndKeeps, StillThere
<1> QED
  BY <1>3, <1>4 DEF Update, WriteOrFail, Overtaken

LEMMA InvCreate ==
  ASSUME Inv, NEW c \in Clients, Create(c) PROVE Inv'
<1> DEFINE named == txn[c].request.named
           base == txn[c].base
<1>1. table \in Tables /\ Good(row, table)
  BY DEF Inv
<1>2. txn[c] # NoTxn
  BY NoTxnAsksNothing DEF Create
<1>3. CASE row' = row /\ \E how : End(c, how)
  BY <1>1, <1>3, EndKeeps
<1>4. CASE /\ (base = NoRow) = (row = NoRow)
           /\ row' = Upserted(base, named) /\ End(c, "done")
  <2>1. ~Refuses(CreateChecks, named)
    BY <1>2 DEF Inv, Create
  <2>2. Good(row', table)
    BY <1>1, <1>4, <2>1, UpsertedGood
  <2>3. DOMAIN row' = Fields[table]
    BY <1>4 DEF Upserted, Defaulted, Flushed
  <2> QED
    BY <1>1, <1>4, <2>2, <2>3, EndKeeps, StillThere
<1> QED
  BY <1>3, <1>4 DEF Create, WriteOrFail, Overtaken

LEMMA InvRemove ==
  ASSUME Inv, NEW c \in Clients, Remove(c) PROVE Inv'
<1> DEFINE seen == txn[c].seen
<1>1. table \in Tables /\ Good(row, table)
  BY DEF Inv
<1>2. txn[c] # NoTxn /\ \E how : End(c, how)
  BY NoTxnAsksNothing DEF Remove
<1>3. CASE row' = row
  BY <1>1, <1>2, <1>3, EndKeeps
<1>4. CASE table \in {"pipelines", "templates"} /\ row' = NoRow
  BY <1>1, <1>2, <1>4, EndKeeps DEF Good
<1>5. CASE /\ table \in {"sources", "subscriptions"} /\ seen # NoRow
           /\ row' = Flushed(seen, [f \in {"status"} |-> "v1"])
  <2>1. row # NoRow
    BY <1>2, <1>5 DEF Inv
  <2>2. Good(row', table)
    BY <1>1, <1>5, <2>1, RemovedGood
  <2>3. DOMAIN row' = Fields[table]
    BY <1>5 DEF Flushed
  <2> QED
    BY <1>1, <1>2, <2>2, <2>3, EndKeeps, StillThere
<1> QED
  BY <1>1, <1>3, <1>4, <1>5 DEF Remove, Tables

LEMMA InvRead ==
  ASSUME Inv, NEW c \in Clients, NEW q \in Requests[table], Read(c, q) PROVE Inv'
<1>1. RequestOK(q, table)
  BY RequestsOK DEF Inv
<1>2. UNCHANGED <<table, row>> /\ DOMAIN txn' = Clients
      /\ txn'[c] = [request |-> q, seen |-> row, base |-> row,
                     ready |-> ~(table = "pipelines" /\ q.op = "update")]
      /\ \A d \in Clients \ {c} : txn'[d] = txn[d]
  BY DEF Read, Inv
<1>3. q.op = "create" => ~Refuses(CreateChecks, q.named)
  BY DEF Read
<1>4. /\ txn'[c].request = q /\ txn'[c].seen = row /\ txn'[c].base = row
      /\ txn'[c].ready = ~(table = "pipelines" /\ q.op = "update")
  BY <1>2
<1> QED
  BY <1>1, <1>2, <1>3, <1>4 DEF Inv

LEMMA InvMerge ==
  ASSUME Inv, NEW c \in Clients, Merge(c) PROVE Inv'
<1>1. UNCHANGED <<table, row>> /\ DOMAIN txn' = Clients
      /\ \A d \in Clients \ {c} : txn'[d] = txn[d]
  BY DEF Merge, Inv
<1>2. txn[c] # NoTxn
  BY NoTxnAsksNothing DEF Merge
<1>3. txn'[c].request = txn[c].request /\ txn'[c].seen = txn[c].seen
  BY DEF Merge, Inv
<1>4. table = "pipelines" /\ txn[c].request.op = "update"
  BY <1>2 DEF Inv, Merge
<1> QED
  BY <1>1, <1>2, <1>3, <1>4 DEF Inv

LEMMA InvInit == Init => Inv
<1> SUFFICES ASSUME Init PROVE Inv
  OBVIOUS
<1>1. DOMAIN txn = Clients /\ \A c \in Clients : txn[c] = NoTxn
  BY DEF Init
<1>2. table \in Tables /\ Good(row, table)
  BY DEF Init, Good
<1> QED
  BY <1>1, <1>2 DEF Inv

LEMMA InvStep ==
  ASSUME Inv, [Next]_vars PROVE Inv'
<1>1. CASE UNCHANGED vars
  BY <1>1 DEF vars, Inv
<1> QED
  BY <1>1, InvRead, InvMerge, InvUpdate, InvCreate, InvRemove DEF Next

LEMMA InvAlways == Spec => []Inv
BY InvInit, InvStep, PTL DEF Spec

-----------------------------------------------------------------------------
(* What a step may do. *)

\* The request that ends in a step is the one that moves.
LEMMA OneRequestEnds ==
  ASSUME Inv, [Next]_vars, NEW c \in Clients, txn[c] # NoTxn, txn'[c] = NoTxn
  PROVE  Update(c) \/ Create(c) \/ Remove(c)
<1>1. ~UNCHANGED vars
  BY DEF vars
<1>2. ASSUME NEW d \in Clients \ {c}, NEW how, End(d, how) PROVE FALSE
  BY <1>2 DEF End, Inv
<1>3. ASSUME NEW d \in Clients, Update(d) \/ Create(d) \/ Remove(d) PROVE \E how : End(d, how)
  BY <1>3 DEF Update, Create, Remove, WriteOrFail
<1>4. ASSUME NEW d \in Clients, NEW q, Read(d, q) PROVE FALSE
  <2>1. CASE c = d
    BY <1>4, <2>1 DEF Read
  <2>2. CASE c # d
    BY <1>4, <2>2 DEF Read, Inv
  <2> QED
    BY <2>1, <2>2
<1>5. ASSUME NEW d \in Clients, Merge(d) PROVE FALSE
  <2>1. CASE c = d
    <3>1. txn'[d].request = txn[d].request /\ txn[d].request.op = "update"
      BY <1>5 DEF Merge, Inv
    <3> QED
      BY <2>1, <3>1, NoTxnAsksNothing
  <2>2. CASE c # d
    BY <1>5, <2>2 DEF Merge, Inv
  <2> QED
    BY <2>1, <2>2
<1> QED
  BY <1>1, <1>2, <1>3, <1>4, <1>5 DEF Next

\* A partial update writes exactly what it names, whatever the surfaces and
\* however many requests overlap with it.
THEOREM PatchesAreExact == Spec => PatchIsExact
<1> DEFINE Exact(c) ==
      LET named == txn[c].request.named
          base == txn[c].base
      IN  txn[c].request.op = "update" /\ txn'[c] = NoTxn /\ outcome' = "done" =>
            /\ \A f \in DOMAIN named :
                 \/ row'[f] = Coerced(f, named[f])
                 \/ row # base /\ base[f] = Coerced(f, named[f])
            /\ \A f \in Fields[table] \ DOMAIN named :
                 (row # txn[c].seen /\ table = "pipelines") \/ row'[f] = row[f]
<1>1. ASSUME Inv, [Next]_vars, NEW c \in Clients, txn[c].request.op = "update",
             txn'[c] = NoTxn, outcome' = "done"
      PROVE  Exact(c)
  <2> DEFINE named == txn[c].request.named
             seen == txn[c].seen
             base == txn[c].base
  <2>1. txn[c] # NoTxn
    BY <1>1, NoTxnAsksNothing
  <2>2. Update(c)
    BY <1>1, <2>1, OneRequestEnds DEF Create, Remove
  <2>3. row' = Patched(txn[c], named) /\ seen # NoRow /\ table \in Tables
    BY <1>1, <2>2 DEF Update, WriteOrFail, End, Inv
  <2>4. DOMAIN named \subseteq Fields[table]
    BY <1>1, <2>1 DEF Inv, RequestOK
  <2>5. CASE table = "pipelines"
    <3>1. row' = IF base = NoRow THEN Merged(seen, named)
                 ELSE Flushed(base, Merged(seen, named))
      BY <2>3, <2>5 DEF Patched
    <3>2. \A f \in DOMAIN named : Merged(seen, named)[f] = Coerced(f, named[f])
      BY <2>4 DEF Merged
    <3>3. \A f \in Fields[table] \ DOMAIN named : Merged(seen, named)[f] = seen[f]
      BY DEF Merged
    <3>4. \A f \in DOMAIN named :
            \/ row'[f] = Coerced(f, named[f])
            \/ row # base /\ base[f] = Coerced(f, named[f])
      BY <2>4, <3>1, <3>2 DEF Flushed, Merged
    <3>5. row = seen => \A f \in Fields[table] \ DOMAIN named : row'[f] = row[f]
      BY <3>1, <3>3 DEF Flushed, Merged
    <3> QED
      BY <2>5, <3>4, <3>5
  <2>6. CASE table # "pipelines"
    <3>1. "permissions" \notin Fields[table]
      BY <2>3, <2>6 DEF Tables, Fields
    <3>2. \A f \in DOMAIN named : Coerced(f, named[f]) = named[f]
      BY <2>4, <3>1 DEF Coerced
    <3>3. base = seen
      BY <1>1, <2>1, <2>6 DEF Inv
    <3>4. row' = Flushed(base, named)
      BY <2>3, <2>6, <3>3 DEF Patched
    <3> QED
      BY <2>4, <3>2, <3>4 DEF Flushed
  <2> QED
    BY <2>5, <2>6
<1>2. Inv /\ [Next]_vars => [\A c \in Clients : Exact(c)]_vars
  BY <1>1
<1> QED
  BY <1>2, InvAlways, PTL DEF Spec, PatchIsExact

\* No update brings a deleted template back and no upsert reactivates a paused
\* source, whatever the surfaces and however many requests overlap.
THEOREM DeletedRowsStay == Spec => DeletedStays
<1> DEFINE Stays(c) ==
      txn[c] # NoTxn /\ txn'[c] = NoTxn /\ row' # row =>
        /\ table = "templates" /\ row = NoRow => txn[c].request.op = "create"
        /\ table = "sources" /\ row # NoRow /\ row["status"] = "v1"
             => row'["status"] = "v1" \/ "status" \in DOMAIN txn[c].request.named
<1>1. ASSUME Inv, [Next]_vars, NEW c \in Clients, txn[c] # NoTxn, txn'[c] = NoTxn,
             row' # row
      PROVE  Stays(c)
  <2>1. Update(c) \/ Create(c) \/ Remove(c)
    BY <1>1, OneRequestEnds
  <2>2. CASE table = "templates" /\ row = NoRow
    <3>1. txn[c].base = txn[c].seen
      BY <1>1, <2>2 DEF Inv
    <3>2. ~Update(c)
      BY <1>1, <2>2, <3>1 DEF Update, Overtaken
    <3>3. ~Remove(c)
      BY <1>1, <2>2 DEF Remove
    <3> QED
      BY <1>1, <2>1, <2>2, <3>2, <3>3 DEF Create
  <2>3. CASE table = "sources" /\ row # NoRow /\ row["status"] = "v1"
    <3>1. "status" \in Fields[table]
      BY <2>3 DEF Fields
    <3>2. CASE Update(c)
      <4>1. row' = Patched(txn[c], txn[c].request.named) /\ txn[c].base # NoRow
        BY <1>1, <2>3, <3>2 DEF Update, WriteOrFail, Overtaken
      <4>2. row' = Flushed(txn[c].base, txn[c].request.named)
        BY <2>3, <4>1 DEF Patched
      <4> QED
        BY <2>3, <3>1, <4>2 DEF Flushed
    <3>3. CASE Create(c)
      <4>1. row' = Upserted(txn[c].base, txn[c].request.named) /\ txn[c].base # NoRow
        BY <1>1, <2>3, <3>3 DEF Create, WriteOrFail, Overtaken
      <4>2. row'["status"] = row["status"]
        BY <2>3, <3>1, <4>1 DEF Upserted, Flushed, Configured
      <4> QED
        BY <2>3, <4>2
    <3>4. CASE Remove(c)
      BY <1>1, <2>3, <3>1, <3>4 DEF Remove, Flushed
    <3> QED
      BY <2>1, <3>2, <3>3, <3>4
  <2> QED
    BY <2>2, <2>3
<1>2. Inv /\ [Next]_vars => [\A c \in Clients : Stays(c)]_vars
  BY <1>1
<1> QED
  BY <1>2, InvAlways, PTL DEF Spec, DeletedStays

-----------------------------------------------------------------------------
(* What can be read. *)

\* Whatever the four surfaces create, patch and delete at the same time, no
\* column becomes unreadable but by the null of a tool of the agent.
THEOREM RowsAlwaysLoad == Spec => RowsLoad
<1> DEFINE Excused(f) ==
      \E c \in Clients :
        LET request == txn[c].request
        IN  /\ txn'[c] = NoTxn
            /\ request \in AgentSources \union AgentTemplates
            /\ f \in {"tags", "formats"} \cap DOMAIN request.named
            /\ request.named[f] = "null"
<1>1. ASSUME Inv, Inv', [Next]_vars, NEW f \in Fields[table],
             row' # NoRow, ~Readable(f, row'[f]), ~(row # NoRow /\ row'[f] = row[f])
      PROVE  Excused(f)
  <2>1. row' # row
    BY <1>1
  <2>2. table' = table /\ table \in Tables
    BY <1>1 DEF Next, Read, Merge, Update, Create, Remove, WriteOrFail, End, Inv, vars
  <2>3. f \in {"tags", "formats"} /\ row'[f] = "null"
    <3>1. DOMAIN row' = Fields[table]
      BY <1>1, <2>2 DEF Inv, Good
    <3> QED
      BY <1>1, <2>2, <3>1 DEF Inv, Good, Readable
  <2>4. table \in {"sources", "templates"}
    BY <2>2, <2>3 DEF Tables, Fields
  <2>5. PICK c \in Clients : Update(c) \/ Create(c) \/ Remove(c)
    BY <1>1, <2>1 DEF Next, Read, Merge, vars
  <2>6. txn[c] # NoTxn
    BY <2>5, NoTxnAsksNothing DEF Update, Create, Remove
  <2>7. RequestOK(txn[c].request, table) /\ txn[c].base = txn[c].seen
    BY <1>1, <2>4, <2>6 DEF Inv
  <2>8. CASE Update(c)
    <3>1. /\ row' = Patched(txn[c], txn[c].request.named) /\ txn[c].base # NoRow
          /\ row # NoRow /\ Storable(row', txn[c].request.whole) /\ End(c, "done")
      BY <2>1, <2>7, <2>8 DEF Update, WriteOrFail, Overtaken
    <3>2. row' = Flushed(txn[c].base, txn[c].request.named)
      BY <2>4, <3>1 DEF Patched
    <3>3. f \in DOMAIN txn[c].request.named /\ txn[c].request.named[f] = "null"
      BY <1>1, <2>3, <3>1, <3>2 DEF Flushed
    <3>4. txn[c].request.whole # TRUE
      BY <1>1, <2>3, <3>1, <3>2 DEF Storable, Flushed
    <3>5. txn[c].request \in AgentSources \union AgentTemplates
      BY <2>3, <2>7, <3>3, <3>4 DEF RequestOK
    <3>6. txn'[c] = NoTxn
      BY <1>1, <3>1 DEF End, Inv
    <3> QED
      BY <2>3, <3>3, <3>5, <3>6
  <2>9. CASE Create(c)
    <3>1. /\ row' = Upserted(txn[c].base, txn[c].request.named)
          /\ (txn[c].base = NoRow) = (row = NoRow)
      BY <2>1, <2>9 DEF Create, WriteOrFail, Overtaken
    <3>2. \A g \in DOMAIN txn[c].request.named : txn[c].request.named[g] # "null"
      BY <2>7, <2>9 DEF RequestOK, Create
    <3>3. Defaulted(txn[c].request.named)[f] # "null"
      BY <3>2 DEF Defaulted
    <3>4. CASE txn[c].base = NoRow
      BY <2>3, <3>1, <3>3, <3>4 DEF Upserted
    <3>5. CASE txn[c].base # NoRow
      <4> DEFINE fields == [g \in Configured |-> Defaulted(txn[c].request.named)[g]]
      <4>1. row' = Flushed(txn[c].base, fields) /\ row # NoRow
        BY <3>1, <3>5 DEF Upserted
      <4>2. f \in DOMAIN fields => fields[f] # "null"
        BY <3>3
      <4> HIDE DEF fields
      <4>3. row'[f] = row[f]
        BY <2>3, <4>1, <4>2 DEF Flushed
      <4> QED
        BY <1>1, <4>1, <4>3
    <3> QED
      BY <3>4, <3>5
  <2>10. CASE Remove(c)
    <3>1. /\ row' = NoRow \/ row' = Flushed(txn[c].seen, [g \in {"status"} |-> "v1"])
          /\ row' # NoRow => row # NoRow
      BY <1>1, <2>1, <2>4, <2>6, <2>10 DEF Remove, Inv
    <3>2. row'[f] = row[f]
      BY <1>1, <2>3, <3>1 DEF Flushed
    <3> QED
      BY <1>1, <3>1, <3>2
  <2> QED
    BY <2>5, <2>8, <2>9, <2>10
<1>2. Inv /\ Inv' /\ [Next]_vars =>
        [\A f \in Fields[table] :
           row' # NoRow /\ ~Readable(f, row'[f]) =>
             \/ row # NoRow /\ row'[f] = row[f]
             \/ Excused(f)]_vars
  BY <1>1
<1> QED
  BY <1>2, InvAlways, PTL DEF Spec, RowsLoad
=============================================================================
