------------------------------ MODULE Surfaces ------------------------------
(***************************************************************************)
(* Four surfaces edit the same four tables row by row: the HTTP API, the   *)
(* CLI on top of it, the tools of the MCP server and the tools of the      *)
(* agent.  Each has its own idea of which fields a request may name and of *)
(* what an absent or a null field means.  A request reads the row, then    *)
(* writes and commits; requests overlap.  The model follows one row of one *)
(* table, by a few of its fields; the tables do not depend on each other.  *)
(***************************************************************************)
EXTENDS Naturals, FiniteSets

CONSTANTS
  Clients,      \* requests that may be in flight together
  MaxRequests   \* bound on the requests

ASSUME SurfacesAssumption == MaxRequests \in Nat /\ IsFiniteSet(Clients)

\* v0 is what a create gives a field it does not name, v1 another value that is
\* fine ("paused" or "archived" for a status), bad one that the checks of a
\* create refuse.
Values == {"v0", "v1", "bad", "null"}

Tables == {"sources", "subscriptions", "pipelines", "templates"}

\* A field of each kind of column and of each kind of treatment.
Fields == [sources       |-> {"url", "tags", "proxy", "status"},
           subscriptions |-> {"frequency", "rules", "quiet", "status"},
           pipelines     |-> {"mode", "budget", "permissions"},
           templates     |-> {"base", "formats", "status"}]

\* The NOT NULL columns that are no JSON: None in a JSONB column is the JSON
\* null, which NOT NULL accepts.
Required == {"url", "status", "frequency", "mode", "base"}

NoFields == [f \in {} |-> "null"]
NoRow    == NoFields

-----------------------------------------------------------------------------
(* What a request asks for when its handler has read it. *)

\* whole: the answer is the whole row, checked against the response model.
Request(op, named, whole) == [op |-> op, named |-> named, whole |-> whole]

\* Updates of one field, creates that name all that the surface lets name and
\* have at most one bad value.
Updates(fields, values, whole) ==
  {Request("update", [f \in {g} |-> v], whole) : g \in fields, v \in values}
Creates(fields, whole) ==
  {Request("create", named, whole) :
     named \in {n \in [fields -> Values \ {"null"}] :
                 Cardinality({f \in fields : n[f] = "bad"}) <= 1}}
Delete == Request("delete", NoFields, FALSE)

\* model_dump(exclude_unset) and _pick tell null from absent.
Kept == Values

\* only_set: what is None has not been passed.
OnlySet == Values \ {"null"}

\* The patch model has every field; a body without any is a fine no-op.
HttpSources ==
  Updates({"url", "tags", "proxy", "status"}, Kept, TRUE)
  \union {Request("update", NoFields, TRUE), Delete}
  \union Creates({"url", "tags", "proxy"}, TRUE)
HttpSubscriptions ==
  Updates({"frequency", "rules", "quiet", "status"}, Kept, TRUE)
  \union {Request("update", NoFields, TRUE), Delete}
  \union Creates({"frequency", "rules", "quiet"}, TRUE)
HttpPipelines ==
  Updates({"mode", "budget", "permissions"}, Kept, TRUE)
  \union {Request("update", NoFields, TRUE), Delete}
  \union Creates({"mode", "budget", "permissions"}, TRUE)
HttpTemplates ==
  Updates({"base", "formats", "status"}, Kept, TRUE)
  \union {Request("update", NoFields, TRUE), Delete}
  \union Creates({"base", "formats", "status"}, TRUE)

\* The CLI sends what its options name, and exits if that is nothing.  It adds
\* a source by name, type and url, has no option for permissions and none to
\* update a template.  ("subscriptions patch" of channel_config: Catalog.)
CliSources ==
  Updates({"url", "tags", "status"}, OnlySet, TRUE) \union Creates({"url"}, TRUE)
  \union {Delete}
CliSubscriptions ==
  Updates({"frequency", "status"}, OnlySet, TRUE) \union Creates({"frequency", "rules"}, TRUE)
  \union {Delete}
CliPipelines ==
  Updates({"mode", "budget"}, OnlySet, TRUE) \union Creates({"mode", "budget"}, TRUE)
  \union {Delete}
CliTemplates == Creates({"base", "formats"}, TRUE) \union {Delete}

\* The tools of the MCP server answer with a part of the row.
McpSources ==
  Updates({"url", "tags", "status"}, OnlySet, FALSE) \union Creates({"url", "tags"}, FALSE)
  \union {Delete}
McpSubscriptions ==
  Updates({"frequency", "rules", "quiet", "status"}, OnlySet, FALSE)
  \union Creates({"frequency", "rules"}, FALSE) \union {Delete}
McpPipelines ==
  Updates({"mode", "budget", "permissions"}, OnlySet, FALSE) \union Creates({"mode"}, FALSE)
  \union {Delete}
McpTemplates ==
  Updates({"base", "formats", "status"}, OnlySet, FALSE)
  \union Creates({"base", "formats"}, FALSE) \union {Delete}

\* The tools of the agent take what the model wrote.
AgentSources ==
  Updates({"url", "tags", "proxy", "status"}, Kept, FALSE)
  \union Creates({"url", "tags", "proxy"}, FALSE) \union {Delete}
AgentSubscriptions ==
  Updates({"frequency", "rules", "quiet", "status"}, Kept, FALSE)
  \union Creates({"frequency", "rules", "quiet"}, FALSE) \union {Delete}
AgentPipelines ==
  Updates({"mode", "budget", "permissions"}, Kept, FALSE)
  \union Creates({"mode", "budget", "permissions"}, FALSE) \union {Delete}
AgentTemplates ==
  Updates({"base", "formats", "status"}, Kept, FALSE)
  \union Creates({"base", "formats", "status"}, FALSE) \union {Delete}

Requests ==
  [sources       |-> HttpSources \union CliSources \union McpSources \union AgentSources,
   subscriptions |-> HttpSubscriptions \union CliSubscriptions \union McpSubscriptions
                       \union AgentSubscriptions,
   pipelines     |-> HttpPipelines \union CliPipelines \union McpPipelines
                       \union AgentPipelines,
   templates     |-> HttpTemplates \union CliTemplates \union McpTemplates
                       \union AgentTemplates]

-----------------------------------------------------------------------------
(* What the services and the repositories make of it. *)

VARIABLES
  table,     \* the table that the behaviour is about
  row,       \* its row
  txn,       \* txn[c]: the request of c, the row as its first SELECT found it and
             \* as the SELECT before the write did, which may be the first
  outcome,   \* how the last request ended, for the properties
  requests   \* requests so far

vars == <<table, row, txn, outcome, requests>>

NoTxn == [request |-> Request("none", NoFields, FALSE),
          seen |-> NoRow, base |-> NoRow, ready |-> FALSE]

Init ==
  /\ table \in Tables
  /\ row = NoRow
  /\ txn = [c \in Clients |-> NoTxn]
  /\ outcome = "none"
  /\ requests = 0

\* SourceConfig, SubscriptionConfig, PipelineConfig.from_dict, TemplateConfig
\* and the services' create.
CreateChecks == {"url", "frequency", "mode", "permissions", "base", "formats", "status"}

\* Mutant of PatchChecks: update trusts the fields.
PatchChecksNone == {}

\* from_dict of the merged definition, _validate_base_template; what a patch of
\* a source or of a subscription says is not checked.
PatchChecks == {"mode", "permissions", "base"}

Refuses(checks, named) ==
  \E f \in DOMAIN named \cap checks :
    named[f] = "bad" \/ (named[f] = "null" /\ f \in Required)

\* The columns of a create: a field that is not named has its default.
Defaulted(named) ==
  [f \in Fields[table] |-> IF f \in DOMAIN named THEN named[f] ELSE "v0"]

\* from_dict makes the empty mapping of null permissions.
Coerced(f, value) == IF f = "permissions" /\ value = "null" THEN "v0" ELSE value

\* setattr of each field and a flush: the UPDATE names the columns whose value
\* is not the one that was read.
Flushed(base, fields) ==
  [f \in Fields[table] |->
     IF f \in DOMAIN fields /\ fields[f] # base[f] THEN fields[f] ELSE row[f]]

\* Mutant of Merged: what update does not name falls back to its default.
MergedAnew(seen, named) == Defaulted(named)

\* The definition of a pipeline: what the request names over what was read.
Merged(seen, named) ==
  [f \in Fields[table] |-> IF f \in DOMAIN named THEN Coerced(f, named[f]) ELSE seen[f]]

\* What update writes over the row as its last SELECT found it, if it did.
Patched(t, named) ==
  LET fields == IF table = "pipelines" THEN Merged(t.seen, named) ELSE named
  IN  IF t.base = NoRow THEN fields ELSE Flushed(t.base, fields)

\* Mutant of Configured: an upsert is a create, status included.
ConfiguredAll == Fields[table]

\* An upsert leaves the status of a source alone, a template's is configured.
Configured == Fields[table] \ (IF table = "templates" THEN {} ELSE {"status"})

Upserted(seen, named) ==
  IF seen = NoRow THEN Defaulted(named)
    ELSE Flushed(seen, [f \in Configured |-> Defaulted(named)[f]])

\* The columns take the row, and so does the response model: a list of tags, of
\* formats, is no null.
Storable(new, whole) ==
  /\ \A f \in DOMAIN new \cap Required : new[f] # "null"
  /\ whole => \A f \in DOMAIN new \cap {"tags", "formats"} : new[f] # "null"

-----------------------------------------------------------------------------
(* Requests. *)

End(c, how) ==
  /\ txn' = [txn EXCEPT ![c] = NoTxn]
  /\ outcome' = how
  /\ UNCHANGED <<table, requests>>

\* The handler parses the request, and its first SELECT reads the row.
Read(c, request) ==
  /\ requests < MaxRequests /\ requests' = requests + 1
  /\ txn[c] = NoTxn
  /\ request.op = "create" => ~Refuses(CreateChecks, request.named)
  /\ txn' = [txn EXCEPT ![c] =
               [request |-> request, seen |-> row, base |-> row,
                ready |-> ~(table = "pipelines" /\ request.op = "update")]]
  /\ outcome' = "none"
  /\ UNCHANGED <<table, row>>

\* update of a pipeline: the definition is merged and checked, and the upsert
\* reads the row once more (the object of the first SELECT is gone by then).
Merge(c) ==
  /\ txn[c].request.op = "update" /\ ~txn[c].ready /\ txn[c].seen # NoRow
  /\ ~Refuses(PatchChecks, txn[c].request.named)
  /\ txn' = [txn EXCEPT ![c].base = row, ![c].ready = TRUE]
  /\ outcome' = "none"
  /\ UNCHANGED <<table, row, requests>>

\* An exception ends the session in a rollback.
WriteOrFail(c, new, whole) ==
  IF Storable(new, whole)
    THEN row' = new /\ End(c, "done")
    ELSE row' = row /\ End(c, "failed")

\* The row came or went since the last SELECT: an INSERT finds the name taken, an
\* UPDATE no row.  A definition replaces the steps: those that another has put at
\* the same positions are in the way.
Overtaken(c) == (txn[c].base = NoRow) # (row = NoRow)
StepsCollide(c) == table = "pipelines" /\ row # txn[c].base

\* patch, update: of no row, of one that the checks refuse, of one that has been
\* overtaken, of others.
Update(c) ==
  LET request == txn[c].request
      refused == Refuses(PatchChecks, request.named)
  IN  /\ request.op = "update"
      /\ \/ txn[c].seen = NoRow /\ row' = row /\ End(c, "not found")
         \/ /\ txn[c].seen # NoRow
            /\ refused \/ (txn[c].ready /\ (Overtaken(c) \/ StepsCollide(c)))
            /\ row' = row /\ End(c, "failed")
         \/ /\ txn[c].seen # NoRow /\ txn[c].ready
            /\ ~refused /\ ~Overtaken(c)
            /\ WriteOrFail(c, Patched(txn[c], request.named), request.whole)

\* create: an upsert of all but subscriptions, of which any number may have one
\* name.
Create(c) ==
  LET request == txn[c].request
  IN  /\ request.op = "create"
      /\ \/ /\ table = "subscriptions" /\ row # NoRow
            /\ row' = row /\ End(c, "another row")
         \/ /\ table # "subscriptions" /\ (Overtaken(c) \/ StepsCollide(c))
            /\ row' = row /\ End(c, "failed")
         \/ /\ ~Overtaken(c)
            /\ table = "subscriptions" => row = NoRow
            /\ WriteOrFail(c, Upserted(txn[c].base, request.named), request.whole)

\* delete: a pause, or the end of the row.
Remove(c) ==
  LET seen == txn[c].seen
  IN  /\ txn[c].request.op = "delete"
      /\ row' = IF seen = NoRow THEN row
                ELSE IF table \in {"pipelines", "templates"} THEN NoRow
                ELSE Flushed(seen, [f \in {"status"} |-> "v1"])
      /\ End(c, IF seen = NoRow THEN "not found" ELSE "done")

Next ==
  \E c \in Clients :
    \/ \E request \in Requests[table] : Read(c, request)
    \/ Merge(c) \/ Update(c) \/ Create(c) \/ Remove(c)

Spec == Init /\ [][Next]_vars

-----------------------------------------------------------------------------
(* What the surfaces promise together. *)

\* A partial update through any surface writes what it names, to the row that
\* is there when it commits, and nothing else, whatever other requests have
\* committed since it read the row.  Two exceptions: the value it names is the
\* one it read (the ORM then writes nothing), and the definition of a pipeline
\* is written as a whole.
PatchIsExact ==
  [][\A c \in Clients :
       LET named == txn[c].request.named
           base == txn[c].base
       IN  txn[c].request.op = "update" /\ txn'[c] = NoTxn /\ outcome' = "done" =>
             /\ \A f \in DOMAIN named :
                  \/ row'[f] = Coerced(f, named[f])
                  \/ row # base /\ base[f] = Coerced(f, named[f])
             /\ \A f \in Fields[table] \ DOMAIN named :
                  (row # txn[c].seen /\ table = "pipelines") \/ row'[f] = row[f]]_vars

\* What the readers of a field take: from_dict a mode and permissions, a template
\* a built-in base, their columns no null where the table allows none, and a
\* template and the answers about sources a list.
Readable(f, value) ==
  /\ f \in {"mode", "permissions", "base"} => value # "bad"
  /\ f \in Required \union {"tags", "formats"} => value # "null"

\* The objects that other parts of the system build from the row can be built,
\* with whatever requests of whatever surfaces it was written: no step makes a
\* field unreadable.  One exception: a tool of the agent stores the null that it
\* was given for a list; the row cannot be read until the field is set again.
RowsLoad ==
  [][\A f \in Fields[table] :
       row' # NoRow /\ ~Readable(f, row'[f]) =>
         \/ row # NoRow /\ row'[f] = row[f]
         \/ \E c \in Clients :
              LET request == txn[c].request
              IN  /\ txn'[c] = NoTxn
                  /\ request \in AgentSources \union AgentTemplates
                  /\ f \in {"tags", "formats"} \cap DOMAIN request.named
                  /\ request.named[f] = "null"]_vars

\* No update brings a deleted template back, and no upsert reactivates a source
\* that was paused: only a request that names the status does.
DeletedStays ==
  [][\A c \in Clients :
       txn[c] # NoTxn /\ txn'[c] = NoTxn /\ row' # row =>
         /\ table = "templates" /\ row = NoRow => txn[c].request.op = "create"
         /\ table = "sources" /\ row # NoRow /\ row["status"] = "v1"
              => row'["status"] = "v1" \/ "status" \in DOMAIN txn[c].request.named]_vars
=============================================================================
