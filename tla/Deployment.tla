----------------------------- MODULE Deployment -----------------------------
(***************************************************************************)
(* A deployment: one database that migrations take from revision to        *)
(* revision, and the processes (API, worker, beat) that start, stop and    *)
(* work on it in whatever order: docker compose makes the first start of   *)
(* the API wait for the migration, those of worker and beat and restarts   *)
(* do not wait (main.py, scheduler/boot.py, composition/).  Pipelines and  *)
(* templates are the definitions they read: pipelines from the database    *)
(* and else from the shipped yaml, templates through a registry of each    *)
(* process.  The API, a second API, the MCP server and the agent's tools   *)
(* in the worker edit them, whichever of the processes are up.             *)
(***************************************************************************)
EXTENDS Schema, FiniteSets

CONSTANTS
  Pipelines,    \* names of pipelines
  Shipped,      \* those with a yaml file among the seeds
  Templates,    \* names of custom templates
  Revisions,    \* the revisions that "alembic upgrade" and "downgrade" are given
  MaxChanges    \* bound on the edits, migrations and restarts

Procs == {"api", "worker", "beat"}

\* The tool of two names, before and after its renaming.
OldTool == "truncate_summary"
NewTool == "summarize_cluster"
Tools   == {OldTool, NewTool}

\* A definition: its steps, and the tools it allows.
Steps   == {"shipped", "edited"}
Defs    == [steps : Steps, tools : SUBSET Tools]
NoDef   == [steps |-> "none", tools |-> {}]

\* A template: what it renders, "none" if there is no row.  A row whose formats
\* or jinja_source are null is "broken": no template can be built from it.
Sources == {"v1", "v2"}
NoTemplate == [source |-> "none", status |-> "none"]

ASSUME DeploymentAssumption ==
  /\ Shipped \subseteq Pipelines
  /\ Revisions \subseteq 0..Latest
  /\ MaxChanges \in Nat

VARIABLES
  revision,   \* alembic_version
  schema,     \* the tables
  vectors,    \* the width of the stored embeddings, 0 if there are none
  pipelines,  \* the rows of pipelines, steps included
  templates,  \* the rows of templates
  env,        \* what the processes are configured with
  up,         \* the processes that run
  missing,    \* the seeds without a row when the API that starts now listed them
  registry,   \* registry[p][t]: what TEMPLATE_REGISTRY of a process holds for t
  schedule,   \* the entries of beat
  patch,      \* a PATCH of a pipeline that has read its row
  runs,       \* names of runs that the API has dispatched, no worker has loaded
  written,    \* written[n]: the steps an operator last gave a pipeline
  late,       \* those given while an API that starts held the name for missing
  rendered,   \* how a push since the last change of a template rendered each
  changes     \* changes so far

vars == <<revision, schema, vectors, pipelines, templates, env, up, missing, registry,
          schedule, patch, runs, written, late, rendered, changes>>

\* What the tables hold, and what of it only the processes know.
rows == <<revision, schema, vectors, pipelines, templates>>

NoPush  == [t \in Templates |-> "no push"]
NoPatch == [name |-> "none", def |-> NoDef]

\* A new database, or one of an older release, whose definitions name the tool
\* of their time and whose embeddings are as wide as the column.
ToolOf(r) == IF r >= RenameRev THEN NewTool ELSE OldTool
WidthOf(r) == IF r >= ResizeRev THEN 1024 ELSE 1536

Init ==
  /\ revision \in Revisions
  /\ schema = Migrated(NoSchema, 0, revision)
  /\ vectors \in IF revision = 0 THEN {0} ELSE {0, WidthOf(revision)}
  /\ pipelines = [n \in Pipelines |->
       IF revision >= PipelinesRev /\ n \in Shipped
         THEN [steps |-> "shipped", tools |-> {ToolOf(revision)}] ELSE NoDef]
  /\ templates = [t \in Templates |-> NoTemplate]
  /\ env \in [api_key : {"unset", "placeholder", "secret"},
              wechat : {"unset", "partial", "set"}]
  /\ up = {}
  /\ missing = {}
  /\ registry = [p \in Procs |-> [t \in Templates |-> "none"]]
  /\ schedule = {}
  /\ patch = NoPatch
  /\ runs = {}
  /\ written = [n \in Pipelines |-> "none"]
  /\ late = {}
  /\ rendered = NoPush
  /\ changes = 0

Change == changes < MaxChanges /\ changes' = changes + 1

-----------------------------------------------------------------------------
(* Migrations. *)

\* Mutant of Renamed: the rows are forgotten.
RenamedNot(def, old, new) == def

\* _rewrite of the tool's old name.
Renamed(def, old, new) ==
  IF old \in def.tools THEN [def EXCEPT !.tools = (@ \ {old}) \union {new}] ELSE def

\* What a migration to another revision leaves of a definition.
Carried(def, to) ==
  IF to < PipelinesRev THEN NoDef
  ELSE IF revision < RenameRev /\ to >= RenameRev THEN Renamed(def, OldTool, NewTool)
  ELSE IF revision >= RenameRev /\ to < RenameRev THEN Renamed(def, NewTool, OldTool)
  ELSE def

\* ALTER TYPE of a vector column fails on a row of another width.
Blocked(to) ==
  vectors # 0 /\ (revision >= ResizeRev) # (to >= ResizeRev)

\* All the migrations on the way run in one transaction: if one fails, none
\* has happened.  Downgrading past 001 drops the rows.
Migrate(to) ==
  /\ Change
  /\ to # revision
  /\ IF Blocked(to)
       THEN UNCHANGED <<rows, written>>
       ELSE /\ revision' = to
            /\ schema' = Migrated(schema, revision, to)
            /\ vectors' = IF to = 0 THEN 0 ELSE vectors
            /\ pipelines' = [n \in Pipelines |->
                 IF pipelines[n] = NoDef THEN NoDef ELSE Carried(pipelines[n], to)]
            /\ templates' = IF "templates" \in DOMAIN schema' THEN templates
                              ELSE [t \in Templates |-> NoTemplate]
            /\ written' = IF "pipelines" \in DOMAIN schema' THEN written
                            ELSE [n \in Pipelines |-> "none"]
  /\ rendered' = NoPush
  /\ UNCHANGED <<env, up, missing, registry, schedule, patch, runs, late>>

\* The first embedding is stored: the ORM knows one width.
Embed ==
  /\ Works(schema, "processed_contents")
  /\ vectors = 0 /\ vectors' = 1024
  /\ UNCHANGED <<revision, schema, pipelines, templates, env, up, missing, registry,
                 schedule, patch, runs, written, late, rendered, changes>>

-----------------------------------------------------------------------------
(* Start and stop. *)

\* A new process has the built-in templates only.
Blank == [t \in Templates |-> "none"]

Active(t)   == Works(schema, "templates") /\ templates[t].status = "active"
Loadable(t) == templates[t].source \in Sources

\* Mutant of Hydrations: what a process has registered once is kept.
HydrationsOnce(p) ==
  {[t \in Templates |->
      IF registry[p][t] = "none" /\ Active(t) /\ Loadable(t)
        THEN templates[t].source ELSE registry[p][t]]}

\* register_db_templates of the active rows, in whatever order the query yields
\* them: the first that no template can be built from ends it, and those after
\* it, like itself, stay as they were registered before.  Nothing is ever
\* unregistered, and a query that fails leaves the registry as it is.
Hydrations(p) ==
  {[t \in Templates |-> IF t \in done THEN templates[t].source ELSE registry[p][t]] :
     done \in {d \in SUBSET {t \in Templates : Active(t) /\ Loadable(t)} :
                \A t \in Templates : Active(t) => t \in d \/ \E u \in Templates :
                                                      Active(u) /\ ~Loadable(u)}}

Definable == Works(schema, "pipelines") /\ Works(schema, "pipeline_steps")

ShippedDef == [steps |-> "shipped", tools |-> {NewTool}]

\* Mutant of Missing: a start writes every seed.
MissingAll == Shipped

\* list_names: the seeds without a row.
Missing == {n \in Shipped : pipelines[n] = NoDef}

\* The channels that a push of either process can use: one whose credentials are
\* not complete is left out with a warning.
Channels == IF env.wechat = "set" THEN {"wechat"} ELSE {}

\* The clients that answer webhooks insist on all of the credentials or none.
Messengers == env.wechat # "partial"

\* _lifespan, which also refuses the placeholder key: the names are listed ...
StartApi ==
  /\ Change
  /\ up \intersect {"api", "starting"} = {}
  /\ env.api_key # "placeholder" /\ Messengers
  /\ up' = up \union {"starting"}
  /\ missing' = IF Definable THEN Missing ELSE {}
  /\ UNCHANGED <<rows, env, registry, schedule, patch, runs, written, late, rendered>>

\* ... those without a row are upserted in one transaction, each over the row
\* that it finds by then, or, after an error, none is; and the templates are
\* hydrated.
Seed ==
  /\ "starting" \in up
  /\ up' = (up \ {"starting"}) \union {"api"}
  /\ \/ /\ Definable
        /\ pipelines' = [n \in Pipelines |->
                           IF n \in missing THEN ShippedDef ELSE pipelines[n]]
     \/ pipelines' = pipelines
  /\ missing' = {}
  /\ \E hydrated \in Hydrations("api") : registry' = [registry EXCEPT !["api"] = hydrated]
  /\ UNCHANGED <<revision, schema, vectors, templates, env, schedule, patch, runs,
                 written, late, rendered, changes>>

\* worker_init_handler.
StartWorker ==
  /\ Change
  /\ "worker" \notin up
  /\ up' = up \union {"worker"}
  /\ \E hydrated \in Hydrations("worker") :
       registry' = [registry EXCEPT !["worker"] = hydrated]
  /\ UNCHANGED <<rows, env, missing, schedule, patch, runs, written, late, rendered>>

\* Without the sources the schedule stays empty, its static entries included,
\* until beat is started again.
Entries == IF Works(schema, "sources") THEN {"sources", "digests", "cleanup"} ELSE {}

\* beat_init_handler.
StartBeat ==
  /\ Change
  /\ "beat" \notin up
  /\ up' = up \union {"beat"}
  /\ schedule' = Entries
  /\ UNCHANGED <<rows, env, missing, registry, patch, runs, written, late, rendered>>

\* With a process that stops, the PATCH that it was handling ends.
Stop(p) ==
  /\ p \in up
  /\ up' = up \ {p}
  /\ missing' = IF p = "starting" THEN {} ELSE missing
  /\ registry' = IF p \in Procs THEN [registry EXCEPT ![p] = Blank] ELSE registry
  /\ schedule' = IF p = "beat" THEN {} ELSE schedule
  /\ patch' \in IF p \in {"api", "worker"} THEN {patch, NoPatch} ELSE {patch}
  /\ UNCHANGED <<rows, env, runs, written, late, rendered, changes>>

-----------------------------------------------------------------------------
(* Definitions of pipelines. *)

\* What an operator writes.
Write(n, def) ==
  /\ Change
  /\ Definable
  /\ pipelines' = [pipelines EXCEPT ![n] = def]
  /\ written' = [written EXCEPT ![n] = def.steps]
  /\ late' = IF n \in missing THEN late \union {n} ELSE late \ {n}
  /\ UNCHANGED <<revision, schema, vectors, templates, env, up, missing, registry, schedule,
                 runs, rendered>>

\* create: an upsert that replaces steps and tools.
WritePipeline(n, def) == Write(n, def) /\ UNCHANGED patch

\* update reads the row ...
ReadPipeline(n) ==
  /\ Definable /\ patch = NoPatch
  /\ pipelines[n] # NoDef
  /\ patch' = [name |-> n, def |-> pipelines[n]]
  /\ UNCHANGED <<rows, env, up, missing, registry, schedule, runs, written, late, rendered,
                 changes>>

\* ... and upserts all of it, the field it changes among them, over the row as
\* it is by then.
PatchPipeline ==
  /\ patch # NoPatch
  /\ \E steps \in Steps, tools \in SUBSET Tools :
       /\ steps = patch.def.steps \/ tools = patch.def.tools
       /\ Write(patch.name, [steps |-> steps, tools |-> tools])
  /\ patch' = NoPatch

DeletePipeline(n) ==
  /\ pipelines[n] # NoDef
  /\ Write(n, NoDef)
  /\ UNCHANGED patch

\* POST /pipelines/{name}/run: 404 without a row, else a message.
DispatchRun(n) ==
  /\ Definable
  /\ pipelines[n] # NoDef
  /\ runs' = runs \union {n}
  /\ UNCHANGED <<rows, env, up, missing, registry, schedule, patch, written, late, rendered,
                 changes>>

\* PipelineLoader.load: the row, and the yaml file if there is none; NoDef is
\* its FileNotFoundError.
Loaded(n) ==
  IF Definable /\ pipelines[n] # NoDef THEN pipelines[n]
  ELSE IF n \in Shipped THEN ShippedDef ELSE NoDef

\* A worker takes the message and loads the definition.
LoadRun(n) ==
  /\ "worker" \in up
  /\ n \in runs /\ runs' = runs \ {n}
  /\ UNCHANGED <<rows, env, up, missing, registry, schedule, patch, written, late, rendered,
                 changes>>

-----------------------------------------------------------------------------
(* Templates. *)

Edit(t, row) ==
  /\ Change
  /\ Works(schema, "templates")
  /\ templates' = [templates EXCEPT ![t] = row]
  /\ rendered' = NoPush
  /\ UNCHANGED <<revision, schema, vectors, pipelines, env, up, missing, registry, schedule,
                 patch, runs, written, late>>

\* create: an upsert, which may archive.
WriteTemplate(t, source, status) == Edit(t, [source |-> source, status |-> status])

\* update_template of the agent: a null is stored as any other value.
BreakTemplate(t) ==
  /\ templates[t] # NoTemplate
  /\ Edit(t, [source |-> "broken", status |-> templates[t].status])

DeleteTemplate(t) ==
  /\ templates[t] # NoTemplate
  /\ Edit(t, NoTemplate)

\* distribute, in the worker or in the API: the registry is refreshed, then the
\* names are looked up in it, the default standing in for an unknown one, unless
\* there is no channel to push to.
Push(p) ==
  /\ p \in up \intersect {"api", "worker"}
  /\ \E hydrated \in Hydrations(p) :
       /\ registry' = [registry EXCEPT ![p] = hydrated]
       /\ rendered' = IF Channels = {} THEN rendered ELSE hydrated
  /\ UNCHANGED <<rows, env, up, missing, schedule, patch, runs, written, late, changes>>

Next ==
  \/ (\E to \in Revisions : Migrate(to)) \/ Embed
  \/ StartApi \/ Seed \/ StartWorker \/ StartBeat
  \/ (\E p \in Procs \union {"starting"} : Stop(p))
  \/ \E n \in Pipelines :
       \/ \E def \in Defs : WritePipeline(n, def)
       \/ ReadPipeline(n) \/ DeletePipeline(n) \/ DispatchRun(n) \/ LoadRun(n)
  \/ PatchPipeline
  \/ \E t \in Templates :
       \/ \E source \in Sources, status \in {"active", "archived"} :
            WriteTemplate(t, source, status)
       \/ BreakTemplate(t) \/ DeleteTemplate(t)
  \/ \E p \in Procs : Push(p)

Spec == Init /\ [][Next]_vars

-----------------------------------------------------------------------------
(* What a deployment promises. *)

SchemaAt == [r \in 0..Latest |-> Migrated(NoSchema, 0, r)]

\* The tables are those that the revision has on the way up, whatever
\* migrations, failed ones included, led to it; the latest revision has exactly
\* the tables and columns that the ORM names; and the embeddings fit.
SchemaOfRevision ==
  /\ schema = SchemaAt[revision]
  /\ revision = Latest => schema = Models
  /\ vectors \in {0, WidthOf(revision)}

\* A migration takes the digest tool from no pipeline that allows it under the
\* name it has at that revision.
DigestToolKept ==
  [][\A n \in Pipelines :
       /\ revision' # revision
       /\ pipelines[n] # NoDef /\ pipelines'[n] # NoDef
       /\ ToolOf(revision) \in pipelines[n].tools
       => ToolOf(revision') \in pipelines'[n].tools]_vars

\* What an operator last wrote of a pipeline is what a worker loads, whatever
\* restarts, seeds and migrations come after, as long as there are the tables.
\* One exception: it was written between the SELECT and the upserts of a seeding
\* that had found no row of that name.
EditsSurvive ==
  \A n \in Pipelines \ late :
    written[n] # "none" /\ Definable => Loaded(n).steps = written[n]

\* As long as a template can be built from every active row, a push renders an
\* active template as it is in the database, although another process edited it
\* after this one had registered it, and although it was broken meanwhile.
RendersCurrent ==
  (\A t \in Templates : Active(t) => Loadable(t)) =>
    \A t \in Templates :
      rendered # NoPush /\ Active(t) => rendered[t] = templates[t].source

-----------------------------------------------------------------------------
(* What documents say of it, and the code does not do. *)

\* The docstring of seed_from_yaml: a name that is present is skipped, so that a
\* seed never clobbers an edit.
SeedsClobberNothing ==
  \A n \in Pipelines :
    written[n] # "none" /\ Definable => Loaded(n).steps = written[n]
=============================================================================
