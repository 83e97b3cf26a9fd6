------------------------------- MODULE Schema -------------------------------
(***************************************************************************)
(* The database schema (alembic/versions/, storage/models.py): the tables  *)
(* and columns that each migration leaves, and the ones the ORM selects.   *)
(* A schema is a function from its tables to their columns; the width of a *)
(* vector is part of its column.                                           *)
(***************************************************************************)
EXTENDS Naturals

Id        == {"id", "created_at"}
Stamped   == Id \union {"updated_at"}
Timed     == {"started_at", "finished_at"}

Add(s, table, columns)  == [s EXCEPT ![table] = @ \union columns]
Drop(s, table, columns) == [s EXCEPT ![table] = @ \ columns]
Create(s, new)          == [t \in DOMAIN s \union DOMAIN new |->
                              IF t \in DOMAIN new THEN new[t] ELSE s[t]]
Without(s, tables)      == [t \in DOMAIN s \ tables |-> s[t]]

NoSchema == [t \in {} |-> {}]

-----------------------------------------------------------------------------
(* Revision 001. *)

SourcesTable ==
  Stamped \union {"name", "type", "url", "tags", "status", "schedule_interval",
    "schedule_adaptive", "proxy", "rate_limit_qps", "rate_limit_concurrency",
    "metadata", "last_collected_at", "next_collect_at", "error_count",
    "avg_update_interval", "http_etag", "http_last_modified", "config_version"}

TaskTables ==
  [task_chains |-> Id \union Timed \union {"pipeline_name", "status", "trigger_type",
     "execution_mode", "total_steps", "completed_steps", "current_step", "error_message"},
   collect_tasks |-> Id \union Timed \union {"source_id", "task_chain_id", "status",
     "priority", "trigger_type", "items_collected", "error_message", "retry_count"}]

ContentTables ==
  [raw_contents |-> Id \union {"source_id", "collect_task_id", "title", "author",
     "body_html", "body_text", "source_url", "published_at", "fingerprint",
     "raw_metadata"},
   content_clusters |-> Stamped \union {"topic", "tags", "content_count",
     "centroid_1536", "status"},
   processed_contents |-> Id \union {"raw_content_id", "title", "body_text", "summary",
     "tags", "cluster_id", "fingerprint", "embedding_1536", "structured_data",
     "processing_status", "processed_by", "source_url", "source_name",
     "published_at", "processed_at"}]

DigestTables ==
  [digests |-> Stamped \union {"cluster_id", "title", "summary", "timeline",
     "key_points", "generated_by"},
   llm_call_logs |-> Id \union {"model", "provider", "call_type", "content_id",
     "input_tokens", "output_tokens", "latency_ms", "input_length", "output_length",
     "status", "error_message", "retry_attempt"}]

DeliveryTables ==
  [subscriptions |-> Stamped \union {"name", "source_id", "channel", "channel_config",
     "match_rules", "frequency", "quiet_hours", "status"},
   push_records |-> Id \union {"subscription_id", "content_id", "channel", "status",
     "retry_count", "error_message", "sent_at", "delivered_at"},
   chat_sessions |-> Id \union {"channel", "channel_user_id", "context",
     "last_active_at"}]

InitialSchema(s) ==
  Create(Create(Create(Create(Create(s, [sources |-> SourcesTable]),
    TaskTables), ContentTables), DigestTables), DeliveryTables)

InitialSchemaUndone(s) == NoSchema

-----------------------------------------------------------------------------
(* The revisions after it. *)

AddTimezone(s) ==
  Add(Add(s, "subscriptions", {"timezone", "discipline_tags"}),
      "sources", {"discipline_tags"})

DropTimezone(s) ==
  Drop(Drop(s, "subscriptions", {"timezone", "discipline_tags"}),
       "sources", {"discipline_tags"})

AddRawStatus(s)  == Add(s, "raw_contents", {"status", "processed_at"})
DropRawStatus(s) == Drop(s, "raw_contents", {"status", "processed_at"})

AddRecipient(s)  == Add(s, "push_records", {"recipient_id"})
DropRecipient(s) == Drop(s, "push_records", {"recipient_id"})

Versions == Id \union {"version", "snapshot_yaml", "author"}

AddConfigVersions(s)  == Create(s, [config_versions |-> Versions])
DropConfigVersions(s) == Without(s, {"config_versions"})

AddSubVersions(s)  == Create(s, [subscription_config_versions |-> Versions])
DropSubVersions(s) == Without(s, {"subscription_config_versions"})

\* Ensures an extension of 001, which stays on the way down.
EnsureZhparser(s) == s

AddContentTags(s)  == Add(s, "processed_contents", {"discipline_tags"})
DropContentTags(s) == Drop(s, "processed_contents", {"discipline_tags"})

AddLastSent(s)  == Add(s, "subscriptions", {"last_sent_at"})
DropLastSent(s) == Drop(s, "subscriptions", {"last_sent_at"})

AddRenderMode(s)  == Add(s, "push_records", {"render_mode"})
DropRenderMode(s) == Drop(s, "push_records", {"render_mode"})

AddPipelines(s) == Create(s,
  [pipelines |-> Stamped \union {"name", "mode", "max_steps", "on_failure",
     "agent_mode", "system_prompt", "max_tokens_budget", "tools_allowed",
     "tools_denied", "tool_permissions", "status", "version"},
   pipeline_steps |-> Id \union {"pipeline_id", "position", "definition"}])
DropPipelines(s) == Without(s, {"pipelines", "pipeline_steps"})

AddTemplates(s) == Create(s,
  [templates |-> Stamped \union {"name", "base_template", "formats", "default_format",
     "jinja_source", "aggregate_config", "status"}])
DropTemplates(s) == Without(s, {"templates"})

\* Mutant of AddCeleryId: the column goes to the other task table.
AddCeleryIdElsewhere(s) == Add(s, "task_chains", {"celery_task_id"})

AddCeleryId(s)  == Add(s, "collect_tasks", {"celery_task_id"})
DropCeleryId(s) == Drop(s, "collect_tasks", {"celery_task_id"})

\* Rewrites rows only: see Renamed of Deployment.
RenameTool(s) == s

\* Replaces the two vector columns.
Resized(s, embedding, centroid, embedding2, centroid2) ==
  Add(Drop(Add(Drop(s, "processed_contents", {embedding}),
             "processed_contents", {embedding2}),
           "content_clusters", {centroid}),
      "content_clusters", {centroid2})

ShrinkVectors(s) ==
  Resized(s, "embedding_1536", "centroid_1536", "embedding_1024", "centroid_1024")
GrowVectors(s) ==
  Resized(s, "embedding_1024", "centroid_1024", "embedding_1536", "centroid_1536")

Latest == 15

\* The revision that creates pipelines, renames a tool, resizes the vectors.
PipelinesRev == 11
RenameRev    == 14
ResizeRev    == 15

\* upgrade() of the r-th migration.
Up(s, r) ==
  CASE r = 1  -> InitialSchema(s)      [] r = 2  -> AddTimezone(s)
    [] r = 3  -> AddRawStatus(s)       [] r = 4  -> AddRecipient(s)
    [] r = 5  -> AddConfigVersions(s)  [] r = 6  -> AddSubVersions(s)
    [] r = 7  -> EnsureZhparser(s)     [] r = 8  -> AddContentTags(s)
    [] r = 9  -> AddLastSent(s)        [] r = 10 -> AddRenderMode(s)
    [] r = 11 -> AddPipelines(s)       [] r = 12 -> AddTemplates(s)
    [] r = 13 -> AddCeleryId(s)        [] r = 14 -> RenameTool(s)
    [] r = 15 -> ShrinkVectors(s)

\* downgrade() of the r-th migration.
Down(s, r) ==
  CASE r = 1  -> InitialSchemaUndone(s) [] r = 2  -> DropTimezone(s)
    [] r = 3  -> DropRawStatus(s)       [] r = 4  -> DropRecipient(s)
    [] r = 5  -> DropConfigVersions(s)  [] r = 6  -> DropSubVersions(s)
    [] r = 7  -> EnsureZhparser(s)      [] r = 8  -> DropContentTags(s)
    [] r = 9  -> DropLastSent(s)        [] r = 10 -> DropRenderMode(s)
    [] r = 11 -> DropPipelines(s)       [] r = 12 -> DropTemplates(s)
    [] r = 13 -> DropCeleryId(s)        [] r = 14 -> RenameTool(s)
    [] r = 15 -> GrowVectors(s)

\* The migrations from one revision to another, one after the other.
Migrated(s, from, to) ==
  LET upgraded[r \in from .. Latest] ==
        IF r = from THEN s ELSE Up(upgraded[r - 1], r)
      downgraded[r \in 0 .. from] ==
        IF r = from THEN s ELSE Down(downgraded[r + 1], r + 1)
  IN  IF from <= to THEN upgraded[to] ELSE downgraded[to]

-----------------------------------------------------------------------------
(* storage/models.py: what a statement of the ORM names. *)

SourceModel ==
  {"id", "name", "type", "url", "tags", "status", "schedule_interval",
   "schedule_adaptive", "proxy", "rate_limit_qps", "rate_limit_concurrency",
   "metadata", "last_collected_at", "next_collect_at", "error_count",
   "avg_update_interval", "http_etag", "http_last_modified", "config_version",
   "discipline_tags", "created_at", "updated_at"}

TaskModels ==
  [task_chains |-> {"id", "pipeline_name", "status", "trigger_type", "execution_mode",
     "total_steps", "completed_steps", "current_step", "error_message",
     "started_at", "finished_at", "created_at"},
   collect_tasks |-> {"id", "source_id", "task_chain_id", "status", "priority",
     "trigger_type", "items_collected", "error_message", "retry_count",
     "celery_task_id", "started_at", "finished_at", "created_at"}]

ContentModels ==
  [raw_contents |-> {"id", "source_id", "collect_task_id", "title", "author",
     "body_html", "body_text", "source_url", "published_at", "fingerprint",
     "raw_metadata", "status", "processed_at", "created_at"},
   content_clusters |-> {"id", "topic", "tags", "content_count", "centroid_1024",
     "status", "created_at", "updated_at"},
   processed_contents |-> {"id", "raw_content_id", "title", "body_text", "summary",
     "tags", "discipline_tags", "cluster_id", "fingerprint", "embedding_1024",
     "structured_data", "processing_status", "processed_by", "source_url",
     "source_name", "published_at", "processed_at", "created_at"}]

DigestModels ==
  [digests |-> {"id", "cluster_id", "title", "summary", "timeline", "key_points",
     "generated_by", "created_at", "updated_at"},
   llm_call_logs |-> {"id", "model", "provider", "call_type", "content_id",
     "input_tokens", "output_tokens", "latency_ms", "input_length", "output_length",
     "status", "error_message", "retry_attempt", "created_at"}]

DeliveryModels ==
  [subscriptions |-> {"id", "name", "source_id", "channel", "channel_config",
     "match_rules", "frequency", "quiet_hours", "timezone", "discipline_tags",
     "status", "last_sent_at", "created_at", "updated_at"},
   push_records |-> {"id", "subscription_id", "content_id", "channel", "status",
     "retry_count", "error_message", "sent_at", "delivered_at", "recipient_id",
     "render_mode", "created_at"},
   chat_sessions |-> {"id", "channel", "channel_user_id", "context",
     "last_active_at", "created_at"}]

DefinitionModels ==
  [pipelines |-> {"id", "name", "mode", "max_steps", "on_failure", "agent_mode",
     "system_prompt", "max_tokens_budget", "tools_allowed", "tools_denied",
     "tool_permissions", "status", "version", "created_at", "updated_at"},
   pipeline_steps |-> {"id", "pipeline_id", "position", "definition", "created_at"},
   templates |-> {"id", "name", "base_template", "formats", "default_format",
     "jinja_source", "aggregate_config", "status", "created_at", "updated_at"},
   config_versions |-> {"id", "version", "snapshot_yaml", "author", "created_at"},
   subscription_config_versions |-> {"id", "version", "snapshot_yaml", "author",
     "created_at"}]

Models == Create(Create(Create(Create(Create([sources |-> SourceModel], TaskModels),
            ContentModels), DigestModels), DeliveryModels), DefinitionModels)

\* A statement on a table works if it has every column that its model names.
Works(s, table) == table \in DOMAIN s /\ Models[table] \subseteq s[table]
=============================================================================
