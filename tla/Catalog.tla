------------------------------ MODULE Catalog ------------------------------
(***************************************************************************)
(* The sources and the subscriptions (source/, subscription/, topic/,      *)
(* config/): two tables that the API, the CLI, the MCP server and the      *)
(* agent's tools edit row by row, that reloads fill from directories of    *)
(* yaml files, and that rollbacks reset to a recorded snapshot.  A reload  *)
(* of sources adds to the table, one of subscriptions replaces it.  Both   *)
(* SELECT rows in one step and write what differs in a later one, at       *)
(* READ COMMITTED: edits and other reloads commit in between.              *)
(***************************************************************************)
EXTENDS Naturals, Sequences, FiniteSets, SequencesExt

CONSTANTS
  Names,        \* names of sources and of subscriptions
  SourceDirs,   \* contents the source directory may have: sequences of files
  SubDirs,      \* the same for the subscription directory
  Clients,      \* the sessions in which a transaction may be open
  Packs,        \* topics: [sources: entries, sub: entry]
  MaxRows,      \* bound on the subscriptions
  MaxWrites     \* bound on the requests

Kinds == {"source", "subscription"}

\* What is configured, as far as its two checks see it: the pydantic model
\* rejects malformed entries, validate() rejects unsound ones as well (a source
\* without a type, a subscription whose channel lacks its address).
SoundSource == {"v1", "v2"}
SoundSub    == {"v1", "v2"}
Sound    == SoundSource \union SoundSub
Settings == Sound \union {"unsound"}
Statuses == {"active", "paused", "other"}   \* PATCH takes any string
Digests  == {"code", "llm"}

Entries == [name : Names, settings : Settings \union {"malformed"}]
Dirs    == [source |-> SourceDirs, subscription |-> SubDirs]

ASSUME CatalogAssumption ==
  /\ \A k \in Kinds : \A dir \in Dirs[k] : dir \in Seq(Seq(Entries))
  /\ \A p \in Packs : p.sources \in Seq([name : Names, settings : Sound])
                      /\ p.sub \in [name : Names, settings : Settings]
  /\ MaxRows \in Nat /\ MaxWrites \in Nat

VARIABLES
  sources,      \* the rows of sources, of which names are unique; a row is
                \* never removed, so its place is its id
  subs,         \* the rows of subscriptions, of which names may repeat
  dirs,         \* dirs[k]: the yaml files on disk
  versions,     \* versions[k]: label |-> entries, the two version tables
  sync,         \* sync[c]: the transaction open in c
  watched,      \* entries of a changed file that the watcher has still to upsert
  cli,          \* "subscriptions patch" between its GET and its PATCH
  reply,        \* the last answer: what a reload or a rollback claims
  writes        \* requests so far

vars == <<sources, subs, dirs, versions, sync, watched, cli, reply, writes>>

NoCli   == [row |-> 0, settings |-> "none"]
NoTopic == [name |-> "none", settings |-> "none"]
NoReply == [op |-> "none", kind |-> "source", label |-> 0, entries |-> <<>>,
            stale |-> {}, refused |-> {}]

\* A transaction: what it was asked, the entries it has still to SELECT, the
\* rows it has read (by their places), the columns it will UPDATE in which of
\* them, the rows it will INSERT (name |-> settings), and the subscription of a
\* topic that follows it.
Idle == [op |-> "idle", kind |-> "source", label |-> 0, entries |-> <<>>,
         refused |-> {}, todo |-> <<>>, read |-> <<>>, changes |-> <<>>,
         adds |-> <<>>, sub |-> NoTopic]

Init ==
  /\ sources = <<>> /\ subs = <<>>
  /\ dirs \in [source : SourceDirs, subscription : SubDirs]
  /\ versions = [k \in Kinds |-> <<>>]
  /\ sync = [c \in Clients |-> Idle]
  /\ watched = <<>>
  /\ cli = NoCli
  /\ reply = NoReply
  /\ writes = 0

-----------------------------------------------------------------------------
(* From files to entries, and from entries to rows. *)

NamesOf(entries) == {entries[i].name : i \in DOMAIN entries}

\* One entry the loader refuses keeps its whole file out; the loader of
\* subscriptions applies validate() too.
SourceFileLoads(file) == \A i \in DOMAIN file : file[i].settings \in Settings
SubFileLoads(file)    == \A i \in DOMAIN file : file[i].settings \in SoundSub

\* What the loaders make of the directories.
LoadSources ==
  LET files == dirs["source"]
  IN  FlattenSeq([i \in DOMAIN files |->
                    IF SourceFileLoads(files[i]) THEN files[i] ELSE <<>>])

LoadSubs ==
  LET files == dirs["subscription"]
  IN  FlattenSeq([i \in DOMAIN files |->
                    IF SubFileLoads(files[i]) THEN files[i] ELSE <<>>])

\* The names in files of subscriptions that do not load.
Refused ==
  LET files == dirs["subscription"]
  IN  UNION {NamesOf(files[i]) : i \in {j \in DOMAIN files : ~ SubFileLoads(files[j])}}

\* Mutant of Validated: what validate() rejects is kept.
ValidatedNot(entries) == entries

Validated(entries) ==
  FlattenSeq([i \in DOMAIN entries |->
                IF entries[i].settings \in Sound THEN <<entries[i]>> ELSE <<>>])

\* The last of several entries of one name counts.
Wanted(entries) ==
  [n \in NamesOf(entries) |->
     entries[CHOOSE i \in DOMAIN entries :
               /\ entries[i].name = n
               /\ \A j \in DOMAIN entries : entries[j].name = n => j <= i].settings]

Source(name, settings) ==
  [name |-> name, settings |-> settings, status |-> "active"]

Sub(name, settings) ==
  [name |-> name, settings |-> settings, digest |-> "code", status |-> "active"]

New(kind, name, settings) ==
  IF kind = "source" THEN Source(name, settings) ELSE Sub(name, settings)

\* The ORM writes the columns whose new value is not the one it read.
Dirty(row, columns) ==
  [f \in {g \in DOMAIN columns : columns[g] # row[g]} |-> columns[f]]

Written(row, columns) ==
  [f \in DOMAIN row |-> IF f \in DOMAIN columns THEN columns[f] ELSE row[f]]

\* What was assigned before, and what is assigned since.
Over(new, old) ==
  [f \in DOMAIN new \union DOMAIN old |-> IF f \in DOMAIN new THEN new[f] ELSE old[f]]

\* Mutant of UpsertColumns: an upsert reactivates a paused source.
UpsertColumnsActive(entry) == [settings |-> entry.settings, status |-> "active"]

\* What upsert assigns to a row of sources: its status stays.
UpsertColumns(entry) == [settings |-> entry.settings]

\* What bulk_sync_from_configs assigns to a row whose name is configured: a
\* source is active whatever it was, a subscription only if it was paused.
SyncColumns(kind, row, settings) ==
  IF kind = "source" THEN [settings |-> settings, status |-> "active"]
  ELSE [settings |-> settings, digest |-> "code",
        status |-> IF row.status = "paused" THEN "active" ELSE row.status]

\* The dict of existing rows holds one row of each name, pick[name]: the last
\* that an unordered SELECT yields.
Picks(rows) ==
  {pick \in [NamesOf(rows) -> DOMAIN rows] : \A n \in DOMAIN pick : rows[pick[n]].name = n}

\* Mutant of SyncChanges: rows whose names are gone from the configs are left alone.
SyncChangesAdditive(kind, rows, wanted, pick) ==
  [i \in {j \in DOMAIN rows : pick[rows[j].name] = j /\ rows[j].name \in DOMAIN wanted} |->
     Dirty(rows[i], SyncColumns(kind, rows[i], wanted[rows[i].name]))]

\* bulk_sync_from_configs: a row of another name is paused.
SyncChanges(kind, rows, wanted, pick) ==
  [i \in {j \in DOMAIN rows : pick[rows[j].name] = j} |->
     Dirty(rows[i], IF rows[i].name \in DOMAIN wanted
                      THEN SyncColumns(kind, rows[i], wanted[rows[i].name])
                      ELSE [status |-> "paused"])]

\* The UPDATEs and the INSERTs of a transaction, on the rows as they are then.
Updated(rows, changes) ==
  [i \in DOMAIN rows |->
     IF i \in DOMAIN changes THEN Written(rows[i], changes[i]) ELSE rows[i]]

Inserted(kind, adds) ==
  LET names == SetToSeq(DOMAIN adds)
  IN  [i \in DOMAIN names |-> New(kind, names[i], adds[names[i]])]

Flushed(rows, s) == Updated(rows, s.changes) \o Inserted(s.kind, s.adds)

\* The names of the rows that others changed or inserted since they were read.
Stale(rows, s) ==
  LET moved == {i \in DOMAIN rows : i \notin DOMAIN s.read \/ rows[i] # s.read[i]}
  IN  {rows[i].name : i \in moved} \union {s.read[i].name : i \in moved \intersect DOMAIN s.read}

\* insert_version: no-op if the label is taken.
Recorded(table, label, entries) ==
  IF label \in DOMAIN table THEN table
    ELSE [l \in DOMAIN table \union {label} |-> IF l = label THEN entries ELSE table[l]]

\* record_version_async counts from the manager's 0, and every request builds
\* a manager of its own.
Label == 0 + 1

Answer(rows, s) ==
  [op |-> s.op, kind |-> s.kind, label |-> s.label, entries |-> s.entries,
   stale |-> Stale(rows, s), refused |-> s.refused]

Request == writes < MaxWrites /\ writes' = writes + 1

-----------------------------------------------------------------------------
(* Edits of one row, by the API, the CLI, an MCP tool or a tool of the agent. *)

\* patch: nothing is validated.  A name that is taken fails the UPDATE.
PatchSource(i) ==
  /\ Request
  /\ \/ \E settings \in Settings : sources' = [sources EXCEPT ![i].settings = settings]
     \/ \E status \in Statuses : sources' = [sources EXCEPT ![i].status = status]
     \/ \E n \in Names \ NamesOf(sources) : sources' = [sources EXCEPT ![i].name = n]
  /\ reply' = NoReply
  /\ UNCHANGED <<subs, dirs, versions, sync, watched, cli>>

\* delete is soft.
DeleteSource(i) ==
  /\ Request
  /\ sources' = [sources EXCEPT ![i].status = "paused"]
  /\ reply' = NoReply
  /\ UNCHANGED <<subs, dirs, versions, sync, watched, cli>>

\* create: validate, then insert, whatever other rows are called.
CreateSub(n, settings) ==
  /\ Request
  /\ settings \in Sound
  /\ Len(subs) < MaxRows
  /\ subs' = Append(subs, Sub(n, settings))
  /\ reply' = NoReply
  /\ UNCHANGED <<sources, dirs, versions, sync, watched, cli>>

\* patch: a channel_config replaces the row's, digest options included.
PatchSub(i) ==
  /\ Request
  /\ \/ \E settings \in Settings, digest \in Digests :
          subs' = [subs EXCEPT ![i].settings = settings, ![i].digest = digest]
     \/ \E status \in Statuses : subs' = [subs EXCEPT ![i].status = status]
     \/ \E n \in Names : subs' = [subs EXCEPT ![i].name = n]
  /\ reply' = NoReply
  /\ UNCHANGED <<sources, dirs, versions, sync, watched, cli>>

DeleteSub(i) ==
  /\ Request
  /\ subs' = [subs EXCEPT ![i].status = "paused"]
  /\ reply' = NoReply
  /\ UNCHANGED <<sources, dirs, versions, sync, watched, cli>>

\* "subscriptions patch --render-mode": GET the row ...
CliFetch(i) ==
  /\ cli = NoCli
  /\ cli' = [row |-> i, settings |-> subs[i].settings]
  /\ UNCHANGED <<sources, subs, dirs, versions, sync, watched, reply, writes>>

\* ... merge the option into its channel_config, and PATCH that.
CliPatch ==
  /\ Request
  /\ cli # NoCli
  /\ \E digest \in Digests :
       subs' = [subs EXCEPT ![cli.row].settings = cli.settings,
                            ![cli.row].digest = digest]
  /\ cli' = NoCli
  /\ reply' = NoReply
  /\ UNCHANGED <<sources, dirs, versions, sync, watched>>

-----------------------------------------------------------------------------
(* Transactions that read, and write later. *)

Begin(c, s) ==
  /\ sync[c] = Idle
  /\ sync' = [sync EXCEPT ![c] = s]
  /\ reply' = NoReply
  /\ UNCHANGED <<sources, subs, dirs, versions, cli>>

\* A transaction that upserts sources one by one.
Upserting(op, entries, sub) ==
  [op |-> op, kind |-> "source", label |-> Label, entries |-> entries, refused |-> {},
   todo |-> entries, read |-> <<>>, changes |-> <<>>, adds |-> <<>>, sub |-> sub]

\* POST /sources: validate, then upsert.  An unsound source is refused.
CreateSource(c, n, settings) ==
  /\ Request
  /\ settings \in Sound
  /\ Begin(c, Upserting("create", <<[name |-> n, settings |-> settings]>>, NoTopic))
  /\ UNCHANGED watched

\* POST /sources/reload: bulk_sync_with_version.
ReloadSources(c) ==
  /\ Request
  /\ Begin(c, Upserting("reload", Validated(LoadSources), NoTopic))
  /\ UNCHANGED watched

\* Enable a topic: bulk_sync_with_version of its sources; what follows is its
\* subscription, if a channel is given.
EnableTopic(c, p) ==
  /\ Request
  /\ \E sub \in {p.sub, NoTopic} :
       Begin(c, Upserting("topic", Validated(p.sources), sub))
  /\ UNCHANGED watched

\* on_config_change: the watcher of the API process upserts what is sound in a
\* file that changed, ...
FileChanged(i) ==
  /\ Request
  /\ watched = <<>> /\ \A c \in Clients : sync[c].op # "watch"
  /\ SourceFileLoads(dirs["source"][i])
  /\ watched' = Validated(dirs["source"][i])
  /\ reply' = NoReply
  /\ UNCHANGED <<sources, subs, dirs, versions, sync, cli>>

\* ... each entry in a transaction of its own.
WatchEntry(c) ==
  /\ watched # <<>> /\ \A d \in Clients : sync[d].op # "watch"
  /\ Begin(c, Upserting("watch", <<Head(watched)>>, NoTopic))
  /\ watched' = Tail(watched)
  /\ UNCHANGED writes

\* upsert: SELECT the row of a name.  A row that the session holds already
\* is the object it was, with the columns assigned before.
Upsert(s, i, entry) ==
  LET set  == IF i \in DOMAIN s.changes THEN s.changes[i] ELSE <<>>
      more == Dirty(Written(sources[i], set), UpsertColumns(entry))
  IN  [s EXCEPT !.read = Over(@, [j \in {i} |-> sources[i]]),
                !.changes = Over([j \in {i} |-> Over(more, set)], @)]

Insert(s, entry) ==
  [s EXCEPT !.adds = Over([n \in {entry.name} |-> entry.settings], @)]

Select(c) ==
  /\ sync[c].todo # <<>>
  /\ LET entry == Head(sync[c].todo)
         rest  == [sync[c] EXCEPT !.todo = Tail(@)]
     IN  \/ \E i \in DOMAIN sources : sources[i].name = entry.name
              /\ sync' = [sync EXCEPT ![c] = Upsert(rest, i, entry)]
         \/ /\ entry.name \notin NamesOf(sources)
            /\ sync' = [sync EXCEPT ![c] = Insert(rest, entry)]
  /\ reply' = NoReply
  /\ UNCHANGED <<sources, subs, dirs, versions, watched, cli, writes>>

\* A transaction that sets a whole table, read at its start.
Syncing(op, kind, label, entries, refused, rows, pick) ==
  LET wanted == Wanted(entries)
  IN  [op |-> op, kind |-> kind, label |-> label, entries |-> entries,
       refused |-> refused, todo |-> <<>>, read |-> rows,
       changes |-> SyncChanges(kind, rows, wanted, pick),
       adds |-> [n \in DOMAIN wanted \ NamesOf(rows) |-> wanted[n]], sub |-> NoTopic]

\* POST /subscriptions/reload: bulk_sync_with_version.
ReloadSubs(c) ==
  /\ Request
  /\ \E pick \in Picks(subs) :
       Begin(c, Syncing("reload", "subscription", Label, Validated(LoadSubs), Refused,
                        subs, pick))
  /\ UNCHANGED watched

\* rollback_by_label: the entries of a recorded version.
Snapshot(kind, label) == versions[kind][label]

\* POST /sources/config/rollback/{version}.
RollbackSources(c) ==
  /\ Request
  /\ \E l \in DOMAIN versions["source"], pick \in Picks(sources) :
       Begin(c, Syncing("rollback", "source", l, Snapshot("source", l), {},
                       sources, pick))
  /\ UNCHANGED watched

\* POST /subscriptions/config/rollback/{version}.
RollbackSubs(c) ==
  /\ Request
  /\ \E l \in DOMAIN versions["subscription"], pick \in Picks(subs) :
       Begin(c, Syncing("rollback", "subscription", l, Snapshot("subscription", l), {},
                       subs, pick))
  /\ UNCHANGED watched

\* The version that a reload or a topic records in its transaction.
Record(s) ==
  versions' = IF s.op \in {"reload", "topic"}
    THEN [versions EXCEPT ![s.kind] = Recorded(@, s.label, s.entries)] ELSE versions

Reply(rows, s) ==
  reply' = IF s.op \in {"reload", "rollback"} THEN Answer(rows, s) ELSE NoReply

Ready(c) == sync[c].op \notin {"idle", "subscribe"} /\ sync[c].todo = <<>>

\* What is left of a topic: its subscription.
Subscribing(sub) ==
  [op |-> "subscribe", kind |-> "source", label |-> 0, entries |-> <<>>, refused |-> {},
   todo |-> <<>>, read |-> <<>>, changes |-> <<>>, adds |-> <<>>, sub |-> sub]

\* Flush and commit, if none of the names to insert is taken by now.  A topic
\* goes on to its subscription.
CommitSources(c) ==
  /\ Ready(c) /\ sync[c].kind = "source"
  /\ DOMAIN sync[c].adds \intersect NamesOf(sources) = {}
  /\ sources' = Flushed(sources, sync[c])
  /\ Record(sync[c])
  /\ Reply(sources, sync[c])
  /\ sync' = [sync EXCEPT ![c] =
       IF @.sub = NoTopic THEN Idle ELSE Subscribing(@.sub)]
  /\ UNCHANGED <<subs, dirs, watched, cli, writes>>

CommitSubs(c) ==
  /\ Ready(c) /\ sync[c].kind = "subscription"
  /\ subs' = Flushed(subs, sync[c])
  /\ Len(subs') <= MaxRows
  /\ Record(sync[c])
  /\ Reply(subs, sync[c])
  /\ sync' = [sync EXCEPT ![c] = Idle]
  /\ UNCHANGED <<sources, dirs, watched, cli, writes>>

\* The subscription of the topic: refused if unsound, and the sources stay;
\* created beside an earlier one of its name.
SubscribeTopic(c) ==
  /\ sync[c].op = "subscribe"
  /\ Len(subs) < MaxRows
  /\ subs' = IF sync[c].sub.settings \in Sound
               THEN Append(subs, Sub(sync[c].sub.name, sync[c].sub.settings)) ELSE subs
  /\ sync' = [sync EXCEPT ![c] = Idle]
  /\ reply' = NoReply
  /\ UNCHANGED <<sources, dirs, versions, watched, cli, writes>>

\* A name that is taken, a deadlock of two reloads, an error of the database, or
\* the end of the process: nothing is written.
Fail(c) ==
  /\ sync[c] # Idle
  /\ sync' = [sync EXCEPT ![c] = Idle]
  /\ reply' = NoReply
  /\ UNCHANGED <<sources, subs, dirs, versions, watched, cli, writes>>

-----------------------------------------------------------------------------

\* A person edits the files, as often as wanted.
EditFiles ==
  /\ \E k \in Kinds, dir \in UNION {SourceDirs, SubDirs} :
       /\ dir \in Dirs[k] /\ dir # dirs[k]
       /\ dirs' = [dirs EXCEPT ![k] = dir]
  /\ reply' = NoReply
  /\ UNCHANGED <<sources, subs, versions, sync, watched, cli, writes>>

Edits ==
  \/ \E n \in Names, s \in Settings : CreateSub(n, s)
  \/ \E i \in DOMAIN sources : PatchSource(i) \/ DeleteSource(i)
  \/ \E i \in DOMAIN subs : PatchSub(i) \/ DeleteSub(i) \/ CliFetch(i)
  \/ CliPatch

Begins(c) ==
  \/ \E n \in Names, s \in Settings : CreateSource(c, n, s)
  \/ ReloadSources(c) \/ ReloadSubs(c) \/ RollbackSources(c) \/ RollbackSubs(c)
  \/ WatchEntry(c)
  \/ \E p \in Packs : EnableTopic(c, p)

Next ==
  \/ Edits
  \/ \E c \in Clients : Begins(c) \/ Select(c) \/ CommitSources(c) \/ CommitSubs(c)
                        \/ SubscribeTopic(c) \/ Fail(c)
  \/ EditFiles \/ (\E i \in DOMAIN dirs["source"] : FileChanged(i))

Spec == Init /\ [][Next]_vars

-----------------------------------------------------------------------------
(* What the catalog promises. *)

Twin(i) == \E j \in DOMAIN subs : j # i /\ subs[j].name = subs[i].name

\* When a sync of subscriptions, or a rollback of sources, has answered, the
\* active rows are those it names, with their settings: each of them is there,
\* active (a subscription of another status than paused keeps it), and no other
\* row is active.  Except for the rows that somebody else changed or inserted
\* between the SELECT and the commit, and for all but one of several
\* subscriptions of the same name, which is all that a sync looks at.
SyncIsExact ==
  LET wanted  == Wanted(reply.entries)
      settled == DOMAIN wanted \ reply.stale
  IN  /\ reply.op # "none" /\ reply.kind = "subscription" =>
           /\ \A n \in settled : \E i \in DOMAIN subs :
                /\ subs[i].name = n /\ subs[i].settings = wanted[n]
                /\ subs[i].digest = "code" /\ subs[i].status # "paused"
           /\ \A i \in DOMAIN subs : subs[i].status = "active" =>
                subs[i].name \in DOMAIN wanted \union reply.stale \/ Twin(i)
      /\ reply.op = "rollback" /\ reply.kind = "source" =>
           /\ \A n \in settled : \E i \in DOMAIN sources : sources[i] = Source(n, wanted[n])
           /\ \A i \in DOMAIN sources : sources[i].status = "active" =>
                sources[i].name \in DOMAIN wanted \union reply.stale

\* Snapshots hold only what passed validate(), so a rollback never brings an
\* unsound configuration back, however it was edited or loaded.
SnapshotsSound ==
  \A k \in Kinds : \A l \in DOMAIN versions[k] :
    \A i \in DOMAIN versions[k][l] : versions[k][l][i].settings \in Sound

\* A source that was paused, or deleted, is active again only because somebody
\* asked for it: a PATCH of its status or a rollback.  Reloads, topics, the file
\* watcher and a second create update its settings at most, whatever happens
\* between their SELECT and their commit.
PausedStays ==
  [][\A i \in DOMAIN sources :
       sources[i].status = "paused" /\ sources'[i].status = "active" =>
         \/ reply'.op = "rollback"
         \/ sources' = [sources EXCEPT ![i].status = "active"]]_vars

-----------------------------------------------------------------------------
(* What documents say of it, and the code does not do. *)

\* config/README.md: an edit through the API or the CLI is overwritten by the
\* next reload.  So, once a reload of sources has answered, each source of the
\* files is as its file says, and active, but for those edited during the reload.
YamlOverwrites ==
  reply.op = "reload" /\ reply.kind = "source" =>
    \A n \in NamesOf(reply.entries) \ reply.stale : \E i \in DOMAIN sources :
      sources[i] = Source(n, Wanted(reply.entries)[n])

\* AC-003 of the PRD: a file whose check fails is refused, and what is
\* configured already is not affected.  So a reload leaves the subscriptions of
\* a refused file active.
RefusedFileIsHarmless ==
  [][\A i \in DOMAIN subs :
       /\ reply'.op = "reload" /\ subs[i].name \in reply'.refused
       /\ subs[i].status = "active"
       => subs'[i].status = "active"]_vars

=============================================================================
