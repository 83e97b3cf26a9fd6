------------------------------ MODULE Contents ------------------------------
(***************************************************************************)
(* How an item of a source becomes a row and is offered to subscribers:    *)
(* the collect, process and distribute steps of a pipeline run             *)
(* (agent/tools/executes/), driven by StrictExecutor                       *)
(* (agent/executors/strict.py), or the process step alone in batch mode    *)
(* (agent/runner.py).  Several runs share the tables raw_contents and      *)
(* processed_contents; each run is one of those that PipelineRuns lets     *)
(* execute, so a schedule has at most one at a time.                       *)
(***************************************************************************)
EXTENDS Naturals, Sequences, Functions

CONSTANTS
  Sources,
  Items,        \* articles, told apart by their fingerprint
  Listings,     \* what a source may list: sequences of items
  Runs,         \* lock keys of runs
  SourceOf,     \* SourceOf[r]: the source that a strict run collects
  OnFailure,    \* OnFailure[r]: on_failure of its pipeline
  Schedules,    \* the keys whose strict runs beat starts again and again
  MaxRetries    \* StrictExecutor._MAX_RETRIES

ASSUME ContentsAssumption ==
  /\ Listings \subseteq Seq(Items)
  /\ SourceOf \in [Runs -> Sources]
  /\ OnFailure \in [Runs -> {"abort", "retry", "skip"}]
  /\ Schedules \subseteq Runs
  /\ MaxRetries \in Nat

VARIABLES
  feed,       \* feed[s]: what source s lists from the calm on; anything before
  raw,        \* raw[i]: status of the RawContent row of item i
  processed,  \* processed[i]: its ProcessedContent row and the embedding
  offered,    \* history: items distributed, with their ProcessedContent row
  run,        \* run[r]: the run under the key r, over or under way
  calm        \* from now on feeds do not change and nothing fails by itself

rows == <<raw, processed, offered>>
vars == <<feed, rows, run, calm>>

Absent    == "absent"
Bare      == "bare"       \* a row whose embedding is NULL
Embedded  == "embedded"

\* A run: its mode; the tool it is in; how often it has failed in it (0 is the first
\* call); what the step found and has done so far; step_context, the ids passed
\* on; whether an exception was absorbed on the way; and the result once over.
Over(result, lossy, listing) ==
  [mode |-> "strict", pc |-> "over", try |-> 0, todo |-> <<>>, added |-> <<>>, row |-> Absent,
   listing |-> listing, rawIds |-> <<>>, doneIds |-> <<>>, lossy |-> lossy,
   result |-> result]

Init ==
  /\ feed = [source \in Sources |-> <<>>]
  /\ raw = [i \in Items |-> Absent]
  /\ processed = [i \in Items |-> Absent]
  /\ offered = {}
  /\ run = [r \in Runs |-> Over("none", FALSE, <<>>)]
  /\ calm = FALSE

Become(r, record) == run' = [run EXCEPT ![r] = record]

-----------------------------------------------------------------------------
(* StrictExecutor.run: one tool after the other. *)

ToolOf(pc) ==
  CASE pc \in {"insert", "wait"} -> "collect" [] pc = "write" -> "process" [] OTHER -> pc

\* build_step_params: what the next call of a tool works through.  Without a
\* list the tools fall back to one content_id, which is a raw id until a process
\* step has put its own in its place.
Input(record, tool) ==
  CASE tool = "collect" -> <<>>
    [] tool = "process" -> record.rawIds
    [] OTHER            -> record.doneIds

Call(record, tool, try) ==
  [record EXCEPT !.pc = tool, !.try = try, !.todo = Input(record, tool),
                 !.listing = IF tool = "collect" THEN <<>> ELSE @,
                 !.added = <<>>, !.row = Absent]

\* Mutant of Returned: the output of a step is dropped on every path.
ReturnedDropped(r, record, merged) ==
  CASE ToolOf(record.pc) = "collect" -> Call(record, "process", 0)
    [] ToolOf(record.pc) = "process" -> Call(record, "distribute", 0)
    [] OTHER -> Over("success", record.lossy, record.listing)

\* A tool returned ok.  The first call's output is merged into step_context
\* (merge_step_output), that of a retry is not.
Returned(r, record, merged) ==
  LET kept == IF record.try = 0 THEN merged ELSE record
      next == CASE ToolOf(record.pc) = "collect" -> "process"
                [] ToolOf(record.pc) = "process" -> "distribute"
                [] OTHER -> "over"
  IN  IF next = "over" \/ record.mode = "batch"
        THEN Over("success", record.lossy, record.listing)
        ELSE Call(kept, next, 0)

\* A tool returned "degraded": ToolDegradedError on the first call, taken for a
\* result on a retry.
Degraded(r, record) ==
  IF record.try = 0 THEN Over("raised", record.lossy, record.listing)
  ELSE Returned(r, record, record)

\* No retry returned anything: the step counts as failed, and the run goes on.
Skipped(r, record) == Returned(r, [record EXCEPT !.try = MaxRetries + 1], record)

\* _retry_step: the tool is called MaxRetries more times.
Retried(r, record) ==
  IF record.try < MaxRetries THEN Call(record, ToolOf(record.pc), record.try + 1)
  ELSE Skipped(r, record)

\* A tool raised.  A batch run raises too; of a strict run on_failure decides.
Raised(r, record) ==
  LET lossy == [record EXCEPT !.lossy = TRUE]
  IN  IF record.mode = "batch" THEN Over("raised", TRUE, record.listing)
      ELSE CASE OnFailure[r] = "abort" -> Over("failed", TRUE, record.listing)
             [] OnFailure[r] = "retry" -> Retried(r, lossy)
             [] OTHER                  -> Skipped(r, lossy)

\* A message for the run reaches a worker.
Start(r) ==
  /\ run[r].pc = "over"
  /\ Become(r, Call(Over("none", FALSE, <<>>), "collect", 0))
  /\ UNCHANGED <<feed, rows, calm>>

\* The database, the provider or a channel fails in the middle of a tool; what
\* the tool has not committed is rolled back.
Fault(r) ==
  /\ ~calm
  /\ run[r].pc # "over"
  /\ Become(r, Raised(r, run[r]))
  /\ UNCHANGED <<feed, rows, calm>>

-----------------------------------------------------------------------------
(* The collect tool: all rows of a listing in one transaction. *)

\* What a collector may return: the entries of a feed, which raises when the feed
\* cannot be reached (a Fault) and is empty when it cannot be parsed; the items
\* of an API, none on any error; and a web page, which is one item if it is there.
FeedEntries == Listings \union {<<>>}
ApiItems    == Listings \union {<<>>}
PageItem    == {list \in Listings : Len(list) = 1} \union {<<>>}

\* From the calm on a source answers with what it lists.
Found(source) ==
  IF calm THEN {feed[source]} ELSE FeedEntries \union ApiItems \union PageItem

\* collect_with_retry, a transport error having been retried before it counts.
\* An empty listing leaves the process step without input.
Fetch(r) ==
  /\ run[r].pc = "collect" /\ run[r].todo = <<>> /\ run[r].listing = <<>>
  /\ \E list \in Found(SourceOf[r]) :
       Become(r, IF list = <<>> THEN Returned(r, run[r], run[r])
                 ELSE [run[r] EXCEPT !.listing = list, !.todo = list])
  /\ UNCHANGED <<feed, rows, calm>>

\* The source cannot be read from the database, and no collector has its type.
NoCollector(r) ==
  /\ ~calm
  /\ run[r].pc = "collect" /\ run[r].todo = <<>> /\ run[r].listing = <<>>
  /\ Become(r, Degraded(r, run[r]))
  /\ UNCHANGED <<feed, rows, calm>>

\* Mutant of Collected: content_id alone is passed on, not raw_content_ids.
CollectedFirst(record) == [record EXCEPT !.rawIds = <<Head(record.listing)>>]

\* The ids that a collect passes on: old rows and new ones.
Collected(record) == [record EXCEPT !.rawIds = record.listing]

\* get_raw_by_fingerprint: a row that is committed, or added by this very run.
Check(r) ==
  /\ run[r].pc = "collect" /\ run[r].todo # <<>>
  /\ LET i == Head(run[r].todo)
     IN  IF raw[i] # Absent \/ i \in Range(run[r].added)
           THEN Become(r, [run[r] EXCEPT !.todo = Tail(@)])
           ELSE Become(r, [run[r] EXCEPT !.pc = "insert"])
  /\ UNCHANGED <<feed, rows, calm>>

\* The runs whose open transactions hold the fingerprint that r is inserting,
\* and those that have waited for it, whom its release has woken.
Holders(r) ==
  {o \in Runs \ {r} : ToolOf(run[o].pc) = "collect" /\ Head(run[r].todo) \in Range(run[o].added)}
Waiters(r) ==
  {o \in Runs \ {r} : run[o].pc = "wait" /\ Head(run[o].todo) = Head(run[r].todo)}

\* create_raw flushes: a fingerprint that is committed is an IntegrityError.
Insert(r) ==
  /\ run[r].pc \in {"insert", "wait"} /\ Holders(r) = {}
  /\ run[r].pc = "insert" => Waiters(r) = {}
  /\ LET i == Head(run[r].todo)
     IN  Become(r, IF raw[i] # Absent THEN Raised(r, run[r])
                   ELSE [run[r] EXCEPT !.pc = "collect", !.todo = Tail(@),
                                       !.added = Append(@, i)])
  /\ UNCHANGED <<feed, rows, calm>>

\* Another transaction holds the fingerprint: PostgreSQL lets the insert wait for
\* its end, and then it goes first.
Wait(r) ==
  /\ run[r].pc = "insert" /\ Holders(r) # {}
  /\ Become(r, [run[r] EXCEPT !.pc = "wait"])
  /\ UNCHANGED <<feed, rows, calm>>

\* PostgreSQL breaks a deadlock of inserts by failing one of them.
Deadlock(r) ==
  /\ run[r].pc = "wait"
  /\ \E o \in Holders(r) : run[o].pc = "wait" /\ r \in Holders(o)
  /\ Become(r, Raised(r, run[r]))
  /\ UNCHANGED <<feed, rows, calm>>

CommitCollect(r) ==
  /\ run[r].pc = "collect" /\ run[r].todo = <<>> /\ run[r].listing # <<>>
  /\ raw' = [i \in Items |-> IF i \in Range(run[r].added) THEN "pending" ELSE raw[i]]
  /\ Become(r, Returned(r, run[r], Collected(run[r])))
  /\ UNCHANGED <<feed, processed, offered, calm>>

-----------------------------------------------------------------------------
(* The process tool: one transaction for each row. *)

\* A batch run processes one row that its caller names.
StartBatch(r) ==
  /\ run[r].pc = "over" /\ r \notin Schedules
  /\ \E i \in Items :
       Become(r, [Call(Over("none", FALSE, <<>>), "process", 0)
                    EXCEPT !.mode = "batch", !.todo = <<i>>])
  /\ UNCHANGED <<feed, rows, calm>>

\* Nothing to process.
NoInput(r) ==
  /\ run[r].pc = "process" /\ run[r].rawIds = <<>> /\ run[r].mode # "batch"
  /\ Become(r, Degraded(r, run[r]))
  /\ UNCHANGED <<feed, rows, calm>>

\* The row is read, and the processors of the engine run in a thread; a raw row
\* that does not exist is passed over.
Read(r) ==
  /\ run[r].pc = "process" /\ run[r].todo # <<>>
  /\ LET i == Head(run[r].todo)
     IN  Become(r, IF raw[i] = Absent THEN [run[r] EXCEPT !.todo = Tail(@)]
                   ELSE [run[r] EXCEPT !.pc = "write", !.row = processed[i]])
  /\ UNCHANGED <<feed, rows, calm>>

\* Mutant of Stored: the update is not limited to rows without an embedding.
StoredAlways(row, vector) == vector

\* What the write makes of a row: the embedding of a row that has one stays.
Stored(row, vector) == IF row = Embedded THEN row ELSE vector

\* get_processed_by_raw_id saw no row: one is created, and the unique key lets
\* one run do so.  It saw a row: a missing embedding is filled in.  The engine
\* gives no embedding when the provider fails.
Write(r) ==
  /\ run[r].pc = "write"
  /\ LET i == Head(run[r].todo)
     IN  IF run[r].row = Absent /\ processed[i] # Absent
           THEN Become(r, Raised(r, run[r])) /\ UNCHANGED <<raw, processed>>
           ELSE /\ \E vector \in {Bare, Embedded} :
                     processed' = [processed EXCEPT ![i] =
                                     Stored(IF run[r].row = Absent THEN vector ELSE @, vector)]
                /\ raw' = [raw EXCEPT ![i] = "processed"]
                /\ Become(r, [run[r] EXCEPT !.pc = "process", !.row = Absent,
                                 !.todo = Tail(@), !.added = Append(@, i)])
  /\ UNCHANGED <<feed, offered, calm>>

EndProcess(r) ==
  /\ run[r].pc = "process" /\ run[r].todo = <<>>
  /\ run[r].rawIds # <<>> \/ run[r].mode = "batch"
  /\ Become(r, Returned(r, run[r], [run[r] EXCEPT !.doneIds = run[r].added]))
  /\ UNCHANGED <<feed, rows, calm>>

-----------------------------------------------------------------------------
(* The distribute tool: DistributorFacade.distribute for each id (Delivery). *)

\* With no ids of processed rows it is given the raw id, which no content has:
\* the tool is content with that.
Distribute(r) ==
  /\ run[r].pc = "distribute"
  /\ offered' = offered \union Range(run[r].todo)
  /\ Become(r, Returned(r, run[r], run[r]))
  /\ UNCHANGED <<feed, raw, processed, calm>>

\* A later call of the loop fails.
DistributeFails(r) ==
  /\ run[r].pc = "distribute" /\ run[r].todo # <<>> /\ ~calm
  /\ offered' = offered \union {Head(run[r].todo)}
  /\ Become(r, Raised(r, run[r]))
  /\ UNCHANGED <<feed, raw, processed, calm>>

-----------------------------------------------------------------------------

CalmDown ==
  /\ ~calm /\ calm' = TRUE
  /\ feed' \in [Sources -> Listings]
  /\ UNCHANGED <<rows, run>>

Work(r) ==
  \/ Fetch(r) \/ Check(r) \/ Insert(r) \/ Wait(r) \/ Deadlock(r) \/ CommitCollect(r)
  \/ NoInput(r) \/ Read(r) \/ Write(r) \/ EndProcess(r) \/ Distribute(r)

Next ==
  \/ \E r \in Runs : Start(r) \/ StartBatch(r) \/ Work(r) \/ Fault(r) \/ NoCollector(r)
                       \/ DistributeFails(r)
  \/ CalmDown

\* A worker goes on with its run, and beat goes on with its schedules.
Spec ==
  /\ Init /\ [][Next]_vars
  /\ \A r \in Runs : WF_vars(Work(r))
  /\ \A r \in Schedules : WF_vars(Start(r))

-----------------------------------------------------------------------------
(* What the rows and the results are worth. *)

\* A strict run that ends in success without having absorbed an exception has
\* offered all it collected, whatever runs beside it.
SuccessIsWhole ==
  \A r \in Runs :
    run[r].pc = "over" /\ run[r].result = "success" /\ ~run[r].lossy
      => Range(run[r].listing) \subseteq offered

\* Rows are not lost, an embedding that was paid for is not lost, and a raw row
\* is marked processed exactly when its processed row is there.
EmbeddingKept ==
  [][\A i \in Items :
       /\ processed[i] = Embedded => processed'[i] = Embedded
       /\ raw[i] # Absent => raw'[i] # Absent
       /\ raw'[i] = "processed" <=> processed'[i] # Absent]_vars

\* An item that a scheduled source goes on listing is eventually offered,
\* although a run may fail in any of its steps and its retries pass nothing on:
\* a later run finds the rows the earlier ones left.
ListedIsOffered ==
  \A r \in Schedules : \A i \in Items :
    (calm /\ i \in Range(feed[SourceOf[r]])) ~> (i \in offered)

=============================================================================
