---------------------------- MODULE PipelineRuns ----------------------------
(***************************************************************************)
(* How a Celery worker executes one "run_pipeline" message:                *)
(* CeleryTasks.run_pipeline (scheduler/tasks.py) over the Redis lock and   *)
(* success marker of IdempotencyGuard (scheduler/idempotency.py), the      *)
(* CollectTask and TaskChain rows, and the broker.  Every call that reads  *)
(* or writes shared state is a step of its own: workers, the API (module   *)
(* TaskControl) and time interleave between any two of them.               *)
(***************************************************************************)
EXTENDS Naturals, FiniteSets, TaskStates

CONSTANTS
  Workers,      \* Celery worker processes
  Tasks,        \* CollectTask ids: lock keys that have a status row
  PlainKeys,    \* other lock keys: scheduled:<source>, <pipeline>:source:<id>
  MaxMsgs,      \* bound on the messages ever published
  MaxTicks,     \* bound on those of them for PlainKeys
  MaxRetries,   \* MAX_RETRIES of scheduler/tasks.py
  Faults        \* what the environment may do, a subset of FaultKinds

\* "crash":       a worker process dies (its lock stays in Redis);
\* "slowRun":     a run outlives DEFAULT_LOCK_TTL, its lock expires under it;
\* "redelivery":  the broker's visibility timeout delivers a message twice;
\* "storeError":  a read or write of the database fails;
\* "configError": the pipeline file cannot be loaded;
\* "abortResult": execute() returns {"status": "failed"} instead of raising;
\* "brokerDown":  publishing a message fails.
FaultKinds == {"crash", "slowRun", "redelivery", "storeError", "configError",
               "abortResult", "brokerDown"}

ASSUME ConstantsAssumption ==
  /\ MaxMsgs \in Nat
  /\ MaxTicks \in Nat
  /\ Tasks # {}
  /\ MaxRetries \in Nat
  /\ Tasks \intersect PlainKeys = {}
  /\ Faults \subseteq FaultKinds

Keys == Tasks \union PlainKeys
Msgs == 1 .. MaxMsgs

VARIABLES
  lock,         \* lock[k]: idempotency:lock:<k> exists in Redis
  marker,       \* marker[k]: idempotency:result:<k> exists in Redis
  status,       \* status[t]: the committed status of the CollectTask row
  trig,         \* the transaction of POST /tasks/collect
  parent,       \* the TaskChain row whose id that request hands out
  chainOf,      \* chainOf[m]: the last TaskChain row created for a run of m
  published,    \* messages 1 .. published exist
  msg,          \* msg[m]: what message m asks for
  copies,       \* copies[m]: deliveries of m the broker still holds
  redelivered,  \* messages the visibility timeout has duplicated
  revoked,      \* revoked[m]: "no", "sent" or "done" (workers have seen it)
  pc,           \* pc[w]: the next step of worker w
  cur,          \* cur[w]: the message w is working on, 0 when idle
  held,         \* held[w]: lock_acquired
  attempt,      \* attempt[w]: failed calls of execute() so far
  adopted,      \* adopted[w]: w's TaskChain row is the one called parent
  applied,      \* applied[m]: history, runs of m that executed all steps
  aborted,      \* history: messages a run of which came back as "failed"
  skipped,      \* history: messages answered "already_succeeded"
  killed,       \* history: messages whose run died half-way
  robbed        \* history: workers whose lock was deleted or expired under them

redis    == <<lock, marker>>
rows     == <<status, trig, parent, chainOf>>
broker   == <<published, msg, copies, redelivered, revoked>>
locals   == <<cur, held, attempt, adopted>>
history  == <<applied, aborted, skipped, killed, robbed>>
runVars  == <<redis, rows, broker, pc, locals, history>>

RowState == {"absent", "pending", "success", "failed"}
Message  == [key : Keys, force : BOOLEAN]
Steps    == {"idle", "status", "marker", "unlock", "lock", "chain", "adopt",
             "claim", "claimWrite", "execute", "chainOk", "done", "doneWrite",
             "mark", "chainFail", "fail", "failWrite", "release"}

KeyOf(w)   == msg[cur[w]].key
IsTask(w)  == KeyOf(w) \in Tasks
Holders(k) == {w \in Workers : held[w] /\ KeyOf(w) = k}
RowOf(w)   == IF IsTask(w) THEN status[KeyOf(w)] ELSE "absent"
Goto(w, l) == pc' = [pc EXCEPT ![w] = l]

InitRuns ==
  /\ lock = [k \in Keys |-> FALSE]
  /\ marker = [k \in Keys |-> FALSE]
  /\ status = [t \in Tasks |-> "absent"]
  /\ trig = "none"
  /\ parent = "absent"
  /\ chainOf = [m \in Msgs |-> "absent"]
  /\ published = 0
  /\ msg = [m \in Msgs |-> [key |-> CHOOSE k \in Keys : TRUE, force |-> FALSE]]
  /\ copies = [m \in Msgs |-> 0]
  /\ redelivered = {}
  /\ revoked = [m \in Msgs |-> "no"]
  /\ pc = [w \in Workers |-> "idle"]
  /\ cur = [w \in Workers |-> 0]
  /\ held = [w \in Workers |-> FALSE]
  /\ attempt = [w \in Workers |-> 0]
  /\ adopted = [w \in Workers |-> FALSE]
  /\ applied = [m \in Msgs |-> 0]
  /\ aborted = {}
  /\ skipped = {}
  /\ killed = {}
  /\ robbed = {}

-----------------------------------------------------------------------------
(* The broker. *)

\* send_task: the message is on its queue before the caller commits anything.
Publish(k, f) ==
  /\ published < MaxMsgs
  /\ published' = published + 1
  /\ msg' = [msg EXCEPT ![published'] = [key |-> k, force |-> f]]
  /\ copies' = [copies EXCEPT ![published'] = 1]
  /\ UNCHANGED <<redelivered, revoked>>

\* Beat fires a schedule, or a caller runs a pipeline without a CollectTask.
Tick(k) ==
  /\ k \in PlainKeys
  /\ Cardinality({m \in 1 .. published : msg[m].key \in PlainKeys}) < MaxTicks
  /\ Publish(k, FALSE)
  /\ UNCHANGED <<redis, rows, pc, locals, history>>

\* The visibility timeout elapses while m sits unacknowledged in a prefetch
\* buffer: the broker hands out a second copy.
Redeliver(m) ==
  /\ "redelivery" \in Faults
  /\ copies[m] = 1
  /\ m \notin redelivered
  /\ copies' = [copies EXCEPT ![m] = 2]
  /\ redelivered' = redelivered \union {m}
  /\ UNCHANGED <<redis, rows, published, msg, revoked, pc, locals, history>>

\* A worker drops a copy of a message it has been told is revoked.
Discard(m) ==
  /\ copies[m] > 0
  /\ revoked[m] = "done"
  /\ copies' = [copies EXCEPT ![m] = @ - 1]
  /\ UNCHANGED <<redis, rows, published, msg, redelivered, revoked, pc, locals,
                 history>>

-----------------------------------------------------------------------------
(* Workers. *)

\* The worker returns to its pool slot; what it holds in Redis is untouched.
BackToPool(S) ==
  /\ pc' = [w \in Workers |-> IF w \in S THEN "idle" ELSE pc[w]]
  /\ cur' = [w \in Workers |-> IF w \in S THEN 0 ELSE cur[w]]
  /\ held' = [w \in Workers |-> IF w \in S THEN FALSE ELSE held[w]]
  /\ attempt' = [w \in Workers |-> IF w \in S THEN 0 ELSE attempt[w]]
  /\ adopted' = [w \in Workers |-> IF w \in S THEN FALSE ELSE adopted[w]]

\* Mutant of Take: the broker hands out copies it no longer has.
TakeUncounted(w, m) ==
  /\ pc[w] = "idle"
  /\ revoked[m] # "done"
  /\ copies' = [copies EXCEPT ![m] = @ - 1]
  /\ cur' = [cur EXCEPT ![w] = m]
  /\ Goto(w, IF msg[m].force THEN "unlock" ELSE "status")
  /\ UNCHANGED <<redis, rows, published, msg, redelivered, revoked, held,
                 attempt, adopted, history>>

\* Delivery: the message is acknowledged before the task body starts.
Take(w, m) ==
  /\ pc[w] = "idle"
  /\ copies[m] > 0
  /\ revoked[m] # "done"
  /\ copies' = [copies EXCEPT ![m] = @ - 1]
  /\ cur' = [cur EXCEPT ![w] = m]
  /\ Goto(w, IF msg[m].force THEN "unlock" ELSE "status")
  /\ UNCHANGED <<redis, rows, published, msg, redelivered, revoked, held,
                 attempt, adopted, history>>

SkipAsSucceeded(w) ==
  /\ skipped' = skipped \union {cur[w]}
  /\ BackToPool({w})
  /\ UNCHANGED <<applied, aborted, killed, robbed>>

\* _already_succeeded: the row says success; a failed read counts as "no".
CheckStatus(w) ==
  /\ pc[w] = "status"
  /\ \/ /\ RowOf(w) = "success"
        /\ SkipAsSucceeded(w)
     \/ /\ RowOf(w) # "success" \/ "storeError" \in Faults
        /\ Goto(w, "marker")
        /\ UNCHANGED <<locals, history>>
  /\ UNCHANGED <<redis, rows, broker>>

\* was_succeeded(key)
CheckMarker(w) ==
  /\ pc[w] = "marker"
  /\ \/ /\ marker[KeyOf(w)]
        /\ SkipAsSucceeded(w)
     \/ /\ ~marker[KeyOf(w)]
        /\ Goto(w, "lock")
        /\ UNCHANGED <<locals, history>>
  /\ UNCHANGED <<redis, rows, broker>>

\* A forced message first deletes whatever lock is there.
ForceUnlock(w) ==
  /\ pc[w] = "unlock"
  /\ lock' = [lock EXCEPT ![KeyOf(w)] = FALSE]
  /\ robbed' = robbed \union Holders(KeyOf(w))
  /\ Goto(w, "lock")
  /\ UNCHANGED <<marker, rows, broker, locals, applied, aborted, skipped, killed>>

\* Mutant of Acquire: SET without NX.
AcquireAlways(w) ==
  /\ pc[w] = "lock"
  /\ lock' = [lock EXCEPT ![KeyOf(w)] = TRUE]
  /\ held' = [held EXCEPT ![w] = TRUE]
  /\ Goto(w, "chain")
  /\ UNCHANGED <<marker, rows, broker, cur, attempt, adopted, history>>

\* acquire(key): SET NX EX.  A worker that loses returns "already_running".
Acquire(w) ==
  /\ pc[w] = "lock"
  /\ \/ /\ lock[KeyOf(w)]
        /\ BackToPool({w})
        /\ UNCHANGED lock
     \/ /\ ~lock[KeyOf(w)]
        /\ lock' = [lock EXCEPT ![KeyOf(w)] = TRUE]
        /\ held' = [held EXCEPT ![w] = TRUE]
        /\ Goto(w, "chain")
        /\ UNCHANGED <<cur, attempt, adopted>>
  /\ UNCHANGED <<marker, rows, broker, history>>

\* Mutant of OpenChain: the run takes over the row that owns the id.
OpenChainOverParent(w) ==
  /\ pc[w] = "chain"
  /\ IF IsTask(w) /\ parent = "absent"
       THEN Goto(w, "adopt") /\ UNCHANGED adopted
       ELSE Goto(w, "claim") /\ adopted' = [adopted EXCEPT ![w] = IsTask(w)]
  /\ UNCHANGED <<redis, rows, broker, cur, held, attempt, history>>

\* The run's TaskChain row, once the pipeline file is loaded; an error raises
\* out of run_pipeline.  A CollectTask message carries the parent's id:
\* when no committed row has it the worker goes on to insert under that id,
\* otherwise, and for messages of other keys, the row is the run's own.
OpenChain(w) ==
  /\ pc[w] = "chain"
  /\ \/ /\ Faults \intersect {"configError", "storeError"} # {}
        /\ Goto(w, "release")
        /\ UNCHANGED chainOf
     \/ /\ IsTask(w) /\ parent = "absent"
        /\ Goto(w, "adopt")
        /\ UNCHANGED chainOf
     \/ /\ ~IsTask(w) \/ parent # "absent"
        /\ chainOf' = [chainOf EXCEPT ![cur[w]] = "pending"]
        /\ Goto(w, "claim")
  /\ UNCHANGED <<redis, status, trig, parent, broker, locals, history>>

\* The INSERT under the parent's id waits for an open transaction that has
\* inserted it; a duplicate key, like any error, raises out of run_pipeline.
AdoptChain(w) ==
  /\ pc[w] = "adopt"
  /\ trig # "open"
  /\ \/ /\ parent = "absent"
        /\ parent' = "pending"
        /\ adopted' = [adopted EXCEPT ![w] = TRUE]
        /\ Goto(w, "claim")
     \/ /\ parent # "absent" \/ "storeError" \in Faults
        /\ Goto(w, "release")
        /\ UNCHANGED <<parent, adopted>>
  /\ UNCHANGED <<redis, status, trig, chainOf, broker, cur, held, attempt,
                 history>>

\* _set_task_status reads the row, then writes it.  The read leads to the
\* write only from the statuses in "from"; a failed read gives up silently.
ReadStatus(w, at, from, write, next) ==
  /\ pc[w] = at
  /\ \/ /\ RowOf(w) \in from
        /\ Goto(w, write)
     \/ /\ RowOf(w) \notin from \/ "storeError" \in Faults
        /\ Goto(w, next)
  /\ UNCHANGED <<redis, rows, broker, locals, history>>

\* The UPDATE is by primary key only; a failed write is logged and dropped.
WriteStatus(w, at, new, next) ==
  /\ pc[w] = at
  /\ \/ status' = [status EXCEPT ![KeyOf(w)] = new]
     \/ "storeError" \in Faults /\ UNCHANGED status
  /\ Goto(w, next)
  /\ UNCHANGED <<redis, trig, parent, chainOf, broker, locals, history>>

\* Mutant of ClaimRead: a redelivered run also claims a failed task.
ClaimReadFailed(w) ==
  ReadStatus(w, "claim", {"pending", "failed"}, "claimWrite", "execute")

ClaimRead(w)  == ReadStatus(w, "claim", {"pending"}, "claimWrite", "execute")
ClaimWrite(w) == WriteStatus(w, "claimWrite", "running", "execute")

\* Mutant of Execute: an exception is taken for a result.
ExecuteSwallowing(w) ==
  /\ pc[w] = "execute"
  /\ \/ applied' = [applied EXCEPT ![cur[w]] = @ + 1]
     \/ UNCHANGED applied
  /\ Goto(w, "chainOk")
  /\ UNCHANGED <<redis, rows, broker, locals, aborted, skipped, killed, robbed>>

\* One call of AgentRunner.execute: it returns, returns a failed result,
\* raises a socket-level error (retried), or raises anything else.
Execute(w) ==
  /\ pc[w] = "execute"
  /\ \/ /\ applied' = [applied EXCEPT ![cur[w]] = @ + 1]
        /\ Goto(w, "chainOk")
        /\ UNCHANGED <<attempt, aborted>>
     \/ /\ "abortResult" \in Faults
        /\ aborted' = aborted \union {cur[w]}
        /\ Goto(w, "chainOk")
        /\ UNCHANGED <<attempt, applied>>
     \/ /\ attempt[w] < MaxRetries
        /\ attempt' = [attempt EXCEPT ![w] = @ + 1]
        /\ UNCHANGED <<pc, applied, aborted>>
     \/ /\ Goto(w, "chainFail")
        /\ UNCHANGED <<attempt, applied, aborted>>
  /\ UNCHANGED <<redis, rows, broker, cur, held, adopted, skipped, killed,
                 robbed>>

\* _update_chain_status: unlike the task status, a failed write raises.
CloseChain(w, at, new, next) ==
  /\ pc[w] = at
  /\ \/ /\ adopted[w]
        /\ parent' = new
        /\ Goto(w, next)
        /\ UNCHANGED chainOf
     \/ /\ ~adopted[w]
        /\ chainOf' = [chainOf EXCEPT ![cur[w]] = new]
        /\ Goto(w, next)
        /\ UNCHANGED parent
     \/ /\ "storeError" \in Faults
        /\ Goto(w, "release")
        /\ UNCHANGED <<parent, chainOf>>
  /\ UNCHANGED <<redis, status, trig, broker, locals, history>>

\* Mutants of DoneRead and FailRead: the wrong only_from.
DoneReadPending(w) == ReadStatus(w, "done", {"pending"}, "doneWrite", "mark")
FailReadPending(w) == ReadStatus(w, "fail", {"pending"}, "failWrite", "release")

SucceedChain(w) == CloseChain(w, "chainOk", "success", "done")
DoneRead(w)     == ReadStatus(w, "done", {"running"}, "doneWrite", "mark")
DoneWrite(w)    == WriteStatus(w, "doneWrite", "success", "mark")

FailChain(w)    == CloseChain(w, "chainFail", "failed", "fail")
FailRead(w)     == ReadStatus(w, "fail", {"running"}, "failWrite", "release")
FailWrite(w)    == WriteStatus(w, "failWrite", "failed", "release")

\* mark_succeeded(key)
MarkSucceeded(w) ==
  /\ pc[w] = "mark"
  /\ marker' = [marker EXCEPT ![KeyOf(w)] = TRUE]
  /\ Goto(w, "release")
  /\ UNCHANGED <<lock, rows, broker, locals, history>>

\* Mutant of Release: the lock is left to its TTL.
ReleaseNothing(w) ==
  /\ pc[w] = "release"
  /\ BackToPool({w})
  /\ UNCHANGED <<redis, rows, broker, history>>

\* The finally block: DEL by key name, whoever set it.
Release(w) ==
  /\ pc[w] = "release"
  /\ lock' = [lock EXCEPT ![KeyOf(w)] = FALSE]
  /\ robbed' = (robbed \union Holders(KeyOf(w))) \ {w}
  /\ BackToPool({w})
  /\ UNCHANGED <<marker, rows, broker, applied, aborted, skipped, killed>>

RunStep(w) ==
  \/ CheckStatus(w) \/ CheckMarker(w) \/ ForceUnlock(w) \/ Acquire(w)
  \/ OpenChain(w) \/ AdoptChain(w) \/ ClaimRead(w) \/ ClaimWrite(w)
  \/ Execute(w)
  \/ SucceedChain(w) \/ DoneRead(w) \/ DoneWrite(w) \/ MarkSucceeded(w)
  \/ FailChain(w) \/ FailRead(w) \/ FailWrite(w)
  \/ Release(w)

-----------------------------------------------------------------------------
(* Processes that die, and keys that expire. *)

\* The finally block of a killed process does not run.
Kill(S) ==
  /\ BackToPool(S)
  /\ killed' = killed \union { cur[w] : w \in S }
  /\ robbed' = robbed \ S
  /\ UNCHANGED <<redis, rows, applied, aborted, skipped>>

Crash(w) ==
  /\ "crash" \in Faults
  /\ pc[w] # "idle"
  /\ Kill({w})
  /\ UNCHANGED broker

\* control.revoke(id, terminate=True) reaches the workers: they kill the
\* process that runs the message and will discard later copies of it.
DeliverRevoke(m) ==
  /\ revoked[m] = "sent"
  /\ revoked' = [revoked EXCEPT ![m] = "done"]
  /\ Kill({w \in Workers : cur[w] = m})
  /\ UNCHANGED <<published, msg, copies, redelivered>>

\* DEFAULT_LOCK_TTL elapses.
ExpireLock(k) ==
  /\ lock[k]
  /\ "slowRun" \in Faults \/ Holders(k) = {}
  /\ lock' = [lock EXCEPT ![k] = FALSE]
  /\ robbed' = robbed \union Holders(k)
  /\ UNCHANGED <<marker, rows, broker, pc, locals, applied, aborted, skipped,
                 killed>>

\* RESULT_MARKER_TTL elapses; it outlives every redelivery.
ExpireMarker(k) ==
  /\ marker[k]
  /\ \A m \in redelivered : msg[m].key = k =>
        copies[m] = 0 /\ \A w \in Workers : cur[w] # m
  /\ marker' = [marker EXCEPT ![k] = FALSE]
  /\ UNCHANGED <<lock, rows, broker, pc, locals, history>>

NextRuns ==
  \/ \E w \in Workers : RunStep(w) \/ Crash(w)
  \/ \E w \in Workers, m \in 1 .. published : Take(w, m)
  \/ \E m \in 1 .. published : Redeliver(m) \/ Discard(m) \/ DeliverRevoke(m)
  \/ \E k \in Keys : Tick(k) \/ ExpireLock(k) \/ ExpireMarker(k)
=============================================================================
