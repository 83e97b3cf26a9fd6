---------------------------- MODULE TaskControl ----------------------------
(***************************************************************************)
(* The HTTP API's side of a collect batch (api/routers/tasks.py) together  *)
(* with the workers of PipelineRuns: POST /tasks/collect publishes its     *)
(* messages inside an open transaction, PATCH /tasks/{id} pauses, resumes  *)
(* and cancels tasks while workers run them.                               *)
(***************************************************************************)
EXTENDS PipelineRuns

CONSTANTS
  Apis,         \* PATCH requests that may be in progress at once
  ApiActions,   \* the values clients send as "action"
  SourceOf,     \* SourceOf[k]: the source that runs of key k collect
  MaxRequests   \* bound on the number of PATCH requests

ASSUME ApiAssumption ==
  /\ ApiActions \subseteq Actions
  /\ DOMAIN SourceOf = Keys
  /\ MaxRequests \in Nat

VARIABLES
  handle,       \* handle[t]: celery_task_id of the row, 0 for NULL
  sentTo,       \* the tasks POST /tasks/collect has published a message for
  apc,          \* apc[a]: the next step of PATCH request a
  atask,        \* atask[a]: the task it is about
  aop,          \* aop[a]: its action
  ato,          \* ato[a]: the status resolve_transition gave it
  amsg,         \* amsg[a]: the message it revokes, then the one it published
  requests,     \* PATCH requests received so far
  orphans       \* history: messages published by a request that failed to commit

requestVars == <<apc, atask, aop, ato, amsg, requests, orphans>>
apiVars     == <<handle, sentTo, requestVars>>
vars        == <<runVars, apiVars>>

InitApi ==
  /\ handle = [t \in Tasks |-> 0]
  /\ sentTo = {}
  /\ apc = [a \in Apis |-> "idle"]
  /\ atask = [a \in Apis |-> CHOOSE t \in Tasks : TRUE]
  /\ aop = [a \in Apis |-> "pause"]
  /\ ato = [a \in Apis |-> "paused"]
  /\ amsg = [a \in Apis |-> 0]
  /\ requests = 0
  /\ orphans = {}

-----------------------------------------------------------------------------
(* POST /tasks/collect: one request for all of Tasks. *)

\* The TaskChain and CollectTask rows are flushed: they block other inserts
\* of the same id, but nobody else reads them before the commit.
TriggerBegin ==
  /\ trig = "none"
  /\ trig' = "open"
  /\ UNCHANGED <<redis, status, parent, chainOf, broker, pc, locals, history,
                 apiVars>>

TriggerDispatch(t) ==
  /\ trig = "open"
  /\ t \notin sentTo
  /\ Publish(t, FALSE)
  /\ sentTo' = sentTo \union {t}
  /\ handle' = [handle EXCEPT ![t] = published']
  /\ UNCHANGED <<redis, rows, pc, locals, history, requestVars>>

\* BrokerUnavailableError (503), or the commit fails (500): the rows roll
\* back, messages that are out stay out.
TriggerAbort ==
  /\ trig = "open"
  /\ \/ "brokerDown" \in Faults /\ sentTo # Tasks
     \/ "storeError" \in Faults /\ sentTo = Tasks
  /\ trig' = "rolledback"
  /\ handle' = [t \in Tasks |-> 0]
  /\ UNCHANGED <<redis, status, parent, chainOf, broker, pc, locals, history,
                 sentTo, requestVars>>

TriggerCommit ==
  /\ trig = "open"
  /\ sentTo = Tasks
  /\ trig' = "committed"
  /\ status' = [t \in Tasks |-> "pending"]
  /\ parent' = "pending"
  /\ UNCHANGED <<redis, chainOf, broker, pc, locals, history, apiVars>>

Trigger == TriggerBegin \/ TriggerAbort \/ TriggerCommit
             \/ \E t \in Tasks : TriggerDispatch(t)

-----------------------------------------------------------------------------
(* PATCH /tasks/{id}. *)

Halting == {"pause", "cancel"}

\* get_by_id and resolve_transition; a 404 or 400 changes nothing.
ApiRead(a, t, op) ==
  /\ apc[a] = "idle"
  /\ requests < MaxRequests
  /\ \E to \in Status :
       /\ Resolves(status[t], op, to)
       /\ ato' = [ato EXCEPT ![a] = to]
  /\ requests' = requests + 1
  /\ atask' = [atask EXCEPT ![a] = t]
  /\ aop' = [aop EXCEPT ![a] = op]
  /\ amsg' = [amsg EXCEPT ![a] = handle[t]]
  /\ apc' = [apc EXCEPT ![a] = IF op \in Halting THEN "revoke" ELSE "dispatch"]
  /\ UNCHANGED <<runVars, handle, sentTo, orphans>>

\* control.revoke(celery_task_id, terminate=True)
ApiRevoke(a) ==
  /\ apc[a] = "revoke"
  /\ revoked' = IF amsg[a] # 0 /\ revoked[amsg[a]] = "no"
                  THEN [revoked EXCEPT ![amsg[a]] = "sent"]
                  ELSE revoked
  /\ apc' = [apc EXCEPT ![a] = "commit"]
  /\ UNCHANGED <<redis, rows, published, msg, copies, redelivered, pc, locals,
                 history, handle, sentTo, atask, aop, ato, amsg, requests,
                 orphans>>

\* Every other action publishes a forced run; a broker failure answers 503.
ApiDispatch(a) ==
  /\ apc[a] = "dispatch"
  /\ \/ /\ Publish(atask[a], TRUE)
        /\ amsg' = [amsg EXCEPT ![a] = published']
        /\ apc' = [apc EXCEPT ![a] = "commit"]
     \/ /\ "brokerDown" \in Faults
        /\ apc' = [apc EXCEPT ![a] = "idle"]
        /\ UNCHANGED <<broker, amsg>>
  /\ UNCHANGED <<redis, rows, pc, locals, history, handle, sentTo, atask, aop,
                 ato, requests, orphans>>

\* Mutant of ApiCommit: the new run's id is not stored.
ApiCommitOldHandle(a) ==
  /\ apc[a] = "commit"
  /\ status' = [status EXCEPT ![atask[a]] = ato[a]]
  /\ apc' = [apc EXCEPT ![a] = "idle"]
  /\ UNCHANGED <<redis, trig, parent, chainOf, broker, pc, locals, history,
                 handle, sentTo, atask, aop, ato, amsg, requests, orphans>>

\* repo.update: by primary key, whatever the row says by now.
ApiCommit(a) ==
  /\ apc[a] = "commit"
  /\ \/ /\ status' = [status EXCEPT ![atask[a]] = ato[a]]
        /\ handle' = IF aop[a] \in Halting THEN handle
                       ELSE [handle EXCEPT ![atask[a]] = amsg[a]]
        /\ UNCHANGED orphans
     \/ /\ "storeError" \in Faults
        /\ orphans' = IF aop[a] \in Halting THEN orphans
                        ELSE orphans \union {amsg[a]}
        /\ UNCHANGED <<status, handle>>
  /\ apc' = [apc EXCEPT ![a] = "idle"]
  /\ UNCHANGED <<redis, trig, parent, chainOf, broker, pc, locals, history,
                 sentTo, atask, aop, ato, amsg, requests>>

Patch(a) == ApiRevoke(a) \/ ApiDispatch(a) \/ ApiCommit(a)

-----------------------------------------------------------------------------
(* The system. *)

Init == InitRuns /\ InitApi

Next ==
  \/ NextRuns /\ UNCHANGED apiVars
  \/ Trigger
  \/ \E a \in Apis, t \in Tasks, op \in ApiActions : ApiRead(a, t, op)
  \/ \E a \in Apis : Patch(a)

Spec == Init /\ [][Next]_vars

\* Worker processes and requests in progress run on; a queued message is
\* taken by some idle worker; Redis expires keys; a revoke reaches the pool.
\* Schedules, requests and faults are nobody's duty.
Fairness ==
  /\ \A w \in Workers : WF_vars(RunStep(w) /\ UNCHANGED apiVars)
  /\ \A w \in Workers : WF_vars(\E m \in Msgs : Take(w, m) /\ UNCHANGED apiVars)
  /\ WF_vars(TriggerCommit \/ \E t \in Tasks : TriggerDispatch(t))
  /\ \A a \in Apis : WF_vars(Patch(a))
  /\ \A k \in Keys : WF_vars(ExpireLock(k) /\ UNCHANGED apiVars)

FairSpec == Spec /\ Fairness
-----------------------------------------------------------------------------
(* Properties. *)

RowsType ==
  /\ status \in [Tasks -> Status \union {"absent"}]
  /\ trig \in {"none", "open", "committed", "rolledback"}
  /\ parent \in RowState
  /\ chainOf \in [Msgs -> RowState]

BrokerType ==
  /\ published \in 0 .. MaxMsgs
  /\ msg \in [Msgs -> Message]
  /\ copies \in [Msgs -> 0 .. 2]
  /\ redelivered \subseteq Msgs
  /\ revoked \in [Msgs -> {"no", "sent", "done"}]

WorkersType ==
  /\ pc \in [Workers -> Steps]
  /\ cur \in [Workers -> 0 .. MaxMsgs]
  /\ held \in [Workers -> BOOLEAN]
  /\ attempt \in [Workers -> 0 .. MaxRetries]
  /\ adopted \in [Workers -> BOOLEAN]
  /\ \A w \in Workers : pc[w] = "idle" <=> cur[w] = 0

HistoryType ==
  /\ applied \in [Msgs -> Nat]
  /\ aborted \subseteq Msgs
  /\ skipped \subseteq Msgs
  /\ killed \subseteq Msgs
  /\ robbed \subseteq Workers

ApiType ==
  /\ handle \in [Tasks -> 0 .. MaxMsgs]
  /\ sentTo \subseteq Tasks
  /\ apc \in [Apis -> {"idle", "revoke", "dispatch", "commit"}]
  /\ atask \in [Apis -> Tasks]
  /\ aop \in [Apis -> Actions]
  /\ ato \in [Apis -> Status]
  /\ amsg \in [Apis -> 0 .. MaxMsgs]
  /\ requests \in 0 .. MaxRequests
  /\ orphans \subseteq 0 .. MaxMsgs

\* Type correctness: among others, a worker has a message exactly when it is
\* not idle and the broker holds between no and two copies of one.
TypeOK ==
  /\ lock \in [Keys -> BOOLEAN] /\ marker \in [Keys -> BOOLEAN]
  /\ RowsType /\ BrokerType /\ WorkersType /\ HistoryType /\ ApiType

\* Two workers run one key at the same time only when the lock was taken from
\* one of them during its run: by its TTL, by a forced message, or by the
\* release of another run that had lost its own.  Redeliveries, crashes, lost
\* races for the lock and exits of every kind do not take one.
UniqueRunner ==
  \A v, w \in Workers :
    v # w /\ held[v] /\ held[w] /\ KeyOf(v) = KeyOf(w) => {v, w} \intersect robbed # {}

\* The documented lock: a source is not collected twice at the same time
\* while runs keep to the TTL.  False, since a CollectTask, a schedule and a
\* manual run of one source have different keys.
SourceExclusive ==
  \A v, w \in Workers :
    v # w /\ held[v] /\ held[w] => SourceOf[KeyOf(v)] # SourceOf[KeyOf(w)]

\* A lock in Redis belongs to a run in progress, or to one whose process was
\* killed: no return, exception or early exit of run_pipeline leaves its key
\* locked for the rest of the TTL.
LockAccounted ==
  \A k \in Keys : lock[k] =>
    \/ \E w \in Workers : held[w] /\ KeyOf(w) = k
    \/ \E m \in killed : msg[m].key = k

\* The two records of success agree to this extent: once the durable marker
\* of a task is set its row is not left pending or running.
MarkerSettles ==
  \A t \in Tasks : marker[t] => status[t] \notin {"pending", "running"}

\* What the rows of the table promise (module TaskLifecycle): without PATCH
\* requests the workers' check-then-write updates follow the state machine.
Lifecycle == INSTANCE TaskLifecycle WITH Tasks <- Tasks, status <- status
LifecycleHolds == Lifecycle!Spec

\* A task does not stay "running" for ever: whichever of its deliveries
\* finishes last, some delivery writes success or failed.
RunningSettles == \A t \in Tasks : status[t] = "running" ~> status[t] # "running"

\* Once the batch is committed no run of a child writes the status of the
\* parent TaskChain row whose id the request returned.
ParentNotHijacked == [][trig = "committed" => parent' = parent]_vars

Quiet(t) ==
  /\ \A a \in Apis : apc[a] = "idle" \/ atask[a] # t
  /\ \A m \in 1 .. published : msg[m].key = t => revoked[m] # "sent"

\* When a task is paused or cancelled, the request is over and its revoke has
\* arrived, nothing runs for the task and nothing queued for it will run,
\* however often it was paused and resumed before.
PauseHalts ==
  \A t \in Tasks : status[t] \in {"paused", "cancelled"} /\ Quiet(t) =>
    \A m \in (1 .. published) \ orphans : msg[m].key = t =>
      /\ copies[m] = 0 \/ revoked[m] = "done"
      /\ \A w \in Workers : cur[w] # m

Succeeded(k) == marker[k] \/ (k \in Tasks /\ status[k] = "success")

\* Neither record of success exists for a key whose runs all raised, died, lost
\* their chain row or never got to execute(): each is written for a run that
\* execute() returned from.
SuccessReturned ==
  \A k \in Keys : Succeeded(k) =>
    \E m \in 1 .. published : msg[m].key = k /\ (applied[m] > 0 \/ m \in aborted)

\* The documented meaning of success: there is nothing to redo, some run of the
\* key executed its pipeline to the end.  False, since a pipeline that aborts
\* returns "failed" and run_pipeline does not look at what is returned.
SuccessIsEarned ==
  \A k \in Keys : Succeeded(k) =>
    \E m \in 1 .. published : msg[m].key = k /\ applied[m] > 0

\* The documented entry guard: a redelivered message is not applied again.
\* False, since the guard is asked before the lock is taken.
AppliedOnce == \A m \in Msgs : applied[m] <= 1

\* The documented guard of a worker's status write: what the API set while the
\* run went on stays until the API changes it.  False, since the guard is read
\* in a statement of its own.
HaltNotClobbered ==
  [][\A t \in Tasks :
       status[t] \in {"paused", "cancelled"} /\ status'[t] # status[t]
         => \E a \in Apis : apc[a] = "commit" /\ atask[a] = t /\ apc'[a] = "idle"]_vars

\* A run is answered "already_succeeded" only when an earlier delivery of the
\* same message succeeded.
OnlyRedeliveriesSkipped == \A m \in skipped : applied[m] > 0

=============================================================================
