----------------------------- MODULE LLMGateway -----------------------------
(***************************************************************************)
(* Calls of LLM providers (llm/gateway/, llm/circuit_breaker.py,           *)
(* llm/cache.py).  Every process has its own gateway; all of them share    *)
(* one circuit breaker in Redis, whatever the model.  A call is tried on   *)
(* the models of its route in turn, up to MaxAttempts times on each, and   *)
(* each model that fails leaves a row in llm_call_logs, if it can be        *)
(* written.                                                                *)
(***************************************************************************)
EXTENDS Naturals, Sequences

CONSTANTS
  Callers,      \* tasks that call their process's gateway
  MayCall,      \* MayCall[c]: the entry points c uses
  Route,        \* Route[k]: number of models, the first and its fallbacks
  Cached,       \* callers that pass cache keys to a gateway with a cache
  Fallbacks,    \* entry points with a function in the FallbackManager
  LogFails,     \* whether the write of a row may fail
  Threshold,    \* failure_threshold of the breaker
  MaxAttempts   \* stop_after_attempt

Kinds == {"complete", "chat", "stream", "embed"}

ASSUME GatewayAssumption ==
  /\ MayCall \in [Callers -> SUBSET Kinds]
  /\ Route \in [Kinds -> Nat \ {0}] /\ Route["embed"] = 1
  /\ Cached \subseteq Callers
  /\ Fallbacks \subseteq {"complete", "chat"}
  /\ LogFails \in BOOLEAN
  /\ Threshold \in Nat \ {0} /\ MaxAttempts \in Nat \ {0}

VARIABLES
  breaker,   \* the hash circuit_breaker:default:default; cooled: the
             \* recovery_timeout has passed since last_failure_at
  cache,     \* entry points whose answer to the request is cached
  call,      \* the call of each caller
  calm       \* providers answer, requests are well-formed, nobody cancels

vars == <<breaker, cache, call, calm>>

Breakers ==
  [state : {"CLOSED", "OPEN"}, failures : 0 .. Threshold, cooled : BOOLEAN]
Closed(n) == [state |-> "CLOSED", failures |-> n, cooled |-> FALSE]
Opened    == [state |-> "OPEN", failures |-> Threshold, cooled |-> FALSE]

\* Errors as _classify_error sees them.
Errors   == {"transient", "degraded", "unrecoverable"}
Statuses == {"error", "circuit_open", "success", "lost"}
Outcomes == {"answer", "cached", "error", "fallback", "broken", "cancelled"}
Steps    == {"over", "admit", "call", "tally", "close", "chunks", "reply"}

\* A call: the entry point, whether the request is malformed, the model it is
\* at, the attempt on that model, the breaker and the error that
\* record_failure holds, the rows given to the log ("lost" where the write
\* failed), and the outcome once it is over.
NewCall(k, bad) ==
  [pc |-> "admit", kind |-> k, bad |-> bad, model |-> 1, attempt |-> 1,
   seen |-> Closed(0), error |-> "transient", rows |-> <<>>, outcome |-> "answer"]

Quiet == [NewCall("complete", FALSE) EXCEPT !.pc = "over", !.outcome = "cached"]

Init ==
  /\ breaker = Closed(0)
  /\ cache = {}
  /\ call = [c \in Callers |-> Quiet]
  /\ calm \in BOOLEAN

At(c, pc) == call[c].pc = pc

\* chat, complete, stream: an LLM outage trips the breaker; embed stays out.
Guarded(c) == call[c].kind # "embed"

Over(c, outcome) ==
  [call[c] EXCEPT !.pc = "over", !.outcome = outcome, !.seen = Closed(0),
                  !.error = "transient"]

-----------------------------------------------------------------------------
(* The breaker. *)

\* Mutant of Allows: OPEN is never HALF_OPEN.
AllowsClosed(b) == b.state = "CLOSED"

\* allow_request: HALF_OPEN is an OPEN breaker whose time has passed, and it
\* lets every caller through.
Allows(b) == b.state = "CLOSED" \/ b.cooled

\* Mutant of AfterFailure: a failed probe starts a new count.
AfterFailureRecount(b) ==
  IF b.state = "OPEN" THEN Closed(1)
    ELSE IF b.failures + 1 >= Threshold THEN Opened ELSE Closed(b.failures + 1)

\* What record_failure writes after it read b.
AfterFailure(b) ==
  IF b.state = "OPEN" \/ b.failures + 1 >= Threshold
    THEN Opened ELSE Closed(b.failures + 1)

\* recovery_timeout seconds have passed since the last recorded failure.
Cool ==
  /\ breaker.state = "OPEN" /\ ~breaker.cooled
  /\ breaker' = [breaker EXCEPT !.cooled = TRUE]
  /\ UNCHANGED <<cache, call, calm>>

-----------------------------------------------------------------------------
(* A call. *)

\* An answer from the cache costs nothing, and its row (left out) says so.
Hit(k, bad) == [NewCall(k, bad) EXCEPT !.pc = "over", !.outcome = "cached"]

\* A request comes in: it is answered from the cache, or goes to the route.
Request(c, k, bad, useCache) ==
  /\ At(c, "over") /\ k \in MayCall[c]
  /\ call' = [call EXCEPT ![c] =
       IF useCache /\ c \in Cached /\ k \in cache THEN Hit(k, bad) ELSE NewCall(k, bad)]
  /\ UNCHANGED <<breaker, cache, calm>>

\* complete looks into the cache before it resolves the model.
BeginComplete(c) == \E bad \in {FALSE, ~calm} : Request(c, "complete", bad, TRUE)

\* chat resolves the model first, which is part of the key.
BeginChat(c) == \E bad \in {FALSE, ~calm} : Request(c, "chat", bad, TRUE)

\* stream_complete and embed have no cache.
BeginStream(c) == \E bad \in {FALSE, ~calm} : Request(c, "stream", bad, FALSE)
BeginEmbed(c)  == \E bad \in {FALSE, ~calm} : Request(c, "embed", bad, FALSE)

Begin(c) == BeginComplete(c) \/ BeginChat(c) \/ BeginStream(c) \/ BeginEmbed(c)

HasNext(k) == k.model < Route[k.kind]

\* What _emit_call_log makes of a row: any failure of the write is swallowed, and
\* the call goes on as if the row were there.
Emitted(status) == {status} \union (IF LogFails THEN {"lost"} ELSE {})

\* The row of a model that was given up.
Logged(c, row) ==
  [call[c] EXCEPT !.rows = Append(@, row), !.seen = Closed(0), !.error = "transient"]

\* The route is used up: embed returns None, complete and chat try a fallback.
GivenUp(k) ==
  [k EXCEPT !.pc = "over",
            !.outcome = IF k.kind \in Fallbacks THEN "fallback" ELSE "error"]

\* run_with_model_failover: on to the next model, unless the request itself is
\* at fault.
AfterModel(c, row, error) ==
  IF error # "unrecoverable" /\ HasNext(call[c])
    THEN [Logged(c, row) EXCEPT !.pc = "admit", !.model = @ + 1, !.attempt = 1]
    ELSE GivenUp(Logged(c, row))

\* Mutant of Rejected: the rejection is raised without a row.
RejectedSilently(c, row) ==
  [AfterModel(c, row, "degraded") EXCEPT !.rows = call[c].rows]

\* CircuitOpenError, a degraded error.
Rejected(c, row) == AfterModel(c, row, "degraded")

\* allow_request, once for all attempts on a model.
Admit(c) ==
  /\ At(c, "admit")
  /\ IF Guarded(c) /\ ~Allows(breaker)
       THEN \E row \in Emitted("circuit_open") :
              call' = [call EXCEPT ![c] = Rejected(c, row)]
       ELSE call' = [call EXCEPT ![c].pc = "call"]
  /\ UNCHANGED <<breaker, cache, calm>>

\* The provider answers, or starts a stream.
CallSucceeds(c) ==
  /\ At(c, "call") /\ ~call[c].bad
  /\ call' = [call EXCEPT ![c].pc = IF Guarded(c) THEN "close" ELSE "reply"]
  /\ UNCHANGED <<breaker, cache, calm>>

\* The provider fails; record_failure reads the breaker.
CallFails(c) ==
  /\ At(c, "call") /\ (~calm \/ call[c].bad)
  /\ \E error \in Errors :
       /\ call[c].bad => error = "unrecoverable"
       /\ call' = [call EXCEPT ![c].pc = "tally", ![c].error = error,
                               ![c].seen = breaker]
  /\ UNCHANGED <<breaker, cache, calm>>

\* Mutant of Retries: attempts are not counted.
RetriesForever(c) == call[c].error = "transient"

Retries(c) == call[c].error = "transient" /\ call[c].attempt < MaxAttempts

\* The next attempt on the same model.
NextAttempt(k) ==
  [k EXCEPT !.pc = "call", !.seen = Closed(0),
            !.attempt = IF @ < MaxAttempts THEN @ + 1 ELSE @]

\* record_failure writes, and tenacity tries again or gives the model up.
CountFailure(c) ==
  /\ At(c, "tally")
  /\ breaker' = IF Guarded(c) THEN AfterFailure(call[c].seen) ELSE breaker
  /\ IF Retries(c)
       THEN call' = [call EXCEPT ![c] = NextAttempt(call[c])]
       ELSE \E row \in Emitted("error") :
              call' = [call EXCEPT ![c] = AfterModel(c, row, call[c].error)]
  /\ UNCHANGED <<cache, calm>>

\* record_success: whatever the breaker is by now, it is closed.
RecordSuccess(c) ==
  /\ At(c, "close")
  /\ breaker' = Closed(0)
  /\ call' = [call EXCEPT ![c].pc =
       IF call[c].kind = "stream" THEN "chunks" ELSE "reply"]
  /\ UNCHANGED <<cache, calm>>

\* The chunks of a stream come to an end, or the provider breaks it off: that
\* leaves no row, no failure of the breaker and no other model to go to.
Chunks(c) ==
  /\ At(c, "chunks")
  /\ \/ call' = [call EXCEPT ![c].pc = "reply"]
     \/ ~calm /\ call' = [call EXCEPT ![c] = Over(c, "broken")]
  /\ UNCHANGED <<breaker, cache, calm>>

Answered(c, row) == [Over(c, "answer") EXCEPT !.rows = Append(@, row)]

\* The answer is logged, and the call is over.
Reply(c, k) ==
  /\ At(c, "reply") /\ call[c].kind = k
  /\ \E row \in Emitted("success") : call' = [call EXCEPT ![c] = Answered(c, row)]
  /\ UNCHANGED <<breaker, calm>>

\* Its shape is not what was asked for: it is discarded without a row.
Discard(c, k) ==
  /\ At(c, "reply") /\ call[c].kind = k /\ ~calm
  /\ call' = [call EXCEPT ![c] = Over(c, "broken")]
  /\ UNCHANGED <<breaker, calm>>

Stored(c, k) == IF c \in Cached THEN cache \union {k} ELSE cache

\* complete stores every answer the cache accepts, and before it logs it: one
\* without content breaks the call when it is in the cache already.
ReplyComplete(c) ==
  /\ Reply(c, "complete") \/ Discard(c, "complete")
  /\ cache' \in {cache, Stored(c, "complete")}

\* chat stores a final answer, not a turn with tool calls.
ReplyChat(c) ==
  \/ /\ Reply(c, "chat")
     /\ cache' \in {cache, Stored(c, "chat")}
  \/ Discard(c, "chat") /\ UNCHANGED cache

ReplyStream(c) == Reply(c, "stream") /\ UNCHANGED cache

ReplyEmbed(c) ==
  \/ Reply(c, "embed") /\ UNCHANGED cache
  \/ Discard(c, "embed") /\ UNCHANGED cache

\* A deadline or a client's departure cancels the task at an await.  Neither
\* the breaker nor the log hears of it (what a fallback makes of it is left out).
Cancel(c) ==
  /\ ~At(c, "over") /\ ~calm
  /\ call' = [call EXCEPT ![c] = Over(c, "cancelled")]
  /\ UNCHANGED <<breaker, cache, calm>>

\* The cache entry's ttl.
Expire ==
  /\ \E k \in cache : cache' = cache \ {k}
  /\ UNCHANGED <<breaker, call, calm>>

Weather ==
  /\ calm' = ~calm
  /\ UNCHANGED <<breaker, cache, call>>

Step(c) ==
  \/ Admit(c) \/ CallSucceeds(c) \/ CallFails(c) \/ CountFailure(c)
  \/ RecordSuccess(c) \/ Chunks(c)
  \/ ReplyComplete(c) \/ ReplyChat(c) \/ ReplyStream(c) \/ ReplyEmbed(c)

Next ==
  \/ \E c \in Callers : Begin(c) \/ Step(c) \/ Cancel(c)
  \/ Cool \/ Expire \/ Weather

Fairness == WF_vars(Cool) /\ \A c \in Callers : WF_vars(Step(c))

Spec     == Init /\ [][Next]_vars
FairSpec == Spec /\ Fairness

-----------------------------------------------------------------------------
(* What calls promise. *)

Calls ==
  [pc : Steps, kind : Kinds, bad : BOOLEAN, model : Nat \ {0},
   attempt : 1 .. MaxAttempts, seen : Breakers, error : Errors,
   rows : Seq(Statuses), outcome : Outcomes]

\* The breaker is a state and a count, and a call is at a model of its route.
TypeOK ==
  /\ breaker \in Breakers
  /\ cache \subseteq {"complete", "chat"}
  /\ call \in [Callers -> Calls]
  /\ \A c \in Callers : call[c].model <= Route[call[c].kind]
  /\ calm \in BOOLEAN

\* The first n models have a row each that says they failed, or lost it.
FailureRows(k, n) == \A i \in 1 .. n : k.rows[i] \in {"error", "circuit_open", "lost"}

\* llm_call_logs gets one failure row for each model that was given up, in the
\* order of the route, and a success row after them if and only if the caller
\* got an answer from a provider; a row is missing only where its write failed,
\* which the call does not notice.  A failed call was tried on every model,
\* unless the last of them was asked and the request itself found at fault.
Audited ==
  \A c \in Callers :
    LET k == call[c]
    IN  /\ k.pc # "over" \/ k.outcome \in {"cached", "broken", "cancelled"} =>
              Len(k.rows) = k.model - 1 /\ FailureRows(k, k.model - 1)
        /\ k.pc = "over" /\ k.outcome = "answer" =>
              /\ Len(k.rows) = k.model /\ FailureRows(k, k.model - 1)
              /\ k.rows[k.model] \in Emitted("success")
        /\ k.pc = "over" /\ k.outcome \in {"error", "fallback"} =>
              /\ Len(k.rows) = k.model /\ FailureRows(k, k.model)
              /\ k.model < Route[k.kind] => k.rows[k.model] \in Emitted("error")

\* An open breaker is closed by the success of a call, or by a failure that was
\* read while the breaker was closed and is written only now: record_failure
\* does not close a breaker it found open.
OpenUntilProven ==
  [][breaker.state = "OPEN" /\ breaker'.state = "CLOSED" =>
       \E c \in Callers :
         \/ At(c, "close")
         \/ At(c, "tally") /\ call[c].seen.state = "CLOSED"]_vars

\* Every call comes to an end: attempts and models are finite.
CallEnds == \A c \in Callers : ~At(c, "over") ~> At(c, "over")

\* When the weather is fine at last and calls keep coming, the breaker closes
\* for good, however it was left.
Recovers ==
  <>[]calm /\ []<>(\E c \in Callers : At(c, "admit") /\ Guarded(c))
    => <>[](breaker.state = "CLOSED")

-----------------------------------------------------------------------------
(* What documents say of it, and the code does not do. *)

\* The architecture: an open breaker is closed by a probe that succeeds.
ClosedByProbe ==
  [][breaker.state = "OPEN" /\ breaker'.state = "CLOSED" =>
       \E c \in Callers : At(c, "close")]_vars
=============================================================================
