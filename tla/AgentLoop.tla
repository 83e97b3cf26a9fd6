----------------------------- MODULE AgentLoop -----------------------------
(***************************************************************************)
(* FlexibleLoop._drive (agent/executors/flexible.py): one chat turn of the *)
(* agent.  The LLM is sent a history of messages, answers with text or     *)
(* with tool calls, the calls are gated by permissions and run             *)
(* concurrently, their outcomes are appended, and so on up to max_steps.   *)
(* The provider rejects a history in which a tool call is not answered by  *)
(* exactly one tool message, so every path has to keep the two paired.     *)
(***************************************************************************)
EXTENDS Naturals, Sequences, FiniteSets, FiniteSetsExt

CONSTANTS
  Tools,        \* names the LLM may call, registered or not
  Registered,   \* the tools in the registry
  Permission,   \* Permission[t]: pipeline override or default of the tool
  Mutating,     \* tools with mutates_external_state
  Modes,        \* agent modes the pipeline may be in
  Approvals,    \* the sequences of calls a confirm token may carry
  Pasts,        \* the sequences of roles a stored session may hold
  MaxSteps,     \* config.max_steps
  MaxCalls,     \* bound on the tool calls of one LLM answer
  ProtectLastN  \* _AGENT_PROTECT_LAST_N

ASSUME LoopAssumption ==
  /\ Registered \subseteq Tools
  /\ Permission \in [Tools -> {"auto", "confirm", "deny"}]
  /\ Mutating \subseteq Tools
  /\ Modes \subseteq {"process", "analyze", "preview"}
  /\ \A a \in Approvals : a \in Seq(Tools)
  /\ \A p \in Pasts : p \in Seq({"user", "text", "summary", "calls", "tool"})
  /\ MaxSteps \in Nat /\ MaxCalls \in Nat
  /\ ProtectLastN \in Nat \ {0}

VARIABLES
  mode,         \* the agent mode of this turn
  stream,       \* run_stream rather than run
  limited,      \* there is a token budget
  exhausted,    \* budget_exhausted
  pc,           \* the next step of the loop
  approved,     \* approved calls not executed yet
  hist,         \* messages
  steps,        \* steps_executed
  calls,        \* the tool calls of the LLM's last answer
  outcome,      \* outcome[i]: what became of calls[i]
  results,      \* tool_results, and preview_plan: its entries have status "preview"
  nextId,       \* the tool call ids handed out so far
  ran,          \* history: the calls that reached a tool
  failed        \* turn_error is set

config == <<mode, stream, limited>>
turn   == <<calls, outcome>>
vars   == <<config, exhausted, pc, approved, hist, steps, turn, results, nextId,
            ran, failed>>

\* A message: its role, and the tool call ids it opens or answers.
Message(role, ids) == [role |-> role, ids |-> ids]
Answer(id)  == Message("tool", <<id>>)
Text(role)  == Message(role, <<>>)

Result(id, tool, status) == [id |-> id, tool |-> tool, status |-> status]

-----------------------------------------------------------------------------
(* Histories. *)

\* _session_messages: only plain user and assistant texts are replayed.
Rehydrated(past) ==
  LET plain[n \in 0 .. Len(past)] ==
        IF n = 0 THEN <<>>
        ELSE IF past[n] \in {"user", "text"} THEN Append(plain[n - 1], Text(past[n]))
        ELSE plain[n - 1]
  IN  plain[Len(past)]

\* The tool calls of h[1 .. n] that h[1 .. n] does not answer.
Open(h, n) ==
  {id \in UNION {{h[i].ids[j] : j \in DOMAIN h[i].ids} :
                    i \in {k \in 1 .. n : h[k].role = "calls"}} :
     \A k \in 1 .. n : h[k] # Answer(id)}

\* _validate_history finds nothing: a tool message answers a call that is still
\* open, with nothing but tool messages in between, and calls are answered
\* before the next message of another kind.
Valid(h) ==
  /\ \A i \in DOMAIN h : h[i].role # "tool" => Open(h, i - 1) = {}
  /\ \A i \in DOMAIN h : h[i].role = "tool" => h[i].ids[1] \in Open(h, i - 1)
  /\ Open(h, Len(h)) = {}

\* _safe_cut_points
SafeCuts(h) ==
  {i \in DOMAIN h : h[i].role \in {"user", "text", "calls"} /\ Open(h, i - 1) = {}}

\* Where compact_agent_messages cuts a history that begins with the system
\* prompt, counted from 1.
Cut(h) ==
  LET target == Max({2, Len(h) - ProtectLastN + 1})
  IN  Max({2} \union {i \in SafeCuts(h) : i <= target})

\* compact_agent_messages over its threshold: the head becomes one summary.
Compacted(h) ==
  IF Cut(h) = 2 THEN h
    ELSE <<h[1], Text("summary")>> \o SubSeq(h, Cut(h), Len(h))

-----------------------------------------------------------------------------
Init ==
  /\ mode \in Modes
  /\ stream \in BOOLEAN
  /\ limited \in BOOLEAN
  /\ exhausted \in {FALSE, limited}
  /\ approved \in Approvals
  /\ \E past \in Pasts :
       hist = <<Text("system")>> \o Rehydrated(past) \o <<Text("user")>>
  /\ pc = IF stream /\ mode = "preview" THEN "raised" ELSE "approved"
  /\ steps = 0
  /\ calls = <<>>
  /\ outcome = <<>>
  /\ results = <<>>
  /\ nextId = 0
  /\ ran = {}
  /\ failed = FALSE

Blocked(t) == Permission[t] = "deny" \/ (mode = "analyze" /\ t \in Mutating)

\* The record of a call that reached its tool.
Run(id, tool, confirmed) == [id |-> id, tool |-> tool, confirmed |-> confirmed]

\* _execute_approved_calls: each call a person confirmed is run, alone, before
\* the loop starts; what is forbidden by now is refused, confirmed or not.
RunApproved ==
  /\ pc = "approved"
  /\ approved # <<>>
  /\ approved' = Tail(approved)
  /\ LET t  == Head(approved)
         id == nextId + 1
     IN  \/ /\ t \notin Registered
            /\ results' = Append(results, Result(id, t, "unknown"))
            /\ UNCHANGED <<hist, ran>>
         \/ /\ t \in Registered /\ Blocked(t)
            /\ hist' = Append(hist, Answer(id))
            /\ results' = Append(results, Result(id, t, "refused"))
            /\ UNCHANGED ran
         \/ /\ t \in Registered /\ ~Blocked(t)
            /\ hist' = hist \o <<Message("calls", <<id>>), Answer(id)>>
            /\ ran' = ran \union {Run(id, t, TRUE)}
            /\ \E status \in {"ok", "error"} :
                 results' = Append(results, Result(id, t, status))
  /\ nextId' = nextId + 1
  /\ UNCHANGED <<config, exhausted, pc, steps, turn, failed>>

StartLoop ==
  /\ pc = "approved"
  /\ approved = <<>>
  /\ pc' = "loop"
  /\ UNCHANGED <<config, exhausted, approved, hist, steps, turn, results, nextId,
                 ran, failed>>

\* The loop's condition, and _compress_history when it goes on.
LoopHead ==
  /\ pc = "loop"
  /\ \/ /\ steps < MaxSteps /\ ~exhausted
        /\ pc' = "turn"
        /\ hist' \in {hist, Compacted(hist)}
     \/ /\ steps = MaxSteps \/ exhausted
        /\ pc' = "finish"
        /\ UNCHANGED hist
  /\ UNCHANGED <<config, exhausted, approved, steps, turn, results, nextId, ran,
                 failed>>

\* Mutant of Gate: a mode that blocks a tool is not looked at here.
GateByPermission(t) ==
  CASE Permission[t] = "deny"    -> "denied"
    [] Permission[t] = "confirm" -> "pending"
    [] Permission[t] = "auto"    -> IF t \in Registered THEN "running" ELSE "unknown"

\* Phase 1: the first gate that applies decides.
Gate(t) ==
  IF Blocked(t) THEN "denied"
  ELSE IF mode = "preview" THEN "preview"
  ELSE IF Permission[t] = "confirm" THEN "pending"
  ELSE IF t \in Registered THEN "running" ELSE "unknown"

\* Mutant of Answered: the budget is looked at after the tools.
AnsweredFirst(asked) ==
  /\ calls' = [i \in DOMAIN asked |-> [id |-> nextId + i, tool |-> asked[i]]]
  /\ nextId' = nextId + Len(asked)
  /\ hist' = Append(hist, Message("calls", [i \in DOMAIN asked |-> nextId + i]))
  /\ outcome' = [i \in DOMAIN asked |-> Gate(asked[i])]
  /\ exhausted' \in {FALSE, limited}
  /\ pc' = "tools"

\* The LLM answered with tool calls; the budget, when this answer used it up,
\* ends the turn before any of them is gated.
Answered(asked) ==
  /\ calls' = [i \in DOMAIN asked |-> [id |-> nextId + i, tool |-> asked[i]]]
  /\ nextId' = nextId + Len(asked)
  /\ hist' = Append(hist, Message("calls", [i \in DOMAIN asked |-> nextId + i]))
  /\ \/ /\ limited
        /\ exhausted' = TRUE
        /\ pc' = "finish"
        /\ UNCHANGED outcome
     \/ /\ outcome' = [i \in DOMAIN asked |-> Gate(asked[i])]
        /\ pc' = "tools"
        /\ UNCHANGED exhausted

\* _run_turn: the LLM fails (or times out), answers with text, or asks for
\* tools, of which it may invent the names.
RunTurn ==
  /\ pc = "turn"
  /\ steps' = steps + 1
  /\ \/ /\ failed' = TRUE
        /\ pc' = "finish"
        /\ UNCHANGED <<exhausted, hist, turn, nextId>>
     \/ /\ exhausted' \in {FALSE, limited}
        /\ pc' = "finish"
        /\ UNCHANGED <<hist, turn, nextId, failed>>
     \/ /\ \E n \in 1 .. MaxCalls : \E asked \in [1 .. n -> Tools] : Answered(asked)
        /\ UNCHANGED failed
  /\ UNCHANGED <<config, approved, results, ran>>

\* Phase 2: one of the concurrent calls ends; _execute_one_tool turns errors
\* and timeouts into an outcome.
ToolEnds(i) ==
  /\ pc = "tools"
  /\ outcome[i] = "running"
  /\ \E status \in {"ok", "error"} : outcome' = [outcome EXCEPT ![i] = status]
  /\ ran' = ran \union {Run(calls[i].id, calls[i].tool, FALSE)}
  /\ UNCHANGED <<config, exhausted, pc, approved, hist, steps, calls, results,
                 nextId, failed>>

Ran   == {"ok", "error"}
Gated == {"denied", "preview", "pending", "unknown"}

\* Mutant of Reported: only what worked is told.
ReportedSuccesses == SelectSeq([i \in DOMAIN calls |->
                                  Result(calls[i].id, calls[i].tool, outcome[i])],
                               LAMBDA r : r.status # "error")

\* What the calls of this answer add to tool_results and to preview_plan.
Reported == [i \in DOMAIN calls |-> Result(calls[i].id, calls[i].tool, outcome[i])]

\* For the mutants of TurnAnswers: the answers of some of the calls.
Answers(some) ==
  LET ids == SelectSeq([i \in DOMAIN calls |-> i], LAMBDA i : outcome[i] \in some)
  IN  [k \in DOMAIN ids |-> Answer(calls[ids[k]].id)]

\* Mutant of TurnAnswers: a call that waits for a person gets no answer yet.
AnswersUnlessPending == Answers((Ran \union Gated) \ {"pending"})

\* Mutant of TurnAnswers: gated calls are answered when they are gated.
AnswersAsTheyCome == Answers(Gated) \o Answers(Ran)

\* The answers of phase 3, in the order of the calls, whether they ran or not.
TurnAnswers == [i \in DOMAIN calls |-> Answer(calls[i].id)]

\* Mutant of Apply: the first tools that end are enough.
ApplyEarly ==
  /\ pc = "tools"
  /\ \E i \in DOMAIN outcome : outcome[i] # "running"
  /\ hist' = hist \o TurnAnswers
  /\ results' = results \o Reported
  /\ calls' = <<>> /\ outcome' = <<>>
  /\ pc' = "loop"
  /\ UNCHANGED <<config, exhausted, approved, steps, nextId, ran, failed>>

\* Phase 3: answers and results in the order of the calls.
Apply ==
  /\ pc = "tools"
  /\ \A i \in DOMAIN outcome : outcome[i] # "running"
  /\ hist' = hist \o TurnAnswers
  /\ results' = results \o Reported
  /\ calls' = <<>> /\ outcome' = <<>>
  /\ pc' = "loop"
  /\ UNCHANGED <<config, exhausted, approved, steps, nextId, ran, failed>>

\* The payload is persisted and the terminal event yielded.
Finish ==
  /\ pc = "finish"
  /\ pc' = "done"
  /\ UNCHANGED <<config, exhausted, approved, hist, steps, turn, results, nextId,
                 ran, failed>>

\* The calls under way, begun or about to begin.
Underway ==
  {Run(calls[i].id, calls[i].tool, FALSE) :
     i \in {j \in DOMAIN outcome : pc = "tools" /\ outcome[j] = "running"}}
    \union
  {Run(nextId + 1, t, TRUE) :
     t \in {u \in Registered : /\ pc = "approved" /\ approved # <<>>
                               /\ u = Head(approved) /\ ~Blocked(u)}}

\* The client of a stream goes away: the generator is closed, running tools are
\* cancelled and nothing is persisted.
Disconnect ==
  /\ stream
  /\ pc \notin {"raised", "done", "gone"}
  /\ pc' = "gone"
  /\ \E begun \in SUBSET Underway : ran' = ran \union begun
  /\ UNCHANGED <<config, exhausted, approved, hist, steps, turn, results, nextId,
                 failed>>

LoopStep ==
  \/ RunApproved \/ StartLoop \/ LoopHead \/ RunTurn \/ Apply \/ Finish
  \/ \E i \in DOMAIN outcome : ToolEnds(i)

Next == LoopStep \/ Disconnect

Spec == Init /\ [][Next]_vars
-----------------------------------------------------------------------------
(* Properties. *)

\* _validate_history's promise: whatever is sent to the LLM pairs every tool
\* call with exactly one answer.
SentHistoryValid == pc = "turn" => Valid(hist)

\* The promise is kept after any sequence of gated, failed, executed, confirmed
\* and unknown calls, sessions and compactions, unless a call that was confirmed
\* is refused.
SentHistoryPaired ==
  (\A i \in DOMAIN results : results[i].status # "refused") => SentHistoryValid

\* The answers of a turn are in the order of its calls, however their
\* executions overlapped.
AnswersInOrder ==
  pc \in {"loop", "turn"} =>
    \A i \in DOMAIN hist : hist[i].role = "calls" =>
      \A j \in DOMAIN hist[i].ids : hist[i + j] = Answer(hist[i].ids[j])

\* No tool runs that is denied or that changes something in analyze mode, even
\* confirmed; a tool to be confirmed, or any tool in preview mode, runs only if
\* it was.
GatesHold ==
  \A r \in ran :
    /\ r.tool \in Registered
    /\ Permission[r.tool] # "deny"
    /\ mode = "analyze" => r.tool \notin Mutating
    /\ mode = "preview" \/ Permission[r.tool] = "confirm" => r.confirmed

\* The caller's report is complete: when the turn is over each call that ran is
\* in it once, and what it lists as pending, which is what the confirm token
\* will carry, did not run.
ReportFaithful ==
  pc = "done" =>
    /\ \A r \in ran :
         Cardinality({i \in DOMAIN results :
                        results[i].id = r.id /\ results[i].tool = r.tool}) = 1
    /\ \A i \in DOMAIN results :
         results[i].status = "pending" => \A r \in ran : r.id # results[i].id

\* The calls whose tools run, and what every other call that got as far as the
\* gates came to: it is among the results, or will be when the rest have ended.
OpenCalls == {calls[i] : i \in {j \in DOMAIN outcome : outcome[j] = "running"}}
Settled ==
  {results[i] : i \in DOMAIN results}
    \union
  {Result(calls[i].id, calls[i].tool, outcome[i]) :
     i \in {j \in DOMAIN outcome : outcome[j] # "running"}}

\* Every call that is asked for and gated comes to exactly one thing, under an
\* id of its own, before the LLM is asked again (module ToolCalls): gathering
\* the concurrent tools and then appending what they came to, call by call,
\* loses, changes and invents nothing, even if the client leaves in between.
Protocol == INSTANCE ToolCalls WITH open <- OpenCalls, settled <- Settled
CallsSettle == Protocol!Spec

\* Once the budget is exhausted the LLM is not called again and nothing runs
\* but what a person has approved.
BudgetStops ==
  [][exhausted => /\ steps' = steps
                  /\ \A r \in ran' \ ran : r.confirmed]_vars

=============================================================================
