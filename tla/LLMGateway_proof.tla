-------------------------- MODULE LLMGateway_proof --------------------------
(***************************************************************************)
(* Theorems about LLMGateway, for every number of callers, every route,    *)
(* every failure threshold and every number of attempts.                   *)
(***************************************************************************)
EXTENDS LLMGateway, TLAPS

USE DEF vars, At

LEMMA BreakerOK ==
  /\ \A n \in 0 .. Threshold : Closed(n) \in Breakers
  /\ Opened \in Breakers
BY GatewayAssumption DEF Closed, Opened, Breakers

\* What a fresh call and a fresh attempt start from.
LEMMA StartOK ==
  /\ Closed(0) \in Breakers
  /\ 1 \in 1 .. MaxAttempts
  /\ MaxAttempts \in Nat
  /\ \A k \in Kinds : Route[k] \in Nat /\ 1 <= Route[k]
  /\ <<>> \in Seq(Statuses)
<1>1. Closed(0) \in Breakers
  BY BreakerOK, GatewayAssumption
<1> QED
  BY <1>1, GatewayAssumption

LEMMA AfterFailureOK ==
  ASSUME NEW b \in Breakers PROVE AfterFailure(b) \in Breakers
<1>1. CASE b.state = "OPEN" \/ b.failures + 1 >= Threshold
  BY <1>1, BreakerOK DEF AfterFailure
<1>2. CASE ~(b.state = "OPEN" \/ b.failures + 1 >= Threshold)
  <2>1. b.failures + 1 \in 0 .. Threshold
    BY <1>2, GatewayAssumption DEF Breakers
  <2> QED
    BY <1>2, <2>1, BreakerOK DEF AfterFailure
<1> QED
  BY <1>1, <1>2

\* A call that is at a model of its route.
OnRoute(k) == k \in Calls /\ k.model <= Route[k.kind]

LEMMA NewCallOK ==
  ASSUME NEW k \in Kinds, NEW bad \in BOOLEAN
  PROVE  OnRoute(NewCall(k, bad)) /\ OnRoute(Hit(k, bad))
<1>1. NewCall(k, bad) \in Calls
  BY StartOK DEF NewCall, Calls, Steps, Errors, Outcomes
<1>2. Hit(k, bad) \in Calls
  BY <1>1 DEF Hit, Calls, Steps, Outcomes
<1>3. NewCall(k, bad).model = 1 /\ NewCall(k, bad).kind = k
  BY DEF NewCall
<1>4. Hit(k, bad).model = 1 /\ Hit(k, bad).kind = k
  BY <1>1, <1>3 DEF Hit, Calls
<1> QED
  BY <1>1, <1>2, <1>3, <1>4, StartOK DEF OnRoute

LEMMA QuietOK == OnRoute(Quiet)
<1> DEFINE k == NewCall("complete", FALSE)
<1>1. OnRoute(k)
  BY NewCallOK DEF Kinds
<1> HIDE DEF k
<1>2. [k EXCEPT !.pc = "over", !.outcome = "cached"] \in Calls
  BY <1>1 DEF OnRoute, Calls, Steps, Outcomes
<1>3. OnRoute([k EXCEPT !.pc = "over", !.outcome = "cached"])
  BY <1>1, <1>2 DEF OnRoute, Calls
<1> QED
  BY <1>3 DEF Quiet, k

LEMMA TypeInit == Init => TypeOK
BY QuietOK, BreakerOK, GatewayAssumption DEF Init, TypeOK, OnRoute

\* What becomes of a call when one of its fields changes.
LEMMA AfterModelOK ==
  ASSUME NEW c \in Callers, call \in [Callers -> Calls], OnRoute(call[c]),
         NEW row \in Statuses, NEW error \in Errors
  PROVE  OnRoute(AfterModel(c, row, error))
<1> DEFINE k == Logged(c, row)
<1>1. /\ OnRoute(k)
      /\ k.kind = call[c].kind /\ k.model = call[c].model
  <2>1. Append(call[c].rows, row) \in Seq(Statuses)
    BY DEF OnRoute, Calls
  <2>2. k \in Calls
    BY <2>1, StartOK DEF Logged, OnRoute, Calls, Errors
  <2>3. k.kind = call[c].kind /\ k.model = call[c].model
    BY DEF Logged, OnRoute, Calls
  <2> QED
    BY <2>2, <2>3 DEF OnRoute
<1> HIDE DEF k
<1>2. CASE HasNext(call[c])
  <2>1. k.model + 1 <= Route[k.kind]
    BY <1>1, <1>2, GatewayAssumption DEF HasNext, OnRoute, Calls
  <2>2. OnRoute([k EXCEPT !.pc = "admit", !.model = @ + 1, !.attempt = 1])
    <3> DEFINE j == [k EXCEPT !.pc = "admit", !.model = @ + 1, !.attempt = 1]
    <3>1. k.model + 1 \in Nat \ {0}
      BY <1>1 DEF OnRoute, Calls
    <3>2. j \in Calls
      BY <1>1, <3>1, StartOK DEF OnRoute, Calls, Steps
    <3>3. j.model = k.model + 1 /\ j.kind = k.kind
      BY <1>1 DEF OnRoute, Calls
    <3> HIDE DEF j
    <3>4. OnRoute(j)
      BY <2>1, <3>2, <3>3 DEF OnRoute
    <3> QED
      BY <3>4 DEF j
  <2>3. OnRoute(GivenUp(k))
    BY <1>1 DEF GivenUp, OnRoute, Calls, Steps, Outcomes
  <2> QED
    BY <2>2, <2>3 DEF AfterModel, k
<1>3. CASE ~HasNext(call[c])
  <2>1. OnRoute(GivenUp(k))
    BY <1>1 DEF GivenUp, OnRoute, Calls, Steps, Outcomes
  <2> QED
    BY <1>3, <2>1 DEF AfterModel, k
<1> QED
  BY <1>2, <1>3

LEMMA OverOK ==
  ASSUME NEW c \in Callers, OnRoute(call[c]), NEW outcome \in Outcomes
  PROVE  OnRoute(Over(c, outcome))
BY StartOK DEF Over, OnRoute, Calls, Steps, Errors

LEMMA NextAttemptOK ==
  ASSUME NEW k, OnRoute(k) PROVE OnRoute(NextAttempt(k))
<1>1. (IF k.attempt < MaxAttempts THEN k.attempt + 1 ELSE k.attempt) \in 1 .. MaxAttempts
  BY StartOK DEF OnRoute, Calls
<1>2. NextAttempt(k) \in Calls
  BY <1>1, StartOK DEF NextAttempt, OnRoute, Calls, Steps
<1>3. NextAttempt(k).model = k.model /\ NextAttempt(k).kind = k.kind
  BY DEF NextAttempt, OnRoute, Calls
<1> QED
  BY <1>2, <1>3 DEF OnRoute

\* The types survive when one call changes and stays on its route.
LEMMA CallChanges ==
  ASSUME TypeOK, NEW c \in Callers, NEW k, OnRoute(k),
         call' = [call EXCEPT ![c] = k],
         breaker' \in Breakers, cache' \subseteq {"complete", "chat"}, UNCHANGED calm
  PROVE  TypeOK'
BY DEF TypeOK, OnRoute

LEMMA BeginTypes ==
  ASSUME TypeOK, NEW c \in Callers, Begin(c) PROVE TypeOK'
<1>1. PICK k \in Kinds, bad \in BOOLEAN, useCache \in BOOLEAN :
        Request(c, k, bad, useCache)
  BY DEF Begin, BeginComplete, BeginChat, BeginStream, BeginEmbed, Kinds, TypeOK
<1> QED
  BY <1>1, NewCallOK, CallChanges DEF Request, TypeOK

LEMMA StepTypes ==
  ASSUME TypeOK, NEW c \in Callers, Step(c) PROVE TypeOK'
<1>1. OnRoute(call[c]) /\ call \in [Callers -> Calls] /\ breaker \in Breakers
  BY DEF TypeOK, OnRoute
<1>2. CASE Admit(c)
  <2>1. \A row \in Emitted("circuit_open") : OnRoute(Rejected(c, row))
    BY <1>1, AfterModelOK DEF Rejected, Emitted, Statuses, Errors
  <2>2. OnRoute([call[c] EXCEPT !.pc = "call"])
    BY <1>1 DEF OnRoute, Calls, Steps
  <2>3. CASE call' = [call EXCEPT ![c].pc = "call"]
    <3>1. call' = [call EXCEPT ![c] = [call[c] EXCEPT !.pc = "call"]]
      BY <1>1, <2>3
    <3> QED
      BY <1>2, <2>2, <3>1, CallChanges DEF Admit, TypeOK
  <2>4. ASSUME NEW row \in Emitted("circuit_open"), call' = [call EXCEPT ![c] = Rejected(c, row)]
        PROVE  TypeOK'
    BY <1>2, <2>1, <2>4, CallChanges DEF Admit, TypeOK
  <2> QED
    BY <1>2, <2>3, <2>4 DEF Admit
<1>3. ASSUME NEW pc \in Steps, call' = [call EXCEPT ![c].pc = pc],
             UNCHANGED calm, breaker' \in Breakers, cache' \subseteq {"complete", "chat"}
      PROVE  TypeOK'
  <2>1. OnRoute([call[c] EXCEPT !.pc = pc])
    BY <1>1 DEF OnRoute, Calls
  <2> QED
    BY <1>3, <2>1, CallChanges
<1>4. CASE CallSucceeds(c)
  BY <1>3, <1>4 DEF CallSucceeds, TypeOK, Steps
<1>5. CASE CallFails(c)
  <2>1. PICK error \in Errors :
          call' = [call EXCEPT ![c].pc = "tally", ![c].error = error, ![c].seen = breaker]
    BY <1>5 DEF CallFails
  <2> DEFINE k == [call[c] EXCEPT !.pc = "tally", !.error = error, !.seen = breaker]
  <2>2. OnRoute(k)
    BY <1>1 DEF OnRoute, Calls, Steps
  <2>3. call' = [call EXCEPT ![c] = k]
    BY <1>1, <2>1
  <2> HIDE DEF k
  <2> QED
    BY <1>5, <2>2, <2>3, CallChanges DEF CallFails, TypeOK
<1>6. CASE CountFailure(c)
  <2>1. breaker' \in Breakers
    BY <1>1, <1>6, AfterFailureOK DEF CountFailure, OnRoute, Calls
  <2>2. OnRoute(NextAttempt(call[c]))
        /\ \A row \in Emitted("error") : OnRoute(AfterModel(c, row, call[c].error))
    BY <1>1, NextAttemptOK, AfterModelOK DEF Emitted, Statuses, OnRoute, Calls
  <2> QED
    BY <1>6, <2>1, <2>2, CallChanges DEF CountFailure, TypeOK
<1>7. CASE RecordSuccess(c)
  BY <1>3, <1>7, StartOK DEF RecordSuccess, TypeOK, Steps
<1>8. CASE Chunks(c)
  <2>1. CASE call' = [call EXCEPT ![c].pc = "reply"]
    BY <1>3, <1>8, <2>1 DEF Chunks, TypeOK, Steps
  <2>2. CASE call' = [call EXCEPT ![c] = Over(c, "broken")]
    BY <1>1, <1>8, <2>2, OverOK, CallChanges DEF Chunks, TypeOK, Outcomes
  <2> QED
    BY <1>8, <2>1, <2>2 DEF Chunks
<1>9. ASSUME NEW k \in {"complete", "chat", "stream", "embed"},
             Reply(c, k) \/ Discard(c, k), cache' \subseteq {"complete", "chat"}
      PROVE  TypeOK'
  <2>1. OnRoute(Over(c, "broken")) /\ OnRoute(Over(c, "answer"))
    BY <1>1, OverOK DEF Outcomes
  <2>2. \A row \in Emitted("success") : OnRoute(Answered(c, row))
    <3> DEFINE j == Over(c, "answer")
    <3>1. OnRoute(j)
      BY <2>1
    <3> HIDE DEF j
    <3>2. \A row \in Emitted("success") : Append(j.rows, row) \in Seq(Statuses)
      BY <3>1 DEF OnRoute, Calls, Emitted, Statuses
    <3>3. \A row \in Emitted("success") : OnRoute([j EXCEPT !.rows = Append(@, row)])
      BY <3>1, <3>2 DEF OnRoute, Calls
    <3> QED
      BY <3>3 DEF Answered, j
  <2> QED
    BY <1>1, <1>9, <2>1, <2>2, CallChanges DEF Reply, Discard, TypeOK
<1>10. CASE ReplyComplete(c) \/ ReplyChat(c) \/ ReplyStream(c) \/ ReplyEmbed(c)
  BY <1>9, <1>10
  DEF ReplyComplete, ReplyChat, ReplyStream, ReplyEmbed, Discard, Stored, TypeOK
<1> QED
  BY <1>2, <1>4, <1>5, <1>6, <1>7, <1>8, <1>10 DEF Step

LEMMA TypeStep ==
  ASSUME TypeOK, [Next]_vars PROVE TypeOK'
<1>1. ASSUME NEW c \in Callers, Cancel(c) PROVE TypeOK'
  BY <1>1, OverOK, CallChanges DEF Cancel, TypeOK, OnRoute, Outcomes
<1>2. CASE Cool
  BY <1>2 DEF Cool, TypeOK, Breakers
<1>3. CASE Expire \/ Weather \/ UNCHANGED vars
  BY <1>3 DEF Expire, Weather, TypeOK
<1> QED
  BY <1>1, <1>2, <1>3, BeginTypes, StepTypes DEF Next

\* Type correctness: the count never passes the threshold, and a call is always
\* at a model of its route and an attempt it may make.
THEOREM TypeCorrect == Spec => []TypeOK
BY TypeInit, TypeStep, PTL DEF Spec

-----------------------------------------------------------------------------
(* Who closes an open breaker. *)

\* A step that closes an open breaker is a success, or a failure whose count
\* was read before the breaker opened.
ClosedByCall ==
  breaker.state = "OPEN" /\ breaker'.state = "CLOSED" =>
    \E c \in Callers :
      \/ At(c, "close")
      \/ At(c, "tally") /\ call[c].seen.state = "CLOSED"

LEMMA ClosingStep ==
  ASSUME TypeOK, [Next]_vars PROVE ClosedByCall
<1>1. CASE UNCHANGED breaker
  BY <1>1 DEF ClosedByCall
<1>2. CASE Cool
  BY <1>2 DEF Cool, ClosedByCall, TypeOK, Breakers
<1>3. ASSUME NEW c \in Callers, RecordSuccess(c) PROVE ClosedByCall
  BY <1>3 DEF RecordSuccess, ClosedByCall
<1>4. ASSUME NEW c \in Callers, CountFailure(c) PROVE ClosedByCall
  <2>1. call[c].seen \in Breakers
    BY DEF TypeOK, Calls
  <2>2. call[c].seen.state = "OPEN" => AfterFailure(call[c].seen).state = "OPEN"
    BY DEF AfterFailure, Opened
  <2> QED
    BY <1>4, <2>1, <2>2 DEF CountFailure, ClosedByCall, Breakers
<1> QED
  BY <1>1, <1>2, <1>3, <1>4
  DEF Next, Begin, BeginComplete, BeginChat, BeginStream, BeginEmbed, Request, Step,
    Admit, CallSucceeds, CallFails, Chunks, ReplyComplete, ReplyChat, ReplyStream,
    ReplyEmbed, Reply, Discard, Cancel, Expire, Weather

\* However many processes share the breaker, it is not closed by a failure that
\* found it open, nor by time alone: record_failure keeps an open breaker open.
THEOREM OpenStaysOpen == Spec => OpenUntilProven
<1>1. Spec => [][ClosedByCall]_vars
  BY TypeInit, TypeStep, ClosingStep, PTL DEF Spec
<1> QED
  BY <1>1 DEF OpenUntilProven, ClosedByCall

-----------------------------------------------------------------------------
(* What the log says of a call. *)

\* The statement of Audited about one call.
AuditedCall(k) ==
  /\ k.pc # "over" \/ k.outcome \in {"cached", "broken", "cancelled"} =>
       Len(k.rows) = k.model - 1 /\ FailureRows(k, k.model - 1)
  /\ k.pc = "over" /\ k.outcome = "answer" =>
       /\ Len(k.rows) = k.model /\ FailureRows(k, k.model - 1)
       /\ k.rows[k.model] \in Emitted("success")
  /\ k.pc = "over" /\ k.outcome \in {"error", "fallback"} =>
       /\ Len(k.rows) = k.model /\ FailureRows(k, k.model)
       /\ k.model < Route[k.kind] => k.rows[k.model] \in Emitted("error")

\* A call under way: each model before this one has left a row.
UnderWay(k) == Len(k.rows) = k.model - 1 /\ FailureRows(k, k.model - 1)

LEMMA NewCallAudited ==
  ASSUME NEW k \in Kinds, NEW bad \in BOOLEAN
  PROVE  AuditedCall(NewCall(k, bad)) /\ AuditedCall(Hit(k, bad))
<1> DEFINE j == NewCall(k, bad)
<1>1. j.pc = "admit" /\ j.model = 1 /\ j.rows = <<>>
  BY DEF NewCall
<1>2. /\ Hit(k, bad).pc = "over" /\ Hit(k, bad).outcome = "cached"
      /\ Hit(k, bad).model = 1 /\ Hit(k, bad).rows = <<>>
  BY DEF Hit, NewCall
<1> HIDE DEF j
<1>3. AuditedCall(j)
  BY <1>1 DEF AuditedCall, FailureRows
<1>4. AuditedCall(Hit(k, bad))
  BY <1>2 DEF AuditedCall, FailureRows
<1> QED
  BY <1>3, <1>4 DEF j

\* A call that goes on at the same model, or is broken off there.
LEMMA SameModelAudited ==
  ASSUME NEW k, UnderWay(k), NEW j, j.rows = k.rows, j.model = k.model,
         j.pc # "over" \/ j.outcome \in {"cached", "broken", "cancelled"}
  PROVE  AuditedCall(j)
BY DEF AuditedCall, UnderWay, FailureRows

LEMMA UnderWayIs ==
  ASSUME NEW k, AuditedCall(k), k.pc # "over" PROVE UnderWay(k)
BY DEF AuditedCall, UnderWay

\* The rows of a call that gives a model up.
LEMMA LoggedRows ==
  ASSUME NEW k \in Calls, UnderWay(k), NEW row \in {"error", "circuit_open", "lost"},
         NEW j, j.rows = Append(k.rows, row)
  PROVE  Len(j.rows) = k.model /\ FailureRows(j, k.model) /\ j.rows[k.model] = row
<1>1. k.rows \in Seq(Statuses) /\ k.model \in Nat \ {0} /\ Len(k.rows) = k.model - 1
  BY DEF Calls, UnderWay
<1>2. /\ Len(j.rows) = k.model /\ j.rows[k.model] = row
      /\ \A i \in 1 .. k.model - 1 : j.rows[i] = k.rows[i]
  BY <1>1
<1>3. \A i \in 1 .. k.model : i = k.model \/ i \in 1 .. k.model - 1
  BY <1>1
<1> QED
  BY <1>2, <1>3 DEF UnderWay, FailureRows

LEMMA AfterModelAudited ==
  ASSUME NEW c \in Callers, OnRoute(call[c]), UnderWay(call[c]),
         NEW status \in {"error", "circuit_open"}, NEW row \in Emitted(status),
         NEW error \in Errors, status = "circuit_open" => error # "unrecoverable"
  PROVE  AuditedCall(AfterModel(c, row, error))
<1> DEFINE k == call[c]
           j == Logged(c, row)
           next == [j EXCEPT !.pc = "admit", !.model = @ + 1, !.attempt = 1]
<1>1. /\ k \in Calls /\ k.model \in Nat \ {0} /\ Route[k.kind] \in Nat
      /\ k.model <= Route[k.kind]
  BY GatewayAssumption DEF OnRoute, Calls
<1>2. j.rows = Append(k.rows, row) /\ j.model = k.model /\ j.kind = k.kind
  BY <1>1 DEF Logged, Calls
<1>0. row \in {"error", "circuit_open", "lost"}
  BY DEF Emitted
<1>3. /\ next.pc = "admit" /\ next.model = k.model + 1 /\ next.rows = j.rows
  BY <1>1 DEF Logged, Calls
<1>4. /\ GivenUp(j).pc = "over" /\ GivenUp(j).outcome \in {"error", "fallback"}
      /\ GivenUp(j).rows = j.rows /\ GivenUp(j).model = k.model
      /\ GivenUp(j).kind = k.kind
  BY <1>1 DEF GivenUp, Logged, Calls
<1>5. AfterModel(c, row, error) =
        IF error # "unrecoverable" /\ HasNext(k) THEN next ELSE GivenUp(j)
  BY DEF AfterModel
<1> HIDE DEF j, next
<1>6. CASE error # "unrecoverable" /\ HasNext(k)
  <2>1. Len(next.rows) = k.model /\ FailureRows(next, k.model)
    <3>1. next.rows = Append(k.rows, row)
      BY <1>2, <1>3
    <3> QED
      BY <1>0, <1>1, <3>1, LoggedRows, SMTT(30)
  <2>2. next.model - 1 = k.model
    BY <1>1, <1>3
  <2>3. AuditedCall(next)
    BY <1>3, <2>1, <2>2 DEF AuditedCall
  <2> QED
    BY <1>5, <1>6, <2>3
<1>7. CASE ~(error # "unrecoverable" /\ HasNext(k))
  <2> DEFINE g == GivenUp(j)
  <2>1. Len(g.rows) = k.model /\ FailureRows(g, k.model) /\ g.rows[k.model] = row
    BY <1>0, <1>1, <1>2, <1>4, LoggedRows, SMTT(30)
  <2>2. g.model < Route[g.kind] => row \in Emitted("error")
    BY <1>4, <1>7 DEF HasNext
  <2> HIDE DEF g
  <2>3. AuditedCall(g)
    BY <1>4, <2>1, <2>2 DEF AuditedCall, g
  <2> QED
    BY <1>5, <1>7, <2>3 DEF g
<1> QED
  BY <1>6, <1>7

LEMMA AnsweredAudited ==
  ASSUME NEW c \in Callers, OnRoute(call[c]), UnderWay(call[c]),
         NEW row \in Emitted("success")
  PROVE  AuditedCall(Answered(c, row))
<1> DEFINE k == call[c]
           j == Answered(c, row)
<1>1. k.rows \in Seq(Statuses) /\ k.model \in Nat \ {0} /\ Len(k.rows) = k.model - 1
  BY DEF OnRoute, Calls, UnderWay
<1>2. /\ j.pc = "over" /\ j.outcome = "answer" /\ j.model = k.model
      /\ j.rows = Append(k.rows, row)
  BY DEF Answered, Over, OnRoute, Calls
<1> HIDE DEF j
<1>3. /\ Len(j.rows) = k.model /\ j.rows[k.model] = row
      /\ \A i \in 1 .. k.model - 1 : j.rows[i] = k.rows[i]
  BY <1>1, <1>2
<1>4. AuditedCall(j)
  BY <1>2, <1>3 DEF AuditedCall, UnderWay, FailureRows
<1> QED
  BY <1>4 DEF j

LEMMA OverAudited ==
  ASSUME NEW c \in Callers, OnRoute(call[c]), UnderWay(call[c]),
         NEW outcome \in {"broken", "cancelled"}
  PROVE  AuditedCall(Over(c, outcome))
<1> DEFINE j == Over(c, outcome)
<1>1. j.rows = call[c].rows /\ j.model = call[c].model /\ j.outcome = outcome
  BY DEF Over, OnRoute, Calls
<1> HIDE DEF j
<1>2. AuditedCall(j)
  BY <1>1, SameModelAudited
<1> QED
  BY <1>2 DEF j

AuditedCalls == \A c \in Callers : AuditedCall(call[c])

LEMMA CallAudited ==
  ASSUME TypeOK, AuditedCalls, NEW c \in Callers, NEW k, AuditedCall(k),
         call' = [call EXCEPT ![c] = k]
  PROVE  AuditedCalls'
BY DEF TypeOK, AuditedCalls

LEMMA StepAudited ==
  ASSUME TypeOK, AuditedCalls, NEW c \in Callers, Step(c) PROVE AuditedCalls'
<1>1. OnRoute(call[c]) /\ call[c] \in Calls /\ call \in [Callers -> Calls]
  BY DEF TypeOK, OnRoute
<1>2. call[c].pc # "over"
  BY DEF Step, Admit, CallSucceeds, CallFails, CountFailure, RecordSuccess, Chunks,
    ReplyComplete, ReplyChat, ReplyStream, ReplyEmbed, Reply, Discard
<1>3. UnderWay(call[c])
  BY <1>2, UnderWayIs DEF AuditedCalls
<1>4. ASSUME NEW pc \in Steps \ {"over"}, call' = [call EXCEPT ![c].pc = pc]
      PROVE  AuditedCalls'
  <2> DEFINE j == [call[c] EXCEPT !.pc = pc]
  <2>1. j.rows = call[c].rows /\ j.model = call[c].model /\ j.pc # "over"
    BY <1>1 DEF Calls
  <2>2. call' = [call EXCEPT ![c] = j]
    BY <1>4
  <2> HIDE DEF j
  <2>3. AuditedCall(j)
    BY <1>3, <2>1, SameModelAudited
  <2> QED
    BY <2>2, <2>3, CallAudited
<1>5. CASE Admit(c)
  <2>1. \A row \in Emitted("circuit_open") : AuditedCall(Rejected(c, row))
    BY <1>1, <1>3, AfterModelAudited DEF Rejected, Errors
  <2>2. CASE \E row \in Emitted("circuit_open") : call' = [call EXCEPT ![c] = Rejected(c, row)]
    BY <2>1, <2>2, CallAudited
  <2>3. CASE call' = [call EXCEPT ![c].pc = "call"]
    BY <1>4, <2>3 DEF Steps
  <2> QED
    BY <1>1, <1>5, <2>2, <2>3 DEF Admit
<1>6. CASE CallSucceeds(c)
  BY <1>4, <1>6 DEF CallSucceeds, Steps
<1>7. CASE CallFails(c)
  <2>1. PICK error \in Errors :
          call' = [call EXCEPT ![c].pc = "tally", ![c].error = error, ![c].seen = breaker]
    BY <1>7 DEF CallFails
  <2> DEFINE j == [call[c] EXCEPT !.pc = "tally", !.error = error, !.seen = breaker]
  <2>2. j.rows = call[c].rows /\ j.model = call[c].model /\ j.pc # "over"
    BY <1>1 DEF Calls
  <2>3. call' = [call EXCEPT ![c] = j]
    BY <1>1, <2>1
  <2> HIDE DEF j
  <2>4. AuditedCall(j)
    BY <1>3, <2>2, SameModelAudited
  <2> QED
    BY <2>3, <2>4, CallAudited
<1>8. CASE CountFailure(c)
  <2>1. \A row \in Emitted("error") : AuditedCall(AfterModel(c, row, call[c].error))
    <3>1. call[c].error \in Errors
      BY <1>1 DEF Calls
    <3> QED
      BY <1>1, <1>3, <3>1, AfterModelAudited
  <2>2. AuditedCall(NextAttempt(call[c]))
    <3> DEFINE j == NextAttempt(call[c])
    <3>1. j.rows = call[c].rows /\ j.model = call[c].model /\ j.pc # "over"
      BY <1>1 DEF NextAttempt, Calls
    <3> HIDE DEF j
    <3>2. AuditedCall(j)
      BY <1>3, <3>1, SameModelAudited
    <3> QED
      BY <3>2 DEF j
  <2> QED
    BY <1>8, <2>1, <2>2, CallAudited DEF CountFailure
<1>9. CASE RecordSuccess(c)
  BY <1>4, <1>9 DEF RecordSuccess, Steps
<1>10. CASE Chunks(c)
  <2>1. AuditedCall(Over(c, "broken"))
    BY <1>1, <1>3, OverAudited
  <2> QED
    BY <1>4, <1>10, <2>1, CallAudited DEF Chunks, Steps
<1>11. CASE ReplyComplete(c) \/ ReplyChat(c) \/ ReplyStream(c) \/ ReplyEmbed(c)
  <2>1. /\ \A row \in Emitted("success") : AuditedCall(Answered(c, row))
        /\ AuditedCall(Over(c, "broken"))
    BY <1>1, <1>3, AnsweredAudited, OverAudited
  <2> QED
    BY <1>11, <2>1, CallAudited
    DEF ReplyComplete, ReplyChat, ReplyStream, ReplyEmbed, Reply, Discard
<1> QED
  BY <1>5, <1>6, <1>7, <1>8, <1>9, <1>10, <1>11 DEF Step

LEMMA AuditStep ==
  ASSUME TypeOK, AuditedCalls, [Next]_vars PROVE AuditedCalls'
<1>1. ASSUME NEW c \in Callers, Begin(c) PROVE AuditedCalls'
  <2>1. PICK k \in Kinds, bad \in BOOLEAN, useCache \in BOOLEAN :
          Request(c, k, bad, useCache)
    BY <1>1 DEF Begin, BeginComplete, BeginChat, BeginStream, BeginEmbed, Kinds, TypeOK
  <2> QED
    BY <2>1, NewCallAudited, CallAudited DEF Request
<1>2. ASSUME NEW c \in Callers, Cancel(c) PROVE AuditedCalls'
  <2>1. OnRoute(call[c]) /\ UnderWay(call[c])
    BY <1>2, UnderWayIs DEF TypeOK, OnRoute, AuditedCalls, Cancel
  <2> QED
    BY <1>2, <2>1, OverAudited, CallAudited DEF Cancel
<1>3. CASE Cool \/ Expire \/ Weather \/ UNCHANGED vars
  BY <1>3 DEF Cool, Expire, Weather, AuditedCalls
<1> QED
  BY <1>1, <1>2, <1>3, StepAudited DEF Next

LEMMA AuditInit == Init => AuditedCalls
<1>1. /\ Quiet.pc = "over" /\ Quiet.outcome = "cached" /\ Quiet.model = 1
      /\ Quiet.rows = <<>>
  BY DEF Quiet, NewCall
<1>2. AuditedCall(Quiet)
  BY <1>1 DEF AuditedCall, FailureRows
<1> QED
  BY <1>2 DEF Init, AuditedCalls

\* Every row the log holds is true and no row is missing but for a write that
\* failed, for any routes, attempts and weather: one failure row for each model
\* given up, a success row exactly if a provider answered, and no model passed
\* over unless the request was at fault.
THEOREM CallsAreAudited == Spec => []Audited
<1>1. AuditedCalls => Audited
  BY DEF AuditedCalls, AuditedCall, Audited
<1> QED
  BY <1>1, TypeInit, TypeStep, AuditInit, AuditStep, PTL DEF Spec
=============================================================================
