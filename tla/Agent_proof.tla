---------------------------- MODULE Agent_proof ----------------------------
(* The gates, the budget and the report of a chat turn hold for every set   *)
(* of tools, permissions, modes, approvals, stored sessions and bounds, and *)
(* what the turns store of their conversations is true for every set of     *)
(* users and every limit of a history.                                      *)
EXTENDS AgentLoop, Chat, FiniteSetTheorems, SequenceTheorems, WellFoundedInduction, TLAPS

USE DEF vars, config, turn

-----------------------------------------------------------------------------
(* No tool gets past its gate. *)

\* Every call that is running was let through by Gate.
RunningGated ==
  /\ pc \in {"approved", "loop", "turn"} => outcome = <<>>
  /\ \A i \in DOMAIN outcome :
       outcome[i] = "running" => Gate(calls[i].tool) = "running"

GateInv == RunningGated /\ GatesHold

\* What Gate lets run may run without confirmation.
LEMMA GatePasses ==
  ASSUME NEW t, Gate(t) = "running"
  PROVE  /\ t \in Registered /\ ~Blocked(t)
         /\ mode # "preview" /\ Permission[t] # "confirm"
BY DEF Gate

LEMMA GateInit == Init => GateInv
BY DEF Init, GateInv, RunningGated, GatesHold

\* Calls that respect the gates may join those that ran.
LEMMA GatesHoldGrow ==
  ASSUME GatesHold, UNCHANGED mode, NEW more,
         ran' = ran \union more,
         \A r \in more :
           /\ r.tool \in Registered /\ ~Blocked(r.tool)
           /\ r.confirmed \/ (mode # "preview" /\ Permission[r.tool] # "confirm")
  PROVE  GatesHold'
BY DEF GatesHold, Blocked

LEMMA GateRunApproved == GateInv /\ RunApproved => GateInv'
<1> SUFFICES ASSUME GateInv, RunApproved PROVE GateInv'
  OBVIOUS
<1>1. RunningGated'
  BY DEF GateInv, RunningGated, RunApproved, Gate, Blocked
<1>2. CASE UNCHANGED ran
  BY <1>1, <1>2 DEF GateInv, GatesHold, RunApproved
<1>3. CASE ~UNCHANGED ran
  <2> DEFINE r == Run(nextId + 1, Head(approved), TRUE)
  <2>1. /\ Head(approved) \in Registered /\ ~Blocked(Head(approved))
        /\ ran' = ran \union {r}
        /\ UNCHANGED mode
    BY <1>3 DEF RunApproved
  <2>2. r.tool = Head(approved) /\ r.confirmed
    BY DEF Run
  <2> HIDE DEF r
  <2>3. GatesHold'
    <3> DEFINE more == {r}
    <3>1. \A q \in more :
            /\ q.tool \in Registered /\ ~Blocked(q.tool)
            /\ q.confirmed
      BY <2>1, <2>2
    <3>2. ran' = ran \union more
      BY <2>1
    <3> HIDE DEF more
    <3> QED
      BY <2>1, <3>1, <3>2, GatesHoldGrow DEF GateInv
  <2> QED
    BY <1>1, <2>3 DEF GateInv
<1> QED
  BY <1>2, <1>3

LEMMA GateAnswered ==
  ASSUME RunningGated, UNCHANGED mode, pc = "turn",
         NEW n \in Nat, NEW asked \in [1 .. n -> Tools], Answered(asked)
  PROVE  RunningGated'
<1>1. CASE UNCHANGED outcome
  BY <1>1 DEF RunningGated, Answered
<1>2. CASE outcome' = [i \in DOMAIN asked |-> Gate(asked[i])]
  <2>1. \A i \in DOMAIN asked : calls'[i].tool = asked[i]
    BY DEF Answered
  <2>2. \A t : Gate(t)' = Gate(t)
    BY DEF Gate, Blocked
  <2>3. \A i \in DOMAIN outcome' : outcome'[i] = Gate(calls'[i].tool)
    BY <1>2, <2>1
  <2>4. pc' \in {"finish", "tools"}
    BY DEF Answered
  <2> QED
    BY <2>2, <2>3, <2>4 DEF RunningGated
<1> QED
  BY <1>1, <1>2 DEF Answered

LEMMA GateToolEnds ==
  ASSUME GateInv, NEW i \in DOMAIN outcome, ToolEnds(i)
  PROVE  GateInv'
<1> DEFINE r == Run(calls[i].id, calls[i].tool, FALSE)
<1>1. /\ ran' = ran \union {r} /\ UNCHANGED <<mode, calls, pc>>
      /\ outcome[i] = "running" /\ pc = "tools"
  BY DEF ToolEnds
<1>2. r.tool = calls[i].tool
  BY DEF Run
<1> HIDE DEF r
<1>3. GatesHold'
  <2> DEFINE more == {r}
  <2>1. Gate(calls[i].tool) = "running"
    BY <1>1 DEF GateInv, RunningGated
  <2>2. \A q \in more :
          /\ q.tool \in Registered /\ ~Blocked(q.tool)
          /\ mode # "preview" /\ Permission[q.tool] # "confirm"
    BY <1>2, <2>1, GatePasses
  <2>3. ran' = ran \union more
    BY <1>1
  <2> HIDE DEF more
  <2> QED
    BY <1>1, <2>2, <2>3, GatesHoldGrow DEF GateInv
<1>4. RunningGated'
  <2>1. \A t : Gate(t)' = Gate(t)
    BY <1>1 DEF Gate, Blocked
  <2>2. PICK status \in {"ok", "error"} :
          outcome' = [outcome EXCEPT ![i] = status]
    BY DEF ToolEnds
  <2>3. \A j \in DOMAIN outcome' :
          j \in DOMAIN outcome /\ (outcome'[j] = "running" => outcome[j] = "running")
    BY <2>2
  <2> QED
    BY <1>1, <2>1, <2>3 DEF GateInv, RunningGated
<1> QED
  BY <1>3, <1>4 DEF GateInv

LEMMA GateDisconnect == GateInv /\ Disconnect => GateInv'
<1> SUFFICES ASSUME GateInv, Disconnect PROVE GateInv'
  OBVIOUS
<1>1. PICK begun \in SUBSET Underway : ran' = ran \union begun
  BY DEF Disconnect
<1>2. \A r \in Underway :
        /\ r.tool \in Registered /\ ~Blocked(r.tool)
        /\ r.confirmed \/ (mode # "preview" /\ Permission[r.tool] # "confirm")
  <2>1. TAKE r \in Underway
  <2>2. CASE \E i \in DOMAIN outcome :
               outcome[i] = "running" /\ r = Run(calls[i].id, calls[i].tool, FALSE)
    BY <2>2, GatePasses DEF GateInv, RunningGated, Run
  <2>3. CASE \E t \in Registered : ~Blocked(t) /\ r = Run(nextId + 1, t, TRUE)
    BY <2>3 DEF Run
  <2> QED
    BY <2>1, <2>2, <2>3 DEF Underway
<1>3. GatesHold'
  BY <1>1, <1>2, GatesHoldGrow DEF GateInv, Disconnect
<1>4. RunningGated'
  BY DEF GateInv, RunningGated, Disconnect, Gate, Blocked
<1> QED
  BY <1>3, <1>4 DEF GateInv

LEMMA GateStep == GateInv /\ [Next]_vars => GateInv'
<1> SUFFICES ASSUME GateInv, [Next]_vars PROVE GateInv'
  OBVIOUS
<1>1. CASE RunApproved
  BY <1>1, GateRunApproved
<1>2. CASE StartLoop
  BY <1>2 DEF StartLoop, GateInv, RunningGated, GatesHold, Gate, Blocked
<1>3. CASE LoopHead
  BY <1>3 DEF LoopHead, GateInv, RunningGated, GatesHold, Gate, Blocked
<1>4. CASE RunTurn
  <2>1. GatesHold'
    BY <1>4 DEF RunTurn, GateInv, GatesHold
  <2>2. CASE UNCHANGED turn /\ pc' = "finish"
    <3>1. \A t : Gate(t)' = Gate(t)
      BY <1>4 DEF RunTurn, Gate, Blocked
    <3> QED
      BY <2>1, <2>2, <3>1 DEF GateInv, RunningGated
  <2>3. CASE \E n \in 1 .. MaxCalls : \E asked \in [1 .. n -> Tools] : Answered(asked)
    <3>1. PICK n \in Nat : \E asked \in [1 .. n -> Tools] : Answered(asked)
      BY <2>3, LoopAssumption
    <3> QED
      BY <1>4, <2>1, <3>1, GateAnswered DEF RunTurn, GateInv
  <2> QED
    BY <1>4, <2>2, <2>3 DEF RunTurn
<1>5. CASE Apply
  BY <1>5 DEF Apply, GateInv, RunningGated, GatesHold
<1>6. CASE Finish
  BY <1>6 DEF Finish, GateInv, RunningGated, GatesHold, Gate, Blocked
<1>7. CASE \E i \in DOMAIN outcome : ToolEnds(i)
  BY <1>7, GateToolEnds
<1>8. CASE Disconnect
  BY <1>8, GateDisconnect
<1>9. CASE UNCHANGED vars
  BY <1>9 DEF GateInv, RunningGated, GatesHold, Gate, Blocked
<1> QED
  BY <1>1, <1>2, <1>3, <1>4, <1>5, <1>6, <1>7, <1>8, <1>9 DEF Next, LoopStep

\* FlexibleLoop's permission gating: no tool runs that is denied, that changes
\* something in analyze mode, or that needs a confirmation it did not get,
\* whatever the LLM asks for and however the tools of an answer overlap.
THEOREM GatesAlwaysHold == Spec => []GatesHold
<1>1. GateInv => GatesHold
  BY DEF GateInv
<1> QED
  BY <1>1, GateInit, GateStep, PTL DEF Spec

-----------------------------------------------------------------------------
(* An exhausted budget stops the turn. *)

\* With the budget gone, the loop is at its head or past it.
BudgetInv == exhausted => pc \notin {"turn", "tools"}

LEMMA BudgetInit == Init => BudgetInv
BY DEF Init, BudgetInv

LEMMA BudgetStep == BudgetInv /\ [Next]_vars => BudgetInv'
BY DEF BudgetInv, Next, LoopStep, RunApproved, StartLoop, LoopHead, RunTurn,
       Answered, ToolEnds, Apply, Finish, Disconnect

\* One step of a turn whose budget is gone.
StopsNow == exhausted => /\ steps' = steps
                         /\ \A r \in ran' \ ran : r.confirmed

LEMMA BudgetStepStops == BudgetInv /\ [Next]_vars => [StopsNow]_vars
<1> SUFFICES ASSUME BudgetInv, Next, exhausted PROVE StopsNow
  BY DEF StopsNow
<1>1. CASE RunApproved
  BY <1>1 DEF StopsNow, RunApproved, Run
<1>2. CASE Disconnect
  <2>1. \A r \in Underway : r.confirmed
    BY DEF BudgetInv, Underway, Run
  <2> QED
    BY <1>2, <2>1 DEF StopsNow, Disconnect
<1>3. CASE UNCHANGED <<steps, ran>>
  BY <1>3 DEF StopsNow
<1> QED
  BY <1>1, <1>2, <1>3
  DEF BudgetInv, Next, LoopStep, StartLoop, LoopHead, RunTurn, ToolEnds, Apply,
      Finish

\* FlexibleLoop's token budget: once it is used up the LLM is not called again
\* and no tool runs but those a person had confirmed.
THEOREM BudgetAlwaysStops == Spec => BudgetStops
<1>1. Spec => [][StopsNow]_vars
  BY BudgetInit, BudgetStep, BudgetStepStops, PTL DEF Spec
<1> QED
  BY <1>1 DEF BudgetStops, StopsNow

-----------------------------------------------------------------------------
(* Sequences put together, and induction. *)

LEMMA Joined ==
  ASSUME NEW S, NEW s \in Seq(S), NEW t \in Seq(S)
  PROVE  /\ s \o t \in Seq(S) /\ Len(s \o t) = Len(s) + Len(t)
         /\ DOMAIN (s \o t) = 1 .. Len(s) + Len(t)
         /\ \A i \in 1 .. Len(s) : (s \o t)[i] = s[i]
         /\ \A i \in 1 .. Len(t) : Len(s) + i \in 1 .. Len(s) + Len(t)
                                   /\ (s \o t)[Len(s) + i] = t[i]
         /\ \A i \in 1 .. Len(s) + Len(t) :
              i \in 1 .. Len(s) \/ (i > Len(s) /\ i - Len(s) \in 1 .. Len(t))
<1>1. Len(s) \in Nat /\ Len(t) \in Nat
  OBVIOUS
<1>2. /\ s \o t \in Seq(S) /\ Len(s \o t) = Len(s) + Len(t)
      /\ \A i \in 1 .. Len(s) + Len(t) :
           (s \o t)[i] = IF i <= Len(s) THEN s[i] ELSE t[i - Len(s)]
  BY ConcatProperties
<1>3. DOMAIN (s \o t) = 1 .. Len(s) + Len(t)
  BY <1>2, LenProperties
<1>4. \A i \in 1 .. Len(t) : /\ Len(s) + i \in 1 .. Len(s) + Len(t)
                             /\ ~(Len(s) + i <= Len(s)) /\ (Len(s) + i) - Len(s) = i
  BY <1>1
<1>5. \A i \in 1 .. Len(s) : i \in 1 .. Len(s) + Len(t) /\ i <= Len(s)
  BY <1>1
<1>6. \A i \in 1 .. Len(s) + Len(t) :
        i \in 1 .. Len(s) \/ (i > Len(s) /\ i - Len(s) \in 1 .. Len(t))
  BY <1>1
<1> QED
  BY <1>2, <1>3, <1>4, <1>5, <1>6

\* A set of numbers that is not empty has a least one.
LEMMA LeastNumber ==
  ASSUME NEW T, T \subseteq Nat, T # {}
  PROVE  \E m \in T : \A k \in T : m <= k
<1> DEFINE R == OpToRel(<, Nat)
<1>1. IsWellFoundedOn(R, Nat)
  BY NatLessThanWellFounded, Zenon
<1>2. R = {ss \in Nat \X Nat : ss[1] < ss[2]}
  BY Zenon DEF OpToRel
<1> HIDE DEF R
<1>3. PICK m \in T : \A k \in T : <<k, m>> \notin R
  BY <1>1, WFMin
<1>4. ASSUME NEW k \in T PROVE m <= k
  <2>1. <<k, m>> \in Nat \X Nat /\ <<k, m>>[1] = k /\ <<k, m>>[2] = m
    OBVIOUS
  <2>2. ~ (k < m)
    BY <1>2, <1>3, <2>1
  <2> QED
    BY <2>2
<1> QED
  BY <1>4

\* Induction, for a property that is stated as a set of numbers.
LEMMA NumberInduction ==
  ASSUME NEW S, 0 \in S, \A n \in Nat : n \in S => n + 1 \in S
  PROVE  \A n \in Nat : n \in S
<1> SUFFICES ASSUME NEW n \in Nat, n \notin S PROVE FALSE
  OBVIOUS
<1> DEFINE T == {k \in Nat : k \notin S}
<1>1. T \subseteq Nat /\ T # {}
  OBVIOUS
<1> HIDE DEF T
<1>2. PICK m \in T : \A k \in T : m <= k
  BY <1>1, LeastNumber
<1>3. m \in Nat /\ m \notin S
  BY <1>2 DEF T
<1>4. m # 0 /\ m - 1 \in Nat /\ m - 1 \notin S
  BY <1>3
<1>5. m - 1 \in T
  BY <1>4 DEF T
<1> QED
  BY <1>2, <1>3, <1>5

-----------------------------------------------------------------------------
(* What has run and what is told of it. *)

Statuses == {"ok", "error", "denied", "preview", "pending", "unknown", "refused"}

Entry == [id : Nat, tool : Tools, status : Statuses]
Asked == [id : Nat, tool : Tools]

ResultsOK ==
  /\ nextId \in Nat
  /\ results \in Seq(Entry)
  /\ \A i \in DOMAIN results : results[i].id <= nextId
  /\ \A i, j \in DOMAIN results : results[i].id = results[j].id => i = j

\* The calls under way have ids of their own.
CallsOK ==
  /\ calls \in Seq(Asked)
  /\ pc \in {"approved", "loop", "turn"} => outcome = <<>>
  /\ pc = "tools" =>
       /\ DOMAIN outcome = DOMAIN calls
       /\ \A i \in DOMAIN outcome : outcome[i] \in Ran \union Gated \union {"running"}
       /\ \A i \in DOMAIN calls : calls[i].id <= nextId
       /\ \A i, j \in DOMAIN calls : calls[i].id = calls[j].id => i = j
       /\ \A i \in DOMAIN calls : \A j \in DOMAIN results : results[j].id # calls[i].id

\* A call is in the report with what became of it.
Told(r) ==
  \E i \in DOMAIN results :
    results[i].id = r.id /\ results[i].tool = r.tool /\ results[i].status \in Ran

\* A call of this answer has ended, and will be told.
Ended(r) ==
  /\ pc = "tools"
  /\ \E i \in DOMAIN outcome :
       outcome[i] \in Ran /\ r = Run(calls[i].id, calls[i].tool, FALSE)

ReportInv ==
  /\ ResultsOK /\ CallsOK
  /\ pc # "gone" => \A r \in ran : Told(r) \/ Ended(r)
  /\ approved \in Seq(Tools)

LEMMA ReportInit == Init => ReportInv
<1> SUFFICES ASSUME Init PROVE ReportInv
  OBVIOUS
<1>1. /\ results = <<>> /\ calls = <<>> /\ outcome = <<>> /\ nextId = 0 /\ ran = {}
      /\ approved \in Approvals /\ pc \in {"raised", "approved"}
  BY DEF Init
<1>2. approved \in Seq(Tools)
  BY <1>1, LoopAssumption
<1>3. /\ results \in Seq(Entry)
      /\ calls \in Seq(Asked) /\ DOMAIN results = {}
  BY <1>1
<1>4. ResultsOK /\ CallsOK
  BY <1>1, <1>3 DEF ResultsOK, CallsOK
<1> QED
  BY <1>1, <1>2, <1>4 DEF ReportInv

\* The ids of results and calls are numbers that were handed out.
LEMMA ResultIds ==
  ASSUME ResultsOK
  PROVE  \A i \in DOMAIN results : results[i].id \in Nat /\ results[i].id <= nextId
<1> SUFFICES ASSUME NEW i \in DOMAIN results PROVE results[i].id \in Nat
  BY DEF ResultsOK
<1>1. results[i] \in Entry
  BY ElementOfSeq DEF ResultsOK
<1> QED
  BY <1>1 DEF Entry

\* A result with a new id is added.
LEMMA ResultsGrow ==
  ASSUME ResultsOK, NEW t \in Tools, NEW status \in Statuses,
         results' = Append(results, Result(nextId + 1, t, status)), nextId' = nextId + 1
  PROVE  /\ ResultsOK'
         /\ \A r : Told(r) => Told(r)'
         /\ \A r : r.id = nextId + 1 /\ r.tool = t /\ status \in Ran => Told(r)'
<1> DEFINE new == Result(nextId + 1, t, status)
           n == Len(results)
<1>1. /\ results \in Seq(Entry)
      /\ nextId \in Nat /\ n \in Nat /\ DOMAIN results = 1 .. n
  BY DEF ResultsOK
<1>2. /\ new \in Entry
      /\ new.id = nextId + 1 /\ new.tool = t /\ new.status = status
  BY <1>1 DEF Result, Entry
<1> HIDE DEF new
<1>3. results' = Append(results, new)
  BY DEF new
<1>4. /\ results' \in Seq(Entry)
      /\ DOMAIN results' = 1 .. n + 1
      /\ \A i \in 1 .. n : results'[i] = results[i]
      /\ results'[n + 1] = new
  BY <1>1, <1>2, <1>3
<1>5. \A i \in 1 .. n : results[i].id \in Nat /\ results[i].id <= nextId
  BY <1>1, ResultIds
<1> HIDE DEF n
<1>6. /\ \A i \in DOMAIN results' : results'[i].id <= nextId + 1
      /\ \A i, j \in DOMAIN results' : results'[i].id = results'[j].id => i = j
  <2>1. \A i \in DOMAIN results' : i \in 1 .. n \/ i = n + 1
    BY <1>1, <1>4
  <2> QED
    BY <1>1, <1>2, <1>4, <1>5, <2>1 DEF ResultsOK
<1>7. ResultsOK'
  BY <1>1, <1>4, <1>6 DEF ResultsOK
<1>8. \A r : Told(r) => Told(r)'
  BY <1>1, <1>4 DEF Told
<1>9. \A r : r.id = nextId + 1 /\ r.tool = t /\ status \in Ran => Told(r)'
  <2>1. n + 1 \in DOMAIN results'
    BY <1>1, <1>4
  <2> QED
    BY <1>2, <1>4, <2>1 DEF Told
<1> QED
  BY <1>7, <1>8, <1>9

LEMMA ReportRunApproved ==
  ASSUME ReportInv, RunApproved
  PROVE  ReportInv'
<1> DEFINE t == Head(approved)
<1>1. /\ approved # <<>> /\ approved' = Tail(approved) /\ nextId' = nextId + 1
      /\ pc = "approved" /\ pc' = "approved" /\ UNCHANGED <<calls, outcome>>
  BY DEF RunApproved
<1>2. t \in Tools /\ approved' \in Seq(Tools)
  BY <1>1, HeadTailProperties DEF ReportInv
<1>3. PICK status \in Statuses :
        /\ results' = Append(results, Result(nextId + 1, t, status))
        /\ \/ ran' = ran
           \/ status \in Ran /\ ran' = ran \union {Run(nextId + 1, t, TRUE)}
  BY DEF RunApproved, Statuses, Ran
<1> HIDE DEF t
<1>4. /\ ResultsOK' /\ \A r : Told(r) => Told(r)'
      /\ \A r : r.id = nextId + 1 /\ r.tool = t /\ status \in Ran => Told(r)'
  BY <1>1, <1>2, <1>3, ResultsGrow DEF ReportInv
<1>5. CallsOK'
  BY <1>1 DEF ReportInv, CallsOK
<1>6. \A r \in ran : Told(r)
  BY <1>1 DEF ReportInv, Ended
<1>7. \A r \in ran' : Told(r)'
  <2>1. Run(nextId + 1, t, TRUE).id = nextId + 1 /\ Run(nextId + 1, t, TRUE).tool = t
    BY DEF Run
  <2> QED
    BY <1>3, <1>4, <1>6, <2>1
<1> QED
  BY <1>2, <1>4, <1>5, <1>7 DEF ReportInv

\* The results stay as they are.
LEMMA TheSameResults ==
  ASSUME ReportInv, UNCHANGED <<results, approved>>, nextId' \in Nat, nextId <= nextId'
  PROVE  ResultsOK' /\ (approved \in Seq(Tools))' /\ \A r : Told(r) => Told(r)'
<1>1. \A i \in DOMAIN results : results[i].id \in Nat /\ results[i].id <= nextId
  BY ResultIds DEF ReportInv
<1>2. \A i \in DOMAIN results' : results'[i].id <= nextId'
  BY <1>1 DEF ReportInv, ResultsOK
<1> QED
  BY <1>2 DEF ReportInv, ResultsOK, Told

LEMMA ReportAnswered ==
  ASSUME ReportInv, pc = "turn", NEW n \in Nat, NEW asked \in [1 .. n -> Tools],
         Answered(asked), UNCHANGED <<results, approved, ran>>
  PROVE  ReportInv'
<1> DEFINE new == [i \in 1 .. n |-> [id |-> nextId + i, tool |-> asked[i]]]
<1>1. nextId \in Nat /\ DOMAIN asked = 1 .. n /\ asked \in Seq(Tools) /\ Len(asked) = n
  BY DEF ReportInv, ResultsOK
<1>2. calls' = new /\ nextId' = nextId + n
  BY <1>1 DEF Answered
<1>3. new \in Seq(Asked)
  BY <1>1 DEF Asked
<1>4. /\ DOMAIN new = 1 .. n
      /\ \A i \in 1 .. n : new[i].id = nextId + i
  OBVIOUS
<1> HIDE DEF new
<1>5. ResultsOK' /\ (approved \in Seq(Tools))' /\ \A r : Told(r) => Told(r)'
  BY <1>1, <1>2, TheSameResults
<1>6. CallsOK'
  <2>1. CASE UNCHANGED outcome /\ pc' = "finish"
    BY <1>2, <1>3, <2>1 DEF CallsOK
  <2>2. CASE outcome' = [i \in DOMAIN asked |-> Gate(asked[i])] /\ pc' = "tools"
    <3>1. \A t : Gate(t) \in Ran \union Gated \union {"running"}
      BY DEF Gate, Gated
    <3>2. /\ DOMAIN outcome' = DOMAIN calls'
          /\ \A i \in DOMAIN outcome' : outcome'[i] \in Ran \union Gated \union {"running"}
      BY <1>1, <1>2, <1>4, <2>2, <3>1
    <3>3. /\ \A i \in DOMAIN calls' : calls'[i].id <= nextId'
          /\ \A i, j \in DOMAIN calls' : calls'[i].id = calls'[j].id => i = j
      BY <1>1, <1>2, <1>4
    <3>4. \A j \in DOMAIN results : results[j].id \in Nat /\ results[j].id <= nextId
      BY ResultIds DEF ReportInv
    <3>5. \A i \in DOMAIN calls' : \A j \in DOMAIN results : results[j].id # calls'[i].id
      BY <1>1, <1>2, <1>4, <3>4
    <3>6. results' = results
      OBVIOUS
    <3> QED
      BY <1>2, <1>3, <2>2, <3>2, <3>3, <3>5, <3>6 DEF CallsOK
  <2> QED
    BY <2>1, <2>2 DEF Answered
<1>7. \A r \in ran' : Told(r)'
  BY <1>5 DEF ReportInv, Ended
<1> QED
  BY <1>5, <1>6, <1>7 DEF ReportInv

LEMMA ReportRunTurn ==
  ASSUME ReportInv, RunTurn
  PROVE  ReportInv'
<1>1. CASE UNCHANGED <<turn, nextId>> /\ pc' = "finish"
  <2>1. ResultsOK' /\ (approved \in Seq(Tools))' /\ \A r : Told(r) => Told(r)'
    BY <1>1, TheSameResults DEF RunTurn, ReportInv, ResultsOK
  <2>2. CallsOK'
    BY <1>1 DEF RunTurn, ReportInv, CallsOK
  <2>3. pc = "turn" /\ UNCHANGED ran
    BY DEF RunTurn
  <2> QED
    BY <2>1, <2>2, <2>3 DEF ReportInv, Ended
<1>2. CASE \E n \in 1 .. MaxCalls : \E asked \in [1 .. n -> Tools] : Answered(asked)
  <2>1. PICK n \in Nat : \E asked \in [1 .. n -> Tools] : Answered(asked)
    BY <1>2, LoopAssumption
  <2> QED
    BY <2>1, ReportAnswered DEF RunTurn
<1> QED
  BY <1>1, <1>2 DEF RunTurn

LEMMA ReportToolEnds ==
  ASSUME ReportInv, NEW i \in DOMAIN outcome, ToolEnds(i)
  PROVE  ReportInv'
<1> DEFINE r == Run(calls[i].id, calls[i].tool, FALSE)
<1>1. /\ pc = "tools" /\ pc' = "tools" /\ ran' = ran \union {r} /\ outcome[i] = "running"
      /\ UNCHANGED <<calls, results, nextId, approved>>
  BY DEF ToolEnds
<1>2. PICK status \in Ran : outcome' = [outcome EXCEPT ![i] = status]
  BY DEF ToolEnds, Ran
<1>3. /\ DOMAIN outcome' = DOMAIN outcome /\ outcome'[i] = status
      /\ \A j \in DOMAIN outcome : j # i => outcome'[j] = outcome[j]
  BY <1>2
<1>4. ResultsOK' /\ (approved \in Seq(Tools))' /\ \A q : Told(q) => Told(q)'
  BY <1>1, TheSameResults DEF ReportInv, ResultsOK
<1>5. CallsOK'
  BY <1>1, <1>3 DEF ReportInv, CallsOK
<1>6. "running" \notin Ran
  BY DEF Ran
<1>7. \A q : Ended(q) => Ended(q)'
  BY <1>1, <1>3, <1>6 DEF Ended
<1>8. Ended(r)'
  BY <1>1, <1>3 DEF Ended
<1> QED
  BY <1>1, <1>4, <1>5, <1>7, <1>8 DEF ReportInv

LEMMA ReportApply ==
  ASSUME ReportInv, Apply
  PROVE  ReportInv'
<1> DEFINE more == Reported
           n == Len(results)
           m == Len(calls)
<1>1. /\ pc = "tools" /\ pc' = "loop" /\ results' = results \o more
      /\ calls' = <<>> /\ outcome' = <<>> /\ UNCHANGED <<approved, nextId, ran>>
      /\ \A i \in DOMAIN outcome : outcome[i] # "running"
  BY DEF Apply
<1>2. /\ results \in Seq(Entry)
      /\ nextId \in Nat /\ n \in Nat /\ DOMAIN results = 1 .. n
      /\ calls \in Seq(Asked) /\ m \in Nat /\ DOMAIN calls = 1 .. m
      /\ DOMAIN outcome = 1 .. m
  BY <1>1 DEF ReportInv, ResultsOK, CallsOK
<1>3. \A i \in 1 .. m : outcome[i] \in Statuses
  BY <1>1, <1>2 DEF ReportInv, CallsOK, Ran, Gated, Statuses
<1>4. more = [i \in 1 .. m |-> Result(calls[i].id, calls[i].tool, outcome[i])]
  BY <1>2 DEF Reported
<1> HIDE DEF more
<1>5. ASSUME NEW i \in 1 .. m
      PROVE  /\ more[i] \in Entry
             /\ more[i].id = calls[i].id /\ more[i].tool = calls[i].tool
             /\ more[i].status = outcome[i]
  <2>1. more[i] = Result(calls[i].id, calls[i].tool, outcome[i])
    BY <1>4
  <2>2. calls[i] \in Asked
    BY <1>2, ElementOfSeq
  <2>3. calls[i].id \in Nat /\ calls[i].tool \in Tools
    BY <2>2 DEF Asked
  <2> QED
    BY <1>3, <2>1, <2>3 DEF Result, Entry
<1>6. more \in Seq(Entry) /\ Len(more) = m
  BY <1>2, <1>4, <1>5
<1>7. /\ results' \in Seq(Entry)
      /\ DOMAIN results' = 1 .. n + m
      /\ \A i \in 1 .. n : results'[i] = results[i]
      /\ \A i \in 1 .. m : results'[n + i] = more[i]
  <2>1. /\ results \o more \in Seq(Entry)
        /\ DOMAIN (results \o more) = 1 .. n + Len(more)
        /\ \A i \in 1 .. n : (results \o more)[i] = results[i]
        /\ \A i \in 1 .. Len(more) : (results \o more)[n + i] = more[i]
    <3>1. results \in Seq(Entry) /\ more \in Seq(Entry)
      BY <1>2, <1>6
    <3> HIDE DEF m
    <3> QED
      BY <3>1, Joined
  <2> QED
    BY <1>1, <1>6, <2>1
<1>8. \A i \in 1 .. n + m : i \in 1 .. n \/ \E j \in 1 .. m : i = n + j
  <2> SUFFICES ASSUME NEW i \in 1 .. n + m, i \notin 1 .. n PROVE \E j \in 1 .. m : i = n + j
    OBVIOUS
  <2>1. i - n \in 1 .. m /\ i = n + (i - n)
    BY <1>2
  <2> QED
    BY <2>1
<1>9. /\ \A i \in 1 .. n : results[i].id <= nextId
      /\ \A i, j \in 1 .. n : results[i].id = results[j].id => i = j
      /\ \A i \in 1 .. m : calls[i].id <= nextId
      /\ \A i, j \in 1 .. m : calls[i].id = calls[j].id => i = j
      /\ \A i \in 1 .. m : \A j \in 1 .. n : results[j].id # calls[i].id
  BY <1>1, <1>2 DEF ReportInv, ResultsOK, CallsOK
<1> HIDE DEF n, m
<1>10. ResultsOK'
  <2>1. \A i \in 1 .. n + m : results'[i].id <= nextId
    BY <1>5, <1>7, <1>8, <1>9
  <2>2. ASSUME NEW i \in 1 .. n + m, NEW j \in 1 .. n + m, results'[i].id = results'[j].id
        PROVE  i = j
    BY <1>5, <1>7, <1>8, <1>9, <2>2
  <2> QED
    BY <1>1, <1>2, <1>7, <2>1, <2>2 DEF ResultsOK
<1>11. CallsOK'
  BY <1>1 DEF CallsOK
<1>12. ASSUME NEW r, Told(r) PROVE Told(r)'
  <2>1. PICK i \in 1 .. n : /\ results[i].id = r.id /\ results[i].tool = r.tool
                           /\ results[i].status \in Ran
    BY <1>2, <1>12 DEF Told
  <2>2. i \in DOMAIN results'
    BY <1>2, <1>7
  <2> QED
    BY <1>7, <2>1, <2>2 DEF Told
<1>13. ASSUME NEW r, Ended(r) PROVE Told(r)'
  <2>1. PICK i \in 1 .. m : outcome[i] \in Ran /\ r = Run(calls[i].id, calls[i].tool, FALSE)
    BY <1>2, <1>13 DEF Ended
  <2>2. r.id = calls[i].id /\ r.tool = calls[i].tool
    BY <2>1 DEF Run
  <2>3. n + i \in DOMAIN results' /\ results'[n + i] = more[i]
    BY <1>2, <1>7
  <2>4. /\ results'[n + i].id = r.id /\ results'[n + i].tool = r.tool
        /\ results'[n + i].status \in Ran
    BY <1>5, <2>1, <2>2, <2>3
  <2> QED
    BY <2>3, <2>4 DEF Told
<1> QED
  BY <1>1, <1>10, <1>11, <1>12, <1>13 DEF ReportInv

\* A step that only moves on, or closes the stream.
LEMMA ReportMoves ==
  ASSUME ReportInv, UNCHANGED <<results, approved, nextId, calls>>,
         \/ pc' = "gone"
         \/ /\ UNCHANGED <<outcome, ran>> /\ pc \notin {"gone", "tools"}
            /\ pc' \notin {"approved", "tools"}
            /\ pc' \in {"loop", "turn"} => pc \in {"approved", "loop"}
         \/ UNCHANGED <<pc, outcome, ran>>
  PROVE  ReportInv'
<1>1. ResultsOK' /\ (approved \in Seq(Tools))' /\ \A r : Told(r) => Told(r)'
  BY TheSameResults DEF ReportInv, ResultsOK
<1>2. calls' \in Seq(Asked)
  BY DEF ReportInv, CallsOK
<1>3. CASE pc' = "gone"
  BY <1>1, <1>2, <1>3 DEF ReportInv, CallsOK
<1>4. CASE /\ UNCHANGED <<outcome, ran>> /\ pc \notin {"gone", "tools"}
           /\ pc' \notin {"approved", "tools"}
           /\ pc' \in {"loop", "turn"} => pc \in {"approved", "loop"}
  BY <1>1, <1>2, <1>4 DEF ReportInv, CallsOK, Ended
<1>5. CASE UNCHANGED <<pc, outcome, ran>>
  BY <1>1, <1>5 DEF ReportInv, CallsOK, Ended
<1> QED
  BY <1>3, <1>4, <1>5

LEMMA ReportStep == ReportInv /\ [Next]_vars => ReportInv'
<1> SUFFICES ASSUME ReportInv, [Next]_vars PROVE ReportInv'
  OBVIOUS
<1>1. CASE RunApproved
  BY <1>1, ReportRunApproved
<1>2. CASE RunTurn
  BY <1>2, ReportRunTurn
<1>3. CASE Apply
  BY <1>3, ReportApply
<1>4. CASE \E i \in DOMAIN outcome : ToolEnds(i)
  BY <1>4, ReportToolEnds
<1>5. CASE StartLoop \/ LoopHead \/ Finish
  BY <1>5, ReportMoves DEF StartLoop, LoopHead, Finish
<1>6. CASE Disconnect
  BY <1>6, ReportMoves DEF Disconnect
<1>7. CASE UNCHANGED vars
  BY <1>7, ReportMoves
<1> QED
  BY <1>1, <1>2, <1>3, <1>4, <1>5, <1>6, <1>7 DEF Next, LoopStep

\* The report of a finished turn (flexible.py, tool_results): every call that
\* ran is in it exactly once, and none that is listed as waiting for a person
\* has run, for any number of answers, calls and confirmed calls.
THEOREM ReportAlwaysFaithful == Spec => []ReportFaithful
<1>1. ReportInv => ReportFaithful
  <2> SUFFICES ASSUME ReportInv, pc = "done" PROVE ReportFaithful
    BY DEF ReportFaithful
  <2>1. \A r \in ran : Told(r)
    BY DEF ReportInv, Ended
  <2>2. \A i, j \in DOMAIN results : results[i].id = results[j].id => i = j
    BY DEF ReportInv, ResultsOK
  <2>3. ASSUME NEW r \in ran
        PROVE  Cardinality({i \in DOMAIN results :
                              results[i].id = r.id /\ results[i].tool = r.tool}) = 1
    <3>1. PICK k \in DOMAIN results : results[k].id = r.id /\ results[k].tool = r.tool
      BY <2>1, <2>3 DEF Told
    <3>2. {i \in DOMAIN results : results[i].id = r.id /\ results[i].tool = r.tool} = {k}
      BY <2>2, <3>1
    <3> QED
      BY <3>2, FS_Singleton
  <2>4. ASSUME NEW i \in DOMAIN results, results[i].status = "pending", NEW r \in ran
        PROVE  r.id # results[i].id
    BY <2>1, <2>2, <2>4 DEF Told, Ran
  <2> QED
    BY <2>3, <2>4 DEF ReportFaithful
<1> QED
  BY <1>1, ReportInit, ReportStep, PTL DEF Spec

-----------------------------------------------------------------------------
(* The turn implements ToolCalls. *)

\* What the tool calls come to does not change when nothing of it does.
LEMMA CallsRest ==
  ASSUME UNCHANGED results, outcome = <<>>, outcome' = <<>>
  PROVE  UNCHANGED Protocol!vars
BY DEF Protocol!vars, OpenCalls, Settled

\* While no call is gated the results are all there is.
LEMMA AllSettled ==
  ASSUME outcome = <<>>
  PROVE  OpenCalls = {} /\ Settled = {results[i] : i \in DOMAIN results}
BY DEF OpenCalls, Settled

\* A confirmed call comes to something under an id that is new.
LEMMA ConfirmedSettles ==
  ASSUME ReportInv, RunApproved
  PROVE  Protocol!Confirmed
<1> DEFINE n == Len(results)
           t == Head(approved)
<1>1. UNCHANGED outcome /\ outcome = <<>>
  BY DEF RunApproved, ReportInv, CallsOK
<1>2. PICK status \in {"ok", "error", "unknown", "refused"} :
        results' = Append(results, Result(nextId + 1, t, status))
  BY DEF RunApproved
<1> DEFINE new == Result(nextId + 1, t, status)
<1>3. new.id = nextId + 1 /\ new.status = status
  BY DEF Result
<1> HIDE DEF new, t
<1>4. /\ n \in Nat /\ nextId \in Nat /\ DOMAIN results = 1 .. n
      /\ results' = Append(results, new)
  BY <1>2 DEF ReportInv, ResultsOK, new
<1>5. /\ DOMAIN results' = 1 .. n + 1 /\ results'[n + 1] = new
      /\ \A i \in 1 .. n : results'[i] = results[i]
  BY <1>4 DEF ReportInv, ResultsOK
<1>6. /\ OpenCalls = {} /\ Settled = {results[i] : i \in DOMAIN results}
      /\ OpenCalls' = {} /\ Settled' = {results'[i] : i \in DOMAIN results'}
  BY <1>1, AllSettled DEF OpenCalls, Settled
<1>7. Settled' = Settled \union {new} /\ new \in Settled'
  BY <1>4, <1>5, <1>6
<1>8. new.id \notin Protocol!Ids(Settled)
  <2>1. \A i \in DOMAIN results : results[i].id \in Nat /\ results[i].id <= nextId
    BY ResultIds DEF ReportInv
  <2>2. \A i \in DOMAIN results : results[i].id # nextId + 1
    BY <1>4, <2>1
  <2> QED
    BY <1>3, <1>6, <2>2 DEF Protocol!Ids
<1> QED
  BY <1>3, <1>6, <1>7, <1>8 DEF Protocol!Confirmed, Protocol!Outcomes

\* The LLM asks when nothing is open, and gets ids that are new.
LEMMA AnsweredAsks ==
  ASSUME ReportInv, RunTurn
  PROVE  Protocol!Ask \/ UNCHANGED Protocol!vars
<1>1. outcome = <<>> /\ UNCHANGED results
  BY DEF RunTurn, ReportInv, CallsOK
<1>2. CASE UNCHANGED outcome
  BY <1>1, <1>2, CallsRest
<1>3. CASE ~UNCHANGED outcome
  <2>1. PICK asked : /\ calls' = [i \in DOMAIN asked |-> [id |-> nextId + i, tool |-> asked[i]]]
                     /\ outcome' = [i \in DOMAIN asked |-> Gate(asked[i])]
                     /\ \E m \in 1 .. MaxCalls : asked \in [1 .. m -> Tools]
    BY <1>3 DEF RunTurn, Answered
  <2>2. PICK m \in 1 .. MaxCalls : asked \in [1 .. m -> Tools]
    BY <2>1
  <2>3. /\ nextId \in Nat
        /\ \A i \in DOMAIN results : results[i].id \in Nat /\ results[i].id <= nextId
    BY ResultIds DEF ReportInv, ResultsOK
  <2>4. \A i \in DOMAIN asked : i \in Nat /\ i # 0
    BY <2>2
  <2>5. /\ DOMAIN calls' = DOMAIN asked /\ DOMAIN outcome' = DOMAIN asked
        /\ \A i \in DOMAIN asked : /\ calls'[i].id = nextId + i
                                   /\ outcome'[i] = Gate(asked[i])
    BY <2>1
  <2> DEFINE opens == {i \in DOMAIN asked : outcome'[i] = "running"}
             gates == {i \in DOMAIN asked : outcome'[i] # "running"}
             what(i) == Result(calls'[i].id, calls'[i].tool, outcome'[i])
  <2>6. /\ OpenCalls = {} /\ Settled = {results[i] : i \in DOMAIN results}
        /\ OpenCalls' = {calls'[i] : i \in opens}
        /\ Settled' = Settled \union {what(i) : i \in gates}
    <3>1. OpenCalls = {} /\ Settled = {results[i] : i \in DOMAIN results}
      BY <1>1, AllSettled
    <3>2. OpenCalls' = {calls'[i] : i \in opens}
      BY <2>5 DEF OpenCalls
    <3>3. Settled' = {results[i] : i \in DOMAIN results} \union {what(i) : i \in gates}
      BY <1>1, <2>5 DEF Settled
    <3> QED
      BY <3>1, <3>2, <3>3
  <2>7. \A i \in DOMAIN asked : what(i).id = nextId + i /\ what(i).status = outcome'[i]
    BY <2>5 DEF Result
  <2> HIDE DEF what
  <2>8. ASSUME NEW c \in Settled' \ Settled
        PROVE  c.status \in Protocol!Gates
    <3>1. PICK i \in gates : c = what(i)
      BY <2>6, <2>8
    <3>2. outcome'[i] \in {"denied", "preview", "pending", "unknown"}
      BY <2>5, <3>1 DEF Gate
    <3> QED
      BY <2>7, <3>1, <3>2 DEF Protocol!Gates
  <2>9. ASSUME NEW c \in OpenCalls' \union (Settled' \ Settled)
        PROVE  \E i \in DOMAIN asked :
                 /\ c.id = nextId + i
                 /\ (i \in opens /\ c = calls'[i]) \/ (i \in gates /\ c = what(i))
    BY <2>5, <2>6, <2>7
  <2> HIDE DEF opens, gates
  <2>10. ASSUME NEW c \in OpenCalls' \union (Settled' \ Settled)
         PROVE  c.id \notin Protocol!Ids(Settled)
    <3>1. PICK i \in DOMAIN asked : c.id = nextId + i
      BY <2>9
    <3>2. \A j \in DOMAIN results : results[j].id # nextId + i
      BY <2>3, <2>4
    <3> QED
      BY <2>6, <3>1, <3>2 DEF Protocol!Ids
  <2>11. ASSUME NEW c \in OpenCalls' \union (Settled' \ Settled),
                NEW d \in OpenCalls' \union (Settled' \ Settled), c.id = d.id
         PROVE  c = d
    <3>1. PICK i \in DOMAIN asked :
            /\ c.id = nextId + i
            /\ (i \in opens /\ c = calls'[i]) \/ (i \in gates /\ c = what(i))
      BY <2>9
    <3>2. PICK j \in DOMAIN asked :
            /\ d.id = nextId + j
            /\ (j \in opens /\ d = calls'[j]) \/ (j \in gates /\ d = what(j))
      BY <2>9
    <3>3. i = j
      <4>1. nextId + i = nextId + j
        BY <2>11, <3>1, <3>2
      <4>2. nextId \in Nat /\ i \in Nat /\ j \in Nat
        BY <2>3, <2>4
      <4> QED
        BY <4>1, <4>2
    <3> QED
      BY <3>1, <3>2, <3>3 DEF opens, gates
  <2> QED
    BY <2>6, <2>8, <2>10, <2>11 DEF Protocol!Ask
<1> QED
  BY <1>2, <1>3

\* A tool that ends settles its call and no other.
LEMMA ToolEndsSettles ==
  ASSUME ReportInv, NEW i \in DOMAIN outcome, ToolEnds(i)
  PROVE  Protocol!Settle
<1>1. PICK status \in {"ok", "error"} : outcome' = [outcome EXCEPT ![i] = status]
  BY DEF ToolEnds
<1>2. outcome[i] = "running" /\ pc = "tools" /\ UNCHANGED <<calls, results>>
  BY DEF ToolEnds
<1>3. /\ DOMAIN outcome = DOMAIN calls
      /\ \A j, k \in DOMAIN calls : calls[j].id = calls[k].id => j = k
  BY <1>2 DEF ReportInv, CallsOK
<1> DEFINE c == calls[i]
           new == Result(c.id, c.tool, status)
<1>4. /\ DOMAIN outcome' = DOMAIN outcome /\ outcome'[i] = status /\ status # "running"
      /\ \A j \in DOMAIN outcome : j # i => outcome'[j] = outcome[j]
  BY <1>1
<1>5. \A j \in DOMAIN outcome : j # i => calls[j] # c
  BY <1>3
<1>6. c \in OpenCalls /\ OpenCalls' = OpenCalls \ {c}
  BY <1>2, <1>4, <1>5 DEF OpenCalls
<1>7. Settled' = Settled \union {new}
  BY <1>2, <1>4 DEF Settled
<1>8. new = [id |-> c.id, tool |-> c.tool, status |-> status]
  BY DEF Result
<1> HIDE DEF c, new
<1> QED
  BY <1>6, <1>7, <1>8 DEF Protocol!Settle, Protocol!Outcomes

\* Phase 3 only writes down what the calls have come to.
LEMMA ApplyRecords ==
  ASSUME ReportInv, Apply
  PROVE  UNCHANGED Protocol!vars
<1>1. /\ \A i \in DOMAIN outcome : outcome[i] # "running"
      /\ results' = results \o Reported /\ outcome' = <<>>
      /\ DOMAIN outcome = DOMAIN calls /\ calls \in Seq(Asked) /\ results \in Seq(Entry)
  BY DEF Apply, ReportInv, CallsOK, ResultsOK
<1> DEFINE n == Len(results)
           m == Len(calls)
           what(i) == Result(calls[i].id, calls[i].tool, outcome[i])
<1>2. /\ n \in Nat /\ m \in Nat /\ DOMAIN results = 1 .. n /\ DOMAIN calls = 1 .. m
      /\ DOMAIN outcome = 1 .. m
  BY <1>1
<1>3. /\ OpenCalls = {} /\ OpenCalls' = {}
      /\ Settled = {results[i] : i \in 1 .. n} \union {what(i) : i \in 1 .. m}
      /\ Settled' = {results'[i] : i \in DOMAIN results'}
  <2>1. OpenCalls = {}
    BY <1>1 DEF OpenCalls
  <2>2. DOMAIN outcome' = {}
    BY <1>1
  <2>3. OpenCalls' = {} /\ Settled' = {results'[i] : i \in DOMAIN results'}
    BY <2>2 DEF OpenCalls, Settled
  <2>4. {j \in DOMAIN outcome : outcome[j] # "running"} = 1 .. m
    BY <1>1, <1>2
  <2>5. Settled = {results[i] : i \in 1 .. n} \union {what(i) : i \in 1 .. m}
    BY <1>2, <2>4 DEF Settled
  <2> QED
    BY <2>1, <2>3, <2>5
<1> DEFINE S == {results[i] : i \in 1 .. n} \union {what(i) : i \in 1 .. m}
<1>4. /\ Reported \in Seq(S) /\ Len(Reported) = m
      /\ \A i \in 1 .. m : Reported[i] = what(i)
  <2>1. Reported = [i \in 1 .. m |-> what(i)]
    BY <1>2 DEF Reported
  <2>2. Reported \in [1 .. m -> S]
    BY <2>1
  <2> HIDE DEF what, S
  <2>3. Reported \in Seq(S) /\ Len(Reported) = m
    BY <1>2, <2>2, IsASeq
  <2> QED
    BY <2>1, <2>3
<1>5. results \in Seq(S)
  <2>1. results \in [1 .. n -> S]
    BY <1>1, <1>2
  <2> QED
    BY <1>2, <2>1, IsASeq
<1>6. Len(results) = n
  OBVIOUS
<1> HIDE DEF what, S, n, m
<1>7. /\ DOMAIN results' = 1 .. n + m
      /\ \A i \in 1 .. n + m :
           results'[i] = IF i <= n THEN results[i] ELSE what(i - n)
  <2>1. /\ results' \in Seq(S) /\ Len(results') = n + m
        /\ \A i \in 1 .. n + m :
             results'[i] = IF i <= n THEN results[i] ELSE Reported[i - n]
    BY <1>1, <1>4, <1>5, <1>6, ConcatProperties
  <2>2. \A i \in 1 .. n + m : ~(i <= n) => i - n \in 1 .. m
    BY <1>2
  <2> QED
    BY <1>4, <2>1, <2>2
<1>8. ASSUME NEW i \in 1 .. n PROVE i \in 1 .. n + m /\ results'[i] = results[i]
  BY <1>2, <1>7
<1>9. ASSUME NEW i \in 1 .. m PROVE n + i \in 1 .. n + m /\ results'[n + i] = what(i)
  <2>1. n + i \in 1 .. n + m /\ ~(n + i <= n) /\ (n + i) - n = i
    BY <1>2
  <2> QED
    BY <1>7, <2>1
<1>10. ASSUME NEW i \in 1 .. n + m
      PROVE  (i \in 1 .. n /\ results'[i] = results[i])
             \/ (i - n \in 1 .. m /\ results'[i] = what(i - n))
  BY <1>2, <1>7
<1>11. Settled' = Settled
  BY <1>3, <1>7, <1>8, <1>9, <1>10
<1> QED
  BY <1>3, <1>11 DEF Protocol!vars

LEMMA CallsStep == ReportInv /\ [Next]_vars => [Protocol!Next]_(Protocol!vars)
<1> SUFFICES ASSUME ReportInv, [Next]_vars PROVE Protocol!Next \/ UNCHANGED Protocol!vars
  OBVIOUS
<1>1. CASE RunApproved
  BY <1>1, ConfirmedSettles DEF Protocol!Next
<1>2. CASE RunTurn
  BY <1>2, AnsweredAsks DEF Protocol!Next
<1>3. CASE \E i \in DOMAIN outcome : ToolEnds(i)
  BY <1>3, ToolEndsSettles DEF Protocol!Next
<1>4. CASE Apply
  BY <1>4, ApplyRecords
<1>5. CASE StartLoop \/ LoopHead \/ Finish \/ Disconnect \/ UNCHANGED vars
  <2>1. UNCHANGED <<results, calls, outcome>>
    BY <1>5 DEF StartLoop, LoopHead, Finish, Disconnect
  <2> QED
    BY <2>1 DEF Protocol!vars, OpenCalls, Settled
<1> QED
  BY <1>1, <1>2, <1>3, <1>4, <1>5 DEF Next, LoopStep

\* The turn implements ToolCalls for any number of answers and calls: the gates of
\* phase 1, the concurrent tools of phase 2 and the appending of phase 3 together
\* bring each call to one outcome, which stays, and the LLM is not asked again while
\* a tool runs (_drive, _execute_approved_calls).
THEOREM CallsAlwaysSettle == Spec => CallsSettle
<1>1. Init => Protocol!Init
  BY AllSettled DEF Init, Protocol!Init
<1> QED
  BY <1>1, ReportInit, ReportStep, CallsStep, PTL
  DEF Spec, CallsSettle, Protocol!Spec

-----------------------------------------------------------------------------
(* Every call and its answer. *)

Roles   == {"system", "user", "text", "summary", "calls", "tool"}
Msg     == [role : Roles, ids : Seq(Nat)]
Going   == {"approved", "loop", "turn", "tools"}

\* The answers of a message with calls follow it, in the order of its calls.
Ordered(h) ==
  \A i \in DOMAIN h : h[i].role = "calls" =>
    \A j \in DOMAIN h[i].ids : i + j \in DOMAIN h /\ h[i + j] = Answer(h[i].ids[j])

\* No id is given to two calls.
Distinct(h) ==
  \A i, k \in DOMAIN h : h[i].role = "calls" /\ h[k].role = "calls" =>
    \A j \in DOMAIN h[i].ids : \A l \in DOMAIN h[k].ids :
      h[i].ids[j] = h[k].ids[l] => i = k /\ j = l

\* Every answer is the one of a call: it is where that call has its answer.
Attached(h) ==
  \A i \in DOMAIN h : h[i].role = "tool" =>
    \E k \in DOMAIN h : h[k].role = "calls" /\ i - k \in DOMAIN h[k].ids

\* All ids were handed out.
Numbered(h, n) ==
  \A i \in DOMAIN h : h[i].role = "calls" => \A j \in DOMAIN h[i].ids : h[i].ids[j] <= n

\* The history as it will be once the calls under way have ended.
Complete == IF pc = "tools" THEN hist \o TurnAnswers ELSE hist

NoneRefused == \A i \in DOMAIN results : results[i].status # "refused"

HistInv ==
  /\ nextId \in Nat
  /\ calls \in Seq([id : Nat, tool : Tools])
  /\ hist \in Seq(Msg) /\ hist # <<>> /\ hist[1].role = "system"
  /\ Numbered(hist, nextId) /\ Distinct(hist)
  /\ pc \in Going => Ordered(Complete)
  /\ pc \in Going /\ NoneRefused => Attached(Complete)

\* Places counted from the message with the calls.
LEMMA Places ==
  ASSUME NEW i \in Nat, NEW j \in Nat, NEW n \in Nat, i <= n, ~(i + j <= n)
  PROVE  /\ n + 1 - i \in Nat /\ 1 <= n + 1 - i /\ n + 1 - i <= j
         /\ i + (n + 1 - i) = n + 1
OBVIOUS

LEMMA PlacesBelow ==
  ASSUME NEW i \in Nat, NEW k \in Nat, NEW d \in Nat, NEW m \in Nat,
         3 <= i, (i + d) - k <= m, k < 3 + d
  PROVE  (3 + d) - k \in 1 .. m /\ k + ((3 + d) - k) = 3 + d
OBVIOUS

LEMMA MessageIs ==
  ASSUME NEW role, NEW ids
  PROVE  /\ Message(role, ids).role = role /\ Message(role, ids).ids = ids
         /\ role \in Roles /\ ids \in Seq(Nat) => Message(role, ids) \in Msg
BY DEF Message, Msg

LEMMA AnswerIs ==
  ASSUME NEW id
  PROVE  /\ Answer(id).role = "tool" /\ Answer(id).ids = <<id>>
         /\ id \in Nat => Answer(id) \in Msg
<1>1. id \in Nat => <<id>> \in Seq(Nat)
  OBVIOUS
<1> QED
  BY <1>1, MessageIs DEF Answer, Roles

LEMMA MessageIds ==
  ASSUME NEW h \in Seq(Msg), NEW i \in DOMAIN h
  PROVE  h[i].ids \in Seq(Nat) /\ DOMAIN h[i].ids = 1 .. Len(h[i].ids)
         /\ Len(h[i].ids) \in Nat
<1>1. h[i] \in Msg
  BY ElementOfSeq, LenProperties
<1> QED
  BY <1>1 DEF Msg

LEMMA OpenIs ==
  ASSUME NEW h, NEW n, NEW id
  PROVE  id \in Open(h, n) <=>
           /\ \E i \in 1 .. n : /\ h[i].role = "calls"
                                /\ \E j \in DOMAIN h[i].ids : id = h[i].ids[j]
           /\ \A k \in 1 .. n : h[k] # Answer(id)
BY DEF Open

\* Between a message with calls and the last of its answers there are answers
\* only, so nothing is open before any other message, nor at the end.
LEMMA NothingOpen ==
  ASSUME NEW h \in Seq(Msg), Ordered(h), NEW n \in 0 .. Len(h),
         n # Len(h) => h[n + 1].role # "tool"
  PROVE  Open(h, n) = {}
<1> SUFFICES ASSUME NEW id \in Open(h, n) PROVE FALSE
  OBVIOUS
<1>1. PICK i \in 1 .. n : /\ h[i].role = "calls"
                          /\ \E j \in DOMAIN h[i].ids : id = h[i].ids[j]
  BY OpenIs
<1>2. PICK j \in DOMAIN h[i].ids : id = h[i].ids[j]
  BY <1>1
<1>3. /\ Len(h) \in Nat /\ DOMAIN h = 1 .. Len(h) /\ i \in DOMAIN h /\ i \in Nat /\ n \in Nat
  OBVIOUS
<1>4. /\ DOMAIN h[i].ids = 1 .. Len(h[i].ids) /\ Len(h[i].ids) \in Nat
      /\ j \in Nat /\ j <= Len(h[i].ids)
  <2>1. DOMAIN h[i].ids = 1 .. Len(h[i].ids) /\ Len(h[i].ids) \in Nat
    BY <1>3, MessageIds
  <2>2. j \in 1 .. Len(h[i].ids)
    BY <2>1
  <2> QED
    BY <2>1, <2>2
<1>5. i + j \in 1 .. Len(h) /\ h[i + j] = Answer(id)
  BY <1>1, <1>2, <1>3 DEF Ordered
<1>6. ~ (i + j <= n)
  BY <1>5, OpenIs
<1>7. /\ n + 1 - i \in Nat /\ 1 <= n + 1 - i /\ n + 1 - i <= j
      /\ i + (n + 1 - i) = n + 1
  <2>1. i <= n
    OBVIOUS
  <2> QED
    BY <1>3, <1>4, <1>6, <2>1, Places
<1>8. n + 1 - i \in DOMAIN h[i].ids
  BY <1>4, <1>7
<1>9. h[i + (n + 1 - i)] = Answer(h[i].ids[n + 1 - i])
  BY <1>1, <1>3, <1>8 DEF Ordered
<1>10. n # Len(h)
  BY <1>5, <1>6
<1>11. h[n + 1].role = "tool"
  BY <1>7, <1>9, AnswerIs
<1> QED
  BY <1>10, <1>11

LEMMA PairedIsValid ==
  ASSUME NEW h \in Seq(Msg), Ordered(h), Distinct(h), Attached(h)
  PROVE  Valid(h)
<1>1. Len(h) \in Nat /\ DOMAIN h = 1 .. Len(h)
  OBVIOUS
<1>2. Open(h, Len(h)) = {}
  BY <1>1, NothingOpen
<1>3. ASSUME NEW i \in DOMAIN h, h[i].role # "tool" PROVE Open(h, i - 1) = {}
  <2>1. i - 1 \in 0 .. Len(h) /\ i - 1 # Len(h) /\ (i - 1) + 1 = i
    BY <1>1
  <2> QED
    BY <1>3, <2>1, NothingOpen
<1>4. ASSUME NEW i \in DOMAIN h, h[i].role = "tool" PROVE h[i].ids[1] \in Open(h, i - 1)
  <2>1. PICK k \in DOMAIN h : h[k].role = "calls" /\ i - k \in DOMAIN h[k].ids
    BY <1>4 DEF Attached
  <2> DEFINE id == h[k].ids[i - k]
  <2>2. i - k \in Nat /\ i - k >= 1 /\ k + (i - k) = i /\ i \in Nat /\ k \in Nat
    BY <1>1, <2>1, MessageIds
  <2>3. h[i] = Answer(id)
    BY <2>1, <2>2 DEF Ordered
  <2>4. h[i].ids[1] = id
    BY <2>3, AnswerIs
  <2>5. ASSUME NEW m \in 1 .. i - 1, h[m] = Answer(id) PROVE FALSE
    <3>1. m \in DOMAIN h /\ m \in Nat /\ m # i
      BY <1>1, <2>2
    <3>2. h[m].role = "tool" /\ h[m].ids[1] = id
      BY <2>5, AnswerIs
    <3>3. PICK l \in DOMAIN h : h[l].role = "calls" /\ m - l \in DOMAIN h[l].ids
      BY <3>1, <3>2 DEF Attached
    <3>4. l + (m - l) = m /\ l \in Nat
      BY <1>1, <3>1
    <3>5. h[m] = Answer(h[l].ids[m - l])
      BY <3>3, <3>4 DEF Ordered
    <3>6. h[l].ids[m - l] = id
      BY <3>2, <3>5, AnswerIs
    <3>7. l = k /\ m - l = i - k
      BY <2>1, <3>3, <3>6 DEF Distinct
    <3> QED
      BY <2>2, <3>1, <3>7
  <2>6. k \in 1 .. i - 1
    BY <1>1, <2>2
  <2> HIDE DEF id
  <2>7. id \in Open(h, i - 1)
    BY <2>1, <2>5, <2>6, OpenIs DEF id
  <2> QED
    BY <2>4, <2>7
<1> QED
  BY <1>2, <1>3, <1>4 DEF Valid

-----------------------------------------------------------------------------
(* What is done to a history. *)

\* A message with calls is put behind a history and then answers only: its ids
\* are new.
LEMMA CallsPut ==
  ASSUME NEW h \in Seq(Msg), NEW n \in Nat, Numbered(h, n), Distinct(h),
         NEW ids \in Seq(Nat), NEW later \in Nat, n <= later,
         \A j \in DOMAIN ids : n < ids[j] /\ ids[j] <= later,
         \A j, l \in DOMAIN ids : ids[j] = ids[l] => j = l,
         NEW g \in Seq(Msg), Len(g) > Len(h),
         \A i \in DOMAIN h : g[i] = h[i],
         g[Len(h) + 1] = Message("calls", ids),
         \A i \in DOMAIN g : i > Len(h) + 1 => g[i].role = "tool"
  PROVE  Numbered(g, later) /\ Distinct(g)
<1>1. /\ Len(h) \in Nat /\ DOMAIN h = 1 .. Len(h) /\ DOMAIN g = 1 .. Len(g) /\ Len(g) \in Nat
      /\ g[Len(h) + 1].ids = ids
  BY MessageIs
<1>2. ASSUME NEW i \in DOMAIN g, g[i].role = "calls"
      PROVE  \/ i \in DOMAIN h /\ g[i] = h[i] /\ h[i].role = "calls"
             \/ i = Len(h) + 1 /\ g[i].ids = ids
  BY <1>1, <1>2
<1>3. ASSUME NEW i \in DOMAIN h, h[i].role = "calls", NEW j \in DOMAIN h[i].ids
      PROVE  h[i].ids[j] \in Nat /\ h[i].ids[j] <= n
  <2>1. h[i].ids[j] \in Nat
    BY <1>3, MessageIds, ElementOfSeq
  <2> QED
    BY <1>3, <2>1 DEF Numbered
<1>4. \A j \in DOMAIN ids : ids[j] \in Nat
  BY ElementOfSeq
<1>5. Numbered(g, later)
  <2> SUFFICES ASSUME NEW i \in DOMAIN g, g[i].role = "calls", NEW j \in DOMAIN g[i].ids
               PROVE  g[i].ids[j] <= later
    BY DEF Numbered
  <2>1. CASE i \in DOMAIN h /\ g[i] = h[i] /\ h[i].role = "calls"
    BY <1>3, <2>1
  <2>2. CASE i = Len(h) + 1 /\ g[i].ids = ids
    BY <2>2
  <2> QED
    BY <1>2, <2>1, <2>2
<1>6. Distinct(g)
  <2> SUFFICES ASSUME NEW i \in DOMAIN g, NEW k \in DOMAIN g,
                      g[i].role = "calls", g[k].role = "calls",
                      NEW j \in DOMAIN g[i].ids, NEW l \in DOMAIN g[k].ids,
                      g[i].ids[j] = g[k].ids[l]
               PROVE  i = k /\ j = l
    BY DEF Distinct
  <2>1. CASE i \in DOMAIN h /\ k \in DOMAIN h
    <3>1. g[i] = h[i] /\ g[k] = h[k]
      BY <2>1
    <3> QED
      BY <2>1, <3>1 DEF Distinct
  <2>2. CASE i = Len(h) + 1 /\ k = Len(h) + 1
    BY <1>1, <2>2
  <2>3. CASE i \in DOMAIN h /\ k = Len(h) + 1
    <3>1. h[i].ids[j] <= n /\ h[i].ids[j] \in Nat /\ n < ids[l] /\ ids[l] \in Nat
      BY <1>1, <1>3, <1>4, <2>3
    <3>2. h[i].ids[j] = ids[l]
      BY <1>1, <2>3
    <3> QED
      BY <3>1, <3>2
  <2>4. CASE k \in DOMAIN h /\ i = Len(h) + 1
    <3>1. h[k].ids[l] <= n /\ h[k].ids[l] \in Nat /\ n < ids[j] /\ ids[j] \in Nat
      BY <1>1, <1>3, <1>4, <2>4
    <3>2. h[k].ids[l] = ids[j]
      BY <1>1, <2>4
    <3> QED
      BY <3>1, <3>2
  <2> QED
    BY <1>2, <2>1, <2>2, <2>3, <2>4
<1> QED
  BY <1>5, <1>6

\* A message with calls is put behind a history with all its answers.
LEMMA BlockPut ==
  ASSUME NEW h \in Seq(Msg), Ordered(h), NEW ids \in Seq(Nat),
         NEW g \in Seq(Msg), Len(g) = Len(h) + 1 + Len(ids),
         \A i \in DOMAIN h : g[i] = h[i],
         g[Len(h) + 1] = Message("calls", ids),
         \A j \in DOMAIN ids : g[Len(h) + 1 + j] = Answer(ids[j])
  PROVE  Ordered(g) /\ (Attached(h) => Attached(g))
<1>1. /\ Len(h) \in Nat /\ DOMAIN h = 1 .. Len(h) /\ DOMAIN g = 1 .. Len(g)
      /\ Len(ids) \in Nat /\ DOMAIN ids = 1 .. Len(ids) /\ DOMAIN h \subseteq DOMAIN g
      /\ g[Len(h) + 1].ids = ids /\ g[Len(h) + 1].role = "calls"
      /\ Len(h) + 1 \in DOMAIN g
  BY MessageIs
<1>2. \A j \in DOMAIN ids : Len(h) + 1 + j \in DOMAIN g /\ g[Len(h) + 1 + j].role = "tool"
  BY <1>1, AnswerIs
<1>3. \A i \in DOMAIN g : \/ i \in DOMAIN h /\ g[i] = h[i]
                          \/ i = Len(h) + 1
                          \/ i - (Len(h) + 1) \in DOMAIN ids
  BY <1>1
<1>4. ASSUME NEW i \in DOMAIN g, g[i].role = "calls"
      PROVE  \/ i \in DOMAIN h /\ g[i] = h[i] /\ h[i].role = "calls"
             \/ i = Len(h) + 1
  <2>1. CASE i - (Len(h) + 1) \in DOMAIN ids
    <3>1. Len(h) + 1 + (i - (Len(h) + 1)) = i
      BY <1>1
    <3> QED
      BY <1>2, <1>4, <2>1, <3>1
  <2> QED
    BY <1>3, <1>4, <2>1
<1>5. Ordered(g)
  <2> SUFFICES ASSUME NEW i \in DOMAIN g, g[i].role = "calls", NEW j \in DOMAIN g[i].ids
               PROVE  i + j \in DOMAIN g /\ g[i + j] = Answer(g[i].ids[j])
    BY DEF Ordered
  <2>1. CASE i \in DOMAIN h /\ g[i] = h[i] /\ h[i].role = "calls"
    <3>1. i + j \in DOMAIN h /\ h[i + j] = Answer(h[i].ids[j])
      BY <2>1 DEF Ordered
    <3>2. g[i + j] = h[i + j]
      BY <3>1
    <3> QED
      BY <1>1, <2>1, <3>1, <3>2
  <2>2. CASE i = Len(h) + 1
    BY <1>1, <1>2, <2>2
  <2> QED
    BY <1>4, <2>1, <2>2
<1>6. ASSUME Attached(h), NEW i \in DOMAIN g, g[i].role = "tool"
      PROVE  \E k \in DOMAIN g : g[k].role = "calls" /\ i - k \in DOMAIN g[k].ids
  <2>1. CASE i \in DOMAIN h /\ g[i] = h[i]
    <3>1. PICK k \in DOMAIN h : h[k].role = "calls" /\ i - k \in DOMAIN h[k].ids
      BY <1>6, <2>1 DEF Attached
    <3>2. k \in DOMAIN g /\ g[k] = h[k]
      BY <1>1, <3>1
    <3> QED
      BY <3>1, <3>2
  <2>2. CASE i - (Len(h) + 1) \in DOMAIN ids
    BY <1>1, <2>2
  <2> QED
    BY <1>1, <1>3, <1>6, <2>1, <2>2
<1> QED
  BY <1>5, <1>6 DEF Attached

\* The head of a history is replaced by other messages, up to one that is not
\* an answer.
LEMMA HeadReplaced ==
  ASSUME NEW h \in Seq(Msg), Ordered(h), Distinct(h), NEW n, Numbered(h, n),
         NEW d \in Nat, NEW g \in Seq(Msg), Len(g) = Len(h) - d, 3 <= Len(g),
         \A i \in 3 .. Len(g) : g[i] = h[i + d],
         g[1].role \notin {"calls", "tool"}, g[2].role \notin {"calls", "tool"},
         h[3 + d].role # "tool"
  PROVE  /\ Ordered(g) /\ Distinct(g) /\ Numbered(g, n)
         /\ Attached(h) => Attached(g)
<1>1. /\ Len(h) \in Nat /\ DOMAIN h = 1 .. Len(h) /\ DOMAIN g = 1 .. Len(g) /\ Len(g) \in Nat
  OBVIOUS
<1>2. ASSUME NEW i \in DOMAIN g, g[i].role \in {"calls", "tool"}
      PROVE  /\ i \in 3 .. Len(g) /\ i \in Nat /\ i + d \in DOMAIN h /\ g[i] = h[i + d]
  <2>1. i # 1 /\ i # 2
    BY <1>2
  <2> QED
    BY <1>1, <2>1
<1>3. Numbered(g, n)
  BY <1>2 DEF Numbered
<1>4. Distinct(g)
  <2> SUFFICES ASSUME NEW i \in DOMAIN g, NEW k \in DOMAIN g,
                      g[i].role = "calls", g[k].role = "calls",
                      NEW j \in DOMAIN g[i].ids, NEW l \in DOMAIN g[k].ids,
                      g[i].ids[j] = g[k].ids[l]
               PROVE  i = k /\ j = l
    BY DEF Distinct
  <2>1. /\ i + d \in DOMAIN h /\ g[i] = h[i + d] /\ i \in Nat
        /\ k + d \in DOMAIN h /\ g[k] = h[k + d] /\ k \in Nat
    BY <1>2
  <2>2. i + d = k + d /\ j = l
    BY <2>1, SMTT(30) DEF Distinct
  <2> QED
    BY <2>1, <2>2
<1>5. Ordered(g)
  <2> SUFFICES ASSUME NEW i \in DOMAIN g, g[i].role = "calls", NEW j \in DOMAIN g[i].ids
               PROVE  i + j \in DOMAIN g /\ g[i + j] = Answer(g[i].ids[j])
    BY DEF Ordered
  <2>1. /\ i \in 3 .. Len(g) /\ i + d \in DOMAIN h /\ g[i] = h[i + d] /\ i \in Nat
    BY <1>2
  <2>2. (i + d) + j \in DOMAIN h /\ h[(i + d) + j] = Answer(h[i + d].ids[j])
    BY <2>1 DEF Ordered
  <2>3. j \in Nat
    BY <2>1, MessageIds, SMTT(30)
  <2>4. i + j \in 3 .. Len(g) /\ (i + j) + d = (i + d) + j
    BY <1>1, <2>1, <2>2, <2>3, SMTT(30)
  <2>5. g[i + j] = h[(i + j) + d]
    BY <2>4
  <2> QED
    BY <1>1, <2>1, <2>2, <2>4, <2>5
<1>6. ASSUME Attached(h), NEW i \in DOMAIN g, g[i].role = "tool"
      PROVE  \E k \in DOMAIN g : g[k].role = "calls" /\ i - k \in DOMAIN g[k].ids
  <2>1. /\ i \in 3 .. Len(g) /\ i + d \in DOMAIN h /\ g[i] = h[i + d] /\ i \in Nat
    BY <1>2, <1>6
  <2>2. PICK k \in DOMAIN h : h[k].role = "calls" /\ (i + d) - k \in DOMAIN h[k].ids
    BY <1>6, <2>1 DEF Attached
  <2>3. /\ DOMAIN h[k].ids = 1 .. Len(h[k].ids) /\ Len(h[k].ids) \in Nat /\ k \in Nat
    BY <1>1, <2>2, MessageIds
  <2>4. k >= 3 + d
    <3> SUFFICES ASSUME k < 3 + d PROVE FALSE
      BY <2>3
    <3>1. (3 + d) - k \in DOMAIN h[k].ids /\ k + ((3 + d) - k) = 3 + d
      <4>1. (i + d) - k <= Len(h[k].ids) /\ i >= 3
        BY <2>1, <2>2, <2>3
      <4> QED
        BY <2>1, <2>3, <4>1, PlacesBelow
    <3>2. h[k + ((3 + d) - k)] = Answer(h[k].ids[(3 + d) - k])
      BY <2>2, <3>1 DEF Ordered
    <3>3. h[3 + d].role = "tool"
      BY <3>1, <3>2, AnswerIs
    <3> QED
      BY <3>3
  <2>5. k - d \in 3 .. Len(g) /\ (k - d) + d = k /\ i - (k - d) = (i + d) - k
    <3>1. /\ k <= Len(h) /\ Len(g) = Len(h) - d /\ k >= 3 + d
          /\ i \in Nat /\ k \in Nat /\ Len(h) \in Nat /\ Len(g) \in Nat
      BY <1>1, <2>1, <2>3, <2>4
    <3>2. k - d \in Int /\ 3 <= k - d
      <4>1. d \in Int /\ k \in Int /\ 3 + d <= k
        BY <3>1
      <4> QED
        BY <4>1
    <3>5. k - d \in Nat
      BY <3>2
    <3>6. (k - d) + d = k
      BY <3>1
    <3>3. k - d <= Len(g)
      BY <3>1
    <3>4. i - (k - d) = (i + d) - k
      BY <3>1
    <3> QED
      BY <3>1, <3>2, <3>3, <3>4, <3>5, <3>6
  <2>6. g[k - d] = h[k]
    BY <2>5
  <2> QED
    BY <1>1, <2>2, <2>5, <2>6, SMTT(30)
<1> QED
  BY <1>3, <1>4, <1>5, <1>6 DEF Attached

-----------------------------------------------------------------------------
(* What a session holds, and where a history is cut. *)

Quiet == {Text("system"), Text("user"), Text("text")}

LEMMA QuietIs ==
  ASSUME NEW m \in Quiet
  PROVE  m \in Msg /\ m.role \notin {"calls", "tool"}
<1>1. <<>> \in Seq(Nat)
  OBVIOUS
<1>2. PICK role \in {"system", "user", "text"} : m = Message(role, <<>>)
  BY DEF Quiet, Text
<1>3. role \in Roles
  BY DEF Roles
<1>4. m.role = role /\ m \in Msg
  BY <1>1, <1>2, <1>3, MessageIs
<1> QED
  BY <1>2, <1>4

\* Rehydration leaves plain texts only: an induction over the stored messages.
LEMMA RehydratedQuiet ==
  ASSUME NEW past, Len(past) \in Nat
  PROVE  Rehydrated(past) \in Seq(Quiet)
<1> DEFINE Is(f, m) == f = [n \in 0 .. m |->
                              IF n = 0 THEN <<>>
                              ELSE IF past[n] \in {"user", "text"}
                                THEN Append(f[n - 1], Text(past[n]))
                              ELSE f[n - 1]]
           plain[n \in 0 .. Len(past)] ==
             IF n = 0 THEN <<>>
             ELSE IF past[n] \in {"user", "text"} THEN Append(plain[n - 1], Text(past[n]))
             ELSE plain[n - 1]
           S == {m \in Nat : \E f : Is(f, m)}
<1>1. Rehydrated(past) = plain[Len(past)]
  BY DEF Rehydrated
<1>2. plain = CHOOSE f : Is(f, Len(past))
  BY DEF plain
<1>3. 0 \in S
  <2>1. Is([n \in 0 .. 0 |-> <<>>], 0)
    OBVIOUS
  <2> HIDE DEF Is
  <2> QED
    BY <2>1
<1>4. ASSUME NEW m \in Nat, m \in S PROVE m + 1 \in S
  <2>1. PICK f : Is(f, m)
    BY <1>4
  <2> DEFINE last == IF past[m + 1] \in {"user", "text"}
                       THEN Append(f[m], Text(past[m + 1])) ELSE f[m]
             g == [n \in 0 .. m + 1 |-> IF n <= m THEN f[n] ELSE last]
             step(n) == IF n = 0 THEN <<>>
                        ELSE IF past[n] \in {"user", "text"}
                          THEN Append(g[n - 1], Text(past[n])) ELSE g[n - 1]
  <2>2. ASSUME NEW n \in 0 .. m + 1 PROVE g[n] = step(n)
    <3>1. CASE n <= m
      <4>1. n \in 0 .. m /\ (n # 0 => n - 1 \in 0 .. m + 1 /\ n - 1 <= m)
        BY <3>1
      <4>2. n # 0 => g[n - 1] = f[n - 1]
        BY <4>1
      <4> QED
        BY <2>1, <3>1, <4>1, <4>2
    <3>2. CASE n = m + 1
      <4>1. ~(n <= m) /\ n # 0 /\ n - 1 = m /\ m \in 0 .. m + 1 /\ m <= m
        BY <3>2
      <4>2. g[m] = f[m] /\ g[n] = last
        BY <4>1
      <4> HIDE DEF g
      <4> QED
        BY <3>2, <4>1, <4>2
    <3> QED
      BY <3>1, <3>2
  <2>3. Is(g, m + 1)
    <3>1. g = [n \in 0 .. m + 1 |-> g[n]]
      OBVIOUS
    <3> HIDE DEF g
    <3> QED
      BY <2>2, <3>1
  <2> HIDE DEF Is, g
  <2> QED
    BY <2>3
<1> HIDE DEF S
<1>5. \E f : Is(f, Len(past))
  <2>1. Len(past) \in S
    BY <1>3, <1>4, NumberInduction
  <2> HIDE DEF Is
  <2> QED
    BY <2>1 DEF S
<1>6. Is(plain, Len(past))
  <2> HIDE DEF Is, plain
  <2>1. Is(CHOOSE f : Is(f, Len(past)), Len(past))
    BY <1>5, Zenon
  <2> QED
    BY <1>2, <2>1
<1> HIDE DEF plain
<1> DEFINE T == {n \in Nat : n <= Len(past) => plain[n] \in Seq(Quiet)}
<1>7. 0 \in T
  BY <1>6
<1>8. ASSUME NEW n \in Nat, n \in T PROVE n + 1 \in T
  <2> SUFFICES ASSUME n + 1 <= Len(past) PROVE plain[n + 1] \in Seq(Quiet)
    OBVIOUS
  <2>1. plain[n] \in Seq(Quiet)
    BY <1>8
  <2>2. plain[n + 1] = IF past[n + 1] \in {"user", "text"}
                         THEN Append(plain[n], Text(past[n + 1])) ELSE plain[n]
    <3>1. n + 1 \in 0 .. Len(past) /\ n + 1 # 0 /\ (n + 1) - 1 = n
      OBVIOUS
    <3> QED
      BY <1>6, <3>1
  <2>3. past[n + 1] \in {"user", "text"} => Text(past[n + 1]) \in Quiet
    BY DEF Quiet
  <2> QED
    BY <2>1, <2>2, <2>3
<1> HIDE DEF T
<1>9. Len(past) \in T
  BY <1>7, <1>8, NumberInduction
<1> QED
  BY <1>1, <1>9 DEF T

LEMMA GreatestNumber ==
  ASSUME NEW T, T \subseteq Nat, T # {}, NEW b \in Nat, \A k \in T : k <= b
  PROVE  Max(T) \in T
<1> DEFINE D == {m \in Nat : \E k \in T : m = b - k}
<1>1. D \subseteq Nat /\ D # {}
  <2>1. PICK k \in T : TRUE
    OBVIOUS
  <2>2. b - k \in Nat
    BY <2>1
  <2> QED
    BY <2>1, <2>2
<1> HIDE DEF D
<1>2. PICK m \in D : \A o \in D : m <= o
  BY <1>1, LeastNumber
<1>3. PICK k \in T : m = b - k
  BY <1>2 DEF D
<1>4. ASSUME NEW o \in T PROVE k >= o
  <2>1. b - o \in Nat /\ k \in Nat /\ o \in Nat
    BY <1>4
  <2>2. b - o \in D
    BY <1>4, <2>1 DEF D
  <2>3. b - k <= b - o
    BY <1>2, <1>3, <2>2
  <2> QED
    BY <2>1, <2>3
<1> DEFINE Greatest(x) == x \in T /\ \A o \in T : x >= o
<1>5. Greatest(k)
  BY <1>4
<1>6. Max(T) = CHOOSE x : Greatest(x)
  BY DEF Max
<1> HIDE DEF Greatest
<1>7. Greatest(Max(T))
  BY <1>5, <1>6, Zenon
<1> QED
  BY <1>7 DEF Greatest

LEMMA CutIs ==
  ASSUME NEW h \in Seq(Msg)
  PROVE  Cut(h) = 2 \/ (Cut(h) \in DOMAIN h /\ h[Cut(h)].role \in {"user", "text", "calls"})
<1> DEFINE target == Max({2, Len(h) - ProtectLastN + 1})
           cuts == {i \in SafeCuts(h) : i <= target}
           T == {2} \union cuts
<1>1. Cut(h) = Max(T)
  BY DEF Cut
<1> HIDE DEF target
<1>2. \A i \in cuts : i \in DOMAIN h /\ h[i].role \in {"user", "text", "calls"}
  BY DEF SafeCuts
<1> HIDE DEF cuts
<1>3. Len(h) \in Nat /\ DOMAIN h = 1 .. Len(h)
  OBVIOUS
<1>4. T \subseteq Nat /\ T # {} /\ Len(h) + 2 \in Nat /\ \A k \in T : k <= Len(h) + 2
  BY <1>2, <1>3
<1> HIDE DEF T
<1>5. Max(T) \in T
  BY <1>4, GreatestNumber
<1> QED
  BY <1>1, <1>2, <1>5 DEF T

LEMMA CompactedKeeps ==
  ASSUME NEW h \in Seq(Msg), h # <<>>, h[1].role = "system",
         Ordered(h), Distinct(h), NEW n, Numbered(h, n)
  PROVE  LET g == Compacted(h)
         IN  /\ g \in Seq(Msg) /\ g # <<>> /\ g[1].role = "system"
             /\ Ordered(g) /\ Distinct(g) /\ Numbered(g, n)
             /\ Attached(h) => Attached(g)
<1> DEFINE c == Cut(h)
           g == Compacted(h)
<1>1. CASE c = 2
  BY <1>1 DEF Compacted
<1>2. CASE c # 2
  <2> DEFINE head == <<h[1], Text("summary")>>
             tail == SubSeq(h, c, Len(h))
  <2>1. /\ c \in 1 .. Len(h) /\ h[c].role \in {"user", "text", "calls"} /\ Len(h) \in Nat
    BY <1>2, CutIs
  <2>2. c # 1 /\ c \in Nat /\ 3 <= c /\ c <= Len(h)
    BY <1>2, <2>1
  <2>3. g = head \o tail
    BY <1>2 DEF Compacted
  <2>4. /\ head \in Seq(Msg) /\ Len(head) = 2 /\ head[1] = h[1] /\ head[2] = Text("summary")
    <3>1. h[1] \in Msg
      BY <2>2, ElementOfSeq
    <3>2. Text("summary") \in Msg
      <4>1. <<>> \in Seq(Nat)
        OBVIOUS
      <4> QED
        BY <4>1, MessageIs DEF Text, Roles
    <3> QED
      BY <3>1, <3>2
  <2>5. /\ tail \in Seq(Msg) /\ Len(tail) = Len(h) - c + 1
        /\ \A i \in 1 .. Len(h) - c + 1 : tail[i] = h[c + i - 1]
    <3>1. \A i \in c .. Len(h) : h[i] \in Msg
      <4> SUFFICES ASSUME NEW i \in c .. Len(h) PROVE h[i] \in Msg
        OBVIOUS
      <4>1. i \in 1 .. Len(h)
        BY <2>2
      <4> QED
        BY <4>1, ElementOfSeq
    <3>2. c \in Int /\ Len(h) \in Int /\ c <= Len(h)
      BY <2>1, <2>2
    <3> HIDE DEF c
    <3> QED
      BY <3>1, <3>2, SubSeqProperties
  <2> HIDE DEF head, tail, c, g
  <2>6. /\ g \in Seq(Msg) /\ Len(g) = Len(h) - (c - 3) /\ c - 3 \in Nat
        /\ g[1] = h[1] /\ g[2] = Text("summary")
        /\ \A i \in 3 .. Len(g) : g[i] = h[i + (c - 3)]
    <3>1. /\ head \o tail \in Seq(Msg) /\ Len(head \o tail) = Len(head) + Len(tail)
          /\ \A i \in 1 .. Len(head) : (head \o tail)[i] = head[i]
          /\ \A i \in 1 .. Len(tail) : (head \o tail)[Len(head) + i] = tail[i]
      <4>1. head \in Seq(Msg) /\ tail \in Seq(Msg)
        BY <2>4, <2>5
      <4> QED
        BY <4>1, Joined
    <3>2. g \in Seq(Msg) /\ Len(g) = Len(h) - (c - 3) /\ c - 3 \in Nat
      BY <2>1, <2>2, <2>3, <2>4, <2>5, <3>1
    <3>3. g[1] = h[1] /\ g[2] = Text("summary")
      BY <2>3, <2>4, <3>1
    <3>4. ASSUME NEW i \in 3 .. Len(g) PROVE g[i] = h[i + (c - 3)]
      <4>1. i - 2 \in 1 .. Len(tail) /\ 2 + (i - 2) = i /\ c + (i - 2) - 1 = i + (c - 3)
        BY <2>1, <2>2, <2>5, <3>2
      <4>2. g[2 + (i - 2)] = tail[i - 2]
        BY <2>3, <2>4, <3>1, <4>1
      <4>3. tail[i - 2] = h[c + (i - 2) - 1]
        BY <2>5, <4>1
      <4> QED
        BY <4>1, <4>2, <4>3
    <3> QED
      BY <3>2, <3>3, <3>4
  <2>7. /\ g[1].role \notin {"calls", "tool"} /\ g[2].role \notin {"calls", "tool"}
        /\ h[3 + (c - 3)].role # "tool" /\ 3 <= Len(g)
    <3>1. 3 + (c - 3) = c /\ 3 <= Len(g)
      BY <2>1, <2>2, <2>6
    <3> QED
      BY <2>1, <2>6, <3>1, MessageIs DEF Text
  <2>8. /\ Ordered(g) /\ Distinct(g) /\ Numbered(g, n)
        /\ Attached(h) => Attached(g)
    <3> DEFINE d == c - 3
    <3>1. /\ d \in Nat /\ Len(g) = Len(h) - d /\ h[3 + d].role # "tool"
          /\ \A i \in 3 .. Len(g) : g[i] = h[i + d]
      BY <2>6, <2>7
    <3> HIDE DEF d
    <3> QED
      BY <2>6, <2>7, <3>1, HeadReplaced
  <2>9. g # <<>> /\ g[1].role = "system"
    BY <2>6, <2>7
  <2> QED
    BY <2>6, <2>8, <2>9 DEF g
<1> QED
  BY <1>1, <1>2

-----------------------------------------------------------------------------
(* HistInv is kept. *)

LEMMA HistInit == Init => HistInv
<1> SUFFICES ASSUME Init PROVE HistInv
  OBVIOUS
<1>1. nextId = 0 /\ calls = <<>> /\ pc # "tools"
  BY DEF Init
<1>2. PICK past \in Pasts : hist = <<Text("system")>> \o Rehydrated(past) \o <<Text("user")>>
  BY DEF Init
<1> DEFINE r == Rehydrated(past)
<1>3. r \in Seq(Quiet)
  <2>1. past \in Seq({"user", "text", "summary", "calls", "tool"})
    BY LoopAssumption
  <2>2. Len(past) \in Nat
    BY <2>1
  <2> QED
    BY <2>2, RehydratedQuiet
<1> HIDE DEF r
<1> DEFINE a == <<Text("system")>>
           b == <<Text("user")>>
<1>4. a \in Seq(Quiet) /\ b \in Seq(Quiet) /\ a[1] = Text("system") /\ Len(a) = 1
  BY DEF Quiet
<1>5. hist = (a \o r) \o b
  BY <1>2 DEF r
<1> HIDE DEF a, b
<1>6. a \o r \in Seq(Quiet) /\ Len(a \o r) = Len(a) + Len(r) /\ (a \o r)[1] = a[1]
  <2>1. /\ a \o r \in Seq(Quiet) /\ Len(a \o r) = Len(a) + Len(r)
        /\ \A i \in 1 .. Len(a) : (a \o r)[i] = a[i]
    BY <1>3, <1>4, Joined
  <2> QED
    BY <1>4, <2>1
<1>7. hist \in Seq(Quiet) /\ hist[1] = Text("system") /\ hist # <<>>
  <2> DEFINE c == a \o r
  <2>1. c \in Seq(Quiet) /\ c[1] = Text("system") /\ Len(c) >= 1 /\ Len(c) \in Nat
    BY <1>3, <1>4, <1>6
  <2>2. hist = c \o b
    BY <1>5
  <2> HIDE DEF c
  <2>3. /\ hist \in Seq(Quiet) /\ Len(hist) = Len(c) + Len(b)
        /\ \A i \in 1 .. Len(c) : hist[i] = c[i]
    BY <1>4, <2>1, <2>2, Joined
  <2>4. Len(b) \in Nat
    BY <1>4
  <2>5. Len(hist) # 0
    BY <2>1, <2>3, <2>4
  <2> QED
    BY <2>1, <2>3, <2>5
<1>8. \A i \in DOMAIN hist : hist[i] \in Msg /\ hist[i].role \notin {"calls", "tool"}
  BY <1>7, ElementOfSeq, QuietIs
<1>9. hist \in Seq(Msg)
  BY <1>7, <1>8
<1>10. hist[1].role = "system"
  BY <1>7, MessageIs DEF Text
<1>11. /\ Numbered(hist, nextId) /\ Distinct(hist) /\ Ordered(hist) /\ Attached(hist)
  BY <1>8 DEF Numbered, Distinct, Ordered, Attached
<1>12. Complete = hist
  BY <1>1 DEF Complete
<1> QED
  BY <1>1, <1>9, <1>10, <1>7, <1>11, <1>12 DEF HistInv

\* A refused call is answered, though no message asked for it.
LEMMA AnswerPut ==
  ASSUME NEW h \in Seq(Msg), h # <<>>, Ordered(h), Distinct(h),
         NEW n \in Nat, NEW later \in Nat, n <= later, Numbered(h, n), NEW id \in Nat,
         NEW g, g = Append(h, Answer(id))
  PROVE  /\ g \in Seq(Msg) /\ g # <<>> /\ g[1] = h[1]
         /\ Ordered(g) /\ Distinct(g) /\ Numbered(g, later)
<1>1. Answer(id) \in Msg /\ Answer(id).role = "tool"
  BY AnswerIs
<1> DEFINE m == Answer(id)
<1> HIDE DEF m
<1>2. m \in Msg /\ m.role = "tool" /\ g = Append(h, m)
  BY <1>1 DEF m
<1>3. /\ Len(h) \in Nat /\ DOMAIN h = 1 .. Len(h) /\ Len(h) # 0
      /\ g \in Seq(Msg) /\ Len(g) = Len(h) + 1 /\ DOMAIN g = 1 .. Len(h) + 1
      /\ \A i \in 1 .. Len(h) : g[i] = h[i]
      /\ g[Len(h) + 1] = m
  BY <1>2
<1>4. ASSUME NEW i \in DOMAIN g, g[i].role = "calls"
      PROVE  i \in DOMAIN h /\ g[i] = h[i]
  BY <1>2, <1>3, <1>4
<1>5. Ordered(g)
  <2> SUFFICES ASSUME NEW i \in DOMAIN g, g[i].role = "calls", NEW j \in DOMAIN g[i].ids
               PROVE  i + j \in DOMAIN g /\ g[i + j] = Answer(g[i].ids[j])
    BY DEF Ordered
  <2>1. i + j \in DOMAIN h /\ h[i + j] = Answer(h[i].ids[j])
    BY <1>4 DEF Ordered
  <2>2. i + j \in DOMAIN g /\ g[i + j] = h[i + j]
    BY <1>3, <2>1
  <2> QED
    BY <1>4, <2>1, <2>2
<1>6. Distinct(g)
  <2> SUFFICES ASSUME NEW i \in DOMAIN g, NEW k \in DOMAIN g,
                      g[i].role = "calls", g[k].role = "calls",
                      NEW j \in DOMAIN g[i].ids, NEW l \in DOMAIN g[k].ids,
                      g[i].ids[j] = g[k].ids[l]
               PROVE  i = k /\ j = l
    BY DEF Distinct
  <2> QED
    BY <1>4 DEF Distinct
<1>7. Numbered(g, later)
  <2> SUFFICES ASSUME NEW i \in DOMAIN g, g[i].role = "calls", NEW j \in DOMAIN g[i].ids
               PROVE  g[i].ids[j] <= later
    BY DEF Numbered
  <2>1. g[i] = h[i] /\ i \in DOMAIN h
    BY <1>4
  <2>2. h[i].ids[j] \in Nat
    BY <2>1, MessageIds, ElementOfSeq
  <2>3. h[i].ids[j] <= n
    BY <2>1 DEF Numbered
  <2>4. g[i].ids[j] \in Nat /\ g[i].ids[j] <= n
    BY <2>1, <2>2, <2>3
  <2> QED
    BY <2>4
<1>8. g # <<>> /\ g[1] = h[1]
  BY <1>3
<1> QED
  BY <1>3, <1>5, <1>6, <1>7, <1>8

LEMMA NumberedMore ==
  ASSUME NEW h \in Seq(Msg), NEW n \in Nat, NEW later \in Nat, n <= later, Numbered(h, n)
  PROVE  Numbered(h, later)
<1> SUFFICES ASSUME NEW i \in DOMAIN h, h[i].role = "calls", NEW j \in DOMAIN h[i].ids
             PROVE  h[i].ids[j] <= later
  BY DEF Numbered
<1>1. h[i].ids[j] \in Nat
  BY MessageIds, ElementOfSeq
<1>2. h[i].ids[j] <= n
  BY DEF Numbered
<1> QED
  BY <1>1, <1>2

\* A refused result stays in the report.
LEMMA RefusalStays ==
  ASSUME ReportInv, NEW t \in Tools, NEW status \in Statuses,
         results' = Append(results, Result(nextId + 1, t, status)), NoneRefused'
  PROVE  NoneRefused /\ status # "refused"
<1> DEFINE new == Result(nextId + 1, t, status)
<1>1. results \in Seq(Entry) /\ nextId \in Nat
  BY DEF ReportInv, ResultsOK
<1>2. new \in Entry /\ new.status = status
  BY <1>1 DEF Result, Entry
<1>3. results' = Append(results, new)
  OBVIOUS
<1> HIDE DEF new
<1>4. /\ \A i \in DOMAIN results : i \in DOMAIN results' /\ results'[i] = results[i]
      /\ Len(results) + 1 \in DOMAIN results' /\ results'[Len(results) + 1] = new
  BY <1>1, <1>2, <1>3
<1> QED
  BY <1>2, <1>4 DEF NoneRefused

LEMMA HistRunApproved ==
  ASSUME HistInv, ReportInv, RunApproved
  PROVE  HistInv'
<1> DEFINE t  == Head(approved)
           id == nextId + 1
<1>1. /\ approved # <<>> /\ nextId' = id /\ id \in Nat /\ nextId \in Nat /\ nextId <= id
      /\ nextId < id /\ pc = "approved" /\ pc' = "approved" /\ UNCHANGED calls
  BY DEF RunApproved, HistInv
<1>2. t \in Tools
  BY <1>1, HeadTailProperties DEF ReportInv
<1>3. /\ hist \in Seq(Msg) /\ hist # <<>> /\ hist[1].role = "system"
      /\ Numbered(hist, nextId) /\ Distinct(hist) /\ Ordered(hist)
      /\ NoneRefused => Attached(hist)
  BY <1>1 DEF HistInv, Complete, Going
<1>4. calls' \in Seq([id : Nat, tool : Tools])
  BY <1>1 DEF HistInv
<1>5. Complete' = hist'
  BY <1>1 DEF Complete
<1>6. CASE results' = Append(results, Result(id, t, "unknown")) /\ UNCHANGED hist
  <2>1. NoneRefused' => NoneRefused
    BY <1>2, <1>6, RefusalStays DEF Statuses
  <2>2. Numbered(hist, nextId')
    BY <1>1, <1>3, NumberedMore
  <2> QED
    BY <1>1, <1>3, <1>4, <1>5, <1>6, <2>1, <2>2 DEF HistInv
<1>7. CASE results' = Append(results, Result(id, t, "refused")) /\ hist' = Append(hist, Answer(id))
  <2>1. ~ NoneRefused'
    BY <1>2, <1>7, RefusalStays DEF Statuses
  <2> HIDE DEF id
  <2>2. /\ hist' \in Seq(Msg) /\ hist' # <<>> /\ hist'[1] = hist[1]
        /\ Ordered(hist') /\ Distinct(hist') /\ Numbered(hist', id)
    BY <1>1, <1>3, <1>7, AnswerPut
  <2> QED
    BY <1>1, <1>3, <1>4, <1>5, <2>1, <2>2 DEF HistInv
<1>8. CASE /\ hist' = hist \o <<Message("calls", <<id>>), Answer(id)>>
           /\ \E status \in {"ok", "error"} : results' = Append(results, Result(id, t, status))
  <2>1. NoneRefused' => NoneRefused
    BY <1>2, <1>8, RefusalStays DEF Statuses
  <2> HIDE DEF t, id
  <2> DEFINE ids  == <<id>>
             more == <<Message("calls", ids), Answer(id)>>
  <2>2. ids \in Seq(Nat) /\ DOMAIN ids = {1} /\ Len(ids) = 1 /\ ids[1] = id
    BY <1>1
  <2> HIDE DEF ids
  <2>3. Message("calls", ids) \in Msg /\ Answer(id) \in Msg /\ Answer(id).role = "tool"
    BY <1>1, <2>2, MessageIs, AnswerIs DEF Roles
  <2>4. /\ more \in Seq(Msg) /\ Len(more) = 2 /\ more[1] = Message("calls", ids)
        /\ more[2] = Answer(id)
    BY <2>3
  <2>5. hist' = hist \o more
    BY <1>8 DEF ids
  <2> HIDE DEF more
  <2>6. /\ hist' \in Seq(Msg) /\ Len(hist') = Len(hist) + 2
        /\ \A i \in 1 .. Len(hist) : hist'[i] = hist[i]
        /\ \A i \in 1 .. 2 : hist'[Len(hist) + i] = more[i]
    <3>1. hist \in Seq(Msg) /\ more \in Seq(Msg)
      BY <1>3, <2>4
    <3>2. /\ hist \o more \in Seq(Msg) /\ Len(hist \o more) = Len(hist) + Len(more)
          /\ \A i \in 1 .. Len(hist) : (hist \o more)[i] = hist[i]
          /\ \A i \in 1 .. Len(more) : (hist \o more)[Len(hist) + i] = more[i]
      BY <3>1, Joined
    <3> QED
      BY <2>4, <2>5, <3>2
  <2>7. /\ Len(hist) \in Nat /\ DOMAIN hist = 1 .. Len(hist) /\ Len(hist) # 0
        /\ DOMAIN hist' = 1 .. Len(hist) + 2
    BY <1>3, <2>6
  <2> DEFINE g == hist'
  <2> HIDE DEF g
  <2>8. /\ g \in Seq(Msg) /\ Len(g) = Len(hist) + 1 + Len(ids) /\ Len(g) > Len(hist)
        /\ \A i \in DOMAIN hist : g[i] = hist[i]
        /\ g[Len(hist) + 1] = Message("calls", ids)
        /\ \A j \in DOMAIN ids : g[Len(hist) + 1 + j] = Answer(ids[j])
        /\ \A i \in DOMAIN g : i > Len(hist) + 1 => g[i].role = "tool"
    <3>1. hist'[Len(hist) + 1] = Message("calls", ids) /\ hist'[Len(hist) + 2] = Answer(id)
      BY <2>4, <2>6
    <3>2. Len(hist) + 1 + 1 = Len(hist) + 2
      BY <2>7
    <3>3. \A i \in DOMAIN hist' : i > Len(hist) + 1 => i = Len(hist) + 2
      BY <2>7
    <3> QED
      BY <2>2, <2>3, <2>6, <2>7, <3>1, <3>2, <3>3 DEF g
  <2>9. Numbered(g, id) /\ Distinct(g)
    <3>1. /\ \A j \in DOMAIN ids : nextId < ids[j] /\ ids[j] <= id
          /\ \A j, l \in DOMAIN ids : ids[j] = ids[l] => j = l
      BY <1>1, <2>2
    <3> QED
      BY <1>1, <1>3, <2>2, <2>8, <3>1, CallsPut, ZenonT(30)
  <2>10. Ordered(g) /\ (Attached(hist) => Attached(g))
    BY <1>3, <2>2, <2>8, BlockPut
  <2>11. g # <<>> /\ g[1] = hist[1]
    BY <2>7, <2>8
  <2> QED
    BY <1>1, <1>3, <1>4, <1>5, <2>1, <2>8, <2>9, <2>10, <2>11 DEF HistInv, g
<1> QED
  BY <1>6, <1>7, <1>8 DEF RunApproved

LEMMA HistLoopHead ==
  ASSUME HistInv, LoopHead
  PROVE  HistInv'
<1>1. /\ pc = "loop" /\ pc' \in {"turn", "finish"} /\ hist' \in {hist, Compacted(hist)}
      /\ UNCHANGED <<calls, results, nextId>>
  BY DEF LoopHead
<1>2. /\ hist \in Seq(Msg) /\ hist # <<>> /\ hist[1].role = "system"
      /\ Numbered(hist, nextId) /\ Distinct(hist) /\ Ordered(hist)
      /\ NoneRefused => Attached(hist)
  BY <1>1 DEF HistInv, Complete, Going
<1>3. /\ hist' \in Seq(Msg) /\ hist' # <<>> /\ hist'[1].role = "system"
      /\ Numbered(hist', nextId) /\ Distinct(hist') /\ Ordered(hist')
      /\ Attached(hist) => Attached(hist')
  <2>1. CASE hist' = hist
    BY <1>2, <2>1
  <2>2. CASE hist' = Compacted(hist)
    BY <1>2, <2>2, CompactedKeeps
  <2> QED
    BY <1>1, <2>1, <2>2
<1>4. NoneRefused' <=> NoneRefused
  BY <1>1 DEF NoneRefused
<1>5. Complete' = hist'
  BY <1>1 DEF Complete
<1> QED
  BY <1>1, <1>2, <1>3, <1>4, <1>5 DEF HistInv

LEMMA HistAnswered ==
  ASSUME HistInv, pc = "turn", NEW n \in Nat, NEW asked \in [1 .. n -> Tools],
         Answered(asked), UNCHANGED results
  PROVE  HistInv'
<1> DEFINE ids     == [i \in 1 .. n |-> nextId + i]
           new     == [i \in 1 .. n |-> [id |-> nextId + i, tool |-> asked[i]]]
           answers == [i \in 1 .. n |-> Answer(nextId + i)]
           m       == Message("calls", ids)
<1>1. /\ hist \in Seq(Msg) /\ hist # <<>> /\ hist[1].role = "system" /\ nextId \in Nat
      /\ Numbered(hist, nextId) /\ Distinct(hist) /\ Ordered(hist)
      /\ NoneRefused => Attached(hist)
  BY DEF HistInv, Complete, Going
<1>2. DOMAIN asked = 1 .. n /\ asked \in Seq(Tools) /\ Len(asked) = n
  OBVIOUS
<1>3. /\ calls' = new /\ nextId' = nextId + n /\ hist' = Append(hist, m)
      /\ pc' \in {"tools", "finish"}
  BY <1>2 DEF Answered
<1>4. new \in Seq(Asked) /\ DOMAIN new = 1 .. n /\ \A i \in 1 .. n : new[i].id = nextId + i
  BY <1>1, <1>2 DEF Asked
<1>5. /\ ids \in Seq(Nat) /\ DOMAIN ids = 1 .. n /\ Len(ids) = n
      /\ \A i \in 1 .. n : ids[i] = nextId + i
  BY <1>1
<1>6. /\ answers \in Seq(Msg) /\ DOMAIN answers = 1 .. n /\ Len(answers) = n
      /\ \A i \in 1 .. n : answers[i] = Answer(ids[i]) /\ answers[i].role = "tool"
  <2>1. \A i \in 1 .. n : Answer(nextId + i) \in Msg /\ Answer(nextId + i).role = "tool"
    BY <1>1, AnswerIs
  <2> QED
    BY <1>5, <2>1
<1>7. pc' = "tools" => TurnAnswers' = answers
  <2>1. DOMAIN calls' = 1 .. n /\ \A i \in 1 .. n : calls'[i].id = nextId + i
    BY <1>3, <1>4
  <2>2. TurnAnswers' = [i \in DOMAIN calls' |-> Answer(calls'[i].id)]
    BY DEF TurnAnswers
  <2> HIDE DEF new
  <2>3. [i \in DOMAIN calls' |-> Answer(calls'[i].id)] = answers
    BY <2>1
  <2> QED
    BY <2>2, <2>3
<1> HIDE DEF ids, new, answers
<1>8. m \in Msg
  BY <1>5, MessageIs DEF Roles
<1> HIDE DEF m
<1>9. /\ Len(hist) \in Nat /\ DOMAIN hist = 1 .. Len(hist) /\ Len(hist) # 0
      /\ hist' \in Seq(Msg) /\ Len(hist') = Len(hist) + 1
      /\ DOMAIN hist' = 1 .. Len(hist) + 1
      /\ \A i \in 1 .. Len(hist) : hist'[i] = hist[i]
      /\ hist'[Len(hist) + 1] = m
  BY <1>1, <1>3, <1>8
<1>10. /\ nextId + n \in Nat /\ nextId <= nextId + n
       /\ \A j \in DOMAIN ids : nextId < ids[j] /\ ids[j] <= nextId + n
       /\ \A j, l \in DOMAIN ids : ids[j] = ids[l] => j = l
  BY <1>1, <1>5
<1>11. Numbered(hist', nextId + n) /\ Distinct(hist')
  <2> DEFINE g == hist'
  <2> HIDE DEF g
  <2>1. /\ g \in Seq(Msg) /\ Len(g) > Len(hist)
        /\ \A i \in DOMAIN hist : g[i] = hist[i]
        /\ g[Len(hist) + 1] = Message("calls", ids)
        /\ \A i \in DOMAIN g : i > Len(hist) + 1 => g[i].role = "tool"
    BY <1>9 DEF g, m
  <2>2. Numbered(g, nextId + n) /\ Distinct(g)
    BY <1>1, <1>5, <1>10, <2>1, CallsPut, ZenonT(30)
  <2> QED
    BY <2>2 DEF g
<1>12. pc' = "tools" => Ordered(Complete') /\ (Attached(hist) => Attached(Complete'))
  <2> SUFFICES ASSUME pc' = "tools"
               PROVE  Ordered(Complete') /\ (Attached(hist) => Attached(Complete'))
    OBVIOUS
  <2> DEFINE g == hist' \o answers
             k == Len(hist')
  <2>1. Complete' = g
    BY <1>7 DEF Complete
  <2>2. hist' \in Seq(Msg) /\ answers \in Seq(Msg)
    BY <1>6, <1>9
  <2>3. /\ g \in Seq(Msg) /\ Len(g) = k + Len(answers)
        /\ \A i \in 1 .. k : g[i] = hist'[i]
        /\ \A i \in 1 .. Len(answers) : g[k + i] = answers[i]
    BY <2>2, Joined
  <2> HIDE DEF g
  <2>4. k = Len(hist) + 1 /\ \A i \in DOMAIN hist : i \in 1 .. k /\ k \in 1 .. k
    BY <1>9
  <2> HIDE DEF k
  <2>5. /\ Len(g) = Len(hist) + 1 + Len(ids)
        /\ \A i \in DOMAIN hist : g[i] = hist[i]
        /\ g[Len(hist) + 1] = Message("calls", ids)
        /\ \A j \in DOMAIN ids : g[Len(hist) + 1 + j] = Answer(ids[j])
    <3>1. Len(g) = Len(hist) + 1 + Len(ids)
      BY <1>5, <1>6, <2>3, <2>4
    <3>2. \A i \in DOMAIN hist : g[i] = hist[i]
      BY <1>9, <2>3, <2>4
    <3>3. g[Len(hist) + 1] = Message("calls", ids)
      <4>1. Len(hist) + 1 \in 1 .. Len(hist) + 1
        BY <1>9
      <4>2. g[Len(hist) + 1] = m
        BY <1>9, <2>3, <2>4, <4>1
      <4> QED
        BY <4>2 DEF m
    <3>4. \A j \in DOMAIN ids : g[Len(hist) + 1 + j] = Answer(ids[j])
      BY <1>5, <1>6, <2>3, <2>4
    <3> QED
      BY <3>1, <3>2, <3>3, <3>4
  <2>6. Ordered(g) /\ (Attached(hist) => Attached(g))
    BY <1>1, <1>5, <2>3, <2>5, BlockPut
  <2> QED
    BY <2>1, <2>6
<1>13. NoneRefused' <=> NoneRefused
  BY DEF NoneRefused
<1>14. pc' \in Going => pc' = "tools"
  BY <1>3 DEF Going
<1>15. hist' # <<>> /\ hist'[1].role = "system"
  BY <1>1, <1>9
<1>16. calls' \in Seq([id : Nat, tool : Tools])
  BY <1>3, <1>4 DEF Asked
<1> QED
  BY <1>1, <1>3, <1>9, <1>10, <1>11, <1>12, <1>13, <1>14, <1>15, <1>16 DEF HistInv

\* A step that leaves the history alone, or ends the turn.
LEMMA HistMoves ==
  ASSUME HistInv, UNCHANGED <<hist, results, nextId, calls>>,
         \/ pc' \notin Going
         \/ pc = pc'
         \/ pc \in Going \ {"tools"} /\ pc' \in Going \ {"tools"}
  PROVE  HistInv'
<1>1. /\ NoneRefused' <=> NoneRefused
      /\ TurnAnswers' = TurnAnswers
  BY DEF NoneRefused, TurnAnswers
<1>2. pc' \in Going => pc \in Going /\ Complete' = Complete
  BY <1>1 DEF Complete
<1> QED
  BY <1>1, <1>2 DEF HistInv

LEMMA HistRunTurn ==
  ASSUME HistInv, RunTurn
  PROVE  HistInv'
<1>1. CASE UNCHANGED <<hist, turn, nextId>> /\ pc' = "finish"
  BY <1>1, HistMoves DEF RunTurn, Going
<1>2. CASE \E n \in 1 .. MaxCalls : \E asked \in [1 .. n -> Tools] : Answered(asked)
  <2>1. PICK n \in Nat : \E asked \in [1 .. n -> Tools] : Answered(asked)
    BY <1>2, LoopAssumption
  <2> QED
    BY <2>1, HistAnswered DEF RunTurn
<1> QED
  BY <1>1, <1>2 DEF RunTurn

\* The report grows by what became of the calls.
LEMMA ApplyGrows ==
  ASSUME ReportInv, Apply
  PROVE  \A i \in DOMAIN results : i \in DOMAIN results' /\ results'[i] = results[i]
<1> DEFINE S    == Entry \union {Reported[i] : i \in DOMAIN calls}
           more == Reported
<1>1. /\ results' = results \o more /\ results \in Seq(Entry) /\ calls \in Seq(Asked)
  BY DEF Apply, ReportInv, ResultsOK, CallsOK
<1>2. more \in Seq(S)
  <2>1. DOMAIN calls = 1 .. Len(calls) /\ Len(calls) \in Nat /\ DOMAIN more = DOMAIN calls
    BY <1>1 DEF Reported
  <2>2. \A i \in DOMAIN calls : more[i] \in S
    OBVIOUS
  <2>3. more = [i \in 1 .. Len(calls) |-> more[i]]
    BY <2>1 DEF Reported
  <2> HIDE DEF more, S
  <2> QED
    BY <2>1, <2>2, <2>3
<1>3. results \in Seq(S)
  <2>1. Entry \subseteq S
    OBVIOUS
  <2> HIDE DEF S
  <2> QED
    BY <1>1, <2>1
<1> HIDE DEF S, more
<1>4. /\ DOMAIN (results \o more) = 1 .. Len(results) + Len(more)
      /\ \A i \in 1 .. Len(results) : (results \o more)[i] = results[i]
  BY <1>2, <1>3, Joined
<1>5. DOMAIN results = 1 .. Len(results) /\ Len(results) \in Nat /\ Len(more) \in Nat
  BY <1>2, <1>3
<1> QED
  BY <1>1, <1>4, <1>5

LEMMA HistApply ==
  ASSUME HistInv, ReportInv, Apply
  PROVE  HistInv'
<1>1. /\ pc = "tools" /\ pc' = "loop" /\ hist' = hist \o TurnAnswers /\ calls' = <<>>
      /\ results' = results \o Reported /\ UNCHANGED nextId
  BY DEF Apply
<1>2. Complete = hist' /\ Complete' = hist'
  BY <1>1 DEF Complete
<1>3. /\ hist \in Seq(Msg) /\ hist # <<>> /\ hist[1].role = "system" /\ nextId \in Nat
      /\ Numbered(hist, nextId) /\ Distinct(hist) /\ Ordered(hist')
      /\ NoneRefused => Attached(hist')
      /\ calls \in Seq(Asked)
  BY <1>1, <1>2 DEF HistInv, Going, Asked
<1>4. /\ TurnAnswers \in Seq(Msg)
      /\ \A i \in DOMAIN TurnAnswers : TurnAnswers[i].role = "tool"
  <2>1. \A i \in DOMAIN calls : Answer(calls[i].id) \in Msg /\ Answer(calls[i].id).role = "tool"
    <3> SUFFICES ASSUME NEW i \in DOMAIN calls
                 PROVE  Answer(calls[i].id) \in Msg /\ Answer(calls[i].id).role = "tool"
      OBVIOUS
    <3>1. calls[i] \in Asked
      BY <1>3, ElementOfSeq
    <3>2. calls[i].id \in Nat
      BY <3>1 DEF Asked
    <3> QED
      BY <3>2, AnswerIs
  <2> DEFINE a == [i \in DOMAIN calls |-> Answer(calls[i].id)]
  <2>2. DOMAIN calls = 1 .. Len(calls) /\ Len(calls) \in Nat
    BY <1>3
  <2>3. a \in Seq(Msg) /\ \A i \in DOMAIN a : a[i].role = "tool"
    BY <2>1, <2>2
  <2> QED
    BY <2>3 DEF TurnAnswers
<1> DEFINE answers == TurnAnswers
<1> HIDE DEF answers
<1>5. /\ hist' \in Seq(Msg) /\ Len(hist) \in Nat /\ Len(hist) # 0
      /\ DOMAIN hist = 1 .. Len(hist)
      /\ \A i \in 1 .. Len(hist) : i \in DOMAIN hist' /\ hist'[i] = hist[i]
      /\ \A i \in DOMAIN hist' : i \in 1 .. Len(hist) \/ hist'[i].role = "tool"
  <2>1. hist \in Seq(Msg) /\ answers \in Seq(Msg) /\ hist' = hist \o answers
    BY <1>1, <1>3, <1>4 DEF answers
  <2>2. /\ hist' \in Seq(Msg)
        /\ DOMAIN hist' = 1 .. Len(hist) + Len(answers)
        /\ \A i \in 1 .. Len(hist) : hist'[i] = hist[i]
        /\ \A i \in 1 .. Len(answers) : hist'[Len(hist) + i] = answers[i]
        /\ \A i \in 1 .. Len(hist) + Len(answers) :
             i \in 1 .. Len(hist) \/ (i > Len(hist) /\ i - Len(hist) \in 1 .. Len(answers))
    BY <2>1, Joined
  <2>3. /\ Len(hist) \in Nat /\ Len(answers) \in Nat /\ Len(hist) # 0
        /\ DOMAIN hist = 1 .. Len(hist) /\ DOMAIN answers = 1 .. Len(answers)
    BY <1>3, <2>1
  <2>4. ASSUME NEW i \in DOMAIN hist', i \notin 1 .. Len(hist) PROVE hist'[i].role = "tool"
    <3>1. i - Len(hist) \in DOMAIN answers /\ Len(hist) + (i - Len(hist)) = i
      BY <2>2, <2>3, <2>4
    <3>2. hist'[i] = answers[i - Len(hist)]
      BY <2>2, <2>3, <3>1
    <3> QED
      BY <1>4, <3>1, <3>2 DEF answers
  <2>5. \A i \in 1 .. Len(hist) : i \in DOMAIN hist'
    BY <2>2, <2>3
  <2> QED
    BY <2>2, <2>3, <2>4, <2>5
<1>6. ASSUME NEW i \in DOMAIN hist', hist'[i].role = "calls"
      PROVE  i \in DOMAIN hist /\ hist'[i] = hist[i]
  BY <1>5, <1>6
<1>7. Numbered(hist', nextId)
  BY <1>3, <1>6 DEF Numbered
<1>8. Distinct(hist')
  <2> SUFFICES ASSUME NEW i \in DOMAIN hist', NEW k \in DOMAIN hist',
                      hist'[i].role = "calls", hist'[k].role = "calls",
                      NEW j \in DOMAIN hist'[i].ids, NEW l \in DOMAIN hist'[k].ids,
                      hist'[i].ids[j] = hist'[k].ids[l]
               PROVE  i = k /\ j = l
    BY DEF Distinct
  <2> QED
    BY <1>3, <1>6 DEF Distinct
<1>9. NoneRefused' => NoneRefused
  <2>1. \A i \in DOMAIN results : i \in DOMAIN results' /\ results'[i] = results[i]
    BY ApplyGrows
  <2> QED
    BY <2>1 DEF NoneRefused
<1>10. hist' # <<>> /\ hist'[1].role = "system"
  BY <1>3, <1>5
<1>11. calls' \in Seq([id : Nat, tool : Tools])
  BY <1>1
<1> QED
  BY <1>1, <1>2, <1>3, <1>5, <1>7, <1>8, <1>9, <1>10, <1>11 DEF HistInv

LEMMA HistStep == HistInv /\ ReportInv /\ [Next]_vars => HistInv'
<1> SUFFICES ASSUME HistInv, ReportInv, [Next]_vars PROVE HistInv'
  OBVIOUS
<1>1. CASE RunApproved
  BY <1>1, HistRunApproved
<1>2. CASE RunTurn
  BY <1>2, HistRunTurn
<1>3. CASE Apply
  BY <1>3, HistApply
<1>4. CASE LoopHead
  BY <1>4, HistLoopHead
<1>5. CASE \E i \in DOMAIN outcome : ToolEnds(i)
  BY <1>5, HistMoves DEF ToolEnds
<1>6. CASE StartLoop \/ Finish \/ Disconnect
  BY <1>6, HistMoves DEF StartLoop, Finish, Disconnect, Going
<1>7. CASE UNCHANGED vars
  BY <1>7, HistMoves DEF vars, turn
<1> QED
  BY <1>1, <1>2, <1>3, <1>4, <1>5, <1>6, <1>7 DEF Next, LoopStep

LEMMA HistAlways == Spec => [](HistInv /\ ReportInv)
BY ReportInit, ReportStep, HistInit, HistStep, PTL DEF Spec

\* Phase 3 of a turn (flexible.py, _apply_outcomes): the answers in the history
\* follow their message in the order of its calls, however many calls there are
\* and in whatever order they end, and compaction does not part them.
THEOREM AnswersAlwaysInOrder == Spec => []AnswersInOrder
<1>1. HistInv => AnswersInOrder
  BY DEF HistInv, Complete, Ordered, Going, AnswersInOrder
<1> QED
  BY <1>1, HistAlways, PTL

\* The promise of _validate_history (flexible.py): as long as no confirmed call
\* was refused, every history that is sent to the LLM answers every tool call
\* once, before anything else is said, for histories and turns of any length.
THEOREM HistoryAlwaysPaired == Spec => []SentHistoryPaired
<1>1. HistInv => SentHistoryPaired
  <2> SUFFICES ASSUME HistInv, NoneRefused, pc = "turn" PROVE Valid(hist)
    BY DEF SentHistoryPaired, SentHistoryValid, NoneRefused
  <2>1. hist \in Seq(Msg) /\ Ordered(hist) /\ Distinct(hist) /\ Attached(hist)
    BY DEF HistInv, Complete, Going
  <2> QED
    BY <2>1, PairedIsValid
<1> QED
  BY <1>1, HistAlways, PTL

-----------------------------------------------------------------------------
(* Stored conversations took place. *)

\* Messages, the turns that have stored nothing yet, and turns.
Messages == [role : {"user", "assistant", "system"}, turn : Nat]
Early    == {"load", "run", "persist"}
Stages   == Early \union {"send", "fallback", "over", "gone", "lost"}
Sends    == [fallback : BOOLEAN, sent : {"ok", "failed"}]
TurnRows == [user : Users \union {Api}, given : Nat, own : BOOLEAN, pc : Stages, row : Nat,
             base : Seq(Messages), seen : Seq(Messages), sends : Seq(Sends)]
ChatRows == [user : Users \union {Api}, msgs : Seq(Messages), touched : BOOLEAN]

\* What stands before position n of a history is the end of what was seen, as far
\* back as both reach.
Follows(seen, h, n) ==
  \A i \in DOMAIN h, j \in DOMAIN seen :
    i < n /\ i + Len(seen) + 1 = n + j => h[i].role = "system" \/ h[i] = seen[j]

\* Only the first message of a history may be a summary.
SummaryFirst(h) == \A i \in DOMAIN h : h[i].role = "system" => i = 1

\* A question of a history of a user, after the turns ts.
Genuine(h, n, user, ts) ==
  LET t == h[n].turn
  IN  /\ t \in DOMAIN ts /\ ts[t].user = user
      /\ n + 1 \in DOMAIN h /\ h[n + 1] = Reply(t)
      /\ \A k \in DOMAIN h : h[k] = h[n] => k = n
      /\ ts[t].own \/ Follows(ts[t].seen, h, n)

Conversation(h, user, ts) ==
  /\ h \in Seq(Messages) /\ SummaryFirst(h)
  /\ \A n \in DOMAIN h : h[n].role = "user" => Genuine(h, n, user, ts)

Unsaid(t, h) == \A n \in DOMAIN h : h[n] # Question(t)

\* What the invariant asks of a turn, but for what its base may be.
Placed(t, ts) ==
  /\ ts[t].pc = "load" => ts[t].base = <<>>
  /\ ts[t].row # NoRow => ts[t].row \in DOMAIN ts /\ ts[ts[t].row].user = ts[t].user
  /\ ts[t].given # NoRow => ts[t].given \in DOMAIN ts /\ ts[ts[t].given].user = ts[t].user
  /\ ts[t].pc \in {"run", "persist"} /\ ~ts[t].own =>
       Follows(ts[t].seen, ts[t].base, Len(ts[t].base) + 1)

TurnsOK ==
  /\ turns \in Seq(TurnRows)
  /\ \A t \in DOMAIN turns :
       /\ Placed(t, turns)
       /\ Conversation(turns[t].base, turns[t].user, turns)
       /\ \A v \in DOMAIN turns : turns[v].pc \in Early => Unsaid(v, turns[t].base)

RowsOK ==
  /\ rows \in [DOMAIN rows -> ChatRows] /\ DOMAIN rows \subseteq DOMAIN turns
  /\ \A i \in DOMAIN rows :
       /\ rows[i].user = turns[i].user
       /\ Conversation(rows[i].msgs, rows[i].user, turns)
       /\ \A v \in DOMAIN turns : turns[v].pc \in Early => Unsaid(v, rows[i].msgs)

ChatInv == TurnsOK /\ RowsOK

\* ChatAssumption, for the arithmetic of histories.
LEMMA Limits ==
  /\ Budget \in Nat /\ Budget # 0 /\ ReplayCs \in Nat /\ ReplayCs # 0
  /\ ReplayApi \in Nat /\ ReplayApi # 0 /\ Api \notin Users
BY ChatAssumption DEF Users

LEMMA MessagesAre ==
  ASSUME NEW t \in Nat
  PROVE  /\ Question(t) \in Messages /\ Question(t).role = "user" /\ Question(t).turn = t
         /\ Reply(t) \in Messages /\ Reply(t).role = "assistant" /\ Reply(t).turn = t
         /\ Summary \in Messages /\ Summary.role = "system"
BY DEF Question, Reply, Summary, Messages

LEMMA QuestionIs ==
  ASSUME NEW m \in Messages, m.role = "user"
  PROVE  m = Question(m.turn) /\ m.turn \in Nat
BY DEF Question, Messages

\* What compaction and the limits make of a history: an end of it, perhaps with a
\* summary in front.
Trims(g, h) ==
  /\ g \in Seq(Messages)
  /\ \E d \in Nat :
       /\ Len(g) + d = Len(h)
       /\ \A i \in DOMAIN g : i + d \in DOMAIN h
                              /\ (g[i] = h[i + d] \/ (i = 1 /\ g[1] = Summary))

\* The latest messages.
LEMMA LastOfIs ==
  ASSUME NEW h \in Seq(Messages), NEW n \in Nat
  PROVE  LET g == LastOf(h, n)
         IN  /\ g \in Seq(Messages) /\ Len(g) = IF Len(h) <= n THEN Len(h) ELSE n
             /\ \A i \in 1 .. Len(g) : i + (Len(h) - Len(g)) \in 1 .. Len(h)
                                       /\ g[i] = h[i + (Len(h) - Len(g))]
<1> DEFINE g == LastOf(h, n)
<1>1. Len(h) \in Nat
  OBVIOUS
<1>2. CASE Len(h) <= n
  BY <1>1, <1>2 DEF LastOf
<1>3. CASE ~(Len(h) <= n)
  <2> DEFINE m == Len(h) - n + 1
  <2>1. g = SubSeq(h, m, Len(h))
    BY <1>3 DEF LastOf
  <2>2. m \in 1 .. Len(h) + 1 /\ Len(h) \in m - 1 .. Len(h) /\ Len(h) - m + 1 = n
    BY <1>1, <1>3
  <2>3. /\ SubSeq(h, m, Len(h)) \in Seq(Messages)
        /\ Len(SubSeq(h, m, Len(h))) = n
        /\ \A i \in 1 .. n : SubSeq(h, m, Len(h))[i] = h[m + i - 1]
    BY <1>1, <2>2, SubSeqProperties
  <2>4. \A i \in 1 .. n : m + i - 1 = i + (Len(h) - n) /\ i + (Len(h) - n) \in 1 .. Len(h)
    BY <1>1, <1>3
  <2> HIDE DEF g, m
  <2> QED
    BY <1>3, <2>1, <2>3, <2>4 DEF g
<1> QED
  BY <1>2, <1>3

LEMMA LastOfTrims ==
  ASSUME NEW h \in Seq(Messages), NEW n \in Nat
  PROVE  Trims(LastOf(h, n), h)
<1> DEFINE g == LastOf(h, n)
           d == Len(h) - Len(g)
<1>1. /\ g \in Seq(Messages) /\ Len(g) = IF Len(h) <= n THEN Len(h) ELSE n
      /\ \A i \in 1 .. Len(g) : i + (Len(h) - Len(g)) \in 1 .. Len(h)
                                /\ g[i] = h[i + (Len(h) - Len(g))]
  BY LastOfIs
<1> HIDE DEF g
<1>2. Len(h) \in Nat /\ Len(g) \in Nat /\ DOMAIN h = 1 .. Len(h) /\ DOMAIN g = 1 .. Len(g)
  BY <1>1
<1>3. d \in Nat /\ Len(g) + d = Len(h)
  BY <1>1, <1>2
<1>4. \A i \in DOMAIN g : i + d \in DOMAIN h /\ g[i] = h[i + d]
  BY <1>1, <1>2
<1> HIDE DEF d
<1> QED
  BY <1>1, <1>3, <1>4 DEF Trims, g

LEMMA TrimsItself ==
  ASSUME NEW h \in Seq(Messages)
  PROVE  Trims(h, h)
<1>1. Len(h) \in Nat /\ DOMAIN h = 1 .. Len(h)
  OBVIOUS
<1>2. Len(h) + 0 = Len(h) /\ \A i \in DOMAIN h : i + 0 \in DOMAIN h /\ h[i] = h[i + 0]
  BY <1>1
<1> QED
  BY <1>2 DEF Trims

LEMMA TrimsTwice ==
  ASSUME NEW f, NEW g, NEW h, Trims(f, g), Trims(g, h)
  PROVE  Trims(f, h)
<1>1. PICK c \in Nat : /\ Len(f) + c = Len(g)
                       /\ \A i \in DOMAIN f : i + c \in DOMAIN g
                                /\ (f[i] = g[i + c] \/ (i = 1 /\ f[1] = Summary))
  BY DEF Trims
<1>2. PICK d \in Nat : /\ Len(g) + d = Len(h)
                       /\ \A i \in DOMAIN g : i + d \in DOMAIN h
                                /\ (g[i] = h[i + d] \/ (i = 1 /\ g[1] = Summary))
  BY DEF Trims
<1>3. f \in Seq(Messages) /\ Len(f) \in Nat /\ DOMAIN f = 1 .. Len(f)
  BY DEF Trims
<1>4. Len(f) + (c + d) = Len(h) /\ c + d \in Nat
  BY <1>1, <1>2, <1>3
<1>5. ASSUME NEW i \in DOMAIN f
      PROVE  i + (c + d) \in DOMAIN h
             /\ (f[i] = h[i + (c + d)] \/ (i = 1 /\ f[1] = Summary))
  <2>1. i + c \in DOMAIN g /\ (i + c) + d = i + (c + d) /\ (i + c = 1 => i = 1)
    BY <1>1, <1>3, <1>5
  <2>2. /\ (i + c) + d \in DOMAIN h
        /\ (g[i + c] = h[(i + c) + d] \/ (i + c = 1 /\ g[1] = Summary))
    BY <1>2, <2>1
  <2> QED
    BY <1>1, <2>1, <2>2
<1> QED
  BY <1>3, <1>4, <1>5 DEF Trims

LEMMA SummarisedTrims ==
  ASSUME NEW h \in Seq(Messages), Len(h) > Budget, NEW g \in Summarised(h)
  PROVE  Trims(g, h)
<1>1. PICK n \in 0 .. Budget - 1 : g = <<Summary>> \o LastOf(h, n)
  BY DEF Summarised
<1> DEFINE l == LastOf(h, n)
<1>2. n \in Nat /\ n < Len(h) /\ Len(h) \in Nat /\ DOMAIN h = 1 .. Len(h)
  BY Limits
<1>3. /\ l \in Seq(Messages) /\ Len(l) = n
      /\ \A i \in 1 .. n : i + (Len(h) - n) \in 1 .. Len(h) /\ l[i] = h[i + (Len(h) - n)]
  <2>1. /\ l \in Seq(Messages) /\ Len(l) = IF Len(h) <= n THEN Len(h) ELSE n
        /\ \A i \in 1 .. Len(l) : i + (Len(h) - Len(l)) \in 1 .. Len(h)
                                  /\ l[i] = h[i + (Len(h) - Len(l))]
    BY <1>2, LastOfIs
  <2> HIDE DEF l
  <2>2. ~(Len(h) <= n)
    BY <1>2
  <2>3. Len(l) = n
    BY <2>1, <2>2
  <2> QED
    BY <2>1, <2>3
<1> HIDE DEF l
<1>4. <<Summary>> \in Seq(Messages) /\ Len(<<Summary>>) = 1 /\ <<Summary>>[1] = Summary
  BY MessagesAre
<1>5. /\ g \in Seq(Messages) /\ Len(g) = 1 + n
      /\ \A i \in 1 .. 1 + n : g[i] = IF i <= 1 THEN <<Summary>>[i] ELSE l[i - 1]
  BY <1>1, <1>3, <1>4, ConcatProperties DEF l
<1> DEFINE d == Len(h) - n - 1
<1>6. d \in Nat /\ Len(g) + d = Len(h) /\ DOMAIN g = 1 .. 1 + n
  BY <1>2, <1>5
<1>7. ASSUME NEW i \in DOMAIN g
      PROVE  i + d \in DOMAIN h /\ (g[i] = h[i + d] \/ (i = 1 /\ g[1] = Summary))
  <2>1. i + d \in DOMAIN h
    BY <1>2, <1>6
  <2>2. CASE i = 1
    <3>1. g[1] = Summary
      BY <1>4, <1>5, <1>6, <2>2
    <3> QED
      BY <2>1, <2>2, <3>1
  <2>3. CASE i # 1
    <3>1. i - 1 \in 1 .. n /\ (i - 1) + (Len(h) - n) = i + d /\ ~(i <= 1)
      BY <1>2, <1>6, <2>3
    <3>2. g[i] = l[i - 1]
      BY <1>5, <1>6, <3>1
    <3> QED
      BY <1>3, <2>1, <3>1, <3>2
  <2> QED
    BY <2>2, <2>3
<1> HIDE DEF d
<1> QED
  BY <1>5, <1>6, <1>7 DEF Trims

\* compact_messages_for_chat, and what of it is replayed.
LEMMA CompactionTrims ==
  ASSUME NEW h \in Seq(Messages)
  PROVE  /\ \A g \in CompactedForChat(h) : Trims(g, h)
         /\ \A g \in Replayed(h) : Trims(g, h)
<1>1. ASSUME NEW g \in CompactedForChat(h) PROVE Trims(g, h)
  <2>1. CASE g = h
    BY <2>1, TrimsItself
  <2>2. CASE g # h
    <3>1. Len(h) > Budget /\ (g \in Summarised(h) \/ g \in Truncated(h))
      <4>1. Len(h) \in Nat
        OBVIOUS
      <4> QED
        BY <1>1, <2>2, <4>1, Limits DEF CompactedForChat
    <3>2. CASE g \in Truncated(h)
      BY <3>2, LastOfTrims, Limits DEF Truncated
    <3> QED
      BY <3>1, <3>2, SummarisedTrims
  <2> QED
    BY <2>1, <2>2
<1>2. ASSUME NEW g \in Replayed(h) PROVE Trims(g, h)
  <2>1. PICK c \in CompactedForChat(h) : g = LastOf(c, ReplayApi)
    BY <1>2 DEF Replayed
  <2>2. Trims(c, h) /\ c \in Seq(Messages)
    BY <1>1 DEF Trims
  <2> QED
    BY <2>1, <2>2, LastOfTrims, TrimsTwice, Limits
<1> QED
  BY <1>1, <1>2

\* The talk of a history that has a summary at most in front: all the rest.
LEMMA TalkIs ==
  ASSUME NEW h \in Seq(Messages), SummaryFirst(h)
  PROVE  /\ Talk(h) \in Seq(Messages)
         /\ \E d \in Nat :
              /\ Len(Talk(h)) + d = Len(h)
              /\ \A i \in DOMAIN Talk(h) : i + d \in DOMAIN h /\ Talk(h)[i] = h[i + d]
                                           /\ h[i + d].role # "system"
              /\ \A i \in DOMAIN h : h[i].role # "system" => i > d
<1> DEFINE N == Len(h)
           Is(f) == f = [n \in 0 .. N |->
                           CASE n = 0 -> <<>>
                             [] n # 0 /\ h[n].role = "system" -> f[n - 1]
                             [] OTHER -> Append(f[n - 1], h[n])]
           talk[n \in 0 .. N] ==
             CASE n = 0 -> <<>>
               [] n # 0 /\ h[n].role = "system" -> talk[n - 1]
               [] OTHER -> Append(talk[n - 1], h[n])
           d == IF N > 0 /\ h[1].role = "system" THEN 1 ELSE 0
           part == [n \in 0 .. N |-> IF n <= d THEN <<>> ELSE SubSeq(h, d + 1, n)]
<1>1. N \in Nat /\ DOMAIN h = 1 .. N /\ d \in {0, 1} /\ (d = 1 => N > 0)
  OBVIOUS
<1>2. /\ \A i \in 1 .. N : h[i].role = "system" <=> i = d
      /\ \A i \in 1 .. N : h[i] \in Messages
  <2>1. \A i \in 1 .. N : h[i].role = "system" => i = 1
    BY <1>1 DEF SummaryFirst
  <2> QED
    BY <1>1, <2>1
<1> HIDE DEF d, N
<1>3. \A n \in 1 .. N : part[n] = IF n <= d THEN <<>> ELSE SubSeq(h, d + 1, n)
  BY <1>1
<1>4. ASSUME NEW n \in 1 .. N, n > d
      PROVE  part[n] = Append(part[n - 1], h[n])
  <2>1. n - 1 \in 0 .. N /\ part[n - 1] = IF n - 1 <= d THEN <<>> ELSE SubSeq(h, d + 1, n - 1)
    BY <1>1, <1>4
  <2>2. part[n] = SubSeq(h, d + 1, n)
    BY <1>1, <1>3, <1>4
  <2> HIDE DEF part
  <2>3. d + 1 \in 1 .. N /\ n \in d + 1 .. N /\ n - 1 \in Nat /\ d + 1 \in Int /\ n - 1 \in Int
    BY <1>1, <1>4
  <2>4. part[n - 1] = SubSeq(h, d + 1, n - 1)
    <3>1. n - 1 <= d => n - 1 < d + 1
      BY <1>1, <2>3
    <3>2. n - 1 <= d => SubSeq(h, d + 1, n - 1) = <<>>
      BY <2>3, <3>1, SubSeqEmpty
    <3> QED
      BY <2>1, <3>2
  <2>5. SubSeq(h, d + 1, n) = SubSeq(h, d + 1, n - 1) \o <<h[n]>>
    BY <2>3, SubSeqRecursiveSecond DEF N
  <2>6. SubSeq(h, d + 1, n - 1) \in Seq(Messages) /\ h[n] \in Messages
    BY <1>1, <1>2, <2>3, SubSeqProperties DEF N
  <2>7. Append(SubSeq(h, d + 1, n - 1), h[n]) = SubSeq(h, d + 1, n - 1) \o <<h[n]>>
    BY <2>6, AppendIsConcat
  <2> QED
    BY <2>2, <2>4, <2>5, <2>7
<1>5. Is(part)
  <2> DEFINE step(n) == CASE n = 0 -> <<>>
                          [] n # 0 /\ h[n].role = "system" -> part[n - 1]
                          [] OTHER -> Append(part[n - 1], h[n])
  <2>1. ASSUME NEW n \in 0 .. N PROVE part[n] = step(n)
    <3>1. CASE n = 0
      BY <1>1, <3>1
    <3>2. CASE n # 0 /\ h[n].role = "system"
      <4>1. n = d /\ n \in 1 .. N /\ n - 1 \in 0 .. N /\ n <= d /\ n - 1 <= d
        BY <1>1, <1>2, <3>2
      <4>2. part[n] = <<>> /\ part[n - 1] = <<>>
        BY <4>1
      <4> HIDE DEF part
      <4> QED
        BY <3>2, <4>2
    <3>3. CASE n # 0 /\ h[n].role # "system"
      <4>1. n \in 1 .. N /\ n # d /\ n > d
        BY <1>1, <1>2, <3>3
      <4>2. part[n] = Append(part[n - 1], h[n])
        BY <1>4, <4>1
      <4> HIDE DEF part
      <4> QED
        BY <3>3, <4>2
    <3> QED
      BY <3>1, <3>2, <3>3
  <2>2. part = [n \in 0 .. N |-> part[n]]
    OBVIOUS
  <2> HIDE DEF part
  <2> QED
    BY <2>1, <2>2
<1> HIDE DEF part
<1>6. Is(talk)
  <2>1. talk = CHOOSE f : Is(f)
    BY DEF talk
  <2> HIDE DEF Is, talk
  <2>2. Is(CHOOSE f : Is(f))
    BY <1>5, Zenon
  <2> QED
    BY <2>1, <2>2
<1>7. Talk(h) = talk[N]
  BY DEF Talk, N
<1> HIDE DEF talk
<1> DEFINE T == {n \in Nat : n <= N => talk[n] = part[n]}
<1>8. 0 \in T
  BY <1>1, <1>5, <1>6
<1>9. ASSUME NEW n \in Nat, n \in T PROVE n + 1 \in T
  <2> SUFFICES ASSUME n + 1 <= N PROVE talk[n + 1] = part[n + 1]
    OBVIOUS
  <2>1. n + 1 \in 0 .. N /\ (n + 1) - 1 = n /\ n <= N /\ talk[n] = part[n] /\ n + 1 # 0
    BY <1>1, <1>9
  <2>2. talk[n + 1] = IF h[n + 1].role = "system" THEN talk[n] ELSE Append(talk[n], h[n + 1])
    BY <1>6, <2>1
  <2>3. part[n + 1] = IF h[n + 1].role = "system" THEN part[n] ELSE Append(part[n], h[n + 1])
    BY <1>5, <2>1
  <2> QED
    BY <2>1, <2>2, <2>3
<1> HIDE DEF T
<1>10. N \in T
  BY <1>1, <1>8, <1>9, NumberInduction
<1>11. Talk(h) = part[N]
  BY <1>1, <1>7, <1>10 DEF T
<1>12. Talk(h) = IF N <= d THEN <<>> ELSE SubSeq(h, d + 1, N)
  BY <1>1, <1>11 DEF part
<1>13. /\ Talk(h) \in Seq(Messages) /\ Len(Talk(h)) = N - d
       /\ \A i \in 1 .. N - d : Talk(h)[i] = h[d + i]
  <2>1. CASE N <= d
    BY <1>1, <1>12, <2>1
  <2>2. CASE ~(N <= d)
    <3>1. d + 1 \in 1 .. N + 1 /\ N \in (d + 1) - 1 .. N /\ N - (d + 1) + 1 = N - d
      BY <1>1, <2>2
    <3>2. /\ SubSeq(h, d + 1, N) \in Seq(Messages) /\ Len(SubSeq(h, d + 1, N)) = N - d
          /\ \A i \in 1 .. N - d : SubSeq(h, d + 1, N)[i] = h[(d + 1) + i - 1]
      BY <3>1, SubSeqProperties DEF N
    <3>3. \A i \in 1 .. N - d : (d + 1) + i - 1 = d + i
      BY <1>1
    <3> QED
      BY <1>12, <2>2, <3>2, <3>3
  <2> QED
    BY <2>1, <2>2
<1> DEFINE g == Talk(h)
<1> HIDE DEF g
<1>14. g \in Seq(Messages) /\ DOMAIN g = 1 .. N - d /\ Len(g) + d = N /\ d \in Nat
  BY <1>1, <1>13 DEF g
<1>15. \A i \in DOMAIN g : i + d \in DOMAIN h /\ g[i] = h[i + d] /\ h[i + d].role # "system"
  <2>1. ASSUME NEW i \in DOMAIN g
        PROVE  i \in 1 .. N - d /\ i + d = d + i /\ i + d \in 1 .. N /\ i + d # d
    BY <1>1, <1>14
  <2>2. \A i \in 1 .. N - d : g[i] = h[d + i]
    BY <1>13 DEF g
  <2> QED
    BY <1>1, <1>2, <2>1, <2>2
<1>16. \A i \in DOMAIN h : h[i].role # "system" => i > d
  BY <1>1, <1>2
<1> QED
  BY <1>14, <1>15, <1>16 DEF g, N

LEMMA Shifted ==
  ASSUME NEW i \in Nat, NEW n \in Nat, NEW l \in Nat, NEW j \in Nat, NEW d \in Nat,
         i < n, i + l + 1 = n + j
  PROVE  i + d < n + d /\ (i + d) + l + 1 = (n + d) + j
OBVIOUS

\* What is cut off a conversation, or summarised, leaves a conversation.
LEMMA ConversationTrims ==
  ASSUME NEW g, NEW h, NEW user, NEW ts \in Seq(TurnRows),
         Conversation(h, user, ts), Trims(g, h)
  PROVE  /\ Conversation(g, user, ts)
         /\ \A t : Unsaid(t, h) => Unsaid(t, g)
<1>1. g \in Seq(Messages) /\ h \in Seq(Messages) /\ SummaryFirst(h)
  BY DEF Trims, Conversation
<1>2. PICK d \in Nat : /\ Len(g) + d = Len(h)
                       /\ \A i \in DOMAIN g : i + d \in DOMAIN h
                                /\ (g[i] = h[i + d] \/ (i = 1 /\ g[1] = Summary))
  BY DEF Trims
<1>3. /\ Len(g) \in Nat /\ DOMAIN g = 1 .. Len(g) /\ DOMAIN h = 1 .. Len(h)
      /\ \A i \in DOMAIN g : g[i] \in Messages
  BY <1>1
<1>4. ASSUME NEW i \in DOMAIN g, g[i].role # "system" \/ i # 1
      PROVE  g[i] = h[i + d]
  <2>1. g[i] = h[i + d] \/ (i = 1 /\ g[1] = Summary)
    BY <1>2
  <2> QED
    BY <1>4, <2>1 DEF Summary
<1>5. SummaryFirst(g)
  <2> SUFFICES ASSUME NEW i \in DOMAIN g, g[i].role = "system", i # 1 PROVE FALSE
    BY DEF SummaryFirst
  <2>1. g[i] = h[i + d] /\ i + d \in DOMAIN h /\ i + d # 1
    BY <1>2, <1>3, <1>4
  <2> QED
    BY <1>1, <2>1 DEF SummaryFirst
<1>6. ASSUME NEW n \in DOMAIN g, g[n].role = "user"
      PROVE  Genuine(g, n, user, ts)
  <2>1. g[n] = h[n + d] /\ n + d \in DOMAIN h
    BY <1>2, <1>4, <1>6
  <2> DEFINE t == g[n].turn
  <2>2. /\ t \in DOMAIN ts /\ ts[t].user = user
        /\ (n + d) + 1 \in DOMAIN h /\ h[(n + d) + 1] = Reply(t)
        /\ \A k \in DOMAIN h : h[k] = g[n] => k = n + d
        /\ ts[t].own \/ Follows(ts[t].seen, h, n + d)
    BY <1>6, <2>1 DEF Conversation, Genuine
  <2> HIDE DEF t
  <2>3. n + 1 \in DOMAIN g /\ n + 1 # 1 /\ (n + 1) + d = (n + d) + 1
    BY <1>2, <1>3, <2>2
  <2>4. g[n + 1] = Reply(t)
    BY <1>4, <2>2, <2>3
  <2>5. ASSUME NEW k \in DOMAIN g, g[k] = g[n] PROVE k = n
    <3>1. g[k] = h[k + d] /\ k + d \in DOMAIN h
      BY <1>2, <1>4, <1>6, <2>5
    <3>2. k + d = n + d
      BY <2>2, <2>5, <3>1
    <3> QED
      BY <1>3, <3>2
  <2>6. ASSUME NEW seen \in Seq(Messages), Follows(seen, h, n + d)
        PROVE  Follows(seen, g, n)
    <3> SUFFICES ASSUME NEW i \in DOMAIN g, NEW j \in DOMAIN seen,
                        i < n, i + Len(seen) + 1 = n + j, g[i].role # "system"
                 PROVE  g[i] = seen[j]
      BY DEF Follows
    <3>1. g[i] = h[i + d] /\ i + d \in DOMAIN h
      BY <1>2, <1>4
    <3>2. Len(seen) \in Nat /\ j \in Nat /\ i \in Nat /\ n \in Nat
      BY <1>3
    <3>3. i + d < n + d /\ (i + d) + Len(seen) + 1 = (n + d) + j
      BY <3>2, Shifted, SMTT(30)
    <3> QED
      BY <2>6, <3>1, <3>3 DEF Follows
  <2>7. ts[t].own \/ Follows(ts[t].seen, g, n)
    <3>1. ts[t] \in TurnRows
      BY <2>2
    <3>2. ts[t].seen \in Seq(Messages)
      BY <3>1 DEF TurnRows
    <3> QED
      BY <2>2, <2>6, <3>2
  <2> QED
    BY <2>2, <2>3, <2>4, <2>5, <2>7 DEF Genuine, t
<1>7. ASSUME NEW t, Unsaid(t, h) PROVE Unsaid(t, g)
  <2> SUFFICES ASSUME NEW n \in DOMAIN g, g[n] = Question(t) PROVE FALSE
    BY DEF Unsaid
  <2>1. Question(t).role # "system"
    BY DEF Question
  <2>2. g[n] = h[n + d] /\ n + d \in DOMAIN h
    BY <1>2, <1>4, <2>1
  <2> QED
    BY <1>7, <2>2 DEF Unsaid
<1> QED
  BY <1>1, <1>5, <1>6, <1>7 DEF Conversation

\* A conversation stays one as long as the turns it is made of do not change.
LEMMA ConversationLater ==
  ASSUME NEW h, NEW user, NEW ts, NEW us, Conversation(h, user, ts),
         \A t \in DOMAIN ts :
           Unsaid(t, h) \/ (/\ t \in DOMAIN us /\ us[t].user = ts[t].user
                            /\ us[t].own = ts[t].own /\ us[t].seen = ts[t].seen)
  PROVE  Conversation(h, user, us)
<1>1. ASSUME NEW n \in DOMAIN h, h[n].role = "user"
      PROVE  Genuine(h, n, user, us)
  <2>1. Genuine(h, n, user, ts) /\ h[n] \in Messages
    BY <1>1 DEF Conversation
  <2>2. ~Unsaid(h[n].turn, h)
    BY <1>1, <2>1, QuestionIs DEF Unsaid
  <2> QED
    BY <2>1, <2>2 DEF Genuine
<1> QED
  BY <1>1 DEF Conversation

\* The question and the answer of a turn join what the turn has loaded.
LEMMA ConversationExtended ==
  ASSUME NEW h, NEW user, NEW ts \in Seq(TurnRows), Conversation(h, user, ts),
         NEW t \in DOMAIN ts, ts[t].user = user, Unsaid(t, h),
         ts[t].own \/ Follows(ts[t].seen, h, Len(h) + 1)
  PROVE  LET g == h \o <<Question(t), Reply(t)>>
         IN  /\ Conversation(g, user, ts)
             /\ \A v \in Nat : v # t /\ Unsaid(v, h) => Unsaid(v, g)
<1> DEFINE two == <<Question(t), Reply(t)>>
           g == h \o two
<1>1. /\ t \in Nat /\ h \in Seq(Messages) /\ SummaryFirst(h)
      /\ Len(h) \in Nat /\ DOMAIN h = 1 .. Len(h)
  BY DEF Conversation
<1>2. /\ two \in Seq(Messages) /\ Len(two) = 2
      /\ two[1] = Question(t) /\ two[2] = Reply(t)
  BY <1>1, MessagesAre
<1> HIDE DEF two
<1>3. /\ g \in Seq(Messages) /\ Len(g) = Len(h) + 2
      /\ \A i \in 1 .. Len(h) + 2 : g[i] = IF i <= Len(h) THEN h[i] ELSE two[i - Len(h)]
  <2>1. h \in Seq(Messages) /\ two \in Seq(Messages) /\ Len(h) + Len(two) = Len(h) + 2
    BY <1>1, <1>2
  <2>2. /\ h \o two \in Seq(Messages) /\ Len(h \o two) = Len(h) + Len(two)
        /\ \A i \in 1 .. Len(h) + Len(two) :
             (h \o two)[i] = IF i <= Len(h) THEN h[i] ELSE two[i - Len(h)]
    BY <2>1, ConcatProperties
  <2> QED
    BY <2>1, <2>2
<1> HIDE DEF g
<1>4. DOMAIN g = 1 .. Len(h) + 2 /\ \A i \in DOMAIN h : i \in DOMAIN g /\ g[i] = h[i]
  BY <1>1, <1>3
<1>5. g[Len(h) + 1] = Question(t) /\ g[Len(h) + 2] = Reply(t)
  <2>1. /\ Len(h) + 1 \in 1 .. Len(h) + 2 /\ ~(Len(h) + 1 <= Len(h)) /\ (Len(h) + 1) - Len(h) = 1
        /\ Len(h) + 2 \in 1 .. Len(h) + 2 /\ ~(Len(h) + 2 <= Len(h)) /\ (Len(h) + 2) - Len(h) = 2
    BY <1>1
  <2> QED
    BY <1>2, <1>3, <2>1
<1>6. \A i \in DOMAIN g : i \in DOMAIN h \/ i = Len(h) + 1 \/ i = Len(h) + 2
  BY <1>1, <1>4
<1>7. /\ Question(t).role = "user" /\ Reply(t).role = "assistant"
      /\ Question(t).turn = t /\ Question(t) # Reply(t)
  BY DEF Question, Reply
<1>8. SummaryFirst(g)
  BY <1>1, <1>4, <1>5, <1>6, <1>7 DEF SummaryFirst
<1>9. ASSUME NEW n \in DOMAIN g, g[n].role = "user"
      PROVE  Genuine(g, n, user, ts)
  <2>1. CASE n = Len(h) + 1
    <3>1. ASSUME NEW k \in DOMAIN g, g[k] = g[n] PROVE k = n
      BY <1>4, <1>5, <1>6, <1>7, <2>1, <3>1 DEF Unsaid
    <3>2. ts[t].own \/ Follows(ts[t].seen, g, n)
      <4>1. ASSUME Follows(ts[t].seen, h, n) PROVE Follows(ts[t].seen, g, n)
        <5>1. \A i \in DOMAIN g : i < n => i \in DOMAIN h
          BY <1>1, <1>4, <2>1
        <5> QED
          BY <1>4, <4>1, <5>1 DEF Follows
      <4> QED
        BY <2>1, <4>1
    <3>3. n + 1 \in DOMAIN g /\ n + 1 = Len(h) + 2
      BY <1>1, <1>4, <2>1
    <3> QED
      BY <1>5, <1>7, <2>1, <3>1, <3>2, <3>3 DEF Genuine
  <2>2. CASE n \in DOMAIN h
    <3>1. g[n] = h[n] /\ Genuine(h, n, user, ts) /\ h[n] \in Messages
      BY <1>1, <1>4, <1>9, <2>2 DEF Conversation
    <3>2. h[n] = Question(h[n].turn) /\ h[n] # Question(t)
      BY <1>9, <2>2, <3>1, QuestionIs DEF Unsaid
    <3>3. \A k \in DOMAIN g : g[k] = g[n] => k = n
      <4>1. \A k \in DOMAIN h : h[k] = h[n] => k = n
        BY <3>1 DEF Genuine
      <4>2. h[n] # Reply(t)
        BY <1>7, <1>9, <3>1
      <4> QED
        BY <1>4, <1>5, <1>6, <3>1, <3>2, <4>1, <4>2
    <3>4. n + 1 \in DOMAIN g /\ g[n + 1] = Reply(h[n].turn)
      BY <1>4, <3>1 DEF Genuine
    <3>5. ASSUME NEW seen, Follows(seen, h, n) PROVE Follows(seen, g, n)
      <4>1. \A i \in DOMAIN g : i < n => i \in DOMAIN h
        BY <1>1, <1>4, <2>2
      <4> QED
        BY <1>4, <3>5, <4>1 DEF Follows
    <3> QED
      BY <3>1, <3>3, <3>4, <3>5 DEF Genuine
  <2> QED
    BY <1>5, <1>6, <1>7, <1>9, <2>1, <2>2
<1>10. ASSUME NEW v \in Nat, v # t, Unsaid(v, h) PROVE Unsaid(v, g)
  <2>1. Question(v) # Question(t) /\ Question(v) # Reply(t)
    BY <1>1, <1>10 DEF Question, Reply
  <2> QED
    BY <1>4, <1>5, <1>6, <1>10, <2>1 DEF Unsaid
<1> QED
  BY <1>3, <1>8, <1>9, <1>10 DEF Conversation, g, two

\* A turn that sees the talk of a trimmed history sees the end of that history.
LEMMA TalkFollows ==
  ASSUME NEW h \in Seq(Messages), SummaryFirst(h), NEW g, Trims(g, h), SummaryFirst(g)
  PROVE  Talk(g) \in Seq(Messages) /\ Follows(Talk(g), h, Len(h) + 1)
<1> DEFINE seen == Talk(g)
<1>1. g \in Seq(Messages)
  BY DEF Trims
<1>2. PICK c \in Nat :
        /\ Len(seen) + c = Len(g)
        /\ \A i \in DOMAIN seen : i + c \in DOMAIN g /\ seen[i] = g[i + c]
                                   /\ g[i + c].role # "system"
  BY <1>1, TalkIs
<1>3. seen \in Seq(Messages)
  BY <1>1, TalkIs
<1> HIDE DEF seen
<1>4. PICK d \in Nat : /\ Len(g) + d = Len(h)
                       /\ \A i \in DOMAIN g : i + d \in DOMAIN h
                                /\ (g[i] = h[i + d] \/ (i = 1 /\ g[1] = Summary))
  BY DEF Trims
<1>5. Len(seen) \in Nat /\ DOMAIN seen = 1 .. Len(seen) /\ DOMAIN h = 1 .. Len(h)
  BY <1>3
<1>6. ASSUME NEW i \in DOMAIN h, NEW j \in DOMAIN seen,
             i + Len(seen) + 1 = (Len(h) + 1) + j
      PROVE  h[i] = seen[j]
  <2>1. seen[j] = g[j + c] /\ j + c \in DOMAIN g /\ g[j + c].role # "system"
    BY <1>2
  <2>2. g[j + c] = h[(j + c) + d]
    BY <1>4, <2>1 DEF Summary
  <2>3. /\ i \in Nat /\ j \in Nat /\ Len(g) \in Nat /\ Len(h) \in Nat
        /\ Len(seen) + c = Len(g) /\ Len(g) + d = Len(h)
    BY <1>1, <1>2, <1>4, <1>5, SMTT(30)
  <2>4. (j + c) + d = i
    BY <1>5, <1>6, <2>3, SMTT(30)
  <2> QED
    BY <2>1, <2>2, <2>4
<1> QED
  BY <1>3, <1>6 DEF Follows, seen

LEMMA SuffixIs ==
  ASSUME NEW s \in Seq(Messages), NEW t \in Seq(Messages), Len(s) <= Len(t),
         \A i \in DOMAIN s, j \in DOMAIN t : i + Len(t) = j + Len(s) => s[i] = t[j]
  PROVE  IsSuffix(s, t)
<1> DEFINE n == Len(s)
           a == Reverse(s)
           b == Reverse(t)
<1>1. /\ n \in Nat /\ Len(t) \in Nat /\ n <= Len(t)
      /\ DOMAIN s = 1 .. n /\ DOMAIN t = 1 .. Len(t)
  OBVIOUS
<1>2. /\ a \in [1 .. n -> Messages] /\ b \in [1 .. Len(t) -> Messages]
      /\ \A i \in 1 .. n : a[i] = s[(n - i) + 1]
      /\ \A i \in 1 .. Len(t) : b[i] = t[(Len(t) - i) + 1]
  BY <1>1 DEF Reverse
<1> HIDE DEF a, b, n
<1>3. a \in Seq(Messages) /\ b \in Seq(Messages) /\ Len(a) = n /\ Len(b) = Len(t)
  <2>1. ASSUME NEW f, NEW m \in Nat, f \in [1 .. m -> Messages]
        PROVE  f \in Seq(Messages) /\ Len(f) = m
    BY <2>1, IsASeq
  <2> QED
    BY <1>1, <1>2, <2>1
<1>4. ASSUME NEW i \in 1 .. n PROVE a[i] = b[i]
  <2>1. /\ i \in 1 .. Len(t) /\ (n - i) + 1 \in 1 .. n /\ (Len(t) - i) + 1 \in 1 .. Len(t)
        /\ ((n - i) + 1) + Len(t) = ((Len(t) - i) + 1) + n
    BY <1>1
  <2>2. s[(n - i) + 1] = t[(Len(t) - i) + 1]
    BY <1>1, <2>1 DEF n
  <2> QED
    BY <1>2, <2>1, <2>2
<1>5. /\ SubSeq(a, 1, n) \in Seq(Messages) /\ Len(SubSeq(a, 1, n)) = n
      /\ \A i \in 1 .. n : SubSeq(a, 1, n)[i] = a[i]
  <2>1. 1 \in 1 .. Len(a) + 1 /\ n \in 1 - 1 .. Len(a) /\ n - 1 + 1 = n
        /\ \A i \in 1 .. n : 1 + i - 1 = i
    BY <1>1, <1>3
  <2> QED
    BY <1>3, <2>1, SubSeqProperties
<1>6. /\ SubSeq(b, 1, n) \in Seq(Messages) /\ Len(SubSeq(b, 1, n)) = n
      /\ \A i \in 1 .. n : SubSeq(b, 1, n)[i] = b[i]
  <2>1. 1 \in 1 .. Len(b) + 1 /\ n \in 1 - 1 .. Len(b) /\ n - 1 + 1 = n
        /\ \A i \in 1 .. n : 1 + i - 1 = i
    BY <1>1, <1>3
  <2> QED
    BY <1>3, <2>1, SubSeqProperties
<1>7. SubSeq(a, 1, n) = SubSeq(b, 1, n)
  BY <1>4, <1>5, <1>6, SeqEqual
<1> QED
  BY <1>1, <1>3, <1>7 DEF IsSuffix, IsPrefix, a, b, n

\* What stands before a question of a conversation and what its turn has seen agree
\* as far back as both reach.
LEMMA SeenIsBefore ==
  ASSUME NEW h \in Seq(Messages), SummaryFirst(h), NEW n \in DOMAIN h,
         NEW seen \in Seq(Messages), Follows(seen, h, n)
  PROVE  LET before == Talk(SubSeq(h, 1, n - 1))
         IN  IsSuffix(before, seen) \/ IsSuffix(seen, before)
<1> DEFINE g == SubSeq(h, 1, n - 1)
           before == Talk(g)
<1>1. Len(h) \in Nat /\ DOMAIN h = 1 .. Len(h) /\ n \in Nat
  OBVIOUS
<1>2. g \in Seq(Messages) /\ Len(g) = n - 1 /\ \A i \in 1 .. n - 1 : g[i] = h[i]
  <2>1. 1 \in 1 .. Len(h) + 1 /\ n - 1 \in 1 - 1 .. Len(h) /\ (n - 1) - 1 + 1 = n - 1
        /\ \A i \in 1 .. n - 1 : 1 + i - 1 = i
    BY <1>1
  <2> QED
    BY <2>1, SubSeqProperties
<1> HIDE DEF g
<1>3. DOMAIN g = 1 .. n - 1 /\ \A i \in 1 .. n - 1 : i \in DOMAIN h /\ i < n
  BY <1>1, <1>2
<1>4. SummaryFirst(g)
  BY <1>2, <1>3 DEF SummaryFirst
<1>5. before \in Seq(Messages)
  BY <1>2, <1>4, TalkIs
<1>6. PICK c \in Nat :
        /\ Len(before) + c = Len(g)
        /\ \A i \in DOMAIN before : i + c \in DOMAIN g /\ before[i] = g[i + c]
                                     /\ g[i + c].role # "system"
  BY <1>2, <1>4, TalkIs
<1> HIDE DEF before
<1>7. Len(before) \in Nat /\ Len(seen) \in Nat /\ DOMAIN before = 1 .. Len(before)
      /\ DOMAIN seen = 1 .. Len(seen)
  BY <1>5
<1>8. ASSUME NEW i \in DOMAIN before, NEW j \in DOMAIN seen,
             i + Len(seen) = j + Len(before)
      PROVE  before[i] = seen[j]
  <2>1. /\ before[i] = h[i + c] /\ i + c \in DOMAIN h /\ i + c < n
        /\ h[i + c].role # "system"
    BY <1>2, <1>3, <1>6
  <2>2. i \in Nat /\ j \in Nat /\ Len(before) + c = n - 1
    BY <1>2, <1>6, <1>7
  <2>3. (i + c) + Len(seen) + 1 = n + j
    BY <1>1, <1>7, <1>8, <2>2, SMTT(30)
  <2> QED
    BY <2>1, <2>3 DEF Follows
<1>9. CASE Len(before) <= Len(seen)
  BY <1>5, <1>8, <1>9, SuffixIs DEF before, g
<1>10. CASE ~(Len(before) <= Len(seen))
  <2>1. Len(seen) <= Len(before)
    BY <1>7, <1>10
  <2>2. \A j \in DOMAIN seen, i \in DOMAIN before :
          j + Len(before) = i + Len(seen) => seen[j] = before[i]
    BY <1>8
  <2> QED
    BY <1>5, <2>1, <2>2, SuffixIs DEF before, g
<1> QED
  BY <1>9, <1>10

LEMMA ChatInvReal == ChatInv => HistoriesAreReal
<1> SUFFICES ASSUME ChatInv, NEW i \in DOMAIN rows, NEW n \in DOMAIN rows[i].msgs,
                    rows[i].msgs[n].role = "user"
             PROVE  LET msgs   == rows[i].msgs
                        t      == msgs[n].turn
                        before == Talk(SubSeq(msgs, 1, n - 1))
                    IN  /\ turns[t].user = rows[i].user
                        /\ n < Len(msgs) /\ msgs[n + 1] = Reply(t)
                        /\ \A k \in DOMAIN msgs \ {n} : msgs[k] # Question(t)
                        /\ \/ turns[t].own
                           \/ IsSuffix(before, turns[t].seen)
                           \/ IsSuffix(turns[t].seen, before)
  BY DEF HistoriesAreReal
<1> DEFINE h == rows[i].msgs
           t == h[n].turn
<1>1. Conversation(h, rows[i].user, turns) /\ turns \in Seq(TurnRows)
  BY DEF ChatInv, RowsOK, TurnsOK
<1> HIDE DEF h
<1>2. /\ h \in Seq(Messages) /\ SummaryFirst(h) /\ n \in DOMAIN h
      /\ h[n] \in Messages /\ h[n].role = "user"
      /\ Genuine(h, n, rows[i].user, turns)
  BY <1>1 DEF Conversation, h
<1>3. /\ t \in DOMAIN turns /\ turns[t].user = rows[i].user
      /\ n + 1 \in DOMAIN h /\ h[n + 1] = Reply(t)
      /\ \A k \in DOMAIN h : h[k] = h[n] => k = n
      /\ turns[t].own \/ Follows(turns[t].seen, h, n)
  BY <1>2 DEF Genuine
<1>4. h[n] = Question(t)
  BY <1>2, QuestionIs
<1> HIDE DEF t
<1>5. n < Len(h)
  BY <1>2, <1>3
<1>6. turns[t] \in TurnRows
  BY <1>1, <1>3
<1>7. turns[t].seen \in Seq(Messages)
  BY <1>6 DEF TurnRows
<1>8. turns[t].own \/ LET before == Talk(SubSeq(h, 1, n - 1))
                      IN  IsSuffix(before, turns[t].seen) \/ IsSuffix(turns[t].seen, before)
  BY <1>2, <1>3, <1>7, SeenIsBefore
<1> QED
  BY <1>3, <1>4, <1>5, <1>8 DEF h, t

\* A history that may be kept after a step: a conversation of the turns before the
\* step, without the question of a turn that is still early after it.
Keepable(h, user) ==
  /\ Conversation(h, user, turns)
  /\ \A v \in DOMAIN turns : turns'[v].pc \in Early => Unsaid(v, h)

\* What a step may do to a turn.
Moves(t) ==
  /\ turns'[t].user = turns[t].user /\ turns'[t].own = turns[t].own
  /\ turns'[t].seen = turns[t].seen \/ turns'[t].pc \in Early
  /\ turns'[t].pc \in Early => turns[t].pc \in Early

\* Every step keeps the invariant in this way.
LEMMA ChatMoves ==
  ASSUME ChatInv, turns' \in Seq(TurnRows), DOMAIN turns \subseteq DOMAIN turns',
         \A t \in DOMAIN turns : Moves(t),
         \A t \in DOMAIN turns' : Placed(t, turns') /\ Keepable(turns'[t].base, turns'[t].user),
         rows' \in [DOMAIN rows' -> ChatRows], DOMAIN rows' \subseteq DOMAIN turns',
         \A i \in DOMAIN rows' : rows'[i].user = turns'[i].user
                                 /\ Keepable(rows'[i].msgs, rows'[i].user)
  PROVE  ChatInv'
<1>1. turns \in Seq(TurnRows)
  BY DEF ChatInv, TurnsOK
<1>2. ASSUME NEW h, NEW user, Keepable(h, user)
      PROVE  /\ Conversation(h, user, turns')
             /\ \A v \in DOMAIN turns' : turns'[v].pc \in Early => Unsaid(v, h)
  <2>1. Conversation(h, user, turns)
    BY <1>2 DEF Keepable
  <2>2. \A t \in DOMAIN turns :
          Unsaid(t, h) \/ (/\ t \in DOMAIN turns' /\ turns'[t].user = turns[t].user
                           /\ turns'[t].own = turns[t].own /\ turns'[t].seen = turns[t].seen)
    BY <1>2 DEF Keepable, Moves
  <2>3. Conversation(h, user, turns')
    BY <2>1, <2>2, ConversationLater
  <2>4. ASSUME NEW v \in DOMAIN turns', v \notin DOMAIN turns PROVE Unsaid(v, h)
    <3> SUFFICES ASSUME NEW n \in DOMAIN h, h[n] = Question(v) PROVE FALSE
      BY DEF Unsaid
    <3>1. h[n].role = "user" /\ h[n].turn = v
      BY DEF Question
    <3>2. Genuine(h, n, user, turns)
      BY <2>1, <3>1 DEF Conversation
    <3> QED
      BY <2>4, <3>1, <3>2 DEF Genuine
  <2>5. \A v \in DOMAIN turns : turns'[v].pc \in Early => Unsaid(v, h)
    BY <1>2 DEF Keepable
  <2> QED
    BY <2>3, <2>4, <2>5
<1>3. TurnsOK'
  BY <1>2 DEF TurnsOK
<1>4. RowsOK'
  BY <1>2 DEF RowsOK
<1> QED
  BY <1>3, <1>4 DEF ChatInv

\* What the invariant says of a turn and of a row.
LEMMA TurnOf ==
  ASSUME ChatInv, NEW t \in DOMAIN turns
  PROVE  /\ turns \in Seq(TurnRows) /\ DOMAIN turns = 1 .. Len(turns) /\ t \in Nat
         /\ turns[t] \in TurnRows /\ Placed(t, turns)
         /\ Conversation(turns[t].base, turns[t].user, turns)
         /\ \A v \in DOMAIN turns : turns[v].pc \in Early => Unsaid(v, turns[t].base)
<1>1. turns \in Seq(TurnRows)
  BY DEF ChatInv, TurnsOK
<1>2. DOMAIN turns = 1 .. Len(turns) /\ Len(turns) \in Nat /\ turns[t] \in TurnRows
  BY <1>1
<1> QED
  BY <1>1, <1>2 DEF ChatInv, TurnsOK

LEMMA RowOf ==
  ASSUME ChatInv, NEW i \in DOMAIN rows
  PROVE  /\ i \in DOMAIN turns /\ rows[i] \in ChatRows /\ rows[i].user = turns[i].user
         /\ Conversation(rows[i].msgs, rows[i].user, turns)
         /\ \A v \in DOMAIN turns : turns[v].pc \in Early => Unsaid(v, rows[i].msgs)
BY DEF ChatInv, RowsOK

\* A step of one turn, which leaves the rows alone or replaces some of them.
LEMMA OneTurnMoves ==
  ASSUME ChatInv, NEW t \in DOMAIN turns, NEW r \in TurnRows,
         turns' = [turns EXCEPT ![t] = r],
         r.user = turns[t].user, r.own = turns[t].own, r.given = turns[t].given,
         r.seen = turns[t].seen \/ r.pc \in Early, r.pc # "load",
         r.pc \in Early => turns[t].pc \in Early,
         r.row # NoRow => r.row \in DOMAIN turns /\ turns[r.row].user = r.user,
         r.pc \in {"run", "persist"} /\ ~r.own => Follows(r.seen, r.base, Len(r.base) + 1),
         Conversation(r.base, r.user, turns),
         \A v \in DOMAIN turns : turns[v].pc \in Early => Unsaid(v, r.base),
         rows' \in [DOMAIN rows' -> ChatRows], DOMAIN rows' \subseteq DOMAIN turns,
         \A i \in DOMAIN rows' :
           (rows'[i] = rows[i] /\ i \in DOMAIN rows)
           \/ (rows'[i].user = turns[i].user /\ Keepable(rows'[i].msgs, rows'[i].user))
  PROVE  ChatInv'
<1>1. turns \in Seq(TurnRows) /\ \A v \in DOMAIN turns : turns[v] \in TurnRows
  BY TurnOf
<1>2. /\ turns' \in Seq(TurnRows) /\ DOMAIN turns' = DOMAIN turns
      /\ turns'[t] = r /\ \A v \in DOMAIN turns : v # t => turns'[v] = turns[v]
  BY <1>1
<1>3. \A v \in DOMAIN turns : Moves(v) /\ turns'[v].user = turns[v].user
                              /\ (turns'[v].pc \in Early => turns[v].pc \in Early)
  BY <1>2 DEF Moves
<1>4. ASSUME NEW v \in DOMAIN turns'
      PROVE  Placed(v, turns') /\ Keepable(turns'[v].base, turns'[v].user)
  <2>1. Placed(v, turns) /\ Placed(t, turns)
    BY <1>2, TurnOf
  <2>2. CASE v = t
    BY <1>2, <1>3, <2>1, <2>2 DEF Placed, Keepable
  <2>3. CASE v # t
    <3>1. Conversation(turns[v].base, turns[v].user, turns)
          /\ \A w \in DOMAIN turns : turns[w].pc \in Early => Unsaid(w, turns[v].base)
      BY <1>2, TurnOf
    <3>2. Placed(v, turns')
      BY <1>2, <1>3, <2>1, <2>3 DEF Placed
    <3> QED
      BY <1>2, <1>3, <2>3, <3>1, <3>2 DEF Keepable
  <2> QED
    BY <2>2, <2>3
<1>5. ASSUME NEW i \in DOMAIN rows'
      PROVE  rows'[i].user = turns'[i].user /\ Keepable(rows'[i].msgs, rows'[i].user)
  <2>1. CASE rows'[i] = rows[i] /\ i \in DOMAIN rows
    BY <1>3, <2>1, RowOf DEF Keepable
  <2>2. CASE rows'[i].user = turns[i].user /\ Keepable(rows'[i].msgs, rows'[i].user)
    BY <1>3, <2>2
  <2> QED
    BY <2>1, <2>2
<1> QED
  BY <1>2, <1>3, <1>4, <1>5, ChatMoves

\* The same, with the rows left alone.
LEMMA TurnAloneMoves ==
  ASSUME ChatInv, UNCHANGED rows, NEW t \in DOMAIN turns, NEW r \in TurnRows,
         turns' = [turns EXCEPT ![t] = r],
         r.user = turns[t].user, r.own = turns[t].own, r.given = turns[t].given,
         r.seen = turns[t].seen \/ r.pc \in Early, r.pc # "load",
         r.pc \in Early => turns[t].pc \in Early,
         r.row # NoRow => r.row \in DOMAIN turns /\ turns[r.row].user = r.user,
         r.pc \in {"run", "persist"} /\ ~r.own => Follows(r.seen, r.base, Len(r.base) + 1),
         Conversation(r.base, r.user, turns),
         \A v \in DOMAIN turns : turns[v].pc \in Early => Unsaid(v, r.base)
  PROVE  ChatInv'
<1>1. /\ rows' \in [DOMAIN rows' -> ChatRows] /\ DOMAIN rows' \subseteq DOMAIN turns
      /\ \A i \in DOMAIN rows' : rows'[i] = rows[i] /\ i \in DOMAIN rows
  BY DEF ChatInv, RowsOK
<1>2. \A i \in DOMAIN rows' :
        (rows'[i] = rows[i] /\ i \in DOMAIN rows)
        \/ (rows'[i].user = turns[i].user /\ Keepable(rows'[i].msgs, rows'[i].user))
  BY <1>1
<1> QED
  BY <1>1, <1>2, OneTurnMoves

\* A turn without a history, and one that keeps what it has loaded.
LEMMA NothingSaid ==
  ASSUME NEW user, NEW ts
  PROVE  Conversation(<<>>, user, ts) /\ \A v : Unsaid(v, <<>>)
BY DEF Conversation, Unsaid, SummaryFirst

LEMMA ChatStart == ChatInit => ChatInv
<1> SUFFICES ASSUME ChatInit PROVE ChatInv
  OBVIOUS
<1>1. rows = <<>> /\ turns = <<>> /\ DOMAIN rows = {} /\ DOMAIN turns = {}
  BY DEF ChatInit
<1>2. turns \in Seq(TurnRows) /\ rows \in [DOMAIN rows -> ChatRows]
  BY <1>1
<1> QED
  BY <1>1, <1>2 DEF ChatInv, TurnsOK, RowsOK

\* A turn goes on without touching its history.
LEMMA GoesKeeps ==
  ASSUME ChatInv, UNCHANGED rows, NEW t \in DOMAIN turns,
         NEW stage \in Stages \ {"load"}, Goes(t, stage),
         stage \in Early => turns[t].pc \in Early,
         stage \in {"run", "persist"} => turns[t].pc \in {"run", "persist"} \/ turns[t].base = <<>>
  PROVE  ChatInv'
<1> DEFINE r == [turns[t] EXCEPT !.pc = stage]
<1>1. turns[t] \in TurnRows /\ Placed(t, turns)
  BY TurnOf
<1>2. /\ r \in TurnRows /\ r.pc = stage /\ r.user = turns[t].user /\ r.own = turns[t].own
      /\ r.given = turns[t].given /\ r.seen = turns[t].seen /\ r.row = turns[t].row
      /\ r.base = turns[t].base
  BY <1>1 DEF TurnRows
<1>3. turns' = [turns EXCEPT ![t] = r]
  BY DEF Goes
<1> HIDE DEF r
<1>4. r.pc \in {"run", "persist"} /\ ~r.own => Follows(r.seen, r.base, Len(r.base) + 1)
  <2>1. turns[t].base = <<>> => Follows(turns[t].seen, turns[t].base, Len(turns[t].base) + 1)
    BY DEF Follows
  <2> QED
    BY <1>1, <1>2, <2>1 DEF Placed
<1>5. r.row # NoRow => r.row \in DOMAIN turns /\ turns[r.row].user = r.user
  BY <1>1, <1>2 DEF Placed
<1>6. /\ Conversation(r.base, r.user, turns)
      /\ \A v \in DOMAIN turns : turns[v].pc \in Early => Unsaid(v, r.base)
  BY <1>2, TurnOf
<1> QED
  BY <1>2, <1>3, <1>4, <1>5, <1>6, TurnAloneMoves

\* A turn whose query fails, or finds nothing, starts without a history.
LEMMA LoadsNothing ==
  ASSUME ChatInv, UNCHANGED rows, NEW t \in DOMAIN turns, turns[t].pc = "load",
         Goes(t, "run")
  PROVE  ChatInv'
<1>1. turns[t].base = <<>>
  BY TurnOf DEF Placed
<1>2. "run" \in Stages \ {"load"} /\ turns[t].pc \in Early
  BY DEF Stages, Early
<1> QED
  BY <1>1, <1>2, GoesKeeps

\* A turn is over with its history.
LEMMA LeavesKeeps ==
  ASSUME ChatInv, NEW t \in DOMAIN turns, NEW stage \in Stages \ Early, Leaves(t, stage),
         rows' \in [DOMAIN rows' -> ChatRows], DOMAIN rows' \subseteq DOMAIN turns,
         \A i \in DOMAIN rows' :
           (rows'[i] = rows[i] /\ i \in DOMAIN rows)
           \/ (rows'[i].user = turns[i].user /\ Keepable(rows'[i].msgs, rows'[i].user))
  PROVE  ChatInv'
<1> DEFINE r == [turns[t] EXCEPT !.pc = stage, !.base = <<>>]
<1>1. turns[t] \in TurnRows /\ Placed(t, turns) /\ <<>> \in Seq(Messages)
  BY TurnOf
<1>2. /\ r \in TurnRows /\ r.pc = stage /\ r.user = turns[t].user /\ r.own = turns[t].own
      /\ r.given = turns[t].given /\ r.seen = turns[t].seen /\ r.row = turns[t].row
      /\ r.base = <<>>
  BY <1>1 DEF TurnRows, Stages
<1>3. turns' = [turns EXCEPT ![t] = r]
  BY DEF Leaves
<1> HIDE DEF r
<1>4. r.pc \notin {"run", "persist"} /\ r.pc \notin Early /\ r.pc # "load"
  BY <1>2 DEF Early
<1>5. r.row # NoRow => r.row \in DOMAIN turns /\ turns[r.row].user = r.user
  BY <1>1, <1>2 DEF Placed
<1>6. /\ Conversation(r.base, r.user, turns)
      /\ \A v \in DOMAIN turns : turns[v].pc \in Early => Unsaid(v, r.base)
  BY <1>2, NothingSaid
<1> QED
  BY <1>2, <1>3, <1>4, <1>5, <1>6, OneTurnMoves

LEMMA LeavesAlone ==
  ASSUME ChatInv, UNCHANGED rows, NEW t \in DOMAIN turns, NEW stage \in Stages \ Early,
         Leaves(t, stage)
  PROVE  ChatInv'
<1>1. /\ rows' \in [DOMAIN rows' -> ChatRows] /\ DOMAIN rows' \subseteq DOMAIN turns
      /\ \A i \in DOMAIN rows' : rows'[i] = rows[i] /\ i \in DOMAIN rows
  BY DEF ChatInv, RowsOK
<1>2. \A i \in DOMAIN rows' :
        (rows'[i] = rows[i] /\ i \in DOMAIN rows)
        \/ (rows'[i].user = turns[i].user /\ Keepable(rows'[i].msgs, rows'[i].user))
  BY <1>1
<1> QED
  BY <1>1, <1>2, LeavesKeeps

\* A turn gives up, with the row and the history it has loaded.
LEMMA DroppedKeeps ==
  ASSUME ChatInv, UNCHANGED rows, NEW t \in DOMAIN turns,
         turns' = [turns EXCEPT ![t] = Dropped(@, "gone")]
  PROVE  ChatInv'
<1> DEFINE r == Dropped(turns[t], "gone")
<1>1. turns[t] \in TurnRows /\ <<>> \in Seq(Messages)
  BY TurnOf
<1>2. /\ r \in TurnRows /\ r.pc = "gone" /\ r.user = turns[t].user /\ r.own = turns[t].own
      /\ r.given = turns[t].given /\ r.seen = turns[t].seen /\ r.row = NoRow
      /\ r.base = <<>>
  BY <1>1 DEF TurnRows, Stages, Dropped, NoRow
<1>3. turns' = [turns EXCEPT ![t] = r]
  OBVIOUS
<1> HIDE DEF r
<1>4. r.pc \notin {"run", "persist"} /\ r.pc \notin Early /\ r.pc # "load"
  BY <1>2 DEF Early
<1>5. /\ Conversation(r.base, r.user, turns)
      /\ \A v \in DOMAIN turns : turns[v].pc \in Early => Unsaid(v, r.base)
  BY <1>2, NothingSaid
<1> QED
  BY <1>2, <1>3, <1>4, <1>5, TurnAloneMoves

\* A turn loads the row of its user: the history g that it will extend, and the talk
\* of some end of it.
LEMMA LoadKeeps ==
  ASSUME ChatInv, UNCHANGED rows, NEW t \in DOMAIN turns, turns[t].pc = "load",
         NEW i \in DOMAIN rows, rows[i].user = turns[t].user,
         NEW g, Trims(g, rows[i].msgs), NEW seen \in Seq(Messages),
         turns[t].own \/ Follows(seen, g, Len(g) + 1),
         turns' = [turns EXCEPT ![t] = [@ EXCEPT
                     !.pc = "run", !.row = i, !.base = g, !.seen = seen]]
  PROVE  ChatInv'
<1> DEFINE r == [turns[t] EXCEPT !.pc = "run", !.row = i, !.base = g, !.seen = seen]
<1>1. /\ turns[t] \in TurnRows /\ turns \in Seq(TurnRows) /\ DOMAIN turns = 1 .. Len(turns)
      /\ g \in Seq(Messages)
  BY TurnOf DEF Trims
<1>2. /\ i \in DOMAIN turns /\ i \in Nat /\ rows[i].user = turns[i].user
      /\ Conversation(rows[i].msgs, rows[i].user, turns)
      /\ \A v \in DOMAIN turns : turns[v].pc \in Early => Unsaid(v, rows[i].msgs)
  BY <1>1, RowOf
<1>3. /\ r \in TurnRows /\ r.pc = "run" /\ r.user = turns[t].user /\ r.own = turns[t].own
      /\ r.given = turns[t].given /\ r.seen = seen /\ r.row = i /\ r.base = g
  BY <1>1, <1>2 DEF TurnRows, Stages, Early
<1>4. turns' = [turns EXCEPT ![t] = r]
  OBVIOUS
<1> HIDE DEF r
<1>5. /\ Conversation(r.base, r.user, turns)
      /\ \A v \in DOMAIN turns : turns[v].pc \in Early => Unsaid(v, r.base)
  BY <1>1, <1>2, <1>3, ConversationTrims
<1>6. r.pc \in Early /\ turns[t].pc \in Early
  BY <1>3 DEF Early
<1>7. r.pc \in {"run", "persist"} /\ ~r.own => Follows(r.seen, r.base, Len(r.base) + 1)
  BY <1>3
<1>8. r.row # NoRow => r.row \in DOMAIN turns /\ turns[r.row].user = r.user
  BY <1>2, <1>3
<1> QED
  BY <1>3, <1>4, <1>5, <1>6, <1>7, <1>8, TurnAloneMoves

\* A message or a request comes.
LEMMA ComesKeeps ==
  ASSUME ChatInv, UNCHANGED rows, NEW r \in TurnRows, turns' = Append(turns, r),
         r.pc = "load", r.row = NoRow, r.base = <<>>,
         r.given # NoRow => r.given \in DOMAIN turns /\ turns[r.given].user = r.user
  PROVE  ChatInv'
<1> DEFINE n == Len(turns) + 1
<1>1. turns \in Seq(TurnRows) /\ Len(turns) \in Nat /\ DOMAIN turns = 1 .. Len(turns)
  BY DEF ChatInv, TurnsOK
<1>2. /\ turns' \in Seq(TurnRows) /\ DOMAIN turns' = 1 .. n /\ turns'[n] = r
      /\ n \notin DOMAIN turns /\ DOMAIN turns \subseteq DOMAIN turns'
      /\ \A t \in DOMAIN turns : turns'[t] = turns[t]
      /\ \A t \in DOMAIN turns' : t \in DOMAIN turns \/ t = n
  BY <1>1
<1> HIDE DEF n
<1>3. \A t \in DOMAIN turns : Moves(t)
  BY <1>2 DEF Moves
<1>4. ASSUME NEW t \in DOMAIN turns'
      PROVE  Placed(t, turns') /\ Keepable(turns'[t].base, turns'[t].user)
  <2>1. CASE t \in DOMAIN turns
    <3>1. /\ Placed(t, turns) /\ Conversation(turns[t].base, turns[t].user, turns)
          /\ \A v \in DOMAIN turns : turns[v].pc \in Early => Unsaid(v, turns[t].base)
      BY <2>1, TurnOf
    <3>2. Placed(t, turns')
      BY <1>2, <2>1, <3>1 DEF Placed
    <3> QED
      BY <1>2, <2>1, <3>1, <3>2 DEF Keepable
  <2>2. CASE t = n
    BY <1>2, <2>2, NothingSaid DEF Placed, Keepable
  <2> QED
    BY <1>2, <2>1, <2>2
<1>5. /\ rows' \in [DOMAIN rows' -> ChatRows] /\ DOMAIN rows' \subseteq DOMAIN turns'
      /\ \A i \in DOMAIN rows' : rows'[i].user = turns'[i].user
                                 /\ Keepable(rows'[i].msgs, rows'[i].user)
  <2>1. rows \in [DOMAIN rows -> ChatRows] /\ DOMAIN rows \subseteq DOMAIN turns
    BY DEF ChatInv, RowsOK
  <2> QED
    BY <1>2, <2>1, RowOf DEF Keepable
<1> QED
  BY <1>2, <1>3, <1>4, <1>5, ChatMoves

LEMMA ReceiveKeeps ==
  ASSUME ChatInv, NEW user \in Users, Receive(user)
  PROVE  ChatInv'
<1> DEFINE r == NewTurn(user, NoRow, FALSE)
<1>1. /\ r \in TurnRows /\ r.pc = "load" /\ r.row = NoRow /\ r.base = <<>>
      /\ r.given = NoRow
  BY DEF NewTurn, TurnRows, Stages, Early, NoRow
<1>2. turns' = Append(turns, r) /\ UNCHANGED rows
  BY DEF Receive
<1> HIDE DEF r
<1> QED
  BY <1>1, <1>2, ComesKeeps

\* The id of a session is that of a turn of the same user.
LEMMA SessionIs ==
  ASSUME ChatInv, NEW t \in DOMAIN turns
  PROVE  /\ SessionId(t) \in DOMAIN turns /\ SessionId(t) \in Nat
         /\ turns[SessionId(t)].user = turns[t].user
<1>1. Placed(t, turns) /\ DOMAIN turns = 1 .. Len(turns)
  BY TurnOf
<1>2. SessionId(t) \in DOMAIN turns /\ turns[SessionId(t)].user = turns[t].user
  BY <1>1 DEF SessionId, Placed
<1> QED
  BY <1>1, <1>2

LEMMA AskKeeps == ChatInv /\ Ask => ChatInv'
<1> SUFFICES ASSUME ChatInv, Ask PROVE ChatInv'
  OBVIOUS
<1>1. PICK given \in Known \union {NoRow}, own \in BOOLEAN :
        turns' = Append(turns, NewTurn(Api, given, own)) /\ UNCHANGED rows
  BY DEF Ask
<1>2. given \in Nat /\ (given # NoRow => given \in DOMAIN turns /\ turns[given].user = Api)
  BY SessionIs DEF Known, NoRow
<1> DEFINE r == NewTurn(Api, given, own)
<1>3. /\ r \in TurnRows /\ r.pc = "load" /\ r.row = NoRow /\ r.base = <<>>
      /\ r.given = given /\ r.user = Api
  BY <1>2 DEF NewTurn, TurnRows, Stages, Early, NoRow
<1>4. turns' = Append(turns, r)
  BY <1>1
<1> HIDE DEF r
<1> QED
  BY <1>1, <1>2, <1>3, <1>4, ComesKeeps

LEMMA LoadUserKeeps ==
  ASSUME ChatInv, NEW t \in DOMAIN turns, LoadUser(t)
  PROVE  ChatInv'
<1>1. turns[t].pc = "load" /\ UNCHANGED rows
  BY DEF LoadUser
<1>2. ASSUME NEW i \in RowsOf(turns[t].user),
             turns' = [turns EXCEPT ![t] = [@ EXCEPT
                         !.pc = "run", !.row = i, !.base = LastOf(rows[i].msgs, ReplayCs),
                         !.seen = Talk(LastOf(rows[i].msgs, ReplayCs))]]
      PROVE  ChatInv'
  <2> DEFINE g == LastOf(rows[i].msgs, ReplayCs)
  <2>1. i \in DOMAIN rows /\ rows[i].user = turns[t].user
    BY DEF RowsOf
  <2>2. Conversation(rows[i].msgs, rows[i].user, turns) /\ turns \in Seq(TurnRows)
    BY <2>1, RowOf, TurnOf
  <2>3. rows[i].msgs \in Seq(Messages)
    BY <2>2 DEF Conversation
  <2>4. Trims(g, rows[i].msgs)
    BY <2>3, LastOfTrims, Limits
  <2>5. turns' = [turns EXCEPT ![t] = [@ EXCEPT
                     !.pc = "run", !.row = i, !.base = g, !.seen = Talk(g)]]
    BY <1>2
  <2> HIDE DEF g
  <2>6. g \in Seq(Messages) /\ SummaryFirst(g)
    BY <2>2, <2>4, ConversationTrims DEF Conversation
  <2>7. Talk(g) \in Seq(Messages) /\ Follows(Talk(g), g, Len(g) + 1)
    BY <2>6, TrimsItself, TalkFollows
  <2> QED
    BY <1>1, <2>1, <2>4, <2>5, <2>7, LoadKeeps
<1>3. ASSUME Goes(t, "run") PROVE ChatInv'
  BY <1>1, <1>3, LoadsNothing
<1> QED
  BY <1>2, <1>3 DEF LoadUser

LEMMA LoadApiKeeps ==
  ASSUME ChatInv, NEW t \in DOMAIN turns, LoadApi(t)
  PROVE  ChatInv'
<1>1. turns[t].pc = "load" /\ turns[t].user = Api /\ UNCHANGED rows
  BY DEF LoadApi
<1>2. ASSUME turns[t].given \in DOMAIN rows,
             NEW replay \in Replayed(rows[turns[t].given].msgs),
             turns' = [turns EXCEPT ![t] = [@ EXCEPT
                         !.pc = "run", !.row = turns[t].given,
                         !.base = rows[turns[t].given].msgs,
                         !.seen = IF turns[t].own THEN <<>> ELSE Talk(replay)]]
      PROVE  ChatInv'
  <2> DEFINE i == turns[t].given
             h == rows[i].msgs
             seen == IF turns[t].own THEN <<>> ELSE Talk(replay)
  <2>1. /\ i \in DOMAIN rows /\ Placed(t, turns) /\ turns \in Seq(TurnRows)
        /\ DOMAIN turns = 1 .. Len(turns)
    BY <1>2, TurnOf
  <2>2. /\ Conversation(h, rows[i].user, turns) /\ rows[i].user = turns[i].user
        /\ i \in DOMAIN turns
    BY <2>1, RowOf
  <2>3. i # NoRow
    BY <2>1, <2>2 DEF NoRow
  <2>4. rows[i].user = turns[t].user
    BY <2>1, <2>2, <2>3 DEF Placed
  <2>5. h \in Seq(Messages) /\ SummaryFirst(h)
    BY <2>2 DEF Conversation
  <2>6. replay \in Replayed(h)
    BY <1>2
  <2>7. turns' = [turns EXCEPT ![t] = [@ EXCEPT
                     !.pc = "run", !.row = i, !.base = h, !.seen = seen]]
    BY <1>2
  <2> HIDE DEF i, h
  <2>8. Trims(replay, h)
    BY <2>5, <2>6, CompactionTrims
  <2>9. SummaryFirst(replay)
    BY <2>1, <2>2, <2>8, ConversationTrims DEF Conversation
  <2>10. Talk(replay) \in Seq(Messages) /\ Follows(Talk(replay), h, Len(h) + 1)
    BY <2>5, <2>8, <2>9, TalkFollows
  <2>11. seen \in Seq(Messages) /\ (turns[t].own \/ Follows(seen, h, Len(h) + 1))
    BY <2>10
  <2> HIDE DEF seen
  <2>12. Trims(h, rows[i].msgs)
    BY <2>5, TrimsItself DEF h
  <2> QED
    BY <1>1, <2>1, <2>4, <2>7, <2>11, <2>12, LoadKeeps
<1>3. ASSUME Goes(t, "run") PROVE ChatInv'
  BY <1>1, <1>3, LoadsNothing
<1> QED
  BY <1>2, <1>3 DEF LoadApi

\* What LeavesKeeps asks of the rows after a step.
RowsStay(owner) ==
  /\ rows' \in [DOMAIN rows' -> ChatRows] /\ DOMAIN rows' \subseteq DOMAIN turns
  /\ \A i \in DOMAIN rows' :
       (rows'[i] = rows[i] /\ i \in DOMAIN rows)
       \/ (rows'[i].user = owner[i].user /\ Keepable(rows'[i].msgs, rows'[i].user))

LEMMA RowCreated ==
  ASSUME ChatInv, NEW i \in DOMAIN turns, NEW msgs \in Seq(Messages),
         Keepable(msgs, turns[i].user),
         rows' = [k \in DOMAIN rows \union {i} |->
                    IF k = i THEN Row(turns[i].user, msgs) ELSE rows[k]]
  PROVE  RowsStay(turns)
<1> DEFINE new == Row(turns[i].user, msgs)
<1>1. turns[i] \in TurnRows
  BY TurnOf
<1>2. new \in ChatRows /\ new.user = turns[i].user /\ new.msgs = msgs
  BY <1>1 DEF Row, ChatRows, TurnRows
<1>3. rows \in [DOMAIN rows -> ChatRows] /\ DOMAIN rows \subseteq DOMAIN turns
  BY DEF ChatInv, RowsOK
<1>4. rows' = [k \in DOMAIN rows \union {i} |-> IF k = i THEN new ELSE rows[k]]
  OBVIOUS
<1> HIDE DEF new
<1>5. /\ rows' \in [DOMAIN rows' -> ChatRows] /\ DOMAIN rows' = DOMAIN rows \union {i}
      /\ rows'[i] = new /\ \A k \in DOMAIN rows : k # i => rows'[k] = rows[k]
  BY <1>2, <1>3, <1>4
<1> QED
  BY <1>2, <1>3, <1>5 DEF RowsStay

LEMMA RowReplaced ==
  ASSUME ChatInv, NEW i \in DOMAIN rows, NEW msgs \in Seq(Messages),
         Keepable(msgs, turns[i].user),
         rows' = [rows EXCEPT ![i].msgs = msgs, ![i].touched = TRUE]
  PROVE  RowsStay(turns)
<1> DEFINE new == [rows[i] EXCEPT !.msgs = msgs, !.touched = TRUE]
<1>1. rows[i] \in ChatRows /\ rows[i].user = turns[i].user
  BY RowOf
<1>2. new \in ChatRows /\ new.user = turns[i].user /\ new.msgs = msgs
  BY <1>1 DEF ChatRows
<1>3. rows \in [DOMAIN rows -> ChatRows] /\ DOMAIN rows \subseteq DOMAIN turns
  BY DEF ChatInv, RowsOK
<1>4. rows' = [rows EXCEPT ![i] = new]
  BY <1>3
<1> HIDE DEF new
<1>5. /\ rows' \in [DOMAIN rows' -> ChatRows] /\ DOMAIN rows' = DOMAIN rows
      /\ rows'[i] = new /\ \A k \in DOMAIN rows : k # i => rows'[k] = rows[k]
  BY <1>2, <1>3, <1>4
<1> QED
  BY <1>2, <1>3, <1>5 DEF RowsStay

LEMMA RowsUnchanged ==
  ASSUME ChatInv, UNCHANGED rows
  PROVE  RowsStay(turns)
BY DEF ChatInv, RowsOK, RowsStay

\* What a turn stores.
LEMMA StoredIsKeepable ==
  ASSUME ChatInv, NEW t \in DOMAIN turns, turns[t].pc = "persist",
         NEW stage \in Stages \ Early, Leaves(t, stage)
  PROVE  /\ \A msgs \in Bounded(Extended(t)) :
              msgs \in Seq(Messages) /\ Keepable(msgs, turns[t].user)
         /\ <<Question(t), Reply(t)>> \in Seq(Messages)
         /\ Keepable(<<Question(t), Reply(t)>>, turns[t].user)
<1> DEFINE user == turns[t].user
           two  == <<Question(t), Reply(t)>>
<1>1. /\ turns \in Seq(TurnRows) /\ DOMAIN turns = 1 .. Len(turns) /\ Len(turns) \in Nat
      /\ t \in Nat /\ Placed(t, turns) /\ turns[t] \in TurnRows
      /\ Conversation(turns[t].base, user, turns)
      /\ \A v \in DOMAIN turns : turns[v].pc \in Early => Unsaid(v, turns[t].base)
  BY TurnOf
<1>2. \A v \in DOMAIN turns : turns'[v].pc \in Early => turns[v].pc \in Early /\ v # t
  BY <1>1 DEF Leaves
<1>3. /\ Unsaid(t, turns[t].base)
      /\ turns[t].own \/ Follows(turns[t].seen, turns[t].base, Len(turns[t].base) + 1)
  BY <1>1 DEF Placed, Early
<1> HIDE DEF user
<1>4. ASSUME NEW h, Conversation(h, user, turns), Unsaid(t, h),
             \A v \in DOMAIN turns : turns[v].pc \in Early => Unsaid(v, h),
             turns[t].own \/ Follows(turns[t].seen, h, Len(h) + 1)
      PROVE  h \o two \in Seq(Messages) /\ Keepable(h \o two, user)
  <2>1. /\ Conversation(h \o two, user, turns)
        /\ \A v \in Nat : v # t /\ Unsaid(v, h) => Unsaid(v, h \o two)
    BY <1>1, <1>4, ConversationExtended DEF user
  <2>2. \A v \in DOMAIN turns : v \in Nat
    BY <1>1
  <2> QED
    BY <1>2, <1>4, <2>1, <2>2 DEF Keepable, Conversation
<1>5. Extended(t) \in Seq(Messages) /\ Keepable(Extended(t), user)
  BY <1>1, <1>3, <1>4 DEF Extended, user
<1>6. two \in Seq(Messages) /\ Keepable(two, user)
  <2>1. /\ Conversation(<<>>, user, turns) /\ \A v : Unsaid(v, <<>>)
        /\ Follows(turns[t].seen, <<>>, Len(<<>>) + 1)
    BY NothingSaid DEF Follows
  <2>2. <<>> \o two \in Seq(Messages) /\ Keepable(<<>> \o two, user)
    BY <1>4, <2>1
  <2>3. two \in Seq(Messages)
    BY <1>1, MessagesAre
  <2>4. <<>> \o two = two
    BY <2>3, ConcatEmptySeq
  <2> QED
    BY <2>2, <2>4
<1>7. ASSUME NEW msgs \in Bounded(Extended(t))
      PROVE  msgs \in Seq(Messages) /\ Keepable(msgs, user)
  <2>1. Trims(msgs, Extended(t))
    BY <1>5, CompactionTrims DEF Bounded
  <2>2. Conversation(Extended(t), user, turns)
    BY <1>5 DEF Keepable
  <2>3. Conversation(msgs, user, turns) /\ \A v : Unsaid(v, Extended(t)) => Unsaid(v, msgs)
    BY <1>1, <2>1, <2>2, ConversationTrims
  <2> QED
    BY <1>5, <2>3 DEF Keepable, Conversation
<1> QED
  BY <1>6, <1>7 DEF user

LEMMA NoRowStored == ChatInv => NoRow \notin DOMAIN rows
<1> SUFFICES ASSUME ChatInv PROVE NoRow \notin DOMAIN rows
  OBVIOUS
<1>1. DOMAIN rows \subseteq DOMAIN turns /\ turns \in Seq(TurnRows)
  BY DEF ChatInv, RowsOK, TurnsOK
<1> QED
  BY <1>1 DEF NoRow

LEMMA PersistUserKeeps ==
  ASSUME ChatInv, NEW t \in DOMAIN turns, PersistUser(t)
  PROVE  ChatInv'
<1>1. turns[t].pc = "persist" /\ Leaves(t, "send") /\ "send" \in Stages \ Early
  BY DEF PersistUser, Stages, Early
<1>2. PICK msgs \in Bounded(Extended(t)) : rows' = StoredUser(t, msgs)
  BY DEF PersistUser
<1>3. msgs \in Seq(Messages) /\ Keepable(msgs, turns[t].user) /\ Placed(t, turns)
  BY <1>1, StoredIsKeepable, TurnOf
<1>4. RowsStay(turns)
  <2> DEFINE i == turns[t].row
  <2>1. CASE i = NoRow
    <3>1. StoredUser(t, msgs) = [k \in DOMAIN rows \union {t} |->
                                   IF k = t THEN Row(turns[t].user, msgs) ELSE rows[k]]
      <4>1. turns[t].row \notin DOMAIN rows
        BY <2>1, NoRowStored
      <4> QED
        BY <2>1, <4>1 DEF StoredUser
    <3>2. rows' = [k \in DOMAIN rows \union {t} |->
                     IF k = t THEN Row(turns[t].user, msgs) ELSE rows[k]]
      BY <1>2, <3>1
    <3> QED
      BY <1>3, <3>2, RowCreated
  <2>2. CASE i # NoRow /\ i \in DOMAIN rows
    <3>1. rows' = [rows EXCEPT ![i].msgs = msgs, ![i].touched = TRUE]
      BY <1>2, <2>2 DEF StoredUser
    <3>2. turns[i].user = turns[t].user
      BY <1>3, <2>2 DEF Placed
    <3> QED
      BY <1>3, <2>2, <3>1, <3>2, RowReplaced
  <2>3. CASE i # NoRow /\ i \notin DOMAIN rows
    BY <1>2, <2>3, RowsUnchanged DEF StoredUser
  <2> QED
    BY <2>1, <2>2, <2>3
<1> QED
  BY <1>1, <1>4, LeavesKeeps DEF RowsStay

LEMMA PersistApiKeeps ==
  ASSUME ChatInv, NEW t \in DOMAIN turns, PersistApi(t)
  PROVE  ChatInv'
<1>1. turns[t].pc = "persist" /\ Leaves(t, "over") /\ "over" \in Stages \ Early
      /\ turns[t].user = Api
  BY DEF PersistApi, Stages, Early
<1>2. CASE UNCHANGED rows
  BY <1>1, <1>2, RowsUnchanged, LeavesKeeps DEF RowsStay
<1>3. CASE ~UNCHANGED rows
  <2> DEFINE i == SessionId(t)
  <2>1. PICK msgs \in Bounded(Extended(t)) : rows' = StoredApi(t, msgs)
    BY <1>3 DEF PersistApi
  <2>2. /\ msgs \in Seq(Messages) /\ Keepable(msgs, turns[t].user)
        /\ <<Question(t), Reply(t)>> \in Seq(Messages)
        /\ Keepable(<<Question(t), Reply(t)>>, turns[t].user)
    BY <1>1, StoredIsKeepable
  <2>3. i \in DOMAIN turns /\ turns[i].user = Api /\ turns[i].user = turns[t].user
    BY <1>1, SessionIs
  <2> HIDE DEF i
  <2>4. CASE turns[t].row = NoRow /\ i \notin DOMAIN rows
    <3>1. rows' = [k \in DOMAIN rows \union {i} |->
                     IF k = i THEN Row(Api, <<Question(t), Reply(t)>>) ELSE rows[k]]
      BY <2>1, <2>4 DEF StoredApi, i
    <3>2. RowsStay(turns)
      BY <2>2, <2>3, <3>1, RowCreated
    <3> QED
      BY <1>1, <3>2, LeavesKeeps DEF RowsStay
  <2>5. CASE turns[t].row # NoRow /\ i \in DOMAIN rows
    <3>1. rows' = [rows EXCEPT ![i].msgs = msgs, ![i].touched = TRUE]
      BY <2>1, <2>5 DEF StoredApi, i
    <3>2. RowsStay(turns)
      BY <2>2, <2>3, <2>5, <3>1, RowReplaced
    <3> QED
      BY <1>1, <3>2, LeavesKeeps DEF RowsStay
  <2>6. CASE ~(turns[t].row = NoRow /\ i \notin DOMAIN rows)
             /\ ~(turns[t].row # NoRow /\ i \in DOMAIN rows)
    BY <1>3, <2>1, <2>6 DEF StoredApi, i
  <2> QED
    BY <2>4, <2>5, <2>6
<1> QED
  BY <1>2, <1>3

LEMMA SendKeeps ==
  ASSUME ChatInv, NEW t \in DOMAIN turns, Send(t)
  PROVE  ChatInv'
<1>1. PICK sent \in {"ok", "failed"} :
        turns' = [turns EXCEPT
          ![t].pc = AfterSend(@, sent),
          ![t].sends = Append(@, [fallback |-> turns[t].pc = "fallback", sent |-> sent])]
  BY DEF Send
<1>2. UNCHANGED rows
  BY DEF Send
<1> DEFINE stage == AfterSend(turns[t].pc, sent)
           text == [fallback |-> turns[t].pc = "fallback", sent |-> sent]
           sends == Append(turns[t].sends, text)
           r == [turns[t] EXCEPT !.pc = stage, !.sends = sends]
<1>3. turns[t] \in TurnRows /\ Placed(t, turns)
  BY TurnOf
<1>4. turns' = [turns EXCEPT ![t] = r]
  BY <1>1, <1>3
<1>5. stage \in {"over", "fallback"} /\ text \in Sends
  BY DEF AfterSend, Sends
<1>10. sends \in Seq(Sends)
  <2> HIDE DEF text
  <2> QED
    BY <1>3, <1>5 DEF TurnRows
<1> HIDE DEF stage, text, sends
<1>6. /\ r \in TurnRows /\ r.pc \in {"over", "fallback"} /\ r.user = turns[t].user
      /\ r.own = turns[t].own /\ r.given = turns[t].given /\ r.seen = turns[t].seen
      /\ r.row = turns[t].row /\ r.base = turns[t].base
  BY <1>3, <1>5, <1>10 DEF TurnRows, Stages
<1> HIDE DEF r
<1>7. r.pc \notin {"run", "persist"} /\ r.pc \notin Early /\ r.pc # "load"
  BY <1>6 DEF Early
<1>8. r.row # NoRow => r.row \in DOMAIN turns /\ turns[r.row].user = r.user
  BY <1>3, <1>6 DEF Placed
<1>9. /\ Conversation(r.base, r.user, turns)
      /\ \A v \in DOMAIN turns : turns[v].pc \in Early => Unsaid(v, r.base)
  BY <1>6, TurnOf
<1> QED
  BY <1>2, <1>4, <1>6, <1>7, <1>8, <1>9, TurnAloneMoves

LEMMA CleanupKeeps == ChatInv /\ Cleanup => ChatInv'
<1> SUFFICES ASSUME ChatInv, Cleanup PROVE ChatInv'
  OBVIOUS
<1>1. PICK old : rows' = [i \in DOMAIN rows \ old |-> rows[i]]
  BY DEF Cleanup
<1>2. UNCHANGED turns
  BY DEF Cleanup
<1>3. rows \in [DOMAIN rows -> ChatRows] /\ DOMAIN rows \subseteq DOMAIN turns
  BY DEF ChatInv, RowsOK
<1>4. /\ DOMAIN rows' \subseteq DOMAIN rows /\ rows' \in [DOMAIN rows' -> ChatRows]
      /\ \A i \in DOMAIN rows' : rows'[i] = rows[i]
  BY <1>1, <1>3
<1>5. TurnsOK'
  BY <1>2 DEF ChatInv, TurnsOK, Placed, Conversation, Genuine
<1>6. RowsOK'
  BY <1>2, <1>3, <1>4 DEF ChatInv, RowsOK
<1> QED
  BY <1>5, <1>6 DEF ChatInv

LEMMA CrashKeeps == ChatInv /\ Crash => ChatInv'
<1> SUFFICES ASSUME ChatInv, Crash PROVE ChatInv'
  OBVIOUS
<1>1. /\ turns' = [t \in DOMAIN turns |->
                     IF Live(t) THEN Dropped(turns[t], "lost") ELSE turns[t]]
      /\ UNCHANGED rows
  BY DEF Crash
<1>2. turns \in Seq(TurnRows) /\ Len(turns) \in Nat /\ DOMAIN turns = 1 .. Len(turns)
  BY DEF ChatInv, TurnsOK
<1>3. ASSUME NEW t \in DOMAIN turns
      PROVE  /\ turns'[t] \in TurnRows /\ turns'[t].user = turns[t].user
             /\ turns'[t].own = turns[t].own /\ turns'[t].seen = turns[t].seen
             /\ turns'[t].given = turns[t].given
             /\ turns'[t] = turns[t] \/ /\ turns'[t].pc = "lost" /\ turns'[t].row = NoRow
                                        /\ turns'[t].base = <<>>
  <2>1. turns[t] \in TurnRows /\ <<>> \in Seq(Messages)
    BY <1>2
  <2>2. turns'[t] = turns[t] \/ turns'[t] = Dropped(turns[t], "lost")
    BY <1>1
  <2>3. /\ Dropped(turns[t], "lost") \in TurnRows
        /\ Dropped(turns[t], "lost").user = turns[t].user
        /\ Dropped(turns[t], "lost").own = turns[t].own
        /\ Dropped(turns[t], "lost").seen = turns[t].seen
        /\ Dropped(turns[t], "lost").given = turns[t].given
        /\ Dropped(turns[t], "lost").pc = "lost" /\ Dropped(turns[t], "lost").row = NoRow
        /\ Dropped(turns[t], "lost").base = <<>>
    BY <2>1 DEF Dropped, TurnRows, Stages, NoRow
  <2> QED
    BY <2>1, <2>2, <2>3
<1>4. turns' \in Seq(TurnRows) /\ DOMAIN turns' = DOMAIN turns
  <2>1. DOMAIN turns' = DOMAIN turns
    BY <1>1
  <2>2. turns' \in [1 .. Len(turns) -> TurnRows]
    BY <1>1, <1>2, <1>3, <2>1
  <2> QED
    BY <1>2, <2>1, <2>2
<1>5. \A t \in DOMAIN turns : Moves(t) /\ (turns'[t].pc \in Early => turns[t].pc \in Early)
  BY <1>3 DEF Moves, Early
<1>6. ASSUME NEW t \in DOMAIN turns'
      PROVE  Placed(t, turns') /\ Keepable(turns'[t].base, turns'[t].user)
  <2>1. t \in DOMAIN turns
    BY <1>4
  <2>2. /\ Placed(t, turns) /\ Conversation(turns[t].base, turns[t].user, turns)
        /\ \A v \in DOMAIN turns : turns[v].pc \in Early => Unsaid(v, turns[t].base)
    BY <2>1, TurnOf
  <2>3. Placed(t, turns')
    BY <1>3, <1>4, <2>1, <2>2 DEF Placed
  <2>4. CASE turns'[t] = turns[t]
    BY <1>5, <2>2, <2>3, <2>4 DEF Keepable
  <2>5. CASE turns'[t].base = <<>>
    BY <2>3, <2>5, NothingSaid DEF Keepable
  <2> QED
    BY <1>3, <2>1, <2>4, <2>5
<1>7. /\ rows' \in [DOMAIN rows' -> ChatRows] /\ DOMAIN rows' \subseteq DOMAIN turns'
      /\ \A i \in DOMAIN rows' : rows'[i].user = turns'[i].user
                                 /\ Keepable(rows'[i].msgs, rows'[i].user)
  <2>1. rows \in [DOMAIN rows -> ChatRows] /\ DOMAIN rows \subseteq DOMAIN turns
    BY DEF ChatInv, RowsOK
  <2> QED
    BY <1>1, <1>3, <1>4, <1>5, <2>1, RowOf DEF Keepable
<1> QED
  BY <1>4, <1>5, <1>6, <1>7, ChatMoves

LEMMA ChatStep == ChatInv /\ [ChatNext]_chatVars => ChatInv'
<1> SUFFICES ASSUME ChatInv, [ChatNext]_chatVars PROVE ChatInv'
  OBVIOUS
<1>1. CASE ReceiveWechat \/ ReceiveWework
  BY <1>1, ReceiveKeeps DEF ReceiveWechat, ReceiveWework, Users
<1>2. CASE Ask \/ Cleanup \/ Crash
  BY <1>2, AskKeeps, CleanupKeeps, CrashKeeps
<1>3. ASSUME NEW t \in DOMAIN turns, Dispatch(t) PROVE ChatInv'
  <2>1. CASE LoadUser(t)
    BY <2>1, LoadUserKeeps
  <2>2. CASE RunRaises(t)
    BY <2>2, LeavesAlone DEF RunRaises, Stages, Early
  <2>3. CASE RunUser(t)
    BY <2>3, GoesKeeps DEF RunUser, Stages, Early
  <2>4. CASE PersistUser(t)
    BY <2>4, PersistUserKeeps
  <2>5. CASE PersistUserFails(t)
    BY <2>5, LeavesAlone DEF PersistUserFails, Stages, Early
  <2>6. CASE Send(t)
    BY <2>6, SendKeeps
  <2> QED
    BY <1>3, <2>1, <2>2, <2>3, <2>4, <2>5, <2>6 DEF Dispatch
<1>4. ASSUME NEW t \in DOMAIN turns, Serve(t) PROVE ChatInv'
  <2>1. CASE LoadApi(t)
    BY <2>1, LoadApiKeeps
  <2>2. CASE AnswerApi(t)
    BY <2>2, GoesKeeps DEF AnswerApi, Stages, Early
  <2>3. CASE AbandonApi(t)
    BY <2>3, DroppedKeeps DEF AbandonApi
  <2>4. CASE PersistApi(t)
    BY <2>4, PersistApiKeeps
  <2> QED
    BY <1>4, <2>1, <2>2, <2>3, <2>4 DEF Serve
<1>5. CASE UNCHANGED chatVars
  BY <1>5 DEF chatVars, ChatInv, TurnsOK, RowsOK, Placed, Conversation, Genuine
<1> QED
  BY <1>1, <1>2, <1>3, <1>4, <1>5 DEF ChatNext

\* HistoriesAreReal for every set of users and every limit, however many turns of a
\* conversation overlap, are cut short by a crash or find their row removed: what
\* _persist_cs_turn and persist_turn leave in chat_sessions are exchanges that took
\* place, each stored once, under its user, after what the agent had been given.
THEOREM StoredTalksAreReal == ChatSpec => []HistoriesAreReal
<1>1. ChatSpec => []ChatInv
  BY ChatStart, ChatStep, PTL DEF ChatSpec
<1> QED
  BY <1>1, ChatInvReal, PTL

=============================================================================
