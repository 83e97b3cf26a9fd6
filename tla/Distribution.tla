---------------------------- MODULE Distribution ----------------------------
(***************************************************************************)
(* DistributorFacade.distribute (distributor/facade.py): one content item  *)
(* is pushed to every matching subscription, and the table push_records,   *)
(* unique in (subscription, content, channel), is both the history of the  *)
(* pushes and the gate that prevents a second one.  The gate, the send and *)
(* the insert are separate database or network calls, and so are those by  *)
(* which the WeChat channel gets its access token.                         *)
(***************************************************************************)
EXTENDS Channels

CONSTANTS
  Subs,         \* active subscriptions, one channel each
  Contents,     \* ProcessedContent rows that may come to exist
  Rules,        \* Rules[s]: the match_rules of s
  About,        \* About[c]: what the rules are matched against
  Frequency,    \* Frequency[s]: "realtime", "hourly", "daily" or "weekly"
  Channel,      \* Channel[s]: "wechat", "wework" or "email"
  Adapters,     \* subscriptions whose channel has an adapter configured
  MaxCalls,     \* bound on the calls of distribute
  MaxAttempts,  \* MAX_RETRY of the channels
  PushFaults    \* what the environment may do, a subset of PushFaultKinds

\* "stop":      the process dies, or an error of the database ends the call;
\* "sendError": a channel raises or reports a failure, nothing is delivered;
\* "lostReply": the message is delivered but the channel reports a failure.
PushFaultKinds == {"stop", "sendError", "lostReply"}

\* A rule is a set of constraints on the words of title and text (required by
\* "+", excluded by "!", plain words and regexes), on the two kinds of tags and
\* on the source; content is the words it contains, its tags and its source.
RuleShape ==
  {"required", "excluded", "plain", "tags", "disciplineTags", "sources", "minScore"}
ItemShape == {"words", "tags", "disciplineTags", "source"}

\* ContentScorer.score multiplies by source_credibility, which no
\* ProcessedContent has: every score is 0.
Score(rule, item) == 0

\* SubscriptionMatcher: the source, the required and the excluded words are
\* conditions; beyond them one positive reason is needed.
Accepts(rule, item) ==
  /\ rule.sources # {} => item.source \in rule.sources
  /\ rule.required \subseteq item.words
  /\ rule.excluded \intersect item.words = {}
  /\ \/ rule.sources # {} \/ rule.required # {}
     \/ rule.plain \intersect item.words # {}
     \/ rule.tags \intersect item.tags # {}
     \/ rule.disciplineTags \intersect item.disciplineTags # {}
  /\ rule.minScore > 0 => Score(rule, item) >= rule.minScore

Pairs    == Subs \X Contents
Matches  == {p \in Pairs : Accepts(Rules[p[1]], About[p[2]])}
Realtime == {s \in Subs : Frequency[s] = "realtime"}
Periodic == {s \in Subs : Frequency[s] \in {"daily", "weekly"}}

ASSUME DistributionAssumption ==
  /\ Subs # {} /\ Contents # {}
  /\ \A s \in Subs : DOMAIN Rules[s] = RuleShape
  /\ \A c \in Contents : DOMAIN About[c] = ItemShape
  /\ Channel \in [Subs -> {"wechat", "wework", "email"}]
  /\ Frequency \in [Subs -> {"realtime", "hourly", "daily", "weekly"}]
  /\ Adapters \subseteq Subs
  /\ MaxCalls \in Nat
  /\ MaxAttempts \in Nat \ {0}
  /\ PushFaults \subseteq PushFaultKinds

VARIABLES
  stored,       \* the ProcessedContent rows that are committed
  record,       \* record[<<s, c>>]: the status of the PushRecord, or "none"
  sends,        \* history: how often c has been delivered to s
  excused,      \* history: pairs of which a second delivery has a known cause
  abandoned,    \* history: pairs a call was to push when it was cut short
  dpc,          \* dpc[r]: the next step of process r
  dcont,        \* dcont[r]: the content it distributes
  dtodo,        \* dtodo[r]: matched subscriptions it has not come to yet
  dsub,         \* dsub[r]: the subscription it is at
  dtries,       \* dtries[r]: attempts that failed
  dout,         \* dout[r]: the status it is about to record
  calls         \* calls of distribute so far

pushVars == <<record, sends, excused, abandoned>>
callVars == <<dpc, dcont, dtodo, dsub, dtries, dout>>
distVars == <<stored, pushVars, callVars, calls, tokenVars>>

\* The steps between the dedup gate and the record.
Pushing == {"send", "fetch", "store", "record"}

Pair(r) == <<dsub[r], dcont[r]>>
Step(r, l) == dpc' = [dpc EXCEPT ![r] = l]

AnySub     == CHOOSE s \in Subs : TRUE
AnyContent == CHOOSE c \in Contents : TRUE

InitDist ==
  /\ stored = {}
  /\ record = [p \in Pairs |-> "none"]
  /\ sends = [p \in Pairs |-> 0]
  /\ excused = {}
  /\ abandoned = {}
  /\ dpc = [r \in Runs |-> "idle"]
  /\ dcont = [r \in Runs |-> AnyContent]
  /\ dtodo = [r \in Runs |-> {}]
  /\ dsub = [r \in Runs |-> AnySub]
  /\ dtries = [r \in Runs |-> 0]
  /\ dout = [r \in Runs |-> "sent"]
  /\ calls = 0
  /\ InitTokens

\* The call is over; its local variables are gone.
Return(r) ==
  /\ Step(r, "idle")
  /\ dcont' = [dcont EXCEPT ![r] = AnyContent]
  /\ dtodo' = [dtodo EXCEPT ![r] = {}]
  /\ dsub' = [dsub EXCEPT ![r] = AnySub]
  /\ dtries' = [dtries EXCEPT ![r] = 0]
  /\ dout' = [dout EXCEPT ![r] = "sent"]

\* The content and its subscriptions are loaded once; the loop works on the
\* matched ones.  An id that is not stored is answered content_not_found.
Load(r, c, candidates) ==
  /\ dpc[r] = "idle"
  /\ calls < MaxCalls
  /\ c \in stored
  /\ calls' = calls + 1
  /\ dcont' = [dcont EXCEPT ![r] = c]
  /\ dtodo' = [dtodo EXCEPT ![r] = {s \in candidates : <<s, c>> \in Matches}]
  /\ Step(r, "loop")
  /\ UNCHANGED <<stored, record, sends, abandoned, dsub, dtries, dout, tokenVars>>

\* The distribute step of a collect pipeline: realtime subscriptions only.
Broadcast(r, c) == Load(r, c, Realtime) /\ UNCHANGED excused

\* An explicit subscription_id, whatever its frequency.  The next digest of a
\* periodic subscription lists the item again.
OneOff(r, c, s) ==
  /\ Load(r, c, {s})
  /\ excused' = excused \union ({<<s, c>>} \intersect (Periodic \X Contents))

\* Channel missing, or a PushRecord of any status exists: skipped.
Skip(r, s) ==
  /\ dpc[r] = "loop"
  /\ s \in dtodo[r]
  /\ s \notin Adapters \/ record[<<s, dcont[r]>>] # "none"
  /\ dtodo' = [dtodo EXCEPT ![r] = @ \ {s}]
  /\ UNCHANGED <<stored, pushVars, dpc, dcont, dsub, dtries, dout, calls,
                 tokenVars>>

\* Another call has passed the gate for this pair and not recorded it yet.
Overlaps(r, s) ==
  \E q \in Runs \ {r} :
    dpc[q] \in Pushing /\ Pair(q) = <<s, dcont[r]>>

Picked(r, s) ==
  /\ excused' = IF Overlaps(r, s) THEN excused \union {<<s, dcont[r]>>}
                                  ELSE excused
  /\ dtodo' = [dtodo EXCEPT ![r] = @ \ {s}]
  /\ dsub' = [dsub EXCEPT ![r] = s]
  /\ dtries' = [dtries EXCEPT ![r] = 0]
  /\ Step(r, "send")
  /\ UNCHANGED <<stored, record, sends, abandoned, dcont, dout, calls,
                 tokenVars>>

\* Mutant of Pick: the gate is gone.
PickAlways(r, s) ==
  /\ dpc[r] = "loop"
  /\ s \in dtodo[r]
  /\ s \in Adapters
  /\ Picked(r, s)

\* _is_already_pushed says no.
Pick(r, s) ==
  /\ dpc[r] = "loop"
  /\ s \in dtodo[r]
  /\ s \in Adapters /\ record[<<s, dcont[r]>>] = "none"
  /\ Picked(r, s)

Recording(r, status) ==
  /\ dout' = [dout EXCEPT ![r] = status]
  /\ Step(r, "record")
  /\ UNCHANGED dtries

Again(r) ==
  /\ dtries' = [dtries EXCEPT ![r] = @ + 1]
  /\ Step(r, "send")
  /\ UNCHANGED dout

\* A failed attempt: the channel tries again up to max_retry times.
Retry(r) ==
  \/ dtries[r] + 1 < MaxAttempts /\ Again(r)
  \/ dtries[r] + 1 = MaxAttempts /\ Recording(r, "failed")

\* Mutant of Refused: a reported failure counts as sent.
RefusedTrusting(r) ==
  /\ Recording(r, "sent")
  /\ UNCHANGED <<sends, excused>>

\* An attempt that delivers nothing: an exception, or an errcode.
Refused(r) ==
  /\ Retry(r)
  /\ UNCHANGED <<sends, excused>>

\* The message is posted; only errcode 0 (for email, no exception) is a
\* success, so an answer that is lost or says nothing is a failure.
Posted(r) ==
  \/ /\ sends' = [sends EXCEPT ![Pair(r)] = @ + 1]
     /\ Recording(r, "sent")
     /\ UNCHANGED excused
  \/ /\ "lostReply" \in PushFaults
     /\ sends' = [sends EXCEPT ![Pair(r)] = @ + 1]
     /\ excused' = excused \union {Pair(r)}
     /\ Retry(r)
  \/ "sendError" \in PushFaults /\ Refused(r)

\* Email and WeWork render before the first attempt: what that raises leaves
\* distribute and is recorded without a retry.
Unrendered(r) ==
  /\ "sendError" \in PushFaults
  /\ dtries[r] = 0
  /\ Recording(r, "failed")
  /\ UNCHANGED <<sends, excused>>

AttemptFrame(r) == UNCHANGED <<stored, record, abandoned, dcont, dtodo, dsub, calls>>

\* One attempt by email or WeWork, whose platform repeats a valid token.
Attempt(r) ==
  /\ dpc[r] = "send"
  /\ Channel[dsub[r]] # "wechat"
  /\ Posted(r) \/ Unrendered(r)
  /\ UNCHANGED tokenVars
  /\ AttemptFrame(r)

PostWith(r, t) == IF t = "dead" THEN Refused(r) ELSE Posted(r)

\* One attempt by WeChat: the cached token is used as it is, ...
AttemptWechat(r) ==
  /\ dpc[r] = "send"
  /\ Channel[dsub[r]] = "wechat"
  /\ \/ /\ token # "none"
        /\ PostWith(r, token)
        /\ UNCHANGED tokenVars
     \/ /\ Miss(r)
        /\ Step(r, "fetch")
        /\ UNCHANGED <<sends, excused, dtries, dout>>
  /\ AttemptFrame(r)

\* ... or a new one is fetched, ...
FetchToken(r) ==
  /\ dpc[r] = "fetch"
  /\ \/ Issue(r) /\ Step(r, "store") /\ UNCHANGED <<sends, excused, dtries, dout>>
     \/ "sendError" \in PushFaults /\ Forget(r) /\ Refused(r)
  /\ AttemptFrame(r)

\* ... stored, and used.
StoreToken(r) ==
  /\ dpc[r] = "store"
  /\ \/ Store(r) /\ PostWith(r, held[r])
     \/ "sendError" \in PushFaults /\ Forget(r) /\ Refused(r)
  /\ AttemptFrame(r)

\* The loop goes on to the next subscription.
NextSub(r) ==
  /\ Step(r, "loop")
  /\ dsub' = [dsub EXCEPT ![r] = AnySub]
  /\ dtries' = [dtries EXCEPT ![r] = 0]
  /\ dout' = [dout EXCEPT ![r] = "sent"]

\* Mutant of Record: only successes are recorded.
RecordSuccess(r) ==
  /\ dpc[r] = "record"
  /\ record' = IF record[Pair(r)] = "none" /\ dout[r] = "sent"
                 THEN [record EXCEPT ![Pair(r)] = "sent"]
                 ELSE record
  /\ NextSub(r)
  /\ UNCHANGED <<stored, sends, excused, abandoned, dcont, dtodo, calls,
                 tokenVars>>

\* _record_push: an IntegrityError of the unique key is swallowed.
Record(r) ==
  /\ dpc[r] = "record"
  /\ record' = IF record[Pair(r)] = "none"
                 THEN [record EXCEPT ![Pair(r)] = dout[r]]
                 ELSE record
  /\ NextSub(r)
  /\ UNCHANGED <<stored, sends, excused, abandoned, dcont, dtodo, calls,
                 tokenVars>>

Finish(r) ==
  /\ dpc[r] = "loop"
  /\ dtodo[r] = {}
  /\ Return(r)
  /\ UNCHANGED <<stored, pushVars, calls, tokenVars>>

\* The process dies, or a database error raises out of distribute.
Stop(r) ==
  /\ "stop" \in PushFaults
  /\ dpc[r] # "idle"
  /\ LET open == IF dpc[r] \in Pushing THEN {Pair(r)} ELSE {}
     IN  /\ abandoned' = abandoned \union open \union (dtodo[r] \X {dcont[r]})
         /\ excused' = IF dpc[r] = "record" /\ dout[r] = "sent"
                        THEN excused \union open
                        ELSE excused
  /\ Return(r)
  /\ Forget(r)
  /\ UNCHANGED <<stored, record, sends, calls>>

LoopStep(r) ==
  \/ \E s \in Subs : Skip(r, s) \/ Pick(r, s)
  \/ Attempt(r) \/ AttemptWechat(r) \/ FetchToken(r) \/ StoreToken(r)
  \/ Record(r) \/ Finish(r)

NextDist ==
  \/ ExpireToken /\ UNCHANGED <<stored, pushVars, callVars, calls>>
  \/ \E r \in Runs :
       \/ LoopStep(r) \/ Stop(r)
       \/ \E c \in Contents : Broadcast(r, c) \/ \E s \in Subs : OneOff(r, c, s)
-----------------------------------------------------------------------------
(* Types. *)

PushesOK ==
  /\ stored \subseteq Contents
  /\ record \in [Pairs -> {"none", "sent", "failed"}]
  /\ sends \in [Pairs -> Nat]
  /\ excused \subseteq Pairs /\ abandoned \subseteq Pairs

CallsOK ==
  /\ dpc \in [Runs -> Pushing \union {"idle", "loop"}]
  /\ dcont \in [Runs -> Contents]
  /\ dtodo \in [Runs -> SUBSET Subs]
  /\ dsub \in [Runs -> Subs]
  /\ dtries \in [Runs -> 0 .. MaxAttempts - 1]
  /\ dout \in [Runs -> {"sent", "failed"}]
  /\ calls \in 0 .. MaxCalls

DistOK == PushesOK /\ CallsOK /\ TokensOK
=============================================================================
