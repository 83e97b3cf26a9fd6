------------------------------ MODULE Delivery ------------------------------
(***************************************************************************)
(* Distribution together with the two components it shares tables with:    *)
(* the process step that creates ProcessedContent rows                     *)
(* (agent/tools/executes/process.py), and PeriodicDigestRunner             *)
(* (distributor/periodic.py), which sends daily and weekly subscriptions   *)
(* one digest of the content created since their last_sent_at watermark.   *)
(***************************************************************************)
EXTENDS Distribution

CONSTANTS
  Beats,        \* digest tasks in progress at once
  Interval,     \* Interval[s]: the time between two digests of s
  QuietSubs,    \* subscriptions with quiet hours
  WindowLimit,  \* _WINDOW_CONTENT_LIMIT
  Section,      \* Section[s][c]: the section of s's template c belongs to
  PerSection,   \* PerSection[s]: how many items of a section it shows
  MaxBeats,     \* bound on the digest tasks
  MaxTime       \* bound on the clock

ASSUME DeliveryAssumption ==
  /\ IsFiniteSet(Contents)
  /\ Interval \in [Subs -> Nat \ {0}]
  /\ QuietSubs \subseteq Subs
  /\ WindowLimit \in Nat \ {0}
  /\ PerSection \in [Subs -> Nat]
  /\ MaxBeats \in Nat
  /\ MaxTime \in Nat \ {0}

\* The channels that implement send_rendered.
Renders == {s \in Adapters : Channel[s] # "wechat"}

VARIABLES
  now,          \* the clock; no two time stamps are equal
  created,      \* created[c]: created_at, 0 before the row is inserted
  last,         \* last[s]: last_sent_at, 0 for NULL
  digestAt,     \* history: digestAt[s]: when s last received a digest, or 0
  disturbed,    \* history: periodic subscriptions whose watermark is known
                \* to lag behind the last digest they received
  missed,       \* history: <<s, c>> where a digest of s was sent and c had
                \* a reason not to be on its list
  omitted,      \* history: <<s, c>> where a digest of s was sent that had c on
                \* its list and did not show it
  bpc,          \* bpc[b]: the next step of digest task b
  btodo,        \* btodo[b]: subscriptions it has not come to yet
  bsnap,        \* bsnap[b]: their last_sent_at when b loaded them
  bsub,         \* bsub[b]: the subscription it is at
  bwindow,      \* bwindow[b]: the content it fetched, then what it matched
  bleft,        \* history: bleft[b]: what had a reason not to be fetched
  beats         \* digest tasks so far

beatVars   == <<bpc, btodo, bsnap, bsub, bwindow, bleft, beats>>
digestVars == <<last, digestAt, disturbed, missed, omitted>>
vars       == <<distVars, now, created, digestVars, beatVars>>

Goto(b, l) == bpc' = [bpc EXCEPT ![b] = l]

\* The digest task goes on to the next subscription, or is over.
NextDigest(b) ==
  /\ Goto(b, "loop")
  /\ bsub' = [bsub EXCEPT ![b] = AnySub]
  /\ bwindow' = [bwindow EXCEPT ![b] = {}]
  /\ bleft' = [bleft EXCEPT ![b] = {}]
  /\ UNCHANGED <<btodo, bsnap>>

EndDigests(b) ==
  /\ Goto(b, "idle")
  /\ btodo' = [btodo EXCEPT ![b] = {}]
  /\ bsnap' = [bsnap EXCEPT ![b] = [s \in Subs |-> 0]]
  /\ bsub' = [bsub EXCEPT ![b] = AnySub]
  /\ bwindow' = [bwindow EXCEPT ![b] = {}]
  /\ bleft' = [bleft EXCEPT ![b] = {}]

InitDelivery ==
  /\ now = 1
  /\ created = [c \in Contents |-> 0]
  /\ last = [s \in Subs |-> 0]
  /\ digestAt = [s \in Subs |-> 0]
  /\ disturbed = {}
  /\ missed = {}
  /\ omitted = {}
  /\ bpc = [b \in Beats |-> "idle"]
  /\ btodo = [b \in Beats |-> {}]
  /\ bsnap = [b \in Beats |-> [s \in Subs |-> 0]]
  /\ bsub = [b \in Beats |-> AnySub]
  /\ bwindow = [b \in Beats |-> {}]
  /\ bleft = [b \in Beats |-> {}]
  /\ beats = 0

TimePasses ==
  /\ now < MaxTime
  /\ now' = now + 1
  /\ UNCHANGED <<distVars, created, digestVars, beatVars>>

-----------------------------------------------------------------------------
(* The process step. *)

\* created_at is the database's now() of the transaction, which starts before
\* the pipeline engine parses, summarises and embeds the item.
ProcessBegin(c) ==
  /\ created[c] = 0
  /\ now < MaxTime
  /\ created' = [created EXCEPT ![c] = now]
  /\ now' = now + 1
  /\ UNCHANGED <<distVars, digestVars, beatVars>>

ProcessCommit(c) ==
  /\ created[c] # 0
  /\ c \notin stored
  /\ stored' = stored \union {c}
  /\ UNCHANGED <<pushVars, callVars, calls, tokenVars, now, created, digestVars,
                 beatVars>>

-----------------------------------------------------------------------------
(* The digest task. *)

\* Beat fires; the active daily and weekly subscriptions are loaded.
BeatBegin(b) ==
  /\ bpc[b] = "idle"
  /\ beats < MaxBeats
  /\ beats' = beats + 1
  /\ btodo' = [btodo EXCEPT ![b] = Periodic]
  /\ bsnap' = [bsnap EXCEPT ![b] = last]
  /\ Goto(b, "loop")
  /\ UNCHANGED <<distVars, now, created, digestVars, bsub, bwindow, bleft>>

\* digest_window_start, from the subscription as it was loaded.
InWindow(b, s, c) ==
  IF bsnap[b][s] # 0 THEN created[c] >= bsnap[b][s]
                     ELSE created[c] + Interval[s] >= now

\* Mutant of Oldest: ORDER BY created_at DESC.
Newest(W, F) ==
  /\ W \subseteq F
  /\ IF Cardinality(F) <= WindowLimit
       THEN W = F
       ELSE /\ Cardinality(W) = WindowLimit
            /\ \A c \in W, d \in F \ W : created[c] >= created[d]

\* ORDER BY created_at LIMIT WindowLimit.
Oldest(W, F) ==
  /\ W \subseteq F
  /\ IF Cardinality(F) <= WindowLimit
       THEN W = F
       ELSE /\ Cardinality(W) = WindowLimit
            /\ \A c \in W, d \in F \ W : created[c] <= created[d]

\* Content may be missing from the list of a digest for three reasons: its row
\* is not committed yet, it is older than the first window, or it has to wait
\* behind WindowLimit older items of the window.  (History; the query above is
\* not consulted.)
MayMiss(b, s, c) ==
  LET waiting(d) == IF bsnap[b][s] = 0 THEN now - created[d] <= Interval[s]
                                       ELSE bsnap[b][s] <= created[d]
  IN  \/ c \notin stored
      \/ bsnap[b][s] = 0 /\ now - created[c] > Interval[s]
      \/ Cardinality({d \in stored \ {c} : waiting(d) /\ created[d] <= created[c]})
           >= WindowLimit

Fetch(b, s) ==
  /\ bpc[b] = "loop"
  /\ s \in btodo[b]
  /\ \E W \in SUBSET stored :
       /\ Oldest(W, {c \in stored : InWindow(b, s, c)})
       /\ bwindow' = [bwindow EXCEPT ![b] = W]
  /\ bleft' = [bleft EXCEPT ![b] = {c \in Contents : MayMiss(b, s, c)}]
  /\ btodo' = [btodo EXCEPT ![b] = @ \ {s}]
  /\ bsub' = [bsub EXCEPT ![b] = s]
  /\ Goto(b, "assemble")
  /\ UNCHANGED <<distVars, now, created, digestVars, bsnap, beats>>

\* should_send_now, again from the loaded row; quiet hours are unknown here.
Due(b, s) == bsnap[b][s] = 0 \/ now - bsnap[b][s] >= Interval[s]

Matched(b) == {c \in bwindow[b] : <<bsub[b], c>> \in Matches}

\* Mutant of Assemble: the frequency gate is gone.
AssembleAlways(b) ==
  /\ bpc[b] = "assemble"
  /\ \/ /\ Matched(b) # {} /\ bsub[b] \in Renders
        /\ bwindow' = [bwindow EXCEPT ![b] = Matched(b)]
        /\ Goto(b, "send")
        /\ UNCHANGED <<btodo, bsnap, bsub, bleft>>
     \/ /\ Matched(b) = {} \/ bsub[b] \notin Renders
        /\ NextDigest(b)
  /\ UNCHANGED <<distVars, now, created, digestVars, beats>>

\* DigestAssembler.assemble and the channel look-up: the digest is rendered,
\* or nothing is sent and the watermark stays.
Assemble(b) ==
  /\ bpc[b] = "assemble"
  /\ \/ /\ Due(b, bsub[b]) /\ Matched(b) # {} /\ bsub[b] \in Renders
        /\ bwindow' = [bwindow EXCEPT ![b] = Matched(b)]
        /\ Goto(b, "send")
        /\ UNCHANGED <<btodo, bsnap, bsub, bleft>>
     \/ /\ \/ ~Due(b, bsub[b]) \/ Matched(b) = {}
           \/ bsub[b] \notin Renders \/ bsub[b] \in QuietSubs
        /\ NextDigest(b)
  /\ UNCHANGED <<distVars, now, created, digestVars, beats>>

\* Another digest task has sent to s since b loaded the subscription.
Stale(b) ==
  \/ bsnap[b][bsub[b]] # last[bsub[b]]
  \/ \E d \in Beats \ {b} : bpc[d] = "commit" /\ bsub[d] = bsub[b]

\* template.aggregate: of each section the oldest items, up to the limit
\* (max_per_section of daily-brief, the first item for topic-deepdive).
Shown(b) ==
  {c \in bwindow[b] :
     LET above == {d \in bwindow[b] : /\ Section[bsub[b]][d] = Section[bsub[b]][c]
                                     /\ created[d] < created[c]}
     IN  Cardinality(above) < PerSection[bsub[b]]}

\* What the digest lists in content_ids, and what of it the reader sees.
Items(b)      == {bsub[b]} \X bwindow[b]
ShownItems(b) == {bsub[b]} \X Shown(b)

Delivered(b) ==
  /\ sends' = [p \in Pairs |-> IF p \in ShownItems(b) THEN sends[p] + 1
                                                     ELSE sends[p]]
  /\ digestAt' = [digestAt EXCEPT ![bsub[b]] = now]

\* Mutant of Send: a failed send is committed like a delivered one.
SendTrusting(b) ==
  /\ bpc[b] = "send"
  /\ Delivered(b) \/ ("sendError" \in PushFaults /\ UNCHANGED <<sends, digestAt>>)
  /\ Goto(b, "commit")
  /\ UNCHANGED <<stored, record, excused, abandoned, disturbed, missed, omitted,
                 callVars, calls, tokenVars, now, created, last, btodo, bsnap,
                 bsub, bwindow, bleft, beats>>

\* channel.send_rendered, once.  A failure leaves the watermark alone.
Send(b) ==
  /\ bpc[b] = "send"
  /\ \/ /\ Delivered(b)
        /\ IF Stale(b)
             THEN /\ excused' = excused \union ShownItems(b)
                  /\ disturbed' = disturbed \union {bsub[b]}
             ELSE UNCHANGED <<excused, disturbed>>
        /\ Goto(b, "commit")
        /\ UNCHANGED <<btodo, bsnap, bsub, bwindow, bleft>>
     \/ /\ "lostReply" \in PushFaults
        /\ Delivered(b)
        /\ excused' = excused \union ShownItems(b)
        /\ disturbed' = disturbed \union {bsub[b]}
        /\ NextDigest(b)
     \/ /\ "sendError" \in PushFaults
        /\ NextDigest(b)
        /\ UNCHANGED <<sends, excused, digestAt, disturbed>>
  /\ UNCHANGED <<stored, record, abandoned, callVars, calls, tokenVars, now,
                 created, last, missed, omitted, beats>>

Recorded(b) ==
  [p \in Pairs |->
     IF p \in Items(b) /\ record[p] = "none" THEN "sent" ELSE record[p]]

\* One PushRecord per item of the list that has none, shown or not, and
\* last_sent_at = clock.now(), in one transaction.
Commit(b) ==
  /\ bpc[b] = "commit"
  /\ now < MaxTime
  /\ record' = Recorded(b)
  /\ last' = [last EXCEPT ![bsub[b]] = now]
  /\ now' = now + 1
  /\ missed' = missed \union ({bsub[b]} \X {c \in bleft[b] : created[c] # 0})
  /\ omitted' = omitted \union (Items(b) \ ShownItems(b))
  /\ NextDigest(b)
  /\ UNCHANGED <<stored, sends, excused, abandoned, callVars, calls, tokenVars,
                 created, digestAt, disturbed, beats>>

BeatEnd(b) ==
  /\ bpc[b] = "loop"
  /\ btodo[b] = {}
  /\ EndDigests(b)
  /\ UNCHANGED <<distVars, now, created, digestVars, beats>>

\* The process dies, or an error of the database ends the task: among them the
\* IntegrityError of a PushRecord inserted by somebody else in the meantime.
BeatStop(b) ==
  /\ "stop" \in PushFaults
  /\ bpc[b] # "idle"
  /\ IF bpc[b] = "commit"
       THEN /\ excused' = excused \union ShownItems(b)
            /\ disturbed' = disturbed \union {bsub[b]}
       ELSE UNCHANGED <<excused, disturbed>>
  /\ EndDigests(b)
  /\ UNCHANGED <<stored, record, sends, abandoned, callVars, calls, tokenVars, now,
                 created, last, digestAt, missed, omitted, beats>>

BeatStep(b) ==
  \/ \E s \in Subs : Fetch(b, s)
  \/ Assemble(b) \/ Send(b) \/ Commit(b) \/ BeatEnd(b)

-----------------------------------------------------------------------------
Init == InitDist /\ InitDelivery

Next ==
  \/ NextDist /\ UNCHANGED <<now, created, digestVars, beatVars>>
  \/ TimePasses
  \/ \E c \in Contents : ProcessBegin(c) \/ ProcessCommit(c)
  \/ \E b \in Beats : BeatBegin(b) \/ BeatStep(b) \/ BeatStop(b)

Spec == Init /\ [][Next]_vars

\* A process in the middle of a call goes on; nothing obliges a call, a digest
\* task, new content or a fault to happen.
Fairness ==
  \A r \in Runs :
    WF_vars(LoopStep(r) /\ UNCHANGED <<now, created, digestVars, beatVars>>)

FairSpec == Spec /\ Fairness
-----------------------------------------------------------------------------
(* Properties. *)

ClockOK ==
  /\ now \in 1 .. MaxTime
  /\ created \in [Contents -> 0 .. MaxTime]
  /\ last \in [Subs -> 0 .. MaxTime]
  /\ digestAt \in [Subs -> 0 .. MaxTime]
  /\ disturbed \subseteq Subs /\ missed \subseteq Pairs /\ omitted \subseteq Pairs

BeatsOK ==
  /\ bpc \in [Beats -> {"idle", "loop", "assemble", "send", "commit"}]
  /\ btodo \in [Beats -> SUBSET Subs]
  /\ bsnap \in [Beats -> [Subs -> 0 .. MaxTime]]
  /\ bsub \in [Beats -> Subs]
  /\ bwindow \in [Beats -> SUBSET Contents]
  /\ bleft \in [Beats -> SUBSET Contents]
  /\ beats \in 0 .. MaxBeats

\* Type correctness; a rendered digest carries only content its subscription
\* matches, and no more of it than the limit.
TypeOK ==
  /\ DistOK /\ ClockOK /\ BeatsOK
  /\ \A b \in Beats :
       /\ bpc[b] \in {"send", "commit"} => Items(b) \subseteq Matches
       /\ Cardinality(bwindow[b]) <= WindowLimit

\* Every second delivery of an item to a subscriber has one of these causes:
\* two calls or tasks overlapped, one was cut off between its send and its
\* record, a delivery was reported as a failure, or somebody asked for a
\* one-off push to a subscriber of digests.  Repeated calls, failed attempts,
\* retries and consecutive digest windows never cause one.
DuplicatesExplained == \A p \in Pairs : sends[p] > 1 => p \in excused

\* The history of pushes is true but for what a template leaves out: an item
\* recorded as sent was delivered, or was on the list of a digest that was
\* delivered and did not show it.
SentWasDelivered ==
  \A p \in Pairs : record[p] = "sent" => sends[p] > 0 \/ p \in omitted

\* The documented record: one per delivered content.  False, since a digest
\* records its whole list and its template shows part of it.
RecordedIsDelivered == \A p \in Pairs : record[p] = "sent" => sends[p] > 0

\* The documented gate: no content twice to one user on one channel.  False,
\* since the gate and the record are two calls with the send between them.
NoDuplicates == \A p \in Pairs : sends[p] <= 1

\* The documented retry: a push that failed is tried again in the next batch.
\* False, since the gate takes a record of any status for a push.
FailedIsRetried ==
  [][\A r \in Runs, s \in Adapters :
       (/\ dpc[r] = "loop" /\ dpc'[r] # "idle"
        /\ s \in dtodo[r] \ dtodo'[r] /\ record[<<s, dcont[r]>>] = "failed")
         => dpc'[r] = "send" /\ dsub'[r] = s]_vars

\* An hourly beat does not send a daily subscriber two digests in less than a
\* day, unless the watermark is known to lag behind.
IntervalKept ==
  [][\A s \in Subs :
       digestAt[s] # 0 /\ digestAt'[s] # digestAt[s] =>
         digestAt'[s] - digestAt[s] >= Interval[s] \/ s \in disturbed']_vars

\* A call that matched a subscriber with a channel leaves a record of what
\* became of the push, unless the call was cut short.
PushSettles ==
  \A r \in Runs, s \in Adapters, c \in Contents :
    (dcont[r] = c /\ s \in dtodo[r]) ~>
      (record[<<s, c>>] # "none" \/ <<s, c>> \in abandoned)

\* The cached token is one the platform has replaced only after two processes
\* fetched at the same time: calls that follow each other, expiries, failures
\* and stopped processes never leave a dead token behind.
DeadTokenExplained == token = "dead" => raced

\* Content older than a subscriber's watermark has been delivered, was left out
\* by the template of a delivered digest, or had a reason not to be on its list:
\* the row was committed after the query, the item was older than the first
\* window, or the limit was reached.  A digest that fails, is not due, falls
\* into quiet hours, overlaps another or is cut off anywhere loses nothing.
LossExplained ==
  \A s \in Periodic \intersect Renders, c \in stored :
    <<s, c>> \in Matches /\ created[c] < last[s] /\ sends[<<s, c>>] = 0
      => <<s, c>> \in missed \union omitted
=============================================================================
