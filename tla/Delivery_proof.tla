--------------------------- MODULE Delivery_proof ---------------------------
(***************************************************************************)
(* Theorems about Delivery, for every set of subscriptions, rules,         *)
(* contents, processes and digest tasks, and every set of faults.          *)
(***************************************************************************)
EXTENDS Delivery, FiniteSetTheorems, TLAPS

USE DEF vars, distVars, pushVars, callVars, tokenVars, digestVars, beatVars

-----------------------------------------------------------------------------
(* Type correctness. *)

\* Something is there for the variables of an idle process to name.
LEMMA AnyOK == AnySub \in Subs /\ AnyContent \in Contents
BY DistributionAssumption DEF AnySub, AnyContent

LEMMA TypeInit == Init => TypeOK
<1> SUFFICES ASSUME Init PROVE TypeOK
  OBVIOUS
<1> USE DistributionAssumption, DeliveryAssumption
<1>1. PushesOK /\ TokensOK
  BY DEF Init, InitDist, InitTokens, PushesOK, TokensOK, Tokens
<1>2. CallsOK
  BY AnyOK DEF Init, InitDist, CallsOK
<1>3. ClockOK
  BY DEF Init, InitDelivery, ClockOK
<1>4. BeatsOK
  BY AnyOK DEF Init, InitDelivery, BeatsOK
<1>5. \A b \in Beats : bpc[b] = "idle" /\ Cardinality(bwindow[b]) <= WindowLimit
  BY FS_EmptySet DEF Init, InitDelivery
<1> QED
  BY <1>1, <1>2, <1>3, <1>4, <1>5 DEF TypeOK, DistOK

\* The token's calls keep its variables well typed.
LEMMA TokenTypes ==
  ASSUME TokensOK, NEW r \in Runs,
         Miss(r) \/ Issue(r) \/ Store(r) \/ Forget(r) \/ ExpireToken
  PROVE  TokensOK'
<1>1. CASE Miss(r)
  BY <1>1 DEF Miss, TokensOK
<1>2. CASE Issue(r)
  BY <1>2 DEF Issue, TokensOK, Tokens, Killed
<1>3. CASE Store(r)
  BY <1>3 DEF Store, TokensOK, Tokens
<1>4. CASE Forget(r)
  BY <1>4 DEF Forget, TokensOK, Tokens
<1>5. CASE ExpireToken
  BY <1>5 DEF ExpireToken, TokensOK, Tokens
<1> QED
  BY <1>1, <1>2, <1>3, <1>4, <1>5

\* What an attempt may leave behind: another step of the same push.
AttemptOutcome(r) ==
  /\ \E l \in Pushing : Step(r, l)
  /\ dtries' \in [Runs -> 0 .. MaxAttempts - 1]
  /\ dout' \in [Runs -> {"sent", "failed"}]
  /\ sends' \in [Pairs -> Nat]
  /\ excused' \subseteq Pairs

LEMMA PairOK ==
  ASSUME CallsOK, NEW r \in Runs PROVE Pair(r) \in Pairs
BY DEF CallsOK, Pair, Pairs

LEMMA RefusedOK ==
  ASSUME PushesOK, CallsOK, NEW r \in Runs, Retry(r)
  PROVE  /\ \E l \in Pushing : Step(r, l)
         /\ dtries' \in [Runs -> 0 .. MaxAttempts - 1]
         /\ dout' \in [Runs -> {"sent", "failed"}]
<1> USE DistributionAssumption
<1>1. CASE dtries[r] + 1 < MaxAttempts /\ Again(r)
  <2>1. dtries[r] + 1 \in 0 .. MaxAttempts - 1
    BY <1>1 DEF CallsOK
  <2> QED
    BY <1>1, <2>1 DEF CallsOK, Again, Pushing
<1>2. CASE Recording(r, "failed")
  BY <1>2 DEF CallsOK, Recording, Pushing
<1> QED
  BY <1>1, <1>2 DEF Retry

LEMMA PostedOK ==
  ASSUME PushesOK, CallsOK, NEW r \in Runs, Posted(r) \/ Refused(r) \/ Unrendered(r)
  PROVE  AttemptOutcome(r)
<1> USE DistributionAssumption
<1>1. Pair(r) \in Pairs
  BY PairOK
<1>2. CASE Refused(r)
  BY <1>2, RefusedOK DEF Refused, AttemptOutcome, PushesOK
<1>3. CASE Unrendered(r)
  BY <1>3 DEF Unrendered, Recording, AttemptOutcome, PushesOK, CallsOK, Pushing
<1>4. ASSUME sends' = [sends EXCEPT ![Pair(r)] = @ + 1] PROVE sends' \in [Pairs -> Nat]
  BY <1>1, <1>4 DEF PushesOK
<1>5. CASE /\ sends' = [sends EXCEPT ![Pair(r)] = @ + 1]
           /\ Recording(r, "sent") /\ UNCHANGED excused
  BY <1>4, <1>5 DEF Recording, AttemptOutcome, PushesOK, CallsOK, Pushing
<1>6. CASE /\ sends' = [sends EXCEPT ![Pair(r)] = @ + 1]
           /\ excused' = excused \union {Pair(r)} /\ Retry(r)
  BY <1>1, <1>4, <1>6, RefusedOK DEF AttemptOutcome, PushesOK
<1> QED
  BY <1>2, <1>3, <1>5, <1>6 DEF Posted

\* An attempt keeps the types.
LEMMA AttemptTypes ==
  ASSUME DistOK, NEW r \in Runs, AttemptOutcome(r), AttemptFrame(r), TokensOK'
  PROVE  DistOK'
<1>1. PushesOK'
  BY DEF DistOK, PushesOK, AttemptOutcome, AttemptFrame
<1>2. CallsOK'
  BY DEF DistOK, CallsOK, AttemptOutcome, AttemptFrame, Step
<1> QED
  BY <1>1, <1>2 DEF DistOK

LEMMA DistTypes ==
  ASSUME DistOK, NextDist PROVE DistOK'
<1> USE DistributionAssumption
<1>1. ASSUME NEW r \in Runs, NEW c \in Contents, NEW S \in SUBSET Subs, Load(r, c, S),
             excused' \subseteq Pairs
      PROVE  DistOK'
  <2>1. CallsOK'
    BY <1>1 DEF DistOK, CallsOK, Load, Step
  <2> QED
    BY <1>1, <2>1 DEF DistOK, PushesOK, Load, TokensOK
<1>2. ASSUME NEW r \in Runs, NEW c \in Contents, Broadcast(r, c) PROVE DistOK'
  BY <1>1, <1>2 DEF Broadcast, Realtime, DistOK, PushesOK
<1>3. ASSUME NEW r \in Runs, NEW c \in Contents, NEW s \in Subs, OneOff(r, c, s)
      PROVE  DistOK'
  <2>1. excused' \subseteq Pairs
    BY <1>3 DEF OneOff, DistOK, PushesOK, Pairs
  <2> QED
    BY <1>1, <1>3, <2>1 DEF OneOff
<1>4. ASSUME NEW r \in Runs, NEW s \in Subs, Skip(r, s) PROVE DistOK'
  BY <1>4 DEF Skip, DistOK, PushesOK, CallsOK, TokensOK
<1>5. ASSUME NEW r \in Runs, NEW s \in Subs, Pick(r, s) PROVE DistOK'
  <2>1. <<s, dcont[r]>> \in Pairs
    BY DEF DistOK, CallsOK, Pairs
  <2>2. PushesOK'
    BY <1>5, <2>1 DEF Pick, Picked, DistOK, PushesOK
  <2>3. CallsOK'
    BY <1>5 DEF Pick, Picked, DistOK, CallsOK, Step, Pushing
  <2> QED
    BY <1>5, <2>2, <2>3 DEF Pick, Picked, DistOK, TokensOK
<1>6. ASSUME NEW r \in Runs, Attempt(r) PROVE DistOK'
  <2>1. AttemptOutcome(r)
    BY <1>6, PostedOK DEF Attempt, DistOK
  <2> QED
    BY <1>6, <2>1, AttemptTypes DEF Attempt, DistOK, TokensOK
<1>7. ASSUME NEW r \in Runs, AttemptWechat(r) PROVE DistOK'
  <2>1. CASE Posted(r) \/ Refused(r)
    <3>1. AttemptOutcome(r)
      BY <2>1, PostedOK DEF DistOK
    <3>2. TokensOK'
      BY <1>7, TokenTypes DEF AttemptWechat, DistOK, TokensOK
    <3> QED
      BY <1>7, <3>1, <3>2, AttemptTypes DEF AttemptWechat
  <2>2. CASE Miss(r) /\ Step(r, "fetch") /\ UNCHANGED <<sends, excused, dtries, dout>>
    <3>1. AttemptOutcome(r)
      BY <2>2 DEF AttemptOutcome, Pushing, DistOK, PushesOK, CallsOK
    <3>2. TokensOK'
      BY <2>2, TokenTypes DEF DistOK
    <3> QED
      BY <1>7, <3>1, <3>2, AttemptTypes DEF AttemptWechat
  <2> QED
    BY <1>7, <2>1, <2>2 DEF AttemptWechat, PostWith
<1>8. ASSUME NEW r \in Runs, FetchToken(r) PROVE DistOK'
  <2>1. TokensOK'
    BY <1>8, TokenTypes DEF FetchToken, DistOK
  <2>2. CASE Refused(r)
    BY <1>8, <2>1, <2>2, PostedOK, AttemptTypes DEF FetchToken, DistOK
  <2>3. CASE Step(r, "store") /\ UNCHANGED <<sends, excused, dtries, dout>>
    <3>1. AttemptOutcome(r)
      BY <2>3 DEF AttemptOutcome, Pushing, DistOK, PushesOK, CallsOK
    <3> QED
      BY <1>8, <2>1, <3>1, AttemptTypes DEF FetchToken
  <2> QED
    BY <1>8, <2>2, <2>3 DEF FetchToken
<1>9. ASSUME NEW r \in Runs, StoreToken(r) PROVE DistOK'
  <2>1. TokensOK'
    BY <1>9, TokenTypes DEF StoreToken, DistOK
  <2>2. Posted(r) \/ Refused(r)
    BY <1>9 DEF StoreToken, PostWith
  <2> QED
    BY <1>9, <2>1, <2>2, PostedOK, AttemptTypes DEF StoreToken, DistOK
<1>10. ASSUME NEW r \in Runs, Record(r) PROVE DistOK'
  <2>1. PushesOK'
    BY <1>10, PairOK DEF Record, DistOK, PushesOK, CallsOK
  <2>2. CallsOK'
    BY <1>10, AnyOK DEF Record, NextSub, Step, DistOK, CallsOK
  <2> QED
    BY <1>10, <2>1, <2>2 DEF Record, DistOK, TokensOK
<1>11. ASSUME NEW r \in Runs, Return(r), UNCHANGED calls PROVE CallsOK'
  BY <1>11, AnyOK DEF Return, Step, DistOK, CallsOK
<1>12. ASSUME NEW r \in Runs, Finish(r) PROVE DistOK'
  BY <1>11, <1>12 DEF Finish, DistOK, PushesOK, TokensOK
<1>13. ASSUME NEW r \in Runs, Stop(r) PROVE DistOK'
  <2>1. dtodo[r] \X {dcont[r]} \subseteq Pairs /\ Pair(r) \in Pairs
    BY PairOK DEF DistOK, CallsOK, Pairs
  <2>2. PushesOK'
    BY <1>13, <2>1 DEF Stop, DistOK, PushesOK
  <2>3. TokensOK'
    BY <1>13, TokenTypes DEF Stop, DistOK
  <2> QED
    BY <1>11, <1>13, <2>2, <2>3 DEF Stop, DistOK
<1>14. ASSUME ExpireToken, UNCHANGED <<stored, pushVars, callVars, calls>>
       PROVE  DistOK'
  BY <1>14 DEF ExpireToken, DistOK, PushesOK, CallsOK, TokensOK, Tokens
<1> QED
  BY <1>2, <1>3, <1>4, <1>5, <1>6, <1>7, <1>8, <1>9, <1>10, <1>12, <1>13, <1>14
  DEF NextDist, LoopStep

\* What each digest task holds is within its limit and its rules.
WindowsOK ==
  \A b \in Beats :
    /\ bpc[b] \in {"send", "commit"} => Items(b) \subseteq Matches
    /\ Cardinality(bwindow[b]) <= WindowLimit

\* A task that holds nothing more than before keeps to its limit.
LEMMA WindowShrinks ==
  ASSUME BeatsOK, WindowsOK, NEW b \in Beats, NEW W, W \subseteq bwindow[b]
  PROVE  Cardinality(W) <= WindowLimit
<1>1. IsFiniteSet(bwindow[b])
  BY DeliveryAssumption, FS_Subset DEF BeatsOK
<1>2. Cardinality(W) \in Nat /\ Cardinality(bwindow[b]) \in Nat
      /\ Cardinality(W) <= Cardinality(bwindow[b])
  BY <1>1, FS_Subset, FS_CardinalityType
<1> QED
  BY <1>2, DeliveryAssumption DEF WindowsOK

\* A task that goes on to its next subscription, or ends.
LEMMA NextDigestOK ==
  ASSUME BeatsOK, WindowsOK, NEW b \in Beats,
         NextDigest(b) \/ EndDigests(b), UNCHANGED beats
  PROVE  BeatsOK' /\ WindowsOK'
<1> USE DeliveryAssumption
<1>1. BeatsOK'
  <2>1. CASE NextDigest(b)
    BY <2>1, AnyOK DEF NextDigest, Goto, BeatsOK
  <2>2. CASE EndDigests(b)
    BY <2>2, AnyOK DEF EndDigests, Goto, BeatsOK
  <2> QED
    BY <2>1, <2>2
<1>2. /\ bpc'[b] \in {"loop", "idle"} /\ bwindow'[b] = {}
      /\ \A d \in Beats \ {b} : /\ bpc'[d] = bpc[d] /\ bsub'[d] = bsub[d]
                                /\ bwindow'[d] = bwindow[d]
  BY DEF NextDigest, EndDigests, Goto, BeatsOK
<1>3. Cardinality({}) <= WindowLimit
  BY FS_EmptySet
<1>4. WindowsOK'
  BY <1>2, <1>3 DEF WindowsOK, Items, Matches, Pairs
<1> QED
  BY <1>1, <1>4

\* A task that stays with its subscription.
LEMMA SameDigestOK ==
  ASSUME BeatsOK, WindowsOK, NEW b \in Beats, Goto(b, "commit"), bpc[b] = "send",
         UNCHANGED <<btodo, bsnap, bsub, bwindow, bleft, beats>>
  PROVE  BeatsOK' /\ WindowsOK'
<1>1. BeatsOK'
  BY DEF Goto, BeatsOK
<1>2. \A d \in Beats : bpc'[d] = bpc[d] \/ (d = b /\ bpc'[d] = "commit")
  BY DEF Goto, BeatsOK
<1> QED
  BY <1>1, <1>2 DEF WindowsOK, Items, Matches, Pairs

LEMMA ItemsOK ==
  ASSUME BeatsOK, NEW b \in Beats
  PROVE  Items(b) \subseteq Pairs /\ ShownItems(b) \subseteq Items(b)
BY DEF BeatsOK, Items, ShownItems, Shown, Pairs

LEMMA FetchTypes ==
  ASSUME DistOK, BeatsOK, WindowsOK, NEW b \in Beats, NEW s \in Subs, Fetch(b, s)
  PROVE  BeatsOK' /\ WindowsOK'
<1> USE DeliveryAssumption
<1>1. PICK W \in SUBSET stored :
        /\ Oldest(W, {c \in stored : InWindow(b, s, c)})
        /\ bwindow' = [bwindow EXCEPT ![b] = W]
  BY DEF Fetch
<1>2. BeatsOK'
  BY <1>1 DEF Fetch, Goto, BeatsOK, DistOK, PushesOK
<1>3. Cardinality(W) <= WindowLimit
  <2> DEFINE F == {c \in stored : InWindow(b, s, c)}
  <2>1. Oldest(W, F)
    BY <1>1
  <2> HIDE DEF F
  <2>2. CASE Cardinality(F) <= WindowLimit
    BY <2>1, <2>2 DEF Oldest
  <2>3. CASE ~(Cardinality(F) <= WindowLimit)
    <3>1. Cardinality(W) = WindowLimit
      BY <2>1, <2>3 DEF Oldest
    <3> QED
      BY <3>1 DEF DeliveryAssumption
  <2> QED
    BY <2>2, <2>3
<1>4. /\ bpc'[b] = "assemble" /\ bwindow'[b] = W
      /\ \A d \in Beats \ {b} : /\ bpc'[d] = bpc[d] /\ bsub'[d] = bsub[d]
                                /\ bwindow'[d] = bwindow[d]
  BY <1>1 DEF Fetch, Goto, BeatsOK
<1>5. WindowsOK'
  BY <1>3, <1>4 DEF WindowsOK, Items, Matches, Pairs
<1> QED
  BY <1>2, <1>5

LEMMA AssembleTypes ==
  ASSUME BeatsOK, WindowsOK, NEW b \in Beats, Assemble(b)
  PROVE  BeatsOK' /\ WindowsOK'
<1>1. CASE NextDigest(b)
  BY <1>1, NextDigestOK DEF Assemble
<1>2. CASE /\ bwindow' = [bwindow EXCEPT ![b] = Matched(b)]
           /\ Goto(b, "send") /\ UNCHANGED <<btodo, bsnap, bsub, bleft>>
  <2>1. Matched(b) \subseteq bwindow[b]
    BY DEF Matched
  <2>2. BeatsOK'
    BY <1>2, <2>1 DEF Assemble, Goto, BeatsOK
  <2>3. Cardinality(Matched(b)) <= WindowLimit
    BY <2>1, WindowShrinks
  <2>4. /\ bpc'[b] = "send" /\ bwindow'[b] = Matched(b) /\ UNCHANGED bsub
        /\ \A d \in Beats \ {b} : bpc'[d] = bpc[d] /\ bwindow'[d] = bwindow[d]
    BY <1>2 DEF Goto, BeatsOK
  <2>5. {bsub[b]} \X Matched(b) \subseteq Matches
    BY DEF Matched
  <2>6. WindowsOK'
    BY <2>3, <2>4, <2>5 DEF WindowsOK, Items, Matches, Pairs
  <2> QED
    BY <2>2, <2>6
<1> QED
  BY <1>1, <1>2 DEF Assemble

LEMMA SendTypes ==
  ASSUME TypeOK, NEW b \in Beats, Send(b) PROVE TypeOK'
<1>1. ShownItems(b) \subseteq Pairs /\ bsub[b] \in Subs
  BY ItemsOK DEF TypeOK, BeatsOK
<1>2. BeatsOK' /\ WindowsOK'
  BY NextDigestOK, SameDigestOK DEF Send, TypeOK, WindowsOK
<1>3. excused' \subseteq Pairs /\ disturbed' \subseteq Subs
  BY <1>1 DEF Send, TypeOK, DistOK, PushesOK, ClockOK
<1>4. sends' \in [Pairs -> Nat] /\ digestAt' \in [Subs -> 0 .. MaxTime]
  <2>1. CASE UNCHANGED <<sends, digestAt>>
    BY <2>1 DEF TypeOK, DistOK, PushesOK, ClockOK
  <2>2. CASE Delivered(b)
    BY <1>1, <2>2, DeliveryAssumption DEF Delivered, TypeOK, DistOK, PushesOK, ClockOK
  <2> QED
    BY <2>1, <2>2 DEF Send
<1>5. DistOK'
  BY <1>3, <1>4 DEF Send, TypeOK, DistOK, PushesOK, CallsOK, TokensOK
<1>6. ClockOK'
  BY <1>3, <1>4 DEF Send, TypeOK, ClockOK
<1> QED
  BY <1>2, <1>5, <1>6 DEF TypeOK, WindowsOK

LEMMA CommitTypes ==
  ASSUME TypeOK, NEW b \in Beats, Commit(b) PROVE TypeOK'
<1>1. bsub[b] \in Subs
  BY DEF TypeOK, BeatsOK
<1>2. BeatsOK' /\ WindowsOK'
  BY NextDigestOK DEF Commit, TypeOK, WindowsOK
<1>3. record' \in [Pairs -> {"none", "sent", "failed"}]
  BY DEF Commit, Recorded, TypeOK, DistOK, PushesOK
<1>4. missed' \subseteq Pairs /\ omitted' \subseteq Pairs
  <2>1. {bsub[b]} \X {c \in bleft[b] : created[c] # 0} \subseteq Pairs
    BY <1>1 DEF TypeOK, BeatsOK, Pairs
  <2> QED
    BY <2>1, ItemsOK DEF Commit, TypeOK, ClockOK
<1>5. now + 1 \in 1 .. MaxTime
  BY DeliveryAssumption DEF Commit, TypeOK, ClockOK
<1>6. ClockOK'
  BY <1>1, <1>4, <1>5 DEF Commit, TypeOK, ClockOK
<1> QED
  BY <1>2, <1>3, <1>6 DEF Commit, TypeOK, WindowsOK, DistOK, PushesOK, CallsOK, TokensOK

LEMMA TypeStep ==
  ASSUME TypeOK, [Next]_vars PROVE TypeOK'
<1> USE DeliveryAssumption
<1>1. ASSUME DistOK', UNCHANGED <<now, created, digestVars, beatVars>> PROVE TypeOK'
  BY <1>1 DEF TypeOK, ClockOK, BeatsOK, Items, Matches, Pairs
<1>2. CASE NextDist /\ UNCHANGED <<now, created, digestVars, beatVars>>
  BY <1>1, <1>2, DistTypes DEF TypeOK
<1>3. CASE TimePasses
  BY <1>3 DEF TimePasses, TypeOK, DistOK, PushesOK, CallsOK, TokensOK, ClockOK,
    BeatsOK, Items, Matches, Pairs
<1>4. ASSUME NEW c \in Contents, ProcessBegin(c) PROVE TypeOK'
  BY <1>4 DEF ProcessBegin, TypeOK, DistOK, PushesOK, CallsOK, TokensOK, ClockOK,
    BeatsOK, Items, Matches, Pairs
<1>5. ASSUME NEW c \in Contents, ProcessCommit(c) PROVE TypeOK'
  <2>1. DistOK'
    BY <1>5 DEF ProcessCommit, TypeOK, DistOK, PushesOK, CallsOK, TokensOK
  <2> QED
    BY <1>1, <1>5, <2>1 DEF ProcessCommit
<1>6. ASSUME DistOK', BeatsOK', WindowsOK', UNCHANGED <<now, created, digestVars>>
      PROVE  TypeOK'
  BY <1>6 DEF TypeOK, ClockOK, WindowsOK
<1>7. ASSUME UNCHANGED distVars PROVE DistOK'
  BY <1>7 DEF TypeOK, DistOK, PushesOK, CallsOK, TokensOK
<1>8. ASSUME NEW b \in Beats, BeatBegin(b) PROVE TypeOK'
  <2>1. BeatsOK'
    BY <1>8 DEF BeatBegin, Goto, TypeOK, BeatsOK, ClockOK, Periodic
  <2>2. bpc'[b] = "loop" /\ \A d \in Beats \ {b} : bpc'[d] = bpc[d]
    BY <1>8 DEF BeatBegin, Goto, TypeOK, BeatsOK
  <2>3. WindowsOK'
    BY <1>8, <2>2 DEF BeatBegin, TypeOK, WindowsOK, Items, Matches, Pairs
  <2> QED
    BY <1>6, <1>7, <1>8, <2>1, <2>3 DEF BeatBegin
<1>9. ASSUME NEW b \in Beats, NEW s \in Subs, Fetch(b, s) PROVE TypeOK'
  BY <1>6, <1>7, <1>9, FetchTypes DEF Fetch, TypeOK, WindowsOK
<1>10. ASSUME NEW b \in Beats, Assemble(b) PROVE TypeOK'
  BY <1>6, <1>7, <1>10, AssembleTypes DEF Assemble, TypeOK, WindowsOK
<1>11. ASSUME NEW b \in Beats, BeatEnd(b) PROVE TypeOK'
  BY <1>6, <1>7, <1>11, NextDigestOK DEF BeatEnd, TypeOK, WindowsOK
<1>12. ASSUME NEW b \in Beats, BeatStop(b) PROVE TypeOK'
  <2>1. BeatsOK' /\ WindowsOK'
    BY <1>12, NextDigestOK DEF BeatStop, TypeOK, WindowsOK
  <2>2. excused' \subseteq Pairs /\ disturbed' \subseteq Subs
    BY <1>12, ItemsOK DEF BeatStop, TypeOK, DistOK, PushesOK, ClockOK, BeatsOK
  <2> QED
    BY <1>12, <2>1, <2>2 DEF BeatStop, TypeOK, WindowsOK, DistOK, PushesOK, CallsOK,
      TokensOK, ClockOK
<1>13. CASE UNCHANGED vars
  BY <1>13 DEF TypeOK, DistOK, PushesOK, CallsOK, TokensOK, ClockOK, BeatsOK, Items,
    Matches, Pairs
<1> QED
  BY <1>2, <1>3, <1>4, <1>5, <1>8, <1>9, <1>10, <1>11, <1>12, <1>13, SendTypes,
    CommitTypes
  DEF Next, BeatStep

\* Type correctness: whatever processes and digest tasks there are, a rendered
\* digest carries only content its subscription matches, within the limit.
THEOREM TypeCorrect == Spec => []TypeOK
BY TypeInit, TypeStep, PTL DEF Spec

-----------------------------------------------------------------------------
(* The steps of a call. *)

\* What a failed attempt may leave behind.
LEMMA RetrySteps ==
  ASSUME NEW r \in Runs, CallsOK, Retry(r)
  PROVE  /\ \E l \in {"send", "record"} : Step(r, l)
         /\ dpc'[r] = "record" => dout'[r] # "sent"
         /\ \A q \in Runs \ {r} : dpc'[q] = dpc[q] /\ dout'[q] = dout[q]
BY DEF Retry, Again, Recording, Step, CallsOK

\* An attempt goes on with the push; only a delivery is about to be recorded as
\* sent, and no delivery is taken back.
LEMMA AttemptSteps ==
  ASSUME NEW r \in Runs, PushesOK, CallsOK, AttemptFrame(r),
         Posted(r) \/ Refused(r) \/ Unrendered(r)
  PROVE  /\ \E l \in {"send", "record"} : Step(r, l)
         /\ dpc'[r] = "record" /\ dout'[r] = "sent" => sends'[Pair(r)] > 0
         /\ \A q \in Runs \ {r} : dpc'[q] = dpc[q] /\ dout'[q] = dout[q]
         /\ \A p \in Pairs : sends[p] > 0 => sends'[p] > 0
<1>1. Pair(r) \in Pairs
  BY PairOK
<1>2. ASSUME sends' = [sends EXCEPT ![Pair(r)] = @ + 1]
      PROVE  sends'[Pair(r)] > 0 /\ \A p \in Pairs : sends[p] > 0 => sends'[p] > 0
  BY <1>1, <1>2 DEF PushesOK
<1>3. CASE Refused(r)
  BY <1>3, RetrySteps DEF Refused
<1>4. CASE Unrendered(r)
  BY <1>4 DEF Unrendered, Recording, Step, CallsOK
<1>5. CASE /\ sends' = [sends EXCEPT ![Pair(r)] = @ + 1]
           /\ Recording(r, "sent") /\ UNCHANGED excused
  BY <1>2, <1>5 DEF Recording, Step, CallsOK
<1>6. CASE /\ sends' = [sends EXCEPT ![Pair(r)] = @ + 1]
           /\ excused' = excused \union {Pair(r)} /\ Retry(r)
  BY <1>2, <1>6, RetrySteps
<1> QED
  BY <1>3, <1>4, <1>5, <1>6 DEF Posted

\* The digest tasks and the process step touch neither calls nor tokens.
LEMMA DeliverySteps ==
  ASSUME [Next]_vars
  PROVE  NextDist \/ UNCHANGED <<callVars, tokenVars>>
BY DEF Next, TimePasses, ProcessBegin, ProcessCommit, BeatBegin, BeatStep, BeatStop,
  Fetch, Assemble, Send, Commit, BeatEnd

-----------------------------------------------------------------------------
(* The access token. *)

\* As long as no two processes have fetched at once, the one that fetches finds
\* the key gone, and nothing kills the token it holds.
TokenInv ==
  \/ raced
  \/ /\ token # "dead"
     /\ fetching # {} => token = "none"
     /\ \A q, r \in fetching : q = r
     /\ \A r \in Runs : dpc[r] \in {"fetch", "store"} => r \in fetching
     /\ \A r \in Runs : dpc[r] = "store" => held[r] = "live"

LEMMA TokenInit == Init => TokenInv
BY DEF Init, InitDist, InitTokens, TokenInv

\* A process that is not at its token.
LEMMA NoTokenStep ==
  ASSUME CallsOK, TokenInv, NEW r \in Runs, UNCHANGED tokenVars,
         NEW l \in {"idle", "loop", "send", "record"}, Step(r, l)
  PROVE  TokenInv'
BY DEF CallsOK, TokenInv, Step

\* A process gives up, or stops.
LEMMA ForgetStep ==
  ASSUME CallsOK, TokensOK, TokenInv, NEW r \in Runs, Forget(r),
         NEW l \in {"idle", "send", "record"}, Step(r, l)
  PROVE  TokenInv'
BY DEF CallsOK, TokensOK, TokenInv, Forget, Step

LEMMA TokenCallStep ==
  ASSUME DistOK, TokenInv, NEW r \in Runs,
         AttemptWechat(r) \/ FetchToken(r) \/ StoreToken(r)
  PROVE  TokenInv'
<1> USE DEF DistOK
<1>1. AttemptFrame(r) /\ PushesOK /\ CallsOK /\ TokensOK
  BY DEF AttemptWechat, FetchToken, StoreToken
<1>2. ASSUME Posted(r) \/ Refused(r)
      PROVE  \E l \in {"send", "record"} : Step(r, l)
  BY <1>1, <1>2, AttemptSteps
<1>3. ASSUME NEW t, PostWith(r, t)
      PROVE  \E l \in {"send", "record"} : Step(r, l)
  BY <1>2, <1>3 DEF PostWith
<1>4. CASE PostWith(r, token) /\ UNCHANGED tokenVars
  BY <1>1, <1>3, <1>4, NoTokenStep
<1>5. CASE Miss(r) /\ Step(r, "fetch")
  BY <1>1, <1>5 DEF Miss, Step, TokenInv, CallsOK, TokensOK
<1>6. CASE dpc[r] = "fetch" /\ Issue(r) /\ Step(r, "store")
  BY <1>1, <1>6 DEF Issue, Killed, Step, TokenInv, CallsOK, TokensOK
<1>7. CASE Forget(r) /\ Refused(r)
  BY <1>1, <1>2, <1>7, ForgetStep
<1>8. CASE dpc[r] = "store" /\ Store(r) /\ PostWith(r, held[r])
  <2>1. PICK l \in {"send", "record"} : Step(r, l)
    BY <1>3, <1>8
  <2> QED
    BY <1>1, <1>8, <2>1 DEF Store, Step, TokenInv, CallsOK, TokensOK
<1> QED
  BY <1>4, <1>5, <1>6, <1>7, <1>8 DEF AttemptWechat, FetchToken, StoreToken

LEMMA TokenStep ==
  ASSUME TypeOK, TokenInv, [Next]_vars PROVE TokenInv'
<1> USE DEF TypeOK, DistOK
<1>1. CASE UNCHANGED <<callVars, tokenVars>>
  BY <1>1 DEF TokenInv
<1>2. CASE ExpireToken /\ UNCHANGED callVars
  BY <1>2 DEF ExpireToken, TokenInv
<1>3. ASSUME NEW r \in Runs, LoopStep(r) PROVE TokenInv'
  <2>1. CASE \E s \in Subs : Skip(r, s)
    BY <2>1 DEF Skip, TokenInv
  <2>2. CASE \E s \in Subs : Pick(r, s)
    BY <2>2, NoTokenStep DEF Pick, Picked
  <2>3. CASE Attempt(r)
    BY <2>3, AttemptSteps, NoTokenStep DEF Attempt
  <2>4. CASE AttemptWechat(r) \/ FetchToken(r) \/ StoreToken(r)
    BY <2>4, TokenCallStep
  <2>5. CASE Record(r)
    BY <2>5, NoTokenStep DEF Record, NextSub
  <2>6. CASE Finish(r)
    BY <2>6, NoTokenStep DEF Finish, Return
  <2> QED
    BY <1>3, <2>1, <2>2, <2>3, <2>4, <2>5, <2>6 DEF LoopStep
<1>4. ASSUME NEW r \in Runs, Stop(r) PROVE TokenInv'
  BY <1>4, ForgetStep DEF Stop, Return
<1>5. ASSUME NEW r \in Runs, NEW c \in Contents,
             Broadcast(r, c) \/ \E s \in Subs : OneOff(r, c, s)
      PROVE  TokenInv'
  BY <1>5, NoTokenStep DEF Broadcast, OneOff, Load
<1> QED
  BY <1>1, <1>2, <1>3, <1>4, <1>5, DeliverySteps DEF NextDist

\* However many processes send, expire, fail and stop: the cached token is dead
\* only if two of them fetched at the same time.
THEOREM DeadTokenNeedsRace == Spec => []DeadTokenExplained
<1>1. TokenInv => DeadTokenExplained
  BY DEF TokenInv, DeadTokenExplained
<1>2. TypeOK /\ TokenInv /\ [Next]_vars => TokenInv'
  BY TokenStep
<1> QED
  BY <1>1, <1>2, TokenInit, TypeCorrect, PTL DEF Spec

-----------------------------------------------------------------------------
(* The clock, and what a digest task knows. *)

\* Time stamps lie in the past, and what is stored has one.
Stamps ==
  /\ \A c \in Contents : created[c] < now
  /\ \A s \in Subs : last[s] < now /\ digestAt[s] <= now
  /\ \A c \in stored : created[c] # 0

\* The steps at which a digest task is about one subscription.
Digesting == {"assemble", "send", "commit"}

\* What a window that begins at the watermark it loaded has to hold: all that
\* had no reason to be missing.
Complete(b) ==
  \A c \in Contents \ bleft[b] :
    /\ c \in stored
    /\ created[c] >= bsnap[b][bsub[b]] /\ <<bsub[b], c>> \in Matches
         => c \in bwindow[b]

\* A digest task is about periodic subscriptions; it loaded their watermarks
\* some time ago, its window is sound and complete, and what it has rendered was
\* due.
DigestTask(b) ==
  /\ btodo[b] \subseteq Periodic
  /\ bwindow[b] \subseteq stored
  /\ \A s \in Subs : bsnap[b][s] <= last[s]
  /\ bpc[b] \in Digesting =>
       /\ bsub[b] \in Periodic
       /\ \A c \in bwindow[b] : created[c] >= bsnap[b][bsub[b]]
       /\ Complete(b)
  /\ bpc[b] \in {"send", "commit"} => Due(b, bsub[b])

DigestInv == Stamps /\ \A b \in Beats : DigestTask(b)

\* distribute creates no content.
LEMMA CallsStoreNothing ==
  ASSUME NextDist PROVE UNCHANGED stored
<1>1. ASSUME NEW r \in Runs, LoopStep(r) PROVE UNCHANGED stored
  BY <1>1 DEF LoopStep, Skip, Pick, Picked, Attempt, AttemptWechat, FetchToken,
    StoreToken, AttemptFrame, Record, Finish
<1> QED
  BY <1>1 DEF NextDist, Stop, Broadcast, OneOff, Load

\* Time does not run backwards, and no content leaves or is dated anew.
LEMMA ClockMoves ==
  ASSUME TypeOK, [Next]_vars
  PROVE  /\ now' \in Nat /\ now' >= now /\ stored \subseteq stored'
         /\ \A c \in Contents : created[c] # 0 => created'[c] = created[c]
<1>1. CASE NextDist /\ UNCHANGED <<now, created, digestVars, beatVars>>
  <2>1. UNCHANGED stored
    BY <1>1, CallsStoreNothing
  <2> QED
    BY <1>1, <2>1 DEF TypeOK, ClockOK
<1>2. CASE TimePasses \/ UNCHANGED vars
  BY <1>2, DeliveryAssumption DEF TimePasses, TypeOK, ClockOK
<1>3. ASSUME NEW c \in Contents, ProcessBegin(c) \/ ProcessCommit(c)
      PROVE  /\ now' \in Nat /\ now' >= now /\ stored \subseteq stored'
             /\ \A d \in Contents : created[d] # 0 => created'[d] = created[d]
  BY <1>3, DeliveryAssumption DEF ProcessBegin, ProcessCommit, TypeOK, ClockOK
<1>4. ASSUME NEW b \in Beats, BeatBegin(b) \/ BeatStep(b) \/ BeatStop(b)
      PROVE  now' \in Nat /\ now' >= now /\ UNCHANGED <<stored, created>>
  BY <1>4, DeliveryAssumption DEF BeatBegin, BeatStep, BeatStop, Fetch, Assemble, Send,
    Commit, BeatEnd, TypeOK, ClockOK
<1> QED
  BY <1>1, <1>2, <1>3, <1>4 DEF Next

LEMMA StampsInit == Init => DigestInv
BY DeliveryAssumption DEF Init, InitDist, InitDelivery, DigestInv, Stamps, DigestTask, Digesting

LEMMA StampsStep ==
  ASSUME TypeOK, DigestInv, [Next]_vars PROVE Stamps'
<1> USE DeliveryAssumption DEF TypeOK, ClockOK, DigestInv, Stamps
<1>1. CASE UNCHANGED <<stored, created, last, digestAt>> 
  BY <1>1, ClockMoves
<1>2. ASSUME NEW c \in Contents, ProcessBegin(c) \/ ProcessCommit(c) PROVE Stamps'
  BY <1>2 DEF ProcessBegin, ProcessCommit, DistOK, PushesOK
<1>3. ASSUME NEW b \in Beats, Send(b) PROVE Stamps'
  BY <1>3 DEF Send, Delivered, BeatsOK
<1>4. ASSUME NEW b \in Beats, Commit(b) PROVE Stamps'
  BY <1>4 DEF Commit, BeatsOK
<1>5. CASE NextDist /\ UNCHANGED <<now, created, digestVars, beatVars>>
  <2>1. UNCHANGED stored
    BY <1>5, CallsStoreNothing
  <2> QED
    BY <1>1, <1>5, <2>1
<1>6. CASE TimePasses \/ UNCHANGED vars
  BY <1>1, <1>6 DEF TimePasses
<1>7. ASSUME NEW b \in Beats, NEW s \in Subs,
             \/ BeatBegin(b) \/ Fetch(b, s) \/ Assemble(b) \/ BeatEnd(b) \/ BeatStop(b)
      PROVE  Stamps'
  BY <1>1, <1>7 DEF BeatBegin, Fetch, Assemble, BeatEnd, BeatStop
<1> QED
  BY <1>2, <1>3, <1>4, <1>5, <1>6, <1>7, DistributionAssumption DEF Next, BeatStep

\* What digest task d knows stays as it is.
Untouched(d) ==
  /\ bpc'[d] = bpc[d] /\ btodo'[d] = btodo[d] /\ bsnap'[d] = bsnap[d]
  /\ bsub'[d] = bsub[d] /\ bwindow'[d] = bwindow[d] /\ bleft'[d] = bleft[d]

\* The digest tasks are independent processes.
LEMMA OneBeatMoves ==
  ASSUME TypeOK, NEW b \in Beats, BeatBegin(b) \/ BeatStep(b) \/ BeatStop(b)
  PROVE  \A d \in Beats \ {b} : Untouched(d)
BY DEF BeatBegin, BeatStep, BeatStop, Fetch, Assemble, Send, Commit, BeatEnd, NextDigest,
  EndDigests, Goto, Untouched, TypeOK, BeatsOK

\* Watermarks do not move back.
LEMMA LastMoves ==
  ASSUME TypeOK, DigestInv, [Next]_vars
  PROVE  \A s \in Subs : last'[s] >= last[s]
<1> USE DEF TypeOK, ClockOK
<1>1. CASE UNCHANGED last
  BY <1>1
<1>2. ASSUME NEW b \in Beats, Commit(b) PROVE \A s \in Subs : last'[s] >= last[s]
  BY <1>2 DEF Commit, DigestInv, Stamps
<1> QED
  BY <1>1, <1>2 DEF Next, TimePasses, ProcessBegin, ProcessCommit, BeatBegin, BeatStep,
    BeatStop, Fetch, Assemble, Send, BeatEnd

\* Time passing, content arriving and what the others do leave a task right.
LEMMA TaskKept ==
  ASSUME TypeOK, DigestInv, [Next]_vars, NEW d \in Beats, Untouched(d)
  PROVE  DigestTask(d)'
<1>1. /\ now' >= now /\ stored \subseteq stored'
      /\ \A c \in stored : created'[c] = created[c]
  BY ClockMoves DEF TypeOK, DistOK, PushesOK, DigestInv, Stamps
<1>2. DigestTask(d)
  BY DEF DigestInv
<1>3. now \in Nat /\ now' \in Nat /\ bsnap[d][bsub[d]] \in Nat /\ Interval[bsub[d]] \in Nat
  BY TypeStep, DeliveryAssumption DEF TypeOK, ClockOK, BeatsOK
<1>4. Due(d, bsub[d]) => Due(d, bsub[d])'
  BY <1>1, <1>3 DEF Due, Untouched
<1>5. \A s \in Subs : bsnap'[d][s] <= last'[s]
  <2>1. \A s \in Subs : bsnap'[d][s] <= last[s] /\ last[s] <= last'[s]
    BY <1>2, LastMoves DEF DigestTask, Untouched
  <2>2. \A s \in Subs : last[s] \in Nat /\ last'[s] \in Nat /\ bsnap'[d][s] \in Nat
    BY TypeStep, DeliveryAssumption DEF TypeOK, ClockOK, BeatsOK
  <2> QED
    BY <2>1, <2>2
<1>6. Complete(d) => Complete(d)'
  BY <1>1 DEF Complete, Untouched, Matches, Pairs
<1> QED
  BY <1>1, <1>2, <1>4, <1>5, <1>6 DEF DigestTask, Untouched

\* The query misses only what it may miss: had it left an item out although there
\* is room, the items it took instead would all be older.
LEMMA FetchComplete ==
  ASSUME TypeOK, DigestInv, NEW b \in Beats, NEW s \in Subs, Fetch(b, s)
  PROVE  Complete(b)'
<1> USE DEF TypeOK, ClockOK, BeatsOK, DistOK, PushesOK
<1> DEFINE F == {c \in stored : InWindow(b, s, c)}
<1>1. PICK W \in SUBSET stored : Oldest(W, F) /\ bwindow' = [bwindow EXCEPT ![b] = W]
  BY DEF Fetch
<1>2. /\ bwindow'[b] = W /\ bsub'[b] = s /\ bleft'[b] = {c \in Contents : MayMiss(b, s, c)}
      /\ UNCHANGED <<stored, created, bsnap>>
  BY <1>1 DEF Fetch
<1>3. now \in Nat /\ bsnap[b][s] \in Nat /\ Interval[s] \in Nat
      /\ \A c \in Contents : created[c] \in Nat
  BY DeliveryAssumption
<1>4. ASSUME NEW c \in Contents, ~MayMiss(b, s, c), created[c] >= bsnap[b][s]
      PROVE  c \in W
  <2> DEFINE waiting(d) == IF bsnap[b][s] = 0 THEN now - created[d] <= Interval[s]
                                             ELSE bsnap[b][s] <= created[d]
             V == {d \in stored \ {c} : waiting(d) /\ created[d] <= created[c]}
  <2>1. c \in stored /\ ~(Cardinality(V) >= WindowLimit)
        /\ ~(bsnap[b][s] = 0 /\ now - created[c] > Interval[s])
    BY <1>4 DEF MayMiss
  <2>2. c \in F
    BY <1>3, <1>4, <2>1 DEF InWindow
  <2>3. SUFFICES ASSUME c \notin W PROVE FALSE
    OBVIOUS
  <2>4. W \subseteq F /\ Cardinality(W) = WindowLimit /\ \A d \in W : created[d] <= created[c]
    BY <1>1, <2>2, <2>3 DEF Oldest
  <2>5. \A d \in F : waiting(d)
    BY <1>3 DEF InWindow
  <2>6. W \subseteq V
    BY <2>3, <2>4, <2>5
  <2>7. IsFiniteSet(V)
    BY DeliveryAssumption, FS_Subset
  <2> HIDE DEF F, V
  <2>8. Cardinality(W) <= Cardinality(V) /\ Cardinality(V) \in Nat
    BY <2>6, <2>7, FS_Subset, FS_CardinalityType
  <2> QED
    BY <2>1, <2>4, <2>8, DeliveryAssumption
<1>5. \A c \in Contents : ~MayMiss(b, s, c) => c \in stored
  BY DEF MayMiss
<1> QED
  BY <1>2, <1>4, <1>5 DEF Complete, Matches, Pairs

\* The steps of a task about its own subscription.
LEMMA TaskMoves ==
  ASSUME TypeOK, DigestInv, NEW b \in Beats, BeatBegin(b) \/ BeatStep(b) \/ BeatStop(b)
  PROVE  DigestTask(b)'
<1> USE DEF TypeOK, BeatsOK, DigestInv, DigestTask, Digesting, Goto
<1>0. \A s \in Subs : last[s] \in Nat /\ last[s] <= last[s]
  BY DEF ClockOK
<1>1. ASSUME NextDigest(b) \/ EndDigests(b), \A s \in Subs : last'[s] >= last[s],
             \A s \in Subs : last'[s] \in Nat
      PROVE  DigestTask(b)'
  <2>1. CASE NextDigest(b)
    BY <1>0, <1>1, <2>1 DEF NextDigest
  <2>2. CASE EndDigests(b)
    BY <1>0, <1>1, <2>2 DEF EndDigests
  <2> QED
    BY <1>1, <2>1, <2>2
<1>2. CASE BeatBegin(b)
  BY <1>0, <1>2 DEF BeatBegin
<1>3. ASSUME NEW s \in Subs, Fetch(b, s) PROVE DigestTask(b)'
  <2>1. PICK W \in SUBSET stored :
          /\ Oldest(W, {c \in stored : InWindow(b, s, c)})
          /\ bwindow' = [bwindow EXCEPT ![b] = W]
    BY <1>3 DEF Fetch
  <2>2. \A c \in W : c \in Contents /\ InWindow(b, s, c)
    BY <2>1 DEF Oldest, DistOK, PushesOK
  <2>3. \A c \in W : created[c] >= bsnap[b][s]
    BY <2>2 DEF InWindow, ClockOK
  <2>4. s \in Periodic
    BY <1>3 DEF Fetch
  <2>5. Complete(b)'
    BY <1>3, FetchComplete
  <2> QED
    BY <1>3, <2>1, <2>3, <2>4, <2>5 DEF Fetch
<1>4. CASE Assemble(b)
  <2>1. CASE NextDigest(b)
    BY <1>0, <1>1, <1>4, <2>1 DEF Assemble
  <2>2. CASE Due(b, bsub[b]) /\ bwindow' = [bwindow EXCEPT ![b] = Matched(b)]
             /\ Goto(b, "send") /\ UNCHANGED <<btodo, bsnap, bsub, bleft>>
    <3>1. Due(b, bsub[b])'
      BY <1>4, <2>2 DEF Assemble, Due
    <3>2. Complete(b)'
      BY <1>4, <2>2 DEF Assemble, Complete, Matched
    <3> QED
      BY <1>4, <2>2, <3>1, <3>2 DEF Assemble, Matched
  <2> QED
    BY <1>4, <2>1, <2>2 DEF Assemble
<1>5. CASE Send(b)
  <2>1. CASE NextDigest(b)
    BY <1>0, <1>1, <1>5, <2>1 DEF Send
  <2>2. CASE Goto(b, "commit") /\ UNCHANGED <<btodo, bsnap, bsub, bwindow, bleft>>
    BY <1>5, <2>2 DEF Send, Due, Complete
  <2> QED
    BY <1>5, <2>1, <2>2 DEF Send
<1>6. CASE Commit(b)
  <2>1. \A s \in Subs : last'[s] \in Nat /\ last'[s] >= last[s]
    BY <1>6 DEF Commit, ClockOK, Stamps
  <2> QED
    BY <1>1, <1>6, <2>1 DEF Commit
<1>7. CASE BeatEnd(b) \/ BeatStop(b)
  BY <1>0, <1>1, <1>7 DEF BeatEnd, BeatStop
<1> QED
  BY <1>2, <1>3, <1>4, <1>5, <1>6, <1>7 DEF BeatStep

LEMMA DigestStep ==
  ASSUME TypeOK, DigestInv, [Next]_vars PROVE DigestInv'
<1>1. CASE UNCHANGED beatVars
  <2>1. \A d \in Beats : Untouched(d)
    BY <1>1 DEF Untouched
  <2> QED
    BY <2>1, StampsStep, TaskKept DEF DigestInv
<1>2. ASSUME NEW b \in Beats, BeatBegin(b) \/ BeatStep(b) \/ BeatStop(b)
      PROVE  DigestInv'
  BY <1>2, StampsStep, OneBeatMoves, TaskMoves, TaskKept DEF DigestInv
<1> QED
  BY <1>1, <1>2 DEF Next, TimePasses, ProcessBegin, ProcessCommit

-----------------------------------------------------------------------------
(* The push history. *)

\* What a call or a digest task is about to record as sent has been delivered.
ToRecord ==
  /\ \A r \in Runs : dpc[r] = "record" /\ dout[r] = "sent" => sends[Pair(r)] > 0
  /\ \A b \in Beats : bpc[b] = "commit" => \A p \in ShownItems(b) : sends[p] > 0

SentInv == SentWasDelivered /\ ToRecord

LEMMA SentInit == Init => SentInv
BY DEF Init, InitDist, InitDelivery, SentInv, SentWasDelivered, ToRecord

\* Deliveries are never taken back.
Kept == \A p \in Pairs : sends[p] > 0 => sends'[p] > 0

\* A digest that is on its way does not change, since what it lists has been
\* stored.
LEMMA ShownKept ==
  ASSUME TypeOK, DigestInv, [Next]_vars, NEW b \in Beats, Untouched(b)
  PROVE  ShownItems(b)' = ShownItems(b)
<1>1. \A c \in bwindow[b] : created'[c] = created[c]
  BY ClockMoves DEF DigestInv, Stamps, DigestTask, TypeOK, DistOK, PushesOK
<1>2. ASSUME NEW c \in bwindow[b]
      PROVE  {d \in bwindow[b] : /\ Section[bsub[b]][d] = Section[bsub[b]][c]
                                 /\ created'[d] < created'[c]}
             = {d \in bwindow[b] : /\ Section[bsub[b]][d] = Section[bsub[b]][c]
                                   /\ created[d] < created[c]}
  BY <1>1
<1>3. Shown(b)' = Shown(b)
  BY <1>2 DEF Shown, Untouched
<1> QED
  BY <1>3 DEF ShownItems, Untouched

\* The digest tasks' part.
LEMMA BeatsKept ==
  ASSUME TypeOK, SentInv, Kept, UNCHANGED <<created, beatVars>>
  PROVE  \A b \in Beats : bpc'[b] = "commit" => \A p \in ShownItems(b)' : sends'[p] > 0
<1>1. \A b \in Beats : ShownItems(b)' = ShownItems(b) /\ ShownItems(b) \subseteq Pairs
  BY ItemsOK DEF ShownItems, Shown, TypeOK
<1> QED
  BY <1>1 DEF SentInv, ToRecord, Kept

\* The calls' part, when one call moves.
LEMMA CallsKept ==
  ASSUME TypeOK, SentInv, Kept, NEW r \in Runs,
         \A q \in Runs \ {r} : /\ dpc'[q] = dpc[q] /\ dout'[q] = dout[q]
                               /\ dsub'[q] = dsub[q] /\ dcont'[q] = dcont[q],
         dpc'[r] = "record" /\ dout'[r] = "sent" => sends'[Pair(r)'] > 0
  PROVE  \A q \in Runs :
           dpc'[q] = "record" /\ dout'[q] = "sent" => sends'[Pair(q)'] > 0
<1>1. SUFFICES ASSUME NEW q \in Runs \ {r}, dpc'[q] = "record", dout'[q] = "sent"
               PROVE  sends'[Pair(q)'] > 0
  OBVIOUS
<1>2. Pair(q)' = Pair(q) /\ Pair(q) \in Pairs
  BY PairOK DEF Pair, TypeOK, DistOK
<1> QED
  BY <1>1, <1>2 DEF SentInv, ToRecord, Kept

\* A step of one call that records nothing.
LEMMA CallStep ==
  ASSUME TypeOK, SentInv, Kept, UNCHANGED <<record, created, omitted, beatVars>>, NEW r \in Runs,
         \A q \in Runs \ {r} : /\ dpc'[q] = dpc[q] /\ dout'[q] = dout[q]
                               /\ dsub'[q] = dsub[q] /\ dcont'[q] = dcont[q],
         dpc'[r] = "record" /\ dout'[r] = "sent" => sends'[Pair(r)'] > 0
  PROVE  SentInv'
<1>1. ToRecord'
  BY BeatsKept, CallsKept DEF ToRecord
<1>2. SentWasDelivered'
  BY DEF SentInv, SentWasDelivered, Kept
<1> QED
  BY <1>1, <1>2 DEF SentInv

LEMMA AttemptSent ==
  ASSUME TypeOK, SentInv, UNCHANGED <<created, omitted, beatVars>>, NEW r \in Runs,
         Attempt(r) \/ AttemptWechat(r) \/ FetchToken(r) \/ StoreToken(r)
  PROVE  SentInv'
<1> USE DEF TypeOK, DistOK
<1>1. AttemptFrame(r) /\ Pair(r)' = Pair(r)
  BY DEF Attempt, AttemptWechat, FetchToken, StoreToken, AttemptFrame, Pair
<1>2. CASE Posted(r) \/ Refused(r) \/ Unrendered(r)
  <2>1. /\ dpc'[r] = "record" /\ dout'[r] = "sent" => sends'[Pair(r)] > 0
        /\ \A q \in Runs \ {r} : dpc'[q] = dpc[q] /\ dout'[q] = dout[q]
        /\ Kept
    BY <1>1, <1>2, AttemptSteps DEF Kept
  <2> QED
    BY <1>1, <2>1, CallStep DEF AttemptFrame
<1>3. CASE \E l \in {"fetch", "store"} : Step(r, l) /\ UNCHANGED <<sends, dout>>
  <2>1. /\ dpc'[r] # "record" /\ Kept
        /\ \A q \in Runs \ {r} : dpc'[q] = dpc[q] /\ dout'[q] = dout[q]
    BY <1>3 DEF Step, CallsOK, Kept
  <2> QED
    BY <1>1, <2>1, CallStep DEF AttemptFrame
<1> QED
  BY <1>2, <1>3 DEF Attempt, AttemptWechat, FetchToken, StoreToken, PostWith

\* A call that is not pushing any more, or not yet.
LEMMA QuietStep ==
  ASSUME TypeOK, SentInv, UNCHANGED <<record, sends, created, omitted, beatVars>>, NEW r \in Runs,
         NEW l \in {"idle", "loop", "send"}, Step(r, l),
         \A q \in Runs \ {r} : /\ dout'[q] = dout[q]
                               /\ dsub'[q] = dsub[q] /\ dcont'[q] = dcont[q]
  PROVE  SentInv'
<1>1. Kept
  BY DEF Kept
<1>2. dpc'[r] # "record" /\ \A q \in Runs \ {r} : dpc'[q] = dpc[q]
  BY DEF Step, TypeOK, DistOK, CallsOK
<1> QED
  BY <1>1, <1>2, CallStep

LEMMA RecordSent ==
  ASSUME TypeOK, SentInv, UNCHANGED <<created, omitted, beatVars>>, NEW r \in Runs, Record(r)
  PROVE  SentInv'
<1> USE DEF TypeOK, DistOK
<1>1. Kept /\ dpc'[r] # "record"
      /\ \A q \in Runs \ {r} : /\ dpc'[q] = dpc[q] /\ dout'[q] = dout[q]
                               /\ dsub'[q] = dsub[q] /\ dcont'[q] = dcont[q]
  BY DEF Record, NextSub, Step, CallsOK, Kept
<1>2. ToRecord'
  BY <1>1, BeatsKept, CallsKept DEF ToRecord
<1>3. SentWasDelivered'
  BY DEF Record, SentInv, SentWasDelivered, ToRecord, PushesOK
<1> QED
  BY <1>2, <1>3 DEF SentInv

\* A step of one digest task that records nothing.
LEMMA BeatStepSent ==
  ASSUME TypeOK, SentInv, Kept, UNCHANGED <<record, created, omitted, callVars>>,
         NEW b \in Beats,
         \A d \in Beats \ {b} : /\ bpc'[d] = bpc[d] /\ bsub'[d] = bsub[d]
                                /\ bwindow'[d] = bwindow[d],
         bpc'[b] = "commit" => \A p \in ShownItems(b)' : sends'[p] > 0
  PROVE  SentInv'
<1>1. \A r \in Runs :
        dpc'[r] = "record" /\ dout'[r] = "sent" => sends'[Pair(r)'] > 0
  BY PairOK DEF SentInv, ToRecord, Kept, Pair, TypeOK, DistOK
<1>2. \A d \in Beats \ {b} :
        ShownItems(d)' = ShownItems(d) /\ ShownItems(d) \subseteq Pairs
  BY ItemsOK DEF ShownItems, Shown, TypeOK
<1>3. ToRecord'
  BY <1>1, <1>2 DEF SentInv, ToRecord, Kept
<1>4. SentWasDelivered'
  BY DEF SentInv, SentWasDelivered, Kept
<1> QED
  BY <1>3, <1>4 DEF SentInv

\* Where a digest task may go: on to another subscription, or off.
LEMMA DigestMoves ==
  ASSUME BeatsOK, NEW b \in Beats, NextDigest(b) \/ EndDigests(b)
  PROVE  /\ bpc'[b] # "commit"
         /\ \A d \in Beats \ {b} : /\ bpc'[d] = bpc[d] /\ bsub'[d] = bsub[d]
                                   /\ bwindow'[d] = bwindow[d]
BY DEF NextDigest, EndDigests, Goto, BeatsOK

LEMMA DeliveredKept ==
  ASSUME TypeOK, NEW b \in Beats, Delivered(b)
  PROVE  Kept /\ \A p \in ShownItems(b) : sends'[p] > 0
<1>1. ShownItems(b) \subseteq Pairs
  BY ItemsOK DEF TypeOK
<1> QED
  BY <1>1 DEF Delivered, Kept, TypeOK, DistOK, PushesOK

LEMMA SendSent ==
  ASSUME TypeOK, SentInv, NEW b \in Beats, Send(b) PROVE SentInv'
<1> USE DEF TypeOK
<1>1. CASE Delivered(b) /\ Goto(b, "commit") /\ UNCHANGED <<btodo, bsnap, bsub, bwindow>>
  <2>1. /\ ShownItems(b)' = ShownItems(b)
        /\ \A d \in Beats \ {b} : bpc'[d] = bpc[d]
    BY <1>1 DEF Send, ShownItems, Shown, Goto, BeatsOK
  <2> QED
    BY <1>1, <2>1, DeliveredKept, BeatStepSent DEF Send
<1>2. CASE Delivered(b) /\ NextDigest(b)
  BY <1>2, DeliveredKept, DigestMoves, BeatStepSent DEF Send
<1>3. CASE UNCHANGED sends /\ NextDigest(b)
  BY <1>3, DigestMoves, BeatStepSent DEF Send, Kept
<1> QED
  BY <1>1, <1>2, <1>3 DEF Send

LEMMA CommitSent ==
  ASSUME TypeOK, SentInv, NEW b \in Beats, Commit(b) PROVE SentInv'
<1> USE DEF TypeOK
<1>1. SentWasDelivered'
  <2> SUFFICES ASSUME NEW p \in Pairs, record'[p] = "sent"
               PROVE  sends'[p] > 0 \/ p \in omitted'
    BY DEF SentWasDelivered
  <2>1. UNCHANGED sends /\ omitted' = omitted \union (Items(b) \ ShownItems(b))
    BY DEF Commit
  <2>2. CASE record[p] = "sent"
    BY <2>1, <2>2 DEF SentInv, SentWasDelivered
  <2>3. CASE record[p] # "sent"
    <3>1. p \in Items(b)
      BY <2>3 DEF Commit, Recorded
    <3> QED
      BY <2>1, <3>1 DEF Commit, SentInv, ToRecord
  <2> QED
    BY <2>2, <2>3
<1>2. /\ UNCHANGED <<sends, created, callVars>> /\ bpc'[b] # "commit"
      /\ \A d \in Beats \ {b} : /\ bpc'[d] = bpc[d] /\ bsub'[d] = bsub[d]
                                /\ bwindow'[d] = bwindow[d]
  BY DigestMoves DEF Commit
<1>3. ToRecord'
  BY <1>2 DEF SentInv, ToRecord, Pair, ShownItems, Shown
<1> QED
  BY <1>1, <1>3 DEF SentInv

LEMMA SentStep ==
  ASSUME TypeOK, DigestInv, SentInv, [Next]_vars PROVE SentInv'
<1> USE DEF TypeOK
<1>1. ASSUME UNCHANGED <<created, omitted, beatVars>>, NEW r \in Runs, LoopStep(r) PROVE SentInv'
  <2>1. CASE \E s \in Subs : Skip(r, s)
    BY <1>1, <2>1, CallStep DEF Skip, Kept, SentInv, ToRecord, Pair
  <2>2. CASE \E s \in Subs : Pick(r, s)
    BY <1>1, <2>2, QuietStep DEF Pick, Picked, DistOK, CallsOK
  <2>3. CASE Attempt(r) \/ AttemptWechat(r) \/ FetchToken(r) \/ StoreToken(r)
    BY <1>1, <2>3, AttemptSent
  <2>4. CASE Record(r)
    BY <1>1, <2>4, RecordSent
  <2>5. CASE Finish(r)
    BY <1>1, <2>5, QuietStep DEF Finish, Return, DistOK, CallsOK
  <2> QED
    BY <1>1, <2>1, <2>2, <2>3, <2>4, <2>5 DEF LoopStep
<1>2. ASSUME UNCHANGED <<created, omitted, beatVars>>, NEW r \in Runs, Stop(r) PROVE SentInv'
  BY <1>2, QuietStep DEF Stop, Return, DistOK, CallsOK
<1>3. ASSUME UNCHANGED <<created, omitted, beatVars>>, NEW r \in Runs, NEW c \in Contents,
             Broadcast(r, c) \/ \E s \in Subs : OneOff(r, c, s)
      PROVE  SentInv'
  BY <1>3, QuietStep DEF Broadcast, OneOff, Load, DistOK, CallsOK
<1>4. CASE UNCHANGED <<record, sends, omitted, callVars, beatVars>>
  <2>1. \A b \in Beats : ShownItems(b)' = ShownItems(b)
    BY <1>4, ShownKept DEF Untouched
  <2> QED
    BY <1>4, <2>1 DEF SentInv, SentWasDelivered, ToRecord, Pair
<1>5. CASE NextDist /\ UNCHANGED <<now, created, digestVars, beatVars>>
  BY <1>1, <1>2, <1>3, <1>4, <1>5 DEF NextDist
<1>6. CASE TimePasses \/ UNCHANGED vars
  BY <1>4, <1>6 DEF TimePasses
<1>7. CASE \E c \in Contents : ProcessBegin(c) \/ ProcessCommit(c)
  BY <1>4, <1>7 DEF ProcessBegin, ProcessCommit
<1>8. ASSUME NEW b \in Beats, BeatBegin(b) PROVE SentInv'
  <2>1. bpc'[b] # "commit" /\ \A d \in Beats \ {b} : bpc'[d] = bpc[d]
    BY <1>8 DEF BeatBegin, Goto, BeatsOK
  <2> QED
    BY <1>8, <2>1, BeatStepSent DEF BeatBegin, Kept
<1>9. ASSUME NEW b \in Beats, NEW s \in Subs, Fetch(b, s) PROVE SentInv'
  <2>1. /\ bpc'[b] # "commit"
        /\ \A d \in Beats \ {b} : /\ bpc'[d] = bpc[d] /\ bsub'[d] = bsub[d]
                                  /\ bwindow'[d] = bwindow[d]
    BY <1>9 DEF Fetch, Goto, BeatsOK
  <2> QED
    BY <1>9, <2>1, BeatStepSent DEF Fetch, Kept
<1>10. ASSUME NEW b \in Beats, Assemble(b) PROVE SentInv'
  <2>1. /\ bpc'[b] # "commit"
        /\ \A d \in Beats \ {b} : /\ bpc'[d] = bpc[d] /\ bsub'[d] = bsub[d]
                                  /\ bwindow'[d] = bwindow[d]
    BY <1>10, DigestMoves DEF Assemble, Goto, BeatsOK
  <2> QED
    BY <1>10, <2>1, BeatStepSent DEF Assemble, Kept
<1>11. ASSUME NEW b \in Beats, BeatEnd(b) PROVE SentInv'
  BY <1>11, DigestMoves, BeatStepSent DEF BeatEnd, Kept
<1>12. ASSUME NEW b \in Beats, BeatStop(b) PROVE SentInv'
  BY <1>12, DigestMoves, BeatStepSent DEF BeatStop, Kept
<1> QED
  BY <1>5, <1>6, <1>7, <1>8, <1>9, <1>10, <1>11, <1>12, SendSent, CommitSent
  DEF Next, BeatStep

\* The history of pushes is true but for what a template leaves out: what
\* distribute or a digest records as sent was delivered, or was on the list of a
\* delivered digest that did not show it, with any faults and any number of
\* processes.
THEOREM SentIsDelivered == Spec => []SentWasDelivered
<1>1. SentInv => SentWasDelivered
  BY DEF SentInv
<1>2. TypeOK /\ DigestInv /\ SentInv /\ [Next]_vars => SentInv'
  BY SentStep
<1>3. TypeOK /\ DigestInv /\ [Next]_vars => DigestInv'
  BY DigestStep
<1> QED
  BY <1>1, <1>2, <1>3, SentInit, StampsInit, TypeCorrect, PTL DEF Spec

-----------------------------------------------------------------------------
(* Loss. *)

\* Whatever is older than a watermark, committed or not, was delivered, left out
\* of the digest or missed.
LossInv ==
  \A s \in Subs, c \in Contents :
    /\ created[c] # 0 /\ created[c] < last[s]
    /\ <<s, c>> \in Matches /\ sends[<<s, c>>] = 0
    => <<s, c>> \in missed \union omitted

\* Whoever moves, deliveries are not taken back.
LEMMA KeptStep ==
  ASSUME TypeOK, [Next]_vars PROVE Kept
<1> USE DEF TypeOK, DistOK
<1>1. CASE UNCHANGED sends
  BY <1>1 DEF Kept
<1>2. ASSUME NEW r \in Runs, Posted(r) \/ Refused(r) \/ Unrendered(r), AttemptFrame(r)
      PROVE  Kept
  BY <1>2, AttemptSteps DEF Kept
<1>3. ASSUME NEW r \in Runs, LoopStep(r) PROVE Kept
  BY <1>1, <1>2, <1>3 DEF LoopStep, Skip, Pick, Picked, Attempt, AttemptWechat, FetchToken,
    StoreToken, PostWith, Record, Finish
<1>4. ASSUME NEW b \in Beats, Send(b) PROVE Kept
  BY <1>1, <1>4, DeliveredKept DEF Send
<1> QED
  BY <1>1, <1>3, <1>4 DEF Next, NextDist, Stop, Broadcast, OneOff, Load, TimePasses,
    ProcessBegin, ProcessCommit, BeatBegin, BeatStep, BeatStop, Fetch, Assemble, Commit,
    BeatEnd

\* Only the commit of a digest moves a watermark.
LEMMA WatermarkMoves ==
  ASSUME [Next]_vars PROVE UNCHANGED <<last, missed, omitted>> \/ \E b \in Beats : Commit(b)
BY DEF Next, TimePasses, ProcessBegin, ProcessCommit, BeatBegin, BeatStep, BeatStop, Fetch,
  Assemble, Send, BeatEnd

LEMMA LossStep ==
  ASSUME TypeOK, SentInv, DigestInv, LossInv, [Next]_vars PROVE LossInv'
<1> SUFFICES ASSUME NEW s \in Subs, NEW c \in Contents,
                    created'[c] # 0, created'[c] < last'[s],
                    <<s, c>> \in Matches, sends'[<<s, c>>] = 0
             PROVE  <<s, c>> \in missed' \union omitted'
  BY DEF LossInv, Matches, Pairs
<1>1. <<s, c>> \in Pairs /\ sends[<<s, c>>] = 0
  BY KeptStep DEF Kept, Pairs, TypeOK, DistOK, PushesOK
<1>2. CASE UNCHANGED <<last, missed, omitted>>
  <2>1. CASE created'[c] = created[c]
    BY <1>1, <1>2, <2>1 DEF LossInv
  <2>2. CASE created'[c] # created[c]
    <3>1. ProcessBegin(c)
      BY <2>2, <1>2 DEF Next, TimePasses, ProcessBegin, ProcessCommit, BeatBegin, BeatStep,
        BeatStop, Fetch, Assemble, Send, Commit, BeatEnd, TypeOK, ClockOK
    <3>2. created'[c] = now /\ last[s] < now
      BY <3>1 DEF ProcessBegin, TypeOK, ClockOK, DigestInv, Stamps
    <3> QED
      BY <1>2, <3>2 DEF TypeOK, ClockOK
  <2> QED
    BY <2>1, <2>2
<1>3. ASSUME NEW b \in Beats, Commit(b) PROVE <<s, c>> \in missed' \union omitted'
  <2>1. /\ UNCHANGED <<created, sends>>
        /\ missed' = missed \union ({bsub[b]} \X {d \in bleft[b] : created[d] # 0})
        /\ omitted' = omitted \union (Items(b) \ ShownItems(b))
    BY <1>3 DEF Commit
  <2>2. CASE created[c] < last[s]
    BY <1>1, <2>1, <2>2 DEF LossInv
  <2>3. CASE ~(created[c] < last[s])
    <3>1. s = bsub[b]
      BY <1>3, <2>1, <2>3 DEF Commit, TypeOK, ClockOK, BeatsOK
    <3>2. Complete(b) /\ bsnap[b][s] <= last[s]
      BY <1>3 DEF Commit, DigestInv, DigestTask, Digesting
    <3>3. created[c] >= bsnap[b][s]
      BY <2>3, <3>2, DeliveryAssumption DEF TypeOK, ClockOK, BeatsOK
    <3>4. CASE c \in bleft[b]
      BY <2>1, <3>1, <3>4
    <3>5. CASE c \notin bleft[b]
      <4>1. c \in bwindow[b]
        BY <3>1, <3>2, <3>3, <3>5 DEF Complete
      <4>2. <<s, c>> \in Items(b) \ ShownItems(b)
        BY <1>1, <1>3, <3>1, <4>1 DEF Commit, SentInv, ToRecord, Items
      <4> QED
        BY <2>1, <4>2
    <3> QED
      BY <3>4, <3>5
  <2> QED
    BY <2>2, <2>3
<1> QED
  BY <1>2, <1>3, WatermarkMoves

\* No content is lost between two digests: what is older than a subscriber's
\* watermark was delivered, was left out by the template of a digest that was
\* sent, or had one of the reasons MayMiss lists when that digest was put
\* together, however the tasks interleave and wherever they are cut off.
THEOREM LossIsExplained == Spec => []LossExplained
<1>1. Init => LossInv
  BY DEF Init, InitDelivery, LossInv
<1>2. TypeOK /\ SentInv /\ DigestInv /\ LossInv /\ [Next]_vars => LossInv'
  BY LossStep
<1>3. TypeOK /\ DigestInv /\ SentInv /\ [Next]_vars => SentInv'
  BY SentStep
<1>4. TypeOK /\ DigestInv /\ [Next]_vars => DigestInv'
  BY DigestStep
<1>5. TypeOK /\ DigestInv /\ LossInv => LossExplained
  BY DEF TypeOK, DistOK, PushesOK, DigestInv, Stamps, LossInv, LossExplained, Periodic
<1> QED
  BY <1>1, <1>2, <1>3, <1>4, <1>5, SentInit, StampsInit, TypeCorrect, PTL DEF Spec

-----------------------------------------------------------------------------
(* The interval between two digests. *)

\* The last digest of s is under its watermark, or about to be.
AtWatermark(s) ==
  digestAt[s] <= last[s] \/ \E d \in Beats : bpc[d] = "commit" /\ bsub[d] = s

IntervalInv == \A s \in Subs \ disturbed : digestAt[s] # 0 => AtWatermark(s)

LEMMA IntervalStep ==
  ASSUME TypeOK, DigestInv, IntervalInv, [Next]_vars PROVE IntervalInv'
<1> SUFFICES ASSUME NEW s \in Subs, s \notin disturbed', digestAt'[s] # 0
             PROVE  AtWatermark(s)'
  BY DEF IntervalInv
<1> USE DEF AtWatermark, IntervalInv
<1>1. CASE UNCHANGED <<last, digestAt, disturbed, bpc, bsub>>
  BY <1>1
<1>2. ASSUME NEW b \in Beats, BeatBegin(b) \/ BeatStep(b), bpc[b] # "commit",
             UNCHANGED <<last, digestAt, disturbed>>
      PROVE  AtWatermark(s)'
  BY <1>2, OneBeatMoves DEF Untouched
<1>3. ASSUME NEW b \in Beats, Send(b) PROVE AtWatermark(s)'
  <2>1. s \notin disturbed
    BY <1>3 DEF Send
  <2>2. CASE s = bsub[b]
    <3>1. CASE Goto(b, "commit") /\ UNCHANGED bsub
      BY <2>2, <3>1 DEF Goto, TypeOK, BeatsOK
    <3>2. CASE UNCHANGED <<digestAt, disturbed>>
      BY <1>2, <1>3, <3>2 DEF Send, BeatStep
    <3> QED
      BY <1>3, <2>2, <3>1, <3>2 DEF Send
  <2>3. CASE s # bsub[b]
    <3>1. digestAt'[s] = digestAt[s] /\ UNCHANGED last
      BY <1>3, <2>3 DEF Send, Delivered, TypeOK, ClockOK
    <3>2. \A d \in Beats : bpc[d] = "commit" => d # b
      BY <1>3 DEF Send
    <3> QED
      BY <1>3, <2>1, <3>1, <3>2, OneBeatMoves DEF BeatStep, Untouched
  <2> QED
    BY <2>2, <2>3
<1>4. ASSUME NEW b \in Beats, Commit(b) PROVE AtWatermark(s)'
  <2>1. CASE s = bsub[b]
    BY <1>4, <2>1 DEF Commit, TypeOK, ClockOK, DigestInv, Stamps
  <2>2. CASE s # bsub[b]
    <3>1. \A d \in Beats \ {b} : Untouched(d)
      BY <1>4, OneBeatMoves DEF BeatStep
    <3> QED
      BY <1>4, <2>2, <3>1 DEF Commit, Untouched, TypeOK, ClockOK
  <2> QED
    BY <2>1, <2>2
<1>5. ASSUME NEW b \in Beats, BeatStop(b) PROVE AtWatermark(s)'
  <2>1. ~(bpc[b] = "commit" /\ bsub[b] = s) /\ s \notin disturbed
    BY <1>5 DEF BeatStop
  <2> QED
    BY <1>5, <2>1, OneBeatMoves DEF BeatStop, Untouched
<1>6. ASSUME NEW b \in Beats, NEW q \in Subs,
             BeatBegin(b) \/ Fetch(b, q) \/ Assemble(b) \/ BeatEnd(b)
      PROVE  AtWatermark(s)'
  BY <1>2, <1>6 DEF BeatBegin, BeatStep, Fetch, Assemble, BeatEnd
<1> QED
  BY <1>1, <1>3, <1>4, <1>5, <1>6 DEF Next, BeatStep, TimePasses, ProcessBegin, ProcessCommit

\* The step that delivers a digest.
LEMMA IntervalSend ==
  ASSUME TypeOK, DigestInv, IntervalInv, NEW b \in Beats, Send(b),
         NEW s \in Subs, digestAt[s] # 0, digestAt'[s] # digestAt[s], s \notin disturbed'
  PROVE  digestAt'[s] - digestAt[s] >= Interval[s]
<1> USE DEF TypeOK, ClockOK, BeatsOK
<1>1. Delivered(b) /\ s = bsub[b] /\ digestAt'[s] = now
  BY DEF Send, Delivered
<1>2. s \notin disturbed /\ ~Stale(b)
  BY <1>1 DEF Send
<1>3. \A d \in Beats : ~(bpc[d] = "commit" /\ bsub[d] = s)
  BY <1>1, <1>2 DEF Send, Stale
<1>4. digestAt[s] <= bsnap[b][s]
  BY <1>1, <1>2, <1>3 DEF IntervalInv, AtWatermark, Stale
<1>5. Due(b, s)
  BY <1>1 DEF Send, DigestInv, DigestTask
<1>6. digestAt[s] \in Nat /\ bsnap[b][s] \in Nat /\ now \in Nat /\ Interval[s] \in Nat
  BY DeliveryAssumption
<1> QED
  BY <1>1, <1>4, <1>5, <1>6 DEF Due

\* Only the delivery of a digest changes when a subscriber had the last one.
LEMMA DigestMovesAtSend ==
  ASSUME [Next]_vars PROVE UNCHANGED digestAt \/ \E b \in Beats : Send(b)
BY DEF Next, TimePasses, ProcessBegin, ProcessCommit, BeatBegin, BeatStep, BeatStop, Fetch,
  Assemble, Commit, BeatEnd

\* Whatever the number of overlapping digest tasks and the faults, nobody gets
\* two digests within the interval unless the watermark is known to lag behind.
THEOREM IntervalIsKept == Spec => IntervalKept
<1> DEFINE Spaced == \A s \in Subs :
      digestAt[s] # 0 /\ digestAt'[s] # digestAt[s] =>
        digestAt'[s] - digestAt[s] >= Interval[s] \/ s \in disturbed'
<1>1. Init => IntervalInv
  BY DEF Init, InitDelivery, IntervalInv
<1>2. TypeOK /\ DigestInv /\ IntervalInv /\ [Next]_vars => IntervalInv'
  BY IntervalStep
<1>3. TypeOK /\ DigestInv /\ [Next]_vars => DigestInv'
  BY DigestStep
<1>4. TypeOK /\ DigestInv /\ IntervalInv /\ [Next]_vars => [Spaced]_vars
  BY IntervalSend, DigestMovesAtSend
<1> QED
  BY <1>1, <1>2, <1>3, <1>4, StampsInit, TypeCorrect, PTL DEF Spec, IntervalKept

-----------------------------------------------------------------------------
(* Duplicates. *)

\* Whoever pushes one item to a subscriber of digests was asked for it.
OneOffsExcused ==
  \A r \in Runs :
    /\ \A s \in dtodo[r] \intersect Periodic : <<s, dcont[r]>> \in excused
    /\ dpc[r] \in Pushing /\ dsub[r] \in Periodic => Pair(r) \in excused

\* A single delivery by digest is under the watermark, or about to be.
DigestedOnce(s, c) ==
  \/ sends[<<s, c>>] = 0
  \/ /\ sends[<<s, c>>] = 1 /\ c \in stored
     /\ \/ created[c] < last[s]
        \/ \E b \in Beats : bpc[b] = "commit" /\ <<s, c>> \in ShownItems(b)

DigestsOnce ==
  \A s \in Periodic, c \in Contents : <<s, c>> \notin excused => DigestedOnce(s, c)

\* The steps of a push before it has a result.
Unsettled == {"send", "fetch", "store"}

\* Nothing was delivered yet, or once, and then it is recorded or about to be.
PushedOnce(p) ==
  \/ sends[p] = 0
  \/ /\ sends[p] = 1
     /\ \A r \in Runs : dpc[r] \in Unsettled => Pair(r) # p
     /\ \/ record[p] # "none"
        \/ \E r \in Runs : dpc[r] = "record" /\ dout[r] = "sent" /\ Pair(r) = p

\* One call at a time pushes an item that is not excused.
Alone(p) ==
  \A q, r \in Runs : dpc[q] \in Pushing /\ dpc[r] \in Pushing
                       /\ Pair(q) = p /\ Pair(r) = p => q = r

CallsOnce ==
  \A p \in Pairs \ excused : p[1] \notin Periodic => PushedOnce(p) /\ Alone(p)

DupInv == OneOffsExcused /\ DigestsOnce /\ CallsOnce

\* The pairs that are excused stay so.
LEMMA ExcusesKept ==
  ASSUME [Next]_vars PROVE excused \subseteq excused'
<1>1. ASSUME NEW r \in Runs, Posted(r) \/ Refused(r) \/ Unrendered(r)
      PROVE  excused \subseteq excused'
  BY <1>1 DEF Posted, Refused, Unrendered
<1>2. ASSUME NEW r \in Runs, LoopStep(r) PROVE excused \subseteq excused'
  BY <1>1, <1>2 DEF LoopStep, Skip, Pick, Picked, Attempt, AttemptWechat, FetchToken,
    StoreToken, PostWith, Record, Finish
<1>3. CASE NextDist
  BY <1>2, <1>3 DEF NextDist, Stop, Broadcast, OneOff
<1>4. ASSUME NEW b \in Beats, BeatBegin(b) \/ BeatStep(b) \/ BeatStop(b)
      PROVE  excused \subseteq excused'
  BY <1>4 DEF BeatBegin, BeatStep, BeatStop, Fetch, Assemble, Send, Commit, BeatEnd
<1> QED
  BY <1>3, <1>4 DEF Next, TimePasses, ProcessBegin, ProcessCommit

\* What call q has before it stays as it is.
Waits(q) ==
  /\ dpc'[q] = dpc[q] /\ dout'[q] = dout[q] /\ dsub'[q] = dsub[q]
  /\ dcont'[q] = dcont[q] /\ dtodo'[q] = dtodo[q]

\* The calls are independent processes.
LEMMA OneCallMoves ==
  ASSUME TypeOK, NEW r \in Runs,
         \/ LoopStep(r) \/ Stop(r)
         \/ \E c \in Contents : Broadcast(r, c) \/ \E s \in Subs : OneOff(r, c, s)
  PROVE  \A q \in Runs \ {r} : Waits(q)
<1> USE DEF TypeOK, DistOK, CallsOK, Waits
<1>1. CASE Stop(r) \/ \E c \in Contents : Broadcast(r, c) \/ \E s \in Subs : OneOff(r, c, s)
  BY <1>1 DEF Stop, Return, Broadcast, OneOff, Load, Step
<1>2. CASE \E s \in Subs : Skip(r, s) \/ Pick(r, s)
  BY <1>2 DEF Skip, Pick, Picked, Step
<1>3. CASE Record(r) \/ Finish(r)
  BY <1>3 DEF Record, NextSub, Finish, Return, Step
<1>4. CASE Attempt(r) \/ AttemptWechat(r) \/ FetchToken(r) \/ StoreToken(r)
  <2>1. UNCHANGED <<dcont, dtodo, dsub>>
    BY <1>4 DEF Attempt, AttemptWechat, FetchToken, StoreToken, AttemptFrame
  <2>2. ASSUME Posted(r) \/ Refused(r) \/ Unrendered(r)
        PROVE  \A q \in Runs \ {r} : dpc'[q] = dpc[q] /\ dout'[q] = dout[q]
    BY <2>2 DEF Posted, Refused, Unrendered, Retry, Again, Recording, Step
  <2>3. ASSUME NEW l, Step(r, l), UNCHANGED dout
        PROVE  \A q \in Runs \ {r} : dpc'[q] = dpc[q] /\ dout'[q] = dout[q]
    BY <2>3 DEF Step
  <2> QED
    BY <1>4, <2>1, <2>2, <2>3 DEF Attempt, AttemptWechat, FetchToken, StoreToken, PostWith
<1> QED
  BY <1>1, <1>2, <1>3, <1>4 DEF LoopStep

\* An attempt at a pair of call r: how far it gets, and what it delivers.
Tried(r) ==
  /\ dpc[r] \in Unsettled /\ dpc'[r] \in Pushing
  /\ UNCHANGED <<record, dcont, dtodo, dsub>>
  /\ \/ UNCHANGED <<sends, excused>>
     \/ /\ sends' = [sends EXCEPT ![Pair(r)] = @ + 1]
        /\ \/ Pair(r) \in excused'
           \/ dpc'[r] = "record" /\ dout'[r] = "sent"

LEMMA AttemptTried ==
  ASSUME TypeOK, NEW r \in Runs,
         Attempt(r) \/ AttemptWechat(r) \/ FetchToken(r) \/ StoreToken(r)
  PROVE  Tried(r)
<1> USE DEF TypeOK, DistOK
<1>1. dpc[r] \in Unsettled /\ UNCHANGED <<record, dcont, dtodo, dsub>>
  BY DEF Attempt, AttemptWechat, FetchToken, StoreToken, AttemptFrame, Unsettled
<1>2. AttemptFrame(r)
  BY DEF Attempt, AttemptWechat, FetchToken, StoreToken
<1>3. CASE Posted(r) \/ Refused(r) \/ Unrendered(r)
  <2>1. dpc'[r] \in Pushing
    BY <1>2, <1>3, AttemptSteps DEF Step, CallsOK, Pushing
  <2>2. CASE UNCHANGED <<sends, excused>>
    BY <1>1, <2>1, <2>2 DEF Tried
  <2>3. CASE /\ sends' = [sends EXCEPT ![Pair(r)] = @ + 1]
             /\ Recording(r, "sent") /\ UNCHANGED excused
    BY <1>1, <2>1, <2>3 DEF Tried, Recording, Step, CallsOK
  <2>4. CASE /\ sends' = [sends EXCEPT ![Pair(r)] = @ + 1]
             /\ excused' = excused \union {Pair(r)}
    BY <1>1, <2>1, <2>4 DEF Tried
  <2> QED
    BY <1>3, <2>2, <2>3, <2>4 DEF Posted, Refused, Unrendered
<1>4. CASE \E l \in {"fetch", "store"} : Step(r, l) /\ UNCHANGED <<sends, excused>>
  BY <1>1, <1>4 DEF Tried, Step, CallsOK, Pushing
<1> QED
  BY <1>3, <1>4 DEF Attempt, AttemptWechat, FetchToken, StoreToken, PostWith

LEMMA DupInit == Init => DupInv
BY DEF Init, InitDist, DupInv, OneOffsExcused, DigestsOnce, DigestedOnce, CallsOnce,
  PushedOnce, Alone, Pushing, Unsettled, Pairs, Periodic

-----------------------------------------------------------------------------
(* Who pushes to a subscriber of digests. *)

LEMMA OneOffWaits ==
  ASSUME OneOffsExcused, [Next]_vars, NEW r \in Runs, Waits(r)
  PROVE  /\ \A s \in dtodo'[r] \intersect Periodic : <<s, dcont'[r]>> \in excused'
         /\ dpc'[r] \in Pushing /\ dsub'[r] \in Periodic => Pair(r)' \in excused'
BY ExcusesKept DEF OneOffsExcused, Waits, Pair

LEMMA OneOffMoves ==
  ASSUME TypeOK, OneOffsExcused, [Next]_vars, NEW r \in Runs,
         \/ LoopStep(r) \/ Stop(r)
         \/ \E c \in Contents : Broadcast(r, c) \/ \E s \in Subs : OneOff(r, c, s)
  PROVE  /\ \A s \in dtodo'[r] \intersect Periodic : <<s, dcont'[r]>> \in excused'
         /\ dpc'[r] \in Pushing /\ dsub'[r] \in Periodic => Pair(r)' \in excused'
<1> USE ExcusesKept DEF TypeOK, DistOK, CallsOK, OneOffsExcused, Pair, Pushing, Step
<1>1. ASSUME NEW c \in Contents, Broadcast(r, c)
      PROVE  dtodo'[r] \intersect Periodic = {} /\ dpc'[r] = "loop"
  BY <1>1 DEF Broadcast, Load, Realtime, Periodic
<1>2. ASSUME NEW c \in Contents, NEW s \in Subs, OneOff(r, c, s)
      PROVE  /\ \A q \in dtodo'[r] \intersect Periodic : <<q, dcont'[r]>> \in excused'
             /\ dpc'[r] = "loop"
  BY <1>2 DEF OneOff, Load
<1>3. ASSUME NEW s \in Subs, Pick(r, s)
      PROVE  /\ dtodo'[r] \subseteq dtodo[r] /\ UNCHANGED dcont
             /\ dsub'[r] = s /\ s \in dtodo[r]
  BY <1>3 DEF Pick, Picked
<1>4. ASSUME NEW s \in Subs, Skip(r, s)
      PROVE  dtodo'[r] \subseteq dtodo[r] /\ UNCHANGED <<dpc, dsub, dcont>>
  BY <1>4 DEF Skip
<1>5. CASE Attempt(r) \/ AttemptWechat(r) \/ FetchToken(r) \/ StoreToken(r)
  BY <1>5, AttemptTried DEF Tried, Unsettled
<1>6. CASE Record(r)
  BY <1>6 DEF Record, NextSub
<1>7. CASE Finish(r) \/ Stop(r)
  BY <1>7 DEF Finish, Stop, Return
<1> QED
  BY <1>1, <1>2, <1>3, <1>4, <1>5, <1>6, <1>7 DEF LoopStep

LEMMA OneOffStep ==
  ASSUME TypeOK, OneOffsExcused, [Next]_vars PROVE OneOffsExcused'
<1>1. CASE UNCHANGED callVars
  BY <1>1, OneOffWaits DEF Waits, OneOffsExcused
<1>2. ASSUME NEW r \in Runs,
             \/ LoopStep(r) \/ Stop(r)
             \/ \E c \in Contents : Broadcast(r, c) \/ \E s \in Subs : OneOff(r, c, s)
      PROVE  OneOffsExcused'
  BY <1>2, OneCallMoves, OneOffWaits, OneOffMoves DEF OneOffsExcused
<1> QED
  BY <1>1, <1>2, DeliverySteps DEF NextDist

-----------------------------------------------------------------------------
(* Digests deliver once. *)

\* Nobody delivers, no watermark moves, and no digest leaves its commit.
LEMMA DigestsWait ==
  ASSUME TypeOK, DigestInv, [Next]_vars, NEW s \in Periodic, NEW c \in Contents,
         DigestedOnce(s, c), sends'[<<s, c>>] = sends[<<s, c>>], UNCHANGED last,
         \A b \in Beats : bpc[b] = "commit" /\ <<s, c>> \in ShownItems(b) => Untouched(b)
  PROVE  DigestedOnce(s, c)'
<1>1. c \in stored => c \in stored' /\ created'[c] = created[c]
  BY ClockMoves DEF DigestInv, Stamps
<1>2. \A b \in Beats : Untouched(b) => ShownItems(b)' = ShownItems(b)
  BY ShownKept
<1> QED
  BY <1>1, <1>2 DEF DigestedOnce, Untouched

LEMMA DigestSend ==
  ASSUME TypeOK, DigestInv, [Next]_vars, NEW b \in Beats, Send(b),
         NEW s \in Periodic, NEW c \in Contents, <<s, c>> \notin excused',
         DigestedOnce(s, c)
  PROVE  DigestedOnce(s, c)'
<1> USE DEF TypeOK
<1>1. \A d \in Beats : bpc[d] = "commit" => Untouched(d)
  BY OneBeatMoves DEF BeatStep, Send
<1>2. <<s, c>> \in Pairs
  BY DEF Pairs, Periodic
<1>3. CASE UNCHANGED sends
  BY <1>1, <1>3, DigestsWait DEF Send
<1>4. CASE Delivered(b) /\ <<s, c>> \notin ShownItems(b)
  BY <1>1, <1>2, <1>4, DigestsWait DEF Send, Delivered
<1>5. CASE Delivered(b) /\ <<s, c>> \in ShownItems(b) /\ sends' # sends
  <2>1. ~Stale(b) /\ Goto(b, "commit") /\ UNCHANGED <<bsub, bwindow, stored, created, last>>
    BY <1>5 DEF Send
  <2>2. s = bsub[b] /\ c \in bwindow[b]
    BY <1>5 DEF ShownItems, Shown
  <2>3. created[c] >= last[s] /\ c \in stored
    BY <2>1, <2>2 DEF Send, Stale, DigestInv, DigestTask, Digesting
  <2>4. \A d \in Beats : ~(bpc[d] = "commit" /\ <<s, c>> \in ShownItems(d))
    BY <2>1, <2>2 DEF Send, Stale, ShownItems
  <2>5. sends[<<s, c>>] = 0
    BY <2>3, <2>4 DEF DigestedOnce, ClockOK, Periodic
  <2>6. sends'[<<s, c>>] = 1
    BY <1>2, <1>5, <2>5 DEF Delivered
  <2>7. bpc'[b] = "commit" /\ <<s, c>> \in ShownItems(b)'
    BY <1>5, <2>1 DEF Goto, BeatsOK, ShownItems, Shown
  <2> QED
    BY <2>1, <2>3, <2>6, <2>7 DEF DigestedOnce
<1> QED
  BY <1>3, <1>4, <1>5 DEF Send

LEMMA DigestCommit ==
  ASSUME TypeOK, DigestInv, [Next]_vars, NEW b \in Beats, Commit(b),
         NEW s \in Periodic, NEW c \in Contents, DigestedOnce(s, c)
  PROVE  DigestedOnce(s, c)'
<1>1. UNCHANGED <<sends, stored, created>>
  BY DEF Commit
<1>2. CASE s = bsub[b]
  <2>1. last'[s] = now /\ created[c] < now
    BY <1>2 DEF Commit, DigestInv, Stamps, TypeOK, ClockOK, Periodic
  <2> QED
    BY <1>1, <2>1 DEF DigestedOnce
<1>3. CASE s # bsub[b]
  <2>1. last'[s] = last[s]
    BY <1>3 DEF Commit, TypeOK, ClockOK, Periodic
  <2>2. \A d \in Beats : <<s, c>> \in ShownItems(d) => d # b
    BY <1>3 DEF ShownItems
  <2>3. \A d \in Beats \ {b} : Untouched(d)
    BY OneBeatMoves DEF BeatStep
  <2> QED
    BY <1>1, <2>1, <2>2, <2>3, ShownKept DEF DigestedOnce, Untouched
<1> QED
  BY <1>2, <1>3

LEMMA DigestsStep ==
  ASSUME TypeOK, DigestInv, DupInv, [Next]_vars PROVE DigestsOnce'
<1> SUFFICES ASSUME NEW s \in Periodic, NEW c \in Contents, <<s, c>> \notin excused'
             PROVE  DigestedOnce(s, c)'
  BY DEF DigestsOnce, Periodic
<1> USE DEF TypeOK
<1>1. <<s, c>> \notin excused /\ <<s, c>> \in Pairs /\ DigestedOnce(s, c)
  BY ExcusesKept DEF DupInv, DigestsOnce, Pairs, Periodic
<1>2. CASE UNCHANGED <<sends, last>> /\ \A b \in Beats : bpc[b] = "commit" => Untouched(b)
  BY <1>1, <1>2, DigestsWait
<1>3. ASSUME NEW r \in Runs, UNCHANGED <<last, beatVars>>,
             Attempt(r) \/ AttemptWechat(r) \/ FetchToken(r) \/ StoreToken(r)
      PROVE  DigestedOnce(s, c)'
  <2>1. Tried(r)
    BY <1>3, AttemptTried
  <2>2. Pair(r) # <<s, c>>
    BY <1>1, <2>1 DEF Tried, Unsettled, Pushing, Pair, DupInv, OneOffsExcused
  <2>3. sends'[<<s, c>>] = sends[<<s, c>>]
    BY <1>1, <2>1, <2>2 DEF Tried, DistOK, PushesOK
  <2> QED
    BY <1>1, <1>3, <2>3, DigestsWait DEF Untouched
<1>4. ASSUME NEW r \in Runs, UNCHANGED <<last, beatVars>>, LoopStep(r)
      PROVE  DigestedOnce(s, c)'
  BY <1>2, <1>3, <1>4 DEF LoopStep, Skip, Pick, Picked, Record, Finish, Untouched
<1>5. CASE NextDist /\ UNCHANGED <<now, created, digestVars, beatVars>>
  BY <1>2, <1>4, <1>5 DEF NextDist, Stop, Broadcast, OneOff, Load, Untouched
<1>6. CASE TimePasses \/ UNCHANGED vars
           \/ \E d \in Contents : ProcessBegin(d) \/ ProcessCommit(d)
  BY <1>2, <1>6 DEF TimePasses, ProcessBegin, ProcessCommit, Untouched
<1>7. ASSUME NEW b \in Beats, NEW q \in Subs,
             BeatBegin(b) \/ Fetch(b, q) \/ Assemble(b) \/ BeatEnd(b)
      PROVE  DigestedOnce(s, c)'
  <2>1. bpc[b] # "commit" /\ UNCHANGED <<sends, last>>
    BY <1>7 DEF BeatBegin, Fetch, Assemble, BeatEnd
  <2> QED
    BY <1>2, <1>7, <2>1, OneBeatMoves DEF BeatStep
<1>8. ASSUME NEW b \in Beats, BeatStop(b) PROVE DigestedOnce(s, c)'
  <2>1. ~(bpc[b] = "commit" /\ <<s, c>> \in ShownItems(b)) /\ UNCHANGED <<sends, last>>
    BY <1>8 DEF BeatStop
  <2> QED
    BY <1>1, <1>8, <2>1, OneBeatMoves, DigestsWait
<1>9. ASSUME NEW b \in Beats, Send(b) \/ Commit(b) PROVE DigestedOnce(s, c)'
  BY <1>1, <1>9, DigestSend, DigestCommit
<1> QED
  BY <1>5, <1>6, <1>7, <1>8, <1>9, DistributionAssumption DEF Next, BeatStep

-----------------------------------------------------------------------------
(* Calls deliver once. *)

\* Pair p is nothing to the call that moves, neither before nor after.
LEMMA CallElsewhere ==
  ASSUME TypeOK, NEW p \in Pairs, PushedOnce(p), Alone(p), NEW r \in Runs,
         \A q \in Runs \ {r} : Waits(q),
         sends'[p] = sends[p], record[p] # "none" => record'[p] # "none",
         dpc'[r] \in Pushing => Pair(r)' # p,
         dpc[r] = "record" /\ dout[r] = "sent" /\ Pair(r) = p => record'[p] # "none"
  PROVE  PushedOnce(p)' /\ Alone(p)'
<1>1. \A q \in Runs \ {r} : dpc'[q] = dpc[q] /\ dout'[q] = dout[q] /\ Pair(q)' = Pair(q)
  BY DEF Waits, Pair
<1>2. Alone(p)'
  BY <1>1 DEF Alone
<1>3. PushedOnce(p)'
  BY <1>1 DEF PushedOnce, Unsettled, Pushing
<1> QED
  BY <1>2, <1>3

\* The gate: a pair that is picked without an overlap is new, and alone.
LEMMA PickOnce ==
  ASSUME TypeOK, NEW r \in Runs, NEW s \in Subs, Pick(r, s),
         NEW p \in Pairs, p \notin excused', PushedOnce(p), Alone(p)
  PROVE  PushedOnce(p)' /\ Alone(p)'
<1> USE DEF TypeOK, DistOK
<1>1. /\ UNCHANGED <<sends, record, dcont>> /\ dsub'[r] = s /\ dpc'[r] = "send"
      /\ dpc[r] = "loop" /\ record[<<s, dcont[r]>>] = "none"
      /\ \A q \in Runs \ {r} : Waits(q)
  BY OneCallMoves DEF Pick, Picked, Step, CallsOK, LoopStep
<1>2. CASE p # <<s, dcont[r]>>
  BY <1>1, <1>2, CallElsewhere DEF Pair
<1>3. CASE p = <<s, dcont[r]>>
  <2>1. \A q \in Runs \ {r} : ~(dpc[q] \in Pushing /\ Pair(q) = p)
    BY <1>3 DEF Pick, Picked, Overlaps
  <2>2. sends[p] = 0
    BY <1>1, <1>3, <2>1 DEF PushedOnce, Pushing
  <2>3. \A q \in Runs \ {r} : dpc'[q] = dpc[q] /\ Pair(q)' = Pair(q)
    BY <1>1 DEF Waits, Pair
  <2>4. Alone(p)'
    BY <2>1, <2>3 DEF Alone
  <2> QED
    BY <1>1, <2>2, <2>4 DEF PushedOnce
<1> QED
  BY <1>2, <1>3

\* An attempt delivers what nobody has delivered yet.
LEMMA TriedOnce ==
  ASSUME TypeOK, NEW r \in Runs, Tried(r), \A q \in Runs \ {r} : Waits(q),
         NEW p \in Pairs, p \notin excused', PushedOnce(p), Alone(p)
  PROVE  PushedOnce(p)' /\ Alone(p)'
<1> USE DEF TypeOK, DistOK
<1>1. \A q \in Runs : Pair(q)' = Pair(q)
  BY DEF Tried, Pair
<1>2. CASE p # Pair(r)
  <2>1. sends'[p] = sends[p]
    BY <1>2 DEF Tried, PushesOK
  <2> QED
    BY <1>1, <1>2, <2>1, CallElsewhere DEF Tried
<1>3. CASE p = Pair(r)
  <2>1. sends[p] = 0 /\ dpc[r] \in Pushing
    BY <1>3 DEF Tried, PushedOnce, Unsettled, Pushing
  <2>2. \A q \in Runs \ {r} : dpc'[q] \in Pushing => Pair(q)' # p
    BY <1>1, <1>3, <2>1 DEF Alone, Waits
  <2>3. Alone(p)'
    BY <2>2 DEF Alone
  <2>4. CASE UNCHANGED sends
    BY <2>1, <2>3, <2>4 DEF PushedOnce
  <2>5. CASE dpc'[r] = "record" /\ dout'[r] = "sent" /\ sends'[p] = 1
    <3>1. \A q \in Runs : dpc'[q] \in Unsettled => Pair(q)' # p
      BY <2>2, <2>5 DEF Unsettled, Pushing
    <3> QED
      BY <1>1, <1>3, <2>3, <2>5, <3>1 DEF PushedOnce
  <2> QED
    BY <1>3, <2>1, <2>4, <2>5 DEF Tried, PushesOK
<1> QED
  BY <1>2, <1>3

LEMMA CallMovesOnce ==
  ASSUME TypeOK, [Next]_vars, NEW r \in Runs,
         \/ LoopStep(r) \/ Stop(r)
         \/ \E c \in Contents : Broadcast(r, c) \/ \E s \in Subs : OneOff(r, c, s),
         NEW p \in Pairs, p \notin excused', PushedOnce(p), Alone(p)
  PROVE  PushedOnce(p)' /\ Alone(p)'
<1> USE DEF TypeOK, DistOK, CallsOK
<1>1. \A q \in Runs \ {r} : Waits(q)
  BY OneCallMoves
<1>2. CASE Attempt(r) \/ AttemptWechat(r) \/ FetchToken(r) \/ StoreToken(r)
  BY <1>1, <1>2, AttemptTried, TriedOnce
<1>3. CASE \E s \in Subs : Pick(r, s)
  BY <1>3, PickOnce
<1>4. CASE \E s \in Subs : Skip(r, s)
  BY <1>1, <1>4, CallElsewhere DEF Skip, Pushing
<1>5. CASE Record(r)
  <2>1. dpc'[r] = "loop" /\ UNCHANGED sends
    BY <1>5 DEF Record, NextSub, Step
  <2>2. /\ record[p] # "none" => record'[p] # "none"
        /\ dout[r] = "sent" /\ Pair(r) = p => record'[p] # "none"
    BY <1>5 DEF Record, PushesOK
  <2> QED
    BY <1>1, <2>1, <2>2, CallElsewhere DEF Pushing
<1>6. CASE Finish(r)
  BY <1>1, <1>6, CallElsewhere DEF Finish, Return, Step, Pushing
<1>7. CASE Stop(r)
  <2>1. dpc'[r] = "idle" /\ UNCHANGED <<sends, record>>
    BY <1>7 DEF Stop, Return, Step
  <2>2. ~(dpc[r] = "record" /\ dout[r] = "sent" /\ Pair(r) = p)
    BY <1>7 DEF Stop, Pushing
  <2> QED
    BY <1>1, <2>1, <2>2, CallElsewhere DEF Pushing
<1>8. CASE \E c \in Contents : Broadcast(r, c) \/ \E s \in Subs : OneOff(r, c, s)
  BY <1>1, <1>8, CallElsewhere DEF Broadcast, OneOff, Load, Step, Pushing
<1> QED
  BY <1>2, <1>3, <1>4, <1>5, <1>6, <1>7, <1>8 DEF LoopStep

\* The digest tasks leave everybody but their own subscribers alone.
LEMMA DigestsElsewhere ==
  ASSUME TypeOK, DigestInv, NEW b \in Beats, BeatBegin(b) \/ BeatStep(b) \/ BeatStop(b),
         NEW p \in Pairs, p[1] \notin Periodic
  PROVE  UNCHANGED callVars /\ sends'[p] = sends[p] /\ record'[p] = record[p]
<1>1. ASSUME Send(b) \/ Commit(b) PROVE p \notin Items(b) /\ p \notin ShownItems(b)
  BY <1>1 DEF Send, Commit, DigestInv, DigestTask, Digesting, Items, ShownItems
<1>2. CASE Send(b)
  BY <1>1, <1>2 DEF Send, Delivered
<1>3. CASE Commit(b)
  BY <1>1, <1>3 DEF Commit, Recorded
<1> QED
  BY <1>2, <1>3 DEF BeatBegin, BeatStep, BeatStop, Fetch, Assemble, BeatEnd

LEMMA CallsStep ==
  ASSUME TypeOK, DigestInv, DupInv, [Next]_vars PROVE CallsOnce'
<1> SUFFICES ASSUME NEW p \in Pairs, p \notin excused', p[1] \notin Periodic
             PROVE  PushedOnce(p)' /\ Alone(p)'
  BY DEF CallsOnce, Pairs, Periodic
<1>1. PushedOnce(p) /\ Alone(p)
  BY ExcusesKept DEF DupInv, CallsOnce
<1>2. ASSUME UNCHANGED callVars, sends'[p] = sends[p], record'[p] = record[p]
      PROVE  PushedOnce(p)' /\ Alone(p)'
  BY <1>1, <1>2 DEF PushedOnce, Alone, Pair
<1>3. CASE NextDist
  BY <1>1, <1>2, <1>3, CallMovesOnce DEF NextDist
<1>4. ASSUME NEW b \in Beats, BeatBegin(b) \/ BeatStep(b) \/ BeatStop(b)
      PROVE  PushedOnce(p)' /\ Alone(p)'
  BY <1>2, <1>4, DigestsElsewhere
<1>5. CASE TimePasses \/ UNCHANGED vars
           \/ \E c \in Contents : ProcessBegin(c) \/ ProcessCommit(c)
  BY <1>2, <1>5 DEF TimePasses, ProcessBegin, ProcessCommit
<1> QED
  BY <1>3, <1>4, <1>5 DEF Next

\* No subscriber receives an item twice, by calls, digests, retries or both, but
\* for the causes that are named: an overlap, a step cut off between a send and
\* its record, a lost reply, or a one-off push to a subscriber of digests.
THEOREM DuplicatesAreExplained == Spec => []DuplicatesExplained
<1>1. TypeOK /\ DupInv => DuplicatesExplained
  <2> SUFFICES ASSUME TypeOK, DupInv, NEW s \in Subs, NEW c \in Contents,
                      <<s, c>> \notin excused
               PROVE  ~(sends[<<s, c>>] > 1)
    BY DEF DuplicatesExplained, Pairs
  <2>1. CASE s \in Periodic
    BY <2>1 DEF DupInv, DigestsOnce, DigestedOnce
  <2>2. CASE s \notin Periodic
    BY <2>2 DEF DupInv, CallsOnce, PushedOnce, Pairs
  <2> QED
    BY <2>1, <2>2
<1>2. TypeOK /\ DigestInv /\ DupInv /\ [Next]_vars => DupInv'
  BY OneOffStep, DigestsStep, CallsStep DEF DupInv
<1>3. TypeOK /\ DigestInv /\ [Next]_vars => DigestInv'
  BY DigestStep
<1> QED
  BY <1>1, <1>2, <1>3, DupInit, StampsInit, TypeCorrect, PTL DEF Spec
=============================================================================
