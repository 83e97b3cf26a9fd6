-------------------------- MODULE TaskControl_proof --------------------------
(***************************************************************************)
(* Theorems about TaskControl, for every number of workers, tasks,         *)
(* schedules, requests and messages and every set of faults.               *)
(***************************************************************************)
EXTENDS TaskControl, TLAPS

USE DEF vars, runVars, apiVars, requestVars, redis, rows, broker, locals,
  history

-----------------------------------------------------------------------------
(* What the workers' helpers do to the state of the pool. *)

\* A busy worker that goes on to a step of the task body.
LEMMA Moving ==
  ASSUME WorkersType, NEW w \in Workers, pc[w] # "idle",
         NEW l \in Steps \ {"idle"}, Goto(w, l),
         cur' = cur, held' \in [Workers -> BOOLEAN],
         attempt' \in [Workers -> 0 .. MaxRetries],
         adopted' \in [Workers -> BOOLEAN]
  PROVE  WorkersType'
  BY DEF WorkersType, Goto

\* Workers that go back to the pool.
LEMMA Returning ==
  ASSUME ConstantsAssumption, WorkersType, NEW S, BackToPool(S)
  PROVE  WorkersType'
<1>1. pc' \in [Workers -> Steps]
  BY DEF WorkersType, BackToPool, Steps
<1>2. cur' \in [Workers -> 0 .. MaxMsgs]
  BY DEF ConstantsAssumption, WorkersType, BackToPool
<1>3. held' \in [Workers -> BOOLEAN] /\ adopted' \in [Workers -> BOOLEAN]
  BY DEF WorkersType, BackToPool
<1>4. attempt' \in [Workers -> 0 .. MaxRetries]
  BY DEF ConstantsAssumption, WorkersType, BackToPool
<1>5. \A w \in Workers : pc'[w] = "idle" <=> cur'[w] = 0
  BY DEF WorkersType, BackToPool
<1> QED
  BY <1>1, <1>2, <1>3, <1>4, <1>5 DEF WorkersType

\* A busy worker's message exists, so its key is one of Keys.
LEMMA Busy ==
  ASSUME BrokerType, WorkersType, NEW w \in Workers, pc[w] # "idle"
  PROVE  cur[w] \in Msgs /\ KeyOf(w) \in Keys
  BY ConstantsAssumption DEF BrokerType, WorkersType, Msgs, KeyOf, Message

\* A new message leaves the broker's records well typed.
LEMMA Publishing ==
  ASSUME BrokerType, NEW k \in Keys, NEW f \in BOOLEAN, Publish(k, f)
  PROVE  BrokerType' /\ published' \in Msgs
  BY ConstantsAssumption DEF BrokerType, Publish, Msgs, Message

-----------------------------------------------------------------------------
(* Type correctness. *)

LEMMA TypeStep ==
  ASSUME TypeOK, [Next]_vars PROVE TypeOK'
<1> USE DEF TypeOK
<1>1. ASSUME NEW w \in Workers, CheckStatus(w), UNCHANGED apiVars PROVE TypeOK'
  <2>1. pc[w] # "idle" /\ cur[w] \in Msgs /\ KeyOf(w) \in Keys
    BY <1>1, Busy DEF CheckStatus, SkipAsSucceeded, BackToPool, Goto
  <2>2. WorkersType'
    BY <1>1, <2>1, ConstantsAssumption, Moving, Returning
    DEF CheckStatus, SkipAsSucceeded, WorkersType, Steps
  <2>3. HistoryType'
    BY <1>1, <2>1 DEF CheckStatus, SkipAsSucceeded, HistoryType
  <2> QED
    BY <1>1, <2>2, <2>3
    DEF RowsType, BrokerType, ApiType, CheckStatus, SkipAsSucceeded,
        BackToPool, Goto
<1>2. ASSUME NEW w \in Workers, CheckMarker(w), UNCHANGED apiVars PROVE TypeOK'
  <2>1. pc[w] # "idle" /\ cur[w] \in Msgs /\ KeyOf(w) \in Keys
    BY <1>2, Busy DEF CheckMarker, SkipAsSucceeded, BackToPool, Goto
  <2>2. WorkersType'
    BY <1>2, <2>1, ConstantsAssumption, Moving, Returning
    DEF CheckMarker, SkipAsSucceeded, WorkersType, Steps
  <2>3. HistoryType'
    BY <1>2, <2>1 DEF CheckMarker, SkipAsSucceeded, HistoryType
  <2> QED
    BY <1>2, <2>2, <2>3
    DEF RowsType, BrokerType, ApiType, CheckMarker, SkipAsSucceeded,
        BackToPool, Goto
<1>3. ASSUME NEW w \in Workers, ForceUnlock(w), UNCHANGED apiVars PROVE TypeOK'
  <2>1. pc[w] # "idle" /\ cur[w] \in Msgs /\ KeyOf(w) \in Keys
    BY <1>3, Busy DEF ForceUnlock, Goto
  <2>2. WorkersType'
    BY <1>3, <2>1, Moving DEF ForceUnlock, WorkersType, Steps
  <2>3. lock' \in [Keys -> BOOLEAN] /\ marker' \in [Keys -> BOOLEAN]
    BY <1>3, <2>1 DEF ForceUnlock
  <2>4. HistoryType'
    BY <1>3 DEF ForceUnlock, HistoryType, Holders
  <2> QED
    BY <1>3, <2>2, <2>3, <2>4
    DEF RowsType, BrokerType, ApiType, ForceUnlock, Goto
<1>4. ASSUME NEW w \in Workers, Acquire(w), UNCHANGED apiVars PROVE TypeOK'
  <2>1. pc[w] # "idle" /\ cur[w] \in Msgs /\ KeyOf(w) \in Keys
    BY <1>4, Busy DEF Acquire, BackToPool, Goto
  <2>2. WorkersType'
    BY <1>4, <2>1, ConstantsAssumption, Moving, Returning, ZenonT(30)
    DEF Acquire, WorkersType, Steps
  <2>3. lock' \in [Keys -> BOOLEAN] /\ marker' \in [Keys -> BOOLEAN]
    BY <1>4, <2>1 DEF Acquire
  <2> QED
    BY <1>4, <2>2, <2>3
    DEF RowsType, BrokerType, HistoryType, ApiType, Acquire, BackToPool, Goto
<1>5. ASSUME NEW w \in Workers, OpenChain(w), UNCHANGED apiVars PROVE TypeOK'
  <2>1. pc[w] # "idle" /\ cur[w] \in Msgs /\ KeyOf(w) \in Keys
    BY <1>5, Busy DEF OpenChain, Goto
  <2>2. WorkersType'
    BY <1>5, <2>1, Moving DEF OpenChain, WorkersType, Steps
  <2>3. RowsType'
    BY <1>5, <2>1
    DEF OpenChain, Goto, RowsType, RowState, Status, KeyOf, IsTask, Msgs
  <2> QED
    BY <1>5, <2>2, <2>3 DEF BrokerType, HistoryType, ApiType, OpenChain, Goto
<1>6. ASSUME NEW w \in Workers, AdoptChain(w), UNCHANGED apiVars PROVE TypeOK'
  <2>1. pc[w] # "idle" /\ cur[w] \in Msgs /\ KeyOf(w) \in Keys
    BY <1>6, Busy DEF AdoptChain, Goto
  <2>2. WorkersType'
    BY <1>6, <2>1, Moving DEF AdoptChain, WorkersType, Steps
  <2>3. RowsType'
    BY <1>6, <2>1
    DEF AdoptChain, Goto, RowsType, RowState, Status, KeyOf, IsTask, Msgs
  <2> QED
    BY <1>6, <2>2, <2>3 DEF BrokerType, HistoryType, ApiType, AdoptChain, Goto
<1>7. ASSUME NEW w \in Workers, ClaimRead(w), UNCHANGED apiVars PROVE TypeOK'
  <2>1. pc[w] # "idle" /\ cur[w] \in Msgs /\ KeyOf(w) \in Keys
    BY <1>7, Busy DEF ClaimRead, ReadStatus, Goto
  <2>2. WorkersType'
    BY <1>7, <2>1, Moving DEF ClaimRead, ReadStatus, WorkersType, Steps
  <2> QED
    BY <1>7, <2>2
    DEF RowsType, BrokerType, HistoryType, ApiType, ClaimRead, ReadStatus,
        Goto
<1>8. ASSUME NEW w \in Workers, DoneRead(w), UNCHANGED apiVars PROVE TypeOK'
  <2>1. pc[w] # "idle" /\ cur[w] \in Msgs /\ KeyOf(w) \in Keys
    BY <1>8, Busy DEF DoneRead, ReadStatus, Goto
  <2>2. WorkersType'
    BY <1>8, <2>1, Moving DEF DoneRead, ReadStatus, WorkersType, Steps
  <2> QED
    BY <1>8, <2>2
    DEF RowsType, BrokerType, HistoryType, ApiType, DoneRead, ReadStatus, Goto
<1>9. ASSUME NEW w \in Workers, FailRead(w), UNCHANGED apiVars PROVE TypeOK'
  <2>1. pc[w] # "idle" /\ cur[w] \in Msgs /\ KeyOf(w) \in Keys
    BY <1>9, Busy DEF FailRead, ReadStatus, Goto
  <2>2. WorkersType'
    BY <1>9, <2>1, Moving DEF FailRead, ReadStatus, WorkersType, Steps
  <2> QED
    BY <1>9, <2>2
    DEF RowsType, BrokerType, HistoryType, ApiType, FailRead, ReadStatus, Goto
<1>10. ASSUME NEW w \in Workers, ClaimWrite(w), UNCHANGED apiVars PROVE TypeOK'
  <2>1. pc[w] # "idle" /\ cur[w] \in Msgs /\ KeyOf(w) \in Keys
    BY <1>10, Busy DEF ClaimWrite, WriteStatus, Goto
  <2>2. WorkersType'
    BY <1>10, <2>1, Moving DEF ClaimWrite, WriteStatus, WorkersType, Steps
  <2>3. RowsType'
    BY <1>10, <2>1
    DEF ClaimWrite, WriteStatus, Goto, RowsType, RowState, Status, KeyOf,
        IsTask, Msgs
  <2> QED
    BY <1>10, <2>2, <2>3
    DEF BrokerType, HistoryType, ApiType, ClaimWrite, WriteStatus, Goto
<1>11. ASSUME NEW w \in Workers, DoneWrite(w), UNCHANGED apiVars PROVE TypeOK'
  <2>1. pc[w] # "idle" /\ cur[w] \in Msgs /\ KeyOf(w) \in Keys
    BY <1>11, Busy DEF DoneWrite, WriteStatus, Goto
  <2>2. WorkersType'
    BY <1>11, <2>1, Moving DEF DoneWrite, WriteStatus, WorkersType, Steps
  <2>3. RowsType'
    BY <1>11, <2>1
    DEF DoneWrite, WriteStatus, Goto, RowsType, RowState, Status, KeyOf,
        IsTask, Msgs
  <2> QED
    BY <1>11, <2>2, <2>3
    DEF BrokerType, HistoryType, ApiType, DoneWrite, WriteStatus, Goto
<1>12. ASSUME NEW w \in Workers, FailWrite(w), UNCHANGED apiVars PROVE TypeOK'
  <2>1. pc[w] # "idle" /\ cur[w] \in Msgs /\ KeyOf(w) \in Keys
    BY <1>12, Busy DEF FailWrite, WriteStatus, Goto
  <2>2. WorkersType'
    BY <1>12, <2>1, Moving DEF FailWrite, WriteStatus, WorkersType, Steps
  <2>3. RowsType'
    BY <1>12, <2>1
    DEF FailWrite, WriteStatus, Goto, RowsType, RowState, Status, KeyOf,
        IsTask, Msgs
  <2> QED
    BY <1>12, <2>2, <2>3
    DEF BrokerType, HistoryType, ApiType, FailWrite, WriteStatus, Goto
<1>13. ASSUME NEW w \in Workers, Execute(w), UNCHANGED apiVars PROVE TypeOK'
  <2>1. pc[w] # "idle" /\ cur[w] \in Msgs /\ KeyOf(w) \in Keys
    BY <1>13, Busy DEF Execute, Goto
  <2>2. WorkersType'
    BY <1>13, <2>1, ConstantsAssumption, Moving DEF Execute, WorkersType, Steps
  <2>3. HistoryType'
    <3>1. applied' \in [Msgs -> Nat] /\ aborted' \subseteq Msgs
      BY <1>13, <2>1 DEF Execute, HistoryType
    <3> QED
      BY <1>13, <3>1 DEF Execute, HistoryType
  <2> QED
    BY <1>13, <2>2, <2>3 DEF RowsType, BrokerType, ApiType, Execute, Goto
<1>14. ASSUME NEW w \in Workers, SucceedChain(w), UNCHANGED apiVars
       PROVE TypeOK'
  <2>1. pc[w] # "idle" /\ cur[w] \in Msgs /\ KeyOf(w) \in Keys
    BY <1>14, Busy DEF SucceedChain, CloseChain, Goto
  <2>2. WorkersType'
    BY <1>14, <2>1, Moving DEF SucceedChain, CloseChain, WorkersType, Steps
  <2>3. RowsType'
    BY <1>14, <2>1
    DEF SucceedChain, CloseChain, Goto, RowsType, RowState, Status, KeyOf,
        IsTask, Msgs
  <2> QED
    BY <1>14, <2>2, <2>3
    DEF BrokerType, HistoryType, ApiType, SucceedChain, CloseChain, Goto
<1>15. ASSUME NEW w \in Workers, FailChain(w), UNCHANGED apiVars PROVE TypeOK'
  <2>1. pc[w] # "idle" /\ cur[w] \in Msgs /\ KeyOf(w) \in Keys
    BY <1>15, Busy DEF FailChain, CloseChain, Goto
  <2>2. WorkersType'
    BY <1>15, <2>1, Moving DEF FailChain, CloseChain, WorkersType, Steps
  <2>3. RowsType'
    BY <1>15, <2>1
    DEF FailChain, CloseChain, Goto, RowsType, RowState, Status, KeyOf,
        IsTask, Msgs
  <2> QED
    BY <1>15, <2>2, <2>3
    DEF BrokerType, HistoryType, ApiType, FailChain, CloseChain, Goto
<1>16. ASSUME NEW w \in Workers, MarkSucceeded(w), UNCHANGED apiVars
       PROVE TypeOK'
  <2>1. pc[w] # "idle" /\ cur[w] \in Msgs /\ KeyOf(w) \in Keys
    BY <1>16, Busy DEF MarkSucceeded, Goto
  <2>2. WorkersType'
    BY <1>16, <2>1, Moving DEF MarkSucceeded, WorkersType, Steps
  <2>3. lock' \in [Keys -> BOOLEAN] /\ marker' \in [Keys -> BOOLEAN]
    BY <1>16, <2>1 DEF MarkSucceeded
  <2> QED
    BY <1>16, <2>2, <2>3
    DEF RowsType, BrokerType, HistoryType, ApiType, MarkSucceeded, Goto
<1>17. ASSUME NEW w \in Workers, Release(w), UNCHANGED apiVars PROVE TypeOK'
  <2>1. pc[w] # "idle" /\ cur[w] \in Msgs /\ KeyOf(w) \in Keys
    BY <1>17, Busy DEF Release, BackToPool
  <2>2. WorkersType'
    BY <1>17, <2>1, ConstantsAssumption, Returning DEF Release
  <2>3. lock' \in [Keys -> BOOLEAN] /\ marker' \in [Keys -> BOOLEAN]
    BY <1>17, <2>1 DEF Release
  <2>4. HistoryType'
    BY <1>17 DEF Release, HistoryType, Holders
  <2> QED
    BY <1>17, <2>2, <2>3, <2>4
    DEF RowsType, BrokerType, ApiType, Release, BackToPool
<1>18. ASSUME NEW w \in Workers, Crash(w), UNCHANGED apiVars PROVE TypeOK'
  <2>1. pc[w] # "idle" /\ cur[w] \in Msgs /\ KeyOf(w) \in Keys
    BY <1>18, Busy DEF Crash, Kill, BackToPool
  <2>2. WorkersType'
    BY <1>18, <2>1, ConstantsAssumption, Returning DEF Crash, Kill
  <2>3. HistoryType'
    BY <1>18, <2>1 DEF Crash, Kill, HistoryType, WorkersType, Msgs
  <2> QED
    BY <1>18, <2>2, <2>3
    DEF RowsType, BrokerType, ApiType, Crash, Kill, BackToPool
<1>19. ASSUME NEW w \in Workers, NEW m \in 1 .. published, Take(w, m),
              UNCHANGED apiVars
       PROVE TypeOK'
  <2>1. WorkersType'
    BY <1>19, ConstantsAssumption DEF Take, Goto, WorkersType, BrokerType, Steps
  <2>2. BrokerType'
    BY <1>19, ConstantsAssumption DEF Take, BrokerType, Msgs
  <2> QED
    BY <1>19, <2>1, <2>2 DEF RowsType, HistoryType, ApiType, Take, Goto
<1>20. ASSUME NEW m \in 1 .. published, Redeliver(m), UNCHANGED apiVars
       PROVE TypeOK'
  <2>1. BrokerType'
    BY <1>20, ConstantsAssumption DEF Redeliver, BrokerType, Msgs
  <2> QED
    BY <1>20, <2>1 DEF RowsType, WorkersType, HistoryType, ApiType, Redeliver
<1>21. ASSUME NEW m \in 1 .. published, Discard(m), UNCHANGED apiVars
       PROVE TypeOK'
  <2>1. BrokerType'
    BY <1>21, ConstantsAssumption DEF Discard, BrokerType, Msgs
  <2> QED
    BY <1>21, <2>1 DEF RowsType, WorkersType, HistoryType, ApiType, Discard
<1>22. ASSUME NEW m \in 1 .. published, DeliverRevoke(m), UNCHANGED apiVars
       PROVE TypeOK'
  <2>1. WorkersType'
    BY <1>22, ConstantsAssumption, Returning DEF DeliverRevoke, Kill
  <2>2. BrokerType'
    BY <1>22 DEF DeliverRevoke, BrokerType
  <2>3. HistoryType'
    BY <1>22, ConstantsAssumption, m \in Msgs
    DEF DeliverRevoke, Kill, HistoryType, BrokerType, Msgs
  <2> QED
    BY <1>22, <2>1, <2>2, <2>3 DEF RowsType, ApiType, DeliverRevoke, Kill
<1>23. ASSUME NEW k \in Keys, Tick(k), UNCHANGED apiVars PROVE TypeOK'
  <2>1. BrokerType'
    BY <1>23, Publishing DEF Tick
  <2> QED
    BY <1>23, <2>1
    DEF RowsType, WorkersType, HistoryType, ApiType, Tick, Publish
<1>24. ASSUME NEW k \in Keys, ExpireLock(k), UNCHANGED apiVars PROVE TypeOK'
  <2>1. lock' \in [Keys -> BOOLEAN] /\ marker' \in [Keys -> BOOLEAN]
    BY <1>24 DEF ExpireLock
  <2>2. HistoryType'
    BY <1>24 DEF ExpireLock, HistoryType, Holders
  <2> QED
    BY <1>24, <2>1, <2>2
    DEF RowsType, BrokerType, WorkersType, ApiType, ExpireLock
<1>25. ASSUME NEW k \in Keys, ExpireMarker(k), UNCHANGED apiVars PROVE TypeOK'
  <2>1. lock' \in [Keys -> BOOLEAN] /\ marker' \in [Keys -> BOOLEAN]
    BY <1>25 DEF ExpireMarker
  <2> QED
    BY <1>25, <2>1
    DEF RowsType, BrokerType, WorkersType, HistoryType, ApiType, ExpireMarker
<1>26. ASSUME TriggerBegin PROVE TypeOK'
  <2>1. RowsType'
    BY <1>26 DEF TriggerBegin, RowsType
  <2> QED
    BY <1>26, <2>1
    DEF BrokerType, WorkersType, HistoryType, ApiType, TriggerBegin
<1>27. ASSUME TriggerAbort PROVE TypeOK'
  <2>1. RowsType'
    BY <1>27 DEF TriggerAbort, RowsType
  <2>2. ApiType'
    BY <1>27, ConstantsAssumption DEF TriggerAbort, ApiType
  <2> QED
    BY <1>27, <2>1, <2>2 DEF BrokerType, WorkersType, HistoryType, TriggerAbort
<1>28. ASSUME TriggerCommit PROVE TypeOK'
  <2>1. RowsType'
    BY <1>28 DEF TriggerCommit, RowsType, RowState, Status
  <2> QED
    BY <1>28, <2>1
    DEF BrokerType, WorkersType, HistoryType, ApiType, TriggerCommit
<1>29. ASSUME NEW t \in Tasks, TriggerDispatch(t) PROVE TypeOK'
  <2>1. BrokerType'
    BY <1>29, Publishing DEF TriggerDispatch, Keys
  <2>2. ApiType'
    BY <1>29, ConstantsAssumption
    DEF TriggerDispatch, Publish, ApiType, BrokerType
  <2> QED
    BY <1>29, <2>1, <2>2 DEF RowsType, WorkersType, HistoryType, TriggerDispatch
<1>30. ASSUME NEW a \in Apis, NEW t \in Tasks, NEW op \in ApiActions,
              ApiRead(a, t, op)
       PROVE TypeOK'
  <2>1. ApiType'
    BY <1>30, ApiAssumption DEF ApiRead, ApiType
  <2> QED
    BY <1>30, <2>1
    DEF RowsType, BrokerType, WorkersType, HistoryType, ApiRead, Resolves
<1>31. ASSUME NEW a \in Apis, ApiRevoke(a) PROVE TypeOK'
  <2>1. BrokerType'
    BY <1>31 DEF ApiRevoke, BrokerType
  <2>2. ApiType'
    BY <1>31 DEF ApiRevoke, ApiType
  <2> QED
    BY <1>31, <2>1, <2>2 DEF RowsType, WorkersType, HistoryType, ApiRevoke
<1>32. ASSUME NEW a \in Apis, ApiDispatch(a) PROVE TypeOK'
  <2>1. BrokerType'
    BY <1>32, Publishing DEF ApiDispatch, Keys, ApiType, BrokerType
  <2>2. ApiType'
    BY <1>32, ConstantsAssumption DEF ApiDispatch, Publish, ApiType, BrokerType
  <2> QED
    BY <1>32, <2>1, <2>2 DEF RowsType, WorkersType, HistoryType, ApiDispatch
<1>33. ASSUME NEW a \in Apis, ApiCommit(a) PROVE TypeOK'
  <2>1. RowsType'
    BY <1>33 DEF ApiCommit, RowsType, ApiType, Status
  <2>2. ApiType'
    BY <1>33 DEF ApiCommit, ApiType
  <2> QED
    BY <1>33, <2>1, <2>2 DEF BrokerType, WorkersType, HistoryType, ApiCommit
<1>34. CASE UNCHANGED vars
  BY <1>34 DEF RowsType, BrokerType, WorkersType, HistoryType, ApiType
<1> QED
  BY <1>1, <1>2, <1>3, <1>4, <1>5, <1>6, <1>7, <1>8, <1>9, <1>10, <1>11,
    <1>12, <1>13, <1>14, <1>15, <1>16, <1>17, <1>18, <1>19, <1>20, <1>21,
    <1>22, <1>23, <1>24, <1>25, <1>26, <1>27, <1>28, <1>29, <1>30, <1>31,
    <1>32, <1>33, <1>34
  DEF Next, NextRuns, RunStep, Trigger, Patch

\* Type correctness: every lock, row, message, worker and request stays within
\* its domain, the broker never holds a negative number of copies or more than
\* two, and a worker has a message exactly when it is not idle.
THEOREM TypeCorrect == Spec => []TypeOK
<1>1. Init => TypeOK
  BY ConstantsAssumption, ApiAssumption
  DEF Init, InitRuns, InitApi, TypeOK, RowsType, BrokerType, WorkersType,
      HistoryType, ApiType, RowState, Message, Steps, Keys, Msgs, Actions,
        Status
<1>2. TypeOK /\ [Next]_vars => TypeOK'
  BY TypeStep
<1> QED
  BY <1>1, <1>2, PTL DEF Spec

-----------------------------------------------------------------------------
(* No lock without an owner. *)

\* No worker has, and no history mentions, a message not yet published, so
\* publishing one changes the key of none.
KnownMessages ==
  /\ \A w \in Workers : cur[w] \in 0 .. published
  /\ killed \subseteq 1 .. published

\* The steps before the lock is acquired.
Outside == {"idle", "status", "marker", "unlock", "lock"}

LockInv ==
  /\ KnownMessages
  /\ \A w \in Workers : held[w] => pc[w] \notin Outside
  /\ LockAccounted

LEMMA LockPublish ==
  ASSUME TypeOK, LockInv, NEW k \in Keys, NEW f \in BOOLEAN, Publish(k, f),
         UNCHANGED <<lock, cur, held, pc, killed>>
  PROVE  LockInv'
<1>1. KnownMessages'
  BY ConstantsAssumption DEF LockInv, KnownMessages, TypeOK, BrokerType, Publish
<1>2. \A m \in 1 .. published : msg'[m] = msg[m]
  BY ConstantsAssumption DEF TypeOK, BrokerType, Publish, Msgs
<1>3. \A w \in Workers : held[w] => KeyOf(w)' = KeyOf(w)
  BY <1>2 DEF LockInv, KnownMessages, TypeOK, WorkersType, Outside, KeyOf
<1>4. LockAccounted'
  BY <1>2, <1>3 DEF LockInv, LockAccounted, KnownMessages
<1> QED
  BY <1>1, <1>4 DEF LockInv

\* Workers of S leave: what they held is unlocked, or they were killed.
LEMMA LockReturn ==
  ASSUME TypeOK, LockInv, NEW S \in SUBSET Workers, BackToPool(S),
         UNCHANGED <<published, msg>>,
         killed \subseteq killed', killed' \subseteq 1 .. published,
         lock' \in [Keys -> BOOLEAN],
         \A k \in Keys : lock'[k] => lock[k],
         \A w \in S : held[w] => ~lock'[KeyOf(w)] \/ cur[w] \in killed'
  PROVE  LockInv'
<1>1. KnownMessages'
  BY ConstantsAssumption
  DEF LockInv, KnownMessages, TypeOK, WorkersType, BrokerType, BackToPool
<1>2. \A w \in Workers : held'[w] => held[w] /\ w \notin S /\ KeyOf(w)' =
  KeyOf(w) /\ pc'[w] = pc[w]
  BY DEF BackToPool, KeyOf
<1>3. ASSUME NEW k \in Keys, lock'[k]
      PROVE  \/ \E w \in Workers : held'[w] /\ KeyOf(w)' = k
             \/ \E m \in killed' : msg'[m].key = k
  <2>1. CASE \E m \in killed : msg[m].key = k
    BY <2>1
  <2>2. CASE \E w \in Workers : held[w] /\ KeyOf(w) = k
    <3>1. PICK w \in Workers : held[w] /\ KeyOf(w) = k
      BY <2>2
    <3>2. CASE w \in S
      BY <1>3, <3>1, <3>2 DEF KeyOf
    <3>3. CASE w \notin S
      BY <3>1, <3>3 DEF BackToPool, KeyOf
    <3> QED
      BY <3>2, <3>3
  <2> QED
    BY <1>3, <2>1, <2>2 DEF LockInv, LockAccounted
<1> QED
  BY <1>1, <1>2, <1>3 DEF LockInv, LockAccounted

LEMMA LockStep ==
  ASSUME TypeOK, LockInv, [Next]_vars PROVE LockInv'
<1>1. ASSUME NEW w \in Workers, CheckStatus(w), UNCHANGED apiVars PROVE LockInv'
  <2>1. CASE SkipAsSucceeded(w)
    BY <1>1, <2>1, LockReturn
    DEF CheckStatus, SkipAsSucceeded, LockInv, KnownMessages, Outside, TypeOK
  <2>2. CASE UNCHANGED <<locals, history>>
    BY <1>1, <2>2
    DEF CheckStatus, SkipAsSucceeded, BackToPool, Goto, LockInv,
        LockAccounted, KnownMessages, Outside, TypeOK, BrokerType,
        WorkersType, KeyOf, Msgs
  <2> QED
    BY <1>1, <2>1, <2>2 DEF CheckStatus
<1>2. ASSUME NEW w \in Workers, CheckMarker(w), UNCHANGED apiVars PROVE LockInv'
  <2>1. CASE SkipAsSucceeded(w)
    BY <1>2, <2>1, LockReturn
    DEF CheckMarker, SkipAsSucceeded, LockInv, KnownMessages, Outside, TypeOK
  <2>2. CASE UNCHANGED <<locals, history>>
    BY <1>2, <2>2
    DEF CheckMarker, SkipAsSucceeded, BackToPool, Goto, LockInv,
        LockAccounted, KnownMessages, Outside, TypeOK, BrokerType,
        WorkersType, KeyOf, Msgs
  <2> QED
    BY <1>2, <2>1, <2>2 DEF CheckMarker
<1>3. ASSUME NEW w \in Workers, ForceUnlock(w), UNCHANGED apiVars PROVE LockInv'
  BY <1>3, ConstantsAssumption
  DEF LockInv, LockAccounted, KnownMessages, Outside, TypeOK, BrokerType,
      WorkersType, KeyOf, Msgs, ForceUnlock, Goto
<1>4. ASSUME NEW w \in Workers, Acquire(w), UNCHANGED apiVars PROVE LockInv'
  <2>1. CASE lock[KeyOf(w)]
    BY <1>4, <2>1, LockReturn
    DEF Acquire, LockInv, KnownMessages, Outside, TypeOK
  <2>2. CASE ~lock[KeyOf(w)]
    <3>1. KnownMessages'
      BY <1>4, <2>2 DEF Acquire, LockInv, KnownMessages
    <3>2. \A v \in Workers : held'[v] => pc'[v] \notin Outside
      BY <1>4, <2>2 DEF Acquire, LockInv, Goto, Outside, TypeOK, WorkersType
    <3>3. held'[w] /\ \A v \in Workers : (held[v] => held'[v]) /\ KeyOf(v)' =
      KeyOf(v)
      BY <1>4, <2>2 DEF Acquire, TypeOK, WorkersType, KeyOf
    <3>4. LockAccounted'
      BY <1>4, <2>2, <3>3 DEF Acquire, LockInv, LockAccounted, TypeOK
    <3> QED
      BY <3>1, <3>2, <3>4 DEF LockInv
  <2> QED
    BY <2>1, <2>2
<1>5. ASSUME NEW w \in Workers, OpenChain(w), UNCHANGED apiVars PROVE LockInv'
  BY <1>5, ConstantsAssumption, ZenonT(30)
  DEF LockInv, LockAccounted, KnownMessages, Outside, TypeOK, BrokerType,
      WorkersType, KeyOf, Msgs, OpenChain, Goto
<1>6. ASSUME NEW w \in Workers, AdoptChain(w), UNCHANGED apiVars PROVE LockInv'
  BY <1>6, ConstantsAssumption
  DEF LockInv, LockAccounted, KnownMessages, Outside, TypeOK, BrokerType,
      WorkersType, KeyOf, Msgs, AdoptChain, Goto
<1>7. ASSUME NEW w \in Workers, ClaimRead(w), UNCHANGED apiVars PROVE LockInv'
  BY <1>7, ConstantsAssumption
  DEF LockInv, LockAccounted, KnownMessages, Outside, TypeOK, BrokerType,
      WorkersType, KeyOf, Msgs, ClaimRead, ReadStatus, Goto
<1>8. ASSUME NEW w \in Workers, ClaimWrite(w), UNCHANGED apiVars PROVE LockInv'
  BY <1>8, ConstantsAssumption
  DEF LockInv, LockAccounted, KnownMessages, Outside, TypeOK, BrokerType,
      WorkersType, KeyOf, Msgs, ClaimWrite, WriteStatus, Goto
<1>9. ASSUME NEW w \in Workers, Execute(w), UNCHANGED apiVars PROVE LockInv'
  BY <1>9, ConstantsAssumption
  DEF LockInv, LockAccounted, KnownMessages, Outside, TypeOK, BrokerType,
      WorkersType, KeyOf, Msgs, Execute, Goto
<1>10. ASSUME NEW w \in Workers, SucceedChain(w), UNCHANGED apiVars
       PROVE LockInv'
  BY <1>10, ConstantsAssumption
  DEF LockInv, LockAccounted, KnownMessages, Outside, TypeOK, BrokerType,
      WorkersType, KeyOf, Msgs, SucceedChain, CloseChain, Goto
<1>11. ASSUME NEW w \in Workers, DoneRead(w), UNCHANGED apiVars PROVE LockInv'
  BY <1>11, ConstantsAssumption
  DEF LockInv, LockAccounted, KnownMessages, Outside, TypeOK, BrokerType,
      WorkersType, KeyOf, Msgs, DoneRead, ReadStatus, Goto
<1>12. ASSUME NEW w \in Workers, DoneWrite(w), UNCHANGED apiVars PROVE LockInv'
  BY <1>12, ConstantsAssumption
  DEF LockInv, LockAccounted, KnownMessages, Outside, TypeOK, BrokerType,
      WorkersType, KeyOf, Msgs, DoneWrite, WriteStatus, Goto
<1>13. ASSUME NEW w \in Workers, MarkSucceeded(w), UNCHANGED apiVars
       PROVE LockInv'
  BY <1>13, ConstantsAssumption
  DEF LockInv, LockAccounted, KnownMessages, Outside, TypeOK, BrokerType,
      WorkersType, KeyOf, Msgs, MarkSucceeded, Goto
<1>14. ASSUME NEW w \in Workers, FailChain(w), UNCHANGED apiVars PROVE LockInv'
  BY <1>14, ConstantsAssumption
  DEF LockInv, LockAccounted, KnownMessages, Outside, TypeOK, BrokerType,
      WorkersType, KeyOf, Msgs, FailChain, CloseChain, Goto
<1>15. ASSUME NEW w \in Workers, FailRead(w), UNCHANGED apiVars PROVE LockInv'
  BY <1>15, ConstantsAssumption
  DEF LockInv, LockAccounted, KnownMessages, Outside, TypeOK, BrokerType,
      WorkersType, KeyOf, Msgs, FailRead, ReadStatus, Goto
<1>16. ASSUME NEW w \in Workers, FailWrite(w), UNCHANGED apiVars PROVE LockInv'
  BY <1>16, ConstantsAssumption
  DEF LockInv, LockAccounted, KnownMessages, Outside, TypeOK, BrokerType,
      WorkersType, KeyOf, Msgs, FailWrite, WriteStatus, Goto
<1>17. ASSUME NEW w \in Workers, Release(w), UNCHANGED apiVars PROVE LockInv'
  <2>1. KeyOf(w) \in Keys
    BY <1>17, Busy DEF Release, TypeOK
  <2> QED
    BY <1>17, <2>1, LockReturn DEF Release, LockInv, KnownMessages, TypeOK
<1>18. ASSUME NEW w \in Workers, Crash(w), UNCHANGED apiVars PROVE LockInv'
  <2>1. cur[w] \in 1 .. published
    BY <1>18 DEF Crash, LockInv, KnownMessages, TypeOK, WorkersType, BrokerType
  <2> QED
    BY <1>18, <2>1, LockReturn DEF Crash, Kill, LockInv, KnownMessages, TypeOK
<1>19. ASSUME NEW w \in Workers, NEW m \in 1 .. published, Take(w, m),
              UNCHANGED apiVars
       PROVE LockInv'
  <2>1. KnownMessages'
    BY <1>19 DEF Take, LockInv, KnownMessages, TypeOK, WorkersType, BrokerType
  <2>2. \A v \in Workers : held[v] => v # w /\ pc'[v] = pc[v] /\ KeyOf(v)' =
    KeyOf(v)
    BY <1>19 DEF Take, Goto, LockInv, Outside, KeyOf, TypeOK, WorkersType
  <2>3. LockAccounted'
    BY <1>19, <2>2 DEF Take, LockInv, LockAccounted
  <2> QED
    BY <1>19, <2>1, <2>2, <2>3 DEF Take, LockInv
<1>20. ASSUME NEW m \in 1 .. published, Redeliver(m), UNCHANGED apiVars
       PROVE LockInv'
  BY <1>20, ConstantsAssumption
  DEF LockInv, LockAccounted, KnownMessages, Outside, TypeOK, BrokerType,
      WorkersType, KeyOf, Msgs, Redeliver
<1>21. ASSUME NEW m \in 1 .. published, Discard(m), UNCHANGED apiVars
       PROVE LockInv'
  BY <1>21, ConstantsAssumption
  DEF LockInv, LockAccounted, KnownMessages, Outside, TypeOK, BrokerType,
      WorkersType, KeyOf, Msgs, Discard
<1>22. ASSUME NEW m \in 1 .. published, DeliverRevoke(m), UNCHANGED apiVars
       PROVE LockInv'
  <2> DEFINE S == {w \in Workers : cur[w] = m}
  <2>1. BackToPool(S) /\ killed' = killed \union {cur[w] : w \in S}
    BY <1>22 DEF DeliverRevoke, Kill
  <2>2. {cur[w] : w \in S} \subseteq 1 .. published
    OBVIOUS
  <2> QED
    BY <1>22, <2>1, <2>2, LockReturn
    DEF DeliverRevoke, Kill, LockInv, KnownMessages, TypeOK
<1>23. ASSUME NEW k \in Keys, Tick(k), UNCHANGED apiVars PROVE LockInv'
  BY <1>23, LockPublish DEF Tick
<1>24. ASSUME NEW k \in Keys, ExpireLock(k), UNCHANGED apiVars PROVE LockInv'
  BY <1>24, ConstantsAssumption
  DEF LockInv, LockAccounted, KnownMessages, Outside, TypeOK, BrokerType,
      WorkersType, KeyOf, Msgs, ExpireLock
<1>25. ASSUME NEW k \in Keys, ExpireMarker(k), UNCHANGED apiVars PROVE LockInv'
  BY <1>25, ConstantsAssumption
  DEF LockInv, LockAccounted, KnownMessages, Outside, TypeOK, BrokerType,
      WorkersType, KeyOf, Msgs, ExpireMarker
<1>26. ASSUME TriggerBegin PROVE LockInv'
  BY <1>26, ConstantsAssumption
  DEF LockInv, LockAccounted, KnownMessages, Outside, TypeOK, BrokerType,
      WorkersType, KeyOf, Msgs, TriggerBegin
<1>27. ASSUME TriggerAbort PROVE LockInv'
  BY <1>27, ConstantsAssumption
  DEF LockInv, LockAccounted, KnownMessages, Outside, TypeOK, BrokerType,
      WorkersType, KeyOf, Msgs, TriggerAbort
<1>28. ASSUME TriggerCommit PROVE LockInv'
  BY <1>28, ConstantsAssumption
  DEF LockInv, LockAccounted, KnownMessages, Outside, TypeOK, BrokerType,
      WorkersType, KeyOf, Msgs, TriggerCommit
<1>29. ASSUME NEW t \in Tasks, TriggerDispatch(t) PROVE LockInv'
  BY <1>29, LockPublish DEF TriggerDispatch, Keys
<1>30. ASSUME NEW a \in Apis, NEW t \in Tasks, NEW op \in ApiActions,
              ApiRead(a, t, op)
       PROVE LockInv'
  BY <1>30, ConstantsAssumption
  DEF LockInv, LockAccounted, KnownMessages, Outside, TypeOK, BrokerType,
      WorkersType, KeyOf, Msgs, ApiRead, Resolves
<1>31. ASSUME NEW a \in Apis, ApiRevoke(a) PROVE LockInv'
  BY <1>31, ConstantsAssumption
  DEF LockInv, LockAccounted, KnownMessages, Outside, TypeOK, BrokerType,
      WorkersType, KeyOf, Msgs, ApiRevoke
<1>32. ASSUME NEW a \in Apis, ApiDispatch(a) PROVE LockInv'
  <2>1. CASE Publish(atask[a], TRUE)
    BY <1>32, <2>1, LockPublish DEF ApiDispatch, Keys, TypeOK, ApiType
  <2>2. CASE UNCHANGED broker
    BY <1>32, <2>2
    DEF ApiDispatch, LockInv, LockAccounted, KnownMessages, Outside, TypeOK,
        BrokerType, WorkersType, KeyOf, Msgs
  <2> QED
    BY <1>32, <2>1, <2>2 DEF ApiDispatch
<1>33. ASSUME NEW a \in Apis, ApiCommit(a) PROVE LockInv'
  BY <1>33, ConstantsAssumption
  DEF LockInv, LockAccounted, KnownMessages, Outside, TypeOK, BrokerType,
      WorkersType, KeyOf, Msgs, ApiCommit
<1>34. CASE UNCHANGED vars
  BY <1>34
  DEF LockInv, LockAccounted, KnownMessages, Outside, TypeOK, BrokerType,
      WorkersType, KeyOf, Msgs
<1> QED
  BY <1>1, <1>2, <1>3, <1>4, <1>5, <1>6, <1>7, <1>8, <1>9, <1>10, <1>11,
    <1>12, <1>13, <1>14, <1>15, <1>16, <1>17, <1>18, <1>19, <1>20, <1>21,
    <1>22, <1>23, <1>24, <1>25, <1>26, <1>27, <1>28, <1>29, <1>30, <1>31,
    <1>32, <1>33, <1>34
  DEF Next, NextRuns, RunStep, Trigger, Patch

\* In every environment a lock in Redis belongs to a run in progress or to one
\* whose process was killed.
THEOREM LocksAccounted == Spec => []LockAccounted
<1>1. Init => LockInv
  BY ConstantsAssumption
  DEF Init, InitRuns, LockInv, LockAccounted, KnownMessages
<1>2. TypeOK /\ LockInv /\ [Next]_vars => LockInv'
  BY LockStep
<1>3. LockInv => LockAccounted
  BY DEF LockInv
<1> QED
  BY <1>1, <1>2, <1>3, TypeCorrect, PTL DEF Spec

-----------------------------------------------------------------------------
(* The parent row. *)

\* The steps at which a worker is about to update the row it has read.
Writing == {"claimWrite", "doneWrite", "failWrite"}

\* Before the batch commits nobody sees its rows, and only a run of a batch
\* that rolled back takes the parent's id.
ParentInv ==
  /\ \A w \in Workers : adopted[w] => trig = "rolledback"
  /\ trig = "committed" => parent # "absent"
  /\ trig = "none" => \A m \in 1 .. published : msg[m].key \notin Tasks
  /\ \A w \in Workers : pc[w] = "adopt" => KeyOf(w) \in Tasks
  /\ trig # "committed" =>
       /\ status = [t \in Tasks |-> "absent"]
       /\ \A w \in Workers : pc[w] \notin Writing
       /\ \A a \in Apis : apc[a] = "idle"

\* A worker that goes on, its TaskChain row chosen before.
LEMMA ParentMove ==
  ASSUME TypeOK, ParentInv, NEW w \in Workers, NEW l \in Steps, Goto(w, l),
         l \in Writing => trig = "committed", l = "adopt" => KeyOf(w) \in Tasks,
         UNCHANGED <<status, trig, apc, published, msg, cur, adopted>>,
         parent = parent' \/ parent' \in {"success", "failed"}
  PROVE  ParentInv'
<1>1. \A v \in Workers : pc'[v] = IF v = w THEN l ELSE pc[v]
  BY DEF Goto, TypeOK, WorkersType
<1> QED
  BY <1>1 DEF ParentInv, KeyOf

LEMMA ParentReturn ==
  ASSUME TypeOK, ParentInv, NEW S \in SUBSET Workers, BackToPool(S),
         UNCHANGED <<status, trig, apc, published, msg, parent>>
  PROVE  ParentInv'
  BY DEF ParentInv, BackToPool, TypeOK, WorkersType, Writing, KeyOf

LEMMA ParentPublish ==
  ASSUME TypeOK, KnownMessages, ParentInv, NEW k \in Keys, NEW f \in BOOLEAN,
         Publish(k, f), trig = "none" => k \notin Tasks,
         UNCHANGED <<status, trig, pc, cur, adopted, parent>>,
         trig # "committed" => apc' = apc
  PROVE  ParentInv'
<1>1. /\ \A m \in 1 .. published : msg'[m] = msg[m]
      /\ published' = published + 1 /\ msg'[published'].key = k
  BY ConstantsAssumption DEF TypeOK, BrokerType, Publish, Msgs
<1>2. \A w \in Workers : pc[w] = "adopt" => KeyOf(w)' = KeyOf(w)
  BY <1>1 DEF KnownMessages, TypeOK, WorkersType, KeyOf
<1> QED
  BY <1>1, <1>2 DEF ParentInv, TypeOK, BrokerType

LEMMA ParentRead ==
  ASSUME TypeOK, ParentInv, NEW w \in Workers, NEW at, NEW next \in Steps \
    Writing,
         NEW from \in SUBSET Status, NEW write \in Writing, next # "adopt",
         ReadStatus(w, at, from, write, next), UNCHANGED apc
  PROVE  ParentInv'
<1>1. CASE Goto(w, next)
  BY <1>1, ParentMove DEF ReadStatus
<1>2. CASE RowOf(w) \in from /\ Goto(w, write)
  <2>1. trig = "committed"
    BY <1>2 DEF ParentInv, RowOf, IsTask, Status
  <2> QED
    BY <1>2, <2>1, ParentMove DEF ReadStatus, Steps, Writing
<1> QED
  BY <1>1, <1>2 DEF ReadStatus

LEMMA ParentWrite ==
  ASSUME TypeOK, ParentInv, NEW w \in Workers, NEW at \in Writing,
         NEW new, NEW next \in Steps \ Writing, next # "adopt",
         WriteStatus(w, at, new, next), UNCHANGED apc
  PROVE  ParentInv'
<1>1. trig = "committed"
  BY DEF WriteStatus, ParentInv
<1>2. \A v \in Workers : pc'[v] = IF v = w THEN next ELSE pc[v]
  BY DEF WriteStatus, Goto, TypeOK, WorkersType
<1> QED
  BY <1>1, <1>2 DEF WriteStatus, ParentInv, KeyOf

LEMMA ParentStep ==
  ASSUME TypeOK, KnownMessages, ParentInv, [Next]_vars PROVE ParentInv'
<1> USE DEF Steps, Writing
<1>1. ASSUME NEW w \in Workers, CheckStatus(w), UNCHANGED apiVars
      PROVE ParentInv'
  BY <1>1, ParentMove, ParentReturn DEF CheckStatus, SkipAsSucceeded
<1>2. ASSUME NEW w \in Workers, CheckMarker(w), UNCHANGED apiVars
      PROVE ParentInv'
  BY <1>2, ParentMove, ParentReturn DEF CheckMarker, SkipAsSucceeded
<1>3. ASSUME NEW w \in Workers, ForceUnlock(w), UNCHANGED apiVars
      PROVE ParentInv'
  BY <1>3, ParentMove DEF ForceUnlock
<1>4. ASSUME NEW w \in Workers, Acquire(w), UNCHANGED apiVars PROVE ParentInv'
  BY <1>4, ParentMove, ParentReturn DEF Acquire
<1>5. ASSUME NEW w \in Workers, OpenChain(w), UNCHANGED apiVars PROVE ParentInv'
  BY <1>5, ParentMove DEF OpenChain, IsTask
<1>6. ASSUME NEW w \in Workers, AdoptChain(w), UNCHANGED apiVars
      PROVE ParentInv'
  <2>1. trig # "none"
    BY <1>6, Busy
    DEF AdoptChain, ParentInv, KnownMessages, KeyOf, TypeOK, BrokerType,
        WorkersType
  <2>2. CASE parent' # parent
    <3>1. trig = "rolledback"
      BY <1>6, <2>1, <2>2 DEF AdoptChain, ParentInv, TypeOK, RowsType
    <3>2. \A v \in Workers : pc'[v] = IF v = w THEN "claim" ELSE pc[v]
      BY <1>6, <2>2 DEF AdoptChain, Goto, TypeOK, WorkersType
    <3> QED
      BY <1>6, <2>2, <3>1, <3>2 DEF AdoptChain, ParentInv, KeyOf
  <2>3. CASE parent' = parent
    BY <1>6, <2>3, ParentMove DEF AdoptChain
  <2> QED
    BY <2>2, <2>3
<1>7. ASSUME NEW w \in Workers, ClaimRead(w), UNCHANGED apiVars PROVE ParentInv'
  BY <1>7, ParentRead DEF ClaimRead, Status
<1>8. ASSUME NEW w \in Workers, ClaimWrite(w), UNCHANGED apiVars
      PROVE ParentInv'
  BY <1>8, ParentWrite DEF ClaimWrite
<1>9. ASSUME NEW w \in Workers, Execute(w), UNCHANGED apiVars PROVE ParentInv'
  BY <1>9, ParentMove DEF Execute, ParentInv, KeyOf
<1>10. ASSUME NEW w \in Workers, SucceedChain(w), UNCHANGED apiVars
       PROVE ParentInv'
  BY <1>10, ParentMove DEF SucceedChain, CloseChain
<1>11. ASSUME NEW w \in Workers, DoneRead(w), UNCHANGED apiVars PROVE ParentInv'
  BY <1>11, ParentRead DEF DoneRead, Status
<1>12. ASSUME NEW w \in Workers, DoneWrite(w), UNCHANGED apiVars
       PROVE ParentInv'
  BY <1>12, ParentWrite DEF DoneWrite
<1>13. ASSUME NEW w \in Workers, MarkSucceeded(w), UNCHANGED apiVars
       PROVE ParentInv'
  BY <1>13, ParentMove DEF MarkSucceeded
<1>14. ASSUME NEW w \in Workers, FailChain(w), UNCHANGED apiVars
       PROVE ParentInv'
  BY <1>14, ParentMove DEF FailChain, CloseChain
<1>15. ASSUME NEW w \in Workers, FailRead(w), UNCHANGED apiVars PROVE ParentInv'
  BY <1>15, ParentRead DEF FailRead, Status
<1>16. ASSUME NEW w \in Workers, FailWrite(w), UNCHANGED apiVars
       PROVE ParentInv'
  BY <1>16, ParentWrite DEF FailWrite
<1>17. ASSUME NEW w \in Workers, Release(w), UNCHANGED apiVars PROVE ParentInv'
  BY <1>17, ParentReturn DEF Release
<1>18. ASSUME NEW w \in Workers, Crash(w), UNCHANGED apiVars PROVE ParentInv'
  BY <1>18, ParentReturn DEF Crash, Kill
<1>19. ASSUME NEW w \in Workers, NEW m \in 1 .. published, Take(w, m),
              UNCHANGED apiVars
       PROVE ParentInv'
  BY <1>19 DEF Take, ParentInv, KeyOf, Goto, TypeOK, WorkersType
<1>20. ASSUME NEW m \in 1 .. published, Redeliver(m), UNCHANGED apiVars
       PROVE ParentInv'
  BY <1>20 DEF Redeliver, ParentInv, KeyOf
<1>21. ASSUME NEW m \in 1 .. published, Discard(m), UNCHANGED apiVars
       PROVE ParentInv'
  BY <1>21 DEF Discard, ParentInv, KeyOf
<1>22. ASSUME NEW m \in 1 .. published, DeliverRevoke(m), UNCHANGED apiVars
       PROVE ParentInv'
  BY <1>22, ParentReturn DEF DeliverRevoke, Kill
<1>23. ASSUME NEW k \in Keys, Tick(k), UNCHANGED apiVars PROVE ParentInv'
  BY <1>23, ConstantsAssumption, ParentPublish DEF Tick
<1>24. ASSUME NEW k \in Keys, ExpireLock(k), UNCHANGED apiVars PROVE ParentInv'
  BY <1>24 DEF ExpireLock, ParentInv, KeyOf
<1>25. ASSUME NEW k \in Keys, ExpireMarker(k), UNCHANGED apiVars
       PROVE ParentInv'
  BY <1>25 DEF ExpireMarker, ParentInv, KeyOf
<1>26. ASSUME TriggerBegin PROVE ParentInv'
  BY <1>26 DEF TriggerBegin, ParentInv, KeyOf
<1>27. ASSUME TriggerAbort PROVE ParentInv'
  BY <1>27 DEF TriggerAbort, ParentInv, KeyOf
<1>28. ASSUME TriggerCommit PROVE ParentInv'
  BY <1>28 DEF TriggerCommit, ParentInv, KeyOf
<1>29. ASSUME NEW t \in Tasks, TriggerDispatch(t) PROVE ParentInv'
  BY <1>29, ParentPublish DEF TriggerDispatch, Keys
<1>30. ASSUME NEW a \in Apis, NEW t \in Tasks, NEW op \in ApiActions,
              ApiRead(a, t, op)
       PROVE ParentInv'
  <2>1. trig = "committed"
    BY <1>30 DEF ApiRead, ParentInv, Resolves, Transitions
  <2> QED
    BY <1>30, <2>1 DEF ApiRead, ParentInv, KeyOf
<1>31. ASSUME NEW a \in Apis, ApiRevoke(a) PROVE ParentInv'
  BY <1>31 DEF ApiRevoke, ParentInv, KeyOf
<1>32. ASSUME NEW a \in Apis, ApiDispatch(a) PROVE ParentInv'
  <2>1. trig = "committed"
    BY <1>32 DEF ApiDispatch, ParentInv
  <2>2. CASE Publish(atask[a], TRUE)
    BY <1>32, <2>1, <2>2, ParentPublish DEF ApiDispatch, Keys, TypeOK, ApiType
  <2>3. CASE UNCHANGED broker
    BY <1>32, <2>1, <2>3 DEF ApiDispatch, ParentInv, KeyOf
  <2> QED
    BY <1>32, <2>2, <2>3 DEF ApiDispatch
<1>33. ASSUME NEW a \in Apis, ApiCommit(a) PROVE ParentInv'
  BY <1>33 DEF ApiCommit, ParentInv, KeyOf
<1>34. CASE UNCHANGED vars
  BY <1>34 DEF ParentInv, KeyOf
<1> QED
  BY <1>1, <1>2, <1>3, <1>4, <1>5, <1>6, <1>7, <1>8, <1>9, <1>10, <1>11,
    <1>12, <1>13, <1>14, <1>15, <1>16, <1>17, <1>18, <1>19, <1>20, <1>21,
    <1>22, <1>23, <1>24, <1>25, <1>26, <1>27, <1>28, <1>29, <1>30, <1>31,
    <1>32, <1>33, <1>34
  DEF Next, NextRuns, RunStep, Trigger, Patch

\* In every environment, runs leave the parent row of a committed batch alone:
\* the only row a run adopts is that of a batch that rolled back.
THEOREM ParentKept == Spec => ParentNotHijacked
<1>1. Init => LockInv /\ ParentInv
  BY ConstantsAssumption DEF Init, InitRuns, InitApi, LockInv, LockAccounted,
     KnownMessages, ParentInv, Writing
<1>2. TypeOK /\ LockInv /\ [Next]_vars => LockInv'
  BY LockStep
<1>3. TypeOK /\ LockInv /\ ParentInv /\ [Next]_vars => ParentInv'
  BY ParentStep DEF LockInv
<1>4. TypeOK /\ ParentInv /\ [Next]_vars =>
        [trig = "committed" => parent' = parent]_vars
  <2> SUFFICES ASSUME TypeOK, ParentInv, Next, trig = "committed"
               PROVE  parent' = parent
    OBVIOUS
  <2>1. ASSUME NEW w \in Workers, AdoptChain(w) PROVE parent' = parent
    BY <2>1 DEF AdoptChain, ParentInv
  <2>2. ASSUME NEW w \in Workers, SucceedChain(w) \/ FailChain(w)
        PROVE parent' = parent
    BY <2>2 DEF SucceedChain, FailChain, CloseChain, ParentInv
  <2>3. CASE Trigger
    BY <2>3
    DEF Trigger, TriggerBegin, TriggerDispatch, TriggerAbort, TriggerCommit
  <2>4. CASE UNCHANGED parent
    BY <2>4
  <2> QED
    BY <2>1, <2>2, <2>3, <2>4
    DEF Next, NextRuns, RunStep, Patch, CheckStatus, CheckMarker, ForceUnlock,
        Acquire, OpenChain, ClaimRead, DoneRead, FailRead, ReadStatus,
        ClaimWrite, DoneWrite, FailWrite, WriteStatus, Execute, MarkSucceeded,
        Release, Crash, Kill, Take, Redeliver, Discard, DeliverRevoke, Tick,
        ExpireLock, ExpireMarker, ApiRead, ApiRevoke, ApiDispatch, ApiCommit
<1> QED
  BY <1>1, <1>2, <1>3, <1>4, TypeCorrect, PTL DEF Spec, ParentNotHijacked

-----------------------------------------------------------------------------
(* What one step can do to the parts of the state that the invariants       *)
(* below relate: the messages, the pool, the marker and the rows.           *)

\* A message, once published, keeps its contents, and a pipeline that ran to
\* its end stays run, as one that aborted stays
\* aborted.
LEMMA MessagesStay ==
  ASSUME TypeOK, [Next]_vars
  PROVE  /\ published' \in Nat /\ published <= published'
         /\ \A m \in 1 .. published :
              msg'[m] = msg[m] /\ applied'[m] >= applied[m]
         /\ aborted \subseteq aborted'
<1> DEFINE Stay == /\ published' \in Nat /\ published <= published'
                   /\ \A m \in 1 .. published :
                        msg'[m] = msg[m] /\ applied'[m] >= applied[m]
                   /\ aborted \subseteq aborted'
<1>1. published \in Nat /\ applied \in [Msgs -> Nat] /\ 1 .. published \subseteq Msgs
  BY ConstantsAssumption DEF TypeOK, BrokerType, HistoryType, Msgs
<1>2. ASSUME NEW k, NEW f, Publish(k, f), UNCHANGED <<applied, aborted>>
      PROVE Stay
  BY <1>1, <1>2 DEF Publish, TypeOK, BrokerType
<1>3. ASSUME NEW w \in Workers, Execute(w) PROVE Stay
  BY <1>1, <1>3 DEF Execute
<1>4. CASE UNCHANGED <<published, msg, applied, aborted>>
  BY <1>1, <1>4
<1>5. CASE NextRuns
  BY <1>2, <1>3, <1>4, <1>5, ZenonT(30)
  DEF NextRuns, RunStep, CheckStatus, CheckMarker, SkipAsSucceeded,
      ForceUnlock, Acquire, OpenChain, AdoptChain, ClaimRead, DoneRead,
      FailRead, ReadStatus, ClaimWrite, DoneWrite, FailWrite, WriteStatus,
      SucceedChain, FailChain, CloseChain, MarkSucceeded, Release, Crash, Kill,
      Take, Redeliver, Discard, DeliverRevoke, Tick, ExpireLock, ExpireMarker
<1> QED
  BY <1>2, <1>4, <1>5
  DEF Next, Trigger, Patch, TriggerBegin, TriggerDispatch, TriggerAbort,
      TriggerCommit, ApiRead, ApiRevoke, ApiDispatch, ApiCommit

\* A worker takes a step of its run, takes a message, goes back to the pool,
\* or is left where it was.
LEMMA PoolMoves ==
  ASSUME TypeOK, [Next]_vars, NEW w \in Workers
  PROVE  \/ pc'[w] = pc[w] /\ cur'[w] = cur[w]
         \/ pc'[w] = "idle" /\ cur'[w] = 0
         \/ \E m \in 1 .. published : Take(w, m)
         \/ RunStep(w)
<1> DEFINE Moves == \/ pc'[w] = pc[w] /\ cur'[w] = cur[w]
                    \/ pc'[w] = "idle" /\ cur'[w] = 0
                    \/ \E m \in 1 .. published : Take(w, m)
                    \/ RunStep(w)
<1>1. ASSUME NEW v \in Workers, RunStep(v), v # w PROVE Moves
  <2>1. pc'[w] = pc[w] /\ cur'[w] = cur[w]
    BY <1>1
    DEF RunStep, CheckStatus, CheckMarker, SkipAsSucceeded, ForceUnlock,
        Acquire, OpenChain, AdoptChain, ClaimRead, DoneRead, FailRead,
        ReadStatus, ClaimWrite, DoneWrite, FailWrite, WriteStatus, Execute,
        SucceedChain, FailChain, CloseChain, MarkSucceeded, Release, BackToPool,
        Goto, TypeOK, WorkersType
  <2> QED
    BY <2>1
<1>2. ASSUME NEW S, BackToPool(S) PROVE Moves
  BY <1>2 DEF BackToPool
<1>3. ASSUME NEW v \in Workers, NEW m \in 1 .. published, Take(v, m), v # w
      PROVE Moves
  BY <1>3 DEF Take, Goto, TypeOK, WorkersType
<1>4. CASE UNCHANGED <<pc, cur>>
  BY <1>4
<1>5. CASE NextRuns
  <2>1. CASE \E v \in Workers : RunStep(v) \/ Crash(v)
    BY <1>1, <1>2, <2>1 DEF Crash, Kill
  <2>2. CASE \E v \in Workers, m \in 1 .. published : Take(v, m)
    BY <1>3, <2>2
  <2> QED
    BY <1>2, <1>4, <1>5, <2>1, <2>2
    DEF NextRuns, Redeliver, Discard, DeliverRevoke, Kill, Tick, ExpireLock,
        ExpireMarker
<1> QED
  BY <1>4, <1>5
  DEF Next, Trigger, Patch, TriggerBegin, TriggerDispatch, TriggerAbort,
      TriggerCommit, ApiRead, ApiRevoke, ApiDispatch, ApiCommit

\* Only mark_succeeded sets a marker.
LEMMA MarkerMoves ==
  ASSUME TypeOK, [Next]_vars, NEW k \in Keys, marker'[k]
  PROVE  \/ marker[k]
         \/ \E w \in Workers : MarkSucceeded(w) /\ KeyOf(w) = k
<1>1. ASSUME NEW w \in Workers, MarkSucceeded(w), KeyOf(w) # k
      PROVE marker'[k] = marker[k]
  BY <1>1 DEF MarkSucceeded, TypeOK
<1>2. ASSUME NEW l \in Keys, ExpireMarker(l) PROVE marker[k]
  BY <1>2 DEF ExpireMarker, TypeOK
<1>3. CASE UNCHANGED marker
  BY <1>3
<1> QED
  BY <1>1, <1>2, <1>3
  DEF Next, NextRuns, RunStep, CheckStatus, CheckMarker, SkipAsSucceeded,
      ForceUnlock, Acquire, OpenChain, AdoptChain, ClaimRead, DoneRead,
      FailRead, ReadStatus, ClaimWrite, DoneWrite, FailWrite, WriteStatus,
      Execute, SucceedChain, FailChain, CloseChain, Release, Crash, Kill, Take,
      Redeliver, Discard, DeliverRevoke, Tick, ExpireLock, Trigger, Patch,
      TriggerBegin, TriggerDispatch, TriggerAbort, TriggerCommit, ApiRead,
      ApiRevoke, ApiDispatch, ApiCommit

\* A row is written by a run of its task, by a request about it, and by the
\* commit of the batch.
LEMMA StatusMoves ==
  ASSUME TypeOK, [Next]_vars, NEW t \in Tasks, status'[t] # status[t]
  PROVE  \/ \E w \in Workers :
              /\ ClaimWrite(w) \/ DoneWrite(w) \/ FailWrite(w)
              /\ KeyOf(w) = t
         \/ \E a \in Apis : /\ ApiCommit(a) /\ atask[a] = t
                            /\ status'[t] = ato[a]
         \/ TriggerCommit
<1>1. ASSUME NEW w \in Workers, NEW at, NEW new, NEW next,
             WriteStatus(w, at, new, next), KeyOf(w) # t
      PROVE FALSE
  BY <1>1 DEF WriteStatus, TypeOK, RowsType
<1>2. ASSUME NEW a \in Apis, ApiCommit(a)
      PROVE atask[a] = t /\ status'[t] = ato[a]
  BY <1>2 DEF ApiCommit, TypeOK, RowsType
<1>3. ASSUME UNCHANGED status PROVE FALSE
  BY <1>3
<1> QED
  BY <1>1, <1>2, <1>3
  DEF Next, NextRuns, RunStep, CheckStatus, CheckMarker, SkipAsSucceeded,
      ForceUnlock, Acquire, OpenChain, AdoptChain, ClaimRead, DoneRead,
      FailRead, ReadStatus, ClaimWrite, DoneWrite, FailWrite, Execute,
      SucceedChain, FailChain, CloseChain, MarkSucceeded, Release, Crash, Kill,
      Take, Redeliver, Discard, DeliverRevoke, Tick, ExpireLock, ExpireMarker,
      Trigger, Patch, TriggerBegin, TriggerDispatch, TriggerAbort, ApiRead,
      ApiRevoke, ApiDispatch

-----------------------------------------------------------------------------
(* Success is recorded for runs that execute() returned from. *)

\* Steps of a run after execute() has returned.
Completed == {"chainOk", "done", "doneWrite", "mark"}

Returned(m) == applied[m] > 0 \/ m \in aborted

\* execute() has returned for a run that is past it; no request carries the
\* status success.
EarnedInv ==
  /\ \A a \in Apis : ato[a] # "success"
  /\ \A w \in Workers : pc[w] \in Completed => Returned(cur[w])
  /\ SuccessReturned

\* How a worker comes to be past execute().
LEMMA Completing ==
  ASSUME TypeOK, KnownMessages, [Next]_vars,
         NEW w \in Workers, pc'[w] \in Completed
  PROVE  /\ cur'[w] = cur[w] /\ cur[w] \in 1 .. published
         /\ pc[w] \in Completed \/ applied'[cur[w]] > 0 \/ cur[w] \in aborted'
<1>1. CASE pc'[w] = pc[w] /\ cur'[w] = cur[w]
  BY <1>1 DEF Completed, KnownMessages, TypeOK, WorkersType, BrokerType
<1>2. ASSUME NEW m \in 1 .. published, Take(w, m) PROVE FALSE
  BY <1>2 DEF Take, Goto, Completed, TypeOK, WorkersType
<1>3. CASE Execute(w)
  BY <1>3, Busy
  DEF Execute, Goto, Completed, KnownMessages, TypeOK, WorkersType, BrokerType,
      HistoryType
<1>4. CASE RunStep(w) /\ ~Execute(w)
  <2>1. pc[w] \in Completed /\ cur'[w] = cur[w]
    BY <1>4
    DEF RunStep, CheckStatus, CheckMarker, SkipAsSucceeded, ForceUnlock,
        Acquire, OpenChain, AdoptChain, ClaimRead, DoneRead, FailRead,
        ReadStatus, ClaimWrite, DoneWrite, FailWrite, WriteStatus,
        SucceedChain, FailChain, CloseChain, MarkSucceeded, Release, BackToPool,
        Goto, Completed, TypeOK, WorkersType
  <2> QED
    BY <2>1 DEF KnownMessages, Completed, TypeOK, WorkersType, BrokerType
<1> QED
  BY <1>1, <1>2, <1>3, <1>4, PoolMoves DEF Completed

LEMMA EarnedStep ==
  ASSUME "complete" \notin ApiActions,
         TypeOK, KnownMessages, EarnedInv, [Next]_vars
  PROVE  EarnedInv'
<1> DEFINE Earned(k) == \E m \in 1 .. published : msg[m].key = k /\ Returned(m)
<1>1. \A k \in Keys : Earned(k) => Earned(k)'
  <2> SUFFICES ASSUME NEW k \in Keys, NEW m \in 1 .. published,
                      msg[m].key = k, Returned(m)
               PROVE  m \in 1 .. published' /\ msg'[m].key = k /\ Returned(m)'
    OBVIOUS
  <2>1. published \in Nat /\ applied[m] \in Nat /\ applied'[m] \in Nat
    BY ConstantsAssumption, TypeStep
    DEF TypeOK, BrokerType, HistoryType, Msgs
  <2> QED
    BY <2>1, MessagesStay DEF Returned
<1>2. \A w \in Workers : pc'[w] \in Completed => Returned(cur[w])'
  <2> SUFFICES ASSUME NEW w \in Workers, pc'[w] \in Completed
               PROVE  (applied'[cur[w]] > 0 \/ cur[w] \in aborted') /\ cur'[w] = cur[w]
    BY Completing DEF Returned
  <2>1. CASE pc[w] \in Completed
    <3>1. cur[w] \in Msgs
      BY Completing, ConstantsAssumption DEF TypeOK, BrokerType, Msgs
    <3>2. applied[cur[w]] \in Nat /\ applied'[cur[w]] \in Nat
      BY <3>1, TypeStep DEF TypeOK, HistoryType
    <3> QED
      BY <2>1, <3>2, Completing, MessagesStay DEF EarnedInv, Returned
  <2> QED
    BY <2>1, Completing
<1>3. \A a \in Apis : ato'[a] # "success"
  <2>1. CASE UNCHANGED ato
    BY <2>1 DEF EarnedInv
  <2>2. ASSUME NEW a \in Apis, NEW t \in Tasks, NEW op \in ApiActions,
               ApiRead(a, t, op)
        PROVE \A b \in Apis : ato'[b] # "success"
    BY <2>2
    DEF ApiRead, Resolves, Transitions, EarnedInv, TypeOK, ApiType
  <2> QED
    BY <2>1, <2>2
    DEF Next, Trigger, Patch, TriggerBegin, TriggerDispatch, TriggerAbort,
        TriggerCommit, ApiRevoke, ApiDispatch, ApiCommit
<1>4. ASSUME NEW k \in Keys, marker'[k] PROVE Earned(k)'
  <2>1. CASE marker[k]
    BY <1>1, <2>1 DEF EarnedInv, SuccessReturned, Succeeded, Returned
  <2>2. ASSUME NEW w \in Workers, MarkSucceeded(w), KeyOf(w) = k PROVE Earned(k)
    BY <2>2
    DEF MarkSucceeded, EarnedInv, Completed, KnownMessages, TypeOK,
        WorkersType, BrokerType, KeyOf
  <2> QED
    BY <1>1, <1>4, <2>1, <2>2, MarkerMoves
<1>5. ASSUME NEW k \in Tasks, status'[k] = "success" PROVE Earned(k)'
  <2>1. CASE status[k] = "success"
    BY <1>1, <2>1 DEF EarnedInv, SuccessReturned, Succeeded, Returned, Keys
  <2>2. ASSUME NEW w \in Workers, ClaimWrite(w) \/ FailWrite(w), KeyOf(w) = k
        PROVE status'[k] # "success" \/ status'[k] = status[k]
    BY <2>2 DEF ClaimWrite, FailWrite, WriteStatus, TypeOK, RowsType
  <2>3. ASSUME NEW w \in Workers, DoneWrite(w), KeyOf(w) = k PROVE Earned(k)
    BY <2>3
    DEF DoneWrite, WriteStatus, EarnedInv, Completed, KnownMessages, TypeOK,
        WorkersType, BrokerType, KeyOf
  <2>4. CASE TriggerCommit
    BY <1>5, <2>4 DEF TriggerCommit
  <2>5. k \in Keys
    BY DEF Keys
  <2> QED
    BY <1>1, <1>5, <2>1, <2>2, <2>3, <2>4, <2>5, StatusMoves DEF EarnedInv
<1> QED
  BY <1>2, <1>3, <1>4, <1>5 DEF EarnedInv, SuccessReturned, Succeeded, Returned

\* Whatever is killed, redelivered, dropped or run by force: a task's row says
\* success, and a key has a marker, only after execute() returned from a run of
\* that key.  Only a client that says "complete" gets around the workers.
THEOREM SuccessEarned ==
  ASSUME "complete" \notin ApiActions
  PROVE  Spec => []SuccessReturned
<1>1. Init => LockInv /\ EarnedInv
  BY ConstantsAssumption
  DEF Init, InitRuns, InitApi, LockInv, LockAccounted, KnownMessages,
      EarnedInv, Completed, SuccessReturned, Succeeded, Returned, Keys
<1>2. TypeOK /\ LockInv /\ [Next]_vars => LockInv'
  BY LockStep
<1>3. TypeOK /\ LockInv /\ EarnedInv /\ [Next]_vars => EarnedInv'
  BY EarnedStep DEF LockInv
<1>4. EarnedInv => SuccessReturned
  BY DEF EarnedInv
<1> QED
  BY <1>1, <1>2, <1>3, <1>4, TypeCorrect, PTL DEF Spec

-----------------------------------------------------------------------------
(* A pause or a cancel halts. *)

Halted == {"paused", "cancelled"}

\* Until the batch commits a task has at most the message the batch sent for
\* it; from then on its row names a message.
BatchInv ==
  /\ trig \in {"none", "open"} =>
       /\ \A m \in 1 .. published : msg[m].key \in Tasks => msg[m].key \in sentTo
       /\ \A t \in sentTo : handle[t] # 0
  /\ trig = "committed" => \A t \in Tasks : handle[t] # 0

\* m is the run a resume request has published and not yet stored.
InFlight(m, t) ==
  \E a \in Apis : /\ apc[a] = "commit" /\ aop[a] = "resume"
                  /\ atask[a] = t /\ amsg[a] = m

\* Every message of a task is the one its row names, or has been revoked, or
\* is about to be named.
Named ==
  trig # "rolledback" =>
    \A m \in (1 .. published) \ orphans : \A t \in Tasks : msg[m].key = t =>
      m = handle[t] \/ revoked[m] # "no" \/ InFlight(m, t)

\* A halting request aims at the message the row names and revokes it before
\* it commits; a resume starts from a row whose message has been revoked.
AimedAt(a) ==
  /\ trig = "committed"
  /\ \/ /\ aop[a] \in Halting
        /\ amsg[a] = handle[atask[a]]
        /\ \/ apc[a] = "revoke"
           \/ apc[a] = "commit" /\ revoked[amsg[a]] # "no"
     \/ /\ aop[a] = "resume"
        /\ ato[a] = "running"
        /\ \/ apc[a] = "dispatch"
           \/ apc[a] = "commit" /\ amsg[a] # 0
        /\ revoked[handle[atask[a]]] # "no"

Aimed == \A a \in Apis : apc[a] # "idle" => AimedAt(a)

HaltInv ==
  /\ BatchInv /\ Named /\ Aimed
  /\ \A t \in Tasks : status[t] \in Halted => revoked[handle[t]] # "no"
  /\ \A m \in 1 .. published : revoked[m] = "done" =>
       \A w \in Workers : cur[w] # m

\* A revoke is never taken back.
LEMMA RevokesStay ==
  ASSUME TypeOK, [Next]_vars, NEW m \in Msgs
  PROVE  /\ revoked[m] # "no" => revoked'[m] # "no"
         /\ \/ revoked'[m] = revoked[m]
            \/ revoked[m] = "no" /\ revoked'[m] = "sent"
            \/ DeliverRevoke(m)
<1>1. CASE UNCHANGED revoked
  BY <1>1
<1>2. ASSUME NEW n \in 1 .. published, DeliverRevoke(n), n # m
      PROVE revoked'[m] = revoked[m]
  BY <1>2 DEF DeliverRevoke, TypeOK, BrokerType
<1>3. ASSUME DeliverRevoke(m) PROVE revoked'[m] = "done"
  BY <1>3 DEF DeliverRevoke, TypeOK, BrokerType
<1>4. ASSUME NEW a \in Apis, ApiRevoke(a)
      PROVE \/ revoked'[m] = revoked[m]
            \/ revoked[m] = "no" /\ revoked'[m] = "sent"
  BY <1>4 DEF ApiRevoke, TypeOK, BrokerType
<1>5. CASE NextRuns
  BY <1>1, <1>2, <1>3, <1>5
  DEF NextRuns, RunStep, CheckStatus, CheckMarker, ForceUnlock, Acquire,
      OpenChain, AdoptChain, ClaimRead, DoneRead, FailRead, ReadStatus,
      ClaimWrite, DoneWrite, FailWrite, WriteStatus, Execute, SucceedChain,
      FailChain, CloseChain, MarkSucceeded, Release, Crash, Take, Redeliver,
      Discard, Tick, Publish, ExpireLock, ExpireMarker
<1> QED
  BY <1>1, <1>4, <1>5
  DEF Next, Trigger, Patch, TriggerBegin, TriggerDispatch, TriggerAbort,
      TriggerCommit, ApiRead, ApiDispatch, ApiCommit, Publish

\* No worker runs a message whose revoke has reached the pool.
LEMMA RevokedStayOut ==
  ASSUME TypeOK, KnownMessages, HaltInv, [Next]_vars,
         NEW m \in 1 .. published', revoked'[m] = "done", NEW w \in Workers
  PROVE  cur'[w] # m
<1>1. m \in Msgs /\ m # 0
  BY ConstantsAssumption, TypeStep DEF TypeOK, BrokerType, Msgs
<1>2. CASE DeliverRevoke(m)
  BY <1>1, <1>2 DEF DeliverRevoke, Kill, BackToPool
<1>3. CASE revoked[m] = "done"
  <2>1. cur[w] # m
    BY <1>1, <1>3 DEF HaltInv, KnownMessages, TypeOK, BrokerType, WorkersType
  <2>2. ASSUME RunStep(w) PROVE cur'[w] = cur[w] \/ cur'[w] = 0
    BY <2>2
    DEF RunStep, CheckStatus, CheckMarker, SkipAsSucceeded, ForceUnlock,
        Acquire, OpenChain, AdoptChain, ClaimRead, DoneRead, FailRead,
        ReadStatus, ClaimWrite, DoneWrite, FailWrite, WriteStatus, Execute,
        SucceedChain, FailChain, CloseChain, MarkSucceeded, Release, BackToPool
  <2>3. ASSUME NEW n \in 1 .. published, Take(w, n) PROVE cur'[w] # m
    BY <1>3, <2>3 DEF Take, TypeOK, WorkersType
  <2> QED
    BY <1>1, <2>1, <2>2, <2>3, PoolMoves
<1> QED
  BY <1>1, <1>2, <1>3, RevokesStay

\* What a step of a worker, of the broker or of time leaves alone.
LEMMA RunsKeep ==
  ASSUME TypeOK, NextRuns, UNCHANGED apiVars
  PROVE  /\ trig' = trig
         /\ \A m \in 1 .. published' : msg'[m].key \in Tasks =>
              m \in 1 .. published /\ msg'[m] = msg[m]
         /\ \A t \in Tasks : status'[t] \in Halted => status'[t] = status[t]
<1>1. trig' = trig
  BY DEF NextRuns, RunStep, CheckStatus, CheckMarker, SkipAsSucceeded,
      ForceUnlock, Acquire, OpenChain, AdoptChain, ClaimRead, DoneRead,
      FailRead, ReadStatus, ClaimWrite, DoneWrite, FailWrite, WriteStatus,
      Execute, SucceedChain, FailChain, CloseChain, MarkSucceeded, Release,
      Crash, Kill, Take, Redeliver, Discard, DeliverRevoke, Tick, ExpireLock,
      ExpireMarker
<1>2. \A m \in 1 .. published' : msg'[m].key \in Tasks =>
        m \in 1 .. published /\ msg'[m] = msg[m]
  <2>1. CASE UNCHANGED <<published, msg>>
    BY <2>1
  <2>2. ASSUME NEW k \in Keys, Tick(k)
        PROVE \A m \in 1 .. published' : msg'[m].key \in Tasks =>
                m \in 1 .. published /\ msg'[m] = msg[m]
    <3>1. k \notin Tasks /\ published \in Nat /\ 1 .. published' \subseteq Msgs
      BY <2>2, ConstantsAssumption
      DEF Tick, Publish, TypeOK, BrokerType, Msgs
    <3> QED
      BY <2>2, <3>1 DEF Tick, Publish, TypeOK, BrokerType
  <2> QED
    BY <2>1, <2>2
    DEF NextRuns, RunStep, CheckStatus, CheckMarker, SkipAsSucceeded,
      ForceUnlock, Acquire, OpenChain, AdoptChain, ClaimRead, DoneRead,
      FailRead, ReadStatus, ClaimWrite, DoneWrite, FailWrite, WriteStatus,
      Execute, SucceedChain, FailChain, CloseChain, MarkSucceeded, Release,
      Crash, Kill, Take, Redeliver, Discard, DeliverRevoke, ExpireLock,
      ExpireMarker
<1>3. ASSUME NEW t \in Tasks, status'[t] \in Halted PROVE status'[t] = status[t]
  <2>1. ASSUME NEW w \in Workers, ClaimWrite(w) \/ DoneWrite(w) \/ FailWrite(w),
               KeyOf(w) = t
        PROVE status'[t] \notin Halted \/ status'[t] = status[t]
    BY <2>1
    DEF ClaimWrite, DoneWrite, FailWrite, WriteStatus, Halted, TypeOK, RowsType
  <2>2. ASSUME NEW a \in Apis, ApiCommit(a) PROVE FALSE
    BY <2>2 DEF ApiCommit, TypeOK, ApiType
  <2>3. ASSUME TriggerCommit PROVE FALSE
    BY <1>1, <2>3 DEF TriggerCommit
  <2> QED
    BY <1>3, <2>1, <2>2, <2>3, StatusMoves DEF Next
<1> QED
  BY <1>1, <1>2, <1>3

LEMMA HaltRuns ==
  ASSUME TypeOK, KnownMessages, ParentInv, HaltInv, NextRuns, UNCHANGED apiVars
  PROVE  HaltInv'
<1>1. [Next]_vars
  BY DEF Next
<1>2. \A m \in 1 .. published' : m \in Msgs
  BY <1>1, TypeStep, ConstantsAssumption DEF TypeOK, BrokerType, Msgs
<1>3. BatchInv'
  BY RunsKeep DEF HaltInv, BatchInv
<1>4. Named'
  BY <1>1, <1>2, RunsKeep, RevokesStay DEF HaltInv, Named, InFlight
<1>5. \A n \in 0 .. MaxMsgs : n # 0 => n \in Msgs
  BY ConstantsAssumption DEF Msgs
<1>6. ASSUME NEW t \in Tasks, trig = "committed", revoked[handle[t]] # "no"
      PROVE revoked'[handle[t]] # "no"
  BY <1>1, <1>5, <1>6, RevokesStay DEF HaltInv, BatchInv, TypeOK, ApiType
<1>7. ASSUME NEW a \in Apis, trig = "committed",
             revoked[handle[atask[a]]] # "no"
      PROVE revoked'[handle[atask[a]]] # "no"
  BY <1>6, <1>7 DEF TypeOK, ApiType
<1>8. Aimed'
  BY <1>7, RunsKeep DEF HaltInv, Aimed, AimedAt
<1>9. ASSUME NEW t \in Tasks, status'[t] \in Halted
      PROVE revoked'[handle[t]] # "no"
  <2>1. trig = "committed"
    BY <1>9, RunsKeep DEF ParentInv, Halted
  <2> QED
    BY <1>6, <1>9, <2>1, RunsKeep DEF HaltInv
<1> QED
  BY <1>1, <1>3, <1>4, <1>8, <1>9, RevokedStayOut DEF HaltInv

LEMMA HaltTrigger ==
  ASSUME TypeOK, KnownMessages, ParentInv, HaltInv, Trigger
  PROVE  HaltInv'
<1>1. [Next]_vars
  BY DEF Next
<1>2. \A m \in 1 .. published' : revoked'[m] = "done" =>
        \A w \in Workers : cur'[w] # m
  BY <1>1, RevokedStayOut
<1>3. trig # "committed" /\ \A t \in Tasks : status[t] \notin Halted
  BY DEF Trigger, TriggerBegin, TriggerDispatch, TriggerAbort, TriggerCommit,
     ParentInv, Halted
<1>4. Aimed'
  BY <1>3
  DEF Trigger, TriggerBegin, TriggerDispatch, TriggerAbort, TriggerCommit,
      HaltInv, Aimed, AimedAt
<1>5. \A t \in Tasks : status'[t] \notin Halted
  BY <1>3
  DEF Trigger, TriggerBegin, TriggerDispatch, TriggerAbort, TriggerCommit,
      Halted
<1>6. ASSUME NEW t \in Tasks, TriggerDispatch(t) PROVE BatchInv' /\ Named'
  <2>1. /\ \A m \in 1 .. published : msg'[m] = msg[m]
        /\ published \in Nat /\ published' = published + 1
        /\ msg'[published'].key = t
    BY <1>6, ConstantsAssumption
    DEF TriggerDispatch, Publish, TypeOK, BrokerType, Msgs
  <2>2. \A u \in Tasks : handle'[u] = IF u = t THEN published' ELSE handle[u]
    BY <1>6 DEF TriggerDispatch, TypeOK, ApiType
  <2>3. \A m \in 1 .. published' : m # published' => m \in 1 .. published
    BY <2>1
  <2>4. \A m \in 1 .. published : msg[m].key # t
    BY <1>6 DEF TriggerDispatch, HaltInv, BatchInv
  <2>5. UNCHANGED <<trig, revoked, orphans, requestVars>> /\ trig = "open"
        /\ sentTo' = sentTo \union {t} /\ sentTo \subseteq Tasks
    BY <1>6 DEF TriggerDispatch, Publish, TypeOK, ApiType
  <2>6. BatchInv'
    BY <2>1, <2>2, <2>3, <2>5 DEF HaltInv, BatchInv
  <2>7. Named'
    BY <2>1, <2>2, <2>3, <2>4, <2>5 DEF HaltInv, Named, InFlight
  <2> QED
    BY <2>6, <2>7
<1>7. CASE TriggerBegin
  BY <1>2, <1>4, <1>5, <1>7
  DEF TriggerBegin, HaltInv, BatchInv, Named, InFlight
<1>8. CASE TriggerAbort
  BY <1>2, <1>4, <1>5, <1>8 DEF TriggerAbort, HaltInv, BatchInv, Named
<1>9. CASE TriggerCommit
  BY <1>2, <1>4, <1>5, <1>9
  DEF TriggerCommit, HaltInv, BatchInv, Named, InFlight
<1> QED
  BY <1>2, <1>4, <1>5, <1>6, <1>7, <1>8, <1>9 DEF Trigger, HaltInv

\* Requests about one task overlap only while all of them are to halt it.
ResumesAlone ==
  \A a, b \in Apis :
    a # b /\ apc[a] # "idle" /\ apc[b] # "idle" /\ atask[a] = atask[b] =>
      aop[a] \in Halting

\* What the other requests are about, when one goes on.
LEMMA OthersStay ==
  ASSUME TypeOK, HaltInv, NEW a \in Apis,
         (\E t \in Tasks, op \in ApiActions : ApiRead(a, t, op)) \/ Patch(a),
         \A b \in Apis \ {a} :
           apc[b] # "idle" => handle'[atask[b]] = handle[atask[b]]
  PROVE  /\ \A b \in Apis \ {a} : apc'[b] # "idle" => AimedAt(b)'
         /\ \A m, t : InFlight(m, t) =>
              InFlight(m, t)' \/ (/\ apc[a] = "commit" /\ aop[a] = "resume"
                                  /\ atask[a] = t /\ amsg[a] = m)
<1>1. ASSUME NEW b \in Apis, b # a
      PROVE  /\ apc'[b] = apc[b] /\ atask'[b] = atask[b] /\ aop'[b] = aop[b]
             /\ ato'[b] = ato[b] /\ amsg'[b] = amsg[b]
  <2>0. /\ DOMAIN apc = Apis /\ DOMAIN atask = Apis /\ DOMAIN aop = Apis
        /\ DOMAIN ato = Apis /\ DOMAIN amsg = Apis
    BY DEF TypeOK, ApiType
  <2>1. CASE \E t \in Tasks, op \in ApiActions : ApiRead(a, t, op)
    BY <1>1, <2>0, <2>1 DEF ApiRead
  <2>2. CASE ApiRevoke(a)
    BY <1>1, <2>0, <2>2 DEF ApiRevoke
  <2>3. CASE ApiDispatch(a)
    BY <1>1, <2>0, <2>3 DEF ApiDispatch
  <2>4. CASE ApiCommit(a)
    BY <1>1, <2>0, <2>4 DEF ApiCommit
  <2> QED
    BY <2>1, <2>2, <2>3, <2>4 DEF Patch
<1>2. UNCHANGED trig
  <2>1. CASE \E t \in Tasks, op \in ApiActions : ApiRead(a, t, op)
    BY <2>1 DEF ApiRead, runVars, rows
  <2>2. CASE ApiRevoke(a)
    BY <2>2 DEF ApiRevoke, rows
  <2>3. CASE ApiDispatch(a)
    BY <2>3 DEF ApiDispatch, rows
  <2>4. CASE ApiCommit(a)
    BY <2>4 DEF ApiCommit
  <2> QED
    BY <2>1, <2>2, <2>3, <2>4 DEF Patch
<1>3. ASSUME NEW b \in Apis, b # a, apc[b] # "idle"
      PROVE  AimedAt(b)'
  <2>1. AimedAt(b) /\ trig = "committed" /\ atask[b] \in Tasks
    BY <1>3 DEF HaltInv, Aimed, AimedAt, TypeOK, ApiType
  <2>2. handle[atask[b]] \in Msgs
    BY <2>1, ConstantsAssumption DEF HaltInv, BatchInv, TypeOK, ApiType, Msgs
  <2>3. [Next]_vars
    BY DEF Next
  <2>4. revoked[handle[atask[b]]] # "no" => revoked'[handle[atask[b]]] # "no"
    BY <2>2, <2>3, RevokesStay
  <2> QED
    BY <1>1, <1>2, <1>3, <2>1, <2>4 DEF AimedAt
<1>4. ASSUME NEW m, NEW t, InFlight(m, t), ~InFlight(m, t)'
      PROVE  apc[a] = "commit" /\ aop[a] = "resume" /\ atask[a] = t /\ amsg[a] = m
  <2>1. PICK b \in Apis : /\ apc[b] = "commit" /\ aop[b] = "resume"
                          /\ atask[b] = t /\ amsg[b] = m
    BY <1>4 DEF InFlight
  <2>2. b = a
    BY <1>1, <1>4, <2>1 DEF InFlight
  <2> QED
    BY <2>1, <2>2
<1> QED
  BY <1>1, <1>3, <1>4

LEMMA HaltRequest ==
  ASSUME ApiActions \subseteq Halting \union {"resume"},
         NEW a \in Apis, ResumesAlone,
         TypeOK, KnownMessages, ParentInv, HaltInv,
         \/ \E t \in Tasks, op \in ApiActions : ApiRead(a, t, op)
         \/ Patch(a)
  PROVE  HaltInv'
<1>1. [Next]_vars
  BY DEF Next
<1>2. \A m \in 1 .. published' : revoked'[m] = "done" =>
        \A w \in Workers : cur'[w] # m
  BY <1>1, RevokedStayOut
<1>3. \A b \in Apis \ {a} :
        apc[b] # "idle" => handle'[atask[b]] = handle[atask[b]]
  <2>1. CASE UNCHANGED handle
    BY <2>1
  <2>2. CASE /\ apc[a] = "commit" /\ aop[a] \notin Halting
             /\ handle' = [handle EXCEPT ![atask[a]] = amsg[a]]
    <3>1. \A b \in Apis \ {a} : apc[b] # "idle" => atask[b] # atask[a]
      BY <2>2 DEF ResumesAlone
    <3> QED
      BY <2>2, <3>1 DEF TypeOK, ApiType
  <2> QED
    BY <2>1, <2>2 DEF Patch, ApiRead, ApiRevoke, ApiDispatch, ApiCommit
<1>4. /\ \A b \in Apis \ {a} : apc'[b] # "idle" => AimedAt(b)'
      /\ \A m, t : InFlight(m, t) =>
           InFlight(m, t)' \/ (/\ apc[a] = "commit" /\ aop[a] = "resume"
                               /\ atask[a] = t /\ amsg[a] = m)
  BY <1>3, OthersStay
<1>5. ASSUME NEW t \in Tasks, NEW op \in ApiActions, ApiRead(a, t, op)
      PROVE HaltInv'
  <2>1. /\ apc'[a] = IF op \in Halting THEN "revoke" ELSE "dispatch"
        /\ atask'[a] = t /\ aop'[a] = op /\ amsg'[a] = handle[t]
        /\ Resolves(status[t], op, ato'[a])
    BY <1>5 DEF ApiRead, TypeOK, ApiType
  <2>2. trig = "committed"
    BY <2>1 DEF ParentInv, Resolves, Transitions
  <2>3. op = "resume" => status[t] = "paused" /\ ato'[a] = "running"
    BY <2>1 DEF Resolves, Transitions
  <2>4. op \notin Halting => revoked[handle[t]] # "no"
    BY <2>3 DEF HaltInv, Halted
  <2>5. UNCHANGED <<trig, revoked, handle>> /\ op \in Halting \union {"resume"}
    BY <1>5 DEF ApiRead
  <2>6. Aimed'
    <3>1. AimedAt(a)'
      BY <2>1, <2>2, <2>3, <2>4, <2>5 DEF AimedAt
    <3> QED
      BY <1>4, <3>1 DEF Aimed
  <2>7. Named'
    BY <1>5 DEF ApiRead, HaltInv, Named, InFlight
  <2> QED
    BY <1>2, <1>5, <2>6, <2>7 DEF ApiRead, HaltInv, BatchInv
<1>6. CASE ApiRevoke(a)
  <2>1. /\ apc[a] = "revoke" /\ aop[a] \in Halting /\ trig = "committed"
        /\ amsg[a] = handle[atask[a]] /\ atask[a] \in Tasks
    BY <1>6 DEF ApiRevoke, HaltInv, Aimed, AimedAt, TypeOK, ApiType
  <2>2. handle[atask[a]] # 0 /\ handle[atask[a]] \in Msgs
    BY <2>1, ConstantsAssumption DEF HaltInv, BatchInv, TypeOK, ApiType, Msgs
  <2>3. revoked'[amsg[a]] # "no"
    BY <1>6, <2>1, <2>2 DEF ApiRevoke, TypeOK, BrokerType
  <2>4. \A m \in Msgs : revoked[m] # "no" => revoked'[m] # "no"
    BY <1>1, RevokesStay
  <2>5. apc' = [apc EXCEPT ![a] = "commit"]
        /\ UNCHANGED <<trig, status, published, msg, handle, sentTo, atask,
                       aop, ato, amsg, orphans>>
    BY <1>6 DEF ApiRevoke
  <2>6. Aimed'
    <3>1. AimedAt(a)'
      BY <2>1, <2>3, <2>5 DEF AimedAt, TypeOK, ApiType
    <3> QED
      BY <1>4, <3>1 DEF Aimed
  <2>7. Named'
    <3>1. 1 .. published \subseteq Msgs
      BY ConstantsAssumption DEF TypeOK, BrokerType, Msgs
    <3>2. aop[a] # "resume"
      BY <2>1 DEF Halting
    <3> QED
      BY <2>1, <2>4, <2>5, <3>1, <3>2 DEF HaltInv, Named, InFlight
  <2>8. \A t \in Tasks : handle[t] \in Msgs
    BY <2>1, ConstantsAssumption DEF HaltInv, BatchInv, TypeOK, ApiType, Msgs
  <2> QED
    BY <1>2, <2>4, <2>5, <2>6, <2>7, <2>8 DEF HaltInv, BatchInv
<1>7. CASE ApiDispatch(a)
  <2>1. /\ apc[a] = "dispatch" /\ aop[a] = "resume" /\ trig = "committed"
        /\ atask[a] \in Tasks /\ ato[a] = "running"
        /\ revoked[handle[atask[a]]] # "no"
    BY <1>7 DEF ApiDispatch, HaltInv, Aimed, AimedAt, TypeOK, ApiType
  <2>2. UNCHANGED <<trig, status, revoked, handle, sentTo, atask, aop, ato,
                    orphans>>
    BY <1>7 DEF ApiDispatch, Publish
  <2>3. CASE Publish(atask[a], TRUE) /\ amsg' = [amsg EXCEPT ![a] = published']
             /\ apc' = [apc EXCEPT ![a] = "commit"]
    <3>1. /\ \A m \in 1 .. published : msg'[m] = msg[m]
          /\ published \in Nat /\ published' = published + 1
          /\ msg'[published'].key = atask[a]
      BY <2>3, ConstantsAssumption DEF Publish, TypeOK, BrokerType, Msgs
    <3>2. \A m \in 1 .. published' : m # published' => m \in 1 .. published
      BY <3>1
    <3>3. apc'[a] = "commit" /\ amsg'[a] = published' /\ published' # 0
      BY <2>3, <3>1 DEF TypeOK, ApiType
    <3>4. Named'
      <4>1. PICK n : n = published'
        OBVIOUS
      <4>2. InFlight(n, atask[a])'
        BY <2>1, <2>2, <3>3, <4>1 DEF InFlight
      <4>3. \A m, t : InFlight(m, t) => InFlight(m, t)'
        BY <1>4, <2>1
      <4>4. ASSUME NEW m \in (1 .. published') \ orphans', NEW t \in Tasks, msg'[m].key = t
            PROVE  m = handle'[t] \/ revoked'[m] # "no" \/ InFlight(m, t)'
        <5>1. CASE m = n
          <6>1. t = atask[a] /\ UNCHANGED atask
            BY <2>2, <3>1, <4>1, <4>4, <5>1
          <6> QED
            BY <4>2, <5>1, <6>1
        <5>2. CASE m # n
          <6>1. m \in (1 .. published) \ orphans /\ msg[m].key = t
            BY <2>2, <3>1, <3>2, <4>1, <4>4, <5>2
          <6>2. m = handle[t] \/ revoked[m] # "no" \/ InFlight(m, t)
            BY <2>1, <6>1 DEF HaltInv, Named
          <6> QED
            BY <2>2, <4>3, <6>2
        <5> QED
          BY <5>1, <5>2
      <4> QED
        BY <4>4 DEF Named
    <3>5. Aimed'
      <4>1. AimedAt(a)'
        BY <2>1, <2>2, <3>3 DEF AimedAt
      <4> QED
        BY <1>4, <4>1 DEF Aimed
    <3> QED
      BY <1>2, <2>1, <2>2, <3>4, <3>5 DEF HaltInv, BatchInv
  <2>4. CASE apc' = [apc EXCEPT ![a] = "idle"] /\ UNCHANGED <<broker, amsg>>
    <3>1. Named'
      BY <2>1, <2>2, <2>4 DEF HaltInv, Named, InFlight
    <3>2. Aimed'
      BY <1>4, <2>4 DEF Aimed, TypeOK, ApiType
    <3> QED
      BY <1>2, <2>1, <2>2, <2>4, <3>1, <3>2 DEF HaltInv, BatchInv
  <2> QED
    BY <1>7, <2>3, <2>4 DEF ApiDispatch
<1>8. CASE ApiCommit(a)
  <2>1. /\ apc[a] = "commit" /\ trig = "committed" /\ atask[a] \in Tasks
        /\ \/ /\ aop[a] \in Halting
              /\ amsg[a] = handle[atask[a]]
              /\ revoked[amsg[a]] # "no"
           \/ /\ aop[a] = "resume" /\ ato[a] = "running"
              /\ amsg[a] # 0
              /\ revoked[handle[atask[a]]] # "no"
    BY <1>8 DEF ApiCommit, HaltInv, Aimed, AimedAt, TypeOK, ApiType
  <2>2. /\ apc' = [apc EXCEPT ![a] = "idle"]
        /\ UNCHANGED <<trig, published, msg, revoked, sentTo, atask, aop, ato,
                       amsg>>
    BY <1>8 DEF ApiCommit
  <2>3. Aimed'
    BY <1>4, <2>2 DEF Aimed, TypeOK, ApiType
  <2>4. "resume" \notin Halting
    BY DEF Halting
  <2>5. CASE aop[a] \in Halting
    <3>1. UNCHANGED <<handle, orphans>>
      BY <1>8, <2>5 DEF ApiCommit
    <3>2. \A t \in Tasks : status'[t] \in Halted => revoked[handle[t]] # "no"
      BY <1>8, <2>1, <2>4, <2>5 DEF ApiCommit, HaltInv, TypeOK, RowsType
    <3>3. Named'
      BY <2>1, <2>2, <2>4, <2>5, <3>1 DEF HaltInv, Named, InFlight
    <3> QED
      BY <1>2, <2>2, <2>3, <3>1, <3>2, <3>3 DEF HaltInv, BatchInv
  <2>6. CASE /\ aop[a] = "resume"
             /\ status' = [status EXCEPT ![atask[a]] = ato[a]]
             /\ handle' = [handle EXCEPT ![atask[a]] = amsg[a]]
             /\ UNCHANGED orphans
    <3>1. /\ handle'[atask[a]] = amsg[a] /\ status'[atask[a]] = "running"
          /\ \A t \in Tasks \ {atask[a]} :
               handle'[t] = handle[t] /\ status'[t] = status[t]
      BY <2>1, <2>4, <2>6 DEF TypeOK, ApiType, RowsType
    <3>2. \A t \in Tasks : status'[t] \in Halted => revoked[handle'[t]] # "no"
      BY <3>1 DEF HaltInv, Halted
    <3>3. Named'
      BY <2>1, <2>2, <2>4, <2>6, <3>1 DEF HaltInv, Named, InFlight
    <3>4. BatchInv'
      BY <2>1, <2>2, <2>4, <2>6, <3>1 DEF HaltInv, BatchInv
    <3> QED
      BY <1>2, <2>2, <2>3, <3>2, <3>3, <3>4 DEF HaltInv
  <2>7. CASE /\ aop[a] = "resume"
             /\ orphans' = orphans \union {amsg[a]}
             /\ UNCHANGED <<status, handle>>
    <3>1. Named'
      BY <2>1, <2>2, <2>7 DEF HaltInv, Named, InFlight
    <3> QED
      BY <1>2, <2>2, <2>3, <2>7, <3>1 DEF HaltInv, BatchInv
  <2> QED
    BY <1>8, <2>1, <2>4, <2>5, <2>6, <2>7 DEF ApiCommit
<1> QED
  BY <1>5, <1>6, <1>7, <1>8 DEF Patch

\* When a task is paused or cancelled and its requests are over, nothing runs
\* for it and nothing queued for it will, however often it was paused and
\* resumed, however many requests are in progress at once and whatever failed on
\* the way.  It takes a resume that does not overlap with another request about
\* its task, and only the actions that revoke or follow a revoke: "start" and
\* "retry" publish a second run beside the one the row named.
THEOREM PausesHalt ==
  ASSUME ApiActions \subseteq Halting \union {"resume"}
  PROVE  Spec /\ []ResumesAlone => []PauseHalts
<1>1. Init => LockInv /\ ParentInv /\ HaltInv
  BY ConstantsAssumption
  DEF Init, InitRuns, InitApi, LockInv, LockAccounted, KnownMessages,
      ParentInv, Writing, HaltInv, BatchInv, Named, Aimed, AimedAt, Halted
<1>2. TypeOK /\ LockInv /\ [Next]_vars => LockInv'
  BY LockStep
<1>3. TypeOK /\ LockInv /\ ParentInv /\ [Next]_vars => ParentInv'
  BY ParentStep DEF LockInv
<1>4. TypeOK /\ LockInv /\ ParentInv /\ HaltInv /\ ResumesAlone /\ [Next]_vars => HaltInv'
  <2> SUFFICES ASSUME TypeOK, KnownMessages, ParentInv, HaltInv, ResumesAlone, [Next]_vars
               PROVE  HaltInv'
    BY DEF LockInv
  <2>1. CASE NextRuns /\ UNCHANGED apiVars
    BY <2>1, HaltRuns
  <2>2. CASE Trigger
    BY <2>2, HaltTrigger
  <2>3. ASSUME NEW a \in Apis,
               \/ \E t \in Tasks, op \in ApiActions : ApiRead(a, t, op)
               \/ Patch(a)
        PROVE HaltInv'
    BY <2>3, HaltRequest
  <2>4. CASE UNCHANGED vars
    BY <2>4 DEF HaltInv, BatchInv, Named, InFlight, Aimed, AimedAt
  <2> QED
    BY <2>1, <2>2, <2>3, <2>4 DEF Next
<1>5. TypeOK /\ ParentInv /\ HaltInv => PauseHalts
  <2> SUFFICES ASSUME TypeOK, ParentInv, HaltInv,
                      NEW t \in Tasks, status[t] \in Halted, Quiet(t),
                      NEW m \in (1 .. published) \ orphans, msg[m].key = t
               PROVE  revoked[m] = "done"
    BY DEF PauseHalts, Halted, HaltInv
  <2>1. trig = "committed"
    BY DEF ParentInv, Halted
  <2>2. m \in Msgs /\ ~InFlight(m, t)
    BY ConstantsAssumption DEF Quiet, InFlight, TypeOK, BrokerType, Msgs
  <2>3. revoked[m] # "no"
    BY <2>1, <2>2 DEF HaltInv, Named
  <2> QED
    BY <2>2, <2>3 DEF Quiet, TypeOK, BrokerType
<1> QED
  BY <1>1, <1>2, <1>3, <1>4, <1>5, TypeCorrect, PTL DEF Spec

-----------------------------------------------------------------------------
(* What the Redis lock is for: mutual exclusion of the runs of a key, and, *)
(* resting on it, the refinement of the task life cycle and markers that   *)
(* tell the truth.                                                         *)

\* Exactly the workers past the lock hold one, and it is in Redis unless it
\* was taken from them.
HoldersLocked ==
  \A w \in Workers :
    /\ held[w] <=> pc[w] \notin Outside
    /\ held[w] /\ w \notin robbed => lock[KeyOf(w)]

ExclusionInv == KnownMessages /\ HoldersLocked /\ UniqueRunner

LEMMA ExclusionPublish ==
  ASSUME TypeOK, ExclusionInv, NEW k \in Keys, NEW f \in BOOLEAN, Publish(k, f),
         UNCHANGED <<lock, cur, held, pc, killed, robbed>>
  PROVE  ExclusionInv'
<1>1. KnownMessages'
  BY ConstantsAssumption
  DEF ExclusionInv, KnownMessages, TypeOK, BrokerType, Publish
<1>2. \A m \in 1 .. published : msg'[m] = msg[m]
  BY ConstantsAssumption DEF TypeOK, BrokerType, Publish, Msgs
<1>3. \A w \in Workers : held[w] => KeyOf(w)' = KeyOf(w)
  BY <1>2
  DEF ExclusionInv, HoldersLocked, KnownMessages, TypeOK, WorkersType,
      Outside, KeyOf
<1>4. HoldersLocked' /\ UniqueRunner'
  BY <1>3 DEF ExclusionInv, HoldersLocked, UniqueRunner
<1> QED
  BY <1>1, <1>4 DEF ExclusionInv

\* Workers of S leave; a worker that stays and whose key is unlocked is robbed.
LEMMA ExclusionReturn ==
  ASSUME TypeOK, ExclusionInv, NEW S \in SUBSET Workers, BackToPool(S),
         UNCHANGED <<published, msg>>, killed' \subseteq 1 .. published,
         robbed \ S \subseteq robbed',
         \A k \in Keys : lock[k] /\ ~lock'[k] => Holders(k) \ S \subseteq robbed'
  PROVE  ExclusionInv'
<1>1. KnownMessages'
  BY ConstantsAssumption
  DEF ExclusionInv, KnownMessages, TypeOK, WorkersType, BrokerType, BackToPool
<1>2. \A w \in Workers :
        /\ held'[w] => held[w] /\ w \notin S /\ KeyOf(w)' = KeyOf(w)
        /\ w \in S => pc'[w] = "idle" /\ ~held'[w]
        /\ w \notin S => pc'[w] = pc[w] /\ held'[w] = held[w]
  BY DEF BackToPool, KeyOf
<1>3. \A w \in Workers : held[w] => KeyOf(w) \in Keys
  BY Busy DEF ExclusionInv, HoldersLocked, Outside, TypeOK
<1>4. \A w \in Workers : held'[w] /\ w \notin robbed' => lock'[KeyOf(w)']
  BY <1>2, <1>3 DEF ExclusionInv, HoldersLocked, Holders
<1>5. HoldersLocked'
  BY <1>2, <1>4 DEF ExclusionInv, HoldersLocked, Outside
<1>6. UniqueRunner'
  BY <1>2 DEF ExclusionInv, UniqueRunner
<1> QED
  BY <1>1, <1>5, <1>6 DEF ExclusionInv

\* A worker goes on without taking or giving up a lock.
LEMMA ExclusionMove ==
  ASSUME TypeOK, ExclusionInv, NEW w \in Workers, NEW l \in Steps, Goto(w, l),
         pc[w] \in Outside <=> l \in Outside,
         UNCHANGED <<lock, cur, held, published, msg, killed, robbed>>
  PROVE  ExclusionInv'
<1>1. \A v \in Workers : pc'[v] = IF v = w THEN l ELSE pc[v]
  BY DEF Goto, TypeOK, WorkersType
<1>2. KnownMessages' /\ UniqueRunner'
  BY <1>1 DEF ExclusionInv, KnownMessages, UniqueRunner, KeyOf
<1>3. HoldersLocked'
  BY <1>1 DEF ExclusionInv, HoldersLocked, KeyOf
<1> QED
  BY <1>2, <1>3 DEF ExclusionInv

\* A key disappears from Redis under its holders.
LEMMA ExclusionRob ==
  ASSUME TypeOK, ExclusionInv, NEW k \in Keys,
         lock' = [lock EXCEPT ![k] = FALSE],
         robbed' = robbed \union Holders(k),
         \A w \in Workers : pc'[w] \in Outside <=> pc[w] \in Outside,
         UNCHANGED <<cur, held, published, msg, killed>>
  PROVE  ExclusionInv'
<1>1. KnownMessages' /\ UniqueRunner'
  BY DEF ExclusionInv, KnownMessages, UniqueRunner, KeyOf
<1>2. \A w \in Workers : held[w] => KeyOf(w) \in Keys
  BY Busy DEF ExclusionInv, HoldersLocked, Outside, TypeOK
<1>3. HoldersLocked'
  BY <1>2 DEF ExclusionInv, HoldersLocked, Holders, KeyOf, TypeOK
<1> QED
  BY <1>1, <1>3 DEF ExclusionInv

LEMMA ExclusionStep ==
  ASSUME TypeOK, ExclusionInv, [Next]_vars
  PROVE  ExclusionInv'
<1>1. ASSUME NEW w \in Workers, CheckStatus(w), UNCHANGED apiVars
      PROVE ExclusionInv'
  <2>1. CASE SkipAsSucceeded(w)
    BY <1>1, <2>1, ExclusionReturn
    DEF CheckStatus, SkipAsSucceeded, ExclusionInv, KnownMessages, TypeOK
  <2>2. CASE Goto(w, "marker") /\ UNCHANGED <<locals, history>>
    BY <1>1, <2>2, ExclusionMove
    DEF CheckStatus, SkipAsSucceeded, Outside, Steps
  <2> QED
    BY <1>1, <2>1, <2>2 DEF CheckStatus
<1>2. ASSUME NEW w \in Workers, CheckMarker(w), UNCHANGED apiVars
      PROVE ExclusionInv'
  <2>1. CASE SkipAsSucceeded(w)
    BY <1>2, <2>1, ExclusionReturn
    DEF CheckMarker, SkipAsSucceeded, ExclusionInv, KnownMessages, TypeOK
  <2>2. CASE Goto(w, "lock") /\ UNCHANGED <<locals, history>>
    BY <1>2, <2>2, ExclusionMove
    DEF CheckMarker, SkipAsSucceeded, Outside, Steps
  <2> QED
    BY <1>2, <2>1, <2>2 DEF CheckMarker
<1>3. ASSUME NEW w \in Workers, ForceUnlock(w), UNCHANGED apiVars
      PROVE ExclusionInv'
  <2>1. KeyOf(w) \in Keys
    BY <1>3, Busy DEF ForceUnlock, TypeOK
  <2> QED
    BY <1>3, <2>1, ExclusionRob
    DEF ForceUnlock, Goto, Outside, TypeOK, WorkersType
<1>4. ASSUME NEW w \in Workers, Acquire(w), UNCHANGED apiVars
      PROVE ExclusionInv'
  <2>1. CASE lock[KeyOf(w)]
    BY <1>4, <2>1, ExclusionReturn
    DEF Acquire, ExclusionInv, KnownMessages, TypeOK
  <2>2. CASE ~lock[KeyOf(w)]
    <3>1. KnownMessages'
      BY <1>4, <2>2
      DEF Acquire, Goto, ExclusionInv, KnownMessages, TypeOK,
          WorkersType
    <3>2. KeyOf(w) \in Keys
      BY <1>4, Busy DEF Acquire, TypeOK
    <3>3. \A v \in Workers : /\ KeyOf(v)' = KeyOf(v)
                              /\ held'[v] = (v = w \/ held[v])
                              /\ pc'[v] = IF v = w THEN "chain" ELSE pc[v]
      BY <1>4, <2>2 DEF Acquire, Goto, TypeOK, WorkersType, KeyOf
    <3>4. lock'[KeyOf(w)] /\ \A k \in Keys : lock[k] => lock'[k]
      BY <1>4, <2>2, <3>2 DEF Acquire, TypeOK
    <3>5. /\ \A v \in Workers : held[v] => KeyOf(v) \in Keys
          /\ \A v \in Workers : held[v] /\ v \notin robbed => KeyOf(v) # KeyOf(w)
      BY <2>2, Busy DEF ExclusionInv, HoldersLocked, Outside, TypeOK
    <3> robbed' = robbed
      BY <1>4 DEF Acquire
    <3>6. HoldersLocked'
      <4>1. \A v \in Workers : held[v] <=> pc[v] \notin Outside
        BY DEF ExclusionInv, HoldersLocked
      <4>2. \A v \in Workers : held'[v] <=> pc'[v] \notin Outside
        BY <3>3, <4>1 DEF Outside
      <4>3. \A v \in Workers : held[v] /\ v \notin robbed => lock'[KeyOf(v)]
        BY <3>4, <3>5 DEF ExclusionInv, HoldersLocked
      <4>4. \A v \in Workers : held'[v] /\ v \notin robbed => lock'[KeyOf(v)']
        BY <3>3, <3>4, <4>3, ZenonT(30)
      <4> QED
        BY <4>2, <4>4 DEF HoldersLocked
    <3>7. UniqueRunner'
      <4> SUFFICES ASSUME NEW u \in Workers, NEW v \in Workers,
                          u # v, held'[u], held'[v], KeyOf(u)' = KeyOf(v)'
                   PROVE  {u, v} \intersect robbed # {}
        BY DEF UniqueRunner
      <4>1. \A x \in {u, v} : x = w \/ held[x]
        BY <3>3
      <4>2. CASE held[u] /\ held[v]
        BY <3>3, <4>2 DEF ExclusionInv, UniqueRunner
      <4>3. CASE u = w /\ held[v]
        BY <3>3, <3>5, <4>3
      <4>4. CASE v = w /\ held[u]
        BY <3>3, <3>5, <4>4
      <4> QED
        BY <4>1, <4>2, <4>3, <4>4
    <3> QED
      BY <3>1, <3>6, <3>7 DEF ExclusionInv
  <2> QED
    BY <2>1, <2>2
<1>5. ASSUME NEW w \in Workers, OpenChain(w), UNCHANGED apiVars
      PROVE ExclusionInv'
  BY <1>5, ExclusionMove DEF OpenChain, Outside, Steps
<1>6. ASSUME NEW w \in Workers, AdoptChain(w), UNCHANGED apiVars
      PROVE ExclusionInv'
  BY <1>6, ExclusionMove DEF AdoptChain, Outside, Steps
<1>7. ASSUME NEW w \in Workers, ClaimRead(w), UNCHANGED apiVars
      PROVE ExclusionInv'
  BY <1>7, ExclusionMove DEF ClaimRead, ReadStatus, Outside, Steps
<1>8. ASSUME NEW w \in Workers, ClaimWrite(w), UNCHANGED apiVars
      PROVE ExclusionInv'
  BY <1>8, ExclusionMove DEF ClaimWrite, WriteStatus, Outside, Steps
<1>9. ASSUME NEW w \in Workers, Execute(w), UNCHANGED apiVars
      PROVE ExclusionInv'
  <2>1. CASE UNCHANGED pc
    BY <1>9, <2>1
    DEF Execute, ExclusionInv, HoldersLocked, UniqueRunner,
        KnownMessages, Outside, TypeOK, BrokerType, WorkersType, KeyOf, Msgs
  <2>2. CASE pc' # pc
    BY <1>9, <2>2, ExclusionMove DEF Execute, Outside, Steps
  <2> QED
    BY <2>1, <2>2
<1>10. ASSUME NEW w \in Workers, SucceedChain(w), UNCHANGED apiVars
       PROVE ExclusionInv'
  BY <1>10, ExclusionMove DEF SucceedChain, CloseChain, Outside, Steps
<1>11. ASSUME NEW w \in Workers, DoneRead(w), UNCHANGED apiVars
       PROVE ExclusionInv'
  BY <1>11, ExclusionMove DEF DoneRead, ReadStatus, Outside, Steps
<1>12. ASSUME NEW w \in Workers, DoneWrite(w), UNCHANGED apiVars
       PROVE ExclusionInv'
  BY <1>12, ExclusionMove DEF DoneWrite, WriteStatus, Outside, Steps
<1>13. ASSUME NEW w \in Workers, MarkSucceeded(w), UNCHANGED apiVars
       PROVE ExclusionInv'
  BY <1>13, ExclusionMove DEF MarkSucceeded, Outside, Steps
<1>14. ASSUME NEW w \in Workers, FailChain(w), UNCHANGED apiVars
       PROVE ExclusionInv'
  BY <1>14, ExclusionMove DEF FailChain, CloseChain, Outside, Steps
<1>15. ASSUME NEW w \in Workers, FailRead(w), UNCHANGED apiVars
       PROVE ExclusionInv'
  BY <1>15, ExclusionMove DEF FailRead, ReadStatus, Outside, Steps
<1>16. ASSUME NEW w \in Workers, FailWrite(w), UNCHANGED apiVars
       PROVE ExclusionInv'
  BY <1>16, ExclusionMove DEF FailWrite, WriteStatus, Outside, Steps
<1>17. ASSUME NEW w \in Workers, Release(w), UNCHANGED apiVars
       PROVE ExclusionInv'
  <2>1. held[w] /\ KeyOf(w) \in Keys
    BY <1>17, Busy DEF Release, ExclusionInv, HoldersLocked, Outside, TypeOK
  <2> QED
    BY <1>17, <2>1, ExclusionReturn
    DEF Release, Holders, ExclusionInv, KnownMessages, TypeOK
<1>18. ASSUME NEW w \in Workers, Crash(w), UNCHANGED apiVars PROVE ExclusionInv'
  <2>1. cur[w] \in 1 .. published
    BY <1>18
    DEF Crash, ExclusionInv, KnownMessages, TypeOK, WorkersType, BrokerType
  <2> QED
    BY <1>18, <2>1, ExclusionReturn
    DEF Crash, Kill, ExclusionInv, KnownMessages, TypeOK
<1>19. ASSUME NEW w \in Workers, NEW m \in 1 .. published, Take(w, m),
              UNCHANGED apiVars
       PROVE ExclusionInv'
  <2>1. KnownMessages'
    BY <1>19
    DEF Take, Goto, ExclusionInv, KnownMessages, TypeOK,
        WorkersType, BrokerType
  <2>2. ~held[w] /\ \A v \in Workers : v # w => pc'[v] = pc[v] /\ KeyOf(v)' =
    KeyOf(v)
    BY <1>19
    DEF Take, Goto, ExclusionInv, HoldersLocked, Outside, KeyOf, TypeOK,
        WorkersType
  <2>3. pc'[w] \in Outside
    BY <1>19 DEF Take, Goto, Outside, TypeOK, WorkersType
  <2>4. HoldersLocked' /\ UniqueRunner'
    BY <1>19, <2>2, <2>3 DEF Take, ExclusionInv, HoldersLocked, UniqueRunner
  <2> QED
    BY <2>1, <2>4 DEF ExclusionInv
<1>20. ASSUME NEW m \in 1 .. published, Redeliver(m), UNCHANGED apiVars
       PROVE ExclusionInv'
  BY <1>20, ConstantsAssumption
  DEF ExclusionInv, HoldersLocked, UniqueRunner, KnownMessages,
      Outside, TypeOK, BrokerType, WorkersType, KeyOf, Msgs, Redeliver
<1>21. ASSUME NEW m \in 1 .. published, Discard(m), UNCHANGED apiVars
       PROVE ExclusionInv'
  BY <1>21, ConstantsAssumption
  DEF ExclusionInv, HoldersLocked, UniqueRunner, KnownMessages,
      Outside, TypeOK, BrokerType, WorkersType, KeyOf, Msgs, Discard
<1>22. ASSUME NEW m \in 1 .. published, DeliverRevoke(m), UNCHANGED apiVars
       PROVE ExclusionInv'
  <2> DEFINE S == {w \in Workers : cur[w] = m}
  <2>1. BackToPool(S) /\ killed' = killed \union {cur[w] : w \in S}
    BY <1>22 DEF DeliverRevoke, Kill
  <2>2. {cur[w] : w \in S} \subseteq 1 .. published
    OBVIOUS
  <2> QED
    BY <1>22, <2>1, <2>2, ExclusionReturn
    DEF DeliverRevoke, Kill, ExclusionInv, KnownMessages, TypeOK
<1>23. ASSUME NEW k \in Keys, Tick(k), UNCHANGED apiVars PROVE ExclusionInv'
  BY <1>23, ExclusionPublish DEF Tick
<1>24. ASSUME NEW k \in Keys, ExpireLock(k), UNCHANGED apiVars
       PROVE ExclusionInv'
  BY <1>24, ExclusionRob DEF ExpireLock
<1>25. ASSUME NEW k \in Keys, ExpireMarker(k), UNCHANGED apiVars
       PROVE ExclusionInv'
  BY <1>25, ConstantsAssumption
  DEF ExclusionInv, HoldersLocked, UniqueRunner, KnownMessages,
      Outside, TypeOK, BrokerType, WorkersType, KeyOf, Msgs, ExpireMarker
<1>26. ASSUME TriggerBegin PROVE ExclusionInv'
  BY <1>26, ConstantsAssumption
  DEF ExclusionInv, HoldersLocked, UniqueRunner, KnownMessages,
      Outside, TypeOK, BrokerType, WorkersType, KeyOf, Msgs, TriggerBegin
<1>27. ASSUME TriggerAbort PROVE ExclusionInv'
  BY <1>27, ConstantsAssumption
  DEF ExclusionInv, HoldersLocked, UniqueRunner, KnownMessages,
      Outside, TypeOK, BrokerType, WorkersType, KeyOf, Msgs, TriggerAbort
<1>28. ASSUME TriggerCommit PROVE ExclusionInv'
  BY <1>28, ConstantsAssumption
  DEF ExclusionInv, HoldersLocked, UniqueRunner, KnownMessages,
      Outside, TypeOK, BrokerType, WorkersType, KeyOf, Msgs, TriggerCommit
<1>29. ASSUME NEW t \in Tasks, TriggerDispatch(t) PROVE ExclusionInv'
  BY <1>29, ExclusionPublish DEF TriggerDispatch, Keys
<1>30. ASSUME NEW a \in Apis, NEW t \in Tasks, NEW op \in ApiActions,
              ApiRead(a, t, op)
       PROVE ExclusionInv'
  BY <1>30, ConstantsAssumption
  DEF ExclusionInv, HoldersLocked, UniqueRunner, KnownMessages,
      Outside, TypeOK, BrokerType, WorkersType, KeyOf, Msgs, ApiRead, Halting,
      ApiType
<1>31. ASSUME NEW a \in Apis, ApiRevoke(a) PROVE ExclusionInv'
  BY <1>31, ConstantsAssumption
  DEF ExclusionInv, HoldersLocked, UniqueRunner, KnownMessages,
      Outside, TypeOK, BrokerType, WorkersType, KeyOf, Msgs, ApiRevoke,
      ApiType
<1>32. ASSUME NEW a \in Apis, ApiDispatch(a) PROVE ExclusionInv'
  <2>1. CASE UNCHANGED broker
    BY <1>32, <2>1, ConstantsAssumption
    DEF ExclusionInv, HoldersLocked, UniqueRunner, KnownMessages, Outside,
        TypeOK, BrokerType, WorkersType, KeyOf, Msgs, ApiDispatch
  <2>2. CASE Publish(atask[a], TRUE)
    <3>1. atask[a] \in Keys
      BY DEF TypeOK, ApiType, Keys
    <3> QED
      BY <1>32, <2>2, <3>1, ExclusionPublish DEF ApiDispatch
  <2> QED
    BY <1>32, <2>1, <2>2 DEF ApiDispatch
<1>33. ASSUME NEW a \in Apis, ApiCommit(a) PROVE ExclusionInv'
  BY <1>33, ConstantsAssumption
  DEF ExclusionInv, HoldersLocked, UniqueRunner, KnownMessages,
      Outside, TypeOK, BrokerType, WorkersType, KeyOf, Msgs, ApiCommit,
      ApiType
<1>34. CASE UNCHANGED vars
  BY <1>34
  DEF ExclusionInv, HoldersLocked, UniqueRunner, KnownMessages,
      Outside, TypeOK, BrokerType, WorkersType, KeyOf, Msgs
<1> QED
  BY <1>1, <1>2, <1>3, <1>4, <1>5, <1>6, <1>7, <1>8, <1>9, <1>10, <1>11,
    <1>12, <1>13, <1>14, <1>15, <1>16, <1>17, <1>18, <1>19, <1>20, <1>21,
    <1>22, <1>23, <1>24, <1>25, <1>26, <1>27, <1>28, <1>29, <1>30, <1>31,
    <1>32, <1>33, <1>34
  DEF Next, NextRuns, RunStep, Trigger, Patch

\* Whatever is killed, redelivered, rolled back, paused or run by force, and
\* however long a run takes: of two workers that run one key at once, one has
\* had its lock deleted or expired under it.
THEOREM OneRunner == Spec => []UniqueRunner
<1>1. Init => ExclusionInv
  BY ConstantsAssumption
  DEF Init, InitRuns, InitApi, ExclusionInv, KnownMessages, HoldersLocked,
      UniqueRunner, Outside
<1>2. TypeOK /\ ExclusionInv /\ [Next]_vars => ExclusionInv'
  BY ExclusionStep
<1>3. ExclusionInv => UniqueRunner
  BY DEF ExclusionInv
<1> QED
  BY <1>1, <1>2, <1>3, TypeCorrect, PTL DEF Spec

-----------------------------------------------------------------------------
(* When nothing takes a lock from its holder. *)

\* No forced message exists or is about to.
NoReruns ==
  /\ \A m \in 1 .. published : msg[m].force = FALSE
  /\ \A a \in Apis : apc[a] # "dispatch"
  /\ \A w \in Workers : pc[w] # "unlock"

\* With robbed empty, ExclusionInv says that a key has at most one runner.
SoloInv == ExclusionInv /\ NoReruns /\ robbed = {}

LEMMA SoloStep ==
  ASSUME "slowRun" \notin Faults, ApiActions \subseteq Halting,
         TypeOK, SoloInv, [Next]_vars
  PROVE  SoloInv'
<1>1. ExclusionInv'
  BY ExclusionStep DEF SoloInv
<1>2. ASSUME NEW a \in Apis, apc'[a] = "dispatch" PROVE FALSE
  BY <1>2
  DEF SoloInv, NoReruns, Halting, TypeOK, ApiType, Next, NextRuns, Trigger,
      Patch, TriggerBegin, TriggerDispatch, TriggerAbort, TriggerCommit,
      ApiRead, ApiRevoke, ApiDispatch, ApiCommit
<1>3. ASSUME NEW k, Publish(k, FALSE)
      PROVE \A m \in 1 .. published' : msg'[m].force = FALSE
  <2>1. /\ \A m \in 1 .. published : msg'[m] = msg[m]
        /\ published' = published + 1 /\ msg'[published'].force = FALSE
    BY <1>3, ConstantsAssumption DEF TypeOK, BrokerType, Publish, Msgs
  <2> QED
    BY <2>1 DEF SoloInv, NoReruns, TypeOK, BrokerType
<1>4. \A m \in 1 .. published' : msg'[m].force = FALSE
  <2>1. CASE UNCHANGED <<published, msg>>
    BY <2>1 DEF SoloInv, NoReruns
  <2>2. ASSUME NEW a \in Apis, ApiDispatch(a) PROVE FALSE
    BY <2>2 DEF ApiDispatch, SoloInv, NoReruns
  <2>3. CASE NextRuns
    BY <1>3, <2>1, <2>3
    DEF NextRuns, RunStep, CheckStatus, CheckMarker, ForceUnlock, Acquire,
        OpenChain, AdoptChain, ClaimRead, DoneRead, FailRead, ReadStatus,
        ClaimWrite, DoneWrite, FailWrite, WriteStatus, Execute, SucceedChain,
        FailChain, CloseChain, MarkSucceeded, Release, Crash, Kill, Take,
        Redeliver, Discard, DeliverRevoke, Tick, ExpireLock, ExpireMarker
  <2> QED
    BY <1>3, <2>1, <2>2, <2>3
    DEF Next, Trigger, Patch, TriggerBegin, TriggerDispatch, TriggerAbort,
        TriggerCommit, ApiRead, ApiRevoke, ApiCommit
<1>5. ASSUME NEW w \in Workers, pc'[w] = "unlock" PROVE FALSE
  <2>1. ASSUME NEW m \in 1 .. published, Take(w, m) PROVE FALSE
    BY <1>5, <2>1 DEF Take, Goto, SoloInv, NoReruns, TypeOK, WorkersType
  <2>2. CASE RunStep(w)
    BY <1>5, <2>2
    DEF RunStep, CheckStatus, CheckMarker, SkipAsSucceeded, ForceUnlock,
        Acquire, OpenChain, AdoptChain, ClaimRead, DoneRead, FailRead,
        ReadStatus, ClaimWrite, DoneWrite, FailWrite, WriteStatus, Execute,
        SucceedChain, FailChain, CloseChain, MarkSucceeded, Release, BackToPool,
        Goto, SoloInv, NoReruns, TypeOK, WorkersType
  <2> QED
    BY <1>5, <2>1, <2>2, PoolMoves DEF SoloInv, NoReruns
<1>6. robbed' = {}
  <2>1. CASE UNCHANGED robbed
    BY <2>1 DEF SoloInv
  <2>2. ASSUME NEW w \in Workers, ForceUnlock(w) PROVE FALSE
    BY <2>2 DEF ForceUnlock, SoloInv, NoReruns
  <2>3. ASSUME NEW w \in Workers, Release(w) PROVE robbed' = {}
    <3>1. held[w]
      BY <2>3 DEF Release, SoloInv, ExclusionInv, HoldersLocked, Outside
    <3>2. Holders(KeyOf(w)) \subseteq {w}
      BY <3>1 DEF Holders, SoloInv, ExclusionInv, UniqueRunner
    <3> QED
      BY <2>3, <3>2 DEF Release, SoloInv
  <2>4. ASSUME NEW k \in Keys, ExpireLock(k) PROVE robbed' = {}
    BY <2>4 DEF ExpireLock, SoloInv
  <2>5. ASSUME NEW S, Kill(S) PROVE robbed' = {}
    BY <2>5 DEF Kill, SoloInv
  <2>6. CASE NextRuns
    BY <2>1, <2>2, <2>3, <2>4, <2>5, <2>6
    DEF NextRuns, RunStep, CheckStatus, CheckMarker, SkipAsSucceeded, Acquire,
        OpenChain, AdoptChain, ClaimRead, DoneRead, FailRead, ReadStatus,
        ClaimWrite, DoneWrite, FailWrite, WriteStatus, Execute, SucceedChain,
        FailChain, CloseChain, MarkSucceeded, Crash, Take, Redeliver, Discard,
        DeliverRevoke, Tick, ExpireMarker
  <2> QED
    BY <2>1, <2>6
    DEF Next, Trigger, Patch, TriggerBegin, TriggerDispatch, TriggerAbort,
        TriggerCommit, ApiRead, ApiRevoke, ApiDispatch, ApiCommit
<1> QED
  BY <1>1, <1>2, <1>4, <1>5, <1>6 DEF SoloInv, NoReruns

-----------------------------------------------------------------------------
(* Refinement of the task life cycle. *)

\* A worker about to write finds the row as it read it: nobody else writes the
\* row in between.
RowInv ==
  /\ \A a \in Apis : apc[a] = "idle"
  /\ trig # "committed" => status = [t \in Tasks |-> "absent"]
  /\ \A w \in Workers : pc[w] = "claimWrite" =>
       KeyOf(w) \in Tasks /\ status[KeyOf(w)] = "pending"
  /\ \A w \in Workers : pc[w] \in {"doneWrite", "failWrite"} =>
       KeyOf(w) \in Tasks /\ status[KeyOf(w)] = "running"

\* Steps that neither touch the rows nor bring a worker to a write.
LEMMA RowsKept ==
  ASSUME RowInv, UNCHANGED <<status, apc>>, trig' = "committed" <=> trig =
    "committed",
         \A w \in Workers : pc'[w] \in Writing =>
           pc'[w] = pc[w] /\ KeyOf(w)' = KeyOf(w)
  PROVE  RowInv'
  BY DEF RowInv, Writing

\* A worker that goes to a step which is not a write.
LEMMA RowMove ==
  ASSUME TypeOK, RowInv, NEW w \in Workers, NEW l \in Steps \ Writing, Goto(w,
    l),
         UNCHANGED <<status, trig, apc, cur, msg>>
  PROVE  RowInv'
  BY RowsKept DEF Goto, KeyOf, TypeOK, WorkersType

LEMMA RowReturn ==
  ASSUME TypeOK, RowInv, NEW S \in SUBSET Workers, BackToPool(S),
         UNCHANGED <<status, trig, apc, msg>>
  PROVE  RowInv'
  BY RowsKept DEF BackToPool, KeyOf, TypeOK, WorkersType, Writing

LEMMA RowPublish ==
  ASSUME TypeOK, RowInv, KnownMessages, NEW k \in Keys, NEW f \in BOOLEAN,
    Publish(k, f),
         UNCHANGED <<status, trig, apc, cur, pc>>
  PROVE  RowInv'
<1>1. \A m \in 1 .. published : msg'[m] = msg[m]
  BY ConstantsAssumption DEF TypeOK, BrokerType, Publish, Msgs
<1>2. \A w \in Workers : pc[w] \in Writing => KeyOf(w)' = KeyOf(w)
  BY <1>1 DEF KnownMessages, TypeOK, WorkersType, Writing, KeyOf
<1> QED
  BY <1>2, RowsKept

LEMMA RowRead ==
  ASSUME TypeOK, RowInv, NEW w \in Workers, NEW at, NEW next \in Steps \
    Writing,
         NEW from, NEW write,
         \/ write = "claimWrite" /\ from = {"pending"}
         \/ write \in {"doneWrite", "failWrite"} /\ from = {"running"},
         ReadStatus(w, at, from, write, next), UNCHANGED apc
  PROVE  RowInv'
<1>1. CASE Goto(w, next)
  BY <1>1, RowMove DEF ReadStatus
<1>2. CASE RowOf(w) \in from /\ Goto(w, write)
  <2>1. \A v \in Workers : pc'[v] = IF v = w THEN write ELSE pc[v]
    BY <1>2 DEF Goto, TypeOK, WorkersType
  <2>2. KeyOf(w) \in Tasks /\ status[KeyOf(w)] \in from
    BY <1>2 DEF RowOf, IsTask
  <2>3. UNCHANGED <<status, trig, cur, msg>>
    BY DEF ReadStatus
  <2> QED
    BY <2>1, <2>2, <2>3 DEF RowInv, KeyOf
<1> QED
  BY <1>1, <1>2 DEF ReadStatus

\* Only one worker is at a write of a given row, so the write lands on the
\* status that was read.
LEMMA RowWrite ==
  ASSUME TypeOK, SoloInv, RowInv, NEW w \in Workers, NEW at \in Writing,
         NEW new, NEW next \in Steps \ Writing,
         WriteStatus(w, at, new, next), UNCHANGED apc
  PROVE  RowInv'
<1>1. CASE UNCHANGED status
  BY <1>1, RowMove DEF WriteStatus
<1>2. CASE status' = [status EXCEPT ![KeyOf(w)] = new]
  <2>1. UNCHANGED <<trig, cur, msg>> /\ \A v \in Workers : pc'[v] = IF v = w
    THEN next ELSE pc[v]
    BY DEF WriteStatus, Goto, TypeOK, WorkersType
  <2>2. \A v \in Workers : v # w /\ pc[v] \in Writing => KeyOf(v) # KeyOf(w)
    BY DEF WriteStatus, SoloInv, ExclusionInv, HoldersLocked, UniqueRunner, Outside,
      Writing
  <2>3. KeyOf(w) \in Tasks /\ status[KeyOf(w)] # "absent" /\ trig = "committed"
    BY DEF WriteStatus, RowInv, Writing
  <2>4. \A t \in Tasks : t # KeyOf(w) => status'[t] = status[t]
    BY <1>2 DEF TypeOK, RowsType
  <2> QED
    BY <2>1, <2>2, <2>3, <2>4 DEF RowInv, Writing, KeyOf
<1> QED
  BY <1>1, <1>2 DEF WriteStatus

LEMMA RowStep ==
  ASSUME ApiActions = {}, TypeOK, SoloInv, RowInv, [Next]_vars
  PROVE  RowInv'
<1> USE DEF Steps, Writing
<1>1. ASSUME NEW w \in Workers, CheckStatus(w), UNCHANGED apiVars PROVE RowInv'
  BY <1>1, RowMove, RowReturn DEF CheckStatus, SkipAsSucceeded
<1>2. ASSUME NEW w \in Workers, CheckMarker(w), UNCHANGED apiVars PROVE RowInv'
  BY <1>2, RowMove, RowReturn DEF CheckMarker, SkipAsSucceeded
<1>3. ASSUME NEW w \in Workers, ForceUnlock(w), UNCHANGED apiVars PROVE RowInv'
  BY <1>3, RowMove DEF ForceUnlock
<1>4. ASSUME NEW w \in Workers, Acquire(w), UNCHANGED apiVars PROVE RowInv'
  BY <1>4, RowMove, RowReturn DEF Acquire
<1>5. ASSUME NEW w \in Workers, OpenChain(w), UNCHANGED apiVars PROVE RowInv'
  BY <1>5, RowMove DEF OpenChain
<1>6. ASSUME NEW w \in Workers, AdoptChain(w), UNCHANGED apiVars PROVE RowInv'
  BY <1>6, RowMove DEF AdoptChain
<1>7. ASSUME NEW w \in Workers, ClaimRead(w), UNCHANGED apiVars PROVE RowInv'
  BY <1>7, RowRead DEF ClaimRead
<1>8. ASSUME NEW w \in Workers, ClaimWrite(w), UNCHANGED apiVars PROVE RowInv'
  BY <1>8, RowWrite DEF ClaimWrite
<1>9. ASSUME NEW w \in Workers, Execute(w), UNCHANGED apiVars PROVE RowInv'
  BY <1>9, RowMove, RowsKept DEF Execute, KeyOf
<1>10. ASSUME NEW w \in Workers, SucceedChain(w), UNCHANGED apiVars
       PROVE RowInv'
  BY <1>10, RowMove DEF SucceedChain, CloseChain
<1>11. ASSUME NEW w \in Workers, DoneRead(w), UNCHANGED apiVars PROVE RowInv'
  BY <1>11, RowRead DEF DoneRead
<1>12. ASSUME NEW w \in Workers, DoneWrite(w), UNCHANGED apiVars PROVE RowInv'
  BY <1>12, RowWrite DEF DoneWrite
<1>13. ASSUME NEW w \in Workers, MarkSucceeded(w), UNCHANGED apiVars
       PROVE RowInv'
  BY <1>13, RowMove DEF MarkSucceeded
<1>14. ASSUME NEW w \in Workers, FailChain(w), UNCHANGED apiVars PROVE RowInv'
  BY <1>14, RowMove DEF FailChain, CloseChain
<1>15. ASSUME NEW w \in Workers, FailRead(w), UNCHANGED apiVars PROVE RowInv'
  BY <1>15, RowRead DEF FailRead
<1>16. ASSUME NEW w \in Workers, FailWrite(w), UNCHANGED apiVars PROVE RowInv'
  BY <1>16, RowWrite DEF FailWrite
<1>17. ASSUME NEW w \in Workers, Release(w), UNCHANGED apiVars PROVE RowInv'
  BY <1>17, RowReturn DEF Release
<1>18. ASSUME NEW w \in Workers, Crash(w), UNCHANGED apiVars PROVE RowInv'
  BY <1>18, RowReturn DEF Crash, Kill
<1>19. ASSUME NEW w \in Workers, NEW m \in 1 .. published, Take(w, m),
              UNCHANGED apiVars
       PROVE RowInv'
  BY <1>19, RowsKept DEF Take, Goto, KeyOf, TypeOK, WorkersType
<1>20. ASSUME NEW m \in 1 .. published, Redeliver(m), UNCHANGED apiVars
       PROVE RowInv'
  BY <1>20, RowsKept DEF Redeliver, KeyOf
<1>21. ASSUME NEW m \in 1 .. published, Discard(m), UNCHANGED apiVars
       PROVE RowInv'
  BY <1>21, RowsKept DEF Discard, KeyOf
<1>22. ASSUME NEW m \in 1 .. published, DeliverRevoke(m), UNCHANGED apiVars
       PROVE RowInv'
  BY <1>22, RowReturn DEF DeliverRevoke, Kill
<1>23. ASSUME NEW k \in Keys, Tick(k), UNCHANGED apiVars PROVE RowInv'
  BY <1>23, RowPublish DEF Tick, SoloInv, ExclusionInv
<1>24. ASSUME NEW k \in Keys, ExpireLock(k), UNCHANGED apiVars PROVE RowInv'
  BY <1>24, RowsKept DEF ExpireLock, KeyOf
<1>25. ASSUME NEW k \in Keys, ExpireMarker(k), UNCHANGED apiVars PROVE RowInv'
  BY <1>25, RowsKept DEF ExpireMarker, KeyOf
<1>26. ASSUME TriggerBegin PROVE RowInv'
  BY <1>26, RowsKept DEF TriggerBegin, KeyOf
<1>27. ASSUME TriggerAbort PROVE RowInv'
  BY <1>27, RowsKept DEF TriggerAbort, KeyOf
<1>28. ASSUME TriggerCommit PROVE RowInv'
  <2>1. \A w \in Workers : pc[w] \notin Writing
    BY <1>28 DEF TriggerCommit, RowInv
  <2> QED
    BY <1>28, <2>1 DEF TriggerCommit, RowInv
<1>29. ASSUME NEW t \in Tasks, TriggerDispatch(t) PROVE RowInv'
  BY <1>29, RowPublish DEF TriggerDispatch, Keys, SoloInv, ExclusionInv
<1>30. ASSUME NEW a \in Apis, NEW t \in Tasks, NEW op \in ApiActions,
              ApiRead(a, t, op)
       PROVE RowInv'
  OBVIOUS
<1>31. ASSUME NEW a \in Apis, ApiRevoke(a) PROVE RowInv'
  BY <1>31 DEF ApiRevoke, RowInv
<1>32. ASSUME NEW a \in Apis, ApiDispatch(a) PROVE RowInv'
  BY <1>32 DEF ApiDispatch, RowInv
<1>33. ASSUME NEW a \in Apis, ApiCommit(a) PROVE RowInv'
  BY <1>33 DEF ApiCommit, RowInv
<1>34. CASE UNCHANGED vars
  BY <1>34 DEF RowInv, KeyOf
<1> QED
  BY <1>1, <1>2, <1>3, <1>4, <1>5, <1>6, <1>7, <1>8, <1>9, <1>10, <1>11,
    <1>12, <1>13, <1>14, <1>15, <1>16, <1>17, <1>18, <1>19, <1>20, <1>21,
    <1>22, <1>23, <1>24, <1>25, <1>26, <1>27, <1>28, <1>29, <1>30, <1>31,
    <1>32, <1>33, <1>34
  DEF Next, NextRuns, RunStep, Trigger, Patch

\* What the rows do in one step of the system.
LEMMA RowChange ==
  ASSUME ApiActions = {}, TypeOK, SoloInv, RowInv, [Next]_vars
  PROVE  [Lifecycle!Next]_status
<1> USE DEF Lifecycle!Next, Lifecycle!Create, Lifecycle!Move,
  Lifecycle!Resolves, Lifecycle!Transitions, Lifecycle!Actions,
  Lifecycle!Status
<1>1. ASSUME NEW w \in Workers, ClaimWrite(w) PROVE [Lifecycle!Next]_status
  BY <1>1 DEF ClaimWrite, WriteStatus, RowInv
<1>2. ASSUME NEW w \in Workers, DoneWrite(w) PROVE [Lifecycle!Next]_status
  BY <1>2 DEF DoneWrite, WriteStatus, RowInv
<1>3. ASSUME NEW w \in Workers, FailWrite(w) PROVE [Lifecycle!Next]_status
  BY <1>3 DEF FailWrite, WriteStatus, RowInv
<1>4. CASE TriggerCommit
  BY <1>4 DEF TriggerCommit, RowInv
<1>5. CASE UNCHANGED status
  BY <1>5
<1>6. ASSUME NEW a \in Apis, ApiCommit(a) PROVE FALSE
  BY <1>6 DEF ApiCommit, RowInv
<1> QED
  BY <1>1, <1>2, <1>3, <1>4, <1>5, <1>6
  DEF Next, NextRuns, RunStep, Trigger, Patch, CheckStatus, CheckMarker,
      ForceUnlock, Acquire, OpenChain, AdoptChain, ClaimRead, DoneRead,
        FailRead,
      ReadStatus, Execute, SucceedChain, FailChain, CloseChain, MarkSucceeded,
      Release, Crash, Kill, Take, Redeliver, Discard, DeliverRevoke, Tick,
      ExpireLock, ExpireMarker, TriggerBegin, TriggerDispatch, TriggerAbort,
      ApiRevoke, ApiDispatch

\* Under the same condition, and while no PATCH request interferes, the rows
\* implement TaskLifecycle: the lock is what makes check-then-write safe.
THEOREM RowsFollowLifecycle ==
  ASSUME "slowRun" \notin Faults, ApiActions = {}
  PROVE  Spec => LifecycleHolds
<1>1. Init => SoloInv /\ RowInv /\ Lifecycle!Init
  BY ConstantsAssumption
  DEF Init, InitRuns, InitApi, SoloInv, ExclusionInv, KnownMessages, NoReruns,
      HoldersLocked, UniqueRunner, Outside, RowInv, Lifecycle!Init
<1>2. TypeOK /\ SoloInv /\ [Next]_vars => SoloInv'
  BY SoloStep
<1>3. TypeOK /\ SoloInv /\ RowInv /\ [Next]_vars => RowInv' /\
  [Lifecycle!Next]_status
  BY RowStep, RowChange
<1> QED
  BY <1>1, <1>2, <1>3, TypeCorrect, PTL DEF Spec, LifecycleHolds, Lifecycle!Spec

-----------------------------------------------------------------------------
(* The marker and the row agree. *)

\* Steps of a run after it has its TaskChain row, before it releases the lock.
Late == {"claim", "claimWrite", "execute", "chainOk", "done", "doneWrite",
         "mark", "chainFail", "fail", "failWrite"}

\* Steps by which the row has left "pending".
Claimed == {"execute", "chainOk", "done", "chainFail", "fail"}

\* Until the batch commits no run of its tasks gets past the parent row, so no
\* marker is older than the row; a run that is to set the marker has first
\* seen its row out of "pending" and "running".
SettleInv ==
  /\ trig \in {"none", "open"} =>
       /\ parent = "absent"
       /\ \A t \in Tasks : ~marker[t]
       /\ \A w \in Workers : pc[w] \in Late => KeyOf(w) \notin Tasks
  /\ \A w \in Workers : pc[w] \in Claimed /\ KeyOf(w) \in Tasks =>
       status[KeyOf(w)] # "pending"
  /\ \A w \in Workers : pc[w] = "mark" /\ KeyOf(w) \in Tasks =>
       status[KeyOf(w)] \notin {"pending", "running"}
  /\ MarkerSettles

\* How a worker comes to a late step of its run.
LEMMA GettingLate ==
  ASSUME TypeOK, KnownMessages, [Next]_vars,
         NEW w \in Workers, pc'[w] \in Late
  PROVE  /\ cur'[w] = cur[w] /\ KeyOf(w)' = KeyOf(w)
         /\ \/ pc'[w] = pc[w]
            \/ RunStep(w) /\ pc[w] \in Late
            \/ OpenChain(w) \/ AdoptChain(w)
<1>1. CASE pc'[w] = pc[w] /\ cur'[w] = cur[w]
  <2>1. cur[w] \in 1 .. published
    BY <1>1 DEF Late, KnownMessages, TypeOK, WorkersType, BrokerType
  <2> QED
    BY <1>1, <2>1, MessagesStay DEF KeyOf
<1>2. ASSUME NEW m \in 1 .. published, Take(w, m) PROVE FALSE
  BY <1>2 DEF Take, Goto, Late, TypeOK, WorkersType
<1>3. CASE RunStep(w)
  <2>1. UNCHANGED <<cur, msg>>
        /\ (pc[w] \in Late \/ OpenChain(w) \/ AdoptChain(w))
    BY <1>3
    DEF RunStep, CheckStatus, CheckMarker, SkipAsSucceeded, ForceUnlock,
        Acquire, OpenChain, AdoptChain, ClaimRead, DoneRead, FailRead,
        ReadStatus, ClaimWrite, DoneWrite, FailWrite, WriteStatus, Execute,
        SucceedChain, FailChain, CloseChain, MarkSucceeded, Release, BackToPool,
        Goto, Late, TypeOK, WorkersType
  <2> QED
    BY <1>3, <2>1 DEF KeyOf
<1> QED
  BY <1>1, <1>2, <1>3, PoolMoves DEF Late

\* Before the batch commits.
LEMMA SettleBefore ==
  ASSUME TypeOK, KnownMessages, ParentInv, SettleInv, [Next]_vars,
         trig' \in {"none", "open"}
  PROVE  /\ parent' = "absent"
         /\ \A t \in Tasks : ~marker'[t]
         /\ \A w \in Workers : pc'[w] \in Late => KeyOf(w)' \notin Tasks
<1>1. trig \in {"none", "open"}
  <2>1. CASE NextRuns /\ UNCHANGED apiVars
    BY <2>1, RunsKeep
  <2>2. CASE Trigger
    BY <2>2 DEF Trigger, TriggerBegin, TriggerDispatch, TriggerAbort, TriggerCommit
  <2>3. CASE \/ \E a \in Apis, t \in Tasks, op \in ApiActions : ApiRead(a, t, op)
             \/ \E a \in Apis : Patch(a)
    BY <2>3 DEF Patch, ApiRead, ApiRevoke, ApiDispatch, ApiCommit
  <2>4. CASE UNCHANGED vars
    BY <2>4
  <2> QED
    BY <2>1, <2>2, <2>3, <2>4 DEF Next
<1>2. ASSUME NEW w \in Workers, AdoptChain(w) PROVE FALSE
  <2>1. cur[w] \in 1 .. published
    BY <1>2 DEF AdoptChain, KnownMessages, TypeOK, WorkersType, BrokerType
  <2> QED
    BY <1>1, <1>2, <2>1 DEF AdoptChain, ParentInv, KeyOf
<1>3. parent' = "absent"
  <2>1. ASSUME NEW w \in Workers, SucceedChain(w) \/ FailChain(w)
        PROVE parent' = parent
    BY <1>1, <2>1 DEF SucceedChain, FailChain, CloseChain, ParentInv
  <2>2. CASE UNCHANGED parent
    BY <1>1, <2>2 DEF SettleInv
  <2> QED
    BY <1>1, <1>2, <2>1, <2>2
    DEF Next, NextRuns, RunStep, CheckStatus, CheckMarker, SkipAsSucceeded,
        ForceUnlock, Acquire, OpenChain, ClaimRead, DoneRead, FailRead,
        ReadStatus, ClaimWrite, DoneWrite, FailWrite, WriteStatus, Execute,
        MarkSucceeded, Release, Crash, Kill, Take, Redeliver, Discard,
        DeliverRevoke, Tick, ExpireLock, ExpireMarker, Trigger, Patch,
        TriggerBegin, TriggerDispatch, TriggerAbort, TriggerCommit, ApiRead,
        ApiRevoke, ApiDispatch, ApiCommit
<1>4. ASSUME NEW t \in Tasks, marker'[t] PROVE FALSE
  BY <1>1, <1>4, MarkerMoves DEF SettleInv, MarkSucceeded, Late, Keys
<1>5. ASSUME NEW w \in Workers, pc'[w] \in Late PROVE KeyOf(w)' \notin Tasks
  <2>1. ASSUME OpenChain(w) PROVE KeyOf(w) \notin Tasks
    BY <1>1, <1>5, <2>1
    DEF OpenChain, Goto, IsTask, Late, SettleInv, TypeOK, WorkersType
  <2> QED
    BY <1>1, <1>2, <1>5, <2>1, GettingLate DEF SettleInv
<1> QED
  BY <1>3, <1>4, <1>5

\* A run writes its own row only, and no two runs of a row are this far.
LEMMA SoleWriter ==
  ASSUME TypeOK, SoloInv, NEW v \in Workers, NEW w \in Workers,
         ClaimWrite(v) \/ DoneWrite(v) \/ FailWrite(v),
         KeyOf(v) = KeyOf(w), pc[w] \in Late
  PROVE  v = w
BY DEF ClaimWrite, DoneWrite, FailWrite, WriteStatus, SoloInv, ExclusionInv,
   HoldersLocked, UniqueRunner, Outside, Late

LEMMA SettleStep ==
  ASSUME "slowRun" \notin Faults, "storeError" \notin Faults, ApiActions = {},
         TypeOK, SoloInv, RowInv, ParentInv, SettleInv, [Next]_vars
  PROVE  SettleInv'
<1>1. KnownMessages
  BY DEF SoloInv, ExclusionInv
<1>2. ASSUME NEW a \in Apis, ApiCommit(a) PROVE FALSE
  BY <1>2 DEF ApiCommit, RowInv
<1>3. ASSUME NEW t \in Tasks, status'[t] # status[t], ~TriggerCommit
      PROVE \E v \in Workers :
              /\ KeyOf(v) = t
              /\ \/ ClaimWrite(v) /\ status[t] = "pending"
                    /\ status'[t] = "running"
                 \/ DoneWrite(v) /\ status'[t] = "success"
                 \/ FailWrite(v) /\ status'[t] = "failed"
  <2>1. PICK v \in Workers : /\ ClaimWrite(v) \/ DoneWrite(v) \/ FailWrite(v)
                             /\ KeyOf(v) = t
    BY <1>2, <1>3, StatusMoves
  <2> QED
    BY <1>3, <2>1
    DEF ClaimWrite, DoneWrite, FailWrite, WriteStatus, RowInv, TypeOK, RowsType
<1>4. ASSUME NEW t \in Tasks, marker'[t]
      PROVE status'[t] \notin {"pending", "running"}
  <2>1. ~TriggerCommit
    BY <1>4 DEF TriggerCommit, SettleInv
  <2>2. CASE marker[t]
    BY <1>3, <2>1, <2>2 DEF SettleInv, MarkerSettles
  <2>3. ASSUME NEW w \in Workers, MarkSucceeded(w), KeyOf(w) = t
        PROVE status'[t] \notin {"pending", "running"}
    BY <2>3 DEF MarkSucceeded, SettleInv
  <2> QED
    BY <1>4, <2>2, <2>3, MarkerMoves DEF Keys
<1>5. ASSUME NEW w \in Workers, KeyOf(w)' \in Tasks, pc'[w] \in Claimed,
             status'[KeyOf(w)'] = "pending"
      PROVE FALSE
  <2>1. pc'[w] \in Late /\ KeyOf(w)' = KeyOf(w)
    BY <1>1, <1>5, GettingLate DEF Claimed, Late
  <2>2. ~TriggerCommit
    BY <1>5, <2>1 DEF TriggerCommit, SettleInv, KeyOf
  <2>3. status[KeyOf(w)] = "pending"
    BY <1>3, <1>5, <2>1, <2>2
  <2>4. pc[w] \notin Claimed
    BY <1>5, <2>1, <2>3 DEF SettleInv
  <2>5. RunStep(w)
    BY <1>1, <1>5, <2>1, <2>4, GettingLate DEF RunStep
  <2>6. pc[w] \in {"claim", "claimWrite"}
    BY <1>5, <2>4, <2>5
    DEF RunStep, CheckStatus, CheckMarker, SkipAsSucceeded, ForceUnlock,
        Acquire, OpenChain, AdoptChain, ClaimRead, DoneRead, FailRead,
        ReadStatus, ClaimWrite, DoneWrite, FailWrite, WriteStatus, Execute,
        SucceedChain, FailChain, CloseChain, MarkSucceeded, Release, BackToPool,
        Goto, Claimed, TypeOK, WorkersType
  <2>7. CASE ClaimRead(w)
    BY <1>5, <2>1, <2>3, <2>7
    DEF ClaimRead, ReadStatus, RowOf, IsTask, Goto, Claimed, TypeOK, WorkersType
  <2>8. CASE ClaimWrite(w)
    BY <1>5, <2>1, <2>8 DEF ClaimWrite, WriteStatus, TypeOK, RowsType
  <2> QED
    BY <2>5, <2>6, <2>7, <2>8
    DEF RunStep, CheckStatus, CheckMarker, ForceUnlock, Acquire, OpenChain,
        AdoptChain, DoneRead, FailRead, ReadStatus, DoneWrite, FailWrite,
        WriteStatus, Execute, SucceedChain, FailChain, CloseChain,
        MarkSucceeded, Release
<1>6. ASSUME NEW w \in Workers, KeyOf(w)' \in Tasks, pc'[w] = "mark"
      PROVE status'[KeyOf(w)'] \notin {"pending", "running"}
  <2>1. KeyOf(w)' = KeyOf(w)
    BY <1>1, <1>6, GettingLate DEF Late
  <2>2. CASE pc[w] = "mark" /\ ~RunStep(w)
    <3>1. ~TriggerCommit
      BY <1>6, <2>1, <2>2 DEF TriggerCommit, SettleInv, Late
    <3>2. status'[KeyOf(w)] = status[KeyOf(w)]
      BY <1>3, <1>6, <2>1, <2>2, <3>1, SoleWriter
      DEF Late, ClaimWrite, DoneWrite, FailWrite, WriteStatus
    <3> QED
      BY <1>6, <2>1, <2>2, <3>2 DEF SettleInv
  <2>3. CASE RunStep(w)
    <3>1. DoneRead(w) \/ DoneWrite(w)
      BY <1>6, <2>3
      DEF RunStep, CheckStatus, CheckMarker, SkipAsSucceeded, ForceUnlock,
        Acquire, OpenChain, AdoptChain, ClaimRead, DoneRead, FailRead,
        ReadStatus, ClaimWrite, DoneWrite, FailWrite, WriteStatus, Execute,
        SucceedChain, FailChain, CloseChain, MarkSucceeded, Release, BackToPool,
        Goto, TypeOK, WorkersType
    <3>2. CASE DoneRead(w)
      BY <1>6, <2>1, <3>2
      DEF DoneRead, ReadStatus, RowOf, IsTask, Goto, Claimed, SettleInv, TypeOK,
          WorkersType
    <3>3. CASE DoneWrite(w)
      BY <1>6, <2>1, <3>3 DEF DoneWrite, WriteStatus, TypeOK, RowsType
    <3> QED
      BY <3>1, <3>2, <3>3
  <2> QED
    BY <1>1, <1>6, <2>2, <2>3, GettingLate DEF Late, RunStep
<1> QED
  BY <1>1, <1>4, <1>5, <1>6, SettleBefore DEF SettleInv, MarkerSettles

\* Without PATCH requests, and when no run outlives its lock and the database
\* answers, the two records of success agree: whatever is killed, redelivered
\* or rolled back, a task whose marker is set is not left pending or running.
THEOREM MarkersSettle ==
  ASSUME "slowRun" \notin Faults, "storeError" \notin Faults, ApiActions = {}
  PROVE  Spec => []MarkerSettles
<1>1. Init => SoloInv /\ RowInv /\ ParentInv /\ SettleInv
  BY ConstantsAssumption
  DEF Init, InitRuns, InitApi, SoloInv, ExclusionInv, KnownMessages, NoReruns,
      HoldersLocked, UniqueRunner, Outside, RowInv, ParentInv, Writing,
      SettleInv, Late, Claimed, MarkerSettles, Keys
<1>2. TypeOK /\ SoloInv /\ [Next]_vars => SoloInv'
  BY SoloStep
<1>3. TypeOK /\ SoloInv /\ RowInv /\ [Next]_vars => RowInv'
  BY RowStep
<1>4. TypeOK /\ SoloInv /\ ParentInv /\ [Next]_vars => ParentInv'
  BY ParentStep DEF SoloInv, ExclusionInv
<1>5. /\ TypeOK /\ SoloInv /\ RowInv /\ ParentInv /\ SettleInv
      /\ [Next]_vars
      => SettleInv'
  BY SettleStep
<1>6. SettleInv => MarkerSettles
  BY DEF SettleInv
<1> QED
  BY <1>1, <1>2, <1>3, <1>4, <1>5, <1>6, TypeCorrect, PTL DEF Spec
=============================================================================
