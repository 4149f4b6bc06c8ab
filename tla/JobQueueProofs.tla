---------------------------- MODULE JobQueueProofs ----------------------------
(***************************************************************************)
(* Machine-checked proofs about JobQueue, for any number of jobs, lanes,   *)
(* attempts, restarts and faults.                                          *)
(***************************************************************************)
EXTENDS JobQueue, TLAPS

\* Every kind has a tier: enqueue() always finds one to stamp on the row.
LEMMA PriorityType == JOB_PRIORITY \in [Kinds -> Nat]
  BY DEF JOB_PRIORITY, Kinds

\* What claimPending selects is a pending row.
LEMMA ClaimablePending ==
  ASSUME NEW l \in Lanes, NEW j \in Claimable(l)
  PROVE  j \in Jobs /\ state[j] = "pending"
  BY DEF Claimable, Foremost, Pending

\* The single-row UPDATEs keep the column's type, whether or not the row exists.
LEMMA TransitionType ==
  ASSUME TypeOK, NEW j \in Jobs \cup {NoJob}, NEW s \in RowStates, transition(j, s)
  PROVE  state' \in [Jobs -> RowStates \cup {"new", "gone"}]
  BY DEF TypeOK, transition

\* fail() keeps the types of both columns it writes.
LEMMA FailType ==
  ASSUME TypeOK, NEW j \in Jobs \cup {NoJob}, fail(j)
  PROVE  /\ state' \in [Jobs -> RowStates \cup {"new", "gone"}]
         /\ attempts' \in [Jobs -> Nat]
  <1>1. "failed" \in RowStates
    BY DEF RowStates
  <1>2. state' \in [Jobs -> RowStates \cup {"new", "gone"}]
    BY <1>1, TransitionType DEF fail
  <1>3. CASE j \in Jobs
    <2>1. attempts[j] \in Nat /\ attempts[j] + 1 \in Nat
      BY <1>3 DEF TypeOK
    <2>2. attempts' = [attempts EXCEPT ![j] = IF Exists(j) THEN attempts[j] + 1 ELSE attempts[j]]
      BY DEF fail
    <2> QED
      BY <1>2, <1>3, <2>1, <2>2 DEF TypeOK, Exists
  <1>4. CASE j \notin Jobs
    <2> DEFINE new == IF Exists(j) THEN attempts[j] + 1 ELSE attempts[j]
    <2>1. attempts' = [attempts EXCEPT ![j] = new]
      BY DEF fail
    <2> HIDE DEF new
    <2> QED
      BY <1>2, <1>4, <2>1 DEF TypeOK
  <1> QED
    BY <1>3, <1>4

\* The initial state, the empty table before the first boot, is well typed.
LEMMA InitTypeOK == Init => TypeOK
  BY NumbersAssumption DEF Init, TypeOK, Lanes

\* Every statement of the daemon, of an operator or of the boot sequence keeps
\* the table, the lanes and the listings well typed.
LEMMA NextTypeOK == TypeOK /\ [Next]_vars => TypeOK'
  <1> SUFFICES ASSUME TypeOK, [Next]_vars
               PROVE  TypeOK'
    OBVIOUS
  <1> USE JobsAssumption, NumbersAssumption DEF TypeOK
  <1>1. ASSUME NEW j \in Jobs, enqueue(j) PROVE TypeOK'
    BY <1>1, PriorityType
    DEF enqueue, Insert, RowStates, daemonVars, opVars, envVars
  <1>2. ASSUME NEW j \in Jobs, IngestInsert(j) PROVE TypeOK'
    BY <1>2
    DEF IngestInsert, Insert, DEFAULT_JOB_PRIORITY, RowStates, daemonVars, opVars, envVars
  <1>3. ASSUME NEW j \in Jobs, RetryTimerFires(j) PROVE TypeOK'
    BY <1>3
    DEF RetryTimerFires, transition, RowStates, opVars, envVars
  <1>4. ASSUME NEW l \in Lanes, LaneStep(l) PROVE TypeOK'
    <2> USE DEF opVars, envVars, Goto, Release, MidTick, RowStates
    <2>1. CASE Claim(l)
      BY <2>1, ClaimablePending DEF Claim
    <2>2. CASE RejectBroken(l)
      BY <2>2, FailType DEF RejectBroken
    <2>3. CASE RetryNow(l)
      BY <2>3 DEF RetryNow, transition
    <2>4. CASE HandlerResolves(l)
      BY <2>4 DEF HandlerResolves, transition
    <2>5. CASE RecordRun(l)
      BY <2>5 DEF RecordRun, rowVars
    <2>6. CASE HandlerPauses(l)
      BY <2>6 DEF HandlerPauses, transition
    <2>7. CASE HandlerFailsForGood(l)
      BY <2>7, FailType DEF HandlerFailsForGood
    <2>8. CASE HandlerFailsTransiently(l)
      BY <2>8, FailType DEF HandlerFailsTransiently
    <2>9. CASE markPoison(l)
      BY <2>9 DEF markPoison, transition
    <2>10. CASE DecideRetry(l)
      BY <2>10 DEF DecideRetry, transition
    <2>11. CASE CaughtFault(l)
      BY <2>11 DEF CaughtFault, rowVars
    <2>12. CASE onUncaught(l)
      BY <2>12 DEF onUncaught, rowVars
    <2>13. CASE CleanupPurge(l)
      BY <2>13 DEF CleanupPurge, Delete, MoveAll, daemonVars
    <2> QED
      BY <1>4, <2>1, <2>2, <2>3, <2>4, <2>5, <2>6, <2>7, <2>8, <2>9, <2>10, <2>11, <2>12, <2>13
      DEF LaneStep, HandlerReturns, TickGoesOn
  <1>5. ASSUME NEW n \in 1 .. NumLanes, SetLaneBudget(n) PROVE TypeOK'
    BY <1>5 DEF SetLaneBudget, rowVars, opVars, envVars
  <1>6. ASSUME NEW o \in Operators, OperatorStep(o) PROVE TypeOK'
    <2> USE DEF daemonVars, envVars, RowStates
    <2>1. CASE ListForRequeue(o)
      BY <2>1 DEF ListForRequeue, Poisoned, rowVars
    <2>2. CASE requeueForRetry(o)
      BY <2>2 DEF requeueForRetry, transition
    <2>3. CASE ListForPurge(o)
      BY <2>3 DEF ListForPurge, Poisoned, rowVars
    <2>4. CASE purgePoisonByIds(o)
      BY <2>4 DEF purgePoisonByIds, Delete, MoveAll
    <2>5. CASE requeuePaused(o)
      BY <2>5 DEF requeuePaused, MoveAll, opVars
    <2> QED
      BY <1>6, <2>1, <2>2, <2>3, <2>4, <2>5 DEF OperatorStep
  <1>7. CASE BootStep
    BY <1>7
    DEF BootStep, Start, RecoverConsolidate, RecoverRunning, RecoverFailed, BootPurge, MoveAll,
        Delete, BootPhases, RowStates, rowVars, opVars, envVars
  <1>8. CASE Crash \/ Stop \/ Exit
    BY <1>8 DEF Crash, Stop, Exit, ProcessEnds, rowVars, opVars
  <1>9. CASE Tick
    BY <1>9 DEF Tick, rowVars, daemonVars, opVars
  <1>10. CASE UNCHANGED vars
    BY <1>10 DEF vars, rowVars, daemonVars, opVars, envVars
  <1> QED
    BY <1>1, <1>2, <1>3, <1>4, <1>5, <1>6, <1>7, <1>8, <1>9, <1>10 DEF Next

\* Type correctness: rows, lanes, timers and listings keep their types through
\* every step; in particular a timer count never goes below zero.
THEOREM TypeCorrect == Spec => []TypeOK
  BY InitTypeOK, NextTypeOK, PTL DEF Spec

\* Every step keeps the exclusion invariant, provided no two queue commands run
\* at a time.
LEMMA NextExclusion == OneOperator /\ TypeOK /\ Exclusion /\ [Next]_vars => Exclusion'
  <1> SUFFICES ASSUME OneOperator, TypeOK, Exclusion, [Next]_vars
               PROVE  Exclusion'
    OBVIOUS
  <1> USE JobsAssumption, NumbersAssumption
      DEF TypeOK, LanesOfLiveProcess, RowFollowsLane, NoDoubleExecution, TimersOfIdleJobs,
          ListedRowsAreDead, Exclusion, Live, RowStates, MidTick
  <1>1. ASSUME NEW j \in Jobs, enqueue(j) PROVE Exclusion'
    <2>1. LanesOfLiveProcess'
      BY <1>1 DEF enqueue, Insert, daemonVars, opVars
    <2>2. RowFollowsLane'
      BY <1>1 DEF enqueue, Insert, daemonVars, opVars
    <2>3. NoDoubleExecution'
      BY <1>1 DEF enqueue, Insert, daemonVars, opVars
    <2>4. TimersOfIdleJobs'
      BY <1>1 DEF enqueue, Insert, daemonVars, opVars
    <2>5. ListedRowsAreDead'
      BY <1>1 DEF enqueue, Insert, daemonVars, opVars
    <2> QED
      BY <2>1, <2>2, <2>3, <2>4, <2>5 DEF Exclusion
  <1>2. ASSUME NEW j \in Jobs, IngestInsert(j) PROVE Exclusion'
    <2>1. LanesOfLiveProcess'
      BY <1>2 DEF IngestInsert, Insert, daemonVars, opVars
    <2>2. RowFollowsLane'
      BY <1>2 DEF IngestInsert, Insert, daemonVars, opVars
    <2>3. NoDoubleExecution'
      BY <1>2 DEF IngestInsert, Insert, daemonVars, opVars
    <2>4. TimersOfIdleJobs'
      BY <1>2 DEF IngestInsert, Insert, daemonVars, opVars
    <2>5. ListedRowsAreDead'
      BY <1>2 DEF IngestInsert, Insert, daemonVars, opVars
    <2> QED
      BY <2>1, <2>2, <2>3, <2>4, <2>5 DEF Exclusion
  <1>3. ASSUME NEW j \in Jobs, RetryTimerFires(j) PROVE Exclusion'
    <2>1. LanesOfLiveProcess'
      BY <1>3 DEF RetryTimerFires, transition, Exists, opVars
    <2>2. RowFollowsLane'
      BY <1>3 DEF RetryTimerFires, transition, Exists, opVars
    <2>3. NoDoubleExecution'
      BY <1>3 DEF RetryTimerFires, transition, Exists, opVars
    <2>4. TimersOfIdleJobs'
      BY <1>3 DEF RetryTimerFires, transition, Exists, opVars
    <2>5. ListedRowsAreDead'
      BY <1>3 DEF RetryTimerFires, transition, Exists, opVars
    <2> QED
      BY <2>1, <2>2, <2>3, <2>4, <2>5 DEF Exclusion
  <1>4. ASSUME NEW l \in Lanes, LaneStep(l) PROVE Exclusion'
    <2>1. CASE Claim(l)
      <3>1. LanesOfLiveProcess'
        BY <2>1, ClaimablePending DEF Claim, Goto, Release, opVars
      <3>2. RowFollowsLane'
        BY <2>1, ClaimablePending DEF Claim, Goto, Release, opVars
      <3>3. NoDoubleExecution'
        BY <2>1, ClaimablePending DEF Claim, Goto, Release, opVars
      <3>4. TimersOfIdleJobs'
        BY <2>1, ClaimablePending DEF Claim, Goto, Release, opVars
      <3>5. ListedRowsAreDead'
        BY <2>1, ClaimablePending DEF Claim, Goto, Release, opVars
      <3> QED
        BY <3>1, <3>2, <3>3, <3>4, <3>5 DEF Exclusion
    <2>2. CASE RejectBroken(l)
      <3>1. LanesOfLiveProcess'
        BY <2>2 DEF RejectBroken, fail, transition, Exists, Goto, Release, opVars
      <3>2. RowFollowsLane'
        BY <2>2 DEF RejectBroken, fail, transition, Exists, Goto, Release, opVars
      <3>3. NoDoubleExecution'
        BY <2>2 DEF RejectBroken, fail, transition, Exists, Goto, Release, opVars
      <3>4. TimersOfIdleJobs'
        BY <2>2 DEF RejectBroken, fail, transition, Exists, Goto, Release, opVars
      <3>5. ListedRowsAreDead'
        BY <2>2 DEF RejectBroken, fail, transition, Exists, Goto, Release, opVars
      <3> QED
        BY <3>1, <3>2, <3>3, <3>4, <3>5 DEF Exclusion
    <2>3. CASE RetryNow(l)
      <3>1. LanesOfLiveProcess'
        BY <2>3 DEF RetryNow, transition, Exists, Goto, Release, opVars
      <3>2. RowFollowsLane'
        BY <2>3 DEF RetryNow, transition, Exists, Goto, Release, opVars
      <3>3. NoDoubleExecution'
        BY <2>3 DEF RetryNow, transition, Exists, Goto, Release, opVars
      <3>4. TimersOfIdleJobs'
        BY <2>3 DEF RetryNow, transition, Exists, Goto, Release, opVars
      <3>5. ListedRowsAreDead'
        BY <2>3 DEF RetryNow, transition, Exists, Goto, Release, opVars
      <3> QED
        BY <3>1, <3>2, <3>3, <3>4, <3>5 DEF Exclusion
    <2>4. CASE HandlerResolves(l)
      <3>1. LanesOfLiveProcess'
        BY <2>4 DEF HandlerResolves, transition, Exists, Goto, Release, opVars
      <3>2. RowFollowsLane'
        BY <2>4 DEF HandlerResolves, transition, Exists, Goto, Release, opVars
      <3>3. NoDoubleExecution'
        BY <2>4 DEF HandlerResolves, transition, Exists, Goto, Release, opVars
      <3>4. TimersOfIdleJobs'
        BY <2>4 DEF HandlerResolves, transition, Exists, Goto, Release, opVars
      <3>5. ListedRowsAreDead'
        BY <2>4 DEF HandlerResolves, transition, Exists, Goto, Release, opVars
      <3> QED
        BY <3>1, <3>2, <3>3, <3>4, <3>5 DEF Exclusion
    <2>5. CASE RecordRun(l)
      <3>1. LanesOfLiveProcess'
        BY <2>5 DEF RecordRun, rowVars, Goto, Release, opVars
      <3>2. RowFollowsLane'
        BY <2>5 DEF RecordRun, rowVars, Goto, Release, opVars
      <3>3. NoDoubleExecution'
        BY <2>5 DEF RecordRun, rowVars, Goto, Release, opVars
      <3>4. TimersOfIdleJobs'
        BY <2>5 DEF RecordRun, rowVars, Goto, Release, opVars
      <3>5. ListedRowsAreDead'
        BY <2>5 DEF RecordRun, rowVars, Goto, Release, opVars
      <3> QED
        BY <3>1, <3>2, <3>3, <3>4, <3>5 DEF Exclusion
    <2>6. CASE HandlerPauses(l)
      <3>1. LanesOfLiveProcess'
        BY <2>6 DEF HandlerPauses, transition, Exists, Goto, Release, opVars
      <3>2. RowFollowsLane'
        BY <2>6 DEF HandlerPauses, transition, Exists, Goto, Release, opVars
      <3>3. NoDoubleExecution'
        BY <2>6 DEF HandlerPauses, transition, Exists, Goto, Release, opVars
      <3>4. TimersOfIdleJobs'
        BY <2>6 DEF HandlerPauses, transition, Exists, Goto, Release, opVars
      <3>5. ListedRowsAreDead'
        BY <2>6 DEF HandlerPauses, transition, Exists, Goto, Release, opVars
      <3> QED
        BY <3>1, <3>2, <3>3, <3>4, <3>5 DEF Exclusion
    <2>7. CASE HandlerFailsForGood(l)
      <3>1. LanesOfLiveProcess'
        BY <2>7 DEF HandlerFailsForGood, fail, transition, Exists, Goto, Release, opVars
      <3>2. RowFollowsLane'
        BY <2>7 DEF HandlerFailsForGood, fail, transition, Exists, Goto, Release, opVars
      <3>3. NoDoubleExecution'
        BY <2>7 DEF HandlerFailsForGood, fail, transition, Exists, Goto, Release, opVars
      <3>4. TimersOfIdleJobs'
        BY <2>7 DEF HandlerFailsForGood, fail, transition, Exists, Goto, Release, opVars
      <3>5. ListedRowsAreDead'
        BY <2>7 DEF HandlerFailsForGood, fail, transition, Exists, Goto, Release, opVars
      <3> QED
        BY <3>1, <3>2, <3>3, <3>4, <3>5 DEF Exclusion
    <2>8. CASE HandlerFailsTransiently(l)
      <3>1. LanesOfLiveProcess'
        BY <2>8 DEF HandlerFailsTransiently, fail, transition, Exists, Goto, Release, opVars
      <3>2. RowFollowsLane'
        BY <2>8 DEF HandlerFailsTransiently, fail, transition, Exists, Goto, Release, opVars
      <3>3. NoDoubleExecution'
        BY <2>8 DEF HandlerFailsTransiently, fail, transition, Exists, Goto, Release, opVars
      <3>4. TimersOfIdleJobs'
        BY <2>8 DEF HandlerFailsTransiently, fail, transition, Exists, Goto, Release, opVars
      <3>5. ListedRowsAreDead'
        BY <2>8 DEF HandlerFailsTransiently, fail, transition, Exists, Goto, Release, opVars
      <3> QED
        BY <3>1, <3>2, <3>3, <3>4, <3>5 DEF Exclusion
    <2>9. CASE markPoison(l)
      <3>1. LanesOfLiveProcess'
        BY <2>9 DEF markPoison, transition, Exists, Goto, Release, opVars
      <3>2. RowFollowsLane'
        BY <2>9 DEF markPoison, transition, Exists, Goto, Release, opVars
      <3>3. NoDoubleExecution'
        BY <2>9 DEF markPoison, transition, Exists, Goto, Release, opVars
      <3>4. TimersOfIdleJobs'
        BY <2>9 DEF markPoison, transition, Exists, Goto, Release, opVars
      <3>5. ListedRowsAreDead'
        BY <2>9 DEF markPoison, transition, Exists, Goto, Release, opVars
      <3> QED
        BY <3>1, <3>2, <3>3, <3>4, <3>5 DEF Exclusion
    <2>10. CASE DecideRetry(l)
      <3>1. LanesOfLiveProcess'
        BY <2>10 DEF DecideRetry, transition, Exists, Goto, Release, opVars
      <3>2. RowFollowsLane'
        BY <2>10 DEF DecideRetry, transition, Exists, Goto, Release, opVars
      <3>3. NoDoubleExecution'
        BY <2>10 DEF DecideRetry, transition, Exists, Goto, Release, opVars
      <3>4. TimersOfIdleJobs'
        BY <2>10 DEF DecideRetry, transition, Exists, Goto, Release, opVars
      <3>5. ListedRowsAreDead'
        BY <2>10 DEF DecideRetry, transition, Exists, Goto, Release, opVars
      <3> QED
        BY <3>1, <3>2, <3>3, <3>4, <3>5 DEF Exclusion
    <2>11. CASE CaughtFault(l)
      <3>1. LanesOfLiveProcess'
        BY <2>11 DEF CaughtFault, rowVars, Goto, Release, opVars
      <3>2. RowFollowsLane'
        BY <2>11 DEF CaughtFault, rowVars, Goto, Release, opVars
      <3>3. NoDoubleExecution'
        BY <2>11 DEF CaughtFault, rowVars, Goto, Release, opVars
      <3>4. TimersOfIdleJobs'
        BY <2>11 DEF CaughtFault, rowVars, Goto, Release, opVars
      <3>5. ListedRowsAreDead'
        BY <2>11 DEF CaughtFault, rowVars, Goto, Release, opVars
      <3> QED
        BY <3>1, <3>2, <3>3, <3>4, <3>5 DEF Exclusion
    <2>12. CASE onUncaught(l)
      <3>1. LanesOfLiveProcess'
        BY <2>12 DEF onUncaught, rowVars, Goto, Release, opVars
      <3>2. RowFollowsLane'
        BY <2>12 DEF onUncaught, rowVars, Goto, Release, opVars
      <3>3. NoDoubleExecution'
        BY <2>12 DEF onUncaught, rowVars, Goto, Release, opVars
      <3>4. TimersOfIdleJobs'
        BY <2>12 DEF onUncaught, rowVars, Goto, Release, opVars
      <3>5. ListedRowsAreDead'
        BY <2>12 DEF onUncaught, rowVars, Goto, Release, opVars
      <3> QED
        BY <3>1, <3>2, <3>3, <3>4, <3>5 DEF Exclusion
    <2>13. CASE CleanupPurge(l)
      <3>1. LanesOfLiveProcess'
        BY <2>13 DEF CleanupPurge, Delete, MoveAll, Purgeable, daemonVars, LoopFree, Goto, Release, opVars
      <3>2. RowFollowsLane'
        BY <2>13 DEF CleanupPurge, Delete, MoveAll, Purgeable, daemonVars, LoopFree, Goto, Release, opVars
      <3>3. NoDoubleExecution'
        BY <2>13 DEF CleanupPurge, Delete, MoveAll, Purgeable, daemonVars, LoopFree, Goto, Release, opVars
      <3>4. TimersOfIdleJobs'
        BY <2>13 DEF CleanupPurge, Delete, MoveAll, Purgeable, daemonVars, LoopFree, Goto, Release, opVars
      <3>5. ListedRowsAreDead'
        BY <2>13 DEF CleanupPurge, Delete, MoveAll, Purgeable, daemonVars, LoopFree, Goto, Release, opVars
      <3> QED
        BY <3>1, <3>2, <3>3, <3>4, <3>5 DEF Exclusion
    <2> QED
      BY <1>4, <2>1, <2>2, <2>3, <2>4, <2>5, <2>6, <2>7, <2>8, <2>9, <2>10, <2>11, <2>12, <2>13 DEF LaneStep, HandlerReturns, TickGoesOn
  <1>5. ASSUME NEW k \in 1 .. NumLanes, SetLaneBudget(k) PROVE Exclusion'
    BY <1>5 DEF SetLaneBudget, rowVars, opVars
  <1>6. ASSUME NEW o \in Operators, OperatorStep(o) PROVE Exclusion'
    <2>1. CASE ListForRequeue(o)
      <3>1. LanesOfLiveProcess'
        BY <2>1 DEF ListForRequeue, Poisoned, rowVars, daemonVars, OneOperator
      <3>2. RowFollowsLane'
        BY <2>1 DEF ListForRequeue, Poisoned, rowVars, daemonVars, OneOperator
      <3>3. NoDoubleExecution'
        BY <2>1 DEF ListForRequeue, Poisoned, rowVars, daemonVars, OneOperator
      <3>4. TimersOfIdleJobs'
        BY <2>1 DEF ListForRequeue, Poisoned, rowVars, daemonVars, OneOperator
      <3>5. ListedRowsAreDead'
        BY <2>1 DEF ListForRequeue, Poisoned, rowVars, daemonVars, OneOperator
      <3> QED
        BY <3>1, <3>2, <3>3, <3>4, <3>5 DEF Exclusion
    <2>2. CASE requeueForRetry(o)
      <3>1. LanesOfLiveProcess'
        BY <2>2 DEF requeueForRetry, transition, Exists, daemonVars, OneOperator
      <3>2. RowFollowsLane'
        BY <2>2 DEF requeueForRetry, transition, Exists, daemonVars, OneOperator
      <3>3. NoDoubleExecution'
        BY <2>2 DEF requeueForRetry, transition, Exists, daemonVars, OneOperator
      <3>4. TimersOfIdleJobs'
        BY <2>2 DEF requeueForRetry, transition, Exists, daemonVars, OneOperator
      <3>5. ListedRowsAreDead'
        BY <2>2 DEF requeueForRetry, transition, Exists, daemonVars, OneOperator
      <3> QED
        BY <3>1, <3>2, <3>3, <3>4, <3>5 DEF Exclusion
    <2>3. CASE ListForPurge(o)
      <3>1. LanesOfLiveProcess'
        BY <2>3 DEF ListForPurge, Poisoned, rowVars, daemonVars, OneOperator
      <3>2. RowFollowsLane'
        BY <2>3 DEF ListForPurge, Poisoned, rowVars, daemonVars, OneOperator
      <3>3. NoDoubleExecution'
        BY <2>3 DEF ListForPurge, Poisoned, rowVars, daemonVars, OneOperator
      <3>4. TimersOfIdleJobs'
        BY <2>3 DEF ListForPurge, Poisoned, rowVars, daemonVars, OneOperator
      <3>5. ListedRowsAreDead'
        BY <2>3 DEF ListForPurge, Poisoned, rowVars, daemonVars, OneOperator
      <3> QED
        BY <3>1, <3>2, <3>3, <3>4, <3>5 DEF Exclusion
    <2>4. CASE purgePoisonByIds(o)
      <3>1. LanesOfLiveProcess'
        BY <2>4 DEF purgePoisonByIds, Delete, MoveAll, Poisoned, daemonVars, OneOperator
      <3>2. RowFollowsLane'
        BY <2>4 DEF purgePoisonByIds, Delete, MoveAll, Poisoned, daemonVars, OneOperator
      <3>3. NoDoubleExecution'
        BY <2>4 DEF purgePoisonByIds, Delete, MoveAll, Poisoned, daemonVars, OneOperator
      <3>4. TimersOfIdleJobs'
        BY <2>4 DEF purgePoisonByIds, Delete, MoveAll, Poisoned, daemonVars, OneOperator
      <3>5. ListedRowsAreDead'
        BY <2>4 DEF purgePoisonByIds, Delete, MoveAll, Poisoned, daemonVars, OneOperator
      <3> QED
        BY <3>1, <3>2, <3>3, <3>4, <3>5 DEF Exclusion
    <2>5. CASE requeuePaused(o)
      <3>1. LanesOfLiveProcess'
        BY <2>5 DEF requeuePaused, MoveAll, daemonVars, opVars, OneOperator
      <3>2. RowFollowsLane'
        BY <2>5 DEF requeuePaused, MoveAll, daemonVars, opVars, OneOperator
      <3>3. NoDoubleExecution'
        BY <2>5 DEF requeuePaused, MoveAll, daemonVars, opVars, OneOperator
      <3>4. TimersOfIdleJobs'
        BY <2>5 DEF requeuePaused, MoveAll, daemonVars, opVars, OneOperator
      <3>5. ListedRowsAreDead'
        BY <2>5 DEF requeuePaused, MoveAll, daemonVars, opVars, OneOperator
      <3> QED
        BY <3>1, <3>2, <3>3, <3>4, <3>5 DEF Exclusion
    <2> QED
      BY <1>6, <2>1, <2>2, <2>3, <2>4, <2>5 DEF OperatorStep
  <1>7. CASE BootStep
    <2>1. LanesOfLiveProcess'
      BY <1>7 DEF BootStep, Start, RecoverConsolidate, RecoverRunning, RecoverFailed, BootPurge, MoveAll, Delete, Purgeable, rowVars, opVars
    <2>2. RowFollowsLane'
      BY <1>7 DEF BootStep, Start, RecoverConsolidate, RecoverRunning, RecoverFailed, BootPurge, MoveAll, Delete, Purgeable, rowVars, opVars
    <2>3. NoDoubleExecution'
      BY <1>7 DEF BootStep, Start, RecoverConsolidate, RecoverRunning, RecoverFailed, BootPurge, MoveAll, Delete, Purgeable, rowVars, opVars
    <2>4. TimersOfIdleJobs'
      BY <1>7 DEF BootStep, Start, RecoverConsolidate, RecoverRunning, RecoverFailed, BootPurge, MoveAll, Delete, Purgeable, rowVars, opVars
    <2>5. ListedRowsAreDead'
      BY <1>7 DEF BootStep, Start, RecoverConsolidate, RecoverRunning, RecoverFailed, BootPurge, MoveAll, Delete, Purgeable, rowVars, opVars
    <2> QED
      BY <2>1, <2>2, <2>3, <2>4, <2>5 DEF Exclusion
  <1>8. CASE Crash \/ Stop \/ Exit
    <2>1. LanesOfLiveProcess'
      BY <1>8 DEF Crash, Stop, Exit, ProcessEnds, rowVars, opVars
    <2>2. RowFollowsLane'
      BY <1>8 DEF Crash, Stop, Exit, ProcessEnds, rowVars, opVars
    <2>3. NoDoubleExecution'
      BY <1>8 DEF Crash, Stop, Exit, ProcessEnds, rowVars, opVars
    <2>4. TimersOfIdleJobs'
      BY <1>8 DEF Crash, Stop, Exit, ProcessEnds, rowVars, opVars
    <2>5. ListedRowsAreDead'
      BY <1>8 DEF Crash, Stop, Exit, ProcessEnds, rowVars, opVars
    <2> QED
      BY <2>1, <2>2, <2>3, <2>4, <2>5 DEF Exclusion
  <1>9. CASE Tick
    BY <1>9 DEF Tick, rowVars, daemonVars, opVars
  <1>10. CASE UNCHANGED vars
    BY <1>10 DEF vars, rowVars, daemonVars, opVars
  <1> QED
    BY <1>1, <1>2, <1>3, <1>4, <1>5, <1>6, <1>7, <1>8, <1>9, <1>10 DEF Next

\* The empty table before the first boot satisfies the invariant.
LEMMA InitExclusion == Init => Exclusion
  BY JobsAssumption
  DEF Init, Exclusion, LanesOfLiveProcess, RowFollowsLane, NoDoubleExecution, TimersOfIdleJobs,
      ListedRowsAreDead

\* The invariant of the queue: what lanes, rows, retry timers and listings know
\* of each other, through crashes, restarts and failing repository calls.
THEOREM ExclusionInvariant == ASSUME OneOperator PROVE Spec => []Exclusion
  BY InitExclusion, NextExclusion, TypeCorrect, PTL DEF Spec

\* No job is ever executed by two lanes at once, for any number of lanes, jobs,
\* crashes, stops and repository faults, as long as the operator runs one queue
\* command at a time.
THEOREM ExclusiveExecution == ASSUME OneOperator PROVE Spec => []NoDoubleExecution
  <1>1. Exclusion => NoDoubleExecution
    BY DEF Exclusion
  <1> QED
    BY <1>1, ExclusionInvariant, PTL

\* An armed retry timer always finds the failed job it was armed for.
THEOREM TimersAreCurrent == ASSUME OneOperator PROVE Spec => []TimersFindFailedJobs
  <1>1. Exclusion => TimersFindFailedJobs
    BY DEF Exclusion, TimersOfIdleJobs, TimersFindFailedJobs
  <1> QED
    BY <1>1, ExclusionInvariant, PTL

-------------------------------------------------------------------------------
(* The retry limit.                                                        *)

\* Every step keeps RetriesLeft: a timer is armed by a lane that has just
\* compared the attempts of a failed row, and nothing changes them while it is
\* armed.
LEMMA NextRetriesLeft ==
  TypeOK /\ Exclusion /\ RetriesLeft /\ [Next]_vars => RetriesLeft'
  <1> SUFFICES ASSUME TypeOK, Exclusion, RetriesLeft, [Next]_vars
               PROVE  RetriesLeft'
    OBVIOUS
  <1> USE JobsAssumption, NumbersAssumption
      DEF TypeOK, RetriesLeft, Exclusion, LanesOfLiveProcess, RowFollowsLane, TimersOfIdleJobs,
          RowStates, MidTick, Live
  <1>1. ASSUME NEW j \in Jobs, enqueue(j) \/ IngestInsert(j) PROVE RetriesLeft'
    BY <1>1 DEF enqueue, IngestInsert, Insert, daemonVars
  <1>2. ASSUME NEW j \in Jobs, RetryTimerFires(j) PROVE RetriesLeft'
    BY <1>2 DEF RetryTimerFires, transition, Exists
  <1>3. ASSUME NEW l \in Lanes, LaneStep(l) PROVE RetriesLeft'
    <2>1. CASE Claim(l)
      BY <2>1, ClaimablePending DEF Claim
    <2>2. CASE RejectBroken(l) \/ HandlerFailsForGood(l) \/ HandlerFailsTransiently(l)
      BY <2>2 DEF RejectBroken, HandlerFailsForGood, HandlerFailsTransiently, fail, transition,
                  Exists
    <2>3. CASE RetryNow(l) \/ HandlerResolves(l) \/ HandlerPauses(l) \/ markPoison(l)
      BY <2>3 DEF RetryNow, HandlerResolves, HandlerPauses, markPoison, transition, Exists
    <2>4. CASE DecideRetry(l)
      BY <2>4 DEF DecideRetry, transition, Exists
    <2>5. CASE RecordRun(l) \/ CaughtFault(l) \/ onUncaught(l)
      BY <2>5 DEF RecordRun, CaughtFault, onUncaught, rowVars
    <2>6. CASE CleanupPurge(l)
      BY <2>6 DEF CleanupPurge, Delete, MoveAll, Purgeable, daemonVars
    <2> QED
      BY <1>3, <2>1, <2>2, <2>3, <2>4, <2>5, <2>6 DEF LaneStep, HandlerReturns, TickGoesOn
  <1>4. ASSUME NEW n \in 1 .. NumLanes, SetLaneBudget(n) PROVE RetriesLeft'
    BY <1>4 DEF SetLaneBudget, rowVars
  <1>5. ASSUME NEW o \in Operators, OperatorStep(o) PROVE RetriesLeft'
    <2>1. CASE ListForRequeue(o) \/ ListForPurge(o)
      BY <2>1 DEF ListForRequeue, ListForPurge, rowVars, daemonVars
    <2>2. CASE requeueForRetry(o)
      BY <2>2 DEF requeueForRetry, transition, Exists, daemonVars
    <2>3. CASE purgePoisonByIds(o)
      BY <2>3 DEF purgePoisonByIds, Delete, MoveAll, Poisoned, daemonVars
    <2>4. CASE requeuePaused(o)
      BY <2>4 DEF requeuePaused, MoveAll, daemonVars
    <2> QED
      BY <1>5, <2>1, <2>2, <2>3, <2>4 DEF OperatorStep
  <1>6. CASE BootStep
    BY <1>6 DEF BootStep, Start, RecoverConsolidate, RecoverRunning, RecoverFailed, BootPurge,
                MoveAll, Delete, Purgeable, rowVars
  <1>7. CASE Crash \/ Stop \/ Exit
    BY <1>7 DEF Crash, Stop, Exit, ProcessEnds, rowVars
  <1>8. CASE Tick \/ UNCHANGED vars
    BY <1>8 DEF Tick, vars, rowVars, daemonVars
  <1> QED
    BY <1>1, <1>2, <1>3, <1>4, <1>5, <1>6, <1>7, <1>8 DEF Next

\* What RetryLimit says of one step, about one job.
WithinLimit(j) ==
  attempts[j] >= MAX_ATTEMPTS /\ state[j] # "pending" /\ state'[j] = "pending"
    => \/ state[j] \in {"running", "paused"}
       \/ state[j] = "poison" /\ \E o \in Operators : requeueForRetry(o)

\* No step gives an exhausted job another run, except an operator's requeue and
\* the recovery or unpausing of a run such a requeue granted.
LEMMA StepWithinLimit ==
  TypeOK /\ Exclusion /\ RetriesLeft /\ [Next]_vars => \A j \in Jobs : WithinLimit(j)
  <1> SUFFICES ASSUME TypeOK, Exclusion, RetriesLeft, [Next]_vars, NEW i \in Jobs
               PROVE  WithinLimit(i)
    OBVIOUS
  <1> USE JobsAssumption, NumbersAssumption
      DEF TypeOK, RetriesLeft, Exclusion, LanesOfLiveProcess, RowFollowsLane, TimersOfIdleJobs,
          RowStates, MidTick, Live, WithinLimit
  <1>1. ASSUME NEW j \in Jobs, enqueue(j) \/ IngestInsert(j) PROVE WithinLimit(i)
    BY <1>1 DEF enqueue, IngestInsert, Insert
  <1>2. ASSUME NEW j \in Jobs, RetryTimerFires(j) PROVE WithinLimit(i)
    BY <1>2 DEF RetryTimerFires, transition, Exists
  <1>3. ASSUME NEW l \in Lanes, LaneStep(l) PROVE WithinLimit(i)
    <2>1. CASE Claim(l)
      BY <2>1, ClaimablePending DEF Claim
    <2>2. CASE RejectBroken(l) \/ HandlerFailsForGood(l) \/ HandlerFailsTransiently(l)
      BY <2>2 DEF RejectBroken, HandlerFailsForGood, HandlerFailsTransiently, fail, transition,
                  Exists
    <2>3. CASE RetryNow(l) \/ HandlerResolves(l) \/ HandlerPauses(l) \/ markPoison(l)
      BY <2>3 DEF RetryNow, HandlerResolves, HandlerPauses, markPoison, transition, Exists
    <2>4. CASE DecideRetry(l)
      BY <2>4 DEF DecideRetry, transition, Exists
    <2>5. CASE RecordRun(l) \/ CaughtFault(l) \/ onUncaught(l)
      BY <2>5 DEF RecordRun, CaughtFault, onUncaught, rowVars
    <2>6. CASE CleanupPurge(l)
      BY <2>6 DEF CleanupPurge, Delete, MoveAll, Purgeable
    <2> QED
      BY <1>3, <2>1, <2>2, <2>3, <2>4, <2>5, <2>6 DEF LaneStep, HandlerReturns, TickGoesOn
  <1>4. ASSUME NEW n \in 1 .. NumLanes, SetLaneBudget(n) PROVE WithinLimit(i)
    BY <1>4 DEF SetLaneBudget, rowVars
  <1>5. ASSUME NEW o \in Operators, OperatorStep(o) PROVE WithinLimit(i)
    <2>1. CASE ListForRequeue(o) \/ ListForPurge(o)
      BY <2>1 DEF ListForRequeue, ListForPurge, rowVars
    <2>2. CASE requeueForRetry(o)
      <3>1. state'[i] = "pending" /\ state[i] # "pending" => state[i] = "poison"
        BY <2>2 DEF requeueForRetry, transition, Exists, ListedRowsAreDead
      <3> QED
        BY <2>2, <3>1 DEF WithinLimit
    <2>3. CASE purgePoisonByIds(o)
      BY <2>3 DEF purgePoisonByIds, Delete, MoveAll, Poisoned
    <2>4. CASE requeuePaused(o)
      BY <2>4 DEF requeuePaused, MoveAll
    <2> QED
      BY <1>5, <2>1, <2>2, <2>3, <2>4 DEF OperatorStep
  <1>6. CASE BootStep
    BY <1>6 DEF BootStep, Start, RecoverConsolidate, RecoverRunning, RecoverFailed, BootPurge,
                MoveAll, Delete, Purgeable, rowVars
  <1>7. CASE Crash \/ Stop \/ Exit
    BY <1>7 DEF Crash, Stop, Exit, ProcessEnds, rowVars
  <1>8. CASE Tick \/ UNCHANGED vars
    BY <1>8 DEF Tick, vars, rowVars
  <1> QED
    BY <1>1, <1>2, <1>3, <1>4, <1>5, <1>6, <1>7, <1>8 DEF Next

\* An armed retry timer belongs to a job with attempts left.
THEOREM RetriesStayLeft == ASSUME OneOperator PROVE Spec => []RetriesLeft
  <1>1. Init => RetriesLeft
    BY NumbersAssumption DEF Init, RetriesLeft
  <1> QED
    BY <1>1, NextRetriesLeft, TypeCorrect, ExclusionInvariant, PTL DEF Spec

\* A job that has used up its attempts runs again only because an operator
\* requeued it, for any number of lanes, jobs, crashes and repository faults, as
\* long as one queue command runs at a time.
THEOREM RetryLimitHolds == ASSUME OneOperator PROVE Spec => RetryLimit
  <1>1. TypeOK /\ Exclusion /\ RetriesLeft /\ [Next]_vars => [\A j \in Jobs : WithinLimit(j)]_vars
    BY StepWithinLimit
  <1>2. Spec => [][\A j \in Jobs : WithinLimit(j)]_vars
    BY <1>1, TypeCorrect, ExclusionInvariant, RetriesStayLeft, PTL DEF Spec
  <1> QED
    BY <1>2 DEF RetryLimit, WithinLimit
-------------------------------------------------------------------------------
(* What a live daemon has on its books.                                    *)

\* Every step keeps Tracked: a statement that makes a row running or failed is
\* followed, in the same tick of the same lane, by the one that settles it.
LEMMA NextTracked ==
  TypeOK /\ Exclusion /\ Tracked /\ [Next]_vars => Tracked'
  <1> SUFFICES ASSUME TypeOK, Exclusion, Tracked, [Next]_vars
               PROVE  Tracked'
    OBVIOUS
  <1> USE JobsAssumption, NumbersAssumption
      DEF TypeOK, Tracked, Exclusion, LanesOfLiveProcess, RowFollowsLane, NoDoubleExecution,
          TimersOfIdleJobs, RowStates, MidTick, BootPhases, Live
  <1>1. ASSUME NEW j \in Jobs, enqueue(j) \/ IngestInsert(j) PROVE Tracked'
    BY <1>1 DEF enqueue, IngestInsert, Insert, daemonVars, envVars
  <1>2. ASSUME NEW j \in Jobs, RetryTimerFires(j) PROVE Tracked'
    BY <1>2 DEF RetryTimerFires, transition, Exists, envVars
  <1>3. ASSUME NEW l \in Lanes, LaneStep(l) PROVE Tracked'
    <2> USE DEF Goto, Release, LoopFree, envVars
    <2>1. CASE Claim(l)
      BY <2>1, ClaimablePending DEF Claim
    <2>2. CASE RejectBroken(l)
      BY <2>2 DEF RejectBroken, fail, transition, Exists
    <2>3. CASE HandlerFailsForGood(l)
      BY <2>3 DEF HandlerFailsForGood, fail, transition, Exists
    <2>4. CASE HandlerFailsTransiently(l)
      BY <2>4 DEF HandlerFailsTransiently, fail, transition, Exists
    <2>5. CASE RetryNow(l)
      BY <2>5 DEF RetryNow, transition, Exists
    <2>6. CASE HandlerResolves(l)
      BY <2>6 DEF HandlerResolves, transition, Exists
    <2>7. CASE HandlerPauses(l)
      BY <2>7 DEF HandlerPauses, transition, Exists
    <2>8. CASE markPoison(l)
      BY <2>8 DEF markPoison, transition, Exists
    <2>9. CASE DecideRetry(l)
      BY <2>9 DEF DecideRetry, transition, Exists
    <2>10. CASE RecordRun(l)
      BY <2>10 DEF RecordRun, rowVars
    <2>11. CASE CaughtFault(l) \/ onUncaught(l)
      BY <2>11 DEF CaughtFault, onUncaught, rowVars
    <2>12. CASE CleanupPurge(l)
      BY <2>12 DEF CleanupPurge, Delete, MoveAll, Purgeable, daemonVars
    <2> QED
      BY <1>3, <2>1, <2>2, <2>3, <2>4, <2>5, <2>6, <2>7, <2>8, <2>9, <2>10, <2>11, <2>12
      DEF LaneStep, HandlerReturns, TickGoesOn
  <1>4. ASSUME NEW n \in 1 .. NumLanes, SetLaneBudget(n) PROVE Tracked'
    BY <1>4 DEF SetLaneBudget, rowVars, envVars
  <1>5. ASSUME NEW o \in Operators, OperatorStep(o) PROVE Tracked'
    <2> USE DEF daemonVars, envVars
    <2>1. CASE ListForRequeue(o) \/ ListForPurge(o)
      BY <2>1 DEF ListForRequeue, ListForPurge, rowVars
    <2>2. CASE requeueForRetry(o)
      BY <2>2 DEF requeueForRetry, transition, Exists
    <2>3. CASE purgePoisonByIds(o)
      BY <2>3 DEF purgePoisonByIds, Delete, MoveAll, Poisoned
    <2>4. CASE requeuePaused(o)
      BY <2>4 DEF requeuePaused, MoveAll
    <2> QED
      BY <1>5, <2>1, <2>2, <2>3, <2>4 DEF OperatorStep
  <1>6. CASE BootStep
    <2>1. CASE Start
      BY <2>1 DEF Start, rowVars, envVars
    <2>2. CASE RecoverConsolidate
      BY <2>2 DEF RecoverConsolidate, MoveAll, envVars
    <2>3. CASE RecoverRunning
      BY <2>3 DEF RecoverRunning, MoveAll, envVars
    <2>4. CASE RecoverFailed
      BY <2>4 DEF RecoverFailed, MoveAll, envVars
    <2>5. CASE BootPurge
      BY <2>5 DEF BootPurge, MoveAll, Delete, Purgeable, envVars
    <2> QED
      BY <1>6, <2>1, <2>2, <2>3, <2>4, <2>5 DEF BootStep
  <1>7. CASE Crash \/ Stop \/ Exit
    BY <1>7 DEF Crash, Stop, Exit, ProcessEnds, rowVars
  <1>8. CASE Tick \/ UNCHANGED vars
    BY <1>8 DEF Tick, vars, rowVars, daemonVars, envVars
  <1> QED
    BY <1>1, <1>2, <1>3, <1>4, <1>5, <1>6, <1>7, <1>8 DEF Next

\* Before the first boot there is nothing to keep track of.
LEMMA InitTracked == Init => Tracked
  BY DEF Init, Tracked, Live

\* Boot recovery and the lanes leave no running and no retryable failed row
\* without a lane or a timer, while no repository call throws.
THEOREM JobsAreTracked == ASSUME OneOperator PROVE Spec => []Tracked
  BY InitTracked, NextTracked, TypeCorrect, ExclusionInvariant, PTL DEF Spec

\* Between two ticks a live daemon has forgotten no job, for any number of jobs,
\* lanes and crashes, while no repository call throws.
THEOREM NoJobForgotten == ASSUME OneOperator PROVE Spec => []NothingForgotten
  <1>1. TypeOK /\ Tracked => NothingForgotten
    BY DEF TypeOK, Tracked, NothingForgotten, Live, LoopFree, MidTick
  <1> QED
    BY <1>1, JobsAreTracked, TypeCorrect, PTL

\* What CompletedIsFinal says of one step, about one job.
StaysCompleted(j) == faults = 0 /\ state[j] = "completed" => state'[j] \in {"completed", "gone"}

\* No statement moves a completed row anywhere but out of the table: the
\* statements of lanes, timers and listings hit rows in other states, except
\* where a caught fault fails the row that complete() has just written.
LEMMA StepKeepsCompleted ==
  TypeOK /\ Exclusion /\ Tracked /\ [Next]_vars => \A j \in Jobs : StaysCompleted(j)
  <1> SUFFICES ASSUME TypeOK, Exclusion, Tracked, [Next]_vars, NEW i \in Jobs
               PROVE  StaysCompleted(i)
    OBVIOUS
  <1> USE JobsAssumption, NumbersAssumption
      DEF TypeOK, Tracked, Exclusion, LanesOfLiveProcess, RowFollowsLane, TimersOfIdleJobs,
          RowStates, MidTick, Live, StaysCompleted
  <1>1. ASSUME NEW j \in Jobs, enqueue(j) \/ IngestInsert(j) PROVE StaysCompleted(i)
    BY <1>1 DEF enqueue, IngestInsert, Insert
  <1>2. ASSUME NEW j \in Jobs, RetryTimerFires(j) PROVE StaysCompleted(i)
    BY <1>2 DEF RetryTimerFires, transition, Exists
  <1>3. ASSUME NEW l \in Lanes, LaneStep(l) PROVE StaysCompleted(i)
    <2>1. CASE Claim(l)
      BY <2>1, ClaimablePending DEF Claim
    <2>2. CASE RejectBroken(l) \/ HandlerFailsForGood(l) \/ HandlerFailsTransiently(l)
      BY <2>2 DEF RejectBroken, HandlerFailsForGood, HandlerFailsTransiently, fail, transition,
                  Exists
    <2>3. CASE RetryNow(l) \/ HandlerResolves(l) \/ HandlerPauses(l) \/ markPoison(l)
      BY <2>3 DEF RetryNow, HandlerResolves, HandlerPauses, markPoison, transition, Exists
    <2>4. CASE DecideRetry(l)
      BY <2>4 DEF DecideRetry, transition, Exists
    <2>5. CASE RecordRun(l) \/ CaughtFault(l) \/ onUncaught(l)
      BY <2>5 DEF RecordRun, CaughtFault, onUncaught, rowVars
    <2>6. CASE CleanupPurge(l)
      BY <2>6 DEF CleanupPurge, Delete, MoveAll, Purgeable
    <2> QED
      BY <1>3, <2>1, <2>2, <2>3, <2>4, <2>5, <2>6 DEF LaneStep, HandlerReturns, TickGoesOn
  <1>4. ASSUME NEW n \in 1 .. NumLanes, SetLaneBudget(n) PROVE StaysCompleted(i)
    BY <1>4 DEF SetLaneBudget, rowVars
  <1>5. ASSUME NEW o \in Operators, OperatorStep(o) PROVE StaysCompleted(i)
    <2>1. CASE ListForRequeue(o) \/ ListForPurge(o)
      BY <2>1 DEF ListForRequeue, ListForPurge, rowVars
    <2>2. CASE requeueForRetry(o)
      BY <2>2 DEF requeueForRetry, transition, Exists, ListedRowsAreDead
    <2>3. CASE purgePoisonByIds(o)
      BY <2>3 DEF purgePoisonByIds, Delete, MoveAll, Poisoned
    <2>4. CASE requeuePaused(o)
      BY <2>4 DEF requeuePaused, MoveAll
    <2> QED
      BY <1>5, <2>1, <2>2, <2>3, <2>4 DEF OperatorStep
  <1>6. CASE BootStep
    BY <1>6 DEF BootStep, Start, RecoverConsolidate, RecoverRunning, RecoverFailed, BootPurge,
                MoveAll, Delete, Purgeable, rowVars
  <1>7. CASE Crash \/ Stop \/ Exit
    BY <1>7 DEF Crash, Stop, Exit, ProcessEnds, rowVars
  <1>8. CASE Tick \/ UNCHANGED vars
    BY <1>8 DEF Tick, vars, rowVars
  <1> QED
    BY <1>1, <1>2, <1>3, <1>4, <1>5, <1>6, <1>7, <1>8 DEF Next

\* A completed job is only ever deleted, for any number of lanes, jobs, crashes
\* and requeues, while no repository call throws.
THEOREM CompletedStaysFinal == ASSUME OneOperator PROVE Spec => CompletedIsFinal
  <1>1. TypeOK /\ Exclusion /\ Tracked /\ [Next]_vars => [\A j \in Jobs : StaysCompleted(j)]_vars
    BY StepKeepsCompleted
  <1>2. Spec => [][\A j \in Jobs : StaysCompleted(j)]_vars
    BY <1>1, TypeCorrect, ExclusionInvariant, JobsAreTracked, PTL DEF Spec
  <1>3. (\A j \in Jobs : StaysCompleted(j)) <=>
          (faults = 0 => \A j \in Jobs : state[j] = "completed" => state'[j] \in {"completed", "gone"})
    BY DEF StaysCompleted
  <1> QED
    BY <1>2, <1>3, PTL DEF CompletedIsFinal

-------------------------------------------------------------------------------
(* The queue implements WorkQueue.                                         *)

\* No repository call throws in a daemon that is allowed no faults.
LEMMA NoFaults == ASSUME MaxFaults = 0 PROVE Spec => [](faults = 0)
  <1>1. Init => faults = 0
    BY DEF Init
  <1>2. faults = 0 /\ [Next]_vars => (faults = 0)'
    <2> SUFFICES ASSUME faults = 0, [Next]_vars PROVE faults' = 0
      OBVIOUS
    <2> USE DEF rowVars, daemonVars, opVars, envVars
    <2>1. ASSUME NEW l \in Lanes, LaneStep(l) PROVE faults' = 0
      BY <2>1 DEF LaneStep, Claim, HandlerReturns, HandlerResolves, HandlerPauses,
                  HandlerFailsForGood, HandlerFailsTransiently, TickGoesOn, RejectBroken, RetryNow,
                  RecordRun, markPoison, DecideRetry, CaughtFault, onUncaught, CleanupPurge
    <2>2. ASSUME NEW o \in Operators, OperatorStep(o) PROVE faults' = 0
      BY <2>2 DEF OperatorStep, ListForRequeue, requeueForRetry, ListForPurge, purgePoisonByIds,
                  requeuePaused
    <2>3. CASE BootStep
      BY <2>3 DEF BootStep, Start, RecoverConsolidate, RecoverRunning, RecoverFailed, BootPurge
    <2> QED
      BY <2>1, <2>2, <2>3 DEF Next, enqueue, IngestInsert, RetryTimerFires, SetLaneBudget, Crash,
                              Stop, Exit, ProcessEnds, Tick, vars
  <1> QED
    BY <1>1, <1>2, PTL DEF Spec

\* A lane that is released lets go of its job.
LEMMA ReleaseLetsGo ==
  ASSUME TypeOK, NEW l \in Lanes, job' = [job EXCEPT ![l] = NoJob]
  PROVE  WQ!LetGo({l})
  BY DEF TypeOK, WQ!LetGo

\* A lane that has stopped its job, or given it up, takes a step of the work queue,
\* whether it lets go of the job at once or later.
LEMMA StopStep ==
  ASSUME TypeOK, NEW l \in Lanes, NEW j \in Jobs, j = job[l], state[j] \in {"running", "failed"},
         NEW s \in {"failed", "paused", "poison"}, state' = [state EXCEPT ![j] = s],
         job' = job \/ job' = [job EXCEPT ![l] = NoJob]
  PROVE  WQ!Next
  <1>1. {j} \in SUBSET Jobs
    OBVIOUS
  <1>2. UNCHANGED job \/ (job[l] \in {j} /\ WQ!LetGo({l}))
    BY ReleaseLetsGo
  <1>3. CASE s \in {"failed", "paused"}
    <2>1. WQ!Stop({j}, "stopped")
      <3>1. StatusOf(state[j]) \in {"taken", "stopped"}
        BY DEF StatusOf
      <3>2. \A i \in Jobs : StatusOf(state'[i]) = IF i \in {j} THEN "stopped" ELSE StatusOf(state[i])
        <4>1. \A i \in Jobs : state'[i] = IF i \in {j} THEN s ELSE state[i]
          BY DEF TypeOK
        <4>2. StatusOf(s) = "stopped"
          BY <1>3 DEF StatusOf
        <4> QED
          BY <4>1, <4>2
      <3> QED
        BY <3>1, <3>2 DEF WQ!Stop, WQ!Move
    <2> QED
      BY <1>1, <1>2, <2>1 DEF WQ!Next
  <1>4. CASE s = "poison"
    <2>1. WQ!Stop({j}, "givenUp")
      <3>1. StatusOf(state[j]) \in {"taken", "stopped"}
        BY DEF StatusOf
      <3>2. \A i \in Jobs : StatusOf(state'[i]) = IF i \in {j} THEN "givenUp" ELSE StatusOf(state[i])
        <4>1. \A i \in Jobs : state'[i] = IF i \in {j} THEN s ELSE state[i]
          BY DEF TypeOK
        <4>2. StatusOf(s) = "givenUp"
          BY <1>4 DEF StatusOf
        <4> QED
          BY <4>1, <4>2
      <3> QED
        BY <3>1, <3>2 DEF WQ!Stop, WQ!Move
    <2> QED
      BY <1>1, <1>2, <2>1 DEF WQ!Next
  <1> QED
    BY <1>3, <1>4

\* A lane that lets go of a row it has finished with takes a step of the work queue.
LEMMA LetGoStep ==
  ASSUME TypeOK, NEW l \in Lanes, job' = [job EXCEPT ![l] = NoJob], state' = state
  PROVE  WQ!Next
  <1>1. {l} \in SUBSET Lanes
    OBVIOUS
  <1> QED
    BY <1>1, ReleaseLetsGo DEF WQ!Next

\* Each statement of the queue is a step of the abstract work queue, or none.
LEMMA StepImplements ==
  TypeOK /\ Exclusion /\ Tracked /\ faults = 0 /\ MaxFaults = 0 /\ [Next]_vars
    => [WQ!Next]_WQ!vars
  <1> SUFFICES ASSUME TypeOK, Exclusion, Tracked, faults = 0, MaxFaults = 0, [Next]_vars
               PROVE  WQ!Next \/ UNCHANGED WQ!vars
    OBVIOUS
  <1> DEFINE Goal == WQ!Next \/ UNCHANGED WQ!vars
  <1> USE JobsAssumption, NumbersAssumption
      DEF TypeOK, Tracked, Exclusion, LanesOfLiveProcess, RowFollowsLane, NoDoubleExecution,
          TimersOfIdleJobs, RowStates, MidTick, Live
  <1>1. ASSUME NEW j \in Jobs, enqueue(j) \/ IngestInsert(j) PROVE Goal
    <2>1. state[j] = "new" /\ state' = [state EXCEPT ![j] = "pending"] /\ job' = job
      BY <1>1 DEF enqueue, IngestInsert, Insert, daemonVars
    <2>2. WQ!Submit(j)
      BY <2>1 DEF WQ!Submit, WQ!Move, StatusOf
    <2> QED
      BY <2>2 DEF WQ!Next
  <1>2. ASSUME NEW j \in Jobs, RetryTimerFires(j) PROVE Goal
    <2>1. state[j] = "failed" /\ (\A l \in Lanes : job[l] # j) /\ job' = job
      BY <1>2 DEF RetryTimerFires
    <2>2. state' = [state EXCEPT ![j] = "pending"]
      BY <1>2, <2>1 DEF RetryTimerFires, transition, Exists
    <2>3. WQ!Resume({j})
      BY <2>1, <2>2 DEF WQ!Resume, WQ!InHand, WQ!Move, StatusOf
    <2> QED
      BY <2>3 DEF WQ!Next
  <1>3. ASSUME NEW l \in Lanes, LaneStep(l) PROVE Goal
    <2> DEFINE j == job[l]
    <2>0. pc[l] # "idle" => j \in Jobs /\ job[l] # NoJob
      OBVIOUS
    <2>1. CASE Claim(l)
      <3>1. PICK i \in Jobs : /\ state[i] = "pending" /\ job[l] = NoJob
                              /\ state' = [state EXCEPT ![i] = "running"]
                              /\ job' = [job EXCEPT ![l] = i]
        <4>1. PICK i \in Claimable(l) : /\ state' = [state EXCEPT ![i] = "running"]
                                        /\ job' = [job EXCEPT ![l] = i]
          BY <2>1 DEF Claim
        <4>2. i \in Jobs /\ state[i] = "pending" /\ job[l] = NoJob
          BY <2>1, ClaimablePending DEF Claim
        <4> QED
          BY <4>1, <4>2
      <3>2. WQ!Take(l, i)
        BY <3>1 DEF WQ!Take, WQ!Move, StatusOf
      <3> QED
        BY <3>2 DEF WQ!Next
    <2>2. CASE RejectBroken(l) \/ HandlerFailsForGood(l) \/ HandlerFailsTransiently(l)
      <3>1. j \in Jobs /\ state[j] = "running" /\ job' = job
        BY <2>0, <2>2 DEF RejectBroken, HandlerFailsForGood, HandlerFailsTransiently
      <3>2. state' = [state EXCEPT ![j] = "failed"]
        BY <2>2, <3>1 DEF RejectBroken, HandlerFailsForGood, HandlerFailsTransiently, fail,
                          transition, Exists
      <3> QED
        BY <3>1, <3>2, StopStep
    <2>3. CASE RetryNow(l)
      <3>1. /\ j \in Jobs /\ state[j] = "failed" /\ job' = [job EXCEPT ![l] = NoJob]
            /\ \/ state' = [state EXCEPT ![j] = "poison"]
               \/ state' = [state EXCEPT ![j] = "pending"]
        BY <2>0, <2>3 DEF RetryNow, Release, transition, Exists
      <3>2. CASE state' = [state EXCEPT ![j] = "poison"]
        BY <3>1, <3>2, StopStep
      <3>3. CASE state' = [state EXCEPT ![j] = "pending"]
        <4>1. WQ!LetGo({l})
          BY <3>1, ReleaseLetsGo
        <4>2. WQ!PutBack(l)
          BY <2>0, <2>3, <3>1, <3>3, <4>1 DEF RetryNow, WQ!PutBack, WQ!Move, StatusOf
        <4> QED
          BY <4>2 DEF WQ!Next
      <3> QED
        BY <3>1, <3>2, <3>3
    <2>4. CASE HandlerResolves(l)
      <3>1. j \in Jobs /\ state[j] = "running" /\ job' = job
            /\ state' = [state EXCEPT ![j] = "completed"]
        BY <2>0, <2>4 DEF HandlerResolves, transition, Exists
      <3>2. WQ!Finish(j)
        BY <3>1 DEF WQ!Finish, WQ!InHand, WQ!Move, StatusOf
      <3> QED
        BY <3>1, <3>2 DEF WQ!Next
    <2>5. CASE RecordRun(l)
      <3>1. job' = [job EXCEPT ![l] = NoJob] /\ state' = state
        BY <2>5 DEF RecordRun, Release, rowVars
      <3> QED
        BY <3>1, LetGoStep
    <2>6. CASE HandlerPauses(l)
      <3>1. /\ j \in Jobs /\ state[j] = "running" /\ job' = [job EXCEPT ![l] = NoJob]
            /\ state' = [state EXCEPT ![j] = "paused"]
        BY ZenonT(40), <2>0, <2>6 DEF HandlerPauses, Release, transition, Exists
      <3> QED
        BY <3>1, StopStep
    <2>7. CASE markPoison(l)
      <3>1. /\ j \in Jobs /\ state[j] = "failed" /\ job' = [job EXCEPT ![l] = NoJob]
            /\ state' = [state EXCEPT ![j] = "poison"]
        BY ZenonT(40), <2>0, <2>7 DEF markPoison, Release, transition, Exists
      <3> QED
        BY <3>1, StopStep
    <2>8. CASE DecideRetry(l)
      <3>1. /\ j \in Jobs /\ state[j] = "failed" /\ job' = [job EXCEPT ![l] = NoJob]
            /\ state' = [state EXCEPT ![j] = "poison"] \/ state' = state
        BY <2>0, <2>8 DEF DecideRetry, Release, transition, Exists
      <3> QED
        BY ZenonT(40), <3>1, StopStep, LetGoStep
    <2>9. CASE CaughtFault(l) \/ onUncaught(l)
      BY <2>9 DEF CaughtFault, onUncaught
    <2>10. CASE CleanupPurge(l)
      <3>1. PICK S \in SUBSET Purgeable : Delete(S)
        BY <2>10 DEF CleanupPurge
      <3>2. job' = job /\ \A i \in S : ~ \E m \in Lanes : job[m] = i
        BY <2>10, <3>1 DEF CleanupPurge, Purgeable, LoopFree, daemonVars
      <3>3. WQ!Remove(S)
        BY <3>1, <3>2 DEF Delete, MoveAll, Purgeable, WQ!Remove, WQ!Move, StatusOf
      <3> QED
        BY <3>3 DEF WQ!Next, Purgeable
    <2> QED
      BY <1>3, <2>1, <2>2, <2>3, <2>4, <2>5, <2>6, <2>7, <2>8, <2>9, <2>10
      DEF LaneStep, HandlerReturns, TickGoesOn
  <1>4. ASSUME NEW n \in 1 .. NumLanes, SetLaneBudget(n) PROVE Goal
    BY <1>4 DEF SetLaneBudget, rowVars, WQ!vars
  <1>5. ASSUME NEW o \in Operators, OperatorStep(o) PROVE Goal
    <2>1. CASE ListForRequeue(o) \/ ListForPurge(o)
      BY <2>1 DEF ListForRequeue, ListForPurge, rowVars, daemonVars, WQ!vars
    <2>2. CASE requeueForRetry(o)
      <3>1. PICK i \in Jobs : /\ state[i] \in {"poison", "gone"} /\ transition(i, "pending")
                              /\ job' = job
        BY <2>2 DEF requeueForRetry, ListedRowsAreDead, daemonVars
      <3>2. CASE state[i] = "poison"
        <4>1. \A l \in Lanes : job[l] # i
          BY <3>2
        <4>2. state' = [state EXCEPT ![i] = "pending"]
          BY <3>1, <3>2 DEF transition, Exists
        <4>3. WQ!Resume({i})
          BY <3>1, <3>2, <4>1, <4>2 DEF WQ!Resume, WQ!InHand, WQ!Move, StatusOf
        <4> QED
          BY <4>3 DEF WQ!Next
      <3>3. CASE state[i] = "gone"
        <4>1. state' = state
          BY <3>1, <3>3 DEF transition, Exists
        <4> QED
          BY <3>1, <4>1 DEF WQ!vars
      <3> QED
        BY <3>1, <3>2, <3>3
    <2>3. CASE purgePoisonByIds(o)
      <3> DEFINE S == Poisoned \cap batch[o]
      <3>1. Delete(S) /\ job' = job
        BY <2>3 DEF purgePoisonByIds, daemonVars
      <3>2. \A i \in S : state[i] = "poison" /\ ~ \E m \in Lanes : job[m] = i
        BY DEF Poisoned
      <3>3. S \in SUBSET Jobs
        BY DEF Poisoned
      <3> HIDE DEF S
      <3>4. WQ!Remove(S)
        BY <3>1, <3>2, <3>3 DEF Delete, MoveAll, WQ!Remove, WQ!Move, StatusOf
      <3> QED
        BY <3>3, <3>4 DEF WQ!Next
    <2>4. CASE requeuePaused(o)
      <3> DEFINE S == {i \in Jobs : state[i] = "paused"}
      <3>1. MoveAll(S, "pending") /\ job' = job
        BY <2>4 DEF requeuePaused, daemonVars
      <3>2. \A i \in S : state[i] = "paused" /\ ~ \E m \in Lanes : job[m] = i
        OBVIOUS
      <3>3. S \in SUBSET Jobs
        OBVIOUS
      <3> HIDE DEF S
      <3>4. WQ!Resume(S)
        BY <3>1, <3>2, <3>3 DEF MoveAll, WQ!Resume, WQ!InHand, WQ!Move, StatusOf
      <3> QED
        BY <3>3, <3>4 DEF WQ!Next
    <2> QED
      BY <1>5, <2>1, <2>2, <2>3, <2>4 DEF OperatorStep
  <1>6. CASE BootStep
    <2>1. CASE Start
      BY <2>1 DEF Start, rowVars, WQ!vars
    <2>2. ASSUME ~ Live PROVE \A l \in Lanes : job[l] = NoJob
      BY <2>2
    <2>3. CASE RecoverConsolidate
      <3> DEFINE S == {i \in Jobs : state[i] = "running" /\ Kind[i] = "consolidate"}
      <3>1. MoveAll(S, "poison") /\ job' = job /\ S \in SUBSET Jobs /\ \A i \in S : state[i] = "running"
        BY <2>3 DEF RecoverConsolidate
      <3> HIDE DEF S
      <3>2. WQ!Stop(S, "givenUp")
        BY <3>1 DEF MoveAll, WQ!Stop, WQ!Move, StatusOf
      <3> QED
        BY <3>1, <3>2 DEF WQ!Next
    <2>4. CASE RecoverRunning \/ RecoverFailed
      <3>1. PICK S \in SUBSET Jobs : /\ MoveAll(S, "pending") /\ job' = job
                                     /\ \A i \in S : state[i] \in {"running", "failed"}
        <4>1. CASE RecoverRunning
          <5> WITNESS {i \in Jobs : state[i] = "running" /\ Kind[i] # "consolidate"} \in SUBSET Jobs
          <5> QED BY <4>1 DEF RecoverRunning
        <4>2. CASE RecoverFailed
          <5> WITNESS {i \in Jobs : state[i] = "failed" /\ attempts[i] < MAX_ATTEMPTS} \in SUBSET Jobs
          <5> QED BY <4>2 DEF RecoverFailed
        <4> QED
          BY <2>4, <4>1, <4>2
      <3>2. \A l \in Lanes : job[l] = NoJob
        BY <2>2, <2>4 DEF RecoverRunning, RecoverFailed
      <3>3. WQ!Resume(S)
        BY <3>1, <3>2 DEF MoveAll, WQ!Resume, WQ!InHand, WQ!Move, StatusOf
      <3> QED
        BY <3>3 DEF WQ!Next
    <2>5. CASE BootPurge
      <3>1. PICK S \in SUBSET Purgeable : Delete(S)
        BY <2>5 DEF BootPurge
      <3>2. job' = job /\ \A l \in Lanes : job[l] = NoJob
        BY <2>2, <2>5 DEF BootPurge
      <3>3. WQ!Remove(S)
        BY <3>1, <3>2 DEF Delete, MoveAll, Purgeable, WQ!Remove, WQ!Move, StatusOf
      <3> QED
        BY <3>3 DEF WQ!Next, Purgeable
    <2> QED
      BY <1>6, <2>1, <2>3, <2>4, <2>5 DEF BootStep
  <1>7. CASE Crash \/ Exit
    <2>1. state' = state /\ job' = [l \in Lanes |-> NoJob]
      BY <1>7 DEF Crash, Exit, ProcessEnds, rowVars
    <2>2. WQ!LetGo(Lanes)
      BY <2>1 DEF WQ!LetGo
    <2> QED
      BY <2>1, <2>2 DEF WQ!Next
  <1>8. CASE Stop \/ Tick \/ UNCHANGED vars
    BY <1>8 DEF Stop, Tick, vars, rowVars, daemonVars, WQ!vars
  <1> QED
    BY <1>1, <1>2, <1>3, <1>4, <1>5, <1>6, <1>7, <1>8 DEF Next

\* Every behaviour of the queue, with any number of jobs, lanes, crashes, timers and
\* requeues, is a behaviour of the abstract work queue, as long as one queue command
\* runs at a time and no repository call throws.
THEOREM QueueImplementsWorkQueue ==
  ASSUME OneOperator, MaxFaults = 0 PROVE Spec => ImplementsWorkQueue
  <1>1. Init => WQ!Init
    BY DEF Init, WQ!Init, StatusOf
  <1>2. Spec => [](TypeOK /\ Exclusion /\ Tracked /\ faults = 0)
    BY TypeCorrect, ExclusionInvariant, JobsAreTracked, NoFaults, PTL
  <1>3. MaxFaults = 0
    OBVIOUS
  <1>4. TypeOK /\ Exclusion /\ Tracked /\ faults = 0 /\ [Next]_vars => [WQ!Next]_WQ!vars
    BY <1>3, StepImplements
  <1> QED
    BY <1>1, <1>2, <1>4, PTL DEF Spec, ImplementsWorkQueue, WQ!Spec

-------------------------------------------------------------------------------
(* Aging.                                                                  *)

\* What a quotient is.
LEMMA QuotientBounds ==
  ASSUME NEW x \in Nat, NEW step \in Nat \ {0}
  PROVE  /\ x \div step \in Nat
         /\ step * (x \div step) <= x /\ x < step * (x \div step) + step
  BY Z3

\* Products keep the order.
LEMMA ProductOrder ==
  ASSUME NEW r \in Nat, NEW s \in Nat, NEW step \in Nat, r <= s
  PROVE  step * r <= step * s
  BY Z3

\* Whoever has waited four aging steps longer has been promoted four tiers more.
LEMMA FourTiersMore ==
  ASSUME NEW x \in Nat, NEW y \in Nat, NEW step \in Nat \ {0}, y >= x + 4 * step
  PROVE  y \div step >= (x \div step) + 4
  <1> DEFINE q == x \div step
             r == y \div step
  <1>1. q \in Nat /\ r \in Nat /\ step * q <= x /\ y < step * r + step
    BY QuotientBounds
  <1> HIDE DEF q, r
  <1>2. ASSUME r < q + 4 PROVE FALSE
    <2>1. step * (r + 1) <= step * (q + 4)
      BY <1>1, <1>2, ProductOrder
    <2>2. step * (r + 1) = step * r + step /\ step * (q + 4) = step * q + 4 * step
      BY <1>1
    <2>3. step * r \in Nat /\ step * q \in Nat
      BY <1>1
    <2> QED
      BY <1>1, <2>1, <2>2, <2>3
  <1> QED
    BY <1>1, <1>2 DEF q, r

\* A row in the table has a tier and was inserted before now.
Stamped ==
  \A j \in Jobs : state[j] # "new" => priority[j] \in 1 .. 5 /\ created[j] <= clock

\* Every row is stamped when it is inserted, and never again.
LEMMA NextStamped == TypeOK /\ Stamped /\ [Next]_vars => Stamped'
  <1> SUFFICES ASSUME TypeOK, Stamped, [Next]_vars
               PROVE  Stamped'
    OBVIOUS
  <1> USE JobsAssumption, NumbersAssumption DEF TypeOK, Stamped, RowStates, envVars
  <1>1. ASSUME NEW j \in Jobs, enqueue(j) PROVE Stamped'
    <2>1. JOB_PRIORITY[Kind[j]] \in 1 .. 5
      BY DEF JOB_PRIORITY, Kinds
    <2> QED
      BY <1>1, <2>1 DEF enqueue, Insert
  <1>2. ASSUME NEW j \in Jobs, IngestInsert(j) PROVE Stamped'
    BY <1>2 DEF IngestInsert, Insert, DEFAULT_JOB_PRIORITY
  <1>3. ASSUME NEW j \in Jobs, RetryTimerFires(j) PROVE Stamped'
    BY <1>3 DEF RetryTimerFires, transition, Exists
  <1>4. ASSUME NEW l \in Lanes, LaneStep(l) PROVE Stamped'
    <2>1. CASE Claim(l)
      BY <2>1, ClaimablePending DEF Claim
    <2>2. CASE RejectBroken(l) \/ HandlerFailsForGood(l) \/ HandlerFailsTransiently(l)
      BY <2>2 DEF RejectBroken, HandlerFailsForGood, HandlerFailsTransiently, fail, transition,
                  Exists
    <2>3. CASE RetryNow(l) \/ HandlerResolves(l) \/ HandlerPauses(l) \/ markPoison(l)
      BY <2>3 DEF RetryNow, HandlerResolves, HandlerPauses, markPoison, transition, Exists
    <2>4. CASE DecideRetry(l)
      BY <2>4 DEF DecideRetry, transition, Exists
    <2>5. CASE RecordRun(l) \/ CaughtFault(l) \/ onUncaught(l)
      BY <2>5 DEF RecordRun, CaughtFault, onUncaught, rowVars
    <2>6. CASE CleanupPurge(l)
      BY <2>6 DEF CleanupPurge, Delete, MoveAll, Purgeable
    <2> QED
      BY <1>4, <2>1, <2>2, <2>3, <2>4, <2>5, <2>6 DEF LaneStep, HandlerReturns, TickGoesOn
  <1>5. ASSUME NEW n \in 1 .. NumLanes, SetLaneBudget(n) PROVE Stamped'
    BY <1>5 DEF SetLaneBudget, rowVars
  <1>6. ASSUME NEW o \in Operators, OperatorStep(o) PROVE Stamped'
    <2>1. CASE ListForRequeue(o) \/ ListForPurge(o)
      BY <2>1 DEF ListForRequeue, ListForPurge, rowVars
    <2>2. CASE requeueForRetry(o)
      BY <2>2 DEF requeueForRetry, transition, Exists
    <2>3. CASE purgePoisonByIds(o)
      BY <2>3 DEF purgePoisonByIds, Delete, MoveAll, Poisoned
    <2>4. CASE requeuePaused(o)
      BY <2>4 DEF requeuePaused, MoveAll
    <2> QED
      BY <1>6, <2>1, <2>2, <2>3, <2>4 DEF OperatorStep
  <1>7. CASE BootStep
    BY <1>7 DEF BootStep, Start, RecoverConsolidate, RecoverRunning, RecoverFailed, BootPurge,
                MoveAll, Delete, Purgeable, rowVars
  <1>8. CASE Crash \/ Stop \/ Exit \/ Tick \/ UNCHANGED vars
    BY <1>8 DEF Crash, Stop, Exit, ProcessEnds, Tick, vars, rowVars
  <1> QED
    BY <1>1, <1>2, <1>3, <1>4, <1>5, <1>6, <1>7, <1>8 DEF Next

\* A row that waited four aging steps longer is claimed first, whatever the tiers.
LEMMA OlderRanksFirst ==
  ASSUME TypeOK, Stamped, NEW i \in Jobs, NEW j \in Jobs,
         state[i] = "pending", state[j] = "pending", created[i] + 4 * AgingStep <= created[j]
  PROVE  Rank(i) <= Rank(j) /\ created[i] < created[j] /\ Rank(i) \in Int /\ Rank(j) \in Int
  <1> DEFINE x == clock - created[j]
             y == clock - created[i]
  <1>1. x \in Nat /\ y \in Nat /\ y >= x + 4 * AgingStep /\ created[i] < created[j]
    BY NumbersAssumption DEF TypeOK, Stamped
  <1>2. /\ Rank(i) = priority[i] - (y \div AgingStep)
        /\ Rank(j) = priority[j] - (x \div AgingStep)
    BY DEF Rank, EffectivePriority
  <1>3. priority[i] \in 1 .. 5 /\ priority[j] \in 1 .. 5
    BY DEF Stamped
  <1> HIDE DEF x, y
  <1>4. /\ y \div AgingStep >= (x \div AgingStep) + 4
        /\ x \div AgingStep \in Nat /\ y \div AgingStep \in Nat
    BY <1>1, FourTiersMore, QuotientBounds, NumbersAssumption
  <1> DEFINE q == x \div AgingStep
             r == y \div AgingStep
  <1> HIDE DEF q, r
  <1>5. /\ Rank(i) = priority[i] - r /\ Rank(j) = priority[j] - q
        /\ r >= q + 4 /\ q \in Nat /\ r \in Nat
    BY <1>2, <1>4 DEF q, r
  <1> QED
    BY <1>1, <1>3, <1>5

\* What OvertakingBounded says of one step, about two jobs.
NotOvertaken(i, j) ==
  /\ state[j] = "pending" /\ state'[j] = "running"
  /\ state[i] = "pending" /\ state'[i] = "pending"
  /\ created[i] + 4 * AgingStep <= created[j]
  => Kind[j] \in LOCAL_SQLITE_KINDS

\* Only a claim makes a pending row running, and it takes a foremost row.
LEMMA StepKeepsTurn ==
  TypeOK /\ Stamped /\ [Next]_vars => \A i, j \in Jobs : NotOvertaken(i, j)
  <1> SUFFICES ASSUME TypeOK, Stamped, [Next]_vars, NEW i \in Jobs, NEW j \in Jobs,
                      state[j] = "pending", state'[j] = "running",
                      state[i] = "pending", created[i] + 4 * AgingStep <= created[j]
               PROVE  Kind[j] \in LOCAL_SQLITE_KINDS
    BY DEF NotOvertaken
  <1>1. \E l \in Lanes : Claim(l) /\ j \in Claimable(l)
    <2> USE JobsAssumption, NumbersAssumption
        DEF TypeOK, RowStates, MidTick
    <2>1. ASSUME NEW k \in Jobs, enqueue(k) \/ IngestInsert(k) \/ RetryTimerFires(k) PROVE FALSE
      BY <2>1 DEF enqueue, IngestInsert, Insert, RetryTimerFires, transition, Exists
    <2>2. ASSUME NEW l \in Lanes, LaneStep(l) PROVE Claim(l) /\ j \in Claimable(l)
      <3>1. CASE Claim(l)
        BY <3>1, ClaimablePending DEF Claim
      <3>2. ~ (RejectBroken(l) \/ HandlerFailsForGood(l) \/ HandlerFailsTransiently(l))
        BY DEF RejectBroken, HandlerFailsForGood, HandlerFailsTransiently, fail, transition, Exists
      <3>3. ~ (RetryNow(l) \/ HandlerResolves(l) \/ HandlerPauses(l) \/ markPoison(l))
        BY DEF RetryNow, HandlerResolves, HandlerPauses, markPoison, transition, Exists
      <3>4. ~ DecideRetry(l)
        BY DEF DecideRetry, transition, Exists
      <3>5. ~ (RecordRun(l) \/ CaughtFault(l) \/ onUncaught(l))
        BY DEF RecordRun, CaughtFault, onUncaught, rowVars
      <3>6. ~ CleanupPurge(l)
        BY DEF CleanupPurge, Delete, MoveAll, Purgeable
      <3> QED
        BY <2>2, <3>1, <3>2, <3>3, <3>4, <3>5, <3>6 DEF LaneStep, HandlerReturns, TickGoesOn
    <2>3. ASSUME NEW n \in 1 .. NumLanes, SetLaneBudget(n) PROVE FALSE
      BY <2>3 DEF SetLaneBudget, rowVars
    <2>4. ASSUME NEW o \in Operators, OperatorStep(o) PROVE FALSE
      BY <2>4 DEF OperatorStep, ListForRequeue, ListForPurge, requeueForRetry, purgePoisonByIds,
                  requeuePaused, transition, Exists, Delete, MoveAll, Poisoned, rowVars
    <2>5. CASE BootStep
      BY <2>5 DEF BootStep, Start, RecoverConsolidate, RecoverRunning, RecoverFailed, BootPurge,
                  MoveAll, Delete, Purgeable, rowVars
    <2>6. CASE Crash \/ Stop \/ Exit \/ Tick \/ UNCHANGED vars
      BY <2>6 DEF Crash, Stop, Exit, ProcessEnds, Tick, vars, rowVars
    <2> QED
      BY <2>1, <2>2, <2>3, <2>4, <2>5, <2>6 DEF Next
  <1>2. PICK l \in Lanes : j \in Claimable(l)
    BY <1>1
  <1>3. i \in Pending
    BY DEF Pending
  <1>4. j \notin Foremost(Pending)
    BY <1>3, OlderRanksFirst DEF Foremost, TypeOK
  <1> QED
    BY <1>2, <1>4 DEF Claimable, Foremost

\* No pending job is overtaken by one that arrives four aging steps later, for any
\* number of jobs and lanes, however long the queue runs; local-only kinds on the
\* reserved lane excepted.
THEOREM AgingBoundsOvertaking == Spec => OvertakingBounded
  <1>1. Init => Stamped
    BY DEF Init, Stamped
  <1>2. Spec => [](TypeOK /\ Stamped)
    BY <1>1, NextStamped, TypeCorrect, PTL DEF Spec
  <1>3. TypeOK /\ Stamped /\ [Next]_vars
          => [\A i, j \in Jobs : NotOvertaken(i, j)]_vars
    BY StepKeepsTurn
  <1>4. Spec => [][\A i, j \in Jobs : NotOvertaken(i, j)]_vars
    BY <1>2, <1>3, PTL DEF Spec
  <1> QED
    BY <1>4 DEF OvertakingBounded, NotOvertaken
===============================================================================
