-------------------------- MODULE ProviderPauseProofs --------------------------
(***************************************************************************)
(* Machine-checked proofs about ProviderPause, for any cap, threshold,     *)
(* number of lanes, workers, jobs and resets.                              *)
(***************************************************************************)
EXTENDS ProviderPause, JobQueueProofs, FiniteSetTheorems

-------------------------------------------------------------------------------
(* Budget and breaker leave the queue what it is.                          *)

\* Each step of the composition is a step of the queue, or leaves it alone.
LEMMA PauseStepIsQueueStep == [PauseNext]_allVars => [Next]_vars
  <1> SUFFICES ASSUME [PauseNext]_allVars PROVE [Next]_vars
    OBVIOUS
  <1>1. ASSUME NEW l \in Lanes,
               HandlerPauses(l) \/ HandlerResolves(l) \/ HandlerFailsForGood(l)
                 \/ HandlerFailsTransiently(l)
        PROVE  Next
    BY <1>1 DEF Next, LaneStep, HandlerReturns
  <1>2. ASSUME NEW l \in Lanes, RunEnds(l) PROVE Next
    BY <1>1, <1>2 DEF RunEnds
  <1>3. ASSUME NEW l \in Lanes, NEW w \in Workers, ChunkStep(l, w) PROVE UNCHANGED vars
    BY <1>3 DEF ChunkStep, Refused, Chat, ChatAnswers, ChatOverQuota, ChatFails
  <1>4. ASSUME NEW o \in Operators, resetToday(o) \/ FinishReset(o) PROVE [Next]_vars
    BY <1>4 DEF resetToday, FinishReset, Next, OperatorStep
  <1>5. CASE NewDay \/ QuotaChanges
    BY <1>5 DEF NewDay, QuotaChanges
  <1>6. CASE EndOfProcess
    BY <1>6 DEF EndOfProcess, Next
  <1>7. CASE QueueStep
    BY <1>7 DEF QueueStep, Next, LaneStep
  <1>8. CASE UNCHANGED allVars
    BY <1>8 DEF allVars
  <1> QED
    BY <1>2, <1>3, <1>4, <1>5, <1>6, <1>7, <1>8 DEF PauseNext

\* The queue under budget and breaker is the queue: what is proved of JobQueue holds of the
\* composition, whatever the providers and the operators do.
THEOREM PauseKeepsQueue == PauseSpec => Spec
  <1>1. PauseInit => Init
    BY DEF PauseInit
  <1> QED
    BY <1>1, PauseStepIsQueueStep, PTL DEF PauseSpec, Spec

\* Also with lanes that pause on the budget and the breaker no job is executed by two of
\* them, as long as one queue command runs at a time.
THEOREM PauseKeepsExclusion == ASSUME OneOperator PROVE PauseSpec => []NoDoubleExecution
  BY PauseKeepsQueue, ExclusiveExecution, PTL

-------------------------------------------------------------------------------
(* Types.                                                                  *)

\* The part of the type that ties calls and errors to the lanes that are handling a job.
RunsOK ==
  /\ calling \subseteq Handling \X Workers
  /\ firstError \in [Lanes -> Errors \cup {"none"}]
  /\ \A l \in Lanes : firstError[l] # "none" => l \in Handling

\* Outside the runs no lane stops handling its job while the daemon lives.
LEMMA OthersKeepHandling ==
  ASSUME TypeOK,
         \/ \E o \in Operators : resetToday(o) \/ FinishReset(o)
         \/ NewDay \/ QuotaChanges \/ QueueStep \/ UNCHANGED allVars
  PROVE  /\ Handling \subseteq Handling'
         /\ UNCHANGED <<calling, firstError>>
  <1> USE DEF TypeOK, Goto, Release, MidTick, Handling
  <1>1. ASSUME NEW o \in Operators, resetToday(o) \/ FinishReset(o)
        PROVE  pc' = pc /\ UNCHANGED <<calling, firstError>>
    BY <1>1 DEF resetToday, FinishReset, requeuePaused, vars, daemonVars
  <1>2. CASE NewDay \/ QuotaChanges
    BY <1>2 DEF NewDay, QuotaChanges, vars, daemonVars
  <1>3. CASE QueueStep
    <2>0. UNCHANGED <<calling, firstError>>
      BY <1>3 DEF QueueStep, pauseVars
    <2>1. ASSUME NEW j \in Jobs, enqueue(j) \/ IngestInsert(j) \/ RetryTimerFires(j) PROVE pc' = pc
      BY <2>1 DEF enqueue, IngestInsert, RetryTimerFires, daemonVars
    <2>2. ASSUME NEW l \in Lanes, Claim(l) \/ TickGoesOn(l)
          PROVE  \A k \in Lanes : pc[k] = "handling" => pc'[k] = "handling"
      BY <2>2 DEF Claim, TickGoesOn, RejectBroken, RetryNow, RecordRun, markPoison, DecideRetry
    <2>3. ASSUME NEW n \in 1 .. NumLanes, SetLaneBudget(n) PROVE pc' = pc
      BY <2>3 DEF SetLaneBudget
    <2>4. ASSUME BootStep \/ Stop PROVE pc' = pc
      BY <2>4 DEF BootStep, Start, RecoverConsolidate, RecoverRunning, RecoverFailed, BootPurge, Stop
    <2> QED
      BY <1>3, <2>0, <2>1, <2>2, <2>3, <2>4 DEF QueueStep
  <1>4. CASE UNCHANGED allVars
    BY <1>4 DEF allVars, vars, pauseVars, daemonVars
  <1> QED
    BY <1>1, <1>2, <1>3, <1>4

\* A step of a chunk belongs to a lane that is handling its job.
LEMMA ChunkKeepsRuns ==
  ASSUME RunsOK, NEW l \in Lanes, NEW w \in Workers, ChunkStep(l, w)
  PROVE  RunsOK'
  <1>1. Handling' = Handling
    BY DEF ChunkStep, Refused, Chat, ChatAnswers, ChatOverQuota, ChatFails, Handling, vars, daemonVars
  <1>2. l \in Handling /\ calling' \subseteq calling \cup {<<l, w>>}
    BY DEF ChunkStep, Refused, Chat, ChatAnswers, ChatOverQuota, ChatFails, Dispatching, Settles,
           Handling, RunsOK
  <1>3. firstError' \in [Lanes -> Errors \cup {"none"}]
    BY DEF ChunkStep, Refused, Chat, ChatAnswers, ChatOverQuota, ChatFails, RunError, Errors, RunsOK
  <1>4. \A k \in Lanes : k # l => firstError'[k] = firstError[k]
    BY DEF ChunkStep, Refused, Chat, ChatAnswers, ChatOverQuota, ChatFails, RunError, RunsOK
  <1>5. calling' \subseteq Handling \X Workers
    BY <1>2 DEF RunsOK
  <1> QED
    BY <1>1, <1>2, <1>3, <1>4, <1>5 DEF RunsOK

\* A run that ends has no call left and takes its error with it.
LEMMA EndKeepsRuns ==
  ASSUME RunsOK, TypeOK, NEW l \in Lanes, RunEnds(l)
  PROVE  RunsOK'
  <1>1. Handling \ {l} \subseteq Handling'
    BY DEF RunEnds, HandlerResolves, HandlerPauses, HandlerFailsForGood, HandlerFailsTransiently,
           Goto, Release, Handling, TypeOK
  <1>2. calling' = calling /\ \A w \in Workers : <<l, w>> \notin calling
    BY DEF RunEnds
  <1>3. calling \subseteq (Handling \ {l}) \X Workers
    BY <1>2 DEF RunsOK
  <1>4. firstError' = [firstError EXCEPT ![l] = "none"]
    BY DEF RunEnds
  <1> QED
    BY <1>1, <1>2, <1>3, <1>4 DEF RunsOK

\* Calls and errors stay with the lanes that are handling a job.
LEMMA NextRunsOK == TypeOK /\ RunsOK /\ [PauseNext]_allVars => RunsOK'
  <1> SUFFICES ASSUME TypeOK, RunsOK, [PauseNext]_allVars PROVE RunsOK'
    OBVIOUS
  <1>1. CASE EndOfProcess
    BY <1>1 DEF EndOfProcess, RunsOK
  <1>2. ASSUME Handling \subseteq Handling', UNCHANGED <<calling, firstError>> PROVE RunsOK'
    <2>1. calling \subseteq Handling' \X Workers
      BY <1>2 DEF RunsOK
    <2> QED
      BY <1>2, <2>1 DEF RunsOK
  <1> QED
    BY <1>1, <1>2, ChunkKeepsRuns, EndKeepsRuns, OthersKeepHandling DEF PauseNext

\* Spend, breaker and calls keep their types.
LEMMA NextPauseTypeOK == PauseTypeOK /\ [PauseNext]_allVars => PauseTypeOK'
  <1> SUFFICES ASSUME PauseTypeOK, [PauseNext]_allVars PROVE PauseTypeOK'
    OBVIOUS
  <1> USE DEF PauseNext, ChunkStep, Refused, Chat, ChatAnswers, ChatOverQuota, ChatFails, RunEnds,
              resetToday, FinishReset, NewDay, QuotaChanges, EndOfProcess, QueueStep, pauseVars, allVars
  <1>1. TypeOK'
    BY PauseStepIsQueueStep, NextTypeOK DEF PauseTypeOK
  <1>2. RunsOK'
    BY NextRunsOK DEF PauseTypeOK, RunsOK
  <1>3. spent' \in Nat /\ quotaFails' \in Nat /\ resetting' \subseteq Operators /\ burned' \in Nat
    BY PauseAssumption DEF PauseTypeOK
  <1>4. quotaOut' \in BOOLEAN /\ tripped' \in BOOLEAN
    <2>1. quotaOut' \in {quotaOut, ~ quotaOut} /\ tripped' \in {tripped, TRUE, FALSE}
      BY Zenon
    <2> QED
      BY <2>1 DEF PauseTypeOK
  <1> QED
    BY <1>1, <1>2, <1>3, <1>4 DEF PauseTypeOK, RunsOK

\* The types of spend, breaker and calls in flight, for any limits; only a lane that is
\* handling a job has a call in flight, also after a restart.
THEOREM PauseTypeCorrect == PauseSpec => []PauseTypeOK
  <1>1. PauseInit => PauseTypeOK
    <2> SUFFICES ASSUME PauseInit PROVE PauseTypeOK
      OBVIOUS
    <2>1. TypeOK /\ quotaOut \in BOOLEAN /\ tripped \in BOOLEAN
      BY InitTypeOK, Zenon DEF PauseInit
    <2>2. spent \in Nat /\ quotaFails \in Nat /\ burned \in Nat /\ resetting \subseteq Operators
      BY DEF PauseInit
    <2>3. RunsOK
      BY DEF PauseInit, RunsOK
    <2> QED
      BY <2>1, <2>2, <2>3 DEF PauseTypeOK, RunsOK
  <1> QED
    BY <1>1, NextPauseTypeOK, PTL DEF PauseSpec

-------------------------------------------------------------------------------
(* The daily budget.                                                       *)

Slots == Lanes \X Workers
NumSlots == NumLanes * Cardinality(Workers)

\* There are as many calls in flight as the lanes have workers, at most.
LEMMA CallsFitSlots ==
  /\ NumSlots \in Nat \ {0}
  /\ \A S \in SUBSET Slots : IsFiniteSet(S) /\ Cardinality(S) \in Nat /\ Cardinality(S) <= NumSlots
  <1>1. IsFiniteSet(Lanes) /\ Cardinality(Lanes) = NumLanes /\ NumLanes \in Nat \ {0}
    BY FS_Interval, NumbersAssumption DEF Lanes
  <1>2. IsFiniteSet(Workers) /\ Cardinality(Workers) \in Nat \ {0}
    BY PauseAssumption, FS_CardinalityType, FS_EmptySet
  <1>3. IsFiniteSet(Slots) /\ Cardinality(Slots) = NumSlots
    BY <1>1, <1>2, FS_Product DEF Slots, NumSlots
  <1>4. NumSlots \in Nat \ {0}
    BY <1>1, <1>2, SMT DEF NumSlots
  <1> QED
    BY <1>3, <1>4, FS_Subset, FS_CardinalityType

\* A step overspends no more than the workers that passed the check together can.
LEMMA NextSpendBounded ==
  PauseTypeOK /\ CommittedSpendBounded /\ [PauseNext]_allVars => CommittedSpendBounded'
  <1> SUFFICES ASSUME PauseTypeOK, CommittedSpendBounded, [PauseNext]_allVars
               PROVE  CommittedSpendBounded'
    OBVIOUS
  <1> DEFINE flying == Cardinality(calling)
  <1>1. /\ calling \in SUBSET Slots /\ IsFiniteSet(calling) /\ flying \in Nat
        /\ spent \in Nat /\ Cap \in Nat /\ NumSlots \in Nat
    BY CallsFitSlots, PauseAssumption DEF PauseTypeOK, Slots, Handling
  <1>2. \A c \in calling : Cardinality(calling \ {c}) = flying - 1
    BY <1>1, FS_RemoveElement
  <1>3. spent + flying <= Cap + NumSlots - 1
    BY DEF CommittedSpendBounded, NumSlots
  <1>4. ASSUME spent' \in {0, spent}, calling' \subseteq calling PROVE CommittedSpendBounded'
    <2>1. Cardinality(calling') \in Nat /\ Cardinality(calling') <= flying
      BY <1>1, <1>4, FS_Subset, FS_CardinalityType
    <2> HIDE DEF flying
    <2>2. spent' + Cardinality(calling') <= Cap + NumSlots - 1
      BY <1>1, <1>3, <1>4, <2>1
    <2> QED
      BY <2>2 DEF CommittedSpendBounded, NumSlots
  <1>5. ASSUME NEW l \in Lanes, NEW w \in Workers, Chat(l, w) PROVE CommittedSpendBounded'
    <2>1. /\ <<l, w>> \notin calling /\ spent + 1 <= Cap /\ spent' = spent
          /\ calling' = calling \cup {<<l, w>>}
      BY <1>5 DEF Chat, Dispatching, canSpend
    <2>2. calling' \in SUBSET Slots
      BY <1>1, <2>1 DEF Slots
    <2>3. Cardinality(calling') = flying + 1 /\ Cardinality(calling') <= NumSlots
      BY <1>1, <2>1, <2>2, FS_AddElement, CallsFitSlots
    <2> HIDE DEF flying
    <2>4. spent' + Cardinality(calling') <= Cap + NumSlots - 1
      BY <1>1, <2>1, <2>3
    <2> QED
      BY <2>4 DEF CommittedSpendBounded, NumSlots
  <1>6. ASSUME NEW l \in Lanes, NEW w \in Workers, ChatAnswers(l, w) PROVE CommittedSpendBounded'
    <2>1. <<l, w>> \in calling /\ calling' = calling \ {<<l, w>>} /\ spent' = spent + 1
      BY <1>6 DEF ChatAnswers, Settles
    <2>2. Cardinality(calling') = flying - 1
      BY <1>2, <2>1
    <2> HIDE DEF flying
    <2>3. spent' + Cardinality(calling') <= Cap + NumSlots - 1
      BY <1>1, <1>3, <2>1, <2>2
    <2> QED
      BY <2>3 DEF CommittedSpendBounded, NumSlots
  <1>7. ASSUME NEW l \in Lanes, NEW w \in Workers,
               Refused(l, w) \/ ChatOverQuota(l, w) \/ ChatFails(l, w)
        PROVE  CommittedSpendBounded'
    BY <1>4, <1>7 DEF Refused, ChatOverQuota, ChatFails, Settles
  <1>8. ASSUME NEW l \in Lanes, RunEnds(l) PROVE CommittedSpendBounded'
    BY <1>4, <1>8 DEF RunEnds
  <1>9. ASSUME NEW o \in Operators, resetToday(o) \/ FinishReset(o) PROVE CommittedSpendBounded'
    BY <1>4, <1>9 DEF resetToday, FinishReset
  <1>10. CASE NewDay \/ QuotaChanges \/ EndOfProcess \/ QueueStep \/ UNCHANGED allVars
    BY <1>4, <1>10 DEF NewDay, QuotaChanges, EndOfProcess, QueueStep, allVars, pauseVars
  <1> QED
    BY <1>5, <1>6, <1>7, <1>8, <1>9, <1>10 DEF PauseNext, ChunkStep

\* What is spent and what the calls in flight will spend never passes the cap by more than
\* the calls of all other workers, for any number of lanes and of workers of a run, through
\* resets, midnights and crashes.
THEOREM SpendStaysBounded == PauseSpec => []CommittedSpendBounded
  <1>1. PauseInit => CommittedSpendBounded
    BY FS_EmptySet, PauseAssumption, CallsFitSlots DEF PauseInit, CommittedSpendBounded, NumSlots
  <1> QED
    BY <1>1, NextSpendBounded, PauseTypeCorrect, PTL DEF PauseSpec

-------------------------------------------------------------------------------
(* The quota breaker.                                                      *)

\* The attempts a storm has burned are among the failures the breaker has counted.
BurnsAreCounted == burned <= quotaFails /\ burned < Threshold

\* The failure that reaches the threshold, and those after it, burn no attempt.
LEMMA NextBurnsAreCounted ==
  PauseTypeOK /\ BurnsAreCounted /\ [PauseNext]_allVars => BurnsAreCounted'
  BY PauseAssumption
  DEF BurnsAreCounted, PauseTypeOK, PauseNext, ChunkStep, Refused, Chat, ChatAnswers, ChatOverQuota,
      ChatFails, RunEnds, resetToday, FinishReset, NewDay, QuotaChanges, EndOfProcess, QueueStep,
      pauseVars, allVars

\* A quota storm costs all jobs together fewer attempts than the threshold, for any number
\* of lanes and jobs that run into it.
THEOREM StormsStayCheap == PauseSpec => []StormBurnsFewAttempts
  <1>1. PauseInit => BurnsAreCounted
    BY PauseAssumption DEF PauseInit, BurnsAreCounted
  <1>2. BurnsAreCounted => StormBurnsFewAttempts
    BY DEF BurnsAreCounted, StormBurnsFewAttempts
  <1> QED
    BY <1>1, <1>2, NextBurnsAreCounted, PauseTypeCorrect, PTL DEF PauseSpec
===============================================================================
