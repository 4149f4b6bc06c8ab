---------------------------- MODULE ProviderPause -----------------------------
(***************************************************************************)
(* Why jobs pause: the daily LLM budget (BudgetTracker) and the provider's *)
(* quota circuit breaker (QuotaBreakerLLMProvider), composed with the job  *)
(* queue.  The spend is a row of the database, shared by every process;    *)
(* the breaker is a Map in the memory of one process.  A distill run works *)
(* on distill.chunkConcurrency chunks at once (mapWithConcurrency); each   *)
(* of its workers checks the budget, calls the provider, and records the   *)
(* cost when the answer comes back.  The first error of the run stops the  *)
(* dispatch, the calls in flight settle, and the run ends with that error. *)
(* One call costs one unit, exactly the estimate the check adds: how far a *)
(* real cost strays from its estimate is not modelled, nor are the calls   *)
(* that no budget gates (gatekeeper, triage, date grounding).              *)
(***************************************************************************)
EXTENDS JobQueue

CONSTANTS
  Cap,       \* budget.daily_usd, in calls
  Threshold, \* consecutiveFailureThreshold of the breaker
  Workers    \* the workers of a run, distill.chunkConcurrency of them

ASSUME PauseAssumption ==
  /\ Cap \in Nat
  /\ Threshold \in Nat \ {0}
  /\ IsFiniteSet(Workers) /\ Workers # {}

VARIABLES
  spent,      \* budget_spend.usd_total of today's row
  quotaOut,   \* environment: the provider answers 429
  quotaFails, \* consecutiveQuotaFailures, in the daemon's memory
  tripped,    \* the breaker is open, in the daemon's memory
  calling,    \* workers of runs, <<lane, worker>>, with a chat call in flight
  firstError, \* what the first error of a lane's run does to its job
  resetting,  \* operators between the statements of budget --reset
  burned      \* history: attempts lost to quota errors since the counter was last zero

pauseVars == <<spent, quotaOut, quotaFails, tripped, calling, firstError, resetting, burned>>
allVars   == <<vars, pauseVars>>

Errors == {"pause", "retry", "poison"}

Handling == {l \in Lanes : pc[l] = "handling"}

\* The type of the spend, the breaker and the runs; only a lane that is handling
\* a job has calls in flight or an error to end with.
PauseTypeOK ==
  /\ TypeOK
  /\ spent \in Nat
  /\ quotaOut \in BOOLEAN
  /\ quotaFails \in Nat
  /\ tripped \in BOOLEAN
  /\ calling \subseteq Handling \X Workers
  /\ firstError \in [Lanes -> Errors \cup {"none"}]
  /\ \A l \in Lanes : firstError[l] # "none" => l \in Handling
  /\ resetting \subseteq Operators
  /\ burned \in Nat

PauseInit ==
  /\ Init
  /\ spent = 0
  /\ quotaOut = FALSE
  /\ quotaFails = 0
  /\ tripped = FALSE
  /\ calling = {}
  /\ firstError = [l \in Lanes |-> "none"]
  /\ resetting = {}
  /\ burned = 0

\* A worker of a distill run that may take its next chunk: no error so far.
Dispatching(l, w) ==
  /\ Live /\ LoopFree
  /\ pc[l] = "handling" /\ Kind[job[l]] = "distill"
  /\ <<l, w>> \notin calling
  /\ firstError[l] = "none"

\* if (!hasError) firstError = err: later errors of the run are dropped.
RunError(l, e) == firstError' = [firstError EXCEPT ![l] = IF @ = "none" THEN e ELSE @]

Settles(l, w) ==
  /\ Live /\ LoopFree
  /\ <<l, w>> \in calling
  /\ calling' = calling \ {<<l, w>>}

-------------------------------------------------------------------------------
(* The chunks of a distill run.                                            *)

\* Mutant: the estimate of the next call is left out.
canSpend_NoEstimate == spent <= Cap

canSpend == spent + 1 <= Cap

\* assertCanSpend throws BudgetExceeded (which the handler turns into
\* DistillBudgetPausedError), or the breaker is open: no network call.
Refused(l, w) ==
  /\ Dispatching(l, w)
  /\ canSpend => tripped
  /\ RunError(l, "pause")
  /\ UNCHANGED <<vars, spent, quotaOut, quotaFails, tripped, calling, resetting, burned>>

Chat(l, w) ==
  /\ Dispatching(l, w)
  /\ canSpend
  /\ ~ tripped
  /\ calling' = calling \cup {<<l, w>>}
  /\ UNCHANGED <<vars, spent, quotaOut, quotaFails, tripped, firstError, resetting, burned>>

\* The answer: the counter is cleared (an open breaker stays open) and the
\* cost is recorded on the row of the day it arrives; then the answer may not
\* parse.
ChatAnswers(l, w) ==
  /\ Settles(l, w)
  /\ ~ quotaOut
  /\ quotaFails' = 0
  /\ burned' = 0
  /\ spent' = spent + 1
  /\ RunError(l, "retry") \/ UNCHANGED firstError
  /\ UNCHANGED <<vars, quotaOut, tripped, resetting>>

\* Mutant: the breaker acts only on the failure that trips it.
ChatOverQuota_ExactlyAtThreshold(l, w) ==
  /\ Settles(l, w)
  /\ quotaOut
  /\ quotaFails' = quotaFails + 1
  /\ IF quotaFails + 1 = Threshold
       THEN tripped' = TRUE /\ UNCHANGED burned /\ RunError(l, "pause")
       ELSE /\ UNCHANGED tripped
            /\ burned' = IF firstError[l] = "none" THEN burned + 1 ELSE burned
            /\ RunError(l, "retry")
  /\ UNCHANGED <<vars, spent, quotaOut, resetting>>

\* A quota error below the threshold is rethrown, and costs the job an attempt
\* if it is the run's first error; the one that reaches it opens the breaker.
ChatOverQuota(l, w) ==
  /\ Settles(l, w)
  /\ quotaOut
  /\ quotaFails' = quotaFails + 1
  /\ IF quotaFails + 1 >= Threshold
       THEN tripped' = TRUE /\ UNCHANGED burned /\ RunError(l, "pause")
       ELSE /\ UNCHANGED tripped
            /\ burned' = IF firstError[l] = "none" THEN burned + 1 ELSE burned
            /\ RunError(l, "retry")
  /\ UNCHANGED <<vars, spent, quotaOut, resetting>>

\* Any other failure of a call is no quota signal.
ChatFails(l, w) ==
  /\ Settles(l, w)
  /\ \E e \in Errors \ {"pause"} : RunError(l, e)
  /\ UNCHANGED <<vars, spent, quotaOut, quotaFails, tripped, resetting, burned>>

\* Every call has settled: the run ends with its first error; without one it
\* resolves, or fails outside its calls.
RunEnds(l) ==
  /\ \A w \in Workers : <<l, w>> \notin calling
  /\ \/ firstError[l] = "none" /\ HandlerResolves(l)
     \/ firstError[l] = "pause" /\ HandlerPauses(l)
     \/ firstError[l] \in {"none", "retry"} /\ pc[l] = "handling" /\ HandlerFailsTransiently(l)
     \/ firstError[l] \in {"none", "poison"} /\ HandlerFailsForGood(l)
  /\ firstError' = [firstError EXCEPT ![l] = "none"]
  /\ UNCHANGED <<spent, quotaOut, quotaFails, tripped, calling, resetting, burned>>

-------------------------------------------------------------------------------
(* budget --reset: the command runs in its own process, so                  *)
(* resetAllProviderQuotaBreakers() clears that process's registry, which    *)
(* holds nothing, and leaves the daemon's alone.                            *)

resetToday(o) ==
  /\ o \notin resetting
  /\ command[o] = "none"
  /\ spent' = 0
  /\ resetting' = resetting \cup {o}
  /\ UNCHANGED <<vars, quotaOut, quotaFails, tripped, calling, firstError, burned>>

FinishReset(o) ==
  /\ o \in resetting
  /\ \/ requeuePaused(o)
     \/ UNCHANGED vars /\ \A j \in Jobs : state[j] # "paused"
  /\ resetting' = resetting \ {o}
  /\ UNCHANGED <<spent, quotaOut, quotaFails, tripped, calling, firstError, burned>>

-------------------------------------------------------------------------------
(* Environment and the rest of the queue.                                  *)

\* todayKey changes: the row of the new day does not exist yet.
NewDay ==
  /\ spent' = 0
  /\ UNCHANGED <<vars, quotaOut, quotaFails, tripped, calling, firstError, resetting, burned>>

QuotaChanges ==
  /\ quotaOut' = ~ quotaOut
  /\ UNCHANGED <<vars, spent, quotaFails, tripped, calling, firstError, resetting, burned>>

\* The breaker and the runs die with the process.
EndOfProcess ==
  /\ Crash \/ Exit
  /\ quotaFails' = 0
  /\ burned' = 0
  /\ tripped' = FALSE
  /\ calling' = {}
  /\ firstError' = [l \in Lanes |-> "none"]
  /\ UNCHANGED <<spent, quotaOut, resetting>>

QueueStep ==
  /\ \/ \E j \in Jobs : enqueue(j) \/ IngestInsert(j) \/ RetryTimerFires(j)
     \/ \E l \in Lanes : Claim(l) \/ TickGoesOn(l)
     \/ \E n \in 1 .. NumLanes : SetLaneBudget(n)
     \/ BootStep
     \/ Stop
  /\ UNCHANGED pauseVars

ChunkStep(l, w) ==
  \/ Refused(l, w)
  \/ Chat(l, w)
  \/ ChatAnswers(l, w)
  \/ ChatOverQuota(l, w)
  \/ ChatFails(l, w)

PauseNext ==
  \/ \E l \in Lanes, w \in Workers : ChunkStep(l, w)
  \/ \E l \in Lanes : RunEnds(l)
  \/ \E o \in Operators : resetToday(o) \/ FinishReset(o)
  \/ NewDay
  \/ QuotaChanges
  \/ EndOfProcess
  \/ QueueStep

PauseSpec == PauseInit /\ [][PauseNext]_allVars

-------------------------------------------------------------------------------
(* Properties.                                                             *)

\* assertCanSpend reads the total before the call and record() adds to it
\* after, so workers that pass the check together overshoot the cap: counting
\* the calls still in flight, never by more than what the other workers of all
\* lanes can have in flight (concurrency.ts:29-39 bounds one run by limit - 1).
CommittedSpendBounded == spent + Cardinality(calling) <= Cap + NumLanes * Cardinality(Workers) - 1

\* A quota storm, however many jobs and lanes run into it and however late its
\* last calls come back, costs all jobs together fewer attempts than the
\* threshold (quota-breaker.ts: the job pauses "so a quota storm does not
\* consume the job's attempt budget"); a success in between starts a new storm.
StormBurnsFewAttempts == burned < Threshold
===============================================================================
