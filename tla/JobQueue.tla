------------------------------- MODULE JobQueue -------------------------------
(***************************************************************************)
(* The persistent job queue of the daemon: the jobs table (JobRepo), the   *)
(* in-process worker lanes that claim and run jobs, the retry timers they  *)
(* arm, boot recovery after a crash or a stop, and the operator's CLI      *)
(* commands, which are other processes writing to the same SQLite file.    *)
(*                                                                         *)
(* Grain of atomicity.  Every SQL statement commits on its own, so a crash *)
(* or another process can fall between two statements; claimPending is one *)
(* transaction.  The daemon is one JavaScript thread: between two awaits a *)
(* lane owns the event loop, and no other lane or timer of the daemon      *)
(* moves.  The lane positions in MidTick are the points between two        *)
(* statements of one such uninterrupted run.                               *)
(***************************************************************************)
EXTENDS JobClaim, FiniteSets

CONSTANTS
  Jobs,         \* the job ids (uuids) the model can insert
  Kind,         \* the kind of each job
  Broken,       \* jobs with no registered handler, or whose payload is not JSON
  NumLanes,     \* pipeline.concurrency after clamping
  MAX_ATTEMPTS, \* failures before a job is poisoned
  Operators,    \* concurrently running CLI processes
  AgingStep,    \* AGING_STEP_MS in clock ticks
  NoJob,        \* the job of an idle lane
  MaxClock,     \* bound: clock ticks
  MaxRestarts,  \* bound: crashes plus graceful stops
  MaxRequeued,  \* bound: a row with this many attempts is not requeued again
  MaxFaults     \* bound: repository calls that throw

Lanes == 0 .. NumLanes - 1

ASSUME JobsAssumption ==
  /\ NoJob \notin Jobs
  /\ Kind \in [Jobs -> Kinds]
  /\ Broken \subseteq Jobs

ASSUME NumbersAssumption ==
  /\ NumLanes \in Nat \ {0}
  /\ MAX_ATTEMPTS \in Nat \ {0}
  /\ AgingStep \in Nat \ {0}
  /\ MaxClock \in Nat
  /\ MaxRestarts \in Nat
  /\ MaxRequeued \in Nat
  /\ MaxFaults \in Nat

VARIABLES
  \* the jobs table
  state,      \* the row's state; "new" before its INSERT, "gone" after its DELETE
  attempts,   \* failures recorded on the row
  priority,   \* the stored tier
  created,    \* created_at
  \* the daemon process
  phase,      \* down, the boot steps, up, draining (SIGTERM received)
  pc,         \* where each lane is in its tick
  job,        \* the job each lane is working on
  laneBudget, \* how many lanes the resource governor lets claim
  timers,     \* armed in-memory retry timers per job
  \* the operator's processes
  command,    \* the statement each CLI process is about to run
  batch,      \* the rows it has listed and not yet dealt with
  \* environment
  clock, restarts, faults

rowVars    == <<state, attempts, priority, created>>
daemonVars == <<phase, pc, job, laneBudget, timers>>
opVars     == <<command, batch>>
envVars    == <<clock, restarts, faults>>
vars       == <<rowVars, daemonVars, opVars, envVars>>

RowStates == {"pending", "running", "completed", "failed", "poison", "paused"}
BootPhases == {"poisonRunning", "requeueRunning", "requeueFailed", "purge"}
MidTick   == {"reject", "retryNow", "record", "catch", "poison", "decide"}

\* The type of the rows, lanes, timers and commands; a counter of timers is
\* never negative.
TypeOK ==
  /\ state \in [Jobs -> RowStates \cup {"new", "gone"}]
  /\ attempts \in [Jobs -> Nat]
  /\ priority \in [Jobs -> Nat]
  /\ created \in [Jobs -> Nat]
  /\ phase \in {"down", "up", "draining"} \cup BootPhases
  /\ pc \in [Lanes -> {"idle", "handling"} \cup MidTick]
  /\ job \in [Lanes -> Jobs \cup {NoJob}]
  /\ laneBudget \in 1 .. NumLanes
  /\ timers \in [Jobs -> Nat]
  /\ command \in [Operators -> {"none", "requeue", "purge"}]
  /\ batch \in [Operators -> SUBSET Jobs]
  /\ clock \in Nat
  /\ restarts \in Nat
  /\ faults \in Nat

Init ==
  /\ state = [j \in Jobs |-> "new"]
  /\ attempts = [j \in Jobs |-> 0]
  /\ priority = [j \in Jobs |-> 0]
  /\ created = [j \in Jobs |-> 0]
  /\ phase = "down"
  /\ pc = [l \in Lanes |-> "idle"]
  /\ job = [l \in Lanes |-> NoJob]
  /\ laneBudget = 1
  /\ timers = [j \in Jobs |-> 0]
  /\ command = [o \in Operators |-> "none"]
  /\ batch = [o \in Operators |-> {}]
  /\ clock = 0
  /\ restarts = 0
  /\ faults = 0

-------------------------------------------------------------------------------
(* The jobs table.                                                         *)

Exists(j) == state[j] \in RowStates
Pending   == {j \in Jobs : state[j] = "pending"}
\* Mutant: the listing forgets its filter on the state.
Poisoned_Unfiltered == {j \in Jobs : state[j] \in {"poison", "failed"}}

Poisoned  == {j \in Jobs : state[j] = "poison"}

\* UPDATE ... WHERE id = ?: whatever state the row is in; no row, no effect.
transition(j, s) == state' = [state EXCEPT ![j] = IF Exists(j) THEN s ELSE @]

fail(j) ==
  /\ transition(j, "failed")
  /\ attempts' = [attempts EXCEPT ![j] = IF Exists(j) THEN @ + 1 ELSE @]

\* One UPDATE moving every row of S to state s.
MoveAll(S, s) == state' = [j \in Jobs |-> IF j \in S THEN s ELSE state[j]]

Delete(S) ==
  /\ MoveAll(S, "gone")
  /\ attempts' = [j \in Jobs |-> IF j \in S THEN 0 ELSE attempts[j]]

Insert(j, tier) ==
  /\ state[j] = "new"
  /\ state' = [state EXCEPT ![j] = "pending"]
  /\ priority' = [priority EXCEPT ![j] = tier]
  /\ created' = [created EXCEPT ![j] = clock]
  /\ UNCHANGED attempts

\* The rows claimPending's ORDER BY may put first: rows with the same
\* created_at are in no defined order.
Rank(j) == EffectivePriority(priority[j], created[j], clock, AgingStep)

Foremost(S) ==
  {j \in S : \A i \in S : \/ Rank(j) < Rank(i)
                          \/ Rank(j) = Rank(i) /\ created[j] <= created[i]}

Claimable(l) ==
  LET local == {j \in Pending : Kind[j] \in LOCAL_SQLITE_KINDS}
  IN  IF l = RESERVED_LOCAL_LANE_ID /\ local # {}
        THEN Foremost(local)
        ELSE Foremost(Pending)

-------------------------------------------------------------------------------
(* Producers.                                                              *)

\* Handlers, routes and timers of a running daemon enqueue any kind; the
\* audio and rebuild commands enqueue from their own process at any time.
enqueue(j) ==
  /\ phase \in {"up", "draining"} \/ Kind[j] \in {"reembed", "transcribe"}
  /\ Insert(j, JOB_PRIORITY[Kind[j]])
  /\ UNCHANGED <<daemonVars, opVars, envVars>>

\* The ingest routes insert their distill jobs with an INSERT of their own,
\* which names no priority column.
IngestInsert(j) ==
  /\ phase \in {"up", "draining"}
  /\ Kind[j] \in {"distill", "distill-events"}
  /\ Insert(j, DEFAULT_JOB_PRIORITY)
  /\ UNCHANGED <<daemonVars, opVars, envVars>>

-------------------------------------------------------------------------------
(* Worker lanes.                                                           *)

Live     == phase \in {"up", "draining"}
LoopFree == \A l \in Lanes : pc[l] \notin MidTick

Goto(l, place) == pc' = [pc EXCEPT ![l] = place]

Release(l) ==
  /\ Goto(l, "idle")
  /\ job' = [job EXCEPT ![l] = NoJob]

Claim(l) ==
  /\ phase = "up"
  /\ LoopFree
  /\ pc[l] = "idle"
  /\ l < laneBudget
  /\ \E j \in Claimable(l) :
       /\ state' = [state EXCEPT ![j] = "running"]
       /\ job' = [job EXCEPT ![l] = j]
       /\ Goto(l, IF j \in Broken THEN "reject" ELSE "handling")
  /\ UNCHANGED <<attempts, priority, created, phase, laneBudget, timers, opVars, envVars>>

\* No handler, or a payload that does not parse: fail, then poison or requeue
\* at once.
RejectBroken(l) ==
  /\ pc[l] = "reject"
  /\ fail(job[l])
  /\ Goto(l, "retryNow")
  /\ UNCHANGED <<priority, created, phase, job, laneBudget, timers, opVars, envVars>>

\* Mutant: the branch returns without its second statement.
RetryNow_NoTransition(l) ==
  /\ pc[l] = "retryNow"
  /\ Release(l)
  /\ UNCHANGED <<rowVars, phase, laneBudget, timers, opVars, envVars>>

RetryNow(l) ==
  /\ pc[l] = "retryNow"
  /\ transition(job[l], IF attempts[job[l]] >= MAX_ATTEMPTS THEN "poison" ELSE "pending")
  /\ Release(l)
  /\ UNCHANGED <<attempts, priority, created, phase, laneBudget, timers, opVars, envVars>>

\* The handler's promise resolved: complete the row, then log the run.
HandlerResolves(l) ==
  /\ Live /\ LoopFree
  /\ pc[l] = "handling"
  /\ transition(job[l], "completed")
  /\ Goto(l, "record")
  /\ UNCHANGED <<attempts, priority, created, phase, job, laneBudget, timers, opVars, envVars>>

RecordRun(l) ==
  /\ pc[l] = "record"
  /\ Release(l)
  /\ UNCHANGED <<rowVars, phase, laneBudget, timers, opVars, envVars>>

\* The daily budget is spent, or the provider's quota breaker is open: the
\* job is parked and keeps its attempts.
HandlerPauses(l) ==
  /\ Live /\ LoopFree
  /\ pc[l] = "handling"
  /\ transition(job[l], "paused")
  /\ Release(l)
  /\ UNCHANGED <<attempts, priority, created, phase, laneBudget, timers, opVars, envVars>>

HandlerFailsForGood(l) ==
  /\ Live /\ LoopFree
  /\ pc[l] = "handling"
  /\ fail(job[l])
  /\ Goto(l, "poison")
  /\ UNCHANGED <<priority, created, phase, job, laneBudget, timers, opVars, envVars>>

markPoison(l) ==
  /\ pc[l] = "poison"
  /\ transition(job[l], "poison")
  /\ Release(l)
  /\ UNCHANGED <<attempts, priority, created, phase, laneBudget, timers, opVars, envVars>>

\* A transient failure of the handler, or an exception of the repository
\* calls that the same try block surrounds ("catch").
HandlerFailsTransiently(l) ==
  /\ Live
  /\ \/ pc[l] = "handling" /\ LoopFree
     \/ pc[l] = "catch"
  /\ fail(job[l])
  /\ Goto(l, "decide")
  /\ UNCHANGED <<priority, created, phase, job, laneBudget, timers, opVars, envVars>>

DecideRetry(l) ==
  /\ pc[l] = "decide"
  /\ IF Exists(job[l]) /\ attempts[job[l]] >= MAX_ATTEMPTS
       THEN /\ transition(job[l], "poison")
            /\ UNCHANGED timers
       ELSE /\ timers' = [timers EXCEPT ![job[l]] = @ + 1]
            /\ UNCHANGED state
  /\ Release(l)
  /\ UNCHANGED <<attempts, priority, created, phase, laneBudget, opVars, envVars>>

RetryTimerFires(j) ==
  /\ Live /\ LoopFree
  /\ timers[j] > 0
  /\ timers' = [timers EXCEPT ![j] = @ - 1]
  /\ transition(j, "pending")
  /\ UNCHANGED <<attempts, priority, created, phase, pc, job, laneBudget, opVars, envVars>>

\* A repository call throws (SQLITE_BUSY past its timeout, disk full).
\* Inside the try block, complete() before its commit or recordHandlerRun()
\* after it, the exception reaches the handler's own catch clause.
CaughtFault(l) ==
  /\ faults < MaxFaults
  /\ Live
  /\ \/ pc[l] = "handling" /\ LoopFree
     \/ pc[l] = "record"
  /\ Goto(l, "catch")
  /\ faults' = faults + 1
  /\ UNCHANGED <<rowVars, phase, job, laneBudget, timers, opVars, clock, restarts>>

\* Anywhere else it leaves the tick through onUncaught: the lane goes back to
\* polling and the row stays as the last statement left it.
onUncaught(l) ==
  /\ faults < MaxFaults
  /\ Live
  /\ \/ pc[l] \in MidTick \ {"record"}
     \/ pc[l] = "handling" /\ LoopFree
  /\ Release(l)
  /\ faults' = faults + 1
  /\ UNCHANGED <<rowVars, phase, laneBudget, timers, opVars, clock, restarts>>

SetLaneBudget(n) ==
  /\ phase = "up"
  /\ n # laneBudget
  /\ laneBudget' = n
  /\ UNCHANGED <<rowVars, phase, pc, job, timers, opVars, envVars>>

-------------------------------------------------------------------------------
(* Boot, retention and the end of the process.                             *)

Start ==
  /\ phase = "down"
  /\ phase' = "poisonRunning"
  /\ UNCHANGED <<rowVars, pc, job, laneBudget, timers, opVars, envVars>>

\* recoverOrphans, one step per UPDATE.
RecoverConsolidate ==
  /\ phase = "poisonRunning"
  /\ MoveAll({j \in Jobs : state[j] = "running" /\ Kind[j] = "consolidate"}, "poison")
  /\ phase' = "requeueRunning"
  /\ UNCHANGED <<attempts, priority, created, pc, job, laneBudget, timers, opVars, envVars>>

RecoverRunning ==
  /\ phase = "requeueRunning"
  /\ MoveAll({j \in Jobs : state[j] = "running" /\ Kind[j] # "consolidate"}, "pending")
  /\ phase' = "requeueFailed"
  /\ UNCHANGED <<attempts, priority, created, pc, job, laneBudget, timers, opVars, envVars>>

\* Mutant: off by one, the last retry is not recovered.
RecoverFailed_TooFew ==
  /\ phase = "requeueFailed"
  /\ MoveAll({j \in Jobs : state[j] = "failed" /\ attempts[j] < MAX_ATTEMPTS - 1}, "pending")
  /\ phase' = "purge"
  /\ UNCHANGED <<attempts, priority, created, pc, job, laneBudget, timers, opVars, envVars>>

\* Mutant: off by one, an exhausted job is recovered.
RecoverFailed_TooMany ==
  /\ phase = "requeueFailed"
  /\ MoveAll({j \in Jobs : state[j] = "failed" /\ attempts[j] <= MAX_ATTEMPTS}, "pending")
  /\ phase' = "purge"
  /\ UNCHANGED <<attempts, priority, created, pc, job, laneBudget, timers, opVars, envVars>>

\* Mutant: the UPDATE forgets its filter on the state.
RecoverFailed_AnyState ==
  /\ phase = "requeueFailed"
  /\ MoveAll({j \in Jobs : Exists(j) /\ attempts[j] < MAX_ATTEMPTS}, "pending")
  /\ phase' = "purge"
  /\ UNCHANGED <<attempts, priority, created, pc, job, laneBudget, timers, opVars, envVars>>

RecoverFailed ==
  /\ phase = "requeueFailed"
  /\ MoveAll({j \in Jobs : state[j] = "failed" /\ attempts[j] < MAX_ATTEMPTS}, "pending")
  /\ phase' = "purge"
  /\ UNCHANGED <<attempts, priority, created, pc, job, laneBudget, timers, opVars, envVars>>

\* Mutant: every row that is not waiting or running is taken for terminal.
Purgeable_TooWide == {j \in Jobs : state[j] \in {"completed", "poison", "failed", "paused"}}

\* purgeOld deletes the terminal rows past their retention; which ones are
\* that old is left open.
Purgeable == {j \in Jobs : state[j] \in {"completed", "poison"}}

BootPurge ==
  /\ phase = "purge"
  /\ \E old \in SUBSET Purgeable : Delete(old)
  /\ phase' = "up"
  /\ laneBudget' = 1
  /\ UNCHANGED <<priority, created, pc, job, timers, opVars, envVars>>

\* The cleanup handler runs the same purge.
CleanupPurge(l) ==
  /\ Live /\ LoopFree
  /\ pc[l] = "handling"
  /\ Kind[job[l]] = "cleanup"
  /\ \E old \in SUBSET Purgeable \ {{}} : Delete(old)
  /\ UNCHANGED <<priority, created, daemonVars, opVars, envVars>>

\* Everything the process holds in memory is lost.
ProcessEnds ==
  /\ phase' = "down"
  /\ pc' = [l \in Lanes |-> "idle"]
  /\ job' = [l \in Lanes |-> NoJob]
  /\ timers' = [j \in Jobs |-> 0]
  /\ UNCHANGED <<rowVars, laneBudget, opVars, clock, faults>>

Crash ==
  /\ phase # "down"
  /\ restarts < MaxRestarts
  /\ restarts' = restarts + 1
  /\ ProcessEnds

\* SIGTERM: worker.stop() lets no lane claim again and awaits the running
\* ticks; the retry timers are not cancelled and may still fire.
Stop ==
  /\ phase = "up" /\ LoopFree
  /\ restarts < MaxRestarts
  /\ restarts' = restarts + 1
  /\ phase' = "draining"
  /\ UNCHANGED <<rowVars, pc, job, laneBudget, timers, opVars, clock, faults>>

Exit ==
  /\ phase = "draining"
  /\ \A l \in Lanes : pc[l] = "idle"
  /\ ProcessEnds
  /\ UNCHANGED restarts

-------------------------------------------------------------------------------
(* Operator commands.                                                      *)

\* queue requeue --poison [--kind] [--limit]: list, then one UPDATE per row.
ListForRequeue(o) ==
  /\ command[o] = "none"
  /\ \E some \in SUBSET {j \in Poisoned : attempts[j] < MaxRequeued} \ {{}} :
       batch' = [batch EXCEPT ![o] = some]
  /\ command' = [command EXCEPT ![o] = "requeue"]
  /\ UNCHANGED <<rowVars, daemonVars, envVars>>

requeueForRetry(o) ==
  /\ command[o] = "requeue"
  /\ \E j \in batch[o] :
       /\ transition(j, "pending")
       /\ batch' = [batch EXCEPT ![o] = @ \ {j}]
       /\ command' = [command EXCEPT ![o] = IF batch[o] = {j} THEN "none" ELSE @]
  /\ UNCHANGED <<attempts, priority, created, daemonVars, envVars>>

\* queue purge --poison: list every poison row, write the dump, delete the
\* listed rows that are still poison.
ListForPurge(o) ==
  /\ command[o] = "none"
  /\ Poisoned # {}
  /\ batch' = [batch EXCEPT ![o] = Poisoned]
  /\ command' = [command EXCEPT ![o] = "purge"]
  /\ UNCHANGED <<rowVars, daemonVars, envVars>>

purgePoisonByIds(o) ==
  /\ command[o] = "purge"
  /\ Delete(Poisoned \cap batch[o])
  /\ command' = [command EXCEPT ![o] = "none"]
  /\ batch' = [batch EXCEPT ![o] = {}]
  /\ UNCHANGED <<priority, created, daemonVars, envVars>>

\* budget --reset, as far as the table goes.
requeuePaused(o) ==
  /\ command[o] = "none"
  /\ \E j \in Jobs : state[j] = "paused"
  /\ MoveAll({j \in Jobs : state[j] = "paused"}, "pending")
  /\ UNCHANGED <<attempts, priority, created, daemonVars, opVars, envVars>>

Tick ==
  /\ clock < MaxClock
  /\ clock' = clock + 1
  /\ UNCHANGED <<rowVars, daemonVars, opVars, restarts, faults>>

-------------------------------------------------------------------------------
HandlerReturns(l) ==
  \/ HandlerResolves(l)
  \/ HandlerPauses(l)
  \/ HandlerFailsForGood(l)
  \/ HandlerFailsTransiently(l)

TickGoesOn(l) ==
  \/ RejectBroken(l)
  \/ RetryNow(l)
  \/ RecordRun(l)
  \/ markPoison(l)
  \/ DecideRetry(l)

LaneStep(l) ==
  \/ Claim(l)
  \/ HandlerReturns(l)
  \/ TickGoesOn(l)
  \/ CaughtFault(l)
  \/ onUncaught(l)
  \/ CleanupPurge(l)

BootStep ==
  \/ Start
  \/ RecoverConsolidate
  \/ RecoverRunning
  \/ RecoverFailed
  \/ BootPurge

OperatorStep(o) ==
  \/ ListForRequeue(o)
  \/ requeueForRetry(o)
  \/ ListForPurge(o)
  \/ purgePoisonByIds(o)
  \/ requeuePaused(o)

Next ==
  \/ \E j \in Jobs : enqueue(j) \/ IngestInsert(j) \/ RetryTimerFires(j)
  \/ \E l \in Lanes : LaneStep(l)
  \/ \E n \in 1 .. NumLanes : SetLaneBudget(n)
  \/ \E o \in Operators : OperatorStep(o)
  \/ BootStep
  \/ Crash
  \/ Stop
  \/ Exit
  \/ Tick

Spec == Init /\ [][Next]_vars

\* What the daemon's scheduling gives: the service manager starts it again,
\* boot runs to its end, a lane keeps polling (the event loop runs every timer
\* that is due, so a lane that can claim again and again does claim), handlers
\* return (every provider call has a timeout) and retry timers fire.  Only lane
\* 0 is always inside the governor's budget.
Fairness ==
  /\ WF_vars(BootStep)
  /\ WF_vars(Exit)
  /\ SF_vars(Claim(RESERVED_LOCAL_LANE_ID))
  /\ \A l \in Lanes : SF_vars(HandlerReturns(l)) /\ WF_vars(TickGoesOn(l))
  /\ \A j \in Jobs : SF_vars(RetryTimerFires(j))

FairSpec == Spec /\ Fairness

-------------------------------------------------------------------------------
(* Properties.                                                             *)

\* A job is never executed by two lanes at once, through retries, timers,
\* crashes and requeues (worker.ts: "no job can be claimed by two lanes").
NoDoubleExecution ==
  \A l, m \in Lanes : l # m /\ pc[l] # "idle" /\ pc[m] # "idle" => job[l] # job[m]

\* As long as no repository call has thrown, a daemon between two ticks has
\* forgotten no job: every running row is held by a lane, and every failed row
\* below the limit has exactly one retry timer armed.
NothingForgotten ==
  phase = "up" /\ LoopFree /\ faults = 0 =>
    \A j \in Jobs :
      /\ state[j] = "running" => \E l \in Lanes : pc[l] = "handling" /\ job[l] = j
      /\ state[j] = "failed" /\ attempts[j] < MAX_ATTEMPTS => timers[j] = 1

\* An armed retry timer only ever finds its own failed job: requeueForRetry is
\* unguarded, so a timer outliving that state would resurrect a finished job.
TimersFindFailedJobs ==
  \A j \in Jobs : timers[j] > 0 => state[j] = "failed" /\ timers[j] = 1

\* Once a job has used up its attempts, only an operator's requeue, or the
\* recovery or unpausing of a run that requeue granted, makes it pending again.
RetryLimit ==
  [][\A j \in Jobs :
       attempts[j] >= MAX_ATTEMPTS /\ state[j] # "pending" /\ state'[j] = "pending"
         => \/ state[j] \in {"running", "paused"}
            \/ state[j] = "poison" /\ \E o \in Operators : requeueForRetry(o)]_vars

\* A completed job is only ever deleted, never run again, while no repository
\* call throws.
CompletedIsFinal ==
  [][faults = 0 => \A j \in Jobs : state[j] = "completed" => state'[j] \in {"completed", "gone"}]_vars

\* Aging: however many higher-tier jobs keep arriving, none that arrives four
\* aging steps (the distance between the extreme tiers) after a waiting job is
\* claimed before it; only a local-only job on the reserved lane may be.
OvertakingBounded ==
  [][\A i, j \in Jobs :
       /\ state[j] = "pending" /\ state'[j] = "running"
       /\ state[i] = "pending" /\ state'[i] = "pending"
       /\ created[i] + 4 * AgingStep <= created[j]
       => Kind[j] \in LOCAL_SQLITE_KINDS]_vars

\* A pending job settles: it completes, is poisoned, is parked until the
\* operator resets the budget, or is left failed past its attempts by a crash
\* before the poisoning statement.  (Time stands still beyond MaxClock, so an
\* operator who resets the budget for ever could keep one job overtaking.)
Settled(j) ==
  \/ state[j] \in {"completed", "poison", "paused", "gone"}
  \/ state[j] = "failed" /\ attempts[j] >= MAX_ATTEMPTS

PendingSettles ==
  \/ \A j \in Jobs : state[j] = "pending" ~> Settled(j)
  \/ []<><<\E o \in Operators : requeuePaused(o)>>_vars

(* The inductive invariant behind NoDoubleExecution, part by part.          *)

\* Only a live process has working lanes, and an idle lane holds nothing.
LanesOfLiveProcess ==
  \A l \in Lanes : IF pc[l] = "idle" THEN job[l] = NoJob ELSE job[l] \in Jobs /\ Live

\* The row a lane works on is in the state the lane's last statement left.
RowFollowsLane ==
  \A l \in Lanes :
    /\ pc[l] \in {"handling", "reject"} => state[job[l]] = "running"
    /\ pc[l] \in {"poison", "decide", "retryNow"} => state[job[l]] = "failed"
    /\ pc[l] = "record" => state[job[l]] = "completed"
    /\ pc[l] = "catch" => state[job[l]] \in {"running", "completed"}

\* A job waiting for its timer is in no lane's hands.
TimersOfIdleJobs ==
  \A j \in Jobs : timers[j] > 0 =>
    /\ state[j] = "failed" /\ timers[j] = 1
    /\ Live
    /\ \A l \in Lanes : job[l] # j

\* What an operator has listed and not yet requeued is still poison, or gone.
ListedRowsAreDead ==
  \A o \in Operators :
    /\ command[o] = "none" => batch[o] = {}
    /\ command[o] = "requeue" => \A j \in batch[o] : state[j] \in {"poison", "gone"}

\* At most one queue command runs at a time.
OneOperator == \A o, p \in Operators : o = p

Exclusion ==
  /\ LanesOfLiveProcess
  /\ RowFollowsLane
  /\ NoDoubleExecution
  /\ TimersOfIdleJobs
  /\ ListedRowsAreDead

\* Only a job with attempts left has a timer armed (the worker's comparison with
\* MAX_ATTEMPTS), however often it was recovered, requeued or unpaused before;
\* and a row starts with no attempts used.
RetriesLeft ==
  \A j \in Jobs :
    /\ timers[j] > 0 => attempts[j] < MAX_ATTEMPTS
    /\ state[j] = "new" => attempts[j] = 0

\* What NothingForgotten rests on.  Boot leaves no running row and no failed row with
\* attempts left to the lanes it starts; from then on each such row is in a lane's hands,
\* or has its timer, as long as no repository call throws.
Tracked ==
  /\ phase = "requeueRunning" => \A j \in Jobs : state[j] = "running" => Kind[j] # "consolidate"
  /\ phase \in {"requeueFailed", "purge"} => \A j \in Jobs : state[j] # "running"
  /\ phase = "purge" => \A j \in Jobs : state[j] = "failed" => attempts[j] >= MAX_ATTEMPTS
  /\ faults = 0 => \A l \in Lanes : pc[l] # "catch"
  /\ Live /\ faults = 0 => \A j \in Jobs :
       /\ state[j] = "running" => \E l \in Lanes : pc[l] \in {"handling", "reject"} /\ job[l] = j
       /\ state[j] = "failed" /\ attempts[j] < MAX_ATTEMPTS /\ timers[j] # 1
            => \E l \in Lanes : pc[l] \in {"decide", "retryNow", "poison"} /\ job[l] = j

-------------------------------------------------------------------------------
(* Refinement: the queue implements the promise of WorkQueue.              *)

StatusOf(s) ==
  CASE s = "new"                   -> "absent"
    [] s = "pending"               -> "waiting"
    [] s = "running"               -> "taken"
    [] s \in {"failed", "paused"}  -> "stopped"
    [] s = "poison"                -> "givenUp"
    [] s = "completed"             -> "done"
    [] s = "gone"                  -> "removed"

WQ == INSTANCE WorkQueue WITH
        Workers <- Lanes,
        Nobody  <- NoJob,
        status  <- [j \in Jobs |-> StatusOf(state[j])],
        works   <- job

\* Every behaviour of the queue, crashes, timers and the operator's commands
\* included, is a behaviour of the abstract work queue.
ImplementsWorkQueue == WQ!Spec
===============================================================================
