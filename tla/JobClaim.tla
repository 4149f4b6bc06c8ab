------------------------------- MODULE JobClaim -------------------------------
(***************************************************************************)
(* The claim order of the job queue: priority tiers per job kind and the   *)
(* aging term of JobRepo.claimPending.  A lower number is claimed first.   *)
(***************************************************************************)
EXTENDS Integers

Kinds ==
  {"distill", "distill-events", "reembed", "transcribe", "consolidate", "cleanup"}

JOB_PRIORITY ==
  [k \in Kinds |->
     CASE k \in {"distill", "distill-events"} -> 1
       [] k \in {"reembed", "transcribe"}     -> 2
       [] k = "consolidate"                   -> 3
       [] k = "cleanup"                       -> 5]

\* The column default of migration 058: the tier of a row whose INSERT names
\* no priority.
DEFAULT_JOB_PRIORITY == 3

\* Kinds that never leave SQLite; lane RESERVED_LOCAL_LANE_ID prefers them.
LOCAL_SQLITE_KINDS == {"cleanup"}

RESERVED_LOCAL_LANE_ID == 0

\* Mutant: the order by stored tier, without aging.
EffectivePriority_NoAging(priority, created, now, agingStep) == priority

\* One full tier less per agingStep of waiting; the stored tier never changes.
EffectivePriority(priority, created, now, agingStep) ==
  priority - ((now - created) \div agingStep)
===============================================================================
