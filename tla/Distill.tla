-------------------------------- MODULE Distill --------------------------------
(***************************************************************************)
(* The distill pipeline (runPipeline): the chunks of a transcript go       *)
(* through the stages that call a language model (compact, extract and the *)
(* optional second extraction), several calls at a time                    *)
(* (mapWithConcurrency), and the atoms they yield are embedded, checked    *)
(* and stored one by one (embedAndIndex).  A run that fails is tried       *)
(* again; the results of the chunks that were answered wait for it in the  *)
(* process (ChunkCheckpointStore).  Memories whose vector could not be     *)
(* written are flagged and embedded again by reembed jobs.                 *)
(*                                                                         *)
(* Jobs are jobs over transcripts with one and the same content (a         *)
(* duplicate capture, or the content distilled again under another         *)
(* profile): the only jobs that share checkpoints.  What the model says    *)
(* about a chunk differs from call to call (Yields).  The queue and the    *)
(* daily budget are JobQueue's and ProviderPause's: here a failed run is   *)
(* queued again until MaxAttempts, and a call may be refused by the        *)
(* budget.                                                                 *)
(***************************************************************************)
EXTENDS Integers, Sequences, FiniteSets, FiniteSetsExt

CONSTANTS
  Jobs, NoJob,
  ProfileOf,     \* ProfileOf[j]: extract_profile of the job's transcript
  Chunks,        \* the chunks by index
  Small,         \* chunks that already fit: not compacted in mode auto
  Atoms, NoAtom, \* atoms by content hash
  Yields,        \* Yields[c]: the sets of atoms a call over chunk c may answer
  Concurrency,   \* distill.chunkConcurrency
  Worlds,        \* what Init chooses from: configurations
  MaxAttempts

Profiles  == {"engineering", "conversational"}
LLMStages == {"compact", "extract", "sweep"}
World     == [mode : {"auto", "always", "never"},  \* distill.compaction
              passes : {1, 2}, sweepBelow : Nat,   \* extractionPasses, sweepOnlyBelowAtoms
              capped : BOOLEAN, maxCalls : Nat,    \* distill.costCap
              gatekeeper : BOOLEAN, gates : BOOLEAN, triage : BOOLEAN,
              yields : BOOLEAN,                    \* more atoms than embedAndIndex takes in one go
              maxEntries : Nat \ {0},              \* of the checkpoint store
              jobs : SUBSET Jobs, chunks : SUBSET Chunks,
              crashes : Nat]                       \* bound: restarts of the process

ASSUME DistillAssumption ==
  /\ NoJob \notin Jobs /\ NoAtom \notin Atoms
  /\ ProfileOf \in [Jobs -> Profiles]
  /\ Chunks \subseteq Nat /\ IsFiniteSet(Chunks) /\ Small \subseteq Chunks
  /\ Yields \in [Chunks -> SUBSET SUBSET Atoms]
  /\ Concurrency \in Nat \ {0} /\ MaxAttempts \in Nat \ {0}
  /\ Worlds \subseteq World

VARIABLES
  world,
  status,    \* jobs.state of the distill jobs
  attempts,
  run,       \* the run of each job
  loop,      \* the job that keeps the event loop to itself, NoJob for none
  cache,     \* chunkCheckpoints, oldest entry first
  stored,    \* memories, by content hash
  vec,       \* memories_vec
  flagged,   \* memories.needs_vec_index
  reembeds,  \* reembed jobs in the queue
  erased,    \* hashes of erase_request events
  crashes,
  paid,      \* history: the answered calls whose result the store has not lost
  raced,     \* history: atoms erased between a run's check and its insert
  orphans    \* history: atoms whose writer stopped between insert and vector

vars == <<world, status, attempts, run, loop, cache, stored, vec, flagged, reembeds, erased,
          crashes, paid, raced, orphans>>
db   == <<stored, vec, flagged, reembeds, erased, orphans, raced>>

NoResult == [by |-> "none", atoms |-> {}]
Result   == [by : Profiles \cup {"raw", "capped"}, atoms : SUBSET Atoms]  \* by: for which profile
Run      == [stage : LLMStages \cup {"idle", "embed", "triage", "insert", "vec"},
             kept : SUBSET Chunks, todo : SUBSET Chunks, flying : SUBSET Chunks,
             res : [LLMStages -> [Chunks -> Result \cup {NoResult}]],
             stopped : {"no", "budget", "error"}, calls : Nat,
             gated : SUBSET Atoms, left : SUBSET Atoms, at : Atoms \cup {NoAtom}]
Idle     == [stage |-> "idle", kept |-> {}, todo |-> {}, flying |-> {},
             res |-> [s \in LLMStages |-> [c \in Chunks |-> NoResult]],
             stopped |-> "no", calls |-> 0, gated |-> {}, left |-> {}, at |-> NoAtom]

Free == loop = NoJob

\* Mutant: the profile is not part of the key.
Variant_NoProfile(j, s) == IF s = "sweep" THEN "specifics-sweeper" ELSE ""

\* The key of ChunkCheckpointStore, without the content all Jobs share.
Variant(j, s) ==
  CASE s = "compact" -> ""
    [] s = "extract" -> ProfileOf[j]
    [] s = "sweep"   -> "specifics-sweeper"
Key(j, s, c) == <<s, Variant(j, s), c>>
Keys(store)  == {store[i].key : i \in DOMAIN store}
Get(k)       == cache[CHOOSE i \in DOMAIN cache : cache[i].key = k].val

\* Mutant: nothing is evicted.
Put_NoEviction(k, v) == Append(SelectSeq(cache, LAMBDA x : x.key # k), [key |-> k, val |-> v])

Put(k, v) ==
  IF k \in Keys(cache)
  THEN [i \in DOMAIN cache |-> IF cache[i].key = k THEN [key |-> k, val |-> v] ELSE cache[i]]
  ELSE Append(IF Len(cache) >= world.maxEntries THEN Tail(cache) ELSE cache, [key |-> k, val |-> v])

\* The checkpoints become store: what was paid for an entry that goes is gone.
Checkpoint(store, new) ==
  /\ cache' = store
  /\ paid' = {p \in paid \cup new : Key(p[1], p[2], p[3]) \notin Keys(cache) \ Keys(store)}

shouldCompact(j) ==
  \/ world.mode = "always"
  \/ world.mode = "auto" /\ ProfileOf[j] # "conversational"
Compacts(j, c) == shouldCompact(j) /\ (world.mode = "always" \/ c \notin Small)

\* Mutant: the last call allowed is not the last.
shouldStop_Late(r) == world.capped /\ r.calls > world.maxCalls

\* DistillCostCapTracker
shouldStop(r) == world.capped /\ r.calls >= world.maxCalls
recordCall(r) == IF world.capped THEN [r EXCEPT !.calls = @ + 1] ELSE r

\* A stage starts over chunks: the ones with a checkpoint are not asked again.
Stage(j, r, s, chunks) ==
  LET hits == {c \in chunks : Key(j, s, c) \in Keys(cache)} IN
  [r EXCEPT !.stage = s, !.todo = chunks \ hits,
            !.res[s] = [c \in Chunks |-> IF c \in hits THEN Get(Key(j, s, c)) ELSE NoResult]]

\* compact() answers at once for a profile or mode that is not compacted.
Compact(j, r) ==
  IF shouldCompact(j) THEN Stage(j, r, "compact", r.kept)
  ELSE [r EXCEPT !.stage = "compact",
                 !.res["compact"] = [c \in Chunks |-> IF c \in r.kept THEN [by |-> "raw", atoms |-> {}]
                                                                      ELSE NoResult]]

\* A lane claims the job; the gatekeeper may drop chunks.
RunStart(j) ==
  /\ Free /\ status[j] = "queued"
  /\ \E kept \in IF world.gatekeeper THEN SUBSET world.chunks ELSE {world.chunks} :
       run' = [run EXCEPT ![j] = Compact(j, [Idle EXCEPT !.kept = kept])]
  /\ status' = [status EXCEPT ![j] = "running"]
  /\ UNCHANGED <<world, attempts, loop, cache, crashes, paid>> /\ UNCHANGED db

----------------------------------------------------------------------------
(* Stages that call a model                                               *)

\* Mutant: the workers stop but the error is not thrown.
Stop_Swallows(r, why) == [r EXCEPT !.todo = {}]

\* A call threw; workers take nothing more, and the first error is the one that counts.
Stop(r, why) == [r EXCEPT !.stopped = IF @ = "no" THEN why ELSE @]

\* Mutant: what arrives after an error is not kept.
Keep_UntilError(j, r, c, v, new) ==
  /\ run' = [run EXCEPT ![j] = [r EXCEPT !.res[r.stage][c] = v]]
  /\ Checkpoint(IF r.stopped = "no" THEN Put(Key(j, r.stage, c), v) ELSE cache, new)

\* A chunk has its result: it is checkpointed, and is the caller's.
Keep(j, r, c, v, new) ==
  /\ run' = [run EXCEPT ![j] = [r EXCEPT !.res[r.stage][c] = v]]
  /\ Checkpoint(Put(Key(j, r.stage, c), v), new)

\* A worker of mapWithConcurrency takes the next chunk.
Take(j) ==
  LET r    == run[j]
      c    == Min(r.todo)
      next == [r EXCEPT !.todo = @ \ {c}]
  IN
  /\ Free /\ r.stage \in LLMStages /\ r.stopped = "no"
  /\ r.todo # {} /\ Cardinality(r.flying) < Concurrency
  /\ \/ r.stage = "compact" /\ ~Compacts(j, c) /\ Keep(j, next, c, [by |-> "raw", atoms |-> {}], {})
     \/ /\ r.stage = "compact" => Compacts(j, c)
        /\ \/ shouldStop(r) /\ Keep(j, next, c, [by |-> "capped", atoms |-> {}], {})
           \/ /\ ~shouldStop(r)
              /\ \/ run' = [run EXCEPT ![j] = [next EXCEPT !.flying = @ \cup {c}]]
                 \/ run' = [run EXCEPT ![j] = Stop(next, "budget")]  \* assertCanSpend throws
              /\ UNCHANGED <<cache, paid>>
  /\ UNCHANGED <<world, status, attempts, loop, crashes>> /\ UNCHANGED db

\* The provider answers; what extract cannot parse is an error.
Answer(j, c) ==
  LET r    == run[j]
      next == recordCall([r EXCEPT !.flying = @ \ {c}])
  IN
  /\ Free /\ c \in r.flying
  /\ \/ \E atoms \in IF r.stage = "compact" THEN {{}} ELSE Yields[c] :
          Keep(j, next, c, [by |-> ProfileOf[j], atoms |-> atoms], {<<j, r.stage, c>>})
     \/ /\ r.stage # "compact"
        /\ run' = [run EXCEPT ![j] = Stop(next, "error")]
        /\ UNCHANGED <<cache, paid>>
  /\ UNCHANGED <<world, status, attempts, loop, crashes>> /\ UNCHANGED db

\* The call throws: a timeout, a provider that is down.
CallFails(j, c) ==
  LET r == run[j] IN
  /\ Free /\ c \in r.flying
  /\ run' = [run EXCEPT ![j] = Stop([r EXCEPT !.flying = @ \ {c}], "error")]
  /\ UNCHANGED <<world, status, attempts, loop, cache, crashes, paid>> /\ UNCHANGED db

\* Mutant: waits for chunks that no worker will take.
Settled_AllTaken(r) == r.stage \in LLMStages /\ r.flying = {} /\ r.todo = {}

\* Once nothing is in flight the first error is thrown, if there is one.
Settled(r) == r.stage \in LLMStages /\ r.flying = {} /\ (r.todo = {} \/ r.stopped # "no")

\* Without attempts left the job is poison, and at once if its error is deterministic.
Failed(j) == IF attempts[j] + 1 >= MaxAttempts THEN {"poison"} ELSE {"queued", "poison"}
RunFails(j) ==
  /\ run' = [run EXCEPT ![j] = Idle]
  /\ \E s \in Failed(j) : status' = [status EXCEPT ![j] = s]
  /\ attempts' = [attempts EXCEPT ![j] = @ + 1]

\* A job that ran out of budget waits for an operator.
StageFails(j) ==
  /\ Free /\ Settled(run[j]) /\ run[j].stopped # "no"
  /\ \/ run[j].stopped = "error" /\ RunFails(j)
     \/ /\ run[j].stopped = "budget"
        /\ run' = [run EXCEPT ![j] = Idle]
        /\ status' = [status EXCEPT ![j] = "paused"]
        /\ UNCHANGED attempts
  /\ UNCHANGED <<world, loop, cache, crashes, paid>> /\ UNCHANGED db

Resume(j) ==
  /\ status[j] = "paused"
  /\ status' = [status EXCEPT ![j] = "queued"]
  /\ UNCHANGED <<world, attempts, run, loop, cache, crashes, paid>> /\ UNCHANGED db

\* Pass B goes over the chunks in which pass A found little.
SweepChunks(r) ==
  {c \in r.kept : world.sweepBelow = 0 \/ Cardinality(r.res["extract"][c].atoms) < world.sweepBelow}

\* The atoms of both passes, merged and reduced by content hash.
AllAtoms(r) == UNION {r.res[s][c].atoms : s \in {"extract", "sweep"}, c \in r.kept}

StageEnd(j) ==
  LET r == run[j] IN
  /\ Free /\ Settled(r) /\ r.stopped = "no"
  /\ run' = [run EXCEPT ![j] =
       CASE r.stage = "compact" -> Stage(j, r, "extract", r.kept)
         [] r.stage = "extract" /\ world.passes = 2 -> Stage(j, r, "sweep", SweepChunks(r))
         [] OTHER -> [r EXCEPT !.stage = "embed"]]
  /\ UNCHANGED <<world, status, attempts, loop, cache, crashes, paid>> /\ UNCHANGED db

----------------------------------------------------------------------------
(* embedAndIndex                                                          *)

\* Mutant: no replay filter.
NotErased_All(r) == AllAtoms(r)

\* isErasedHash
NotErased(r) == AllAtoms(r) \ erased

\* The batch is embedded; Phase A drops what was erased and what the gates refuse.
\* With no await before Phase C the run keeps the event loop.
PhaseA(j) ==
  LET r     == run[j]
      fresh == NotErased(r)
  IN
  /\ Free /\ r.stage = "embed"
  /\ \E gated \in IF world.gates THEN SUBSET fresh ELSE {{}} :
       LET asks == world.triage /\ fresh # gated IN
       /\ run' = [run EXCEPT ![j] = [r EXCEPT !.stage = IF asks THEN "triage" ELSE "insert",
                                              !.gated = gated, !.left = fresh \ gated]]
       /\ loop' = IF asks \/ world.yields THEN NoJob ELSE j
  /\ UNCHANGED <<world, status, attempts, cache, crashes, paid>> /\ UNCHANGED db

EmbedFails(j) ==
  /\ Free /\ run[j].stage = "embed" /\ AllAtoms(run[j]) # {}
  /\ RunFails(j)
  /\ UNCHANGED <<world, loop, cache, crashes, paid>> /\ UNCHANGED db

\* Phase B: the verdicts of the triage model; one that fails keeps everything.
PhaseB(j) ==
  LET r == run[j] IN
  /\ Free /\ r.stage = "triage"
  /\ \E junk \in SUBSET r.left :
       run' = [run EXCEPT ![j] = [r EXCEPT !.stage = "insert", !.gated = @ \cup junk, !.left = @ \ junk]]
  /\ loop' = IF world.yields THEN NoJob ELSE j
  /\ UNCHANGED <<world, status, attempts, cache, crashes, paid>> /\ UNCHANGED db

MyTurn(j) == loop \in {j, NoJob}

\* Phase C: insertWithCreateEvent, then the atom's entities and relations.
InsertAtom(j) ==
  LET r == run[j] IN
  /\ MyTurn(j) /\ r.stage = "insert"
  /\ \E a \in r.left :
       /\ run' = [run EXCEPT ![j] = [r EXCEPT !.stage = "vec", !.at = a, !.left = @ \ {a}]]
       /\ stored' = stored \cup {a}
  /\ loop' = j
  /\ UNCHANGED <<world, status, attempts, cache, vec, flagged, reembeds, erased, crashes, paid,
                 raced, orphans>>

\* vecStore.upsert, or the flag and a reembed job that may not get into the queue.
VecUpsert(j) ==
  LET r == run[j] IN
  /\ loop = j /\ r.stage = "vec"
  /\ run' = [run EXCEPT ![j] = [r EXCEPT !.stage = "insert", !.at = NoAtom]]
  /\ \/ /\ vec' = vec \cup {r.at}
        /\ orphans' = orphans \ {r.at}
        /\ UNCHANGED <<flagged, reembeds>>
     \/ /\ flagged' = flagged \cup {r.at}
        /\ reembeds' \in {reembeds, reembeds \cup {r.at}}
        /\ UNCHANGED <<vec, orphans>>
  /\ loop' = IF world.yields THEN NoJob ELSE j
  /\ UNCHANGED <<world, status, attempts, cache, stored, erased, crashes, paid, raced>>

\* A write throws: of the memory, or of a relation once the memory is there.
WriteFails(j) ==
  LET r == run[j] IN
  /\ MyTurn(j)
  /\ \/ r.stage = "insert" /\ r.left # {} /\ UNCHANGED orphans
     \/ r.stage = "vec" /\ orphans' = orphans \cup ({r.at} \ (vec \cup flagged))
  /\ RunFails(j)
  /\ loop' = NoJob
  /\ UNCHANGED <<world, cache, stored, vec, flagged, reembeds, erased, crashes, paid, raced>>

\* All atoms are in: the checkpoints of the content go, the job is done.
RunDone(j) ==
  /\ MyTurn(j) /\ run[j].stage = "insert" /\ run[j].left = {}
  /\ run' = [run EXCEPT ![j] = Idle]
  /\ status' = [status EXCEPT ![j] = "done"]
  /\ Checkpoint(<<>>, {})
  /\ loop' = NoJob
  /\ UNCHANGED <<world, attempts, crashes>> /\ UNCHANGED db

----------------------------------------------------------------------------
(* The rest of the daemon                                                 *)

\* A request erases a memory; a reembed job for it will find nothing to do.
Erase(a) ==
  /\ Free /\ a \in stored
  /\ stored' = stored \ {a}
  /\ vec' = vec \ {a}
  /\ flagged' = flagged \ {a}
  /\ reembeds' = reembeds \ {a}
  /\ orphans' = orphans \ {a}
  /\ erased' = erased \cup {a}
  /\ raced' = raced \cup ({a} \cap UNION {run[j].left : j \in Jobs})
  /\ UNCHANGED <<world, status, attempts, run, loop, cache, crashes, paid>>

\* A reembed job ends: with the vector, or as poison.
Reembed(a) ==
  /\ Free /\ a \in reembeds
  /\ reembeds' = reembeds \ {a}
  /\ vec' = vec \cup {a}
  /\ flagged' = flagged \ {a}
  /\ orphans' = orphans \ {a}
  /\ UNCHANGED <<world, status, attempts, run, loop, cache, stored, erased, crashes, paid, raced>>
ReembedPoisoned(a) ==
  /\ Free /\ a \in reembeds
  /\ reembeds' = reembeds \ {a}
  /\ UNCHANGED <<world, status, attempts, run, loop, cache, stored, vec, flagged, erased, crashes,
                 paid, raced, orphans>>

\* Mutant: the flag is not looked at.
Needing_None == {}

\* listNeedingVecIndex
Needing == flagged

\* The cleanup job queues a reembed job for every memory that is flagged.
CleanupSweep ==
  /\ Free
  /\ reembeds' = reembeds \cup Needing
  /\ UNCHANGED <<world, status, attempts, run, loop, cache, stored, vec, flagged, erased, crashes,
                 paid, raced, orphans>>

\* The process restarts: runs and checkpoints are gone, running jobs are queued again.
Crash ==
  /\ crashes < world.crashes
  /\ crashes' = crashes + 1
  /\ status' = [j \in Jobs |-> IF status[j] = "running" THEN "queued" ELSE status[j]]
  /\ run' = [j \in Jobs |-> Idle]
  /\ loop' = NoJob
  /\ cache' = <<>> /\ paid' = {}
  /\ orphans' = orphans \cup ({run[j].at : j \in {k \in Jobs : run[k].stage = "vec"}} \ (vec \cup flagged))
  /\ UNCHANGED <<world, attempts, stored, vec, flagged, reembeds, erased, raced>>

Init ==
  /\ world \in Worlds
  /\ status = [j \in Jobs |-> IF j \in world.jobs THEN "queued" ELSE "done"]
  /\ attempts = [j \in Jobs |-> 0]
  /\ run = [j \in Jobs |-> Idle]
  /\ loop = NoJob /\ cache = <<>>
  /\ stored = {} /\ vec = {} /\ flagged = {} /\ reembeds = {} /\ erased = {}
  /\ crashes = 0 /\ paid = {} /\ raced = {} /\ orphans = {}

Calls(j) == \E c \in Chunks : Answer(j, c) \/ CallFails(j, c)
Step(j) ==
  \/ RunStart(j) \/ Take(j) \/ Calls(j) \/ StageFails(j) \/ StageEnd(j)
  \/ PhaseA(j) \/ EmbedFails(j) \/ PhaseB(j) \/ InsertAtom(j) \/ VecUpsert(j) \/ WriteFails(j)
  \/ RunDone(j)

Next ==
  \/ \E j \in Jobs : Step(j) \/ Resume(j)
  \/ \E a \in Atoms : Erase(a) \/ Reembed(a) \/ ReembedPoisoned(a)
  \/ CleanupSweep \/ Crash

\* A lane takes the job and runs it, a call is answered or times out, cleanup runs every
\* day, and a reembed job that is tried again and again meets a provider that works.
Fairness ==
  /\ \A j \in Jobs : SF_vars(Step(j))
  /\ WF_vars(CleanupSweep)
  /\ \A a \in Atoms : SF_vars(Reembed(a))

Spec == Init /\ [][Next]_vars /\ Fairness

----------------------------------------------------------------------------
(* Properties                                                             *)

\* The types of the rows, runs and indexes; a run is under way exactly while its row says
\* so; the checkpoint store keeps one entry per key and never outgrows maxEntries.
TypeOK ==
  /\ world \in Worlds
  /\ status \in [Jobs -> {"queued", "running", "paused", "poison", "done"}]
  /\ attempts \in [Jobs -> 0 .. MaxAttempts]
  /\ run \in [Jobs -> Run]
  /\ \A j \in Jobs : (run[j].stage = "idle") = (status[j] # "running")
  /\ loop \in Jobs \cup {NoJob}
  /\ Len(cache) <= world.maxEntries
  /\ \A i \in DOMAIN cache : cache[i].val \in Result
  /\ \A i, k \in DOMAIN cache : cache[i].key = cache[k].key => i = k
  /\ vec \cup flagged \cup reembeds \subseteq stored /\ stored \cup erased \subseteq Atoms
  /\ crashes \in 0 .. world.crashes

\* ChunkCheckpointStore.key: compaction and extraction use only what was made for the run's
\* own profile; what a job over the same content left behind under the other profile is never
\* taken for its own.  The second extraction is not part of it: its key has no profile, and a
\* run does take over what the other profile's run made of its own chunks.
OwnProfile ==
  \A j \in Jobs, c \in Chunks :
    /\ run[j].res["compact"][c].by \in {"none", "raw", "capped", ProfileOf[j]}
    /\ run[j].res["extract"][c].by \in {"none", "capped", ProfileOf[j]}

\* A retry asks the model nothing that an earlier attempt already paid for: a chunk whose
\* call was answered, even after a sibling's error, is asked again only once the store has
\* lost it (full, cleared by a job over the same content, or restarted).
RetryKeepsPaidWork ==
  [][\A j \in Jobs : \A c \in run'[j].flying \ run[j].flying : <<j, run[j].stage, c>> \notin paid]_vars

\* maxCallsPerJob is passed by at most the calls that were in flight when it was reached.
CallsBounded ==
  \A j \in Jobs :
    world.capped => run[j].calls + Cardinality(run[j].flying) <= world.maxCalls + Concurrency - 1

\* A job is done only when every chunk the gatekeeper kept has been through every stage, and
\* every atom found is stored, was erased, or was refused by a gate.
DoneMeansWhole ==
  [][\A j \in Jobs : status[j] = "running" /\ status'[j] = "done" =>
       /\ \A c \in run[j].kept : \A s \in {"compact", "extract"} : run[j].res[s][c] # NoResult
       /\ world.passes = 2 => \A c \in SweepChunks(run[j]) : run[j].res["sweep"][c] # NoResult
       /\ AllAtoms(run[j]) \subseteq stored \cup erased \cup run[j].gated]_vars

\* What was erased is not distilled back, unless the erase came between a run's replay check
\* and its insert.
ErasedUnlessRaced == stored \cap erased \subseteq raced

\* What was erased is never distilled back.
ErasedStaysErased == stored \cap erased = {}

\* A job that is queued is done, paused or poisoned in the end.
JobsSettle == \A j \in Jobs : status[j] = "queued" ~> status[j] \in {"done", "paused", "poison"}

\* A memory gets its vector in the end, by its run, a reembed job or the cleanup sweep,
\* unless its run died between the insert and the vector.
SearchableInTheEnd ==
  \A a \in Atoms : a \in stored ~> a \in vec \/ a \notin stored \/ a \in orphans

----------------------------------------------------------------------------
(* Behind these properties: the inductive invariant.                      *)

Scope(r, s)    == IF s = "sweep" THEN SweepChunks(r) ELSE r.kept
Answered(r, s) == \A c \in Scope(r, s) : r.res[s][c] # NoResult

\* A run goes through its stages in order: no chunk of the stage it is in is forgotten, and
\* those it has left are answered for.  A chunk is either to be taken or in flight.
RunSound(j, r) ==
  /\ r \in Run
  /\ world.capped => r.calls + Cardinality(r.flying) <= world.maxCalls + Concurrency - 1
  /\ r.todo \cup r.flying \subseteq r.kept /\ r.todo \cap r.flying = {}
  /\ r.todo \cup r.flying # {} => r.stage \in LLMStages
  /\ r.todo \cup r.flying # {} /\ r.stage = "compact" => shouldCompact(j)
  /\ r.stage \in LLMStages /\ r.stopped = "no" =>
       \A c \in Scope(r, r.stage) : c \in r.todo \cup r.flying \/ r.res[r.stage][c] # NoResult
  /\ r.stage \notin {"idle", "compact"} => Answered(r, "compact")
  /\ r.stage \notin {"idle", "compact", "extract"} => Answered(r, "extract")
  /\ r.stage \notin LLMStages \cup {"idle"} /\ world.passes = 2 => Answered(r, "sweep")

\* What a run still has to ask is not paid for; what it has yet to insert was not erased
\* before its check; an atom between its insert and its vector is stored.
RunInStep(j, r) ==
  /\ \A c \in r.todo : <<j, r.stage, c>> \notin paid
  /\ r.left \cap erased \subseteq raced
  /\ r.stage \in {"triage", "insert", "vec"} =>
       AllAtoms(r) \subseteq r.left \cup r.gated \cup erased \cup stored
  /\ r.stage = "vec" => loop = j /\ r.at \in stored

Entry == [key : LLMStages \X ({"", "specifics-sweeper"} \cup Profiles) \X Chunks, val : Result]

\* What is paid for is in the checkpoint store.
StoreSound ==
  /\ cache \in Seq(Entry)
  /\ paid \subseteq Jobs \X LLMStages \X Chunks
  /\ \A p \in paid : Key(p[1], p[2], p[3]) \in Keys(cache)

DistillInv ==
  /\ TypeOK /\ StoreSound /\ ErasedUnlessRaced
  /\ \A j \in Jobs : status[j] \in {"queued", "running", "paused"} => attempts[j] < MaxAttempts
  /\ \A j \in Jobs : RunSound(j, run[j]) /\ RunInStep(j, run[j])

\* Unless conversations are compacted too (mode always) the checkpoints of the compact stage,
\* whose key has no profile, are made for engineering jobs only.
MadeFor(k, by) ==
  /\ k[1] = "compact" => by \in {"raw", "capped", "engineering"}
  /\ k[1] = "extract" => by \in {"capped", k[2]}
StoreAuthored == \A i \in DOMAIN cache : MadeFor(cache[i].key, cache[i].val.by)
================================================================================
