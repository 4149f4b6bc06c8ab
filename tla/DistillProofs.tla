----------------------------- MODULE DistillProofs -----------------------------
(***************************************************************************)
(* Machine-checked proofs about Distill, for any jobs, chunks, atoms,      *)
(* concurrency, attempts and configurations.                               *)
(*                                                                         *)
(* The inductive invariant is DistillInv: each run goes through its stages *)
(* soundly by itself (RunSound), and keeps in step with the checkpoint     *)
(* store and the memories that others change meanwhile (RunInStep).        *)
(* OwnProfile needs one of its own beside it (OwnInv).                     *)
(***************************************************************************)
EXTENDS Distill, WellFoundedInduction, FiniteSetTheorems, TLAPS

----------------------------------------------------------------------------
(* Helpers.                                                               *)

\* The next chunk is one of those that are left: the smallest set of chunks up to one of
\* them is the one of the first.
LEMMA MinOfSet ==
  ASSUME NEW S \in SUBSET Nat, IsFiniteSet(S), S # {} PROVE Min(S) \in S
  <1> DEFINE below(c) == {d \in S : d <= c}
             T        == {below(c) : c \in S}
             R        == StrictSubsetOrdering(S)
  <1>1. T \subseteq SUBSET S /\ T # {}
    OBVIOUS
  <1>2. IsWellFoundedOn(R, SUBSET S)
    BY FS_StrictSubsetOrderingWellFounded, FS_FiniteSubsetsOfFinite
  <1>3. PICK m \in S : \A c \in S : <<below(c), below(m)>> \notin R
    <2> HIDE DEF R
    <2>1. \E x \in T : \A y \in T : <<y, x>> \notin R
      <3> HIDE DEF T
      <3> QED
        BY <1>1, <1>2, WFMin
    <2> QED
      BY <2>1
  <1>4. \A c \in S : m <= c
    <2> SUFFICES ASSUME NEW c \in S, c < m PROVE FALSE
      OBVIOUS
    <2>0. \A d \in S : d \in Nat
      OBVIOUS
    <2>a. (\A d \in S : d <= c => d <= m) /\ m <= m /\ ~ (m <= c)
      BY <2>0
    <2>1. below(c) \subseteq below(m) /\ m \in below(m) /\ m \notin below(c)
      BY <2>a
    <2>2. <<below(c), below(m)>> \in R
      BY <2>1 DEF StrictSubsetOrdering
    <2> QED
      BY <1>3, <2>2
  <1> QED
    BY <1>4 DEF Min

\* A configuration.
LEMMA WorldType ==
  ASSUME world \in Worlds
  PROVE  /\ world.maxEntries \in Nat \ {0} /\ world.chunks \in SUBSET Chunks
         /\ world.maxCalls \in Nat /\ world.passes \in {1, 2} /\ world.capped \in BOOLEAN
         /\ world.jobs \in SUBSET Jobs /\ world.crashes \in Nat
         /\ world.mode \in {"auto", "always", "never"}
  BY DistillAssumption DEF World

\* Sets of chunks are finite.
LEMMA ChunksFinite ==
  ASSUME NEW S \in SUBSET Chunks PROVE IsFiniteSet(S) /\ Cardinality(S) \in Nat
  BY DistillAssumption, FS_Subset, FS_CardinalityType

\* The keys of checkpoints.
LEMMA KeyType ==
  ASSUME NEW j \in Jobs, NEW s \in LLMStages, NEW c \in Chunks
  PROVE  Key(j, s, c) \in LLMStages \X ({"", "specifics-sweeper"} \cup Profiles) \X Chunks
  <1>1. Variant(j, s) \in {"", "specifics-sweeper"} \cup Profiles
    BY DistillAssumption DEF Variant, LLMStages
  <1> QED
    BY <1>1 DEF Key

KeySet == LLMStages \X ({"", "specifics-sweeper"} \cup Profiles) \X Chunks

\* The checkpoint store: one entry per key, never more than maxEntries of them.
Store(s) ==
  /\ s \in Seq(Entry) /\ Len(s) <= world.maxEntries
  /\ \A i, k \in DOMAIN s : s[i].key = s[k].key => i = k

\* A result that is put into the store is in it, and the others are the ones it had.
LEMMA PutStore ==
  ASSUME world.maxEntries \in Nat \ {0}, Store(cache), NEW k \in KeySet, NEW v \in Result
  PROVE  /\ Store(Put(k, v)) /\ k \in Keys(Put(k, v))
         /\ \A i \in DOMAIN Put(k, v) :
              \/ Put(k, v)[i] = [key |-> k, val |-> v]
              \/ \E m \in DOMAIN cache : Put(k, v)[i] = cache[m]
  <1> DEFINE e == [key |-> k, val |-> v]
  <1>1. e \in Entry /\ e.key = k
    BY DEF Entry, KeySet
  <1>2. /\ cache \in Seq(Entry) /\ Len(cache) \in Nat /\ DOMAIN cache = 1 .. Len(cache)
        /\ \A i \in 1 .. Len(cache) : cache[i] \in Entry
    BY DEF Store
  <1> HIDE DEF e
  <1>3. CASE k \in Keys(cache)
    <2>1. Put(k, v) = [i \in 1 .. Len(cache) |-> IF cache[i].key = k THEN e ELSE cache[i]]
      BY <1>2, <1>3 DEF Put, e
    <2>2. Put(k, v) \in Seq(Entry) /\ Len(Put(k, v)) = Len(cache)
      BY <1>1, <1>2, <2>1
    <2>3. \A i \in 1 .. Len(cache) : Put(k, v)[i].key = cache[i].key
      BY <1>1, <2>1
    <2>4. PICK i \in 1 .. Len(cache) : cache[i].key = k
      BY <1>2, <1>3 DEF Keys
    <2>5. k \in Keys(Put(k, v))
      BY <2>1, <2>2, <2>3, <2>4 DEF Keys
    <2>6. Store(Put(k, v))
      BY <1>2, <2>2, <2>3 DEF Store
    <2> QED
      BY <2>1, <2>5, <2>6, <1>2 DEF e
  <1>4. CASE k \notin Keys(cache)
    <2> DEFINE t == IF Len(cache) >= world.maxEntries THEN Tail(cache) ELSE cache
    <2>1. Put(k, v) = Append(t, e)
      BY <1>4 DEF Put, e
    <2>2. /\ t \in Seq(Entry) /\ Len(t) + 1 <= world.maxEntries
          /\ \A i \in 1 .. Len(t) : \E m \in 1 .. Len(cache) :
               t[i] = cache[m] /\ (m = i \/ m = i + 1)
      <3>1. CASE Len(cache) >= world.maxEntries
        BY <3>1, <1>2 DEF Store
      <3>2. CASE ~ (Len(cache) >= world.maxEntries)
        BY <3>2, <1>2 DEF Store
      <3> QED
        BY <3>1, <3>2
    <2>3. \A i, l \in 1 .. Len(t) : t[i].key = t[l].key => i = l
      <3>1. CASE Len(cache) >= world.maxEntries
        BY <3>1, <1>2 DEF Store
      <3>2. CASE ~ (Len(cache) >= world.maxEntries)
        BY <3>2, <1>2 DEF Store
      <3> QED
        BY <3>1, <3>2
    <2>4. \A i \in 1 .. Len(t) : t[i].key # k
      BY <1>2, <1>4, <2>2 DEF Keys
    <2> HIDE DEF t
    <2>5. /\ Append(t, e) \in Seq(Entry) /\ Len(Append(t, e)) = Len(t) + 1
          /\ DOMAIN Append(t, e) = 1 .. (Len(t) + 1)
          /\ \A i \in 1 .. Len(t) : Append(t, e)[i] = t[i]
          /\ Append(t, e)[Len(t) + 1] = e
      BY <1>1, <2>2
    <2>6. Store(Append(t, e))
      BY <1>1, <2>2, <2>3, <2>4, <2>5 DEF Store
    <2>7. k \in Keys(Append(t, e))
      BY <1>1, <2>2, <2>5 DEF Keys
    <2> QED
      BY <1>2, <2>1, <2>2, <2>5, <2>6, <2>7 DEF e
  <1> QED
    BY <1>3, <1>4

\* What the store answers is a result.
LEMMA GetResult ==
  ASSUME Store(cache), NEW k \in Keys(cache)
  PROVE  Get(k) \in Result /\ \E i \in DOMAIN cache : cache[i].key = k /\ cache[i].val = Get(k)
  <1>1. PICK i \in DOMAIN cache : cache[i].key = k
    BY DEF Keys
  <1> DEFINE m == CHOOSE l \in DOMAIN cache : cache[l].key = k
  <1>2. m \in DOMAIN cache /\ cache[m].key = k
    BY <1>1
  <1>3. Get(k) = cache[m].val
    BY DEF Get
  <1>4. cache[m] \in Entry
    BY <1>2 DEF Store
  <1> HIDE DEF m
  <1> QED
    BY <1>2, <1>3, <1>4 DEF Entry

\* A chunk with a result has been answered for.
LEMMA ResultIsOne == ASSUME NEW v \in Result PROVE v # NoResult
  BY DEF Result, NoResult, Profiles

\* A new run.
LEMMA IdleSound == ASSUME world \in Worlds, NEW j \in Jobs PROVE RunSound(j, Idle)
  <1>1. Idle \in Run
    BY DEF Idle, Run, LLMStages
  <1>2. Idle.calls + Cardinality(Idle.flying) <= world.maxCalls + Concurrency - 1
    <2>1. Cardinality({}) = 0
      BY FS_EmptySet
    <2>2. Idle.calls = 0 /\ Idle.flying = {}
      BY DEF Idle
    <2> QED
      BY <2>1, <2>2, WorldType, DistillAssumption
  <1>3. Idle.todo = {} /\ Idle.flying = {} /\ Idle.stage = "idle"
    BY DEF Idle
  <1> QED
    BY <1>1, <1>2, <1>3 DEF RunSound, LLMStages

\* A stage starts: each of its chunks has a checkpoint or is to be taken.
LEMMA StageSound ==
  ASSUME world \in Worlds, Store(cache), NEW j \in Jobs, NEW r, RunSound(j, r),
         r.flying = {}, NEW s \in LLMStages,
         s = "compact" => shouldCompact(j),
         s # "compact" => Answered(r, "compact"),
         s = "sweep" => Answered(r, "extract")
  PROVE  RunSound(j, Stage(j, r, s, Scope(r, s)))
  <1> DEFINE chunks == Scope(r, s)
             hits   == {c \in chunks : Key(j, s, c) \in Keys(cache)}
             found  == [c \in Chunks |-> IF c \in hits THEN Get(Key(j, s, c)) ELSE NoResult]
             t      == Stage(j, r, s, chunks)
  <1>1. /\ r \in Run /\ r.kept \subseteq Chunks /\ chunks \subseteq r.kept
    BY DEF RunSound, Run, Scope, SweepChunks
  <1>2. \A c \in hits : Get(Key(j, s, c)) \in Result
    BY GetResult
  <1>3. found \in [Chunks -> Result \cup {NoResult}]
    BY <1>2
  <1>4. t = [r EXCEPT !.stage = s, !.todo = chunks \ hits, !.res[s] = found]
    BY DEF Stage
  <1>5. \A c \in chunks : c \in chunks \ hits \/ found[c] # NoResult
    BY <1>1, <1>2, ResultIsOne
  <1> HIDE DEF found
  <1>6. /\ t \in Run /\ t.stage = s /\ t.todo = chunks \ hits /\ t.flying = {}
        /\ t.kept = r.kept /\ t.calls = r.calls /\ t.res[s] = found
        /\ \A u \in LLMStages \ {s} : t.res[u] = r.res[u]
    <2> DEFINE todo == chunks \ hits
    <2>1. todo \in SUBSET Chunks
      BY <1>1
    <2> HIDE DEF todo, hits
    <2>2. t = [r EXCEPT !.stage = s, !.todo = todo, !.res[s] = found]
      BY <1>4 DEF todo
    <2> HIDE DEF chunks, t
    <2>3. /\ t.stage = s /\ t.todo = todo /\ t.flying = {}
          /\ t.kept = r.kept /\ t.calls = r.calls /\ t.res = [r.res EXCEPT ![s] = found]
      BY <1>1, <2>2 DEF Run
    <2>4. [r.res EXCEPT ![s] = found] \in [LLMStages -> [Chunks -> Result \cup {NoResult}]]
      BY <1>1, <1>3 DEF Run
    <2>5. t \in Run
      BY <1>1, <2>1, <2>2, <2>4 DEF Run
    <2> QED
      BY <1>1, <2>3, <2>5 DEF Run, todo
  <1> HIDE DEF t
  <1>7. Scope(t, s) = chunks
    BY <1>6 DEF Scope, SweepChunks, LLMStages
  <1>8. /\ s # "compact" => Answered(t, "compact")
        /\ s = "sweep" => Answered(t, "extract")
    BY <1>6 DEF Answered, Scope, LLMStages
  <1>9. world.capped => t.calls + Cardinality(t.flying) <= world.maxCalls + Concurrency - 1
    BY <1>6 DEF RunSound
  <1> HIDE DEF chunks, hits
  <1>10. RunSound(j, t)
    BY <1>1, <1>5, <1>6, <1>7, <1>8, <1>9 DEF RunSound, LLMStages
  <1> QED
    BY <1>10 DEF t, chunks

\* Within a stage: chunks are taken and answered for, and none is forgotten unless the run
\* has stopped.
LEMMA WithinStage ==
  ASSUME NEW j \in Jobs, NEW r, RunSound(j, r), r.stage \in LLMStages, NEW t \in Run,
         t.stage = r.stage, t.kept = r.kept, t.todo \cap t.flying = {},
         t.todo \cup t.flying \subseteq r.todo \cup r.flying,
         t.stopped = "no" => r.stopped = "no",
         \A u \in LLMStages \ {r.stage} : t.res[u] = r.res[u],
         \A c \in Chunks : r.res[r.stage][c] # NoResult => t.res[r.stage][c] # NoResult,
         t.stopped = "no" => \A c \in (r.todo \cup r.flying) \ (t.todo \cup t.flying) :
                               t.res[r.stage][c] # NoResult,
         world.capped => t.calls + Cardinality(t.flying) <= world.maxCalls + Concurrency - 1
  PROVE  RunSound(j, t)
  <1>1. r \in Run /\ r.kept \subseteq Chunks
    BY DEF RunSound, Run
  <1>2. \A s \in LLMStages : s = r.stage \/ s = "compact" \/ r.stage = "sweep" => Scope(t, s) = Scope(r, s)
    BY DEF Scope, SweepChunks, LLMStages
  <1>3. Scope(r, r.stage) \subseteq Chunks
    BY <1>1 DEF Scope, SweepChunks
  <1>4. t.stopped = "no" =>
          \A c \in Scope(t, t.stage) : c \in t.todo \cup t.flying \/ t.res[t.stage][c] # NoResult
    BY <1>2, <1>3 DEF RunSound
  <1>5. /\ t.stage # "compact" => Answered(t, "compact")
        /\ t.stage = "sweep" => Answered(t, "extract")
    BY DEF Answered, RunSound, Scope, LLMStages
  <1> QED
    BY <1>4, <1>5 DEF RunSound, LLMStages

\* What Stop and recordCall leave of a run.
LEMMA StopRun ==
  ASSUME NEW r \in Run, NEW why \in {"budget", "error"}
  PROVE  /\ Stop(r, why) \in Run /\ Stop(r, why).stopped # "no"
         /\ Stop(r, why) = [r EXCEPT !.stopped = Stop(r, why).stopped]
  BY DEF Run, Stop
\* recordCall counts under a cap only.
LEMMA CountRun ==
  ASSUME NEW r \in Run
  PROVE  \E k \in {0, 1} : recordCall(r) = [r EXCEPT !.calls = @ + k] /\ recordCall(r) \in Run
  <1>1. CASE world.capped
    BY <1>1 DEF recordCall, Run
  <1>2. CASE ~ world.capped
    <2>1. r = [r EXCEPT !.calls = @ + 0]
      BY DEF Run
    <2> QED
      BY <1>2, <2>1 DEF recordCall
  <1> QED
    BY <1>1, <1>2

\* A worker takes a chunk, and keeps the text as it is.
LEMMA TakeKeepSound ==
  ASSUME NEW j \in Jobs, NEW r, RunSound(j, r), r.stage \in LLMStages, NEW c \in r.todo,
         NEW v \in Result
  PROVE  RunSound(j, [[r EXCEPT !.todo = @ \ {c}] EXCEPT !.res[r.stage][c] = v])
  <1> DEFINE t == [[r EXCEPT !.todo = @ \ {c}] EXCEPT !.res[r.stage][c] = v]
  <1>1. r \in Run /\ c \in Chunks
    BY DEF RunSound, Run
  <1>2. t = [r EXCEPT !.todo = @ \ {c}, !.res = [r.res EXCEPT ![r.stage] = [r.res[r.stage] EXCEPT ![c] = v]]]
    BY <1>1 DEF Run
  <1> HIDE DEF t
  <1>3. [r.res[r.stage] EXCEPT ![c] = v] \in [Chunks -> Result \cup {NoResult}]
    BY <1>1 DEF Run
  <1>4. [r.res EXCEPT ![r.stage] = [r.res[r.stage] EXCEPT ![c] = v]]
          \in [LLMStages -> [Chunks -> Result \cup {NoResult}]]
    BY <1>1, <1>3 DEF Run
  <1>5. t \in Run
    BY <1>1, <1>2, <1>4 DEF Run
  <1>6. /\ t.stage = r.stage /\ t.kept = r.kept /\ t.todo = r.todo \ {c} /\ t.flying = r.flying
        /\ t.stopped = r.stopped /\ t.calls = r.calls
        /\ t.res = [r.res EXCEPT ![r.stage] = [r.res[r.stage] EXCEPT ![c] = v]]
    BY <1>1, <1>2 DEF Run
  <1>7. /\ \A u \in LLMStages \ {r.stage} : t.res[u] = r.res[u]
        /\ t.res[r.stage][c] = v /\ \A d \in Chunks \ {c} : t.res[r.stage][d] = r.res[r.stage][d]
    BY <1>1, <1>6 DEF Run
  <1>8. v # NoResult
    BY ResultIsOne
  <1>9. RunSound(j, t)
    <2>1. /\ t.todo \cap t.flying = {} /\ t.todo \cup t.flying \subseteq r.todo \cup r.flying
          /\ (r.todo \cup r.flying) \ (t.todo \cup t.flying) \subseteq {c}
          /\ world.capped => t.calls + Cardinality(t.flying) <= world.maxCalls + Concurrency - 1
      BY <1>6 DEF RunSound
    <2>2. /\ t.stopped = "no" => r.stopped = "no"
          /\ \A d \in Chunks : r.res[r.stage][d] # NoResult => t.res[r.stage][d] # NoResult
      BY <1>6, <1>7, <1>8
    <2>3. \A d \in (r.todo \cup r.flying) \ (t.todo \cup t.flying) : t.res[r.stage][d] # NoResult
      BY <1>7, <1>8, <2>1
    <2>4. /\ t \in Run /\ t.stage = r.stage /\ t.kept = r.kept /\ r.stage \in LLMStages
          /\ \A u \in LLMStages \ {r.stage} : t.res[u] = r.res[u]
      BY <1>5, <1>6, <1>7
    <2> QED
      BY <2>1, <2>2, <2>3, <2>4, WithinStage
  <1> QED
    BY <1>9 DEF t

\* A worker takes a chunk and calls the model.
LEMMA TakeCallSound ==
  ASSUME world \in Worlds, NEW j \in Jobs, NEW r, RunSound(j, r), r.stage \in LLMStages,
         NEW c \in r.todo, Cardinality(r.flying) < Concurrency, ~ shouldStop(r)
  PROVE  RunSound(j, [[r EXCEPT !.todo = @ \ {c}] EXCEPT !.flying = @ \cup {c}])
  <1> DEFINE t == [[r EXCEPT !.todo = @ \ {c}] EXCEPT !.flying = @ \cup {c}]
  <1>1. r \in Run /\ c \in Chunks /\ r.flying \subseteq Chunks /\ r.calls \in Nat
    BY DEF RunSound, Run
  <1>2. /\ t \in Run /\ t.stage = r.stage /\ t.kept = r.kept /\ t.todo = r.todo \ {c}
        /\ t.flying = r.flying \cup {c} /\ t.stopped = r.stopped /\ t.calls = r.calls /\ t.res = r.res
    BY <1>1 DEF Run
  <1> HIDE DEF t
  <1>3. /\ Cardinality(r.flying) \in Nat
        /\ Cardinality(t.flying) \in Nat /\ Cardinality(t.flying) <= Cardinality(r.flying) + 1
    <2>1. IsFiniteSet(r.flying) /\ Cardinality(r.flying) \in Nat
      BY <1>1, ChunksFinite
    <2>2. Cardinality(t.flying) = IF c \in r.flying THEN Cardinality(r.flying) ELSE Cardinality(r.flying) + 1
      BY <1>2, <2>1, FS_AddElement
    <2> QED
      BY <2>1, <2>2
  <1>4. world.capped => t.calls + Cardinality(t.flying) <= world.maxCalls + Concurrency - 1
    BY <1>1, <1>2, <1>3, WorldType, DistillAssumption DEF shouldStop
  <1>5. RunSound(j, t)
    BY ZenonT(40), <1>2, <1>4, WithinStage DEF RunSound
  <1> QED
    BY <1>5 DEF t

\* A run that stops goes on with what is in flight.
LEMMA TakeStopSound ==
  ASSUME NEW j \in Jobs, NEW r, RunSound(j, r), r.stage \in LLMStages, NEW c \in r.todo,
         NEW why \in {"budget", "error"}
  PROVE  RunSound(j, Stop([r EXCEPT !.todo = @ \ {c}], why))
  <1> DEFINE t == Stop([r EXCEPT !.todo = @ \ {c}], why)
  <1>1. r \in Run
    BY DEF RunSound
  <1>2. /\ t \in Run /\ t.stage = r.stage /\ t.kept = r.kept /\ t.todo = r.todo \ {c}
        /\ t.flying = r.flying /\ t.stopped # "no" /\ t.calls = r.calls /\ t.res = r.res
    BY <1>1 DEF Run, Stop
  <1> HIDE DEF t
  <1>3. RunSound(j, t)
    BY <1>2, WithinStage DEF RunSound
  <1> QED
    BY <1>3 DEF t

\* The call that came back is counted in the place of the one in flight.
LEMMA ReturnCounts ==
  ASSUME world \in Worlds, NEW r \in Run, NEW c \in r.flying, NEW k \in {0, 1},
         world.capped => r.calls + Cardinality(r.flying) <= world.maxCalls + Concurrency - 1
  PROVE  world.capped =>
           r.calls + k + Cardinality(r.flying \ {c}) <= world.maxCalls + Concurrency - 1
  <1>1. r.flying \subseteq Chunks /\ r.calls \in Nat
    BY DEF Run
  <1>2. /\ Cardinality(r.flying) \in Nat /\ Cardinality(r.flying \ {c}) = Cardinality(r.flying) - 1
    BY <1>1, ChunksFinite, FS_RemoveElement
  <1> QED
    BY <1>1, <1>2, WorldType, DistillAssumption

\* A call comes back with a result.
LEMMA AnswerKeepSound ==
  ASSUME world \in Worlds, NEW j \in Jobs, NEW r, RunSound(j, r), NEW c \in r.flying, NEW v \in Result
  PROVE  RunSound(j, [recordCall([r EXCEPT !.flying = @ \ {c}]) EXCEPT !.res[r.stage][c] = v])
  <1> DEFINE q == recordCall([r EXCEPT !.flying = @ \ {c}])
             t == [q EXCEPT !.res[r.stage][c] = v]
  <1>1. r \in Run /\ c \in Chunks /\ r.stage \in LLMStages
    BY DEF RunSound, Run
  <1>2. PICK k \in {0, 1} :
          /\ q \in Run /\ q.stage = r.stage /\ q.kept = r.kept /\ q.todo = r.todo
          /\ q.flying = r.flying \ {c} /\ q.stopped = r.stopped /\ q.calls = r.calls + k
          /\ q.res = r.res
    <2>1. [r EXCEPT !.flying = @ \ {c}] \in Run
      BY <1>1 DEF Run
    <2>2. PICK k \in {0, 1} :
            q \in Run /\ q = [[r EXCEPT !.flying = @ \ {c}] EXCEPT !.calls = @ + k]
      BY <2>1, CountRun
    <2> HIDE DEF q
    <2> QED
      BY <1>1, <2>2 DEF Run
  <1> HIDE DEF q
  <1>3. t = [q EXCEPT !.res = [r.res EXCEPT ![r.stage] = [r.res[r.stage] EXCEPT ![c] = v]]]
    BY <1>1, <1>2 DEF Run
  <1> HIDE DEF t
  <1>4. [r.res[r.stage] EXCEPT ![c] = v] \in [Chunks -> Result \cup {NoResult}]
    BY <1>1 DEF Run
  <1>5. [r.res EXCEPT ![r.stage] = [r.res[r.stage] EXCEPT ![c] = v]]
          \in [LLMStages -> [Chunks -> Result \cup {NoResult}]]
    BY <1>1, <1>4 DEF Run
  <1>6. t \in Run
    BY <1>2, <1>3, <1>5 DEF Run
  <1>7. /\ t.stage = r.stage /\ t.kept = r.kept /\ t.todo = r.todo /\ t.flying = r.flying \ {c}
        /\ t.stopped = r.stopped /\ t.calls = r.calls + k
        /\ t.res = [r.res EXCEPT ![r.stage] = [r.res[r.stage] EXCEPT ![c] = v]]
    BY <1>2, <1>3 DEF Run
  <1>8. /\ \A u \in LLMStages \ {r.stage} : t.res[u] = r.res[u]
        /\ t.res[r.stage][c] = v /\ \A d \in Chunks \ {c} : t.res[r.stage][d] = r.res[r.stage][d]
    BY <1>1, <1>7 DEF Run
  <1>9. v # NoResult
    BY ResultIsOne
  <1>10. world.capped => t.calls + Cardinality(t.flying) <= world.maxCalls + Concurrency - 1
    BY <1>1, <1>7, ReturnCounts DEF RunSound
  <1>11. RunSound(j, t)
    <2>1. /\ t.todo \cap t.flying = {} /\ t.todo \cup t.flying \subseteq r.todo \cup r.flying
          /\ (r.todo \cup r.flying) \ (t.todo \cup t.flying) \subseteq {c}
      BY <1>7 DEF RunSound
    <2>2. /\ t.stopped = "no" => r.stopped = "no"
          /\ \A d \in Chunks : r.res[r.stage][d] # NoResult => t.res[r.stage][d] # NoResult
      BY <1>7, <1>8, <1>9
    <2>3. \A d \in (r.todo \cup r.flying) \ (t.todo \cup t.flying) : t.res[r.stage][d] # NoResult
      BY <1>8, <1>9, <2>1
    <2>4. /\ t \in Run /\ t.stage = r.stage /\ t.kept = r.kept /\ r.stage \in LLMStages
          /\ \A u \in LLMStages \ {r.stage} : t.res[u] = r.res[u]
      BY <1>1, <1>6, <1>7, <1>8
    <2> QED
      BY <1>10, <2>1, <2>2, <2>3, <2>4, WithinStage
  <1> QED
    BY <1>11 DEF t, q

\* A call fails, or its answer is of no use.
LEMMA ReturnStopSound ==
  ASSUME world \in Worlds, NEW j \in Jobs, NEW r, RunSound(j, r), NEW c \in r.flying
  PROVE  /\ RunSound(j, Stop([r EXCEPT !.flying = @ \ {c}], "error"))
         /\ RunSound(j, Stop(recordCall([r EXCEPT !.flying = @ \ {c}]), "error"))
  <1>1. r \in Run /\ c \in Chunks /\ r.stage \in LLMStages
    BY DEF RunSound, Run
  <1>2. ASSUME NEW t \in Run, NEW k \in {0, 1}, t.stage = r.stage, t.kept = r.kept, t.todo = r.todo,
               t.flying = r.flying \ {c}, t.stopped # "no", t.calls = r.calls + k, t.res = r.res
        PROVE  RunSound(j, t)
    <2>1. world.capped => t.calls + Cardinality(t.flying) <= world.maxCalls + Concurrency - 1
      BY <1>1, <1>2, ReturnCounts DEF RunSound
    <2> QED
      BY <1>1, <1>2, <2>1, WithinStage DEF RunSound
  <1> DEFINE t == Stop([r EXCEPT !.flying = @ \ {c}], "error")
             u == Stop(recordCall([r EXCEPT !.flying = @ \ {c}]), "error")
  <1>3. /\ t \in Run /\ t.stage = r.stage /\ t.kept = r.kept /\ t.todo = r.todo
        /\ t.flying = r.flying \ {c} /\ t.stopped # "no" /\ t.calls = r.calls + 0 /\ t.res = r.res
    <2>1. [r EXCEPT !.flying = @ \ {c}] \in Run
      BY <1>1 DEF Run
    <2>2. /\ t \in Run /\ t.stopped # "no"
          /\ t = [[r EXCEPT !.flying = @ \ {c}] EXCEPT !.stopped = t.stopped]
      BY <2>1, StopRun
    <2> HIDE DEF t
    <2>3. r.calls \in Nat
      BY <1>1 DEF Run
    <2>4. r.calls + 0 = r.calls
      BY <2>3
    <2>5. /\ t.stage = r.stage /\ t.kept = r.kept /\ t.todo = r.todo
          /\ t.flying = r.flying \ {c} /\ t.calls = r.calls /\ t.res = r.res
      BY <1>1, <2>2 DEF Run
    <2> QED
      BY <2>2, <2>4, <2>5
  <1>4. PICK k \in {0, 1} :
          /\ u \in Run /\ u.stage = r.stage /\ u.kept = r.kept /\ u.todo = r.todo
          /\ u.flying = r.flying \ {c} /\ u.stopped # "no" /\ u.calls = r.calls + k /\ u.res = r.res
    <2> DEFINE q == recordCall([r EXCEPT !.flying = @ \ {c}])
    <2>1. [r EXCEPT !.flying = @ \ {c}] \in Run
      BY <1>1 DEF Run
    <2>2. PICK k \in {0, 1} :
            q \in Run /\ q = [[r EXCEPT !.flying = @ \ {c}] EXCEPT !.calls = @ + k]
      BY <2>1, CountRun
    <2> HIDE DEF q
    <2>3. /\ u \in Run /\ u.stopped # "no" /\ u = [q EXCEPT !.stopped = u.stopped]
      BY <2>2, StopRun DEF q
    <2> HIDE DEF u
    <2> QED
      BY <1>1, <2>2, <2>3 DEF Run
  <1> HIDE DEF t, u
  <1>5. RunSound(j, t)
    BY <1>2, <1>3
  <1>6. RunSound(j, u)
    BY <1>2, <1>4
  <1> QED
    BY <1>5, <1>6 DEF t, u

\* A run begins; what is not compacted passes the first stage at once.
LEMMA CompactSound ==
  ASSUME world \in Worlds, Store(cache), NEW j \in Jobs, NEW kept \in SUBSET Chunks
  PROVE  RunSound(j, Compact(j, [Idle EXCEPT !.kept = kept]))
  <1> DEFINE r == [Idle EXCEPT !.kept = kept]
             t == Compact(j, r)
  <1>1. /\ r \in Run /\ r.stage = "idle" /\ r.kept = kept /\ r.todo = {} /\ r.flying = {}
        /\ r.stopped = "no" /\ r.calls = 0
    <2>1. Idle \in Run
      BY DEF Idle, Run, LLMStages
    <2> QED
      BY <2>1 DEF Idle, Run
  <1> HIDE DEF r
  <1>2. world.capped => r.calls + Cardinality(r.flying) <= world.maxCalls + Concurrency - 1
    <2>1. Cardinality({}) = 0
      BY FS_EmptySet
    <2> QED
      BY <1>1, <2>1, WorldType, DistillAssumption
  <1>3. RunSound(j, r)
    BY <1>1, <1>2 DEF RunSound, LLMStages
  <1>4. CASE shouldCompact(j)
    <2>1. t = Stage(j, r, "compact", Scope(r, "compact"))
      BY <1>4 DEF Compact, Scope
    <2>2. RunSound(j, Stage(j, r, "compact", Scope(r, "compact")))
      BY <1>1, <1>3, <1>4, StageSound DEF LLMStages
    <2>3. RunSound(j, t)
      BY <2>1, <2>2
    <2> QED
      BY <2>3 DEF r
  <1>5. CASE ~ shouldCompact(j)
    <2> DEFINE raw   == [by |-> "raw", atoms |-> {}]
               found == [c \in Chunks |-> IF c \in r.kept THEN raw ELSE NoResult]
    <2>1. t = [r EXCEPT !.stage = "compact", !.res["compact"] = found]
      BY <1>5 DEF Compact
    <2>2. raw \in Result
      BY DEF Result
    <2>3. found \in [Chunks -> Result \cup {NoResult}] /\ \A c \in r.kept : found[c] # NoResult
      BY <1>1, <2>2, ResultIsOne
    <2> HIDE DEF found
    <2>4. [r.res EXCEPT !["compact"] = found] \in [LLMStages -> [Chunks -> Result \cup {NoResult}]]
      BY <1>1, <2>3 DEF Run
    <2>5. /\ t \in Run /\ t.stage = "compact" /\ t.kept = kept /\ t.todo = {} /\ t.flying = {}
          /\ t.calls = r.calls /\ t.res = [r.res EXCEPT !["compact"] = found]
      BY <1>1, <2>1, <2>4 DEF Run, LLMStages
    <2>6. t.res["compact"] = found
      BY <1>1, <2>5 DEF Run, LLMStages
    <2> HIDE DEF t
    <2>7. world.capped => t.calls + Cardinality(t.flying) <= world.maxCalls + Concurrency - 1
      BY <1>1, <1>2, <2>5
    <2>8. \A c \in Scope(t, "compact") : t.res["compact"][c] # NoResult
      BY <1>1, <2>3, <2>5, <2>6 DEF Scope
    <2>9. RunSound(j, t)
      BY <2>5, <2>7, <2>8 DEF RunSound, LLMStages
    <2> QED
      BY <2>9 DEF t, r
  <1> QED
    BY <1>4, <1>5

\* A run whose stage is over goes to the next one.
LEMMA StageEndSound ==
  ASSUME world \in Worlds, Store(cache), NEW j \in Jobs, NEW r, RunSound(j, r), Settled(r), r.stopped = "no"
  PROVE  /\ r.stage = "compact" => RunSound(j, Stage(j, r, "extract", r.kept))
         /\ r.stage = "extract" /\ world.passes = 2 => RunSound(j, Stage(j, r, "sweep", SweepChunks(r)))
         /\ ~ (r.stage = "compact" \/ (r.stage = "extract" /\ world.passes = 2))
              => RunSound(j, [r EXCEPT !.stage = "embed"])
  <1>1. /\ r \in Run /\ r.flying = {} /\ r.todo = {} /\ r.stage \in LLMStages
        /\ Answered(r, r.stage)
    BY DEF Settled, RunSound, Answered
  <1>2. /\ r.stage # "compact" => Answered(r, "compact")
        /\ r.stage = "sweep" => Answered(r, "extract")
    BY <1>1 DEF RunSound, LLMStages
  <1>3. CASE r.stage = "compact"
    <2>1. Scope(r, "extract") = r.kept
      BY DEF Scope
    <2>2. RunSound(j, Stage(j, r, "extract", Scope(r, "extract")))
      BY <1>1, <1>3, StageSound DEF LLMStages
    <2> QED
      BY <1>3, <2>1, <2>2
  <1>4. CASE r.stage = "extract" /\ world.passes = 2
    <2>1. Scope(r, "sweep") = SweepChunks(r)
      BY DEF Scope
    <2>2. RunSound(j, Stage(j, r, "sweep", Scope(r, "sweep")))
      BY <1>1, <1>2, <1>4, StageSound DEF LLMStages
    <2> QED
      BY <1>4, <2>1, <2>2
  <1>5. CASE ~ (r.stage = "compact" \/ (r.stage = "extract" /\ world.passes = 2))
    <2> DEFINE t == [r EXCEPT !.stage = "embed"]
    <2>1. /\ t \in Run /\ t.stage = "embed" /\ t.kept = r.kept /\ t.todo = {} /\ t.flying = {}
          /\ t.calls = r.calls /\ t.res = r.res
      BY <1>1 DEF Run
    <2> HIDE DEF t
    <2>2. \A s \in LLMStages : Answered(r, s) => Answered(t, s)
      BY <2>1 DEF Answered, Scope, SweepChunks
    <2>3. Answered(r, "compact") /\ Answered(r, "extract") /\ (world.passes = 2 => Answered(r, "sweep"))
      BY <1>1, <1>2, <1>5, WorldType DEF LLMStages
    <2>4. world.capped => t.calls + Cardinality(t.flying) <= world.maxCalls + Concurrency - 1
      BY <1>1, <2>1 DEF RunSound
    <2>5. RunSound(j, t)
      BY <2>1, <2>2, <2>3, <2>4 DEF RunSound, LLMStages
    <2> QED
      BY <1>5, <2>5 DEF t
  <1> QED
    BY <1>3, <1>4, <1>5

\* After the last call the results stay what they are.
LEMMA LaterSound ==
  ASSUME NEW j \in Jobs, NEW r, RunSound(j, r), r.stage \notin LLMStages \cup {"idle"},
         NEW t \in Run, t.stage \notin LLMStages \cup {"idle"},
         t.kept = r.kept, t.todo = r.todo, t.flying = r.flying, t.calls = r.calls, t.res = r.res
  PROVE  RunSound(j, t)
  <1>1. \A s \in LLMStages : Answered(r, s) => Answered(t, s)
    BY DEF Answered, Scope, SweepChunks
  <1> QED
    BY <1>1 DEF RunSound, LLMStages

----------------------------------------------------------------------------
(* Each action leaves the runs sound.                                     *)

\* What the invariant says of store and runs.
LEMMA InvStore == ASSUME DistillInv PROVE Store(cache) /\ world \in Worlds /\ run \in [Jobs -> Run]
  BY DEF DistillInv, TypeOK, StoreSound, Store

\* What an action makes of one run.
Becomes(j, r) == run' = [run EXCEPT ![j] = r]

\* A worker takes a chunk: one less to take, answered for, in flight, or the run has stopped.
LEMMA TakeRun ==
  ASSUME DistillInv, NEW j \in Jobs, Take(j)
  PROVE  \E q \in Run, c \in run[j].todo :
           /\ Becomes(j, q) /\ RunSound(j, q) /\ q.stage = run[j].stage /\ q.left = run[j].left
           /\ q.todo = run[j].todo \ {c}
           /\ \/ UNCHANGED <<cache, paid>>
              \/ \E v \in Result : Checkpoint(Put(Key(j, run[j].stage, c), v), {})
  <1> DEFINE r    == run[j]
             c    == Min(r.todo)
             next == [r EXCEPT !.todo = @ \ {c}]
  <1>1. r \in Run /\ RunSound(j, r) /\ world \in Worlds /\ r.stage \in LLMStages
    BY InvStore DEF DistillInv, Take
  <1>2. c \in r.todo /\ r.todo \in SUBSET Chunks
    <2>1. r.todo \in SUBSET Chunks /\ r.todo # {}
      BY <1>1 DEF Take, Run
    <2>2. r.todo \in SUBSET Nat /\ IsFiniteSet(r.todo)
      BY <2>1, ChunksFinite, DistillAssumption
    <2> QED
      BY <2>1, <2>2, MinOfSet
  <1>3. /\ next \in Run /\ next.stage = r.stage /\ next.left = r.left /\ next.todo = r.todo \ {c}
        /\ next.flying = r.flying /\ next.res = r.res
    BY <1>1, <1>2 DEF Run
  <1>4. ASSUME NEW v \in Result, Keep(j, next, c, v, {})
        PROVE  \E q \in Run :
                 /\ Becomes(j, q) /\ RunSound(j, q) /\ q.stage = r.stage /\ q.left = r.left
                 /\ q.todo = r.todo \ {c} /\ Checkpoint(Put(Key(j, r.stage, c), v), {})
    <2> DEFINE q == [next EXCEPT !.res[r.stage][c] = v]
    <2>1. RunSound(j, q)
      <3> HIDE DEF c, r
      <3> QED
        BY <1>1, <1>2, TakeKeepSound
    <2>2. Becomes(j, q) /\ Checkpoint(Put(Key(j, r.stage, c), v), {})
      <3> HIDE DEF c, r
      <3>1. next.stage = r.stage
        BY <1>3
      <3> QED
        BY <1>4, <3>1 DEF Keep, Becomes
    <2>3. q.stage = r.stage /\ q.left = r.left /\ q.todo = r.todo \ {c} /\ q \in Run
      <3>1. q \in Run
        BY <2>1 DEF RunSound
      <3> HIDE DEF r, c, next
      <3> QED
        BY <1>3, <3>1 DEF Run
    <2> HIDE DEF q
    <2> QED
      BY <2>1, <2>2, <2>3
  <1>5. CASE Keep(j, next, c, [by |-> "raw", atoms |-> {}], {})
    <2>1. [by |-> "raw", atoms |-> {}] \in Result
      BY DEF Result
    <2> HIDE DEF next, c
    <2> QED
      BY <1>2, <1>4, <1>5, <2>1
  <1>6. CASE Keep(j, next, c, [by |-> "capped", atoms |-> {}], {})
    <2>1. [by |-> "capped", atoms |-> {}] \in Result
      BY DEF Result
    <2> HIDE DEF next, c
    <2> QED
      BY <1>2, <1>4, <1>6, <2>1
  <1>7. CASE ~ shouldStop(r) /\ Becomes(j, [next EXCEPT !.flying = @ \cup {c}]) /\ UNCHANGED <<cache, paid>>
    <2> DEFINE q == [next EXCEPT !.flying = @ \cup {c}]
    <2>1. RunSound(j, q)
      <3>1. Cardinality(r.flying) < Concurrency
        BY DEF Take
      <3> HIDE DEF c, r
      <3> QED
        BY <1>1, <1>2, <1>7, <3>1, TakeCallSound
    <2>2. q.stage = r.stage /\ q.left = r.left /\ q.todo = r.todo \ {c} /\ q \in Run
      <3>1. q \in Run
        BY <2>1 DEF RunSound
      <3> HIDE DEF r, c, next
      <3> QED
        BY <1>3, <3>1 DEF Run
    <2> HIDE DEF q
    <2> QED
      BY <1>2, <1>7, <2>1, <2>2 DEF q
  <1>8. CASE Becomes(j, Stop(next, "budget")) /\ UNCHANGED <<cache, paid>>
    <2> DEFINE q == Stop(next, "budget")
    <2>1. RunSound(j, q)
      <3> HIDE DEF c, r
      <3> QED
        BY <1>1, <1>2, TakeStopSound
    <2>2. q.stage = r.stage /\ q.left = r.left /\ q.todo = r.todo \ {c} /\ q \in Run
      <3> HIDE DEF r, c, next
      <3> QED
        BY <1>3, StopRun DEF Run
    <2> HIDE DEF q
    <2> QED
      BY <1>2, <1>8, <2>1, <2>2 DEF q
  <1> QED
    BY <1>5, <1>6, <1>7, <1>8 DEF Take, Becomes

\* A call returns: its result is checkpointed, or the run has stopped.
LEMMA ReturnRun ==
  ASSUME DistillInv, NEW j \in Jobs, NEW c \in Chunks, Answer(j, c) \/ CallFails(j, c)
  PROVE  \E q \in Run :
           /\ c \in run[j].flying
           /\ Becomes(j, q) /\ RunSound(j, q) /\ q.stage = run[j].stage /\ q.left = run[j].left
           /\ q.todo = run[j].todo
           /\ \/ UNCHANGED <<cache, paid>>
              \/ \E v \in Result :
                   Checkpoint(Put(Key(j, run[j].stage, c), v), {<<j, run[j].stage, c>>})
  <1> DEFINE r    == run[j]
             back == [r EXCEPT !.flying = @ \ {c}]
             next == recordCall(back)
  <1>1. /\ r \in Run /\ RunSound(j, r) /\ world \in Worlds /\ c \in r.flying
        /\ r.stage \in LLMStages
    <2>1. r \in Run /\ RunSound(j, r) /\ world \in Worlds /\ c \in r.flying
      BY InvStore DEF DistillInv, Answer, CallFails
    <2> QED
      BY <2>1 DEF RunSound
  <1>2. /\ back \in Run /\ back.stage = r.stage /\ back.left = r.left /\ back.todo = r.todo
        /\ back.flying = r.flying \ {c} /\ back.res = r.res
    <2> HIDE DEF r
    <2> QED
      BY <1>1 DEF Run
  <1>3. /\ next \in Run /\ next.stage = r.stage /\ next.left = r.left /\ next.todo = r.todo
    <2> HIDE DEF r, back
    <2>1. PICK k \in {0, 1} : next = [back EXCEPT !.calls = @ + k] /\ next \in Run
      BY <1>2, CountRun
    <2> HIDE DEF next
    <2> QED
      BY <1>2, <2>1 DEF Run
  <1>4. ASSUME NEW v \in Result, Keep(j, next, c, v, {<<j, r.stage, c>>})
        PROVE  \E q \in Run :
                 /\ Becomes(j, q) /\ RunSound(j, q) /\ q.stage = r.stage /\ q.left = r.left
                 /\ q.todo = r.todo
                 /\ Checkpoint(Put(Key(j, r.stage, c), v), {<<j, r.stage, c>>})
    <2> DEFINE q == [next EXCEPT !.res[r.stage][c] = v]
    <2>1. RunSound(j, q)
      <3> HIDE DEF r
      <3> QED
        BY <1>1, AnswerKeepSound
    <2>2. Becomes(j, q) /\ Checkpoint(Put(Key(j, r.stage, c), v), {<<j, r.stage, c>>})
      <3> HIDE DEF r, next
      <3> QED
        BY <1>3, <1>4 DEF Keep, Becomes
    <2>3. q.stage = r.stage /\ q.left = r.left /\ q.todo = r.todo /\ q \in Run
      <3>1. q \in Run
        BY <2>1 DEF RunSound
      <3> HIDE DEF r, next
      <3> QED
        BY <1>3, <3>1 DEF Run
    <2> HIDE DEF q
    <2> QED
      BY <2>1, <2>2, <2>3
  <1>5. ASSUME NEW atoms \in SUBSET Atoms,
               Keep(j, next, c, [by |-> ProfileOf[j], atoms |-> atoms], {<<j, r.stage, c>>})
        PROVE  \E q \in Run, v \in Result :
                 /\ Becomes(j, q) /\ RunSound(j, q) /\ q.stage = r.stage /\ q.left = r.left
                 /\ q.todo = r.todo
                 /\ Checkpoint(Put(Key(j, r.stage, c), v), {<<j, r.stage, c>>})
    <2>1. [by |-> ProfileOf[j], atoms |-> atoms] \in Result
      <3>1. ProfileOf[j] \in Profiles \cup {"raw", "capped"}
        BY DistillAssumption
      <3> QED
        BY <3>1 DEF Result
    <2> HIDE DEF next, r
    <2> QED
      BY <1>4, <1>5, <2>1
  <1>6. ASSUME NEW q, q = Stop(back, "error") \/ q = Stop(next, "error"), Becomes(j, q)
        PROVE  RunSound(j, q) /\ q.stage = r.stage /\ q.left = r.left /\ q.todo = r.todo /\ q \in Run
    <2>1. RunSound(j, q)
      <3> HIDE DEF r
      <3> QED
        BY <1>1, <1>6, ReturnStopSound
    <2>2. ASSUME NEW t \in Run, q = Stop(t, "error")
          PROVE  q.stage = t.stage /\ q.left = t.left /\ q.todo = t.todo /\ q \in Run
      BY <2>2, StopRun DEF Run
    <2> HIDE DEF back, next, r
    <2> QED
      BY <1>2, <1>3, <1>6, <2>1, <2>2
  <1>7. \/ \E atoms \in SUBSET Atoms :
             Keep(j, next, c, [by |-> ProfileOf[j], atoms |-> atoms], {<<j, r.stage, c>>})
        \/ Becomes(j, Stop(next, "error")) /\ UNCHANGED <<cache, paid>>
        \/ Becomes(j, Stop(back, "error")) /\ UNCHANGED <<cache, paid>>
    <2>1. CASE Answer(j, c)
      <3> DEFINE set == IF r.stage = "compact" THEN {{}} ELSE Yields[c]
      <3>1. set \subseteq SUBSET Atoms
        BY DistillAssumption
      <3> HIDE DEF set
      <3>2. \/ \E atoms \in set :
                 Keep(j, next, c, [by |-> ProfileOf[j], atoms |-> atoms], {<<j, r.stage, c>>})
            \/ Becomes(j, Stop(next, "error")) /\ UNCHANGED <<cache, paid>>
        BY <2>1 DEF Answer, Becomes, set
      <3> HIDE DEF next, back, r
      <3> QED
        BY <3>1, <3>2
    <2>2. CASE CallFails(j, c)
      BY <2>2 DEF CallFails, Becomes
    <2> QED
      BY <2>1, <2>2
  <1> HIDE DEF next, back
  <1> QED
    BY <1>1, <1>5, <1>6, <1>7

\* A stage ends: of the next one only the chunks without a checkpoint are to be taken.
LEMMA StageEndRun ==
  ASSUME DistillInv, NEW j \in Jobs, StageEnd(j)
  PROVE  \E q \in Run :
           /\ Becomes(j, q) /\ RunSound(j, q) /\ q.stage \in LLMStages \cup {"embed"}
           /\ q.left = run[j].left
           /\ \A c \in q.todo : Key(j, q.stage, c) \notin Keys(cache)
  <1> DEFINE r == run[j]
  <1>1. /\ r \in Run /\ RunSound(j, r) /\ world \in Worlds /\ Store(cache) /\ Settled(r)
        /\ r.stopped = "no"
    BY InvStore DEF DistillInv, StageEnd
  <1>2. \E q : /\ Becomes(j, q)
               /\ \/ r.stage = "compact" /\ q = Stage(j, r, "extract", r.kept)
                  \/ r.stage = "extract" /\ world.passes = 2 /\ q = Stage(j, r, "sweep", SweepChunks(r))
                  \/ ~ (r.stage = "compact" \/ (r.stage = "extract" /\ world.passes = 2))
                     /\ q = [r EXCEPT !.stage = "embed"]
    BY DEF StageEnd, Becomes
  <1> HIDE DEF r
  <1>3. ASSUME NEW s \in LLMStages, NEW chunks, RunSound(j, Stage(j, r, s, chunks))
        PROVE  LET q == Stage(j, r, s, chunks) IN
               /\ q \in Run /\ q.stage = s /\ q.left = r.left
               /\ \A c \in q.todo : Key(j, q.stage, c) \notin Keys(cache)
    <2>1. Stage(j, r, s, chunks) \in Run
      BY <1>3 DEF RunSound
    <2>2. /\ Stage(j, r, s, chunks).stage = s /\ Stage(j, r, s, chunks).left = r.left
          /\ Stage(j, r, s, chunks).todo = chunks \ {c \in chunks : Key(j, s, c) \in Keys(cache)}
      BY <1>1 DEF Stage, Run
    <2> QED
      BY <2>1, <2>2
  <1>4. r.stage = "compact" => RunSound(j, Stage(j, r, "extract", r.kept))
    BY <1>1, StageEndSound
  <1>5. r.stage = "extract" /\ world.passes = 2 => RunSound(j, Stage(j, r, "sweep", SweepChunks(r)))
    BY <1>1, StageEndSound
  <1>6. ~ (r.stage = "compact" \/ (r.stage = "extract" /\ world.passes = 2))
          => /\ RunSound(j, [r EXCEPT !.stage = "embed"]) /\ [r EXCEPT !.stage = "embed"] \in Run
             /\ [r EXCEPT !.stage = "embed"].stage = "embed" /\ [r EXCEPT !.stage = "embed"].left = r.left
             /\ [r EXCEPT !.stage = "embed"].todo = {}
    <2>1. r.todo = {}
      BY <1>1 DEF Settled
    <2> QED
      BY <1>1, <2>1, StageEndSound DEF Run
  <1>7. PICK q : /\ Becomes(j, q)
                 /\ \/ r.stage = "compact" /\ q = Stage(j, r, "extract", r.kept)
                    \/ r.stage = "extract" /\ world.passes = 2 /\ q = Stage(j, r, "sweep", SweepChunks(r))
                    \/ ~ (r.stage = "compact" \/ (r.stage = "extract" /\ world.passes = 2))
                       /\ q = [r EXCEPT !.stage = "embed"]
    BY <1>2
  <1>8. "extract" \in LLMStages /\ "sweep" \in LLMStages
    BY DEF LLMStages
  <1>9. RunSound(j, q) /\ q \in Run /\ q.stage \in LLMStages \cup {"embed"} /\ q.left = r.left
        /\ \A c \in q.todo : Key(j, q.stage, c) \notin Keys(cache)
    <2>1. CASE r.stage = "compact" /\ q = Stage(j, r, "extract", r.kept)
      BY <1>3, <1>4, <1>8, <2>1
    <2>2. CASE r.stage = "extract" /\ world.passes = 2 /\ q = Stage(j, r, "sweep", SweepChunks(r))
      BY <1>3, <1>5, <1>8, <2>2
    <2>3. CASE /\ ~ (r.stage = "compact" \/ (r.stage = "extract" /\ world.passes = 2))
               /\ q = [r EXCEPT !.stage = "embed"]
      BY <1>6, <2>3
    <2> QED
      BY <1>7, <2>1, <2>2, <2>3
  <1> QED
    BY <1>7, <1>9 DEF r

\* A run starts with the chunks that have no checkpoint.
LEMMA StartRun ==
  ASSUME DistillInv, NEW j \in Jobs, RunStart(j)
  PROVE  \E q \in Run :
           /\ Becomes(j, q) /\ RunSound(j, q) /\ q.stage = "compact" /\ q.left = {}
           /\ \A c \in q.todo : Key(j, "compact", c) \notin Keys(cache)
  <1>1. world \in Worlds /\ Store(cache) /\ world.chunks \in SUBSET Chunks
    BY InvStore, WorldType
  <1>2. PICK kept \in SUBSET Chunks : Becomes(j, Compact(j, [Idle EXCEPT !.kept = kept]))
    BY <1>1 DEF RunStart, Becomes
  <1> DEFINE r == [Idle EXCEPT !.kept = kept]
             q == Compact(j, r)
  <1>3. RunSound(j, q)
    BY <1>1, CompactSound
  <1>4. r.todo = {} /\ r.left = {} /\ r.kept = kept
    BY DEF Idle
  <1>5. /\ q.stage = "compact" /\ q.left = {}
        /\ \A c \in q.todo : Key(j, "compact", c) \notin Keys(cache)
    <2>1. CASE shouldCompact(j)
      BY <2>1 DEF Compact, Stage, Idle
    <2>2. CASE ~ shouldCompact(j)
      BY <2>2 DEF Compact, Idle
    <2> QED
      BY <2>1, <2>2
  <1>6. q \in Run
    BY <1>3 DEF RunSound
  <1> HIDE DEF q
  <1> QED
    BY <1>2, <1>3, <1>5, <1>6 DEF q

\* The actions after the last call.
LEMMA PhaseARun ==
  ASSUME DistillInv, NEW j \in Jobs, PhaseA(j)
  PROVE  \E q \in Run :
           /\ Becomes(j, q) /\ RunSound(j, q) /\ q.stage \in {"triage", "insert"}
           /\ q.todo = {} /\ q.left \cap erased = {}
           /\ AllAtoms(q) \subseteq q.left \cup q.gated \cup erased
  <1> DEFINE r == run[j]
  <1>1. r \in Run /\ RunSound(j, r) /\ r.stage = "embed"
    BY InvStore DEF DistillInv, PhaseA
  <1>2. AllAtoms(r) \in SUBSET Atoms
    BY <1>1 DEF AllAtoms, Run, LLMStages, Result, NoResult
  <1>3. PICK gated \in SUBSET NotErased(r), stage \in {"triage", "insert"} :
          Becomes(j, [r EXCEPT !.stage = stage, !.gated = gated, !.left = NotErased(r) \ gated])
    BY DEF PhaseA, Becomes
  <1> DEFINE q == [r EXCEPT !.stage = stage, !.gated = gated, !.left = NotErased(r) \ gated]
  <1> HIDE DEF r
  <1>4. /\ q \in Run /\ q.stage = stage /\ q.gated = gated /\ q.left = (AllAtoms(r) \ erased) \ gated
        /\ q.kept = r.kept /\ q.todo = r.todo /\ q.flying = r.flying /\ q.calls = r.calls /\ q.res = r.res
    <2>1. NotErased(r) = AllAtoms(r) \ erased
      BY DEF NotErased
    <2>2. gated \in SUBSET Atoms /\ NotErased(r) \ gated \in SUBSET Atoms
      BY <1>2, <2>1
    <2> QED
      BY <1>1, <2>1, <2>2 DEF Run
  <1> HIDE DEF q
  <1>5. RunSound(j, q)
    BY <1>1, <1>4, LaterSound DEF LLMStages
  <1>6. AllAtoms(q) = AllAtoms(r) /\ q.todo = {}
    BY <1>1, <1>4 DEF AllAtoms, RunSound, LLMStages
  <1> QED
    BY <1>3, <1>4, <1>5, <1>6 DEF q, r

\* Phase B: what the triage refuses is not inserted.
LEMMA PhaseBRun ==
  ASSUME DistillInv, NEW j \in Jobs, PhaseB(j)
  PROVE  \E q \in Run :
           /\ Becomes(j, q) /\ RunSound(j, q) /\ q.stage = "insert" /\ q.todo = {}
           /\ q.left \subseteq run[j].left
           /\ AllAtoms(q) \subseteq q.left \cup q.gated \cup erased \cup stored
  <1> DEFINE r == run[j]
  <1>1. r \in Run /\ RunSound(j, r) /\ RunInStep(j, r) /\ r.stage = "triage"
    BY InvStore DEF DistillInv, PhaseB
  <1>2. PICK junk \in SUBSET r.left :
          Becomes(j, [r EXCEPT !.stage = "insert", !.gated = @ \cup junk, !.left = @ \ junk])
    BY DEF PhaseB, Becomes
  <1> DEFINE q == [r EXCEPT !.stage = "insert", !.gated = @ \cup junk, !.left = @ \ junk]
  <1> HIDE DEF r
  <1>3. /\ q \in Run /\ q.stage = "insert" /\ q.gated = r.gated \cup junk /\ q.left = r.left \ junk
        /\ q.kept = r.kept /\ q.todo = r.todo /\ q.flying = r.flying /\ q.calls = r.calls /\ q.res = r.res
    <2>1. r.gated \cup junk \in SUBSET Atoms /\ r.left \ junk \in SUBSET Atoms
      BY <1>1 DEF Run
    <2> QED
      BY <1>1, <2>1 DEF Run
  <1> HIDE DEF q
  <1>4. RunSound(j, q)
    BY <1>1, <1>3, LaterSound DEF LLMStages
  <1>5. AllAtoms(q) = AllAtoms(r) /\ q.todo = {}
    BY <1>1, <1>3 DEF AllAtoms, RunSound, LLMStages
  <1>6. AllAtoms(q) \subseteq q.left \cup q.gated \cup erased \cup stored
    BY <1>1, <1>3, <1>5 DEF RunInStep
  <1> QED
    BY <1>2, <1>3, <1>4, <1>5, <1>6 DEF q, r

\* Phase C: an atom is inserted.
LEMMA InsertRun ==
  ASSUME DistillInv, NEW j \in Jobs, InsertAtom(j)
  PROVE  \E q \in Run, a \in Atoms :
           /\ Becomes(j, q) /\ RunSound(j, q) /\ q.stage = "vec" /\ q.todo = {} /\ q.at = a
           /\ q.left \subseteq run[j].left /\ a \in run[j].left /\ stored' = stored \cup {a}
           /\ AllAtoms(q) \subseteq q.left \cup q.gated \cup erased \cup stored'
  <1> DEFINE r == run[j]
  <1>1. r \in Run /\ RunSound(j, r) /\ RunInStep(j, r) /\ r.stage = "insert"
    BY InvStore DEF DistillInv, InsertAtom
  <1>2. PICK a \in r.left :
          /\ Becomes(j, [r EXCEPT !.stage = "vec", !.at = a, !.left = @ \ {a}])
          /\ stored' = stored \cup {a}
    BY DEF InsertAtom, Becomes
  <1> DEFINE q == [r EXCEPT !.stage = "vec", !.at = a, !.left = @ \ {a}]
  <1> HIDE DEF r
  <1>3. a \in Atoms /\ r.left \ {a} \in SUBSET Atoms
    BY <1>1 DEF Run
  <1>4. /\ q \in Run /\ q.stage = "vec" /\ q.gated = r.gated /\ q.left = r.left \ {a} /\ q.at = a
        /\ q.kept = r.kept /\ q.todo = r.todo /\ q.flying = r.flying /\ q.calls = r.calls /\ q.res = r.res
    BY <1>1, <1>3 DEF Run
  <1> HIDE DEF q
  <1>5. RunSound(j, q)
    BY <1>1, <1>4, LaterSound DEF LLMStages
  <1>6. AllAtoms(q) = AllAtoms(r) /\ q.todo = {}
    BY <1>1, <1>4 DEF AllAtoms, RunSound, LLMStages
  <1>7. AllAtoms(q) \subseteq q.left \cup q.gated \cup erased \cup stored'
    BY <1>1, <1>2, <1>4, <1>6 DEF RunInStep
  <1> QED
    BY <1>2, <1>3, <1>4, <1>5, <1>6, <1>7 DEF q, r

\* Phase C: the atom has its vector or its flag.
LEMMA VecRun ==
  ASSUME DistillInv, NEW j \in Jobs, VecUpsert(j)
  PROVE  \E q \in Run :
           /\ Becomes(j, q) /\ RunSound(j, q) /\ q.stage = "insert" /\ q.todo = {}
           /\ q.left = run[j].left
           /\ AllAtoms(q) \subseteq q.left \cup q.gated \cup erased \cup stored
  <1> DEFINE r == run[j]
             q == [r EXCEPT !.stage = "insert", !.at = NoAtom]
  <1>1. r \in Run /\ RunSound(j, r) /\ RunInStep(j, r) /\ r.stage = "vec"
    BY InvStore DEF DistillInv, VecUpsert
  <1>2. Becomes(j, q)
    BY DEF VecUpsert, Becomes
  <1> HIDE DEF r
  <1>3. /\ q \in Run /\ q.stage = "insert" /\ q.gated = r.gated /\ q.left = r.left
        /\ q.kept = r.kept /\ q.todo = r.todo /\ q.flying = r.flying /\ q.calls = r.calls /\ q.res = r.res
    BY <1>1 DEF Run
  <1> HIDE DEF q
  <1>4. RunSound(j, q)
    BY <1>1, <1>3, LaterSound DEF LLMStages
  <1>5. AllAtoms(q) = AllAtoms(r) /\ q.todo = {}
    BY <1>1, <1>3 DEF AllAtoms, RunSound, LLMStages
  <1>6. AllAtoms(q) \subseteq q.left \cup q.gated \cup erased \cup stored
    BY <1>1, <1>3, <1>5 DEF RunInStep
  <1> QED
    BY <1>2, <1>3, <1>4, <1>5, <1>6 DEF r

\* The store answers for the calls that were paid for.
LEMMA CheckpointKeeps ==
  ASSUME DistillInv, UNCHANGED world, NEW store, NEW new \in SUBSET (Jobs \X LLMStages \X Chunks),
         Store(store), \A p \in new : Key(p[1], p[2], p[3]) \in Keys(store), Checkpoint(store, new)
  PROVE  StoreSound' /\ Store(cache)' /\ paid' \subseteq paid \cup new
  <1>1. cache' = store /\ paid' \subseteq paid \cup new
    BY DEF Checkpoint
  <1>2. \A p \in paid' : Key(p[1], p[2], p[3]) \in Keys(store)
    BY DEF Checkpoint, DistillInv, StoreSound
  <1>3. paid' \subseteq Jobs \X LLMStages \X Chunks
    BY <1>1 DEF DistillInv, StoreSound
  <1>4. Keys(cache)' = Keys(store)
    BY <1>1 DEF Keys
  <1>5. \A p \in paid' : Key(p[1], p[2], p[3])' = Key(p[1], p[2], p[3])
    BY DEF Key, Variant
  <1>6. StoreSound'
    BY <1>1, <1>2, <1>3, <1>4, <1>5 DEF StoreSound, Store
  <1> QED
    BY <1>1, <1>6 DEF Store

----------------------------------------------------------------------------
(* What a step of one job does to everything.                             *)

\* The run goes on in step with store and memories; nobody else is between an insert and
\* its vector, and nothing of the others is paid for.
JobStep(j) ==
  /\ \E q \in Run : Becomes(j, q) /\ RunSound(j, q) /\ RunInStep(j, q)'
  /\ StoreSound' /\ Store(cache)'
  /\ \A p \in paid' : p \in paid \/ p[1] = j
  /\ \A k \in Jobs \ {j} : run[k].stage # "vec"
  /\ stored \subseteq stored' /\ UNCHANGED <<world, erased, raced>>

\* An atom is between its insert and its vector only while its run has the event loop.
LEMMA NobodyElse ==
  ASSUME DistillInv, NEW j \in Jobs, loop \in {j, NoJob}
  PROVE  \A k \in Jobs \ {j} : run[k].stage # "vec"
  BY DistillAssumption DEF DistillInv, RunInStep

\* A step that leaves the checkpoints alone.
LEMMA StoreUnchanged ==
  ASSUME DistillInv, UNCHANGED <<world, cache, paid>>
  PROVE  StoreSound' /\ Store(cache)' /\ \A p \in paid' : p \in paid
  <1>1. Store(cache)'
    BY InvStore DEF Store
  <1>2. StoreSound'
    BY DEF DistillInv, StoreSound, Key, Variant, Keys
  <1> QED
    BY <1>1, <1>2

\* A run that is over holds nothing.
LEMMA IdleInStep == ASSUME NEW j \in Jobs PROVE RunInStep(j, Idle)
  BY DEF RunInStep, Idle

\* Runs that start, take chunks and get answers.
LEMMA CallStep ==
  ASSUME DistillInv, NEW j \in Jobs, Take(j) \/ Calls(j) PROVE JobStep(j)
  <1>1. /\ RunSound(j, run[j]) /\ RunInStep(j, run[j]) /\ world \in Worlds /\ Store(cache)
        /\ world.maxEntries \in Nat \ {0} /\ run[j].stage \in LLMStages
        /\ run[j].todo \cup run[j].flying \subseteq Chunks
    <2>1. RunSound(j, run[j]) /\ RunInStep(j, run[j]) /\ world \in Worlds /\ Store(cache)
      BY InvStore DEF DistillInv
    <2>2. run[j].stage \in LLMStages
      BY <2>1 DEF Take, Calls, Answer, CallFails, RunSound
    <2> QED
      BY <2>1, <2>2, WorldType DEF RunSound, Run
  <1>2. /\ loop = NoJob /\ UNCHANGED <<world, stored, erased, raced>>
    BY DEF Take, Calls, Answer, CallFails, Free, db
  <1>3. \A k \in Jobs \ {j} : run[k].stage # "vec"
    BY <1>2, NobodyElse
  <1>4. ASSUME NEW q \in Run, Becomes(j, q), RunSound(j, q), q.stage = run[j].stage,
               q.left = run[j].left, q.todo \subseteq run[j].todo,
               NEW c \in run[j].todo \cup run[j].flying, c \notin q.todo,
               \/ UNCHANGED <<cache, paid>>
               \/ \E v \in Result, new \in {{}, {<<j, run[j].stage, c>>}} :
                    Checkpoint(Put(Key(j, run[j].stage, c), v), new)
        PROVE  JobStep(j)
    <2>1. /\ StoreSound' /\ Store(cache)'
          /\ \A p \in paid' : p \in paid \/ p = <<j, run[j].stage, c>>
      <3>1. CASE UNCHANGED <<cache, paid>>
        BY <1>2, <3>1, StoreUnchanged
      <3>2. ASSUME NEW v \in Result, NEW new \in {{}, {<<j, run[j].stage, c>>}},
                   Checkpoint(Put(Key(j, run[j].stage, c), v), new)
            PROVE  /\ StoreSound' /\ Store(cache)'
                   /\ \A p \in paid' : p \in paid \/ p = <<j, run[j].stage, c>>
        <4>1. Key(j, run[j].stage, c) \in KeySet
          BY <1>1, KeyType DEF KeySet
        <4>2. /\ Store(Put(Key(j, run[j].stage, c), v))
              /\ Key(j, run[j].stage, c) \in Keys(Put(Key(j, run[j].stage, c), v))
          BY <1>1, <4>1, PutStore
        <4>3. new \in SUBSET (Jobs \X LLMStages \X Chunks)
          BY <1>1
        <4> QED
          BY <1>2, <3>2, <4>2, <4>3, CheckpointKeeps
      <3> QED
        BY <1>4, <3>1, <3>2
    <2>2. RunInStep(j, q)'
      BY <1>1, <1>2, <1>4, <2>1 DEF RunInStep, LLMStages
    <2> QED
      BY <1>2, <1>3, <1>4, <2>1, <2>2 DEF JobStep
  <1>5. CASE Take(j)
    <2>1. PICK q \in Run, c \in run[j].todo :
           /\ Becomes(j, q) /\ RunSound(j, q) /\ q.stage = run[j].stage /\ q.left = run[j].left
           /\ q.todo = run[j].todo \ {c}
           /\ \/ UNCHANGED <<cache, paid>>
              \/ \E v \in Result : Checkpoint(Put(Key(j, run[j].stage, c), v), {})
      BY <1>5, TakeRun
    <2> QED
      BY <1>4, <2>1
  <1>6. CASE Calls(j)
    <2>1. PICK c \in Chunks : Answer(j, c) \/ CallFails(j, c)
      BY <1>6 DEF Calls
    <2>2. PICK q \in Run :
           /\ c \in run[j].flying
           /\ Becomes(j, q) /\ RunSound(j, q) /\ q.stage = run[j].stage /\ q.left = run[j].left
           /\ q.todo = run[j].todo
           /\ \/ UNCHANGED <<cache, paid>>
              \/ \E v \in Result :
                   Checkpoint(Put(Key(j, run[j].stage, c), v), {<<j, run[j].stage, c>>})
      BY <2>1, ReturnRun
    <2>3. c \notin q.todo
      BY <1>1, <2>2 DEF RunSound
    <2> QED
      BY <1>4, <2>2, <2>3
  <1> QED
    BY <1>5, <1>6

\* A stage asks only for what is not in the store, so for nothing that is paid for.
LEMMA StageStep ==
  ASSUME DistillInv, NEW j \in Jobs, RunStart(j) \/ StageEnd(j) PROVE JobStep(j)
  <1>1. /\ loop = NoJob /\ UNCHANGED <<world, cache, paid, stored, erased, raced>>
    BY DEF RunStart, StageEnd, Free, db
  <1>2. PICK q \in Run :
          /\ Becomes(j, q) /\ RunSound(j, q) /\ q.stage \in LLMStages \cup {"embed"}
          /\ q.left \subseteq run[j].left
          /\ \A c \in q.todo : Key(j, q.stage, c) \notin Keys(cache)
    <2>1. CASE RunStart(j)
      <3>1. "compact" \in LLMStages
        BY DEF LLMStages
      <3> QED
        BY <2>1, <3>1, StartRun
    <2>2. CASE StageEnd(j)
      BY <2>2, StageEndRun
    <2> QED
      BY <2>1, <2>2
  <1>3. \A c \in q.todo : <<j, q.stage, c>> \notin paid
    BY <1>2 DEF DistillInv, StoreSound
  <1>4. RunInStep(j, q)'
    BY <1>1, <1>2, <1>3 DEF RunInStep, DistillInv, LLMStages
  <1> QED
    BY <1>1, <1>2, <1>4, NobodyElse, StoreUnchanged DEF JobStep

\* A run that fails or is done.
LEMMA EndStep ==
  ASSUME DistillInv, NEW j \in Jobs, StageFails(j) \/ EmbedFails(j) \/ WriteFails(j) \/ RunDone(j)
  PROVE  JobStep(j)
  <1>1. /\ loop \in {j, NoJob} /\ UNCHANGED <<world, stored, erased, raced>> /\ Becomes(j, Idle)
        /\ UNCHANGED <<cache, paid>> \/ Checkpoint(<<>>, {})
    BY DEF StageFails, EmbedFails, WriteFails, RunDone, RunFails, Free, MyTurn, db, Becomes
  <1>2. Idle \in Run /\ RunSound(j, Idle)
    BY InvStore, IdleSound DEF RunSound
  <1>3. RunInStep(j, Idle)'
    BY DEF RunInStep, Idle
  <1>4. StoreSound' /\ Store(cache)' /\ \A p \in paid' : p \in paid
    <2>1. CASE UNCHANGED <<cache, paid>>
      BY <1>1, <2>1, StoreUnchanged
    <2>2. CASE Checkpoint(<<>>, {})
      <3>1. Store(<<>>)
        BY InvStore, WorldType DEF Store
      <3> QED
        BY <1>1, <2>2, <3>1, CheckpointKeeps
    <2> QED
      BY <1>1, <2>1, <2>2
  <1> QED
    BY <1>1, <1>2, <1>3, <1>4, NobodyElse DEF JobStep

\* Phase A to Phase C.
LEMMA IndexStep ==
  ASSUME DistillInv, NEW j \in Jobs, PhaseA(j) \/ PhaseB(j) \/ InsertAtom(j) \/ VecUpsert(j)
  PROVE  JobStep(j)
  <1>1. /\ loop \in {j, NoJob} /\ UNCHANGED <<world, cache, paid, erased, raced>>
        /\ stored \subseteq stored'
    BY DEF PhaseA, PhaseB, InsertAtom, VecUpsert, Free, MyTurn, db
  <1>2. run[j].left \cap erased \subseteq raced
    BY DEF DistillInv, RunInStep
  <1>3. PICK q \in Run :
          /\ Becomes(j, q) /\ RunSound(j, q) /\ q.todo = {} /\ q.left \cap erased \subseteq raced
          /\ AllAtoms(q) \subseteq q.left \cup q.gated \cup erased \cup stored'
          /\ q.stage = "vec" => loop' = j /\ q.at \in stored'
    <2>1. CASE PhaseA(j)
      BY <1>1, <2>1, PhaseARun
    <2>2. CASE PhaseB(j)
      BY <1>1, <1>2, <2>2, PhaseBRun
    <2>3. CASE InsertAtom(j)
      <3>1. loop' = j
        BY <2>3 DEF InsertAtom
      <3> QED
        BY <1>2, <2>3, <3>1, InsertRun
    <2>4. CASE VecUpsert(j)
      BY <1>1, <1>2, <2>4, VecRun
    <2> QED
      BY <2>1, <2>2, <2>3, <2>4
  <1>4. RunInStep(j, q)'
    BY <1>1, <1>3 DEF RunInStep, AllAtoms
  <1> QED
    BY <1>1, <1>3, <1>4, NobodyElse, StoreUnchanged DEF JobStep

\* Every step of a job.
LEMMA StepIsJobStep == ASSUME DistillInv, NEW j \in Jobs, Step(j) PROVE JobStep(j)
  BY CallStep, StageStep, EndStep, IndexStep DEF Step

----------------------------------------------------------------------------
(* The invariant.                                                         *)

\* The part about runs and store.
RunsSound == /\ run \in [Jobs -> Run] /\ StoreSound /\ Store(cache)
             /\ \A j \in Jobs : RunSound(j, run[j]) /\ RunInStep(j, run[j])

\* A sound run stays sound in the same world.
LEMMA SameWorld ==
  ASSUME UNCHANGED world, NEW j \in Jobs, NEW r, RunSound(j, r) PROVE RunSound(j, r)'
  BY DEF RunSound, shouldCompact, Answered, Scope, SweepChunks

\* Every step keeps runs and store sound.
LEMMA StepKeepsRuns == ASSUME DistillInv, [Next]_vars PROVE RunsSound'
  <1>0. /\ run \in [Jobs -> Run] /\ \A j \in Jobs : RunSound(j, run[j]) /\ RunInStep(j, run[j])
    BY InvStore DEF DistillInv
  <1>1. ASSUME NEW j \in Jobs, Step(j) PROVE RunsSound'
    <2>1. JobStep(j)
      BY <1>1, StepIsJobStep
    <2>2. PICK q \in Run : Becomes(j, q) /\ RunSound(j, q) /\ RunInStep(j, q)'
      BY <2>1 DEF JobStep
    <2>3. run' \in [Jobs -> Run] /\ run'[j] = q /\ \A k \in Jobs \ {j} : run'[k] = run[k]
      BY <1>0, <2>2 DEF Becomes
    <2>4. RunSound(j, run[j])' /\ RunInStep(j, run[j])'
      <3>1. RunSound(j, q)'
        BY <2>1, <2>2, SameWorld DEF JobStep
      <3>2. RunInStep(j, run[j])'
        BY <2>2, <2>3 DEF RunInStep, AllAtoms
      <3> QED
        BY <2>3, <3>1, <3>2 DEF RunSound, shouldCompact, Answered, Scope, SweepChunks
    <2>5. ASSUME NEW k \in Jobs \ {j} PROVE RunSound(k, run[k])' /\ RunInStep(k, run[k])'
      <3>1. run'[k] = run[k] /\ run[k].stage # "vec" /\ UNCHANGED <<world, erased, raced>>
            /\ stored \subseteq stored'
        BY <2>1, <2>3 DEF JobStep
      <3>2. \A c \in run[k].todo : <<k, run[k].stage, c>> \notin paid'
        BY <1>0, <2>1 DEF JobStep, RunInStep
      <3>3. RunInStep(k, run[k])'
        BY <1>0, <3>1, <3>2 DEF RunInStep, AllAtoms
      <3>4. RunSound(k, run[k])'
        BY <1>0, <3>1 DEF RunSound, shouldCompact, Answered, Scope, SweepChunks
      <3> QED
        BY <3>3, <3>4
    <2> QED
      BY <2>1, <2>3, <2>4, <2>5 DEF RunsSound, JobStep
  <1>2. ASSUME UNCHANGED <<world, run, loop, cache, paid, stored, erased, raced>> PROVE RunsSound'
    <2>1. StoreSound' /\ Store(cache)'
      BY <1>2, StoreUnchanged
    <2>2. ASSUME NEW k \in Jobs PROVE RunSound(k, run[k])' /\ RunInStep(k, run[k])'
      <3>1. RunInStep(k, run[k])'
        BY <1>0, <1>2 DEF RunInStep, AllAtoms
      <3>2. RunSound(k, run[k])'
        BY <1>0, <1>2 DEF RunSound, shouldCompact, Answered, Scope, SweepChunks
      <3> QED
        BY <3>1, <3>2
    <2> QED
      BY <1>0, <1>2, <2>1, <2>2 DEF RunsSound
  <1>3. ASSUME NEW j \in Jobs, Resume(j) PROVE RunsSound'
    BY <1>2, <1>3 DEF Resume, db
  <1>4. ASSUME NEW a \in Atoms, Erase(a) PROVE RunsSound'
    <2>1. UNCHANGED <<world, run, loop, cache, paid>> /\ loop = NoJob
      BY <1>4 DEF Erase, Free
    <2>2. StoreSound' /\ Store(cache)'
      BY <2>1, StoreUnchanged
    <2>3. ASSUME NEW k \in Jobs PROVE RunSound(k, run[k])' /\ RunInStep(k, run[k])'
      <3>1. run[k].stage # "vec"
        BY <1>0, <2>1, DistillAssumption DEF RunInStep
      <3>2. /\ erased' = erased \cup {a} /\ stored' = stored \ {a}
            /\ raced' = raced \cup ({a} \cap UNION {run[j].left : j \in Jobs})
        BY <1>4 DEF Erase
      <3>3. run[k].left \cap erased' \subseteq raced'
        BY <1>0, <3>2 DEF RunInStep
      <3>4. run[k].stage \in {"triage", "insert", "vec"} =>
              AllAtoms(run[k]) \subseteq run[k].left \cup run[k].gated \cup erased' \cup stored'
        BY <1>0, <3>2 DEF RunInStep
      <3>5. RunInStep(k, run[k])'
        BY <1>0, <2>1, <3>1, <3>3, <3>4 DEF RunInStep, AllAtoms
      <3>6. RunSound(k, run[k])'
        BY <1>0, <2>1 DEF RunSound, shouldCompact, Answered, Scope, SweepChunks
      <3> QED
        BY <3>5, <3>6
    <2> QED
      BY <1>0, <2>1, <2>2, <2>3 DEF RunsSound
  <1>5. ASSUME NEW a \in Atoms, Reembed(a) \/ ReembedPoisoned(a) PROVE RunsSound'
    BY <1>2, <1>5 DEF Reembed, ReembedPoisoned
  <1>6. CASE CleanupSweep
    BY <1>2, <1>6 DEF CleanupSweep
  <1>7. CASE Crash
    <2>1. UNCHANGED world /\ cache' = <<>> /\ paid' = {} /\ run' = [j \in Jobs |-> Idle]
      BY <1>7 DEF Crash
    <2>2. Store(<<>>)
      BY InvStore, WorldType DEF Store
    <2>3. StoreSound' /\ Store(cache)'
      BY <2>1, <2>2 DEF StoreSound, Store
    <2>4. ASSUME NEW k \in Jobs
          PROVE  RunSound(k, run[k])' /\ RunInStep(k, run[k])' /\ Idle \in Run
      <3>1. RunSound(k, Idle) /\ run'[k] = Idle
        BY <2>1, InvStore, IdleSound
      <3>2. RunInStep(k, run[k])'
        BY <3>1 DEF RunInStep, Idle
      <3>3. RunSound(k, run[k])'
        BY <2>1, <3>1 DEF RunSound, shouldCompact, Answered, Scope, SweepChunks
      <3> QED
        BY <3>1, <3>2, <3>3 DEF RunSound
    <2> QED
      BY <2>1, <2>3, <2>4 DEF RunsSound
  <1>8. CASE UNCHANGED vars
    BY <1>2, <1>8 DEF vars
  <1> QED
    BY <1>1, <1>3, <1>4, <1>5, <1>6, <1>7, <1>8 DEF Next

\* A row says running exactly while its run is under way, and a job that is not at its end
\* has attempts left.
RowSound(j) ==
  /\ status[j] \in {"queued", "running", "paused", "poison", "done"} /\ attempts[j] \in 0 .. MaxAttempts
  /\ (run[j].stage = "idle") <=> (status[j] # "running")
  /\ status[j] \in {"queued", "running", "paused"} => attempts[j] < MaxAttempts
RowsSound == /\ status \in [Jobs -> {"queued", "running", "paused", "poison", "done"}]
             /\ attempts \in [Jobs -> 0 .. MaxAttempts]
             /\ \A j \in Jobs : RowSound(j)

\* What the invariant says of the rows.
LEMMA InvRows == ASSUME DistillInv PROVE RowsSound
  <1>1. ASSUME NEW j \in Jobs PROVE (run[j].stage = "idle") <=> (status[j] # "running")
    <2>1. (run[j].stage = "idle") = (status[j] # "running")
      BY DEF DistillInv, TypeOK
    <2> QED
      BY <2>1
  <1> QED
    BY <1>1 DEF DistillInv, TypeOK, RowsSound, RowSound

\* Every step keeps the rows sound.
LEMMA StepKeepsRows == ASSUME DistillInv, [Next]_vars PROVE RowsSound'
  <1>0. RowsSound /\ run \in [Jobs -> Run] /\ \A j \in Jobs : RunSound(j, run[j])
    BY InvRows, InvStore DEF DistillInv
  <1>a. MaxAttempts \in Nat \ {0}
    BY DistillAssumption
  <1>1. ASSUME NEW j \in Jobs, NEW q, Becomes(j, q), q.stage # "idle", run[j].stage # "idle",
               UNCHANGED <<status, attempts>>
        PROVE  RowsSound'
    BY <1>0, <1>1 DEF RowsSound, RowSound, Becomes
  <1>2. ASSUME NEW j \in Jobs, RunStart(j) PROVE RowsSound'
    <2>1. PICK q \in Run : Becomes(j, q) /\ q.stage = "compact"
      BY <1>2, StartRun
    <2> QED
      BY <1>0, <1>2, <2>1 DEF RowsSound, RowSound, Becomes, RunStart
  <1>3. ASSUME NEW j \in Jobs, Take(j) PROVE RowsSound'
    <2>1. run[j].stage # "idle" /\ UNCHANGED <<status, attempts>>
      BY <1>3 DEF Take, LLMStages
    <2> QED
      BY <1>1, <1>3, <2>1, TakeRun
  <1>4. ASSUME NEW j \in Jobs, Calls(j) PROVE RowsSound'
    <2>1. PICK c \in Chunks : Answer(j, c) \/ CallFails(j, c)
      BY <1>4 DEF Calls
    <2>2. c \in run[j].flying /\ UNCHANGED <<status, attempts>>
      BY <2>1 DEF Answer, CallFails
    <2>3. run[j].stage # "idle"
      BY <1>0, <2>2 DEF RunSound, LLMStages
    <2> QED
      BY <1>1, <2>1, <2>2, <2>3, ReturnRun
  <1>5. ASSUME NEW j \in Jobs, StageEnd(j) PROVE RowsSound'
    <2>1. run[j].stage # "idle" /\ UNCHANGED <<status, attempts>>
      BY <1>5 DEF StageEnd, Settled, LLMStages
    <2>2. PICK q : Becomes(j, q) /\ q.stage \in LLMStages \cup {"embed"}
      BY <1>5, StageEndRun
    <2>3. q.stage # "idle"
      BY <2>2 DEF LLMStages
    <2> QED
      BY <1>1, <2>1, <2>2, <2>3
  <1>6. ASSUME NEW j \in Jobs, PhaseA(j) \/ PhaseB(j) \/ InsertAtom(j) \/ VecUpsert(j)
        PROVE  RowsSound'
    <2>1. run[j].stage # "idle" /\ UNCHANGED <<status, attempts>>
      BY <1>6 DEF PhaseA, PhaseB, InsertAtom, VecUpsert
    <2>2. PICK q : Becomes(j, q) /\ q.stage \in {"triage", "insert", "vec"}
      BY <1>6, PhaseARun, PhaseBRun, InsertRun, VecRun
    <2> QED
      BY <1>1, <2>1, <2>2
  <1>7. ASSUME NEW j \in Jobs, RunFails(j), run[j].stage # "idle" PROVE RowsSound'
    <2>1. status[j] = "running" /\ attempts[j] < MaxAttempts /\ attempts[j] \in Nat
      BY <1>0, <1>7, <1>a DEF RowsSound, RowSound
    <2>2. run' = [run EXCEPT ![j] = Idle] /\ Idle.stage = "idle"
      BY <1>7 DEF RunFails, Idle
    <2> QED
      BY <1>0, <1>7, <1>a, <2>1, <2>2 DEF RowsSound, RowSound, RunFails, Failed
  <1>8. ASSUME NEW j \in Jobs, StageFails(j) PROVE RowsSound'
    <2>1. run[j].stage # "idle"
      BY <1>8 DEF StageFails, Settled, LLMStages
    <2>2. CASE RunFails(j)
      BY <1>7, <2>1, <2>2
    <2>3. CASE /\ run' = [run EXCEPT ![j] = Idle] /\ status' = [status EXCEPT ![j] = "paused"]
               /\ UNCHANGED attempts
      BY <1>0, <2>1, <2>3 DEF RowsSound, RowSound, Idle
    <2> QED
      BY <1>8, <2>2, <2>3 DEF StageFails
  <1>9. ASSUME NEW j \in Jobs, EmbedFails(j) \/ WriteFails(j) PROVE RowsSound'
    <2>1. RunFails(j) /\ run[j].stage # "idle"
      BY <1>9 DEF EmbedFails, WriteFails
    <2> QED
      BY <1>7, <2>1
  <1>10. ASSUME NEW j \in Jobs, RunDone(j) PROVE RowsSound'
    <2>1. /\ run' = [run EXCEPT ![j] = Idle] /\ status' = [status EXCEPT ![j] = "done"]
          /\ UNCHANGED attempts
      BY <1>10 DEF RunDone
    <2> QED
      BY <1>0, <2>1 DEF RowsSound, RowSound, Idle
  <1>11. ASSUME NEW j \in Jobs, Resume(j) PROVE RowsSound'
    BY <1>0, <1>11 DEF Resume, RowsSound, RowSound
  <1>12. ASSUME UNCHANGED <<status, attempts, run>> PROVE RowsSound'
    BY <1>0, <1>12 DEF RowsSound, RowSound
  <1>13. CASE Crash
    <2>1. /\ status' = [j \in Jobs |-> IF status[j] = "running" THEN "queued" ELSE status[j]]
          /\ run' = [j \in Jobs |-> Idle] /\ UNCHANGED attempts /\ Idle.stage = "idle"
      BY <1>13 DEF Crash, Idle
    <2> QED
      BY <1>0, <2>1 DEF RowsSound, RowSound
  <1>14. ASSUME NEW a \in Atoms, Erase(a) \/ Reembed(a) \/ ReembedPoisoned(a) PROVE RowsSound'
    BY <1>12, <1>14 DEF Erase, Reembed, ReembedPoisoned
  <1>15. CASE CleanupSweep \/ UNCHANGED vars
    BY <1>12, <1>15 DEF CleanupSweep, vars
  <1> QED
    BY <1>2, <1>3, <1>4, <1>5, <1>6, <1>8, <1>9, <1>10, <1>11, <1>13, <1>14, <1>15 DEF Next, Step

\* The indexes: vectors, flags and reembed jobs are of memories that are there, and nothing
\* erased comes back behind a run's check.
MemoriesSound ==
  /\ loop \in Jobs \cup {NoJob} /\ crashes \in 0 .. world.crashes /\ world \in Worlds
  /\ vec \cup flagged \cup reembeds \subseteq stored /\ stored \cup erased \subseteq Atoms
  /\ ErasedUnlessRaced

\* Every step keeps the indexes sound.
LEMMA StepKeepsMemories == ASSUME DistillInv, [Next]_vars PROVE MemoriesSound'
  <1>0. /\ MemoriesSound /\ run \in [Jobs -> Run] /\ world.crashes \in Nat
        /\ \A j \in Jobs : RunInStep(j, run[j])
    BY InvStore, WorldType DEF DistillInv, TypeOK, MemoriesSound
  <1>1. ASSUME UNCHANGED <<world, loop, crashes, stored, vec, flagged, reembeds, erased, raced>>
        PROVE  MemoriesSound'
    BY <1>0, <1>1 DEF MemoriesSound, ErasedUnlessRaced
  <1>2. ASSUME NEW j \in Jobs, \/ RunStart(j) \/ Take(j) \/ Calls(j) \/ StageFails(j) \/ StageEnd(j)
                               \/ EmbedFails(j) \/ Resume(j)
        PROVE  MemoriesSound'
    BY <1>1, <1>2 DEF RunStart, Take, Calls, Answer, CallFails, StageFails, StageEnd, EmbedFails,
                      Resume, db
  <1>3. ASSUME NEW j \in Jobs, PhaseA(j) \/ PhaseB(j) \/ WriteFails(j) \/ RunDone(j) PROVE MemoriesSound'
    <2>1. /\ UNCHANGED <<world, crashes, stored, vec, flagged, reembeds, erased, raced>>
          /\ loop' \in Jobs \cup {NoJob}
      BY <1>3 DEF PhaseA, PhaseB, WriteFails, RunDone, db
    <2> QED
      BY <1>0, <2>1 DEF MemoriesSound, ErasedUnlessRaced
  <1>4. ASSUME NEW j \in Jobs, InsertAtom(j) PROVE MemoriesSound'
    <2>1. PICK a \in run[j].left : stored' = stored \cup {a}
      BY <1>4 DEF InsertAtom
    <2>2. /\ UNCHANGED <<world, crashes, vec, flagged, reembeds, erased, raced>>
          /\ loop' \in Jobs \cup {NoJob}
      BY <1>4 DEF InsertAtom
    <2>3. a \in Atoms /\ run[j].left \cap erased \subseteq raced
      BY <1>0 DEF Run, RunInStep
    <2> QED
      BY <1>0, <2>1, <2>2, <2>3 DEF MemoriesSound, ErasedUnlessRaced
  <1>5. ASSUME NEW j \in Jobs, VecUpsert(j) PROVE MemoriesSound'
    <2>1. run[j].at \in stored
      BY <1>0, <1>5 DEF VecUpsert, RunInStep
    <2>2. /\ UNCHANGED <<world, crashes, stored, erased, raced>>
          /\ vec' \subseteq vec \cup {run[j].at} /\ flagged' \subseteq flagged \cup {run[j].at}
          /\ reembeds' \subseteq reembeds \cup {run[j].at} /\ loop' \in Jobs \cup {NoJob}
      BY <1>5 DEF VecUpsert
    <2> QED
      BY <1>0, <2>1, <2>2 DEF MemoriesSound, ErasedUnlessRaced
  <1>6. ASSUME NEW a \in Atoms, Erase(a) PROVE MemoriesSound'
    BY <1>0, <1>6 DEF Erase, MemoriesSound, ErasedUnlessRaced
  <1>7. ASSUME NEW a \in Atoms, Reembed(a) \/ ReembedPoisoned(a) PROVE MemoriesSound'
    BY <1>0, <1>7 DEF Reembed, ReembedPoisoned, MemoriesSound, ErasedUnlessRaced
  <1>8. CASE CleanupSweep
    BY <1>0, <1>8 DEF CleanupSweep, Needing, MemoriesSound, ErasedUnlessRaced
  <1>9. CASE Crash
    BY <1>0, <1>9 DEF Crash, MemoriesSound, ErasedUnlessRaced
  <1>10. CASE UNCHANGED vars
    BY <1>1, <1>10 DEF vars
  <1> QED
    BY <1>2, <1>3, <1>4, <1>5, <1>6, <1>7, <1>8, <1>9, <1>10 DEF Next, Step

\* The system starts in the invariant: nothing runs, and nothing is stored.
LEMMA InitInv == ASSUME Init PROVE DistillInv
  <1>1. /\ world \in Worlds /\ cache = <<>> /\ loop = NoJob /\ paid = {} /\ stored = {} /\ vec = {}
        /\ flagged = {} /\ reembeds = {} /\ erased = {} /\ crashes = 0
        /\ status = [j \in Jobs |-> IF j \in world.jobs THEN "queued" ELSE "done"]
        /\ attempts = [j \in Jobs |-> 0] /\ run = [j \in Jobs |-> Idle]
    BY DEF Init
  <1>2. /\ MaxAttempts \in Nat \ {0} /\ world.crashes \in Nat /\ world.maxEntries \in Nat \ {0}
    BY <1>1, WorldType, DistillAssumption
  <1>3. \A j \in Jobs : RunSound(j, run[j]) /\ run[j] \in Run /\ run[j].stage = "idle"
    <2>1. Idle.stage = "idle"
      BY DEF Idle
    <2> QED
      BY <1>1, <2>1, IdleSound DEF RunSound
  <1>4. \A j \in Jobs : RunInStep(j, run[j])
    BY <1>1, IdleInStep
  <1>5. ErasedUnlessRaced /\ StoreSound
    BY <1>1 DEF ErasedUnlessRaced, StoreSound
  <1>6. \A j \in Jobs : (run[j].stage = "idle") = (status[j] # "running")
    BY <1>1, <1>3
  <1>7. TypeOK
    BY <1>1, <1>2, <1>3, <1>6 DEF TypeOK
  <1> QED
    BY <1>1, <1>2, <1>3, <1>4, <1>5, <1>7 DEF DistillInv

\* Every step keeps the invariant.
LEMMA StepKeepsInv == ASSUME DistillInv, [Next]_vars PROVE DistillInv'
  <1>1. RunsSound' /\ RowsSound' /\ MemoriesSound'
    BY StepKeepsRuns, StepKeepsRows, StepKeepsMemories
  <1>2. (\A j \in Jobs : (run[j].stage = "idle") = (status[j] # "running"))'
    BY <1>1 DEF RowsSound, RowSound
  <1>3. /\ Len(cache') <= world'.maxEntries
        /\ \A i \in DOMAIN cache' : cache'[i].val \in Result
        /\ \A i, k \in DOMAIN cache' : cache'[i].key = cache'[k].key => i = k
    <2>1. Store(cache)'
      BY <1>1 DEF RunsSound
    <2>2. \A i \in DOMAIN cache' : cache'[i] \in Entry
      BY <2>1 DEF Store
    <2>3. \A e \in Entry : e.val \in Result
      BY DEF Entry
    <2>4. /\ Len(cache') <= world'.maxEntries
          /\ \A i, k \in DOMAIN cache' : cache'[i].key = cache'[k].key => i = k
      BY <2>1 DEF Store
    <2> QED
      BY <2>2, <2>3, <2>4
  <1>4. TypeOK'
    BY <1>1, <1>2, <1>3 DEF TypeOK, RunsSound, RowsSound, MemoriesSound
  <1> QED
    BY <1>1, <1>4 DEF DistillInv, RunsSound, RowsSound, RowSound, MemoriesSound

----------------------------------------------------------------------------
(* The theorems.                                                          *)

\* Runs, checkpoints and memories keep in step in every reachable state.
THEOREM DistillInvariant == Spec => []DistillInv
  <1>1. Init => DistillInv
    BY InitInv
  <1>2. DistillInv /\ [Next]_vars => DistillInv'
    BY StepKeepsInv
  <1> QED
    BY <1>1, <1>2, PTL DEF Spec

\* The rows say what runs, a job that is retried has attempts left, and the checkpoint store
\* keeps one entry per key and within maxEntries.
THEOREM DistillTypeCorrect == Spec => []TypeOK
  <1>1. DistillInv => TypeOK
    BY DEF DistillInv
  <1> QED
    BY <1>1, DistillInvariant, PTL

\* costCap: however many workers call at a time, maxCallsPerJob is passed by at most the
\* calls that were in flight when it was reached.
THEOREM CallsStayBounded == Spec => []CallsBounded
  <1>1. DistillInv => CallsBounded
    BY DEF DistillInv, RunSound, CallsBounded
  <1> QED
    BY <1>1, DistillInvariant, PTL

\* embedAndIndex: what was erased is distilled back only by a run that had already checked it.
THEOREM ErasedStaysOut == Spec => []ErasedUnlessRaced
  <1>1. DistillInv => ErasedUnlessRaced
    BY DEF DistillInv
  <1> QED
    BY <1>1, DistillInvariant, PTL

\* Only a worker that takes a chunk puts it in flight.
LEMMA OnlyTakeAsks ==
  ASSUME DistillInv, [Next]_vars, NEW j \in Jobs
  PROVE  run'[j].flying \subseteq run[j].flying \cup run[j].todo
  <1>0. run \in [Jobs -> Run] /\ run[j] \in Run /\ Idle.flying = {}
    BY InvStore DEF Idle
  <1>1. ASSUME NEW k \in Jobs, NEW q, Becomes(k, q), q.flying \subseteq run[k].flying \cup run[k].todo
        PROVE  run'[j].flying \subseteq run[j].flying \cup run[j].todo
    BY <1>0, <1>1 DEF Becomes
  <1>2. ASSUME NEW k \in Jobs, RunStart(k)
        PROVE  \E q : Becomes(k, q) /\ q.flying = {}
    <2>1. PICK kept \in SUBSET Chunks \cup {world.chunks} :
            Becomes(k, Compact(k, [Idle EXCEPT !.kept = kept]))
      BY <1>2, InvStore, WorldType DEF RunStart, Becomes
    <2>2. Compact(k, [Idle EXCEPT !.kept = kept]).flying = {}
      BY DEF Compact, Stage, Idle
    <2> QED
      BY <2>1, <2>2
  <1>3. ASSUME NEW k \in Jobs, Take(k)
        PROVE  \E q : Becomes(k, q) /\ q.flying \subseteq run[k].flying \cup run[k].todo
    <2> DEFINE r == run[k]
               c == Min(r.todo)
    <2>1. r \in Run /\ r.todo \in SUBSET Chunks /\ r.todo # {}
      BY <1>0, <1>3 DEF Run, Take
    <2>2. c \in r.todo
      BY <2>1, MinOfSet, ChunksFinite, DistillAssumption
    <2> HIDE DEF c
    <2> DEFINE next == [r EXCEPT !.todo = @ \ {c}]
    <2>3. next.flying = r.flying /\ next \in Run
      BY <2>1 DEF Run
    <2>4. \/ \E v : Becomes(k, [next EXCEPT !.res[next.stage][c] = v])
          \/ Becomes(k, [next EXCEPT !.flying = @ \cup {c}])
          \/ Becomes(k, Stop(next, "budget"))
      <3>1. \/ \E v : Keep(k, next, c, v, {})
            \/ run' = [run EXCEPT ![k] = [next EXCEPT !.flying = @ \cup {c}]]
            \/ run' = [run EXCEPT ![k] = Stop(next, "budget")]
        BY <1>3 DEF Take, c
      <3> HIDE DEF next
      <3> QED
        BY <3>1 DEF Keep, Becomes
    <2> HIDE DEF next
    <2>5. \A v : [next EXCEPT !.res[next.stage][c] = v].flying = r.flying
      BY <2>3 DEF Run
    <2>6. [next EXCEPT !.flying = @ \cup {c}].flying = r.flying \cup {c}
      BY <2>3 DEF Run
    <2>7. Stop(next, "budget").flying = r.flying
      BY <2>3 DEF Run, Stop
    <2> QED
      BY <2>2, <2>4, <2>5, <2>6, <2>7
  <1>4. ASSUME NEW k \in Jobs, NEW c \in Chunks, Answer(k, c) \/ CallFails(k, c)
        PROVE  \E q : Becomes(k, q) /\ q.flying \subseteq run[k].flying
    <2> DEFINE r    == run[k]
               back == [r EXCEPT !.flying = @ \ {c}]
               next == recordCall(back)
    <2>1. back \in Run /\ back.flying \subseteq r.flying
      BY <1>0 DEF Run
    <2>2. \/ \E v : Becomes(k, [next EXCEPT !.res[next.stage][c] = v])
          \/ Becomes(k, Stop(next, "error"))
          \/ Becomes(k, Stop(back, "error"))
      <3>1. \/ \E v, new : Keep(k, next, c, v, new)
            \/ run' = [run EXCEPT ![k] = Stop(next, "error")]
            \/ run' = [run EXCEPT ![k] = Stop(back, "error")]
        BY <1>4 DEF Answer, CallFails
      <3> HIDE DEF next, back
      <3> QED
        BY <3>1 DEF Keep, Becomes
    <2> HIDE DEF back
    <2>3. next \in Run /\ next.flying = back.flying
      BY <2>1, CountRun DEF Run
    <2> HIDE DEF next
    <2>4. /\ \A v : [next EXCEPT !.res[next.stage][c] = v].flying = next.flying
          /\ Stop(next, "error").flying = next.flying /\ Stop(back, "error").flying = back.flying
      BY <2>1, <2>3 DEF Run, Stop
    <2> QED
      BY <2>1, <2>2, <2>3, <2>4
  <1>5. ASSUME NEW k \in Jobs, StageEnd(k)
        PROVE  \E q : Becomes(k, q) /\ q.flying \subseteq run[k].flying
    <2> DEFINE r == run[k]
    <2>1. r \in Run
      BY <1>0
    <2>2. \/ \E s, chunks : Becomes(k, Stage(k, r, s, chunks))
          \/ Becomes(k, [r EXCEPT !.stage = "embed"])
      BY <1>5 DEF StageEnd, Becomes
    <2>3. /\ \A s, chunks : Stage(k, r, s, chunks).flying = r.flying
          /\ [r EXCEPT !.stage = "embed"].flying = r.flying
      BY <2>1 DEF Run, Stage
    <2> QED
      BY <2>2, <2>3
  <1>6. ASSUME NEW k \in Jobs, PhaseA(k) \/ PhaseB(k) \/ InsertAtom(k) \/ VecUpsert(k)
        PROVE  \E q : Becomes(k, q) /\ q.flying \subseteq run[k].flying
    <2>1. PICK q : Becomes(k, q) /\ RunSound(k, q) /\ q.stage \in {"triage", "insert", "vec"}
      BY <1>6, PhaseARun, PhaseBRun, InsertRun, VecRun
    <2>2. q.flying = {}
      BY <2>1 DEF RunSound, LLMStages
    <2> QED
      BY <2>1, <2>2
  <1>7. ASSUME NEW k \in Jobs, StageFails(k) \/ EmbedFails(k) \/ WriteFails(k) \/ RunDone(k)
        PROVE  Becomes(k, Idle)
    BY <1>7 DEF StageFails, EmbedFails, WriteFails, RunDone, RunFails, Becomes
  <1>8. ASSUME UNCHANGED run PROVE run'[j].flying \subseteq run[j].flying \cup run[j].todo
    BY <1>8
  <1>9. CASE Crash
    BY <1>0, <1>9 DEF Crash
  <1>10. ASSUME NEW k \in Jobs, Step(k) PROVE run'[j].flying \subseteq run[j].flying \cup run[j].todo
    BY <1>0, <1>1, <1>2, <1>3, <1>4, <1>5, <1>6, <1>7, <1>10 DEF Step, Calls
  <1>11. ASSUME NEW k \in Jobs, Resume(k) PROVE UNCHANGED run
    BY <1>11 DEF Resume
  <1>12. ASSUME NEW a \in Atoms, Erase(a) \/ Reembed(a) \/ ReembedPoisoned(a) PROVE UNCHANGED run
    BY <1>12 DEF Erase, Reembed, ReembedPoisoned
  <1>13. CleanupSweep \/ UNCHANGED vars => UNCHANGED run
    BY DEF CleanupSweep, vars
  <1> QED
    BY <1>8, <1>9, <1>10, <1>11, <1>12, <1>13 DEF Next

\* ChunkCheckpointStore: a retry asks the model only for chunks whose answer the store lost.
THEOREM PaidIsNotAskedAgain == Spec => RetryKeepsPaidWork
  <1>1. DistillInv /\ [Next]_vars =>
          \A j \in Jobs : \A c \in run'[j].flying \ run[j].flying : <<j, run[j].stage, c>> \notin paid
    BY OnlyTakeAsks DEF DistillInv, RunInStep
  <1> QED
    BY <1>1, DistillInvariant, PTL DEF Spec, RetryKeepsPaidWork

\* A job becomes done only by ending a run that had nothing left to insert.
LEMMA OnlyRunDone ==
  ASSUME DistillInv, [Next]_vars, NEW j \in Jobs, status[j] = "running", status'[j] = "done"
  PROVE  RunDone(j)
  <1>0. status \in [Jobs -> {"queued", "running", "paused", "poison", "done"}]
    BY InvRows DEF RowsSound
  <1>1. ASSUME NEW k \in Jobs, RunFails(k) PROVE FALSE
    BY <1>0, <1>1 DEF RunFails, Failed
  <1>2. ASSUME NEW k \in Jobs, Step(k), ~ RunDone(k) PROVE FALSE
    <2>1. CASE RunStart(k)
      BY <1>0, <2>1 DEF RunStart
    <2>2. CASE Take(k) \/ Calls(k) \/ StageEnd(k)
      BY <2>2 DEF Take, Calls, Answer, CallFails, StageEnd
    <2>3. CASE PhaseA(k) \/ PhaseB(k) \/ InsertAtom(k) \/ VecUpsert(k)
      BY <2>3 DEF PhaseA, PhaseB, InsertAtom, VecUpsert
    <2>4. CASE StageFails(k)
      BY <1>0, <1>1, <2>4 DEF StageFails
    <2>5. CASE EmbedFails(k) \/ WriteFails(k)
      BY <1>1, <2>5 DEF EmbedFails, WriteFails
    <2> QED
      BY <1>2, <2>1, <2>2, <2>3, <2>4, <2>5 DEF Step
  <1>3. ASSUME NEW k \in Jobs, Resume(k) PROVE FALSE
    BY <1>0, <1>3 DEF Resume
  <1>4. ASSUME NEW a \in Atoms, Erase(a) \/ Reembed(a) \/ ReembedPoisoned(a) PROVE FALSE
    BY <1>4 DEF Erase, Reembed, ReembedPoisoned
  <1>5. ~ CleanupSweep /\ ~ UNCHANGED vars
    BY DEF CleanupSweep, vars
  <1>6. ~ Crash
    BY DEF Crash
  <1>7. PICK k \in Jobs : RunDone(k)
    BY <1>2, <1>3, <1>4, <1>5, <1>6 DEF Next
  <1> QED
    BY <1>0, <1>7 DEF RunDone

\* runPipeline: a job is done only when every chunk has been through every stage, and every
\* atom found is stored, was erased, or was refused.
THEOREM DoneIsWhole == Spec => DoneMeansWhole
  <1>1. ASSUME DistillInv, [Next]_vars, NEW j \in Jobs, status[j] = "running", status'[j] = "done"
        PROVE  /\ \A c \in run[j].kept : \A s \in {"compact", "extract"} : run[j].res[s][c] # NoResult
               /\ world.passes = 2 => \A c \in SweepChunks(run[j]) : run[j].res["sweep"][c] # NoResult
               /\ AllAtoms(run[j]) \subseteq stored \cup erased \cup run[j].gated
    <2>1. run[j].stage = "insert" /\ run[j].left = {} /\ RunSound(j, run[j]) /\ RunInStep(j, run[j])
      BY <1>1, OnlyRunDone DEF RunDone, DistillInv
    <2>2. /\ Answered(run[j], "compact") /\ Answered(run[j], "extract")
          /\ world.passes = 2 => Answered(run[j], "sweep")
      BY <2>1 DEF RunSound, LLMStages
    <2>3. AllAtoms(run[j]) \subseteq run[j].gated \cup erased \cup stored
      BY <2>1 DEF RunInStep
    <2> QED
      BY <2>2, <2>3 DEF Answered, Scope
  <1>2. DistillInv /\ [Next]_vars =>
          \A j \in Jobs : status[j] = "running" /\ status'[j] = "done" =>
            /\ \A c \in run[j].kept : \A s \in {"compact", "extract"} : run[j].res[s][c] # NoResult
            /\ world.passes = 2 => \A c \in SweepChunks(run[j]) : run[j].res["sweep"][c] # NoResult
            /\ AllAtoms(run[j]) \subseteq stored \cup erased \cup run[j].gated
    BY <1>1
  <1> QED
    BY <1>2, DistillInvariant, PTL DEF Spec, DoneMeansWhole

----------------------------------------------------------------------------
(* Checkpoints and profiles.                                              *)

\* Who makes the results of a stage for a job.
Makers(j, s) == CASE s = "compact" -> {"raw", "capped", ProfileOf[j]}
                  [] s = "extract" -> {"capped", ProfileOf[j]}
                  [] s = "sweep"   -> Profiles \cup {"raw", "capped"}
OwnRun(j, r) == \A s \in LLMStages : \A c \in Chunks : r.res[s][c].by \in Makers(j, s) \cup {"none"}
OwnInv       == StoreAuthored /\ \A j \in Jobs : OwnRun(j, run[j])

\* A job that compacts when conversations are not compacted is an engineering job.
LEMMA CompactsEngineering ==
  ASSUME world.mode # "always", NEW j \in Jobs, shouldCompact(j) PROVE ProfileOf[j] = "engineering"
  BY DistillAssumption DEF shouldCompact, Profiles

\* What a stage finds in the store was made for the job's own profile.
LEMMA OwnStage ==
  ASSUME DistillInv, StoreAuthored, world.mode # "always", NEW j \in Jobs, NEW r \in Run,
         OwnRun(j, r), NEW s \in LLMStages, NEW chunks \in SUBSET Chunks,
         s = "compact" => shouldCompact(j)
  PROVE  OwnRun(j, Stage(j, r, s, chunks))
  <1> DEFINE hits  == {c \in chunks : Key(j, s, c) \in Keys(cache)}
             found == [c \in Chunks |-> IF c \in hits THEN Get(Key(j, s, c)) ELSE NoResult]
  <1>1. ASSUME NEW c \in hits PROVE Get(Key(j, s, c)).by \in Makers(j, s)
    <2>a. Get(Key(j, s, c)) \in Result
      BY InvStore, GetResult
    <2>1. PICK i \in DOMAIN cache : cache[i].key = Key(j, s, c) /\ cache[i].val = Get(Key(j, s, c))
      BY InvStore, GetResult
    <2>2. MadeFor(Key(j, s, c), Get(Key(j, s, c)).by)
      BY <2>1 DEF StoreAuthored
    <2>3. Key(j, s, c)[1] = s /\ Key(j, s, c)[2] = Variant(j, s)
      BY DEF Key
    <2>4. CASE s = "compact"
      BY <2>2, <2>3, <2>4, CompactsEngineering DEF MadeFor, Makers
    <2>5. CASE s = "extract"
      BY <2>2, <2>3, <2>5 DEF MadeFor, Makers, Variant
    <2>6. CASE s = "sweep"
      BY <2>a, <2>6 DEF Makers, Result
    <2> QED
      BY <2>4, <2>5, <2>6 DEF LLMStages
  <1>2. \A c \in Chunks : found[c].by \in Makers(j, s) \cup {"none"}
    BY <1>1 DEF NoResult
  <1>3. Stage(j, r, s, chunks).res = [r.res EXCEPT ![s] = found]
    BY DEF Stage, Run
  <1> HIDE DEF found
  <1> QED
    BY <1>2, <1>3 DEF OwnRun, Run

\* A result that the job's own call made is kept, in the run and in the store.
LEMMA OwnKeep ==
  ASSUME DistillInv, OwnInv, world.mode # "always", NEW j \in Jobs, NEW r \in Run, r.res = run[j].res,
         r.stage \in LLMStages, r.stage = "compact" => shouldCompact(j),
         NEW c \in Chunks, NEW v \in Result, v.by \in Makers(j, r.stage), NEW new,
         Keep(j, r, c, v, new), UNCHANGED world
  PROVE  OwnInv'
  <1> DEFINE k == Key(j, r.stage, c)
             q == [r EXCEPT !.res[r.stage][c] = v]
  <1>1. /\ run' = [run EXCEPT ![j] = q] /\ cache' = Put(k, v)
        /\ run \in [Jobs -> Run] /\ OwnRun(j, r)
    BY InvStore DEF Keep, Checkpoint, OwnInv, OwnRun
  <1>2. k \in KeySet /\ k[1] = r.stage /\ k[2] = Variant(j, r.stage)
    BY KeyType DEF KeySet, Key
  <1>3. MadeFor(k, v.by)
    <2> HIDE DEF k
    <2>1. CASE r.stage = "compact"
      BY <1>2, <2>1, CompactsEngineering DEF MadeFor, Makers
    <2>2. CASE r.stage = "extract"
      BY <1>2, <2>2 DEF MadeFor, Makers, Variant
    <2>3. CASE r.stage = "sweep"
      BY <1>2, <2>3 DEF MadeFor, Makers
    <2> QED
      BY <2>1, <2>2, <2>3 DEF LLMStages
  <1>4. StoreAuthored'
    <2> HIDE DEF k
    <2>1. \A i \in DOMAIN Put(k, v) :
            \/ Put(k, v)[i] = [key |-> k, val |-> v]
            \/ \E m \in DOMAIN cache : Put(k, v)[i] = cache[m]
      BY <1>2, InvStore, WorldType, PutStore
    <2>2. \A i \in DOMAIN Put(k, v) : MadeFor(Put(k, v)[i].key, Put(k, v)[i].val.by)
      BY <1>3, <2>1 DEF OwnInv, StoreAuthored
    <2> QED
      BY <1>1, <2>2 DEF StoreAuthored
  <1>5. OwnRun(j, q)
    <2>1. q.res = [r.res EXCEPT ![r.stage] = [r.res[r.stage] EXCEPT ![c] = v]]
      BY DEF Run
    <2> HIDE DEF q
    <2>2. /\ q.res[r.stage][c] = v /\ \A d \in Chunks \ {c} : q.res[r.stage][d] = r.res[r.stage][d]
          /\ \A s \in LLMStages \ {r.stage} : q.res[s] = r.res[s]
      BY <2>1 DEF Run
    <2> QED
      BY <1>1, <2>2 DEF OwnRun
  <1> HIDE DEF k, q
  <1>6. \A i \in Jobs : OwnRun(i, run'[i])
    BY <1>1, <1>5 DEF OwnInv
  <1> QED
    BY <1>4, <1>6 DEF OwnInv, OwnRun

\* A run that goes on with results made for its profile, and the store of before or less.
LEMMA OwnNext ==
  ASSUME DistillInv, OwnInv, NEW j \in Jobs, NEW q, Becomes(j, q), OwnRun(j, q),
         cache' = cache \/ cache' = <<>>
  PROVE  OwnInv'
  <1>1. \A i \in Jobs : OwnRun(i, run'[i])
    BY InvStore DEF OwnInv, Becomes
  <1>2. StoreAuthored'
    BY DEF OwnInv, StoreAuthored
  <1> QED
    BY <1>1, <1>2 DEF OwnInv, OwnRun

\* A new run holds no results.
LEMMA OwnIdle == ASSUME NEW j \in Jobs PROVE OwnRun(j, Idle)
  BY DEF OwnRun, Idle, NoResult

\* Every step keeps results and checkpoints with the profile they were made for.
LEMMA StepKeepsOwn ==
  ASSUME DistillInv, OwnInv, world.mode # "always", [Next]_vars PROVE OwnInv'
  <1>0. /\ run \in [Jobs -> Run] /\ world \in Worlds /\ StoreAuthored
        /\ \A j \in Jobs : RunSound(j, run[j]) /\ OwnRun(j, run[j])
    BY InvStore DEF DistillInv, OwnInv
  <1>1. ASSUME NEW j \in Jobs, RunStart(j) PROVE OwnInv'
    <2>1. PICK kept \in SUBSET Chunks : Becomes(j, Compact(j, [Idle EXCEPT !.kept = kept]))
      BY <1>0, <1>1, WorldType DEF RunStart, Becomes
    <2> DEFINE r == [Idle EXCEPT !.kept = kept]
    <2>2. r \in Run /\ r.kept = kept /\ r.res = Idle.res
      BY DEF Idle, Run, LLMStages
    <2>3. OwnRun(j, r)
      BY <2>2, OwnIdle DEF OwnRun
    <2> HIDE DEF r
    <2>4. OwnRun(j, Compact(j, r))
      <3>1. CASE shouldCompact(j)
        BY <1>0, <2>2, <2>3, <3>1, OwnStage DEF Compact, LLMStages
      <3>2. CASE ~ shouldCompact(j)
        <4> DEFINE raw == [c \in Chunks |-> IF c \in r.kept THEN [by |-> "raw", atoms |-> {}] ELSE NoResult]
        <4>1. \A c \in Chunks : raw[c].by \in {"raw", "none"}
          BY DEF NoResult
        <4>2. Compact(j, r).res = [r.res EXCEPT !["compact"] = raw]
          BY <2>2, <3>2 DEF Compact, Run
        <4> HIDE DEF raw
        <4> QED
          BY <2>2, <2>3, <4>1, <4>2 DEF OwnRun, Run, Makers, LLMStages
      <3> QED
        BY <3>1, <3>2
    <2>5. cache' = cache
      BY <1>1 DEF RunStart
    <2> QED
      BY <2>1, <2>4, <2>5, OwnNext DEF r
  <1>2. ASSUME NEW j \in Jobs, Take(j) PROVE OwnInv'
    <2> DEFINE r    == run[j]
               c    == Min(r.todo)
               next == [r EXCEPT !.todo = @ \ {c}]
    <2>1. r \in Run /\ RunSound(j, r) /\ r.stage \in LLMStages /\ UNCHANGED world
      BY <1>0, <1>2 DEF Take
    <2>2. r.todo \in SUBSET Chunks /\ r.todo # {}
      BY <1>2, <2>1 DEF Take, Run
    <2>3. c \in r.todo
      BY <2>2, MinOfSet, ChunksFinite, DistillAssumption
    <2>4. next \in Run /\ next.res = r.res /\ next.stage = r.stage
      BY <2>1 DEF Run
    <2>5. r.stage = "compact" => shouldCompact(j)
      BY <2>1, <2>3 DEF RunSound
    <2>6. \/ \E v : /\ Keep(j, next, c, v, {}) /\ v \in Result /\ v.by \in Makers(j, r.stage)
          \/ Becomes(j, [next EXCEPT !.flying = @ \cup {c}]) /\ cache' = cache
          \/ Becomes(j, Stop(next, "budget")) /\ cache' = cache
      <3>1. \/ r.stage = "compact" /\ Keep(j, next, c, [by |-> "raw", atoms |-> {}], {})
            \/ Keep(j, next, c, [by |-> "capped", atoms |-> {}], {})
            \/ run' = [run EXCEPT ![j] = [next EXCEPT !.flying = @ \cup {c}]] /\ cache' = cache
            \/ run' = [run EXCEPT ![j] = Stop(next, "budget")] /\ cache' = cache
        BY <1>2 DEF Take, c
      <3>2. /\ [by |-> "raw", atoms |-> {}] \in Result /\ [by |-> "capped", atoms |-> {}] \in Result
            /\ "capped" \in Makers(j, r.stage) /\ (r.stage = "compact" => "raw" \in Makers(j, r.stage))
        BY <2>1 DEF Result, Makers, LLMStages
      <3> DEFINE raw    == [by |-> "raw", atoms |-> {}]
                 capped == [by |-> "capped", atoms |-> {}]
      <3>3. raw.by = "raw" /\ capped.by = "capped"
        OBVIOUS
      <3>4. \/ Keep(j, next, c, raw, {}) /\ raw \in Result /\ raw.by \in Makers(j, r.stage)
            \/ Keep(j, next, c, capped, {}) /\ capped \in Result /\ capped.by \in Makers(j, r.stage)
            \/ Becomes(j, [next EXCEPT !.flying = @ \cup {c}]) /\ cache' = cache
            \/ Becomes(j, Stop(next, "budget")) /\ cache' = cache
        <4> HIDE DEF next, c
        <4> QED
          BY <3>1, <3>2, <3>3 DEF Becomes
      <3> HIDE DEF raw, capped, next, c, r
      <3> QED
        BY <3>4
    <2> HIDE DEF next, c
    <2>7. /\ [next EXCEPT !.flying = @ \cup {c}].res = r.res /\ Stop(next, "budget").res = r.res
      BY <2>4 DEF Run, Stop
    <2>8. OwnRun(j, [next EXCEPT !.flying = @ \cup {c}]) /\ OwnRun(j, Stop(next, "budget"))
      BY <1>0, <2>7 DEF OwnRun
    <2>9. CASE \E v : Keep(j, next, c, v, {}) /\ v \in Result /\ v.by \in Makers(j, r.stage)
      BY <2>1, <2>2, <2>3, <2>4, <2>5, <2>9, OwnKeep
    <2> QED
      BY <2>6, <2>8, <2>9, OwnNext
  <1>3. ASSUME NEW j \in Jobs, NEW c \in Chunks, Answer(j, c) \/ CallFails(j, c) PROVE OwnInv'
    <2> DEFINE r    == run[j]
               back == [r EXCEPT !.flying = @ \ {c}]
               next == recordCall(back)
    <2>1. r \in Run /\ RunSound(j, r) /\ c \in r.flying /\ UNCHANGED world
      BY <1>0, <1>3 DEF Answer, CallFails
    <2>2. r.stage \in LLMStages /\ (r.stage = "compact" => shouldCompact(j))
      BY <2>1 DEF RunSound
    <2>3. back \in Run /\ back.res = r.res /\ back.stage = r.stage
      BY <2>1 DEF Run
    <2>4. \/ \E v, new : Keep(j, next, c, v, new) /\ v \in Result /\ v.by \in Makers(j, r.stage)
          \/ Becomes(j, Stop(next, "error")) /\ cache' = cache
          \/ Becomes(j, Stop(back, "error")) /\ cache' = cache
      <3>1. \/ \E atoms \in SUBSET Atoms :
                 Keep(j, next, c, [by |-> ProfileOf[j], atoms |-> atoms], {<<j, r.stage, c>>})
            \/ run' = [run EXCEPT ![j] = Stop(next, "error")] /\ cache' = cache
            \/ run' = [run EXCEPT ![j] = Stop(back, "error")] /\ cache' = cache
        <4>1. (IF r.stage = "compact" THEN {{}} ELSE Yields[c]) \subseteq SUBSET Atoms
          BY DistillAssumption
        <4> QED
          BY <1>3, <4>1 DEF Answer, CallFails
      <3>2. ProfileOf[j] \in Profiles
        BY DistillAssumption
      <3>3. ProfileOf[j] \in Makers(j, r.stage)
        BY <2>2, <3>2 DEF Makers, LLMStages
      <3>4. \A atoms \in SUBSET Atoms : [by |-> ProfileOf[j], atoms |-> atoms] \in Result
        BY <3>2 DEF Result
      <3> DEFINE v(atoms) == [by |-> ProfileOf[j], atoms |-> atoms]
      <3>5. \A atoms : v(atoms).by = ProfileOf[j]
        OBVIOUS
      <3>6. \/ \E atoms \in SUBSET Atoms : /\ Keep(j, next, c, v(atoms), {<<j, r.stage, c>>})
                                           /\ v(atoms) \in Result /\ v(atoms).by \in Makers(j, r.stage)
            \/ Becomes(j, Stop(next, "error")) /\ cache' = cache
            \/ Becomes(j, Stop(back, "error")) /\ cache' = cache
        <4> HIDE DEF next, back
        <4> QED
          BY <3>1, <3>3, <3>4, <3>5 DEF Becomes
      <3> HIDE DEF v, next, back, r
      <3> QED
        BY <3>6
    <2> HIDE DEF back
    <2>5. next \in Run /\ next.res = r.res /\ next.stage = r.stage
      BY <2>3, CountRun DEF Run
    <2> HIDE DEF next
    <2>6. Stop(next, "error").res = r.res /\ Stop(back, "error").res = r.res
      BY <2>3, <2>5 DEF Run, Stop
    <2>7. OwnRun(j, Stop(next, "error")) /\ OwnRun(j, Stop(back, "error"))
      BY <1>0, <2>6 DEF OwnRun
    <2>8. CASE \E v, new : Keep(j, next, c, v, new) /\ v \in Result /\ v.by \in Makers(j, r.stage)
      BY <2>1, <2>2, <2>5, <2>8, OwnKeep
    <2> QED
      BY <2>4, <2>7, <2>8, OwnNext
  <1>4. ASSUME NEW j \in Jobs, StageEnd(j) PROVE OwnInv'
    <2> DEFINE r == run[j]
    <2>1. r \in Run /\ r.kept \in SUBSET Chunks /\ SweepChunks(r) \in SUBSET Chunks
      BY <1>0 DEF Run, SweepChunks
    <2>2. /\ cache' = cache
          /\ \/ \E s \in {"extract", "sweep"}, chunks \in SUBSET Chunks : Becomes(j, Stage(j, r, s, chunks))
             \/ Becomes(j, [r EXCEPT !.stage = "embed"])
      BY <1>4, <2>1 DEF StageEnd, Becomes
    <2>3. \A s \in {"extract", "sweep"}, chunks \in SUBSET Chunks : OwnRun(j, Stage(j, r, s, chunks))
      BY <1>0, <2>1, OwnStage DEF LLMStages
    <2>4. OwnRun(j, [r EXCEPT !.stage = "embed"])
      <3>1. [r EXCEPT !.stage = "embed"].res = r.res
        BY <2>1 DEF Run
      <3> QED
        BY <1>0, <3>1 DEF OwnRun
    <2> QED
      BY <2>2, <2>3, <2>4, OwnNext
  <1>5. ASSUME NEW j \in Jobs, PhaseA(j) \/ PhaseB(j) \/ InsertAtom(j) \/ VecUpsert(j) PROVE OwnInv'
    <2> DEFINE r == run[j]
    <2>1. r \in Run
      BY <1>0
    <2>2. cache' = cache
      BY <1>5 DEF PhaseA, PhaseB, InsertAtom, VecUpsert
    <2>3. \/ \E stage, gated, left : Becomes(j, [r EXCEPT !.stage = stage, !.gated = gated, !.left = left])
          \/ \E a, left : Becomes(j, [r EXCEPT !.stage = "vec", !.at = a, !.left = left])
          \/ Becomes(j, [r EXCEPT !.stage = "insert", !.at = NoAtom])
      <3>1. CASE PhaseA(j)
        BY <3>1 DEF PhaseA, Becomes
      <3>2. CASE PhaseB(j)
        BY <3>2 DEF PhaseB, Becomes
      <3>3. CASE InsertAtom(j) \/ VecUpsert(j)
        BY <3>3 DEF InsertAtom, VecUpsert, Becomes
      <3> QED
        BY <1>5, <3>1, <3>2, <3>3
    <2>4. /\ \A stage, gated, left : [r EXCEPT !.stage = stage, !.gated = gated, !.left = left].res = r.res
          /\ \A a, left : [r EXCEPT !.stage = "vec", !.at = a, !.left = left].res = r.res
          /\ [r EXCEPT !.stage = "insert", !.at = NoAtom].res = r.res
      BY <2>1 DEF Run
    <2>5. \E q : Becomes(j, q) /\ q.res = r.res
      <3>1. CASE \E stage, gated, left : Becomes(j, [r EXCEPT !.stage = stage, !.gated = gated, !.left = left])
        <4>1. PICK stage, gated, left :
                Becomes(j, [r EXCEPT !.stage = stage, !.gated = gated, !.left = left])
          BY <3>1
        <4> DEFINE q == [r EXCEPT !.stage = stage, !.gated = gated, !.left = left]
        <4>2. Becomes(j, q) /\ q.res = r.res
          BY <2>4, <4>1
        <4> HIDE DEF q, r
        <4> QED
          BY <4>2
      <3>2. CASE \E a, left : Becomes(j, [r EXCEPT !.stage = "vec", !.at = a, !.left = left])
        <4>1. PICK a, left : Becomes(j, [r EXCEPT !.stage = "vec", !.at = a, !.left = left])
          BY <3>2
        <4> DEFINE q == [r EXCEPT !.stage = "vec", !.at = a, !.left = left]
        <4>2. Becomes(j, q) /\ q.res = r.res
          BY <2>4, <4>1
        <4> HIDE DEF q, r
        <4> QED
          BY <4>2
      <3>3. CASE Becomes(j, [r EXCEPT !.stage = "insert", !.at = NoAtom])
        BY <2>4, <3>3
      <3> QED
        BY <2>3, <3>1, <3>2, <3>3
    <2>6. \A q : q.res = r.res => OwnRun(j, q)
      BY <1>0 DEF OwnRun
    <2> QED
      BY <2>2, <2>5, <2>6, OwnNext
  <1>6. ASSUME NEW j \in Jobs, StageFails(j) \/ EmbedFails(j) \/ WriteFails(j) \/ RunDone(j)
        PROVE  OwnInv'
    <2>1. Becomes(j, Idle)
      BY <1>6 DEF StageFails, EmbedFails, WriteFails, RunDone, RunFails, Becomes
    <2>2. cache' = cache \/ cache' = <<>>
      BY <1>6 DEF StageFails, EmbedFails, WriteFails, RunDone, Checkpoint
    <2> QED
      BY <2>1, <2>2, OwnIdle, OwnNext
  <1>7. ASSUME UNCHANGED <<run, cache>> PROVE OwnInv'
    BY <1>0, <1>7 DEF OwnInv, OwnRun, StoreAuthored
  <1>8. ASSUME NEW j \in Jobs, Resume(j) PROVE OwnInv'
    BY <1>7, <1>8 DEF Resume
  <1>9. ASSUME NEW a \in Atoms, Erase(a) \/ Reembed(a) \/ ReembedPoisoned(a) PROVE OwnInv'
    BY <1>7, <1>9 DEF Erase, Reembed, ReembedPoisoned
  <1>10. CASE CleanupSweep \/ UNCHANGED vars
    BY <1>7, <1>10 DEF CleanupSweep, vars
  <1>11. CASE Crash
    <2>1. cache' = <<>> /\ run' = [j \in Jobs |-> Idle]
      BY <1>11 DEF Crash
    <2>2. \A j \in Jobs : OwnRun(j, run'[j])
      BY <2>1, OwnIdle
    <2> QED
      BY <2>1, <2>2 DEF OwnInv, OwnRun, StoreAuthored
  <1> QED
    BY <1>1, <1>2, <1>3, <1>4, <1>5, <1>6, <1>8, <1>9, <1>10, <1>11 DEF Next, Step, Calls

\* ChunkCheckpointStore.key: unless conversations are compacted too (the key of compact has no
\* profile), a run never takes for its own what a job over the same content left under the
\* other profile.
THEOREM OwnCheckpoints ==
  ASSUME \A w \in Worlds : w.mode # "always" PROVE Spec => []OwnProfile
  <1>1. Init => OwnInv
    <2> SUFFICES ASSUME Init PROVE OwnInv
      OBVIOUS
    <2>1. \A j \in Jobs : OwnRun(j, run[j])
      BY OwnIdle DEF Init
    <2> QED
      BY <2>1 DEF Init, OwnInv, StoreAuthored
  <1>2. DistillInv /\ OwnInv /\ [Next]_vars => OwnInv'
    BY StepKeepsOwn, InvStore
  <1>3. OwnInv => OwnProfile
    BY DEF OwnInv, OwnRun, Makers, OwnProfile, LLMStages
  <1> QED
    BY <1>1, <1>2, <1>3, DistillInvariant, PTL DEF Spec
===============================================================================
