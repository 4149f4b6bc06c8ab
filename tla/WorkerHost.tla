------------------------------ MODULE WorkerHost ------------------------------
(***************************************************************************)
(* The hosts of the two worker threads: OnnxWorkerHostProvider ("onnx":    *)
(* embeddings) and VecSearchWorkerHost ("vec": nearest neighbours).  Both  *)
(* spawn a thread on demand, wait for its ready handshake, post requests   *)
(* under fresh ids, keep them in a pending map and settle each on a reply, *)
(* a timeout, an abort or the end of the thread.  A search that fails for  *)
(* another reason than its timeout is served by a scan on the main thread. *)
(*                                                                         *)
(* A step is one turn of the event loop: a call, or an event with all the  *)
(* promise continuations it releases.  The scans of the searches it fails  *)
(* are among them: a scan is one synchronous query, and fallbackChain goes *)
(* on to the next from a continuation, with no turn in between.  Threads   *)
(* are numbered in the order of their spawn.  health() is a call of        *)
(* embed() whose failures are answers, preload() one that posts nothing.   *)
(* The threads are external: they load, answer in any order, and crash.    *)
(***************************************************************************)
EXTENDS Integers, FiniteSets

CONSTANTS
  Kinds,      \* the hosts to consider: "onnx", "vec"
  Calls,      \* calls of embed() or search()
  MaxWorkers, \* bound: threads ever spawned
  MaxFaults   \* bound: crashes, failed loads, error replies, aborts, together

ASSUME WorkerHostAssumption ==
  /\ Kinds \subseteq {"onnx", "vec"}
  /\ Calls \subseteq Nat \ {0} /\ IsFiniteSet(Calls)
  /\ MaxWorkers \in Nat /\ MaxFaults \in Nat

VARIABLES
  kind,        \* which host
  life,        \* life[w]: the thread
  promise,     \* promise[w]: what ensureWorker returned when it spawned w
  worker,      \* this.worker, 0 for null
  readyPromise,\* this.readyPromise: the thread it is about, 0 for null
  nextId,
  pending,     \* pendingEmbeds, pending: pairs <<id, call>>
  held,        \* held[w]: requests posted to w and not answered
  call,        \* the calls
  stopped,     \* terminate() or stop() was called
  faults       \* of MaxFaults, used up

vars == <<kind, life, promise, worker, readyPromise, nextId, pending, held, call,
          stopped, faults>>

Workers == 1 .. MaxWorkers
Alive   == {"loading", "ready", "unloaded"}

\* await: for ensureWorker; posted: for the thread.
Settled == {"answered", "rejected", "timedout"}
PCs     == {"idle", "await", "posted"} \cup Settled
Call    == [pc : PCs, on : 0 .. MaxWorkers, got : {0} \cup Calls, aborted : {"yes", "no"}]

\* The type of the threads, the promises and the calls; the pending
\* map and the threads hold only ids that were given out.
TypeOK ==
  /\ kind \in Kinds
  /\ life \in [Workers -> {"none", "dying", "gone"} \cup Alive]
  /\ promise \in [Workers -> {"none", "pending", "resolved", "rejected"}]
  /\ worker \in 0 .. MaxWorkers /\ readyPromise \in 0 .. MaxWorkers
  /\ nextId \in Nat \ {0}
  /\ pending \subseteq (1 .. nextId - 1) \X Calls
  /\ held \in [Workers -> SUBSET ((1 .. nextId - 1) \X Calls)]
  /\ call \in [Calls -> Call]
  /\ stopped \in {"yes", "no"} /\ faults \in Nat

Init ==
  /\ kind \in Kinds
  /\ life = [w \in Workers |-> "none"]
  /\ promise = [w \in Workers |-> "none"]
  /\ worker = 0 /\ readyPromise = 0
  /\ nextId = 1 /\ pending = {}
  /\ held = [w \in Workers |-> {}]
  /\ call = [c \in Calls |-> [pc |-> "idle", on |-> 0, got |-> 0, aborted |-> "no"]]
  /\ stopped = "no" /\ faults = 0

Fault == faults < MaxFaults /\ faults' = faults + 1

-------------------------------------------------------------------------------
(* What becomes of calls.                                                  *)

Before(S, c)  == {b \in S : b < c}
Highest(S)    == CHOOSE c \in S : \A b \in S : b <= c
Rank(S, c)    == Cardinality(Before(S, c))
Awaiting(w)   == {c \in Calls : call[c].pc = "await" /\ call[c].on = w}
InFlight      == {p[2] : p \in pending}

\* The calls in S fail.  embed() rejects; search() scans, and a scan may throw.
Fail(S) ==
  \E scanned \in SUBSET {c \in S : kind = "vec"} :
    call' = [c \in Calls |-> IF c \notin S THEN call[c]
                             ELSE IF c \in scanned THEN [call[c] EXCEPT !.pc = "answered", !.got = c]
                             ELSE [call[c] EXCEPT !.pc = "rejected"]]

\* Mutant: ids start again at 1 with a new thread.
Post_IdsPerWorker(S) ==
  LET used     == {h[1] : h \in held[worker]}
      first    == IF used = {} THEN 1 ELSE Highest(used) + 1
      posts    == {<<first + Rank(S, c), c>> : c \in S}
  IN
  /\ pending' = pending \cup posts
  /\ held' = [held EXCEPT ![worker] = @ \cup posts]
  /\ nextId' = nextId + Cardinality(S)
  /\ call' = [c \in Calls |-> IF c \in S THEN [call[c] EXCEPT !.pc = "posted", !.on = worker]
                                          ELSE call[c]]

\* The calls in S take an id and post their request to this.worker.
Post(S) ==
  LET posts == {<<nextId + Rank(S, c), c>> : c \in S} IN
  /\ pending' = pending \cup posts
  /\ held' = [held EXCEPT ![worker] = @ \cup posts]
  /\ nextId' = nextId + Cardinality(S)
  /\ call' = [c \in Calls |-> IF c \in S THEN [call[c] EXCEPT !.pc = "posted", !.on = worker]
                                          ELSE call[c]]

\* They go on after the handshake: this.worker may be another thread by now, or
\* none.
Resume(S) ==
  IF worker = 0 THEN Fail(S) /\ UNCHANGED <<pending, held, nextId>>
                ELSE Post(S)

Drop(c) == pending' = {p \in pending : p[2] # c}

-------------------------------------------------------------------------------
(* Calls.                                                                  *)

\* stop() comes after the offload was taken away from the search layer.
Start(c) == call[c].pc = "idle" /\ (kind = "onnx" \/ stopped = "no")

Reusable == readyPromise # 0 /\ (kind = "onnx" => worker # 0)

\* ensureWorker with a live promise: the call shares it.
CallShares(c) ==
  /\ Start(c) /\ Reusable
  /\ IF promise[readyPromise] = "resolved" THEN Resume({c})
     ELSE /\ call' = [call EXCEPT ![c].pc = "await", ![c].on = readyPromise]
          /\ UNCHANGED <<pending, held, nextId>>
  /\ UNCHANGED <<kind, life, promise, worker, readyPromise, stopped, faults>>

\* ensureWorker without one: it spawns a thread.
CallSpawns(c) ==
  /\ Start(c) /\ ~ Reusable
  /\ \E w \in Workers :
       /\ life[w] = "none" /\ \A v \in 1 .. w - 1 : life[v] # "none"
       /\ life' = [life EXCEPT ![w] = "loading"]
       /\ promise' = [promise EXCEPT ![w] = "pending"]
       /\ worker' = w /\ readyPromise' = w
       /\ call' = [call EXCEPT ![c].pc = "await", ![c].on = w]
  /\ UNCHANGED <<kind, nextId, pending, held, stopped, faults>>

\* The factory throws.
SpawnThrows(c) ==
  /\ Start(c) /\ ~ Reusable /\ Fault
  /\ Fail({c})
  /\ UNCHANGED <<kind, life, promise, worker, readyPromise, nextId, pending, held, stopped>>

\* The timer of a posted request.  Neither host stops the thread: a cancel message
\* reaches it between two texts, and its reply is dropped either way.
CallTimeout(c) ==
  /\ call[c].pc = "posted"
  /\ Drop(c)
  /\ call' = [call EXCEPT ![c].pc = "timedout"]
  /\ UNCHANGED <<kind, life, promise, worker, readyPromise, nextId, held,
                 stopped, faults>>

\* The signal of an embed() fires.  It is looked at when the call starts, and
\* listened to from the post on: in between nobody notices.
Abort(c) ==
  /\ kind = "onnx" /\ Fault
  /\ call[c].pc \in {"idle", "await", "posted"} /\ call[c].aborted = "no"
  /\ call' = [call EXCEPT ![c].aborted = "yes",
                          ![c].pc = IF @ = "await" THEN @ ELSE "rejected"]
  /\ Drop(c)
  /\ UNCHANGED <<kind, life, promise, worker, readyPromise, nextId, held, stopped>>

-------------------------------------------------------------------------------
(* Events of the threads.  No handler asks whether its thread is still     *)
(* this.worker.                                                            *)

Forget == worker' = 0 /\ readyPromise' = 0

Ready(w) ==
  /\ life[w] = "loading"
  /\ life' = [life EXCEPT ![w] = "ready"]
  /\ IF promise[w] = "pending"
     THEN promise' = [promise EXCEPT ![w] = "resolved"] /\ Resume(Awaiting(w))
     ELSE UNCHANGED <<promise, pending, held, nextId, call>>
  /\ UNCHANGED <<kind, worker, readyPromise, stopped, faults>>

\* The promise of w is rejected and the fields are cleared.
RejectSpawn(w) ==
  /\ promise[w] = "pending"
  /\ promise' = [promise EXCEPT ![w] = "rejected"]
  /\ Fail(Awaiting(w))
  /\ Forget

\* The model cannot be loaded: the thread says so, and stays.
ReadyError(w) ==
  /\ kind = "onnx" /\ life[w] = "loading" /\ Fault
  /\ life' = [life EXCEPT ![w] = "unloaded"]
  /\ \/ RejectSpawn(w)
     \/ promise[w] # "pending"
        /\ UNCHANGED <<promise, call, worker, readyPromise>>
  /\ UNCHANGED <<kind, nextId, pending, held, stopped>>

\* The spawn timer: the thread is not terminated.
SpawnTimeout(w) ==
  /\ RejectSpawn(w)
  /\ UNCHANGED <<kind, life, nextId, pending, held, stopped, faults>>

\* Mutant: a thread that ends before it is ready leaves its promise alone.
Crashed_PromiseLeft(w) ==
  /\ Fail(InFlight)
  /\ pending' = {}
  /\ Forget
  /\ promise' = [promise EXCEPT ![w] = IF @ = "pending" THEN "resolved" ELSE @]

\* handleWorkerCrash, failAll and teardown: everything in flight fails, on
\* whichever thread.
Crashed(w) ==
  /\ promise' = [promise EXCEPT ![w] = IF @ = "pending" THEN "rejected" ELSE @]
  /\ Fail(InFlight \cup Awaiting(w))
  /\ pending' = {}
  /\ Forget

\* An uncaught exception: 'error' now, 'exit' when the thread has ended.
WorkerError(w) ==
  /\ life[w] \in Alive /\ Fault
  /\ life' = [life EXCEPT ![w] = "dying"]
  /\ Crashed(w)
  /\ UNCHANGED <<kind, nextId, held, stopped>>

\* Mutant: what is in flight was failed by 'error' already.
WorkerExit_ErrorDidIt(w) ==
  /\ \/ life[w] = "dying" /\ UNCHANGED faults
     \/ life[w] \in Alive /\ Fault
  /\ life' = [life EXCEPT ![w] = "gone"]
  /\ promise' = [promise EXCEPT ![w] = IF @ = "pending" THEN "rejected" ELSE @]
  /\ Fail(Awaiting(w))
  /\ Forget
  /\ UNCHANGED <<kind, nextId, pending, held, stopped>>

\* The thread ends, after its error, after terminate(), or all at once.
WorkerExit(w) ==
  /\ \/ life[w] = "dying" /\ UNCHANGED faults
     \/ life[w] \in Alive /\ Fault
  /\ life' = [life EXCEPT ![w] = "gone"]
  /\ Crashed(w)
  /\ UNCHANGED <<kind, nextId, held, stopped>>

\* A reply, good or bad, to a request in the map; any other is dropped.
Reply(w, h) ==
  /\ life[w] \in {"ready", "unloaded"} /\ h \in held[w]
  /\ held' = [held EXCEPT ![w] = @ \ {h}]
  /\ \/ /\ \A p \in pending : p[1] # h[1]
        /\ UNCHANGED <<pending, call, faults>>
     \/ \E p \in pending :
          /\ p[1] = h[1]
          /\ pending' = pending \ {p}
          /\ \/ /\ call' = [call EXCEPT ![p[2]].pc = "answered", ![p[2]].got = h[2]]
                /\ UNCHANGED faults
             \/ Fault /\ Fail({p[2]})
  /\ UNCHANGED <<kind, life, promise, worker, readyPromise, nextId, stopped>>

\* terminate() fails what is in flight itself, stop() leaves that to 'exit'.
Terminate ==
  /\ stopped = "no"
  /\ stopped' = "yes"
  /\ Forget
  /\ life' = IF worker # 0 THEN [life EXCEPT ![worker] = "dying"] ELSE life
  /\ IF kind = "onnx" /\ worker # 0
     THEN Fail(InFlight) /\ pending' = {}
     ELSE UNCHANGED <<call, pending>>
  /\ UNCHANGED <<kind, promise, nextId, held, faults>>

-------------------------------------------------------------------------------
CallStep(c) ==
  \/ CallShares(c) \/ CallSpawns(c) \/ SpawnThrows(c)
  \/ CallTimeout(c) \/ Abort(c)

WorkerStep(w) ==
  \/ Ready(w) \/ ReadyError(w) \/ SpawnTimeout(w) \/ WorkerError(w) \/ WorkerExit(w)
  \/ \E h \in held[w] : Reply(w, h)

Next ==
  \/ \E c \in Calls : CallStep(c)
  \/ \E w \in Workers : WorkerStep(w)
  \/ Terminate

\* Timers fire: the event loop runs.  Nothing is asked of the threads.
Fairness ==
  /\ \A w \in Workers : WF_vars(SpawnTimeout(w))
  /\ \A c \in Calls : WF_vars(CallTimeout(c))

Spec == Init /\ [][Next]_vars /\ Fairness

-------------------------------------------------------------------------------
(* Properties.                                                             *)

\* A call is answered with what was computed for it, also when threads it no longer
\* knows of answer late (the ids of nextId outlive a respawn).
AnswersMatch == \A c \in Calls : call[c].got \in {0, c}

\* "No pending message is ever leaked": the map holds exactly the calls that wait for
\* a reply, each once; and none waits for a thread that has ended ("never lets one
\* hang to its own timeout").
NothingLeaks ==
  /\ InFlight = {c \in Calls : call[c].pc = "posted"}
  /\ \A p, q \in pending : p # q => p[1] # q[1] /\ p[2] # q[2]
  /\ \A c \in InFlight : life[call[c].on] # "gone"

\* What the safety properties rest on, in two more parts.

\* this.worker is a thread that has not ended, and requests are posted to threads.
HostKnowsItsThread ==
  /\ worker # 0 => life[worker] \in Alive
  /\ \A c \in Calls : call[c].pc = "posted" => call[c].on \in Workers

\* A thread, also one the host has given up, answers an id for the call that took it.
RepliesFit == \A w \in Workers : \A h \in held[w], p \in pending : h[1] = p[1] => h[2] = p[2]

HostInv == HostKnowsItsThread /\ RepliesFit /\ NothingLeaks /\ AnswersMatch

\* Every call is settled in the end, whatever the threads do.
CallsSettle == \A c \in Calls : []<>(call[c].pc \in Settled \cup {"idle"})
===============================================================================
