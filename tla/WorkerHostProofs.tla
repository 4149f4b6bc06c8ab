--------------------------- MODULE WorkerHostProofs ---------------------------
(***************************************************************************)
(* Machine-checked proofs about WorkerHost, for any number of calls,       *)
(* threads and faults, and for either host.                                *)
(***************************************************************************)
EXTENDS WorkerHost, FiniteSetTheorems, TLAPS

-------------------------------------------------------------------------------
(* Calls in the order of their start.                                      *)

\* The calls that go before a call get the lower ids.
LEMMA RankOrders ==
  ASSUME NEW S \in SUBSET Calls
  PROVE  /\ Cardinality(S) \in Nat
         /\ \A c \in S : Rank(S, c) \in Nat /\ Rank(S, c) < Cardinality(S)
         /\ \A b, c \in S : b # c => Rank(S, b) # Rank(S, c)
  <1>1. IsFiniteSet(S) /\ S \subseteq Nat
    BY FS_Subset, WorkerHostAssumption
  <1>2. \A U, V \in SUBSET S : U \subseteq V /\ U # V =>
          /\ Cardinality(U) \in Nat /\ Cardinality(V) \in Nat
          /\ Cardinality(U) < Cardinality(V)
    <2> SUFFICES ASSUME NEW U \in SUBSET S, NEW V \in SUBSET S, U \subseteq V, U # V
                 PROVE  /\ Cardinality(U) \in Nat /\ Cardinality(V) \in Nat
                        /\ Cardinality(U) < Cardinality(V)
      OBVIOUS
    <2>1. IsFiniteSet(V)
      BY <1>1, FS_Subset
    <2>2. IsFiniteSet(U) /\ Cardinality(U) <= Cardinality(V) /\ (Cardinality(V) = Cardinality(U) => V = U)
      BY <2>1, FS_Subset
    <2>3. Cardinality(U) \in Nat /\ Cardinality(V) \in Nat
      BY <2>1, <2>2, FS_CardinalityType
    <2> QED
      BY <2>2, <2>3
  <1>3. Cardinality(S) \in Nat
    BY <1>1, FS_CardinalityType
  <1>4. \A c \in S : Before(S, c) \subseteq S /\ Before(S, c) # S
    BY <1>1 DEF Before
  <1>5. \A b, c \in S : b < c => Before(S, b) \subseteq Before(S, c) /\ Before(S, b) # Before(S, c)
    <2> SUFFICES ASSUME NEW b \in S, NEW c \in S, b < c
                 PROVE  Before(S, b) \subseteq Before(S, c) /\ Before(S, b) # Before(S, c)
      OBVIOUS
    <2> b \in Nat /\ c \in Nat
      BY <1>1
    <2>1. \A a \in Nat : a < b => a < c
      OBVIOUS
    <2>2. Before(S, b) \subseteq Before(S, c)
      BY <1>1, <2>1 DEF Before
    <2>3. b \in Before(S, c) /\ b \notin Before(S, b)
      BY DEF Before
    <2> QED
      BY <2>2, <2>3
  <1>6. \A b, c \in S : b < c => Rank(S, b) < Rank(S, c) /\ Rank(S, b) \in Nat /\ Rank(S, c) \in Nat
    BY <1>2, <1>4, <1>5 DEF Rank
  <1>7. \A b, c \in S : b # c => b < c \/ c < b
    BY <1>1
  <1> QED
    BY <1>2, <1>3, <1>4, <1>6, <1>7 DEF Rank

-------------------------------------------------------------------------------
(* Type correctness.                                                       *)

\* The calls in flight are calls.
LEMMA InFlightType ==
  ASSUME TypeOK
  PROVE  InFlight \in SUBSET Calls /\ \A w : Awaiting(w) \in SUBSET Calls
  BY DEF TypeOK, InFlight, Awaiting

\* Failing the calls in flight (onnx-worker-host.ts, failAllInFlight) keeps the calls calls.
LEMMA FailType ==
  ASSUME TypeOK, NEW S \in SUBSET Calls, Fail(S)
  PROVE  call' \in [Calls -> Call]
  <1>1. PICK scanned \in SUBSET {c \in S : kind = "vec"} :
          call' = [c \in Calls |-> IF c \notin S THEN call[c]
                                   ELSE IF c \in scanned THEN [call[c] EXCEPT !.pc = "answered", !.got = c]
                                   ELSE [call[c] EXCEPT !.pc = "rejected"]]
    BY DEF Fail
  <1>2. ASSUME NEW c \in Calls PROVE call'[c] \in Call
    <2>1. call[c] \in Call
      BY DEF TypeOK
    <2>2. /\ [call[c] EXCEPT !.pc = "answered", !.got = c] \in Call
          /\ [call[c] EXCEPT !.pc = "rejected"] \in Call
      BY <2>1 DEF Call, PCs, Settled
    <2> QED
      BY <1>1, <2>1, <2>2
  <1> QED
    BY <1>1, <1>2

\* A call that changes its place and nothing else, or also the thread it is about.
LEMMA PlaceType ==
  ASSUME TypeOK, NEW c \in Calls, NEW p \in PCs, NEW w \in 0 .. MaxWorkers, NEW a \in {"yes", "no"}
  PROVE  /\ [call EXCEPT ![c].pc = p] \in [Calls -> Call]
         /\ [call EXCEPT ![c].pc = p, ![c].on = w] \in [Calls -> Call]
         /\ [call EXCEPT ![c].aborted = a, ![c].pc = p] \in [Calls -> Call]
  <1>1. \A r \in Call : /\ [r EXCEPT !.pc = p] \in Call
                        /\ [r EXCEPT !.on = w] \in Call
                        /\ [r EXCEPT !.aborted = a] \in Call
    BY DEF Call
  <1>2. \A f \in [Calls -> Call] : /\ [f EXCEPT ![c].pc = p] \in [Calls -> Call]
                                   /\ [f EXCEPT ![c].on = w] \in [Calls -> Call]
                                   /\ [f EXCEPT ![c].aborted = a] \in [Calls -> Call]
    BY <1>1
  <1> QED
    BY <1>2 DEF TypeOK

\* Posting a request keeps the calls and the thread's inbox well typed.
LEMMA PostType ==
  ASSUME TypeOK, NEW S \in SUBSET Calls, worker # 0, Post(S)
  PROVE  /\ pending' \subseteq (1 .. nextId' - 1) \X Calls
         /\ held' \in [Workers -> SUBSET ((1 .. nextId' - 1) \X Calls)]
         /\ nextId' \in Nat \ {0}
         /\ call' \in [Calls -> Call]
  <1> DEFINE posts == {<<nextId + Rank(S, c), c>> : c \in S}
             n     == Cardinality(S)
  <1>1. n \in Nat /\ \A c \in S : Rank(S, c) \in Nat /\ Rank(S, c) < n
    BY RankOrders
  <1>2. nextId \in Nat \ {0} /\ nextId' = nextId + n /\ nextId' \in Nat \ {0}
    <2>1. nextId' = nextId + n /\ nextId \in Nat \ {0}
      BY DEF Post, TypeOK
    <2> HIDE DEF n
    <2> QED
      BY <1>1, <2>1
  <1>3. posts \subseteq (1 .. nextId' - 1) \X Calls
    <2> HIDE DEF n
    <2>1. \A c \in S : nextId + Rank(S, c) \in 1 .. nextId' - 1
      BY <1>1, <1>2
    <2> QED
      BY <2>1
  <1>4. (1 .. nextId - 1) \X Calls \subseteq (1 .. nextId' - 1) \X Calls
    <2> HIDE DEF n
    <2>1. 1 .. nextId - 1 \subseteq 1 .. nextId' - 1
      BY <1>1, <1>2
    <2> QED
      BY <2>1
  <1>5. pending' = pending \cup posts /\ held' = [held EXCEPT ![worker] = @ \cup posts]
    BY DEF Post
  <1>6. worker \in Workers
    BY DEF TypeOK, Workers
  <1>7. call' \in [Calls -> Call]
    <2>1. \A c \in Calls : [call[c] EXCEPT !.pc = "posted", !.on = worker] \in Call
      <3>1. worker \in 0 .. MaxWorkers /\ \A c \in Calls : call[c] \in Call
        BY DEF TypeOK
      <3>2. \A r \in Call : [r EXCEPT !.pc = "posted", !.on = worker] \in Call
        BY <3>1 DEF Call, PCs
      <3> QED
        BY <3>1, <3>2
    <2> QED
      BY <2>1 DEF Post, TypeOK
  <1> HIDE DEF posts, n
  <1>8. pending' \subseteq (1 .. nextId' - 1) \X Calls
    BY <1>3, <1>4, <1>5 DEF TypeOK
  <1>9. held' \in [Workers -> SUBSET ((1 .. nextId' - 1) \X Calls)]
    BY <1>3, <1>4, <1>5, <1>6 DEF TypeOK
  <1> QED
    BY <1>2, <1>7, <1>8, <1>9

\* The part of the state the calls and the map make up.
TypesOfCalls ==
  /\ pending \subseteq (1 .. nextId - 1) \X Calls
  /\ held \in [Workers -> SUBSET ((1 .. nextId - 1) \X Calls)]
  /\ nextId \in Nat \ {0}
  /\ call \in [Calls -> Call]

\* Waking the calls that waited for the thread keeps them well typed.
LEMMA ResumeType ==
  ASSUME TypeOK, NEW S \in SUBSET Calls, Resume(S)
  PROVE  TypesOfCalls'
  <1>1. CASE worker = 0
    BY <1>1, FailType DEF Resume, TypesOfCalls, TypeOK
  <1>2. CASE worker # 0
    BY <1>2, PostType DEF Resume, TypesOfCalls, TypeOK
  <1> QED
    BY <1>1, <1>2

\* A host that has started no thread is well typed.
LEMMA InitTypeOK == Init => TypeOK
  BY WorkerHostAssumption DEF Init, TypeOK, Call, PCs, Alive

\* Every event keeps the fields of the host, the map, the threads and the calls well
\* typed.
LEMMA NextTypeOK == TypeOK /\ [Next]_vars => TypeOK'
  <1> SUFFICES ASSUME TypeOK, [Next]_vars
               PROVE  TypeOK'
    OBVIOUS
  <1> USE WorkerHostAssumption
  <1>1. TypesOfCalls
    BY DEF TypeOK, TypesOfCalls
  <1>2. ASSUME NEW c \in Calls, CallStep(c) PROVE TypeOK'
    <2> {c} \in SUBSET Calls
      OBVIOUS
    <2>1. CASE CallShares(c)
      <3>1. CASE Resume({c})
        BY <2>1, <3>1, ResumeType DEF CallShares, TypesOfCalls, TypeOK
      <3>2. CASE /\ call' = [call EXCEPT ![c].pc = "await", ![c].on = readyPromise]
                 /\ UNCHANGED <<pending, held, nextId>>
        <4>1. call' \in [Calls -> Call]
          BY <3>2, PlaceType DEF TypeOK, PCs
        <4> QED
          BY <2>1, <3>2, <4>1 DEF CallShares, TypeOK
      <3> QED
        BY <2>1, <3>1, <3>2 DEF CallShares
    <2>2. CASE CallSpawns(c)
      <3>1. PICK w \in Workers :
               /\ life' = [life EXCEPT ![w] = "loading"]
               /\ promise' = [promise EXCEPT ![w] = "pending"]
               /\ worker' = w /\ readyPromise' = w
               /\ call' = [call EXCEPT ![c].pc = "await", ![c].on = w]
        BY <2>2 DEF CallSpawns
      <3>2. w \in 0 .. MaxWorkers
        BY DEF Workers
      <3>3. call' \in [Calls -> Call]
        BY <3>1, <3>2, PlaceType DEF TypeOK, PCs
      <3> QED
        BY <2>2, <3>1, <3>2, <3>3 DEF CallSpawns, TypeOK, Alive
    <2>3. CASE SpawnThrows(c)
      BY <2>3, FailType DEF SpawnThrows, Fault, TypeOK
    <2>4. CASE CallTimeout(c)
      BY <2>4 DEF CallTimeout, Drop, TypeOK, Call, PCs, Settled
    <2>5. CASE Abort(c)
      <3>1. PICK p \in PCs : call' = [call EXCEPT ![c].aborted = "yes", ![c].pc = p]
        BY <2>5 DEF Abort, TypeOK, PCs, Settled
      <3>2. call' \in [Calls -> Call]
        BY <3>1, PlaceType DEF TypeOK
      <3> QED
        BY <2>5, <3>2 DEF Abort, Drop, Fault, TypeOK
    <2> QED
      BY <1>2, <2>1, <2>2, <2>3, <2>4, <2>5 DEF CallStep
  <1>3. ASSUME NEW w \in Workers, WorkerStep(w) PROVE TypeOK'
    <2>1. CASE Ready(w)
      <3>1. CASE Resume(Awaiting(w)) /\ promise' = [promise EXCEPT ![w] = "resolved"]
        BY <2>1, <3>1, ResumeType, InFlightType DEF Ready, TypesOfCalls, TypeOK, Alive
      <3>2. CASE UNCHANGED <<promise, pending, held, nextId, call>>
        BY <2>1, <3>2 DEF Ready, TypeOK, Alive
      <3> QED
        BY <2>1, <3>1, <3>2 DEF Ready
    <2>2. CASE ReadyError(w)
      <3>1. CASE RejectSpawn(w)
        BY <2>2, <3>1, FailType, InFlightType
        DEF ReadyError, RejectSpawn, Forget, Fault, TypeOK, Alive
      <3>2. CASE UNCHANGED <<promise, call, worker, readyPromise>>
        BY <2>2, <3>2 DEF ReadyError, Fault, TypeOK, Alive
      <3> QED
        BY <2>2, <3>1, <3>2 DEF ReadyError
    <2>3. CASE SpawnTimeout(w)
      BY <2>3, FailType, InFlightType DEF SpawnTimeout, RejectSpawn, Forget, TypeOK
    <2>4. ASSUME Crashed(w) PROVE /\ promise' \in [Workers -> {"none", "pending", "resolved", "rejected"}]
                                  /\ pending' = {} /\ worker' = 0 /\ readyPromise' = 0
                                  /\ call' \in [Calls -> Call]
      BY <2>4, FailType, InFlightType DEF Crashed, Forget, TypeOK
    <2>5. CASE WorkerError(w)
      BY <2>4, <2>5 DEF WorkerError, Fault, TypeOK
    <2>6. CASE WorkerExit(w)
      BY <2>4, <2>6 DEF WorkerExit, Fault, TypeOK
    <2>7. ASSUME NEW h \in held[w], Reply(w, h) PROVE TypeOK'
      <3>1. held' \in [Workers -> SUBSET ((1 .. nextId - 1) \X Calls)]
        BY <2>7 DEF Reply, TypeOK
      <3>2. CASE UNCHANGED <<pending, call, faults>>
        BY <2>7, <3>1, <3>2 DEF Reply, TypeOK
      <3>3. ASSUME NEW p \in pending, pending' = pending \ {p},
                   call' = [call EXCEPT ![p[2]].pc = "answered", ![p[2]].got = h[2]],
                   UNCHANGED faults
            PROVE  TypeOK'
        <4>1. h[2] \in Calls
          BY DEF TypeOK
        <4>2. call' \in [Calls -> Call]
          BY <3>3, <4>1 DEF TypeOK, Call, PCs, Settled
        <4> QED
          BY <2>7, <3>1, <3>3, <4>2 DEF Reply, TypeOK
      <3>4. ASSUME NEW p \in pending, pending' = pending \ {p}, Fault, Fail({p[2]})
            PROVE  TypeOK'
        <4>1. {p[2]} \in SUBSET Calls
          BY DEF TypeOK
        <4>2. call' \in [Calls -> Call]
          BY <3>4, <4>1, FailType
        <4> QED
          BY <2>7, <3>1, <3>4, <4>2 DEF Reply, Fault, TypeOK
      <3> QED
        BY <2>7, <3>2, <3>3, <3>4 DEF Reply
    <2> QED
      BY <1>3, <2>1, <2>2, <2>3, <2>5, <2>6, <2>7 DEF WorkerStep
  <1>4. CASE Terminate
    <2>1. life' \in [Workers -> {"none", "dying", "gone"} \cup Alive]
      BY <1>4 DEF Terminate, TypeOK
    <2>2. /\ pending' \subseteq (1 .. nextId - 1) \X Calls
          /\ call' \in [Calls -> Call]
      BY <1>4, FailType, InFlightType DEF Terminate, TypeOK
    <2> QED
      BY <1>4, <2>1, <2>2 DEF Terminate, Forget, TypeOK
  <1>5. CASE UNCHANGED vars
    BY <1>5 DEF vars, TypeOK
  <1> QED
    BY <1>2, <1>3, <1>4, <1>5 DEF Next

\* Type correctness: no event brings the map out of shape, and ids only
\* grow.
THEOREM HostTypeCorrect == Spec => []TypeOK
  BY InitTypeOK, NextTypeOK, PTL DEF Spec

-------------------------------------------------------------------------------
(* The map of requests.                                                    *)

\* What Fail does to one call.
LEMMA FailEffect ==
  ASSUME TypeOK, NEW S \in SUBSET Calls, Fail(S), NEW c \in Calls
  PROVE  /\ c \notin S => call'[c] = call[c]
         /\ c \in S => call'[c].pc \in {"answered", "rejected"} /\ call'[c].got \in {c, call[c].got}
  <1>1. call[c] \in Call
    BY DEF TypeOK
  <1>2. /\ c \notin S => call'[c] = call[c]
        /\ c \in S => call'[c] \in {[call[c] EXCEPT !.pc = "answered", !.got = c],
                                   [call[c] EXCEPT !.pc = "rejected"]}
    BY DEF Fail
  <1> QED
    BY <1>1, <1>2 DEF Call

\* Steps that post nothing: the calls of S leave the map.
LEMMA KeepMap ==
  ASSUME TypeOK, HostInv, NEW S \in SUBSET Calls,
         pending' = {p \in pending : p[2] \notin S},
         \A w \in Workers : held'[w] \subseteq held[w],
         \A c \in Calls : /\ call'[c].pc = "posted" <=> call[c].pc = "posted" /\ c \notin S
                          /\ call'[c].pc = "posted" => /\ call'[c].on = call[c].on
                                                       /\ life'[call[c].on] # "gone"
                          /\ call'[c].got \in {0, c},
         worker' # 0 => life'[worker'] \in Alive
  PROVE  HostInv'
  <1>1. HostKnowsItsThread' /\ AnswersMatch'
    BY DEF HostInv, HostKnowsItsThread, AnswersMatch
  <1>2. RepliesFit'
    BY DEF HostInv, RepliesFit
  <1>3. InFlight' = InFlight \ S
    BY DEF InFlight
  <1>4. InFlight' = {c \in Calls : call'[c].pc = "posted"}
    BY <1>3 DEF HostInv, NothingLeaks
  <1>5. \A p, q \in pending' : p # q => p[1] # q[1] /\ p[2] # q[2]
    BY DEF HostInv, NothingLeaks
  <1>6. \A c \in InFlight' : life'[call'[c].on] # "gone"
    BY <1>4
  <1>7. NothingLeaks'
    BY <1>4, <1>5, <1>6 DEF NothingLeaks
  <1> QED
    BY <1>1, <1>2, <1>7 DEF HostInv

\* Requests are posted under ids that no thread and no entry of the map has.
LEMMA PostMap ==
  ASSUME TypeOK, HostInv, NEW S \in SUBSET Calls, worker # 0, Post(S), worker' = worker,
         \A c \in S : call[c].pc # "posted",
         \A w \in Workers : life'[w] = life[w] \/ life'[w] = "ready"
  PROVE  HostInv'
  <1> DEFINE posts == {<<nextId + Rank(S, c), c>> : c \in S}
  <1>1. /\ \A c \in S : Rank(S, c) \in Nat
        /\ \A b, c \in S : b # c => Rank(S, b) # Rank(S, c)
    BY RankOrders
  <1>2. worker \in Workers /\ life[worker] \in Alive
    BY DEF TypeOK, Workers, HostInv, HostKnowsItsThread
  <1>3. /\ pending' = pending \cup posts
        /\ held' = [held EXCEPT ![worker] = @ \cup posts]
    BY DEF Post
  <1>4. \A c \in Calls : /\ c \in S => /\ call'[c].pc = "posted" /\ call'[c].on = worker
                                       /\ call'[c].got = call[c].got
                         /\ c \notin S => call'[c] = call[c]
    <2>1. \A c \in Calls : call[c] \in Call
      BY DEF TypeOK
    <2>2. \A c \in Calls : call'[c] = IF c \in S
                                      THEN [call[c] EXCEPT !.pc = "posted", !.on = worker]
                                      ELSE call[c]
      BY DEF Post
    <2>3. \A r \in Call : LET s == [r EXCEPT !.pc = "posted", !.on = worker]
                          IN s.pc = "posted" /\ s.on = worker /\ s.got = r.got
      BY DEF Call
    <2> QED
      BY ZenonT(40), <2>1, <2>2, <2>3
  <1>5. \A h \in (1 .. nextId - 1) \X Calls, q \in posts : h[1] # q[1]
    <2>1. nextId \in Nat
      BY DEF TypeOK
    <2>2. \A n \in 1 .. nextId - 1, r \in Nat : n # nextId + r
      BY <2>1
    <2> QED
      BY <1>1, <2>2
  <1>6. \A p, q \in posts : p # q => p[1] # q[1] /\ p[2] # q[2]
    <2>1. \A b, c \in S : b # c => nextId + Rank(S, b) # nextId + Rank(S, c)
      BY <1>1 DEF TypeOK
    <2> QED
      BY <2>1
  <1>7. \A p \in posts : p[2] \in S
    OBVIOUS
  <1>8. \A c \in S : \E p \in posts : p[2] = c
    <2> SUFFICES ASSUME NEW c \in S PROVE \E p \in posts : p[2] = c
      OBVIOUS
    <2>1. <<nextId + Rank(S, c), c>> \in posts
      OBVIOUS
    <2> QED
      BY <2>1
  <1> HIDE DEF posts
  <1>9. AnswersMatch'
    BY <1>4 DEF HostInv, AnswersMatch
  <1>10. HostKnowsItsThread'
    BY <1>2, <1>4 DEF HostInv, HostKnowsItsThread, Alive
  <1>11. RepliesFit'
    <2>1. ASSUME NEW w \in Workers, NEW h \in held'[w], NEW p \in pending', h[1] = p[1]
          PROVE  h[2] = p[2]
      <3>1. h \in held[w] \/ h \in posts
        BY <1>2, <1>3 DEF TypeOK
      <3>2. p \in pending \/ p \in posts
        BY <1>3
      <3>3. h \in held[w] => h \in (1 .. nextId - 1) \X Calls
        BY DEF TypeOK
      <3>4. p \in pending => p \in (1 .. nextId - 1) \X Calls
        BY DEF TypeOK
      <3>5. CASE h \in held[w] /\ p \in pending
        BY <2>1, <3>5 DEF HostInv, RepliesFit
      <3>6. CASE h \in posts /\ p \in posts
        BY <1>6, <2>1, <3>6
      <3> QED
        BY <1>5, <2>1, <3>1, <3>2, <3>3, <3>4, <3>5, <3>6
    <2> QED
      BY <2>1 DEF RepliesFit
  <1>12. InFlight' = InFlight \cup S
    <2>1. InFlight' = {p[2] : p \in pending'}
      BY DEF InFlight
    <2> QED
      BY <2>1, <1>3, <1>7, <1>8 DEF InFlight
  <1>13. InFlight' = {c \in Calls : call'[c].pc = "posted"}
    BY <1>4, <1>12 DEF HostInv, NothingLeaks
  <1>14. ASSUME NEW p \in pending', NEW q \in pending', p # q PROVE p[1] # q[1] /\ p[2] # q[2]
    <2>1. \A r \in pending : r[2] \in InFlight /\ r \in (1 .. nextId - 1) \X Calls
      BY DEF InFlight, TypeOK
    <2>2. InFlight \cap S = {}
      BY DEF HostInv, NothingLeaks
    <2> QED
      BY <1>3, <1>5, <1>6, <1>7, <1>14, <2>1, <2>2 DEF HostInv, NothingLeaks
  <1>15. ASSUME NEW c \in InFlight' PROVE life'[call'[c].on] # "gone"
    <2>1. c \in Calls /\ call'[c].pc = "posted"
      BY <1>13
    <2>2. CASE c \in S
      BY <1>2, <1>4, <2>1, <2>2 DEF Alive
    <2>3. CASE c \notin S
      <3>1. c \in InFlight /\ call'[c] = call[c] /\ call[c].on \in Workers
        BY <1>4, <1>12, <2>1, <2>3 DEF HostInv, HostKnowsItsThread
      <3> QED
        BY <3>1 DEF HostInv, NothingLeaks
    <2> QED
      BY <2>2, <2>3
  <1> QED
    BY <1>9, <1>10, <1>11, <1>13, <1>14, <1>15 DEF HostInv, NothingLeaks

\* A host that has started no thread keeps its books.
LEMMA InitHostInv == Init => HostInv
  <1> SUFFICES ASSUME Init PROVE HostInv
    OBVIOUS
  <1>1. \A c \in Calls : call[c].pc = "idle" /\ call[c].got = 0
    BY DEF Init
  <1>2. InFlight = {}
    BY DEF InFlight, Init
  <1>3. HostKnowsItsThread /\ RepliesFit /\ NothingLeaks /\ AnswersMatch
    BY <1>1, <1>2 DEF Init, HostKnowsItsThread, RepliesFit, NothingLeaks, AnswersMatch
  <1> QED
    BY <1>3 DEF HostInv

\* Calls fail: what was in flight of them leaves the map with them.
LEMMA FailMap ==
  ASSUME TypeOK, HostInv, NEW S \in SUBSET Calls, Fail(S),
         pending' = {p \in pending : p[2] \notin S},
         \A w \in Workers : held'[w] \subseteq held[w],
         \A c \in Calls \ S : call[c].pc = "posted" => life'[call[c].on] # "gone",
         worker' # 0 => life'[worker'] \in Alive
  PROVE  HostInv'
  <1>1. \A c \in Calls : /\ c \notin S => call'[c] = call[c]
                         /\ c \in S => call'[c].pc \in {"answered", "rejected"} /\ call'[c].got \in {c, call[c].got}
    BY FailEffect
  <1>2. \A c \in Calls : /\ call'[c].pc = "posted" <=> call[c].pc = "posted" /\ c \notin S
                         /\ call'[c].pc = "posted" => /\ call'[c].on = call[c].on
                                                      /\ life'[call[c].on] # "gone"
                         /\ call'[c].got \in {0, c}
    BY <1>1 DEF HostInv, AnswersMatch
  <1> QED
    BY <1>2, KeepMap

\* After the handshake.
LEMMA ResumeInv ==
  ASSUME TypeOK, HostInv, NEW S \in SUBSET Calls, Resume(S), worker' = worker,
         \A c \in S : call[c].pc # "posted",
         \A w \in Workers : life'[w] = life[w] \/ (life[w] \in Alive /\ life'[w] = "ready")
  PROVE  HostInv'
  <1>2. CASE worker = 0
    <2>1. pending' = {p \in pending : p[2] \notin S}
      <3>1. \A p \in pending : p[2] \in InFlight
        BY DEF InFlight
      <3> QED
        BY <1>2, <3>1 DEF Resume, HostInv, NothingLeaks
    <2>2. \A c \in Calls \ S : call[c].pc = "posted" => life'[call[c].on] # "gone"
      BY DEF HostInv, NothingLeaks, HostKnowsItsThread, Alive
    <2>3. Fail(S) /\ held' = held
      BY <1>2 DEF Resume
    <2> QED
      BY <1>2, <2>1, <2>2, <2>3, FailMap
  <1>3. CASE worker # 0
    <2>1. Post(S)
      BY <1>3 DEF Resume
    <2> QED
      BY <1>3, <2>1, PostMap
  <1> QED
    BY <1>2, <1>3

-------------------------------------------------------------------------------
(* Every event keeps the invariant.                                        *)

\* Calls that wait for a thread are not in flight.
LEMMA AwaitingOnly == \A w : \A c \in Awaiting(w) : c \in Calls /\ call[c].pc = "await"
  BY DEF Awaiting

\* A step of a call, its start, its await, or its timer, keeps the books.
LEMMA CallStepInv ==
  ASSUME TypeOK, HostInv, NEW c \in Calls, CallStep(c)
  PROVE  HostInv'
  <1> {c} \in SUBSET Calls /\ call[c] \in Call
    BY DEF TypeOK
  <1>1. \A d \in Calls : d # c /\ call[d].pc = "posted" => life[call[d].on] # "gone"
    BY DEF HostInv, NothingLeaks
  <1>2. \A p \in pending : call[p[2]].pc = "posted"
    BY DEF HostInv, NothingLeaks, InFlight
  <1>3. CASE CallShares(c)
    <2>1. call[c].pc # "posted" /\ worker' = worker /\ life' = life
      BY <1>3 DEF CallShares, Start
    <2>2. CASE Resume({c})
      BY <2>1, <2>2, ResumeInv
    <2>3. CASE /\ call' = [call EXCEPT ![c].pc = "await", ![c].on = readyPromise]
               /\ UNCHANGED <<pending, held, nextId>>
      <3>1. /\ call'[c].pc = "await"
            /\ call'[c].got = call[c].got
            /\ \A d \in Calls \ {c} : call'[d] = call[d]
        BY <2>3 DEF TypeOK, Call
      <3> QED
        <4>1. pending' = {p \in pending : p[2] \notin {c}}
          BY <1>2, <2>1, <2>3
        <4>2. \A d \in Calls : /\ call'[d].pc = "posted" <=> call[d].pc = "posted" /\ d \notin {c}
                               /\ call'[d].pc = "posted" => /\ call'[d].on = call[d].on
                                                            /\ life'[call[d].on] # "gone"
                               /\ call'[d].got \in {0, d}
          BY <1>1, <2>1, <3>1 DEF HostInv, AnswersMatch
        <4>3. worker' # 0 => life'[worker'] \in Alive
          BY <2>1 DEF HostInv, HostKnowsItsThread
        <4> QED
          BY <2>3, <4>1, <4>2, <4>3, KeepMap
    <2> QED
      BY <1>3, <2>2, <2>3 DEF CallShares
  <1>4. CASE CallSpawns(c)
    <2>1. PICK w \in Workers :
             /\ life[w] = "none" /\ life' = [life EXCEPT ![w] = "loading"]
             /\ worker' = w
             /\ call' = [call EXCEPT ![c].pc = "await", ![c].on = w]
      BY <1>4 DEF CallSpawns
    <2>2. /\ call'[c].pc = "await"
          /\ call'[c].got = call[c].got /\ call[c].pc # "posted"
          /\ \A d \in Calls \ {c} : call'[d] = call[d]
          /\ UNCHANGED <<pending, held, nextId>>
      BY <1>4, <2>1 DEF CallSpawns, Start, TypeOK, Call
    <2>4. life'[w] = "loading" /\ \A v \in Workers \ {w} : life'[v] = life[v]
      BY <2>1 DEF TypeOK
    <2>5. \A d \in Calls : d # c /\ call[d].pc = "posted" => life'[call[d].on] # "gone"
      BY <1>1, <2>4 DEF HostInv, HostKnowsItsThread
    <2>6. pending' = {p \in pending : p[2] \notin {c}}
      BY <1>2, <2>2
    <2>7. worker' # 0 => life'[worker'] \in Alive
      BY <2>1, <2>4 DEF Alive
    <2> QED
      BY <2>2, <2>5, <2>6, <2>7, KeepMap DEF HostInv, AnswersMatch
  <1>5. CASE SpawnThrows(c)
    <2>1. call[c].pc # "posted" /\ Fail({c}) /\ UNCHANGED <<life, worker, pending, held>>
      BY <1>5 DEF SpawnThrows, Start
    <2>2. pending' = {p \in pending : p[2] \notin {c}}
      BY <1>2, <2>1
    <2> QED
      BY <1>1, <2>1, <2>2, FailMap DEF HostInv, HostKnowsItsThread
  <1>6. ASSUME Drop(c), UNCHANGED <<life, worker, held>>,
               \A d \in Calls \ {c} : call'[d] = call[d],
               call'[c].got = call[c].got,
               \/ call'[c].pc \in Settled
               \/ call'[c].pc = call[c].pc /\ call[c].pc # "posted"
        PROVE  HostInv'
    <2>2. pending' = {p \in pending : p[2] \notin {c}}
      BY <1>6 DEF Drop
    <2> QED
      BY <1>1, <1>6, <2>2, KeepMap DEF HostInv, AnswersMatch, HostKnowsItsThread, Settled
  <1>7. CASE CallTimeout(c)
    <2>1. /\ call'[c].got = call[c].got
          /\ call'[c].pc = "timedout" /\ \A d \in Calls \ {c} : call'[d] = call[d]
      BY <1>7 DEF CallTimeout, TypeOK, Call
    <2> QED
      BY <1>6, <1>7, <2>1 DEF CallTimeout, Settled
  <1>8. CASE Abort(c)
    <2>1. /\ call'[c].got = call[c].got
          /\ \A d \in Calls \ {c} : call'[d] = call[d]
          /\ call'[c].pc = IF call[c].pc = "await" THEN call[c].pc ELSE "rejected"
      BY <1>8 DEF Abort, TypeOK, Call
    <2> QED
      BY <1>6, <1>8, <2>1 DEF Abort, Settled
  <1> QED
    BY <1>3, <1>4, <1>5, <1>7, <1>8 DEF CallStep

\* A step of a thread, ready, reply, crash or a late event of it, keeps the books.
LEMMA WorkerStepInv ==
  ASSUME TypeOK, HostInv, NEW w \in Workers, WorkerStep(w)
  PROVE  HostInv'
  <1>1. InFlight \in SUBSET Calls /\ Awaiting(w) \in SUBSET Calls
    BY InFlightType
  <1>2. \A c \in Calls : call[c].pc = "posted" => c \in InFlight /\ life[call[c].on] # "gone"
    BY DEF HostInv, NothingLeaks
  <1>3. /\ \A p \in pending : p[2] \in InFlight
        /\ \A c \in Awaiting(w) : c \notin InFlight
    BY AwaitingOnly DEF HostInv, NothingLeaks, InFlight
  <1>4. ASSUME UNCHANGED <<pending, call>>,
               \A v \in Workers : held'[v] \subseteq held[v],
               \A v \in Workers : life'[v] = "gone" => life[v] = "gone",
               worker' # 0 => life'[worker'] \in Alive
        PROVE  HostInv'
    <2>2. pending' = {p \in pending : p[2] \notin {}}
      BY <1>4
    <2>3. \A c \in Calls : call'[c].pc = "posted" => life'[call[c].on] # "gone"
      BY <1>2, <1>4 DEF HostInv, HostKnowsItsThread
    <2>4. \A c \in Calls : call'[c] = call[c] /\ call'[c].got \in {0, c}
      BY <1>4 DEF HostInv, AnswersMatch
    <2>5. {} \in SUBSET Calls
      OBVIOUS
    <2> QED
      BY <1>4, <2>2, <2>3, <2>4, <2>5, KeepMap
  <1>5. CASE Ready(w)
    <2>1. life' = [life EXCEPT ![w] = "ready"] /\ life[w] = "loading" /\ worker' = worker
      BY <1>5 DEF Ready
    <2>2. \A v \in Workers : life'[v] = life[v] \/ (life[v] \in Alive /\ life'[v] = "ready")
      BY <2>1 DEF TypeOK, Alive
    <2>3. CASE Resume(Awaiting(w))
      <3>1. \A c \in Awaiting(w) : call[c].pc # "posted"
        BY AwaitingOnly
      <3> QED
        BY <1>1, <2>1, <2>2, <2>3, <3>1, ResumeInv
    <2>4. CASE UNCHANGED <<promise, pending, held, nextId, call>>
      <3>1. worker' # 0 => life'[worker'] \in Alive
        BY <2>1, <2>2 DEF HostInv, HostKnowsItsThread, Alive, TypeOK, Workers
      <3> QED
        BY <1>4, <2>2, <2>4, <3>1 DEF Alive
    <2> QED
      BY <1>5, <2>3, <2>4 DEF Ready
  <1>6. ASSUME RejectSpawn(w), UNCHANGED <<pending, held>>,
               \A v \in Workers : life'[v] = "gone" => life[v] = "gone"
        PROVE  HostInv'
    <2>1. Fail(Awaiting(w)) /\ worker' = 0
      BY <1>6 DEF RejectSpawn, Forget
    <2>2. pending' = {p \in pending : p[2] \notin Awaiting(w)}
      BY <1>3, <1>6
    <2>3. \A c \in Calls \ Awaiting(w) : call[c].pc = "posted" => life'[call[c].on] # "gone"
      BY <1>2, <1>6 DEF HostInv, HostKnowsItsThread
    <2> QED
      BY <1>1, <1>6, <2>1, <2>2, <2>3, FailMap
  <1>7. CASE ReadyError(w)
    <2>1. \A v \in Workers : life'[v] = "gone" => life[v] = "gone"
      BY <1>7 DEF ReadyError, TypeOK
    <2>2. \A v \in Workers : life[v] \in Alive => life'[v] \in Alive
      BY <1>7 DEF ReadyError, TypeOK, Alive
    <2>3. CASE UNCHANGED <<promise, call, worker, readyPromise>>
      <3>1. worker' # 0 => life'[worker'] \in Alive
        BY <2>2, <2>3 DEF HostInv, HostKnowsItsThread, TypeOK, Workers
      <3> QED
        BY <1>4, <1>7, <2>1, <2>3, <3>1 DEF ReadyError
    <2> QED
      BY <1>6, <1>7, <2>1, <2>3 DEF ReadyError
  <1>8. CASE SpawnTimeout(w)
    BY <1>6, <1>8 DEF SpawnTimeout
  <1>9. ASSUME Crashed(w), held' = held PROVE HostInv'
    <2> DEFINE S == InFlight \cup Awaiting(w)
    <2>1. Fail(S) /\ pending' = {} /\ worker' = 0 /\ S \in SUBSET Calls
      BY <1>1, <1>9 DEF Crashed, Forget
    <2>2. \A p \in pending : p[2] \in S
      BY <1>3
    <2>3. \A c \in Calls \ S : call[c].pc # "posted"
      BY <1>2
    <2> HIDE DEF S
    <2>4. pending' = {p \in pending : p[2] \notin S}
      BY <2>1, <2>2
    <2> QED
      BY <1>9, <2>1, <2>3, <2>4, FailMap
  <1>10. CASE WorkerError(w)
    BY <1>9, <1>10 DEF WorkerError
  <1>11. CASE WorkerExit(w)
    BY <1>9, <1>11 DEF WorkerExit
  <1>12. ASSUME NEW h \in held[w], Reply(w, h) PROVE HostInv'
    <2>1. /\ \A v \in Workers : held'[v] \subseteq held[v]
          /\ UNCHANGED <<life, worker>>
      BY <1>12 DEF Reply, TypeOK
    <2>2. worker' # 0 => life'[worker'] \in Alive
      BY <2>1 DEF HostInv, HostKnowsItsThread
    <2>3. CASE UNCHANGED <<pending, call, faults>>
      BY <1>4, <2>1, <2>2, <2>3
    <2>4. ASSUME NEW p \in pending, p[1] = h[1], pending' = pending \ {p},
                 \/ /\ call' = [call EXCEPT ![p[2]].pc = "answered", ![p[2]].got = h[2]]
                    /\ UNCHANGED faults
                 \/ Fault /\ Fail({p[2]})
          PROVE  HostInv'
      <3> DEFINE c == p[2]
      <3>1. c \in InFlight /\ c \in Calls /\ {c} \in SUBSET Calls
        BY <1>1, <1>3
      <3>2. \A q \in pending : q # p => q[2] # c
        BY DEF HostInv, NothingLeaks
      <3>3. h[2] = c
        BY <2>4 DEF HostInv, RepliesFit
      <3> HIDE DEF c
      <3>4. pending' = {q \in pending : q[2] \notin {c}}
        BY <2>4, <3>2 DEF c
      <3>5. CASE /\ call' = [call EXCEPT ![p[2]].pc = "answered", ![p[2]].got = h[2]]
                 /\ UNCHANGED faults
        <4>1. call' = [call EXCEPT ![c].pc = "answered", ![c].got = c]
          BY <3>3, <3>5 DEF c
        <4>2. /\ call'[c].pc = "answered" /\ call'[c].got = c
              /\ \A d \in Calls \ {c} : call'[d] = call[d]
          BY <3>1, <4>1 DEF TypeOK, Call
        <4>4. \A d \in Calls : /\ call'[d].pc = "posted" <=> call[d].pc = "posted" /\ d \notin {c}
                               /\ call'[d].pc = "posted" => /\ call'[d].on = call[d].on
                                                            /\ life'[call[d].on] # "gone"
                               /\ call'[d].got \in {0, d}
          BY <1>2, <2>1, <4>2 DEF HostInv, AnswersMatch
        <4> QED
          BY <2>1, <2>2, <3>1, <3>4, <4>4, KeepMap
      <3>6. CASE Fail({c})
        <4>1. \A d \in Calls \ {c} : call[d].pc = "posted" => life'[call[d].on] # "gone"
          BY <1>2, <2>1
        <4> QED
          BY <2>1, <2>2, <3>1, <3>4, <3>6, <4>1, FailMap
      <3> QED
        BY <2>4, <3>5, <3>6 DEF c
    <2> QED
      BY <1>12, <2>3, <2>4 DEF Reply
  <1> QED
    BY <1>5, <1>7, <1>8, <1>10, <1>11, <1>12 DEF WorkerStep

\* Terminating the host keeps the books: the calls in flight fail and none stays in the map.
LEMMA TerminateInv ==
  ASSUME TypeOK, HostInv, Terminate
  PROVE  HostInv'
  <1>1. /\ worker' = 0 /\ held' = held
        /\ \A v \in Workers : life'[v] = "gone" => life[v] = "gone"
    BY DEF Terminate, Forget, TypeOK
  <1>2. /\ InFlight \in SUBSET Calls
        /\ \A p \in pending : p[2] \in InFlight
        /\ \A c \in Calls : call[c].pc = "posted" => /\ c \in InFlight /\ life[call[c].on] # "gone"
                                                     /\ call[c].on \in Workers
    BY InFlightType DEF HostInv, NothingLeaks, InFlight, HostKnowsItsThread
  <1>3. CASE Fail(InFlight) /\ pending' = {}
    <2>1. pending' = {p \in pending : p[2] \notin InFlight}
      BY <1>2, <1>3
    <2> QED
      BY <1>1, <1>2, <1>3, <2>1, FailMap
  <1>4. CASE UNCHANGED <<call, pending>>
    <2>2. pending' = {p \in pending : p[2] \notin {}} /\ {} \in SUBSET Calls
      BY <1>4
    <2>3. \A c \in Calls : /\ call'[c] = call[c] /\ call'[c].got \in {0, c}
                           /\ call'[c].pc = "posted" => life'[call[c].on] # "gone"
      BY <1>1, <1>2, <1>4 DEF HostInv, AnswersMatch
    <2> QED
      BY ZenonT(40), <1>1, <2>2, <2>3, KeepMap
  <1> QED
    BY <1>3, <1>4 DEF Terminate

\* Calls, threads and terminate() in any order keep the host's books.
LEMMA NextHostInv == TypeOK /\ HostInv /\ [Next]_vars => HostInv'
  <1> SUFFICES ASSUME TypeOK, HostInv, [Next]_vars
               PROVE  HostInv'
    OBVIOUS
  <1>1. CASE UNCHANGED vars
    BY <1>1 DEF vars, HostInv, HostKnowsItsThread, RepliesFit, NothingLeaks, AnswersMatch, InFlight
  <1> QED
    BY <1>1, CallStepInv, WorkerStepInv, TerminateInv DEF Next

\* The books of the host: the invariant the next two theorems rest on.
THEOREM HostKeepsItsBooks == Spec => []HostInv
  BY InitTypeOK, NextTypeOK, InitHostInv, NextHostInv, PTL DEF Spec

\* No call is answered with what another call asked for, however late the replies of
\* threads the host has given up.
THEOREM AnswersAreOnesOwn == Spec => []AnswersMatch
  <1>1. HostInv => AnswersMatch
    BY DEF HostInv
  <1> QED
    BY <1>1, HostKeepsItsBooks, PTL

\* No request outlives its call in the map, none is lost from it, and none waits for a
\* thread that has ended.
THEOREM NoRequestLeaks == Spec => []NothingLeaks
  <1>1. HostInv => NothingLeaks
    BY DEF HostInv
  <1> QED
    BY <1>1, HostKeepsItsBooks, PTL
===============================================================================
