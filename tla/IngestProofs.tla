----------------------------- MODULE IngestProofs -----------------------------
(***************************************************************************)
(* Machine-checked proofs about Ingest, for any number of keys, clients,   *)
(* captures, retries, failures and crashes.                                *)
(***************************************************************************)
EXTENDS Ingest, TLAPS

\* A row is never mistaken for the empty slot: stamps start at 1.
LEMMA RowIsNoNoSlot == \A r \in Row : r # NoSlot
  BY DEF Row, NoSlot, Stamps

\* Putting a file away keeps the types of both directories.
LEMMA QuarantineType ==
  ASSUME TypeOK, NEW k \in Keys, NEW r \in Reasons, quarantineSpoolFile(k, r)
  PROVE  /\ spool' \in [Keys -> 0 .. MaxCaptures]
         /\ quarantine' \in [Keys -> {NotThere} \cup PutAway]
  <1>1. [reason |-> r, at |-> clock] \in PutAway
    BY DEF TypeOK, PutAway
  <1>2. 0 \in 0 .. MaxCaptures
    BY IngestAssumption
  <1> QED
    BY <1>1, <1>2 DEF TypeOK, quarantineSpoolFile

\* So does counting a failure, and the counter stays a number.
LEMMA FailureType ==
  ASSUME TypeOK, NEW k \in Keys, recordFailureOrQuarantine(k)
  PROVE  /\ spool' \in [Keys -> 0 .. MaxCaptures]
         /\ quarantine' \in [Keys -> {NotThere} \cup PutAway]
         /\ failures' \in [Keys -> Nat]
  <1>1. CASE failures[k] + 1 >= MAX_DRAIN_ATTEMPTS
    <2>1. "poison" \in Reasons
      BY DEF Reasons
    <2>2. quarantineSpoolFile(k, "poison")
      BY <1>1 DEF recordFailureOrQuarantine
    <2>3. failures' \in [Keys -> Nat]
      BY <1>1 DEF recordFailureOrQuarantine, TypeOK
    <2> QED
      BY <2>1, <2>2, <2>3, QuarantineType
  <1>2. CASE ~ (failures[k] + 1 >= MAX_DRAIN_ATTEMPTS)
    BY <1>2 DEF recordFailureOrQuarantine, TypeOK
  <1> QED
    BY <1>1, <1>2

\* The inserts of one transaction keep their types.
LEMMA InsertType ==
  ASSUME TypeOK, NEW k \in Keys, Insert(k)
  PROVE  copies' \in [Keys -> Nat] /\ todo' \subseteq Transcript
  <1>1. copies[k] \in Nat /\ copies[k] + 1 \in Nat \ {0}
    BY DEF TypeOK
  <1>2. <<k, copies[k] + 1>> \in Transcript
    BY <1>1 DEF Transcript
  <1> QED
    BY <1>1, <1>2 DEF TypeOK, Insert

\* The row a transaction leaves in the slot is one.
LEMMA StoreType ==
  ASSUME TypeOK, NEW k \in Keys, NEW b \in Stamps, Store(k, b)
  PROVE  slot' \in [Keys -> {NoSlot} \cup Row] /\ slot'[k] \in Row
  <1>1. copies[k] + 1 \in Nat \ {0} /\ clock \in Nat
    BY DEF TypeOK
  <1>2. [body |-> b, names |-> "transcript", n |-> copies[k] + 1, at |-> clock] \in Row
    BY <1>1 DEF Row
  <1> QED
    BY <1>2 DEF TypeOK, Store

\* Before the first capture everything is well typed.
LEMMA InitTypeOK == Init => TypeOK
  <1> SUFFICES ASSUME Init PROVE TypeOK
    OBVIOUS
  <1>1. tick \in Tick /\ tick.pc # "ingest"
    BY IngestAssumption DEF Init, Idle, Tick
  <1>2. [pc : {"new"}, key : ClientKeys, header : {"key", "none"}, body : Stamps, tries : {0}] \subseteq Request
    <2> SUFFICES ASSUME NEW r \in [pc : {"new"}, key : ClientKeys, header : {"key", "none"}, body : Stamps, tries : {0}]
                 PROVE  r \in Request
      OBVIOUS
    <2>1. r.key \in ClientKeys /\ r.tries = 0
      OBVIOUS
    <2>2. ClientKeys \subseteq Keys
      BY IngestAssumption
    <2>3. r.key \in Keys /\ r.tries \in Nat
      BY <2>1, <2>2
    <2> QED
      BY <2>3 DEF Request
  <1>3. client \in [Clients -> Request]
    BY <1>2 DEF Init
  <1> QED
    BY <1>1, <1>3, IngestAssumption DEF Init, TypeOK

\* A tick that moves on to its next file stays well typed.
LEMMA RestType ==
  ASSUME TypeOK, NEW k \in Keys, tick' = Rest(k)
  PROVE  tick' \in Tick /\ tick'.pc = "next"
  BY IngestAssumption DEF TypeOK, Tick, Rest

\* A request changes its state and the number of its tries, nothing else.
LEMMA ClientType ==
  ASSUME TypeOK, NEW c \in Clients, NEW p \in {"new", "sent", "unsure", "stored", "refused"},
         client' = [client EXCEPT ![c].pc = p]
  PROVE  client' \in [Clients -> Request]
  BY DEF TypeOK, Request

\* Every step of the capture command, the tick, the routes and the cleanup
\* keeps directories, rows and the daemon's memory well typed.
LEMMA NextTypeOK == TypeOK /\ [Next]_vars => TypeOK'
  <1> SUFFICES ASSUME TypeOK, [Next]_vars
               PROVE  TypeOK'
    OBVIOUS
  <1> USE IngestAssumption
  <1>1. ASSUME NEW k \in Keys, writeToSpool(k)
        PROVE  TypeOK'
    BY <1>1 DEF writeToSpool, TypeOK
  <1>2. CASE DrainStart
    <2>1. tick' \in Tick /\ tick'.pc = "next"
      BY <1>2 DEF DrainStart, Tick
    <2>2. quarantine' \in [Keys -> {NotThere} \cup PutAway]
      BY <1>2 DEF DrainStart, TypeOK
    <2>3. expired' \subseteq Keys
      BY <1>2 DEF DrainStart, TypeOK
    <2> QED
      BY <1>2, <2>1, <2>2, <2>3 DEF DrainStart, TypeOK
  <1>3. ASSUME NEW k \in Keys, DrainOversize(k)
        PROVE  TypeOK'
    <2>1. "oversize" \in Reasons
      BY DEF Reasons
    <2>2. spool' \in [Keys -> 0 .. MaxCaptures] /\ quarantine' \in [Keys -> {NotThere} \cup PutAway]
      BY <1>3, <2>1, QuarantineType DEF DrainOversize
    <2>3. tick' \in Tick /\ tick'.pc = "next"
      BY <1>3, RestType DEF DrainOversize
    <2> QED
      BY <1>3, <2>2, <2>3 DEF DrainOversize, TypeOK
  <1>4. ASSUME NEW k \in Keys, DrainUnreadable(k)
        PROVE  TypeOK'
    <2>1. tick' \in Tick /\ tick'.pc = "next"
      BY <1>4, RestType DEF DrainUnreadable
    <2> QED
      BY <1>4, <2>1 DEF DrainUnreadable, Upset, TypeOK
  <1>5. ASSUME NEW k \in Keys, DrainMalformed(k)
        PROVE  TypeOK'
    <2>1. tick' \in Tick /\ tick'.pc = "next"
      BY <1>5, RestType DEF DrainMalformed
    <2>2. recordFailureOrQuarantine(k)
      BY <1>5 DEF DrainMalformed
    <2> QED
      BY <1>5, <2>1, <2>2, FailureType DEF DrainMalformed, TypeOK
  <1>6. ASSUME NEW k \in Keys, DrainRead(k)
        PROVE  TypeOK'
    <2>1. tick' \in Tick /\ tick'.body # 0
      BY <1>6 DEF DrainRead, TypeOK, Tick
    <2> QED
      BY <1>6, <2>1 DEF DrainRead, TypeOK
  <1>7. ASSUME NEW k \in Keys, DrainIngest(k)
        PROVE  TypeOK'
    <2>1. tick.body \in Stamps
      BY <1>7 DEF DrainIngest, TypeOK, Tick, Stamps
    <2>2. tick' \in Tick /\ tick'.pc = "unlink"
      BY <1>7 DEF DrainIngest, TypeOK, Tick
    <2>3. CASE Store(k, tick.body)
      <3>1. copies' \in [Keys -> Nat] /\ todo' \subseteq Transcript
        BY <2>3, InsertType DEF Store
      <3>2. slot' \in [Keys -> {NoSlot} \cup Row]
        BY <2>1, <2>3, StoreType
      <3> QED
        BY <1>7, <2>2, <3>1, <3>2 DEF DrainIngest, TypeOK
    <2>4. CASE UNCHANGED <<copies, todo, slot>>
      BY <1>7, <2>2, <2>4 DEF DrainIngest, TypeOK
    <2> QED
      BY <1>7, <2>3, <2>4 DEF DrainIngest
  <1>8. ASSUME NEW k \in Keys, DrainConflict(k)
        PROVE  TypeOK'
    <2>1. "conflict" \in Reasons
      BY DEF Reasons
    <2>2. spool' \in [Keys -> 0 .. MaxCaptures] /\ quarantine' \in [Keys -> {NotThere} \cup PutAway]
      BY <1>8, <2>1, QuarantineType DEF DrainConflict
    <2>3. tick' \in Tick /\ tick'.pc = "next"
      BY <1>8, RestType DEF DrainConflict
    <2> QED
      BY <1>8, <2>2, <2>3 DEF DrainConflict, TypeOK
  <1>9. ASSUME NEW k \in Keys, DrainFails(k)
        PROVE  TypeOK'
    <2>1. tick' \in Tick /\ tick'.pc = "next"
      BY <1>9, RestType DEF DrainFails
    <2>2. recordFailureOrQuarantine(k)
      BY <1>9 DEF DrainFails
    <2> QED
      BY <1>9, <2>1, <2>2, FailureType DEF DrainFails, Upset, TypeOK
  <1>10. ASSUME NEW k \in Keys, DrainUnlink(k)
         PROVE  TypeOK'
    <2>1. tick' \in Tick /\ tick'.pc = "next"
      BY <1>10, RestType DEF DrainUnlink
    <2>2. spool' \in [Keys -> 0 .. MaxCaptures] /\ upsets' \in Nat
      BY <1>10 DEF DrainUnlink, Upset, TypeOK
    <2> QED
      BY <1>10, <2>1, <2>2 DEF DrainUnlink, TypeOK
  <1>11. CASE DrainEnd
    <2>1. tick' \in Tick /\ tick'.pc = "idle"
      BY <1>11 DEF DrainEnd, Idle, Tick
    <2> QED
      BY <1>11, <2>1 DEF DrainEnd, TypeOK
  <1>12. ASSUME NEW c \in Clients, HttpPost(c)
         PROVE  TypeOK'
    <2>1. client' \in [Clients -> Request]
      BY <1>12 DEF HttpPost, TypeOK, Request
    <2> QED
      BY <1>12, <2>1 DEF HttpPost, TypeOK
  <1>13. ASSUME NEW c \in Clients, HttpIngest(c)
         PROVE  TypeOK'
    <2> DEFINE k == client[c].key
               b == client[c].body
    <2>1. k \in Keys /\ b \in Stamps
      BY DEF TypeOK, Request
    <2>2. PICK p \in {"refused", "stored", "unsure"} : client' = [client EXCEPT ![c].pc = p]
      BY <1>13 DEF HttpIngest
    <2>3. client' \in [Clients -> Request]
      BY <2>2, ClientType
    <2>4. Store(k, b) \/ UNCHANGED <<copies, todo, slot>>
      BY <1>13 DEF HttpIngest
    <2>5. CASE Store(k, b)
      <3>1. copies' \in [Keys -> Nat] /\ todo' \subseteq Transcript
        BY <2>1, <2>5, InsertType DEF Store
      <3>2. slot' \in [Keys -> {NoSlot} \cup Row]
        BY <2>1, <2>5, StoreType
      <3> QED
        BY <1>13, <2>3, <3>1, <3>2 DEF HttpIngest, TypeOK
    <2>6. CASE UNCHANGED <<copies, todo, slot>>
      BY <1>13, <2>3, <2>6 DEF HttpIngest, TypeOK
    <2> QED
      BY <2>4, <2>5, <2>6
  <1>14. ASSUME NEW c \in Clients, HttpIngestKeyless(c)
         PROVE  TypeOK'
    <2>1. client[c].key \in Keys
      BY DEF TypeOK, Request
    <2>2. PICK p \in {"stored", "unsure"} : client' = [client EXCEPT ![c].pc = p]
      BY <1>14 DEF HttpIngestKeyless
    <2>3. client' \in [Clients -> Request]
      BY <2>2, ClientType
    <2>4. copies' \in [Keys -> Nat] /\ todo' \subseteq Transcript
      BY <1>14, <2>1, InsertType DEF HttpIngestKeyless
    <2>5. reopened' \in [Keys -> Nat]
      BY <1>14, <2>1 DEF HttpIngestKeyless, TypeOK
    <2> QED
      BY <1>14, <2>3, <2>4, <2>5 DEF HttpIngestKeyless, TypeOK
  <1>15. ASSUME NEW c \in Clients, HttpFails(c)
         PROVE  TypeOK'
    <2>1. client' \in [Clients -> Request]
      BY <1>15, ClientType DEF HttpFails
    <2> QED
      BY <1>15, <2>1 DEF HttpFails, Upset, TypeOK
  <1>16. ASSUME NEW k \in Keys, NEW n \in 1 .. copies[k], Distill(k, n)
         PROVE  TypeOK'
    <2>1. <<k, n>> \in Transcript
      BY DEF TypeOK, Transcript
    <2>2. memories' \subseteq Transcript /\ todo' \subseteq Transcript
      BY <1>16, <2>1 DEF Distill, TypeOK
    <2>3. slot[k] \in Row => [slot[k] EXCEPT !.names = "memory"] \in Row
      BY DEF Row
    <2>4. slot[k] # NoSlot => slot[k] \in Row
      BY DEF TypeOK
    <2>5. \/ slot' = slot
          \/ slot[k] \in Row /\ slot' = [slot EXCEPT ![k] = [slot[k] EXCEPT !.names = "memory"]]
      BY <1>16, <2>4 DEF Distill
    <2>6. slot' \in [Keys -> {NoSlot} \cup Row]
      BY <2>3, <2>5 DEF TypeOK
    <2> QED
      BY <1>16, <2>2, <2>6 DEF Distill, TypeOK
  <1>17. ASSUME NEW k \in Keys, NEW n \in 1 .. copies[k], Erase(k, n)
         PROVE  TypeOK'
    <2>1. reopened' \in [Keys -> Nat] /\ upsets' \in Nat
      BY <1>17 DEF Erase, Upset, TypeOK
    <2> QED
      BY <1>17, <2>1 DEF Erase, TypeOK
  <1>18. CASE pruneIngestIdempotency
    <2>1. slot' \in [Keys -> {NoSlot} \cup Row]
      BY <1>18 DEF pruneIngestIdempotency, TypeOK
    <2>2. reopened' \in [Keys -> Nat]
      BY <1>18 DEF pruneIngestIdempotency, TypeOK
    <2> QED
      BY <1>18, <2>1, <2>2 DEF pruneIngestIdempotency, TypeOK
  <1>19. CASE Day
    BY <1>19 DEF Day, Upset, TypeOK
  <1>20. CASE Crash
    <2>1. tick' \in Tick /\ tick'.pc = "idle"
      BY <1>20 DEF Crash, Idle, Tick
    <2>2. client' \in [Clients -> Request]
      BY SMTT(30), <1>20 DEF Crash, TypeOK, Request
    <2> QED
      BY <1>20, <2>1, <2>2 DEF Crash, Upset, TypeOK
  <1>21. CASE UNCHANGED vars
    BY <1>21 DEF vars, TypeOK
  <1> QED
    BY <1>1, <1>2, <1>3, <1>4, <1>5, <1>6, <1>7, <1>8, <1>9, <1>10, <1>11, <1>12, <1>13, <1>14,
       <1>15, <1>16, <1>17, <1>18, <1>19, <1>20, <1>21 DEF Next, DrainStep

-------------------------------------------------------------------------------
\* The three parts of Accounted.
Counted(k)     == IF slot[k] # NoSlot /\ StillExists(k)
                    THEN copies[k] <= 1 + reopened[k] ELSE copies[k] <= reopened[k]
Backed(k)      == slot[k] # NoSlot => copies[k] > 0
StoredFirst    == tick.pc = "unlink" => \A k \in Keys : Current(k) => copies[k] > 0

\* A transaction that finds no slot, or one whose memory is gone, may add one
\* copy: the new slot accounts for it.  The slots of other keys stay as they were.
LEMMA StoreCounted ==
  ASSUME TypeOK, NEW k \in Keys, NEW b \in Stamps, Fresh(k, b), Store(k, b),
         UNCHANGED <<memories, reopened>>,
         \A j \in Keys : Counted(j) /\ Backed(j)
  PROVE  (\A j \in Keys : Counted(j) /\ Backed(j))' /\ copies'[k] > 0
         /\ \A j \in Keys : copies'[j] >= copies[j]
  <1>1. copies' = [copies EXCEPT ![k] = copies[k] + 1] /\ copies \in [Keys -> Nat]
    BY DEF Store, Insert, TypeOK
  <1>2. slot'[k] \in Row /\ slot'[k].names = "transcript" /\ \A j \in Keys \ {k} : slot'[j] = slot[j]
    BY StoreType DEF Store, TypeOK
  <1>3. reopened \in [Keys -> Nat] /\ reopened' = reopened /\ memories' = memories
    BY DEF TypeOK
  <1>4. ASSUME NEW j \in Keys \ {k}
        PROVE  (Counted(j) /\ Backed(j))'
    <2>1. copies'[j] = copies[j] /\ slot'[j] = slot[j]
      BY <1>1, <1>2
    <2> QED
      BY <1>3, <2>1 DEF Counted, Backed, StillExists
  <1>5. slot'[k] # NoSlot
    BY <1>2, RowIsNoNoSlot
  <1>6. copies[k] <= reopened[k]
    <2>1. ~ (slot[k] # NoSlot /\ StillExists(k))
      BY DEF Fresh, Conflict, Replay
    <2> QED
      BY <2>1 DEF Counted
  <1>7. copies'[k] = copies[k] + 1 /\ copies[k] \in Nat
    BY <1>1
  <1>8. (Counted(k) /\ Backed(k))'
    BY <1>2, <1>3, <1>5, <1>6, <1>7 DEF Counted, Backed, StillExists
  <1>9. \A j \in Keys : copies'[j] >= copies[j]
    BY <1>1
  <1> QED
    BY <1>4, <1>7, <1>8, <1>9

\* Steps that leave the slots, the memories and the counts alone.
LEMMA QuietCounted ==
  ASSUME UNCHANGED <<slot, memories, copies, reopened>>,
         \A j \in Keys : Counted(j) /\ Backed(j)
  PROVE  (\A j \in Keys : Counted(j) /\ Backed(j))'
  BY DEF Counted, Backed, StillExists

\* Accounted holds in a tick that is not about to unlink as soon as the
\* slots do.
LEMMA AccountedParts ==
  Accounted <=> (\A j \in Keys : Counted(j) /\ Backed(j)) /\ StoredFirst
  BY DEF Accounted, Counted, Backed, StoredFirst

\* The accounting of the slots survives every step.
LEMMA NextAccounted == TypeOK /\ Accounted /\ [Next]_vars => Accounted'
  <1> SUFFICES ASSUME TypeOK, Accounted, [Next]_vars
               PROVE  Accounted'
    OBVIOUS
  <1>a. (\A j \in Keys : Counted(j) /\ Backed(j)) /\ StoredFirst
    BY AccountedParts
  <1>b. ASSUME (\A j \in Keys : Counted(j) /\ Backed(j))', StoredFirst'
        PROVE  Accounted'
    BY <1>b, AccountedParts, PTL
  <1>c. ASSUME UNCHANGED <<slot, memories, copies, reopened>>, tick' = tick \/ tick'.pc # "unlink"
        PROVE  Accounted'
    <2>1. StoredFirst'
      BY <1>a, <1>c DEF StoredFirst, Current
    <2> QED
      BY <1>a, <1>b, <1>c, <2>1, QuietCounted
  <1>d. ASSUME NEW k \in Keys, tick' = Rest(k)
        PROVE  tick'.pc # "unlink"
    BY <1>d, RestType
  <1>1. ASSUME NEW k \in Keys, writeToSpool(k)
        PROVE  Accounted'
    BY <1>1, <1>c DEF writeToSpool
  <1>2. CASE DrainStart
    BY <1>2, <1>c DEF DrainStart
  <1>3. ASSUME NEW k \in Keys,
               \/ DrainOversize(k) \/ DrainUnreadable(k) \/ DrainMalformed(k)
               \/ DrainConflict(k) \/ DrainFails(k) \/ DrainUnlink(k)
        PROVE  Accounted'
    <2>1. tick' = Rest(k) /\ UNCHANGED <<slot, memories, copies, reopened>>
      BY <1>3 DEF DrainOversize, DrainUnreadable, DrainMalformed, DrainConflict, DrainFails, DrainUnlink
    <2> QED
      BY <1>c, <1>d, <2>1
  <1>4. ASSUME NEW k \in Keys, DrainRead(k)
        PROVE  Accounted'
    <2>1. tick'.pc = "ingest"
      BY <1>4 DEF DrainRead, TypeOK, Tick
    <2> QED
      BY <1>4, <1>c, <2>1 DEF DrainRead
  <1>5. ASSUME NEW k \in Keys, DrainIngest(k)
        PROVE  Accounted'
    <2>1. tick.body \in Stamps
      BY <1>5 DEF DrainIngest, TypeOK, Tick, Stamps
    <2>2. tick'.files = tick.files
      BY <1>5 DEF DrainIngest, TypeOK, Tick
    <2>3. ASSUME NEW j \in Keys, Current(j)'
          PROVE  j = k
      <3>1. j \in tick.files /\ k \in tick.files /\ j <= k /\ k <= j
        BY <1>5, <2>2, <2>3 DEF DrainIngest, Current
      <3> QED
        BY <3>1, IngestAssumption
    <2>4. CASE Fresh(k, tick.body) /\ Store(k, tick.body)
      <3>1. (\A j \in Keys : Counted(j) /\ Backed(j))' /\ copies'[k] > 0
        BY <1>5, <1>a, <2>1, <2>4, StoreCounted DEF DrainIngest
      <3>2. StoredFirst'
        BY <2>3, <3>1 DEF StoredFirst
      <3> QED
        BY <1>b, <3>1, <3>2
    <2>5. CASE Replay(k, tick.body) /\ UNCHANGED <<copies, todo, slot>>
      <3>1. (\A j \in Keys : Counted(j) /\ Backed(j))'
        BY <1>5, <1>a, <2>5, QuietCounted DEF DrainIngest
      <3>2. copies'[k] > 0
        BY <1>a, <2>5 DEF Replay, Backed
      <3>3. StoredFirst'
        BY <2>3, <3>2 DEF StoredFirst
      <3> QED
        BY <1>b, <3>1, <3>3
    <2> QED
      BY <1>5, <2>4, <2>5 DEF DrainIngest
  <1>6. CASE DrainEnd
    BY <1>6, <1>c DEF DrainEnd, Idle
  <1>7. ASSUME NEW c \in Clients, HttpPost(c) \/ HttpFails(c)
        PROVE  Accounted'
    BY <1>7, <1>c DEF HttpPost, HttpFails
  <1>8. ASSUME NEW c \in Clients, HttpIngest(c)
        PROVE  Accounted'
    <2> DEFINE k == client[c].key
               b == client[c].body
    <2>1. k \in Keys /\ b \in Stamps
      BY DEF TypeOK, Request
    <2>2. StoredFirst'
      BY <1>8 DEF HttpIngest, StoredFirst
    <2>3. UNCHANGED <<memories, reopened>>
      BY <1>8 DEF HttpIngest
    <2>4. CASE Fresh(k, b) /\ Store(k, b)
      BY <1>a, <1>b, <2>1, <2>2, <2>3, <2>4, StoreCounted
    <2>5. CASE UNCHANGED <<copies, todo, slot>>
      BY <1>a, <1>b, <2>2, <2>3, <2>5, QuietCounted
    <2> QED
      BY <1>8, <2>4, <2>5 DEF HttpIngest
  <1>9. ASSUME NEW c \in Clients, HttpIngestKeyless(c)
        PROVE  Accounted'
    <2> DEFINE k == client[c].key
    <2>1. k \in Keys
      BY DEF TypeOK, Request
    <2>2. /\ copies' = [copies EXCEPT ![k] = copies[k] + 1] /\ copies \in [Keys -> Nat]
          /\ reopened' = [reopened EXCEPT ![k] = reopened[k] + 1] /\ reopened \in [Keys -> Nat]
          /\ UNCHANGED <<slot, memories>>
      BY <1>9 DEF HttpIngestKeyless, Insert, TypeOK
    <2> HIDE DEF k
    <2>3. ASSUME NEW j \in Keys
          PROVE  (Counted(j) /\ Backed(j))'
      <3>1. Counted(j) /\ Backed(j)
        BY <1>a
      <3> QED
        BY <2>1, <2>2, <3>1 DEF Counted, Backed, StillExists
    <2>4. StoredFirst'
      BY <1>9 DEF HttpIngestKeyless, StoredFirst
    <2> QED
      BY <1>b, <2>3, <2>4
  <1>10. ASSUME NEW k \in Keys, NEW n \in 1 .. copies[k], Distill(k, n)
         PROVE  Accounted'
    <2>1. UNCHANGED <<copies, reopened, tick>> /\ memories \subseteq memories'
      BY <1>10 DEF Distill
    <2>2. StoredFirst'
      BY <1>10, <2>1 DEF Distill, StoredFirst
    <2>3. ASSUME NEW j \in Keys
          PROVE  (Counted(j) /\ Backed(j))'
      <3>1. Counted(j) /\ Backed(j)
        BY <1>a
      <3>2. CASE slot'[j] = slot[j]
        <4>1. StillExists(j) => StillExists(j)'
          BY <2>1, <3>2 DEF StillExists
        <4> QED
          BY <2>1, <3>1, <3>2, <4>1 DEF Counted, Backed, TypeOK
      <3>3. CASE slot'[j] # slot[j]
        <4>1. j = k /\ slot[k] \in Row /\ slot[k].names = "transcript" /\ slot[k] # NoSlot
          BY <1>10, <3>3 DEF Distill, TypeOK
        <4>2. StillExists(k)
          BY <4>1 DEF StillExists
        <4>3. slot'[k] = [slot[k] EXCEPT !.names = "memory"] /\ slot[k].n = n /\ <<k, n>> \in memories'
          BY <1>10, <3>3, <4>1 DEF Distill, TypeOK
        <4>4. slot'[k] \in Row /\ slot'[k].n = n
          BY <4>1, <4>3 DEF Row
        <4>5. StillExists(k)' /\ slot'[k] # NoSlot
          BY <4>3, <4>4, RowIsNoNoSlot DEF StillExists
        <4> QED
          BY <2>1, <3>1, <4>1, <4>2, <4>5 DEF Counted, Backed, TypeOK
      <3> QED
        BY <3>2, <3>3
    <2> QED
      BY <1>b, <2>2, <2>3
  <1>11. ASSUME NEW k \in Keys, NEW n \in 1 .. copies[k], Erase(k, n)
         PROVE  Accounted'
    <2>1. UNCHANGED <<copies, slot, tick>> /\ memories' = memories \ {<<k, n>>}
      BY <1>11 DEF Erase
    <2>2. StoredFirst'
      BY <1>11, <2>1 DEF Erase, StoredFirst
    <2>3. ASSUME NEW j \in Keys
          PROVE  (Counted(j) /\ Backed(j))'
      <3>1. Counted(j) /\ Backed(j)
        BY <1>a
      <3>2. CASE slot[j] # NoSlot /\ StillExists(j) /\ ~ StillExists(j)'
        <4>1. j = k /\ slot[k].names # "transcript" /\ slot[k].n = n /\ slot[k] # NoSlot
          BY <2>1, <3>2 DEF StillExists
        <4>2. slot[k].names = "memory"
          BY <4>1 DEF TypeOK, Row
        <4>3. reopened'[j] = reopened[j] + 1
          BY <1>11, <4>1, <4>2 DEF Erase, TypeOK
        <4> QED
          BY <2>1, <3>1, <3>2, <4>3 DEF Counted, Backed, TypeOK
      <3>3. CASE ~ (slot[j] # NoSlot /\ StillExists(j) /\ ~ StillExists(j)')
        <4>1. reopened'[j] >= reopened[j] /\ reopened'[j] \in Nat
          BY <1>11 DEF Erase, TypeOK
        <4>2. StillExists(j)' => StillExists(j)
          BY <2>1 DEF StillExists
        <4> QED
          BY <2>1, <3>1, <3>3, <4>1, <4>2 DEF Counted, Backed, TypeOK
      <3> QED
        BY <3>2, <3>3
    <2> QED
      BY <1>b, <2>2, <2>3
  <1>12. CASE pruneIngestIdempotency
    <2>1. UNCHANGED <<copies, memories, tick>> /\ reopened \in [Keys -> Nat] /\ copies \in [Keys -> Nat]
      BY <1>12 DEF pruneIngestIdempotency, TypeOK
    <2>2. StoredFirst'
      BY <1>12 DEF pruneIngestIdempotency, StoredFirst
    <2>3. ASSUME NEW j \in Keys
          PROVE  (Counted(j) /\ Backed(j))'
      <3>1. Counted(j) /\ Backed(j)
        BY <1>a
      <3>2. CASE slot'[j] = slot[j]
        <4>1. reopened'[j] >= reopened[j] /\ reopened'[j] \in Nat
          BY <1>12, <2>1 DEF pruneIngestIdempotency
        <4>2. StillExists(j)' <=> StillExists(j)
          BY <2>1, <3>2 DEF StillExists
        <4> QED
          BY <2>1, <3>1, <3>2, <4>1, <4>2 DEF Counted, Backed
      <3>3. CASE slot'[j] # slot[j]
        <4>1. slot[j] # NoSlot /\ slot'[j] = NoSlot
              /\ reopened'[j] = reopened[j] + (IF StillExists(j) THEN 1 ELSE 0)
          BY <1>12, <3>3 DEF pruneIngestIdempotency
        <4> QED
          BY <2>1, <3>1, <4>1 DEF Counted, Backed
      <3> QED
        BY <3>2, <3>3
    <2> QED
      BY <1>b, <2>2, <2>3
  <1>13. CASE Day
    BY <1>13, <1>c DEF Day
  <1>14. CASE Crash
    BY <1>14, <1>c DEF Crash, Idle
  <1>15. CASE UNCHANGED vars
    BY <1>15, <1>c DEF vars
  <1> QED
    BY <1>1, <1>2, <1>3, <1>4, <1>5, <1>6, <1>7, <1>8, <1>9, <1>10, <1>11, <1>12, <1>13, <1>14, <1>15
    DEF Next, DrainStep

-------------------------------------------------------------------------------
\* Putting a file away keeps a trace of every captured key.
LEMMA QuarantineTraces ==
  ASSUME TypeOK, NEW k \in Keys, NEW r \in Reasons, quarantineSpoolFile(k, r), NEW j \in Keys,
         spool[j] # 0 \/ quarantine[j] # NotThere
  PROVE  spool'[j] # 0 \/ quarantine'[j] # NotThere
  <1>1. [reason |-> r, at |-> clock] # NotThere
    BY DEF NotThere, Reasons
  <1>2. CASE j = k
    BY <1>1, <1>2 DEF quarantineSpoolFile, TypeOK
  <1>3. CASE j # k
    BY <1>3 DEF quarantineSpoolFile, TypeOK
  <1> QED
    BY <1>2, <1>3

\* So does counting a failure, with or without the quarantine at its end.
LEMMA FailureTraces ==
  ASSUME TypeOK, NEW k \in Keys, recordFailureOrQuarantine(k), NEW j \in Keys,
         spool[j] # 0 \/ quarantine[j] # NotThere
  PROVE  spool'[j] # 0 \/ quarantine'[j] # NotThere
  <1>1. "poison" \in Reasons
    BY DEF Reasons
  <1> QED
    BY <1>1, QuarantineTraces DEF recordFailureOrQuarantine

\* Where a captured key can be found.
Found(k)  == spool[k] # 0 \/ copies[k] > 0 \/ quarantine[k] # NotThere \/ k \in expired
Served(c) == client[c].pc = "stored" => copies[client[c].key] > 0

\* Copies are never taken back, so a client that was served stays served.
LEMMA CopiesGrow ==
  ASSUME TypeOK, [Next]_vars
  PROVE  \A k \in Keys : copies'[k] >= copies[k] /\ copies'[k] \in Nat /\ copies[k] \in Nat
  <1>1. ASSUME NEW k \in Keys, Insert(k)
        PROVE  \A j \in Keys : copies'[j] >= copies[j]
    BY <1>1 DEF Insert, TypeOK
  <1>2. copies' \in [Keys -> Nat] /\ copies \in [Keys -> Nat]
    BY NextTypeOK DEF TypeOK
  <1>3. copies' = copies \/ \E k \in Keys : Insert(k)
    <2>1. \A c \in Clients : client[c].key \in Keys
      BY DEF TypeOK, Request
    <2> QED
      BY <2>1 DEF Next, DrainStep, vars, writeToSpool, DrainStart, DrainOversize, DrainUnreadable,
         DrainMalformed, DrainRead, DrainIngest, DrainConflict, DrainFails, DrainUnlink, DrainEnd,
         HttpPost, HttpIngest, HttpIngestKeyless, HttpFails, Distill, Erase, pruneIngestIdempotency,
         Day, Crash, Store
  <1> QED
    BY <1>1, <1>2, <1>3

\* No step loses a captured envelope, or the content a client was told is stored.
LEMMA NextNothingLost ==
  TypeOK /\ Accounted /\ NothingLost /\ [Next]_vars => NothingLost'
  <1> SUFFICES ASSUME TypeOK, Accounted, NothingLost, [Next]_vars
               PROVE  NothingLost'
    OBVIOUS
  <1>a. (\A k \in captured : Found(k)) /\ \A c \in Clients : Served(c)
    BY DEF NothingLost, Found, Served, TypeOK
  <1>b. ASSUME \A k \in captured' : Found(k)', \A c \in Clients : Served(c)'
        PROVE  NothingLost'
    BY <1>b DEF NothingLost, Found, Served
  <1>c. \A k \in Keys : copies'[k] >= copies[k] /\ copies'[k] \in Nat /\ copies[k] \in Nat
    BY CopiesGrow
  <1>d. captured \subseteq Keys /\ \A c \in Clients : client[c].key \in Keys
    BY DEF TypeOK, Request
  \* A step that leaves the clients alone serves nobody new.
  <1>e. ASSUME client' = client
        PROVE  \A c \in Clients : Served(c)'
    <2> SUFFICES ASSUME NEW c \in Clients, client[c].pc = "stored"
                 PROVE  copies'[client[c].key] > 0
      BY <1>e DEF Served
    <2>1. client[c].key \in Keys /\ copies[client[c].key] > 0
      BY <1>a, <1>d DEF Served
    <2> QED
      BY <1>c, <2>1
  \* A step that leaves both directories alone loses no file.
  <1>f. ASSUME UNCHANGED <<spool, quarantine, expired, captured>>
        PROVE  \A k \in captured' : Found(k)'
    <2> SUFFICES ASSUME NEW k \in captured PROVE Found(k)'
      BY <1>f
    <2>1. Found(k) /\ k \in Keys
      BY <1>a, <1>d
    <2> QED
      BY <1>c, <1>f, <2>1 DEF Found
  \* A step that moves files to the quarantine loses none.
  <1>g. ASSUME UNCHANGED <<expired, captured>>,
               \A k \in Keys : spool[k] # 0 \/ quarantine[k] # NotThere
                                  => spool'[k] # 0 \/ quarantine'[k] # NotThere
        PROVE  \A k \in captured' : Found(k)'
    <2> SUFFICES ASSUME NEW k \in captured PROVE Found(k)'
      BY <1>g
    <2>1. Found(k) /\ k \in Keys
      BY <1>a, <1>d
    <2> QED
      BY <1>c, <1>g, <2>1 DEF Found
  <1>1. ASSUME NEW k \in Keys, writeToSpool(k)
        PROVE  NothingLost'
    <2>1. spool'[k] # 0 /\ \A j \in Keys \ {k} : spool'[j] = spool[j]
      BY <1>1 DEF writeToSpool, TypeOK
    <2>2. \A j \in captured' : Found(j)'
      BY <1>1, <1>a, <1>d, <2>1 DEF writeToSpool, Found
    <2> QED
      BY <1>1, <1>b, <1>e, <2>2 DEF writeToSpool
  <1>2. CASE DrainStart
    <2>1. \A k \in captured' : Found(k)'
      BY <1>2, <1>a, <1>d DEF DrainStart, Found
    <2> QED
      BY <1>2, <1>b, <1>e, <2>1 DEF DrainStart
  <1>3. ASSUME NEW k \in Keys, DrainOversize(k) \/ DrainConflict(k)
        PROVE  NothingLost'
    <2>1. PICK r \in Reasons : quarantineSpoolFile(k, r)
      BY <1>3 DEF DrainOversize, DrainConflict, Reasons
    <2>2. UNCHANGED <<expired, captured, client>>
      BY <1>3 DEF DrainOversize, DrainConflict
    <2> QED
      BY <1>b, <1>e, <1>g, <2>1, <2>2, QuarantineTraces
  <1>4. ASSUME NEW k \in Keys, DrainMalformed(k) \/ DrainFails(k)
        PROVE  NothingLost'
    <2>1. recordFailureOrQuarantine(k) /\ UNCHANGED <<expired, captured, client>>
      BY <1>4 DEF DrainMalformed, DrainFails
    <2> QED
      BY <1>b, <1>e, <1>g, <2>1, FailureTraces
  <1>5. ASSUME NEW k \in Keys, DrainUnreadable(k) \/ DrainRead(k) \/ DrainIngest(k)
        PROVE  NothingLost'
    BY <1>5, <1>b, <1>e, <1>f DEF DrainUnreadable, DrainRead, DrainIngest
  \* The file is unlinked once its content is stored.
  <1>6. ASSUME NEW k \in Keys, DrainUnlink(k)
        PROVE  NothingLost'
    <2>1. copies[k] > 0
      BY <1>6 DEF DrainUnlink, Accounted
    <2>2. \A j \in Keys \ {k} : spool'[j] = spool[j]
      BY <1>6 DEF DrainUnlink, TypeOK
    <2>3. UNCHANGED <<copies, quarantine, expired, captured, client>>
      BY <1>6 DEF DrainUnlink
    <2>4. \A j \in captured' : Found(j)'
      BY <1>a, <1>d, <2>1, <2>2, <2>3 DEF Found
    <2> QED
      BY <1>b, <1>e, <2>3, <2>4
  <1>7. CASE DrainEnd \/ Day \/ pruneIngestIdempotency
    BY <1>7, <1>b, <1>e, <1>f DEF DrainEnd, Day, pruneIngestIdempotency
  <1>8. ASSUME NEW c \in Clients, HttpPost(c) \/ HttpFails(c)
        PROVE  NothingLost'
    <2>1. PICK p \in {"sent", "unsure"} :
            \A d \in Clients : /\ client'[d].key = client[d].key
                               /\ client'[d].pc = IF d = c THEN p ELSE client[d].pc
      BY <1>8 DEF HttpPost, HttpFails, TypeOK, Request
    <2>2. copies' = copies
      BY <1>8 DEF HttpPost, HttpFails
    <2>3. \A d \in Clients : Served(d)'
      BY <1>a, <2>1, <2>2 DEF Served
    <2> QED
      BY <1>8, <1>b, <1>f, <2>3 DEF HttpPost, HttpFails
  \* A client is told "ok" in the step that stores its content, or that finds
  \* a slot, which stands for a stored transcript.
  <1>9. ASSUME NEW c \in Clients, HttpIngest(c) \/ HttpIngestKeyless(c)
        PROVE  NothingLost'
    <2> DEFINE k == client[c].key
               b == client[c].body
    <2>1. k \in Keys /\ b \in Stamps
      BY DEF TypeOK, Request
    <2>2. PICK p \in {"refused", "stored", "unsure"} : client' = [client EXCEPT ![c].pc = p]
      BY <1>9 DEF HttpIngest, HttpIngestKeyless
    <2>3. \A d \in Clients : /\ client'[d].key = client[d].key
                             /\ client'[d].pc = IF d = c THEN p ELSE client[d].pc
      BY <2>2 DEF TypeOK, Request
    <2>4. p = "stored" => Insert(k) \/ (Replay(k, b) /\ copies' = copies)
      <3>1. CASE HttpIngest(c)
        <4>1. \/ \E pc \in {"refused", "unsure"} : client' = [client EXCEPT ![c].pc = pc]
              \/ Store(k, b)
              \/ Replay(k, b) /\ copies' = copies
          BY <3>1 DEF HttpIngest
        <4>2. ASSUME NEW pc \in {"refused", "unsure"}, client' = [client EXCEPT ![c].pc = pc]
              PROVE  p # "stored"
          BY <2>2, <4>2 DEF TypeOK, Request
        <4> QED
          BY <4>1, <4>2 DEF Store
      <3>2. CASE HttpIngestKeyless(c)
        BY <3>2 DEF HttpIngestKeyless
      <3> QED
        BY <1>9, <3>1, <3>2
    <2>5. p = "stored" => copies'[k] > 0
      <3>1. Insert(k) => copies'[k] > 0
        BY <2>1 DEF Insert, TypeOK
      <3>2. Replay(k, b) => copies[k] > 0
        BY <2>1 DEF Replay, Accounted
      <3> QED
        BY <2>4, <3>1, <3>2
    <2>6. ASSUME NEW d \in Clients
          PROVE  Served(d)'
      <3>1. CASE d = c
        BY <2>3, <2>5, <3>1 DEF Served
      <3>2. CASE d # c
        <4>1. client[d].pc = "stored" => copies[client[d].key] > 0
          BY <1>a DEF Served
        <4> QED
          BY <1>c, <1>d, <2>3, <3>2, <4>1 DEF Served
      <3> QED
        BY <3>1, <3>2
    <2> QED
      BY <1>9, <1>b, <1>f, <2>6 DEF HttpIngest, HttpIngestKeyless
  <1>10. ASSUME NEW k \in Keys, NEW n \in 1 .. copies[k], Distill(k, n) \/ Erase(k, n)
         PROVE  NothingLost'
    BY <1>10, <1>b, <1>e, <1>f DEF Distill, Erase
  <1>11. CASE Crash
    <2>1. \A c \in Clients : /\ client'[c].key = client[c].key
                             /\ client'[c].pc = "stored" => client[c].pc = "stored"
      BY <1>11 DEF Crash, TypeOK, Request
    <2>2. copies' = copies
      BY <1>11 DEF Crash
    <2>3. ASSUME NEW c \in Clients PROVE Served(c)'
      <3>1. Served(c)
        BY <1>a
      <3> QED
        BY <2>1, <2>2, <3>1 DEF Served
    <2> QED
      BY <1>11, <1>b, <1>f, <2>3 DEF Crash
  <1>12. CASE UNCHANGED vars
    BY <1>12, <1>b, <1>e, <1>f DEF vars
  <1> QED
    BY <1>1, <1>2, <1>3, <1>4, <1>5, <1>6, <1>7, <1>8, <1>9, <1>10, <1>11, <1>12 DEF Next, DrainStep

-------------------------------------------------------------------------------
\* Directories, rows, requests and the daemon's memory are always well typed.
THEOREM IngestTypeCorrect == Spec => []TypeOK
  BY InitTypeOK, NextTypeOK, PTL DEF Spec

\* The inductive invariant: what a slot accounts for.
THEOREM SlotsAccount == Spec => []Accounted
  <1>1. Init => Accounted
    BY IngestAssumption DEF Init, Accounted, Idle
  <1> QED
    BY <1>1, NextAccounted, IngestTypeCorrect, PTL DEF Spec

\* One content is stored once, however often its file is drained and its
\* request retried, over any number of crashes and failures.
THEOREM StoredExactlyOnce == Spec => []ExactlyOnce
  <1>1. TypeOK /\ Accounted => ExactlyOnce
    BY DEF TypeOK, Accounted, ExactlyOnce
  <1> QED
    BY <1>1, SlotsAccount, IngestTypeCorrect, PTL

\* Nothing captured and nothing acknowledged is lost.
THEOREM CapturedIsKept == Spec => []NothingLost
  <1>1. Init => NothingLost
    <2> SUFFICES ASSUME Init PROVE NothingLost
      OBVIOUS
    <2>1. captured = {} /\ \A c \in Clients : client[c].pc = "new"
      BY DEF Init
    <2> QED
      BY <2>1 DEF NothingLost
  <1> QED
    BY <1>1, NextNothingLost, SlotsAccount, IngestTypeCorrect, PTL DEF Spec

===============================================================================
