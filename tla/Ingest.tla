-------------------------------- MODULE Ingest --------------------------------
(***************************************************************************)
(* From a captured session to a stored transcript, exactly once.           *)
(*                                                                         *)
(* `capture claude` is a process of its own: it writes an envelope into    *)
(* the spool directory, under a file name that is the hash of the          *)
(* envelope without its captured_at (writeToSpool).  The daemon's drain    *)
(* tick reads the files and ingests each one in a transaction guarded by   *)
(* an idempotency slot (ingestCanonicalTranscript), then unlinks it.  The  *)
(* HTTP route runs the same transaction for clients that retry.  The       *)
(* process may die between any two steps.                                  *)
(*                                                                         *)
(* A key stands for its content.  A body is the stamp (captured_at) of one *)
(* capture of that content: the body hash covers captured_at, the key does *)
(* not.  A transcript is <<key, n>>, the n-th one stored for the key;      *)
(* transcripts are never deleted.  Redaction and the session upsert change *)
(* nothing that is told apart here.                                        *)
(***************************************************************************)
EXTENDS Integers, FiniteSets

CONSTANTS
  Keys,               \* idempotency keys; their order is the order of the listing
  Poison,             \* keys whose file never passes JSON.parse and the schema
  Oversize,           \* keys whose file exceeds ingest.spoolMaxBytes
  Clients,            \* HTTP clients
  ClientKeys,         \* the keys of their requests
  MaxPerTick,         \* files of one drain tick
  MAX_DRAIN_ATTEMPTS,
  Retention,          \* days an idempotency row and a quarantined file are kept
  MaxCaptures,        \* bound: captures
  MaxPosts,           \* bound: tries of one HTTP client
  MaxUpsets           \* bound: failing transactions, reads and unlinks, ends of the
                      \* daemon, erased memories and days, together

ASSUME IngestAssumption ==
  /\ Keys \subseteq Nat /\ Poison \subseteq Keys /\ Oversize \subseteq Keys
  /\ ClientKeys \subseteq Keys
  /\ MaxPerTick \in Nat \ {0}
  /\ MAX_DRAIN_ATTEMPTS \in Nat \ {0}
  /\ Retention \in Nat /\ MaxCaptures \in Nat /\ MaxPosts \in Nat /\ MaxUpsets \in Nat

VARIABLES
  spool,      \* spool[k]: stamp of <k>.json, 0 when there is no such file
  quarantine, \* quarantine[k]: why and when a file of k was put away
  slot,       \* the ingest_idempotency row of k
  copies,     \* number of transcripts stored for k
  todo,       \* distill jobs of stored transcripts
  memories,   \* the memory a transcript was distilled to, while it exists
  failures,   \* failureCounts, in the daemon's memory
  tick,       \* the drain tick in progress
  client,     \* HTTP clients and their request
  captured,   \* keys captured so far
  stamp,      \* the last captured_at given out
  clock,      \* days
  upsets,     \* of MaxUpsets, used up
  reopened,   \* history: times k became storable again: its slot pruned, the memory
              \* the slot names erased, or a copy stored without a slot
  expired     \* history: quarantined files removed by their age

vars == <<spool, quarantine, slot, copies, todo, memories, failures, tick, client,
          captured, stamp, clock, upsets, reopened, expired>>

Stamps     == 1 .. MaxCaptures
NoSlot     == [body |-> 0]
NotThere   == [reason |-> "none", at |-> 0]
Reasons    == {"oversize", "poison", "conflict"}
Transcript == Keys \X (Nat \ {0})
Row        == [body : Stamps, names : {"transcript", "memory"}, n : Nat \ {0}, at : Nat]
PutAway    == [reason : Reasons, at : Nat]
Tick       == [pc : {"idle", "next", "ingest", "unlink"}, files : SUBSET Keys, body : 0 .. MaxCaptures]
Request    == [pc : {"new", "sent", "unsure", "stored", "refused"},
               key : Keys, header : {"key", "none"}, body : Stamps, tries : Nat]

\* Today's tick, its files still to visit, and the body read from the first.
Idle == [pc |-> "idle", files |-> {}, body |-> 0]

\* The type of the tables, directories, the tick and the requests; the tick
\* ingests only a body it has read (drainIngestSpool).
TypeOK ==
  /\ spool \in [Keys -> 0 .. MaxCaptures]
  /\ quarantine \in [Keys -> {NotThere} \cup PutAway]
  /\ slot \in [Keys -> {NoSlot} \cup Row]
  /\ copies \in [Keys -> Nat]
  /\ todo \subseteq Transcript
  /\ memories \subseteq Transcript
  /\ failures \in [Keys -> Nat]
  /\ tick \in Tick /\ (tick.pc = "ingest" => tick.body # 0)
  /\ client \in [Clients -> Request]
  /\ captured \subseteq Keys
  /\ stamp \in 0 .. MaxCaptures
  /\ clock \in Nat /\ upsets \in Nat
  /\ reopened \in [Keys -> Nat]
  /\ expired \subseteq Keys

Init ==
  /\ spool = [k \in Keys |-> 0]
  /\ quarantine = [k \in Keys |-> NotThere]
  /\ slot = [k \in Keys |-> NoSlot]
  /\ copies = [k \in Keys |-> 0]
  /\ todo = {} /\ memories = {}
  /\ failures = [k \in Keys |-> 0]
  /\ tick = Idle
  /\ client \in [Clients -> [pc : {"new"}, key : ClientKeys, header : {"key", "none"},
                             body : Stamps, tries : {0}]]
  /\ captured = {} /\ stamp = 0
  /\ clock = 0 /\ upsets = 0
  /\ reopened = [k \in Keys |-> 0]
  /\ expired = {}

Upset == upsets < MaxUpsets /\ upsets' = upsets + 1

-------------------------------------------------------------------------------
(* The capture command, a process of its own.                              *)

\* tmp file and rename: the file appears whole, over an earlier one.
writeToSpool(k) ==
  /\ stamp < MaxCaptures
  /\ stamp' = stamp + 1
  /\ captured' = captured \cup {k}
  /\ spool' = [spool EXCEPT ![k] = stamp + 1]
  /\ UNCHANGED <<quarantine, slot, copies, todo, memories, failures, tick, client, clock,
                 upsets, reopened, expired>>

-------------------------------------------------------------------------------
(* The ingest transaction.                                                 *)

\* Mutant: only transcripts are looked up, as before rows were repointed.
StillExists_TranscriptsOnly(k) == slot[k].names = "transcript"

\* The row still names something: its transcript, or the memory it was
\* repointed to.
StillExists(k) ==
  \/ slot[k].names = "transcript"
  \/ <<k, slot[k].n>> \in memories

Conflict(k, b) == slot[k] # NoSlot /\ slot[k].body # b
Replay(k, b)   == slot[k] # NoSlot /\ slot[k].body = b /\ StillExists(k)
Fresh(k, b)    == ~ Conflict(k, b) /\ ~ Replay(k, b)

\* Transcript and distill job are written together, and in the same
\* transaction the slot.
Insert(k) ==
  /\ copies' = [copies EXCEPT ![k] = @ + 1]
  /\ todo' = todo \cup {<<k, copies[k] + 1>>}

Store(k, b) ==
  /\ Insert(k)
  /\ slot' = [slot EXCEPT ![k] = [body |-> b, names |-> "transcript",
                                  n |-> copies[k] + 1, at |-> clock]]

-------------------------------------------------------------------------------
(* The drain tick.  It runs to its end on the event loop: no request is    *)
(* handled in between, but captures go on and the process may die.         *)

Current(k) == k \in tick.files /\ \A j \in tick.files : k <= j

AtNext(k) == tick.pc = "next" /\ Current(k)

Rest(k) == [pc |-> "next", files |-> tick.files \ {k}, body |-> 0]

\* Mutant: the file is removed and not kept.
quarantineSpoolFile_Discards(k, reason) ==
  /\ spool' = [spool EXCEPT ![k] = 0]
  /\ UNCHANGED quarantine

\* Renames the file of this key, whatever it holds by now; a file that has
\* vanished leaves no trace.
quarantineSpoolFile(k, reason) ==
  /\ spool' = [spool EXCEPT ![k] = 0]
  /\ quarantine' = IF spool[k] = 0 THEN quarantine
                   ELSE [quarantine EXCEPT ![k] = [reason |-> reason, at |-> clock]]

\* Mutant: failures are counted but never acted upon.
recordFailureOrQuarantine_NeverQuarantines(k) ==
  /\ failures' = [failures EXCEPT ![k] = IF @ + 1 >= MAX_DRAIN_ATTEMPTS THEN @ ELSE @ + 1]
  /\ UNCHANGED <<spool, quarantine>>

recordFailureOrQuarantine(k) ==
  IF failures[k] + 1 >= MAX_DRAIN_ATTEMPTS
    THEN /\ quarantineSpoolFile(k, "poison")
         /\ failures' = [failures EXCEPT ![k] = 0]
    ELSE /\ failures' = [failures EXCEPT ![k] = @ + 1]
         /\ UNCHANGED <<spool, quarantine>>

\* The quarantine is swept, then the first MaxPerTick files are listed.
DrainStart ==
  LET Present == {k \in Keys : spool[k] # 0}
      Aged == {k \in Keys : quarantine[k] # NotThere /\ clock - quarantine[k].at > Retention}
  IN  /\ tick.pc = "idle"
      /\ quarantine' = [k \in Keys |-> IF k \in Aged THEN NotThere ELSE quarantine[k]]
      /\ expired' = expired \cup Aged
      /\ tick' = [pc |-> "next", body |-> 0,
                  files |-> {k \in Present : Cardinality({j \in Present : j < k}) < MaxPerTick}]
      /\ UNCHANGED <<spool, slot, copies, todo, memories, failures, client, captured,
                     stamp, clock, upsets, reopened>>

DrainOversize(k) ==
  /\ AtNext(k)
  /\ k \in Oversize
  /\ quarantineSpoolFile(k, "oversize")
  /\ failures' = [failures EXCEPT ![k] = 0]
  /\ tick' = Rest(k)
  /\ UNCHANGED <<slot, copies, todo, memories, client, captured, stamp, clock, upsets,
                 reopened, expired>>

\* readFileSync throws: the file is skipped and its failures are not counted.
DrainUnreadable(k) ==
  /\ AtNext(k)
  /\ k \notin Oversize
  /\ Upset
  /\ tick' = Rest(k)
  /\ UNCHANGED <<spool, quarantine, slot, copies, todo, memories, failures, client,
                 captured, stamp, clock, reopened, expired>>

\* JSON.parse or the schema rejects it.
DrainMalformed(k) ==
  /\ AtNext(k)
  /\ k \in Poison \ Oversize
  /\ recordFailureOrQuarantine(k)
  /\ tick' = Rest(k)
  /\ UNCHANGED <<slot, copies, todo, memories, client, captured, stamp, clock, upsets,
                 reopened, expired>>

DrainRead(k) ==
  /\ AtNext(k)
  /\ k \notin Poison \cup Oversize
  /\ spool[k] # 0
  /\ tick' = [tick EXCEPT !.pc = "ingest", !.body = spool[k]]
  /\ UNCHANGED <<spool, quarantine, slot, copies, todo, memories, failures, client,
                 captured, stamp, clock, upsets, reopened, expired>>

\* A replay is a successful drain.
DrainIngest(k) ==
  /\ tick.pc = "ingest" /\ Current(k)
  /\ \/ Fresh(k, tick.body) /\ Store(k, tick.body)
     \/ Replay(k, tick.body) /\ UNCHANGED <<copies, todo, slot>>
  /\ tick' = [tick EXCEPT !.pc = "unlink"]
  /\ UNCHANGED <<spool, quarantine, memories, failures, client, captured, stamp, clock,
                 upsets, reopened, expired>>

DrainConflict(k) ==
  /\ tick.pc = "ingest" /\ Current(k)
  /\ Conflict(k, tick.body)
  /\ quarantineSpoolFile(k, "conflict")
  /\ failures' = [failures EXCEPT ![k] = 0]
  /\ tick' = Rest(k)
  /\ UNCHANGED <<slot, copies, todo, memories, client, captured, stamp, clock, upsets,
                 reopened, expired>>

\* Any other error of the transaction, which is rolled back.
DrainFails(k) ==
  /\ tick.pc = "ingest" /\ Current(k)
  /\ Upset
  /\ recordFailureOrQuarantine(k)
  /\ tick' = Rest(k)
  /\ UNCHANGED <<slot, copies, todo, memories, client, captured, stamp, clock, reopened,
                 expired>>

\* The unlink is best effort: it may fail and leave the file.
DrainUnlink(k) ==
  /\ tick.pc = "unlink" /\ Current(k)
  /\ failures' = [failures EXCEPT ![k] = 0]
  /\ \/ spool' = [spool EXCEPT ![k] = 0] /\ UNCHANGED upsets
     \/ Upset /\ UNCHANGED spool
  /\ tick' = Rest(k)
  /\ UNCHANGED <<quarantine, slot, copies, todo, memories, client, captured, stamp, clock,
                 reopened, expired>>

DrainEnd ==
  /\ tick.pc = "next" /\ tick.files = {}
  /\ tick' = Idle
  /\ UNCHANGED <<spool, quarantine, slot, copies, todo, memories, failures, client,
                 captured, stamp, clock, upsets, reopened, expired>>

-------------------------------------------------------------------------------
(* POST /ingest/transcript.  The route awaits the repository lookup before *)
(* its transaction; a client that gets no answer sends the same body under *)
(* the same key again.  A legacy body, and a client without the header,    *)
(* has no key.  A body the schema rejects is answered 400 and changes      *)
(* nothing.                                                                *)

HttpPost(c) ==
  /\ client[c].pc \in {"new", "unsure"}
  /\ client[c].tries < MaxPosts
  /\ client' = [client EXCEPT ![c].pc = "sent", ![c].tries = @ + 1]
  /\ UNCHANGED <<spool, quarantine, slot, copies, todo, memories, failures, tick, captured,
                 stamp, clock, upsets, reopened, expired>>

\* After the transaction the answer reaches the client, or is lost.
HttpIngest(c) ==
  LET k == client[c].key
      b == client[c].body
  IN  /\ client[c].pc = "sent" /\ client[c].header = "key"
      /\ tick.pc = "idle"
      /\ \/ /\ Conflict(k, b)
            /\ \E pc \in {"refused", "unsure"} : client' = [client EXCEPT ![c].pc = pc]
            /\ UNCHANGED <<copies, todo, slot>>
         \/ /\ \/ Fresh(k, b) /\ Store(k, b)
               \/ Replay(k, b) /\ UNCHANGED <<copies, todo, slot>>
            /\ \E pc \in {"stored", "unsure"} : client' = [client EXCEPT ![c].pc = pc]
      /\ UNCHANGED <<spool, quarantine, memories, failures, tick, captured, stamp, clock,
                     upsets, reopened, expired>>

\* Without a key the transcript is simply stored.
HttpIngestKeyless(c) ==
  LET k == client[c].key
  IN  /\ client[c].pc = "sent" /\ client[c].header = "none"
      /\ tick.pc = "idle"
      /\ Insert(k)
      /\ \E pc \in {"stored", "unsure"} : client' = [client EXCEPT ![c].pc = pc]
      /\ reopened' = [reopened EXCEPT ![k] = @ + 1]
      /\ UNCHANGED <<spool, quarantine, slot, memories, failures, tick, captured, stamp,
                     clock, upsets, expired>>

\* The transaction throws and is rolled back: 500.
HttpFails(c) ==
  /\ client[c].pc = "sent"
  /\ tick.pc = "idle"
  /\ Upset
  /\ client' = [client EXCEPT ![c].pc = "unsure"]
  /\ UNCHANGED <<spool, quarantine, slot, copies, todo, memories, failures, tick, captured,
                 stamp, clock, reopened, expired>>

-------------------------------------------------------------------------------
(* What happens to a slot afterwards.                                      *)

\* The distill job of a transcript ends with a memory, and repoints the slot
\* that still names the transcript; or it extracts nothing.
Distill(k, n) ==
  LET Named == slot[k] # NoSlot /\ slot[k].names = "transcript" /\ slot[k].n = n
  IN  /\ tick.pc = "idle"
      /\ <<k, n>> \in todo
      /\ todo' = todo \ {<<k, n>>}
      /\ \/ /\ memories' = memories \cup {<<k, n>>}
            /\ slot' = IF Named THEN [slot EXCEPT ![k].names = "memory"] ELSE slot
         \/ UNCHANGED <<memories, slot>>
      /\ UNCHANGED <<spool, quarantine, copies, failures, tick, client, captured, stamp,
                     clock, upsets, reopened, expired>>

\* The user erases the memory a slot may name.
Erase(k, n) ==
  LET Names == slot[k] # NoSlot /\ slot[k].names = "memory" /\ slot[k].n = n
  IN  /\ tick.pc = "idle"
      /\ Upset
      /\ <<k, n>> \in memories
      /\ memories' = memories \ {<<k, n>>}
      /\ reopened' = IF Names THEN [reopened EXCEPT ![k] = @ + 1] ELSE reopened
      /\ UNCHANGED <<spool, quarantine, slot, copies, todo, failures, tick, client,
                     captured, stamp, clock, expired>>

\* The cleanup job deletes rows older than the retention.
pruneIngestIdempotency ==
  LET Old == {k \in Keys : slot[k] # NoSlot /\ slot[k].at < clock - Retention}
  IN  /\ tick.pc = "idle"
      /\ Old # {}
      /\ slot' = [k \in Keys |-> IF k \in Old THEN NoSlot ELSE slot[k]]
      /\ reopened' = [k \in Keys |-> reopened[k] + (IF k \in Old /\ StillExists(k) THEN 1 ELSE 0)]
      /\ UNCHANGED <<spool, quarantine, copies, todo, memories, failures, tick, client,
                     captured, stamp, clock, upsets, expired>>

Day ==
  /\ Upset
  /\ clock' = clock + 1
  /\ UNCHANGED <<spool, quarantine, slot, copies, todo, memories, failures, tick, client,
                 captured, stamp, reopened, expired>>

\* The daemon dies and is started again: the tick, the failure counts and the
\* requests under way are gone; files and rows stay.
Crash ==
  /\ Upset
  /\ tick' = Idle
  /\ failures' = [k \in Keys |-> 0]
  /\ client' = [c \in Clients |-> IF client[c].pc = "sent"
                                    THEN [client[c] EXCEPT !.pc = "unsure"] ELSE client[c]]
  /\ UNCHANGED <<spool, quarantine, slot, copies, todo, memories, captured, stamp, clock,
                 reopened, expired>>

-------------------------------------------------------------------------------
DrainStep ==
  \/ DrainStart
  \/ \E k \in Keys :
       \/ DrainOversize(k) \/ DrainUnreadable(k) \/ DrainMalformed(k) \/ DrainRead(k)
       \/ DrainIngest(k) \/ DrainConflict(k) \/ DrainFails(k) \/ DrainUnlink(k)
  \/ DrainEnd

Next ==
  \/ \E k \in Keys : writeToSpool(k)
  \/ DrainStep
  \/ \E c \in Clients : HttpPost(c) \/ HttpIngest(c) \/ HttpIngestKeyless(c) \/ HttpFails(c)
  \/ \E k \in Keys : \E n \in 1 .. copies[k] : Distill(k, n) \/ Erase(k, n)
  \/ pruneIngestIdempotency
  \/ Day
  \/ Crash

\* The interval timer starts a tick, and a tick runs to its end, as long as
\* the daemon lives.
Fairness == WF_vars(DrainStep)

Spec == Init /\ [][Next]_vars /\ Fairness

-------------------------------------------------------------------------------
(* Properties.                                                             *)

\* What was captured is in the spool, stored, or in quarantine until its age
\* removes it from there; and a client that was told "ok" has its content
\* stored: whatever the tick, its failures and a crash do between reading a
\* file and unlinking it (drainIngestSpool).
NothingLost ==
  /\ \A k \in Keys : k \in captured =>
        spool[k] # 0 \/ copies[k] > 0 \/ quarantine[k] # NotThere \/ k \in expired
  /\ \A c \in Clients : client[c].pc = "stored" => copies[client[c].key] > 0

\* One content is stored once, however often its file is drained and its
\* request retried: a second copy needs the slot to be pruned, the memory it
\* names to be erased, or a request without a key (ingestCanonicalTranscript).
ExactlyOnce == \A k \in Keys : copies[k] <= 1 + reopened[k]

\* Why both hold: a slot that recognises a replay accounts for one copy and
\* any other for none; a slot stands for a stored transcript; and a file is
\* only unlinked once its content is stored.
Accounted ==
  /\ \A k \in Keys : IF slot[k] # NoSlot /\ StillExists(k)
                       THEN copies[k] <= 1 + reopened[k] ELSE copies[k] <= reopened[k]
  /\ \A k \in Keys : slot[k] # NoSlot => copies[k] > 0
  /\ tick.pc = "unlink" => \A k \in Keys : Current(k) => copies[k] > 0

\* Every spooled file leaves the spool, also behind files that fail and with
\* fewer files per tick than there are (recordFailureOrQuarantine).
SpoolDrains == \A k \in Keys : []<>(spool[k] = 0)
===============================================================================
