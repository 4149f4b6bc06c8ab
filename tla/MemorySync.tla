------------------------------ MODULE MemorySync ------------------------------
(***************************************************************************)
(* The life of a memory on several devices.                                *)
(*                                                                         *)
(* A device keeps a memories table and an append-only event log, and every *)
(* lifecycle operation (MemoryEventRepo) changes a row and appends its     *)
(* event in one transaction.  The shipper posts eligible events to the     *)
(* cloud and marks what the cloud acknowledged.  `sync pull` fetches the   *)
(* events of other devices and merges them in one transaction: new events  *)
(* are inserted, unknown atoms materialized, and the rows of touched atoms *)
(* recomputed from their events (recomputeProjection), which chains the    *)
(* losing successors of a fork to the winning one and recurses into them.  *)
(*                                                                         *)
(* The merge is one transaction of many small steps: it works on a copy of *)
(* the table and the log, which its last step commits.  Scope has two      *)
(* values, private and shared (team or org).  The cloud is external: it    *)
(* keeps one copy of an event id, in the order of arrival.                 *)
(***************************************************************************)
EXTENDS Integers, Sequences, FiniteSets

CONSTANTS
  Devices,
  Atoms,      \* atom ids
  NoAtom,
  Shared,     \* atoms every device holds, shared, before anything happens
  Content,    \* Content[a]: what the hash of a covers
  Skew,       \* Skew[d]: how far the clock of d is ahead
  Ops,        \* the lifecycle operations users perform
  BatchSize,  \* events of one shipped or pulled batch
  MaxDepth,   \* calls of recomputeProjection the stack of the runtime holds
  MaxSpent,   \* bound: lifecycle operations, lost requests, lost and late answers, partial
              \* acknowledgements, failed merges, refusals and repairs of the cloud, together
  MaxBatches  \* bound: purge batches of a device

ASSUME MemorySyncAssumption ==
  /\ IsFiniteSet(Atoms) /\ NoAtom \notin Atoms /\ Shared \subseteq Atoms
  /\ Skew \in [Devices -> Nat]
  /\ BatchSize \in Nat \ {0} /\ MaxBatches \in Nat /\ MaxSpent \in Nat

VARIABLES
  row,       \* row[d][a]: the memories row
  log,       \* log[d]: memory_events in seq order
  synced,    \* synced[d]: ids of events with a synced_at
  rejected,  \* rejected[d]: ids of events with a rejected_at
  watermark, \* watermark[d]: sync_pull_state.cursor, 0 for null
  batches,   \* batches[d]: the status of each purge batch
  flight,    \* flight[d]: the envelope a shipping round waits for
  cloud,     \* the events the cloud keeps
  refused,   \* ids of events the cloud refuses
  merge,     \* the pull transaction that is open
  ids,       \* event ids given out
  spent      \* of MaxSpent, used up

vars == <<row, log, synced, rejected, watermark, batches, flight, cloud, refused, merge,
          ids, spent>>

EventTypes == {"create", "invalidate", "supersede", "usefulness", "promote_scope",
               "erase_request", "archive", "restore", "unsupersede", "purge", "unpurge"}
LocalOnly  == {"archive", "restore", "unsupersede", "purge", "unpurge"}
Scopes     == {"private", "shared"}
Event      == [id : Nat, type : EventTypes, atom : Atoms, to : Atoms \cup {NoAtom},
               why : {"user", "conflict_merge"}, at : Nat, scope : Scopes]

NoRow == [scope |-> "none"]
Row   == [scope : Scopes, from : Nat, to : Nat, by : Atoms \cup {NoAtom},
          archived : {"yes", "no"}, batch : 0 .. MaxBatches]
Table == [Atoms -> {NoRow} \cup Row]

Status == {"none", "open", "overdue", "restored", "finalized"}

\* A call of recomputeProjection whose losing successors are still to be chained.
Frame   == [winner : Atoms, losers : SUBSET Event]
NoMerge == [dev |-> "none"]
Merge   == [dev : Devices, row : Table, log : Seq(Event), fresh : Seq(Event),
            touched : SUBSET Atoms, stack : Seq(Frame), cursor : Nat, ids : Nat]

\* The type of tables, logs, cursors, batches and the open merge: no operation
\* writes a column of a row that is not there.
TypeOK ==
  /\ row \in [Devices -> Table]
  /\ log \in [Devices -> Seq(Event)]
  /\ synced \in [Devices -> SUBSET Nat]
  /\ rejected \in [Devices -> SUBSET Nat]
  /\ watermark \in [Devices -> Nat]
  /\ batches \in [Devices -> [1 .. MaxBatches -> Status]]
  /\ flight \in [Devices -> Seq(Event)]
  /\ cloud \in Seq(Event)
  /\ refused \subseteq Nat
  /\ merge \in {NoMerge} \cup Merge
  /\ ids \in Nat /\ spent \in Nat

\* The elements of s at the places P, in their order.
Picked(s, P) ==
  LET nth(n) == CHOOSE i \in P : Cardinality({j \in P : j <= i}) = n
  IN [n \in 1 .. Cardinality(P) |-> s[nth(n)]]

IdsOf(s)        == {s[i].id : i \in 1 .. Len(s)}
EventsOf(s, a)  == {s[i] : i \in {j \in 1 .. Len(s) : s[j].atom = a}}
Erased(s, a)    == \E i \in 1 .. Len(s) : s[i].atom = a /\ s[i].type = "erase_request"
Valid(t, a)     == t[a] # NoRow /\ t[a].to = 0

NewRow(scope, from) ==
  [scope |-> scope, from |-> from, to |-> 0, by |-> NoAtom, archived |-> "no", batch |-> 0]

Init ==
  /\ row = [d \in Devices |->
             [a \in Atoms |-> IF a \in Shared THEN NewRow("shared", 0) ELSE NoRow]]
  /\ log = [d \in Devices |-> <<>>]
  /\ synced = [d \in Devices |-> {}]
  /\ rejected = [d \in Devices |-> {}]
  /\ watermark = [d \in Devices |-> 0]
  /\ batches = [d \in Devices |-> [b \in 1 .. MaxBatches |-> "none"]]
  /\ flight = [d \in Devices |-> <<>>]
  /\ cloud = <<>> /\ refused = {}
  /\ merge = NoMerge
  /\ ids = 0 /\ spent = 0

-------------------------------------------------------------------------------
(* Lifecycle operations.                                                   *)

Now(d) == ids + 1 + Skew[d]

Spend == spent < MaxSpent /\ spent' = spent + 1

Op(d, name) ==
  /\ name \in Ops /\ Spend
  /\ UNCHANGED <<synced, rejected, watermark, flight, cloud, refused, merge>>

MkEvent(d, n, type, a, to, scope) ==
  [id |-> ids + n, type |-> type, atom |-> a, to |-> to, why |-> "user",
   at |-> Now(d), scope |-> scope]

append(d, es) ==
  /\ log' = [log EXCEPT ![d] = @ \o es]
  /\ ids' = ids + Len(es)

append1(d, type, a) == append(d, <<MkEvent(d, 1, type, a, NoAtom, row[d][a].scope)>>)

\* Distillation of some content: stage 8 skips what was erased, the repository
\* what is already there.
insertWithCreateEvent(d, a, scope) ==
  /\ Op(d, "create")
  /\ a \notin Shared /\ \A e \in Devices : EventsOf(log[e], a) = {}
  /\ \A b \in Atoms : Content[b] = Content[a] => row[d][b] = NoRow /\ ~ Erased(log[d], b)
  /\ row' = [row EXCEPT ![d][a] = NewRow(scope, Now(d))]
  /\ append(d, <<MkEvent(d, 1, "create", a, NoAtom, scope)>>)
  /\ UNCHANGED batches

\* A usefulness signal, as recall and feedback record them.  The one that
\* invalidate and supersede add to their own event is a step of this action too:
\* it changes nothing but that the atom is touched where it is pulled.
usefulness(d, a) ==
  /\ Op(d, "usefulness")
  /\ row[d][a] # NoRow
  /\ append1(d, "usefulness", a)
  /\ UNCHANGED <<row, batches>>

invalidate(d, a) ==
  /\ Op(d, "invalidate")
  /\ Valid(row[d], a)
  /\ row' = [row EXCEPT ![d][a].to = Now(d)]
  /\ append1(d, "invalidate", a)
  /\ UNCHANGED batches

\* Mutant: the successor keeps the valid_from of its insertion.
supersede_KeepsValidFrom(d, a, b) ==
  /\ Op(d, "supersede")
  /\ Valid(row[d], a) /\ Valid(row[d], b)
  /\ row' = [row EXCEPT ![d][a].to = Now(d), ![d][a].by = b]
  /\ append(d, <<MkEvent(d, 1, "supersede", a, b, row[d][a].scope)>>)
  /\ UNCHANGED batches

\* Nothing asks that the two differ.
supersede(d, a, b) ==
  /\ Op(d, "supersede")
  /\ Valid(row[d], a) /\ Valid(row[d], b)
  /\ row' = [row EXCEPT ![d][a].to = Now(d), ![d][a].by = b, ![d][b].from = Now(d)]
  /\ append(d, <<MkEvent(d, 1, "supersede", a, b, row[d][a].scope)>>)
  /\ UNCHANGED batches

\* Mutant: a row that is already hidden can be archived.
archive_Hidden(d, a) ==
  /\ Op(d, "archive")
  /\ row[d][a] # NoRow
  /\ row' = [row EXCEPT ![d][a].to = Now(d), ![d][a].archived = "yes"]
  /\ append1(d, "archive", a)
  /\ UNCHANGED batches

archive(d, a) ==
  /\ Op(d, "archive")
  /\ Valid(row[d], a)
  /\ row' = [row EXCEPT ![d][a].to = Now(d), ![d][a].archived = "yes"]
  /\ append1(d, "archive", a)
  /\ UNCHANGED batches

restore(d, a) ==
  /\ Op(d, "restore")
  /\ row[d][a] # NoRow /\ row[d][a].archived = "yes"
  /\ row' = [row EXCEPT ![d][a].to = 0, ![d][a].archived = "no"]
  /\ append1(d, "restore", a)
  /\ UNCHANGED batches

unsupersede(d, a) ==
  /\ Op(d, "unsupersede")
  /\ row[d][a] # NoRow /\ row[d][a].archived = "no" /\ row[d][a].by # NoAtom
  /\ row' = [row EXCEPT ![d][a].to = 0, ![d][a].by = NoAtom]
  /\ append1(d, "unsupersede", a)
  /\ UNCHANGED batches

promoteScope(d, a) ==
  /\ Op(d, "promote")
  /\ row[d][a] # NoRow /\ row[d][a].scope = "private"
  /\ row' = [row EXCEPT ![d][a].scope = "shared"]
  /\ append(d, <<MkEvent(d, 1, "promote_scope", a, NoAtom, "shared")>>)
  /\ UNCHANGED batches

erase(d, a) ==
  /\ Op(d, "erase")
  /\ row[d][a] # NoRow
  /\ row' = [row EXCEPT ![d][a] = NoRow]
  /\ append1(d, "erase_request", a)
  /\ UNCHANGED batches

\* One event of a type for every atom of S, in some order.
OnePerAtom(d, type, S) ==
  LET order == CHOOSE f \in [1 .. Cardinality(S) -> S] : {f[i] : i \in DOMAIN f} = S IN
  [i \in 1 .. Cardinality(S) |-> MkEvent(d, i, type, order[i], NoAtom, row[d][order[i]].scope)]

\* Atoms that are gone or hidden are skipped; the batch is opened all the same.
purgeBatch(d, b, S) ==
  LET purged == {a \in S : Valid(row[d], a)} IN
  /\ Op(d, "purge")
  /\ batches[d][b] = "none" /\ \A c \in 1 .. b - 1 : batches[d][c] # "none"
  /\ row' = [row EXCEPT ![d] = [a \in Atoms |->
               IF a \in purged THEN [row[d][a] EXCEPT !.to = Now(d), !.batch = b] ELSE row[d][a]]]
  /\ append(d, OnePerAtom(d, "purge", purged))
  /\ batches' = [batches EXCEPT ![d][b] = "open"]

\* Rows that carry the batch and are hidden.
InBatch(d, b) == {a \in Atoms : row[d][a] # NoRow /\ row[d][a].batch = b /\ row[d][a].to # 0}

restorePurgeBatch(d, b) ==
  /\ Op(d, "unpurge")
  /\ batches[d][b] = "open"
  /\ row' = [row EXCEPT ![d] = [a \in Atoms |->
               IF a \in InBatch(d, b) THEN [row[d][a] EXCEPT !.to = 0, !.batch = 0] ELSE row[d][a]]]
  /\ append(d, OnePerAtom(d, "unpurge", InBatch(d, b)))
  /\ batches' = [batches EXCEPT ![d][b] = "restored"]

\* Before or after the deadline.
finalizePurgeBatch(d, b) ==
  /\ Op(d, "finalize")
  /\ batches[d][b] \in {"open", "overdue"}
  /\ row' = [row EXCEPT ![d] = [a \in Atoms |-> IF a \in InBatch(d, b) THEN NoRow ELSE row[d][a]]]
  /\ append(d, OnePerAtom(d, "erase_request", InBatch(d, b)))
  /\ batches' = [batches EXCEPT ![d][b] = "finalized"]

RestoreDeadline(d, b) ==
  /\ batches[d][b] = "open"
  /\ batches' = [batches EXCEPT ![d][b] = "overdue"]
  /\ UNCHANGED <<row, log, synced, rejected, watermark, flight, cloud, refused, merge, ids,
                 spent>>

-------------------------------------------------------------------------------
(* Shipping: a round reads a batch, posts it, and marks what was answered. *)

\* Mutant: rows the cloud rejected are selected again.
Shippable_Rejected(d, e) ==
  /\ e.id \notin synced[d]
  /\ e.type \notin LocalOnly
  /\ \/ row[d][e.atom] # NoRow /\ row[d][e.atom].scope = "shared"
     \/ e.type = "erase_request" /\ e.scope = "shared"

\* A tombstone outlives its row: its payload tells the scope.
Shippable(d, e) ==
  /\ e.id \notin synced[d] \cup rejected[d]
  /\ e.type \notin LocalOnly
  /\ \/ row[d][e.atom] # NoRow /\ row[d][e.atom].scope = "shared"
     \/ e.type = "erase_request" /\ e.scope = "shared"

Unsynced(d) == Picked(log[d], {i \in 1 .. Len(log[d]) : Shippable(d, log[d][i])})

\* Mutant: the payload goes out as it was written.
withCurrentScope_Frozen(d, e) == e

\* The payload of a create event has the scope of its time.
withCurrentScope(d, e) ==
  IF e.type = "create" /\ row[d][e.atom] # NoRow
  THEN [e EXCEPT !.scope = row[d][e.atom].scope] ELSE e

ShipStart(d) ==
  LET rows == Unsynced(d)
      n    == IF Len(rows) < BatchSize THEN Len(rows) ELSE BatchSize
  IN
  /\ flight[d] = <<>> /\ n > 0
  /\ flight' = [flight EXCEPT ![d] = [i \in 1 .. n |-> withCurrentScope(d, rows[i])]]
  /\ UNCHANGED <<row, log, synced, rejected, watermark, batches, cloud, refused, merge, ids,
                 spent>>

\* The guard of the cloud against private atoms, and its mistakes.
Refuses(e) == e.id \in refused \/ (e.type = "create" /\ e.scope = "private")

\* The cloud takes the first n events of the envelope.
Takes(d, n) ==
  cloud \o Picked(flight[d], {i \in 1 .. n : ~ Refuses(flight[d][i]) /\ flight[d][i].id \notin IdsOf(cloud)})

\* Mutant: everything up to acked_seq is marked.
AckedRows_UpToSeq(d, n) == IdsOf(SubSeq(flight[d], 1, n))

RejectedSeqs(d, n) == {e.id : e \in {x \in {flight[d][i] : i \in 1 .. n} : Refuses(x)}}
AckedRows(d, n)    == IdsOf(SubSeq(flight[d], 1, n)) \ RejectedSeqs(d, n)

\* acked_seq may lie in the middle of the batch.
ShipAnswered(d) ==
  \E n \in 1 .. Len(flight[d]) :
    /\ IF n = Len(flight[d]) THEN UNCHANGED spent ELSE Spend
    /\ cloud' = Takes(d, n)
    /\ synced' = [synced EXCEPT ![d] = @ \cup AckedRows(d, n)]
    /\ rejected' = [rejected EXCEPT ![d] = @ \cup RejectedSeqs(d, n)]
    /\ flight' = [flight EXCEPT ![d] = <<>>]
    /\ UNCHANGED <<row, log, watermark, batches, refused, merge, ids>>

\* The request is lost, or its answer; the daemon stops in between.
ShipFailed(d) ==
  /\ flight[d] # <<>> /\ Spend
  /\ cloud' \in {cloud} \cup {Takes(d, n) : n \in 1 .. Len(flight[d])}
  /\ flight' = [flight EXCEPT ![d] = <<>>]
  /\ UNCHANGED <<row, log, synced, rejected, watermark, batches, refused, merge, ids>>

\* "the cloud can be WRONG"
CloudRefuses(d) ==
  /\ Spend
  /\ \E i \in 1 .. Len(flight[d]) : refused' = refused \cup {flight[d][i].id}
  /\ UNCHANGED <<row, log, synced, rejected, watermark, batches, flight, cloud, merge, ids>>

\* The cloud is repaired, and `sync unreject` ships the rows again.
clearRejected(d) ==
  /\ Spend
  /\ rejected[d] # {}
  /\ refused' = refused \ rejected[d]
  /\ rejected' = [rejected EXCEPT ![d] = {}]
  /\ UNCHANGED <<row, log, synced, watermark, batches, flight, cloud, merge, ids>>

-------------------------------------------------------------------------------
(* Pulling: dedup-insert, materialize, recompute, advance the watermark.   *)

\* Materializing an unknown atom breaks the unique index on the hash when the
\* device holds the same content under another id: the transaction throws.
Materialized(d, fresh) ==
  {a \in Atoms : row[d][a] = NoRow
                 /\ \E i \in 1 .. Len(fresh) : fresh[i].atom = a /\ fresh[i].type = "create"}
HashesUnique(d, fresh) ==
  \A a \in Materialized(d, fresh) : \A b \in Atoms \ {a} :
    Content[a] = Content[b] => b \notin Materialized(d, fresh) /\ row[d][b] = NoRow

CreateOf(fresh, a) ==
  fresh[CHOOSE i \in 1 .. Len(fresh) : fresh[i].atom = a /\ fresh[i].type = "create"]

\* Mutant: the cursor of the answer is stored when the answer arrives.
PullStart_AdvancesFirst(d) ==
  \E seen \in watermark[d] + 1 .. Len(cloud) :
    LET last  == IF watermark[d] + BatchSize < seen THEN watermark[d] + BatchSize ELSE seen
        fresh == Picked(cloud, {i \in watermark[d] + 1 .. last : cloud[i].id \notin IdsOf(log[d])})
    IN
    /\ merge = NoMerge
    /\ IF seen = Len(cloud) THEN UNCHANGED spent ELSE Spend
    /\ HashesUnique(d, fresh)
    /\ merge' = [dev |-> d, fresh |-> fresh, log |-> log[d] \o fresh,
                 row |-> [a \in Atoms |-> IF a \in Materialized(d, fresh)
                                          THEN NewRow(CreateOf(fresh, a).scope, CreateOf(fresh, a).at)
                                          ELSE row[d][a]],
                 touched |-> {fresh[i].atom : i \in 1 .. Len(fresh)},
                 stack |-> <<>>, cursor |-> IF last = seen THEN 0 ELSE last, ids |-> ids]
    /\ watermark' = [watermark EXCEPT ![d] = IF last = seen THEN 0 ELSE last]
    /\ UNCHANGED <<row, log, synced, rejected, batches, flight, cloud, refused, ids>>

\* seen: how much the cloud had when it answered.  Its last page has no cursor.
PullStart(d) ==
  \E seen \in watermark[d] + 1 .. Len(cloud) :
    LET last  == IF watermark[d] + BatchSize < seen THEN watermark[d] + BatchSize ELSE seen
        fresh == Picked(cloud, {i \in watermark[d] + 1 .. last : cloud[i].id \notin IdsOf(log[d])})
    IN
    /\ merge = NoMerge
    /\ IF seen = Len(cloud) THEN UNCHANGED spent ELSE Spend
    /\ HashesUnique(d, fresh)
    /\ merge' = [dev |-> d, fresh |-> fresh, log |-> log[d] \o fresh,
                 row |-> [a \in Atoms |-> IF a \in Materialized(d, fresh)
                                          THEN NewRow(CreateOf(fresh, a).scope, CreateOf(fresh, a).at)
                                          ELSE row[d][a]],
                 touched |-> {fresh[i].atom : i \in 1 .. Len(fresh)},
                 stack |-> <<>>, cursor |-> IF last = seen THEN 0 ELSE last, ids |-> ids]
    /\ UNCHANGED <<row, log, synced, rejected, watermark, batches, flight, cloud, refused, ids>>

Earlier(e, f) == e.at < f.at \/ (e.at = f.at /\ e.id < f.id)
MinAt(E)      == LET e == CHOOSE x \in E : \A y \in E : x.at <= y.at IN e.at

\* Mutant: the successor named first in the log wins.
maxByTieBreak_Arrival(E, s) ==
  LET at(e) == CHOOSE i \in 1 .. Len(s) : s[i] = e IN
  CHOOSE e \in E : \A f \in E : at(e) <= at(f)

\* The total order of ADR-011: created_at, then event_id.
maxByTieBreak(E, s) == CHOOSE e \in E : \A f \in E \ {e} : Earlier(f, e)

Supersedes(s, a)  == {e \in EventsOf(s, a) : e.type = "supersede"}
Invalidates(s, a) == {e \in EventsOf(s, a) : e.type = "invalidate"}

\* Mutant: the fork is resolved before the tombstone is looked for.
Projected_ForkFirst(m, a) ==
  IF m.row[a] # NoRow /\ Supersedes(m.log, a) # {}
  THEN [m.row[a] EXCEPT !.to = MinAt(Supersedes(m.log, a)),
                        !.by = maxByTieBreak(Supersedes(m.log, a), m.log).to]
  ELSE IF Erased(m.log, a) THEN NoRow ELSE m.row[a]

\* The row recomputeProjection leaves: erasure before all, then supersession,
\* then invalidation.
Projected(m, a) ==
  CASE Erased(m.log, a) \/ m.row[a] = NoRow -> NoRow
    [] OTHER ->
         CASE Supersedes(m.log, a) # {} ->
                [m.row[a] EXCEPT !.to = MinAt(Supersedes(m.log, a)),
                                 !.by = maxByTieBreak(Supersedes(m.log, a), m.log).to]
           [] Supersedes(m.log, a) = {} /\ Invalidates(m.log, a) # {} ->
                [m.row[a] EXCEPT !.to = MinAt(Invalidates(m.log, a))]
           [] OTHER -> m.row[a]

\* The supersede events of a that lose to the winner.
Losers(m, a) ==
  IF Erased(m.log, a) \/ m.row[a] = NoRow \/ Supersedes(m.log, a) = {} THEN {}
  ELSE {e \in Supersedes(m.log, a) : e.to # maxByTieBreak(Supersedes(m.log, a), m.log).to}

\* The calls left when those with nothing more to chain have returned.
Returned(stack) ==
  LET live == {i \in 1 .. Len(stack) : stack[i].losers # {}} IN
  IF live = {} THEN <<>>
  ELSE SubSeq(stack, CHOOSE i \in live : \A j \in live : i <= j, Len(stack))

\* A call of recomputeProjection: it writes the row, and a frame remembers the
\* losers it has yet to chain.
recomputeProjection(m, a) ==
  [m EXCEPT !.row[a] = Projected(m, a),
            !.stack = IF Losers(m, a) = {} THEN Returned(@)
                      ELSE <<[winner |-> maxByTieBreak(Supersedes(m.log, a), m.log).to,
                              losers |-> Losers(m, a)]>> \o @]

\* The touched atoms, in the order of the batch.
FirstTouched(m) ==
  LET i == CHOOSE j \in 1 .. Len(m.fresh) :
             /\ m.fresh[j].atom \in m.touched
             /\ \A k \in 1 .. j - 1 : m.fresh[k].atom \notin m.touched
  IN m.fresh[i].atom

MergeRecompute ==
  /\ merge # NoMerge /\ merge.stack = <<>> /\ merge.touched # {}
  /\ LET a == FirstTouched(merge)
     IN merge' = recomputeProjection([merge EXCEPT !.touched = @ \ {a}], a)
  /\ UNCHANGED <<row, log, synced, rejected, watermark, batches, flight, cloud, refused, ids,
                 spent>>

\* The next loser of the innermost call: a synthetic event unless there is one,
\* and then the loser's own projection, always.
chainLoserToWinner ==
  /\ merge # NoMerge /\ Len(merge.stack) \in 1 .. MaxDepth
  /\ LET frame   == Head(merge.stack)
         e       == CHOOSE x \in frame.losers : \A y \in frame.losers \ {x} : Earlier(x, y)
         now     == merge.ids + 1 + Skew[merge.dev]
         already == \E x \in Supersedes(merge.log, e.to) :
                      x.to = frame.winner /\ x.why = "conflict_merge"
         chained == [id |-> merge.ids + 1, type |-> "supersede", atom |-> e.to, to |-> frame.winner,
                     why |-> "conflict_merge", at |-> IF e.at > now THEN e.at ELSE now,
                     scope |-> e.scope]
         rest    == <<[winner |-> frame.winner, losers |-> frame.losers \ {e}]>> \o Tail(merge.stack)
     IN merge' = recomputeProjection(
                   [merge EXCEPT !.stack = rest,
                                 !.ids = IF already THEN @ ELSE @ + 1,
                                 !.log = IF already THEN @ ELSE Append(@, chained)], e.to)
  /\ UNCHANGED <<row, log, synced, rejected, watermark, batches, flight, cloud, refused, ids,
                 spent>>

MergeCommit ==
  /\ merge # NoMerge /\ merge.stack = <<>> /\ merge.touched = {}
  /\ row' = [row EXCEPT ![merge.dev] = merge.row]
  /\ log' = [log EXCEPT ![merge.dev] = merge.log]
  /\ watermark' = [watermark EXCEPT ![merge.dev] = merge.cursor]
  /\ ids' = merge.ids
  /\ merge' = NoMerge
  /\ UNCHANGED <<synced, rejected, batches, flight, cloud, refused, spent>>

\* The stack of the runtime overflows, and the transaction is rolled back.
MergeThrows ==
  /\ merge # NoMerge /\ Len(merge.stack) > MaxDepth
  /\ merge' = NoMerge
  /\ UNCHANGED <<row, log, synced, rejected, watermark, batches, flight, cloud, refused, ids, spent>>

\* The command is stopped in the middle.
MergeAbort ==
  /\ merge # NoMerge /\ Spend
  /\ merge' = NoMerge
  /\ UNCHANGED <<row, log, synced, rejected, watermark, batches, flight, cloud, refused, ids>>

-------------------------------------------------------------------------------
Lifecycle(d) ==
  \/ \E a \in Atoms :
       \/ \E scope \in Scopes : insertWithCreateEvent(d, a, scope)
       \/ usefulness(d, a)
       \/ invalidate(d, a)
       \/ \E b \in Atoms : supersede(d, a, b)
       \/ archive(d, a)
       \/ restore(d, a)
       \/ unsupersede(d, a)
       \/ promoteScope(d, a)
       \/ erase(d, a)
  \/ \E b \in 1 .. MaxBatches :
       \/ \E S \in SUBSET Atoms : purgeBatch(d, b, S)
       \/ restorePurgeBatch(d, b)
       \/ finalizePurgeBatch(d, b)
       \/ RestoreDeadline(d, b)

Ship(d) ==
  \/ ShipStart(d)
  \/ ShipAnswered(d)
  \/ ShipFailed(d)
  \/ CloudRefuses(d)
  \/ clearRejected(d)

Pull == MergeRecompute \/ chainLoserToWinner \/ MergeCommit \/ MergeThrows \/ MergeAbort

\* The pull transaction holds the write lock of its device.  What the shipper and
\* other devices do meanwhile commutes with its steps, and is taken before or after.
Next ==
  \/ \E d \in Devices : merge = NoMerge /\ (Lifecycle(d) \/ Ship(d) \/ PullStart(d))
  \/ Pull

\* The shipper's timer never stops, the operator pulls again and again, and a
\* merge runs on.  Merges come and go: hence the strong fairness.
Fairness ==
  /\ \A d \in Devices :
       /\ SF_vars(merge = NoMerge /\ ShipStart(d))
       /\ SF_vars(merge = NoMerge /\ ShipAnswered(d))
       /\ SF_vars(PullStart(d))
  /\ WF_vars(MergeRecompute) /\ WF_vars(chainLoserToWinner) /\ WF_vars(MergeCommit)
  /\ WF_vars(MergeThrows)

Spec == Init /\ [][Next]_vars /\ Fairness

-------------------------------------------------------------------------------
(* What a device promises.                                                 *)

\* Atoms whose events are all the device's own: nothing pulled has named them.
OwnIn(d, s, a) ==
  \A e \in EventsOf(s, a) : e.why = "user" /\ \A c \in Devices \ {d} : e.id \notin IdsOf(log[c])
Own(d, a) == OwnIn(d, log[d], a)

\* Erasure wins: once the tombstone is in a device's log, however it came there and
\* whatever was pulled before or after it, the device has no row of the atom.
ErasureWins ==
  \A d \in Devices, a \in Atoms : Erased(log[d], a) => row[d][a] = NoRow

\* "a crash mid-pull cannot advance the watermark past events that were not actually
\* durably merged": every event up to the watermark is in the device's log.
NoGap ==
  \A d \in Devices : \A i \in 1 .. watermark[d] : i <= Len(cloud) /\ cloud[i].id \in IdsOf(log[d])

\* A row marked as synced is kept by the cloud, after lost answers, partial
\* acknowledgements and refusals in the middle of a batch.
SyncedMeansStored ==
  \A d \in Devices : synced[d] \subseteq IdsOf(cloud)

\* Nothing about an atom leaves the device while the atom is private there, and no
\* envelope says private of one that is shared by now.
EnvelopesAreShared ==
  \A d \in Devices : \A i \in 1 .. Len(flight[d]) :
    flight[d][i].type \in {"create", "erase_request"} => flight[d][i].scope = "shared"

\* The validity windows of an atom and its successor never overlap: no as_of query
\* finds both generations.
NoOverlap ==
  \A d \in Devices, a \in Atoms :
    row[d][a] # NoRow /\ row[d][a].by # NoAtom /\ row[d][row[d][a].by] # NoRow
    /\ Own(d, a) =>
      row[d][a].to <= row[d][row[d][a].by].from

Changes == {"create", "invalidate", "supersede", "archive", "purge", "restore", "unsupersede", "unpurge"}

\* The last event that hid or showed the atom, "none" before the first.
LastChange(s, a) ==
  LET at == {i \in 1 .. Len(s) : s[i].atom = a /\ s[i].type \in Changes} IN
  IF at = {} THEN "none" ELSE s[CHOOSE i \in at : \A j \in at : j <= i].type

\* A hidden memory comes back only by undoing what hid it: restore undoes an archival,
\* unsupersede a supersession, restorePurgeBatch a purge, and nothing an invalidation.
UndoMatches ==
  [][\A d \in Devices, a \in Atoms :
       /\ row[d][a] # NoRow /\ row[d][a].to # 0 /\ Own(d, a)
       /\ Valid(row'[d], a)
       => <<LastChange(log[d], a), LastChange(log'[d], a)>>
            \in {<<"archive", "restore">>, <<"supersede", "unsupersede">>, <<"purge", "unpurge">>}]_vars

\* A round after round of shipping leaves nothing eligible behind.
SyncCatchesUp == \A d \in Devices : []<>(Unsynced(d) = <<>>)

\* Everything shippable is in the cloud and everything in the cloud was merged.
Quiet ==
  /\ merge = NoMerge
  /\ \A d \in Devices :
       /\ \A i \in 1 .. Len(log[d]) : Shippable(d, log[d][i]) => log[d][i].id \in IdsOf(cloud)
       /\ rejected[d] = {}
       /\ IdsOf(cloud) \subseteq IdsOf(log[d])

Everywhere(a) ==
  \A d \in Devices :
    /\ \A e \in EventsOf(log[d], a) : e.type \notin LocalOnly
    /\ row[d][a] # NoRow => row[d][a].scope = "shared"

\* ADR-011 convergence: devices that have exchanged everything agree on every atom
\* that only shared events speak of.
Converged ==
  Quiet => \A a \in Atoms : Everywhere(a) =>
    \A c, d \in Devices :
      \/ row[c][a] = NoRow /\ row[d][a] = NoRow
      \/ /\ row[c][a] # NoRow /\ row[d][a] # NoRow
         /\ row[c][a].to = row[d][a].to /\ row[c][a].by = row[d][a].by

-------------------------------------------------------------------------------
(* Behind these properties: the inductive invariant.                       *)

\* Events with ids up to n, each id once; a supersede event names the successor.
History(s, n) ==
  /\ s \in Seq(Event)
  /\ \A i \in 1 .. Len(s) : /\ s[i].id \in 1 .. n /\ s[i].at # 0
                            /\ s[i].type = "supersede" => s[i].to \in Atoms
  /\ \A i, k \in 1 .. Len(s) : s[i].id = s[k].id => i = k

\* What is on its way or in the cloud was written by a device.
HistoriesSound ==
  /\ \A d \in Devices : /\ History(log[d], ids) /\ History(flight[d], ids)
                        /\ IdsOf(flight[d]) \subseteq IdsOf(log[d])
  /\ History(cloud, ids)
  /\ \A i \in 1 .. Len(cloud) : \E d \in Devices : cloud[i].id \in IdsOf(log[d])

\* The copy a merge works on: it only adds to the log, hides or removes rows that it was
\* told to, and leaves the device's own atoms alone; atoms erased in it are gone or are
\* still to be recomputed.
CopySound(m) ==
  /\ History(m.log, m.ids) /\ ids <= m.ids
  /\ \A i \in 1 .. Len(log[m.dev]) : i <= Len(m.log) /\ m.log[i] = log[m.dev][i]
  /\ \A a \in m.touched : \E i \in 1 .. Len(m.fresh) : m.fresh[i].atom = a
  /\ \A i \in 1 .. m.cursor : i <= Len(cloud) /\ cloud[i].id \in IdsOf(m.log)
  /\ \A i \in 1 .. Len(m.stack) : \A e \in m.stack[i].losers :
       e.type = "supersede" /\ \E k \in 1 .. Len(m.log) : m.log[k] = e
  /\ m.stack # <<>> => m.stack[1].losers # {}
  /\ \A a \in Atoms : Erased(m.log, a) => m.row[a] = NoRow \/ a \in m.touched
  /\ \A a \in Atoms : row[m.dev][a] # NoRow =>
       \/ m.row[a] = NoRow /\ Erased(m.log, a)
       \/ /\ m.row[a] # NoRow /\ m.row[a].from = row[m.dev][a].from
          /\ row[m.dev][a].to # 0 => m.row[a].to # 0
  /\ \A a \in Atoms : OwnIn(m.dev, m.log, a) =>
       /\ a \notin m.touched /\ m.row[a] = row[m.dev][a]
       /\ \A k \in Len(log[m.dev]) + 1 .. Len(m.log) : m.log[k].atom # a
MergeSound == merge # NoMerge => CopySound(merge)

\* The row of an own atom says what hid it, as its log does, and its successor follows it.
OwnRow(d, a) ==
  LET r == row[d][a] IN
  /\ r.to <= ids + Skew[d]
  /\ r.to = 0 => r.by = NoAtom /\ r.archived = "no" /\ r.batch = 0
  /\ r.archived = "yes" => LastChange(log[d], a) = "archive"
  /\ r.by # NoAtom => LastChange(log[d], a) = "supersede"
  /\ r.batch # 0 => LastChange(log[d], a) = "purge"
  /\ r.by # NoAtom => IF row[d][r.by] = NoRow THEN Erased(log[d], r.by)
                                              ELSE r.to <= row[d][r.by].from
RowsSound == \A d \in Devices, a \in Atoms : row[d][a] # NoRow /\ Own(d, a) => OwnRow(d, a)

SyncInv ==
  /\ TypeOK /\ HistoriesSound /\ MergeSound /\ RowsSound
  /\ ErasureWins /\ NoGap /\ SyncedMeansStored /\ EnvelopesAreShared
-------------------------------------------------------------------------------
(* Behind convergence: one story, told in every log, and rows that follow  *)
(* from the events of their own log.                                       *)

Entries(s) == {s[i] : i \in 1 .. Len(s)}
World      == Entries(cloud) \cup UNION {Entries(log[d]) \cup Entries(flight[d]) : d \in Devices}

\* An id means one event wherever it is, but for the scope a create event leaves with.
Same(e, f) == e = f \/ (e.type = "create" /\ f.type = "create" /\ e.atom = f.atom)
OneStory   == \A e, f \in World : e.id = f.id => Same(e, f)

Created(s, a)   == a \in Shared \/ \E e \in EventsOf(s, a) : e.type = "create"
Withdrawn(s, a) == \E e \in EventsOf(s, a) : e.type \in LocalOnly

\* The row is what recomputeProjection would leave of it, or could not yet have made of it.
Follows(r, s, a) ==
  LET S == Supersedes(s, a)
      I == Invalidates(s, a) IN
  IF S # {} THEN r.to = MinAt(S) /\ r.by = maxByTieBreak(S, s).to
            ELSE r.to = (IF I = {} THEN 0 ELSE MinAt(I)) /\ r.by = NoAtom
Behind(r, s, a) == Supersedes(s, a) = {} => r.by = NoAtom /\ (Invalidates(s, a) = {} => r.to = 0)

RowsFollow ==
  \A d \in Devices, a \in Atoms :
    IF row[d][a] = NoRow THEN Created(log[d], a) => Erased(log[d], a)
    ELSE Created(log[d], a) /\ (Withdrawn(log[d], a) \/ Follows(row[d][a], log[d], a))

\* An atom that is or was erased as private on a device was made there, and nobody else
\* heard of its creation.
Secret(d, a) ==
  /\ ~ Created(cloud, a)
  /\ \A c \in Devices : ~ Created(flight[c], a) /\ (c # d => ~ Created(log[c], a))
Private(r)      == r # NoRow /\ r.scope = "private"
GoneQuietly(s, a) == \E e \in EventsOf(s, a) : e.type = "erase_request" /\ e.scope = "private"
SecretsKept ==
  /\ \A d \in Devices, a \in Atoms : Private(row[d][a]) \/ GoneQuietly(log[d], a) => Secret(d, a)
  /\ \A e \in Entries(cloud) : e.type \in {"create", "erase_request"} => e.scope = "shared"

\* The copy a merge works on: its log adds events of the cloud and synthetic ones, and its
\* rows follow from it but where they are still to be recomputed.
CopyFollows(m) ==
  /\ \A e \in Entries(m.log) : \/ e \in Entries(log[m.dev]) \cup Entries(cloud)
                               \/ e.id > ids /\ e.type = "supersede"
  /\ \A a \in Atoms :
       IF m.row[a] = NoRow THEN Created(m.log, a) => Erased(m.log, a)
       ELSE /\ Created(m.log, a)
            /\ \/ Withdrawn(m.log, a)
               \/ Behind(m.row[a], m.log, a) /\ (a \in m.touched \/ Follows(m.row[a], m.log, a))
            /\ Private(m.row[a]) => Private(row[m.dev][a])

StoryInv ==
  /\ SyncInv /\ OneStory /\ RowsFollow /\ SecretsKept
  /\ merge # NoMerge => CopyFollows(merge)
===============================================================================
