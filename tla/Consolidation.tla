----------------------------- MODULE Consolidation -----------------------------
(***************************************************************************)
(* Consolidation: the pass that merges near-duplicate memories             *)
(* (runConsolidation) and the queue of proposals it leaves to people       *)
(* (ProposalRepo).                                                         *)
(*                                                                         *)
(* A pass sweeps the pending proposals, loads the valid atoms page by      *)
(* page, groups them, scans the pairs of each group from where the stored  *)
(* cursor says, and lets a judge go over the proposals that are left.  It  *)
(* works on the atoms it loaded and gives up the event loop at each page,  *)
(* group, pair and judge call; meanwhile users edit memories, people       *)
(* resolve proposals, and a second pass (POST /consolidation/run next to   *)
(* the scheduled job) runs.  Deadlines and waiting jobs of higher priority *)
(* stop a pass early; what supersede throws, and a restart, end it.        *)
(*                                                                         *)
(* The texts and vectors of atoms never change, so what they decide is a   *)
(* constant of the run: the band of a pair's similarity, which text        *)
(* contains which, and the pairs the command guard blocks.  Usefulness     *)
(* does change: either atom of a pair may win.  A batch of the duplicate   *)
(* judge is answered one proposal at a time.  An id of a resolved proposal *)
(* that no pass holds is used again.                                       *)
(***************************************************************************)
EXTENDS Integers, Sequences, FiniteSets
LOCAL INSTANCE SequencesExt

CONSTANTS
  Atoms,
  NoAtom,
  ScanOrder,   \* the atoms in the order of the load: repo, type, created_at
  GroupOf,     \* GroupOf[a]: its (repo, type)
  NoGroup,
  CreatedAt,
  Worlds,      \* what Init chooses from: contents and configuration
  Passes,
  Jobs,        \* the passes the job queue runs; the others are requests
  PageSize,    \* setupYieldEveryNAtoms
  Ids          \* bound: ids of proposals

Pairs  == {pr \in SUBSET Atoms : \E a, b \in Atoms : a # b /\ pr = {a, b} /\ GroupOf[a] = GroupOf[b]}
Groups == {GroupOf[a] : a \in Atoms}

\* low < minSimilarity <= judge < proposeThreshold <= propose < autoAcceptThreshold
\* <= accept < mergeThreshold <= merge
Bands     == {"low", "judge", "propose", "accept", "merge"}
JudgeBand == {"judge", "propose", "accept"}
World     == [sim : [Pairs -> Bands], superset : [Pairs -> SUBSET Atoms], guarded : SUBSET Pairs,
              selection : {"full", "knn"}, maxGroupSize : Nat, ceiling : Nat,
              autoAccept : {"on", "off"}, contradiction : {"off", "dry-run", "enabled"},
              dup : {"off", "enabled"},
              edits : Nat]  \* bound: edits and decisions of users, requested passes, restarts

ASSUME ConsolidationAssumption ==
  /\ NoAtom \notin Atoms /\ NoGroup \notin Groups
  /\ ScanOrder \in Seq(Atoms) /\ CreatedAt \in [Atoms -> Nat]
  /\ Worlds \subseteq World
  /\ \A w \in Worlds : \A pr \in Pairs : w.superset[pr] \subseteq pr
  /\ Jobs \subseteq Passes
  /\ PageSize \in Nat \ {0}
  /\ Ids \subseteq Nat /\ IsFiniteSet(Ids)

VARIABLES
  world,
  row,     \* memories: valid, hidden or gone; superseded_by and who decided it
  prop,    \* consolidation_proposals
  cursor,  \* consolidation_cursor.group_key, NoGroup for null
  pass,    \* the passes
  edits    \* of world.edits, used up

vars == <<world, row, prop, cursor, pass, edits>>

Row   == [st : {"valid", "hidden", "gone"}, by : Atoms \cup {NoAtom}, source : {"auto", "external"}]
Gone  == [status : {"free", "accepted", "rejected"}]
Prop  == [status : {"pending", "accepted", "rejected"}, kind : {"merge", "contradiction"},
          winner : Atoms, loser : Atoms]
PCs   == {"idle", "sweep", "load", "group", "pairs", "judge", "end", "dup"}
Pass  == [pc : PCs, held : SUBSET Ids, seen : {<<>>} \cup [Atoms -> Row], offset : Nat,
          loaded : SUBSET Atoms, from : Groups \cup {NoGroup}, order : Seq(Groups), gi : Nat,
          todo : SUBSET Pairs, cur : SUBSET Atoms, dead : SUBSET Atoms, n : Nat,
          preempted : BOOLEAN, cut : BOOLEAN, stop : Nat]

\* The type of the atoms, the proposals and the passes, and of the cursor a pass
\* leaves (consolidation-cursor.ts).
TypeOK ==
  /\ world \in Worlds
  /\ row \in [Atoms -> Row]
  /\ prop \in [Ids -> Gone \cup Prop]
  /\ cursor \in Groups \cup {NoGroup}
  /\ pass \in [Passes -> Pass]
  /\ edits \in 0 .. world.edits

Live == [st |-> "valid", by |-> NoAtom, source |-> "external"]
Idle == [pc |-> "idle", held |-> {}, seen |-> <<>>, offset |-> 0, loaded |-> {}, from |-> NoGroup,
         order |-> <<>>, gi |-> 0, todo |-> {}, cur |-> {}, dead |-> {}, n |-> 0,
         preempted |-> FALSE, cut |-> FALSE, stop |-> 0]

Init ==
  /\ world \in Worlds
  /\ row = [a \in Atoms |-> Live]
  /\ prop = [i \in Ids |-> [status |-> "free"]]
  /\ cursor = NoGroup
  /\ pass = [p \in Passes |-> Idle]
  /\ edits = 0

-------------------------------------------------------------------------------
(* Rows and proposals.                                                     *)

Valid(r, a)  == r[a].st = "valid"
Exists(r, a) == r[a].st # "gone"
Pending(i)   == prop[i].status = "pending"
PairOf(i)    == {prop[i].winner, prop[i].loser}

\* Mutant: the winner need not be valid.
CanSupersede_AnyWinner(l, w) == Valid(row, l) /\ Exists(row, w)

\* What supersede checks before it writes; otherwise it throws.
CanSupersede(l, w) == Valid(row, l) /\ Valid(row, w)

mergeAsSupersede(l, w, source) ==
  row' = [row EXCEPT ![l] = [st |-> "hidden", by |-> w, source |-> source]]

Held(i) == \E p \in Passes : i \in pass[p].held

Closed(status) == [status |-> status]

\* Of a resolved proposal that no pass holds, the status is all that is kept.
Resolve(i, status) ==
  prop' = [prop EXCEPT ![i] = IF Held(i) THEN [@ EXCEPT !.status = status] ELSE Closed(status)]

\* Mutant: the status is not looked at.
Acceptable_Any(i) == prop[i] \in Prop /\ CanSupersede(prop[i].loser, prop[i].winner)

\* accept goes through: the proposal is pending and supersede does not throw.
Acceptable(i) == Pending(i) /\ CanSupersede(prop[i].loser, prop[i].winner)

accept(i, source) ==
  /\ Acceptable(i)
  /\ mergeAsSupersede(prop[i].loser, prop[i].winner, source)
  /\ Resolve(i, "accepted")

\* accept inside a try: what it throws changes nothing.
acceptOrLeave(i, source) ==
  \/ accept(i, source)
  \/ ~ Acceptable(i) /\ UNCHANGED <<row, prop>>

reject(i) == Pending(i) /\ Resolve(i, "rejected")

Asked(pr) == \E i \in Ids : Pending(i) /\ PairOf(i) = pr
Unheld    == {i \in Ids : ~ Pending(i) /\ ~ Held(i)}
NewId     == CHOOSE i \in Unheld : TRUE
Proposed(kind, l, w) ==
  [prop EXCEPT ![NewId] = [status |-> "pending", kind |-> kind, winner |-> w, loser |-> l]]

\* The insert of a pending proposal, unless the unordered pair has one.
InsertProposal(kind, l, w) ==
  \/ Asked({l, w}) /\ UNCHANGED prop
  \/ ~ Asked({l, w}) /\ Unheld # {} /\ prop' = Proposed(kind, l, w)
-------------------------------------------------------------------------------
(* A pass.  The sweep is one turn of the event loop: nothing comes between *)
(* its rows.                                                               *)

Turn == \A p \in Passes : pass[p].pc # "sweep"
Edit == edits < world.edits /\ edits' = edits + 1

Step(p, pc) == Turn /\ pass[p].pc = pc
Becomes(p, s) == pass' = [pass EXCEPT ![p] = s]

\* The pending proposals whose two atoms the join finds.
Start(p) ==
  /\ Step(p, "idle")
  /\ IF p \in Jobs THEN UNCHANGED edits ELSE Edit
  /\ Becomes(p, [Idle EXCEPT !.pc = "sweep", !.seen = row,
                             !.held = {i \in Ids : Pending(i) /\ \A a \in PairOf(i) : Exists(row, a)}])
  /\ UNCHANGED <<world, row, prop, cursor>>

\* Mutant: whatever is no longer valid counts as merged.
SweptStatus_Done(r, i) == "accepted"

\* Work already done is recorded; otherwise the proposal cannot be acted on.
SweptStatus(r, i) == IF r[prop[i].loser].by = prop[i].winner THEN "accepted" ELSE "rejected"

\* Mutant: only the loser is looked at.
Unactionable_Loser(r, i) == ~ Valid(r, prop[i].loser)

Unactionable(r, i) == \E a \in PairOf(i) : ~ Valid(r, a)

\* The winner's text contains the loser's, and the command guard lets the pair merge.
Contained(i) == prop[i].winner \in world.superset[PairOf(i)] /\ PairOf(i) \notin world.guarded

sweepContainedProposals(p) ==
  /\ pass[p].pc = "sweep"
  /\ \E i \in pass[p].held :
       /\ Becomes(p, [pass[p] EXCEPT !.held = @ \ {i}])
       /\ \/ /\ Unactionable(pass[p].seen, i)
             /\ Resolve(i, SweptStatus(pass[p].seen, i)) /\ UNCHANGED row
          \/ /\ ~ Unactionable(pass[p].seen, i) /\ Contained(i)
             /\ acceptOrLeave(i, "auto")
          \/ /\ ~ Unactionable(pass[p].seen, i) /\ ~ Contained(i)
             /\ UNCHANGED <<row, prop>>
  /\ UNCHANGED <<world, cursor, edits>>

Rotated(s, k) == SubSeq(s, k, Len(s)) \o SubSeq(s, 1, k - 1)

\* Groups of two and more: as loaded, or oldest first from the cursor on.
groupOrder(atoms) ==
  LET Members(g) == {i \in 1 .. Len(ScanOrder) : ScanOrder[i] \in atoms /\ GroupOf[ScanOrder[i]] = g}
      First(g)   == CHOOSE i \in Members(g) : \A j \in Members(g) : i <= j
      Oldest(g)  == CreatedAt[ScanOrder[First(g)]]
      allGroups  == {g \in Groups : Cardinality(Members(g)) >= 2}
      sorted     == SetToSortSeq(allGroups, LAMBDA g, h : Oldest(g) < Oldest(h))
      startIdx   == {i \in 1 .. Len(sorted) : sorted[i] = cursor}
  IN IF world.ceiling = 0 /\ cursor = NoGroup
     THEN SetToSortSeq(allGroups, LAMBDA g, h : First(g) < First(h))
     ELSE IF startIdx = {} THEN sorted ELSE Rotated(sorted, CHOOSE i \in startIdx : TRUE)

\* One page of valid atoms; then the deadline, or a waiting job, may stop the load.
loadAtomsSetupBounded(p) ==
  /\ Step(p, "load") \/ (pass[p].pc = "sweep" /\ pass[p].held = {})
  /\ LET valid == SelectSeq(ScanOrder, LAMBDA a : Valid(row, a))
         page  == {i \in 1 .. Len(valid) : pass[p].offset < i /\ i <= pass[p].offset + PageSize}
         atoms == pass[p].loaded \cup {valid[i] : i \in page}
         s     == [pass[p] EXCEPT !.seen = <<>>, !.loaded = atoms]
     IN \/ /\ Cardinality(page) < PageSize
           /\ Becomes(p, [s EXCEPT !.pc = "group", !.from = cursor, !.order = groupOrder(atoms),
                                   !.gi = 1, !.offset = 0])
        \/ /\ Cardinality(page) = PageSize
           /\ Becomes(p, [s EXCEPT !.pc = "load", !.offset = @ + PageSize])
        \/ /\ Cardinality(page) = PageSize
           /\ Becomes(p, [s EXCEPT !.pc = "end", !.from = cursor, !.cut = TRUE, !.offset = 0])
  /\ UNCHANGED <<world, row, prop, cursor, edits>>

CandidatePairs(G) ==
  LET all == {pr \in Pairs : pr \subseteq G}
  IN IF world.selection = "full" THEN {all} ELSE SUBSET all

\* The next group: none is left, it is too large for a full scan, the deadline or a
\* waiting job stops the build of its vectors, or its pairs are listed.
GroupStart(p) ==
  /\ Step(p, "group")
  /\ LET s == pass[p]
         G == {a \in s.loaded : GroupOf[a] = s.order[s.gi]}
     IN \/ s.gi > Len(s.order) /\ Becomes(p, [s EXCEPT !.pc = "end"])
        \/ /\ s.gi <= Len(s.order)
           /\ world.selection = "full" /\ Cardinality(G) > world.maxGroupSize
           /\ Becomes(p, [s EXCEPT !.gi = @ + 1])
        \/ /\ s.gi <= Len(s.order)
           /\ world.selection = "full" => Cardinality(G) <= world.maxGroupSize
           /\ \/ Becomes(p, [s EXCEPT !.pc = "end", !.stop = s.gi])
              \/ \E prs \in CandidatePairs(G) :
                   Becomes(p, [s EXCEPT !.pc = "pairs", !.todo = prs])
  /\ UNCHANGED <<world, row, prop, cursor, edits>>
\* Which atom may win: by containment, else by usefulness, importance and age.
Winners(pr) == IF world.superset[pr] # {} THEN world.superset[pr] ELSE pr

AutoMerges(pr)  == world.superset[pr] # {} \/ world.sim[pr] = "merge"
AutoAccepts(pr) == world.autoAccept = "on" /\ world.sim[pr] = "accept"

Handled(s) == [s EXCEPT !.pc = "pairs", !.cur = {}]

\* A merge; what supersede throws ends the pass, and its cursor is not written.
MergePair(p, s, l, w) ==
  \/ /\ CanSupersede(l, w)
     /\ mergeAsSupersede(l, w, "auto")
     /\ Becomes(p, [Handled(s) EXCEPT !.dead = @ \cup {l}])
  \/ ~ CanSupersede(l, w) /\ Becomes(p, Idle) /\ UNCHANGED row

\* What becomes of a pair: too far apart, merged, blocked by the command guard and so
\* proposed, proposed and accepted, or proposed.
MergeTier(p, s, pr) ==
  \/ /\ world.sim[pr] \in {"low", "judge"}
     /\ Becomes(p, Handled(s)) /\ UNCHANGED <<row, prop>>
  \/ /\ world.sim[pr] \in {"propose", "accept", "merge"}
     /\ \E w \in Winners(pr) : \E l \in pr \ {w} :
          \/ /\ AutoMerges(pr) /\ pr \notin world.guarded
             /\ MergePair(p, s, l, w) /\ UNCHANGED prop
          \/ /\ AutoMerges(pr) => pr \in world.guarded
             /\ AutoMerges(pr) \/ ~ AutoAccepts(pr) \/ Asked(pr)
             /\ InsertProposal("merge", l, w)
             /\ Becomes(p, Handled(s)) /\ UNCHANGED row
          \/ /\ ~ AutoMerges(pr) /\ AutoAccepts(pr) /\ ~ Asked(pr) /\ Unheld # {}
             /\ prop' = IF CanSupersede(l, w) THEN [prop EXCEPT ![NewId] = Closed("accepted")]
                        ELSE Proposed("merge", l, w)
             /\ MergePair(p, s, l, w)

\* The next pair: the yield, where a job may find that another one waits, then the atoms
\* this pass merged already, the call of the contradiction judge, which only jobs have
\* and the caps of a run leave out, and the tiers.
processPair(p) ==
  /\ Step(p, "pairs") /\ ~ pass[p].preempted
  /\ \E pr \in pass[p].todo, yes \in BOOLEAN :
       LET s == [pass[p] EXCEPT !.todo = @ \ {pr}, !.preempted = yes,
                                !.n = IF @ < world.ceiling THEN @ + 1 ELSE @]
       IN /\ yes => p \in Jobs
          /\ \/ pr \cap s.dead # {} /\ Becomes(p, s) /\ UNCHANGED <<row, prop>>
             \/ /\ pr \cap s.dead = {} /\ p \in Jobs
                /\ world.contradiction # "off" /\ world.sim[pr] \in JudgeBand
                /\ Becomes(p, [s EXCEPT !.pc = "judge", !.cur = pr]) /\ UNCHANGED <<row, prop>>
             \/ pr \cap s.dead = {} /\ MergeTier(p, s, pr)
  /\ UNCHANGED <<world, cursor, edits>>

\* The verdict: contradicts with confidence, unrelated (or no answer), or anything else.
judgeContradiction(p) ==
  /\ Step(p, "judge")
  /\ LET pr    == pass[p].cur
         newer == CHOOSE a \in pr : \A b \in pr : CreatedAt[b] <= CreatedAt[a]
         older == CHOOSE a \in pr : a # newer
     IN \/ /\ Becomes(p, Handled(pass[p])) /\ UNCHANGED row
           /\ IF world.contradiction = "enabled"
              THEN InsertProposal("contradiction", older, newer) ELSE UNCHANGED prop
        \/ Becomes(p, Handled(pass[p])) /\ UNCHANGED <<row, prop>>
        \/ MergeTier(p, pass[p], pr)
  /\ UNCHANGED <<world, cursor, edits>>

\* After the pairs of a group: preempted, at the ceiling, or on to the next group.
GroupEnd(p) ==
  /\ Step(p, "pairs") /\ (pass[p].preempted \/ pass[p].todo = {})
  /\ LET s == [pass[p] EXCEPT !.todo = {}, !.preempted = FALSE]
     IN Becomes(p, IF \/ pass[p].preempted
                      \/ world.ceiling > 0 /\ s.n >= world.ceiling
                   THEN [s EXCEPT !.pc = "end", !.stop = s.gi]
                   ELSE [s EXCEPT !.pc = "group", !.gi = @ + 1])
  /\ UNCHANGED <<world, row, prop, cursor, edits>>

\* Mutant: without a ceiling no cursor is written.
NextCursor_CeilingOnly(s) ==
  IF world.ceiling = 0 THEN cursor
  ELSE IF s.stop > 0 /\ s.stop < Len(s.order) THEN s.order[s.stop + 1] ELSE NoGroup

\* The group after the one the pass stopped in; a scan to the end starts over.
NextCursor(s) ==
  IF s.stop > 0 THEN (IF s.stop < Len(s.order) THEN s.order[s.stop + 1] ELSE NoGroup)
  ELSE IF world.ceiling > 0 \/ s.from # NoGroup THEN NoGroup ELSE cursor

\* The cursor, and the proposals the duplicate judge will see.
ScanEnd(p) ==
  /\ Step(p, "end")
  /\ cursor' = NextCursor(pass[p])
  /\ LET rows == {i \in Ids : /\ Pending(i) /\ prop[i].kind = "merge"
                              /\ \A a \in PairOf(i) : Exists(row, a)
                              /\ world.sim[PairOf(i)] \in {"propose", "accept"}}
     IN Becomes(p, IF world.dup = "off" \/ p \notin Jobs \/ rows = {} THEN Idle
                   ELSE [Idle EXCEPT !.pc = "dup", !.held = rows])
  /\ UNCHANGED <<world, row, prop, edits>>

\* A verdict of the judge on a proposal listed before the call: same fact, distinct, or
\* none to act on; the caps of a run end the sweep.
runDupJudgeSweep(p) ==
  /\ Step(p, "dup")
  /\ \/ \E i \in pass[p].held :
          LET left == pass[p].held \ {i}
          IN /\ Becomes(p, IF left = {} THEN Idle ELSE [pass[p] EXCEPT !.held = left])
             /\ \/ PairOf(i) \notin world.guarded /\ acceptOrLeave(i, "auto")
                \/ PairOf(i) \notin world.guarded /\ reject(i) /\ UNCHANGED row
                \/ UNCHANGED <<row, prop>>
     \/ Becomes(p, Idle) /\ UNCHANGED <<row, prop>>
  /\ UNCHANGED <<world, cursor, edits>>

-------------------------------------------------------------------------------
(* Everyone else.                                                          *)

Put(a, r) == row' = [row EXCEPT ![a] = r]
Hidden(a) == row[a].st = "hidden"

\* invalidate and archive; restore; unsupersede; erase; supersede
UserEdit(a) ==
  /\ Turn /\ Edit
  /\ \/ Valid(row, a) /\ Put(a, [Live EXCEPT !.st = "hidden"])
     \/ Hidden(a) /\ row[a].by = NoAtom /\ Put(a, Live)
     \/ Hidden(a) /\ row[a].by # NoAtom /\ Put(a, Live)
     \/ Exists(row, a) /\ Put(a, [Live EXCEPT !.st = "gone"])
     \/ \E w \in Atoms \ {a} : CanSupersede(a, w) /\ mergeAsSupersede(a, w, "external")
  /\ UNCHANGED <<world, prop, cursor, pass>>

\* A person accepts or rejects; an answer of 409 changes nothing.
resolveProposal(i) ==
  /\ Turn /\ Edit
  /\ accept(i, "external") \/ (reject(i) /\ UNCHANGED row)
  /\ UNCHANGED <<world, cursor, pass>>

Restart ==
  /\ Edit
  /\ pass # [p \in Passes |-> Idle] /\ pass' = [p \in Passes |-> Idle]
  /\ UNCHANGED <<world, row, prop, cursor>>

PassStep(p) ==
  \/ sweepContainedProposals(p) \/ loadAtomsSetupBounded(p) \/ GroupStart(p)
  \/ processPair(p) \/ judgeContradiction(p) \/ GroupEnd(p)
  \/ ScanEnd(p) \/ runDupJudgeSweep(p)

Next ==
  \/ \E p \in Passes : Start(p) \/ PassStep(p)
  \/ \E a \in Atoms : UserEdit(a)
  \/ \E i \in Ids : resolveProposal(i)
  \/ Restart

\* A consolidate job is due every six hours; a pass that runs goes on, the judges'
\* calls time out.
Fairness == \A p \in Passes : WF_vars(PassStep(p)) /\ (p \in Jobs => WF_vars(Start(p)))

Spec == Init /\ [][Next]_vars /\ Fairness
-------------------------------------------------------------------------------
(* Properties.                                                             *)

Superseded == {a \in Atoms : row[a].by # NoAtom}

\* Two passes that picked opposite winners, a verdict about rows that changed meanwhile,
\* a person and a pass: none of them makes memories hide each other.  Following
\* superseded_by from a merged memory always ends at one that is visible or that a user
\* hid or erased.
Survivor == \A S \in SUBSET Superseded : S # {} => \E a \in S : row[a].by \notin S

\* The auto-accept tier merges pairs that the command guard says must never merge by
\* themselves; it is the only one: neither the merge tier, nor the sweep of proposals a
\* person has yet to see, nor the duplicate judge merges such a pair.
OnlyAutoAcceptSkipsGuard ==
  \A a \in Superseded :
    row[a].source = "auto" /\ {a, row[a].by} \in world.guarded => AutoAccepts({a, row[a].by})

\* Whoever accepts a proposal, and however stale what they looked at: an accepted
\* proposal is a merge that is in force at that moment.
AcceptedMeansMerged ==
  [][\A i \in Ids : Pending(i) /\ prop'[i].status = "accepted"
                    => row'[prop[i].loser].by = prop[i].winner]_vars

\* A proposal someone rejected while the judge was asked about it stays rejected.
RejectionStands ==
  [][\A p \in Passes, i \in Ids :
       i \in pass[p].held /\ prop[i].status = "rejected" => prop'[i] = prop[i]]_vars

\* Behind these properties: only a merge names the memory that takes a row's place, and the
\* proposals are about two memories.
RowsSound ==
  /\ row \in [Atoms -> Row]
  /\ \A a \in Superseded : Hidden(a)
PropsSound ==
  /\ prop \in [Ids -> Gone \cup Prop]
  /\ \A i \in Ids : prop[i] \in Prop => prop[i].winner # prop[i].loser

\* What a pass holds are proposals and pairs; only one pass is in its sweep, and of the
\* proposals it has yet to look at, and of the merges it saw, nothing has changed since.
PassSound(s) ==
  /\ DOMAIN s = DOMAIN Idle
  /\ s.held \subseteq Ids /\ s.todo \subseteq Pairs
  /\ s.pc = "judge" => s.cur \in Pairs
PassesSound ==
  /\ DOMAIN pass = Passes
  /\ \A p \in Passes :
       /\ PassSound(pass[p])
       /\ pass[p].pc = "sweep" =>
            /\ \A i \in pass[p].held : Pending(i)
            /\ pass[p].seen \in [Atoms -> Row]
            /\ \A a \in Atoms : pass[p].seen[a].by # NoAtom => row[a] = pass[p].seen[a]
  /\ \A p, q \in Passes : pass[p].pc = "sweep" /\ pass[q].pc = "sweep" => p = q
Sound == RowsSound /\ PropsSound /\ PassesSound

\* A proposal one of whose memories is hidden leaves the queue, also when the pass that
\* inserted it worked on rows that were stale by then.  (One whose memory is erased stays:
\* the join of the sweep drops it.)
StaleProposalsLeave ==
  \A i \in Ids :
    []<>(~ (/\ Pending(i) /\ \E a \in PairOf(i) : Hidden(a)
            /\ \A a \in PairOf(i) : Exists(row, a)))

\* However often passes are stopped in the middle of their scan, each group of two and more
\* has its turn again and again, unless the load itself keeps being cut short: that
\* resets the cursor.
GroupsHaveTheirTurn ==
  (\A p \in Passes : <>[] ~ pass[p].cut) =>
    \A g \in Groups :
      []<>(\/ Cardinality({a \in Atoms : GroupOf[a] = g /\ Valid(row, a)}) < 2
           \/ \E p \in Passes : /\ pass[p].pc = "group" /\ pass[p].gi <= Len(pass[p].order)
                                 /\ pass[p].order[pass[p].gi] = g)

=============================================================================
