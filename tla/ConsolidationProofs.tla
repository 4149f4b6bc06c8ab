-------------------------- MODULE ConsolidationProofs --------------------------
(***************************************************************************)
(* Machine-checked proofs about Consolidation, for any atoms, passes,      *)
(* proposals, contents and bounds.                                         *)
(*                                                                         *)
(* Whatever a pass, a judge, a person or a user does comes down to a few   *)
(* changes of a row (RowChange) and of a proposal (PropChange).  The proof *)
(* shows that each action, stale as its data may be, makes no other        *)
(* changes (StepChanges), and the properties from those changes.           *)
(***************************************************************************)
EXTENDS Consolidation, TLAPS

-------------------------------------------------------------------------------
(* What may happen to rows and proposals.                                  *)

Sources == {"auto", "external"}

\* Two different memories are merged, by a tier that may do so.
Merge(l, w, source) ==
  /\ l # w /\ CanSupersede(l, w)
  /\ source = "auto" => {l, w} \notin world.guarded \/ AutoAccepts({l, w})
  /\ mergeAsSupersede(l, w, source)

\* A row is left alone, merged, or set by a user to one that nothing takes the place of.
RowChange ==
  \/ UNCHANGED row
  \/ \E l, w \in Atoms, source \in Sources : Merge(l, w, source)
  \/ \E a \in Atoms, st \in {"valid", "hidden", "gone"} : Put(a, [Live EXCEPT !.st = st])

\* A pending proposal is resolved, accepted only with its merge in force; or a new one
\* takes an id that no pass holds.
PropChange ==
  \/ UNCHANGED prop
  \/ \E i \in Ids, status \in {"accepted", "rejected"} :
       /\ Pending(i) /\ Resolve(i, status)
       /\ status = "accepted" => row'[prop[i].loser].by = prop[i].winner
  \/ \E i \in Unheld, v \in Gone \cup Prop :
       /\ v \in Prop => v.winner # v.loser
       /\ prop' = [prop EXCEPT ![i] = v]

USE DEF Sources

\* A row is merged only from valid, and becomes one that is hidden.
LEMMA RowChangeKeepsRows == ASSUME RowsSound, RowChange PROVE RowsSound'
  <1>1. CASE UNCHANGED row
    BY <1>1 DEF RowsSound, Superseded, Hidden
  <1>2. ASSUME NEW l \in Atoms, NEW w \in Atoms, NEW s \in Sources, Merge(l, w, s)
        PROVE  RowsSound'
    <2>1. [st |-> "hidden", by |-> w, source |-> s] \in Row
      BY DEF Row
    <2> QED
      BY <1>2, <2>1 DEF RowsSound, Superseded, Hidden, Merge, mergeAsSupersede
  <1>3. ASSUME NEW a \in Atoms, NEW st \in {"valid", "hidden", "gone"},
               Put(a, [Live EXCEPT !.st = st])
        PROVE  RowsSound'
    <2>1. /\ [Live EXCEPT !.st = st] \in Row
          /\ [Live EXCEPT !.st = st].by = NoAtom
      BY DEF Row, Live
    <2> HIDE DEF Live
    <2> QED
      BY <1>3, <2>1 DEF RowsSound, Superseded, Hidden, Put
  <1> QED
    BY <1>1, <1>2, <1>3 DEF RowChange

\* The last merge leads out of any set of merged memories it is in: its winner is valid.
LEMMA RowChangeKeepsSurvivor ==
  ASSUME RowsSound, Survivor, RowChange PROVE Survivor'
  <1> SUFFICES ASSUME NEW S \in SUBSET Superseded', S # {}
               PROVE  \E a \in S : row'[a].by \notin S
    BY DEF Survivor
  <1>0. NoAtom \notin Atoms
    BY ConsolidationAssumption
  <1>1. CASE UNCHANGED row
    BY <1>1 DEF Survivor, Superseded
  <1>2. ASSUME NEW l \in Atoms, NEW w \in Atoms, NEW s \in Sources, Merge(l, w, s)
        PROVE  \E a \in S : row'[a].by \notin S
    <2>1. /\ row'[l].by = w
          /\ \A a \in Atoms \ {l} : row'[a] = row[a]
          /\ w \notin Superseded
      BY <1>2 DEF Merge, mergeAsSupersede, CanSupersede, Valid, RowsSound, Superseded, Hidden
    <2>2. w \notin S
      BY <1>2, <2>1 DEF Merge, Superseded
    <2>3. CASE l \in S
      BY <2>1, <2>2, <2>3
    <2>4. CASE l \notin S
      <3>1. S \in SUBSET Superseded /\ \A a \in S : row'[a] = row[a]
        BY <2>1, <2>4 DEF Superseded
      <3> QED
        BY <3>1 DEF Survivor
    <2> QED
      BY <2>3, <2>4
  <1>3. ASSUME NEW a \in Atoms, NEW st \in {"valid", "hidden", "gone"},
               Put(a, [Live EXCEPT !.st = st])
        PROVE  \E b \in S : row'[b].by \notin S
    <2>1. row'[a].by = NoAtom /\ \A b \in Atoms \ {a} : row'[b] = row[b]
      BY <1>3 DEF Put, Live, RowsSound
    <2>2. S \in SUBSET Superseded /\ \A b \in S : row'[b] = row[b]
      BY <2>1 DEF Superseded
    <2> QED
      BY <2>2 DEF Survivor
  <1> QED
    BY <1>1, <1>2, <1>3 DEF RowChange

\* Only a merge puts a name into a row, and Merge says which ones the guard may block.
LEMMA RowChangeKeepsGuard ==
  ASSUME RowsSound, OnlyAutoAcceptSkipsGuard, RowChange, UNCHANGED world PROVE OnlyAutoAcceptSkipsGuard'
  <1>1. CASE UNCHANGED row
    BY <1>1 DEF OnlyAutoAcceptSkipsGuard, Superseded, AutoAccepts
  <1>2. ASSUME NEW l \in Atoms, NEW w \in Atoms, NEW s \in Sources, Merge(l, w, s)
        PROVE  OnlyAutoAcceptSkipsGuard'
    BY <1>2 DEF OnlyAutoAcceptSkipsGuard, Superseded, AutoAccepts, Merge, mergeAsSupersede, RowsSound
  <1>3. ASSUME NEW a \in Atoms, NEW st \in {"valid", "hidden", "gone"},
               Put(a, [Live EXCEPT !.st = st])
        PROVE  OnlyAutoAcceptSkipsGuard'
    <2>1. row'[a].by = NoAtom /\ \A b \in Atoms \ {a} : row'[b] = row[b]
      BY <1>3 DEF Put, Live, RowsSound
    <2> QED
      BY <2>1 DEF OnlyAutoAcceptSkipsGuard, Superseded, AutoAccepts
  <1> QED
    BY <1>1, <1>2, <1>3 DEF RowChange

\* A proposal whose status changes keeps its memories.
LEMMA PropChangeKeepsProps == ASSUME PropsSound, PropChange PROVE PropsSound'
  <1>1. CASE UNCHANGED prop
    BY <1>1 DEF PropsSound
  <1>2. ASSUME NEW i \in Ids, NEW s \in {"accepted", "rejected"}, Pending(i), Resolve(i, s)
        PROVE  PropsSound'
    <2>1. prop[i] \in Prop /\ prop[i].winner # prop[i].loser
      BY <1>2 DEF PropsSound, Pending, Gone
    <2>2. /\ [prop[i] EXCEPT !.status = s] \in Prop
          /\ [prop[i] EXCEPT !.status = s].winner = prop[i].winner
          /\ [prop[i] EXCEPT !.status = s].loser = prop[i].loser
      BY <2>1 DEF Prop
    <2>3. Closed(s) \in Gone /\ Closed(s) \notin Prop
      <3>1. Closed(s) \in Gone
        BY DEF Closed, Gone
      <3>2. DOMAIN Closed(s) = {"status"} /\ \A v \in Prop : "kind" \in DOMAIN v
        BY DEF Closed, Prop
      <3> QED
        BY <3>1, <3>2
    <2>4. \/ prop' = [prop EXCEPT ![i] = [prop[i] EXCEPT !.status = s]]
          \/ prop' = [prop EXCEPT ![i] = Closed(s)]
      BY <1>2 DEF Resolve
    <2> QED
      BY <2>1, <2>2, <2>3, <2>4 DEF PropsSound
  <1>3. ASSUME NEW i \in Unheld, NEW v \in Gone \cup Prop,
               v \in Prop => v.winner # v.loser, prop' = [prop EXCEPT ![i] = v]
        PROVE  PropsSound'
    BY <1>3 DEF PropsSound, Unheld
  <1> QED
    BY <1>1, <1>2, <1>3 DEF PropChange

-------------------------------------------------------------------------------
(* Each action makes only such changes.                                    *)

\* A pending proposal is about two different memories.
LEMMA PendingIsAProp ==
  ASSUME PropsSound, NEW i \in Ids, Pending(i)
  PROVE  /\ prop[i] \in Prop /\ prop[i].winner \in Atoms /\ prop[i].loser \in Atoms
         /\ prop[i].winner # prop[i].loser
  <1>1. prop[i] \in Prop
    BY DEF PropsSound, Pending, Gone
  <1> QED
    BY <1>1 DEF PropsSound, Prop

\* An accepted proposal is a merge in force at that moment.
LEMMA AcceptChanges ==
  ASSUME RowsSound, PropsSound, NEW i \in Ids, NEW source \in Sources, accept(i, source),
         source = "auto" => PairOf(i) \notin world.guarded
  PROVE  RowChange /\ PropChange
  <1>1. /\ prop[i].winner \in Atoms /\ prop[i].loser \in Atoms
        /\ prop[i].winner # prop[i].loser /\ Pending(i)
    BY PendingIsAProp DEF accept, Acceptable
  <1>2. Merge(prop[i].loser, prop[i].winner, source)
    <2>1. {prop[i].loser, prop[i].winner} = PairOf(i)
      BY DEF PairOf
    <2> QED
      BY <1>1, <2>1 DEF Merge, accept, Acceptable
  <1>3. RowChange
    BY <1>1, <1>2 DEF RowChange
  <1>4. row'[prop[i].loser].by = prop[i].winner
    BY <1>1 DEF accept, mergeAsSupersede, RowsSound
  <1>5. PropChange
    BY <1>1, <1>4 DEF PropChange, accept
  <1> QED
    BY <1>3, <1>5

\* Rejecting one leaves the rows alone.
LEMMA RejectChanges ==
  ASSUME NEW i \in Ids, reject(i), UNCHANGED row PROVE RowChange /\ PropChange
  <1>1. PropChange
    BY DEF reject, PropChange
  <1> QED
    BY <1>1 DEF RowChange

\* A new proposal takes a free id.
LEMMA InsertChanges ==
  ASSUME NEW kind \in {"merge", "contradiction"}, NEW l \in Atoms, NEW w \in Atoms, l # w,
         InsertProposal(kind, l, w)
  PROVE  PropChange
  <1>1. CASE UNCHANGED prop
    BY <1>1 DEF PropChange
  <1>2. CASE Unheld # {} /\ prop' = Proposed(kind, l, w)
    <2> DEFINE v == [status |-> "pending", kind |-> kind, winner |-> w, loser |-> l]
    <2>1. v \in Prop /\ v.winner # v.loser
      BY DEF Prop
    <2>2. NewId \in Unheld /\ prop' = [prop EXCEPT ![NewId] = v]
      BY <1>2 DEF NewId, Proposed
    <2> QED
      BY <2>1, <2>2 DEF PropChange
  <1> QED
    BY <1>1, <1>2 DEF InsertProposal

\* The winner of a pair is one of its two memories, the loser the other.
LEMMA TwoOfAPair ==
  ASSUME world \in Worlds, NEW pr \in Pairs, NEW w \in Winners(pr), NEW l \in pr \ {w}
  PROVE  l \in Atoms /\ w \in Atoms /\ l # w /\ {l, w} = pr
  <1>1. w \in pr
    BY ConsolidationAssumption DEF Winners
  <1> QED
    BY <1>1 DEF Pairs

\* The tiers: a pair is left, merged, proposed, or proposed and accepted.
LEMMA TierChanges ==
  ASSUME RowsSound, world \in Worlds, NEW p, NEW s, NEW pr \in Pairs, MergeTier(p, s, pr)
  PROVE  RowChange /\ PropChange
  <1>1. CASE UNCHANGED <<row, prop>>
    BY <1>1 DEF RowChange, PropChange
  <1>2. ASSUME NEW w \in Winners(pr), NEW l \in pr \ {w},
               AutoMerges(pr), pr \notin world.guarded, MergePair(p, s, l, w), UNCHANGED prop
        PROVE  RowChange /\ PropChange
    <2>1. CASE CanSupersede(l, w) /\ mergeAsSupersede(l, w, "auto")
      <3>1. {l, w} = pr /\ l # w
        BY TwoOfAPair
      <3>2. {l, w} \notin world.guarded
        BY <1>2, <3>1
      <3>3. Merge(l, w, "auto")
        BY <2>1, <3>1, <3>2 DEF Merge
      <3> QED
        BY <1>2, <3>3, TwoOfAPair DEF RowChange, PropChange
    <2>2. CASE UNCHANGED row
      BY <1>2, <2>2 DEF RowChange, PropChange
    <2> QED
      BY <1>2, <2>1, <2>2 DEF MergePair
  <1>3. ASSUME NEW w \in Winners(pr), NEW l \in pr \ {w},
               InsertProposal("merge", l, w), UNCHANGED row
        PROVE  RowChange /\ PropChange
    BY <1>3, TwoOfAPair, InsertChanges DEF RowChange
  <1>4. ASSUME NEW w \in Winners(pr), NEW l \in pr \ {w},
               AutoAccepts(pr), ~ Asked(pr), Unheld # {}, MergePair(p, s, l, w),
               prop' = IF CanSupersede(l, w) THEN [prop EXCEPT ![NewId] = Closed("accepted")]
                       ELSE Proposed("merge", l, w)
        PROVE  RowChange /\ PropChange
    <2>1. NewId \in Unheld
      BY <1>4 DEF NewId
    <2>2. CASE CanSupersede(l, w)
      <3>1. Closed("accepted") \in Gone /\ Closed("accepted") \notin Prop
        <4>1. Closed("accepted") \in Gone
          BY DEF Closed, Gone
        <4>2. DOMAIN Closed("accepted") = {"status"} /\ \A v \in Prop : "kind" \in DOMAIN v
          BY DEF Closed, Prop
        <4> QED
          BY <4>1, <4>2
      <3>2. PropChange
        BY <1>4, <2>1, <2>2, <3>1 DEF PropChange
      <3>3. {l, w} = pr /\ l # w
        BY TwoOfAPair
      <3>4. AutoAccepts({l, w})
        BY <1>4, <3>3
      <3>5. Merge(l, w, "auto")
        BY <1>4, <2>2, <3>3, <3>4 DEF Merge, MergePair
      <3> QED
        BY <3>2, <3>5, TwoOfAPair DEF RowChange
    <2>3. CASE ~ CanSupersede(l, w)
      <3>1. InsertProposal("merge", l, w)
        <4>1. Asked({l, w}) = Asked(pr)
          BY TwoOfAPair
        <4> QED
          BY <1>4, <2>3, <4>1 DEF InsertProposal
      <3> QED
        BY <1>4, <2>3, <3>1, TwoOfAPair, InsertChanges DEF RowChange, MergePair
    <2> QED
      BY <2>2, <2>3
  <1> QED
    BY <1>1, <1>2, <1>3, <1>4 DEF MergeTier

\* The sweep: a proposal it closes was seen merged and still is, one it accepts passes the
\* command guard.
LEMMA SweepChanges ==
  ASSUME Sound, NEW p \in Passes, sweepContainedProposals(p) PROVE RowChange /\ PropChange
  <1> USE DEF Sound
  <1>1. PICK i \in pass[p].held :
          \/ Unactionable(pass[p].seen, i) /\ Resolve(i, SweptStatus(pass[p].seen, i)) /\ UNCHANGED row
          \/ Contained(i) /\ acceptOrLeave(i, "auto")
          \/ UNCHANGED <<row, prop>>
    BY DEF sweepContainedProposals
  <1>2. i \in Ids /\ Pending(i)
    BY DEF sweepContainedProposals, PassesSound, PassSound
  <1>3. CASE Unactionable(pass[p].seen, i) /\ Resolve(i, SweptStatus(pass[p].seen, i)) /\ UNCHANGED row
    <2>1. /\ prop[i].winner \in Atoms /\ prop[i].loser \in Atoms
          /\ prop[i].winner # NoAtom
      BY <1>2, PendingIsAProp, ConsolidationAssumption
    <2>2. SweptStatus(pass[p].seen, i) = "accepted" => row'[prop[i].loser].by = prop[i].winner
      BY <1>3, <2>1 DEF SweptStatus, sweepContainedProposals, PassesSound
    <2>3. SweptStatus(pass[p].seen, i) \in {"accepted", "rejected"}
      BY DEF SweptStatus
    <2>4. PropChange
      BY <1>2, <1>3, <2>2, <2>3 DEF PropChange
    <2> QED
      BY <1>3, <2>4 DEF RowChange
  <1>4. CASE Contained(i) /\ acceptOrLeave(i, "auto")
    <2>1. CASE accept(i, "auto")
      BY <1>2, <1>4, <2>1, AcceptChanges DEF Contained
    <2>2. CASE UNCHANGED <<row, prop>>
      BY <2>2 DEF RowChange, PropChange
    <2> QED
      BY <1>4, <2>1, <2>2 DEF acceptOrLeave
  <1>5. CASE UNCHANGED <<row, prop>>
    BY <1>5 DEF RowChange, PropChange
  <1> QED
    BY <1>1, <1>3, <1>4, <1>5

\* The judge of contradictions proposes that the newer memory replaces the older one.
LEMMA JudgeChanges ==
  ASSUME Sound, world \in Worlds, NEW p \in Passes, judgeContradiction(p)
  PROVE  RowChange /\ PropChange
  <1> USE DEF Sound
  <1> DEFINE pr    == pass[p].cur
             newer == CHOOSE a \in pr : \A b \in pr : CreatedAt[b] <= CreatedAt[a]
             older == CHOOSE a \in pr : a # newer
  <1>1. pr \in Pairs
    BY DEF judgeContradiction, Step, PassesSound, PassSound
  <1>2. newer \in pr /\ older \in pr /\ older # newer
    <2>1. PICK a \in Atoms, b \in Atoms : a # b /\ pr = {a, b}
      BY <1>1 DEF Pairs
    <2>2. CreatedAt[a] \in Nat /\ CreatedAt[b] \in Nat
      BY ConsolidationAssumption
    <2>3. \E c \in pr : \A d \in pr : CreatedAt[d] <= CreatedAt[c]
      BY <2>1, <2>2
    <2>4. newer \in pr
      BY <2>3
    <2>5. \E c \in pr : c # newer
      <3> HIDE DEF newer
      <3>1. a \in pr /\ b \in pr /\ (a # newer \/ b # newer)
        BY <2>1
      <3> QED
        BY <3>1
    <2> QED
      BY <2>4, <2>5
  <1>3. newer \in Atoms /\ older \in Atoms
    BY <1>1, <1>2 DEF Pairs
  <1>4. \/ UNCHANGED <<row, prop>>
        \/ UNCHANGED row /\ InsertProposal("contradiction", older, newer)
        \/ MergeTier(p, pass[p], pr)
    BY DEF judgeContradiction
  <1> HIDE DEF newer, older
  <1>5. CASE UNCHANGED <<row, prop>>
    BY <1>5 DEF RowChange, PropChange
  <1>6. CASE UNCHANGED row /\ InsertProposal("contradiction", older, newer)
    BY <1>2, <1>3, <1>6, InsertChanges DEF RowChange
  <1>7. CASE MergeTier(p, pass[p], pr)
    BY <1>1, <1>7, TierChanges
  <1> QED
    BY <1>4, <1>5, <1>6, <1>7

\* Every step of the system comes down to such changes.
LEMMA StepChanges ==
  ASSUME Sound, world \in Worlds, [Next]_vars PROVE RowChange /\ PropChange
  <1>1. CASE UNCHANGED <<row, prop>>
    BY <1>1 DEF RowChange, PropChange
  <1>2. ASSUME NEW p \in Passes, sweepContainedProposals(p) PROVE RowChange /\ PropChange
    BY <1>2, SweepChanges
  <1>3. ASSUME NEW p \in Passes, processPair(p) PROVE RowChange /\ PropChange
    <2>1. PICK pr \in pass[p].todo : \E s : UNCHANGED <<row, prop>> \/ MergeTier(p, s, pr)
      BY <1>3 DEF processPair
    <2>2. pr \in Pairs
      BY <2>1 DEF Sound, PassesSound, PassSound
    <2> QED
      BY <1>1, <2>1, <2>2, TierChanges DEF Sound
  <1>4. ASSUME NEW p \in Passes, judgeContradiction(p) PROVE RowChange /\ PropChange
    BY <1>4, JudgeChanges
  <1>5. ASSUME NEW p \in Passes, runDupJudgeSweep(p) PROVE RowChange /\ PropChange
    <2>1. CASE UNCHANGED <<row, prop>>
      BY <1>1, <2>1
    <2>2. ASSUME NEW i \in pass[p].held, PairOf(i) \notin world.guarded,
                 acceptOrLeave(i, "auto") \/ (reject(i) /\ UNCHANGED row)
          PROVE  RowChange /\ PropChange
      <3>1. i \in Ids
        BY DEF Sound, PassesSound, PassSound
      <3> QED
        BY <1>1, <2>2, <3>1, AcceptChanges, RejectChanges DEF acceptOrLeave, Sound
    <2> QED
      BY <1>5, <2>1, <2>2 DEF runDupJudgeSweep
  <1>6. ASSUME NEW a \in Atoms, UserEdit(a) PROVE RowChange /\ PropChange
    <2>1. PropChange
      BY <1>6 DEF UserEdit, PropChange
    <2>2. ASSUME NEW w \in Atoms \ {a}, CanSupersede(a, w), mergeAsSupersede(a, w, "external")
          PROVE  RowChange
      BY <2>2 DEF RowChange, Merge
    <2>3. Live = [Live EXCEPT !.st = "valid"]
      BY DEF Live
    <2>4. ASSUME NEW st \in {"valid", "hidden", "gone"}, Put(a, [Live EXCEPT !.st = st])
          PROVE  RowChange
      BY <2>4 DEF RowChange
    <2> QED
      BY <1>6, <2>1, <2>2, <2>3, <2>4 DEF UserEdit
  <1>7. ASSUME NEW i \in Ids, resolveProposal(i) PROVE RowChange /\ PropChange
    BY <1>7, AcceptChanges, RejectChanges DEF resolveProposal, Sound
  <1>8. ASSUME NEW p \in Passes, Start(p) \/ loadAtomsSetupBounded(p) \/ GroupStart(p)
                                   \/ GroupEnd(p) \/ ScanEnd(p)
        PROVE  UNCHANGED <<row, prop>>
    BY <1>8 DEF Start, loadAtomsSetupBounded, GroupStart, GroupEnd, ScanEnd
  <1>9. CASE Restart
    BY <1>1, <1>9 DEF Restart
  <1>10. CASE UNCHANGED vars
    BY <1>1, <1>10 DEF vars
  <1> QED
    BY <1>1, <1>2, <1>3, <1>4, <1>5, <1>6, <1>7, <1>8, <1>9, <1>10 DEF Next, PassStep

-------------------------------------------------------------------------------
(* What a pass holds.                                                      *)

\* While no other pass is in its sweep a pass may become anything sound outside of it.
LEMMA OutsideOfSweep ==
  ASSUME PassesSound, NEW p \in Passes, \A q \in Passes \ {p} : pass[q].pc # "sweep",
         NEW s, PassSound(s), s.pc # "sweep", Becomes(p, s)
  PROVE  PassesSound'
  BY DEF PassesSound, PassSound, Becomes

\* What a sweep saw of merges stays so: it merges only rows that are valid.
LEMMA SweepKeepsPasses ==
  ASSUME Sound, NEW p \in Passes, sweepContainedProposals(p) PROVE PassesSound'
  <1> USE DEF Sound
  <1>1. PICK i \in pass[p].held :
          /\ Becomes(p, [pass[p] EXCEPT !.held = @ \ {i}])
          /\ \/ Resolve(i, SweptStatus(pass[p].seen, i)) /\ UNCHANGED row
             \/ acceptOrLeave(i, "auto")
             \/ UNCHANGED <<row, prop>>
    BY DEF sweepContainedProposals
  <1>2. i \in Ids /\ Pending(i) /\ pass[p].pc = "sweep"
    BY DEF sweepContainedProposals, PassesSound, PassSound
  <1>3. prop[i].loser \in Atoms
    BY <1>2, PendingIsAProp
  <1>4. \A k \in Ids \ {i} : prop'[k] = prop[k]
    BY <1>1, <1>2 DEF Resolve, acceptOrLeave, accept, PropsSound
  <1>5. \A a \in Atoms : row[a].by # NoAtom => row'[a] = row[a]
    BY <1>1, <1>3 DEF acceptOrLeave, accept, Acceptable, CanSupersede, Valid, mergeAsSupersede,
                      RowsSound, Superseded, Hidden
  <1>6. /\ DOMAIN pass' = Passes
        /\ pass'[p] = [pass[p] EXCEPT !.held = @ \ {i}]
        /\ \A q \in Passes \ {p} : pass'[q] = pass[q] /\ pass[q].pc # "sweep"
    BY <1>1, <1>2 DEF Becomes, PassesSound
  <1>7. /\ PassSound(pass'[p]) /\ pass'[p].pc = "sweep"
        /\ pass'[p].held = pass[p].held \ {i} /\ pass'[p].seen = pass[p].seen
    BY <1>2, <1>6 DEF PassesSound, PassSound, Idle
  <1>8. \A k \in pass'[p].held : Pending(k)'
    BY <1>2, <1>4, <1>7 DEF PassesSound, PassSound, Pending
  <1>9. \A a \in Atoms : pass'[p].seen[a].by # NoAtom => row'[a] = pass'[p].seen[a]
    BY <1>2, <1>5, <1>7 DEF PassesSound
  <1>10. pass'[p].seen \in [Atoms -> Row]
    BY <1>2, <1>7 DEF PassesSound
  <1> QED
    BY <1>2, <1>6, <1>7, <1>8, <1>9, <1>10 DEF PassesSound, PassSound

\* The tiers leave the pass with the pairs it had, or at its end.
LEMMA TierKeepsPass ==
  ASSUME PassesSound, NEW p \in Passes, \A q \in Passes : pass[q].pc # "sweep",
         NEW s, PassSound(s), NEW pr, MergeTier(p, s, pr)
  PROVE  PassesSound'
  <1>1. PassSound(Handled(s)) /\ Handled(s).pc # "sweep"
    BY DEF PassSound, Handled, Idle
  <1>2. PassSound(Idle) /\ Idle.pc # "sweep"
    BY DEF PassSound, Idle
  <1>3. ASSUME NEW l
        PROVE  /\ PassSound([Handled(s) EXCEPT !.dead = @ \cup {l}])
               /\ [Handled(s) EXCEPT !.dead = @ \cup {l}].pc # "sweep"
    BY <1>1 DEF PassSound, Handled, Idle
  <1>4. \/ Becomes(p, Handled(s))
        \/ Becomes(p, Idle)
        \/ \E l : Becomes(p, [Handled(s) EXCEPT !.dead = @ \cup {l}])
    BY DEF MergeTier, MergePair
  <1> HIDE DEF Handled, Idle
  <1> QED
    BY <1>1, <1>2, <1>3, <1>4, OutsideOfSweep

\* Each step leaves the passes sound.
LEMMA StepKeepsPasses == ASSUME Sound, [Next]_vars PROVE PassesSound'
  <1> USE DEF Sound
  <1>0. \A p \in Passes : PassSound(pass[p])
    BY DEF PassesSound
  <1>i. PassSound(Idle) /\ Idle.pc # "sweep"
    BY DEF PassSound, Idle
  <1>1. ASSUME NEW p \in Passes, Start(p) PROVE PassesSound'
    <2> DEFINE held == {i \in Ids : Pending(i) /\ \A a \in PairOf(i) : Exists(row, a)}
               s    == [Idle EXCEPT !.pc = "sweep", !.seen = row, !.held = held]
    <2>1. /\ pass' = [pass EXCEPT ![p] = s] /\ UNCHANGED <<row, prop>>
          /\ \A q \in Passes : pass[q].pc # "sweep"
      BY <1>1 DEF Start, Becomes, Step, Turn
    <2>2. /\ PassSound(s) /\ s.seen = row /\ s.held \subseteq {i \in Ids : Pending(i)}
      BY DEF PassSound, Idle
    <2> HIDE DEF s
    <2> QED
      BY <1>0, <2>1, <2>2 DEF PassesSound, RowsSound, Pending
  <1>2. ASSUME NEW p \in Passes, sweepContainedProposals(p) PROVE PassesSound'
    BY <1>2, SweepKeepsPasses
  <1>3. ASSUME NEW p \in Passes, loadAtomsSetupBounded(p) PROVE PassesSound'
    <2>1. \A q \in Passes \ {p} : pass[q].pc # "sweep"
      BY <1>3 DEF loadAtomsSetupBounded, Step, Turn, PassesSound
    <2> DEFINE t(atoms)          == [pass[p] EXCEPT !.seen = <<>>, !.loaded = atoms]
               grouped(atoms, o) == [t(atoms) EXCEPT !.pc = "group", !.from = cursor, !.order = o,
                                                     !.gi = 1, !.offset = 0]
               more(atoms)       == [t(atoms) EXCEPT !.pc = "load", !.offset = @ + PageSize]
               over(atoms)       == [t(atoms) EXCEPT !.pc = "end", !.from = cursor, !.cut = TRUE,
                                                     !.offset = 0]
    <2>2. PICK atoms : \/ Becomes(p, grouped(atoms, groupOrder(atoms)))
                       \/ Becomes(p, more(atoms))
                       \/ Becomes(p, over(atoms))
      BY <1>3 DEF loadAtomsSetupBounded
    <2>3. ASSUME NEW o
          PROVE  /\ PassSound(grouped(atoms, o)) /\ grouped(atoms, o).pc # "sweep"
                 /\ PassSound(more(atoms)) /\ more(atoms).pc # "sweep"
                 /\ PassSound(over(atoms)) /\ over(atoms).pc # "sweep"
      BY <1>0 DEF PassSound, Idle
    <2> HIDE DEF grouped, more, over
    <2> QED
      BY <2>1, <2>2, <2>3, OutsideOfSweep
  <1>4. ASSUME NEW p \in Passes, GroupStart(p) PROVE PassesSound'
    <2> DEFINE over      == [pass[p] EXCEPT !.pc = "end"]
               skipped   == [pass[p] EXCEPT !.gi = @ + 1]
               stopped   == [pass[p] EXCEPT !.pc = "end", !.stop = pass[p].gi]
               pairs(ps) == [pass[p] EXCEPT !.pc = "pairs", !.todo = ps]
    <2>1. \/ Becomes(p, over) \/ Becomes(p, skipped) \/ Becomes(p, stopped)
          \/ \E ps \in SUBSET Pairs : Becomes(p, pairs(ps))
      BY <1>4 DEF GroupStart, CandidatePairs
    <2>2. /\ PassSound(over) /\ over.pc # "sweep"
          /\ PassSound(skipped) /\ skipped.pc # "sweep"
          /\ PassSound(stopped) /\ stopped.pc # "sweep"
      BY <1>0, <1>4 DEF PassSound, Idle, GroupStart, Step
    <2>3. ASSUME NEW ps \in SUBSET Pairs PROVE PassSound(pairs(ps)) /\ pairs(ps).pc # "sweep"
      BY <1>0 DEF PassSound, Idle
    <2> HIDE DEF over, skipped, stopped, pairs
    <2> QED
      BY <1>4, <2>1, <2>2, <2>3, OutsideOfSweep DEF GroupStart, Step, Turn
  <1>5. ASSUME NEW p \in Passes, processPair(p) PROVE PassesSound'
    <2>0. PICK pr \in pass[p].todo : \E s :
            /\ DOMAIN s = DOMAIN Idle /\ s.pc = "pairs" /\ s.held = pass[p].held
            /\ s.todo \subseteq Pairs
            /\ \/ Becomes(p, s)
               \/ Becomes(p, [s EXCEPT !.pc = "judge", !.cur = pr])
               \/ MergeTier(p, s, pr)
      BY ZenonT(40), <1>0, <1>5 DEF processPair, PassSound, Idle, Step
    <2>1. PICK s :
            /\ DOMAIN s = DOMAIN Idle /\ s.pc = "pairs" /\ s.held = pass[p].held
            /\ s.todo \subseteq Pairs
            /\ \/ Becomes(p, s)
               \/ Becomes(p, [s EXCEPT !.pc = "judge", !.cur = pr])
               \/ MergeTier(p, s, pr)
      BY <2>0
    <2>2. PassSound(s) /\ PassSound([s EXCEPT !.pc = "judge", !.cur = pr])
      BY <1>0, <2>1 DEF PassSound, Idle
    <2>3. [s EXCEPT !.pc = "judge", !.cur = pr].pc # "sweep"
      BY <2>1 DEF Idle
    <2> QED
      BY <1>5, <2>1, <2>2, <2>3, OutsideOfSweep, TierKeepsPass DEF processPair, Step, Turn
  <1>6. ASSUME NEW p \in Passes, judgeContradiction(p) PROVE PassesSound'
    <2>1. PassSound(Handled(pass[p])) /\ Handled(pass[p]).pc # "sweep"
      BY <1>0 DEF PassSound, Handled, Idle
    <2>2. \/ Becomes(p, Handled(pass[p]))
          \/ MergeTier(p, pass[p], pass[p].cur)
      BY <1>6 DEF judgeContradiction
    <2> QED
      BY <1>0, <1>6, <2>1, <2>2, OutsideOfSweep, TierKeepsPass DEF judgeContradiction, Step, Turn
  <1>7. ASSUME NEW p \in Passes, GroupEnd(p) PROVE PassesSound'
    <2> DEFINE s    == [pass[p] EXCEPT !.todo = {}, !.preempted = FALSE]
               over == [s EXCEPT !.pc = "end", !.stop = s.gi]
               next == [s EXCEPT !.pc = "group", !.gi = @ + 1]
    <2>1. Becomes(p, over) \/ Becomes(p, next)
      BY <1>7 DEF GroupEnd
    <2>2. PassSound(over) /\ over.pc # "sweep" /\ PassSound(next) /\ next.pc # "sweep"
      BY <1>0 DEF PassSound, Idle
    <2> HIDE DEF over, next
    <2> QED
      BY <1>7, <2>1, <2>2, OutsideOfSweep DEF GroupEnd, Step, Turn
  <1>8. ASSUME NEW p \in Passes, ScanEnd(p) PROVE PassesSound'
    <2>1. PICK held \in SUBSET Ids : Becomes(p, Idle) \/ Becomes(p, [Idle EXCEPT !.pc = "dup", !.held = held])
      BY <1>8 DEF ScanEnd
    <2>2. PassSound([Idle EXCEPT !.pc = "dup", !.held = held]) /\ [Idle EXCEPT !.pc = "dup", !.held = held].pc # "sweep"
      BY DEF PassSound, Idle
    <2> QED
      BY <1>i, <1>8, <2>1, <2>2, OutsideOfSweep DEF ScanEnd, Step, Turn
  <1>9. ASSUME NEW p \in Passes, runDupJudgeSweep(p) PROVE PassesSound'
    <2>1. PICK s : /\ Becomes(p, s)
                   /\ s = Idle \/ \E i : s = [pass[p] EXCEPT !.held = @ \ {i}]
      BY <1>9 DEF runDupJudgeSweep
    <2>2. PassSound(s) /\ s.pc # "sweep"
      BY <1>0, <1>i, <1>9, <2>1 DEF PassSound, Idle, runDupJudgeSweep, Step
    <2> QED
      BY <1>9, <2>1, <2>2, OutsideOfSweep DEF runDupJudgeSweep, Step, Turn
  <1>10. ASSUME UNCHANGED pass, Turn PROVE PassesSound'
    BY <1>10 DEF PassesSound, PassSound, Turn
  <1>11. ASSUME NEW a \in Atoms, UserEdit(a) PROVE PassesSound'
    BY <1>10, <1>11 DEF UserEdit
  <1>12. ASSUME NEW i \in Ids, resolveProposal(i) PROVE PassesSound'
    BY <1>10, <1>12 DEF resolveProposal
  <1>13. CASE Restart
    BY <1>i, <1>13 DEF Restart, PassesSound, PassSound
  <1>14. CASE UNCHANGED vars
    BY <1>14 DEF vars, PassesSound, PassSound, Pending
  <1> QED
    BY <1>1, <1>2, <1>3, <1>4, <1>5, <1>6, <1>7, <1>8, <1>9, <1>11, <1>12, <1>13, <1>14 DEF Next, PassStep

-------------------------------------------------------------------------------
(* The theorems.                                                           *)

Books == world \in Worlds /\ Sound /\ Survivor /\ OnlyAutoAcceptSkipsGuard

\* Nothing is merged or proposed at first.
LEMMA InitBooks == Init => Books
  <1> SUFFICES ASSUME Init PROVE Books
    OBVIOUS
  <1>1. \A a \in Atoms : row[a].by = NoAtom
    BY DEF Init, Live
  <1>2. RowsSound
    <2>1. Live \in Row
      BY DEF Live, Row
    <2> QED
      BY <1>1, <2>1 DEF Init, RowsSound, Superseded
  <1>3. PropsSound
    <2>1. [status |-> "free"] \in Gone
      BY DEF Gone
    <2>2. [status |-> "free"] \notin Prop
      <3>1. DOMAIN [status |-> "free"] = {"status"} /\ \A v \in Prop : "kind" \in DOMAIN v
        BY DEF Prop
      <3> QED
        BY <3>1
    <2> QED
      BY <2>1, <2>2 DEF Init, PropsSound
  <1>4. PassesSound
    <2>1. PassSound(Idle) /\ Idle.pc # "sweep"
      BY DEF PassSound, Idle
    <2> QED
      BY <2>1 DEF Init, PassesSound
  <1>5. Survivor /\ OnlyAutoAcceptSkipsGuard
    BY <1>1 DEF Survivor, OnlyAutoAcceptSkipsGuard, Superseded
  <1> QED
    BY <1>2, <1>3, <1>4, <1>5 DEF Books, Sound, Init

\* The world is chosen once.
LEMMA WorldStays == [Next]_vars => UNCHANGED world
  <1> SUFFICES ASSUME [Next]_vars PROVE UNCHANGED world
    OBVIOUS
  <1> QED
    BY DEF Next, vars, PassStep, Start, sweepContainedProposals, loadAtomsSetupBounded, GroupStart,
           processPair, judgeContradiction, GroupEnd, ScanEnd, runDupJudgeSweep, UserEdit,
           resolveProposal, Restart

\* Each step keeps them.
LEMMA StepKeepsBooks == Books /\ [Next]_vars => Books'
  <1> SUFFICES ASSUME Books, [Next]_vars PROVE Books'
    OBVIOUS
  <1>1. RowChange /\ PropChange /\ UNCHANGED world
    BY StepChanges, WorldStays DEF Books
  <1>2. Survivor' /\ OnlyAutoAcceptSkipsGuard' /\ RowsSound' /\ PropsSound'
    BY <1>1, RowChangeKeepsRows, RowChangeKeepsSurvivor, RowChangeKeepsGuard, PropChangeKeepsProps
       DEF Books, Sound
  <1>3. PassesSound'
    BY StepKeepsPasses DEF Books
  <1> QED
    BY <1>1, <1>2, <1>3 DEF Books, Sound

\* Rows, proposals and passes stay in step, whatever passes, judges, people, users and
\* restarts do in between: the inductive invariant of consolidation.
THEOREM ConsolidationSound == Spec => []Books
  BY InitBooks, StepKeepsBooks, PTL DEF Spec

\* superseded_by always leads to a memory that is visible or that a user hid or erased:
\* supersede takes only valid rows (MemoryEventRepo.supersede), so no merge closes a circle.
THEOREM MergesLeaveASurvivor == Spec => []Survivor
  <1>1. Books => Survivor
    BY DEF Books
  <1> QED
    BY <1>1, ConsolidationSound, PTL

\* What goes past commandGuardBlocksMerge: two memories the command guard tells apart are
\* merged without a person by the auto-accept tier, and by that tier alone.
THEOREM GuardSkippedByOneTier == Spec => []OnlyAutoAcceptSkipsGuard
  <1>1. Books => OnlyAutoAcceptSkipsGuard
    BY DEF Books
  <1> QED
    BY <1>1, ConsolidationSound, PTL

\* A proposal that becomes accepted is a merge in force, also when the sweep marks it from
\* rows it read before.
THEOREM AcceptedIsMerged == Spec => AcceptedMeansMerged
  <1> DEFINE Q == \A i \in Ids : Pending(i) /\ prop'[i].status = "accepted"
                                 => row'[prop[i].loser].by = prop[i].winner
  <1>1. Books /\ [Next]_vars => Q
    <2> SUFFICES ASSUME Books, [Next]_vars,
                        NEW i \in Ids, Pending(i), prop'[i].status = "accepted"
                 PROVE  row'[prop[i].loser].by = prop[i].winner
      OBVIOUS
    <2>1. PropChange /\ PropsSound
      BY StepChanges DEF Books, Sound
    <2>2. CASE UNCHANGED prop
      BY <2>2 DEF Pending
    <2>3. ASSUME NEW k \in Ids, NEW s \in {"accepted", "rejected"}, Pending(k), Resolve(k, s),
                 s = "accepted" => row'[prop[k].loser].by = prop[k].winner
          PROVE  row'[prop[i].loser].by = prop[i].winner
      <3>1. CASE k = i
        <4>1. prop[i] \in Prop
          BY <2>1, PendingIsAProp
        <4>2. prop'[i].status = s
          BY <2>1, <2>3, <3>1, <4>1 DEF Resolve, Closed, PropsSound, Prop
        <4> QED
          BY <2>3, <3>1, <4>2
      <3>2. CASE k # i
        BY <2>1, <2>3, <3>2 DEF Resolve, PropsSound, Pending
      <3> QED
        BY <3>1, <3>2
    <2>4. ASSUME NEW k \in Unheld, NEW v, prop' = [prop EXCEPT ![k] = v]
          PROVE  FALSE
      BY <2>1, <2>4 DEF Unheld, PropsSound, Pending
    <2> QED
      BY <2>1, <2>2, <2>3, <2>4 DEF PropChange
  <1>2. Books /\ [Next]_vars => [Q]_vars
    BY <1>1
  <1> QED
    BY <1>2, ConsolidationSound, PTL DEF Spec, AcceptedMeansMerged

\* A verdict that comes back for a proposal someone rejected meanwhile changes nothing, and
\* its id is not given to a new one while a pass still holds it.
THEOREM RejectedStays == Spec => RejectionStands
  <1> DEFINE Q == \A p \in Passes, i \in Ids :
                     i \in pass[p].held /\ prop[i].status = "rejected" => prop'[i] = prop[i]
  <1>1. Books /\ [Next]_vars => Q
    <2> SUFFICES ASSUME Books, [Next]_vars,
                        NEW p \in Passes, NEW i \in Ids, i \in pass[p].held, prop[i].status = "rejected"
                 PROVE  prop'[i] = prop[i]
      OBVIOUS
    <2>1. PropChange /\ PropsSound
      BY StepChanges DEF Books, Sound
    <2>2. ~ Pending(i) /\ Held(i)
      BY DEF Pending, Held
    <2> QED
      BY <2>1, <2>2 DEF PropChange, PropsSound, Resolve, Unheld
  <1>2. Books /\ [Next]_vars => [Q]_vars
    BY <1>1
  <1> QED
    BY <1>2, ConsolidationSound, PTL DEF Spec, RejectionStands
===============================================================================
