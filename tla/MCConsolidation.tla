--------------------------- MODULE MCConsolidation ---------------------------
EXTENDS Consolidation
CONSTANTS a1, a2, b1, b2, j, r

MCScanOrder == <<a1, a2, b1, b2>>
MCGroupOf   == [a \in Atoms |-> IF a \in {a1, a2} THEN "a" ELSE "b"]
MCCreatedAt == [a \in Atoms |-> CASE a = a1 -> 3 [] a = a2 -> 4 [] a = b1 -> 1 [] a = b2 -> 2]

A == {a1, a2}
B == {b1, b2}

Base ==
  [sim |-> [pr \in Pairs |-> "low"], superset |-> [pr \in Pairs |-> {}], guarded |-> {},
   selection |-> "full", maxGroupSize |-> 2, ceiling |-> 0, autoAccept |-> "off",
   contradiction |-> "off", dup |-> "off", edits |-> 1]

MCWorlds ==
  { \* two passes and a user
    [Base EXCEPT !.sim[A] = "merge", !.edits = 2],
    \* everything on, one pair per pass
    [Base EXCEPT !.sim[A] = "accept", !.guarded = {A}, !.sim[B] = "judge", !.ceiling = 1, !.autoAccept = "on",
                 !.contradiction = "enabled", !.dup = "enabled"],
    \* a pair the command guard blocks
    [Base EXCEPT !.sim[A] = "propose", !.superset[A] = {a1}, !.guarded = {A},
                 !.contradiction = "dry-run", !.dup = "enabled"],
    \* proposals and their judge
    [Base EXCEPT !.sim[A] = "propose", !.selection = "knn", !.dup = "enabled"],
    \* equal texts a judge may call contradictory
    [Base EXCEPT !.sim[A] = "propose", !.superset[A] = {a1, a2}, !.contradiction = "enabled"],
    \* groups too large for a full scan
    [Base EXCEPT !.maxGroupSize = 1, !.edits = 0] }
==============================================================================
