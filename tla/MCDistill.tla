------------------------------ MODULE MCDistill ------------------------------
EXTENDS Distill
CONSTANTS eng, conv, x, y

MCProfileOf == [j \in Jobs |-> IF j = eng THEN "engineering" ELSE "conversational"]
MCYields    == <<{{x}}, {{x, y}, {}}, {{x}}>>

Base ==
  [mode |-> "auto", passes |-> 1, sweepBelow |-> 0, capped |-> FALSE, maxCalls |-> 0,
   gatekeeper |-> FALSE, gates |-> FALSE, triage |-> FALSE, yields |-> FALSE, jobs |-> {eng},
   maxEntries |-> 9, chunks |-> {1, 2}, crashes |-> 0]

MCWorlds ==
  { [Base EXCEPT !.crashes = 1],
    \* the same content under two profiles, which share the second extraction's checkpoints
    [Base EXCEPT !.jobs = Jobs, !.chunks = {3}, !.passes = 2, !.maxEntries = 3],
    \* two passes under a cap
    [Base EXCEPT !.mode = "never", !.passes = 2, !.sweepBelow = 2, !.capped = TRUE, !.maxCalls = 2],
    \* every gate, and awaits between them
    [Base EXCEPT !.mode = "never", !.gatekeeper = TRUE, !.gates = TRUE, !.triage = TRUE, !.yields = TRUE] }

MCTriage == {[Base EXCEPT !.mode = "never", !.triage = TRUE]}
==============================================================================
