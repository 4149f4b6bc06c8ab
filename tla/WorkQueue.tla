------------------------------ MODULE WorkQueue -------------------------------
(***************************************************************************)
(* What the job queue promises its users, without tables, timers, retries  *)
(* or processes: a submitted job is worked on by one worker at a time,     *)
(* work that is interrupted can be taken up again but never while somebody *)
(* still works on it, a finished job stays finished, and a job disappears  *)
(* only after it was finished or given up.                                 *)
(***************************************************************************)
CONSTANTS Jobs, Workers, Nobody

VARIABLES
  status, \* "absent", "waiting", "taken", "stopped", "givenUp", "done" or "removed"
  works   \* the job each worker works on

vars == <<status, works>>

InHand(j) == \E w \in Workers : works[w] = j

Init ==
  /\ status = [j \in Jobs |-> "absent"]
  /\ works = [w \in Workers |-> Nobody]

Move(S, s) == status' = [j \in Jobs |-> IF j \in S THEN s ELSE status[j]]

Submit(j) ==
  /\ status[j] = "absent"
  /\ Move({j}, "waiting")
  /\ UNCHANGED works

Take(w, j) ==
  /\ status[j] = "waiting"
  /\ works[w] = Nobody
  /\ Move({j}, "taken")
  /\ works' = [works EXCEPT ![w] = j]

\* A worker lets go of its job, finished or not, and the job's status follows
\* at once, earlier (the row is written first) or later (at the next boot).
LetGo(W) == works' = [w \in Workers |-> IF w \in W THEN Nobody ELSE works[w]]

Finish(j) ==
  /\ status[j] = "taken"
  /\ InHand(j)
  /\ Move({j}, "done")
  /\ UNCHANGED works

Stop(S, s) ==
  /\ s \in {"stopped", "givenUp"}
  /\ \A j \in S : status[j] \in {"taken", "stopped"}
  /\ Move(S, s)

Resume(S) ==
  /\ \A j \in S : status[j] \in {"taken", "stopped", "givenUp"} /\ ~ InHand(j)
  /\ Move(S, "waiting")
  /\ UNCHANGED works

\* A worker may put its own job back itself.
PutBack(w) ==
  /\ works[w] # Nobody
  /\ status[works[w]] \in {"taken", "stopped"}
  /\ Move({works[w]}, "waiting")
  /\ LetGo({w})

Remove(S) ==
  /\ \A j \in S : status[j] \in {"done", "givenUp"} /\ ~ \E w \in Workers : works[w] = j
  /\ Move(S, "removed")
  /\ UNCHANGED works

Next ==
  \/ \E j \in Jobs : Submit(j) \/ Finish(j)
  \/ \E w \in Workers, j \in Jobs : Take(w, j)
  \/ \E w \in Workers : PutBack(w)
  \/ \E S \in SUBSET Jobs, s \in {"stopped", "givenUp"} :
       Stop(S, s) /\ (UNCHANGED works \/ \E w \in Workers : works[w] \in S /\ LetGo({w}))
  \/ \E W \in SUBSET Workers : LetGo(W) /\ UNCHANGED status
  \/ \E S \in SUBSET Jobs : Resume(S) \/ Remove(S)

Spec == Init /\ [][Next]_vars

\* The promise in one line: nobody works on a job another worker has in hand.
Exclusive ==
  \A v, w \in Workers : v # w /\ works[v] # Nobody => works[v] # works[w]
===============================================================================
