----------------------------- MODULE InstanceLock -----------------------------
(***************************************************************************)
(* Single-instance protection of the data directory: launches of the       *)
(* daemon (keepalive and watchdog tasks can start several at once) contend *)
(* for daemon.lock.acquiring (the acquire mutex) and, inside it, decide on *)
(* daemon.lock, take it over from a dead or hung holder, and boot: by      *)
(* default the port is bound before the database is touched, with          *)
(* --strict-preflight after the migrations, the recovery and the start of  *)
(* the worker.                                                             *)
(*                                                                         *)
(* Launches are separate operating-system processes, so each file-system   *)
(* call is a step of its own.  A file is a record of the launch that       *)
(* created it and whether its content has been written: 'wx' creates an    *)
(* empty file and the JSON follows in a second call.                       *)
(***************************************************************************)
EXTENDS Naturals, FiniteSets

CONSTANTS
  Procs,      \* launches; each is one pid, started at most once
  PortOf,     \* the port each launch is configured with
  Strict,     \* launches with --strict-preflight
  NoProc,     \* no launch
  QueryFails, \* launches whose start time the system may fail to tell
  MaxCrashes, \* bound: kills and crashes
  MaxWedges,  \* bound: times a daemon's event loop hangs
  MaxRecycled \* bound: pids of dead launches the system gives to other programs

ASSUME ProcsAssumption ==
  /\ NoProc \notin Procs
  /\ DOMAIN PortOf = Procs
  /\ Strict \subseteq Procs
  /\ QueryFails \subseteq Procs
  /\ MaxCrashes \in Nat /\ MaxWedges \in Nat

VARIABLES
  pc,        \* where each launch is
  sentinel,  \* daemon.lock.acquiring
  lock,      \* daemon.lock
  seen,      \* the holder each launch read from the sentinel, later from the lock
  victim,    \* the holder stopLockHolder read
  exclusive, \* whether writeLock will create ('wx') or overwrite (rename)
  bound,     \* launches whose listener holds their port
  working,   \* launches between their migrations and the end of worker.stop()
  wedged,    \* launches whose event loop hangs
  signalled, \* launches with a SIGTERM pending
  old,       \* launches started more than ZOMBIE_BOOT_GRACE_MS ago
  recycled,  \* dead launches whose pid is now some other program's
  robbed,    \* history: live launches of which another one unlinked a file it had not checked
  crashes, wedges

vars == <<pc, sentinel, lock, seen, victim, exclusive, bound, working, wedged, signalled, old,
          recycled, robbed, crashes, wedges>>

File == [by : Procs, written : BOOLEAN]
NoFile == [by |-> NoProc, written |-> FALSE]

AcquirePlaces == {"mutex", "mutexRead", "mutexIdentity", "mutexSteal", "mutexWrite"}
CriticalPlaces ==
  {"decide", "probe", "grace", "stop", "stopIdentity", "stopWait", "staleCheck", "staleUnlink",
   "portCheck", "writeLock", "fillLock", "bind", "boot", "unbind", "unbindUnlink",
   "release", "releaseUnlink", "leave", "leaveUnlink"}
ServingPlaces == {"serving", "shutdown"}
ClosingPlaces == {"closing", "exitUnlink"}
Places == {"off", "dead"} \cup AcquirePlaces \cup CriticalPlaces \cup ServingPlaces \cup ClosingPlaces

\* The type of the files, listeners and processes; a file
\* always has a launch that created it.
TypeOK ==
  /\ pc \in [Procs -> Places]
  /\ sentinel \in File \cup {NoFile}
  /\ lock \in File \cup {NoFile}
  /\ seen \in [Procs -> Procs \cup {NoProc}]
  /\ victim \in [Procs -> Procs \cup {NoProc}]
  /\ exclusive \in [Procs -> BOOLEAN]
  /\ bound \subseteq Procs
  /\ working \subseteq Procs
  /\ wedged \subseteq Procs
  /\ signalled \subseteq Procs
  /\ old \subseteq Procs
  /\ recycled \subseteq Procs
  /\ robbed \subseteq Procs
  /\ crashes \in 0 .. MaxCrashes
  /\ wedges \in 0 .. MaxWedges

Init ==
  /\ pc = [p \in Procs |-> "off"]
  /\ sentinel = NoFile
  /\ lock = NoFile
  /\ seen = [p \in Procs |-> NoProc]
  /\ victim = [p \in Procs |-> NoProc]
  /\ exclusive = [p \in Procs |-> TRUE]
  /\ bound = {}
  /\ working = {}
  /\ wedged = {}
  /\ signalled = {}
  /\ old = {}
  /\ recycled = {}
  /\ robbed = {}
  /\ crashes = 0
  /\ wedges = 0

-------------------------------------------------------------------------------
Goto(p, place) == pc' = [pc EXCEPT ![p] = place]

\* The steps of a launch that only moves on, or only touches the files.
LifeVars == <<wedged, signalled, old, recycled, crashes, wedges>>
ProcVars == <<victim, exclusive, bound, working, LifeVars>>
OnlyPc   == UNCHANGED <<sentinel, lock, seen, robbed, ProcVars>>

Alive(p)    == pc[p] \notin {"off", "dead"}
pidAlive(p) == Alive(p) \/ p \in recycled

\* readLock and the sentinel's reader: nothing to learn from a missing or an
\* empty file.
HolderIn(file) == IF file.written THEN file.by ELSE NoProc

\* unlinkSync(path) removes whatever the path names by now, which may no longer
\* be the file of the launch that was checked.
Robs(file, checked) ==
  robbed' = IF file # NoFile /\ file.by # checked /\ Alive(file.by) THEN robbed \cup {file.by} ELSE robbed

Listeners(port) == {q \in bound : PortOf[q] = port}

\* /health answers as soon as the listener is there, before the migrations.
healthOk(port) == \E q \in Listeners(port) : q \notin wedged

isPortInUse(port) == Listeners(port) # {}

\* checkHolderIdentity: the recorded start time tells a launch from a program
\* that inherited its pid; the operating system may fail to answer.
Identities(p) ==
  IF ~ pidAlive(p) THEN {"dead"}
  ELSE {IF p \in recycled THEN "mismatch" ELSE "match"}
         \cup (IF p \in QueryFails THEN {"query-failed"} ELSE {})

Launch(p) ==
  /\ pc[p] = "off"
  /\ Goto(p, "mutex")
  /\ OnlyPc

-------------------------------------------------------------------------------
(* acquireMutex.                                                           *)

\* openSync(path, 'wx').
CreateSentinel(p) ==
  /\ pc[p] = "mutex"
  /\ IF sentinel = NoFile
       THEN /\ sentinel' = [by |-> p, written |-> FALSE]
            /\ Goto(p, "mutexWrite")
       ELSE /\ Goto(p, "mutexRead")
            /\ UNCHANGED sentinel
  /\ UNCHANGED <<lock, seen, robbed, ProcVars>>

\* The write goes to the file this launch created, wherever its name now points.
WriteSentinel(p) ==
  /\ pc[p] = "mutexWrite"
  /\ sentinel' = IF sentinel.by = p THEN [sentinel EXCEPT !.written = TRUE] ELSE sentinel
  /\ Goto(p, "decide")
  /\ UNCHANGED <<lock, seen, robbed, ProcVars>>

ReadSentinel(p) ==
  /\ pc[p] = "mutexRead"
  /\ seen' = [seen EXCEPT ![p] = HolderIn(sentinel)]
  /\ Goto(p, IF HolderIn(sentinel) = NoProc THEN "mutexSteal" ELSE "mutexIdentity")
  /\ UNCHANGED <<sentinel, lock, robbed, ProcVars>>

\* Mutant: a recycled pid counts as the live holder.
CheckSentinelHolder_PidOnly(p) ==
  /\ pc[p] = "mutexIdentity"
  /\ \E identity \in Identities(seen[p]) :
       Goto(p, CASE identity = "dead" -> "mutexSteal"
                 [] identity \in {"match", "mismatch", "query-failed"} ->
                      IF p \in old THEN "dead" ELSE "mutex")
  /\ OnlyPc

\* A live holder is waited for, until the deadline: MutexTimeoutError.
CheckSentinelHolder(p) ==
  /\ pc[p] = "mutexIdentity"
  /\ \E identity \in Identities(seen[p]) :
       Goto(p, CASE identity \in {"dead", "mismatch"} -> "mutexSteal"
                 [] identity \in {"match", "query-failed"} -> IF p \in old THEN "dead" ELSE "mutex")
  /\ OnlyPc

StealSentinel(p) ==
  /\ pc[p] = "mutexSteal"
  /\ Robs(sentinel, seen[p])
  /\ sentinel' = NoFile
  /\ Goto(p, "mutex")
  /\ UNCHANGED <<lock, seen, ProcVars>>

-------------------------------------------------------------------------------
(* acquireInstanceLockCriticalSection and stopLockHolder.                  *)

Decide(p) ==
  LET holder == HolderIn(lock) IN
  /\ pc[p] = "decide"
  /\ seen' = [seen EXCEPT ![p] = holder]
  /\ exclusive' = [exclusive EXCEPT ![p] = lock = NoFile]
  /\ Goto(p, IF holder # NoProc /\ pidAlive(holder) THEN "probe" ELSE "writeLock")
  /\ UNCHANGED <<sentinel, lock, victim, bound, working, robbed, LifeVars>>

\* Three probes of /health: AlreadyRunningError when one is answered.
Probe(p) ==
  /\ pc[p] = "probe"
  /\ Goto(p, IF healthOk(PortOf[seen[p]]) THEN "leave" ELSE "grace")
  /\ OnlyPc

\* StillBootingError for a holder recorded as started within the grace period.
Grace(p) ==
  /\ pc[p] = "grace"
  /\ Goto(p, IF seen[p] \in old THEN "stop" ELSE "leave")
  /\ OnlyPc

\* stopLockHolder reads daemon.lock again.
ReadHolderToStop(p) ==
  /\ pc[p] = "stop"
  /\ victim' = [victim EXCEPT ![p] = HolderIn(lock)]
  /\ Goto(p, IF HolderIn(lock) = NoProc THEN "writeLock" ELSE "stopIdentity")
  /\ UNCHANGED <<sentinel, lock, seen, exclusive, bound, working, robbed, LifeVars>>

\* A holder whose identity is not proven is not signalled.
StopHolder(p) ==
  LET h == victim[p] IN
  /\ pc[p] = "stopIdentity"
  /\ \E identity \in Identities(h) :
       /\ Goto(p, CASE identity = "dead" -> "staleCheck"
                    [] identity \in {"query-failed", "mismatch"} -> "portCheck"
                    [] identity = "match" -> "stopWait")
       /\ signalled' = IF identity = "match" THEN signalled \cup {h} ELSE signalled
  /\ UNCHANGED <<sentinel, lock, seen, victim, exclusive, bound, working, wedged, old, recycled,
                 robbed, crashes, wedges>>

\* The first unanswered probe counts as stopped; five seconds of answers do not.
WaitForStop(p) ==
  /\ pc[p] = "stopWait"
  /\ Goto(p, IF healthOk(PortOf[victim[p]]) THEN "portCheck" ELSE "staleCheck")
  /\ OnlyPc

\* removeConfirmedStaleLock: read, compare, unlink.
CheckStaleLock(p) ==
  /\ pc[p] = "staleCheck"
  /\ Goto(p, IF HolderIn(lock) = victim[p] THEN "staleUnlink" ELSE "writeLock")
  /\ OnlyPc

UnlinkLock(p, checked, place) ==
  /\ Robs(lock, checked)
  /\ lock' = NoFile
  /\ Goto(p, place)
  /\ UNCHANGED <<sentinel, seen, victim, exclusive, LifeVars>>

UnlinkStaleLock(p) ==
  /\ pc[p] = "staleUnlink"
  /\ UnlinkLock(p, victim[p], "writeLock")
  /\ UNCHANGED <<bound, working>>

\* ZombieLockTakeoverError unless the port of the holder decided on is free.
PortCheck(p) ==
  /\ pc[p] = "portCheck"
  /\ Goto(p, IF isPortInUse(PortOf[seen[p]]) THEN "leave" ELSE "writeLock")
  /\ OnlyPc

\* bootAndBind: what comes first.
FirstOfBoot(p) == IF p \in Strict THEN "boot" ELSE "bind"

\* writeLock: 'wx' then write, or a rename that overwrites whatever is there.
WriteLock(p) ==
  /\ pc[p] = "writeLock"
  /\ \/ /\ exclusive[p]
        /\ IF lock = NoFile
             THEN lock' = [by |-> p, written |-> FALSE] /\ Goto(p, "fillLock")
             ELSE UNCHANGED lock /\ Goto(p, "leave")
     \/ /\ ~ exclusive[p]
        /\ lock' = [by |-> p, written |-> TRUE]
        /\ Goto(p, FirstOfBoot(p))
  /\ UNCHANGED <<sentinel, seen, robbed, ProcVars>>

\* Mutant: the mutex protects the writing of the lock only, not the boot.
FillLock_ReleasesMutex(p) ==
  /\ pc[p] = "fillLock"
  /\ lock' = IF lock.by = p THEN [lock EXCEPT !.written = TRUE] ELSE lock
  /\ Goto(p, FirstOfBoot(p))
  /\ sentinel' = IF HolderIn(sentinel) = p THEN NoFile ELSE sentinel
  /\ UNCHANGED <<seen, robbed, ProcVars>>

FillLock(p) ==
  /\ pc[p] = "fillLock"
  /\ lock' = IF lock.by = p THEN [lock EXCEPT !.written = TRUE] ELSE lock
  /\ Goto(p, FirstOfBoot(p))
  /\ UNCHANGED <<sentinel, seen, robbed, ProcVars>>

\* listen(); EADDRINUSE rejects bootAndBind, in strict mode with a worker that
\* already runs.
Bind(p) ==
  /\ pc[p] = "bind"
  /\ IF isPortInUse(PortOf[p])
       THEN Goto(p, "unbind") /\ UNCHANGED bound
       ELSE Goto(p, IF p \in Strict THEN "release" ELSE "boot") /\ bound' = bound \cup {p}
  /\ UNCHANGED <<sentinel, lock, seen, victim, exclusive, working, robbed, LifeVars>>

\* migrate, recoverOrphans, purgeOld, startWorker.
Boot(p) ==
  /\ pc[p] = "boot"
  /\ p \notin wedged
  /\ working' = working \cup {p}
  /\ Goto(p, IF p \in Strict THEN "bind" ELSE "release")
  /\ UNCHANGED <<sentinel, lock, seen, victim, exclusive, bound, robbed, LifeVars>>

\* A migration, or what follows it, throws: bootAndBind rejects with the
\* listener still there.
BootFails(p) ==
  /\ pc[p] = "boot"
  /\ p \notin wedged
  /\ crashes < MaxCrashes
  /\ crashes' = crashes + 1
  /\ working' = working \cup {p}
  /\ Goto(p, "unbind")
  /\ UNCHANGED <<sentinel, lock, seen, victim, exclusive, bound, wedged, signalled, old,
                 recycled, robbed, wedges>>

\* A failed boot gives the lock back, if it is still ours.
Unbind(p) ==
  /\ pc[p] = "unbind"
  /\ Goto(p, IF HolderIn(lock) = p THEN "unbindUnlink" ELSE "leave")
  /\ OnlyPc

UnbindUnlink(p) ==
  /\ pc[p] = "unbindUnlink"
  /\ UnlinkLock(p, p, "leave")
  /\ UNCHANGED <<bound, working>>

\* After the mutex: serve, or exit with the error.
ServeOrExit(p, served) ==
  /\ Goto(p, IF served THEN "serving" ELSE "dead")
  /\ bound' = IF served THEN bound ELSE bound \ {p}
  /\ working' = IF served THEN working ELSE working \ {p}

\* The finally clause: the sentinel is unlinked if it is still ours.
ReleaseMutex(p) ==
  /\ pc[p] \in {"release", "leave"}
  /\ IF HolderIn(sentinel) = p
       THEN /\ Goto(p, IF pc[p] = "release" THEN "releaseUnlink" ELSE "leaveUnlink")
            /\ UNCHANGED <<bound, working>>
       ELSE ServeOrExit(p, pc[p] = "release")
  /\ UNCHANGED <<sentinel, lock, seen, victim, exclusive, robbed, LifeVars>>

UnlinkSentinel(p) ==
  /\ pc[p] \in {"releaseUnlink", "leaveUnlink"}
  /\ Robs(sentinel, p)
  /\ sentinel' = NoFile
  /\ ServeOrExit(p, pc[p] = "releaseUnlink")
  /\ UNCHANGED <<lock, seen, victim, exclusive, LifeVars>>

-------------------------------------------------------------------------------
(* The daemon's life.                                                      *)

\* The service manager, or an operator at the terminal, stops a launch.
Terminate(p) ==
  /\ Alive(p) /\ p \notin signalled
  /\ crashes < MaxCrashes
  /\ crashes' = crashes + 1
  /\ signalled' = signalled \cup {p}
  /\ UNCHANGED <<pc, sentinel, lock, seen, victim, exclusive, bound, working, wedged, old,
                 recycled, robbed, wedges>>

\* The SIGTERM handler is installed at the end of boot; before that the
\* signal's default action ends the process.
HandleSignal(p) ==
  /\ p \in signalled
  /\ p \notin wedged
  /\ pc[p] = "serving"
  /\ Goto(p, "shutdown")
  /\ OnlyPc

\* worker.stop() has drained the ticks; app.close() frees the port at once and
\* waits for the requests under way, with the database still open.
StopWorker(p) ==
  /\ pc[p] = "shutdown"
  /\ p \notin wedged
  /\ working' = working \ {p}
  /\ bound' = bound \ {p}
  /\ Goto(p, "closing")
  /\ UNCHANGED <<sentinel, lock, seen, victim, exclusive, robbed, LifeVars>>

Exits(p) ==
  /\ bound' = bound \ {p}
  /\ working' = working \ {p}

\* release() of the instance lock: read, compare, unlink; then the process exits.
ReleaseLock(p) ==
  IF HolderIn(lock) = p
    THEN Goto(p, "exitUnlink") /\ working' = working \ {p} /\ UNCHANGED bound
    ELSE Goto(p, "dead") /\ Exits(p)

CloseDatabase(p) ==
  /\ pc[p] = "closing"
  /\ p \notin wedged
  /\ ReleaseLock(p)
  /\ UNCHANGED <<sentinel, lock, seen, victim, exclusive, robbed, LifeVars>>

\* An uncaught exception: the handler releases the lock and exits, in one turn
\* of the event loop.
crashExit(p) ==
  /\ pc[p] \in ServingPlaces
  /\ p \notin wedged
  /\ crashes < MaxCrashes
  /\ crashes' = crashes + 1
  /\ ReleaseLock(p)
  /\ UNCHANGED <<sentinel, lock, seen, victim, exclusive, wedged, signalled, old, recycled, robbed,
                 wedges>>

UnlinkAtExit(p) ==
  /\ pc[p] = "exitUnlink"
  /\ UnlinkLock(p, p, "dead")
  /\ Exits(p)

\* The end of a process the system runs no code for: its files stay.
Vanish(p) ==
  /\ Goto(p, "dead")
  /\ Exits(p)
  /\ wedged' = wedged \ {p}
  /\ UNCHANGED <<sentinel, lock, seen, victim, exclusive, signalled, old, recycled, robbed, wedges>>

KilledBySignal(p) ==
  /\ p \in signalled
  /\ Alive(p) /\ pc[p] \notin ServingPlaces \cup ClosingPlaces
  /\ Vanish(p)
  /\ UNCHANGED crashes

\* Also a strict launch whose embed preflight fails: process.exit(1) at once.
Crash(p) ==
  /\ Alive(p)
  /\ crashes < MaxCrashes
  /\ crashes' = crashes + 1
  /\ Vanish(p)

FileVars == <<sentinel, lock, seen, victim, exclusive, robbed>>

Wedge(p) ==
  /\ pc[p] \in {"boot", "serving", "shutdown", "closing"}
  /\ p \notin wedged
  /\ wedges < MaxWedges
  /\ wedges' = wedges + 1
  /\ wedged' = wedged \cup {p}
  /\ UNCHANGED <<pc, FileVars, bound, working, signalled, old, recycled, crashes>>

Unwedge(p) ==
  /\ p \in wedged
  /\ wedged' = wedged \ {p}
  /\ UNCHANGED <<pc, FileVars, bound, working, signalled, old, recycled, crashes, wedges>>

GraceOver(p) ==
  /\ pc[p] # "off"
  /\ p \notin old
  /\ old' = old \cup {p}
  /\ UNCHANGED <<pc, FileVars, bound, working, wedged, signalled, recycled, crashes, wedges>>

Recycle(p) ==
  /\ pc[p] = "dead"
  /\ p \notin recycled
  /\ Cardinality(recycled) < MaxRecycled
  /\ recycled' = recycled \cup {p}
  /\ UNCHANGED <<pc, FileVars, bound, working, wedged, signalled, old, crashes, wedges>>

Acquire(p) ==
  \/ CreateSentinel(p)
  \/ WriteSentinel(p)
  \/ ReadSentinel(p)
  \/ CheckSentinelHolder(p)
  \/ StealSentinel(p)
  \/ Decide(p)
  \/ Probe(p)
  \/ Grace(p)
  \/ ReadHolderToStop(p)
  \/ StopHolder(p)
  \/ WaitForStop(p)
  \/ CheckStaleLock(p)
  \/ UnlinkStaleLock(p)
  \/ PortCheck(p)
  \/ WriteLock(p)
  \/ FillLock(p)
  \/ Bind(p)
  \/ Boot(p)
  \/ BootFails(p)
  \/ Unbind(p)
  \/ UnbindUnlink(p)
  \/ ReleaseMutex(p)
  \/ UnlinkSentinel(p)

EndsOnSignal(p) ==
  \/ HandleSignal(p)
  \/ StopWorker(p)
  \/ CloseDatabase(p)
  \/ UnlinkAtExit(p)
  \/ KilledBySignal(p)

Next ==
  \E p \in Procs :
    \/ Launch(p)
    \/ Acquire(p)
    \/ EndsOnSignal(p)
    \/ Terminate(p)
    \/ crashExit(p)
    \/ Crash(p)
    \/ Wedge(p)
    \/ Unwedge(p)
    \/ GraceOver(p)
    \/ Recycle(p)

Spec == Init /\ [][Next]_vars

\* A launch keeps executing, time passes, a signal is delivered, and a hung
\* event loop may stay hung.
FairSpec ==
  /\ Spec
  /\ \A p \in Procs :
       /\ WF_vars(Acquire(p))
       /\ WF_vars(GraceOver(p))
       /\ WF_vars(EndsOnSignal(p))

-------------------------------------------------------------------------------
(* Properties.                                                             *)

\* At most one process runs the boot recovery and the worker on the data
\* directory (instance-lock.ts: "The lock protects the DATA DIRECTORY (the real
\* single-writer invariant), not just the TCP port").
SingleWriter == \A p, q \in working : p = q

\* As far as the files can keep it: whatever the ports, and whenever a launch
\* binds its own, there is one writer as long as no launch has unlinked a
\* sentinel or a lock of a live one that it had not checked, and no event loop
\* hangs, through crashes, stops, stale files and recycled pids.
FilesKeepOneWriter == robbed = {} /\ wedges = 0 => SingleWriter

\* Whatever files crashed launches left behind, and whoever owns their pids
\* now, a launch that finds the other ones dead, not young and of pids the
\* system can tell the start of, ends up serving, unless it is killed or hangs.
Deserted(p) ==
  /\ pc[p] = "mutex"
  /\ crashes = MaxCrashes
  /\ \A q \in Procs \ {p} : pc[q] = "dead" /\ q \in old /\ q \notin QueryFails

StaleFilesNeverBlock == \A p \in Procs : Deserted(p) ~> (pc[p] = "serving" \/ p \in wedged)
===============================================================================
