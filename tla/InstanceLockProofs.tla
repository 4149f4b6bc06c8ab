--------------------------- MODULE InstanceLockProofs ---------------------------
(***************************************************************************)
(* Machine-checked proofs about InstanceLock, for any number of launches   *)
(* and ports, any of them strict, and any bounds on crashes, hangs and     *)
(* recycled pids.                                                          *)
(*                                                                         *)
(* Two things keep a second writer off the data directory.  The files do   *)
(* (FilesHold), whenever a launch listens, until a launch unlinks a file   *)
(* of a live one or an event loop hangs.  The listener does (PortsHeld),   *)
(* whatever became of the files, between launches that share a port and    *)
(* listen before they boot.                                                *)
(***************************************************************************)
EXTENDS InstanceLock, FiniteSetTheorems, TLAPS


----------------------------------------------------------------------------
(* Types.                                                                 *)

\* Inductive: stopLockHolder goes on only with a holder it has read, and a holder of
\* the sentinel that is checked is one.
TypeInv ==
  /\ TypeOK
  /\ \A p \in Procs : pc[p] = "stopIdentity" => victim[p] \in Procs
  /\ \A p \in Procs : pc[p] = "mutexIdentity" => seen[p] \in Procs

\* What a launch's own variables are, apart from where it is.
DataOK ==
  /\ sentinel \in File \cup {NoFile} /\ lock \in File \cup {NoFile}
  /\ seen \in [Procs -> Procs \cup {NoProc}] /\ victim \in [Procs -> Procs \cup {NoProc}]
  /\ exclusive \in [Procs -> BOOLEAN]
  /\ bound \subseteq Procs /\ working \subseteq Procs /\ wedged \subseteq Procs
  /\ signalled \subseteq Procs /\ old \subseteq Procs /\ recycled \subseteq Procs /\ robbed \subseteq Procs
  /\ crashes \in 0 .. MaxCrashes /\ wedges \in 0 .. MaxWedges

\* Nothing but the place of one launch decides what the other conjuncts say.
LEMMA Moves ==
  ASSUME TypeInv, NEW p \in Procs, NEW place \in Places, Goto(p, place), DataOK',
         \A q \in Procs \ {p} : seen'[q] = seen[q] /\ victim'[q] = victim[q],
         place = "stopIdentity" => victim'[p] \in Procs,
         place = "mutexIdentity" => seen'[p] \in Procs
  PROVE  TypeInv'
  BY DEF TypeInv, TypeOK, DataOK, Goto

\* What a launch reads in a file is a launch or nothing.
LEMMA HolderType == ASSUME NEW f \in File \cup {NoFile} PROVE HolderIn(f) \in Procs \cup {NoProc}
  BY DEF HolderIn, File, NoFile

\* The history names launches only.
LEMMA RobsType ==
  ASSUME robbed \subseteq Procs, NEW file \in File \cup {NoFile}, NEW checked, Robs(file, checked)
  PROVE  robbed' \subseteq Procs
  BY DEF Robs, File, NoFile

\* Each step keeps the types.
LEMMA StepKeepsTypes == ASSUME TypeInv, [Next]_vars PROVE TypeInv'
  <1>0. DataOK /\ pc \in [Procs -> Places] /\ NoFile \in File \cup {NoFile} /\ NoProc \notin Procs
    BY ProcsAssumption DEF TypeInv, TypeOK, DataOK
  <1>a. \A p \in Procs : \A w \in BOOLEAN : [by |-> p, written |-> w] \in File
    BY DEF File
  <1>b. \A p \in Procs : /\ sentinel.by = p => [sentinel EXCEPT !.written = TRUE] \in File
                         /\ lock.by = p => [lock EXCEPT !.written = TRUE] \in File
    BY <1>0 DEF DataOK, File, NoFile
  <1>c. ASSUME NEW p \in Procs, NEW place \in Places, Goto(p, place), OnlyPc,
               place \notin {"stopIdentity", "mutexIdentity"}
        PROVE  TypeInv'
    <2>1. DataOK'
      BY <1>0, <1>c DEF OnlyPc, ProcVars, LifeVars, DataOK
    <2> QED
      BY <1>c, <2>1, Moves DEF OnlyPc, ProcVars
  <1>1. ASSUME NEW p \in Procs,
               \/ Launch(p) \/ Probe(p) \/ Grace(p) \/ WaitForStop(p) \/ CheckStaleLock(p)
               \/ PortCheck(p) \/ Unbind(p) \/ HandleSignal(p) \/ CheckSentinelHolder(p)
        PROVE  TypeInv'
    <2>1. OnlyPc
      BY <1>1 DEF Launch, Probe, Grace, WaitForStop, CheckStaleLock, PortCheck, Unbind, HandleSignal,
                  CheckSentinelHolder
    <2>2. CASE CheckSentinelHolder(p)
      <3>1. \E place \in {"mutexSteal", "dead", "mutex"} : Goto(p, place)
        BY <2>2 DEF CheckSentinelHolder, Identities
      <3> QED
        BY <1>c, <2>1, <3>1 DEF Places, AcquirePlaces
    <2>3. CASE ~ CheckSentinelHolder(p)
      <3>1. \E place \in {"mutex", "leave", "grace", "stop", "portCheck", "staleCheck", "staleUnlink",
                          "writeLock", "unbindUnlink", "shutdown"} : Goto(p, place)
        BY <1>1, <2>3 DEF Launch, Probe, Grace, WaitForStop, CheckStaleLock, PortCheck, Unbind, HandleSignal
      <3> QED
        BY <1>c, <2>1, <3>1 DEF Places, AcquirePlaces, CriticalPlaces, ServingPlaces
    <2> QED
      BY <2>2, <2>3
  <1>2. ASSUME NEW p \in Procs, CreateSentinel(p) \/ WriteSentinel(p) \/ StealSentinel(p) PROVE TypeInv'
    <2>1. /\ sentinel' \in File \cup {NoFile} /\ robbed' \subseteq Procs
          /\ UNCHANGED <<lock, seen, ProcVars>>
      <3>1. CASE CreateSentinel(p)
        BY <1>0, <1>a, <3>1 DEF CreateSentinel, DataOK
      <3>2. CASE WriteSentinel(p)
        BY <1>0, <1>b, <3>2 DEF WriteSentinel, DataOK
      <3>3. CASE StealSentinel(p)
        BY <1>0, <3>3, RobsType DEF StealSentinel, DataOK
      <3> QED
        BY <1>2, <3>1, <3>2, <3>3
    <2>2. DataOK'
      BY <1>0, <2>1 DEF DataOK, ProcVars, LifeVars
    <2>3. \E place \in {"mutexWrite", "mutexRead", "decide", "mutex"} : Goto(p, place)
      BY <1>2 DEF CreateSentinel, WriteSentinel, StealSentinel
    <2> QED
      BY <2>1, <2>2, <2>3, Moves DEF ProcVars, Places, AcquirePlaces, CriticalPlaces
  <1>3. ASSUME NEW p \in Procs, ReadSentinel(p) \/ Decide(p) \/ ReadHolderToStop(p) PROVE TypeInv'
    <2>1. HolderIn(sentinel) \in Procs \cup {NoProc} /\ HolderIn(lock) \in Procs \cup {NoProc}
      BY <1>0, HolderType DEF DataOK
    <2>2. DataOK'
      <3>1. UNCHANGED <<sentinel, lock, bound, working, robbed, LifeVars>>
        BY <1>3 DEF ReadSentinel, Decide, ReadHolderToStop, ProcVars
      <3>2. /\ seen' \in [Procs -> Procs \cup {NoProc}] /\ victim' \in [Procs -> Procs \cup {NoProc}]
            /\ exclusive' \in [Procs -> BOOLEAN]
        <4>1. CASE ReadSentinel(p)
          BY <1>0, <2>1, <4>1 DEF ReadSentinel, ProcVars, DataOK
        <4>2. CASE Decide(p)
          <5>1. exclusive' \in [Procs -> BOOLEAN]
            BY <1>0, <4>2 DEF Decide, DataOK
          <5> QED
            BY <1>0, <2>1, <4>2, <5>1 DEF Decide, DataOK
        <4>3. CASE ReadHolderToStop(p)
          BY <1>0, <2>1, <4>3 DEF ReadHolderToStop, DataOK
        <4> QED
          BY <1>3, <4>1, <4>2, <4>3
      <3> QED
        BY <1>0, <3>1, <3>2 DEF DataOK, LifeVars
    <2>3. /\ \A q \in Procs \ {p} : seen'[q] = seen[q] /\ victim'[q] = victim[q]
          /\ \E place \in {"mutexSteal", "mutexIdentity", "probe", "writeLock", "stopIdentity"} :
               /\ Goto(p, place)
               /\ place = "stopIdentity" => victim'[p] \in Procs
               /\ place = "mutexIdentity" => seen'[p] \in Procs
      BY <1>0, <1>3, <2>1 DEF ReadSentinel, Decide, ReadHolderToStop, ProcVars, DataOK
    <2> QED
      BY <2>2, <2>3, Moves DEF Places, AcquirePlaces, CriticalPlaces
  <1>4. ASSUME NEW p \in Procs, StopHolder(p) PROVE TypeInv'
    <2>1. victim[p] \in Procs
      BY <1>4 DEF StopHolder, TypeInv
    <2>2. DataOK'
      <3>1. signalled' \subseteq Procs
        BY <1>0, <1>4, <2>1 DEF StopHolder, DataOK
      <3> QED
        BY <1>0, <1>4, <3>1 DEF StopHolder, DataOK
    <2>3. UNCHANGED <<seen, victim>> /\ \E place \in {"staleCheck", "portCheck", "stopWait"} : Goto(p, place)
      BY <1>4 DEF StopHolder, Identities
    <2> QED
      BY <2>2, <2>3, Moves DEF Places, CriticalPlaces
  <1>5. ASSUME NEW p \in Procs, NEW checked, NEW place \in {"writeLock", "leave", "dead"},
               UnlinkLock(p, checked, place), bound' \subseteq Procs, working' \subseteq Procs
        PROVE  TypeInv'
    <2>1. robbed' \subseteq Procs
      BY <1>0, <1>5, RobsType DEF UnlinkLock, DataOK
    <2>2. DataOK'
      BY <1>0, <1>5, <2>1 DEF UnlinkLock, DataOK, LifeVars
    <2> QED
      BY <1>5, <2>2, Moves DEF UnlinkLock, Places, CriticalPlaces
  <1>6. ASSUME NEW p \in Procs, UnlinkStaleLock(p) \/ UnbindUnlink(p) \/ UnlinkAtExit(p) PROVE TypeInv'
    <2>1. bound' \subseteq Procs /\ working' \subseteq Procs
      BY <1>0, <1>6 DEF UnlinkStaleLock, UnbindUnlink, UnlinkAtExit, Exits, DataOK
    <2> QED
      BY <1>5, <1>6, <2>1 DEF UnlinkStaleLock, UnbindUnlink, UnlinkAtExit
  <1>7. ASSUME NEW p \in Procs, WriteLock(p) \/ FillLock(p) PROVE TypeInv'
    <2>1. lock' \in File \cup {NoFile}
      BY <1>0, <1>a, <1>b, <1>7 DEF WriteLock, FillLock, DataOK
    <2>2. DataOK' /\ UNCHANGED <<seen, victim>>
      BY <1>0, <1>7, <2>1 DEF WriteLock, FillLock, DataOK, ProcVars, LifeVars
    <2>3. \E place \in {"fillLock", "leave", "bind", "boot"} : Goto(p, place)
      BY <1>7 DEF WriteLock, FillLock, FirstOfBoot
    <2> QED
      BY <2>2, <2>3, Moves DEF Places, CriticalPlaces
  <1>8. ASSUME NEW p \in Procs, \/ Bind(p) \/ Boot(p) \/ BootFails(p) \/ ReleaseMutex(p) \/ StopWorker(p)
                                \/ CloseDatabase(p) \/ crashExit(p)
        PROVE  TypeInv'
    <2>1. bound' \subseteq Procs /\ working' \subseteq Procs /\ crashes' \in 0 .. MaxCrashes
      BY <1>0, <1>8, ProcsAssumption
         DEF Bind, Boot, BootFails, ReleaseMutex, StopWorker, CloseDatabase, crashExit, ServeOrExit,
             ReleaseLock, Exits, DataOK, LifeVars
    <2>2. UNCHANGED <<sentinel, lock, seen, victim, exclusive, wedged, signalled, old, recycled, robbed, wedges>>
      BY <1>8 DEF Bind, Boot, BootFails, ReleaseMutex, StopWorker, CloseDatabase, crashExit, LifeVars
    <2>3. DataOK'
      BY <1>0, <2>1, <2>2 DEF DataOK
    <2>4. \E place \in {"unbind", "release", "boot", "bind", "releaseUnlink", "leaveUnlink", "serving",
                        "dead", "closing", "exitUnlink"} : Goto(p, place)
      BY <1>8 DEF Bind, Boot, BootFails, ReleaseMutex, StopWorker, CloseDatabase, crashExit, ServeOrExit,
                  ReleaseLock
    <2> QED
      BY <2>2, <2>3, <2>4, Moves DEF Places, CriticalPlaces, ServingPlaces, ClosingPlaces
  <1>9. ASSUME NEW p \in Procs, UnlinkSentinel(p) PROVE TypeInv'
    <2>1. robbed' \subseteq Procs /\ bound' \subseteq Procs /\ working' \subseteq Procs
      BY <1>0, <1>9, RobsType DEF UnlinkSentinel, ServeOrExit, DataOK
    <2>2. DataOK'
      BY <1>0, <1>9, <2>1 DEF UnlinkSentinel, DataOK, LifeVars
    <2>3. UNCHANGED <<seen, victim>> /\ \E place \in {"serving", "dead"} : Goto(p, place)
      BY <1>9 DEF UnlinkSentinel, ServeOrExit
    <2> QED
      BY <2>2, <2>3, Moves DEF Places, ServingPlaces
  <1>10. ASSUME NEW p \in Procs, KilledBySignal(p) \/ Crash(p) PROVE TypeInv'
    <2>1. /\ bound' \subseteq Procs /\ working' \subseteq Procs /\ wedged' \subseteq Procs
          /\ crashes' \in 0 .. MaxCrashes
      BY <1>0, <1>10, ProcsAssumption DEF KilledBySignal, Crash, Vanish, Exits, DataOK
    <2>2. DataOK'
      BY <1>0, <1>10, <2>1 DEF KilledBySignal, Crash, Vanish, DataOK
    <2> QED
      BY <1>10, <2>2, Moves DEF KilledBySignal, Crash, Vanish, Places
  <1>11. ASSUME NEW p \in Procs, Terminate(p) \/ Wedge(p) \/ Unwedge(p) \/ GraceOver(p) \/ Recycle(p)
         PROVE  TypeInv'
    <2>1. /\ signalled' \subseteq Procs /\ wedged' \subseteq Procs /\ old' \subseteq Procs
          /\ recycled' \subseteq Procs /\ crashes' \in 0 .. MaxCrashes /\ wedges' \in 0 .. MaxWedges
      BY <1>0, <1>11, ProcsAssumption DEF Terminate, Wedge, Unwedge, GraceOver, Recycle, DataOK
    <2>2. UNCHANGED <<pc, sentinel, lock, seen, victim, exclusive, bound, working, robbed>>
      BY <1>11 DEF Terminate, Wedge, Unwedge, GraceOver, Recycle, FileVars
    <2> QED
      BY <1>0, <2>1, <2>2 DEF TypeInv, TypeOK, DataOK
  <1>12. CASE UNCHANGED vars
    BY <1>12 DEF vars, LifeVars, TypeInv, TypeOK
  <1> QED
    BY <1>1, <1>2, <1>3, <1>4, <1>6, <1>7, <1>8, <1>9, <1>10, <1>11, <1>12 DEF Next, Acquire, EndsOnSignal

\* Files, listeners and processes are what they are said to be, and stopLockHolder only
\* signals a holder it has read.
THEOREM LockTypeCorrect == Spec => []TypeOK
  <1>1. Init => TypeInv
    BY ProcsAssumption DEF Init, TypeInv, TypeOK, NoFile, Places
  <1>2. TypeInv /\ [Next]_vars => TypeInv'
    BY StepKeepsTypes
  <1>3. TypeInv => TypeOK
    BY DEF TypeInv
  <1> QED
    BY <1>1, <1>2, <1>3, PTL DEF Spec

----------------------------------------------------------------------------
(* The listener.                                                          *)

\* A launch that listens before it boots does so until its worker has stopped.
PortsHeld ==
  /\ \A p, q \in bound : PortOf[p] = PortOf[q] => p = q
  /\ \A p \in Procs \ Strict : pc[p] = "boot" \/ p \in working => p \in bound

\* A launch that does not come to boot, and gives its port up only with its worker.
LEMMA KeepsPort ==
  ASSUME TypeInv, PortsHeld, NEW p \in Procs, NEW place \in Places, Goto(p, place), place # "boot",
         \/ UNCHANGED bound
         \/ bound' = bound \ {p} /\ p \notin working',
         working' \in {working, working \ {p}}
  PROVE  PortsHeld'
  BY DEF TypeInv, TypeOK, PortsHeld, Goto

\* Each step keeps the ports.
LEMMA StepKeepsPorts == ASSUME TypeInv, PortsHeld, [Next]_vars PROVE PortsHeld'
  <1>0. TypeOK
    BY DEF TypeInv
  <1>1. ASSUME NEW p \in Procs, NEW place, Goto(p, place), UNCHANGED <<bound, working>>,
               place = "boot" => p \in Strict \/ p \in bound
        PROVE  PortsHeld'
    BY <1>0, <1>1 DEF TypeOK, PortsHeld, Goto
  <1>2. ASSUME NEW p \in Procs, UNCHANGED <<bound, working>>,
               \/ Launch(p) \/ CreateSentinel(p) \/ WriteSentinel(p) \/ ReadSentinel(p)
               \/ StealSentinel(p) \/ Decide(p) \/ Probe(p) \/ Grace(p) \/ ReadHolderToStop(p)
               \/ WaitForStop(p) \/ CheckStaleLock(p) \/ PortCheck(p) \/ Unbind(p)
               \/ UnlinkStaleLock(p) \/ UnbindUnlink(p) \/ HandleSignal(p)
        PROVE  PortsHeld'
    <2>1. \E place \in Places \ {"boot"} : Goto(p, place)
      BY <1>2 DEF Launch, CreateSentinel, WriteSentinel, ReadSentinel, StealSentinel, Decide, Probe,
                  Grace, ReadHolderToStop, WaitForStop, CheckStaleLock, PortCheck, Unbind,
                  UnlinkStaleLock, UnbindUnlink, UnlinkLock, HandleSignal,
                  Places, AcquirePlaces, CriticalPlaces, ServingPlaces
    <2> QED
      BY <1>1, <1>2, <2>1
  <1>3. ASSUME NEW p \in Procs, CheckSentinelHolder(p) \/ StopHolder(p) PROVE PortsHeld'
    <2>1. /\ UNCHANGED <<bound, working>>
          /\ \E place \in {"mutexSteal", "dead", "mutex", "staleCheck", "portCheck", "stopWait"} : Goto(p, place)
      BY <1>3 DEF CheckSentinelHolder, StopHolder, Identities, OnlyPc, ProcVars
    <2> QED
      BY <1>1, <2>1
  <1>4. ASSUME NEW p \in Procs, WriteLock(p) \/ FillLock(p) PROVE PortsHeld'
    <2>1. /\ UNCHANGED <<bound, working>>
          /\ \E place \in {"fillLock", "leave", FirstOfBoot(p)} : Goto(p, place)
      BY <1>4 DEF WriteLock, FillLock, ProcVars
    <2> QED
      BY <1>1, <2>1 DEF FirstOfBoot
  <1>5. ASSUME NEW p \in Procs, Bind(p) PROVE PortsHeld'
    <2>1. CASE isPortInUse(PortOf[p])
      BY <1>1, <1>5, <2>1 DEF Bind
    <2>2. CASE ~ isPortInUse(PortOf[p])
      <3>1. bound' = bound \cup {p} /\ working' = working /\ \A q \in bound : PortOf[q] # PortOf[p]
        BY <1>5, <2>2 DEF Bind, isPortInUse, Listeners
      <3>2. \A q \in Procs \ {p} : pc'[q] = pc[q]
        BY <1>0, <1>5 DEF Bind, Goto, TypeOK
      <3> QED
        BY <3>1, <3>2 DEF PortsHeld
    <2> QED
      BY <2>1, <2>2
  <1>6. ASSUME NEW p \in Procs, Boot(p) \/ BootFails(p) PROVE PortsHeld'
    <2>1. /\ pc[p] = "boot" /\ bound' = bound /\ working' = working \cup {p}
          /\ \E place \in {"bind", "release", "unbind"} : Goto(p, place)
      BY <1>6 DEF Boot, BootFails
    <2> QED
      BY <1>0, <2>1 DEF TypeOK, PortsHeld, Goto
  <1>7. ASSUME NEW p \in Procs, ReleaseMutex(p) \/ UnlinkSentinel(p) PROVE PortsHeld'
    <2>1. \E place \in {"releaseUnlink", "leaveUnlink", "serving", "dead"} :
            /\ Goto(p, place)
            /\ \/ UNCHANGED <<bound, working>>
               \/ bound' = bound \ {p} /\ working' = working \ {p}
      BY <1>7 DEF ReleaseMutex, UnlinkSentinel, ServeOrExit
    <2> QED
      BY <2>1, KeepsPort DEF Places, CriticalPlaces, ServingPlaces
  <1>8. ASSUME NEW p \in Procs, StopWorker(p) \/ CloseDatabase(p) \/ crashExit(p) \/ UnlinkAtExit(p)
        PROVE  PortsHeld'
    <2>1. \E place \in {"closing", "exitUnlink", "dead"} :
            /\ Goto(p, place)
            /\ working' = working \ {p}
            /\ bound' \in {bound, bound \ {p}}
      BY <1>8 DEF StopWorker, CloseDatabase, crashExit, UnlinkAtExit, UnlinkLock, ReleaseLock, Exits
    <2> QED
      BY <2>1, KeepsPort DEF Places, ClosingPlaces
  <1>9. ASSUME NEW p \in Procs, KilledBySignal(p) \/ Crash(p) PROVE PortsHeld'
    BY <1>9, KeepsPort DEF KilledBySignal, Crash, Vanish, Exits, Places
  <1>10. ASSUME UNCHANGED <<pc, bound, working>> PROVE PortsHeld'
    BY <1>10 DEF PortsHeld
  <1>11. ASSUME NEW p \in Procs, Terminate(p) \/ Wedge(p) \/ Unwedge(p) \/ GraceOver(p) \/ Recycle(p)
         PROVE  PortsHeld'
    BY <1>10, <1>11 DEF Terminate, Wedge, Unwedge, GraceOver, Recycle
  <1>12. CASE UNCHANGED vars
    BY <1>10, <1>12 DEF vars
  <1>13. ASSUME NEW p \in Procs,
                \/ Launch(p) \/ CreateSentinel(p) \/ WriteSentinel(p) \/ ReadSentinel(p)
                \/ StealSentinel(p) \/ Decide(p) \/ Probe(p) \/ Grace(p) \/ ReadHolderToStop(p)
                \/ WaitForStop(p) \/ CheckStaleLock(p) \/ PortCheck(p) \/ Unbind(p)
                \/ UnlinkStaleLock(p) \/ UnbindUnlink(p) \/ HandleSignal(p)
         PROVE  UNCHANGED <<bound, working>>
    BY <1>13 DEF Launch, CreateSentinel, WriteSentinel, ReadSentinel, StealSentinel, Decide, Probe,
                 Grace, ReadHolderToStop, WaitForStop, CheckStaleLock, PortCheck, Unbind,
                 UnlinkStaleLock, UnbindUnlink, HandleSignal, OnlyPc, ProcVars
  <1> QED
    BY <1>2, <1>3, <1>4, <1>5, <1>6, <1>7, <1>8, <1>9, <1>11, <1>12, <1>13
       DEF Next, Acquire, EndsOnSignal

\* bootAndBind listens before it touches the database, unless --strict-preflight: of the
\* launches of one configuration that are not strict, at most one works on the data directory,
\* even when the lock files have been taken from their owner or its event loop hangs.
THEOREM OnePortOneWriter ==
  Spec => [](\A p, q \in working \ Strict : PortOf[p] = PortOf[q] => p = q)
  <1>1. Init => TypeInv /\ PortsHeld
    BY ProcsAssumption DEF Init, TypeInv, TypeOK, NoFile, Places, PortsHeld
  <1>2. TypeInv /\ PortsHeld /\ [Next]_vars => TypeInv' /\ PortsHeld'
    BY StepKeepsTypes, StepKeepsPorts
  <1>3. TypeInv /\ PortsHeld => \A p, q \in working \ Strict : PortOf[p] = PortOf[q] => p = q
    BY DEF PortsHeld, TypeInv, TypeOK
  <1> QED
    BY <1>1, <1>2, <1>3, PTL DEF Spec

----------------------------------------------------------------------------
(* The files.                                                             *)

\* A launch whose sentinel, and whose lock, is on disk.
Inside == {"mutexWrite"} \cup CriticalPlaces
Locked == {"bind", "boot", "release", "releaseUnlink"} \cup ServingPlaces

\* A launch past listen(), and one whose worker may run.
Listening == {"release", "releaseUnlink"} \cup ServingPlaces
Works == {"bind", "release", "releaseUnlink", "unbind", "unbindUnlink", "leave", "leaveUnlink"}
           \cup ServingPlaces

\* What each launch may count on.
Holds(p) ==
  /\ pc[p] \in Inside => sentinel.by = p
  /\ pc[p] \in CriticalPlaces => sentinel.written
  /\ pc[p] = "fillLock" => lock.by = p
  /\ pc[p] \in Locked => lock.by = p /\ lock.written
  /\ pc[p] \in Listening \/ (pc[p] = "boot" /\ p \notin Strict) => p \in bound
  /\ p \in working => pc[p] \in Works /\ (pc[p] = "bind" => p \in Strict)
  /\ pc[p] = "mutexIdentity" => pc[seen[p]] # "off"
  /\ pc[p] = "mutexSteal" => seen[p] = NoProc \/ pc[seen[p]] = "dead"

\* While p serves, another launch that gets the mutex finds p's lock, and p listening.
TurnedAway(p, q) ==
  p # q /\ pc[p] \in ServingPlaces /\ pc[q] \in CriticalPlaces =>
    /\ q \notin working
    /\ pc[q] \in {"decide", "probe", "leave", "leaveUnlink"}
    /\ pc[q] = "probe" => seen[q] = p

FilesHold ==
  /\ wedged = {}
  /\ \A p \in recycled : pc[p] = "dead"
  /\ sentinel # NoFile => pc[sentinel.by] # "off"
  /\ \A p \in Procs : Holds(p)
  /\ \A p, q \in Procs : TurnedAway(p, q)

FilesInv == robbed = {} /\ wedges = 0 => FilesHold

\* No launch comes out of the mutex, or works, but the one that keeps what it holds.
LEMMA OneWriter == ASSUME TypeInv, FilesHold PROVE SingleWriter
  <1> SUFFICES ASSUME NEW p \in working, NEW q \in working, p # q PROVE FALSE
    BY DEF SingleWriter
  <1>1. p \in Procs /\ q \in Procs /\ pc[p] \in Works /\ pc[q] \in Works
    BY DEF FilesHold, Holds, TypeInv, TypeOK
  <1>2. Works \subseteq Inside \cup ServingPlaces /\ Works \subseteq CriticalPlaces \cup ServingPlaces
    BY DEF Works, Inside, CriticalPlaces
  <1>3. CASE pc[p] \in Inside /\ pc[q] \in Inside
    BY <1>1, <1>3 DEF FilesHold, Holds
  <1>4. CASE pc[p] \in ServingPlaces /\ pc[q] \in ServingPlaces
    BY <1>1, <1>4 DEF FilesHold, Holds, Locked
  <1>5. CASE pc[p] \in ServingPlaces /\ pc[q] \in CriticalPlaces
    BY <1>1, <1>5 DEF FilesHold, TurnedAway
  <1>6. CASE pc[q] \in ServingPlaces /\ pc[p] \in CriticalPlaces
    BY <1>1, <1>6 DEF FilesHold, TurnedAway
  <1> QED
    BY <1>1, <1>2, <1>3, <1>4, <1>5, <1>6 DEF Inside

\* The mutex has one holder.
LEMMA Alone ==
  ASSUME FilesHold, NEW p \in Procs, pc[p] \in Inside PROVE \A q \in Procs \ {p} : pc[q] \notin Inside
  BY DEF FilesHold, Holds

\* A launch that took the decision to boot did so while none served.
LEMMA NoneServes ==
  ASSUME FilesHold, NEW p \in Procs, pc[p] \in CriticalPlaces \ {"decide", "probe", "leave", "leaveUnlink"}
  PROVE  \A q \in Procs : pc[q] \notin ServingPlaces
  BY DEF FilesHold, TurnedAway, CriticalPlaces, ServingPlaces

\* A step of one launch: the others keep their files, and it keeps what it must itself.
LEMMA Keeps ==
  ASSUME TypeInv, FilesHold, NEW p \in Procs, NEW place \in Places \ {"off"}, Goto(p, place),
         pc[p] # "dead", wedged' = {}, UNCHANGED recycled,
         \A q \in Procs \ {p} : /\ seen'[q] = seen[q]
                                /\ q \in bound' <=> q \in bound
                                /\ q \in working' <=> q \in working
                                /\ pc[q] \in Inside => sentinel'.by = q
                                /\ pc[q] \in CriticalPlaces => sentinel'.written
                                /\ pc[q] = "fillLock" => lock'.by = q
                                /\ pc[q] \in Locked => lock'.by = q /\ lock'.written,
         sentinel' # NoFile => sentinel'.by = p \/ sentinel' = sentinel,
         Holds(p)',
         \A q \in Procs : TurnedAway(p, q)' /\ TurnedAway(q, p)'
  PROVE  FilesHold'
  <1>1. /\ pc'[p] = place
        /\ \A q \in Procs \ {p} : pc'[q] = pc[q]
        /\ sentinel \in File \cup {NoFile}
        /\ recycled \subseteq Procs
        /\ seen \in [Procs -> Procs \cup {NoProc}]
    BY DEF TypeInv, TypeOK, Goto
  <1>2. \A q \in recycled' : pc'[q] = "dead"
    BY <1>1 DEF FilesHold
  <1>3. sentinel' # NoFile => pc'[sentinel'.by] # "off"
    <2>1. CASE sentinel' = sentinel /\ sentinel # NoFile
      BY <1>1, <2>1 DEF FilesHold, File
    <2> QED
      BY <1>1, <2>1
  <1>4. ASSUME NEW q \in Procs \ {p} PROVE Holds(q)'
    <2>1. pc[q] = "mutexIdentity" => pc'[seen'[q]] # "off"
      BY <1>1 DEF FilesHold, Holds, TypeInv
    <2>2. pc[q] = "mutexSteal" => seen'[q] = NoProc \/ pc'[seen'[q]] = "dead"
      BY <1>1 DEF FilesHold, Holds
    <2> QED
      BY <1>1, <2>1, <2>2 DEF FilesHold, Holds
  <1>5. ASSUME NEW q \in Procs \ {p}, NEW r \in Procs \ {p} PROVE TurnedAway(q, r)'
    BY <1>1 DEF FilesHold, TurnedAway
  <1> QED
    BY <1>2, <1>3, <1>4, <1>5 DEF FilesHold

\* A launch that has no file to lose goes on without touching any.
LEMMA MovesOn ==
  ASSUME TypeInv, FilesHold, NEW p \in Procs, NEW place \in Places \ {"off"}, Goto(p, place),
         pc[p] # "dead", UNCHANGED <<wedged, recycled, sentinel, lock, bound, working>>,
         \A q \in Procs \ {p} : seen'[q] = seen[q],
         Holds(p)',
         \A q \in Procs : TurnedAway(p, q)' /\ TurnedAway(q, p)'
  PROVE  FilesHold'
  <1>1. wedged' = {}
    BY DEF FilesHold
  <1>2. ASSUME NEW q \in Procs \ {p}
        PROVE  /\ pc[q] \in Inside => sentinel'.by = q
               /\ pc[q] \in CriticalPlaces => sentinel'.written
               /\ pc[q] = "fillLock" => lock'.by = q
               /\ pc[q] \in Locked => lock'.by = q /\ lock'.written
    BY DEF FilesHold, Holds
  <1> QED
    BY <1>1, <1>2, Keeps

\* A launch that steps back, or out: it has no file to keep and no worker.
LEMMA StepsBack ==
  ASSUME NEW p \in Procs, TypeInv, NEW place \in {"mutex", "mutexRead", "closing", "exitUnlink", "dead"},
         Goto(p, place), p \notin working'
  PROVE  Holds(p)' /\ \A q \in Procs : TurnedAway(p, q)' /\ TurnedAway(q, p)'
  BY DEF Goto, TypeInv, TypeOK, Holds, TurnedAway, Inside, Locked, Listening, CriticalPlaces, ServingPlaces

\* acquireMutex: only the sentinel of a launch that is gone is taken from it.
LEMMA AcquireKeepsFiles ==
  ASSUME TypeInv, FilesHold, NEW p \in Procs, robbed' = {},
         \/ Launch(p) \/ CreateSentinel(p) \/ WriteSentinel(p) \/ ReadSentinel(p)
         \/ CheckSentinelHolder(p) \/ StealSentinel(p)
  PROVE  FilesHold'
  <1>0. TypeOK /\ Holds(p) /\ NoProc \notin Procs
    BY ProcsAssumption DEF TypeInv, FilesHold
  <1>1. CASE Launch(p)
    <2>1. p \notin working
      BY <1>0, <1>1 DEF Launch, Holds, Works, ServingPlaces
    <2> QED
      BY <1>0, <1>1, <2>1, StepsBack, MovesOn DEF Launch, OnlyPc, ProcVars, LifeVars, Places, AcquirePlaces
  <1>2. CASE CreateSentinel(p)
    <2>1. p \notin working
      BY <1>0, <1>2 DEF CreateSentinel, Holds, Works, ServingPlaces
    <2>2. CASE sentinel = NoFile
      <3>1. \A q \in Procs : pc[q] \notin Inside
        BY <1>0, <2>2 DEF FilesHold, Holds, NoFile
      <3>2. Goto(p, "mutexWrite") /\ sentinel' = [by |-> p, written |-> FALSE]
        BY <1>2, <2>2 DEF CreateSentinel
      <3>3. UNCHANGED <<lock, seen, bound, working, wedged, recycled>>
        BY <1>2 DEF CreateSentinel, ProcVars, LifeVars
      <3>4. Holds(p)' /\ \A q \in Procs : TurnedAway(p, q)' /\ TurnedAway(q, p)'
        BY <1>0, <2>1, <3>2, <3>3
           DEF Holds, TurnedAway, Goto, TypeOK, Inside, Locked, Listening, CriticalPlaces, ServingPlaces
      <3>5. \A q \in Procs \ {p} : (pc[q] = "fillLock" => lock'.by = q) /\ (pc[q] \in Locked => lock'.by = q /\ lock'.written)
        BY <3>3 DEF FilesHold, Holds
      <3>6. pc[p] # "dead" /\ wedged' = {} /\ "mutexWrite" \in Places \ {"off"}
        BY <1>2, <3>3 DEF CreateSentinel, FilesHold, Places, AcquirePlaces
      <3>7. CriticalPlaces \subseteq Inside
        BY DEF Inside
      <3> QED
        BY <3>1, <3>2, <3>3, <3>4, <3>5, <3>6, <3>7, Keeps
    <2>3. CASE sentinel # NoFile
      BY <1>0, <1>2, <2>1, <2>3, StepsBack, MovesOn
         DEF CreateSentinel, ProcVars, LifeVars, Places, AcquirePlaces
    <2> QED
      BY <2>2, <2>3
  <1>3. CASE WriteSentinel(p)
    <2>1. p \notin working /\ pc[p] = "mutexWrite" /\ sentinel.by = p /\ sentinel \in File
      BY <1>0, <1>3 DEF WriteSentinel, Holds, Works, ServingPlaces, Inside, TypeOK, NoFile
    <2>2. Goto(p, "decide") /\ sentinel'.by = p /\ sentinel'.written
      BY <1>3, <2>1 DEF WriteSentinel, File
    <2>3. UNCHANGED <<lock, seen, bound, working, wedged, recycled>>
      BY <1>3 DEF WriteSentinel, ProcVars, LifeVars
    <2>4. \A q \in Procs \ {p} : pc[q] \notin Inside
      BY <2>1, Alone DEF Inside
    <2>5. Holds(p)' /\ \A q \in Procs : TurnedAway(p, q)' /\ TurnedAway(q, p)'
      BY <1>0, <2>1, <2>2, <2>3
         DEF Holds, TurnedAway, Goto, TypeOK, Inside, Locked, Listening, CriticalPlaces, ServingPlaces
    <2>6. \A q \in Procs \ {p} : (pc[q] = "fillLock" => lock'.by = q) /\ (pc[q] \in Locked => lock'.by = q /\ lock'.written)
      BY <2>3 DEF FilesHold, Holds
    <2>7. wedged' = {} /\ "decide" \in Places \ {"off"} /\ CriticalPlaces \subseteq Inside
      BY <2>3 DEF FilesHold, Places, CriticalPlaces, Inside
    <2> QED
      BY <2>1, <2>2, <2>3, <2>4, <2>5, <2>6, <2>7, Keeps
  <1>4. CASE ReadSentinel(p)
    <2>1. p \notin working /\ pc[p] = "mutexRead"
      BY <1>0, <1>4 DEF ReadSentinel, Holds, Works, ServingPlaces
    <2>2. /\ UNCHANGED <<sentinel, lock, bound, working, wedged, recycled>>
          /\ \A q \in Procs \ {p} : seen'[q] = seen[q]
          /\ seen'[p] = HolderIn(sentinel)
      BY <1>0, <1>4 DEF ReadSentinel, ProcVars, LifeVars, TypeOK
    <2>3. HolderIn(sentinel) # NoProc => pc[HolderIn(sentinel)] # "off" /\ HolderIn(sentinel) \in Procs
      BY <1>0 DEF HolderIn, FilesHold, NoFile, TypeOK, File
    <2>4. \E place \in {"mutexSteal", "mutexIdentity"} :
            Goto(p, place) /\ (place = "mutexSteal" <=> HolderIn(sentinel) = NoProc)
      BY <1>4 DEF ReadSentinel
    <2>5. Holds(p)' /\ \A q \in Procs : TurnedAway(p, q)' /\ TurnedAway(q, p)'
      BY <1>0, <2>1, <2>2, <2>3, <2>4
         DEF Holds, TurnedAway, Goto, TypeOK, Inside, Locked, Listening, CriticalPlaces, ServingPlaces
    <2> QED
      BY <2>1, <2>2, <2>4, <2>5, MovesOn DEF Places, AcquirePlaces
  <1>5. CASE CheckSentinelHolder(p)
    <2>1. p \notin working /\ pc[p] = "mutexIdentity" /\ seen[p] \in Procs /\ pc[seen[p]] # "off"
      BY <1>0, <1>5 DEF CheckSentinelHolder, Holds, Works, ServingPlaces, TypeInv
    <2>2. UNCHANGED <<sentinel, lock, seen, bound, working, wedged, recycled>>
      BY <1>5 DEF CheckSentinelHolder, OnlyPc, ProcVars, LifeVars
    <2>3. \/ Goto(p, "mutex") \/ Goto(p, "dead")
          \/ Goto(p, "mutexSteal") /\ pc[seen[p]] = "dead"
      <3>1. PICK identity \in Identities(seen[p]) :
              Goto(p, CASE identity \in {"dead", "mismatch"} -> "mutexSteal"
                        [] identity \in {"match", "query-failed"} -> IF p \in old THEN "dead" ELSE "mutex")
        BY <1>5 DEF CheckSentinelHolder
      <3>2. identity = "dead" => pc[seen[p]] = "dead"
        BY <2>1, <3>1 DEF Identities, pidAlive, Alive
      <3>3. identity = "mismatch" => pc[seen[p]] = "dead"
        BY <3>1 DEF Identities, FilesHold
      <3>4. identity \in {"dead", "mismatch", "match", "query-failed"}
        BY <3>1 DEF Identities
      <3> QED
        BY <3>1, <3>2, <3>3, <3>4
    <2>4. CASE Goto(p, "mutex") \/ Goto(p, "dead")
      BY <1>0, <2>1, <2>2, <2>4, StepsBack, MovesOn DEF Places, AcquirePlaces
    <2>5. CASE Goto(p, "mutexSteal") /\ pc[seen[p]] = "dead"
      <3>1. Holds(p)' /\ \A q \in Procs : TurnedAway(p, q)' /\ TurnedAway(q, p)'
        BY <1>0, <2>1, <2>2, <2>5
           DEF Holds, TurnedAway, Goto, TypeOK, Inside, Locked, Listening, CriticalPlaces, ServingPlaces
      <3> QED
        BY <2>1, <2>2, <2>5, <3>1, MovesOn DEF Places, AcquirePlaces
    <2> QED
      BY <2>3, <2>4, <2>5
  <1>6. CASE StealSentinel(p)
    <2>1. p \notin working /\ pc[p] = "mutexSteal"
      BY <1>0, <1>6 DEF StealSentinel, Holds, Works, ServingPlaces
    <2>2. UNCHANGED <<lock, seen, bound, working, wedged, recycled>> /\ sentinel' = NoFile /\ Goto(p, "mutex")
      BY <1>6 DEF StealSentinel, ProcVars, LifeVars
    <2>3. sentinel # NoFile => sentinel.by = seen[p] \/ ~ Alive(sentinel.by)
      BY <1>6 DEF StealSentinel, Robs
    <2>4. sentinel.by \in Procs => pc[sentinel.by] \in {"off", "dead"}
      BY <1>0, <2>1, <2>3 DEF Holds, Alive, NoFile
    <2>5. \A q \in Procs : pc[q] \notin Inside
      BY <2>4 DEF FilesHold, Holds, Inside, CriticalPlaces
    <2>6. \A q \in Procs \ {p} : (pc[q] = "fillLock" => lock'.by = q) /\ (pc[q] \in Locked => lock'.by = q /\ lock'.written)
      BY <2>2 DEF FilesHold, Holds
    <2>7. Holds(p)' /\ \A q \in Procs : TurnedAway(p, q)' /\ TurnedAway(q, p)'
      BY <2>1, <2>2, StepsBack
    <2>8. wedged' = {} /\ "mutex" \in Places \ {"off"} /\ CriticalPlaces \subseteq Inside
      BY <2>2 DEF FilesHold, Places, AcquirePlaces, Inside
    <2> QED
      BY <2>1, <2>2, <2>5, <2>6, <2>7, <2>8, Keeps
  <1> QED
    BY <1>1, <1>2, <1>3, <1>4, <1>5, <1>6

\* With the mutex, and before the lock is written: the decision on the holder.
LEMMA InsideMoves ==
  ASSUME TypeInv, FilesHold, NEW p \in Procs, pc[p] \in CriticalPlaces,
         NEW place \in CriticalPlaces \ (Locked \cup {"fillLock"}), Goto(p, place),
         UNCHANGED <<wedged, recycled, sentinel, lock, bound, working>>,
         \A q \in Procs \ {p} : seen'[q] = seen[q],
         p \in working => place \in Works \ {"bind"},
         \A q \in Procs : pc[q] \in ServingPlaces =>
           place \in {"probe", "leave", "leaveUnlink"} /\ (place = "probe" => seen'[p] = q)
  PROVE  FilesHold'
  <1>0. TypeOK /\ Holds(p)
    BY DEF TypeInv, FilesHold
  <1>1. Holds(p)'
    BY <1>0 DEF Holds, TypeOK, Goto, Inside, Locked, Listening, CriticalPlaces, ServingPlaces
  <1>2. ASSUME NEW q \in Procs PROVE TurnedAway(p, q)' /\ TurnedAway(q, p)'
    <2>1. pc'[p] = place /\ place \notin ServingPlaces /\ (q # p => pc'[q] = pc[q])
      BY <1>0 DEF TypeOK, Goto, CriticalPlaces, ServingPlaces
    <2>2. p # q /\ pc[q] \in ServingPlaces => p \notin working
      BY DEF FilesHold, TurnedAway
    <2> QED
      BY <2>1, <2>2 DEF TurnedAway
  <1> QED
    BY <1>1, <1>2, MovesOn DEF Places, CriticalPlaces

\* The decision on the holder takes nothing from a launch that serves.
LEMMA DecisionKeepsFiles ==
  ASSUME TypeInv, FilesHold, NEW p \in Procs,
         \/ Decide(p) \/ Probe(p) \/ Grace(p) \/ ReadHolderToStop(p) \/ StopHolder(p)
         \/ WaitForStop(p) \/ CheckStaleLock(p) \/ PortCheck(p) \/ Unbind(p)
  PROVE  FilesHold'
  <1>0. TypeOK /\ Holds(p) /\ NoProc \notin Procs
    BY ProcsAssumption DEF TypeInv, FilesHold
  <1>1. CASE Decide(p)
    <2>1. pc[p] = "decide" /\ p \notin working
      BY <1>0, <1>1 DEF Decide, Holds, Works, ServingPlaces
    <2>2. /\ UNCHANGED <<wedged, recycled, sentinel, lock, bound, working>>
          /\ \A q \in Procs \ {p} : seen'[q] = seen[q]
          /\ seen'[p] = HolderIn(lock)
      BY <1>0, <1>1 DEF Decide, LifeVars, TypeOK
    <2>3. ASSUME NEW q \in Procs, pc[q] \in ServingPlaces
          PROVE  HolderIn(lock) = q /\ pidAlive(q)
      BY <2>3 DEF FilesHold, Holds, Locked, HolderIn, pidAlive, Alive, ServingPlaces
    <2>4. \E place \in {"probe", "writeLock"} :
            Goto(p, place) /\ (HolderIn(lock) # NoProc /\ pidAlive(HolderIn(lock)) => place = "probe")
      BY <1>1 DEF Decide
    <2>5. \A q \in Procs : pc[q] \in ServingPlaces => HolderIn(lock) = q /\ HolderIn(lock) # NoProc /\ pidAlive(HolderIn(lock))
      BY <1>0, <2>3
    <2> QED
      BY <2>1, <2>2, <2>4, <2>5, InsideMoves DEF CriticalPlaces, Locked, ServingPlaces
  <1>2. CASE Probe(p)
    <2>1. pc[p] = "probe" /\ p \notin working
      BY <1>0, <1>2 DEF Probe, Holds, Works, ServingPlaces
    <2>2. UNCHANGED <<wedged, recycled, sentinel, lock, bound, working, seen>>
      BY <1>2 DEF Probe, OnlyPc, ProcVars, LifeVars
    <2>3. ASSUME NEW q \in Procs, pc[q] \in ServingPlaces PROVE healthOk(PortOf[seen[p]])
      <3>1. seen[p] = q /\ q \in bound /\ wedged = {}
        BY <2>1, <2>3 DEF FilesHold, TurnedAway, Holds, Listening, CriticalPlaces, ServingPlaces
      <3> QED
        BY <3>1 DEF healthOk, Listeners
    <2>4. \E place \in {"leave", "grace"} : Goto(p, place) /\ (healthOk(PortOf[seen[p]]) => place = "leave")
      BY <1>2 DEF Probe
    <2> QED
      BY <2>1, <2>2, <2>3, <2>4, InsideMoves DEF CriticalPlaces, Locked, ServingPlaces
  <1>3. CASE \/ Grace(p) \/ ReadHolderToStop(p) \/ StopHolder(p) \/ WaitForStop(p)
             \/ CheckStaleLock(p) \/ PortCheck(p)
    <2>1. pc[p] \in {"grace", "stop", "stopIdentity", "stopWait", "staleCheck", "portCheck"}
      BY <1>3 DEF Grace, ReadHolderToStop, StopHolder, WaitForStop, CheckStaleLock, PortCheck
    <2>2. UNCHANGED <<wedged, recycled, sentinel, lock, bound, working, seen>>
      BY <1>3 DEF Grace, ReadHolderToStop, StopHolder, WaitForStop, CheckStaleLock, PortCheck, OnlyPc,
                  ProcVars, LifeVars
    <2>3. p \notin working
      BY <1>0, <2>1 DEF Holds, Works, ServingPlaces
    <2>4. \A q \in Procs : pc[q] \notin ServingPlaces
      BY <2>1, NoneServes DEF CriticalPlaces
    <2>5. \E place \in {"stop", "leave", "writeLock", "stopIdentity", "staleCheck", "portCheck",
                        "stopWait", "staleUnlink"} : Goto(p, place)
      BY <1>3 DEF Grace, ReadHolderToStop, StopHolder, WaitForStop, CheckStaleLock, PortCheck, Identities
    <2> QED
      BY <2>1, <2>2, <2>3, <2>4, <2>5, InsideMoves DEF CriticalPlaces, Locked, ServingPlaces
  <1>4. CASE Unbind(p)
    <2>1. pc[p] = "unbind" /\ UNCHANGED <<wedged, recycled, sentinel, lock, bound, working, seen>>
      BY <1>4 DEF Unbind, OnlyPc, ProcVars, LifeVars
    <2>2. \A q \in Procs : pc[q] \notin ServingPlaces
      BY <2>1, NoneServes DEF CriticalPlaces
    <2>3. \E place \in {"unbindUnlink", "leave"} : Goto(p, place)
      BY <1>4 DEF Unbind
    <2> QED
      BY <2>1, <2>2, <2>3, InsideMoves DEF CriticalPlaces, Locked, Works, ServingPlaces
  <1> QED
    BY <1>1, <1>2, <1>3, <1>4

\* With the mutex, and no launch serving: there is no other lock to lose.
LEMMA InsideWrites ==
  ASSUME TypeInv, FilesHold, NEW p \in Procs, NEW place \in CriticalPlaces, Goto(p, place),
         pc[p] \in CriticalPlaces \ {"decide", "probe", "leave", "leaveUnlink"},
         UNCHANGED <<wedged, recycled, sentinel, seen>>,
         \A q \in Procs \ {p} : (q \in bound' <=> q \in bound) /\ (q \in working' <=> q \in working),
         Holds(p)'
  PROVE  FilesHold'
  <1>0. TypeOK /\ Holds(p) /\ CriticalPlaces \subseteq Inside /\ place \in Places \ {"off"} /\ pc[p] # "dead"
    BY DEF TypeInv, FilesHold, Inside, Places, CriticalPlaces
  <1>1. \A q \in Procs \ {p} : pc[q] \notin Inside
    BY <1>0, Alone
  <1>2. \A q \in Procs \ {p} : pc[q] \notin Locked /\ pc[q] # "fillLock"
    BY <1>1, NoneServes DEF Inside, Locked, CriticalPlaces
  <1>3. ASSUME NEW q \in Procs PROVE TurnedAway(p, q)' /\ TurnedAway(q, p)'
    <2>1. pc'[p] = place /\ place \notin ServingPlaces /\ (q # p => pc'[q] = pc[q]) /\ pc[q] \notin ServingPlaces
      BY <1>0, NoneServes DEF TypeOK, Goto, CriticalPlaces, ServingPlaces
    <2> QED
      BY <2>1 DEF TurnedAway
  <1>4. wedged' = {}
    BY DEF FilesHold
  <1> QED
    BY <1>0, <1>1, <1>2, <1>3, <1>4, Keeps

\* The boot, successful or not.
LEMMA BootKeepsFiles ==
  ASSUME TypeInv, FilesHold, NEW p \in Procs,
         \/ UnlinkStaleLock(p) \/ UnbindUnlink(p) \/ WriteLock(p) \/ FillLock(p)
         \/ Bind(p) \/ Boot(p) \/ BootFails(p)
  PROVE  FilesHold'
  <1>0. TypeOK /\ Holds(p) /\ NoProc \notin Procs
    BY ProcsAssumption DEF TypeInv, FilesHold
  <1>1. pc[p] \in {"staleUnlink", "unbindUnlink", "writeLock", "fillLock", "bind", "boot"}
    BY DEF UnlinkStaleLock, UnbindUnlink, WriteLock, FillLock, Bind, Boot, BootFails
  <1>2. /\ pc[p] \in CriticalPlaces \ {"decide", "probe", "leave", "leaveUnlink"}
        /\ sentinel.by = p /\ sentinel.written
    BY <1>0, <1>1 DEF Holds, CriticalPlaces, Inside
  <1>3. UNCHANGED <<wedged, recycled, sentinel, seen>>
    BY DEF UnlinkStaleLock, UnbindUnlink, UnlinkLock, WriteLock, FillLock, Bind, Boot, BootFails,
           ProcVars, LifeVars
  <1>4. CASE UnlinkStaleLock(p) \/ UnbindUnlink(p)
    <2>1. UNCHANGED <<bound, working>> /\ \E place \in {"writeLock", "leave"} :
            Goto(p, place) /\ (p \in working => place = "leave")
      BY <1>0, <1>4 DEF UnlinkStaleLock, UnbindUnlink, UnlinkLock, Holds, Works, ServingPlaces
    <2>2. Holds(p)'
      BY <1>0, <1>2, <1>3, <2>1
         DEF Holds, Goto, TypeOK, Inside, Locked, Listening, Works, CriticalPlaces, ServingPlaces
    <2> QED
      BY <1>2, <1>3, <2>1, <2>2, InsideWrites DEF CriticalPlaces
  <1>5. CASE WriteLock(p) \/ FillLock(p)
    <2>1. UNCHANGED <<bound, working>> /\ p \notin working
      BY <1>0, <1>5 DEF WriteLock, FillLock, ProcVars, Holds, Works, ServingPlaces
    <2>2. \/ Goto(p, "leave")
          \/ Goto(p, "fillLock") /\ lock'.by = p
          \/ Goto(p, FirstOfBoot(p)) /\ lock'.by = p /\ lock'.written
      <3>1. CASE WriteLock(p)
        BY <3>1 DEF WriteLock
      <3>2. CASE FillLock(p)
        <4>1. lock.by = p /\ lock \in File
          BY <1>0, <3>2 DEF FillLock, Holds, TypeOK, NoFile
        <4> QED
          BY <3>2, <4>1 DEF FillLock, File
      <3> QED
        BY <1>5, <3>1, <3>2
    <2>3. \E place \in {"leave", "fillLock", FirstOfBoot(p)} : Goto(p, place) /\ Holds(p)'
      BY <1>0, <1>2, <1>3, <2>1, <2>2
         DEF FirstOfBoot, Holds, Goto, TypeOK, Inside, Locked, Listening, CriticalPlaces, ServingPlaces
    <2> QED
      BY <1>2, <1>3, <2>1, <2>3, InsideWrites DEF CriticalPlaces, FirstOfBoot
  <1>6. CASE Bind(p) \/ Boot(p) \/ BootFails(p)
    <2>1. UNCHANGED lock /\ lock.by = p /\ lock.written
      BY <1>0, <1>6 DEF Bind, Boot, BootFails, Holds, Locked
    <2>2. \A q \in Procs \ {p} : (q \in bound' <=> q \in bound) /\ (q \in working' <=> q \in working)
      BY <1>6 DEF Bind, Boot, BootFails
    <2>3. ASSUME NEW place \in {"unbind", "release", "boot", "bind"}, Goto(p, place),
                 place \in {"release", "boot"} => p \in bound' \/ (place = "boot" /\ p \in Strict),
                 p \in working' => place # "boot" /\ (place = "bind" => p \in Strict)
          PROVE  FilesHold'
      <3>1. pc'[p] = place
        BY <1>0, <2>3 DEF TypeOK, Goto
      <3>2. Holds(p)'
        BY <1>2, <1>3, <2>1, <2>3, <3>1
           DEF Holds, Inside, Locked, Listening, Works, CriticalPlaces, ServingPlaces
      <3> QED
        BY <1>2, <1>3, <2>2, <2>3, <3>2, InsideWrites DEF CriticalPlaces
    <2>4. CASE Bind(p)
      <3>1. \E place \in {"unbind", "release", "boot"} :
              /\ Goto(p, place) /\ working' = working
              /\ place # "unbind" => p \in bound'
              /\ place = "boot" => p \notin Strict
        BY <2>4 DEF Bind
      <3>2. pc[p] = "bind" /\ (p \in working => p \in Strict)
        BY <1>0, <2>4 DEF Bind, Holds
      <3> QED
        BY <2>3, <3>1, <3>2
    <2>5. CASE Boot(p) \/ BootFails(p)
      <3>1. \E place \in {"unbind", "release", "bind"} :
              /\ Goto(p, place) /\ bound' = bound
              /\ place = "release" => p \in bound
              /\ place = "bind" => p \in Strict
        BY <1>0, <2>5 DEF Boot, BootFails, Holds
      <3> QED
        BY <2>3, <3>1
    <2> QED
      BY <1>6, <2>4, <2>5
  <1> QED
    BY <1>4, <1>5, <1>6

\* The mutex is given back: the launch serves, or exits.
LEMMA ReleaseKeepsFiles ==
  ASSUME TypeInv, FilesHold, NEW p \in Procs, ReleaseMutex(p) \/ UnlinkSentinel(p)
  PROVE  FilesHold'
  <1>0. TypeOK /\ Holds(p) /\ NoProc \notin Procs
    BY ProcsAssumption DEF TypeInv, FilesHold
  <1>1. pc[p] \in {"release", "leave", "releaseUnlink", "leaveUnlink"} /\ pc[p] \in CriticalPlaces
    BY DEF ReleaseMutex, UnlinkSentinel, CriticalPlaces
  <1>2. sentinel.by = p /\ sentinel.written /\ \A q \in Procs \ {p} : pc[q] \notin Inside
    BY <1>0, <1>1, Alone DEF Holds, Inside
  <1>3. UNCHANGED <<wedged, recycled, lock, seen>>
    BY DEF ReleaseMutex, UnlinkSentinel, LifeVars
  <1>4. CASE ReleaseMutex(p)
    <2>1. /\ UNCHANGED <<sentinel, bound, working>>
          /\ Goto(p, IF pc[p] = "release" THEN "releaseUnlink" ELSE "leaveUnlink")
      BY <1>2, <1>4 DEF ReleaseMutex, HolderIn
    <2>2. CASE pc[p] = "release"
      <3>1. Holds(p)'
        BY <1>0, <1>2, <1>3, <2>1, <2>2
           DEF Holds, Goto, TypeOK, Inside, Locked, Listening, Works, CriticalPlaces, ServingPlaces
      <3> QED
        BY <1>1, <1>3, <2>1, <2>2, <3>1, InsideWrites DEF CriticalPlaces
    <2>3. CASE pc[p] = "leave"
      BY <1>1, <1>3, <1>4, <2>1, <2>3, InsideMoves DEF CriticalPlaces, Locked, Works, ServingPlaces
    <2> QED
      BY <1>4, <2>2, <2>3 DEF ReleaseMutex
  <1>5. CASE UnlinkSentinel(p)
    <2>1. /\ sentinel' = NoFile
          /\ \/ pc[p] = "releaseUnlink" /\ Goto(p, "serving") /\ UNCHANGED <<bound, working>>
             \/ pc[p] = "leaveUnlink" /\ Goto(p, "dead") /\ bound' = bound \ {p} /\ working' = working \ {p}
      BY <1>5 DEF UnlinkSentinel, ServeOrExit
    <2>2. Holds(p)' /\ \A q \in Procs : TurnedAway(p, q)' /\ TurnedAway(q, p)'
      <3>1. CASE pc[p] = "releaseUnlink"
        <4>1. Goto(p, "serving") /\ UNCHANGED <<bound, working>>
          BY <2>1, <3>1
        <4>2. Holds(p)'
          BY <1>0, <1>3, <3>1, <4>1
             DEF Holds, Goto, TypeOK, Inside, Locked, Listening, Works, CriticalPlaces, ServingPlaces
        <4>3. pc'[p] \notin CriticalPlaces /\ \A q \in Procs \ {p} : pc'[q] \notin CriticalPlaces
          BY <1>0, <1>2, <4>1 DEF Goto, TypeOK, CriticalPlaces, Inside
        <4> QED
          BY <4>2, <4>3 DEF TurnedAway
      <3>2. CASE pc[p] = "leaveUnlink"
        BY <2>1, <3>2, StepsBack
      <3> QED
        BY <2>1, <3>1, <3>2
    <2>3. \A q \in Procs \ {p} : (pc[q] = "fillLock" => lock'.by = q) /\ (pc[q] \in Locked => lock'.by = q /\ lock'.written)
      BY <1>3 DEF FilesHold, Holds
    <2>4. wedged' = {} /\ CriticalPlaces \subseteq Inside /\ pc[p] # "dead"
      BY <1>1, <1>3 DEF FilesHold, Inside
    <2>5. \E place \in Places \ {"off"} : Goto(p, place)
      BY <2>1 DEF Places, ServingPlaces
    <2>6. \A q \in Procs \ {p} : (q \in bound' <=> q \in bound) /\ (q \in working' <=> q \in working)
      BY <2>1
    <2> QED
      BY <1>2, <1>3, <2>1, <2>2, <2>3, <2>4, <2>5, <2>6, Keeps
  <1> QED
    BY <1>4, <1>5

\* A launch that stops writing: its files may stay, and no other one's is touched.
LEMMA EndKeepsFiles ==
  ASSUME TypeInv, FilesHold, NEW p \in Procs, robbed' = {},
         \/ HandleSignal(p) \/ StopWorker(p) \/ CloseDatabase(p) \/ UnlinkAtExit(p)
         \/ KilledBySignal(p) \/ crashExit(p) \/ Crash(p)
  PROVE  FilesHold'
  <1>0. TypeOK /\ Holds(p) /\ NoProc \notin Procs
    BY ProcsAssumption DEF TypeInv, FilesHold
  <1>1. \A q \in Procs \ {p} : /\ pc[q] \in Inside => sentinel.by = q
                               /\ pc[q] \in CriticalPlaces => sentinel.written
                               /\ pc[q] = "fillLock" => lock.by = q
                               /\ pc[q] \in Locked => lock.by = q /\ lock.written
    BY DEF FilesHold, Holds
  <1>2. wedged = {} /\ pc[p] # "dead"
    BY DEF FilesHold, HandleSignal, StopWorker, CloseDatabase, UnlinkAtExit, KilledBySignal, crashExit,
           Crash, Alive, ServingPlaces
  <1>3. CASE HandleSignal(p)
    <2>1. /\ pc[p] = "serving" /\ Goto(p, "shutdown")
          /\ UNCHANGED <<wedged, recycled, sentinel, lock, bound, working, seen>>
      BY <1>3 DEF HandleSignal, OnlyPc, ProcVars, LifeVars
    <2>2. pc'[p] = "shutdown" /\ \A q \in Procs \ {p} : pc'[q] = pc[q]
      BY <1>0, <2>1 DEF Goto, TypeOK
    <2>3. Holds(p)'
      BY <1>0, <2>1, <2>2 DEF Holds, Inside, Locked, Listening, Works, CriticalPlaces, ServingPlaces
    <2>4. ASSUME NEW q \in Procs PROVE TurnedAway(p, q)' /\ TurnedAway(q, p)'
      <3>1. TurnedAway(p, q) /\ TurnedAway(q, p)
        BY DEF FilesHold
      <3> QED
        BY <2>1, <2>2, <3>1 DEF TurnedAway, CriticalPlaces, ServingPlaces
    <2> QED
      BY <1>2, <2>1, <2>3, <2>4, MovesOn DEF Places, ServingPlaces
  <1>4. ASSUME NEW place \in {"closing", "exitUnlink", "dead"}, Goto(p, place),
               working' = working \ {p}, bound' \in {bound, bound \ {p}}, wedged' = {},
               UNCHANGED <<recycled, sentinel, seen>>,
               lock' = lock \/ \A q \in Procs \ {p} : pc[q] \notin Locked /\ pc[q] # "fillLock"
        PROVE  FilesHold'
    <2>1. Holds(p)' /\ \A q \in Procs : TurnedAway(p, q)' /\ TurnedAway(q, p)'
      BY <1>4, StepsBack
    <2>2. place \in Places \ {"off"}
      BY DEF Places, ClosingPlaces
    <2>3. \A q \in Procs \ {p} : (q \in bound' <=> q \in bound) /\ (q \in working' <=> q \in working)
      BY <1>4
    <2> QED
      BY <1>1, <1>2, <1>4, <2>1, <2>2, <2>3, Keeps
  <1>5. CASE StopWorker(p) \/ CloseDatabase(p) \/ crashExit(p)
    <2>1. /\ UNCHANGED <<wedged, recycled, sentinel, lock, seen>>
          /\ \E place \in {"closing", "exitUnlink", "dead"} :
               Goto(p, place) /\ working' = working \ {p} /\ bound' \in {bound, bound \ {p}}
      BY <1>5 DEF StopWorker, CloseDatabase, crashExit, ReleaseLock, Exits, LifeVars
    <2> QED
      BY <1>2, <1>4, <2>1
  <1>6. CASE UnlinkAtExit(p)
    <2>1. /\ Goto(p, "dead") /\ working' = working \ {p} /\ bound' = bound \ {p}
          /\ UNCHANGED <<wedged, recycled, sentinel, seen>>
          /\ lock = NoFile \/ lock.by = p \/ ~ Alive(lock.by)
      BY <1>6 DEF UnlinkAtExit, UnlinkLock, Exits, Robs, LifeVars
    <2>2. \A q \in Procs \ {p} : lock.by = q => pc[q] \notin Locked /\ pc[q] # "fillLock"
      BY <1>0, <2>1 DEF NoFile, Alive, Locked, ServingPlaces
    <2>3. \A q \in Procs \ {p} : pc[q] \notin Locked /\ pc[q] # "fillLock"
      BY <1>1, <2>2
    <2> QED
      BY <1>2, <1>4, <2>1, <2>3
  <1>7. CASE KilledBySignal(p) \/ Crash(p)
    <2>1. /\ Goto(p, "dead") /\ working' = working \ {p} /\ bound' = bound \ {p}
          /\ wedged' = wedged \ {p} /\ UNCHANGED <<recycled, sentinel, lock, seen>>
      BY <1>7 DEF KilledBySignal, Crash, Vanish, Exits
    <2> QED
      BY <1>2, <1>4, <2>1
  <1> QED
    BY <1>3, <1>5, <1>6, <1>7

\* No robbery is forgotten, and no hang.
LEMMA HistoryGrows == ASSUME TypeInv, [Next]_vars PROVE robbed \subseteq robbed' /\ wedges <= wedges'
  <1>0. wedges \in Nat
    BY ProcsAssumption DEF TypeInv, TypeOK
  <1>1. \A file, checked : Robs(file, checked) => robbed \subseteq robbed'
    BY DEF Robs
  <1>2. ASSUME NEW p \in Procs, Acquire(p) \/ EndsOnSignal(p) PROVE robbed \subseteq robbed' /\ UNCHANGED wedges
    <2>1. CASE StealSentinel(p) \/ UnlinkStaleLock(p) \/ UnbindUnlink(p) \/ UnlinkSentinel(p) \/ UnlinkAtExit(p)
      BY <1>1, <2>1 DEF StealSentinel, UnlinkStaleLock, UnbindUnlink, UnlinkSentinel, UnlinkAtExit, UnlinkLock,
                        ProcVars, LifeVars
    <2>2. CASE ~ (StealSentinel(p) \/ UnlinkStaleLock(p) \/ UnbindUnlink(p) \/ UnlinkSentinel(p) \/ UnlinkAtExit(p))
      BY <1>2, <2>2
         DEF Acquire, EndsOnSignal, CreateSentinel, WriteSentinel, ReadSentinel, CheckSentinelHolder, Decide,
             Probe, Grace, ReadHolderToStop, StopHolder, WaitForStop, CheckStaleLock, PortCheck, WriteLock,
             FillLock, Bind, Boot, BootFails, Unbind, ReleaseMutex, HandleSignal, StopWorker, CloseDatabase,
             KilledBySignal, Vanish, OnlyPc, ProcVars, LifeVars
    <2> QED
      BY <2>1, <2>2
  <1>3. ASSUME NEW p \in Procs,
               \/ Launch(p) \/ Terminate(p) \/ crashExit(p) \/ Crash(p) \/ Wedge(p) \/ Unwedge(p)
               \/ GraceOver(p) \/ Recycle(p)
        PROVE  robbed' = robbed /\ wedges' \in {wedges, wedges + 1}
    BY <1>3 DEF Launch, Terminate, crashExit, Crash, Vanish, Wedge, Unwedge, GraceOver, Recycle, OnlyPc,
                ProcVars, LifeVars, FileVars
  <1>4. CASE UNCHANGED vars
    BY <1>0, <1>4 DEF vars
  <1> QED
    BY <1>0, <1>2, <1>3, <1>4 DEF Next

\* Each step keeps the files, unless it robs a launch or hangs it.
LEMMA StepKeepsFiles == ASSUME TypeInv, FilesInv, [Next]_vars PROVE FilesInv'
  <1> SUFFICES ASSUME robbed' = {}, wedges' = 0 PROVE FilesHold'
    BY DEF FilesInv
  <1>1. FilesHold
    <2>1. wedges \in Nat
      BY ProcsAssumption DEF TypeInv, TypeOK
    <2> QED
      BY <2>1, HistoryGrows DEF FilesInv
  <1>2. ASSUME NEW p \in Procs, Acquire(p) \/ Launch(p) PROVE FilesHold'
    BY <1>1, <1>2, AcquireKeepsFiles, DecisionKeepsFiles, BootKeepsFiles, ReleaseKeepsFiles DEF Acquire
  <1>3. ASSUME NEW p \in Procs, EndsOnSignal(p) \/ crashExit(p) \/ Crash(p) PROVE FilesHold'
    BY <1>1, <1>3, EndKeepsFiles DEF EndsOnSignal
  <1>4. ASSUME UNCHANGED <<pc, sentinel, lock, seen, bound, working>>, wedged' = {},
               \A q \in recycled' : pc[q] = "dead"
        PROVE  FilesHold'
    BY <1>1, <1>4 DEF FilesHold, Holds, TurnedAway
  <1>5. ASSUME NEW p \in Procs, Terminate(p) \/ Unwedge(p) \/ GraceOver(p) \/ Recycle(p) PROVE FilesHold'
    <2>1. UNCHANGED <<pc, sentinel, lock, seen, bound, working>>
      BY <1>5 DEF Terminate, Unwedge, GraceOver, Recycle, FileVars
    <2>2. wedged' = {} /\ \A q \in recycled' : pc[q] = "dead"
      BY <1>1, <1>5 DEF Terminate, Unwedge, GraceOver, Recycle, FilesHold
    <2> QED
      BY <1>4, <2>1, <2>2
  <1>6. ASSUME NEW p \in Procs, Wedge(p) PROVE FALSE
    <2>1. wedges \in Nat /\ wedges' = wedges + 1
      BY <1>6, ProcsAssumption DEF Wedge, TypeInv, TypeOK
    <2> QED
      BY <2>1
  <1>7. CASE UNCHANGED vars
    BY <1>1, <1>4, <1>7 DEF vars, LifeVars, FilesHold
  <1> QED
    BY <1>2, <1>3, <1>5, <1>6, <1>7 DEF Next

\* instance-lock.ts protects the data directory, "not just the TCP port": whatever the ports and
\* whichever launches are strict, the files alone keep a second worker off it, as long as no
\* launch unlinks a file of a live one that it has not checked and no event loop hangs.
THEOREM FilesKeepWriters == Spec => []FilesKeepOneWriter
  <1>1. Init => TypeInv /\ FilesInv
    <2>1. Init => TypeInv
      BY ProcsAssumption DEF Init, TypeInv, TypeOK, NoFile, Places
    <2>2. Init => FilesHold
      BY DEF Init, FilesHold, Holds, TurnedAway, Inside, Locked, Listening, CriticalPlaces, ServingPlaces
    <2> QED
      BY <2>1, <2>2 DEF FilesInv
  <1>2. TypeInv /\ FilesInv /\ [Next]_vars => TypeInv' /\ FilesInv'
    BY StepKeepsTypes, StepKeepsFiles
  <1>3. TypeInv /\ FilesInv => FilesKeepOneWriter
    BY OneWriter DEF FilesInv, FilesKeepOneWriter
  <1> QED
    BY <1>1, <1>2, <1>3, PTL DEF Spec
===============================================================================
