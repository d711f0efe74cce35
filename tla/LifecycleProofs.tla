--------------------------- MODULE LifecycleProofs ---------------------------
(***************************************************************************)
(* Proofs about Lifecycle: one poller per state directory, and a PID file  *)
(* that names the polling daemon, for any number of processes, shells and  *)
(* faults.                                                                 *)
(***************************************************************************)
EXTENDS Lifecycle, TLAPS

Inv == TypeOK /\ LockInv /\ PidInv

\* Tail of a non-empty sequence is one.
LEMMA TailType ==
  ASSUME NEW S, NEW q \in Seq(S), q # <<>>
  PROVE  Tail(q) \in Seq(S)
  OBVIOUS

\* A process that goes away takes its lock with it and leaves the rest alone.
LEMMA ExitInv ==
  ASSUME Inv, NEW p \in Pids, Exit(p), UNCHANGED <<pidfile, todo>>,
         faults' \in 0..MaxFaults,
         \/ Release(p)
         \/ pc[p] \notin HoldingSteps /\ lock' = lock
  PROVE  Inv'
  <1> USE DEF Inv
  <1>1. TypeOK'
    BY LifecycleAssumption DEF TypeOK, Exit, Release
  <1>2. LockInv'
    <2>1. ASSUME NEW q \in Pids, pc'[q] \in HoldingSteps
          PROVE  lock'[dir'[q]] = q
      <3>1. q # p /\ pc[q] \in HoldingSteps /\ dir'[q] = dir[q]
        BY <2>1 DEF TypeOK, Exit, HoldingSteps, LockedDaemonSteps
      <3>2. lock[dir[q]] = q
        BY <3>1 DEF LockInv
      <3> QED  BY <3>1, <3>2 DEF TypeOK, Release
    <2>2. ASSUME NEW d \in Dirs, lock'[d] \in Pids
          PROVE  pc'[lock'[d]] \in HoldingSteps /\ dir'[lock'[d]] = d
      <3>1. lock'[d] = lock[d]
        BY <2>2, LifecycleAssumption DEF TypeOK, Release
      <3>2. pc[lock[d]] \in HoldingSteps /\ dir[lock[d]] = d
        BY <2>2, <3>1 DEF LockInv
      <3>3. lock[d] # p
        BY <2>2, <3>1, <3>2, LifecycleAssumption DEF TypeOK, Release
      <3> QED  BY <2>2, <3>1, <3>2, <3>3 DEF TypeOK, Exit
    <2> QED  BY <2>1, <2>2 DEF LockInv
  <1>3. PidInv'
    BY DEF TypeOK, Exit, PidInv
  <1> QED  BY <1>1, <1>2, <1>3

\* A step of the holder within its critical section.
LEMMA HolderInv ==
  ASSUME Inv, NEW p \in Pids, NEW s \in HoldingSteps, pc[p] \in HoldingSteps,
         Goto(p, s), UNCHANGED <<lock, todo, faults>>,
         NEW c \in Pids \cup {Missing, Empty}, pidfile' = [pidfile EXCEPT ![dir[p]] = c],
         s \in {"daemon_notify", "daemon_run", "daemon_unhook", "daemon_remove"} => c = p
  PROVE  Inv'
  <1> USE DEF Inv
  <1>1. TypeOK'
    BY DEF TypeOK, Goto, HoldingSteps, LockedDaemonSteps, DaemonSteps, StartSteps, StopSteps
  <1>2. LockInv'
    BY DEF TypeOK, Goto, LockInv
  <1>3. PidInv'
    <2> SUFFICES ASSUME NEW q \in Pids,
                        pc'[q] \in {"daemon_notify", "daemon_run", "daemon_unhook", "daemon_remove"}
                 PROVE  pidfile'[dir'[q]] = q
      BY DEF PidInv
    <2>1. CASE q = p
      BY <2>1 DEF TypeOK, Goto
    <2>2. CASE q # p
      <3>1. pc[q] \in HoldingSteps /\ pidfile[dir[q]] = q
        BY <2>2 DEF TypeOK, Goto, PidInv, HoldingSteps, LockedDaemonSteps
      <3>2. dir[q] # dir[p]
        BY <2>2, <3>1 DEF LockInv
      <3> QED  BY <3>1, <3>2 DEF TypeOK, Goto
    <2> QED  BY <2>1, <2>2
  <1> QED  BY <1>1, <1>2, <1>3

\* A step of a process outside any critical section.
LEMMA OutsideInv ==
  ASSUME Inv, NEW p \in Pids,
         NEW s \in {"start_spawn", "stop_read", "stop_signal", "unrelated"},
         pc[p] \notin HoldingSteps, pc' = [pc EXCEPT ![p] = s],
         NEW t \in Pids \cup {Nobody}, target' = [target EXCEPT ![p] = t],
         s = "stop_signal" => t \in Pids,
         UNCHANGED <<dir, signalled, job, lock, pidfile, todo, faults>>
  PROVE  Inv'
  <1> USE DEF Inv
  <1>1. TypeOK'
    BY DEF TypeOK, StartSteps, StopSteps
  <1>2. LockInv'
    BY DEF TypeOK, LockInv, HoldingSteps, LockedDaemonSteps
  <1>3. PidInv'
    BY DEF TypeOK, PidInv
  <1> QED  BY <1>1, <1>2, <1>3

\* A successful flock.
LEMMA AcquireInv ==
  ASSUME Inv, NEW p \in Pids,
         NEW from \in {"start_probe", "stop_probe", "daemon_lock"},
         NEW to \in {"start_release", "stop_release", "daemon_truncate"},
         Acquire(p, from, to)
  PROVE  Inv'
  <1> USE DEF Inv, Acquire, Goto
  <1>1. TypeOK'
    BY DEF TypeOK, StartSteps, StopSteps, DaemonSteps, LockedDaemonSteps
  <1>2. LockInv'
    BY LifecycleAssumption DEF TypeOK, LockInv, LockFree, HoldingSteps, LockedDaemonSteps
  <1>3. PidInv'
    BY DEF TypeOK, PidInv
  <1> QED  BY <1>1, <1>2, <1>3

\* Two processes vanish at once: a stop, and the process that dies of its signal.
LEMMA SignalInv ==
  ASSUME Inv, NEW p \in Pids, StopSignal(p)
  PROVE  Inv'
  <1> USE DEF Inv
  <1> DEFINE q    == target[p]
             dead == IF pc[q] = "free" \/ Handles(q) THEN {p} ELSE {p, q}
  <1>1. /\ pc' = [r \in Pids |-> IF r \in dead THEN "free" ELSE pc[r]]
        /\ target' = [r \in Pids |-> IF r \in dead THEN Nobody ELSE target[r]]
        /\ signalled' = [r \in Pids |-> IF r \in dead THEN FALSE
                                        ELSE signalled[r] \/ (r = q /\ Handles(q))]
        /\ job' = [s \in Shells |-> IF job[s] \in dead THEN Nobody ELSE job[s]]
        /\ lock' = [d \in Dirs |-> IF lock[d] \in dead THEN Nobody ELSE lock[d]]
        /\ UNCHANGED <<dir, pidfile, todo, faults>>
    BY DEF StopSignal
  <1> HIDE DEF dead, q
  <1>2. TypeOK'
    <2>1. signalled' \in [Pids -> BOOLEAN]
      BY <1>1
    <2> QED  BY <1>1, <2>1, LifecycleAssumption DEF TypeOK
  <1>3. LockInv'
    <2>1. ASSUME NEW r \in Pids, pc'[r] \in HoldingSteps
          PROVE  lock'[dir'[r]] = r
      <3>1. r \notin dead /\ pc[r] \in HoldingSteps /\ dir'[r] = dir[r]
        BY <1>1, <2>1 DEF HoldingSteps, LockedDaemonSteps
      <3>2. lock[dir[r]] = r
        BY <3>1 DEF LockInv
      <3> QED  BY <1>1, <3>1, <3>2 DEF TypeOK
    <2>2. ASSUME NEW d \in Dirs, lock'[d] \in Pids
          PROVE  pc'[lock'[d]] \in HoldingSteps /\ dir'[lock'[d]] = d
      <3>1. lock'[d] = lock[d] /\ lock[d] \notin dead
        BY <1>1, <2>2, LifecycleAssumption
      <3>2. pc[lock[d]] \in HoldingSteps /\ dir[lock[d]] = d
        BY <2>2, <3>1 DEF LockInv
      <3> QED  BY <1>1, <2>2, <3>1, <3>2
    <2> QED  BY <2>1, <2>2 DEF LockInv
  <1>4. PidInv'
    BY <1>1 DEF PidInv
  <1> QED  BY <1>2, <1>3, <1>4

\* The lock belongs to one process per directory and the PID file to that
\* process, at every step of every process.
THEOREM LockAndPidFile == Spec => []Inv
  <1>1. Init => Inv
    BY LifecycleAssumption DEF Init, Inv, TypeOK, LockInv, PidInv, HoldingSteps, LockedDaemonSteps
  <1>2. Inv /\ [Next]_vars => Inv'
    <2> SUFFICES ASSUME Inv, [Next]_vars PROVE Inv'
      OBVIOUS
    <2> USE DEF Inv
    <2>1. CASE \E s \in Shells : Launch(s)
      <3>1. PICK s \in Shells, p \in Free :
               /\ pc' = [pc EXCEPT ![p] = IF Head(todo[s]) = "start" THEN "start_probe"
                                          ELSE "stop_probe"]
               /\ dir' = [dir EXCEPT ![p] = DirOf[s]]
               /\ job' = [job EXCEPT ![s] = p]
               /\ todo[s] # <<>>
               /\ todo' = [todo EXCEPT ![s] = Tail(todo[s])]
               /\ UNCHANGED <<target, signalled, lock, pidfile, faults>>
        BY <2>1 DEF Launch
      <3>2. p \in Pids /\ pc[p] = "free"
        BY DEF Free
      <3>3. Tail(todo[s]) \in Seq({"start", "stop"})
        BY <3>1, TailType DEF TypeOK
      <3>4. TypeOK'
        BY <3>1, <3>2, <3>3, LifecycleAssumption DEF TypeOK, StartSteps, StopSteps
      <3>5. LockInv'
        BY <3>1, <3>2 DEF TypeOK, LockInv, HoldingSteps, LockedDaemonSteps
      <3>6. PidInv'
        BY <3>1, <3>2 DEF TypeOK, PidInv
      <3> QED  BY <3>4, <3>5, <3>6
    <2>2. ASSUME NEW p \in Pids, StartSpawn(p)
          PROVE  Inv'
      <3>1. PICK q \in Free :
               /\ pc' = [pc EXCEPT ![p] = "start_exit", ![q] = "daemon_lock"]
               /\ dir' = [dir EXCEPT ![q] = dir[p]]
        BY <2>2 DEF StartSpawn
      <3>2. /\ q \in Pids /\ q # p /\ pc[p] = "start_spawn" /\ pc[q] = "free"
            /\ UNCHANGED <<target, signalled, job, lock, pidfile, todo, faults>>
        BY <2>2 DEF StartSpawn, Free
      <3>3. pc' \in [Pids -> {"free", "unrelated"} \cup StartSteps \cup StopSteps \cup DaemonSteps]
        BY <3>1, <3>2 DEF TypeOK, StartSteps, DaemonSteps
      <3>4. TypeOK'
        BY <3>1, <3>2, <3>3 DEF TypeOK
      <3>5. LockInv'
        BY <3>1, <3>2 DEF TypeOK, LockInv, HoldingSteps, LockedDaemonSteps
      <3>6. PidInv'
        BY <3>1, <3>2 DEF TypeOK, PidInv
      <3> QED  BY <3>4, <3>5, <3>6
    <2>3. ASSUME NEW p \in Pids, StartProbe(p) \/ StopProbe(p) \/ DaemonLock(p)
          PROVE  Inv'
      BY <2>3, AcquireInv DEF StartProbe, StopProbe, DaemonLock
    <2>4. ASSUME NEW p \in Pids,
                 \/ StartAlreadyRunning(p) \/ DaemonStepsAside(p) \/ StopReadFails(p)
                 \/ UnrelatedEnds(p)
          PROVE  Inv'
      BY <2>4, ExitInv DEF StartAlreadyRunning, DaemonStepsAside, StepAside, StopReadFails,
                           UnrelatedEnds, HoldingSteps, LockedDaemonSteps, TypeOK
    <2>5. ASSUME NEW p \in Pids,
                 \/ StartExit(p) \/ StopRelease(p) \/ DaemonUnlock(p)
                 \/ Fails(p) \/ Crash(p)
          PROVE  Inv'
      <3>1. faults' \in 0..MaxFaults
        BY <2>5, LifecycleAssumption DEF StartExit, StopRelease, DaemonUnlock, Fails, Crash, TypeOK
      <3> QED  BY <2>5, <3>1, ExitInv DEF StartExit, StopRelease, DaemonUnlock, Fails, Crash
    <2>6. ASSUME NEW p \in Pids, StartRelease(p)
          PROVE  Inv'
      <3> USE <2>6 DEF StartRelease, Goto
      <3>1. TypeOK'
        BY LifecycleAssumption DEF TypeOK, Release, StartSteps
      <3>2. LockInv'
        <4>1. ASSUME NEW q \in Pids, pc'[q] \in HoldingSteps
              PROVE  lock'[dir'[q]] = q
          <5>1. q # p /\ pc[q] \in HoldingSteps
            BY <4>1 DEF TypeOK, HoldingSteps, LockedDaemonSteps
          <5> QED  BY <5>1 DEF TypeOK, LockInv, Release
        <4>2. ASSUME NEW d \in Dirs, lock'[d] \in Pids
              PROVE  pc'[lock'[d]] \in HoldingSteps /\ dir'[lock'[d]] = d
          <5>1. lock'[d] = lock[d] /\ lock[d] # p
            BY <4>2, LifecycleAssumption DEF TypeOK, Release
          <5> QED  BY <4>2, <5>1 DEF TypeOK, LockInv
        <4> QED  BY <4>1, <4>2 DEF LockInv
      <3>3. PidInv'
        BY DEF TypeOK, PidInv
      <3> QED  BY <3>1, <3>2, <3>3
    <2>7. ASSUME NEW p \in Pids, DaemonTruncate(p) \/ DaemonWrite(p) \/ DaemonRemove(p)
          PROVE  Inv'
      BY <2>7, HolderInv DEF DaemonTruncate, DaemonWrite, DaemonRemove, WritesPid,
                             HoldingSteps, LockedDaemonSteps
    <2>8. ASSUME NEW p \in Pids, DaemonNotify(p) \/ DaemonRunReturns(p) \/ DaemonUnhook(p)
          PROVE  Inv'
      <3>1. pidfile[dir[p]] = p
        BY <2>8 DEF DaemonNotify, DaemonRunReturns, DaemonUnhook, DaemonStep, PidInv
      <3>2. pidfile' = [pidfile EXCEPT ![dir[p]] = p]
        BY <2>8, <3>1 DEF DaemonNotify, DaemonRunReturns, DaemonUnhook, DaemonStep, TypeOK
      <3> QED  BY <2>8, <3>2, HolderInv DEF DaemonNotify, DaemonRunReturns, DaemonUnhook,
                  DaemonStep, HoldingSteps, LockedDaemonSteps
    <2>9. ASSUME NEW p \in Pids, StopFindsLockHeld(p) \/ UnrelatedStarts(p)
          PROVE  Inv'
      <3>1. target[p] \in Pids \cup {Nobody} /\ target' = [target EXCEPT ![p] = target[p]]
        BY <2>9 DEF StopFindsLockHeld, UnrelatedStarts, Goto, TypeOK
      <3> QED  BY <2>9, <3>1, OutsideInv DEF StopFindsLockHeld, UnrelatedStarts, Goto, Free,
                  HoldingSteps, LockedDaemonSteps
    <2>10. ASSUME NEW p \in Pids, StopRead(p)
           PROVE  Inv'
      BY <2>10, OutsideInv DEF StopRead, HoldingSteps, LockedDaemonSteps
    <2>11. ASSUME NEW p \in Pids, StopSignal(p)
           PROVE  Inv'
      BY <2>11, SignalInv
    <2>12. CASE UNCHANGED vars
      BY <2>12 DEF vars, TypeOK, LockInv, PidInv
    <2>13. ASSUME NEW p \in Pids, DaemonRemoveFails(p)
           PROVE  Inv'
      <3> USE <2>13 DEF DaemonRemoveFails, Goto
      <3>1. TypeOK'
        BY LifecycleAssumption DEF TypeOK, DaemonSteps, LockedDaemonSteps
      <3>2. LockInv'
        BY DEF TypeOK, LockInv, HoldingSteps, LockedDaemonSteps
      <3>3. PidInv'
        BY DEF TypeOK, PidInv
      <3> QED  BY <3>1, <3>2, <3>3
    <2> QED  BY <2>1, <2>2, <2>3, <2>4, <2>5, <2>6, <2>7, <2>8, <2>9, <2>10, <2>11, <2>12, <2>13
                DEF Next, Step, Start, Stop, RunDaemon
  <1> QED  BY <1>1, <1>2, PTL DEF Spec

\* Every variable keeps to its domain; in particular a stop that is about to
\* signal has read a PID (main.go:248-262).
THEOREM LifecycleTypes == Spec => []TypeOK
  <1>1. Inv => TypeOK
    BY DEF Inv
  <1> QED  BY <1>1, LockAndPidFile, PTL

\* Two daemons of one state directory never poll at the same time, for any
\* number of processes, commands, crashes and recycled PIDs (main.go:107-110).
THEOREM MutualExclusion == Spec => []OnePoller
  <1>1. Inv => OnePoller
    BY DEF Inv, LockInv, OnePoller, Polling, HoldingSteps, LockedDaemonSteps
  <1> QED  BY <1>1, LockAndPidFile, PTL

\* The PID file names the daemon from its first poll until it removes the file
\* (main.go:120-131).
THEOREM PidFileIsTrue == Spec => []PidFileNamesDaemon
  <1>1. Inv => PidFileNamesDaemon
    BY DEF Inv, PidInv, PidFileNamesDaemon
  <1> QED  BY <1>1, LockAndPidFile, PTL

-----------------------------------------------------------------------------
(* Starts are not lost *)

ComingSteps ==
    {"start_probe", "start_release", "start_spawn", "daemon_lock", "daemon_truncate",
     "daemon_write", "daemon_notify", "daemon_run"}

\* p is on its way to poll in d.
Comes(p, d) ==
    p \in Pids /\ dir[p] = d /\ pc[p] \in ComingSteps /\ (Polling(p) => ~signalled[p])

\* Whoever steps aside for a holder that is not ending leaves one who comes.
LEMMA StepAsideLeavesOne ==
  ASSUME Inv, NEW p \in Pids, NEW from \in {"start_probe", "daemon_lock"}, StepAside(p, from),
         NEW d, dir[p] = d
  PROVE  Ending(d) \/ \E q \in Pids : Comes(q, d)'
  <1> PICK q : q = lock[d]
    OBVIOUS
  <1>1. q \in Pids /\ pc[q] \in HoldingSteps /\ dir[q] = d
    BY DEF StepAside, LockFree, Inv, TypeOK, LockInv
  <1>2. q # p
    BY <1>1 DEF StepAside, HoldingSteps, LockedDaemonSteps
  <1>3. pc'[q] = pc[q] /\ dir' = dir /\ signalled'[q] = signalled[q]
    BY <1>1, <1>2 DEF StepAside, Exit, Inv, TypeOK
  <1> QED  BY <1>1, <1>3 DEF Ending, Comes, Polling, ComingSteps, HoldingSteps, LockedDaemonSteps

\* Only a daemon that has called NotifyContext remembers a signal.
SignalledInv ==
    \A p \in Pids : signalled[p] =>
        pc[p] \in {"daemon_run", "daemon_unhook", "daemon_remove", "daemon_unlock"}

LEMMA SignalsAreHandled == Spec => []SignalledInv
  <1>1. Init => SignalledInv
    BY DEF Init, SignalledInv
  <1>2. TypeOK /\ SignalledInv /\ [Next]_vars => SignalledInv'
    <2> SUFFICES ASSUME TypeOK, SignalledInv, [Next]_vars PROVE SignalledInv'
      OBVIOUS
    <2>1. CASE \E s \in Shells : Launch(s)
      BY <2>1 DEF Launch, Free, TypeOK, SignalledInv
    <2>2. ASSUME NEW p \in Pids, Start(p)
          PROVE  SignalledInv'
      BY <2>2 DEF Start, StartProbe, StartAlreadyRunning, StartRelease, StartSpawn, StartExit,
           Acquire, StepAside, Goto, Exit, Free, TypeOK, SignalledInv
    <2>3. ASSUME NEW p \in Pids, Stop(p)
          PROVE  SignalledInv'
      <3>1. CASE StopSignal(p)
        BY <3>1 DEF StopSignal, Handles, SignalledInv
      <3>2. CASE ~StopSignal(p)
        BY <2>3, <3>2 DEF Stop, StopProbe, StopRelease, StopFindsLockHeld, StopRead,
             StopReadFails, Acquire, Goto, Exit, TypeOK, SignalledInv
      <3> QED  BY <3>1, <3>2
    <2>4. ASSUME NEW p \in Pids, RunDaemon(p)
          PROVE  SignalledInv'
      BY <2>4 DEF RunDaemon, DaemonLock, DaemonStepsAside, DaemonTruncate, DaemonWrite,
           DaemonNotify, DaemonRunReturns, DaemonUnhook, DaemonRemove, DaemonUnlock, Acquire,
           StepAside, WritesPid, DaemonStep, Goto, Exit, TypeOK, SignalledInv
    <2>5. ASSUME NEW p \in Pids,
                 \/ Fails(p) \/ DaemonRemoveFails(p) \/ Crash(p)
                 \/ UnrelatedStarts(p) \/ UnrelatedEnds(p)
          PROVE  SignalledInv'
      BY <2>5 DEF Fails, DaemonRemoveFails, Crash, UnrelatedStarts, UnrelatedEnds, Free, Goto, Exit, TypeOK,
           SignalledInv
    <2>6. CASE UNCHANGED vars
      BY <2>6 DEF vars, SignalledInv
    <2> QED  BY <2>1, <2>2, <2>3, <2>4, <2>5, <2>6 DEF Next, Step
  <1> QED  BY <1>1, <1>2, LifecycleTypes, PTL DEF Spec

\* A process that goes on to a step at which it still comes.
LEMMA GoesOnComing ==
  ASSUME Inv, NEW p \in Pids, NEW s, pc' = [pc EXCEPT ![p] = s], UNCHANGED <<dir, signalled>>,
         s \in ComingSteps, s = "daemon_run" => ~signalled[p], NEW d, Comes(p, d)
  PROVE  Comes(p, d)'
  BY DEF Comes, Polling, Inv, TypeOK

\* A start is lost only to a fault, a stop, or a daemon on its way out
\* (main.go:107-118, 135-140).
THEOREM NoStartIsLost == Spec => StartsAreNotLost
  <1>1. Inv /\ SignalledInv /\ [Next]_vars =>
           [\A d \in Dirs : Coming(d) /\ ~Coming(d)' =>
               \/ faults' # faults
               \/ \E p \in Pids : StopSignal(p) /\ dir[target[p]] = d
               \/ Ending(d)]_vars
    <2> SUFFICES ASSUME Inv, SignalledInv, [Next]_vars, NEW d \in Dirs, Coming(d), ~Coming(d)',
                        faults' = faults, ~Ending(d),
                        ~\E q \in Pids : StopSignal(q) /\ dir[target[q]] = d
                 PROVE  FALSE
      OBVIOUS
    <2> USE DEF Inv
    <2>b. /\ \E q \in Pids : Comes(q, d)
          /\ \A q \in Pids : ~Comes(q, d)'
      BY DEF Coming, Comes, ComingSteps
    <2>c. PICK p \in Pids : Comes(p, d)
      BY <2>b
    <2>d. dir[p] = d
      BY <2>c DEF Comes
    <2>0. /\ pc[p] \in ComingSteps /\ ~Comes(p, d)'
          /\ (pc[p] = "daemon_run" => ~signalled[p])
      BY <2>b, <2>c DEF Comes, Polling
    \* As long as p itself stays at its step, it still comes.
    <2>a. ~(pc'[p] = pc[p] /\ dir'[p] = dir[p] /\ (signalled'[p] <=> signalled[p]))
      BY <2>0, <2>d DEF Comes, Polling
    <2>1. CASE \E s \in Shells : Launch(s)
      BY <2>0, <2>1, <2>a DEF Launch, Free, ComingSteps, TypeOK
    <2>2. ASSUME NEW q \in Pids, q # p,
                 \/ StartProbe(q) \/ StartAlreadyRunning(q) \/ StartRelease(q) \/ StartExit(q)
                 \/ StopProbe(q) \/ StopRelease(q) \/ StopFindsLockHeld(q) \/ StopRead(q)
                 \/ StopReadFails(q) \/ RunDaemon(q) \/ UnrelatedStarts(q) \/ UnrelatedEnds(q)
          PROVE  FALSE
      BY <2>2, <2>a DEF StartProbe, StartAlreadyRunning, StartRelease, StartExit, StopProbe,
           StopRelease, StopFindsLockHeld, StopRead, StopReadFails, RunDaemon, DaemonLock,
           DaemonStepsAside, DaemonTruncate, DaemonWrite, DaemonNotify, DaemonRunReturns,
           DaemonUnhook, DaemonRemove, DaemonUnlock, UnrelatedStarts, UnrelatedEnds,
           Acquire, StepAside, WritesPid, DaemonStep, Goto, Exit, TypeOK
    <2>3. ASSUME NEW q \in Pids, StartSpawn(q)
          PROVE  FALSE
      <3>1. PICK c \in Free :
               /\ pc' = [pc EXCEPT ![q] = "start_exit", ![c] = "daemon_lock"]
               /\ dir' = [dir EXCEPT ![c] = dir[q]]
        BY <2>3 DEF StartSpawn
      <3>2. c \in Pids /\ c # p /\ c # q /\ UNCHANGED signalled
        BY <2>0, <2>3 DEF StartSpawn, Free, ComingSteps
      <3>3. CASE q # p
        BY <3>1, <3>2, <3>3, <2>a DEF TypeOK
      <3>4. CASE q = p
        <4>1. Comes(c, d)'
          BY <2>d, <3>1, <3>2, <3>4 DEF Comes, Polling, ComingSteps, TypeOK
        <4> QED  BY <2>b, <3>2, <4>1
      <3> QED  BY <3>3, <3>4
    <2>4. CASE StartAlreadyRunning(p) \/ DaemonStepsAside(p)
      BY <2>4, <2>b, <2>d, StepAsideLeavesOne DEF StartAlreadyRunning, DaemonStepsAside
    <2>5. CASE StartProbe(p) \/ StartRelease(p) \/ DaemonLock(p) \/ DaemonTruncate(p)
               \/ DaemonWrite(p)
      <3>1. \E s \in ComingSteps \ {"daemon_run"} : pc' = [pc EXCEPT ![p] = s]
        BY <2>5 DEF StartProbe, StartRelease, DaemonLock, DaemonTruncate, DaemonWrite,
             Acquire, WritesPid, Goto, ComingSteps
      <3>2. UNCHANGED <<dir, signalled>>
        BY <2>5 DEF StartProbe, StartRelease, DaemonLock, DaemonTruncate, DaemonWrite,
             Acquire, WritesPid, Goto
      <3> QED  BY <2>0, <2>c, <3>1, <3>2, GoesOnComing
    <2>6. CASE DaemonNotify(p)
      <3>1. ~signalled[p]
        BY <2>6 DEF DaemonNotify, DaemonStep, SignalledInv
      <3> QED  BY <2>6, <3>1, <2>0, <2>c, GoesOnComing DEF DaemonNotify, DaemonStep, Goto, ComingSteps
    <2>7. CASE DaemonRunReturns(p)
      BY <2>0, <2>7 DEF DaemonRunReturns, DaemonStep
    <2>8. CASE \/ DaemonUnhook(p) \/ DaemonRemove(p) \/ DaemonUnlock(p) \/ StartExit(p) \/ Stop(p)
               \/ UnrelatedStarts(p) \/ UnrelatedEnds(p)
      BY <2>0, <2>8 DEF DaemonUnhook, DaemonRemove, DaemonUnlock, DaemonStep, WritesPid,
           StartExit, Stop, StopProbe, StopRelease, StopFindsLockHeld, StopRead, StopReadFails,
           StopSignal, Acquire, UnrelatedStarts, UnrelatedEnds, Free, ComingSteps
    <2>9. ASSUME NEW q \in Pids, q # p, StopSignal(q)
          PROVE  FALSE
      <3> DEFINE dead == IF pc[target[q]] = "free" \/ Handles(target[q]) THEN {q}
                         ELSE {q, target[q]}
      <3>1. target[q] # p
        BY <2>9, <2>d
      <3>2. p \notin dead
        BY <2>9, <3>1
      <3>3. /\ pc' = [r \in Pids |-> IF r \in dead THEN "free" ELSE pc[r]]
            /\ signalled' = [r \in Pids |-> IF r \in dead THEN FALSE
                                ELSE signalled[r] \/ (r = target[q] /\ Handles(target[q]))]
            /\ dir' = dir
        BY <2>9 DEF StopSignal
      <3> HIDE DEF dead
      <3>4. pc'[p] = pc[p] /\ (signalled'[p] <=> signalled[p])
        BY <3>1, <3>2, <3>3
      <3> QED  BY <2>a, <3>3, <3>4
    <2>10. CASE UNCHANGED vars
      BY <2>10, <2>a DEF vars
    <2>11. ~\E q \in Pids : Fails(q) \/ DaemonRemoveFails(q) \/ Crash(q)
      BY LifecycleAssumption DEF Fails, DaemonRemoveFails, Crash, TypeOK
    <2> QED  BY <2>1, <2>2, <2>3, <2>4, <2>5, <2>6, <2>7, <2>8, <2>9, <2>10, <2>11
             DEF Next, Step, Start, Stop, RunDaemon
  <1> QED  BY <1>1, LockAndPidFile, SignalsAreHandled, PTL DEF Spec, StartsAreNotLost
=============================================================================
