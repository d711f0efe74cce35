------------------------------ MODULE Lifecycle ------------------------------
(***************************************************************************)
(* cmd/herdr-tokens/main.go: the processes `start`, `stop` and `daemon`,   *)
(* the flock and the PID file they share, signals, and an operating system *)
(* that recycles PIDs and kills processes.  One socket; the lock and the   *)
(* PID file exist once per state directory (stateDir), which a process has *)
(* from its environment and a spawned daemon inherits.                     *)
(*                                                                         *)
(* A process is identified by its PID; a "free" PID is no process.  pc is  *)
(* the step a process is about to take, named after the call.  A daemon's  *)
(* poll loop is the single state daemon_run (TokenSync models it).         *)
(***************************************************************************)
EXTENDS Naturals, Sequences, FiniteSets

CONSTANTS
    Pids,
    Dirs,           \* state directories in use
    Shells,         \* who runs commands: event hooks, plugin actions, terminals
    Scripts,        \* what the shells may run: shell -> its commands, in order
    DirOf,          \* shell -> the state directory of its environment
    Nobody,         \* no process
    Missing, Empty, \* the PID file does not exist, exists without content
    MaxFaults,      \* bound: kill -9 and failing system calls
    MaxUnrelated    \* bound: processes of other programs at a time

ASSUME LifecycleAssumption ==
    /\ Nobody \notin Pids
    /\ Missing \notin Pids /\ Empty \notin Pids /\ Missing # Empty
    /\ MaxFaults \in Nat /\ MaxUnrelated \in Nat
    /\ DirOf \in [Shells -> Dirs]
    /\ Scripts \subseteq [Shells -> Seq({"start", "stop"})]

VARIABLES
    pc,         \* pid -> the step its process is about to take
    dir,        \* pid -> its state directory
    target,     \* pid -> the PID a stop has read
    signalled,  \* pid -> a handled SIGTERM has cancelled the daemon's context
    lock,       \* state directory -> the process that holds daemon.lock
    pidfile,    \* state directory -> content of daemon.pid
    todo,       \* shell -> the commands it has yet to run
    job,        \* shell -> the command it waits for
    faults      \* faults so far

procVars == <<pc, dir, target, signalled>>
vars == <<pc, dir, target, signalled, lock, pidfile, todo, job, faults>>

StartSteps == {"start_probe", "start_release", "start_spawn", "start_exit"}
StopSteps  == {"stop_probe", "stop_release", "stop_read", "stop_signal"}
\* from AcquireLock's success to lock.Close
LockedDaemonSteps ==
    {"daemon_truncate", "daemon_write", "daemon_notify", "daemon_run",
     "daemon_unhook", "daemon_remove", "daemon_unlock"}
DaemonSteps == {"daemon_lock"} \cup LockedDaemonSteps
HoldingSteps == {"start_release", "stop_release"} \cup LockedDaemonSteps

IsDaemon(p) == p \in Pids /\ pc[p] \in DaemonSteps
Polling(p)  == pc[p] = "daemon_run"
Free        == {p \in Pids : pc[p] = "free"}
LockFree(p) == lock[dir[p]] = Nobody

Init ==
    /\ pc = [p \in Pids |-> "free"]
    /\ \E d \in Dirs : dir = [p \in Pids |-> d]
    /\ target = [p \in Pids |-> Nobody]
    /\ signalled = [p \in Pids |-> FALSE]
    /\ lock = [d \in Dirs |-> Nobody]
    /\ pidfile = [d \in Dirs |-> Missing]
    /\ todo \in Scripts
    /\ job = [s \in Shells |-> Nobody]
    /\ faults = 0

-----------------------------------------------------------------------------
(* Processes come and go *)

\* p goes on to step s and nothing else about processes changes.
Goto(p, s) ==
    /\ pc' = [pc EXCEPT ![p] = s]
    /\ UNCHANGED <<dir, target, signalled, job>>

\* p is gone, by exit or by kill; a shell that waited for it goes on.  The PID
\* file is untouched.
Exit(p) ==
    /\ pc' = [pc EXCEPT ![p] = "free"]
    /\ target' = [target EXCEPT ![p] = Nobody]
    /\ signalled' = [signalled EXCEPT ![p] = FALSE]
    /\ job' = [s \in Shells |-> IF job[s] = p THEN Nobody ELSE job[s]]
    /\ UNCHANGED dir

\* The kernel drops the flock with its holder, whatever the holder died of.
Release(p) == lock' = [d \in Dirs |-> IF lock[d] = p THEN Nobody ELSE lock[d]]

Launch(s) ==
    /\ todo[s] # <<>> /\ job[s] = Nobody
    /\ \E p \in Free :
          /\ pc' = [pc EXCEPT ![p] = IF Head(todo[s]) = "start" THEN "start_probe"
                                     ELSE "stop_probe"]
          /\ dir' = [dir EXCEPT ![p] = DirOf[s]]
          /\ job' = [job EXCEPT ![s] = p]
    /\ todo' = [todo EXCEPT ![s] = Tail(todo[s])]
    /\ UNCHANGED <<target, signalled, lock, pidfile, faults>>

-----------------------------------------------------------------------------
(* AcquireLock, and the lock's two other ends *)

\* flock(LOCK_EX|LOCK_NB) succeeds.
Acquire(p, from, to) ==
    /\ pc[p] = from /\ LockFree(p)
    /\ lock' = [lock EXCEPT ![dir[p]] = p]
    /\ Goto(p, to)
    /\ UNCHANGED <<pidfile, todo, faults>>

\* ErrAlreadyRunning: p leaves quietly.
StepAside(p, from) ==
    /\ pc[p] = from /\ ~LockFree(p)
    /\ Exit(p)
    /\ UNCHANGED <<lock, pidfile, todo, faults>>

-----------------------------------------------------------------------------
(* start *)

StartProbe(p) == Acquire(p, "start_probe", "start_release")

StartAlreadyRunning(p) == StepAside(p, "start_probe")

\* mutation: the lock is kept until start itself exits
StartKeepsLock(p) ==
    /\ pc[p] = "start_release"
    /\ Goto(p, "start_spawn")
    /\ UNCHANGED <<lock, pidfile, todo, faults>>

\* lock.Close(), so that the child can win the lock.
StartRelease(p) ==
    /\ pc[p] = "start_release"
    /\ Release(p)
    /\ Goto(p, "start_spawn")
    /\ UNCHANGED <<pidfile, todo, faults>>

\* cmd.Start: the daemon is a process of its own (Setsid) with the same
\* environment.
StartSpawn(p) ==
    /\ pc[p] = "start_spawn"
    /\ \E q \in Free :
          /\ pc' = [pc EXCEPT ![p] = "start_exit", ![q] = "daemon_lock"]
          /\ dir' = [dir EXCEPT ![q] = dir[p]]
    /\ UNCHANGED <<target, signalled, job, lock, pidfile, todo, faults>>

\* start returns without waiting for the daemon.
StartExit(p) ==
    /\ pc[p] = "start_exit"
    /\ Exit(p) /\ Release(p)
    /\ UNCHANGED <<pidfile, todo, faults>>

-----------------------------------------------------------------------------
(* daemon *)

\* mutation: the PID is written before the lock is known to be ours
DaemonStepsAsideAfterWriting(p) ==
    /\ pc[p] = "daemon_lock" /\ ~LockFree(p)
    /\ Exit(p)
    /\ pidfile' = [pidfile EXCEPT ![dir[p]] = p]
    /\ UNCHANGED <<lock, todo, faults>>

\* mutation: ErrAlreadyRunning is not heeded
DaemonGoesOnUnlocked(p) ==
    /\ pc[p] = "daemon_lock" /\ ~LockFree(p)
    /\ Goto(p, "daemon_truncate")
    /\ UNCHANGED <<lock, pidfile, todo, faults>>

DaemonLock(p) == Acquire(p, "daemon_lock", "daemon_truncate")

DaemonStepsAside(p) == StepAside(p, "daemon_lock")

WritesPid(p, from, content, to) ==
    /\ pc[p] = from
    /\ pidfile' = [pidfile EXCEPT ![dir[p]] = content]
    /\ Goto(p, to)
    /\ UNCHANGED <<lock, todo, faults>>

\* os.WriteFile opens with O_TRUNC, then writes.
DaemonTruncate(p) == WritesPid(p, "daemon_truncate", Empty, "daemon_write")
DaemonWrite(p)    == WritesPid(p, "daemon_write", p, "daemon_notify")

DaemonStep(p, from, to) ==
    /\ pc[p] = from
    /\ Goto(p, to)
    /\ UNCHANGED <<lock, pidfile, todo, faults>>

\* signal.NotifyContext: from here SIGTERM cancels the context.
DaemonNotify(p) == DaemonStep(p, "daemon_notify", "daemon_run")

\* daemon.Run returns once its context is done.
DaemonRunReturns(p) == signalled[p] /\ DaemonStep(p, "daemon_run", "daemon_unhook")

\* mutation: lock.Close runs before os.Remove
DaemonUnhookUnlocks(p) ==
    /\ pc[p] = "daemon_unhook"
    /\ Release(p)
    /\ Goto(p, "daemon_remove")
    /\ UNCHANGED <<pidfile, todo, faults>>

\* The defers, last first: stopSignals, os.Remove(pidPath), lock.Close.
DaemonUnhook(p) == DaemonStep(p, "daemon_unhook", "daemon_remove")

DaemonRemove(p) == WritesPid(p, "daemon_remove", Missing, "daemon_unlock")

DaemonUnlock(p) ==
    /\ pc[p] = "daemon_unlock"
    /\ Exit(p) /\ Release(p)
    /\ UNCHANGED <<pidfile, todo, faults>>

-----------------------------------------------------------------------------
(* stop *)

StopProbe(p) == Acquire(p, "stop_probe", "stop_release")

\* Nobody held the lock: "not running".
StopRelease(p) ==
    /\ pc[p] = "stop_release"
    /\ Exit(p) /\ Release(p)
    /\ UNCHANGED <<pidfile, todo, faults>>

StopFindsLockHeld(p) ==
    /\ pc[p] = "stop_probe" /\ ~LockFree(p)
    /\ Goto(p, "stop_read")
    /\ UNCHANGED <<lock, pidfile, todo, faults>>

\* mutation: a PID file without a number is not noticed
StopReadUnchecked(p) ==
    /\ pc[p] = "stop_read"
    /\ pc' = [pc EXCEPT ![p] = "stop_signal"]
    /\ target' = [target EXCEPT ![p] = pidfile[dir[p]]]
    /\ UNCHANGED <<dir, signalled, job, lock, pidfile, todo, faults>>

\* ReadPID; a file that is missing or still empty is "not running".
StopRead(p) ==
    /\ pc[p] = "stop_read" /\ pidfile[dir[p]] \in Pids
    /\ pc' = [pc EXCEPT ![p] = "stop_signal"]
    /\ target' = [target EXCEPT ![p] = pidfile[dir[p]]]
    /\ UNCHANGED <<dir, signalled, job, lock, pidfile, todo, faults>>

StopReadFails(p) ==
    /\ pc[p] = "stop_read" /\ pidfile[dir[p]] \notin Pids
    /\ Exit(p)
    /\ UNCHANGED <<lock, pidfile, todo, faults>>

\* A daemon between NotifyContext and stopSignals handles SIGTERM.
Handles(p) == pc[p] \in {"daemon_run", "daemon_unhook"}

\* FindProcess and Signal, to whichever process has the PID by now.  The
\* signalled process handles it, or dies of it, or does not exist; stop exits
\* without waiting.
StopSignal(p) ==
    LET q == target[p]
        dead == IF pc[q] = "free" \/ Handles(q) THEN {p} ELSE {p, q}
    IN  /\ pc[p] = "stop_signal"
        /\ pc' = [r \in Pids |-> IF r \in dead THEN "free" ELSE pc[r]]
        /\ target' = [r \in Pids |-> IF r \in dead THEN Nobody ELSE target[r]]
        /\ signalled' = [r \in Pids |-> IF r \in dead THEN FALSE
                                        ELSE signalled[r] \/ (r = q /\ Handles(q))]
        /\ job' = [s \in Shells |-> IF job[s] \in dead THEN Nobody ELSE job[s]]
        /\ lock' = [d \in Dirs |-> IF lock[d] \in dead THEN Nobody ELSE lock[d]]
        /\ UNCHANGED <<dir, pidfile, todo, faults>>

-----------------------------------------------------------------------------
(* The operating system *)

\* A call fails and the process exits with an error: an unreadable state
\* directory, an invalid config, a log that cannot be opened, a PID file that
\* cannot be written.
Fails(p) ==
    /\ pc[p] \in {"start_probe", "start_spawn", "stop_probe", "daemon_lock",
                  "daemon_truncate", "daemon_write"}
    /\ faults < MaxFaults
    /\ faults' = faults + 1
    /\ Exit(p) /\ Release(p)
    /\ UNCHANGED <<pidfile, todo>>

\* kill -9, out of memory, power loss.
Crash(p) ==
    /\ pc[p] # "free"
    /\ faults < MaxFaults
    /\ faults' = faults + 1
    /\ Exit(p) /\ Release(p)
    /\ UNCHANGED <<pidfile, todo>>

\* The error of the deferred os.Remove is ignored: the file stays.
DaemonRemoveFails(p) ==
    /\ pc[p] = "daemon_remove"
    /\ faults < MaxFaults
    /\ faults' = faults + 1
    /\ Goto(p, "daemon_unlock")
    /\ UNCHANGED <<lock, pidfile, todo>>

UnrelatedStarts(p) ==
    /\ p \in Free
    /\ Cardinality({q \in Pids : pc[q] = "unrelated"}) < MaxUnrelated
    /\ Goto(p, "unrelated")
    /\ UNCHANGED <<lock, pidfile, todo, faults>>

UnrelatedEnds(p) ==
    /\ pc[p] = "unrelated"
    /\ Exit(p)
    /\ UNCHANGED <<lock, pidfile, todo, faults>>

Start(p) ==
    \/ StartProbe(p) \/ StartAlreadyRunning(p) \/ StartRelease(p)
    \/ StartSpawn(p) \/ StartExit(p)
Stop(p) ==
    \/ StopProbe(p) \/ StopRelease(p) \/ StopFindsLockHeld(p)
    \/ StopRead(p) \/ StopReadFails(p) \/ StopSignal(p)
RunDaemon(p) ==
    \/ DaemonLock(p) \/ DaemonStepsAside(p) \/ DaemonTruncate(p) \/ DaemonWrite(p)
    \/ DaemonNotify(p) \/ DaemonRunReturns(p) \/ DaemonUnhook(p)
    \/ DaemonRemove(p) \/ DaemonUnlock(p)
Step(p) == Start(p) \/ Stop(p) \/ RunDaemon(p)

Next ==
    \/ \E s \in Shells : Launch(s)
    \/ \E p \in Pids :
          \/ Step(p) \/ Fails(p) \/ DaemonRemoveFails(p) \/ Crash(p)
          \/ UnrelatedStarts(p) \/ UnrelatedEnds(p)

Spec == Init /\ [][Next]_vars

\* Every process is scheduled and every shell gets to its next command.
FairSpec ==
    /\ Spec
    /\ \A s \in Shells : WF_vars(Launch(s))
    /\ \A p \in Pids : WF_vars(Step(p))

-----------------------------------------------------------------------------
(* Properties *)

TypeOK ==
    /\ pc \in [Pids -> {"free", "unrelated"} \cup StartSteps \cup StopSteps \cup DaemonSteps]
    /\ dir \in [Pids -> Dirs]
    /\ target \in [Pids -> Pids \cup {Nobody}]
    /\ \A p \in Pids : pc[p] = "stop_signal" => target[p] \in Pids
    /\ signalled \in [Pids -> BOOLEAN]
    /\ lock \in [Dirs -> Pids \cup {Nobody}]
    /\ pidfile \in [Dirs -> Pids \cup {Missing, Empty}]
    /\ todo \in [Shells -> Seq({"start", "stop"})]
    /\ job \in [Shells -> Pids \cup {Nobody}]
    /\ faults \in 0..MaxFaults

\* Two daemons of one state directory never poll at the same time, through any
\* race of starts, stops and crashes (main.go:107-110).
OnePoller ==
    \A p, q \in Pids : Polling(p) /\ Polling(q) /\ dir[p] = dir[q] => p = q

\* While a daemon polls, and until it has removed the file, its PID file names
\* it: a stop that finds the lock held can reach it, and the file it removes is
\* its own and not a successor's (main.go:120-131).
PidFileNamesDaemon ==
    \A p \in Pids :
        pc[p] \in {"daemon_run", "daemon_unhook", "daemon_remove"} => pidfile[dir[p]] = p

\* A start or a daemon of d that is going to poll, unless something stops it.
Coming(d) ==
    \E p \in Pids :
        /\ dir[p] = d
        /\ pc[p] \in {"start_probe", "start_release", "start_spawn", "daemon_lock",
                      "daemon_truncate", "daemon_write", "daemon_notify", "daemon_run"}
        /\ Polling(p) => ~signalled[p]

\* The lock of d is held by the probe of a stop or by a daemon on its way out.
Ending(d) ==
    \E p \in Pids :
        /\ lock[d] = p
        /\ \/ pc[p] \in {"stop_release", "daemon_unhook", "daemon_remove", "daemon_unlock"}
           \/ Polling(p) /\ signalled[p]

\* A start is not lost to other starts: of those that step aside for one
\* another one gets through.  When nobody is left who will poll, something has
\* failed or was killed, a stop has signalled the last one, or it has met the
\* lock of a stop or of a daemon that was going (main.go:107-118, 135-140).
StartsAreNotLost ==
    [][\A d \in Dirs : Coming(d) /\ ~Coming(d)' =>
          \/ faults' # faults
          \/ \E p \in Pids : StopSignal(p) /\ dir[target[p]] = d
          \/ Ending(d)]_vars

\* Starts alone, however many and however interleaved, end with a daemon that
\* polls: of the hooks that all run `start` some child always wins
\* (main.go:135-140, herdr-plugin.toml:10-15).
StartsYieldDaemon ==
    (\A s \in Shells : todo[s] = <<"start">>) => <>[](\E p \in Pids : Polling(p))

\* A stop that finds the lock of its directory held by a polling daemon ends
\* that daemon (main.go:236-262).
StopEndsDaemon ==
    \A d \in Dirs :
        (\E p, q \in Pids :
            pc[p] = "stop_read" /\ dir[p] = d /\ lock[d] = q /\ Polling(q))
          ~> ~\E q \in Pids : Polling(q) /\ dir[q] = d

\* What makes OnePoller inductive: the lock of a directory is held by p exactly
\* while p is between its successful flock and its close or death.
LockInv ==
    /\ \A p \in Pids : pc[p] \in HoldingSteps => lock[dir[p]] = p
    /\ \A d \in Dirs : lock[d] \in Pids =>
          pc[lock[d]] \in HoldingSteps /\ dir[lock[d]] = d

\* What makes PidFileNamesDaemon inductive: it holds from the write on.
PidInv ==
    \A p \in Pids :
        pc[p] \in {"daemon_notify", "daemon_run", "daemon_unhook", "daemon_remove"} =>
            pidfile[dir[p]] = p

-----------------------------------------------------------------------------
(* What the sources say and the program does not keep *)

\* "if it can be acquired, nothing is running (a stale PID file, if any, is
\* ignored and nothing is signalled); only lock contention (a real daemon
\* holding it) leads to reading the PID file and signalling" (main.go:223-226):
\* a stop that finds the lock held does not turn to a PID file that by then
\* names a process of another program.
StaleFileIgnored ==
    [][\A p \in Pids :
          StopFindsLockHeld(p) /\ pidfile[dir[p]] \in Pids =>
              pc[pidfile[dir[p]]] # "unrelated"]_vars

\* After the restart the README asks for, a daemon polls (README.md:194-198).
RestartYieldsDaemon == <>[](\E p \in Pids : Polling(p))
=============================================================================
