---------------------------- MODULE RunnerBroker ----------------------------
(***************************************************************************)
(* The runner side of the privileged broker, d2b-priv-broker: the pidfd     *)
(* registry keyed by runner id (`<vm>:<role>`), the synchronous accept loop *)
(* that serves SpawnRunner, OpenPidfd, SignalRunner, DeregisterRunnerPidfd  *)
(* and PollChildReaped one at a time, the SIGCHLD reaper thread that runs   *)
(* beside it, and the ring buffer of ChildReaped notifications between      *)
(* them.  The kernel's process table is modelled as far as the broker sees  *)
(* it: a process has a pid, a start time, a parent, and stays a zombie      *)
(* until its parent waits for it; a free pid may be given to any other      *)
(* process of the host.                                                    *)
(*                                                                         *)
(* The registry mutex is held only for single map operations, so the reaper *)
(* and the accept loop interleave between them.                            *)
(***************************************************************************)
EXTENDS Integers, Sequences, FiniteSets

CONSTANTS
    Runner,             \* runner ids
    Pid,                \* process ids
    None,               \* no process / no runner
    MaxTicks,           \* bound: processes started during a behaviour
    ReapCap,            \* CHILD_REAP_BUFFER_CAP
    MaxBrokerRestarts,  \* bound: restarts of the broker service
    Faults              \* the kinds of fault that may happen

ASSUME BoundsAssumption ==
    /\ MaxTicks \in Nat /\ ReapCap \in Nat \ {0} /\ MaxBrokerRestarts \in Nat
    \* a SpawnRunner that fails on the way, a lost or refused request to the
    \* broker, a file that cannot be written
    /\ Faults \subseteq {"spawn", "rpc", "io"}

\* A process instance: what a pidfd refers to and what (pid, start_time_ticks)
\* identifies.
Inst == [pid : Pid, start : 1..MaxTicks]

ASSUME NoneAssumption == None \notin Runner /\ None \notin Inst

VARIABLES
    st,         \* state of the process with each pid
    start,      \* its start time, field 22 of /proc/<pid>/stat
    owner,      \* the runner it was spawned as, None for a process of the host
    child,      \* whether the running broker is its parent
    ticks,      \* start time of the latest process
    registry,   \* runner_pidfd_registry(): the process each pidfd refers to
    late,       \* history: ids whose pidfd was opened on a process already dead
    buffer,     \* child_reap_buffer()
    sigchld,    \* a SIGCHLD the reaper has not received yet
    rpc,        \* the reaper: program counter,
    todo,       \*     ids of this pass not yet visited,
    rid,        \*     the id being visited
    rinst,      \*     and the process its duplicated pidfd refers to
    spc,        \* the accept loop: program counter of the request being served,
    sid,        \*     its runner id,
    sinst,      \*     the process it created or opened
    want,       \*     and the process OpenPidfd was asked for
    restarts    \* restarts of the broker so far

procVars == <<st, start, owner, child, ticks>>
reaperVars == <<rpc, todo, rid, rinst>>
loopVars == <<spc, sid, sinst, want>>
brokerVars == <<procVars, registry, late, buffer, sigchld, reaperVars, loopVars, restarts>>

\* The type invariant of the broker.
BrokerTypeOK ==
    /\ st \in [Pid -> {"none", "running", "zombie"}]
    /\ start \in [Pid -> 0..MaxTicks]
    /\ owner \in [Pid -> Runner \union {None}]
    /\ child \in [Pid -> BOOLEAN]
    /\ ticks \in 0..MaxTicks
    /\ registry \in [Runner -> Inst \union {None}]
    /\ late \subseteq Runner
    /\ buffer \in Seq([id : Runner, pid : Pid]) /\ Len(buffer) <= ReapCap
    /\ sigchld \in BOOLEAN
    /\ rpc \in {"wait", "scan", "waitid", "reaped", "stale", "push"}
    /\ todo \subseteq Runner
    /\ rid \in Runner \union {None}
    /\ rinst \in Inst \union {None}
    /\ spc \in {"accept", "clone", "register", "targeted", "reply", "failed", "verify"}
    /\ sid \in Runner \union {None}
    /\ sinst \in Inst \union {None}
    /\ want \in Inst \union {None}
    /\ restarts \in 0..MaxBrokerRestarts

BrokerInit ==
    /\ st = [p \in Pid |-> "none"]
    /\ start = [p \in Pid |-> 0]
    /\ owner = [p \in Pid |-> None]
    /\ child = [p \in Pid |-> FALSE]
    /\ ticks = 0
    /\ registry = [r \in Runner |-> None]
    /\ late = {}
    /\ buffer = <<>>
    /\ sigchld = FALSE
    /\ rpc = "wait" /\ todo = {} /\ rid = None /\ rinst = None
    /\ spc = "accept" /\ sid = None /\ sinst = None /\ want = None
    /\ restarts = 0
-----------------------------------------------------------------------------
\* The kernel.

\* The process i exists: its pid has not been given back.
Exists(i) == i # None /\ st[i.pid] # "none" /\ start[i.pid] = i.start

\* The process i exists and has not exited.
Alive(i) == Exists(i) /\ st[i.pid] = "running"

\* waitid(P_PIDFD, i, WEXITED|WNOHANG), as the broker: i is reaped, i is a
\* child still running, or ECHILD.
Reapable(i) == Exists(i) /\ child[i.pid] /\ st[i.pid] = "zombie"
StillAlive(i) == Alive(i) /\ child[i.pid]

\* The processes with the pids in ps are gone and their pids are free.
Free(ps) ==
    /\ st' = [p \in Pid |-> IF p \in ps THEN "none" ELSE st[p]]
    /\ start' = [p \in Pid |-> IF p \in ps THEN 0 ELSE start[p]]
    /\ owner' = [p \in Pid |-> IF p \in ps THEN None ELSE owner[p]]

\* A process exits.  A child of the broker becomes a zombie and raises
\* SIGCHLD; any other process is reaped by its own parent.
Exit(p) ==
    /\ st[p] = "running"
    /\ IF child[p]
       THEN /\ st' = [st EXCEPT ![p] = "zombie"]
            /\ sigchld' = TRUE
            /\ UNCHANGED <<start, owner>>
       ELSE Free({p}) /\ UNCHANGED sigchld
    /\ UNCHANGED <<child, ticks, registry, late, buffer, reaperVars, loopVars, restarts>>

\* A process comes into being under a free pid.
Fork(p, o, c) ==
    /\ st[p] = "none"
    /\ ticks < MaxTicks
    /\ ticks' = ticks + 1
    /\ st' = [st EXCEPT ![p] = "running"]
    /\ start' = [start EXCEPT ![p] = ticks + 1]
    /\ owner' = [owner EXCEPT ![p] = o]
    /\ child' = [child EXCEPT ![p] = c]

\* Some other process of the host gets the pid.
HostFork(p) ==
    /\ Fork(p, None, FALSE)
    /\ UNCHANGED <<registry, late, buffer, sigchld, reaperVars, loopVars, restarts>>
-----------------------------------------------------------------------------
\* The SIGCHLD reaper.

\* Mutant: the buffer grows past its cap.
PushedUncapped(n) ==
    Append(buffer, n)

\* push_child_reap_notification: the oldest entry is dropped at the cap.
Pushed(n) ==
    Append(IF Len(buffer) >= ReapCap THEN Tail(buffer) ELSE buffer, n)

\* sigchld.recv() returns; reap_all_pidfds copies the registry's keys.
ReaperWake ==
    /\ rpc = "wait" /\ sigchld
    /\ sigchld' = FALSE
    /\ todo' = {r \in Runner : registry[r] # None}
    /\ rpc' = "scan"
    /\ UNCHANGED <<procVars, registry, late, buffer, rid, rinst, loopVars, restarts>>

\* One id of the pass: duplicate its pidfd under the registry mutex, or skip
\* the id when its entry is gone.
ReaperPick(r) ==
    /\ rpc = "scan" /\ r \in todo
    /\ todo' = todo \ {r}
    /\ IF registry[r] = None
       THEN UNCHANGED <<rpc, rid, rinst>>
       ELSE rpc' = "waitid" /\ rid' = r /\ rinst' = registry[r]
    /\ UNCHANGED <<procVars, registry, late, buffer, sigchld, loopVars, restarts>>

\* The loop body ends and its locals with it.
NextId == rpc' = "scan" /\ rid' = None /\ rinst' = None

\* waitid on the duplicate, outside the mutex.
ReaperWaitid ==
    /\ rpc = "waitid"
    /\ \/ /\ Reapable(rinst)
          /\ Free({rinst.pid})
          /\ child' = [child EXCEPT ![rinst.pid] = FALSE]
          /\ rpc' = "reaped" /\ UNCHANGED <<rid, rinst>>
       \/ StillAlive(rinst) /\ NextId /\ UNCHANGED <<st, start, owner, child>>
       \/ /\ ~Reapable(rinst) /\ ~StillAlive(rinst)
          /\ rpc' = "stale" /\ UNCHANGED <<rid, rinst, st, start, owner, child>>
    /\ UNCHANGED <<ticks, registry, late, buffer, sigchld, todo, loopVars, restarts>>

\* registry.remove(runner_id)
Unregister(r) == registry' = [registry EXCEPT ![r] = None] /\ late' = late \ {r}

\* Remove the id from the registry, whatever process it now stands for; after
\* ECHILD without a notification.
ReaperRemove ==
    /\ rpc \in {"reaped", "stale"}
    /\ Unregister(rid)
    /\ IF rpc = "reaped" THEN rpc' = "push" /\ UNCHANGED <<rid, rinst>> ELSE NextId
    /\ UNCHANGED <<procVars, buffer, sigchld, todo, loopVars, restarts>>

\* remove_and_notify, second half.
ReaperPush ==
    /\ rpc = "push"
    /\ buffer' = Pushed([id |-> rid, pid |-> rinst.pid])
    /\ NextId
    /\ UNCHANGED <<procVars, registry, late, sigchld, todo, loopVars, restarts>>

ReaperDone ==
    /\ rpc = "scan" /\ todo = {}
    /\ rpc' = "wait"
    /\ UNCHANGED <<procVars, registry, late, buffer, sigchld, todo, rid, rinst, loopVars, restarts>>
-----------------------------------------------------------------------------
\* The accept loop.  Serving is the guard of every request.
Serving == spc = "accept"

\* Mutant: a duplicate id is let through.
SpawnUnreserved(r) ==
    /\ Serving
    /\ spc' = "clone" /\ sid' = r
    /\ UNCHANGED <<procVars, registry, late, buffer, sigchld, reaperVars, sinst, want, restarts>>

\* reserve_runner_id_for_spawn lets the request through.
SpawnReserve(r) ==
    /\ Serving
    /\ registry[r] = None
    /\ spc' = "clone" /\ sid' = r
    /\ UNCHANGED <<procVars, registry, late, buffer, sigchld, reaperVars, sinst, want, restarts>>

\* live_spawn_runner: clone3 creates the child.
SpawnClone(p) ==
    /\ spc = "clone"
    /\ Fork(p, sid, TRUE)
    /\ sinst' = [pid |-> p, start |-> ticks + 1]
    /\ spc' = "register"
    /\ UNCHANGED <<registry, late, buffer, sigchld, reaperVars, sid, want, restarts>>

\* A preflight, descriptor or clone3 error before the child exists, or an
\* unreadable /proc/<pid>/stat after it: the error returns at once, and the
\* child of the second case is neither registered nor waited for.
SpawnAborted ==
    /\ \/ "spawn" \in Faults /\ spc \in {"clone", "register"}
       \/ spc = "clone" /\ (ticks = MaxTicks \/ \A p \in Pid : st[p] # "none")
    /\ spc' = "failed"
    /\ UNCHANGED <<procVars, registry, late, buffer, sigchld, reaperVars, sid, sinst, want, restarts>>

\* register_runner_pidfd
SpawnRegister ==
    /\ spc = "register"
    /\ registry' = [registry EXCEPT ![sid] = sinst]
    /\ late' = late \ {sid}
    /\ spc' = "targeted"
    /\ UNCHANGED <<procVars, buffer, sigchld, reaperVars, sid, sinst, want, restarts>>

\* Mutant: the targeted reap after registration is left out.
SpawnNoTargetedReap(next) ==
    /\ spc' = next
    /\ UNCHANGED <<procVars, registry, late, buffer, sigchld, reaperVars, sid, sinst, want, restarts>>

\* targeted_reap_runner: reap a child that exited before it was registered,
\* drop the entry of one the reaper already took, leave a running one alone.
TargetedReap(next) ==
    /\ IF Reapable(sinst)
       THEN /\ Free({sinst.pid})
            /\ child' = [child EXCEPT ![sinst.pid] = FALSE]
            /\ buffer' = Pushed([id |-> sid, pid |-> sinst.pid])
       ELSE UNCHANGED <<st, start, owner, child, buffer>>
    /\ IF StillAlive(sinst) THEN UNCHANGED <<registry, late>> ELSE Unregister(sid)
    /\ spc' = next
    /\ UNCHANGED <<ticks, sigchld, reaperVars, sid, sinst, want, restarts>>

SpawnTargetedReap == spc = "targeted" /\ TargetedReap("reply")

\* register_runner_pidfd failed: reap what can be reaped and report the error.
SpawnRegisterFailed == "spawn" \in Faults /\ spc = "register" /\ TargetedReap("failed")

\* The response is written and the loop accepts the next connection.
Accept == spc' = "accept" /\ sid' = None /\ sinst' = None /\ want' = None

SpawnDone ==
    /\ spc \in {"reply", "failed"}
    /\ Accept
    /\ UNCHANGED <<procVars, registry, late, buffer, sigchld, reaperVars, restarts>>

\* OpenPidfd, and SignalRunner for an id without a pidfd, ask for the process i.
\* live_open_pidfd first opens whatever process has the pid now.
OpenPidfd(r, i) ==
    /\ Serving
    /\ st[i.pid] # "none"
    /\ spc' = "verify" /\ sid' = r /\ want' = i
    /\ sinst' = [pid |-> i.pid, start |-> start[i.pid]]
    /\ UNCHANGED <<procVars, registry, late, buffer, sigchld, reaperVars, restarts>>

\* The start time in /proc/<pid>/stat, where a zombie still has its file.
StartTimeMatches == st[want.pid] # "none" /\ start[want.pid] = want.start

\* Mutant: the pidfd is kept without reading the start time again.
OpenUnverified ==
    /\ spc = "verify"
    /\ registry' = [registry EXCEPT ![sid] = sinst]
    /\ late' = IF Alive(sinst) THEN late \ {sid} ELSE late \union {sid}
    /\ Accept
    /\ UNCHANGED <<procVars, buffer, sigchld, reaperVars, restarts>>

\* Then it compares the start time of the pid with the expected one; on a match
\* the pidfd is registered.
OpenVerified ==
    /\ spc = "verify"
    /\ StartTimeMatches
    /\ registry' = [registry EXCEPT ![sid] = sinst]
    /\ late' = IF Alive(sinst) THEN late \ {sid} ELSE late \union {sid}
    /\ Accept
    /\ UNCHANGED <<procVars, buffer, sigchld, reaperVars, restarts>>

\* PidfdRace, or no stat file.
OpenRaced ==
    /\ spc = "verify"
    /\ ~StartTimeMatches
    /\ Accept
    /\ UNCHANGED <<procVars, registry, late, buffer, sigchld, reaperVars, restarts>>

\* DeregisterRunnerPidfd
Deregister(r) ==
    /\ Serving
    /\ Unregister(r)
    /\ UNCHANGED <<procVars, buffer, sigchld, reaperVars, loopVars, restarts>>

\* PollChildReaped: drain_child_reap_buffer.  The caller gets buffer.
PollChildReaped ==
    /\ Serving
    /\ buffer' = <<>>
    /\ UNCHANGED <<procVars, registry, late, sigchld, reaperVars, loopVars, restarts>>

\* The service restarts.  Its unit has KillMode=process, so the runners live
\* on as children of init, which also waits for the zombies.
BrokerRestart ==
    /\ restarts < MaxBrokerRestarts
    /\ restarts' = restarts + 1
    /\ Free({p \in Pid : st[p] = "zombie"})
    /\ child' = [p \in Pid |-> FALSE]
    /\ registry' = [r \in Runner |-> None]
    /\ late' = {} /\ buffer' = <<>> /\ sigchld' = FALSE
    /\ rpc' = "wait" /\ todo' = {} /\ rid' = None /\ rinst' = None
    /\ Accept
    /\ UNCHANGED ticks
-----------------------------------------------------------------------------
\* The steps the broker and the kernel take by themselves.
ReaperStep ==
    \/ ReaperWake \/ ReaperWaitid \/ ReaperRemove \/ ReaperPush \/ ReaperDone
    \/ \E r \in Runner : ReaperPick(r)

SpawnStep ==
    \/ \E p \in Pid : SpawnClone(p)
    \/ SpawnAborted \/ SpawnRegister \/ SpawnTargetedReap \/ SpawnRegisterFailed

BrokerInternal ==
    \/ \E p \in Pid : Exit(p) \/ HostFork(p)
    \/ ReaperStep
    \/ SpawnStep
    \/ BrokerRestart

\* What a client may know of runner r: a process that was spawned as r, or one
\* that is gone.  It is the environment's side of OpenPidfd.
Recorded(r, i) == i.start <= ticks /\ (Exists(i) => owner[i.pid] = r)

\* The broker with any client that names recorded processes.
BrokerNext ==
    \/ BrokerInternal
    \/ SpawnDone \/ OpenVerified \/ OpenRaced
    \/ PollChildReaped
    \/ \E r \in Runner :
        \/ SpawnReserve(r)
        \/ Deregister(r)
        \/ \E i \in Inst : Recorded(r, i) /\ OpenPidfd(r, i)

BrokerSafety == BrokerInit /\ [][BrokerNext]_brokerVars

\* The reaper thread and a request being served are scheduled again and again.
BrokerFairness ==
    /\ WF_brokerVars(ReaperStep)
    /\ WF_brokerVars(SpawnStep)
    /\ WF_brokerVars(SpawnDone \/ OpenVerified \/ OpenRaced)

BrokerSpec == BrokerSafety /\ BrokerFairness
-----------------------------------------------------------------------------
\* "the returned pidfd is provably bound to the original process": every pidfd in
\* the registry refers to a process spawned under that very id, wherever exits,
\* reaps and reuse of the pid fall between the client's record, pidfd_open and
\* the start-time check.
RegistryIsOwn == \A r \in Runner : registry[r] # None => Recorded(r, registry[r])

\* The id reserved by a SpawnRunner stays free until the request registers its
\* child, so register_runner_pidfd never overwrites a live runner's pidfd.
SpawnNeverOverwrites == spc \in {"clone", "register"} => registry[sid] = None

\* The reap of id r will be attempted: a SIGCHLD is pending, the current pass
\* has r before it or in hand, or the targeted reap is still to come.
ReapPending(r) ==
    \/ sigchld
    \/ r \in todo
    \/ rpc = "waitid" /\ rid = r /\ rinst = registry[r]
    \/ spc = "targeted" /\ sid = r /\ sinst = registry[r]

\* targeted_reap_runner "closes two zombie-leak windows around pidfd
\* registration": a registered child that has exited always has a reap coming,
\* even when its SIGCHLD was consumed by a pass that ran before it was in the
\* registry.  Pidfds opened on a process already dead are set apart.
NoLostReap ==
    \A r \in Runner \ late :
        (registry[r] # None /\ Reapable(registry[r])) => ReapPending(r)

\* A registered child that exits is eventually reaped and its id freed, or its
\* registration is replaced.
ExitedChildIsCleared ==
    \A r \in Runner : \A i \in Inst :
        (registry[r] = i /\ r \notin late /\ Reapable(i)) ~> (registry[r] # i)
=============================================================================
